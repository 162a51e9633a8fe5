-------------------------- MODULE CommanderProofs --------------------------
(* Theorems about Commander: its types, and what reaches the application   *)
(* and the user of what was sent, for every set of angles and every number *)
(* of sessions.                                                            *)
EXTENDS Commander, IpcReceiverProofs

-----------------------------------------------------------------------------
(* Types. *)

SmcTypes ==
    /\ session \in {"closed", "write"} \cup Reading
    /\ requested \in 0 .. FULL_TURN - 1
    /\ expected \in 0 .. M
    /\ back \in Seq(Bytes)
    /\ shown \in [what : Endings, angle : Nat]

McuTypes ==
    /\ job \in Nat \cup {NoJob}
    /\ achieved \in 0 .. R - 1

Counters ==
    /\ opened \in 0 .. Sessions
    /\ garbles \in 0 .. Garbles
    /\ spoiled \in BOOLEAN
    /\ late \in BOOLEAN

TypesInv == IInv /\ SmcTypes /\ McuTypes /\ Counters

LEMMA TypeParts == CommanderTypeOK <=> TypeOK /\ SmcTypes /\ McuTypes /\ Counters
  BY DEF CommanderTypeOK, SmcTypes, McuTypes, Counters

LEMMA CodeNumbers ==
    /\ CommandSize = 3 /\ M \in Nat /\ M >= 3
    /\ R \in Nat /\ R >= 1 /\ R <= 256 /\ FULL_TURN \in Nat /\ FULL_TURN >= 1
    /\ FULL_TURN <= 65536 /\ Sessions \in Nat /\ Garbles \in Nat
<1>1. CommandSize = 3 /\ M \in Nat /\ CommandSize \in 1 .. M
  BY MessagesAssumption, LengthAssumption
<1>2. M >= 3
  BY <1>1
<1>4. R \in Nat /\ R >= 1 /\ R <= 256
  BY MessagesAssumption
<1>5. FULL_TURN \in Nat /\ FULL_TURN >= 1 /\ FULL_TURN <= 65536
  BY MessagesAssumption
<1> QED
  BY <1>1, <1>2, <1>4, <1>5, CommanderAssumption

LEMMA CodeBytes ==
    /\ \A b : b \in Bytes <=> b \in 0 .. 255
    /\ 0 \in Bytes /\ 1 \in Bytes /\ 3 \in Bytes /\ 4 \in Bytes /\ Bytes \subseteq Nat
<1>1. Bytes = 0 .. 255
  BY MessagesAssumption
<1>2. \A b : b \in Bytes <=> b \in 0 .. 255
  BY <1>1, Zenon
<1>3. 0 \in 0 .. 255 /\ 1 \in 0 .. 255 /\ 3 \in 0 .. 255 /\ 4 \in 0 .. 255
  OBVIOUS
<1> QED
  BY <1>2, <1>3, BytesAssumption, Zenon

\* The little-endian bytes of a number.
LEMMA BytesOfNumber ==
    ASSUME NEW n \in Nat, n < 65536
    PROVE  /\ n % 256 \in Bytes /\ n \div 256 \in Bytes
           /\ (n % 256) + 256 * (n \div 256) = n
<1>1. n % 256 \in 0 .. 255 /\ n \div 256 \in 0 .. 255
  OBVIOUS
<1> QED
  BY <1>1, CodeBytes

LEMMA CommandBytes ==
    ASSUME NEW angle \in 0 .. FULL_TURN - 1
    PROVE  /\ Command(angle) \in Seq(Bytes) /\ Len(Command(angle)) = 3 /\ 3 \in Bytes
           /\ Command(angle)[1] = 0 /\ Command(angle)[2] = angle % 256
           /\ Command(angle)[3] = angle \div 256
<1>1. angle \in Nat /\ angle < 65536
  BY CodeNumbers
<1>2. angle % 256 \in Bytes /\ angle \div 256 \in Bytes
  BY <1>1, BytesOfNumber
<1> QED
  BY <1>2, CodeBytes DEF Command

LEMMA ResponseBytes ==
    ASSUME NEW status \in {0, 1}, NEW angle \in Nat, angle < 65536
    PROVE  /\ Response(status, angle) \in Seq(Bytes) /\ Len(Response(status, angle)) = 4
           /\ 4 \in Bytes
           /\ Response(status, angle)[1] = 0 /\ Response(status, angle)[2] = status
           /\ Response(status, angle)[3] = angle % 256
           /\ Response(status, angle)[4] = angle \div 256
<1>1. status \in Bytes
  BY CodeBytes
<1>2. angle % 256 \in Bytes /\ angle \div 256 \in Bytes
  BY BytesOfNumber
<1> QED
  BY <1>1, <1>2, CodeBytes DEF Response

\* A position of eight bits is an angle of sixteen.
LEMMA AngleFits ==
    ASSUME NEW position \in 0 .. 255
    PROVE  ToAngle(position) \in Nat /\ ToAngle(position) < 65536
<1>1. position * FULL_TURN \in Nat /\ position * FULL_TURN <= 255 * FULL_TURN
      /\ 65536 * R \in Nat
  BY CodeNumbers, SMTT(30)
<1> DEFINE a == position * FULL_TURN
<1>2. a \in Nat /\ a < 65536 * R
  <2>1. 255 * FULL_TURN < 65536 * R
    BY MessagesAssumption
  <2> QED
    BY <1>1, <2>1, CodeNumbers
<1> HIDE DEF a
<1>3. a \div R \in Nat /\ a \div R < 65536
  BY <1>2, CodeNumbers, SMTT(30)
<1> QED
  BY <1>3 DEF ToAngle, a

LEMMA PacketOfResponse ==
    ASSUME NEW status \in {0, 1}, NEW position \in 0 .. 255
    PROVE  /\ Packet(Response(status, ToAngle(position))) = PacketOf(Response(status, ToAngle(position)))
           /\ Packet(Response(status, ToAngle(position))) \in Seq(Bytes)
<1> DEFINE data == Response(status, ToAngle(position))
<1>1. data \in Seq(Bytes) /\ Len(data) = 4 /\ 4 \in Bytes
  <2> DEFINE angle == ToAngle(position)
  <2>1. angle \in Nat /\ angle < 65536
    BY AngleFits
  <2>2. data = Response(status, angle)
    OBVIOUS
  <2> HIDE DEF data, angle
  <2>3. Response(status, angle) \in Seq(Bytes) /\ Len(Response(status, angle)) = 4
    BY <2>1, ResponseBytes
  <2> QED
    BY <2>2, <2>3, CodeBytes
<1>2. Packet(data) = PacketOf(data)
  BY DEF Packet, PacketOf
<1> HIDE DEF data
<1>3. PacketOf(data) \in Seq(Bytes)
  BY <1>1, PacketBytes
<1> QED
  BY <1>2, <1>3 DEF data

LEMMA PositionIsByte ==
    ASSUME NEW angle \in Nat
    PROVE  ToPosition(angle) \in 0 .. 255
<1> DEFINE p == (angle * R) \div FULL_TURN
<1>1. angle * R \in Nat
  BY CodeNumbers, SMTT(30)
<1>2. p \in Nat
  BY <1>1, CodeNumbers, SMTT(30)
<1> HIDE DEF p
<1>3. p % 256 \in 0 .. 255
  BY <1>2
<1> QED
  BY <1>3 DEF ToPosition, p

LEMMA TypesInit == CommanderInit => TypesInv
<1> SUFFICES ASSUME CommanderInit PROVE TypesInv
  OBVIOUS
<1>1. IInv
  BY IInvInit DEF CommanderInit
<1>2. SmcTypes
  BY CodeNumbers DEF CommanderInit, SmcTypes, Endings
<1>3. McuTypes
  BY CodeNumbers DEF CommanderInit, McuTypes
<1>4. Counters
  <2>1. opened \in 0 .. Sessions /\ garbles \in 0 .. Garbles
    BY CodeNumbers DEF CommanderInit
  <2>2. spoiled \in BOOLEAN /\ late \in BOOLEAN
    BY DEF CommanderInit
  <2> QED
    BY <2>1, <2>2 DEF Counters
<1> QED
  BY <1>1, <1>2, <1>3, <1>4 DEF TypesInv

\* What a user or main.py does.
LEMMA HostTypes ==
    ASSUME TypesInv,
           \/ \E angle \in Angles : Open(angle) \/ Refuse(angle)
           \/ Smc \/ GiveUp
    PROVE  TypesInv'
<1> USE DEF TypesInv
<1>1. CASE \E angle \in Angles : Open(angle)
  <2>1. IInv' /\ McuTypes'
    BY <1>1, IInvStep DEF Open, McuTypes, application
  <2>2. SmcTypes'
    BY <1>1 DEF Open, SmcTypes, Endings
  <2>3. Counters'
    <3>1. opened' \in 0 .. Sessions
      BY <1>1, CodeNumbers DEF Open, Counters
    <3>2. garbles' \in 0 .. Garbles /\ spoiled' \in BOOLEAN /\ late' \in BOOLEAN
      BY <1>1 DEF Open, Counters
    <3> QED
      BY <3>1, <3>2 DEF Counters
  <2> QED
    BY <2>1, <2>2, <2>3
<1>2. CASE \E angle \in Angles : Refuse(angle)
  <2>1. IInv' /\ McuTypes'
    BY <1>2, IInvStep DEF Refuse, McuTypes, application
  <2>2. SmcTypes'
    BY <1>2 DEF Refuse, Ends, SmcTypes, Endings
  <2>3. Counters'
    BY <1>2, CodeNumbers DEF Refuse, Counters, faults
  <2> QED
    BY <2>1, <2>2, <2>3
<1>3. CASE Write
  <2>1. IInv'
    <3>1. Command(requested) \in Seq(Bytes) /\ Len(Command(requested)) \in Bytes
      BY CommandBytes DEF SmcTypes
    <3> QED
      BY <1>3, <3>1, HostPacketStep DEF Write
  <2>2. SmcTypes'
    BY <1>3 DEF Write, SmcTypes, Reading
  <2>3. McuTypes' /\ Counters'
    BY <1>3 DEF Write, McuTypes, application, Counters, faults
  <2> QED
    BY <2>1, <2>2, <2>3
<1>4. CASE ReadHeader
  <2>1. IInv' /\ McuTypes' /\ Counters'
    BY <1>4, IInvStep DEF ReadHeader, McuTypes, application, Counters, faults
  <2>2. back' \in Seq(Bytes)
    BY <1>4 DEF ReadHeader, SmcTypes
  <2>3. session' \in {"closed", "write"} \cup Reading
    BY <1>4 DEF ReadHeader, Ends, Reading
  <2>4. shown' \in [what : Endings, angle : Nat]
    BY <1>4 DEF ReadHeader, Ends, SmcTypes, Endings
  <2>5. SmcTypes'
    BY <1>4, <2>2, <2>3, <2>4 DEF ReadHeader, SmcTypes
  <2> QED
    BY <2>1, <2>5
<1>5. CASE ReadLength
  <2>1. IInv' /\ McuTypes' /\ Counters'
    BY <1>5, IInvStep DEF ReadLength, McuTypes, application, Counters, faults
  <2>2. back' \in Seq(Bytes) /\ Head(back) \in Nat
    BY <1>5, BytesAssumption, HeadTailProperties DEF ReadLength, SmcTypes
  <2>3. session' \in {"closed", "write"} \cup Reading
    BY <1>5 DEF ReadLength, Ends, Reading
  <2>4. shown' \in [what : Endings, angle : Nat]
    BY <1>5 DEF ReadLength, Ends, SmcTypes, Endings
  <2>5. expected' \in 0 .. M
    BY <1>5, <2>2, CodeNumbers DEF ReadLength, SmcTypes
  <2>6. SmcTypes'
    BY <1>5, <2>2, <2>3, <2>4, <2>5 DEF ReadLength, SmcTypes
  <2> QED
    BY <2>1, <2>6
<1>6. CASE ReadData
  <2>1. IInv' /\ McuTypes' /\ Counters'
    BY <1>6, IInvStep DEF ReadData, McuTypes, application, Counters, faults
  <2>2. back' \in Seq(Bytes)
    BY <1>6, CodeNumbers DEF ReadData, SmcTypes
  <2> DEFINE data == SubSeq(back, 1, expected)
  <2>3. data \in Seq(Bytes)
    BY <1>6, CodeNumbers DEF ReadData, SmcTypes
  <2>4. Report(data) \/ Ends("error", 0)
    BY <1>6 DEF ReadData
  <2> HIDE DEF data
  <2>5. session' = "closed" /\ shown' \in [what : Endings, angle : Nat]
    <3>1. \A i \in 1 .. Len(data) : data[i] \in Nat
      BY <2>3, ElementOfSeq, CodeBytes, Zenon
    <3>2. Len(data) \in Nat
      BY <2>3
    <3>3. (IF Len(data) >= 3 THEN data[3] ELSE 0) \in Nat /\ (IF Len(data) >= 4 THEN data[4] ELSE 0) \in Nat
      BY <3>1, <3>2
    <3>4. (IF Len(data) >= 3 THEN data[3] ELSE 0) + 256 * (IF Len(data) >= 4 THEN data[4] ELSE 0) \in Nat
      BY <3>3
    <3> QED
      BY <2>4, <3>4 DEF Report, Ends, Endings
  <2>6. SmcTypes'
    BY <1>6, <2>2, <2>5 DEF ReadData, SmcTypes
  <2> QED
    BY <2>1, <2>6
<1>7. CASE GiveUp
  <2>1. IInv' /\ McuTypes' /\ Counters'
    BY <1>7, IInvStep DEF GiveUp, McuTypes, application, Counters, faults
  <2>2. SmcTypes'
    BY <1>7 DEF GiveUp, Ends, SmcTypes, Endings
  <2> QED
    BY <2>1, <2>2
<1> QED
  BY <1>1, <1>2, <1>3, <1>4, <1>5, <1>6, <1>7 DEF Smc

LEMMA McuStepTypes ==
    ASSUME TypesInv, Mcu \/ Garble
    PROVE  TypesInv'
<1> USE DEF TypesInv
<1>1. CASE Firmware
  <2>1. IInv'
    BY <1>1, ReceiveStep, MainThreadStep DEF Firmware, MainThread
  <2>2. SmcTypes' /\ McuTypes' /\ Counters'
    BY <1>1 DEF Firmware, smc, application, faults, SmcTypes, McuTypes, Counters
  <2> QED
    BY <2>1, <2>2
<1>2. CASE TakeCommand
  <2>1. IInv'
    BY <1>2, MainThreadStep DEF TakeCommand, MainThread
  <2>2. SmcTypes' /\ Counters'
    BY <1>2 DEF TakeCommand, smc, faults, SmcTypes, Counters
  <2>3. McuTypes'
    <3>1. buffer \in [0 .. M - 1 -> Bytes] /\ command' = [i \in 1 .. CommandSize |-> buffer[i - 1]]
      BY <1>2 DEF IInv, TypeOK, TakeCommand, Deliver
    <3>2. command'[2] = buffer[1] /\ command'[3] = buffer[2]
      BY <3>1, CodeNumbers
    <3>3. buffer[1] \in Nat /\ buffer[2] \in Nat
      <4>1. 1 \in 0 .. M - 1 /\ 2 \in 0 .. M - 1
        BY CodeNumbers
      <4>2. buffer[1] \in Bytes /\ buffer[2] \in Bytes
        BY <3>1, <4>1
      <4> QED
        BY <4>2, CodeBytes
    <3>4. job' \in Nat \cup {NoJob}
      BY <1>2, <3>2, <3>3 DEF TakeCommand, McuTypes
    <3> QED
      BY <1>2, <3>4 DEF TakeCommand, McuTypes
  <2> QED
    BY <2>1, <2>2, <2>3
<1>3. CASE Answer
  <2>1. IInv' /\ Counters'
    BY <1>3, IInvStep DEF Answer, Counters, faults, smc
  <2>2. job \in Nat
    BY <1>3 DEF Answer, McuTypes
  <2> DEFINE position == ToPosition(job)
             status == IF position <= R - 1 THEN 0 ELSE 1
  <2>3. position \in 0 .. 255 /\ status \in {0, 1}
    BY <2>2, PositionIsByte
  <2>4. /\ job' = NoJob /\ achieved' = IF position <= R - 1 THEN position ELSE achieved
        /\ SendDataPacket(Response(status, ToAngle(position)))
        /\ UNCHANGED smc
    BY <1>3 DEF Answer
  <2> HIDE DEF position, status
  <2>5. McuTypes'
    BY <2>3, <2>4, CodeNumbers DEF McuTypes
  <2>6. back' \in Seq(Bytes)
    <3>1. back' = back \/ back' = back \o Packet(Response(status, ToAngle(position)))
      BY <2>4 DEF SendDataPacket
    <3>2. Packet(Response(status, ToAngle(position))) \in Seq(Bytes)
      BY <2>3, PacketOfResponse
    <3>3. back \in Seq(Bytes)
      BY DEF SmcTypes
    <3> QED
      BY <3>1, <3>2, <3>3, ConcatParts, Zenon
  <2>7. SmcTypes'
    BY <2>4, <2>6 DEF smc, SmcTypes
  <2> QED
    BY <2>1, <2>5, <2>7
<1>4. CASE Garble
  <2>1. wire' \in Seq(Bytes) /\ back' \in Seq(Bytes)
    <3>1. wire \in Seq(Bytes) /\ back \in Seq(Bytes) /\ Replacements \subseteq Bytes
      BY CommanderAssumption DEF IInv, WireOfBytes, SmcTypes
    <3>2. \E b \in Bytes, i \in Nat :
             \/ i \in 1 .. Len(wire) /\ wire' = [wire EXCEPT ![i] = b] /\ back' = back
             \/ i \in 1 .. Len(back) /\ back' = [back EXCEPT ![i] = b] /\ wire' = wire
      BY <1>4, <3>1 DEF Garble
    <3> QED
      BY <3>1, <3>2
  <2>2. UNCHANGED <<rx, buffer, queue, pc, offset, crc, frame, smc, application, opened>>
    BY <1>4 DEF Garble, main
  <2>3. IInv'
    BY <2>1, <2>2, FrameKept DEF IInv, TypeOK, WireOfBytes, ReadsInside
  <2>4. SmcTypes' /\ McuTypes'
    BY <2>1, <2>2 DEF smc, application, SmcTypes, McuTypes
  <2>5. Counters'
    BY <1>4, <2>2, CodeNumbers DEF Garble, Counters, smc
  <2> QED
    BY <2>3, <2>4, <2>5
<1> QED
  BY <1>1, <1>2, <1>3, <1>4 DEF Mcu

LEMMA TypesStep == TypesInv /\ [CommanderNext]_commanderVars => TypesInv'
<1> SUFFICES ASSUME TypesInv, [CommanderNext]_commanderVars PROVE TypesInv'
  OBVIOUS
<1>1. CASE UNCHANGED commanderVars
  BY <1>1, IInvStep DEF commanderVars, smc, application, faults, TypesInv, SmcTypes, McuTypes,
     Counters
<1> QED
  BY <1>1, HostTypes, McuStepTypes DEF CommanderNext, Smc, Mcu

\* main.py, the application and the line keep their types; with bytes garbled, too, the
\* receiver reads and writes inside its buffer.
THEOREM CommanderTypeCorrect == CommanderSpec => [](CommanderTypeOK /\ InBounds)
<1>1. TypesInv => CommanderTypeOK
  BY TypeParts DEF TypesInv, IInv
<1>2. TypesInv => InBounds
  BY BoundedBy DEF TypesInv
<1> QED
  BY <1>1, <1>2, TypesInit, TypesStep, PTL DEF CommanderSpec

-----------------------------------------------------------------------------
(* What a garbled byte does to a packet.                                   *)

\* The checksum tells apart what differs in one byte.
Cancels ==
    \A a, b, c \in Bytes : (Xor(a, b) = Xor(a, c) => b = c) /\ (Xor(b, a) = Xor(c, a) => b = c)

LEMMA ChecksumDetects ==
    ASSUME Cancels, NEW d \in Seq(Bytes), NEW e \in Seq(Bytes), Len(d) = Len(e),
           NEW j \in 1 .. Len(d), d[j] # e[j],
           \A i \in 1 .. Len(d) : i # j => d[i] = e[i]
    PROVE  XorCrc(d) # XorCrc(e)
<1> DEFINE n == Len(d)
           S == {i \in Nat : i <= n => (Sum(d, i) = Sum(e, i) <=> i < j)}
<1>1. n \in Nat /\ j \in Nat /\ j >= 1 /\ j <= n
  OBVIOUS
<1>2. 0 \in S
  BY <1>1, SumStep
<1>3. ASSUME NEW i \in Nat, i \in S PROVE i + 1 \in S
  <2> SUFFICES ASSUME i + 1 <= n PROVE Sum(d, i + 1) = Sum(e, i + 1) <=> i + 1 < j
    OBVIOUS
  <2>1. i \in 0 .. n /\ i + 1 \in 1 .. n
    BY <1>1
  <2>2. Sum(d, i) \in Bytes /\ Sum(e, i) \in Bytes /\ d[i + 1] \in Bytes /\ e[i + 1] \in Bytes
    BY <2>1, SumIsByte
  <2>3. /\ Sum(d, i + 1) = Xor(Sum(d, i), d[i + 1])
        /\ Sum(e, i + 1) = Xor(Sum(e, i), e[i + 1])
    BY SumStep
  <2>4. Sum(d, i) = Sum(e, i) <=> i < j
    BY <1>3, <2>1
  <2>5. CASE i + 1 = j
    <3>1. Sum(d, i) = Sum(e, i) /\ d[i + 1] # e[i + 1]
      BY <2>4, <2>5
    <3>2. Sum(d, i + 1) # Sum(e, i + 1)
      BY <2>2, <2>3, <3>1, Zenon DEF Cancels
    <3> QED
      BY <2>5, <3>2
  <2>6. CASE i + 1 # j
    <3>1. d[i + 1] = e[i + 1] /\ (i < j <=> i + 1 < j)
      BY <1>1, <2>1, <2>6
    <3>2. Sum(d, i + 1) = Sum(e, i + 1) <=> Sum(d, i) = Sum(e, i)
      BY <2>2, <2>3, <3>1, Zenon DEF Cancels
    <3> QED
      BY <2>4, <3>1, <3>2
  <2> QED
    BY <2>5, <2>6
<1> HIDE DEF S
<1>4. n \in S
  BY <1>1, <1>2, <1>3, SetInduction
<1>5. Sum(d, n) # Sum(e, n)
  BY <1>1, <1>4 DEF S
<1> QED
  BY <1>5, XorCrcIsSum

\* t is s with the byte at i garbled.
Garbled(s, t, i) ==
    i \in (1 .. Len(s)) \ {3} /\ \E b \in Bytes : s[i] # b /\ t = [s EXCEPT ![i] = b]

LEMMA GarbledBytes ==
    ASSUME NEW s \in Seq(Bytes), NEW t, NEW i, Garbled(s, t, i)
    PROVE  /\ t \in Seq(Bytes) /\ Len(t) = Len(s) /\ i \in 1 .. Len(s) /\ i # 3
           /\ t[i] # s[i]
           /\ \A k \in 1 .. Len(s) : k # i => t[k] = s[k]
  BY DEF Garbled

\* A packet, and what one garbled byte makes of it.
Versions(n, q) == {p \in Seq(Bytes) : p = q \/ (n # 0 /\ \E i \in 1 .. Len(q) : Garbled(q, p, i))}

LEMMA VersionBytes ==
    ASSUME NEW n, NEW data \in Seq(Bytes), Len(data) \in Bytes,
           NEW p \in Versions(n, PacketOf(data))
    PROVE  /\ p \in Seq(Bytes) /\ Len(p) = Len(data) + 4 /\ p[3] = Len(data)
           /\ p = PacketOf(data) \/ \E i \in 1 .. Len(data) + 4 : Garbled(PacketOf(data), p, i)
<1> DEFINE q == PacketOf(data)
<1>1. q \in Seq(Bytes) /\ Len(q) = Len(data) + 4 /\ q[3] = Len(data) /\ Len(data) \in Nat
  BY PacketBytes
<1>2. p = q \/ \E i \in 1 .. Len(data) + 4 : Garbled(q, p, i)
  BY <1>1 DEF Versions
<1> HIDE DEF q
<1>3. ASSUME NEW i, Garbled(q, p, i)
      PROVE  p \in Seq(Bytes) /\ Len(p) = Len(data) + 4 /\ p[3] = Len(data)
  <2>1. 3 \in 1 .. Len(q)
    BY <1>1
  <2> QED
    BY <1>1, <1>3, <2>1, GarbledBytes
<1> QED
  BY <1>1, <1>2, <1>3 DEF q

LEMMA ItselfVersion ==
    ASSUME NEW n, NEW q \in Seq(Bytes)
    PROVE  q \in Versions(n, q) /\ Versions(0, q) = {q}
  BY DEF Versions

LEMMA GarbledVersion ==
    ASSUME NEW n, n # 0, NEW q \in Seq(Bytes), NEW p, NEW i, Garbled(q, p, i)
    PROVE  p \in Versions(n, q)
  BY GarbledBytes DEF Versions

\* A version of a packet whose checksum is right has the data of the packet.
LEMMA VersionChecked ==
    ASSUME Cancels, NEW n, NEW data \in Seq(Bytes), Len(data) \in Bytes,
           NEW p \in Versions(n, PacketOf(data)),
           XorCrc(DataOf(p)) = p[Len(p)]
    PROVE  DataOf(p) = data
<1> DEFINE q == PacketOf(data)
           k == Len(data)
<1>1. /\ p \in Seq(Bytes) /\ Len(p) = k + 4 /\ p[3] = k
      /\ p = q \/ \E j \in 1 .. k + 4 : Garbled(q, p, j)
  BY VersionBytes
<1>2. /\ q \in Seq(Bytes) /\ Len(q) = k + 4 /\ q[3] = k /\ k \in Nat
      /\ \A i \in 1 .. k : q[3 + i] = data[i]
      /\ q[k + 4] = XorCrc(data)
  BY PacketBytes
<1>3. DataOf(p) \in Seq(Bytes) /\ Len(DataOf(p)) = k /\ \A i \in 1 .. k : DataOf(p)[i] = p[3 + i]
  <2>1. \A i \in 1 .. k : p[3 + i] \in Bytes
    BY <1>1, <1>2
  <2>2. DataOf(p) = [i \in 1 .. k |-> p[3 + i]]
    BY <1>1 DEF DataOf
  <2> QED
    BY <1>2, <2>1, <2>2
<1> HIDE DEF q
<1>4. (\A i \in 1 .. k : p[3 + i] = data[i]) => DataOf(p) = data
  BY <1>3
<1>5. CASE p = q
  BY <1>2, <1>4, <1>5
<1>6. ASSUME NEW j \in 1 .. k + 4, Garbled(q, p, j)
      PROVE  DataOf(p) = data
  <2>1. j \in 1 .. k + 4 /\ j # 3 /\ p[j] # q[j] /\ \A i \in 1 .. k + 4 : i # j => p[i] = q[i]
    BY <1>2, <1>6, GarbledBytes
  <2>2. CASE j < 3 \/ j = k + 4
    <3>1. ASSUME NEW i \in 1 .. k PROVE p[3 + i] = q[3 + i]
      <4>1. 3 + i \in 1 .. k + 4 /\ 3 + i # j
        BY <1>2, <2>1, <2>2
      <4> QED
        BY <2>1, <4>1
    <3> QED
      BY <1>2, <1>4, <3>1
  <2>3. CASE j > 3 /\ j # k + 4
    <3>1. j - 3 \in 1 .. k /\ 3 + (j - 3) = j
      BY <1>2, <2>1, <2>3
    <3>2. DataOf(p)[j - 3] # data[j - 3]
      BY <1>2, <1>3, <2>1, <2>3, <3>1
    <3>3. \A i \in 1 .. k : i # j - 3 => DataOf(p)[i] = data[i]
      <4> SUFFICES ASSUME NEW i \in 1 .. k, i # j - 3 PROVE DataOf(p)[i] = data[i]
        OBVIOUS
      <4>1. 3 + i \in 1 .. k + 4 /\ 3 + i # j
        BY <1>2, <2>1
      <4> QED
        BY <1>2, <1>3, <2>1, <4>1
    <3>4. p[k + 4] = q[k + 4]
      <4>1. k + 4 \in 1 .. k + 4
        BY <1>2
      <4> QED
        BY <2>1, <2>3, <4>1
    <3>5. XorCrc(DataOf(p)) = XorCrc(data)
      BY <1>1, <1>2, <3>4
    <3>6. XorCrc(DataOf(p)) # XorCrc(data)
      BY <1>3, <3>1, <3>2, <3>3, ChecksumDetects
    <3> QED
      BY <3>5, <3>6
  <2> QED
    BY <2>1, <2>2, <2>3
<1> QED
  BY <1>1, <1>5, <1>6

-----------------------------------------------------------------------------
(* What a session goes through.                                            *)

Asking(angle) == PacketOf(Command(angle))

Answering(angle) == PacketOf(Response(0, ToAngle(ToPosition(angle))))

Turn == 0 .. FULL_TURN - 1

\* A command comes, perhaps with a byte of its data or its checksum garbled.
Carrying ==
    /\ \E angle \in Turn : sent = Command(angle)
    /\ \E p \in Versions(garbles, PacketOf(sent)) :
          /\ Framed(p)
          /\ (Transit(p) /\ pc = "idle") \/ Handled(p)

\* Of a packet the checksum comes last.
Trailing ==
    /\ sent # <<>>
    /\ wire # <<>> => wire[Len(wire)] = XorCrc(sent)
    /\ wire = <<>> /\ rx.header = 1 => XorCrc(sent) = LSB

\* The receiver is out of step: it will see no header in what comes.
Astray ==
    /\ garbles >= 1 /\ Trailing
    /\ queue = <<>> /\ pc = "idle" /\ rx.state = "IDLE"
    /\ wire # <<>> /\ rx.header = 1 => wire[1] # MSB
    /\ \A i \in 1 .. Len(wire) - 1 :
          wire[i] = LSB /\ wire[i + 1] = MSB => i = 1 /\ rx.header = 1

Still == wire = <<>> /\ (Silent \/ Spent \/ Astray)

\* The line and the receiver, whatever the sessions do.
OnLine == Still \/ Astray \/ Carrying

Opened == session = "write" /\ job = NoJob /\ Still /\ back = <<>>

\* The command is on its way, or lost.
Asked ==
    /\ session = "header" /\ job = NoJob /\ back = <<>>
    /\ (Carrying /\ sent = Command(requested)) \/ Astray \/ Still

Executing == session = "header" /\ job = requested /\ Still /\ back = <<>>

\* The motor was driven where the command said, and the response is on its way.
Answered ==
    /\ session \in Reading /\ job = NoJob /\ Still
    /\ achieved = ToPosition(requested)
    /\ \E q \in Versions(garbles, Answering(requested)) :
          /\ session = "header" => back = q
          /\ session = "length" => back = SubSeq(q, 3, 8)
          /\ session = "data" => back = SubSeq(q, 4, 8) /\ expected = 4

\* A session that was opened when the one before was over.
SessionInv == session = "closed" \/ late \/ Opened \/ Asked \/ Executing \/ Answered

-----------------------------------------------------------------------------
(* The receiver, with the line idle or out of step. *)

LEMMA AstrayStep ==
    ASSUME TypesInv, Astray, Receive \/ MainThread, garbles' = garbles
    PROVE  Astray' /\ UNCHANGED <<pc, sent, command>> /\ pc = "idle"
<1> DEFINE b == Head(wire)
<1>1. Receive
  BY DEF Astray, MainThread, StartPostProcessing, AddByte, CheckCrc, Deliver,
     FinishPostProcessing
<1>2. /\ wire # <<>> /\ wire' = Tail(wire) /\ UNCHANGED <<pc, sent, command>>
      /\ Idle(b) /\ rx.state = "IDLE" /\ queue = <<>> /\ pc = "idle"
  BY <1>1 DEF Receive, Astray, main, GetDataLength, GetData, GetDataCrc
<1>3. wire \in Seq(Bytes) /\ rx \in RxStates
  BY DEF TypesInv, IInv, WireOfBytes, TypeOK
<1>4. /\ b = wire[1] /\ wire' \in Seq(Bytes) /\ Len(wire) \in Nat /\ Len(wire) >= 1
      /\ Len(wire') = Len(wire) - 1
      /\ \A i \in 1 .. Len(wire) - 1 : wire'[i] = wire[i + 1]
  BY <1>2, <1>3
<1>5. rx.header = 1 => b # MSB
  BY <1>2, <1>4 DEF Astray
<1>6. rx'.state = "IDLE" /\ rx'.header = (IF rx.header = 0 /\ b = LSB THEN 1 ELSE 0) /\ queue' = queue
  BY <1>2, <1>3, <1>5 DEF Idle, RxStates
<1> HIDE DEF b
<1>7. ASSUME NEW i \in 1 .. Len(wire) - 1, wire[i] = LSB, wire[i + 1] = MSB
      PROVE  i = 1 /\ rx.header = 1
  BY <1>7 DEF Astray
<1>8. wire' # <<>> /\ rx'.header = 1 => wire'[1] # MSB
  <2> SUFFICES ASSUME wire' # <<>>, rx'.header = 1, wire'[1] = MSB PROVE FALSE
    OBVIOUS
  <2>1. rx.header = 0 /\ wire[1] = LSB /\ 1 \in 1 .. Len(wire) - 1
    BY <1>4, <1>6
  <2>2. wire[1 + 1] = MSB
    BY <1>4, <2>1
  <2> QED
    BY <1>7, <2>1, <2>2
<1>9. ASSUME NEW i \in 1 .. Len(wire') - 1, wire'[i] = LSB, wire'[i + 1] = MSB PROVE FALSE
  <2>1. i \in 1 .. Len(wire) - 1 /\ i + 1 \in 1 .. Len(wire) - 1
    BY <1>4
  <2>2. wire[i + 1] = LSB /\ wire[(i + 1) + 1] = MSB
    BY <1>4, <1>9, <2>1
  <2>3. i + 1 = 1
    BY <1>7, <2>1, <2>2
  <2> QED
    BY <2>1, <2>3
<1>10. garbles' >= 1 /\ queue' = <<>> /\ pc' = "idle"
  BY <1>2, <1>6 DEF Astray
<1>11. Trailing'
  <2>1. sent' = sent /\ sent # <<>> /\ wire[Len(wire)] = XorCrc(sent)
    BY <1>2 DEF Astray, Trailing
  <2>2. ASSUME wire' # <<>> PROVE wire'[Len(wire')] = XorCrc(sent')
    <3>1. Len(wire') \in 1 .. Len(wire) - 1 /\ Len(wire') + 1 = Len(wire)
      BY <1>4, <2>2
    <3> QED
      BY <1>4, <2>1, <3>1
  <2>3. ASSUME wire' = <<>>, rx'.header = 1 PROVE XorCrc(sent') = LSB
    <3>1. Len(wire) = 1 /\ b = LSB
      BY <1>4, <1>6, <2>3
    <3> QED
      BY <1>4, <2>1, <3>1
  <2> QED
    BY <2>1, <2>2, <2>3 DEF Trailing
<1> QED
  BY <1>2, <1>6, <1>8, <1>9, <1>10, <1>11 DEF Astray

LEMMA StillStep ==
    ASSUME TypesInv, Still, Receive \/ MainThread, garbles' = garbles
    PROVE  Still' /\ UNCHANGED <<sent, command>> /\ pc # "deliver"
<1>1. MainThread
  BY DEF Still, Receive
<1>2. CASE Silent
  BY <1>1, <1>2, SilentStep
<1>3. CASE Spent
  <2>1. Silent' /\ UNCHANGED <<wire, sent, command>>
    BY <1>1, <1>3, SpentStep DEF TypesInv
  <2> QED
    BY <1>3, <2>1 DEF Still, Spent
<1>4. CASE Astray
  BY <1>1, <1>4 DEF Astray, MainThread, StartPostProcessing, AddByte, CheckCrc, Deliver,
     FinishPostProcessing
<1> QED
  BY <1>2, <1>3, <1>4 DEF Still

\* A step that leaves the receiver and the line alone.
LEMMA StillKept ==
    ASSUME Still, UNCHANGED vars, garbles' = garbles
    PROVE  Still'
  BY DEF Still, Silent, Spent, Astray, Trailing, vars

LEMMA AstrayKept ==
    ASSUME Astray, UNCHANGED vars, garbles' = garbles
    PROVE  Astray'
  BY DEF Astray, Trailing, vars

LEMMA CarryingKept ==
    ASSUME Carrying, UNCHANGED vars, garbles' = garbles
    PROVE  Carrying'
<1>1. PICK p \in Versions(garbles, PacketOf(sent)) :
          Framed(p) /\ ((Transit(p) /\ pc = "idle") \/ Handled(p))
  BY DEF Carrying
<1>2. (Transit(p) /\ pc = "idle")' \/ Handled(p)'
  BY <1>1 DEF Transit, Handled, Arrived, vars
<1>3. sent' = sent
  BY DEF vars
<1> QED
  BY <1>1, <1>2, <1>3 DEF Carrying

-----------------------------------------------------------------------------
(* The command, from main.py to the application. *)

LEMMA AskingBytes ==
    ASSUME NEW angle \in 0 .. FULL_TURN - 1
    PROVE  /\ Command(angle) \in Seq(Bytes) /\ Len(Command(angle)) = 3 /\ 3 \in Bytes
           /\ Asking(angle) \in Seq(Bytes) /\ Len(Asking(angle)) = 7
           /\ Asking(angle)[1] = LSB /\ Asking(angle)[2] = MSB /\ Asking(angle)[3] = 3
           /\ Asking(angle)[4] = 0 /\ Asking(angle)[5] = angle % 256
           /\ Asking(angle)[6] = angle \div 256
           /\ Asking(angle)[7] = XorCrc(Command(angle))
           /\ Framed(Asking(angle))
<1> DEFINE data == Command(angle)
<1>1. /\ data \in Seq(Bytes) /\ Len(data) = 3 /\ 3 \in Bytes
      /\ data[1] = 0 /\ data[2] = angle % 256 /\ data[3] = angle \div 256
  BY CommandBytes
<1>2. 3 \in 1 .. M
  BY CodeNumbers
<1> HIDE DEF data
<1>3. Framed(PacketOf(data))
  BY <1>1, <1>2, PacketFramed
<1>4. /\ PacketOf(data) \in Seq(Bytes) /\ Len(PacketOf(data)) = 3 + 4
      /\ PacketOf(data)[1] = LSB /\ PacketOf(data)[2] = MSB /\ PacketOf(data)[3] = 3
      /\ \A i \in 1 .. 3 : PacketOf(data)[3 + i] = data[i]
      /\ PacketOf(data)[3 + 4] = XorCrc(data)
  BY <1>1, PacketBytes
<1>5. PacketOf(data)[3 + 1] = data[1] /\ PacketOf(data)[3 + 2] = data[2]
      /\ PacketOf(data)[3 + 3] = data[3]
  BY <1>4
<1>6. Asking(angle) = PacketOf(data)
  BY DEF Asking, data
<1> QED
  BY <1>1, <1>3, <1>4, <1>5, <1>6 DEF data

\* The bytes of the header are apart from each other and from what else a packet of
\* the commander begins with, and an angle's high byte is below both.
HeaderApart ==
    /\ LSB # MSB /\ LSB # 3 /\ MSB # 3
    /\ FULL_TURN <= 256 * LSB /\ FULL_TURN <= 256 * MSB

\* A command has its header at its start only.
LEMMA HeaderOnce ==
    ASSUME HeaderApart, NEW angle \in 0 .. FULL_TURN - 1, NEW i \in 2 .. 6
    PROVE  ~(Asking(angle)[i] = LSB /\ Asking(angle)[i + 1] = MSB)
<1> DEFINE q == Asking(angle)
           high == angle \div 256
<1>1. q[2] = MSB /\ q[3] = 3 /\ q[4] = 0 /\ q[6] = high
  BY AskingBytes
<1>2. LSB \in Nat /\ MSB \in Nat /\ angle \in Nat /\ high \in Nat /\ FULL_TURN \in Nat
      /\ LSB # MSB /\ LSB # 3 /\ angle < FULL_TURN
      /\ FULL_TURN <= 256 * LSB /\ FULL_TURN <= 256 * MSB
  BY BytesAssumption, CodeNumbers DEF HeaderApart
<1>3. high # LSB /\ high # MSB /\ 0 # LSB
  <2>1. 256 * high <= angle
    BY <1>2
  <2> HIDE DEF high
  <2> QED
    BY <1>2, <2>1
<1> HIDE DEF q, high
<1>4. i = 2 \/ i = 3 \/ i = 4 \/ i = 5 \/ i = 6
  OBVIOUS
<1> QED
  BY <1>1, <1>2, <1>3, <1>4 DEF q

\* What main.py writes is on its way, unless the receiver is waiting for the second
\* byte of a header.
LEMMA WriteStep ==
    ASSUME TypesInv, HeaderApart, Paced, Still, Write
    PROVE  (Carrying /\ sent = Command(requested))' \/ Astray'
<1> DEFINE q == Asking(requested)
<1>1. requested \in 0 .. FULL_TURN - 1 /\ IInv
  BY DEF TypesInv, SmcTypes
<1>2. /\ Framed(q) /\ q \in Seq(Bytes) /\ Len(q) = 7 /\ q[1] = LSB
      /\ Command(requested) \in Seq(Bytes) /\ Len(Command(requested)) \in Bytes
  BY <1>1, AskingBytes
<1>3. /\ HostPacket(Command(requested)) /\ requested' = requested /\ garbles' = garbles
      /\ wire' = q /\ sent' = Command(requested) /\ pc = "idle" /\ queue = <<>>
      /\ UNCHANGED <<rx, queue, pc, frame>>
  BY DEF Write, faults, HostPacket, Asking, PacketOf, receiver, main
<1>4. Silent \/ Astray
  BY <1>3 DEF Still, Spent
<1>5. CASE frame = <<>>
  <2>1. Transit(q)'
    BY <1>1, <1>2, <1>3, <1>5, PacketSent DEF Asking
  <2>2. q \in Versions(garbles', PacketOf(sent'))
    BY <1>2, <1>3, ItselfVersion DEF Asking
  <2>3. \E angle \in Turn : sent' = Command(angle)
    BY <1>1, <1>3 DEF Turn
  <2>4. Carrying'
    BY <1>2, <1>3, <2>1, <2>2, <2>3 DEF Carrying
  <2> QED
    BY <1>3, <2>4
<1>6. CASE frame # <<>>
  <2>1. Astray
    BY <1>4, <1>6 DEF Silent
  <2>2. rx.header = 1
    <3>1. rx.state = "IDLE" /\ Len(frame) = rx.header /\ frame \in Seq(Bytes)
      BY <1>1, <2>1 DEF Astray, IInv, FrameOK, FrameIdle
    <3>2. Len(frame) # 0
      BY <1>6, <3>1
    <3> QED
      BY <1>1, <3>1, <3>2, RxFields DEF IInv, TypeOK
  <2>3. LSB # MSB
    BY DEF HeaderApart
  <2>4. ASSUME NEW i \in 1 .. Len(q) - 1, q[i] = LSB, q[i + 1] = MSB PROVE i = 1
    <3>1. i \in 2 .. 6 \/ i = 1
      BY <1>2
    <3> QED
      BY <1>1, <2>4, <3>1, HeaderOnce
  <2>5. Len(sent') = 3 /\ q[7] = XorCrc(sent')
    <3>1. Len(Command(requested)) = 3 /\ q[7] = XorCrc(Command(requested))
      BY <1>1, AskingBytes
    <3> QED
      BY <1>3, <3>1
  <2> HIDE DEF q
  <2>6. Trailing'
    <3>1. sent' # <<>>
      BY <2>5
    <3>2. wire' = q
      BY <1>3
    <3>3. Len(wire') = 7 /\ wire'[7] = XorCrc(sent')
      BY <1>2, <2>5, <3>2
    <3> QED
      BY <3>1, <3>3 DEF Trailing
  <2> QED
    BY <1>2, <1>3, <2>1, <2>2, <2>3, <2>4, <2>6 DEF Astray
<1> QED
  BY <1>5, <1>6

\* It is received byte by byte, checked, and handed to the application as it was sent.
LEMMA CarryingStep ==
    ASSUME TypesInv, Cancels, Carrying, Receive \/ MainThread, garbles' = garbles
    PROVE  /\ pc # "deliver" =>
                /\ (Carrying' /\ sent' = sent) \/ Still'
                /\ UNCHANGED command
           /\ pc = "deliver" => Still' /\ command' = sent
<1>1. PICK p \in Versions(garbles, PacketOf(sent)) :
          Framed(p) /\ ((Transit(p) /\ pc = "idle") \/ Handled(p))
  BY DEF Carrying
<1>2. /\ IInv /\ sent \in Seq(Bytes) /\ Len(sent) = 3 /\ 3 \in Bytes
      /\ CommandSize = 3
  BY AskingBytes, CodeNumbers DEF TypesInv, Carrying, Turn
<1>3. sent' = sent => p \in Versions(garbles', PacketOf(sent'))
  BY <1>1
<1>4. CASE Transit(p) /\ pc = "idle"
  <2>1. Receive
    BY <1>4 DEF Transit, MainThread, StartPostProcessing, AddByte, CheckCrc, Deliver,
       FinishPostProcessing
  <2>2. (Transit(p) \/ Arrived(p))' /\ UNCHANGED <<pc, sent, command>>
    BY <1>1, <1>2, <1>4, <2>1, TransitStep DEF main
  <2>3. pc' = "idle" /\ (Arrived(p)' => Handled(p)')
    BY <1>4, <2>2 DEF Handled
  <2>4. Carrying'
    <3>1. \E angle \in Turn : sent' = Command(angle)
      BY <2>2 DEF Carrying
    <3> QED
      BY <1>1, <1>3, <2>2, <2>3, <3>1 DEF Carrying
  <2> QED
    BY <1>4, <2>2, <2>4
<1>5. CASE Handled(p)
  <2>1. MainThread
    BY <1>5 DEF Handled, Arrived, Receive
  <2>2. /\ (Handled(p) \/ Spent)' /\ UNCHANGED wire
        /\ pc # "deliver" => UNCHANGED <<sent, command>>
        /\ pc = "deliver" =>
              /\ Spent' /\ XorCrc(DataOf(p)) = p[Len(p)]
              /\ command' = [i \in 1 .. CommandSize |-> buffer[i - 1]]
    BY <1>1, <1>2, <1>5, <2>1, HandledStep
  <2>3. Handled(p)' /\ sent' = sent => Carrying'
    BY <1>1, <1>3 DEF Carrying
  <2>4. Spent' => Still'
    BY DEF Still, Spent
  <2>5. ASSUME pc = "deliver" PROVE command' = sent
    <3>1. DataOf(p) = sent
      BY <1>1, <1>2, <2>2, <2>5, VersionChecked
    <3>2. p[3] = 3 /\ \A i \in 1 .. 3 : buffer[i - 1] = p[3 + i]
      <4>1. Len(DataOf(p)) = p[3]
        BY <1>1, FramedData
      <4> QED
        BY <1>2, <1>5, <3>1, <4>1 DEF Handled, Arrived
    <3>3. DataOf(p) = [i \in 1 .. 3 |-> p[3 + i]]
      BY <3>2 DEF DataOf
    <3>4. command' = [i \in 1 .. 3 |-> buffer[i - 1]]
      BY <1>2, <2>2, <2>5
    <3> QED
      BY <3>1, <3>2, <3>3, <3>4
  <2> QED
    BY <2>2, <2>3, <2>4, <2>5
<1> QED
  BY <1>1, <1>4, <1>5

\* A garbled header leaves the receiver out of step, and another byte to be checked.
LEMMA GarbleCommand ==
    ASSUME TypesInv, HeaderApart, Carrying, garbles = 0, garbles' = 1,
           UNCHANGED <<rx, buffer, queue, pc, frame, sent>>,
           Len(wire) = PacketSize(sent), NEW i, Garbled(wire, wire', i)
    PROVE  Carrying' \/ Astray'
<1>0. PICK angle \in Turn : sent = Command(angle)
  BY DEF Carrying
<1> DEFINE q == Asking(angle)
<1>1. angle \in 0 .. FULL_TURN - 1 /\ IInv
  BY DEF TypesInv, Turn
<1>2. /\ Framed(q) /\ q \in Seq(Bytes) /\ Len(q) = 7 /\ q[1] = LSB /\ q[2] = MSB /\ q[3] = 3
  BY <1>1, AskingBytes
<1>3. Len(wire) = 7 /\ wire # <<>> /\ wire \in Seq(Bytes)
  <2>1. Len(sent) = 3
    BY <1>0, <1>1, AskingBytes
  <2>2. Len(wire) = 7
    BY <2>1 DEF PacketSize
  <2>3. wire \in Seq(Bytes)
    BY <1>1 DEF IInv, WireOfBytes
  <2> QED
    BY <2>2, <2>3
<1>4. Transit(q) /\ pc = "idle"
  <2>1. Versions(garbles, q) = {q}
    BY <1>2, ItselfVersion
  <2>2. (Transit(q) /\ pc = "idle") \/ Handled(q)
    BY <1>0, <2>1 DEF Carrying, Asking
  <2> QED
    BY <1>3, <2>2 DEF Handled, Arrived
<1> HIDE DEF q
<1>5. frame = <<>> /\ wire = q /\ queue = <<>>
  <2>1. frame \in Seq(Bytes) /\ Len(frame) = 0 /\ queue = <<>>
    BY <1>1, <1>2, <1>3, <1>4 DEF Transit, IInv, FrameOK
  <2>2. frame = <<>>
    BY <2>1, EmptySeq
  <2>3. \A k \in 1 .. 7 : wire[k] = q[k]
    BY <1>3, <1>4, <2>1 DEF Transit
  <2> QED
    BY <1>2, <1>3, <2>1, <2>2, <2>3
<1>6. rx = InitReceiver
  BY <1>1, <1>5, FrameEmpty
<1>7. Garbled(q, wire', i)
  BY <1>5
<1>8. /\ wire' \in Seq(Bytes) /\ Len(wire') = 7 /\ i \in 1 .. 7 /\ i # 3 /\ wire'[i] # q[i]
      /\ \A k \in 1 .. 7 : k # i => wire'[k] = q[k]
  BY <1>2, <1>7, GarbledBytes
<1>9. CASE i > 3
  <2>0. PICK p : p = wire'
    OBVIOUS
  <2>1. PacketOf(sent') = q /\ garbles' # 0 /\ \E a \in Turn : sent' = Command(a)
    <3>1. sent' = sent /\ garbles' = 1
      OBVIOUS
    <3>2. PacketOf(sent') = q
      BY <1>0, <3>1 DEF q, Asking
    <3>3. \E a \in Turn : sent' = Command(a)
      BY <1>0, <3>1
    <3> QED
      BY <3>1, <3>2, <3>3
  <2>2. p \in Versions(garbles', PacketOf(sent'))
    BY <1>2, <1>7, <2>0, <2>1, GarbledVersion
  <2>3. Framed(p)
    BY <1>2, <1>8, <1>9, <2>0 DEF Framed
  <2>4. frame' = <<>> /\ queue' = <<>> /\ pc' = "idle" /\ wire' # <<>>
    <3>1. frame' = <<>> /\ queue' = <<>> /\ pc' = "idle"
      BY <1>4, <1>5
    <3>2. wire' # <<>>
      BY <1>8
    <3> QED
      BY <3>1, <3>2
  <2>5. Transit(p)'
    BY <1>8, <2>0, <2>4 DEF Transit
  <2> QED
    <3>1. Carrying'
      BY <2>1, <2>2, <2>3, <2>4, <2>5 DEF Carrying
    <3> QED
      BY <3>1
<1>10. CASE i = 1 \/ i = 2
  <2>2. ASSUME NEW k \in 1 .. Len(wire') - 1, wire'[k] = LSB, wire'[k + 1] = MSB PROVE FALSE
    <3>1. k \in 1 .. 6 /\ k \in 1 .. 7 /\ k + 1 \in 1 .. 7
      BY <1>8
    <3>2. CASE k = 1
      <4> QED
        BY <1>2, <1>8, <1>10, <2>2, <3>2
    <3>3. CASE k = 2 /\ i = 2
      <4>1. wire'[3] = 3
        BY <1>2, <1>8, <3>3
      <4> QED
        BY <2>2, <3>3, <4>1 DEF HeaderApart
    <3>4. CASE k > 2 \/ (k = 2 /\ i = 1)
      <4>1. k # i /\ k + 1 # i /\ k \in 2 .. 6
        BY <1>10, <3>1, <3>4
      <4>2. q[k] = LSB /\ q[k + 1] = MSB
        BY <1>8, <2>2, <3>1, <4>1
      <4> QED
        BY <1>1, <4>1, <4>2, HeaderOnce DEF q
    <3> QED
      BY <1>10, <3>1, <3>2, <3>3, <3>4
  <2>3. rx'.state = "IDLE" /\ rx'.header = 0
    BY <1>6 DEF InitReceiver
  <2>4. sent # <<>> /\ q[7] = XorCrc(sent)
    <3>1. Len(Command(angle)) = 3 /\ q[7] = XorCrc(Command(angle))
      BY <1>1, AskingBytes DEF q
    <3>2. Len(sent) = 3 /\ q[7] = XorCrc(sent)
      BY <1>0, <3>1
    <3> QED
      BY <3>2
  <2>5. wire'[7] = q[7]
    BY <1>8, <1>10
  <2>6. Trailing'
    BY <1>8, <2>3, <2>4, <2>5 DEF Trailing
  <2> QED
    BY <1>4, <1>5, <2>2, <2>3, <2>6 DEF Astray
<1> QED
  BY <1>8, <1>9, <1>10

-----------------------------------------------------------------------------
(* The response, from the application to main.py. *)

\* An angle below a turn is a position of the encoder.
LEMMA PositionInTurn ==
    ASSUME NEW angle \in 0 .. FULL_TURN - 1
    PROVE  /\ ToPosition(angle) = (angle * R) \div FULL_TURN
           /\ ToPosition(angle) \in 0 .. R - 1 /\ ToPosition(angle) \in 0 .. 255
<1> DEFINE n == angle * R
           p == n \div FULL_TURN
<1>1. angle \in Nat /\ angle < FULL_TURN /\ FULL_TURN \in Nat /\ R \in Nat /\ R >= 1
      /\ R <= 256
  BY CodeNumbers
<1>2. n \in Nat /\ n < FULL_TURN * R
  BY <1>1, SMTT(30)
<1> HIDE DEF n
<1>3. p \in Nat /\ p < R
  BY <1>1, <1>2, SMTT(30)
<1>4. p % 256 = p /\ p \in 0 .. R - 1 /\ p \in 0 .. 255
  BY <1>1, <1>3
<1> QED
  BY <1>4 DEF ToPosition, n

LEMMA AnsweringBytes ==
    ASSUME NEW angle \in 0 .. FULL_TURN - 1
    PROVE  LET a == ToAngle(ToPosition(angle))
           IN /\ a \in Nat /\ a < 65536
              /\ Response(0, a) \in Seq(Bytes) /\ Len(Response(0, a)) = 4 /\ 4 \in Bytes
              /\ Answering(angle) = PacketOf(Response(0, a))
              /\ Answering(angle) \in Seq(Bytes) /\ Len(Answering(angle)) = 8
              /\ Answering(angle)[3] = 4
<1> DEFINE a == ToAngle(ToPosition(angle))
<1>1. a \in Nat /\ a < 65536
  <2>1. PICK p \in 0 .. 255 : p = ToPosition(angle)
    BY PositionInTurn
  <2>2. ToAngle(p) \in Nat /\ ToAngle(p) < 65536
    BY AngleFits
  <2> QED
    BY <2>1, <2>2
<1>2. Answering(angle) = PacketOf(Response(0, a))
  BY DEF Answering
<1> HIDE DEF a
<1>3. Response(0, a) \in Seq(Bytes) /\ Len(Response(0, a)) = 4 /\ 4 \in Bytes
  BY <1>1, ResponseBytes
<1>4. PacketOf(Response(0, a)) \in Seq(Bytes) /\ Len(PacketOf(Response(0, a))) = 4 + 4
      /\ PacketOf(Response(0, a))[3] = 4
  BY <1>3, PacketBytes
<1> QED
  BY <1>1, <1>2, <1>3, <1>4 DEF a

LEMMA VersionOfAnswer ==
    ASSUME NEW angle \in 0 .. FULL_TURN - 1, NEW n, NEW q \in Versions(n, Answering(angle))
    PROVE  q \in Seq(Bytes) /\ Len(q) = 8 /\ q[3] = 4
<1> DEFINE data == Response(0, ToAngle(ToPosition(angle)))
<1>1. data \in Seq(Bytes) /\ Len(data) = 4 /\ 4 \in Bytes /\ Answering(angle) = PacketOf(data)
  BY AnsweringBytes
<1> HIDE DEF data
<1>2. q \in Versions(n, PacketOf(data)) /\ Len(data) \in Bytes
  BY <1>1
<1>3. q \in Seq(Bytes) /\ Len(q) = Len(data) + 4 /\ q[3] = Len(data)
  BY <1>1, <1>2, VersionBytes
<1> QED
  BY <1>1, <1>3

LEMMA AnswerParts ==
    ASSUME NEW q \in Seq(Bytes), Len(q) = 8
    PROVE  /\ SubSeq(SubSeq(q, 4, 8), 1, 4) = [i \in 1 .. 4 |-> q[3 + i]]
           /\ SubSeq(q, 4, 8)[5] = q[8] /\ Len(SubSeq(q, 4, 8)) = 5
<1> DEFINE t == SubSeq(q, 4, 8)
<1>1. \A i \in 1 .. 5 : t[i] = q[3 + i]
  OBVIOUS
<1>2. t \in Seq(Bytes) /\ Len(t) = 5
  <2>1. Len(t) = 5
    OBVIOUS
  <2>2. ASSUME NEW i \in 1 .. 5 PROVE q[3 + i] \in Bytes
    <3>1. 3 + i \in 1 .. Len(q)
      OBVIOUS
    <3> QED
      BY <3>1, ElementOfSeq, Zenon
  <2>3. t = [i \in 1 .. 5 |-> q[4 + i - 1]]
    OBVIOUS
  <2> HIDE DEF t
  <2>4. \A i \in 1 .. 5 : t[i] \in Bytes
    BY <1>1, <2>2
  <2>5. PICK n \in Nat : n = 5
    OBVIOUS
  <2>6. t \in [1 .. n -> Bytes]
    BY <2>3, <2>4, <2>5
  <2>7. t \in Seq(Bytes)
    BY <2>6
  <2> QED
    BY <2>1, <2>7
<1> HIDE DEF t
<1>3. SubSeq(t, 1, 4) = [i \in 1 .. 4 |-> t[i]]
  BY <1>2
<1>4. SubSeq(t, 1, 4) = [i \in 1 .. 4 |-> q[3 + i]] /\ t[5] = q[8]
  BY <1>1, <1>3
<1> QED
  BY <1>2, <1>4 DEF t

\* What main.py shows when the checksum is right.
LEMMA CheckedAnswer ==
    ASSUME Cancels, NEW angle \in 0 .. FULL_TURN - 1, NEW n, NEW q \in Versions(n, Answering(angle)),
           NEW data, data = SubSeq(SubSeq(q, 4, 8), 1, 4), SubSeq(q, 4, 8)[5] = XorCrc(data)
    PROVE  data = Response(0, ToAngle(ToPosition(angle)))
<1> DEFINE r == Response(0, ToAngle(ToPosition(angle)))
<1>1. r \in Seq(Bytes) /\ Len(r) = 4 /\ 4 \in Bytes /\ Answering(angle) = PacketOf(r)
  BY AnsweringBytes
<1>2. q \in Seq(Bytes) /\ Len(q) = 8 /\ q[3] = 4
  BY VersionOfAnswer
<1> HIDE DEF r
<1>3. data = [i \in 1 .. 4 |-> q[3 + i]] /\ SubSeq(q, 4, 8)[5] = q[8]
  BY <1>2, AnswerParts
<1>4. DataOf(q) = data
  BY <1>2, <1>3 DEF DataOf
<1>5. XorCrc(DataOf(q)) = q[Len(q)]
  BY <1>2, <1>3, <1>4
<1>6. DataOf(q) = r
  BY <1>1, <1>5, VersionChecked
<1> QED
  BY <1>4, <1>6 DEF r

LEMMA QuotientIs ==
    ASSUME NEW k \in Nat, k >= 1, NEW d \in Nat, NEW e \in Nat, e < k
    PROVE  (k * d + e) \div k = d
<1> DEFINE x == (k * d + e) \div k
           n == k * d + e
<1>1. n \in Nat
  BY SMTT(30)
<1>2. x \in Nat /\ k * x <= n /\ n < k * x + k
  <2> HIDE DEF n
  <2>1. n \div k \in Nat /\ k * (n \div k) <= n /\ n < k * (n \div k) + k
    BY <1>1, SMTT(30)
  <2> QED
    BY <2>1 DEF n
<1> HIDE DEF x
<1>3. CASE x < d
  <2>1. k * (x + 1) <= k * d
    BY <1>2, <1>3, SMTT(30)
  <2>2. k * (x + 1) = k * x + k
    BY <1>2, SMTT(30)
  <2> QED
    BY <1>2, <2>1, <2>2, SMTT(30)
<1>4. CASE x > d
  <2>1. k * (d + 1) <= k * x
    BY <1>2, <1>4, SMTT(30)
  <2>2. k * (d + 1) = k * d + k
    BY SMTT(30)
  <2> QED
    BY <1>2, <2>1, <2>2, SMTT(30)
<1>5. x = d
  BY <1>2, <1>3, <1>4
<1> QED
  BY <1>5 DEF x

\* An angle set is right to the encoder's resolution, which divides the turn.
LEMMA Resolution ==
    ASSUME FULL_TURN % R = 0, NEW angle \in 0 .. FULL_TURN - 1
    PROVE  angle - ToAngle(ToPosition(angle)) \in 0 .. (FULL_TURN \div R)
<1>1. angle \in Nat /\ FULL_TURN \in Nat /\ FULL_TURN >= 1 /\ R \in Nat /\ R >= 1
  BY CodeNumbers
<1> DEFINE c == FULL_TURN \div R
           d == angle \div c
           m == angle % c
<1>2. c \in Nat /\ FULL_TURN = R * c
  <2>1. FULL_TURN = R * (FULL_TURN \div R) + (FULL_TURN % R) /\ FULL_TURN \div R \in Nat
    BY <1>1, SMTT(30)
  <2> QED
    BY <1>1, <2>1
<1> HIDE DEF c
<1>3. c >= 1
  <2>1. c # 0
    BY <1>1, <1>2
  <2> QED
    BY <1>2, <2>1
<1>4. d \in Nat /\ m \in Nat /\ m < c /\ angle = c * d + m
  BY <1>1, <1>2, <1>3, SMTT(30)
<1> HIDE DEF d, m
<1>5. angle * R = FULL_TURN * d + m * R /\ m * R \in Nat /\ m * R < FULL_TURN
  <2>1. (c * d + m) * R = (R * c) * d + m * R
    BY <1>1, <1>2, <1>4, SMTT(30)
  <2>2. m * R \in Nat /\ m * R < R * c
    BY <1>1, <1>2, <1>4, SMTT(30)
  <2> QED
    BY <1>2, <1>4, <2>1, <2>2
<1>6. ToPosition(angle) = d
  <2> DEFINE e == m * R
  <2>1. e \in Nat /\ e < FULL_TURN /\ angle * R = FULL_TURN * d + e
    BY <1>5
  <2> HIDE DEF e
  <2>2. (FULL_TURN * d + e) \div FULL_TURN = d
    BY <1>1, <1>4, <2>1, QuotientIs
  <2> QED
    BY <2>1, <2>2, PositionInTurn
<1>7. ToAngle(d) = c * d
  <2>1. d * FULL_TURN = R * (c * d) + 0 /\ c * d \in Nat
    BY <1>1, <1>2, <1>4, SMTT(30)
  <2>2. (R * (c * d) + 0) \div R = c * d
    <3> DEFINE x == c * d
    <3>1. x \in Nat /\ 0 \in Nat /\ 0 < R
      BY <1>1, <2>1
    <3> HIDE DEF x
    <3>2. (R * x + 0) \div R = x
      BY <1>1, <3>1, QuotientIs
    <3> QED
      BY <3>2 DEF x
  <2> QED
    BY <2>1, <2>2 DEF ToAngle
<1>8. angle - c * d = m /\ m \in 0 .. c
  <2>1. c * d \in Nat
    BY <1>2, <1>4, SMTT(30)
  <2> QED
    BY <1>2, <1>4, <2>1
<1> QED
  BY <1>6, <1>7, <1>8 DEF c

-----------------------------------------------------------------------------
(* The line keeps to its course, and so does a session.                     *)

LEMMA SessionInit == CommanderInit => OnLine /\ SessionInv
<1> SUFFICES ASSUME CommanderInit PROVE OnLine /\ SessionInv
  OBVIOUS
<1>1. Silent /\ wire = <<>>
  BY DEF CommanderInit, Init, Silent
<1> QED
  BY <1>1 DEF CommanderInit, SessionInv, OnLine, Still

\* The line and the receiver, when main.py or the application does something.
LEMMA LineRests ==
    ASSUME UNCHANGED vars, garbles' = garbles
    PROVE  /\ Still => Still'
           /\ Astray => Astray'
           /\ Carrying => Carrying'
           /\ OnLine => OnLine'
  BY StillKept, AstrayKept, CarryingKept DEF OnLine

LEMMA SessionStutters ==
    ASSUME OnLine, SessionInv, UNCHANGED commanderVars
    PROVE  OnLine' /\ SessionInv'
<1>1. /\ UNCHANGED <<vars, session, late, requested, expected, back, job, achieved, garbles>>
      /\ UNCHANGED sent
  BY DEF commanderVars, smc, application, faults, vars
<1>2. /\ Still => Still'
      /\ Astray => Astray'
      /\ Carrying => Carrying'
      /\ OnLine'
  BY <1>1, LineRests
<1>3. (Opened => Opened') /\ (Executing => Executing')
  BY <1>1, <1>2 DEF Opened, Executing
<1>4. Asked => Asked'
  BY <1>1, <1>2 DEF Asked
<1>5. Answered => Answered'
  BY <1>1, <1>2 DEF Answered
<1> QED
  BY <1>1, <1>2, <1>3, <1>4, <1>5 DEF SessionInv

LEMMA FirmwareSession ==
    ASSUME TypesInv, Cancels, OnLine, SessionInv, Firmware
    PROVE  OnLine' /\ SessionInv'
<1>1. /\ Receive \/ MainThread
      /\ UNCHANGED <<session, late, requested, expected, back, job, achieved, garbles>>
  BY DEF Firmware, MainThread, smc, application, faults
<1>2. pc # "deliver" \/ wire # <<>>
  BY DEF Firmware, Receive, StartPostProcessing, AddByte, CheckCrc, FinishPostProcessing
<1>3. Still => Still'
  BY <1>1, StillStep
<1>4. Astray => Astray'
  BY <1>1, AstrayStep
<1>5. ASSUME Carrying PROVE (Carrying' /\ sent' = sent) \/ Still'
  <2>1. pc # "deliver"
    BY <1>2, <1>5 DEF Carrying, Handled, Arrived
  <2> QED
    BY <1>1, <1>5, <2>1, CarryingStep
<1>6. (Opened => Opened') /\ (Executing => Executing')
  BY <1>1, <1>3 DEF Opened, Executing
<1>7. Asked => Asked'
  BY <1>1, <1>3, <1>4, <1>5 DEF Asked
<1>8. Answered => Answered'
  BY <1>1, <1>3 DEF Answered
<1>9. OnLine'
  BY <1>3, <1>4, <1>5 DEF OnLine
<1> QED
  BY <1>1, <1>6, <1>7, <1>8, <1>9 DEF SessionInv

\* The application is handed the command that main.py has last written, whichever
\* session that was.
LEMMA TakeSession ==
    ASSUME TypesInv, Cancels, OnLine, SessionInv, TakeCommand
    PROVE  /\ OnLine' /\ SessionInv'
           /\ command' = sent /\ \E angle \in Turn : sent = Command(angle)
<1>1. /\ MainThread /\ pc = "deliver"
      /\ job' = IF job = NoJob /\ command'[1] = 0 THEN command'[2] + 256 * command'[3] ELSE job
      /\ UNCHANGED <<session, late, requested, expected, back, achieved, garbles>>
  BY DEF TakeCommand, Deliver, MainThread, smc, faults
<1>2. ~Still /\ ~Astray
  BY <1>1, StillStep DEF Astray
<1>3. Carrying
  BY <1>2 DEF OnLine
<1>4. Still' /\ command' = sent
  BY <1>1, <1>3, CarryingStep
<1>5. OnLine' /\ \E angle \in Turn : sent = Command(angle)
  BY <1>3, <1>4 DEF OnLine, Carrying
<1>6. CASE session = "closed" \/ late
  BY <1>1, <1>4, <1>5, <1>6 DEF SessionInv
<1>7. CASE ~(session = "closed" \/ late)
  <2>1. session = "header" /\ job = NoJob /\ back = <<>> /\ sent = Command(requested)
    BY <1>2, <1>7 DEF SessionInv, Opened, Asked, Executing, Answered
  <2>2. requested \in 0 .. FULL_TURN - 1 /\ requested \in Nat /\ requested < 65536
    BY CodeNumbers DEF TypesInv, SmcTypes
  <2>3. /\ Command(requested)[1] = 0 /\ Command(requested)[2] = requested % 256
        /\ Command(requested)[3] = requested \div 256
    BY <2>2, CommandBytes
  <2>4. (requested % 256) + 256 * (requested \div 256) = requested
    BY <2>2, BytesOfNumber
  <2>5. job' = requested
    BY <1>1, <1>4, <2>1, <2>3, <2>4
  <2> QED
    BY <1>1, <1>4, <1>5, <2>1, <2>5 DEF SessionInv, Executing
<1> QED
  BY <1>6, <1>7

\* It drives the motor there and answers with where that is.
LEMMA AnswerSession ==
    ASSUME TypesInv, OnLine, SessionInv, Answer
    PROVE  OnLine' /\ SessionInv'
<1>0. /\ UNCHANGED <<vars, session, late, requested, expected, garbles>> /\ job' = NoJob
      /\ job # NoJob /\ OnLine'
  BY LineRests DEF Answer, smc, faults
<1>1. CASE session = "closed" \/ late
  BY <1>0, <1>1 DEF SessionInv
<1>2. CASE ~(session = "closed" \/ late)
  <2>1. requested \in 0 .. FULL_TURN - 1 /\ requested \in Nat
    BY CodeNumbers DEF TypesInv, SmcTypes
  <2>2. session = "header" /\ job = requested /\ Still /\ back = <<>>
    BY <1>0, <1>2 DEF SessionInv, Opened, Asked, Executing, Answered
  <2>4. Still'
    BY <1>0, <2>2, LineRests
  <2> DEFINE a == ToAngle(ToPosition(requested))
  <2>5. ToPosition(requested) \in 0 .. R - 1 /\ R \in Nat
    BY <2>1, PositionInTurn, CodeNumbers
  <2>6. achieved' = ToPosition(requested) /\ SendDataPacket(Response(0, a))
    BY <2>2, <2>5 DEF Answer
  <2>7. /\ Answering(requested) \in Seq(Bytes) /\ Answering(requested) = PacketOf(Response(0, a))
    BY <2>1, AnsweringBytes
  <2> HIDE DEF a
  <2>8. back' = back \/ back' = back \o Answering(requested)
    BY <2>6, <2>7 DEF SendDataPacket, Packet, PacketOf
  <2>9. CASE back' = back
    BY <1>0, <2>2, <2>4, <2>9 DEF SessionInv, Asked
  <2>10. CASE back' = back \o Answering(requested)
    <3>1. back' = Answering(requested)
      BY <2>2, <2>7, <2>10
    <3>2. back' \in Versions(garbles', Answering(requested'))
      BY <1>0, <2>7, <3>1, ItselfVersion
    <3> QED
      BY <1>0, <2>2, <2>4, <2>6, <3>2 DEF SessionInv, Answered, Reading
  <2> QED
    BY <2>8, <2>9, <2>10
<1> QED
  BY <1>1, <1>2

\* What SessionInv says of main.py in each of its states.
LEMMA SessionParts ==
    ASSUME SessionInv, ~late
    PROVE  /\ session = "write" => Opened
           /\ session = "header" => Asked \/ Executing \/ Answered
           /\ session \in {"length", "data"} => Answered
           /\ back # <<>> /\ session # "closed" => Answered
  BY DEF SessionInv, Opened, Asked, Executing, Answered, Reading

\* With nothing under way the line is still.
LEMMA RestIsStill ==
    ASSUME OnLine, wire = <<>>, queue = <<>>, pc = "idle"
    PROVE  Still
<1>1. ~Carrying
  BY DEF Carrying, Transit, Handled, Arrived
<1> QED
  BY <1>1 DEF OnLine, Still

LEMMA OpenSession ==
    ASSUME TypesInv, HeaderApart, Paced, OnLine, SessionInv,
           \/ \E angle \in Angles : Open(angle) \/ Refuse(angle)
           \/ Write
    PROVE  OnLine' /\ SessionInv'
<1>1. ASSUME NEW angle \in Angles, Open(angle) PROVE OnLine' /\ SessionInv'
  <2>1. UNCHANGED <<vars, job, garbles>> /\ session' = "write" /\ back' = <<>> /\ late' = ~AtRest
    BY <1>1 DEF Open, application
  <2>2. OnLine'
    BY <2>1, LineRests
  <2>3. CASE ~AtRest
    BY <2>1, <2>2, <2>3 DEF SessionInv
  <2>4. CASE AtRest
    <3>1. Still /\ job = NoJob
      BY <2>4, RestIsStill DEF AtRest
    <3>2. Still'
      BY <2>1, <3>1, LineRests
    <3> QED
      BY <2>1, <2>2, <3>1, <3>2 DEF SessionInv, Opened
  <2> QED
    BY <2>3, <2>4
<1>2. ASSUME NEW angle \in Angles, Refuse(angle) PROVE OnLine' /\ SessionInv'
  <2>1. UNCHANGED <<vars, garbles>> /\ session' = "closed"
    BY <1>2 DEF Refuse, Ends, faults
  <2> QED
    BY <2>1, LineRests DEF SessionInv
<1>3. CASE Write
  <2>1. UNCHANGED <<job, back, late, requested>> /\ session = "write" /\ session' = "header"
    BY <1>3 DEF Write, application
  <2>2. wire = <<>> /\ queue = <<>> /\ pc = "idle"
    BY <1>3 DEF Write, HostPacket
  <2>3. (Carrying /\ sent = Command(requested))' \/ Astray'
    BY <1>3, <2>2, RestIsStill, WriteStep
  <2>4. ~late => Asked'
    BY <2>1, <2>3, SessionParts DEF Opened, Asked
  <2> QED
    BY <2>1, <2>3, <2>4 DEF SessionInv, OnLine
<1> QED
  BY <1>1, <1>2, <1>3

\* main.py reads what it has been sent, or the user interrupts it.
LEMMA ReadSession ==
    ASSUME TypesInv, OnLine, SessionInv, ReadHeader \/ ReadLength \/ ReadData \/ GiveUp
    PROVE  OnLine' /\ SessionInv'
<1>1. UNCHANGED <<vars, job, achieved, garbles, requested, late>> /\ session # "closed"
  BY DEF ReadHeader, ReadLength, ReadData, GiveUp, application, faults
<1>2. (Still => Still') /\ OnLine'
  BY <1>1, LineRests
<1>3. requested \in 0 .. FULL_TURN - 1
  BY DEF TypesInv, SmcTypes
<1>4. CASE late \/ session' = "closed"
  BY <1>1, <1>2, <1>4 DEF SessionInv
<1>5. CASE ReadHeader /\ ~late /\ session' # "closed"
  <2>1. back # <<>> /\ session = "header" /\ back' = SubSeq(back, 3, Len(back))
    BY <1>5 DEF ReadHeader
  <2>2. Answered
    BY <1>1, <1>5, <2>1, SessionParts
  <2>3. session' = "length"
    BY <1>5 DEF ReadHeader, Ends
  <2>4. PICK q \in Versions(garbles, Answering(requested)) : back = q
    BY <2>1, <2>2 DEF Answered
  <2>5. back' = SubSeq(q, 3, 8)
    BY <1>3, <2>1, <2>4, VersionOfAnswer
  <2> QED
    BY <1>1, <1>2, <2>2, <2>3, <2>5 DEF Answered, Reading, SessionInv
<1>6. CASE ReadLength /\ ~late /\ session' # "closed"
  <2>1. session = "length" /\ back # <<>> /\ back' = Tail(back)
    BY <1>6 DEF ReadLength
  <2>2. Answered
    BY <1>6, <2>1, SessionParts
  <2>3. PICK q \in Versions(garbles, Answering(requested)) : back = SubSeq(q, 3, 8)
    BY <2>1, <2>2 DEF Answered
  <2>4. q \in Seq(Bytes) /\ Len(q) = 8 /\ q[3] = 4
    BY <1>3, VersionOfAnswer
  <2>5. Head(back) = 4 /\ back' = SubSeq(q, 4, 8)
    BY <2>1, <2>3, <2>4
  <2>6. session' = "data" /\ expected' = 4
    BY <1>6, <2>5 DEF ReadLength, Ends
  <2> QED
    BY <1>1, <1>2, <2>2, <2>5, <2>6 DEF Answered, Reading, SessionInv
<1>7. ReadData \/ GiveUp => session' = "closed"
  BY DEF ReadData, Report, GiveUp, Ends
<1> QED
  BY <1>4, <1>5, <1>6, <1>7

\* At most one byte is garbled: before that, what is on its way is intact.
LEMMA GarbleSession ==
    ASSUME TypesInv, HeaderApart, Garbles <= 1, OnLine, SessionInv, Garble
    PROVE  OnLine' /\ SessionInv'
<1>1. garbles = 0 /\ garbles' = 1
  BY CodeNumbers DEF Garble, TypesInv, Counters
<1>2. /\ UNCHANGED <<rx, buffer, queue, pc, offset, crc, frame, sent>>
      /\ UNCHANGED <<session, late, requested, expected, job, achieved>>
  BY DEF Garble, main, smc, application
<1>3. requested \in 0 .. FULL_TURN - 1 /\ wire \in Seq(Bytes) /\ back \in Seq(Bytes)
  BY DEF TypesInv, SmcTypes, IInv, WireOfBytes
<1>4. PacketSize(Response(0, 0)) = 8
  BY DEF PacketSize, Response
<1>5. PICK i \in Nat :
          \/ /\ Garbled(wire, wire', i) /\ back' = back
             /\ Len(wire) = PacketSize(sent)
          \/ /\ i \in 1 .. Len(back) /\ i % 8 # 3 /\ wire' = wire /\ session = "header"
             /\ \E b \in Bytes : back[i] # b /\ back' = [back EXCEPT ![i] = b]
  <2>1. Replacements \subseteq Bytes
    BY CommanderAssumption
  <2>2. PICK b \in Replacements :
          \/ \E i \in 1 .. Len(wire) \ {3} :
                /\ Len(wire) = PacketSize(sent) /\ wire[i] # b
                /\ wire' = [wire EXCEPT ![i] = b]
                /\ UNCHANGED back
          \/ \E i \in 1 .. Len(back) :
                /\ session = "header" /\ back[i] # b /\ i % 8 # 3
                /\ back' = [back EXCEPT ![i] = b]
                /\ UNCHANGED wire
    BY <1>4 DEF Garble
  <2> QED
    BY <2>1, <2>2 DEF Garbled
<1>6. CASE Garbled(wire, wire', i) /\ back' = back /\ Len(wire) = PacketSize(sent)
  <2>1. wire # <<>>
    BY <1>3, <1>6, GarbledBytes
  <2>2. ~Still /\ ~Astray
    BY <1>1, <2>1 DEF Still, Astray
  <2>3. Carrying
    BY <2>2 DEF OnLine
  <2>4. Carrying' \/ Astray'
    BY <1>1, <1>2, <1>6, <2>3, GarbleCommand
  <2>5. session # "closed" /\ ~late => Asked'
    BY <1>2, <1>6, <2>2, <2>4 DEF SessionInv, Opened, Asked, Executing, Answered
  <2> QED
    BY <1>2, <2>4, <2>5 DEF SessionInv, OnLine
<1>7. CASE /\ i \in 1 .. Len(back) /\ i % 8 # 3 /\ wire' = wire /\ session = "header"
           /\ \E b \in Bytes : back[i] # b /\ back' = [back EXCEPT ![i] = b]
  <2>1. (Still => Still') /\ ~Astray
    BY <1>1, <1>2, <1>7 DEF Still, Silent, Spent, Astray
  <2>2. Carrying => Carrying'
    <3>1. ASSUME NEW p \in Versions(garbles, PacketOf(sent)), Carrying
          PROVE  p \in Versions(garbles', PacketOf(sent'))
      BY <1>1, <1>2, <3>1 DEF Versions
    <3>2. ASSUME NEW p
          PROVE  /\ Transit(p) /\ pc = "idle" => (Transit(p) /\ pc = "idle")'
                 /\ Handled(p) => Handled(p)'
      <4>1. /\ Transit(p)' <=> Transit(p)
            /\ Arrived(p)' <=> Arrived(p)
        BY <1>2, <1>7 DEF Transit, Arrived
      <4> QED
        BY <1>2, <4>1 DEF Handled
    <3> QED
      BY <1>2, <3>1, <3>2 DEF Carrying
  <2>3. OnLine'
    BY <2>1, <2>2 DEF OnLine
  <2>4. CASE late
    BY <1>2, <2>3, <2>4 DEF SessionInv
  <2>5. CASE ~late
    <3>1. back # <<>>
      BY <1>3, <1>7
    <3>2. Answered
      BY <1>7, <2>5, <3>1, SessionParts
    <3>3. Still'
      BY <2>1, <3>2 DEF Answered
    <3>4. back = Answering(requested) /\ Len(back) = 8
      <4>1. Versions(0, Answering(requested)) = {Answering(requested)}
        BY <1>3, AnsweringBytes, ItselfVersion
      <4>2. back \in Versions(0, Answering(requested))
        BY <1>1, <1>7, <3>2 DEF Answered
      <4>3. Len(Answering(requested)) = 8
        BY <1>3, AnsweringBytes
      <4> QED
        BY <4>1, <4>2, <4>3
    <3>5. Garbled(back, back', i)
      <4>1. i \in 1 .. Len(back) /\ i \in 1 .. 8 /\ i % 8 # 3
        BY <1>7, <3>4
      <4>2. i # 3
        BY <4>1
      <4> QED
        BY <1>7, <4>1, <4>2 DEF Garbled
    <3>6. back' \in Versions(garbles', Answering(requested'))
      BY <1>1, <1>2, <1>3, <3>4, <3>5, GarbledVersion
    <3> QED
      BY <1>2, <1>7, <2>3, <3>2, <3>3, <3>6 DEF SessionInv, Answered
  <2> QED
    BY <2>4, <2>5
<1> QED
  BY <1>5, <1>6, <1>7

-----------------------------------------------------------------------------
(* What reaches the application and the user. *)

Course == TypesInv /\ OnLine /\ SessionInv

LEMMA CourseInit == CommanderInit => Course
  BY TypesInit, SessionInit DEF Course

LEMMA CourseStep ==
    ASSUME Paced, Cancels, HeaderApart, Garbles <= 1
    PROVE  Course /\ [CommanderNext]_commanderVars => Course'
<1> SUFFICES ASSUME Course, [CommanderNext]_commanderVars PROVE Course'
  OBVIOUS
<1>1. TypesInv'
  BY TypesStep DEF Course
<1>2. OnLine' /\ SessionInv'
  BY SessionStutters, OpenSession, ReadSession, FirmwareSession, TakeSession, AnswerSession,
     GarbleSession DEF Course, CommanderNext
<1> QED
  BY <1>1, <1>2 DEF Course

LEMMA IntactStep ==
    ASSUME Cancels, Course, [CommanderNext]_commanderVars, pc = "deliver", pc' = "return"
    PROVE  command' = SubSeq(sent, 1, CommandSize)
<1>1. CASE TakeCommand
  <2>1. command' = sent /\ \E angle \in Turn : sent = Command(angle)
    BY <1>1, TakeSession DEF Course
  <2>2. sent \in Seq(Bytes) /\ Len(sent) = 3 /\ CommandSize = 3
    BY <2>1, CommandBytes, CodeNumbers DEF Turn
  <2>3. SubSeq(sent, 1, 3) = sent
    BY <2>2
  <2> QED
    BY <2>1, <2>2, <2>3
<1>2. CASE Firmware
  BY <1>2 DEF Firmware, Receive, main, StartPostProcessing, AddByte, CheckCrc,
     FinishPostProcessing
<1>3. CASE Write \/ Garble
  BY <1>3 DEF Write, Garble, HostPacket, main
<1>4. CASE UNCHANGED vars
  BY <1>4 DEF vars
<1> QED
  BY <1>1, <1>2, <1>3, <1>4 DEF CommanderNext, commanderVars, Open, Refuse, ReadHeader,
     ReadLength, ReadData, GiveUp, Answer

LEMMA ShownStep ==
    ASSUME Cancels, FULL_TURN % R = 0, Course, [CommanderNext]_commanderVars,
           session # "closed", ~late, session' = "closed", shown'.what = "angle"
    PROVE  /\ achieved = ToPosition(requested)
           /\ requested - shown'.angle \in 0 .. (FULL_TURN \div R)
<1>1. ReadData
  <2>1. ReadHeader \/ ReadLength \/ GiveUp => shown'.what \in {"error", "interrupted"}
    BY DEF ReadHeader, ReadLength, GiveUp, Ends
  <2>2. Firmware \/ TakeCommand \/ Answer \/ Garble \/ Write => session' # "closed"
    BY DEF Firmware, TakeCommand, Answer, Garble, Write, smc
  <2>3. ~UNCHANGED commanderVars
    BY DEF commanderVars, smc
  <2> QED
    BY <2>1, <2>2, <2>3 DEF CommanderNext, Open, Refuse
<1>2. Answered /\ session = "data"
  BY <1>1, SessionParts DEF ReadData, Course
<1>3. PICK q \in Versions(garbles, Answering(requested)) : back = SubSeq(q, 4, 8)
  BY <1>2 DEF Answered
<1>4. expected = 4 /\ achieved = ToPosition(requested)
  BY <1>2 DEF Answered
<1>5. requested \in 0 .. FULL_TURN - 1
  BY DEF Course, TypesInv, SmcTypes
<1> DEFINE data == SubSeq(back, 1, expected)
           angle == ToAngle(ToPosition(requested))
<1>6. back[5] = XorCrc(data) /\ Report(data)
  BY <1>1, <1>4 DEF ReadData, Ends
<1>7. data = SubSeq(SubSeq(q, 4, 8), 1, 4) /\ SubSeq(q, 4, 8)[5] = back[5]
  BY <1>3, <1>4
<1> HIDE DEF data
<1>8. data = Response(0, angle)
  BY <1>3, <1>5, <1>6, <1>7, CheckedAnswer
<1>9. angle \in Nat /\ angle < 65536
  BY <1>5, AnsweringBytes
<1> HIDE DEF angle
<1>10. /\ Len(data) = 4 /\ data[1] = 0 /\ data[2] = 0
       /\ data[3] = angle % 256 /\ data[4] = angle \div 256
  BY <1>8, <1>9, ResponseBytes
<1>11. shown'.angle = angle
  <2>1. shown' = [what |-> "angle", angle |-> data[3] + 256 * data[4]]
    BY <1>6, <1>10 DEF Report, Ends
  <2> QED
    BY <1>9, <1>10, <2>1, BytesOfNumber
<1> QED
  BY <1>4, <1>5, <1>11, Resolution DEF angle

\* With a byte garbled in any packet, too, and whatever sessions are interrupted, the
\* command that the application copies out of ipc.c's buffer is the one that main.py has
\* last written.
THEOREM SessionIntact ==
    ASSUME Paced, Cancels, HeaderApart, Garbles <= 1
    PROVE  CommanderSpec => IntactDelivery
<1>1. Course /\ [CommanderNext]_commanderVars => Course'
  BY CourseStep
<1>2. Course /\ [CommanderNext]_commanderVars =>
        [pc = "deliver" /\ pc' = "return" /\ strays = 0 =>
            command' = SubSeq(sent, 1, CommandSize)]_vars
  BY IntactStep
<1> QED
  BY <1>1, <1>2, CourseInit, PTL DEF CommanderSpec, IntactDelivery

\* Once a session is over, interrupted or not, the receiver is in step, unless a byte
\* was garbled and the last command's checksum is the first byte of the header.
THEOREM RestInStep ==
    ASSUME Paced, Cancels, HeaderApart, Garbles <= 1
    PROVE  CommanderSpec => []InStepAtRest
<1>1. Course => InStepAtRest
  <2> SUFFICES ASSUME Course, AtRest, rx # InitReceiver
               PROVE  garbles > 0 /\ sent # <<>> /\ XorCrc(sent) = LSB
    BY DEF InStepAtRest
  <2>1. wire = <<>> /\ queue = <<>> /\ pc = "idle" /\ IInv
    BY DEF AtRest, Course, TypesInv
  <2>2. Astray
    BY <2>1, RestIsStill DEF Course, Still, Silent, Spent
  <2>3. rx.header = 1
    <3>1. rx.state = "IDLE" /\ Len(frame) = rx.header /\ frame \in Seq(Bytes)
      BY <2>1, <2>2 DEF Astray, IInv, FrameOK, FrameIdle
    <3>2. rx.header # 0
      BY <2>1, <3>1, EmptySeq, FrameEmpty
    <3> QED
      BY <2>1, <3>2, RxFields DEF IInv, TypeOK
  <2> QED
    BY <2>1, <2>2, <2>3, CodeNumbers DEF Astray, Trailing, Course, TypesInv, Counters
<1>2. Course /\ [CommanderNext]_commanderVars => Course'
  BY CourseStep
<1> QED
  BY <1>1, <1>2, CourseInit, PTL DEF CommanderSpec

\* What main.py shows in a session that is opened when the one before is over, however
\* that ended, was asked for in this session, is where the application has driven the
\* motor, and is right to the encoder's resolution.
THEOREM ShowsAchieved ==
    ASSUME Paced, Cancels, HeaderApart, Garbles <= 1, FULL_TURN % R = 0
    PROVE  CommanderSpec => ShownIsAchieved
<1>1. Course /\ [CommanderNext]_commanderVars => Course'
  BY CourseStep
<1>2. Course /\ [CommanderNext]_commanderVars =>
        [session # "closed" /\ ~late /\ session' = "closed" /\ shown'.what = "angle" =>
            /\ achieved = ToPosition(requested)
            /\ requested - shown'.angle \in 0 .. (FULL_TURN \div R)]_commanderVars
  BY ShownStep
<1> QED
  BY <1>1, <1>2, CourseInit, PTL DEF CommanderSpec, ShownIsAchieved
=============================================================================
