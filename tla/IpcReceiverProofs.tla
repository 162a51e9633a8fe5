------------------------- MODULE IpcReceiverProofs -------------------------
(* Theorems about IpcReceiver, for every size of the buffer, every set of  *)
(* bytes, every host and whatever else is on the line.                     *)
EXTENDS IpcReceiver, TLAPS, SequenceTheorems, WellFoundedInduction

-----------------------------------------------------------------------------
(* Induction on the natural numbers, from their order being well-founded.  *)

LEMMA LeastNat ==
    ASSUME NEW S, S \subseteq Nat, S # {}
    PROVE  \E n \in S : \A m \in S : n <= m
<1>1. \E x \in S : \A y \in S : ~ (<<y, x>> \in OpToRel(<, Nat))
  BY NatLessThanWellFounded, WFMin
<1>2. PICK x \in S : \A y \in S : ~ (<<y, x>> \in OpToRel(<, Nat))
  BY <1>1
<1>3. ASSUME NEW y \in S PROVE x <= y
  <2>1. x \in Nat /\ y \in Nat
    OBVIOUS
  <2>2. SUFFICES ASSUME y < x PROVE FALSE
    BY <2>1
  <2>3. <<y, x>> \in OpToRel(<, Nat)
    BY <2>1, <2>2 DEF OpToRel
  <2> QED
    BY <1>2, <2>3
<1> QED
  BY <1>3

\* Induction, for a property given by the set of numbers that have it.
LEMMA SetInduction ==
    ASSUME NEW S, 0 \in S, \A n \in Nat : n \in S => n + 1 \in S
    PROVE  Nat \subseteq S
<1> SUFFICES ASSUME NEW k \in Nat, k \notin S PROVE FALSE
  OBVIOUS
<1> DEFINE T == {n \in Nat : n \notin S}
<1>1. PICK n \in T : \A m \in T : n <= m
  <2>1. T \subseteq Nat /\ T # {}
    OBVIOUS
  <2> QED
    BY <2>1, LeastNat
<1>2. n \in Nat /\ n # 0 /\ n \notin S
  BY <1>1
<1>3. n - 1 \in Nat /\ n - 1 \notin T
  BY <1>1, <1>2
<1> QED
  BY <1>2, <1>3

-----------------------------------------------------------------------------
(* The checksum: what XorCrc's recursion computes.                         *)

\* f gives the checksum of each part of the data, up to n bytes.
Sums(f, data, n) ==
    f = [i \in 0 .. n |-> IF i = 0 THEN 0 ELSE Xor(f[i - 1], data[i])]

Sum(data, n) == (CHOOSE f : Sums(f, data, n))[n]

LEMMA SumsExist ==
    ASSUME NEW data
    PROVE  \A n \in Nat : \E f : Sums(f, data, n)
<1> DEFINE S == {n \in Nat : \E f : Sums(f, data, n)}
<1>1. 0 \in S
  <2> DEFINE f == [i \in 0 .. 0 |-> 0]
  <2>1. f = [i \in 0 .. 0 |-> IF i = 0 THEN 0 ELSE Xor(f[i - 1], data[i])]
    OBVIOUS
  <2> QED
    BY <2>1 DEF Sums
<1>2. ASSUME NEW n \in Nat, n \in S PROVE n + 1 \in S
  <2>1. PICK f : Sums(f, data, n)
    BY <1>2
  <2> DEFINE g == [i \in 0 .. n + 1 |-> IF i = n + 1 THEN Xor(f[n], data[n + 1]) ELSE f[i]]
  <2>2. ASSUME NEW i \in 0 .. n + 1
        PROVE  g[i] = IF i = 0 THEN 0 ELSE Xor(g[i - 1], data[i])
    <3>1. CASE i = n + 1
      BY <3>1
    <3>2. CASE i # n + 1
      <4>1. i \in 0 .. n
        BY <3>2
      <4>2. f[i] = IF i = 0 THEN 0 ELSE Xor(f[i - 1], data[i])
        BY <2>1, <4>1 DEF Sums
      <4>3. i # 0 => i - 1 \in 0 .. n + 1 /\ i - 1 # n + 1
        BY <4>1
      <4> QED
        BY <3>2, <4>2, <4>3
    <3> QED
      BY <3>1, <3>2
  <2>3. g = [i \in 0 .. n + 1 |-> g[i]]
    OBVIOUS
  <2> HIDE DEF g
  <2>4. Sums(g, data, n + 1)
    BY <2>2, <2>3 DEF Sums
  <2> QED
    BY <2>4
<1> HIDE DEF S
<1>3. Nat \subseteq S
  BY <1>1, <1>2, SetInduction
<1> QED
  BY <1>3 DEF S

\* The checksum of a part does not depend on what follows it.
LEMMA SumsAgree ==
    ASSUME NEW data, NEW f, NEW g, NEW m \in Nat, NEW n \in Nat, m <= n,
           Sums(f, data, m), Sums(g, data, n)
    PROVE  \A i \in 0 .. m : f[i] = g[i]
<1> DEFINE S == {i \in Nat : i <= m => f[i] = g[i]}
<1>1. 0 \in S
  BY DEF Sums
<1>2. ASSUME NEW i \in Nat, i \in S PROVE i + 1 \in S
  <2> SUFFICES ASSUME i + 1 <= m PROVE f[i + 1] = g[i + 1]
    OBVIOUS
  <2>1. i + 1 \in 0 .. m /\ i + 1 \in 0 .. n /\ i + 1 # 0 /\ (i + 1) - 1 = i /\ f[i] = g[i]
    BY <1>2
  <2> QED
    BY <2>1 DEF Sums
<1> HIDE DEF S
<1>3. Nat \subseteq S
  BY <1>1, <1>2, SetInduction
<1> QED
  BY <1>3 DEF S

LEMMA SumStep ==
    ASSUME NEW data
    PROVE  /\ Sum(data, 0) = 0
           /\ \A n \in Nat : Sum(data, n + 1) = Xor(Sum(data, n), data[n + 1])
<1>1. ASSUME NEW n \in Nat PROVE Sums(CHOOSE f : Sums(f, data, n), data, n)
  BY SumsExist
<1>2. Sum(data, 0) = 0
  <2> DEFINE f == CHOOSE g : Sums(g, data, 0)
  <2>1. Sums(f, data, 0)
    BY <1>1
  <2>2. Sum(data, 0) = f[0]
    BY DEF Sum
  <2> HIDE DEF f
  <2> QED
    BY <2>1, <2>2 DEF Sums
<1>3. ASSUME NEW n \in Nat PROVE Sum(data, n + 1) = Xor(Sum(data, n), data[n + 1])
  <2> DEFINE f == CHOOSE g : Sums(g, data, n)
             h == CHOOSE g : Sums(g, data, n + 1)
  <2>1. Sums(f, data, n) /\ Sums(h, data, n + 1)
    <3>1. n + 1 \in Nat
      OBVIOUS
    <3> QED
      BY <1>1, <3>1
  <2>2. Sum(data, n) = f[n] /\ Sum(data, n + 1) = h[n + 1]
    BY DEF Sum
  <2> HIDE DEF f, h
  <2>3. f[n] = h[n]
    <3>1. n + 1 \in Nat /\ n <= n + 1 /\ n \in 0 .. n
      OBVIOUS
    <3> QED
      BY <2>1, <3>1, SumsAgree
  <2>4. h[n + 1] = Xor(h[n], data[n + 1])
    <3>1. n + 1 \in 0 .. n + 1 /\ n + 1 # 0 /\ (n + 1) - 1 = n
      OBVIOUS
    <3> QED
      BY <2>1, <3>1 DEF Sums
  <2> QED
    BY <2>2, <2>3, <2>4
<1> QED
  BY <1>2, <1>3

LEMMA XorCrcIsSum ==
    ASSUME NEW data \in Seq(Bytes)
    PROVE  XorCrc(data) = Sum(data, Len(data))
  BY DEF XorCrc, Sum, Sums

LEMMA SumIsByte ==
    ASSUME NEW data \in Seq(Bytes), NEW n \in 0 .. Len(data)
    PROVE  Sum(data, n) \in Bytes
<1> DEFINE S == {i \in Nat : i <= Len(data) => Sum(data, i) \in Bytes}
<1>1. 0 \in S
  BY SumStep, BytesAssumption
<1>2. ASSUME NEW i \in Nat, i \in S PROVE i + 1 \in S
  <2> SUFFICES ASSUME i + 1 <= Len(data) PROVE Sum(data, i + 1) \in Bytes
    OBVIOUS
  <2>1. Sum(data, i) \in Bytes /\ data[i + 1] \in Bytes
    BY <1>2
  <2> QED
    BY <2>1, SumStep, BytesAssumption
<1> HIDE DEF S
<1>3. Nat \subseteq S
  BY <1>1, <1>2, SetInduction
<1> QED
  BY <1>3 DEF S

LEMMA XorCrcIsByte ==
    ASSUME NEW data \in Seq(Bytes)
    PROVE  XorCrc(data) \in Bytes
<1>1. Len(data) \in 0 .. Len(data)
  OBVIOUS
<1> QED
  BY <1>1, XorCrcIsSum, SumIsByte

-----------------------------------------------------------------------------
(* The inductive invariant: what the receiver has kept of the bytes since  *)
(* it was idle, state by state.                                            *)

WireOfBytes == wire \in Seq(Bytes)

Announced ==
    /\ rx.expected \in 1 .. M
    /\ rx.header = 0
    /\ frame[1] = LSB /\ frame[2] = MSB /\ frame[3] = rx.expected

\* The first k bytes of data are in the buffer.
Buffered(k) == \A i \in 1 .. k : buffer[i - 1] = frame[3 + i]

FrameIdle ==
    rx.state = "IDLE" =>
        /\ rx.offset = 0 /\ rx.expected = 0
        /\ Len(frame) = rx.header
        /\ rx.header = 1 => frame[1] = LSB

FrameLength ==
    rx.state = "GET_DATA_LENGTH" =>
        /\ rx.offset = 0 /\ rx.expected = 0 /\ rx.header = 0
        /\ Len(frame) = 2 /\ frame[1] = LSB /\ frame[2] = MSB

FrameData ==
    rx.state = "GET_DATA" =>
        /\ Announced
        /\ rx.offset < rx.expected
        /\ Len(frame) = 3 + rx.offset
        /\ Buffered(rx.offset)

FrameCrc ==
    rx.state = "GET_DATA_CRC" =>
        /\ Announced
        /\ rx.offset = 0
        /\ Len(frame) = 3 + rx.expected
        /\ Buffered(rx.expected)

FrameOK ==
    /\ frame \in Seq(Bytes)
    /\ FrameIdle
    /\ FrameLength
    /\ FrameData
    /\ FrameCrc

ReadsInside == pc = "loop" => offset <= Head(queue).size

IInv == TypeOK /\ WireOfBytes /\ FrameOK /\ ReadsInside

-----------------------------------------------------------------------------
LEMMA IInvInit == Init => IInv
<1> SUFFICES ASSUME Init PROVE IInv
  OBVIOUS
<1> USE LengthAssumption, BytesAssumption, QueueAssumption
<1>1. TypeOK
  BY DEF Init, TypeOK, InitReceiver
<1>2. WireOfBytes /\ ReadsInside
  BY DEF Init, WireOfBytes, ReadsInside
<1>3. FrameOK
  BY DEF Init, InitReceiver, FrameOK, FrameIdle, FrameLength, FrameData, FrameCrc
<1> QED
  BY <1>1, <1>2, <1>3 DEF IInv

\* What a step of the main thread or of the host leaves alone in FrameOK.
LEMMA FrameKept == FrameOK /\ UNCHANGED <<rx, buffer, frame>> => FrameOK'
  BY DEF FrameOK, FrameIdle, FrameLength, FrameData, FrameCrc, Announced, Buffered

-----------------------------------------------------------------------------
(* A byte is received. *)

LEMMA ByteReceived ==
  ASSUME IInv, Receive
  PROVE  Head(wire) \in Bytes /\ WireOfBytes'
  BY DEF IInv, WireOfBytes, Receive

LEMMA RxFields ==
  ASSUME NEW r \in RxStates
  PROVE  /\ r.header \in {0, 1} /\ r.offset \in 0 .. M /\ r.expected \in 0 .. M
         /\ r = [state |-> r.state, header |-> r.header,
                 offset |-> r.offset, expected |-> r.expected]
  BY DEF RxStates

\* The receiver is idle again, and has kept nothing.
LEMMA BackToIdle ==
  ASSUME rx' = InitReceiver, frame' = <<>>
  PROVE  FrameOK' /\ rx' \in RxStates
<1>1. /\ rx'.state = "IDLE" /\ rx'.header = 0
      /\ rx'.offset = 0 /\ rx'.expected = 0
  BY DEF InitReceiver
<1>2. rx' \in RxStates
  BY LengthAssumption DEF InitReceiver, RxStates
<1>3. FrameOK'
  BY <1>1 DEF FrameOK, FrameIdle, FrameLength, FrameData, FrameCrc
<1> QED
  BY <1>2, <1>3

\* The receiver keeps a byte.
LEMMA ByteKept ==
  ASSUME IInv, NEW b \in Bytes, rx' # InitReceiver,
         frame' = IF rx' = InitReceiver THEN <<>> ELSE Append(frame, b)
  PROVE  /\ frame' \in Seq(Bytes)
         /\ Len(frame) \in Nat
         /\ Len(frame') = Len(frame) + 1
         /\ frame'[Len(frame) + 1] = b
         /\ \A i \in 1 .. Len(frame) : frame'[i] = frame[i]
  BY AppendProperties, LenProperties DEF IInv, FrameOK

LEMMA IdleStep ==
  ASSUME IInv, NEW b \in Bytes, Idle(b),
         frame' = IF rx' = InitReceiver THEN <<>> ELSE Append(frame, b)
  PROVE  FrameOK' /\ rx' \in RxStates
<1>1. /\ rx.state = "IDLE" /\ rx.offset = 0 /\ rx.expected = 0
      /\ rx.header \in {0, 1}
      /\ Len(frame) = rx.header
      /\ rx.header = 1 => frame[1] = LSB
  BY RxFields DEF Idle, IInv, TypeOK, FrameOK, FrameIdle
<1>2. rx = [state |-> "IDLE", header |-> rx.header, offset |-> 0, expected |-> 0]
  BY <1>1, RxFields DEF IInv, TypeOK
<1>3. CASE rx.header = 0 /\ b = LSB
  <2>1. rx' = [rx EXCEPT !.header = 1]
    BY <1>3 DEF Idle
  <2>2. rx' = [state |-> "IDLE", header |-> 1, offset |-> 0, expected |-> 0]
    BY <1>2, <1>3, <2>1
  <2>3. rx' # InitReceiver
    BY <2>2 DEF InitReceiver
  <2>4. frame' \in Seq(Bytes) /\ Len(frame') = 1 /\ frame'[1] = LSB
    BY <1>1, <1>3, <2>3, ByteKept
  <2>5. rx'.state = "IDLE" /\ rx'.header = 1 /\ rx'.offset = 0 /\ rx'.expected = 0
    BY <2>2
  <2>6. FrameOK'
    BY <2>4, <2>5 DEF FrameOK, FrameIdle, FrameLength, FrameData, FrameCrc
  <2>7. rx' \in RxStates
    BY <2>2, LengthAssumption DEF RxStates
  <2> QED
    BY <2>6, <2>7
<1>4. CASE (rx.header = 0 /\ b # LSB) \/ (rx.header = 1 /\ b # MSB)
  <2>1. rx' = [rx EXCEPT !.header = 0]
    <3>1. CASE rx.header = 0
      BY <1>4, <3>1 DEF Idle
    <3>2. CASE rx.header = 1
      <4>1. rx' = [rx EXCEPT !.header = 0, !.state = rx.state]
        BY <1>4, <3>2 DEF Idle
      <4> QED
        BY <1>2, <4>1
    <3> QED
      BY <1>1, <3>1, <3>2
  <2>2. rx' = InitReceiver
    BY <1>2, <2>1 DEF InitReceiver
  <2> QED
    BY <2>2, BackToIdle
<1>5. CASE rx.header = 1 /\ b = MSB
  <2>1. rx' = [rx EXCEPT !.header = 0, !.state = "GET_DATA_LENGTH"]
    BY <1>5 DEF Idle
  <2>2. rx' = [state |-> "GET_DATA_LENGTH", header |-> 0, offset |-> 0, expected |-> 0]
    <3>1. rx = [state |-> "IDLE", header |-> 1, offset |-> 0, expected |-> 0]
      BY <1>2, <1>5
    <3> QED
      BY <2>1, <3>1
  <2>3. rx' # InitReceiver
    BY <2>2 DEF InitReceiver
  <2>4. frame' \in Seq(Bytes) /\ Len(frame') = 2 /\ frame'[1] = LSB /\ frame'[2] = MSB
    BY <1>1, <1>5, <2>3, ByteKept
  <2>5. /\ rx'.state = "GET_DATA_LENGTH" /\ rx'.header = 0
        /\ rx'.offset = 0 /\ rx'.expected = 0
    BY <2>2
  <2>6. FrameOK'
    BY <2>4, <2>5 DEF FrameOK, FrameIdle, FrameLength, FrameData, FrameCrc
  <2>7. rx' \in RxStates
    BY <2>2, LengthAssumption DEF RxStates
  <2> QED
    BY <2>6, <2>7
<1> QED
  BY <1>1, <1>3, <1>4, <1>5

LEMMA GetDataLengthStep ==
  ASSUME IInv, NEW b \in Bytes, GetDataLength(b),
         frame' = IF rx' = InitReceiver THEN <<>> ELSE Append(frame, b)
  PROVE  FrameOK' /\ rx' \in RxStates
<1>1. /\ rx.state = "GET_DATA_LENGTH"
      /\ rx.offset = 0 /\ rx.expected = 0 /\ rx.header = 0
      /\ Len(frame) = 2 /\ frame[1] = LSB /\ frame[2] = MSB
  BY DEF GetDataLength, IInv, FrameOK, FrameLength
<1>2. rx = [state |-> "GET_DATA_LENGTH", header |-> 0, offset |-> 0, expected |-> 0]
  BY <1>1, RxFields DEF IInv, TypeOK
<1>3. CASE b \in 1 .. M
  <2>1. rx' = [state |-> "GET_DATA", header |-> 0, offset |-> 0, expected |-> b]
    BY <1>2, <1>3 DEF GetDataLength
  <2>2. rx' # InitReceiver
    BY <2>1 DEF InitReceiver
  <2>3. /\ frame' \in Seq(Bytes) /\ Len(frame') = 3
        /\ frame'[1] = LSB /\ frame'[2] = MSB /\ frame'[3] = b
    BY <1>1, <2>2, ByteKept
  <2>4. /\ rx'.state = "GET_DATA" /\ rx'.header = 0
        /\ rx'.offset = 0 /\ rx'.expected = b
    BY <2>1
  <2>5. \A i \in 1 .. 0 : buffer'[i - 1] = frame'[3 + i]
    OBVIOUS
  <2>6. FrameData'
    BY <1>3, <2>3, <2>4, <2>5, LengthAssumption
       DEF FrameData, Announced, Buffered
  <2>7. FrameOK'
    BY <2>3, <2>4, <2>6 DEF FrameOK, FrameIdle, FrameLength, FrameCrc
  <2>8. rx' \in RxStates
    BY <1>3, <2>1, LengthAssumption DEF RxStates
  <2> QED
    BY <2>7, <2>8
<1>4. CASE b \notin 1 .. M
  <2>1. rx' = InitReceiver
    BY <1>2, <1>4 DEF GetDataLength, InitReceiver
  <2> QED
    BY <2>1, BackToIdle
<1> QED
  BY <1>3, <1>4

LEMMA GetDataStep ==
  ASSUME IInv, NEW b \in Bytes, GetData(b),
         frame' = IF rx' = InitReceiver THEN <<>> ELSE Append(frame, b)
  PROVE  FrameOK' /\ rx' \in RxStates /\ buffer' \in [0 .. M - 1 -> Bytes]
<1>1. /\ rx.state = "GET_DATA"
      /\ Announced
      /\ rx.offset < rx.expected
      /\ Len(frame) = 3 + rx.offset
      /\ Buffered(rx.offset)
  BY DEF GetData, IInv, FrameOK, FrameData
<1>2. /\ M \in Nat /\ rx.offset \in 0 .. M - 1 /\ rx.expected \in 1 .. M
      /\ rx.header = 0
  BY <1>1, RxFields, LengthAssumption DEF Announced, IInv, TypeOK
<1>3. PICK o \in 0 .. M - 1, e \in 1 .. M :
          rx = [state |-> "GET_DATA", header |-> 0, offset |-> o, expected |-> e]
  <2>1. rx = [state |-> "GET_DATA", header |-> 0,
              offset |-> rx.offset, expected |-> rx.expected]
    BY <1>1, <1>2, RxFields DEF IInv, TypeOK
  <2> QED
    BY <1>2, <2>1
<1>4. rx.offset = o /\ rx.expected = e /\ o < e
  BY <1>1, <1>3
<1>5. /\ buffer' \in [0 .. M - 1 -> Bytes]
      /\ buffer'[rx.offset] = b
      /\ \A j \in 0 .. M - 1 : j # rx.offset => buffer'[j] = buffer[j]
  BY <1>2 DEF GetData, IInv, TypeOK
<1>6. rx' # InitReceiver
  <2>1. rx'.state \in {"GET_DATA", "GET_DATA_CRC"}
    BY <1>1, <1>3 DEF GetData
  <2> QED
    BY <2>1 DEF InitReceiver
<1>7. /\ frame' \in Seq(Bytes) /\ Len(frame') = 4 + rx.offset
      /\ frame'[4 + rx.offset] = b
      /\ \A i \in 1 .. 3 + rx.offset : frame'[i] = frame[i]
  BY <1>1, <1>2, <1>6, ByteKept
<1>8. frame'[1] = LSB /\ frame'[2] = MSB /\ frame'[3] = rx.expected
  <2>1. 1 \in 1 .. 3 + rx.offset /\ 2 \in 1 .. 3 + rx.offset /\ 3 \in 1 .. 3 + rx.offset
    BY <1>2
  <2> QED
    BY <1>1, <1>7, <2>1 DEF Announced
<1>9. \A i \in 1 .. rx.offset + 1 : buffer'[i - 1] = frame'[3 + i]
  <2> SUFFICES ASSUME NEW i \in 1 .. rx.offset + 1
               PROVE  buffer'[i - 1] = frame'[3 + i]
    OBVIOUS
  <2>1. CASE i = rx.offset + 1
    <3>1. i - 1 = rx.offset /\ 3 + i = 4 + rx.offset
      BY <1>2, <2>1
    <3> QED
      BY <1>5, <1>7, <3>1
  <2>2. CASE i # rx.offset + 1
    <3>1. /\ i \in 1 .. rx.offset /\ 3 + i \in 1 .. 3 + rx.offset
          /\ i - 1 \in 0 .. M - 1 /\ i - 1 # rx.offset
      BY <1>2, <2>2
    <3>2. buffer[i - 1] = frame[3 + i]
      BY <1>1, <3>1 DEF Buffered
    <3> QED
      BY <1>5, <1>7, <3>1, <3>2
  <2> QED
    BY <2>1, <2>2
<1>10. CASE rx.offset + 1 = rx.expected
  <2>1. rx' = [rx EXCEPT !.offset = 0, !.state = "GET_DATA_CRC"]
    BY <1>10 DEF GetData
  <2>2. rx' = [state |-> "GET_DATA_CRC", header |-> 0,
               offset |-> 0, expected |-> e]
    BY <1>3, <2>1
  <2>3. /\ rx'.state = "GET_DATA_CRC" /\ rx'.header = 0
        /\ rx'.offset = 0 /\ rx'.expected = e
    BY <2>2
  <2>4. rx' \in RxStates
    BY <1>2, <1>3, <2>2 DEF RxStates
  <2>5. /\ Len(frame') = 3 + e
        /\ \A i \in 1 .. e : buffer'[i - 1] = frame'[3 + i]
    BY <1>4, <1>2, <1>3, <1>7, <1>9, <1>10
  <2>6. FrameCrc'
    BY <1>4, <1>2, <1>3, <1>8, <2>3, <2>5 DEF FrameCrc, Announced, Buffered
  <2>7. FrameOK'
    BY <1>7, <2>3, <2>6 DEF FrameOK, FrameIdle, FrameLength, FrameData
  <2> QED
    BY <1>5, <2>4, <2>7
<1>11. CASE rx.offset + 1 # rx.expected
  <2>1. rx' = [rx EXCEPT !.offset = rx.offset + 1]
    BY <1>11 DEF GetData
  <2>2. rx' = [state |-> "GET_DATA", header |-> 0,
               offset |-> o + 1, expected |-> e]
    BY <1>4, <1>3, <2>1
  <2>3. /\ rx'.state = "GET_DATA" /\ rx'.header = 0
        /\ rx'.offset = o + 1 /\ rx'.expected = e
    BY <2>2
  <2>4. rx' \in RxStates
    BY <1>4, <1>2, <1>3, <2>2 DEF RxStates
  <2>5. /\ Len(frame') = 3 + (o + 1)
        /\ \A i \in 1 .. o + 1 : buffer'[i - 1] = frame'[3 + i]
    BY <1>4, <1>2, <1>3, <1>7, <1>9
  <2>6. FrameData'
    BY <1>4, <1>2, <1>3, <1>8, <1>11, <2>3, <2>5 DEF FrameData, Announced, Buffered
  <2>7. FrameOK'
    BY <1>7, <2>3, <2>6 DEF FrameOK, FrameIdle, FrameLength, FrameCrc
  <2> QED
    BY <1>5, <2>4, <2>7
<1> QED
  BY <1>10, <1>11

LEMMA GetDataCrcStep ==
  ASSUME IInv, NEW b \in Bytes, GetDataCrc(b),
         frame' = IF rx' = InitReceiver THEN <<>> ELSE Append(frame, b)
  PROVE  /\ FrameOK' /\ rx' \in RxStates
         /\ queue' \in Seq([size : 1 .. M, crc : Bytes])
         /\ Len(queue') <= SCHEDULER_MAX_QUEUE_SIZE
         /\ queue # <<>> => queue' # <<>> /\ Head(queue') = Head(queue)
<1>1. /\ rx.state = "GET_DATA_CRC" /\ rx.header = 0 /\ rx.offset = 0
      /\ rx.expected \in 1 .. M
  BY DEF GetDataCrc, IInv, FrameOK, FrameCrc, Announced
<1>2. rx' = InitReceiver
  <2>1. rx = [state |-> "GET_DATA_CRC", header |-> 0, offset |-> 0,
              expected |-> rx.expected]
    BY <1>1, RxFields DEF IInv, TypeOK
  <2>2. rx' = [rx EXCEPT !.expected = 0, !.state = "IDLE"]
    BY DEF GetDataCrc
  <2> QED
    BY <1>1, <2>2 DEF IInv, TypeOK, RxStates, InitReceiver
<1>3. FrameOK' /\ rx' \in RxStates
  BY <1>2, BackToIdle
<1>4. /\ queue \in Seq([size : 1 .. M, crc : Bytes])
      /\ Len(queue) <= SCHEDULER_MAX_QUEUE_SIZE
      /\ Len(queue) \in Nat
  BY LenProperties DEF IInv, TypeOK
<1>5. CASE /\ Len(queue) < SCHEDULER_MAX_QUEUE_SIZE
           /\ queue' = Append(queue, [size |-> rx.expected, crc |-> b])
  <2>1. [size |-> rx.expected, crc |-> b] \in [size : 1 .. M, crc : Bytes]
    BY <1>1
  <2> QED
    BY <1>3, <1>4, <1>5, <2>1, AppendProperties, QueueAssumption
<1>6. CASE UNCHANGED queue
  BY <1>3, <1>4, <1>6
<1> QED
  BY <1>5, <1>6 DEF GetDataCrc

LEMMA ReceiveStep == IInv /\ Receive => IInv'
<1> SUFFICES ASSUME IInv, Receive PROVE IInv'
  OBVIOUS
<1> DEFINE b == Head(wire)
<1>1. b \in Bytes /\ WireOfBytes'
  BY ByteReceived
<1>2. /\ Idle(b) \/ GetDataLength(b) \/ GetData(b) \/ GetDataCrc(b)
      /\ frame' = IF rx' = InitReceiver THEN <<>> ELSE Append(frame, b)
      /\ UNCHANGED <<pc, offset, crc>>
  BY DEF Receive, main
<1> HIDE DEF b
<1>3. CASE Idle(b)
  <2>1. UNCHANGED <<buffer, queue>>
    BY <1>3 DEF Idle
  <2> QED
    BY <1>1, <1>2, <1>3, <2>1, IdleStep DEF IInv, TypeOK, ReadsInside
<1>4. CASE GetDataLength(b)
  <2>1. UNCHANGED <<buffer, queue>>
    BY <1>4 DEF GetDataLength
  <2> QED
    BY <1>1, <1>2, <1>4, <2>1, GetDataLengthStep DEF IInv, TypeOK, ReadsInside
<1>5. CASE GetData(b)
  <2>1. UNCHANGED queue
    BY <1>5 DEF GetData
  <2> QED
    BY <1>1, <1>2, <1>5, <2>1, GetDataStep DEF IInv, TypeOK, ReadsInside
<1>6. CASE GetDataCrc(b)
  <2>1. UNCHANGED buffer
    BY <1>6 DEF GetDataCrc
  <2>2. pc # "idle" => queue # <<>>
    BY DEF IInv, TypeOK
  <2> QED
    BY <1>1, <1>2, <1>6, <2>1, <2>2, GetDataCrcStep DEF IInv, TypeOK, ReadsInside
<1> QED
  BY <1>2, <1>3, <1>4, <1>5, <1>6

-----------------------------------------------------------------------------
(* The main thread and the host. *)

LEMMA MainThreadStep == IInv /\ MainThread => IInv'
<1> SUFFICES ASSUME IInv, MainThread PROVE IInv'
  OBVIOUS
<1> USE DEF IInv, TypeOK
<1>1. UNCHANGED <<rx, buffer, frame, wire>>
  BY DEF MainThread, StartPostProcessing, AddByte, CheckCrc, Deliver,
         FinishPostProcessing, receiver
<1>2. FrameOK' /\ WireOfBytes'
  BY <1>1, FrameKept DEF WireOfBytes
<1>3. queue # <<>> => Head(queue) \in [size : 1 .. M, crc : Bytes]
  BY HeadTailProperties
<1>4. CASE StartPostProcessing
  BY <1>1, <1>2, <1>3, <1>4, BytesAssumption, LengthAssumption
     DEF StartPostProcessing, ReadsInside
<1>5. CASE AddByte
  <2>1. queue # <<>> /\ Head(queue).size \in 1 .. M
    BY <1>3, <1>5 DEF AddByte
  <2>2. offset \in 0 .. M - 1
    BY <1>5, <2>1, LengthAssumption DEF AddByte
  <2>3. buffer[offset] \in Bytes
    BY <2>2
  <2>4. crc' \in Bytes
    BY <1>5, <2>3, BytesAssumption DEF AddByte
  <2>5. offset' \in 0 .. M /\ offset' <= Head(queue).size
    BY <1>5, <2>1, <2>2, LengthAssumption DEF AddByte
  <2> QED
    BY <1>1, <1>2, <1>5, <2>4, <2>5 DEF AddByte, ReadsInside
<1>6. CASE CheckCrc
  BY <1>1, <1>2, <1>6 DEF CheckCrc, ReadsInside
<1>7. CASE Deliver
  BY <1>1, <1>2, <1>7 DEF Deliver, ReadsInside
<1>8. CASE FinishPostProcessing
  <2>1. queue # <<>>
    BY <1>8 DEF FinishPostProcessing
  <2>2. /\ Tail(queue) \in Seq([size : 1 .. M, crc : Bytes])
        /\ Len(Tail(queue)) <= SCHEDULER_MAX_QUEUE_SIZE
    BY <2>1, QueueAssumption
  <2> QED
    BY <1>1, <1>2, <1>8, <2>2, BytesAssumption, LengthAssumption
       DEF FinishPostProcessing, ReadsInside
<1> QED
  BY <1>4, <1>5, <1>6, <1>7, <1>8 DEF MainThread

LEMMA HostPacketStep ==
  ASSUME IInv, NEW data \in Seq(Bytes), Len(data) \in Bytes, HostPacket(data)
  PROVE  IInv'
<1>1. UNCHANGED <<rx, buffer, queue, pc, offset, crc, frame>>
  BY DEF HostPacket, receiver, main
<1>2. wire' \in Seq(Bytes)
  <2>1. <<LSB, MSB, Len(data)>> \in Seq(Bytes) /\ <<XorCrc(data)>> \in Seq(Bytes)
    BY BytesAssumption, XorCrcIsByte
  <2>2. wire' = <<LSB, MSB, Len(data)>> \o data \o <<XorCrc(data)>>
    BY DEF HostPacket
  <2> HIDE DEF XorCrc
  <2>3. <<LSB, MSB, Len(data)>> \o data \in Seq(Bytes)
    BY <2>1
  <2> QED
    BY <2>1, <2>2, <2>3
<1> QED
  BY <1>1, <1>2, FrameKept DEF IInv, TypeOK, WireOfBytes, ReadsInside

LEMMA LineStep ==
  ASSUME IInv,
         \/ \E data \in Payloads : HostPacket(data)
         \/ \E b \in Bytes : StrayByte(b)
  PROVE  IInv'
<1>1. CASE \E data \in Payloads : HostPacket(data)
  BY <1>1, HostPacketStep, PayloadsAssumption
<1>2. CASE \E b \in Bytes : StrayByte(b)
  <2>1. UNCHANGED <<rx, buffer, queue, pc, offset, crc, frame>> /\ wire' \in Seq(Bytes)
    BY <1>2 DEF StrayByte, receiver, main
  <2> QED
    BY <2>1, FrameKept DEF IInv, TypeOK, WireOfBytes, ReadsInside
<1> QED
  BY <1>1, <1>2

LEMMA IInvStep == IInv /\ [Next]_vars => IInv'
<1> SUFFICES ASSUME IInv, [Next]_vars PROVE IInv'
  OBVIOUS
<1>1. CASE UNCHANGED vars
  BY <1>1, FrameKept DEF vars, IInv, TypeOK, WireOfBytes, ReadsInside
<1> QED
  BY <1>1, ReceiveStep, MainThreadStep, LineStep DEF Next

LEMMA IInvHolds == Spec => []IInv
  BY IInvInit, IInvStep, PTL DEF Spec

-----------------------------------------------------------------------------
\* The receiver's state, the posted packets and the locals of the main thread keep
\* their types (ipc_received_data_buffer and the state machine of ipc.c).
THEOREM TypeCorrect == Spec => []TypeOK
  BY IInvHolds, PTL DEF IInv

LEMMA BoundedBy == IInv => InBounds
<1> SUFFICES ASSUME IInv PROVE InBounds
  OBVIOUS
<1>1. rx.state = "GET_DATA" => rx.offset < rx.expected
  BY DEF IInv, FrameOK, FrameData
<1>2. rx.state # "GET_DATA" => rx.offset = 0
  BY DEF IInv, TypeOK, RxStates, FrameOK, FrameIdle, FrameLength, FrameCrc
<1> QED
  BY <1>1, <1>2 DEF IInv, ReadsInside, InBounds

\* Whatever arrives, the interrupt writes inside the buffer (ipc.c, GET_DATA) and
\* the main thread reads inside the part of it that the packet announced.
THEOREM Bounded == Spec => []InBounds
  BY BoundedBy, IInvHolds, PTL

LEMMA OnlyPacketsStep ==
  ASSUME IInv, [Next]_vars, Len(queue') > Len(queue)
  PROVE  PostsAPacket
<1>1. Len(queue) \in Nat /\ queue \in Seq([size : 1 .. M, crc : Bytes])
  BY LenProperties DEF IInv, TypeOK
<1>2. queue' # queue
  BY <1>1
<1>3. Receive
  <2>1. queue # <<>> => Len(Tail(queue)) = Len(queue) - 1
    BY <1>1, HeadTailProperties
  <2>2. FinishPostProcessing => Len(queue') = Len(queue) - 1
    BY <2>1 DEF FinishPostProcessing
  <2>3. MainThread => FinishPostProcessing
    BY <1>2 DEF MainThread, StartPostProcessing, AddByte, CheckCrc, Deliver
  <2>4. ~ \E data \in Payloads : HostPacket(data)
    BY <1>2 DEF HostPacket
  <2>5. ~ \E b \in Bytes : StrayByte(b)
    BY <1>2 DEF StrayByte
  <2>6. ~ UNCHANGED vars
    BY <1>2 DEF vars
  <2> QED
    BY <1>1, <2>2, <2>3, <2>4, <2>5, <2>6 DEF Next
<1> DEFINE b == Head(wire)
<1>4. GetDataCrc(b)
  BY <1>2, <1>3 DEF Receive, Idle, GetDataLength, GetData
<1>5. /\ rx.expected \in 1 .. M /\ Len(frame) = 3 + rx.expected
      /\ frame[1] = LSB /\ frame[2] = MSB /\ frame[3] = rx.expected
      /\ \A i \in 1 .. rx.expected : buffer[i - 1] = frame[3 + i]
  BY <1>4 DEF GetDataCrc, IInv, FrameOK, FrameCrc, Announced, Buffered
<1>6. b \in Bytes
  BY <1>3, ByteReceived
<1> HIDE DEF b
<1>7. queue' = Append(queue, [size |-> rx.expected, crc |-> b])
  BY <1>2, <1>4 DEF GetDataCrc
<1>8. queue'[Len(queue')] = [size |-> rx.expected, crc |-> b]
  BY <1>1, <1>5, <1>6, <1>7, AppendProperties
<1>9. queue'[Len(queue')].size = rx.expected /\ queue'[Len(queue')].crc = b
  BY <1>8
<1> QED
  BY <1>5, <1>9 DEF PostsAPacket, b

\* Whatever arrives, ipc.c posts a packet only for bytes that have the form of one,
\* when the buffer holds its data.
THEOREM OnlyPacketsPosted == Spec => OnlyPackets
<1>1. IInv /\ [Next]_vars => [Len(queue') > Len(queue) => PostsAPacket]_vars
  BY OnlyPacketsStep
<1> QED
  BY <1>1, IInvHolds, PTL DEF Spec, OnlyPackets

-----------------------------------------------------------------------------
(* A packet on its way, from the line to the application.                  *)

\* Bytes with the form of a packet, whatever its data and its checksum.
Framed(p) ==
    /\ p \in Seq(Bytes) /\ p[3] \in 1 .. M /\ Len(p) = p[3] + 4
    /\ p[1] = LSB /\ p[2] = MSB

DataOf(p) == [i \in 1 .. p[3] |-> p[3 + i]]

\* Some of them are received and the others come next.
Transit(p) ==
    /\ wire # <<>> /\ queue = <<>>
    /\ Len(frame) + Len(wire) = Len(p)
    /\ \A i \in 1 .. Len(frame) : frame[i] = p[i]
    /\ \A i \in 1 .. Len(wire) : wire[i] = p[Len(frame) + i]

\* All of them are, and the main thread has not delivered them.
Arrived(p) ==
    /\ wire = <<>> /\ rx = InitReceiver /\ frame = <<>>
    /\ queue = <<[size |-> p[3], crc |-> p[Len(p)]]>>
    /\ \A i \in 1 .. p[3] : buffer[i - 1] = p[3 + i]

LEMMA FramedData ==
    ASSUME NEW p, Framed(p)
    PROVE  /\ DataOf(p) \in Seq(Bytes) /\ Len(DataOf(p)) = p[3]
           /\ p[3] \in 1 .. M /\ M \in Nat /\ p[Len(p)] \in Bytes
<1>1. /\ p \in Seq(Bytes) /\ p[3] \in Nat /\ Len(p) = p[3] + 4 /\ M \in Nat /\ p[3] \in 1 .. M
  BY LengthAssumption DEF Framed
<1>2. ASSUME NEW i \in 1 .. p[3] PROVE p[3 + i] \in Bytes
  <2>1. 3 + i \in 1 .. Len(p)
    BY <1>1
  <2> QED
    BY <1>1, <2>1
<1>3. Len(p) \in 1 .. Len(p)
  BY <1>1
<1>4. DataOf(p) \in [1 .. p[3] -> Bytes]
  BY <1>2 DEF DataOf
<1>5. p[Len(p)] \in Bytes
  BY <1>1, <1>3
<1>6. DataOf(p) \in Seq(Bytes) /\ Len(DataOf(p)) = p[3]
  BY <1>1, <1>4
<1> QED
  BY <1>1, <1>5, <1>6

\* The receiver idle, with part of a packet behind it, would be between two packets.
LEMMA FrameEmpty ==
    ASSUME IInv
    PROVE  frame = <<>> => rx = InitReceiver
<1> SUFFICES ASSUME frame = <<>> PROVE rx = InitReceiver
  OBVIOUS
<1>1. Len(frame) = 0
  OBVIOUS
<1>2. /\ rx.state = "IDLE" /\ rx.header = 0 /\ rx.offset = 0 /\ rx.expected = 0
  BY <1>1, RxFields DEF IInv, TypeOK, RxStates, FrameOK, FrameIdle, FrameLength, FrameData, FrameCrc
<1> QED
  BY <1>2, RxFields DEF IInv, TypeOK, InitReceiver

\* Where the receiver is, by the number of bytes it has kept.
LEMMA FrameTells ==
    ASSUME IInv, NEW p, Framed(p), Transit(p)
    PROVE  LET k == Len(frame)
           IN /\ k \in 0 .. p[3] + 3 /\ Head(wire) = p[k + 1] /\ Head(wire) \in Bytes
              /\ rx.state = "IDLE" => k = rx.header /\ k \in {0, 1}
              /\ rx.state = "GET_DATA_LENGTH" => k = 2
              /\ rx.state = "GET_DATA" => k = 3 + rx.offset /\ rx.expected = p[3]
              /\ rx.state = "GET_DATA_CRC" =>
                    k = 3 + p[3] /\ rx.expected = p[3] /\ Buffered(p[3])
<1>1. wire \in Seq(Bytes) /\ frame \in Seq(Bytes) /\ Len(frame) \in Nat
      /\ Len(wire) \in Nat /\ Len(wire) # 0
  BY DEF IInv, WireOfBytes, FrameOK, Transit
<1>2. Head(wire) = wire[1] /\ wire[1] = p[Len(frame) + 1] /\ wire[1] \in Bytes
  BY <1>1 DEF Transit
<1>3. Len(frame) \in 0 .. p[3] + 3
  BY <1>1, FramedData DEF Transit, Framed
<1>4. rx.state = "IDLE" => Len(frame) = rx.header /\ rx.header \in {0, 1}
  BY RxFields DEF IInv, TypeOK, FrameOK, FrameIdle
<1>5. rx.state = "GET_DATA_LENGTH" => Len(frame) = 2
  BY DEF IInv, FrameOK, FrameLength
<1>6. ASSUME rx.state = "GET_DATA"
      PROVE  Len(frame) = 3 + rx.offset /\ rx.expected = p[3]
  <2>1. Len(frame) = 3 + rx.offset /\ frame[3] = rx.expected /\ rx.offset \in Nat
    BY <1>6, RxFields, LengthAssumption DEF IInv, TypeOK, FrameOK, FrameData, Announced
  <2>2. 3 \in 1 .. Len(frame)
    BY <2>1
  <2> QED
    BY <2>1, <2>2 DEF Transit
<1>7. ASSUME rx.state = "GET_DATA_CRC"
      PROVE  Len(frame) = 3 + p[3] /\ rx.expected = p[3] /\ Buffered(p[3])
  <2>1. /\ Len(frame) = 3 + rx.expected /\ frame[3] = rx.expected /\ rx.expected \in Nat
        /\ Buffered(rx.expected)
    BY <1>7, LengthAssumption DEF IInv, FrameOK, FrameCrc, Announced
  <2>2. 3 \in 1 .. Len(frame)
    BY <2>1
  <2> QED
    BY <2>1, <2>2 DEF Transit
<1> QED
  BY <1>2, <1>3, <1>4, <1>5, <1>6, <1>7

\* Each byte of a packet is received as part of it, and the last one posts it.
LEMMA TransitStep ==
    ASSUME IInv, Receive, NEW p, Framed(p), Transit(p)
    PROVE  (Transit(p) \/ Arrived(p))' /\ UNCHANGED <<main, sent, command, strays>>
<1> DEFINE b == Head(wire)
           k == Len(frame)
<1>0. UNCHANGED <<main, sent, command, strays>>
  BY DEF Receive
<1>1. /\ Idle(b) \/ GetDataLength(b) \/ GetData(b) \/ GetDataCrc(b)
      /\ frame' = IF rx' = InitReceiver THEN <<>> ELSE Append(frame, b)
      /\ wire' = Tail(wire)
  BY DEF Receive
<1>2. /\ k \in 0 .. p[3] + 3 /\ b = p[k + 1] /\ b \in Bytes
      /\ rx.state = "IDLE" => k = rx.header /\ k \in {0, 1}
      /\ rx.state = "GET_DATA_LENGTH" => k = 2
      /\ rx.state = "GET_DATA" => k = 3 + rx.offset /\ rx.expected = p[3]
      /\ rx.state = "GET_DATA_CRC" => k = 3 + p[3] /\ rx.expected = p[3] /\ Buffered(p[3])
  BY FrameTells
<1>3. /\ wire \in Seq(Bytes) /\ frame \in Seq(Bytes) /\ wire # <<>> /\ queue = <<>>
      /\ Len(wire) = Len(p) - k /\ Len(p) = p[3] + 4 /\ p[3] \in 1 .. M
      /\ p[1] = LSB /\ p[2] = MSB
      /\ \A i \in 1 .. k : frame[i] = p[i]
      /\ \A i \in 1 .. Len(wire) : wire[i] = p[k + i]
  BY FramedData DEF Transit, IInv, WireOfBytes, FrameOK, Framed
<1>11. \A i \in 1 .. Len(wire) : wire[i] = p[k + i]
  BY DEF Transit
<1> HIDE DEF b, k
<1>10. k \in Nat /\ p[3] \in Nat /\ Len(p) \in Nat
  BY <1>2, <1>3, FramedData
<1>4. /\ Len(wire') = Len(wire) - 1 /\ Len(wire) \in Nat /\ Len(wire) >= 1
      /\ \A i \in 1 .. Len(wire) - 1 : wire'[i] = wire[i + 1]
  BY <1>1, <1>3
<1>5. ASSUME rx' # InitReceiver, queue' = queue, k < p[3] + 3
      PROVE  Transit(p)'
  <2>1. /\ Len(frame') = k + 1 /\ frame'[k + 1] = b
        /\ \A i \in 1 .. k : frame'[i] = frame[i]
    BY <1>1, <1>2, <1>5, ByteKept DEF k
  <2>2. Len(wire') = Len(p) - (k + 1) /\ Len(wire') # 0
    <3>1. Len(wire) = Len(p) - k /\ Len(wire) - 1 = Len(p) - (k + 1) /\ Len(wire) - 1 # 0
      BY <1>3, <1>10, <1>5
    <3> QED
      BY <1>4, <3>1, Zenon
  <2>3. \A i \in 1 .. k + 1 : frame'[i] = p[i]
    <3> SUFFICES ASSUME NEW i \in 1 .. k + 1 PROVE frame'[i] = p[i]
      OBVIOUS
    <3>1. i \in 1 .. k \/ i = k + 1
      BY <1>10
    <3> QED
      BY <1>2, <1>3, <2>1, <3>1
  <2>4. \A i \in 1 .. Len(wire') : wire'[i] = p[(k + 1) + i]
    <3> SUFFICES ASSUME NEW i \in 1 .. Len(wire') PROVE wire'[i] = p[(k + 1) + i]
      OBVIOUS
    <3>1. i \in 1 .. Len(wire) - 1
      BY <1>4, Zenon
    <3>2. i + 1 \in 1 .. Len(wire) /\ k + (i + 1) = (k + 1) + i
      BY <1>4, <1>10, <3>1
    <3> QED
      <4>1. wire'[i] = wire[i + 1]
        BY <1>4, <3>1
      <4>2. wire[i + 1] = p[k + (i + 1)]
        BY <1>11, <3>2, Zenon
      <4> QED
        BY <3>2, <4>1, <4>2
  <2>5. wire' # <<>> /\ queue' = <<>>
    BY <1>3, <1>5, <2>2
  <2>6. Len(frame') + Len(wire') = Len(p)
    <3>1. (k + 1) + (Len(p) - (k + 1)) = Len(p)
      BY <1>2, <1>3, FramedData
    <3> QED
      BY <2>1, <2>2, <3>1, Zenon
  <2> QED
    BY <2>1, <2>3, <2>4, <2>5, <2>6 DEF Transit
<1>6. CASE Idle(b)
  <2>1. rx.state = "IDLE" /\ k = rx.header /\ k \in {0, 1} /\ queue' = queue
        /\ b = IF k = 0 THEN LSB ELSE MSB
    BY <1>2, <1>3, <1>6 DEF Idle
  <2>2. rx' = IF k = 0 THEN [rx EXCEPT !.header = 1]
              ELSE [rx EXCEPT !.header = 0, !.state = "GET_DATA_LENGTH"]
    BY <1>6, <2>1 DEF Idle
  <2>3. rx' # InitReceiver
    <3>1. rx'.header = 1 \/ rx'.state = "GET_DATA_LENGTH"
      BY <2>1, <2>2 DEF IInv, TypeOK, RxStates
    <3> QED
      BY <3>1 DEF InitReceiver
  <2> QED
    BY <1>0, <1>3, <1>5, <2>1, <2>3
<1>7. CASE GetDataLength(b)
  <2>1. rx.state = "GET_DATA_LENGTH" /\ k = 2 /\ b \in 1 .. M /\ queue' = queue
    BY <1>2, <1>3, <1>7 DEF GetDataLength
  <2>2. rx'.state = "GET_DATA"
    BY <1>7, <2>1 DEF GetDataLength, IInv, TypeOK, RxStates
  <2>3. rx' # InitReceiver
    BY <2>2 DEF InitReceiver
  <2> QED
    BY <1>0, <1>3, <1>5, <2>1, <2>3
<1>8. CASE GetData(b)
  <2>1. /\ rx.state = "GET_DATA" /\ k = 3 + rx.offset /\ queue' = queue
        /\ rx.offset < rx.expected /\ rx.expected = p[3] /\ rx.offset \in Nat
    BY <1>2, <1>8, RxFields, LengthAssumption DEF GetData, IInv, TypeOK, FrameOK, FrameData
  <2>2. rx'.state \in {"GET_DATA", "GET_DATA_CRC"}
    BY <1>8, <2>1 DEF GetData, IInv, TypeOK, RxStates
  <2>3. rx' # InitReceiver
    BY <2>2 DEF InitReceiver
  <2>4. k < p[3] + 3
    BY <1>3, <2>1
  <2> QED
    BY <1>0, <1>5, <2>1, <2>3, <2>4
<1>9. CASE GetDataCrc(b)
  <2>1. /\ rx.state = "GET_DATA_CRC" /\ k = 3 + p[3] /\ rx.expected = p[3] /\ buffer' = buffer
        /\ Buffered(p[3])
    BY <1>2, <1>9 DEF GetDataCrc
  <2>2. rx' = InitReceiver
    <3>1. rx.header = 0 /\ rx.offset = 0
      BY <2>1 DEF IInv, FrameOK, FrameCrc, Announced
    <3> QED
      BY <1>9, <2>1, <3>1 DEF GetDataCrc, InitReceiver, IInv, TypeOK, RxStates
  <2>3. frame' = <<>> /\ Len(wire') = 0 /\ b = p[Len(p)]
    <3>1. Len(wire) = 1 /\ k + 1 = Len(p)
      BY <1>3, <2>1
    <3> QED
      BY <1>1, <1>2, <1>4, <2>2, <3>1
  <2>4. wire' = <<>>
    BY <1>1, <1>3, <2>3
  <2>5. queue' = <<[size |-> p[3], crc |-> p[Len(p)]]>>
    <3>1. Len(queue) = 0 /\ 0 < SCHEDULER_MAX_QUEUE_SIZE
      BY <1>3, QueueAssumption
    <3>2. queue' = Append(queue, [size |-> p[3], crc |-> p[Len(p)]])
      BY <1>9, <2>1, <2>3, <3>1, QueueAssumption DEF GetDataCrc
    <3> QED
      BY <1>3, <3>2
  <2>6. \A i \in 1 .. p[3] : buffer'[i - 1] = p[3 + i]
    <3> SUFFICES ASSUME NEW i \in 1 .. p[3] PROVE buffer'[i - 1] = p[3 + i]
      OBVIOUS
    <3>1. buffer'[i - 1] = frame[3 + i] /\ 3 + i \in 1 .. k
      BY <1>3, <2>1 DEF Buffered
    <3> QED
      BY <1>3, <3>1
  <2> QED
    BY <1>0, <2>2, <2>3, <2>4, <2>5, <2>6 DEF Arrived
<1> QED
  BY <1>1, <1>6, <1>7, <1>8, <1>9

\* The main thread works on a packet that nothing can overwrite: what it computes is
\* the checksum of its data.
Handled(p) ==
    /\ Arrived(p)
    /\ pc \in {"idle", "loop", "deliver"}
    /\ pc = "loop" => offset <= p[3] /\ crc = Sum(DataOf(p), offset)
    /\ pc = "deliver" => XorCrc(DataOf(p)) = p[Len(p)]

\* It has done so, and nothing is on the line, or it is idle.
Spent == wire = <<>> /\ rx = InitReceiver /\ frame = <<>> /\ Len(queue) = 1 /\ pc = "return"

Silent == wire = <<>> /\ rx = InitReceiver /\ frame = <<>> /\ queue = <<>> /\ pc = "idle"

LEMMA HandledStep ==
    ASSUME IInv, NEW p, Framed(p), Handled(p), MainThread
    PROVE  /\ (Handled(p) \/ Spent)' /\ UNCHANGED <<wire, strays>>
           /\ pc # "deliver" => UNCHANGED <<sent, command>>
           /\ pc = "deliver" =>
                /\ Spent' /\ sent' = <<>> /\ XorCrc(DataOf(p)) = p[Len(p)]
                /\ command' = [i \in 1 .. CommandSize |-> buffer[i - 1]]
<1>1. /\ Arrived(p) /\ pc \in {"idle", "loop", "deliver"}
      /\ pc = "loop" => offset <= p[3] /\ crc = Sum(DataOf(p), offset)
      /\ pc = "deliver" => XorCrc(DataOf(p)) = p[Len(p)]
      /\ queue = <<[size |-> p[3], crc |-> p[Len(p)]]>> /\ Len(queue) = 1
      /\ Head(queue).size = p[3] /\ Head(queue).crc = p[Len(p)]
      /\ \A i \in 1 .. p[3] : buffer[i - 1] = p[3 + i]
      /\ wire = <<>> /\ rx = InitReceiver /\ frame = <<>>
  BY DEF Handled, Arrived
<1>2. UNCHANGED <<wire, rx, buffer, frame, strays>>
  BY DEF MainThread, StartPostProcessing, AddByte, CheckCrc, Deliver, FinishPostProcessing,
     receiver
<1>3. UNCHANGED queue => Arrived(p)' /\ Len(queue') = 1
  BY <1>1, <1>2 DEF Arrived
<1>4. DataOf(p) \in Seq(Bytes) /\ Len(DataOf(p)) = p[3] /\ p[3] \in Nat /\ offset \in Nat
  BY FramedData, LengthAssumption DEF IInv, TypeOK
<1>5. CASE StartPostProcessing
  <2>1. /\ UNCHANGED <<queue, sent, command>> /\ pc = "idle" /\ pc' = "loop" /\ offset' = 0
        /\ crc' = 0
    BY <1>5 DEF StartPostProcessing
  <2>2. crc' = Sum(DataOf(p), offset') /\ offset' <= p[3]
    BY <1>4, <2>1, SumStep
  <2> QED
    BY <1>2, <1>3, <2>1, <2>2 DEF Handled
<1>6. CASE AddByte
  <2>1. /\ UNCHANGED <<queue, sent, command, pc>> /\ pc = "loop" /\ offset < p[3]
        /\ offset' = offset + 1 /\ crc' = Xor(crc, buffer[offset])
    BY <1>1, <1>6 DEF AddByte
  <2>2. DataOf(p)[offset + 1] = buffer[offset]
    <3>1. offset + 1 \in 1 .. p[3] /\ (offset + 1) - 1 = offset
      BY <1>4, <2>1
    <3>2. buffer[(offset + 1) - 1] = p[3 + (offset + 1)]
      BY <1>1, <3>1, Zenon
    <3> QED
      BY <3>1, <3>2 DEF DataOf
  <2>3. crc' = Sum(DataOf(p), offset')
    BY <1>1, <1>4, <2>1, <2>2, SumStep
  <2>4. offset' <= p[3]
    BY <1>4, <2>1
  <2> QED
    BY <1>2, <1>3, <2>1, <2>3, <2>4 DEF Handled
<1>7. CASE CheckCrc
  <2>1. /\ UNCHANGED <<queue, sent, command>> /\ pc = "loop" /\ offset = p[3]
        /\ pc' = IF crc = p[Len(p)] THEN "deliver" ELSE "return"
    BY <1>1, <1>7 DEF CheckCrc
  <2>2. crc = XorCrc(DataOf(p))
    BY <1>1, <1>4, <2>1, XorCrcIsSum
  <2>3. CASE crc = p[Len(p)]
    BY <1>2, <1>3, <2>1, <2>2, <2>3 DEF Handled
  <2>4. CASE crc # p[Len(p)]
    BY <1>1, <1>2, <1>3, <2>1, <2>4 DEF Spent
  <2> QED
    BY <2>3, <2>4
<1>8. CASE Deliver
  BY <1>1, <1>2, <1>3, <1>8 DEF Deliver, Spent
<1>9. CASE FinishPostProcessing
  BY <1>1, <1>9 DEF FinishPostProcessing
<1> QED
  BY <1>5, <1>6, <1>7, <1>8, <1>9 DEF MainThread

LEMMA SpentStep ==
    ASSUME IInv, Spent, MainThread
    PROVE  Silent' /\ UNCHANGED <<wire, strays, sent, command>>
<1>1. FinishPostProcessing
  BY DEF Spent, MainThread, StartPostProcessing, AddByte, CheckCrc, Deliver
<1>2. Tail(queue) = <<>>
  <2>1. queue \in Seq([size : 1 .. M, crc : Bytes]) /\ queue # <<>> /\ Len(queue) = 1
    BY DEF Spent, IInv, TypeOK
  <2>2. Tail(queue) \in Seq([size : 1 .. M, crc : Bytes]) /\ Len(Tail(queue)) = 0
    BY <2>1, HeadTailProperties
  <2> QED
    BY <2>2, EmptySeq
<1> QED
  BY <1>1, <1>2 DEF FinishPostProcessing, Spent, Silent, receiver

LEMMA SilentStep ==
    ASSUME Silent, Receive \/ MainThread
    PROVE  FALSE
  BY DEF Silent, Receive, MainThread, StartPostProcessing, AddByte, CheckCrc, Deliver,
     FinishPostProcessing

LEMMA ConcatParts ==
    ASSUME NEW s \in Seq(Bytes), NEW t \in Seq(Bytes)
    PROVE  /\ s \o t \in Seq(Bytes) /\ Len(s \o t) = Len(s) + Len(t)
           /\ \A i \in 1 .. Len(s) : (s \o t)[i] = s[i]
           /\ \A i \in 1 .. Len(t) : (s \o t)[Len(s) + i] = t[i]
<1>1. /\ s \o t \in Seq(Bytes) /\ Len(s \o t) = Len(s) + Len(t)
      /\ Len(s) \in Nat /\ Len(t) \in Nat
      /\ \A i \in 1 .. Len(s) + Len(t) :
            (s \o t)[i] = IF i <= Len(s) THEN s[i] ELSE t[i - Len(s)]
  BY ConcatProperties, LenProperties
<1>2. ASSUME NEW i \in 1 .. Len(s) PROVE (s \o t)[i] = s[i]
  <2>1. i \in 1 .. Len(s) + Len(t) /\ i <= Len(s)
    BY <1>1
  <2> QED
    BY <1>1, <2>1
<1>3. ASSUME NEW i \in 1 .. Len(t) PROVE (s \o t)[Len(s) + i] = t[i]
  <2>1. Len(s) + i \in 1 .. Len(s) + Len(t) /\ ~(Len(s) + i <= Len(s))
        /\ (Len(s) + i) - Len(s) = i
    BY <1>1
  <2> QED
    BY <1>1, <2>1
<1> QED
  BY <1>1, <1>2, <1>3

\* What a host sends.
PacketOf(data) == <<LSB, MSB, Len(data)>> \o data \o <<XorCrc(data)>>

LEMMA PacketBytes ==
    ASSUME NEW data \in Seq(Bytes), Len(data) \in Bytes
    PROVE  /\ PacketOf(data) \in Seq(Bytes)
           /\ Len(PacketOf(data)) = Len(data) + 4
           /\ PacketOf(data)[1] = LSB /\ PacketOf(data)[2] = MSB /\ PacketOf(data)[3] = Len(data)
           /\ \A i \in 1 .. Len(data) : PacketOf(data)[3 + i] = data[i]
           /\ PacketOf(data)[Len(data) + 4] = XorCrc(data)
<1> DEFINE head == <<LSB, MSB, Len(data)>>
           foot == <<XorCrc(data)>>
<1>1. head \in Seq(Bytes) /\ Len(head) = 3 /\ head[1] = LSB /\ head[2] = MSB
      /\ head[3] = Len(data)
  BY BytesAssumption
<1>2. foot \in Seq(Bytes) /\ Len(foot) = 1 /\ foot[1] = XorCrc(data)
  BY XorCrcIsByte
<1>3. PacketOf(data) = (head \o data) \o foot
  BY DEF PacketOf
<1> HIDE DEF head, foot
<1>4. /\ head \o data \in Seq(Bytes) /\ Len(head \o data) = 3 + Len(data)
      /\ \A i \in 1 .. 3 : (head \o data)[i] = head[i]
      /\ \A i \in 1 .. Len(data) : (head \o data)[3 + i] = data[i]
  <2>1. /\ head \o data \in Seq(Bytes) /\ Len(head \o data) = Len(head) + Len(data)
        /\ \A i \in 1 .. Len(head) : (head \o data)[i] = head[i]
        /\ \A i \in 1 .. Len(data) : (head \o data)[Len(head) + i] = data[i]
    BY <1>1, ConcatParts, Zenon
  <2> QED
    BY <1>1, <2>1, Zenon
<1>5. Len(data) \in Nat
  OBVIOUS
<1> DEFINE both == head \o data
<1>6. both \in Seq(Bytes) /\ Len(both) = 3 + Len(data)
  BY <1>4
<1>7. PacketOf(data) = both \o foot
  BY <1>3
<1> HIDE DEF both
<1>8. /\ PacketOf(data) \in Seq(Bytes) /\ Len(PacketOf(data)) = (3 + Len(data)) + 1
      /\ \A i \in 1 .. 3 + Len(data) : PacketOf(data)[i] = both[i]
      /\ PacketOf(data)[(3 + Len(data)) + 1] = XorCrc(data)
  <2>1. 1 \in 1 .. 1
    OBVIOUS
  <2>2. /\ both \o foot \in Seq(Bytes) /\ Len(both \o foot) = Len(both) + Len(foot)
        /\ \A i \in 1 .. Len(both) : (both \o foot)[i] = both[i]
        /\ \A i \in 1 .. Len(foot) : (both \o foot)[Len(both) + i] = foot[i]
    BY <1>2, <1>6, ConcatParts, Zenon
  <2> QED
    BY <1>2, <1>6, <1>7, <2>1, <2>2, Zenon
<1>9. (3 + Len(data)) + 1 = Len(data) + 4
  BY <1>5
<1>10. /\ PacketOf(data)[1] = LSB /\ PacketOf(data)[2] = MSB
       /\ PacketOf(data)[3] = Len(data)
  BY <1>1, <1>4, <1>5, <1>8 DEF both
<1>11. ASSUME NEW i \in 1 .. Len(data) PROVE PacketOf(data)[3 + i] = data[i]
  <2>1. 3 + i \in 1 .. 3 + Len(data)
    BY <1>5
  <2> QED
    BY <1>4, <1>8, <2>1 DEF both
<1> QED
  BY <1>8, <1>9, <1>10, <1>11

LEMMA PacketFramed ==
    ASSUME NEW data \in Seq(Bytes), Len(data) \in Bytes, Len(data) \in 1 .. M
    PROVE  Framed(PacketOf(data)) /\ DataOf(PacketOf(data)) = data
<1>1. Framed(PacketOf(data))
  BY PacketBytes DEF Framed
<1>2. DataOf(PacketOf(data)) = [i \in 1 .. Len(data) |-> data[i]]
  BY PacketBytes DEF DataOf
<1> QED
  BY <1>1, <1>2

LEMMA PacketSent ==
    ASSUME IInv, NEW data \in Seq(Bytes), Len(data) \in Bytes, HostPacket(data), frame = <<>>,
           queue = <<>>
    PROVE  Transit(PacketOf(data))' /\ sent' = data /\ UNCHANGED <<pc, strays, command>>
<1>1. /\ wire' = PacketOf(data) /\ frame' = <<>> /\ queue' = <<>>
      /\ sent' = data /\ UNCHANGED <<pc, strays, command>>
  BY DEF HostPacket, PacketOf, main
<1>2. PacketOf(data) \in Seq(Bytes) /\ Len(PacketOf(data)) = Len(data) + 4 /\ Len(data) \in Nat
  BY PacketBytes
<1>3. PacketOf(data) # <<>>
  BY <1>2
<1> QED
  BY <1>1, <1>2, <1>3 DEF Transit

-----------------------------------------------------------------------------
(* The command is the one that was sent.                                   *)

\* As long as nothing else was on the line, it is silent or carries one packet.
Carries(d) ==
    /\ sent = d
    /\ (Transit(PacketOf(d)) /\ pc = "idle") \/ Handled(PacketOf(d))

LineInv ==
    /\ strays \in Nat
    /\ strays = 0 => Silent \/ Spent \/ \E d \in Payloads : Carries(d)

\* The application takes as much of a packet as a command has, whatever was sent.
Fits == \A d \in Payloads : Len(d) \in CommandSize .. M

LEMMA LineInit == Init => LineInv
  BY DEF Init, LineInv, Silent

LEMMA CarriesStep ==
    ASSUME Fits, Paced, IInv, NEW d \in Payloads, Carries(d), Receive \/ MainThread
    PROVE  /\ (Carries(d) \/ Spent)' /\ strays' = strays
           /\ pc = "deliver" /\ pc' = "return" => command' = SubSeq(sent, 1, CommandSize)
<1>1. /\ d \in Seq(Bytes) /\ Len(d) \in Bytes /\ Len(d) \in CommandSize .. M
      /\ Len(d) \in 1 .. M /\ CommandSize \in Nat /\ M \in Nat
  BY PayloadsAssumption, LengthAssumption DEF Fits
<1> DEFINE p == PacketOf(d)
<1>2. Framed(p) /\ DataOf(p) = d /\ p[3] = Len(d)
  BY <1>1, PacketFramed, PacketBytes
<1>3. sent = d /\ ((Transit(p) /\ pc = "idle") \/ Handled(p))
  BY DEF Carries
<1> HIDE DEF p
<1>4. CASE Transit(p) /\ pc = "idle"
  <2>1. Receive
    BY <1>4 DEF Transit, MainThread, StartPostProcessing, AddByte, CheckCrc, Deliver,
       FinishPostProcessing
  <2>2. (Transit(p) \/ Arrived(p))' /\ UNCHANGED <<pc, sent, strays>>
    BY <1>2, <1>4, <2>1, TransitStep DEF main
  <2>3. pc' = "idle" /\ (Arrived(p)' => Handled(p)')
    BY <1>4, <2>2 DEF Handled
  <2> QED
    BY <1>3, <1>4, <2>2, <2>3 DEF Carries, p
<1>5. CASE Handled(p)
  <2>1. MainThread
    BY <1>5 DEF Handled, Arrived, Receive
  <2>2. CASE pc # "deliver"
    <3>1. (Handled(p) \/ Spent)' /\ UNCHANGED <<strays, sent>>
      BY <1>2, <1>5, <2>1, <2>2, HandledStep
    <3> QED
      BY <1>3, <2>2, <3>1 DEF Carries, p
  <2>3. CASE pc = "deliver"
    <3>1. Spent' /\ UNCHANGED strays /\ command' = [i \in 1 .. CommandSize |-> buffer[i - 1]]
      BY <1>2, <1>5, <2>1, <2>3, HandledStep
    <3>2. \A i \in 1 .. CommandSize : buffer[i - 1] = d[i]
      <4> SUFFICES ASSUME NEW i \in 1 .. CommandSize PROVE buffer[i - 1] = d[i]
        OBVIOUS
      <4>1. i \in 1 .. Len(d)
        BY <1>1
      <4>2. buffer[i - 1] = p[3 + i]
        BY <1>2, <1>5, <4>1 DEF Handled, Arrived
      <4>3. p[3 + i] = d[i]
        BY <1>1, <4>1, PacketBytes DEF p
      <4> QED
        BY <4>2, <4>3
    <3>3. command' = [i \in 1 .. CommandSize |-> d[i]]
      BY <3>1, <3>2
    <3>4. SubSeq(d, 1, CommandSize) = [i \in 1 .. CommandSize |-> d[i]]
      BY <1>1
    <3> QED
      BY <1>3, <3>1, <3>3, <3>4
  <2> QED
    BY <2>2, <2>3
<1> QED
  BY <1>3, <1>4, <1>5

LEMMA LineKept ==
    ASSUME Fits, Paced, IInv, LineInv, [Next]_vars
    PROVE  /\ LineInv'
           /\ pc = "deliver" /\ pc' = "return" /\ strays = 0 =>
                command' = SubSeq(sent, 1, CommandSize)
<1>1. strays \in Nat
  BY DEF LineInv
<1>2. CASE UNCHANGED vars
  BY <1>2 DEF vars, LineInv, Carries, Silent, Spent, Transit, Handled, Arrived
<1>3. CASE Next /\ strays # 0
  <2>1. strays' = strays \/ strays' = strays + 1
    BY <1>3 DEF Next, Receive, MainThread, StartPostProcessing, AddByte, CheckCrc, Deliver,
       FinishPostProcessing, HostPacket, StrayByte
  <2> QED
    BY <1>1, <1>3, <2>1 DEF LineInv
<1>4. CASE strays = 0 /\ (Receive \/ MainThread)
  <2>1. Silent \/ Spent \/ \E d \in Payloads : Carries(d)
    BY <1>4 DEF LineInv
  <2>2. CASE Silent
    BY <1>4, <2>2, SilentStep
  <2>3. CASE Spent
    <3>1. MainThread /\ pc # "deliver"
      BY <1>4, <2>3 DEF Spent, Receive
    <3> QED
      BY <1>1, <2>3, <3>1, SpentStep DEF LineInv
  <2>4. ASSUME NEW d \in Payloads, Carries(d)
        PROVE  LineInv' /\ (pc = "deliver" /\ pc' = "return" =>
                                command' = SubSeq(sent, 1, CommandSize))
    <3>1. /\ (Carries(d) \/ Spent)' /\ strays' = strays
          /\ pc = "deliver" /\ pc' = "return" => command' = SubSeq(sent, 1, CommandSize)
      BY <1>4, <2>4, CarriesStep
    <3> QED
      BY <1>1, <3>1 DEF LineInv
  <2> QED
    BY <2>1, <2>2, <2>3, <2>4
<1>5. ASSUME strays = 0, NEW data \in Payloads, HostPacket(data) PROVE LineInv' /\ pc' = pc
  <2>1. wire = <<>> /\ pc = "idle" /\ queue = <<>>
    BY <1>5 DEF HostPacket
  <2>2. frame = <<>>
    BY <1>5, <2>1 DEF LineInv, Silent, Spent, Carries, Transit, Handled, Arrived
  <2>3. data \in Seq(Bytes) /\ Len(data) \in Bytes
    BY PayloadsAssumption
  <2>4. Transit(PacketOf(data))' /\ sent' = data /\ UNCHANGED <<pc, strays>>
    BY <1>5, <2>1, <2>2, <2>3, PacketSent
  <2> QED
    BY <1>1, <2>1, <2>4 DEF LineInv, Carries
<1>6. ASSUME strays = 0, NEW b \in Bytes, StrayByte(b) PROVE LineInv' /\ pc' = pc
  BY <1>6 DEF StrayByte, LineInv, main
<1> QED
  BY <1>2, <1>3, <1>4, <1>5, <1>6 DEF Next

\* As long as nothing else was on the line and the host waits for its packets, the
\* command that the application copies out of ipc.c's buffer is the one that was sent.
THEOREM CommandIntact ==
    ASSUME Fits, Paced
    PROVE  Spec => IntactDelivery
<1>1. LineInv /\ IInv /\ [Next]_vars => LineInv'
  BY LineKept
<1>2. LineInv /\ IInv /\ [Next]_vars =>
        [pc = "deliver" /\ pc' = "return" /\ strays = 0 =>
            command' = SubSeq(sent, 1, CommandSize)]_vars
  BY LineKept
<1> QED
  BY <1>1, <1>2, LineInit, IInvHolds, PTL DEF Spec, IntactDelivery
=============================================================================
