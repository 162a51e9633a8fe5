----------------------------- MODULE Commander -----------------------------
(***************************************************************************)
(* The PC stepper motor commander, main.py with its ipc.py, at the other   *)
(* end of IpcReceiver's line, and the way back: ipc_send_data_packet of    *)
(* components/ipc/ipc.c and the reading half of ipc.py.                    *)
(*                                                                         *)
(* Each run of main.py is a session: it opens the port, which discards     *)
(* what the port holds, sends one command and waits for the response.  The *)
(* user may interrupt it at any moment, and run it again.  The application *)
(* answers each command it takes (PositioningService), and drops one that  *)
(* comes while it executes another.  The line may garble one byte of a     *)
(* packet, but not its length, which the checksum does not cover.          *)
(***************************************************************************)
EXTENDS IpcReceiver

CONSTANTS ENCODER_DRV_ENCODER_POSITION_RESOLUTION, FULL_TURN,
          Angles,         \* environment: what the user asks for
          Replacements,   \* environment: what a byte is garbled to
          Sessions,       \* bound: runs of main.py
          Garbles         \* bound: bytes garbled

R == ENCODER_DRV_ENCODER_POSITION_RESOLUTION

ASSUME CommanderAssumption ==
    /\ Angles \subseteq Nat /\ Replacements \subseteq Bytes
    /\ Sessions \in Nat /\ Garbles \in Nat

\* The types of the messages hold what is put into them.
ASSUME MessagesAssumption ==
    /\ Bytes = 0 .. 255 /\ CommandSize = 3
    /\ R \in 1 .. 256 /\ FULL_TURN \in Nat \ {0}
    /\ FULL_TURN <= 65536 /\ 255 * FULL_TURN < 65536 * R

VARIABLES session,     \* where main.py is
          requested,   \* smc_requested_angle
          expected,    \* expected_data_length
          back,        \* environment: bytes sent to the host and not read yet
          job,         \* the angle the application is to set, or NoJob
          achieved,    \* the position the application has last set
          opened,      \* environment: sessions so far
          garbles,     \* environment: bytes garbled so far
          spoiled,     \* history: one of them in this session
          late,        \* history: this session was opened while something
                       \* of an earlier one was still under way
          shown        \* history: how the last session ended

smc == <<session, requested, expected, late, shown>>
application == <<job, achieved>>
faults == <<garbles, spoiled>>
commanderVars == <<vars, smc, application, faults, back, opened>>

NoJob == -1

Reading == {"header", "length", "data"}

Endings == {"none", "angle", "refused", "error", "interrupted"}

CommanderTypeOK ==
    /\ TypeOK
    /\ session \in {"closed", "write"} \cup Reading
    /\ requested \in 0 .. FULL_TURN - 1
    /\ expected \in 0 .. M
    /\ back \in Seq(Bytes)
    /\ job \in Nat \cup {NoJob}
    /\ achieved \in 0 .. R - 1
    /\ opened \in 0 .. Sessions
    /\ garbles \in 0 .. Garbles
    /\ spoiled \in BOOLEAN
    /\ late \in BOOLEAN
    /\ shown \in [what : Endings, angle : Nat]

-----------------------------------------------------------------------------
(* Messages: to_bytes and the packed structures are little-endian. *)

Command(angle) == <<0, angle % 256, angle \div 256>>
Response(status, angle) == <<0, status, angle % 256, angle \div 256>>

Packet(data) == <<LSB, MSB, Len(data)>> \o data \o <<XorCrc(data)>>
PacketSize(data) == Len(data) + 4

\* ENCODER_DRV_ENCODER_ANGLE_TO_POSITION, assigned to a uint8_t, and back.
ToPosition(angle) == ((angle * R) \div FULL_TURN) % 256
ToAngle(position) == (position * FULL_TURN) \div R

CommanderInit ==
    /\ Init
    /\ session = "closed"
    /\ requested = 0
    /\ expected = 0
    /\ back = <<>>
    /\ job = NoJob
    /\ achieved = 0
    /\ opened = 0
    /\ garbles = 0
    /\ spoiled = FALSE
    /\ late = FALSE
    /\ shown = [what |-> "none", angle |-> 0]

Ends(what, angle) ==
    /\ session' = "closed"
    /\ shown' = [what |-> what, angle |-> angle]

-----------------------------------------------------------------------------
(* main.py. *)

Refuse(angle) ==
    /\ session = "closed" /\ opened < Sessions
    /\ angle \notin 0 .. FULL_TURN - 1
    /\ opened' = opened + 1
    /\ Ends("refused", 0)
    /\ UNCHANGED <<vars, application, faults, back, requested, expected, late>>

\* No command and no response is under way, in the line or in the microcontroller.
AtRest == wire = <<>> /\ queue = <<>> /\ pc = "idle" /\ job = NoJob


\* Mutant: the angle is not compared with the turn.
OpenUnchecked(angle) ==
    /\ session = "closed" /\ opened < Sessions
    /\ opened' = opened + 1
    /\ session' = "write"
    /\ requested' = angle
    /\ back' = <<>>
    /\ spoiled' = FALSE
    /\ late' = ~AtRest
    /\ shown' = [what |-> "none", angle |-> 0]
    /\ UNCHANGED <<vars, application, garbles, expected>>

\* IpcHandler(...), which waits for two seconds.
Open(angle) ==
    /\ session = "closed" /\ opened < Sessions
    /\ angle \in 0 .. FULL_TURN - 1
    /\ opened' = opened + 1
    /\ session' = "write"
    /\ requested' = angle
    /\ back' = <<>>
    /\ spoiled' = FALSE
    /\ late' = ~AtRest
    /\ shown' = [what |-> "none", angle |-> 0]
    /\ UNCHANGED <<vars, application, garbles, expected>>

\* send_data_packet
Write ==
    /\ session = "write"
    /\ HostPacket(Command(requested))
    /\ session' = "header"
    /\ UNCHANGED <<application, faults, back, opened, requested, expected, late, shown>>

\* receive_data_packet, whose reads wait for their bytes for ever: the header ...
ReadHeader ==
    /\ session = "header"
    /\ Len(back) >= 2
    /\ back' = SubSeq(back, 3, Len(back))
    /\ \/ SubSeq(back, 1, 2) = <<LSB, MSB>> /\ session' = "length" /\ UNCHANGED shown
       \/ SubSeq(back, 1, 2) # <<LSB, MSB>> /\ Ends("error", 0)
    /\ UNCHANGED <<vars, application, faults, opened, requested, expected, late>>

\* ... the length ...
ReadLength ==
    /\ session = "length"
    /\ back # <<>>
    /\ back' = Tail(back)
    /\ IF Head(back) > M THEN Ends("error", 0) /\ UNCHANGED expected
       ELSE session' = "data" /\ expected' = Head(back) /\ UNCHANGED shown
    /\ UNCHANGED <<vars, application, faults, opened, requested, late>>

\* What main.py makes of a frame: an error for none and for an exception, and the
\* angle otherwise, which a slice past the end of the frame makes shorter.
Report(frm) ==
    IF Len(frm) < 2 \/ frm[1] # 0 \/ frm[2] # 0 THEN Ends("error", 0)
    ELSE Ends("angle", (IF Len(frm) >= 3 THEN frm[3] ELSE 0)
                           + 256 * (IF Len(frm) >= 4 THEN frm[4] ELSE 0))

\* Mutant: the checksum is read and not compared.
ReadDataUnchecked ==
    /\ session = "data"
    /\ Len(back) > expected
    /\ back' = SubSeq(back, expected + 2, Len(back))
    /\ Report(SubSeq(back, 1, expected))
    /\ UNCHANGED <<vars, application, faults, opened, requested, expected, late>>

\* ... the data and the checksum.
ReadData ==
    /\ session = "data"
    /\ Len(back) > expected
    /\ back' = SubSeq(back, expected + 2, Len(back))
    /\ LET data == SubSeq(back, 1, expected)
       IN IF back[expected + 1] = XorCrc(data) THEN Report(data) ELSE Ends("error", 0)
    /\ UNCHANGED <<vars, application, faults, opened, requested, expected, late>>

\* The user interrupts the session, whatever is under way: no handler of main.py
\* or ipc.py catches that.
GiveUp ==
    /\ session # "closed"
    /\ Ends("interrupted", 0)
    /\ UNCHANGED <<vars, application, faults, back, opened, requested, expected, late>>

-----------------------------------------------------------------------------
(* The microcontroller. *)

Firmware ==
    /\ Receive \/ StartPostProcessing \/ AddByte \/ CheckCrc \/ FinishPostProcessing
    /\ UNCHANGED <<smc, application, faults, back, opened>>

\* The application takes a command of the type it knows when it is ready, and
\* drops one that comes in EXECUTION.
TakeCommand ==
    /\ Deliver
    /\ job' = IF job = NoJob /\ command'[1] = 0
              THEN command'[2] + 256 * command'[3] ELSE job
    /\ UNCHANGED <<achieved, smc, faults, back, opened>>

\* ipc_send_data_packet; what is sent while no port is open is dropped.
SendDataPacket(data) ==
    IF Len(data) \in 1 .. M /\ session # "closed"
    THEN back' = back \o Packet(data) ELSE UNCHANGED back

\* The end of the command in user_application.c.
Answer ==
    /\ job # NoJob
    /\ job' = NoJob
    /\ LET position == ToPosition(job)
           ok == position <= R - 1
       IN /\ achieved' = IF ok THEN position ELSE achieved
          /\ SendDataPacket(Response(IF ok THEN 0 ELSE 1, ToAngle(position)))
    /\ UNCHANGED <<vars, smc, faults, opened>>

-----------------------------------------------------------------------------
(* The line: one byte of a packet, before any of it is read. *)

Garble ==
    /\ garbles < Garbles
    /\ garbles' = garbles + 1
    /\ spoiled' = TRUE
    /\ \E b \in Replacements :
          \/ \E i \in 1 .. Len(wire) \ {3} :
                /\ Len(wire) = PacketSize(sent) /\ wire[i] # b
                /\ wire' = [wire EXCEPT ![i] = b]
                /\ UNCHANGED back
          \/ \E i \in 1 .. Len(back) :
                /\ session = "header" /\ back[i] # b /\ i % PacketSize(Response(0, 0)) # 3
                /\ back' = [back EXCEPT ![i] = b]
                /\ UNCHANGED wire
    /\ UNCHANGED <<rx, buffer, queue, main, strays, frame, sent, command>>
    /\ UNCHANGED <<smc, application, opened>>

-----------------------------------------------------------------------------
Smc == Write \/ ReadHeader \/ ReadLength \/ ReadData

Mcu == Firmware \/ TakeCommand \/ Answer

CommanderNext ==
    \/ \E angle \in Angles : Open(angle) \/ Refuse(angle)
    \/ Write \/ ReadHeader \/ ReadLength \/ ReadData
    \/ GiveUp
    \/ Firmware \/ TakeCommand \/ Answer
    \/ Garble

CommanderSpec ==
    /\ CommanderInit /\ [][CommanderNext]_commanderVars
    /\ WF_commanderVars(Smc) /\ WF_commanderVars(Mcu)

-----------------------------------------------------------------------------
(* Properties; IntactDelivery of IpcReceiver is one of them, now with bytes *)
(* garbled in the packets.                                                  *)

\* "If successful, the script will display the achieved angle of the stepper
\* motor" (README, Usage): what main.py shows was asked for in this session, is
\* where the motor was driven, and right to the encoder's resolution, whichever
\* byte is garbled, however sessions before it were interrupted, if the last of
\* them was over when this one was opened.  A session that is opened while the
\* command of an earlier one executes may show the earlier one's angle.
ShownIsAchieved ==
    [][session # "closed" /\ ~late /\ session' = "closed" /\ shown'.what = "angle" =>
         /\ achieved = ToPosition(requested)
         /\ requested - shown'.angle \in 0 .. (FULL_TURN \div R)]_commanderVars


\* The receiver is in step when a session is over, with one exception: a packet
\* whose header was garbled and whose checksum is the first byte of the header,
\* as that of the angle 165, leaves the receiver waiting for the second one.
InStepAtRest ==
    AtRest /\ rx # InitReceiver =>
        garbles > 0 /\ sent # <<>> /\ XorCrc(sent) = LSB
=============================================================================
