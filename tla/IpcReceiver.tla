---------------------------- MODULE IpcReceiver ----------------------------
(***************************************************************************)
(* components/ipc/ipc.c, the receiving half: the state machine that the    *)
(* interrupt for received characters feeds byte by byte into one shared    *)
(* buffer, and the post-processing of a packet, in the main thread, which  *)
(* checks the buffer and hands it to the application, which copies it.     *)
(*                                                                         *)
(* The scheduler is a FIFO that refuses what does not fit.  The environ-   *)
(* ment is the program at the other end of the line: it sends packets as   *)
(* ipc.py builds them, and there may be stray bytes between them.          *)
(***************************************************************************)
EXTENDS Integers, Sequences

CONSTANTS IPC_PACKET_MAX_DATA_LENGTH,
          Bytes,                    \* the values of a byte
          LSB, MSB,                 \* of IPC_PACKET_HEADER_PARAM
          Xor(_, _),                \* of two bytes
          SCHEDULER_MAX_QUEUE_SIZE,
          CommandSize,              \* bytes of a command, 3 in the code
          Payloads,                 \* environment: the data the host sends
          Paced,                    \* environment: it waits for the main thread
          Strays                    \* bound: stray bytes, in all

M == IPC_PACKET_MAX_DATA_LENGTH

ASSUME LengthAssumption == M \in Nat /\ CommandSize \in 1 .. M
ASSUME BytesAssumption ==
    /\ Bytes \subseteq Nat /\ 0 \in Bytes /\ LSB \in Bytes /\ MSB \in Bytes
    /\ \A a, b \in Bytes : Xor(a, b) \in Bytes
ASSUME QueueAssumption == SCHEDULER_MAX_QUEUE_SIZE \in Nat \ {0}
\* calculate_crc of ipc.py.
XorCrc(data) ==
    LET x[i \in 0 .. Len(data)] == IF i = 0 THEN 0 ELSE Xor(x[i - 1], data[i])
    IN x[Len(data)]

ASSUME PayloadsAssumption ==
    \A data \in Payloads : data \in Seq(Bytes) /\ Len(data) \in Bytes
ASSUME StraysAssumption == Strays \in Nat

VARIABLES rx,        \* ipc_state_machine_state and ipc_state_machine_params
          buffer,    \* ipc_received_data_packet_buffer
          queue,     \* the posted post-processing events; the head is handled
          pc,        \* where the main thread is
          offset,    \* received_data_packet_offset
          crc,       \* received_data_packet_crc
          wire,      \* environment: bytes sent and not received yet
          strays,    \* environment: stray bytes sent
          frame,     \* history: the bytes received since the receiver was idle
          sent,      \* history: the payload the host waits to be delivered
          command    \* history: the last command delivered

receiver == <<rx, buffer>>
main == <<pc, offset, crc>>
vars == <<rx, buffer, queue, pc, offset, crc, wire, strays, frame, sent, command>>

\* ipc_state_machine_states_t and the parameters that go with the state.
RxStates == [state : {"IDLE", "GET_DATA_LENGTH", "GET_DATA", "GET_DATA_CRC"},
             header : {0, 1}, offset : 0 .. M, expected : 0 .. M]

TypeOK ==
    /\ rx \in RxStates
    /\ buffer \in [0 .. M - 1 -> Bytes]
    /\ queue \in Seq([size : 1 .. M, crc : Bytes])
    /\ Len(queue) <= SCHEDULER_MAX_QUEUE_SIZE
    /\ pc \in {"idle", "loop", "deliver", "return"}
    /\ pc # "idle" => queue # <<>>
    /\ offset \in 0 .. M
    /\ crc \in Bytes

-----------------------------------------------------------------------------
InitReceiver == [state |-> "IDLE", header |-> 0, offset |-> 0, expected |-> 0]

Init ==
    /\ rx = InitReceiver
    /\ buffer = [i \in 0 .. M - 1 |-> 0]
    /\ queue = <<>>
    /\ pc = "idle"
    /\ offset = 0
    /\ crc = 0
    /\ wire = <<>>
    /\ strays = 0
    /\ frame = <<>>
    /\ sent = <<>>
    /\ command = <<>>

-----------------------------------------------------------------------------
(* ipc_state_machine_event_handler, in the interrupt, for the byte b. *)

\* Mutant: the second byte of the header is taken unseen.
IdleUnseen(b) ==
    /\ rx.state = "IDLE"
    /\ rx' = IF rx.header = 0
             THEN [rx EXCEPT !.header = IF b = LSB THEN 1 ELSE 0]
             ELSE [rx EXCEPT !.header = 0, !.state = "GET_DATA_LENGTH"]
    /\ UNCHANGED <<buffer, queue>>

\* IDLE looks for the two bytes of the header.
Idle(b) ==
    /\ rx.state = "IDLE"
    /\ rx' = IF rx.header = 0
             THEN [rx EXCEPT !.header = IF b = LSB THEN 1 ELSE 0]
             ELSE [rx EXCEPT !.header = 0,
                             !.state = IF b = MSB THEN "GET_DATA_LENGTH" ELSE @]
    /\ UNCHANGED <<buffer, queue>>

\* Mutant: the length is not checked against its bounds.
GetDataLengthUnchecked(b) ==
    /\ rx.state = "GET_DATA_LENGTH"
    /\ rx' = [rx EXCEPT !.expected = b, !.state = "GET_DATA"]
    /\ UNCHANGED <<buffer, queue>>

GetDataLength(b) ==
    /\ rx.state = "GET_DATA_LENGTH"
    /\ rx' = IF b \in 1 .. M
             THEN [rx EXCEPT !.expected = b, !.state = "GET_DATA"]
             ELSE [rx EXCEPT !.expected = 0, !.state = "IDLE"]
    /\ UNCHANGED <<buffer, queue>>

\* Mutant: the data ends one byte late.
GetDataOneMore(b) ==
    /\ rx.state = "GET_DATA"
    /\ buffer' = [buffer EXCEPT ![rx.offset] = b]
    /\ rx' = IF rx.offset = rx.expected
             THEN [rx EXCEPT !.offset = 0, !.state = "GET_DATA_CRC"]
             ELSE [rx EXCEPT !.offset = @ + 1]
    /\ UNCHANGED queue

\* Mutant: the offset is not reset at the end of the data.
GetDataNotReset(b) ==
    /\ rx.state = "GET_DATA"
    /\ buffer' = [buffer EXCEPT ![rx.offset] = b]
    /\ rx' = [rx EXCEPT !.offset = @ + 1,
                        !.state = IF rx.offset + 1 = rx.expected
                                  THEN "GET_DATA_CRC" ELSE @]
    /\ UNCHANGED queue

GetData(b) ==
    /\ rx.state = "GET_DATA"
    /\ buffer' = [buffer EXCEPT ![rx.offset] = b]
    /\ rx' = IF rx.offset + 1 = rx.expected
             THEN [rx EXCEPT !.offset = 0, !.state = "GET_DATA_CRC"]
             ELSE [rx EXCEPT !.offset = @ + 1]
    /\ UNCHANGED queue

GetDataCrc(b) ==
    /\ rx.state = "GET_DATA_CRC"
    /\ \/ /\ Len(queue) < SCHEDULER_MAX_QUEUE_SIZE
          /\ queue' = Append(queue, [size |-> rx.expected, crc |-> b])
       \/ /\ Len(queue) >= SCHEDULER_MAX_QUEUE_SIZE
          /\ UNCHANGED queue
    /\ rx' = [rx EXCEPT !.expected = 0, !.state = "IDLE"]
    /\ UNCHANGED buffer

\* The loop of ipc_receiver_buffer_data_available_callback, one byte of it.
Receive ==
    /\ wire # <<>>
    /\ wire' = Tail(wire)
    /\ LET b == Head(wire)
       IN /\ Idle(b) \/ GetDataLength(b) \/ GetData(b) \/ GetDataCrc(b)
          /\ frame' = IF rx' = InitReceiver THEN <<>> ELSE Append(frame, b)
    /\ UNCHANGED <<main, strays, sent, command>>

-----------------------------------------------------------------------------
(* ipc_received_data_packet_post_processing_handler, in the main thread. *)

\* Mutant: the checksum of the previous packet is carried over.
StartPostProcessingDirty ==
    /\ pc = "idle"
    /\ queue # <<>>
    /\ pc' = "loop"
    /\ offset' = 0
    /\ crc' = Head(queue).crc
    /\ UNCHANGED <<receiver, queue, wire, strays, frame, sent, command>>

StartPostProcessing ==
    /\ pc = "idle"
    /\ queue # <<>>
    /\ pc' = "loop"
    /\ offset' = 0
    /\ crc' = 0
    /\ UNCHANGED <<receiver, queue, wire, strays, frame, sent, command>>

AddByte ==
    /\ pc = "loop"
    /\ offset < Head(queue).size
    /\ crc' = Xor(crc, buffer[offset])
    /\ offset' = offset + 1
    /\ UNCHANGED <<receiver, queue, pc, wire, strays, frame, sent, command>>

\* Mutant: the checksum is computed and not compared.
CheckCrcSkipped ==
    /\ pc = "loop"
    /\ offset = Head(queue).size
    /\ pc' = "deliver"
    /\ UNCHANGED <<receiver, queue, offset, crc, wire, strays, frame, sent,
                   command>>

\* A packet that fails the check is reported, and dropped by the application.
CheckCrc ==
    /\ pc = "loop"
    /\ offset = Head(queue).size
    /\ pc' = IF crc = Head(queue).crc THEN "deliver" ELSE "return"
    /\ UNCHANGED <<receiver, queue, offset, crc, wire, strays, frame, sent,
                   command>>

\* Mutant: the copy has the bytes in the other order.
DeliverReversed ==
    /\ pc = "deliver"
    /\ command' = [i \in 1 .. CommandSize |-> buffer[CommandSize - i]]
    /\ sent' = <<>>
    /\ pc' = "return"
    /\ UNCHANGED <<receiver, queue, offset, crc, wire, strays, frame>>

\* user_application_process_received_data_packet_handler copies a command from
\* the buffer, whatever received_data_size is.
Deliver ==
    /\ pc = "deliver"
    /\ command' = [i \in 1 .. CommandSize |-> buffer[i - 1]]
    /\ sent' = <<>>
    /\ pc' = "return"
    /\ UNCHANGED <<receiver, queue, offset, crc, wire, strays, frame>>

\* The handler returns, its locals are gone, and the scheduler frees the slot.
FinishPostProcessing ==
    /\ pc = "return"
    /\ offset' = 0
    /\ crc' = 0
    /\ queue' = Tail(queue)
    /\ pc' = "idle"
    /\ UNCHANGED <<receiver, wire, strays, frame, sent, command>>

MainThread ==
    \/ StartPostProcessing \/ AddByte \/ CheckCrc
    \/ Deliver \/ FinishPostProcessing

-----------------------------------------------------------------------------
(* The other end of the line. *)

\* send_data_packet of ipc.py.
HostPacket(data) ==
    /\ wire = <<>>
    /\ Paced => pc = "idle" /\ queue = <<>>
    /\ wire' = <<LSB, MSB, Len(data)>> \o data \o <<XorCrc(data)>>
    /\ sent' = data
    /\ UNCHANGED <<receiver, queue, main, strays, frame, command>>

StrayByte(b) ==
    /\ wire = <<>>
    /\ strays < Strays
    /\ wire' = <<b>>
    /\ strays' = strays + 1
    /\ UNCHANGED <<receiver, queue, main, frame, sent, command>>

-----------------------------------------------------------------------------
Next ==
    \/ Receive
    \/ MainThread
    \/ \E data \in Payloads : HostPacket(data)
    \/ \E b \in Bytes : StrayByte(b)

Fairness == WF_vars(Receive) /\ WF_vars(MainThread)

Spec == Init /\ [][Next]_vars /\ Fairness

-----------------------------------------------------------------------------
(* Properties. *)

\* Whatever arrives, the interrupt writes inside the buffer, and the main thread
\* reads inside the part of it that the packet announced.
InBounds ==
    /\ rx.state = "GET_DATA" => rx.offset < rx.expected
    /\ rx.state # "GET_DATA" => rx.offset = 0
    /\ pc = "loop" => offset <= Head(queue).size

\* "progresses through stages/states including a packet header parsing, data
\* length extraction and CRC verification" (README, Inter Processor
\* Communication): whatever arrives, a packet is posted only for consecutive
\* bytes that are a header, a length, so many bytes of data and a checksum, and
\* the buffer holds that data then.
PostsAPacket ==
    LET posted == queue'[Len(queue')]
    IN /\ Len(frame) = 3 + posted.size
       /\ frame[1] = LSB /\ frame[2] = MSB /\ frame[3] = posted.size
       /\ \A i \in 1 .. posted.size : frame[3 + i] = buffer[i - 1]
       /\ posted.crc = Head(wire)

OnlyPackets == [][Len(queue') > Len(queue) => PostsAPacket]_vars

\* "it ensures data integrity through header construction and CRC checksum
\* computation" (README, Inter Processor Communication): the command handed to
\* the state machine of the application is the one its host sent, as long as
\* nothing else was on the line and the host waits for its packets.
IntactDelivery ==
    [][pc = "deliver" /\ pc' = "return" /\ strays = 0 =>
         command' = SubSeq(sent, 1, CommandSize)]_vars

\* As long as nothing else was on the line, every packet of a host that waits is
\* delivered.
EveryPacketDelivered ==
    sent # <<>> /\ strays = 0 ~> sent = <<>> \/ strays > 0

\* After stray bytes the receiver finds its way back to the packets: as long as
\* packets keep coming, some are delivered ("error handling during real-time
\* data transmission", README, Inter Processor Communication).
Resynchronises == []<>(wire # <<>>) => []<>(pc = "deliver")
=============================================================================
