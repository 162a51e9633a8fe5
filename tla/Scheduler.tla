----------------------------- MODULE Scheduler -----------------------------
(***************************************************************************)
(* components/scheduler/scheduler.c: the ring of events that interrupt     *)
(* handlers and the main thread fill and the main thread executes.         *)
(*                                                                         *)
(* The main thread runs in the steps an interrupt can separate; a stretch  *)
(* between system_utils_disable_interrupts and _enable_interrupts is one   *)
(* step.  All interrupts have the same priority on the one core in use, so *)
(* an interrupt handler, and a post it makes, is one step.                 *)
(*                                                                         *)
(* As in the code, `is_empty' means "the ring has room".  An event stands  *)
(* for the handler, the data and the length of a slot.                     *)
(***************************************************************************)
EXTENDS Naturals

CONSTANTS SCHEDULER_MAX_QUEUE_SIZE,
          Events,        \* events whose data fits a slot
          Oversized,     \* events longer than SCHEDULER_MAX_DATA_BUFFER_SIZE
          NoEvent,       \* the content of a slot that was never written
          InitCalls,     \* how often main calls scheduler_init (3 in the code)
          Load           \* bound: events posted or being posted at any time

N == SCHEDULER_MAX_QUEUE_SIZE

ASSUME SizeAssumption == N \in Nat /\ N >= 2
ASSUME EventsAssumption == NoEvent \notin Events \cup Oversized
ASSUME CallsAssumption == InitCalls \in Nat
ASSUME LoadAssumption == Load \in Nat

VARIABLES head, tail, is_empty,  \* scheduler_params
          slots,                 \* its event_handler, data_buffer, data_length
          pc,                    \* where the main thread is
          caller,                \* where it goes on after scheduler_event_put
          arg,                   \* the event it is posting
          inits,                 \* scheduler_init calls it has made
          fresh                  \* history: slots written since last executed

ring == <<head, tail, is_empty, slots>>
vars == <<head, tail, is_empty, slots, pc, caller, arg, inits, fresh>>

Slots == 0 .. N - 1

TypeOK ==
    /\ head \in Slots
    /\ tail \in Slots
    /\ is_empty \in BOOLEAN
    /\ slots \in [Slots -> Events \cup {NoEvent}]
    /\ pc \in {"boot", "reset", "idle", "handler", "put", "advance", "room"}
    /\ caller \in {"boot", "handler"}
    /\ arg \in Events \cup {NoEvent}
    /\ inits \in 0 .. InitCalls
    /\ fresh \in SUBSET Slots

-----------------------------------------------------------------------------
(* The ring as the indices describe it. *)

\* Mutant of Wrap: the index is not reset at the end of the ring.
WrapForgotten(i) == i

Wrap(i) == IF i >= N THEN i - N ELSE i     \* for i < 2 * N

After(i) == Wrap(i + 1)

CountOf(h, t, room) ==
    IF h = t THEN IF room THEN 0 ELSE N
    ELSE IF t < h THEN h - t ELSE h + N - t

Count == CountOf(head, tail, is_empty)

Queued == [k \in 1 .. Count |-> slots[Wrap(tail + k - 1)]]

InHandler == pc \in {"handler", "advance"} \/ (pc = "put" /\ caller = "handler")

Running == IF InHandler THEN slots[tail] ELSE NoEvent

Started == pc \notin {"boot", "reset"} /\ ~(pc = "put" /\ caller = "boot")

\* Environment: bounds how many events are posted or about to be.
WithinLoad == Count + (IF pc = "put" THEN 1 ELSE 0) < Load

-----------------------------------------------------------------------------
Init ==
    /\ head = 0
    /\ tail = 0
    /\ is_empty = TRUE
    /\ slots = [i \in Slots |-> NoEvent]
    /\ pc = "boot"
    /\ caller = "boot"
    /\ arg = NoEvent
    /\ inits = 0
    /\ fresh = {}

\* scheduler_init: one store clears both indices, the next one the flag.
ResetIndices ==
    /\ pc = "boot"
    /\ inits < InitCalls
    /\ head' = 0
    /\ tail' = 0
    /\ pc' = "reset"
    /\ inits' = inits + 1
    /\ UNCHANGED <<is_empty, slots, caller, arg, fresh>>

ResetRoom ==
    /\ pc = "reset"
    /\ is_empty' = TRUE
    /\ pc' = "boot"
    /\ UNCHANGED <<head, tail, slots, caller, arg, inits, fresh>>

\* main enters its loop once user_application_init has returned.
EnterLoop ==
    /\ pc = "boot"
    /\ inits = InitCalls
    /\ pc' = "idle"
    /\ UNCHANGED <<ring, caller, arg, inits, fresh>>

\* Mutant of Enqueue: the index is advanced before the slot is written.
EnqueueAfterAdvance(e) ==
    /\ slots' = [slots EXCEPT ![After(head)] = e]
    /\ head' = After(head)
    /\ is_empty' = (is_empty /\ After(head) # tail)
    /\ fresh' = fresh \cup {head}
    /\ UNCHANGED tail

\* The critical section of scheduler_event_put.
Enqueue(e) ==
    /\ slots' = [slots EXCEPT ![head] = e]
    /\ head' = After(head)
    /\ is_empty' = (is_empty /\ After(head) # tail)
    /\ fresh' = fresh \cup {head}
    /\ UNCHANGED tail

\* scheduler_event_put called from an interrupt handler.
IrqPut(e) ==
    /\ WithinLoad
    /\ is_empty
    /\ Enqueue(e)
    /\ UNCHANGED <<pc, caller, arg, inits>>

\* scheduler_event_put called from the main thread, up to the test of is_empty ...
MayPut == pc = "handler" \/ (pc = "boot" /\ inits = InitCalls)

MainPutCheck(e) ==
    /\ MayPut
    /\ WithinLoad
    /\ is_empty
    /\ pc' = "put"
    /\ caller' = pc
    /\ arg' = e
    /\ UNCHANGED <<ring, inits, fresh>>

\* ... and from system_utils_disable_interrupts on.
MainPutCommit ==
    /\ pc = "put"
    /\ Enqueue(arg)
    /\ pc' = caller
    /\ arg' = NoEvent
    /\ UNCHANGED <<caller, inits>>

\* scheduler_event_put refuses what is too long, and anything while the ring is
\* full: nothing changes and no caller looks at the status.
Refuse(e) == (e \in Oversized \/ ~is_empty) /\ UNCHANGED vars

\* Mutant of HasWork: a head that has wrapped around is taken for no work.
HasWorkUnwrapped == tail < head \/ ~is_empty

\* scheduler_execute finds the ring not empty and calls the tail's handler.
HasWork == head # tail \/ ~is_empty

Execute ==
    /\ pc = "idle"
    /\ HasWork
    /\ pc' = "handler"
    /\ fresh' = fresh \ {tail}
    /\ UNCHANGED <<ring, caller, arg, inits>>

HandlerReturns ==
    /\ pc = "handler"
    /\ pc' = "advance"
    /\ UNCHANGED <<ring, caller, arg, inits, fresh>>

AdvanceTail ==
    /\ pc = "advance"
    /\ tail' = After(tail)
    /\ pc' = "room"
    /\ UNCHANGED <<head, is_empty, slots, caller, arg, inits, fresh>>

\* Mutant of SetRoom: the flag is not restored after an execution.
SetRoomForgotten ==
    /\ pc = "room"
    /\ pc' = "idle"
    /\ UNCHANGED <<ring, caller, arg, inits, fresh>>

SetRoom ==
    /\ pc = "room"
    /\ is_empty' = TRUE
    /\ pc' = "idle"
    /\ UNCHANGED <<head, tail, slots, caller, arg, inits, fresh>>

MainThread ==
    \/ ResetIndices
    \/ ResetRoom
    \/ EnterLoop
    \/ \E e \in Events : MainPutCheck(e)
    \/ MainPutCommit
    \/ Execute
    \/ HandlerReturns
    \/ AdvanceTail
    \/ SetRoom

Next ==
    \/ MainThread
    \/ \E e \in Events : IrqPut(e)
    \/ \E e \in Events \cup Oversized : Refuse(e)

Spec == Init /\ [][Next]_vars /\ WF_vars(MainThread)

-----------------------------------------------------------------------------
(* Properties. *)

\* Whatever the load, the main loop never calls a slot twice for one post, nor
\* one that was never filled: when scheduler_execute is about to call the
\* tail's handler, the slot was written after the last time it was executed.
NoStaleExecution == pc = "idle" /\ HasWork => tail \in fresh

\* "executes them iterating through each event and invoking its associated
\* event handler" (README, Scheduler): once the main loop runs, an event leaves
\* the ring only when the handler called for it has returned.
NoEventLost ==
    [][Started /\ Count' < Count => pc = "advance"]_vars

Fifo == INSTANCE EventQueue WITH
    queue <- Queued, running <- Running, started <- Started

\* The ring implements the FIFO its users count on, provided the load stays
\* below the size of the ring: nothing posted is lost, overtaken, changed
\* while it waits or while its handler runs, or executed twice ...
ImplementsFifo == Fifo!Safety

\* ... and the main loop gets to every event posted.
ExecutesAll == Fifo!Fairness
=============================================================================
