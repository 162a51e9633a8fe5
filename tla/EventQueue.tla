----------------------------- MODULE EventQueue -----------------------------
(***************************************************************************)
(* What the scheduler component promises its users (README, "Scheduler"):  *)
(* a FIFO of posted events, every one of which the main loop hands to its  *)
(* handler, one at a time, in the order of posting, and drops only when    *)
(* the handler has returned.  Before the main loop runs, the scheduler may *)
(* be initialised again, which discards what was posted.                   *)
(***************************************************************************)
EXTENDS Sequences

CONSTANTS Events,     \* what can be posted: a handler together with its data
          NoEvent     \* "no handler is running"

VARIABLES queue,      \* the posted events that have not been dropped yet
          running,    \* the event whose handler runs now, or NoEvent
          started     \* the main loop has begun to execute events

vars == <<queue, running, started>>

TypeOK ==
    /\ queue \in Seq(Events)
    /\ running \in Events \cup {NoEvent}
    /\ started \in BOOLEAN

Init ==
    /\ queue = <<>>
    /\ running = NoEvent
    /\ started = FALSE

Post(e) ==
    /\ queue' = Append(queue, e)
    /\ UNCHANGED <<running, started>>

Reset ==
    /\ ~started
    /\ queue' = <<>>
    /\ UNCHANGED <<running, started>>

Start ==
    /\ ~started
    /\ started' = TRUE
    /\ UNCHANGED <<queue, running>>

Call ==
    /\ started
    /\ running = NoEvent
    /\ queue # <<>>
    /\ running' = Head(queue)
    /\ UNCHANGED <<queue, started>>

Return ==
    /\ running # NoEvent
    /\ queue' = Tail(queue)
    /\ running' = NoEvent
    /\ UNCHANGED started

Next ==
    \/ \E e \in Events : Post(e)
    \/ Reset
    \/ Start
    \/ Call
    \/ Return

Fairness ==
    /\ WF_vars(Start)
    /\ WF_vars(Call)
    /\ WF_vars(Return)

Safety == Init /\ [][Next]_vars

Spec == Safety /\ Fairness
=============================================================================
