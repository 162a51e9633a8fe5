------------------------------ MODULE MainLoop ------------------------------
(***************************************************************************)
(* main.c: the loop that feeds the watchdog and runs the scheduler, and    *)
(* the one handler that takes long, sending a response (ipc_send_data_     *)
(* packet), which feeds the watchdog too.                                  *)
(*                                                                         *)
(* Time passes in ticks, and only while a handler runs or the loop goes    *)
(* round without work: the main thread's other steps are short of a tick.  *)
(* putchar_raw waits for the host to take its bytes, and gives up for good *)
(* after PICO_STDIO_USB_STDOUT_TIMEOUT_US; Block stands for that time.     *)
(***************************************************************************)
EXTENDS Scheduler

CONSTANTS WATCHDOG_TIMEOUT,   \* in ticks
          Brief,              \* environment: the ticks a handler takes at most ...
          Block,              \* environment: ... and one that sends
          Gap                 \* environment: ticks between two event interrupts

ASSUME TicksAssumption ==
    /\ WATCHDOG_TIMEOUT \in Nat /\ Brief \in Nat /\ Gap \in Nat
    /\ Block \in Nat /\ Block >= Brief

\* Environment: events are executed faster than they come in, and the timeout leaves
\* time for a full ring, the two events a command adds to it and a tick of the idle
\* loop; and for a response held up after all of those but the one that sends it.
ASSUME KeepsUpAssumption ==
    /\ Brief < Gap
    /\ Gap * (Brief * (N + 2) + 1) < (Gap - Brief) * WATCHDOG_TIMEOUT
    /\ Gap * (Brief * (N + 1) + 1) < (Gap - Brief) * (WATCHDOG_TIMEOUT - Block)

VARIABLES unfed,     \* ticks since the last watchdog_update
          round,     \* main's loop has gone round since the last tick
          busy,      \* ticks the handler has taken
          quiet,     \* ticks since the last event interrupt, up to Gap
          command,   \* a command was received and is not answered; "done" from
                     \* then on until the ring is empty
          posts,     \* posts its handlers have still to make
          sending    \* how far the response has got: "data" after its first byte

timing == <<unfed, round, busy, quiet>>
answer == <<command, posts, sending>>
loopVars == <<vars, unfed, round, busy, quiet, command, posts, sending>>

LoopTypeOK ==
    /\ TypeOK
    /\ unfed \in 0 .. WATCHDOG_TIMEOUT
    /\ round \in BOOLEAN
    /\ busy \in 0 .. Block
    /\ quiet \in 0 .. Gap
    /\ command \in {"none", "received", "done"}
    /\ posts \in 0 .. 2
    /\ sending \in {"no", "header", "data"}

LoopInit ==
    /\ Init
    /\ unfed = 0
    /\ round = FALSE
    /\ busy = 0
    /\ quiet = Gap
    /\ command = "none"
    /\ posts = 0
    /\ sending = "no"

-----------------------------------------------------------------------------
(* The main thread. *)

\* The steps of the scheduler that take no time and post nothing.
Run ==
    /\ ResetIndices \/ ResetRoom \/ EnterLoop \/ Execute \/ AdvanceTail \/ SetRoom
    /\ UNCHANGED <<timing, answer>>

\* user_application_init posts an event, and a command passes through the handlers
\* of the packet, of the command and of an internal event.
Post ==
    /\ \/ \E e \in Events : MainPutCheck(e)
          /\ IF pc = "boot" THEN UNCHANGED posts ELSE posts > 0 /\ posts' = posts - 1
       \/ MainPutCommit /\ UNCHANGED posts
    /\ UNCHANGED <<timing, command, sending>>

HandlerEnds ==
    /\ HandlerReturns
    /\ sending # "header"
    /\ busy' = 0
    /\ sending' = "no"
    /\ UNCHANGED <<unfed, round, quiet, command, posts>>

\* ipc_send_data_packet: the header and the length, ...
SendHeader ==
    /\ pc = "handler"
    /\ command = "received"
    /\ busy = 0
    /\ sending' = "header"
    /\ command' = "done"
    /\ posts' = 0
    /\ UNCHANGED <<vars, timing>>

\* ... the data, with the watchdog fed after each byte, and the checksum.
SendData ==
    /\ sending \in {"header", "data"}
    /\ sending' = "data"
    /\ unfed' = 0
    /\ UNCHANGED <<vars, round, busy, quiet, command, posts>>

\* Mutant: the watchdog is fed before the loop and not in it.
GoRoundUnfed ==
    /\ pc = "idle"
    /\ ~HasWork
    /\ round' = TRUE
    /\ command' = IF command = "done" THEN "none" ELSE command
    /\ UNCHANGED <<vars, unfed, busy, quiet, posts, sending>>

\* main's loop goes round once scheduler_execute has found the ring empty.
GoRound ==
    /\ pc = "idle"
    /\ ~HasWork
    /\ unfed' = 0
    /\ round' = TRUE
    /\ command' = IF command = "done" THEN "none" ELSE command
    /\ UNCHANGED <<vars, busy, quiet, posts, sending>>

-----------------------------------------------------------------------------
(* Time, and the interrupts. *)

Tick ==
    /\ \/ /\ pc = "handler"
          /\ busy < IF sending = "no" THEN Brief ELSE Block
          /\ busy' = busy + 1
       \/ /\ pc = "idle" /\ ~HasWork /\ round
          /\ UNCHANGED busy
    /\ unfed < WATCHDOG_TIMEOUT
    /\ unfed' = unfed + 1
    /\ round' = FALSE
    /\ quiet' = IF quiet < Gap THEN quiet + 1 ELSE quiet
    /\ UNCHANGED <<vars, answer>>

\* An event of the encoder, or the end of a packet, whose interrupt feeds the
\* watchdog.  The host sends no more than one until the ring has been empty: it
\* waits for the response, and the next run of main.py for two seconds.
Interrupt ==
    /\ quiet = Gap
    /\ quiet' = 0
    /\ \E e \in Events : IrqPut(e) \/ Refuse(e)
    /\ \/ UNCHANGED <<command, posts, unfed>>
       \/ command = "none" /\ command' = "received" /\ posts' = 2 /\ unfed' = 0
    /\ UNCHANGED <<round, busy, sending>>

LoopNext ==
    \/ Run \/ Post \/ HandlerEnds
    \/ SendHeader \/ SendData \/ GoRound
    \/ Tick
    \/ Interrupt

LoopSpec == LoopInit /\ [][LoopNext]_loopVars

-----------------------------------------------------------------------------
(* Property. *)

\* A main loop that is alive is never taken for dead: although only an empty ring
\* lets the loop feed the watchdog, and events come in while a response is held
\* up by the host, it is always fed in time ("the system watchdog timeout
\* duration (currently set to 1000 ms)", README, Customization).
WatchdogFed == unfed < WATCHDOG_TIMEOUT
=============================================================================
