--------------------------- MODULE EncoderDriver ---------------------------
(***************************************************************************)
(* drivers/encoder/encoder_drv.c: the position counted from the rising     *)
(* edges of an incremental encoder, and the handlers called for them.      *)
(*                                                                         *)
(* The rotor is the environment.  It stands on one of 4 * R quarter steps; *)
(* going anticlockwise pin A leads pin B by one of them, going clockwise B *)
(* leads A, and the home pin is high on quarter step 0 alone.  A rising    *)
(* edge is latched, and one interrupt serves all latched edges in the      *)
(* order of the pin numbers (A 18, Z 19, B 20), reading the other pin as   *)
(* it is then.                                                             *)
(***************************************************************************)
EXTENDS Integers, Sequences

CONSTANTS ENCODER_DRV_ENCODER_POSITION_RESOLUTION,
          IMMEDIATE, SCHEDULED,  \* encoder_drv_event_handling_e
          Handling,              \* the event_handling of encoder_drv_init
          Lag,         \* environment: quarter steps the rotor makes at most
                       \* between a rising edge and its interrupt
          Drift        \* bound: miscounts risked between two home pulses

R == ENCODER_DRV_ENCODER_POSITION_RESOLUTION

ASSUME ResolutionAssumption == R \in Nat /\ R >= 3
ASSUME HandlingAssumption == Handling \in {IMMEDIATE, SCHEDULED} /\ IMMEDIATE # SCHEDULED
ASSUME LagAssumption == Lag \in Nat /\ Drift \in Nat

Anticlockwise == 1
Clockwise == -1

Quarters == 0 .. 4 * R - 1
Positions == 0 .. R - 1

VARIABLES encoder,   \* the driver's static variables, as a record
          rotor,     \* the quarter step the rotor stands on
          direction, \* the direction it turns in
          latched,   \* rising edges whose interrupt is still to come
          lagging,   \* quarter steps made since the oldest of them
          calls,     \* history: the handler calls the last interrupt made
          homed,     \* history: position was set by the home pin
          drift      \* history: miscounts risked since

vars == <<encoder, rotor, direction, latched, lagging, calls, homed, drift>>

EncoderStates ==
    [position : Positions,
     home : BOOLEAN,       \* recently_encountered_home_event
     acwFailed : BOOLEAN,  \* previous_anticlockwise_step_event_assertion_failed
     cwFailed : BOOLEAN,   \* previous_clockwise_step_event_assertion_failed
     notify : BOOLEAN,     \* encoder_position_update_notification
     registered : BOOLEAN, \* encoder_drv_event_handlers are set
     handling : {IMMEDIATE, SCHEDULED}]

TypeOK ==
    /\ encoder \in EncoderStates
    /\ rotor \in Quarters
    /\ direction \in {Anticlockwise, Clockwise}
    /\ latched \in SUBSET {"A", "B", "Z"}
    /\ lagging \in 0 .. Lag
    /\ calls \in Seq({"step", "home"})
    /\ homed \in BOOLEAN
    /\ drift \in 0 .. Drift

-----------------------------------------------------------------------------
(* The pins. *)

AHigh(q) == q % 4 \in {1, 2}
BHigh(q) == q % 4 \in {2, 3}
ZHigh(q) == q = 0

Turned(q, d) == (q + d + 4 * R) % (4 * R)

Rising(q, n) ==
    {pin \in {"A", "B", "Z"} :
        \/ pin = "A" /\ AHigh(n) /\ ~AHigh(q)
        \/ pin = "B" /\ BHigh(n) /\ ~BHigh(q)
        \/ pin = "Z" /\ ZHigh(n) /\ ~ZHigh(q)}

-----------------------------------------------------------------------------
(* encoder_drv_step_home_pin_transitions_callback, as a function from the  *)
(* driver's state and the calls made so far to the new ones.               *)

\* Mutant: the position is not wrapped at its higher bound.
IncrementUnwrapped(p) == p + 1

Increment(p) == IF p = R - 1 THEN 0 ELSE p + 1

\* Mutant: the position is not wrapped at its lower bound.
DecrementUnwrapped(p) == p - 1

Decrement(p) == IF p = 0 THEN R - 1 ELSE p - 1

\* Mutant: encoder_position_update_notification is not set.
CountedSilently(e, p) ==
    [e EXCEPT !.position = IF e.home THEN @ ELSE p, !.home = FALSE]

Counted(e, p) ==
    [e EXCEPT !.position = IF e.home THEN @ ELSE p, !.home = FALSE, !.notify = TRUE]

\* Mutant: a counted edge leaves the failed assertion of its direction set.
AnticlockwisePinForgetful(e, bHigh) ==
    IF bHigh
    THEN [(IF e.cwFailed THEN Counted(e, Decrement(e.position)) ELSE e)
             EXCEPT !.cwFailed = TRUE]
    ELSE Counted(e, Increment(e.position))

\* Mutant: the first edge after a turn is counted in the old direction.
AnticlockwisePinMirrored(e, bHigh) ==
    IF bHigh
    THEN [(IF e.cwFailed THEN Counted(e, Increment(e.position)) ELSE e)
             EXCEPT !.cwFailed = TRUE]
    ELSE [Counted(e, Increment(e.position)) EXCEPT !.acwFailed = FALSE]

AnticlockwisePin(e, bHigh) ==
    IF bHigh
    THEN [(IF e.cwFailed THEN Counted(e, Decrement(e.position)) ELSE e)
             EXCEPT !.cwFailed = TRUE]
    ELSE [Counted(e, Increment(e.position)) EXCEPT !.acwFailed = FALSE]

ClockwisePin(e, aHigh) ==
    IF aHigh
    THEN [(IF e.acwFailed THEN Counted(e, Increment(e.position)) ELSE e)
             EXCEPT !.acwFailed = TRUE]
    ELSE [Counted(e, Decrement(e.position)) EXCEPT !.cwFailed = FALSE]

HomePin(e) == [e EXCEPT !.position = 0, !.home = TRUE]

\* The step handler is called, or posted to the scheduler.
NotifiesStep(e) == e.registered /\ e.notify

StepCall(e, c) == IF NotifiesStep(e) THEN Append(c, "step") ELSE c
StepNotified(e) == [e EXCEPT !.notify = @ /\ ~NotifiesStep(e)]

\* Mutant: the step handler is called for the home pin, as line 198 posts it.
HomeCallAsStep(e, c) == IF e.registered THEN Append(c, "step") ELSE c

\* With SCHEDULED the code posts the step handler for a home event.
HomeCall(e, c) ==
    IF ~e.registered THEN c
    ELSE Append(c, IF e.handling = IMMEDIATE THEN "home" ELSE "step")

\* gpio_default_irq_handler runs the callback for each latched pin.
Serve(pins, e, q) ==
    LET a == IF "A" \in pins THEN AnticlockwisePin(e, BHigh(q)) ELSE e
        ca == IF "A" \in pins THEN StepCall(a, <<>>) ELSE <<>>
        na == IF "A" \in pins THEN StepNotified(a) ELSE a
        z == IF "Z" \in pins THEN HomePin(na) ELSE na
        cz == IF "Z" \in pins THEN HomeCall(z, ca) ELSE ca
        b == IF "B" \in pins THEN ClockwisePin(z, AHigh(q)) ELSE z
        cb == IF "B" \in pins THEN StepCall(b, cz) ELSE cz
        nb == IF "B" \in pins THEN StepNotified(b) ELSE b
    IN [encoder |-> nb, calls |-> cb]

-----------------------------------------------------------------------------
\* The counts a quarter step with an edge waiting may cost.
LateCost == 2

InitEncoder ==
    [position |-> 0, home |-> FALSE, acwFailed |-> TRUE, cwFailed |-> TRUE,
     notify |-> FALSE, registered |-> FALSE, handling |-> SCHEDULED]

Init ==
    /\ encoder = InitEncoder
    /\ rotor \in Quarters
    /\ direction \in {Anticlockwise, Clockwise}
    /\ latched = {}
    /\ lagging = 0
    /\ calls = <<>>
    /\ homed = FALSE
    /\ drift = 0

\* The end of encoder_drv_init, which runs with the interrupts already enabled:
\* two stores, and an interrupt between them handles its events as SCHEDULED.
RegisterHandlers ==
    /\ ~encoder.registered
    /\ encoder' = [encoder EXCEPT !.registered = TRUE]
    /\ UNCHANGED <<rotor, direction, latched, lagging, calls, homed, drift>>

SetHandling ==
    /\ encoder.registered /\ encoder.handling # Handling
    /\ encoder' = [encoder EXCEPT !.handling = Handling]
    /\ UNCHANGED <<rotor, direction, latched, lagging, calls, homed, drift>>

\* encoder_drv_set_encoder_position, with the check of its argument.
SetEncoderPosition(p) ==
    /\ p \in Positions
    /\ encoder' = [encoder EXCEPT !.position = p]
    /\ homed' = FALSE
    /\ UNCHANGED <<rotor, direction, latched, lagging, calls, drift>>

Interrupt ==
    /\ latched # {}
    /\ LET s == Serve(latched, encoder, rotor)
       IN encoder' = s.encoder /\ calls' = s.calls
    /\ homed' = (homed \/ "Z" \in latched)
    /\ drift' = IF "Z" \in latched THEN LateCost * lagging ELSE drift
    /\ latched' = {}
    /\ lagging' = 0
    /\ UNCHANGED <<rotor, direction>>

\* The rotor goes on; an edge it leaves waiting may cost LateCost counts.
Rotate ==
    /\ rotor' = Turned(rotor, direction)
    /\ latched' = latched \cup Rising(rotor, rotor')
    /\ \/ latched = {} /\ lagging' = 0 /\ UNCHANGED drift
       \/ /\ latched # {} /\ lagging < Lag /\ drift + LateCost <= Drift
          /\ lagging' = lagging + 1
          /\ drift' = drift + LateCost
    /\ UNCHANGED <<encoder, direction, calls, homed>>

\* The rotor turns round.  Where the control loop stops it, on the edge that was
\* counted or the quarter step after it, that costs nothing; elsewhere a count.
AfterCount ==
    {<<Anticlockwise, 1>>, <<Anticlockwise, 2>>, <<Clockwise, 3>>, <<Clockwise, 2>>}

Reverse ==
    /\ latched = {}
    /\ direction' = -direction
    /\ drift' = IF <<direction, rotor % 4>> \in AfterCount THEN drift ELSE drift + 1
    /\ drift' <= Drift
    /\ UNCHANGED <<encoder, rotor, latched, lagging, calls, homed>>

Next ==
    \/ RegisterHandlers
    \/ SetHandling
    \/ \E p \in 0 .. R : SetEncoderPosition(p)
    \/ Interrupt
    \/ Rotate
    \/ Reverse

Spec == Init /\ [][Next]_vars

-----------------------------------------------------------------------------
(* Properties. *)

\* The count the rotor's place stands for, up to one count: the driver counts
\* one rising edge per four quarter steps, and not the same in both directions.
TrueCount == ((rotor + 3) \div 4) % R

\* "ensures precise step positioning" (README, Encoder Driver): from the first
\* home pulse on the position is within one count of where the rotor stands,
\* however often it turns round where the loop stops it.  Turning round elsewhere
\* costs at most one count each, an interrupt late by a quarter step two, and
\* the next home pulse makes up for all of them.
Error == (encoder.position - TrueCount + R) % R

Tracks ==
    homed /\ latched = {} => Error <= 1 + drift \/ R - Error <= 1 + drift

\* An edge served before the next quarter step is counted in the direction the
\* rotor turns in, wherever it has turned round.
NeverCountsBackwards ==
    [][Interrupt /\ lagging = 0 /\ "Z" \notin latched /\ encoder'.position # encoder.position =>
         encoder'.position = IF direction = Anticlockwise
                             THEN Increment(encoder.position)
                             ELSE Decrement(encoder.position)]_vars

\* The user application compares positions only when it is told of a step: from
\* the store of the handlers on, also while the handling is still SCHEDULED, the
\* position does not change without a handler called or posted.
EveryChangeReported ==
    [][Interrupt /\ encoder.registered /\ encoder'.position # encoder.position =>
         calls' # <<>>]_vars
=============================================================================
