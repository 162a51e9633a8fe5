------------------------ MODULE PositioningService ------------------------
(***************************************************************************)
(* What the controller promises its host (README, "Application" and "PC    *)
(* Stepper Motor Commander"): a command for an angle is answered, with an  *)
(* error for an angle that is not of a turn, and otherwise with the angle  *)
(* asked for once the rotor is there, both to the encoder's resolution.    *)
(***************************************************************************)
EXTENDS Integers

CONSTANTS ENCODER_DRV_ENCODER_POSITION_RESOLUTION, FULL_TURN,
          Commands       \* the angles a host may ask for, or Unknown

VARIABLES asked,         \* the command that is not answered yet, or Nobody
          reply,         \* the last response
          at             \* where the rotor stands, in counts

vars == <<asked, reply, at>>

Nobody == -1

R == ENCODER_DRV_ENCODER_POSITION_RESOLUTION

Counts == 0 .. R - 1
OfTurn(c) == c \in 0 .. FULL_TURN - 1
Position(c) == (c * R) \div FULL_TURN

Init ==
    /\ asked = Nobody
    /\ reply = [ok |-> TRUE, angle |-> 0]
    /\ at \in Counts

Ask(c) ==
    /\ asked = Nobody
    /\ asked' = c
    /\ UNCHANGED <<reply, at>>

Turn ==
    /\ at' \in Counts
    /\ UNCHANGED <<asked, reply>>

Answer ==
    /\ asked # Nobody
    /\ asked' = Nobody
    /\ \/ /\ OfTurn(asked)
          /\ (at - Position(asked) + R) % R \in {R - 1, 0, 1}
          /\ reply' \in [ok : {TRUE}, angle : asked - (FULL_TURN \div R) .. asked]
       \/ /\ ~OfTurn(asked)
          /\ reply' \in [ok : {FALSE}, angle : Nat]
    /\ UNCHANGED at

\* The controller is reset, or the host gives up.
Fail ==
    /\ asked # Nobody
    /\ asked' = Nobody
    /\ UNCHANGED <<reply, at>>

Next ==
    \/ \E c \in Commands : Ask(c)
    \/ Turn
    \/ Answer
    \/ Fail

Safety == Init /\ [][Next]_vars

EveryCommandEnds == asked # Nobody ~> asked = Nobody

Spec == Safety /\ EveryCommandEnds
=============================================================================
