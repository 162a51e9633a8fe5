------------------------- MODULE MCUserApplication -------------------------
(* Instances of UserApplication for TLC: angles are in 0 .. FULL_TURN - 1. *)
EXTENDS UserApplication

\* The ends of the turn, angles the encoder resolves and one it does not, and
\* the first angles beyond the turn.
SomeCommands == {0, 1, FULL_TURN \div 2, FULL_TURN - 1, FULL_TURN, FULL_TURN + 3}

TwoCommands == {0, 3}

\* An angle whose position needs more than eight bits.
WideCommand == {(UINT8 * FULL_TURN) \div R}

WithUnknown == {FULL_TURN \div 2, Unknown}
=============================================================================
