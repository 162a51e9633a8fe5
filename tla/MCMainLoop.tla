----------------------------- MODULE MCMainLoop -----------------------------
(* An instance of MainLoop for TLC: one event, and a ring it overflows. *)
EXTENDS MainLoop

CONSTANTS e1

OneEvent == {e1}
NoOversized == {}
=============================================================================
