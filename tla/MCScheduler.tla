---------------------------- MODULE MCScheduler ----------------------------
(* Instances of Scheduler for TLC. *)
EXTENDS Scheduler, FiniteSets

CONSTANTS e1, e2, big

MCEvents == {e1, e2}
MCOversized == {big}
=============================================================================
