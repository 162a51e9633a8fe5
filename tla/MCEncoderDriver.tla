-------------------------- MODULE MCEncoderDriver --------------------------
(* EncoderDriver for TLC.  The resolution tells the errors 1 + Drift apart. *)
EXTENDS EncoderDriver

ASSUME ResolutionTellsDrift == R > 2 * (1 + Drift)
=============================================================================
