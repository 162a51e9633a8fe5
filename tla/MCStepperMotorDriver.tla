----------------------- MODULE MCStepperMotorDriver -----------------------
(* An instance of StepperMotorDriver for TLC: a slice of four bits. *)
EXTENDS StepperMotorDriver

\* With the mode 1_32, which is refused, and a full step.
TwoModes == {0, 3, 5}

\* From the speeds refused past those whose wrap is 1 to those whose wrap is 0.
SomeSpeeds == {0, 2, 3, 4, 5, 7, 10, 16, 23, 24, 25, 48, 49}
=============================================================================
