------------------------ MODULE StepperMotorDriver ------------------------
(***************************************************************************)
(* drivers/stepper_motor/stepper_motor_drv.c: the pins of the stepper      *)
(* motor's driver chip, and the PWM slice whose output is its STEP pin.    *)
(*                                                                         *)
(* The slice is hardware: it counts from 0 to its wrap and over again at   *)
(* PWM_CLOCK counts a second while it is enabled, and STEP is high while   *)
(* the counter is below the level.  The motor makes a step whenever STEP   *)
(* rises.  Callers initialise the driver before they drive the motor.      *)
(***************************************************************************)
EXTENDS Integers

CONSTANTS PWM_CLOCK,   \* core clock / PWM_CLOCK_FREQ_DIVIDER, 521568 in the code
          UINT16,      \* the values of a uint16_t, 65536 in the code
          StepModes,   \* environment: the step modes ...
          Speeds       \* environment: ... and speeds callers ask for

ASSUME ClockAssumption == PWM_CLOCK \in Nat \ {0} /\ UINT16 \in Nat /\ UINT16 >= 2
ASSUME ParamsAssumption == StepModes \subseteq Nat /\ Speeds \subseteq Nat

VARIABLES pins,     \* ENABLE, RESET, SLEEP, DIR and the mode pins M0, M1, M2
          pwm,      \* the slice of the STEP pin
          status,   \* the last value returned
          speed,    \* history: the step_speed in force, 0 before the first init
          since     \* history: counts since STEP last rose, up to 2 * UINT16

vars == <<pins, pwm, status, speed, since>>

OK == "OK"
INVALID_STEP_MODE == "INVALID_STEP_MODE"
UNSUPPORTED_STEP_SPEED == "UNSUPPORTED_STEP_SPEED"
Statuses == {OK, INVALID_STEP_MODE, UNSUPPORTED_STEP_SPEED}

ANTICLOCKWISE == 0
CLOCKWISE == 1

\* FULL, HALF, 1_4, 1_8 and 1_16; the enumeration goes on with 1_32.
SupportedModes == 0 .. 4

TypeOK ==
    /\ pins \in [enable : 0 .. 1, reset : 0 .. 1, sleep : 0 .. 1, dir : 0 .. 1,
                 m0 : BOOLEAN, m1 : BOOLEAN, m2 : BOOLEAN]
    /\ pwm \in [wrap : 0 .. UINT16 - 1, level : 0 .. UINT16 - 1,
                counter : 0 .. UINT16 - 1, enabled : BOOLEAN]
    /\ pwm.counter <= pwm.wrap
    /\ status \in Statuses
    /\ speed \in Nat
    /\ since \in 0 .. 2 * UINT16

-----------------------------------------------------------------------------
\* Mutant: the slowest speed is rounded down.
MinStepSpeedRoundedDown == PWM_CLOCK \div (UINT16 - 1)

STEPPER_MOTOR_DRV_MIN_STEP_SPEED == PWM_CLOCK \div (UINT16 - 1) + 1

\* Mutant: the wrap is the number of counts of a step, off by one.
RequiredWrapLess(s) == (PWM_CLOCK \div s - 1) % UINT16

RequiredWrap(s) == (PWM_CLOCK \div s) % UINT16

\* Mutant: pwm_init is left out, the slice keeps its counter.
InitialisedPwmUncleared(s) ==
    [pwm EXCEPT !.wrap = RequiredWrap(s), !.level = RequiredWrap(s) \div 2]

\* The slice after pwm_init, which stops and clears it, with wrap and level set.
InitialisedPwm(s) ==
    [wrap |-> RequiredWrap(s), level |-> RequiredWrap(s) \div 2,
     counter |-> 0, enabled |-> FALSE]

ModePin(mode, mask) == (mode \div mask) % 2 # 0

Init ==
    /\ pins = [enable |-> 0, reset |-> 0, sleep |-> 0, dir |-> ANTICLOCKWISE,
               m0 |-> FALSE, m1 |-> FALSE, m2 |-> FALSE]
    /\ pwm = [wrap |-> UINT16 - 1, level |-> 0, counter |-> 0, enabled |-> FALSE]
    /\ status = OK
    /\ speed = 0
    /\ since = 0

\* stepper_motor_drv_init.  Where it succeeds it ends without a return statement:
\* its caller may find any status.
InitDriver(mode, s) ==
    /\ mode \in SupportedModes
    /\ s >= STEPPER_MOTOR_DRV_MIN_STEP_SPEED
    /\ pins' = [enable |-> 0, reset |-> 1, sleep |-> 1, dir |-> ANTICLOCKWISE,
                m0 |-> ModePin(mode, 1), m1 |-> ModePin(mode, 2), m2 |-> ModePin(mode, 4)]
    /\ pwm' = InitialisedPwm(s)
    /\ status' \in Statuses
    /\ speed' = s
    /\ since' = 0

InitRefused(mode, s) ==
    /\ \/ mode \in SupportedModes /\ s < STEPPER_MOTOR_DRV_MIN_STEP_SPEED
          /\ status' = UNSUPPORTED_STEP_SPEED
       \/ mode \notin SupportedModes /\ status' = INVALID_STEP_MODE
    /\ UNCHANGED <<pins, pwm, speed, since>>

\* stepper_motor_drv_drive_anticlockwise and _clockwise.
Drive(direction) ==
    /\ speed # 0
    /\ pins' = [pins EXCEPT !.dir = direction]
    /\ pwm' = [pwm EXCEPT !.enabled = TRUE]
    /\ status' = OK
    /\ UNCHANGED <<speed, since>>

\* stepper_motor_drv_drive_stop: the counter, and with it STEP, stays as it is.
DriveStop ==
    /\ speed # 0
    /\ pwm' = [pwm EXCEPT !.enabled = FALSE]
    /\ status' = OK
    /\ UNCHANGED <<pins, speed, since>>

\* One count of the slice.
StepHigh == pwm.counter < pwm.level

Tick ==
    /\ pwm.enabled
    /\ pwm' = [pwm EXCEPT !.counter = IF pwm.counter = pwm.wrap THEN 0 ELSE pwm.counter + 1]
    /\ since' = IF ~StepHigh /\ StepHigh' THEN 0
                ELSE IF since < 2 * UINT16 THEN since + 1 ELSE since
    /\ UNCHANGED <<pins, status, speed>>

Next ==
    \/ \E mode \in StepModes, s \in Speeds : InitDriver(mode, s) \/ InitRefused(mode, s)
    \/ \E direction \in {ANTICLOCKWISE, CLOCKWISE} : Drive(direction)
    \/ DriveStop
    \/ Tick

Spec == Init /\ [][Next]_vars /\ WF_vars(Tick)

-----------------------------------------------------------------------------
(* Properties. *)

\* The speed an accepted init asks for is the speed of the steps, to one count of
\* the slice: STEP rises since + 1 counts after it last rose, and the speed asked
\* for lies between the speeds of since and of since + 1 counts.  So the 16 bits of the
\* wrap are enough for every speed accepted, and no stop, start or turn between
\* two steps shortens one ("it calculates the required PWM frequency based on the
\* desired step speed", README, Stepper Motor Driver).
PaceKept ==
    [][~StepHigh /\ StepHigh' /\ pwm'.enabled =>
         /\ speed * (since + 1) > PWM_CLOCK
         /\ speed * since <= PWM_CLOCK]_vars

\* A motor that is driven makes steps, unless it is stopped: STEP keeps changing,
\* whatever speed of at most half the slice's clock was accepted.  Above that
\* speed the level is 0 and the motor stands still, with no error reported.
Driven == pwm.enabled /\ 2 * speed <= PWM_CLOCK

StepsAreMade ==
    /\ Driven ~> ~pwm.enabled \/ StepHigh
    /\ Driven ~> ~pwm.enabled \/ ~StepHigh
=============================================================================
