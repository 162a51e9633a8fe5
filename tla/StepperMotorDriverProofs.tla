---------------------- MODULE StepperMotorDriverProofs ----------------------
(***************************************************************************)
(* The types of StepperMotorDriver, and the pace of the steps, for every   *)
(* clock, width of the slice, mode and speed.                              *)
(***************************************************************************)
EXTENDS StepperMotorDriver, TLAPS

\* What \div returns.
LEMMA DivBounds ==
    ASSUME NEW c \in Nat, NEW s \in Nat, s > 0
    PROVE  /\ c \div s \in Nat
           /\ s * (c \div s) <= c
           /\ s * (c \div s + 1) > c
  BY SMT

\* Every speed that is accepted has a wrap that its 16 bits hold: the division
\* that computes it is never truncated.
LEMMA WrapFits ==
    ASSUME NEW s \in Nat, s >= STEPPER_MOTOR_DRV_MIN_STEP_SPEED
    PROVE  /\ s > 0
           /\ PWM_CLOCK \div s \in 0 .. UINT16 - 1
           /\ RequiredWrap(s) = PWM_CLOCK \div s
<1> DEFINE u == UINT16 - 1
           q == PWM_CLOCK \div s
<1>1. PWM_CLOCK \in Nat /\ u \in Nat /\ u > 0 /\ UINT16 = u + 1
  BY ClockAssumption
<1>2. PWM_CLOCK \div u \in Nat /\ u * (PWM_CLOCK \div u + 1) > PWM_CLOCK
  BY <1>1, DivBounds
<1>3. s >= PWM_CLOCK \div u + 1
  BY DEF STEPPER_MOTOR_DRV_MIN_STEP_SPEED
<1>4. s > 0
  BY <1>2, <1>3
<1>5. q \in Nat /\ s * q <= PWM_CLOCK
  BY <1>1, <1>4, DivBounds
<1>6. u * s >= u * (PWM_CLOCK \div u + 1)
  BY <1>1, <1>2, <1>3
<1>7. ASSUME q >= UINT16 PROVE FALSE
  <2>1. s * q >= s * UINT16
    BY <1>1, <1>4, <1>5, <1>7
  <2>2. s * UINT16 > u * s
    BY <1>1, <1>4
  <2> QED
    BY <2>1, <2>2, <1>1, <1>2, <1>5, <1>6
<1>8. q \in 0 .. UINT16 - 1
  BY <1>1, <1>5, <1>7
<1> QED
  BY <1>1, <1>4, <1>8 DEF RequiredWrap

-----------------------------------------------------------------------------
(* The type invariant. *)

LEMMA TypeInit == Init => TypeOK
  BY ClockAssumption DEF Init, TypeOK, Statuses, OK, ANTICLOCKWISE

LEMMA TypeStep == TypeOK /\ [Next]_vars => TypeOK'
<1> SUFFICES ASSUME TypeOK, [Next]_vars PROVE TypeOK'
  OBVIOUS
<1> USE ClockAssumption
<1>1. ASSUME NEW mode \in StepModes, NEW s \in Speeds, InitDriver(mode, s)
      PROVE  TypeOK'
  <2>1. s \in Nat /\ mode \in Nat
    BY ParamsAssumption
  <2>2. RequiredWrap(s) \in 0 .. UINT16 - 1
    BY <1>1, <2>1, WrapFits DEF InitDriver
  <2>3. pins' \in [enable : 0 .. 1, reset : 0 .. 1, sleep : 0 .. 1, dir : 0 .. 1,
                   m0 : BOOLEAN, m1 : BOOLEAN, m2 : BOOLEAN]
    BY <1>1 DEF InitDriver, ModePin, ANTICLOCKWISE
  <2>4. RequiredWrap(s) \div 2 \in 0 .. UINT16 - 1
    BY <2>2
  <2>5. /\ pwm' \in [wrap : 0 .. UINT16 - 1, level : 0 .. UINT16 - 1,
                     counter : 0 .. UINT16 - 1, enabled : BOOLEAN]
        /\ pwm'.counter <= pwm'.wrap
    BY <1>1, <2>2, <2>4 DEF InitDriver, InitialisedPwm
  <2> QED
    BY <1>1, <2>1, <2>3, <2>5 DEF InitDriver, TypeOK
<1>2. ASSUME NEW mode \in StepModes, NEW s \in Speeds, InitRefused(mode, s)
      PROVE  TypeOK'
  BY <1>2 DEF InitRefused, TypeOK, Statuses, INVALID_STEP_MODE, UNSUPPORTED_STEP_SPEED
<1>3. ASSUME NEW d \in {ANTICLOCKWISE, CLOCKWISE}, Drive(d) PROVE TypeOK'
  <2>1. d \in 0 .. 1
    BY DEF ANTICLOCKWISE, CLOCKWISE
  <2>2. pins' \in [enable : 0 .. 1, reset : 0 .. 1, sleep : 0 .. 1, dir : 0 .. 1,
                   m0 : BOOLEAN, m1 : BOOLEAN, m2 : BOOLEAN]
    BY <1>3, <2>1 DEF Drive, TypeOK
  <2>3. /\ pwm' \in [wrap : 0 .. UINT16 - 1, level : 0 .. UINT16 - 1,
                     counter : 0 .. UINT16 - 1, enabled : BOOLEAN]
        /\ pwm'.counter <= pwm'.wrap
    BY <1>3 DEF Drive, TypeOK
  <2> QED
    BY <1>3, <2>2, <2>3 DEF Drive, TypeOK, Statuses
<1>4. CASE DriveStop
  BY <1>4 DEF DriveStop, TypeOK, Statuses, OK
<1>5. CASE Tick
  <2>1. /\ pwm' \in [wrap : 0 .. UINT16 - 1, level : 0 .. UINT16 - 1,
                     counter : 0 .. UINT16 - 1, enabled : BOOLEAN]
        /\ pwm'.counter <= pwm'.wrap
    BY <1>5 DEF Tick, TypeOK
  <2>2. since' \in 0 .. 2 * UINT16
    BY <1>5 DEF Tick, TypeOK
  <2> QED
    BY <1>5, <2>1, <2>2 DEF Tick, TypeOK
<1>6. CASE UNCHANGED vars
  BY <1>6 DEF vars, TypeOK
<1> QED
  BY <1>1, <1>2, <1>3, <1>4, <1>5, <1>6 DEF Next

\* The driver's variables keep their types, whatever is asked of it: no counter
\* passes its wrap, no wrap its 16 bits.
THEOREM TypeCorrect == Spec => []TypeOK
  BY TypeInit, TypeStep, PTL DEF Spec

-----------------------------------------------------------------------------
(* The pace of the steps. *)

\* The slice is set for the speed in force, and its counter tells how long ago
\* STEP rose, unless its level is 0 and STEP never rises.
PaceInv ==
    /\ TypeOK
    /\ \/ speed = 0 /\ pwm.level = 0 /\ ~pwm.enabled
       \/ /\ speed > 0
          /\ pwm.wrap = PWM_CLOCK \div speed
          /\ pwm.level = pwm.wrap \div 2
          /\ pwm.level = 0 \/ since = pwm.counter

LEMMA PaceInit == Init => PaceInv
  BY TypeInit DEF Init, PaceInv

LEMMA PaceStep == PaceInv /\ [Next]_vars => PaceInv'
<1> SUFFICES ASSUME PaceInv, [Next]_vars PROVE PaceInv'
  OBVIOUS
<1> USE ClockAssumption
<1>0. TypeOK'
  BY TypeStep DEF PaceInv
<1>1. ASSUME NEW mode \in StepModes, NEW s \in Speeds, InitDriver(mode, s)
      PROVE  PaceInv'
  <2>1. s > 0 /\ RequiredWrap(s) = PWM_CLOCK \div s
    BY <1>1, WrapFits, ParamsAssumption DEF InitDriver
  <2>2. /\ speed' = s /\ since' = 0 /\ pwm'.counter = 0
        /\ pwm'.wrap = RequiredWrap(s) /\ pwm'.level = RequiredWrap(s) \div 2
    BY <1>1 DEF InitDriver, InitialisedPwm
  <2> QED
    BY <1>0, <2>1, <2>2 DEF PaceInv
<1>2. ASSUME NEW mode \in StepModes, NEW s \in Speeds, InitRefused(mode, s)
      PROVE  PaceInv'
  BY <1>0, <1>2 DEF InitRefused, PaceInv
<1>3. ASSUME NEW d \in {ANTICLOCKWISE, CLOCKWISE}, Drive(d) PROVE PaceInv'
  BY <1>0, <1>3 DEF Drive, PaceInv, TypeOK
<1>4. CASE DriveStop
  BY <1>0, <1>4 DEF DriveStop, PaceInv, TypeOK
<1>5. CASE Tick
  <2>1. speed > 0 /\ speed' = speed /\ pwm.enabled
    BY <1>5 DEF Tick, PaceInv
  <2>2. pwm'.wrap = pwm.wrap /\ pwm'.level = pwm.level
    BY <1>5 DEF Tick, PaceInv, TypeOK
  <2>3. pwm'.counter = IF pwm.counter = pwm.wrap THEN 0 ELSE pwm.counter + 1
    BY <1>5 DEF Tick, PaceInv, TypeOK
  <2>4. ASSUME pwm.level # 0 PROVE since' = pwm'.counter
    <3>1. since = pwm.counter /\ pwm.level \in Nat /\ pwm.counter \in Nat
          /\ pwm.counter < UINT16 /\ pwm.wrap = PWM_CLOCK \div speed
      BY <2>1, <2>4 DEF PaceInv, TypeOK
    <3>2. CASE pwm.counter = pwm.wrap
      <4>1. ~StepHigh /\ StepHigh'
        BY <2>1, <2>2, <2>3, <2>4, <3>1, <3>2 DEF StepHigh, PaceInv, TypeOK
      <4> QED
        BY <1>5, <2>3, <3>2, <4>1 DEF Tick
    <3>3. CASE pwm.counter # pwm.wrap
      <4>1. StepHigh' => StepHigh
        BY <2>2, <2>3, <3>1, <3>3 DEF StepHigh
      <4> QED
        BY <1>5, <2>3, <3>1, <3>3, <4>1 DEF Tick
    <3> QED
      BY <3>2, <3>3
  <2> QED
    BY <1>0, <2>1, <2>2, <2>4 DEF PaceInv
<1>6. CASE UNCHANGED vars
  BY <1>0, <1>6 DEF vars, PaceInv
<1> QED
  BY <1>1, <1>2, <1>3, <1>4, <1>5, <1>6 DEF Next

LEMMA PaceAction ==
    PaceInv /\ [Next]_vars =>
        (~StepHigh /\ StepHigh' /\ pwm'.enabled =>
            /\ speed * (since + 1) > PWM_CLOCK
            /\ speed * since <= PWM_CLOCK)
<1> SUFFICES ASSUME PaceInv, [Next]_vars, ~StepHigh, StepHigh', pwm'.enabled
             PROVE  /\ speed * (since + 1) > PWM_CLOCK
                    /\ speed * since <= PWM_CLOCK
  OBVIOUS
<1> USE ClockAssumption
<1>1. ASSUME NEW mode \in StepModes, NEW s \in Speeds, InitDriver(mode, s) PROVE FALSE
  BY <1>1 DEF InitDriver, InitialisedPwm
<1>2. ASSUME NEW mode \in StepModes, NEW s \in Speeds, InitRefused(mode, s) PROVE FALSE
  BY <1>2 DEF InitRefused, StepHigh
<1>3. ASSUME NEW d \in {ANTICLOCKWISE, CLOCKWISE}, Drive(d) PROVE FALSE
  BY <1>3 DEF Drive, StepHigh, PaceInv, TypeOK
<1>4. CASE DriveStop
  BY <1>4 DEF DriveStop, StepHigh, PaceInv, TypeOK
<1>5. CASE Tick
  <2>1. /\ speed \in Nat /\ speed > 0 /\ pwm.wrap = PWM_CLOCK \div speed
        /\ pwm.level \in Nat /\ pwm.counter \in Nat /\ pwm.counter <= pwm.wrap
        /\ pwm.level = 0 \/ since = pwm.counter
    BY <1>5 DEF Tick, PaceInv, TypeOK
  <2>2. /\ pwm'.level = pwm.level
        /\ pwm'.counter = IF pwm.counter = pwm.wrap THEN 0 ELSE pwm.counter + 1
    BY <1>5 DEF Tick, PaceInv, TypeOK
  <2>3. pwm.counter = pwm.wrap /\ pwm.level # 0
    BY <2>1, <2>2 DEF StepHigh
  <2> QED
    BY <2>1, <2>3, DivBounds
<1>6. CASE UNCHANGED vars
  BY <1>6 DEF vars, StepHigh
<1> QED
  BY <1>1, <1>2, <1>3, <1>4, <1>5, <1>6 DEF Next

\* A driven motor makes its steps at the speed in force, to one count, for every
\* speed that was accepted and whatever was stopped, started and turned between.
THEOREM PaceIsKept == Spec => PaceKept
<1>1. PaceInv /\ [Next]_vars =>
        [~StepHigh /\ StepHigh' /\ pwm'.enabled =>
            /\ speed * (since + 1) > PWM_CLOCK
            /\ speed * since <= PWM_CLOCK]_vars
  BY PaceAction
<1> QED
  BY <1>1, PaceInit, PaceStep, PTL DEF Spec, PaceKept
=============================================================================
