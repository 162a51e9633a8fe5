SPECIFICATION Spec
CONSTANTS
  PWM_CLOCK = 48
  UINT16 = 16
  StepModes <- TwoModes
  Speeds <- SomeSpeeds
INVARIANTS TypeOK
PROPERTIES PaceKept StepsAreMade
