SPECIFICATION Spec
CONSTANTS
  ENCODER_DRV_ENCODER_POSITION_RESOLUTION = 4
  FULL_TURN = 8
  UINT8 = 16
  SCHEDULER_MAX_QUEUE_SIZE = 4
  IMMEDIATE = IMMEDIATE
  SCHEDULED = SCHEDULED
  Unknown = Unknown
  Commands <- WithUnknown
  Patient = FALSE
  Restarts = TRUE
  Noise = TRUE
  Slack = 1
  Nudges = 2
  Resets = 1
INVARIANTS Halts
PROPERTIES EveryDriveEnds
CHECK_DEADLOCK FALSE
