SPECIFICATION Spec
CONSTANTS
  ENCODER_DRV_ENCODER_POSITION_RESOLUTION = 6
  FULL_TURN = 12
  UINT8 = 16
  SCHEDULER_MAX_QUEUE_SIZE = 5
  IMMEDIATE = IMMEDIATE
  SCHEDULED = SCHEDULED
  Unknown = Unknown
  Commands <- WideCommand
  Patient = TRUE
  Restarts = FALSE
  Noise = FALSE
  Slack = 1
  Nudges = 0
  Resets = 0
PROPERTIES ReplyTruthful
