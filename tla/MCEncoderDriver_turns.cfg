SPECIFICATION Spec
CONSTANTS
  ENCODER_DRV_ENCODER_POSITION_RESOLUTION = 10
  IMMEDIATE = IMMEDIATE
  SCHEDULED = SCHEDULED
  Handling = IMMEDIATE
  Lag = 1
  Drift = 3
INVARIANTS TypeOK Tracks
PROPERTIES NeverCountsBackwards EveryChangeReported
