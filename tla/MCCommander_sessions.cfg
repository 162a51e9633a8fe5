SPECIFICATION CommanderSpec
CONSTANTS
  IPC_PACKET_MAX_DATA_LENGTH = 251
  Bytes <- AllBytes
  LSB = 165
  MSB = 90
  Xor <- XorBytes
  SCHEDULER_MAX_QUEUE_SIZE = 2
  CommandSize = 3
  Payloads <- SomeCommands
  Paced = TRUE
  Strays = 0
  ENCODER_DRV_ENCODER_POSITION_RESOLUTION = 180
  FULL_TURN = 360
  Angles <- SomeAngles
  Replacements <- SomeReplacements
  Sessions = 3
  Garbles = 1
INVARIANTS CommanderTypeOK InStepAtRest
PROPERTIES IntactDelivery ShownIsAchieved 
CHECK_DEADLOCK FALSE
