SPECIFICATION Spec
CONSTANTS
  IPC_PACKET_MAX_DATA_LENGTH = 3
  Bytes <- TwoBits
  LSB = 2
  MSB = 1
  Xor <- XorTwoBits
  SCHEDULER_MAX_QUEUE_SIZE = 2
  CommandSize = 3
  Payloads <- LsbCrc
  Paced = TRUE
  Strays = 1
PROPERTIES Resynchronises
