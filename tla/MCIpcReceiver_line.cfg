SPECIFICATION Spec
CONSTANTS
  IPC_PACKET_MAX_DATA_LENGTH = 3
  Bytes <- TwoBits
  LSB = 2
  MSB = 1
  Xor <- XorTwoBits
  SCHEDULER_MAX_QUEUE_SIZE = 1
  CommandSize = 3
  Payloads <- OtherCrc
  Paced = TRUE
  Strays = 6
INVARIANTS TypeOK InBounds
PROPERTIES OnlyPackets IntactDelivery EveryPacketDelivered Resynchronises
