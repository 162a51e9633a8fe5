SPECIFICATION Spec
CONSTANTS
  SCHEDULER_MAX_QUEUE_SIZE = 3
  e1 = e1
  e2 = e2
  big = big
  Events <- MCEvents
  Oversized <- MCOversized
  NoEvent = NoEvent
  InitCalls = 3
  Load = 3
PROPERTY NoEventLost
