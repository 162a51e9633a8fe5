SPECIFICATION LoopSpec
CONSTANTS
  SCHEDULER_MAX_QUEUE_SIZE = 3
  e1 = e1
  Events <- OneEvent
  Oversized <- NoOversized
  NoEvent = NoEvent
  InitCalls = 3
  Load = 6
  WATCHDOG_TIMEOUT = 24
  Brief = 1
  Block = 12
  Gap = 2
INVARIANTS LoopTypeOK NoStaleExecution WatchdogFed
