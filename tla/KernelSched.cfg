SPECIFICATION FairSpec
CONSTANTS
  TASK_LIMIT = 4
  PIPE_BUF = 2
  PRIORITY_LIMIT = 1
  INTR_LIMIT = 1
  FIFOS = 1
  TICKS = 3
  Boot <- SchedBoot
  Callers <- SchedCallers
  Mortal = {}
  Sizes = {}
  SleepTimes = {1, 2}
  Priorities <- SchedPriorities
  SpawnPriorities = {}
INVARIANTS
  WaitersNotReady
  ReadyAtPriority
  IrqArmed
  CurrentIsFirst
  SomethingReady
PROPERTIES
  RoundRobin
  SleepersWake
