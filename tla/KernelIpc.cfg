SPECIFICATION FairSpec
CONSTANTS
  TASK_LIMIT = 4
  PIPE_BUF = 3
  PRIORITY_LIMIT = 1
  INTR_LIMIT = 0
  FIFOS = 2
  TICKS = 1
  Boot <- IpcBoot
  Callers <- IpcCallers
  Mortal = {}
  Sizes = {1, 2}
  SleepTimes = {}
  Priorities = {}
  SpawnPriorities = {}
INVARIANTS
  TypeOK
  NoLostWakeup
  NoneLeftBlocked
PROPERTIES
  ImplementsAtomicPipes
  CallsServed
