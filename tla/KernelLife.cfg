SPECIFICATION Spec
CONSTANTS
  TASK_LIMIT = 4
  PIPE_BUF = 2
  PRIORITY_LIMIT = 1
  INTR_LIMIT = 0
  FIFOS = 1
  TICKS = 2
  Boot <- LifeBoot
  Callers <- LifeCallers
  Mortal <- LifeMortal
  Sizes = {1}
  SleepTimes = {1}
  Priorities = {}
  SpawnPriorities = {0}
INVARIANTS
  OnOneList
PROPERTY ImplementsAtomicPipes
