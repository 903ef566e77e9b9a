SPECIFICATION Spec
CONSTANTS
  TASK_LIMIT = 4
  PIPE_BUF = 3
  PRIORITY_LIMIT = 1
  INTR_LIMIT = 0
  FIFOS = 1
  TICKS = 3
  Boot <- LifeBoot
  Callers <- LifeCallers
  Mortal <- LifeMortal
  Sizes = {1, 2}
  SleepTimes = {2}
  Priorities = {}
  SpawnPriorities = {0}
PROPERTY ShortReadBlocks
