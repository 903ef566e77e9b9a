SPECIFICATION Spec
CONSTANTS
  TASK_LIMIT = 3
  PIPE_BUF = 2
  PRIORITY_LIMIT = 1
  INTR_LIMIT = 0
  FIFOS = 1
  TICKS = 2
  Boot <- NoIdleBoot
  Callers <- NoIdleCallers
  Mortal <- NoIdleMortal
  Sizes = {1}
  SleepTimes = {1}
  Priorities = {}
  SpawnPriorities = {1}
INVARIANT SomethingReady
