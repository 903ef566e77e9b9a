SPECIFICATION Spec
CONSTANTS
  TASK_LIMIT = 3
  PIPE_BUF = 3
  PRIORITY_LIMIT = 1
  INTR_LIMIT = 0
  FIFOS = 1
  TICKS = 2
  Boot <- MessageBoot
  Callers <- MessageCallers
  Mortal = {}
  Sizes = {1, 3}
  SleepTimes = {}
  Priorities = {}
  SpawnPriorities = {}
INVARIANT LargestMessagePasses
