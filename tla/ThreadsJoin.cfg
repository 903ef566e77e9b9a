CONSTANTS
  HEAP = 8
  BASE = 0
  SPAN = 64
  Demands = {}
  Handles = {"ap", "bp"}
  Pids = {1, 2}
SPECIFICATION ThreadsSpec
INVARIANT JoinWaits
CHECK_DEADLOCK FALSE
