CONSTANTS
  HEAP = 10
  BASE = 11
  SPAN = 64
  Demands = {0, 4, 500}
SPECIFICATION HeapSpec
INVARIANTS Partition Merged
