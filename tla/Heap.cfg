CONSTANTS
  HEAP = 10
  BASE = 11
  SPAN = 64
  Demands = {0, 4, 16}
SPECIFICATION HeapSpec
INVARIANTS Partition Merged
PROPERTY ImplementsAllocator
