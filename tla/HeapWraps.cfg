CONSTANTS
  HEAP = 10
  BASE = 11
  SPAN = 64
  Demands = {4, 508}
SPECIFICATION HeapSpec
INVARIANTS Partition Merged
PROPERTY ImplementsAllocator
