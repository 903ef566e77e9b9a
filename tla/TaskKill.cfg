SPECIFICATION KillSpec
CONSTANTS
  a = a
  b = b
  idle = idle
  free = free
  spare = spare
  ready = ready
  event = event
  Heads = {ready, event}
  Items = {a, b, idle}
  Null = Null
  Slots <- ThreeSlots
  Boot <- BootOrder
  Spinner = idle
  Creators = {}
  Cancellers = {}
INVARIANT TasksReachable
