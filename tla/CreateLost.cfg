SPECIFICATION KillSpec
CONSTANTS
  a = a
  b = b
  idle = idle
  free = free
  spare = spare
  ready = ready
  event = event
  Heads = {ready, event}
  Items = {a, b, idle, free}
  Null = Null
  Slots <- FourSlots
  Boot <- BootOrder
  Spinner = idle
  Creators = {a, b}
  Cancellers = {}
INVARIANT TasksReachable
