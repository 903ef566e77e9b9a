CONSTANTS
  SIGCHLD = SIGCHLD
  Clients = {c1, c2}
  Signals = {SIGCHLD, SIGALRM}
  Handlers = {h1, h2}
  signal_default = signal_default  SIG_ERR = SIG_ERR  NULL = NULL
  Room = 5
  Turns = FALSE
SPECIFICATION Spec
INVARIANTS InStep
