CONSTANTS
  SIGCHLD = SIGCHLD
  Clients = {c1, c2}
  Signals = {SIGCHLD, SIGALRM}
  Handlers = {h1, h2}
  signal_default = signal_default  SIG_ERR = SIG_ERR  NULL = NULL
  Room = 5
  Turns = TRUE
SPECIFICATION FairSpec
INVARIANT InStep
PROPERTIES ImplementsTable CallsReturn
