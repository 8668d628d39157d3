\* Two records: two clients, or a client and the child it started.
CONSTANTS
  Addr = {a1, a2}
  NULL = NULL
  Listener = Listener
  Chunks = 2
  IdleTimeout = 1
  XferTimeout = 2
  Faults = TRUE
SPECIFICATION FairSpec
PROPERTIES EveryConnectionEnds ImportIsNoticed
