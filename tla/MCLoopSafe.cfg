\* Four records: two clients, one with a hash child, beside an import.
CONSTANTS
  Addr = {a1, a2, a3, a4}
  NULL = NULL
  Listener = Listener
  Chunks = 1
  IdleTimeout = 0
  XferTimeout = 0
  Faults = TRUE
SYMMETRY MCSymmetry
SPECIFICATION Spec
INVARIANTS TypeOK NoStaleEvent SweepOnList ChildOfOwner HashingIsWatched
