\* Two clients, one answer lost.
CONSTANTS
  Ctl = {operator, builder}
  operator = operator
  builder = builder
  Follower = tail
  n1 = n1
  s1 = s1
  d1 = d1
  d2 = d2
  Name = {n1, s1}
  SignatureOf <- MCSignatureOf
  Digest = {d1, d2}
  None = None
  Commands <- MCDeletes
  NoCommand = NoCommand
  LOG_RING = 2
  MAX_ATTEMPTS = 3
  MaxBoots = 1
  MaxCommands = 4
  MaxBreaks = 1
  StoreFaults = FALSE
SPECIFICATION Spec
CHECK_DEADLOCK FALSE
INVARIANTS AtMostOneEffect
