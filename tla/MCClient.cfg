\* Commands given by two clients beside a follower, with breaks and a restart.
CONSTANTS
  Ctl = {operator, builder}
  operator = operator
  builder = builder
  Follower = tail
  n1 = n1
  s1 = s1
  d1 = d1
  d2 = d2
  Name = {n1, s1}
  SignatureOf <- MCSignatureOf
  Digest = {d1, d2}
  None = None
  Commands <- MCCommands
  NoCommand = NoCommand
  LOG_RING = 2
  MAX_ATTEMPTS = 2
  MaxBoots = 2
  MaxCommands = 2
  MaxBreaks = 2
  StoreFaults = TRUE
SPECIFICATION FairSpec
CHECK_DEADLOCK FALSE
INVARIANTS ReportIsTrue NothingMissed NothingRepeated
PROPERTIES CommandsReturn CatchesUp
