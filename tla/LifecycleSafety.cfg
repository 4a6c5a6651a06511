SPECIFICATION FairSpec
CONSTANTS
  Conns = {k1, k2}
  Grace = 2
  WriteTimeout = 3
  NewPatience = 1
  Horizon = 4
INVARIANTS
  TypeOK
  CutAfterGrace
  StopBound
  SpansKept
PROPERTY
  ServerEndsProcess
CHECK_DEADLOCK FALSE
