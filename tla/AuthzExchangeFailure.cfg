SPECIFICATION Spec
CONSTANTS
  r1 = r1
  r2 = r2
  r3 = r3
  p1 = p1
  p2 = p2
  u1 = u1
  u2 = u2
  Requests = {r1}
  Configured = {r1}
  Pats = {p1}
  Users = {u1}
  Owner <- MCOwner1
  NoUser = NoUser
  NoHeader = NoHeader
  Blank = Blank
  CacheTTL = 1
  CallBudget = 1
  Horizon = 3
PROPERTY
  ExchangeFailureIsCached
CHECK_DEADLOCK FALSE
