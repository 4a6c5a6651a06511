SPECIFICATION Spec
CONSTANTS
  r1 = r1
  r2 = r2
  r3 = r3
  p1 = p1
  p2 = p2
  u1 = u1
  u2 = u2
  Requests = {r1, r2, r3}
  Configured = {r1, r2}
  Pats = {p1, p2}
  Users = {u1, u2}
  Owner <- MCOwner
  NoUser = NoUser
  NoHeader = NoHeader
  Blank = Blank
  CacheTTL = 1
  CallBudget = 0
  Horizon = 1
SYMMETRY Symmetry
INVARIANT
  AllowNamesOwner
CHECK_DEADLOCK FALSE
