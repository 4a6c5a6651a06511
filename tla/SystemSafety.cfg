SPECIFICATION Spec
CONSTANTS
  p1 = p1
  p2 = p2
  h1 = h1
  h2 = h2
  Requests = {r1}
  Configured = {r1}
  Pats = {p1, p2}
  Owner <- MCOwner2
  NoHeader = NoHeader
  Blank = Blank
  CacheTTL = 1
  CallBudget = 0
  Horizon = 1
  Calls = {c1}
  Humans = {h1, h2}
  Taken = {}
  NoHuman = NoHuman
  NoPat = NoPat
  Retry = 0
  Limit = 1
  Presented = {p1, p2}
  Operations = {"create", "delete"}
  Callers = {h1, h2}
INVARIANTS
  TypeOK
  ServedAsCreator
PROPERTIES
  CreatedWorks
  DeletedStops
CHECK_DEADLOCK FALSE
