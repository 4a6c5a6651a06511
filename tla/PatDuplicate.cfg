SPECIFICATION Spec
CONSTANTS
  Calls = {c1}
  Humans = {h1}
  Taken = {}
  Pats = {p1, p2}
  NoHuman = NoHuman
  NoPat = NoPat
  Retry = 1
  Limit = 1
INVARIANT
  OnePatPerCreate
CHECK_DEADLOCK FALSE
