SPECIFICATION FairSpec
CONSTANTS
  Calls = {c1, c2}
  Humans = {h1}
  Taken = {}
  Pats = {p1}
  NoHuman = NoHuman
  NoPat = NoPat
  Retry = 1
  Limit = 1
PROPERTY
  CallsEnd
CHECK_DEADLOCK FALSE
