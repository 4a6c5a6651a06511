SPECIFICATION Spec
CONSTANTS
  Calls = {c1, c2}
  Humans = {h1, h2}
  Taken = {h2}
  Pats = {p1, p2, p3}
  NoHuman = NoHuman
  NoPat = NoPat
  Retry = 1
  Limit = 2
SYMMETRY Symmetry
INVARIANTS
  TypeOK
  CreatedIsOwn
  MintBound
  ConflictIsForeign
  DeletedIsGone
PROPERTIES
  OnlyOwnDeleted
  ListIsFaithful
  ImplementsRegistry
CHECK_DEADLOCK FALSE
