SPECIFICATION Spec
CONSTANTS
  Width = 5
  Era = 4
  LastSecond = 6
  Horizon = 2
  MaxStored = 2
INVARIANTS
  SentAsAsked
  DatesAsStored
