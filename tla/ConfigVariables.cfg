SPECIFICATION Spec
CONSTANTS
  Keys = {k1, k2}
  Values = {v1, v2, v3}
  Malformed = {v3}
  Unset = Unset
  Blank = Blank
INVARIANTS
  VariablesOverride
CHECK_DEADLOCK FALSE
