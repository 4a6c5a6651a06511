SPECIFICATION Spec
CONSTANTS
  Keys <- MCKeys
  Canonical <- MCCanonical
  NoKey = ""
  HeaderKeys <- MCHeaderKeys
  Texts <- MCTexts
INVARIANTS
  HitRepeatsMiss
  HeadersAreClaims
CHECK_DEADLOCK FALSE
