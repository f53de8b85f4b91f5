SPECIFICATION Spec
CONSTANTS
  Keys = {1, 2, 3, 4, 5, 6}
  KeyLen <- UnevenLen
  Refs = {r1, r2}
  r1 = r1
  r2 = r2
  PageSize = 72
  MaxPages = 8
INVARIANTS LookupsCorrect SeparatorsExact
CHECK_DEADLOCK FALSE
