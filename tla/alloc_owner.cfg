SPECIFICATION Spec
CONSTANTS
  t1 = t1
  t2 = t2
  t3 = t3
  Tables = {t1, t2}
  Indexed = {t1}
  Growing = {t1, t2}
  Droppable = {t1, t2}
  Explicit = TRUE
  MixedTxns = FALSE
  Interleaved = FALSE
  Reopens = TRUE
  Failures = TRUE
  MaxPages = 6
  MaxWrappers = 2
INVARIANTS OneOwner AllocDataPageEnds ReopenFindsPages
CHECK_DEADLOCK FALSE
