SPECIFICATION Spec
CONSTANTS
  t1 = t1
  t2 = t2
  t3 = t3
  Tables = {t1, t2}
  Indexed = {}
  Growing = {t1}
  Droppable = {t1, t2}
  Explicit = FALSE
  MixedTxns = FALSE
  Interleaved = TRUE
  Reopens = FALSE
  Failures = FALSE
  MaxPages = 7
  MaxWrappers = 0
INVARIANT OneOwner
CHECK_DEADLOCK FALSE
