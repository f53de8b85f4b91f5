SPECIFICATION PowerSpec
CONSTANTS
  Pages = {p1, p2}
  Values = {v0, v1}
  p1 = p1
  p2 = p2
  v0 = v0
  v1 = v1
  ZeroPage = v0
  CatPage = p1
  Untouched = Untouched
  TornPage = TornPage
  MaxTxn = 1
  MaxLog = 2
  MaxRestarts = 2
  EmptyCommits = FALSE
  FailPoints <- NoFailures
INVARIANTS CrashAtomic SessionSeesWholePages
PROPERTIES LogSyncedBeforeMain
CHECK_DEADLOCK FALSE
