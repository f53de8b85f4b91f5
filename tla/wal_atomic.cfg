SPECIFICATION Spec
CONSTANTS
  Pages = {p1, p2}
  Values = {v0, v1}
  p1 = p1
  p2 = p2
  v0 = v0
  v1 = v1
  ZeroPage = v0
  CatPage = p1
  Untouched = Untouched
  MaxTxn = 2
  MaxLog = 3
  MaxRestarts = 2
  EmptyCommits = FALSE
  FailPoints <- BeforeCommitRecord
INVARIANTS CrashAtomic CatalogCoherent
PROPERTIES Implements
CHECK_DEADLOCK FALSE
