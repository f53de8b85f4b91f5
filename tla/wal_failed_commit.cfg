SPECIFICATION FairSpec
CONSTANTS
  Pages = {p1, p2}
  Values = {v0, v1}
  p1 = p1
  p2 = p2
  v0 = v0
  v1 = v1
  ZeroPage = v0
  CatPage = p1
  Untouched = Untouched
  MaxTxn = 2
  MaxLog = 3
  MaxRestarts = 2
  EmptyCommits = FALSE
  FailPoints <- AnyStep
INVARIANTS PagesLegal
PROPERTIES WriteAhead ComesBack
CHECK_DEADLOCK FALSE
