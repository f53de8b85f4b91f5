SPECIFICATION Spec
CONSTANTS
  NULL = NULL
  NoLimit = NoLimit
  Sources <- Mixed
  Workloads <- Asked
  Scale = 6
  TextCols = {"x", "z"}
  FirstText = 10
  Indexed = {"x"}
INVARIANTS JoinsAsMeant FilterAsMeant ColumnsAsNamed OrderedThenCut GroupsAsMeant
CHECK_DEADLOCK FALSE
