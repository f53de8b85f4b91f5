SPECIFICATION Spec
CONSTANTS
  Null = Null
  Cols <- TableCols
  PKCols = {}
  UniqueCols = {"a"}
  NotNullCols = {"b"}
  Rows <- AllRows
  RowLen <- Length
  Values = {1, 2}
  Batches <- Batched
  Wheres <- Clauses
  Assignments <- SetEither
  MaxPages = 2
  PageSize = 9
  HeaderSize = 1
  SlotSize = 1
  MaxSlots = 2
PROPERTIES IndexKept KeysUnique ImplementsTable
CHECK_DEADLOCK FALSE
