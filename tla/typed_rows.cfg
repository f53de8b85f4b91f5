SPECIFICATION TypedSpec
CONSTANTS
  NoRow = NoRow
  Rows <- EncodedRows
  RowLen <- Lengths
  PageSize = 60
  HeaderSize = 2
  SlotSize = 2
  MaxSlots = 2
  MaxRewrites = 2
  Bits = 2
  Unit = 100
  Utf8 <- Alphabet
  Space = " "
  Prefix = 1
  LongWidth = 4
  Schemas <- SmallSchemas
INVARIANTS GetReturnsStored ValuesKept StaysRewritable KeysExact
CHECK_DEADLOCK FALSE
