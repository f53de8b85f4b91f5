SPECIFICATION Spec
CONSTANTS
  t1 = t1
  t2 = t2
  short = short
  long = long
  huge = huge
  n1 = n1
  n2 = n2
  n3 = n3
  Tables = {t1, t2}
  Rows = {short, long, huge}
  RowLen <- InPage
  FullLen <- Lengths
  PageSize = 8
  HeaderSize = 2
  SlotSize = 1
  MaxSlots = 2
  MaxPages = 5
  MaxRows = 3
  Catalogs <- SmallCatalogs
  ColumnLen <- Columns
  Envelope = 1
  EntryLen = 1
  IdsLen = 1
  BodySize = 10
  Margin = 2
SYMMETRY Twins
INVARIANTS RowsWhole ChainsApart CatalogReadBack CatalogPagesKept
PROPERTIES DropReturnsPages
CHECK_DEADLOCK FALSE
