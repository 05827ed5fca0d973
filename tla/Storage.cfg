CONSTANTS
  Tables = {"a", "b"}
  Keys = {1, 2}
  MaxPage = 11
  NEntry = 3
  TrunkCap = 1
  MaxChain = 2
  Modes = {"none", "full", "incr"}
  PendingPages = {6}
  Starts <- MCStarts
  MaxOps = 3
  Schemas <- MCSchemas
  MaxCount = 3
  RowIds = {1, 2, 3, 4}
  MaxInsert = 4
  MaxBatch = 2
SPECIFICATION StorageSpec
CONSTRAINT Untainted
CHECK_DEADLOCK FALSE
INVARIANTS
  PagesSound
  RowsKept
  
  RowSetExact
