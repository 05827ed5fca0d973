CONSTANTS
  NDim = 2
  MaxCells = 6
  RowIds = {3, 40}
  Boxes <- MCBoxes
  Queries <- MCQueries
  Scanned <- MCScanned
  Trees <- MCTrees
  Docids = {1, 2}
  Texts <- MCTexts
  MergeCount = 2
  MinMerge = 2
  MaxLevel = 3
  MaxSavepoint = 1
  MaxOps = 3
  EarlySavepoint = FALSE
  OptimizePending = FALSE
  nColumn = 2
  nOutput = 2
  Tables <- MCTables
  Exprs <- MCExprs
  Costs <- MCCosts
  Orders <- MCOrders
  nNodeSize = 14
  DocBytes = 2
  SegMergeCount = 3
  Batches <- MCBatches
  MergeQuotas <- MCQuotas
  MaxDocs = 4
  MaxMerges = 3
  MaxLexemes = 5
SPECIFICATION SearchSpec
CHECK_DEADLOCK FALSE
INVARIANTS
  TreeSound
  RtreeExact
  
  
  SegmentsExact
  ParseExact
