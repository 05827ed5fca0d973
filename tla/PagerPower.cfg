SPECIFICATION Spec
CONSTANTS
  c1 = c1
  Conns = {c1}
  MaxPage = 2
  InitSizes = {0, 2}
  Modes = {"DELETE", "TRUNCATE", "PERSIST"}
  JournalModes <- SameModes
  FullSync = TRUE
  WeakChecksum = TRUE
  Aligned = FALSE
  Shrink = TRUE
  MaxTxn = 2
  FaultSites = {"journal", "sync", "write", "dbsync", "finalize"}
  MaxCrash = 0
  MaxPower = 1
  MaxFault = 1
INVARIANTS
  ReadsCommitted
  DiskRecoverable
PROPERTY Durable
