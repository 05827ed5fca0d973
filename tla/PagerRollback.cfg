SPECIFICATION Spec
CONSTANTS
  c1 = c1
  Conns = {c1}
  MaxPage = 2
  InitSizes = {1, 2}
  Modes = {"DELETE", "TRUNCATE", "PERSIST"}
  JournalModes <- SameModes
  FullSync = TRUE
  WeakChecksum = TRUE
  Aligned = FALSE
  Shrink = FALSE
  MaxTxn = 2
  FaultSites = {"write", "playback"}
  MaxCrash = 0
  MaxPower = 0
  MaxFault = 2
INVARIANT ReadsCommitted
CHECK_DEADLOCK FALSE
