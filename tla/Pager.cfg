SPECIFICATION Spec
SYMMETRY Symmetry
CONSTANTS
  c1 = c1
  c2 = c2
  Conns = {c1, c2}
  MaxPage = 2
  InitSizes = {1}
  Modes = {"DELETE", "PERSIST"}
  JournalModes <- SameModes
  FullSync = TRUE
  WeakChecksum = TRUE
  Aligned = FALSE
  Shrink = FALSE
  MaxTxn = 2
  FaultSites = {"playsync"}
  MaxCrash = 1
  MaxPower = 0
  MaxFault = 1
INVARIANTS
  ReadsCommitted
  FileRecoverable
