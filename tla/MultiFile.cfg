SPECIFICATION FairSpec
CONSTANTS
  f1 = f1
  f2 = f2
  Files <- MCFiles
  MaxTxn = 2
  MaxCrash = 2
  WriterModes = {"delete", "persist"}
  RecoverModes = {"delete"}
  UnlinkLost = FALSE
CHECK_DEADLOCK FALSE
INVARIANTS
  
  Durable
PROPERTIES
  
  HotResolved
