CONSTANTS
  p1 = p1
  p2 = p2
  p3 = p3
  f1 = f1
  f2 = f2
  f3 = f3
  f4 = f4
  f5 = f5
  c1 = c1
  c2 = c2
  c3 = c3
  Procs = {p1, p2, p3}
  Files = {f1, f2, f3, f4, f5}
  ProcOf <- FiveFiles
  ExclProcs = {p3}
  MaxInode = 0
  ShmProcs = {p1, p2}
  ShmConns = {1, 2, 3}
  ShmProcOf <- TwoAndOne
  NLock = 3
  Conns = {c1, c2, c3}
  NoConn = NoConn
  NoCallback = NoCallback
  Callbacks = {"f", "g"}
  Threads = {1, 2, 3}
  NoThread = 0
  MaxDepth = 2
  BtConns = {1, 2}
  Shared = {1, 2, 3}
  TopAddress = 3
  Nobody = 0
  MaxNest = 2
CHECK_DEADLOCK FALSE
SYMMETRY Peers
SPECIFICATION LocksSpec
INVARIANTS
  MutualExclusion
  InodeSummary
  BeliefsBacked
  NoReservedUnseen
  SystemSummary
  BlockedListExact
  NoWaitCycle
  WaitsForHolder
  InsideIsOwner
  AllWantedHeld
  NoDeadlock
PROPERTIES
  
  ImplementsConnLocks
