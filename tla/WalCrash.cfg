CONSTANTS
  c1 = c1
  c2 = c2
  c3 = c3
  Conns = {c1, c2}
  Readers = {c1, c2}
  Writers = {c2}
  Checkpointers = {c1}
  Spillers = {}
  Faulty = {}
  Pages = {1}
  Lists <- OnePage
  NReader = 2
  MaxFrame = 1
  MaxGen = 2
  MaxRetry = 1
  Modes = {"passive", "full"}
  Crashes = 1
SPECIFICATION Spec
INVARIANTS
  SnapshotPinned
PROPERTIES
  LocksAsPromised
