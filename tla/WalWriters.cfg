CONSTANTS
  c1 = c1
  c2 = c2
  c3 = c3
  Conns = {c1, c2}
  Readers = {c1, c2}
  Writers = {c1, c2}
  Checkpointers = {}
  Spillers = {c1, c2}
  Faulty = {c1, c2}
  Pages = {1, 2}
  Lists <- TwoPages
  NReader = 3
  MaxFrame = 2
  MaxGen = 1
  MaxRetry = 2
  Modes = {"passive"}
  Crashes = 0
SYMMETRY Peers
SPECIFICATION Spec

  
PROPERTIES
  CommitsExtend
