CONSTANTS
  Null = Null
  Invalid = Invalid
  MaxReset = 1
  nCol <- MCnCol
  Indices <- MCIndices
  Databases <- MCDatabases
  Queries <- MCQueries
SPECIFICATION SqlSpec
INVARIANTS
  MachineSound
PROPERTIES
  StatementExact
