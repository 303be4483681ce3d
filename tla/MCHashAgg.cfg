\* Arrays of nine slots, blocks of two rows; runs in batches of two rows.
CONSTANTS
  TMin <- MCTMin
  TMax <- MCTMax
  WMin <- MCWMin
  WMax <- MCWMax
  Null <- MCNull
  Keys <- MCKeys
  FixedMap = TRUE
  HasAgg = TRUE
  ArrayRule = TRUE
  RangeUpperBound = 9
  Reserve = 1
  Lanes = 2
  LaneMod = 32
  StoiMax = 7
  RowsPerBatch = 2
  SpillRows = 2
  UnspillRows = 3
  MaxRows = 5
  BatchRows = 2
SPECIFICATION Spec
INVARIANTS
  GroupsAreExact
PROPERTY CallsMakeProgress
CHECK_DEADLOCK FALSE
