CONSTANTS
  Keys <- MCKeys
  H1 <- MCH1
  null = null
  Empty = Empty
  Width = 4
  Degree = 3
  LoadNum = 3
  LoadDen = 4
  Growing = FALSE
  MaxKeys = 6
  MaxDegree = 3
  OutRows = 2
SPECIFICATION Spec
INVARIANT EveryKeyFound
CHECK_DEADLOCK FALSE
