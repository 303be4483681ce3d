CONSTANTS
  Keys <- MCKeys
  H1 <- MCH1
  null = null
  Empty = Empty
  Width = 2
  Degree = 3
  LoadNum = 1
  LoadDen = 2
  Growing = TRUE
  MaxKeys = 6
  MaxDegree = 5
  OutRows = 2
SPECIFICATION Spec
INVARIANTS EveryKeyFound ElementsCounted EachKeyOnce
PROPERTY IsKeyMap
CHECK_DEADLOCK FALSE
