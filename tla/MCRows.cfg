\* Up to four rows, five for a group limit.
CONSTANTS
  Null <- MCNull
  Empty <- MCEmpty
  Throws <- MCThrows
  MaxSum = 3
  Confs <- MCConfs
  RowsOf <- MCRowsOf
  MaxRows <- MCMaxRows
  BatchRows <- MCBatchRows
  BuildRows = 3
  BuildsOf <- MCBuildsOf
  ArrayThreshold = 1
  RefsInBatch = 2
  ColumnRange = 16
  Lanes = 2
  Digits64 = 1
  Digits128 = 4
  Int64Max = 63
  Int64Bits = 7
  Int32Max <- MCInt32Max
  MinYear <- MCMinYear
  MaxYear <- MCMaxYear
  LeapYearOffset <- MCLeapYearOffset
  MillisPerSecond = 3
  MinEpochSeconds <- MCMinEpochSeconds
  MaxEpochSeconds = 1000000
  Uint128Max = 32767
  Log2Plus1 <- MCLog2Plus1
  MaxKey = 127
  UnrollSize = 1
  ChunkSize = 4
  BigLen = 5
  StepSize = 4
  CompareCache = 2
  DigitValues = 4
  LongBytes = 4
  IntBytes = 3
  MSDThreshold = 3
  JsonLength <- MCJsonLength
  Parsed <- MCParsed
  Repaired <- MCRepaired
  ResultSize = 2
  MaxDocuments = 2
  MaxInputBytes = 2
  PathCapacity = 1
SPECIFICATION Spec
INVARIANTS
  TopNIsExact
  GroupLimitIsExact
  DistinctLimitIsExact
  WindowIsExact
  NestLoopIsJoin
  HashJoinIsJoin
  AggregateIsExact
  DecimalIsExact
  ExpressionIsExact
  SortIsExact
  JsonIsFresh
  JsonIsBounded
  TextIsExact
