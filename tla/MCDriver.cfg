\* A six-operator pipeline; every batch becomes at most two.
CONSTANTS
  N = 6
  MaxOut = 2
  Buffers <- MCBuffers
  Breakers <- MCBreakers
  Choosy <- MCChoosy
  Stoppers <- MCStoppers
  Flushers <- MCFlushers
  Lazy <- MCLazy
  Blockable <- MCBlockable
SPECIFICATION FairSpec
INVARIANTS
  TypeOK
  OnlyUnwantedLost
  EndMeansDrained
  NothingLeftBehind
PROPERTIES
  DriverFinishes
