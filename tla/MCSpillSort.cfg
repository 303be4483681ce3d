\* Up to six rows of two keys; runs in batches of two, a buffer of three rows.
CONSTANTS
  Keys = {1, 2}
  MaxRows = 6
  BatchRows = 2
  OutRows = 3
  FallbackRows = 4
  SpillRows = 2
  WriteBufferSize = 3
  MaxSpillBytes = 6
SPECIFICATION Spec
INVARIANTS
  OutputIsSorted
  OnlyOrphansStay
PROPERTY ClosesWhatItOpened
CHECK_DEADLOCK FALSE
