\* Two threads, blocks of one and two bytes, a limit of three.
CONSTANTS
  t1 = t1
  t2 = t2
  Global = Global
  Threads <- MCThreads
  Sizes = {1, 2}
  Threshold = 1
  Limits <- MCLimits
  MaxAllocs = 4
SPECIFICATION Spec
SYMMETRY Symmetry
INVARIANTS
  TypeOK
  GlobalIsExact
  FirstExcessThrows
