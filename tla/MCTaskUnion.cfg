\* A Union is left by a Limit, or by the caller, before its queue is empty.
CONSTANTS
  OutRows = 1
  Projections = 2
  MaxOut = 8
  Plans <- UnionPlans
  Streams <- MCStreams
SPECIFICATION Spec
INVARIANTS
  NoDoubleFree
