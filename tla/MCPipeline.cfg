\* Seven plans that use every operator, every combination of four input streams;
\* each pipeline against the contract of module Driver, whose batches are at most
\* eight.
CONSTANTS
  OutRows = 1
  Projections = 2
  MaxOut = 8
  Plans <- MCPlans
  Streams <- MCStreams
SPECIFICATION FairSpec
INVARIANTS
  ProbedWhenBuilt
  NoDriverWaits
  FreedExactlyOnce
PROPERTIES
  ImplementsQuery
  EveryPipelineIsADriver
  CallReturns
