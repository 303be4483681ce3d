CONSTANTS
  Filter <- MCFilter
  Queries <- AllQueries
  Joins <- MCLeft
  MaxRows = 2
SPECIFICATION FairSpec
PROPERTY JoinEnds
