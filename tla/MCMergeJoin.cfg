CONSTANTS
  Filter <- MCFilter
  Queries <- EndingQueries
  Joins <- MCJoins
  MaxRows = 3
SPECIFICATION Spec
INVARIANTS ResultIsJoin NothingFreedIsRead BatchesHaveRoom
PROPERTY JoinEnds
