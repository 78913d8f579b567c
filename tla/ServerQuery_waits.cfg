SPECIFICATION FairSpec
CONSTANTS
  Query = {"q1", "q2"}
  Capacity = 2
  MaxPosts = 4
INVARIANTS
  TypeOK
  PendingAreAwaited
  AnsweredByOwnResponse
  NoResponseOverlooked
PROPERTIES
  OutcomeFinal
  QueryReturns
CHECK_DEADLOCK FALSE
