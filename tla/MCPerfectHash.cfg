SPECIFICATION FairSpec
CONSTANTS
  N = 3
  M = 2
  Block = 4
  Key <- MCKey
  Code <- MCCode
  Junk <- MCJunk
  KeyLists <- MCKeyLists
  FIRST_TRIES = 1
  SECOND_TRIES = 1
  NoHash = NoHash
  FirstWords = {3, 4, 5}
  Duplicates = TRUE
INVARIANTS
  TypeOK
  QueueHoldsEachEdgeOnce
  LinksThreadTheRest
  QueuedEdgeHasPrivateSlot
  MappingNeverStuck
  LocateIsPerfect
  BadInputNeverIndexed
  CheckRejectsOnlyDuplicates
PROPERTY BuildReturns
