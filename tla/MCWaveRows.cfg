SPECIFICATION FairSpec
CONSTANTS
  Count = 2
  Capacity = 2
  Polls = 4
  MayFail = {1, 2}
INVARIANTS RowsInOrder FewRowsLost
PROPERTY GatherReturns
