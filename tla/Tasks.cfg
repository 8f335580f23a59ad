CONSTANTS
  r1 = r1
  r2 = r2
  Resources <- All
  Awaiting <- First
  Inverse <- First
  ByDelete <- None
  NoOne = NoOne
  MaxCalls = 3
SPECIFICATION FairSpec
INVARIANTS
  TypeOK
  OverlapOnlyAfterGivingUp
  SuccessIsReal
  StateFollowsSuccess
PROPERTIES
  DeadlineBinds
  OperationsReturn
