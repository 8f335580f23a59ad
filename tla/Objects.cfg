CONSTANTS
  b1 = b1
  b2 = b2
  k1 = k1
  k2 = k2
  Blocks = {b1, b2}
  Keys = {k1, k2}
  KeyOf <- OneEach
  ByPost <- Second
  NoBlock = NoBlock
  MaxEdits = 2
  MaxFaults = 1
SPECIFICATION FairSpec
INVARIANTS
  TypeOK
PROPERTIES
  SavedStateIsTrue
  OthersOnlyRollBack
  AppliedIsZeroDiff
  Converges
  PlansBecomeEmpty
