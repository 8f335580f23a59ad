CONSTANTS
  r1 = r1
  r2 = r2
  Resources <- All
  Awaiting <- All
  Inverse <- First
  ByDelete <- First
  NoOne = NoOne
  MaxCalls = 3
SPECIFICATION Spec
INVARIANTS
  ParametersAreSent
