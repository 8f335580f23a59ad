CONSTANTS
  Configurable <- Transport
  maxSSHAttempts = 2
  MaxEdits = 1
  MaxFaults = 0
SPECIFICATION Spec
INVARIANTS
  NeverLockedOut
