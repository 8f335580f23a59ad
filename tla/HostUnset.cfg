CONSTANTS
  Configurable <- Some
  maxSSHAttempts = 2
  MaxEdits = 1
  MaxFaults = 0
SPECIFICATION Spec
PROPERTIES
  UnsetIsLeftAlone
