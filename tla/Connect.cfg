CONSTANTS
  r1 = r1
  r2 = r2
  Runs = {r1, r2}
  Reads = {r2}
  maxSSHAttempts = 3
  Blocks <- SmallBlocks
  Numerals <- SmallNumerals
  Unset = "0"
  Second = 2
  Word = 256
  NoClient = NoClient
  NoSSH = NoSSH
SPECIFICATION TransportFairSpec
CHECK_DEADLOCK FALSE
INVARIANTS
  TransportTypeOK
  KeyFileLives
  RequestsEnd
  ReachesDeclaredHost
PROPERTIES
  ImplementsRemoteCommand
  EveryStepCounts
  RunsReturn
