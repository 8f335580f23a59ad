CONSTANTS
  Configurable <- Others
  maxSSHAttempts = 2
  MaxEdits = 1
  MaxFaults = 2
SPECIFICATION FairSpec
INVARIANTS
  TypeOK
  AppliedReadsBack
  EmptyPlanIsTrue
  SNMPRestarted
PROPERTIES
  Converges
  PlansSettle
