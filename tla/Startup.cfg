SPECIFICATION FairSpec
CONSTANTS
  maxInitialAttempts = 5
  MaxRuns = 3
INVARIANTS TypeOK OneIdentity Flushed
PROPERTY BootstrapEnds
CHECK_DEADLOCK FALSE
