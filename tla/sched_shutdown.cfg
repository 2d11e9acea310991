SPECIFICATION FairSpec
CONSTANTS
  MaxCallbacks = 1
  MaxTime = 1
PROPERTY ShutdownCompletes
