SPECIFICATION FairSpec
CONSTANTS
  FileCount = 2
  Capacity = 2
  MaxOutput = 3
INVARIANTS
  
  IndexGapsAreFailures
PROPERTY BuildEndsIfOutputFits
CHECK_DEADLOCK FALSE
