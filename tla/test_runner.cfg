SPECIFICATION FairSpec
CONSTANTS
  SuiteCount = 3
  Codes = {0, 1, 2}
  None = None
  Empty = Empty
INVARIANTS
  SuccessIsEarned
  FailuresAreShown
PROPERTY RecipeEnds
CHECK_DEADLOCK FALSE
