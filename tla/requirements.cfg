SPECIFICATION Spec
CONSTANTS
  Graphs <- MCGraphs
  Services <- MCServices
INVARIANT RequirementsAreFound
CHECK_DEADLOCK FALSE
