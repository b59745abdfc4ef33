SPECIFICATION FairSpec
CONSTANTS
  Trees <- MCTrees
  SourceNames <- MCSourceNames
  Ignored <- MCIgnored
INVARIANTS
  AnalysisIsComplete
  WorkspaceSourcesAreRecognised
PROPERTY DiscoveryEnds
CHECK_DEADLOCK FALSE
