SPECIFICATION FairSpec
CONSTANTS
  Tables <- MCTables
  Starts <- MCStarts
INVARIANTS
  ExpansionIsLeastClosed
  ExpansionIsExpanded
PROPERTY ExpansionEnds
CHECK_DEADLOCK FALSE
