SPECIFICATION FairSpec
CONSTANTS
  ValidDomains <- MCValidDomains
  DomainLimit = 3
  AdapterCount = 3
  Documents <- AdapterDocuments
INVARIANTS
  NothingSkipped
PROPERTIES
  AnsweredRunEnds
  Refines
CHECK_DEADLOCK FALSE
