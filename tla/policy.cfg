SPECIFICATION Spec
CONSTANTS
  ValidDomains <- MCValidDomains
  DomainLimit = 3
  AdapterCount = 1
  Documents <- PolicyDocuments
INVARIANTS
  AcceptedDecisionsTested
  AcceptedHandlersDecide
  AcceptedLayersRespected
  AcceptedStateCovered
  AcceptedTracesBelong
  AcceptedEffectsConfined
  AcceptedInert
  AcceptedDeclared
  AcceptedDomainsNarrow
  VerdictsAreLocal
CHECK_DEADLOCK FALSE
