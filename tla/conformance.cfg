SPECIFICATION FairSpec
CONSTANTS
  Programs <- ConformancePrograms
  ValidDomains <- MCDomains
  DomainLimit = 3
  EffectfulImports <- MCEffectfulImports
  TestImports <- MCTestImports
INVARIANTS
  FactsAreConsistent
  AcceptedDecisionsAreCalled
  AcceptedStatesFollowTraces
  AcceptedPureFilesTouchNoEffects
  AcceptedShellsUseACore
  SequencesFollowTheirInput
PROPERTY
  EveryFileIsEmitted
CHECK_DEADLOCK FALSE
