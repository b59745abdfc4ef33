SPECIFICATION Spec
CONSTANTS
  Programs <- DestructuredPrograms
  ValidDomains <- MCDomains
  DomainLimit = 3
  EffectfulImports <- MCEffectfulImports
  TestImports <- MCTestImports
INVARIANT
  TracesReportTheirInput
CHECK_DEADLOCK FALSE
