SPECIFICATION Spec
CONSTANTS
  Programs <- ConformancePrograms
  ValidDomains <- MCDomains
  DomainLimit = 3
  EffectfulImports <- MCEffectfulImports
  TestImports <- MCTestImports
INVARIANT
  PureFilesAreEffectFree
CHECK_DEADLOCK FALSE
