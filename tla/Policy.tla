------------------------------- MODULE Policy -------------------------------
(***************************************************************************)
(* The cross-language policy of evaluate.py.  Each evaluate_* function is  *)
(* a record: under the name of each rule, the set of files it reports.  A  *)
(* violation keeps the path and the rule; the wording of the message and   *)
(* the names listed in it are left out.                                    *)
(*                                                                         *)
(* A definition whose name ends in _slip is a plausible programming slip   *)
(* in the definition that follows it; no specification uses it.            *)
(***************************************************************************)
EXTENDS Facts, FiniteSets

CONSTANTS ValidDomains,  \* the strings DOMAIN_PATTERN matches completely
          DomainLimit    \* DOMAIN_PRODUCTION_MODULE_LIMIT

ASSUME DomainsAssumption == None \notin ValidDomains
ASSUME LimitAssumption   == DomainLimit \in Nat

\* The violations for the files that a record of rules reports.
Reports(reported) ==
  UNION {{[path |-> f.path, rule |-> r] : f \in reported[r]} :
           r \in DOMAIN reported}

OfType(files, types) == {f \in files : f.moduleType \in types}

SameDomain_slip(files, f) == files

SameDomain(files, f) == {g \in files : g.domain = f.domain}

\* The file whose path comes first in sorted order.
First(fs) == CHOOSE f \in fs : \A g \in fs : f.path <= g.path

---------------------------------------------------------------------------
\* Only the references that meaningful checks carry are compared with the API
\* references of the file, and an input generated by any check of the file may
\* control an operation sequence of another.
FactConsistency(files) ==
  LET EnclosingNames(f) == {e.enclosing : e \in f.effectfulReferences} \ {None}
      Unsummarised(e) == e.origin = "dependency-summary" /\ ~ e.summarised
      SequenceInputs(f) == {s.input : s \in SequencesOf(f)}
      AllSequenceReferences(f) ==
        UNION {SequenceReferences(s) : s \in SequencesOf(f)}
  IN  [effectfulImportsAreImports |->
         {f \in files : ~ f.effectfulImports \subseteq f.imports},
       effectfulIdentifiersAreIdentifiers |->
         {f \in files : ~ f.effectfulIdentifiers \subseteq f.identifiers},
       enclosingNamesAreIdentifiers |->
         {f \in files : ~ EnclosingNames(f) \subseteq f.identifiers},
       dependencyEffectsNameASummary |->
         {f \in files : \E e \in f.effectfulReferences : Unsummarised(e)},
       propertyReferencesAreReachable |->
         {f \in files : ~ PropertyTestReferences(f) \subseteq f.apiReferences},
       sequencesUseGeneratedInputs |->
         {f \in files : ~ SequenceInputs(f) \subseteq GeneratedInputNames(f)},
       sequenceReferencesAreReachable |->
         {f \in files : ~ AllSequenceReferences(f) \subseteq f.apiReferences},
       decisionSurfaceIsDeclared |->
         {f \in files : ~ f.decisionSurface \subseteq f.identifiers},
       propertyTestSurfaceIsDeclared |->
         {f \in files : ~ f.propertyTestSurface \subseteq f.identifiers},
       decisionProductsAreDeclared |->
         {f \in files : ~ f.decisionProducts \subseteq f.identifiers},
       decisionReferencesAreDeclared |->
         {f \in files : ~ f.decisionReferences \subseteq f.identifiers},
       functionBodiesAreDeclared |->
         {f \in files : ~ f.logic.functionBodies \subseteq f.identifiers},
       constructorBodiesAreDeclared |->
         {f \in files : ~ f.logic.constructorBodies \subseteq f.identifiers},
       derivedValueBodiesAreDeclared |->
         {f \in files : ~ f.logic.derivedValueBodies \subseteq f.identifiers}]

\* A file without a module tag is reported for that alone.
FileMetadata(files) ==
  LET untyped == OfType(files, {None})
      exempt  == OfType(files, {"exempt"})
      typed   == files \ (untyped \cup exempt)
      tests   == OfType(files, {"test", "stateTest"})
  IN  [moduleDeclaresType     |-> untyped,
       moduleDeclaresDomain   |-> {f \in typed : f.domain = None},
       domainIsWellFormed     |->
         {f \in typed : f.domain \notin ValidDomains \cup {None}},
       exemptHasNoDomain      |-> {f \in exempt : f.domain # None},
       exemptDeclaresReason   |-> {f \in exempt : f.exemptReason = None},
       onlyExemptHasReason    |-> {f \in typed : f.exemptReason # None},
       testInTestScope        |-> {f \in tests : f.testScope = None},
       productionNotInTestScope |-> {f \in typed \ tests : f.testScope # None}]

\* The files that count towards the breadth of their declared domain, ones with
\* no module tag among them.
HandlerSide_slip(files) ==
  {f \in files : f.moduleType \in {"shell", "state"} /\ f.domain # None}

HandlerSide(files) ==
  {f \in files : /\ f.moduleType \notin {"interface", "value", "test", "stateTest",
                                         "exempt"}
                 /\ f.domain # None}

\* The first file of a domain that is too broad is reported.
DomainBreadth(files) ==
  LET counted == HandlerSide(files)
      crowded == {f \in counted :
                    Cardinality(SameDomain(counted, f)) > DomainLimit}
  IN  [domainIsNarrow |-> {First(SameDomain(counted, f)) : f \in crowded}]

ExemptionAdmissibility(files) ==
  LET Claiming(reason) ==
        {f \in OfType(files, {"exempt"}) : f.exemptReason = reason}
      Behaves(f) == HasFunctions(f) \/ HasConstructors(f) \/ HasControlFlow(f)
  IN  [entrypointHasNoLogic      |-> {f \in Claiming("entrypoint") : Behaves(f)},
       boundaryTouchesEffects    |->
         {f \in Claiming("effect-boundary") : ~ HasEffects(f)},
       facadeTouchesNoEffects    |-> {f \in Claiming("effect-facade") : HasEffects(f)},
       glueTouchesNoEffects      |-> {f \in Claiming("pure-glue") : HasEffects(f)},
       glueHasNoControlFlow      |->
         {f \in Claiming("pure-glue") : HasControlFlow(f)},
       staticDataTouchesNoEffects |->
         {f \in Claiming("static-data") : HasEffects(f)},
       staticDataHasNoBehavior   |-> {f \in Claiming("static-data") : Behaves(f)},
       testSupportTouchesNoEffects |->
         {f \in Claiming("test-support") : HasEffects(f)}]

EffectBoundaries(files) ==
  LET effectful == {f \in files : HasEffects(f)}
      shared    == {f \in files : HasSharedState(f)}
  IN  [coreImportsNoEffects |->
         {f \in OfType(files, {"core"}) : HasEffectfulImports(f)},
       shellTouchesEffects  |-> OfType(files, {"shell"}) \ effectful,
       stateOwnsState       |-> OfType(files, {"state"}) \ (shared \cup effectful),
       effectsInEffectfulModules |->
         effectful \ OfType(files, {"shell", "state", "interface", "test",
                                    "stateTest", "exempt"}),
       sharedStateInStateModules |->
         shared \ OfType(files, {"state", "test", "stateTest", "exempt"}),
       sequencesInStateTests |->
         {f \in files \ OfType(files, {"stateTest"}) : HasOperationSequences(f)}]

\* The implementation surface of the file's domain, from the named modules.
ImplementationSurface_slip(files, f) ==
  UNION {Qualify(g.moduleName, g.decisionSurface) :
           g \in OfType(SameDomain(files, f), {"shell", "state", "exempt"})}

ImplementationSurface(files, f) ==
  UNION {Qualify(g.moduleName, g.decisionReferences) :
           g \in {h \in OfType(SameDomain(files, f), {"shell", "state", "exempt"}) :
                    h.moduleName # None}}

DependencyDirection(files) ==
  [pureLayerNamesNoImplementation |->
     {f \in OfType(files, {"core", "value"}) :
        f.qualifiedReferences \cap ImplementationSurface(files, f) # {}}]

InterfaceModules(files) ==
  LET interfaces == OfType(files, {"interface"})
  IN  [interfaceHasNoFunctions    |-> {f \in interfaces : HasFunctions(f)},
       interfaceHasNoConstructors |-> {f \in interfaces : HasConstructors(f)},
       interfaceHasNoDerivedValues |-> {f \in interfaces : HasDerived(f)},
       interfaceHasNoControlFlow  |-> {f \in interfaces : HasControlFlow(f)},
       interfaceIsDeclarative     |-> {f \in interfaces : HasImperative(f)}]

ValueModules(files) ==
  LET values == OfType(files, {"value"})
  IN  [valueHasNoFunctions    |-> {f \in values : HasFunctions(f)},
       valueHasNoConstructors |-> {f \in values : HasConstructors(f)},
       valueHasNoControlFlow  |-> {f \in values : HasControlFlow(f)},
       valueIsDeclarative     |-> {f \in values : HasImperative(f)}]

\* What a shell may name: the decision surfaces and products of the named core
\* modules of its domain.
HandlerReferences_slip(files, f) ==
  UNION {Qualify(c.moduleName, c.decisionSurface \cup c.decisionProducts) :
           c \in OfType(files, {"core"})}

HandlerReferences(files, f) ==
  UNION {Qualify(c.moduleName, c.decisionSurface \cup c.decisionProducts) :
           c \in {g \in OfType(SameDomain(files, f), {"core"}) :
                    g.moduleName # None}}

ShellModules(files) ==
  [shellNamesACoreApi |->
     {f \in OfType(files, {"shell"}) :
        f.qualifiedReferences \cap HandlerReferences(files, f) = {}}]

TestsFor(files, f) == OfType(SameDomain(files, f), {"test", "stateTest"})

\* A core without tests, or without a property test, is reported for that alone;
\* coverage is compared on bare names, over all property tests of the domain.
CoreModules(files) ==
  LET cores == OfType(files, {"core"})
      Properties(f) == {t \in TestsFor(files, f) : HasPropertyTest(t)}
      Tested(f) == UNION {PropertyTestReferences(t) : t \in Properties(f)}
      untested  == {f \in cores : TestsFor(files, f) = {}}
      unproven  == {f \in cores \ untested : Properties(f) = {}}
      uncovered == {f \in cores \ (untested \cup unproven) :
                      ~ f.propertyTestSurface \subseteq Tested(f)}
  IN  [coreDeclaresDecisions |-> {f \in cores : f.propertyTestSurface = {}},
       coreHasTests          |-> untested,
       coreHasPropertyTest   |-> {First(TestsFor(files, f)) : f \in unproven},
       everyDecisionIsTested |-> {First(TestsFor(files, f)) : f \in uncovered}]

CoreSurface_slip(files, f) ==
  UNION {c.decisionSurface : c \in OfType(files, {"core"})}

CoreSurface(files, f) ==
  UNION {c.decisionSurface : c \in OfType(SameDomain(files, f), {"core"})}

\* A state module without a same-domain operation sequence is reported for that
\* alone.  The branch for a stateTest whose temporal sequences name nothing is
\* unreachable: a temporal sequence has operations.
StateModules(files) ==
  LET states     == OfType(files, {"state"})
      stateTests == OfType(files, {"stateTest"})
      temporal   == {t \in stateTests : HasOperationSequences(t)}
      Exercised(f) == UNION {OperationSequenceReferences(t) :
                               t \in SameDomain(temporal, f)}
      unexercised == {f \in states : SameDomain(temporal, f) = {}}
  IN  [stateHasOperationSequences |-> unexercised,
       stateCallsAnExercisedDecision |->
         {f \in states \ unexercised :
            f.apiReferences \cap Exercised(f) \cap CoreSurface(files, f) = {}},
       stateTestHasSequences |-> stateTests \ temporal,
       stateTestHasState |-> {t \in temporal : SameDomain(states, t) = {}},
       sequencesReachDecisions |->
         {t \in temporal :
            OperationSequenceReferences(t) \cap CoreSurface(files, t) = {}}]

---------------------------------------------------------------------------
\* evaluate(): the violations of one document.
Evaluate(files) ==
  Reports(FactConsistency(files))
    \cup Reports(FileMetadata(files))
    \cup Reports(ExemptionAdmissibility(files))
    \cup Reports(DomainBreadth(files))
    \cup Reports(EffectBoundaries(files))
    \cup Reports(DependencyDirection(files))
    \cup Reports(InterfaceModules(files))
    \cup Reports(ValueModules(files))
    \cup Reports(ShellModules(files))
    \cup Reports(CoreModules(files))
    \cup Reports(StateModules(files))
=============================================================================
