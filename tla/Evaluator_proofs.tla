-------------------------- MODULE Evaluator_proofs --------------------------
(***************************************************************************)
(* The policy of evaluate.py reports nothing about a valid document        *)
(* exactly when the document conforms, and the verdict on a domain depends *)
(* on the files of that domain alone, for every document, every set of     *)
(* domains and every bound on their breadth.  A run of the evaluator keeps *)
(* its ledger, whatever the adapters answer and however many there are.    *)
(***************************************************************************)
EXTENDS Evaluator, FiniteSetTheorems, WellFoundedInduction, TLAPS

---------------------------------------------------------------------------
(* The policy, rule by rule.                                               *)

C == INSTANCE Promises

\* A record of rules yields no violation when no rule reports a file.
LEMMA NoReports ==
  ASSUME NEW reported
  PROVE  Reports(reported) = {} <=> \A r \in DOMAIN reported : reported[r] = {}
<1>1. \A r \in DOMAIN reported :
        {[path |-> f.path, rule |-> r] : f \in reported[r]} = {} <=> reported[r] = {}
  OBVIOUS
<1> QED
  BY <1>1 DEF Reports

\* The consistency rules report nothing exactly when the facts cohere.
LEMMA ConsistencyMeansCoherent ==
  ASSUME NEW doc
  PROVE  Reports(FactConsistency(doc)) = {} <=> C!Coherent(doc)
<1> DEFINE
  EnclosingNames(f) == {e.enclosing : e \in f.effectfulReferences} \ {None}
  SequenceInputs(f) == {s.input : s \in SequencesOf(f)}
  AllReferences(f) == UNION {SequenceReferences(s) : s \in SequencesOf(f)}
<1>1. Reports(FactConsistency(doc)) = {} <=> \A f \in doc :
        /\ f.effectfulImports \subseteq f.imports
        /\ f.effectfulIdentifiers \subseteq f.identifiers
        /\ EnclosingNames(f) \subseteq f.identifiers
        /\ ~ \E e \in f.effectfulReferences :
               e.origin = "dependency-summary" /\ ~ e.summarised
        /\ PropertyTestReferences(f) \subseteq f.apiReferences
        /\ SequenceInputs(f) \subseteq GeneratedInputNames(f)
        /\ AllReferences(f) \subseteq f.apiReferences
        /\ f.decisionSurface \subseteq f.identifiers
        /\ f.propertyTestSurface \subseteq f.identifiers
        /\ f.decisionProducts \subseteq f.identifiers
        /\ f.decisionReferences \subseteq f.identifiers
        /\ f.logic.functionBodies \subseteq f.identifiers
        /\ f.logic.constructorBodies \subseteq f.identifiers
        /\ f.logic.derivedValueBodies \subseteq f.identifiers
  <2> DEFINE R == FactConsistency(doc)
  <2>1. DOMAIN R = {"effectfulImportsAreImports", "effectfulIdentifiersAreIdentifiers", "enclosingNamesAreIdentifiers", "dependencyEffectsNameASummary", "propertyReferencesAreReachable", "sequencesUseGeneratedInputs", "sequenceReferencesAreReachable", "decisionSurfaceIsDeclared", "propertyTestSurfaceIsDeclared", "decisionProductsAreDeclared", "decisionReferencesAreDeclared", "functionBodiesAreDeclared", "constructorBodiesAreDeclared", "derivedValueBodiesAreDeclared"}
    BY DEF FactConsistency
  <2>2. Reports(R) = {} <=>
          /\ R.effectfulImportsAreImports = {}
          /\ R.effectfulIdentifiersAreIdentifiers = {}
          /\ R.enclosingNamesAreIdentifiers = {}
          /\ R.dependencyEffectsNameASummary = {}
          /\ R.propertyReferencesAreReachable = {}
          /\ R.sequencesUseGeneratedInputs = {}
          /\ R.sequenceReferencesAreReachable = {}
          /\ R.decisionSurfaceIsDeclared = {}
          /\ R.propertyTestSurfaceIsDeclared = {}
          /\ R.decisionProductsAreDeclared = {}
          /\ R.decisionReferencesAreDeclared = {}
          /\ R.functionBodiesAreDeclared = {}
          /\ R.constructorBodiesAreDeclared = {}
          /\ R.derivedValueBodiesAreDeclared = {}
    <3> HIDE DEF R
    <3> QED
      BY <2>1, NoReports
  <2> QED
    BY <2>2 DEF FactConsistency
<1>2. ASSUME NEW f
      PROVE  EnclosingNames(f) \subseteq f.identifiers
               <=> \A e \in f.effectfulReferences :
                     e.enclosing \in f.identifiers \cup {""}
  BY DEF None
<1>3. ASSUME NEW f
      PROVE  PropertyTestReferences(f) \subseteq f.apiReferences
               <=> \A check \in f.propertyChecks :
                     (\E i \in check.generatedInputs : i.uses # {})
                       => check.references \subseteq f.apiReferences
  BY DEF PropertyTestReferences, MeaningfulChecks, HasUsedInput
<1>4. ASSUME NEW f
      PROVE  SequenceInputs(f) \subseteq GeneratedInputNames(f)
               <=> \A check \in f.propertyChecks :
                     \A q \in check.operationSequences :
                       \E other \in f.propertyChecks :
                         \E i \in other.generatedInputs : i.name = q.input
  BY DEF SequencesOf, GeneratedInputNames
<1>5. ASSUME NEW f
      PROVE  AllReferences(f) \subseteq f.apiReferences
               <=> \A check \in f.propertyChecks :
                     \A q \in check.operationSequences :
                       q.operations \cup q.assertions \subseteq f.apiReferences
  BY DEF SequencesOf, SequenceReferences
<1> HIDE DEF EnclosingNames, SequenceInputs, AllReferences
<1> QED
  BY <1>1, <1>2, <1>3, <1>4, <1>5 DEF C!Coherent

\* The metadata rules report nothing exactly when every file is declared.
LEMMA MetadataMeansDeclared ==
  ASSUME NEW doc, ValidDocument(doc)
  PROVE  Reports(FileMetadata(doc)) = {} <=> C!Declared(doc)
<1>1. Reports(FileMetadata(doc)) = {} <=> \A f \in doc :
        /\ f.moduleType # None
        /\ f.moduleType = "exempt" => f.domain = None /\ f.exemptReason # None
        /\ f.moduleType # "exempt" => f.domain \in ValidDomains /\ f.exemptReason = None
        /\ f.moduleType \in {"test", "stateTest"} => f.testScope # None
        /\ f.moduleType \notin {None, "exempt", "test", "stateTest"} => f.testScope = None
  <2> DEFINE R == FileMetadata(doc)
  <2>1. DOMAIN R = {"moduleDeclaresType", "moduleDeclaresDomain",
                    "domainIsWellFormed", "exemptHasNoDomain",
                    "exemptDeclaresReason", "onlyExemptHasReason",
                    "testInTestScope", "productionNotInTestScope"}
    BY DEF FileMetadata
  <2>2. Reports(R) = {} <=> /\ R.moduleDeclaresType = {}
                            /\ R.moduleDeclaresDomain = {}
                            /\ R.domainIsWellFormed = {}
                            /\ R.exemptHasNoDomain = {}
                            /\ R.exemptDeclaresReason = {}
                            /\ R.onlyExemptHasReason = {}
                            /\ R.testInTestScope = {}
                            /\ R.productionNotInTestScope = {}
    <3> HIDE DEF R
    <3> QED
      BY <2>1, NoReports
  <2> QED
    BY <2>2, DomainsAssumption DEF FileMetadata, OfType, None
<1>2. \A f \in doc : /\ f.moduleType \in ModuleTypes \cup {None}
                     /\ f.exemptReason \in ExemptReasons \cup {None}
  BY DEF ValidDocument, ValidFile
<1> QED
  BY <1>1, <1>2 DEF C!Declared, ModuleTypes, ExemptReasons, None

\* Effects in any list are the effects the promises speak of.
LEMMA EffectsAgree ==
  ASSUME NEW f
  PROVE  HasEffects(f) <=> C!Effectful(f)
BY DEF HasEffects, HasEffectfulImports, HasEffectfulIdentifiers, C!Effectful

\* The rules about exemptions, file by file.
LEMMA ExemptionRules ==
  ASSUME NEW doc
  PROVE  Reports(ExemptionAdmissibility(doc)) = {} <=> \A f \in doc :
           f.moduleType = "exempt" =>
             /\ f.exemptReason \in {"entrypoint", "static-data"} => ~ C!Behaving(f)
             /\ f.exemptReason = "effect-boundary" => C!Effectful(f)
             /\ f.exemptReason \in {"effect-facade", "pure-glue", "static-data",
                                    "test-support"} => ~ C!Effectful(f)
             /\ f.exemptReason = "pure-glue" => f.logic.controlFlow = {}
<1> DEFINE R == ExemptionAdmissibility(doc)
           Behaves(f) == HasFunctions(f) \/ HasConstructors(f) \/ HasControlFlow(f)
<1>1. DOMAIN R = {"entrypointHasNoLogic", "boundaryTouchesEffects",
                  "facadeTouchesNoEffects", "glueTouchesNoEffects",
                  "glueHasNoControlFlow", "staticDataTouchesNoEffects",
                  "staticDataHasNoBehavior", "testSupportTouchesNoEffects"}
  BY DEF ExemptionAdmissibility
<1>2. Reports(R) = {} <=> /\ R.entrypointHasNoLogic = {}
                          /\ R.boundaryTouchesEffects = {}
                          /\ R.facadeTouchesNoEffects = {}
                          /\ R.glueTouchesNoEffects = {}
                          /\ R.glueHasNoControlFlow = {}
                          /\ R.staticDataTouchesNoEffects = {}
                          /\ R.staticDataHasNoBehavior = {}
                          /\ R.testSupportTouchesNoEffects = {}
  <2> HIDE DEF R
  <2> QED
    BY <1>1, NoReports
<1>3. Reports(R) = {} <=> \A f \in doc : f.moduleType = "exempt" =>
        /\ f.exemptReason \in {"entrypoint", "static-data"} => ~ Behaves(f)
        /\ f.exemptReason = "effect-boundary" => HasEffects(f)
        /\ f.exemptReason \in {"effect-facade", "pure-glue", "static-data",
                               "test-support"} => ~ HasEffects(f)
        /\ f.exemptReason = "pure-glue" => ~ HasControlFlow(f)
  BY <1>2 DEF ExemptionAdmissibility, OfType
<1>4. \A f : Behaves(f) <=> C!Behaving(f)
  BY DEF HasFunctions, HasConstructors, HasControlFlow, C!Behaving
<1> QED
  BY <1>3, <1>4, EffectsAgree DEF HasControlFlow

\* The rules about effects and shared state, file by file.
LEMMA EffectRules ==
  ASSUME NEW doc
  PROVE  Reports(EffectBoundaries(doc)) = {} <=> \A f \in doc :
           /\ f.moduleType = "core" => ~ HasEffectfulImports(f)
           /\ f.moduleType = "shell" => C!Effectful(f)
           /\ f.moduleType = "state" => C!Effectful(f) \/ f.sharedState # {}
           /\ C!Effectful(f) => f.moduleType \in {"shell", "state", "interface",
                                                  "test", "stateTest", "exempt"}
           /\ f.sharedState # {} => f.moduleType \in {"state", "test", "stateTest",
                                                      "exempt"}
           /\ HasOperationSequences(f) => f.moduleType = "stateTest"
<1> DEFINE R == EffectBoundaries(doc)
<1>1. DOMAIN R = {"coreImportsNoEffects", "shellTouchesEffects", "stateOwnsState",
                  "effectsInEffectfulModules", "sharedStateInStateModules",
                  "sequencesInStateTests"}
  BY DEF EffectBoundaries
<1>2. Reports(R) = {} <=> /\ R.coreImportsNoEffects = {}
                          /\ R.shellTouchesEffects = {}
                          /\ R.stateOwnsState = {}
                          /\ R.effectsInEffectfulModules = {}
                          /\ R.sharedStateInStateModules = {}
                          /\ R.sequencesInStateTests = {}
  <2> HIDE DEF R
  <2> QED
    BY <1>1, NoReports
<1> QED
  BY <1>2, EffectsAgree DEF EffectBoundaries, OfType, HasSharedState

\* The rules about interface and value modules, file by file.
LEMMA VocabularyRules ==
  ASSUME NEW doc
  PROVE  Reports(InterfaceModules(doc)) = {} /\ Reports(ValueModules(doc)) = {}
           <=> \A f \in doc :
                 /\ f.moduleType = "value" =>
                      ~ C!Behaving(f) /\ f.logic.imperativeDeclarations = {}
                 /\ f.moduleType = "interface" =>
                      /\ ~ C!Behaving(f)
                      /\ f.logic.derivedValueBodies
                           \cup f.logic.imperativeDeclarations = {}
<1>1. Reports(InterfaceModules(doc)) = {} <=> \A f \in doc :
        f.moduleType = "interface" =>
          /\ ~ HasFunctions(f) /\ ~ HasConstructors(f) /\ ~ HasDerived(f)
          /\ ~ HasControlFlow(f) /\ ~ HasImperative(f)
  <2> DEFINE R == InterfaceModules(doc)
  <2>1. DOMAIN R = {"interfaceHasNoFunctions",
                    "interfaceHasNoConstructors",
                    "interfaceHasNoDerivedValues",
                    "interfaceHasNoControlFlow",
                    "interfaceIsDeclarative"}
    BY DEF InterfaceModules
  <2>2. Reports(R) = {} <=> /\ R.interfaceHasNoFunctions = {}
                            /\ R.interfaceHasNoConstructors = {}
                            /\ R.interfaceHasNoDerivedValues = {}
                            /\ R.interfaceHasNoControlFlow = {}
                            /\ R.interfaceIsDeclarative = {}
    <3> HIDE DEF R
    <3> QED
      BY <2>1, NoReports
  <2> QED
    BY <2>2 DEF InterfaceModules, OfType
<1>2. Reports(ValueModules(doc)) = {} <=> \A f \in doc :
        f.moduleType = "value" =>
          /\ ~ HasFunctions(f) /\ ~ HasConstructors(f)
          /\ ~ HasControlFlow(f) /\ ~ HasImperative(f)
  <2> DEFINE R == ValueModules(doc)
  <2>1. DOMAIN R = {"valueHasNoFunctions",
                    "valueHasNoConstructors",
                    "valueHasNoControlFlow",
                    "valueIsDeclarative"}
    BY DEF ValueModules
  <2>2. Reports(R) = {} <=> /\ R.valueHasNoFunctions = {}
                            /\ R.valueHasNoConstructors = {}
                            /\ R.valueHasNoControlFlow = {}
                            /\ R.valueIsDeclarative = {}
    <3> HIDE DEF R
    <3> QED
      BY <2>1, NoReports
  <2> QED
    BY <2>2 DEF ValueModules, OfType
<1> QED
  BY <1>1, <1>2 DEF HasFunctions, HasConstructors, HasDerived, HasControlFlow,
                    HasImperative, C!Behaving

\* The qualified name of a symbol of a file.
QualifiedName(g, s) == <<g.moduleName, s>>

\* A named file of one of the types, in the domain of f.
NamedPeer(g, f, types) ==
  g.domain = f.domain /\ g.moduleType \in types /\ g.moduleName # ""

\* What the sets of qualified names that rules compare with hold.
LEMMA ImplementationNames ==
  ASSUME NEW doc, NEW f, NEW q
  PROVE  q \in ImplementationSurface(doc, f) <=>
           \E g \in doc :
             /\ NamedPeer(g, f, {"shell", "state", "exempt"})
             /\ \E s \in g.decisionReferences : q = QualifiedName(g, s)
<1> DEFINE G == {g \in OfType(SameDomain(doc, f), {"shell", "state", "exempt"}) :
                   g.moduleName # None}
<1>1. \A g : g \in G <=> g \in doc /\ NamedPeer(g, f, {"shell", "state", "exempt"})
  BY DEF OfType, SameDomain, None, NamedPeer
<1>2. ImplementationSurface(doc, f) =
        UNION {Qualify(g.moduleName, g.decisionReferences) : g \in G}
  BY DEF ImplementationSurface
<1>3. \A g : q \in Qualify(g.moduleName, g.decisionReferences) <=>
               \E s \in g.decisionReferences : q = QualifiedName(g, s)
  BY DEF Qualify, QualifiedName
<1> HIDE DEF G
<1>4. q \in ImplementationSurface(doc, f) <=>
        \E g \in G : q \in Qualify(g.moduleName, g.decisionReferences)
  BY <1>2
<1> QED
  BY <1>1, <1>3, <1>4

LEMMA HandlerNames ==
  ASSUME NEW doc, NEW f, NEW q
  PROVE  q \in HandlerReferences(doc, f) <=>
           \E c \in doc :
             /\ NamedPeer(c, f, {"core"})
             /\ \E s \in c.decisionSurface \cup c.decisionProducts :
                  q = QualifiedName(c, s)
<1> DEFINE G == {c \in OfType(SameDomain(doc, f), {"core"}) : c.moduleName # None}
           Names(c) == c.decisionSurface \cup c.decisionProducts
<1>1. \A c : c \in G <=> c \in doc /\ NamedPeer(c, f, {"core"})
  BY DEF OfType, SameDomain, None, NamedPeer
<1>2. HandlerReferences(doc, f) = UNION {Qualify(c.moduleName, Names(c)) : c \in G}
  BY DEF HandlerReferences
<1>3. \A c : q \in Qualify(c.moduleName, Names(c)) <=>
               \E s \in Names(c) : q = QualifiedName(c, s)
  BY DEF Qualify, QualifiedName
<1> HIDE DEF G
<1>4. q \in HandlerReferences(doc, f) <=>
        \E c \in G : q \in Qualify(c.moduleName, Names(c))
  <2> HIDE DEF Names
  <2> QED
    BY <1>2
<1> QED
  BY <1>1, <1>3, <1>4

\* The direction rule: the pure layer names no symbol of the shell, state and
\* exempt modules that share its domain.
LEMMA DirectionRules ==
  ASSUME NEW doc
  PROVE  Reports(DependencyDirection(doc)) = {} <=> \A f \in doc :
           f.moduleType \in {"core", "value"} =>
             \A g \in doc : NamedPeer(g, f, {"shell", "state", "exempt"}) =>
               \A s \in g.decisionReferences :
                 QualifiedName(g, s) \notin f.qualifiedReferences
<1> DEFINE R == DependencyDirection(doc)
<1>1. DOMAIN R = {"pureLayerNamesNoImplementation"}
  BY DEF DependencyDirection
<1>2. Reports(R) = {} <=> R.pureLayerNamesNoImplementation = {}
  <2> HIDE DEF R
  <2> QED
    BY <1>1, NoReports
<1>3. Reports(R) = {} <=> \A f \in doc : f.moduleType \in {"core", "value"} =>
        f.qualifiedReferences \cap ImplementationSurface(doc, f) = {}
  BY <1>2 DEF DependencyDirection, OfType
<1> HIDE DEF R
<1>4. ASSUME NEW f
      PROVE  f.qualifiedReferences \cap ImplementationSurface(doc, f) = {} <=>
               \A g \in doc : NamedPeer(g, f, {"shell", "state", "exempt"}) =>
                 \A s \in g.decisionReferences :
                   QualifiedName(g, s) \notin f.qualifiedReferences
  BY ImplementationNames
<1> QED
  BY <1>3, <1>4 DEF R

\* The shell rule: every shell names a decision or a product of a named core of
\* its domain.
LEMMA ShellRules ==
  ASSUME NEW doc
  PROVE  Reports(ShellModules(doc)) = {} <=> \A h \in doc :
           h.moduleType = "shell" =>
             \E c \in doc :
               /\ NamedPeer(c, h, {"core"})
               /\ \E s \in c.decisionSurface \cup c.decisionProducts :
                    QualifiedName(c, s) \in h.qualifiedReferences
<1> DEFINE R == ShellModules(doc)
<1>1. DOMAIN R = {"shellNamesACoreApi"}
  BY DEF ShellModules
<1>2. Reports(R) = {} <=> R.shellNamesACoreApi = {}
  <2> HIDE DEF R
  <2> QED
    BY <1>1, NoReports
<1>3. Reports(R) = {} <=> \A h \in doc : h.moduleType = "shell" =>
        h.qualifiedReferences \cap HandlerReferences(doc, h) # {}
  BY <1>2 DEF ShellModules, OfType
<1> HIDE DEF R
<1>4. ASSUME NEW h
      PROVE  h.qualifiedReferences \cap HandlerReferences(doc, h) # {} <=>
               \E c \in doc :
                 /\ NamedPeer(c, h, {"core"})
                 /\ \E s \in c.decisionSurface \cup c.decisionProducts :
                      QualifiedName(c, s) \in h.qualifiedReferences
  BY HandlerNames
<1> QED
  BY <1>3, <1>4 DEF R

\* The core rules: the early exits for a core without tests, or without property
\* tests, pass no core that has an untested decision and report no other.
LEMMA CoreRules ==
  ASSUME NEW doc
  PROVE  Reports(CoreModules(doc)) = {} <=> \A c \in doc :
           c.moduleType = "core" =>
             /\ c.propertyTestSurface # {}
             /\ \A s \in c.propertyTestSurface :
                  \E t \in TestsFor(doc, c) : s \in PropertyTestReferences(t)
<1> DEFINE R == CoreModules(doc)
           Properties(f) == {t \in TestsFor(doc, f) : HasPropertyTest(t)}
           Tested(f) == UNION {PropertyTestReferences(t) : t \in Properties(f)}
           cores     == OfType(doc, {"core"})
           untested  == {f \in cores : TestsFor(doc, f) = {}}
           unproven  == {f \in cores \ untested : Properties(f) = {}}
           uncovered == {f \in cores \ (untested \cup unproven) :
                           ~ f.propertyTestSurface \subseteq Tested(f)}
           undecided == {f \in cores : f.propertyTestSurface = {}}
<1>1. DOMAIN R = {"coreDeclaresDecisions", "coreHasTests", "coreHasPropertyTest",
                  "everyDecisionIsTested"}
  BY DEF CoreModules
<1>2. Reports(R) = {} <=> /\ R.coreDeclaresDecisions = {}
                          /\ R.coreHasTests = {}
                          /\ R.coreHasPropertyTest = {}
                          /\ R.everyDecisionIsTested = {}
  <2> HIDE DEF R
  <2> QED
    BY <1>1, NoReports
<1>3. /\ R.coreDeclaresDecisions = undecided
      /\ R.coreHasTests = untested
      /\ R.coreHasPropertyTest = {First(TestsFor(doc, f)) : f \in unproven}
      /\ R.everyDecisionIsTested = {First(TestsFor(doc, f)) : f \in uncovered}
  BY DEF CoreModules
<1>4. /\ R.coreHasPropertyTest = {} <=> unproven = {}
      /\ R.everyDecisionIsTested = {} <=> uncovered = {}
  <2> HIDE DEF R, unproven, uncovered
  <2> QED
    BY <1>3
<1>5. ASSUME NEW c, NEW s
      PROVE  s \in Tested(c) <=>
               \E t \in TestsFor(doc, c) : s \in PropertyTestReferences(t)
  BY DEF HasPropertyTest, PropertyTestReferences, MeaningfulChecks
<1>6. \A c : Tested(c) # {} => Properties(c) # {} /\ TestsFor(doc, c) # {}
  OBVIOUS
<1>7. Reports(R) = {} <=> /\ undecided = {} /\ untested = {}
                          /\ unproven = {} /\ uncovered = {}
  <2> HIDE DEF R, undecided, untested, unproven, uncovered
  <2> QED
    BY <1>2, <1>3, <1>4
<1>8. \A c : c \in cores <=> c \in doc /\ c.moduleType = "core"
  BY DEF OfType
<1>9. Reports(R) = {} <=> \A c \in cores : /\ c.propertyTestSurface # {}
                                           /\ c.propertyTestSurface \subseteq Tested(c)
  <2> HIDE DEF R, Properties, Tested, cores
  <2> QED
    BY <1>6, <1>7
<1> HIDE DEF Properties, Tested, cores
<1> QED
  BY <1>5, <1>8, <1>9

\* The temporal evidence of a file is what the promises call a trace.
LEMMA TracesAgree ==
  ASSUME NEW t
  PROVE  /\ \A s : s \in OperationSequenceReferences(t) <=> C!Traces(t, s)
         /\ HasOperationSequences(t) <=>
              \E check \in t.propertyChecks : \E q \in check.operationSequences :
                q.operations # {} /\ q.assertions # {}
         /\ \A s : C!Traces(t, s) => HasOperationSequences(t)
BY DEF OperationSequenceReferences, HasOperationSequences, TemporalSequences,
       SequencesOf, SequenceReferences, IsTemporal, C!Traces

LEMMA CoreSurfaceNames ==
  ASSUME NEW doc, NEW f, NEW s
  PROVE  s \in CoreSurface(doc, f) <=>
           \E c \in doc : /\ c.domain = f.domain
                          /\ c.moduleType = "core"
                          /\ s \in c.decisionSurface
BY DEF CoreSurface, OfType, SameDomain

\* A stateTest of the domain reaches, in a trace, decision s of a core of the
\* domain.
Reaches(doc, f, t, s) ==
  /\ t.domain = f.domain
  /\ t.moduleType = "stateTest"
  /\ C!Traces(t, s)
  /\ \E c \in doc : /\ c.domain = f.domain
                    /\ c.moduleType = "core"
                    /\ s \in c.decisionSurface

\* The state rules: the early exit for a state module without a trace passes no
\* module that misses its evidence and reports none that has it.
LEMMA StateRules ==
  ASSUME NEW doc
  PROVE  Reports(StateModules(doc)) = {} <=>
           /\ \A m \in doc : m.moduleType = "state" =>
                \E t \in doc : \E s \in m.apiReferences : Reaches(doc, m, t, s)
           /\ \A t \in doc : t.moduleType = "stateTest" =>
                /\ \E m \in doc : m.moduleType = "state" /\ m.domain = t.domain
                /\ \E s : Reaches(doc, t, t, s)
<1> DEFINE R == StateModules(doc)
           states     == OfType(doc, {"state"})
           stateTests == OfType(doc, {"stateTest"})
           temporal   == {t \in stateTests : HasOperationSequences(t)}
           Exercised(f) == UNION {OperationSequenceReferences(t) :
                                    t \in SameDomain(temporal, f)}
           unexercised == {f \in states : SameDomain(temporal, f) = {}}
           uncalled == {f \in states \ unexercised :
                          f.apiReferences \cap Exercised(f) \cap CoreSurface(doc, f)
                            = {}}
           stateless == {t \in temporal : SameDomain(states, t) = {}}
           unreaching == {t \in temporal :
                            OperationSequenceReferences(t) \cap CoreSurface(doc, t)
                              = {}}
<1>1. DOMAIN R = {"stateHasOperationSequences", "stateCallsAnExercisedDecision",
                  "stateTestHasSequences", "stateTestHasState",
                  "sequencesReachDecisions"}
  BY DEF StateModules
<1>2. Reports(R) = {} <=> /\ R.stateHasOperationSequences = {}
                          /\ R.stateCallsAnExercisedDecision = {}
                          /\ R.stateTestHasSequences = {}
                          /\ R.stateTestHasState = {}
                          /\ R.sequencesReachDecisions = {}
  <2> HIDE DEF R
  <2> QED
    BY <1>1, NoReports
<1>3. /\ R.stateHasOperationSequences = unexercised
      /\ R.stateCallsAnExercisedDecision = uncalled
      /\ R.stateTestHasSequences = stateTests \ temporal
      /\ R.stateTestHasState = stateless
      /\ R.sequencesReachDecisions = unreaching
  BY DEF StateModules
<1>4. Reports(R) = {} <=> /\ unexercised = {} /\ uncalled = {}
                          /\ stateTests \ temporal = {}
                          /\ stateless = {} /\ unreaching = {}
  <2> HIDE DEF R, unexercised, uncalled, stateTests, temporal, stateless, unreaching
  <2> QED
    BY <1>2, <1>3
<1>5. /\ \A f : f \in states <=> f \in doc /\ f.moduleType = "state"
      /\ \A f : f \in stateTests <=> f \in doc /\ f.moduleType = "stateTest"
      /\ \A f : f \in temporal <=> f \in stateTests /\ HasOperationSequences(f)
      /\ \A f, t : t \in SameDomain(temporal, f) <=>
                     t \in temporal /\ t.domain = f.domain
      /\ \A f, t : t \in SameDomain(states, f) <=>
                     t \in states /\ t.domain = f.domain
  BY DEF OfType, SameDomain
<1>6. ASSUME NEW f, NEW s
      PROVE  /\ s \in Exercised(f) <=>
                  \E t \in SameDomain(temporal, f) :
                    s \in OperationSequenceReferences(t)
             /\ Exercised(f) # {} => SameDomain(temporal, f) # {}
  OBVIOUS
<1>7. unexercised = {} /\ uncalled = {} <=>
        \A f \in states :
          f.apiReferences \cap Exercised(f) \cap CoreSurface(doc, f) # {}
  <2> HIDE DEF states, temporal, Exercised
  <2> QED
    BY <1>6
<1>8. ASSUME NEW f
      PROVE  f.apiReferences \cap Exercised(f) \cap CoreSurface(doc, f) # {} <=>
               \E t \in doc : \E s \in f.apiReferences : Reaches(doc, f, t, s)
  <2>1. \A s : s \in Exercised(f) <=>
          \E t \in doc : /\ t.moduleType = "stateTest"
                         /\ t.domain = f.domain
                         /\ C!Traces(t, s)
    <3> HIDE DEF states, stateTests, temporal, Exercised
    <3> QED
      BY <1>5, <1>6, TracesAgree
  <2> HIDE DEF Exercised
  <2> QED
    BY <2>1, CoreSurfaceNames DEF Reaches
<1>9. stateless = {} /\ unreaching = {} <=>
        \A t \in temporal :
          /\ \E m \in states : m.domain = t.domain
          /\ OperationSequenceReferences(t) \cap CoreSurface(doc, t) # {}
  <2> HIDE DEF states, temporal
  <2> QED
    BY DEF SameDomain
<1>10. ASSUME NEW t
       PROVE  t \in stateTests =>
                (OperationSequenceReferences(t) \cap CoreSurface(doc, t) # {} <=>
                   \E s : Reaches(doc, t, t, s))
  <2> HIDE DEF states, temporal, stateTests
  <2> QED
    BY <1>5, TracesAgree, CoreSurfaceNames DEF Reaches
<1>11. \A t, s : Reaches(doc, t, t, s) => HasOperationSequences(t)
  <2>1. \A t, s : C!Traces(t, s) => HasOperationSequences(t)
    BY TracesAgree
  <2> QED
    BY <2>1 DEF Reaches
<1> HIDE DEF R, states, stateTests, temporal, Exercised, unexercised, uncalled,
             stateless, unreaching
<1>12. Reports(R) = {} <=>
         /\ \A f \in states :
              f.apiReferences \cap Exercised(f) \cap CoreSurface(doc, f) # {}
         /\ \A t \in stateTests :
              /\ t \in temporal
              /\ \E m \in states : m.domain = t.domain
              /\ OperationSequenceReferences(t) \cap CoreSurface(doc, t) # {}
  BY <1>4, <1>5, <1>7, <1>9
<1>13. Reports(R) = {} <=>
         /\ \A f \in states : \E t \in doc : \E s \in f.apiReferences :
              Reaches(doc, f, t, s)
         /\ \A t \in stateTests : /\ \E m \in states : m.domain = t.domain
                                  /\ \E s : Reaches(doc, t, t, s)
  BY <1>5, <1>8, <1>10, <1>11, <1>12
<1> QED
  BY <1>5, <1>13 DEF R

\* The breadth rule: counting the files with a declared domain and any type that
\* is not excluded is counting the cores, shells and states of each domain, once
\* every file is declared.
LEMMA BreadthRules ==
  ASSUME NEW doc, IsFiniteSet(doc), C!Declared(doc)
  PROVE  Reports(DomainBreadth(doc)) = {} <=> C!DomainsNarrow(doc)
<1> DEFINE R == DomainBreadth(doc)
           counted == HandlerSide(doc)
           crowded == {f \in counted :
                         Cardinality(SameDomain(counted, f)) > DomainLimit}
           In(d) == {f \in doc : /\ f.domain = d
                                 /\ f.moduleType \in {"core", "shell", "state"}}
<1>1. DOMAIN R = {"domainIsNarrow"}
  BY DEF DomainBreadth
<1>2. Reports(R) = {} <=> R.domainIsNarrow = {}
  <2> HIDE DEF R
  <2> QED
    BY <1>1, NoReports
<1>3. R.domainIsNarrow = {First(SameDomain(counted, f)) : f \in crowded}
  BY DEF DomainBreadth
<1>4. Reports(R) = {} <=> crowded = {}
  <2> HIDE DEF R, crowded, counted
  <2> QED
    BY <1>2, <1>3
<1>5. \A f : f \in counted <=>
               /\ f \in doc
               /\ f.moduleType \in {"core", "shell", "state"}
               /\ f.domain \in ValidDomains
  BY DomainsAssumption DEF HandlerSide, C!Declared, None
<1>6. \A f \in counted : SameDomain(counted, f) = In(f.domain)
  <2> HIDE DEF counted
  <2> QED
    BY <1>5 DEF SameDomain
<1>7. \A d : Cardinality(In(d)) \in Nat
  <2> TAKE d
  <2>1. IsFiniteSet(In(d))
    BY FS_Subset
  <2> QED
    BY <2>1, FS_CardinalityType
<1>8. \A d \in ValidDomains : In(d) # {} => \E f \in counted : f.domain = d
  <2> HIDE DEF counted
  <2> QED
    BY <1>5
<1>9. Cardinality({}) = 0
  BY FS_EmptySet
<1>10. crowded = {} <=> \A d \in ValidDomains : Cardinality(In(d)) <= DomainLimit
  <2>1. crowded = {} <=> \A f \in counted : Cardinality(In(f.domain)) <= DomainLimit
    <3> HIDE DEF counted, In
    <3> QED
      BY <1>6, <1>7, LimitAssumption
  <2>2. \A d : In(d) = {} => Cardinality(In(d)) <= DomainLimit
    <3> HIDE DEF In
    <3> QED
      BY <1>9, LimitAssumption
  <2> HIDE DEF crowded, counted, In
  <2> QED
    BY <1>5, <1>8, <2>1, <2>2
<1>11. C!DomainsNarrow(doc) <=>
         \A d \in ValidDomains : Cardinality(In(d)) <= DomainLimit
  <2>1. \A S : C!Cardinality(S) = Cardinality(S)
    BY DEF C!Cardinality, Cardinality
  <2> QED
    BY <2>1 DEF C!DomainsNarrow
<1> HIDE DEF R, crowded, In
<1> QED
  BY <1>4, <1>10, <1>11 DEF R

\* Property evidence and test files are what the promises call them.
LEMMA ExercisesAgree ==
  ASSUME NEW t, NEW s
  PROVE  s \in PropertyTestReferences(t) <=> C!Exercises(t, s)
BY DEF PropertyTestReferences, MeaningfulChecks, HasUsedInput, C!Exercises

LEMMA TestsAgree ==
  ASSUME NEW doc, NEW f
  PROVE  TestsFor(doc, f) = C!Tests(doc, f)
BY DEF TestsFor, OfType, SameDomain, C!Tests, C!Peers, C!Typed

\* The core rules are the promise about tested decisions: the other rules supply
\* that the test really calls the decision and stands in a test scope.
LEMMA CoreRulesMeanDecisionsTested ==
  ASSUME NEW doc, C!Declared(doc), C!Coherent(doc)
  PROVE  Reports(CoreModules(doc)) = {} <=> C!DecisionsTested(doc)
<1>1. ASSUME NEW c, NEW t \in C!Tests(doc, c), NEW s, C!Exercises(t, s)
      PROVE  s \in t.apiReferences /\ t.testScope # ""
  <2>1. t \in doc /\ t.moduleType \in {"test", "stateTest"}
    BY DEF C!Tests, C!Peers, C!Typed
  <2>2. s \in t.apiReferences
    BY <1>1, <2>1 DEF C!Coherent, C!Exercises
  <2>3. t.testScope # ""
    BY <2>1 DEF C!Declared
  <2> QED
    BY <2>2, <2>3
<1>2. Reports(CoreModules(doc)) = {} <=> \A c \in doc : c.moduleType = "core" =>
        /\ c.propertyTestSurface # {}
        /\ \A s \in c.propertyTestSurface :
             \E t \in C!Tests(doc, c) : C!Exercises(t, s)
  BY CoreRules, TestsAgree, ExercisesAgree
<1> QED
  BY <1>1, <1>2 DEF C!DecisionsTested, C!Typed

\* The shell rules are the promise about handlers, once decisions are tested.
LEMMA ShellRulesMeanHandlersDecide ==
  ASSUME NEW doc, C!Coherent(doc), C!DecisionsTested(doc)
  PROVE  /\ Reports(ShellModules(doc)) = {}
         /\ \A f \in doc : f.moduleType = "shell" => C!Effectful(f)
         <=> C!HandlersDecide(doc)
<1>1. ASSUME NEW h \in doc, NEW c \in doc, NamedPeer(c, h, {"core"})
      PROVE  \E t \in C!Tests(doc, h) : \E s \in c.propertyTestSurface :
               C!Exercises(t, s)
  <2>1. c \in C!Typed(doc, "core") /\ C!Tests(doc, c) = C!Tests(doc, h)
    BY <1>1 DEF NamedPeer, C!Tests, C!Peers, C!Typed
  <2> QED
    BY <2>1 DEF C!DecisionsTested
<1>2. ASSUME NEW c \in doc
      PROVE  (c.decisionSurface \cup c.decisionProducts) \cap c.identifiers
               = c.decisionSurface \cup c.decisionProducts
  BY DEF C!Coherent
<1>3. \A h, c : c \in C!Peers(doc, h, "core") /\ c.moduleName # "" <=>
                  c \in doc /\ NamedPeer(c, h, {"core"})
  BY DEF NamedPeer, C!Peers, C!Typed
<1>4. C!HandlersDecide(doc) <=> \A h \in doc : h.moduleType = "shell" =>
        /\ C!Effectful(h)
        /\ \E c \in doc :
             /\ NamedPeer(c, h, {"core"})
             /\ \E s \in (c.decisionSurface \cup c.decisionProducts)
                           \cap c.identifiers :
                  QualifiedName(c, s) \in h.qualifiedReferences
             /\ \E t \in C!Tests(doc, h) : \E s \in c.propertyTestSurface :
                  C!Exercises(t, s)
  BY <1>3 DEF C!HandlersDecide, C!Typed, QualifiedName
<1>5. C!HandlersDecide(doc) <=> \A h \in doc : h.moduleType = "shell" =>
        /\ C!Effectful(h)
        /\ \E c \in doc :
             /\ NamedPeer(c, h, {"core"})
             /\ \E s \in c.decisionSurface \cup c.decisionProducts :
                  QualifiedName(c, s) \in h.qualifiedReferences
  BY <1>1, <1>2, <1>4
<1> QED
  BY <1>5, ShellRules

\* The state rules are the promises about state modules and traces.
LEMMA StateRulesMeanStateCovered ==
  ASSUME NEW doc, C!Coherent(doc)
  PROVE  /\ Reports(StateModules(doc)) = {}
         /\ \A f \in doc :
              /\ f.moduleType = "state" => C!Effectful(f) \/ f.sharedState # {}
              /\ HasOperationSequences(f) => f.moduleType = "stateTest"
         <=> C!StateCovered(doc) /\ C!TracesBelong(doc)
<1>1. ASSUME NEW t \in doc, NEW s, C!Traces(t, s)
      PROVE  s \in t.apiReferences
  BY <1>1 DEF C!Traces, C!Coherent
<1>2. ASSUME NEW m \in doc
      PROVE  (\E t \in doc : \E s \in m.apiReferences : Reaches(doc, m, t, s)) <=>
               \E c \in C!Peers(doc, m, "core"), t \in C!Peers(doc, m, "stateTest") :
                 \E s \in c.decisionSurface \cap m.apiReferences \cap t.apiReferences :
                   C!Traces(t, s)
  BY <1>1 DEF Reaches, C!Peers, C!Typed
<1>3. ASSUME NEW t \in doc, t.moduleType = "stateTest"
      PROVE  (\E s : Reaches(doc, t, t, s)) <=>
               \E c \in C!Peers(doc, t, "core") :
                 \E s \in c.decisionSurface \cap t.apiReferences : C!Traces(t, s)
  BY <1>1, <1>3 DEF Reaches, C!Peers, C!Typed
<1>4. C!StateCovered(doc) <=> \A m \in doc : m.moduleType = "state" =>
        /\ C!Effectful(m) \/ m.sharedState # {}
        /\ \E t \in doc : \E s \in m.apiReferences : Reaches(doc, m, t, s)
  BY <1>2 DEF C!StateCovered, C!Typed
<1>5. C!TracesBelong(doc) <=>
        /\ \A t \in doc : HasOperationSequences(t) => t.moduleType = "stateTest"
        /\ \A t \in doc : t.moduleType = "stateTest" =>
             /\ \E m \in doc : m.moduleType = "state" /\ m.domain = t.domain
             /\ \E s : Reaches(doc, t, t, s)
  <2>1. \A t : C!Peers(doc, t, "state") # {} <=>
                 \E m \in doc : m.moduleType = "state" /\ m.domain = t.domain
    BY DEF C!Peers, C!Typed
  <2> QED
    BY <1>3, <2>1, TracesAgree DEF C!TracesBelong, C!Typed
<1> QED
  BY <1>4, <1>5, StateRules

\* The direction rule is the promise about layers: an exempt file, which the rule
\* would also protect, has no domain to share.
LEMMA DirectionRuleMeansLayersRespected ==
  ASSUME NEW doc, C!Declared(doc)
  PROVE  Reports(DependencyDirection(doc)) = {} <=> C!LayersRespected(doc)
<1>1. ASSUME NEW f \in doc, f.moduleType \in {"core", "value"}, NEW g \in doc
      PROVE  NamedPeer(g, f, {"shell", "state", "exempt"}) <=>
               /\ g \in C!Peers(doc, f, "shell") \cup C!Peers(doc, f, "state")
               /\ g.moduleName # ""
  <2>1. f.domain \in ValidDomains
    BY <1>1 DEF C!Declared
  <2>2. g.moduleType = "exempt" => g.domain = ""
    BY DEF C!Declared
  <2>3. f.domain # ""
    BY <2>1, DomainsAssumption DEF None
  <2> QED
    BY <2>2, <2>3 DEF NamedPeer, C!Peers, C!Typed
<1>2. \A f : C!Peers(doc, f, "shell") \cup C!Peers(doc, f, "state") \subseteq doc
  BY DEF C!Peers, C!Typed
<1>3. C!LayersRespected(doc) <=> \A f \in doc : f.moduleType \in {"core", "value"} =>
        \A g \in C!Peers(doc, f, "shell") \cup C!Peers(doc, f, "state") :
          g.moduleName # "" =>
            \A s \in g.decisionReferences :
              QualifiedName(g, s) \notin f.qualifiedReferences
  BY DEF C!LayersRespected, C!Typed, QualifiedName
<1> QED
  BY <1>1, <1>2, <1>3, DirectionRules

\* The rules about effects, exemptions, interfaces and values, read file by file,
\* are the promises about effects and inert files.
LEMMA EffectRulesMeanEffectsConfined ==
  ASSUME NEW doc, C!Declared(doc)
  PROVE  /\ Reports(EffectBoundaries(doc)) = {}
         /\ Reports(ExemptionAdmissibility(doc)) = {}
         /\ Reports(InterfaceModules(doc)) = {}
         /\ Reports(ValueModules(doc)) = {}
         <=> /\ C!EffectsConfined(doc)
             /\ C!Inert(doc)
             /\ \A f \in doc :
                  /\ f.moduleType = "shell" => C!Effectful(f)
                  /\ f.moduleType = "state" => C!Effectful(f) \/ f.sharedState # {}
                  /\ HasOperationSequences(f) => f.moduleType = "stateTest"
<1>1. \A f : HasEffectfulImports(f) => C!Effectful(f)
  BY DEF HasEffectfulImports, C!Effectful
<1>2. \A f \in doc : f.moduleType = "exempt" =>
        f.exemptReason \in {"effect-boundary", "effect-facade", "entrypoint",
                            "pure-glue", "static-data", "test-support"}
  BY DEF C!Declared
<1>3. Reports(EffectBoundaries(doc)) = {} /\ Reports(ExemptionAdmissibility(doc)) = {}
        <=> /\ C!EffectsConfined(doc)
            /\ \A f \in doc :
                 /\ f.moduleType = "shell" => C!Effectful(f)
                 /\ f.moduleType = "state" => C!Effectful(f) \/ f.sharedState # {}
                 /\ HasOperationSequences(f) => f.moduleType = "stateTest"
                 /\ f.moduleType = "exempt" =>
                      /\ f.exemptReason \in {"entrypoint", "static-data"}
                           => ~ C!Behaving(f)
                      /\ f.exemptReason = "effect-boundary" => C!Effectful(f)
                      /\ f.exemptReason = "pure-glue" => f.logic.controlFlow = {}
  BY <1>1, <1>2, EffectRules, ExemptionRules DEF C!EffectsConfined
<1> QED
  BY <1>3, VocabularyRules DEF C!Inert

\* The policy decides conformance: evaluate() reports nothing about a valid
\* document exactly when every promise holds of it.
THEOREM PolicyDecidesConformance ==
  ASSUME NEW doc, ValidDocument(doc), IsFiniteSet(doc)
  PROVE  Evaluate(doc) = {} <=> C!Conformant(doc)
<1>1. Evaluate(doc) = {} <=>
        /\ Reports(FactConsistency(doc)) = {}
        /\ Reports(FileMetadata(doc)) = {}
        /\ Reports(ExemptionAdmissibility(doc)) = {}
        /\ Reports(DomainBreadth(doc)) = {}
        /\ Reports(EffectBoundaries(doc)) = {}
        /\ Reports(DependencyDirection(doc)) = {}
        /\ Reports(InterfaceModules(doc)) = {}
        /\ Reports(ValueModules(doc)) = {}
        /\ Reports(ShellModules(doc)) = {}
        /\ Reports(CoreModules(doc)) = {}
        /\ Reports(StateModules(doc)) = {}
  BY DEF Evaluate
<1>2. /\ Reports(FactConsistency(doc)) = {} <=> C!Coherent(doc)
      /\ Reports(FileMetadata(doc)) = {} <=> C!Declared(doc)
  BY ConsistencyMeansCoherent, MetadataMeansDeclared
<1>3. CASE C!Coherent(doc) /\ C!Declared(doc)
  <2>1. /\ Reports(CoreModules(doc)) = {} <=> C!DecisionsTested(doc)
        /\ Reports(DependencyDirection(doc)) = {} <=> C!LayersRespected(doc)
        /\ Reports(DomainBreadth(doc)) = {} <=> C!DomainsNarrow(doc)
    BY <1>3, CoreRulesMeanDecisionsTested, DirectionRuleMeansLayersRespected,
       BreadthRules
  <2>2. C!DecisionsTested(doc) =>
          (/\ Reports(ShellModules(doc)) = {}
           /\ \A f \in doc : f.moduleType = "shell" => C!Effectful(f)
           <=> C!HandlersDecide(doc))
    BY <1>3, ShellRulesMeanHandlersDecide
  <2> QED
    BY <1>1, <1>2, <1>3, <2>1, <2>2, StateRulesMeanStateCovered,
       EffectRulesMeanEffectsConfined
    DEF C!Conformant
<1>4. CASE ~ (C!Coherent(doc) /\ C!Declared(doc))
  BY <1>1, <1>2, <1>4 DEF C!Conformant
<1> QED
  BY <1>3, <1>4

---------------------------------------------------------------------------
(* The ledger: what the accumulator, the position and the answers say of   *)
(* each other at every step.  It is the inductive invariant.               *)

\* Every adapter before the current one answered with a valid document.
EvaluatedHaveAnswered ==
  \A i \in Sources : i < adapter =>
    \E doc \in Documents : answer[i] = Document(doc) /\ ValidDocument(doc)

\* The accumulator holds exactly what those documents earn.
AccumulatorIsExact ==
  \A v : v \in violations <=>
    \E i \in Sources : i < adapter /\ v \in Evaluate(answer[i].files)

\* A returned document is the answer of the current adapter of a healthy run.
ReturnedIsCurrent ==
  parsed # << >> =>
    /\ exit = Running
    /\ ~ raised
    /\ adapter \in Sources
    /\ \E doc \in Documents : /\ parsed = <<doc>>
                              /\ ValidDocument(doc)
                              /\ answer[adapter] = Document(doc)

\* An exception is the failure of the current adapter.
RaisedIsCurrent ==
  raised => adapter \in Sources /\ parsed = << >> /\ answer[adapter] = Failed

\* No adapter is heard before its turn.
LaterAreSilent ==
  \A i \in Sources :
    \/ i > adapter
    \/ i = adapter /\ parsed = << >> /\ ~ raised
    => answer[i] = Silent

\* The exit status is the one the ledger calls for.
ExitIsEarned ==
  /\ exit = Running => printed = {}
  /\ exit = 0 => ~ raised /\ adapter = AdapterCount + 1 /\ violations = {}
                   /\ printed = {}
  /\ exit = 1 => \/ raised /\ printed = {}
                 \/ /\ ~ raised
                    /\ adapter = AdapterCount + 1
                    /\ violations # {}
                    /\ printed = violations

Ledger ==
  /\ EvaluatedHaveAnswered
  /\ AccumulatorIsExact
  /\ ReturnedIsCurrent
  /\ RaisedIsCurrent
  /\ LaterAreSilent
  /\ ExitIsEarned

IInv == TypeOK /\ Ledger

\* What an adapter may have answered.
Answers == {Silent, Failed} \cup {Document(d) : d \in Documents}

\* The kinds of answer differ, and a document answer holds its document.
LEMMA AnswersDiffer ==
  /\ Silent # Failed /\ Silent.kind # "document" /\ Failed.kind # "document"
  /\ \A doc : /\ Document(doc) # Silent /\ Document(doc) # Failed
              /\ Document(doc).kind = "document" /\ Document(doc).files = doc
<1>1. /\ Silent.kind = "silent" /\ Failed.kind = "failed"
      /\ \A doc : Document(doc).kind = "document" /\ Document(doc).files = doc
  BY DEF Silent, Failed, Document
<1> QED
  BY <1>1

\* A run starts with an empty ledger.
LEMMA InitIInv == Init => IInv
<1> SUFFICES ASSUME Init
             PROVE  IInv
  OBVIOUS
<1> USE AdapterCountAssumption DEF Init
<1>1. TypeOK
  <2>1. adapter \in 1 .. AdapterCount + 1
    OBVIOUS
  <2>2. answer \in [Sources -> Answers]
    BY DEF Answers
  <2> QED
    BY <2>1, <2>2 DEF TypeOK, Answers
<1>2. EvaluatedHaveAnswered
  BY DEF EvaluatedHaveAnswered, Sources
<1>3. AccumulatorIsExact /\ ReturnedIsCurrent /\ RaisedIsCurrent
  BY DEF AccumulatorIsExact, ReturnedIsCurrent, RaisedIsCurrent
<1>4. LaterAreSilent
  BY DEF LaterAreSilent
<1>5. ExitIsEarned
  BY DEF ExitIsEarned, Running
<1> QED
  BY <1>1, <1>2, <1>3, <1>4, <1>5 DEF IInv, Ledger

\* An exception keeps the ledger.
LEMMA RaiseKeepsIInv == IInv /\ AdapterDue /\ Raise => IInv'
<1> SUFFICES ASSUME IInv, AdapterDue, Raise
             PROVE  IInv'
  OBVIOUS
<1> USE AdapterCountAssumption DEF IInv, Ledger, AdapterDue, Raise
<1>1. adapter \in Nat /\ \A i \in Sources : i \in Nat
  BY DEF Sources
<1>2. /\ answer'[adapter] = Failed
      /\ \A i \in Sources : i # adapter => answer'[i] = answer[i]
  BY DEF TypeOK
<1>3. answer[adapter] = Silent
  BY DEF LaterAreSilent
<1>4. TypeOK'
  <2>1. answer \in [Sources -> Answers]
    BY DEF TypeOK, Answers
  <2>2. answer' \in [Sources -> Answers]
    BY <2>1 DEF Answers
  <2> QED
    BY <2>2 DEF TypeOK, Answers
<1>5. EvaluatedHaveAnswered'
  BY <1>1, <1>2 DEF EvaluatedHaveAnswered
<1>6. AccumulatorIsExact'
  <2>1. \A i \in Sources, d \in Documents :
          answer[i] = Document(d) => answer'[i] = answer[i]
    BY <1>2, <1>3, AnswersDiffer
  <2> QED
    BY <2>1 DEF AccumulatorIsExact
<1>7. ReturnedIsCurrent' /\ RaisedIsCurrent'
  BY <1>2 DEF ReturnedIsCurrent, RaisedIsCurrent
<1>8. LaterAreSilent'
  BY <1>1, <1>2 DEF LaterAreSilent
<1>9. ExitIsEarned'
  BY DEF ExitIsEarned, Running
<1> QED
  BY <1>4, <1>5, <1>6, <1>7, <1>8, <1>9

\* A document an adapter returns keeps the ledger.
LEMMA RunAdapterKeepsIInv ==
  ASSUME IInv, NEW doc \in Documents, RunAdapter(doc)
  PROVE  IInv'
<1> USE AdapterCountAssumption DEF IInv, Ledger, AdapterDue, RunAdapter
<1>1. adapter \in Nat /\ \A i \in Sources : i \in Nat
  BY DEF Sources
<1>2. /\ answer'[adapter] = Document(doc)
      /\ \A i \in Sources : i # adapter => answer'[i] = answer[i]
  BY DEF TypeOK
<1>3. answer[adapter] = Silent
  BY DEF LaterAreSilent
<1>4. TypeOK'
  <2>1. answer \in [Sources -> Answers]
    BY DEF TypeOK, Answers
  <2>2. answer' \in [Sources -> Answers]
    BY <2>1 DEF Answers
  <2> QED
    BY <2>2 DEF TypeOK, Answers
<1>5. EvaluatedHaveAnswered'
  BY <1>1, <1>2 DEF EvaluatedHaveAnswered
<1>6. AccumulatorIsExact'
  <2>1. \A i \in Sources, d \in Documents :
          answer[i] = Document(d) => answer'[i] = answer[i]
    BY <1>2, <1>3, AnswersDiffer
  <2> QED
    BY <2>1 DEF AccumulatorIsExact
<1>7. ReturnedIsCurrent' /\ RaisedIsCurrent'
  BY <1>2 DEF ReturnedIsCurrent, RaisedIsCurrent
<1>8. LaterAreSilent'
  BY <1>1, <1>2 DEF LaterAreSilent
<1>9. ExitIsEarned'
  BY DEF ExitIsEarned, Running
<1> QED
  BY <1>4, <1>5, <1>6, <1>7, <1>8, <1>9

\* Moving a document's violations into the accumulator keeps the ledger.
LEMMA EvaluateKeepsIInv == IInv /\ EvaluateDocument => IInv'
<1> SUFFICES ASSUME IInv, EvaluateDocument
             PROVE  IInv'
  OBVIOUS
<1> USE AdapterCountAssumption DEF IInv, Ledger, EvaluateDocument
<1>1. adapter \in Sources /\ ~ raised /\ exit = Running
  BY DEF ReturnedIsCurrent
<1>2. PICK doc \in Documents : /\ parsed = <<doc>>
                               /\ ValidDocument(doc)
                               /\ answer[adapter] = Document(doc)
  BY DEF ReturnedIsCurrent
<1>3. violations' = violations \cup Evaluate(doc)
  BY <1>2
<1>4. adapter \in Nat /\ \A i \in Sources : i \in Nat
  BY <1>1 DEF Sources
<1>5. printed = {}
  BY <1>1 DEF ExitIsEarned
<1>6. TypeOK'
  BY <1>1, <1>5 DEF TypeOK, Sources
<1>7. EvaluatedHaveAnswered'
  <2> SUFFICES ASSUME NEW i \in Sources, i < adapter'
               PROVE  \E d \in Documents : answer[i] = Document(d) /\ ValidDocument(d)
    BY DEF EvaluatedHaveAnswered, Sources
  <2>1. CASE i = adapter
    BY <1>2, <2>1
  <2>2. CASE i < adapter
    BY <2>2 DEF EvaluatedHaveAnswered
  <2> QED
    BY <1>4, <2>1, <2>2
<1>8. AccumulatorIsExact'
  <2>1. Evaluate(answer[adapter].files) = Evaluate(doc)
    BY <1>2, AnswersDiffer
  <2>2. \A i \in Sources : i < adapter' <=> i < adapter \/ i = adapter
    BY <1>4
  <2> QED
    BY <1>1, <1>3, <2>1, <2>2 DEF AccumulatorIsExact
<1>9. ReturnedIsCurrent' /\ RaisedIsCurrent'
  BY <1>1 DEF ReturnedIsCurrent, RaisedIsCurrent
<1>10. LaterAreSilent'
  BY <1>1, <1>4 DEF LaterAreSilent
<1>11. ExitIsEarned'
  BY <1>1, <1>5 DEF ExitIsEarned, Running
<1> QED
  BY <1>6, <1>7, <1>8, <1>9, <1>10, <1>11

\* The two ways a run ends keep the ledger.
LEMMA EndKeepsIInv == IInv /\ (Diagnose \/ Report) => IInv'
<1> SUFFICES ASSUME IInv, Diagnose \/ Report
             PROVE  IInv'
  OBVIOUS
<1> USE AdapterCountAssumption DEF IInv, Ledger
<1>1. UNCHANGED <<adapter, parsed, raised, violations, answer>> /\ exit = Running
  BY DEF Diagnose, Report
<1>2. parsed = << >>
  BY DEF Diagnose, Report, ReturnedIsCurrent, RaisedIsCurrent, Sources
<1>3. printed = {}
  BY <1>1 DEF ExitIsEarned
<1>4. TypeOK'
  BY <1>1, <1>3 DEF TypeOK, Diagnose, Report
<1>5. EvaluatedHaveAnswered' /\ AccumulatorIsExact'
  BY <1>1 DEF EvaluatedHaveAnswered, AccumulatorIsExact
<1>6. ReturnedIsCurrent' /\ RaisedIsCurrent' /\ LaterAreSilent'
  BY <1>1, <1>2 DEF ReturnedIsCurrent, RaisedIsCurrent, LaterAreSilent
<1>7. ExitIsEarned'
  <2>1. CASE Diagnose
    BY <1>3, <2>1 DEF ExitIsEarned, Diagnose, Running
  <2>2. CASE Report
    <3>1. ~ raised
      BY <2>2 DEF Report, RaisedIsCurrent, Sources
    <3> QED
      BY <2>2, <3>1 DEF ExitIsEarned, Report, Running
  <2> QED
    BY <2>1, <2>2
<1> QED
  BY <1>4, <1>5, <1>6, <1>7

\* Every step of a run keeps the ledger.
LEMMA NextIInv == IInv /\ [Next]_vars => IInv'
<1> SUFFICES ASSUME IInv, [Next]_vars
             PROVE  IInv'
  OBVIOUS
<1>1. CASE AdapterFails
  BY <1>1, RaiseKeepsIInv DEF AdapterFails
<1>2. ASSUME NEW doc \in Documents, SchemaRefuses(doc)
      PROVE  IInv'
  BY <1>2, RaiseKeepsIInv DEF SchemaRefuses
<1>3. ASSUME NEW doc \in Documents, RunAdapter(doc)
      PROVE  IInv'
  BY <1>3, RunAdapterKeepsIInv
<1>4. CASE EvaluateDocument
  BY <1>4, EvaluateKeepsIInv
<1>5. CASE Diagnose \/ Report
  BY <1>5, EndKeepsIInv
<1>6. CASE UNCHANGED vars
  BY <1>6 DEF vars, IInv, TypeOK, Ledger, EvaluatedHaveAnswered, AccumulatorIsExact,
              ReturnedIsCurrent, RaisedIsCurrent, LaterAreSilent, ExitIsEarned
<1> QED
  BY <1>1, <1>2, <1>3, <1>4, <1>5, <1>6 DEF Next

\* The ledger holds throughout every run.
THEOREM LedgerHolds == Spec => []IInv
BY InitIInv, NextIInv, PTL DEF Spec

\* Variables keep their types.
THEOREM TypeCorrect == Spec => []TypeOK
BY LedgerHolds, PTL DEF IInv

---------------------------------------------------------------------------
(* What an accepted run says.                                              *)

\* The promises that the specification of a run states and those that the policy
\* is proved about are the same.
LEMMA SamePromises ==
  ASSUME NEW doc
  PROVE  Promise!Conformant(doc) <=> C!Conformant(doc)
<1>1. \A f, t, s, type :
        /\ Promise!Effectful(f) <=> C!Effectful(f)
        /\ Promise!Behaving(f) <=> C!Behaving(f)
        /\ Promise!Tests(doc, f) = C!Tests(doc, f)
        /\ Promise!Peers(doc, f, type) = C!Peers(doc, f, type)
        /\ Promise!Typed(doc, type) = C!Typed(doc, type)
        /\ Promise!Exercises(t, s) <=> C!Exercises(t, s)
        /\ Promise!Traces(t, s) <=> C!Traces(t, s)
  BY DEF Promise!Effectful, Promise!Behaving, Promise!Tests, Promise!Peers,
         Promise!Typed, Promise!Exercises, Promise!Traces, C!Effectful, C!Behaving,
         C!Tests, C!Peers, C!Typed, C!Exercises, C!Traces
<1>2. Promise!Declared(doc) <=> C!Declared(doc)
  BY DEF Promise!Declared, C!Declared
<1>3. Promise!DecisionsTested(doc) <=> C!DecisionsTested(doc)
  BY DEF Promise!DecisionsTested, C!DecisionsTested, Promise!Tests, C!Tests,
         Promise!Peers, C!Peers, Promise!Typed, C!Typed, Promise!Exercises,
         C!Exercises
<1>4. Promise!HandlersDecide(doc) <=> C!HandlersDecide(doc)
  BY DEF Promise!HandlersDecide, C!HandlersDecide, Promise!Effectful,
         C!Effectful, Promise!Tests, C!Tests, Promise!Peers, C!Peers,
         Promise!Typed, C!Typed, Promise!Exercises, C!Exercises
<1>5. Promise!StateCovered(doc) <=> C!StateCovered(doc)
  BY <1>1 DEF Promise!StateCovered, C!StateCovered
<1>6. Promise!TracesBelong(doc) <=> C!TracesBelong(doc)
  BY <1>1 DEF Promise!TracesBelong, C!TracesBelong
<1>7. Promise!EffectsConfined(doc) <=> C!EffectsConfined(doc)
  BY <1>1 DEF Promise!EffectsConfined, C!EffectsConfined
<1>8. Promise!Inert(doc) <=> C!Inert(doc)
  BY <1>1 DEF Promise!Inert, C!Inert
<1>9. Promise!LayersRespected(doc) <=> C!LayersRespected(doc)
  BY <1>1 DEF Promise!LayersRespected, C!LayersRespected
<1>10. Promise!DomainsNarrow(doc) <=> C!DomainsNarrow(doc)
  BY DEF Promise!DomainsNarrow, C!DomainsNarrow, Promise!Cardinality, C!Cardinality
<1>11. Promise!Coherent(doc) <=> C!Coherent(doc)
  BY DEF Promise!Coherent, C!Coherent
<1> QED
  BY <1>2, <1>3, <1>4, <1>5, <1>6, <1>7, <1>8, <1>9, <1>10, <1>11
  DEF Promise!Conformant, C!Conformant

LEMMA EvaluateDecides ==
  ASSUME NEW doc \in Documents, ValidDocument(doc)
  PROVE  Evaluate(doc) = {} <=> Promise!Conformant(doc)
BY DocumentsAssumption, PolicyDecidesConformance, SamePromises

\* Past the last adapter, an empty accumulator means that every adapter answered
\* with a conforming document.
LEMMA CleanLedgerConforms ==
  ASSUME IInv, adapter = AdapterCount + 1, violations = {}, NEW i \in Sources
  PROVE  answer[i].kind = "document" /\ Promise!Conformant(answer[i].files)
<1>1. i < adapter
  BY AdapterCountAssumption DEF Sources
<1>2. PICK doc \in Documents : answer[i] = Document(doc) /\ ValidDocument(doc)
  BY <1>1 DEF IInv, Ledger, EvaluatedHaveAnswered
<1>3. Evaluate(answer[i].files) = {}
  BY <1>1 DEF IInv, Ledger, AccumulatorIsExact
<1> QED
  BY <1>2, <1>3, AnswersDiffer, EvaluateDecides

LEMMA AcceptedConform ==
  ASSUME IInv, Accepted
  PROVE  \A i \in Sources : /\ answer[i].kind = "document"
                            /\ Promise!Conformant(answer[i].files)
BY CleanLedgerConforms DEF Accepted, IInv, Ledger, ExitIsEarned

\* A violation means that some adapter answered with a document that does not
\* conform.
LEMMA ViolationHasACause ==
  ASSUME IInv, violations # {}
  PROVE  \E i \in Sources : /\ answer[i].kind = "document"
                            /\ ~ Promise!Conformant(answer[i].files)
<1>1. PICK i \in Sources : i < adapter /\ Evaluate(answer[i].files) # {}
  BY DEF IInv, Ledger, AccumulatorIsExact
<1>2. PICK doc \in Documents : answer[i] = Document(doc) /\ ValidDocument(doc)
  BY <1>1 DEF IInv, Ledger, EvaluatedHaveAnswered
<1> QED
  BY <1>1, <1>2, AnswersDiffer, EvaluateDecides

\* The promises about the documents of an accepted run.
AcceptedKeepPromises ==
  /\ AcceptedDecisionsTested
  /\ AcceptedHandlersDecide
  /\ AcceptedStateCovered
  /\ AcceptedTracesBelong
  /\ AcceptedEffectsConfined
  /\ AcceptedInert
  /\ AcceptedLayersRespected
  /\ AcceptedDeclared
  /\ AcceptedDomainsNarrow

\* In every run that exits with status 0 every promise holds of the document of
\* every adapter, for every number of adapters, every document and every bound.
THEOREM AcceptedRunsKeepPromises == Spec => []AcceptedKeepPromises
<1>1. IInv => AcceptedKeepPromises
  BY AcceptedConform
  DEF Promise!Conformant, AcceptedKeepPromises, AcceptedDecisionsTested,
      AcceptedHandlersDecide, AcceptedStateCovered, AcceptedTracesBelong,
      AcceptedEffectsConfined, AcceptedInert, AcceptedLayersRespected,
      AcceptedDeclared, AcceptedDomainsNarrow
<1> QED
  BY <1>1, LedgerHolds, PTL

\* In every accepted run no decision of a core goes untested (evaluate).
THEOREM DecisionsAreTested == Spec => []AcceptedDecisionsTested
BY AcceptedRunsKeepPromises, PTL DEF AcceptedKeepPromises

\* In every accepted run no handler gets by without a tested core (evaluate).
THEOREM HandlersUseCores == Spec => []AcceptedHandlersDecide
BY AcceptedRunsKeepPromises, PTL DEF AcceptedKeepPromises

\* In every accepted run no state module lacks a temporal trace (evaluate).
THEOREM StatesAreCovered == Spec => []AcceptedStateCovered
BY AcceptedRunsKeepPromises, PTL DEF AcceptedKeepPromises

\* In every accepted run no trace stands outside state tests (evaluate).
THEOREM TracesAreInPlace == Spec => []AcceptedTracesBelong
BY AcceptedRunsKeepPromises, PTL DEF AcceptedKeepPromises

\* In every accepted run no effect hides under a pure label (evaluate).
THEOREM EffectsAreConfined == Spec => []AcceptedEffectsConfined
BY AcceptedRunsKeepPromises, PTL DEF AcceptedKeepPromises

\* In every accepted run no logic hides in vocabulary or exemptions (evaluate).
THEOREM VocabularyIsInert == Spec => []AcceptedInert
BY AcceptedRunsKeepPromises, PTL DEF AcceptedKeepPromises

\* In every accepted run no pure module names its implementation (evaluate).
THEOREM LayersAreRespected == Spec => []AcceptedLayersRespected
BY AcceptedRunsKeepPromises, PTL DEF AcceptedKeepPromises

\* In every accepted run no file escapes by its label (evaluate).
THEOREM FilesAreDeclared == Spec => []AcceptedDeclared
BY AcceptedRunsKeepPromises, PTL DEF AcceptedKeepPromises

\* In every accepted run no domain is too broad (evaluate).
THEOREM DomainsAreNarrow == Spec => []AcceptedDomainsNarrow
BY AcceptedRunsKeepPromises, PTL DEF AcceptedKeepPromises

\* No document and no violation is lost between adapters, in every run.
THEOREM NothingIsSkipped == Spec => []NothingSkipped
<1>1. IInv => NothingSkipped
  <2> SUFFICES ASSUME IInv
               PROVE  NothingSkipped
    OBVIOUS
  <2>1. ASSUME exit # Running, \A i \in Sources : answer[i] # Failed
        PROVE  /\ \A i \in Sources : answer[i].kind = "document"
               /\ printed = UNION {Evaluate(answer[i].files) : i \in Sources}
    <3>1. ~ raised /\ exit \in {0, 1}
      BY <2>1 DEF IInv, Ledger, TypeOK, RaisedIsCurrent
    <3>2. adapter = AdapterCount + 1 /\ printed = violations
      BY <3>1 DEF IInv, Ledger, ExitIsEarned
    <3>3. \A i \in Sources : i < adapter
      BY <3>2, AdapterCountAssumption DEF Sources
    <3>4. \A i \in Sources : answer[i].kind = "document"
      BY <3>3, AnswersDiffer DEF IInv, Ledger, EvaluatedHaveAnswered
    <3>5. \A v : v \in violations <=> \E i \in Sources : v \in Evaluate(answer[i].files)
      BY <3>3 DEF IInv, Ledger, AccumulatorIsExact
    <3> QED
      BY <3>2, <3>4, <3>5
  <2>2. Accepted => \A i \in Sources : answer[i] # Failed
    BY AcceptedConform, AnswersDiffer
  <2>3. exit = 1 /\ printed = {} => \E i \in Sources : answer[i] = Failed
    BY DEF IInv, Ledger, ExitIsEarned, RaisedIsCurrent
  <2> QED
    BY <2>1, <2>2, <2>3 DEF NothingSkipped
<1> QED
  BY <1>1, LedgerHolds, PTL

---------------------------------------------------------------------------
(* Runs implement the promise.                                             *)

\* The verdict of the promise, as the exit status gives it.
Verdict == CASE exit = Running -> "pending"
             [] exit = 0         -> "accepted"
             [] exit = 1         -> "rejected"

LEMMA InitRefines == Init => Promise!Init
BY DEF Init, Promise!Init, Silent, Promise!Silent, Running

LEMMA StepRefines == IInv /\ [Next]_vars => [Promise!Next]_(Promise!vars)
<1> SUFFICES ASSUME IInv, [Next]_vars
             PROVE  [Promise!Next]_(Promise!vars)
  OBVIOUS
<1>1. ASSUME AdapterDue, Raise
      PROVE  Promise!Answer(adapter) /\ adapter \in Sources
  <2>1. answer[adapter] = Silent
    BY <1>1 DEF IInv, Ledger, LaterAreSilent, AdapterDue
  <2> QED
    BY <1>1, <2>1 DEF AdapterDue, Raise, Promise!Answer, Silent, Promise!Silent,
                      Failed, Promise!Failed, Running
<1>2. ASSUME NEW doc \in Documents, RunAdapter(doc)
      PROVE  Promise!Answer(adapter) /\ adapter \in Sources
  <2>1. answer[adapter] = Silent
    BY <1>2 DEF IInv, Ledger, LaterAreSilent, RunAdapter, AdapterDue
  <2>2. /\ answer[adapter] = Promise!Silent
        /\ answer' = [answer EXCEPT ![adapter] = Promise!Document(doc)]
    BY <1>2, <2>1 DEF RunAdapter, Silent, Promise!Silent, Document, Promise!Document
  <2>3. exit = Running /\ exit' = exit /\ adapter \in Sources
    BY <1>2 DEF RunAdapter, AdapterDue
  <2>4. \E d \in Documents : answer' = [answer EXCEPT ![adapter] = Promise!Document(d)]
    BY <2>2
  <2>5. /\ Verdict = "pending"
        /\ UNCHANGED Verdict
    BY <2>3 DEF Verdict, Running
  <2> QED
    BY <2>2, <2>3, <2>4, <2>5, Zenon DEF Promise!Answer, Verdict
<1>3. CASE EvaluateDocument
  BY <1>3 DEF EvaluateDocument, Promise!vars
<1>4. CASE Diagnose
  BY <1>4 DEF Diagnose, IInv, Ledger, RaisedIsCurrent, Failed, Running,
              Promise!Reject, Promise!Next
<1>5. CASE Report
  <2>1. CASE violations = {}
    <3>1. \A i \in Sources : /\ answer[i].kind = "document"
                             /\ Promise!Conformant(answer[i].files)
      BY <1>5, <2>1, CleanLedgerConforms DEF Report
    <3> QED
      BY <1>5, <2>1, <3>1 DEF Report, Running, Promise!Accept, Promise!Next
  <2>2. CASE violations # {}
    BY <1>5, <2>2, ViolationHasACause DEF Report, Running, Promise!Reject, Promise!Next
  <2> QED
    BY <2>1, <2>2
<1>6. CASE UNCHANGED vars
  BY <1>6 DEF vars, Promise!vars
<1> QED
  BY <1>1, <1>2, <1>3, <1>4, <1>5, <1>6
  DEF Next, AdapterFails, SchemaRefuses, Promise!Next

\* Every run implements the promise: it accepts only when every adapter answered
\* with a conforming document and rejects only for a failure or a violation.
THEOREM RunsKeepThePromise == Spec => Refines
BY InitRefines, StepRefines, LedgerHolds, PTL DEF Spec, Refines, Promise!Spec

---------------------------------------------------------------------------
(* The verdict on a domain: each evaluate_* function of evaluate.py        *)
(* reports of the files of one domain what it reports of these files in    *)
(* the whole document.                                                     *)

\* What the rules report of the files of f's domain alone is what they report of them in
\* the whole document, and they report nothing else.
Local(doc, f, whole, part) ==
  /\ DOMAIN part = DOMAIN whole
  /\ \A r \in DOMAIN whole : /\ whole[r] \subseteq doc
                             /\ part[r] = whole[r] \cap SameDomain(doc, f)

ReportOf(f, r) == [path |-> f.path, rule |-> r]

---------------------------------------------------------------------------
LEMMA ReportsAre ==
  ASSUME NEW reported, NEW v
  PROVE  v \in Reports(reported) <=> \E r \in DOMAIN reported : \E f \in reported[r] : v = ReportOf(f, r)
BY DEF Reports, ReportOf

\* The violations of a domain are violations of the document, at files of the domain.
LEMMA DomainReports ==
  ASSUME NEW doc, NEW f, NEW whole, NEW part, Local(doc, f, whole, part),
         NEW v \in Reports(part)
  PROVE  v \in Reports(whole) /\ v.path \in {g.path : g \in SameDomain(doc, f)}
<1>1. PICK r \in DOMAIN part : \E g \in part[r] : v = ReportOf(g, r)
  BY ReportsAre
<1>2. PICK g \in part[r] : v = ReportOf(g, r)
  BY <1>1
<1>3. r \in DOMAIN whole /\ g \in whole[r] /\ g \in SameDomain(doc, f)
  BY <1>2 DEF Local
<1>4. v.path = g.path
  BY <1>2 DEF ReportOf
<1> QED
  BY <1>2, <1>3, <1>4, ReportsAre

\* A violation of the document is one of the domain of some file.
LEMMA DocumentReports ==
  ASSUME NEW doc, NEW whole, NEW v \in Reports(whole),
         \A f : \E part : Local(doc, f, whole, part)
  PROVE  \E f \in doc : \A part : Local(doc, f, whole, part) => v \in Reports(part)
<1>1. PICK r \in DOMAIN whole : \E f \in whole[r] : v = ReportOf(f, r)
  BY ReportsAre
<1>2. PICK f \in whole[r] : v = ReportOf(f, r)
  BY <1>1
<1>3. f \in doc /\ f \in SameDomain(doc, f)
  BY <1>2 DEF Local, SameDomain
<1>4. ASSUME NEW part, Local(doc, f, whole, part)
      PROVE  v \in Reports(part)
  <2>1. r \in DOMAIN part /\ f \in part[r]
    BY <1>2, <1>3, <1>4 DEF Local
  <2> QED
    BY <1>2, <2>1, ReportsAre
<1> QED
  BY <1>3, <1>4

---------------------------------------------------------------------------
LEMMA DomainsNest ==
  ASSUME NEW doc, NEW f, NEW g \in SameDomain(doc, f)
  PROVE  SameDomain(SameDomain(doc, f), g) = SameDomain(doc, g)
BY DEF SameDomain

LEMMA TypesNest ==
  ASSUME NEW doc, NEW f, NEW types
  PROVE  OfType(SameDomain(doc, f), types) = OfType(doc, types) \cap SameDomain(doc, f)
BY DEF SameDomain, OfType

LEMMA PartOfDocument ==
  ASSUME NEW doc, NEW f, NEW types
  PROVE  SameDomain(doc, f) \subseteq doc /\ OfType(doc, types) \subseteq doc
BY DEF SameDomain, OfType

LEMMA InterfaceRulesAreLocal ==
  ASSUME NEW doc, NEW f
  PROVE  Local(doc, f, InterfaceModules(doc), InterfaceModules(SameDomain(doc, f)))
BY DEF Local, InterfaceModules, OfType, SameDomain

LEMMA ValueRulesAreLocal ==
  ASSUME NEW doc, NEW f
  PROVE  Local(doc, f, ValueModules(doc), ValueModules(SameDomain(doc, f)))
BY DEF Local, ValueModules, OfType, SameDomain

LEMMA BoundariesAreLocal ==
  ASSUME NEW doc, NEW f
  PROVE  Local(doc, f, EffectBoundaries(doc), EffectBoundaries(SameDomain(doc, f)))
BY DEF Local, EffectBoundaries, OfType, SameDomain

LEMMA ExemptionsAreLocal ==
  ASSUME NEW doc, NEW f
  PROVE  Local(doc, f, ExemptionAdmissibility(doc), ExemptionAdmissibility(SameDomain(doc, f)))
BY DEF Local, ExemptionAdmissibility, OfType, SameDomain

LEMMA ConsistencyIsLocal ==
  ASSUME NEW doc, NEW f
  PROVE  Local(doc, f, FactConsistency(doc), FactConsistency(SameDomain(doc, f)))
<1> DEFINE Breaks1(g) == ~ g.effectfulImports \subseteq g.imports
           Breaks2(g) == ~ g.effectfulIdentifiers \subseteq g.identifiers
           Breaks3(g) == ~ {e.enclosing : e \in g.effectfulReferences} \ {None} \subseteq g.identifiers
           Breaks4(g) == \E e \in g.effectfulReferences :
                      e.origin = "dependency-summary" /\ ~ e.summarised
           Breaks5(g) == ~ PropertyTestReferences(g) \subseteq g.apiReferences
           Breaks6(g) == ~ {s.input : s \in SequencesOf(g)} \subseteq GeneratedInputNames(g)
           Breaks7(g) == ~ UNION {SequenceReferences(s) : s \in SequencesOf(g)} \subseteq g.apiReferences
           Breaks8(g) == ~ g.decisionSurface \subseteq g.identifiers
           Breaks9(g) == ~ g.propertyTestSurface \subseteq g.identifiers
           Breaks10(g) == ~ g.decisionProducts \subseteq g.identifiers
           Breaks11(g) == ~ g.decisionReferences \subseteq g.identifiers
           Breaks12(g) == ~ g.logic.functionBodies \subseteq g.identifiers
           Breaks13(g) == ~ g.logic.constructorBodies \subseteq g.identifiers
           Breaks14(g) == ~ g.logic.derivedValueBodies \subseteq g.identifiers
<1>1. \A files : FactConsistency(files) =
        [effectfulImportsAreImports |-> {g \in files : Breaks1(g)},
         effectfulIdentifiersAreIdentifiers |-> {g \in files : Breaks2(g)},
         enclosingNamesAreIdentifiers |-> {g \in files : Breaks3(g)},
         dependencyEffectsNameASummary |-> {g \in files : Breaks4(g)},
         propertyReferencesAreReachable |-> {g \in files : Breaks5(g)},
         sequencesUseGeneratedInputs |-> {g \in files : Breaks6(g)},
         sequenceReferencesAreReachable |-> {g \in files : Breaks7(g)},
         decisionSurfaceIsDeclared |-> {g \in files : Breaks8(g)},
         propertyTestSurfaceIsDeclared |-> {g \in files : Breaks9(g)},
         decisionProductsAreDeclared |-> {g \in files : Breaks10(g)},
         decisionReferencesAreDeclared |-> {g \in files : Breaks11(g)},
         functionBodiesAreDeclared |-> {g \in files : Breaks12(g)},
         constructorBodiesAreDeclared |-> {g \in files : Breaks13(g)},
         derivedValueBodiesAreDeclared |-> {g \in files : Breaks14(g)}]
  BY Zenon DEF FactConsistency
<1> HIDE DEF Breaks1, Breaks2, Breaks3, Breaks4, Breaks5, Breaks6, Breaks7, Breaks8, Breaks9, Breaks10, Breaks11, Breaks12, Breaks13, Breaks14
<1>2. DOMAIN FactConsistency(SameDomain(doc, f)) = DOMAIN FactConsistency(doc)
  BY <1>1
<1>3. ASSUME NEW r \in DOMAIN FactConsistency(doc)
      PROVE  /\ FactConsistency(doc)[r] \subseteq doc
             /\ FactConsistency(SameDomain(doc, f))[r]
                  = FactConsistency(doc)[r] \cap SameDomain(doc, f)
  BY <1>1 DEF SameDomain
<1> QED
  BY <1>2, <1>3 DEF Local

LEMMA MetadataIsLocal ==
  ASSUME NEW doc, NEW f
  PROVE  Local(doc, f, FileMetadata(doc), FileMetadata(SameDomain(doc, f)))
<1> DEFINE part == SameDomain(doc, f)
           Untyped(files) == OfType(files, {None})
           Exempt(files)  == OfType(files, {"exempt"})
           Typed(files)   == files \ (Untyped(files) \cup Exempt(files))
           TestFiles(files) == OfType(files, {"test", "stateTest"})
<1>1. /\ Untyped(part) = Untyped(doc) \cap part /\ Exempt(part) = Exempt(doc) \cap part
      /\ TestFiles(part) = TestFiles(doc) \cap part
  BY TypesNest
<1>2. /\ Untyped(doc) \subseteq doc /\ Exempt(doc) \subseteq doc
      /\ TestFiles(doc) \subseteq doc /\ part \subseteq doc
  BY PartOfDocument
<1>3. part = SameDomain(doc, f)
  OBVIOUS
<1>4. \A files : FileMetadata(files) =
        [moduleDeclaresType     |-> Untyped(files),
         moduleDeclaresDomain   |-> {g \in Typed(files) : g.domain = None},
         domainIsWellFormed     |->
           {g \in Typed(files) : g.domain \notin ValidDomains \cup {None}},
         exemptHasNoDomain      |-> {g \in Exempt(files) : g.domain # None},
         exemptDeclaresReason   |-> {g \in Exempt(files) : g.exemptReason = None},
         onlyExemptHasReason    |-> {g \in Typed(files) : g.exemptReason # None},
         testInTestScope        |-> {g \in TestFiles(files) : g.testScope = None},
         productionNotInTestScope |->
           {g \in Typed(files) \ TestFiles(files) : g.testScope # None}]
  BY DEF FileMetadata
<1> HIDE DEF part, Untyped, Exempt, TestFiles
<1>5. Typed(part) = Typed(doc) \cap part /\ Typed(doc) \subseteq doc
  BY <1>1, <1>2
<1> HIDE DEF Typed
<1> QED
  BY <1>1, <1>2, <1>3, <1>4, <1>5, SMTT(30) DEF Local

LEMMA DirectionIsLocal ==
  ASSUME NEW doc, NEW f
  PROVE  Local(doc, f, DependencyDirection(doc), DependencyDirection(SameDomain(doc, f)))
<1>1. \A g \in SameDomain(doc, f) :
        ImplementationSurface(SameDomain(doc, f), g) = ImplementationSurface(doc, g)
  BY DomainsNest DEF ImplementationSurface
<1> QED
  BY <1>1, TypesNest, PartOfDocument DEF Local, DependencyDirection

LEMMA ShellRulesAreLocal ==
  ASSUME NEW doc, NEW f
  PROVE  Local(doc, f, ShellModules(doc), ShellModules(SameDomain(doc, f)))
<1>1. \A g \in SameDomain(doc, f) :
        HandlerReferences(SameDomain(doc, f), g) = HandlerReferences(doc, g)
  BY DomainsNest DEF HandlerReferences
<1> QED
  BY <1>1, TypesNest, PartOfDocument DEF Local, ShellModules

LEMMA StateRulesAreLocal ==
  ASSUME NEW doc, NEW f
  PROVE  Local(doc, f, StateModules(doc), StateModules(SameDomain(doc, f)))
<1> DEFINE part == SameDomain(doc, f)
           States(files) == OfType(files, {"state"})
           StateTests(files) == OfType(files, {"stateTest"})
           Temporal(files) == {t \in StateTests(files) : HasOperationSequences(t)}
           Exercised(files, g) ==
             UNION {OperationSequenceReferences(t) : t \in SameDomain(Temporal(files), g)}
           Unexercised(files) == {g \in States(files) : SameDomain(Temporal(files), g) = {}}
<1>1. \A files : StateModules(files) =
        [stateHasOperationSequences |-> Unexercised(files),
         stateCallsAnExercisedDecision |->
           {g \in States(files) \ Unexercised(files) :
              g.apiReferences \cap Exercised(files, g) \cap CoreSurface(files, g) = {}},
         stateTestHasSequences |-> StateTests(files) \ Temporal(files),
         stateTestHasState |-> {t \in Temporal(files) : SameDomain(States(files), t) = {}},
         sequencesReachDecisions |->
           {t \in Temporal(files) :
              OperationSequenceReferences(t) \cap CoreSurface(files, t) = {}}]
  BY DEF StateModules
<1>2. /\ States(part) = States(doc) \cap part
      /\ StateTests(part) = StateTests(doc) \cap part
      /\ Temporal(part) = Temporal(doc) \cap part
  BY TypesNest
<1>3. /\ States(doc) \subseteq doc /\ StateTests(doc) \subseteq doc
      /\ Temporal(doc) \subseteq doc
  BY PartOfDocument
<1>4. ASSUME NEW g \in part
      PROVE  /\ SameDomain(Temporal(part), g) = SameDomain(Temporal(doc), g)
             /\ SameDomain(States(part), g) = SameDomain(States(doc), g)
             /\ CoreSurface(part, g) = CoreSurface(doc, g)
  <2>1. CoreSurface(part, g) = CoreSurface(doc, g)
    BY DomainsNest DEF CoreSurface
  <2> HIDE DEF States, Temporal
  <2> QED
    BY <1>2, <1>3, <2>1 DEF SameDomain
<1>5. /\ Unexercised(part) = Unexercised(doc) \cap part
      /\ \A g \in part : Exercised(part, g) = Exercised(doc, g)
  <2> HIDE DEF States, Temporal, part
  <2> QED
    BY <1>2, <1>4
<1>6. Unexercised(doc) \subseteq doc
  BY <1>3
<1> DEFINE Uncalled(files) ==
             {g \in States(files) \ Unexercised(files) :
                g.apiReferences \cap Exercised(files, g) \cap CoreSurface(files, g) = {}}
           Stateless(files) == {t \in Temporal(files) : SameDomain(States(files), t) = {}}
           Unreached(files) ==
             {t \in Temporal(files) :
                OperationSequenceReferences(t) \cap CoreSurface(files, t) = {}}
<1> HIDE DEF part, States, StateTests, Temporal, Exercised, Unexercised
<1>7. /\ Uncalled(part) = Uncalled(doc) \cap part /\ Uncalled(doc) \subseteq doc
      /\ Stateless(part) = Stateless(doc) \cap part /\ Stateless(doc) \subseteq doc
      /\ Unreached(part) = Unreached(doc) \cap part /\ Unreached(doc) \subseteq doc
  BY <1>2, <1>3, <1>4, <1>5
<1> HIDE DEF Uncalled, Stateless, Unreached
<1>8. \A files : StateModules(files) =
        [stateHasOperationSequences |-> Unexercised(files),
         stateCallsAnExercisedDecision |-> Uncalled(files),
         stateTestHasSequences |-> StateTests(files) \ Temporal(files),
         stateTestHasState |-> Stateless(files),
         sequencesReachDecisions |-> Unreached(files)]
  BY <1>1 DEF Uncalled, Stateless, Unreached
<1>9. Local(doc, f, StateModules(doc), StateModules(part))
  <2>1. part = SameDomain(doc, f)
    BY DEF part
  <2> QED
    BY <1>2, <1>3, <1>5, <1>6, <1>7, <1>8, <2>1 DEF Local
<1> QED
  BY <1>9 DEF part

---------------------------------------------------------------------------
(* Rules that report the first file of a group.                            *)

\* A set of paths has a first one.
LEMMA LeastPath ==
  ASSUME NEW paths \in SUBSET Nat, paths # {}
  PROVE  \E x \in paths : \A y \in paths : x <= y
<1> DEFINE R == {ss \in Nat \X Nat : ss[1] < ss[2]}
<1>1. IsWellFoundedOn(R, Nat)
  BY NatLessThanWellFounded DEF OpToRel
<1>2. \A x, y \in Nat : <<y, x>> \in R <=> y < x
  OBVIOUS
<1> HIDE DEF R
<1>3. PICK x \in paths : \A y \in paths : <<y, x>> \notin R
  BY <1>1, WFMin
<1>4. ASSUME NEW y \in paths PROVE x <= y
  <2>1. x \in Nat /\ y \in Nat /\ ~ (y < x)
    BY <1>2, <1>3
  <2> QED
    BY <2>1
<1> QED
  BY <1>4

LEMMA FirstIsMember ==
  ASSUME NEW group, group # {}, \A g \in group : g.path \in Nat
  PROVE  First(group) \in group
<1>1. PICK p \in {g.path : g \in group} : \A q \in {g.path : g \in group} : p <= q
  BY LeastPath
<1>2. \E f \in group : \A g \in group : f.path <= g.path
  BY <1>1
<1> QED
  BY <1>2 DEF First

Firsts(group, chosen) == {First(group[g]) : g \in chosen}

\* To report the first of the group of each chosen file is local, if the group is in the
\* file's domain.
LEMMA FirstsAreLocal ==
  ASSUME NEW doc, \A g \in doc : g.path \in Nat, NEW f, NEW chosen \in SUBSET doc,
         NEW group,
         \A g \in chosen : group[g] # {} /\ group[g] \subseteq SameDomain(doc, g)
  PROVE  /\ Firsts(group, chosen) \subseteq doc
         /\ Firsts(group, chosen \cap SameDomain(doc, f))
              = Firsts(group, chosen) \cap SameDomain(doc, f)
<1>1. ASSUME NEW g \in chosen
      PROVE  First(group[g]) \in SameDomain(doc, g)
  <2>1. group[g] # {} /\ group[g] \subseteq doc
    BY DEF SameDomain
  <2>2. First(group[g]) \in group[g]
    BY <2>1, FirstIsMember
  <2> QED
    BY <2>2
<1>2. \A g \in chosen : First(group[g]) \in doc /\
                        (g \in SameDomain(doc, f) <=> First(group[g]) \in SameDomain(doc, f))
  BY <1>1 DEF SameDomain
<1> QED
  BY <1>2 DEF Firsts

LEMMA BreadthIsLocal ==
  ASSUME NEW doc, \A g \in doc : g.path \in Nat, NEW f
  PROVE  Local(doc, f, DomainBreadth(doc), DomainBreadth(SameDomain(doc, f)))
<1> DEFINE part == SameDomain(doc, f)
           Crowded(files) ==
             {g \in HandlerSide(files) : Cardinality(SameDomain(HandlerSide(files), g)) > DomainLimit}
           Reported(files) == {First(SameDomain(HandlerSide(files), g)) : g \in Crowded(files)}
           crowd == [g \in doc |-> SameDomain(HandlerSide(doc), g)]
<1>1. \A files : DomainBreadth(files) = [domainIsNarrow |-> Reported(files)]
  BY DEF DomainBreadth
<1>2. HandlerSide(doc) \subseteq doc /\ HandlerSide(part) = HandlerSide(doc) \cap part
  BY DEF HandlerSide, SameDomain
<1>3. \A g \in part : SameDomain(HandlerSide(part), g) = SameDomain(HandlerSide(doc), g)
  BY <1>2 DEF SameDomain
<1>4. Crowded(part) = Crowded(doc) \cap part /\ Crowded(doc) \in SUBSET doc
  BY <1>2, <1>3
<1>5. \A g \in Crowded(doc) : crowd[g] # {} /\ crowd[g] \subseteq SameDomain(doc, g)
  BY <1>2 DEF SameDomain
<1>6. /\ Reported(part) = Firsts(crowd, Crowded(doc) \cap part)
      /\ Reported(doc) = Firsts(crowd, Crowded(doc))
  BY <1>3, <1>4 DEF Firsts
<1> HIDE DEF Crowded, Reported, crowd
<1>7. /\ Firsts(crowd, Crowded(doc)) \subseteq doc
      /\ Firsts(crowd, Crowded(doc) \cap part) = Firsts(crowd, Crowded(doc)) \cap part
  BY <1>4, <1>5, FirstsAreLocal
<1>8. Reported(doc) \subseteq doc /\ Reported(part) = Reported(doc) \cap part
  BY <1>6, <1>7
<1> QED
  BY <1>1, <1>8 DEF Local

LEMMA CoreRulesAreLocal ==
  ASSUME NEW doc, \A g \in doc : g.path \in Nat, NEW f
  PROVE  Local(doc, f, CoreModules(doc), CoreModules(SameDomain(doc, f)))
<1> DEFINE part == SameDomain(doc, f)
           Cores(files) == OfType(files, {"core"})
           Properties(files, g) == {t \in TestsFor(files, g) : HasPropertyTest(t)}
           Tested(files, g) == UNION {PropertyTestReferences(t) : t \in Properties(files, g)}
           Undeclared(files) == {g \in Cores(files) : g.propertyTestSurface = {}}
           Untested(files) == {g \in Cores(files) : TestsFor(files, g) = {}}
           Unproven(files) ==
             {g \in Cores(files) \ Untested(files) : Properties(files, g) = {}}
           Uncovered(files) ==
             {g \in Cores(files) \ (Untested(files) \cup Unproven(files)) :
                ~ g.propertyTestSurface \subseteq Tested(files, g)}
           FirstTests(files, chosen) == {First(TestsFor(files, g)) : g \in chosen}
           tests == [g \in doc |-> TestsFor(doc, g)]
<1>1. \A files : CoreModules(files) =
        [coreDeclaresDecisions |-> Undeclared(files),
         coreHasTests          |-> Untested(files),
         coreHasPropertyTest   |-> FirstTests(files, Unproven(files)),
         everyDecisionIsTested |-> FirstTests(files, Uncovered(files))]
  BY DEF CoreModules
<1>2. Cores(doc) \subseteq doc /\ Cores(part) = Cores(doc) \cap part
  BY PartOfDocument, TypesNest
<1>3. \A g \in part : /\ TestsFor(part, g) = TestsFor(doc, g)
                      /\ Properties(part, g) = Properties(doc, g)
                      /\ Tested(part, g) = Tested(doc, g)
  BY DomainsNest DEF TestsFor
<1> HIDE DEF part, Cores, Properties, Tested
<1>4. Undeclared(part) = Undeclared(doc) \cap part /\ Untested(part) = Untested(doc) \cap part
  BY <1>2, <1>3
<1>5. Unproven(part) = Unproven(doc) \cap part
  <2> HIDE DEF Untested
  <2> QED
    BY <1>2, <1>3, <1>4
<1>6. Uncovered(part) = Uncovered(doc) \cap part
  <2> HIDE DEF Untested, Unproven
  <2> QED
    BY <1>2, <1>3, <1>4, <1>5
<1>7. /\ Undeclared(doc) \in SUBSET doc /\ Untested(doc) \in SUBSET doc
      /\ Unproven(doc) \in SUBSET doc /\ Uncovered(doc) \in SUBSET doc
  BY <1>2
<1>8. \A g \in Unproven(doc) \cup Uncovered(doc) :
        tests[g] # {} /\ tests[g] \subseteq SameDomain(doc, g)
  <2>1. \A g \in Unproven(doc) \cup Uncovered(doc) : g \in doc /\ TestsFor(doc, g) # {}
    BY <1>2
  <2> QED
    BY <2>1 DEF TestsFor, OfType
<1> HIDE DEF Undeclared, Untested, Unproven, Uncovered
<1>9. ASSUME NEW chosen \in SUBSET doc
      PROVE  /\ FirstTests(doc, chosen) = Firsts(tests, chosen)
             /\ FirstTests(part, chosen \cap part) = Firsts(tests, chosen \cap part)
  BY <1>3 DEF Firsts
<1> HIDE DEF FirstTests, tests
<1>10. ASSUME NEW chosen \in {Unproven(doc), Uncovered(doc)}
       PROVE  /\ FirstTests(doc, chosen) \subseteq doc
              /\ FirstTests(part, chosen \cap part) = FirstTests(doc, chosen) \cap part
  <2>1. chosen \in SUBSET doc
    BY <1>7
  <2>2. \A g \in chosen : tests[g] # {} /\ tests[g] \subseteq SameDomain(doc, g)
    BY <1>8
  <2>3. /\ Firsts(tests, chosen) \subseteq doc
        /\ Firsts(tests, chosen \cap part) = Firsts(tests, chosen) \cap part
    BY <2>1, <2>2, FirstsAreLocal DEF part
  <2> QED
    BY <1>9, <2>1, <2>3
<1>11. /\ FirstTests(doc, Unproven(doc)) \subseteq doc
       /\ FirstTests(doc, Uncovered(doc)) \subseteq doc
       /\ FirstTests(part, Unproven(part)) = FirstTests(doc, Unproven(doc)) \cap part
       /\ FirstTests(part, Uncovered(part)) = FirstTests(doc, Uncovered(doc)) \cap part
  BY <1>5, <1>6, <1>10
<1> QED
  BY <1>1, <1>4, <1>7, <1>11 DEF Local, part

---------------------------------------------------------------------------
(* The violations of a document are those of its domains.                  *)

LEMMA DomainVerdicts ==
  ASSUME NEW doc, \A g \in doc : g.path \in Nat, NEW f,
         NEW v \in Evaluate(SameDomain(doc, f))
  PROVE  v \in Evaluate(doc) /\ v.path \in {g.path : g \in SameDomain(doc, f)}
BY DomainReports, ConsistencyIsLocal, MetadataIsLocal, ExemptionsAreLocal,
   BreadthIsLocal, BoundariesAreLocal, DirectionIsLocal, InterfaceRulesAreLocal,
   ValueRulesAreLocal, ShellRulesAreLocal, CoreRulesAreLocal, StateRulesAreLocal
DEF Evaluate

LEMMA DocumentVerdicts ==
  ASSUME NEW doc, \A g \in doc : g.path \in Nat, NEW v \in Evaluate(doc)
  PROVE  \E f \in doc : v \in Evaluate(SameDomain(doc, f))
<1>1. CASE v \in Reports(FactConsistency(doc))
  <2>1. PICK f \in doc : \A part : Local(doc, f, FactConsistency(doc), part) => v \in Reports(part)
    BY <1>1, ConsistencyIsLocal, DocumentReports
  <2> QED
    BY <2>1, ConsistencyIsLocal DEF Evaluate
<1>2. CASE v \in Reports(FileMetadata(doc))
  <2>1. PICK f \in doc : \A part : Local(doc, f, FileMetadata(doc), part) => v \in Reports(part)
    BY <1>2, MetadataIsLocal, DocumentReports
  <2> QED
    BY <2>1, MetadataIsLocal DEF Evaluate
<1>3. CASE v \in Reports(ExemptionAdmissibility(doc))
  <2>1. PICK f \in doc : \A part : Local(doc, f, ExemptionAdmissibility(doc), part) => v \in Reports(part)
    BY <1>3, ExemptionsAreLocal, DocumentReports
  <2> QED
    BY <2>1, ExemptionsAreLocal DEF Evaluate
<1>4. CASE v \in Reports(DomainBreadth(doc))
  <2>1. PICK f \in doc : \A part : Local(doc, f, DomainBreadth(doc), part) => v \in Reports(part)
    BY <1>4, BreadthIsLocal, DocumentReports
  <2> QED
    BY <2>1, BreadthIsLocal DEF Evaluate
<1>5. CASE v \in Reports(EffectBoundaries(doc))
  <2>1. PICK f \in doc : \A part : Local(doc, f, EffectBoundaries(doc), part) => v \in Reports(part)
    BY <1>5, BoundariesAreLocal, DocumentReports
  <2> QED
    BY <2>1, BoundariesAreLocal DEF Evaluate
<1>6. CASE v \in Reports(DependencyDirection(doc))
  <2>1. PICK f \in doc : \A part : Local(doc, f, DependencyDirection(doc), part) => v \in Reports(part)
    BY <1>6, DirectionIsLocal, DocumentReports
  <2> QED
    BY <2>1, DirectionIsLocal DEF Evaluate
<1>7. CASE v \in Reports(InterfaceModules(doc))
  <2>1. PICK f \in doc : \A part : Local(doc, f, InterfaceModules(doc), part) => v \in Reports(part)
    BY <1>7, InterfaceRulesAreLocal, DocumentReports
  <2> QED
    BY <2>1, InterfaceRulesAreLocal DEF Evaluate
<1>8. CASE v \in Reports(ValueModules(doc))
  <2>1. PICK f \in doc : \A part : Local(doc, f, ValueModules(doc), part) => v \in Reports(part)
    BY <1>8, ValueRulesAreLocal, DocumentReports
  <2> QED
    BY <2>1, ValueRulesAreLocal DEF Evaluate
<1>9. CASE v \in Reports(ShellModules(doc))
  <2>1. PICK f \in doc : \A part : Local(doc, f, ShellModules(doc), part) => v \in Reports(part)
    BY <1>9, ShellRulesAreLocal, DocumentReports
  <2> QED
    BY <2>1, ShellRulesAreLocal DEF Evaluate
<1>10. CASE v \in Reports(CoreModules(doc))
  <2>1. PICK f \in doc : \A part : Local(doc, f, CoreModules(doc), part) => v \in Reports(part)
    BY <1>10, CoreRulesAreLocal, DocumentReports
  <2> QED
    BY <2>1, CoreRulesAreLocal DEF Evaluate
<1>11. CASE v \in Reports(StateModules(doc))
  <2>1. PICK f \in doc : \A part : Local(doc, f, StateModules(doc), part) => v \in Reports(part)
    BY <1>11, StateRulesAreLocal, DocumentReports
  <2> QED
    BY <2>1, StateRulesAreLocal DEF Evaluate
<1> QED
  BY <1>1, <1>2, <1>3, <1>4, <1>5, <1>6, <1>7, <1>8, <1>9, <1>10, <1>11 DEF Evaluate

\* Verdicts do not leak between domains, for any document that an adapter answers with
\* (evaluate): no rule links files of two domains, and each violation is reported in the
\* domain that causes it.
THEOREM LocalVerdicts == Spec => []VerdictsAreLocal
<1>1. IInv => VerdictsAreLocal
  <2> SUFFICES ASSUME IInv, NEW i \in DOMAIN parsed
               PROVE  /\ Evaluate(parsed[i])
                           = UNION {Evaluate(SameDomain(parsed[i], f)) : f \in parsed[i]}
                      /\ \A f \in parsed[i] : \A v \in Evaluate(SameDomain(parsed[i], f)) :
                           v.path \in {g.path : g \in SameDomain(parsed[i], f)}
    BY DEF VerdictsAreLocal, SameDomain
  <2>1. PICK doc : parsed = <<doc>> /\ ValidDocument(doc)
    BY DEF IInv, Ledger, ReturnedIsCurrent
  <2>2. i = 1 /\ parsed[i] = doc
    BY <2>1
  <2>3. \A g \in doc : g.path \in Nat
    BY <2>1 DEF ValidDocument, ValidFile
  <2> QED
    BY <2>2, <2>3, DomainVerdicts, DocumentVerdicts
<1> QED
  BY <1>1, LedgerHolds, PTL
=============================================================================
