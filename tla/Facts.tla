------------------------------- MODULE Facts -------------------------------
(***************************************************************************)
(* The fact document an adapter emits (fact.schema.json) and what the      *)
(* evaluator derives from one file fact when it parses it                  *)
(* (parse_source_file in evaluate.py).                                     *)
(*                                                                         *)
(* A document is a set of file facts with distinct paths.  A path is a     *)
(* natural number, its rank in the order sorted() gives to paths; a name   *)
(* is any value; the absent tag or name is the empty string; a qualified   *)
(* reference "Module.symbol" is the pair <<Module, symbol>>.  A JSON list  *)
(* is the set of its items: the evaluator turns every list it reads into a *)
(* set or only asks whether some item of it has a property.                *)
(*                                                                         *)
(* A definition whose name ends in _slip is a plausible programming slip   *)
(* in the definition of that name; no specification uses it.               *)
(***************************************************************************)
EXTENDS Integers

\* The empty tag or name.
None == ""

ModuleTypes_slip == {"core", "interface", "value", "shell", "state", "test",
                     "stateTest", "exempt", "service"}

ModuleTypes == {"core", "interface", "value", "shell", "state", "test",
                "stateTest", "exempt"}
ExemptReasons == {"effect-boundary", "effect-facade", "entrypoint",
                  "pure-glue", "static-data", "test-support"}
EffectKinds == {"call", "new", "import", "identifier"}
EffectOrigins == {"standard-library", "global", "dependency-summary",
                  "local-call-expansion"}

\* What the schema asks of one file: the enumerations of the metadata and of
\* the effect evidence, and no empty string where an item must not be empty.
ValidFile(f) ==
  /\ f.path \in Nat
  /\ f.moduleType \in ModuleTypes \cup {None}
  /\ f.exemptReason \in ExemptReasons \cup {None}
  /\ \A e \in f.effectfulReferences : /\ e.kind \in EffectKinds
                                      /\ e.origin \in EffectOrigins
  /\ \A names \in {f.imports, f.identifiers, f.apiReferences,
                   f.decisionSurface, f.propertyTestSurface,
                   f.decisionProducts, f.decisionReferences,
                   f.effectfulImports, f.effectfulIdentifiers} :
       None \notin names

\* FACT_VALIDATOR accepts the document.
ValidDocument(doc) == \A f \in doc : ValidFile(f)

---------------------------------------------------------------------------
(* Property-test evidence.                                                 *)

HasUsedInput(check) == \E i \in check.generatedInputs : i.uses # {}

MeaningfulChecks_slip(f) == f.propertyChecks

MeaningfulChecks(f) == {c \in f.propertyChecks : HasUsedInput(c)}

PropertyTestReferences(f) == UNION {c.references : c \in MeaningfulChecks(f)}

HasPropertyTest(f) == f.propertyChecks # {}

SequencesOf(f) == UNION {c.operationSequences : c \in f.propertyChecks}

SequenceReferences(s) == s.operations \cup s.assertions

IsTemporal_slip(s) == s.operations # {}

IsTemporal(s) == s.operations # {} /\ s.assertions # {}

TemporalSequences(f) == {s \in SequencesOf(f) : IsTemporal(s)}

HasOperationSequences(f) == TemporalSequences(f) # {}

OperationSequenceReferences(f) ==
  UNION {SequenceReferences(s) : s \in TemporalSequences(f)}

GeneratedInputNames(f) ==
  UNION {{i.name : i \in c.generatedInputs} : c \in f.propertyChecks}

---------------------------------------------------------------------------
(* Effect, shared-state and logic evidence.                                *)

HasEffectfulImports(f) ==
  \/ f.effectfulImports # {}
  \/ \E e \in f.effectfulReferences : e.kind = "import"

HasEffectfulIdentifiers_slip(f) == f.effectfulIdentifiers # {}

HasEffectfulIdentifiers(f) ==
  \/ f.effectfulIdentifiers # {}
  \/ \E e \in f.effectfulReferences : e.kind # "import"

HasEffects(f) == HasEffectfulImports(f) \/ HasEffectfulIdentifiers(f)

HasSharedState(f) == f.sharedState # {}

HasConstructors_slip(f) == f.logic.functionBodies # {}

HasFunctions(f)    == f.logic.functionBodies # {}
HasConstructors(f) == f.logic.constructorBodies # {}
HasDerived(f)      == f.logic.derivedValueBodies # {}
HasControlFlow(f)  == f.logic.controlFlow # {}
HasImperative(f)   == f.logic.imperativeDeclarations # {}

\* "Module.symbol" for every symbol of a module.
Qualify(module, symbols) == {<<module, s>> : s \in symbols}
=============================================================================
