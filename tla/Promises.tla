------------------------------ MODULE Promises ------------------------------
(***************************************************************************)
(* What archlint promises about one accepted fact document.                *)
(*                                                                         *)
(* The promises follow the README's "Enforcement Model", "Exemptions" and  *)
(* "Fact Schema".  They are stated on the raw facts, as chains of evidence *)
(* that run through several files, and share no definition with the        *)
(* evaluator's rules.                                                      *)
(***************************************************************************)
EXTENDS Integers, FiniteSets

CONSTANTS ValidDomains,  \* well-formed domain names
          DomainLimit    \* most handler-side modules of one domain

---------------------------------------------------------------------------
(* The parts of a document.                                                *)

Effectful(f) == \/ f.effectfulImports # {}
                \/ f.effectfulIdentifiers # {}
                \/ f.effectfulReferences # {}

Behaving(f) ==
  f.logic.functionBodies \cup f.logic.constructorBodies \cup f.logic.controlFlow
    # {}

Typed(doc, type) == {f \in doc : f.moduleType = type}

Peers(doc, f, type) == {g \in Typed(doc, type) : g.domain = f.domain}

Tests(doc, f) == Peers(doc, f, "test") \cup Peers(doc, f, "stateTest")

\* Test file t exercises symbol s with a generated input it uses.
Exercises(t, s) ==
  \E check \in t.propertyChecks :
    /\ s \in check.references
    /\ \E i \in check.generatedInputs : i.uses # {}

\* Test file t reaches symbol s in a trace that has operations and assertions.
Traces(t, s) ==
  \E check \in t.propertyChecks : \E q \in check.operationSequences :
    /\ q.operations # {} /\ q.assertions # {}
    /\ s \in q.operations \cup q.assertions

---------------------------------------------------------------------------
(* The promises.                                                           *)

\* Every file says what it is, consistently with where it stands.
Declared(doc) == \A f \in doc :
  \/ /\ f.moduleType = "exempt"
     /\ f.domain = ""
     /\ f.exemptReason \in {"effect-boundary", "effect-facade", "entrypoint",
                            "pure-glue", "static-data", "test-support"}
  \/ /\ f.moduleType \in {"core", "interface", "value", "shell", "state",
                          "test", "stateTest"}
     /\ f.domain \in ValidDomains
     /\ f.exemptReason = ""
     /\ (f.testScope # "") <=> (f.moduleType \in {"test", "stateTest"})

\* Every callable decision of every core is exercised, from generated input, by
\* a same-domain test file that stands in a test scope and really calls it.
DecisionsTested(doc) == \A c \in Typed(doc, "core") :
  /\ c.propertyTestSurface # {}
  /\ \A s \in c.propertyTestSurface :
       \E t \in Tests(doc, c) :
         /\ Exercises(t, s)
         /\ s \in t.apiReferences
         /\ t.testScope # ""

\* Every handler performs effects and executes a decision, or a product of one,
\* that a same-domain core declares; a property test of the domain backs that
\* core.
HandlersDecide(doc) == \A h \in Typed(doc, "shell") :
  /\ Effectful(h)
  /\ \E c \in Peers(doc, h, "core") :
       /\ \E s \in (c.decisionSurface \cup c.decisionProducts) \cap c.identifiers :
            <<c.moduleName, s>> \in h.qualifiedReferences
       /\ c.moduleName # ""
       /\ \E t \in Tests(doc, h) : \E s \in c.propertyTestSurface : Exercises(t, s)

\* Every state module owns state and calls a decision of a same-domain core that
\* a same-domain stateTest reaches in a temporal trace.
StateCovered(doc) == \A m \in Typed(doc, "state") :
  /\ Effectful(m) \/ m.sharedState # {}
  /\ \E c \in Peers(doc, m, "core"), t \in Peers(doc, m, "stateTest") :
       \E s \in c.decisionSurface \cap m.apiReferences \cap t.apiReferences :
         Traces(t, s)

\* Temporal traces occur in stateTest files and nowhere else; each stateTest has
\* a state module to test and reaches a decision of its domain.
TracesBelong(doc) ==
  /\ \A t \in doc :
       (\E check \in t.propertyChecks : \E q \in check.operationSequences :
          q.operations # {} /\ q.assertions # {}) => t.moduleType = "stateTest"
  /\ \A t \in Typed(doc, "stateTest") :
       /\ Peers(doc, t, "state") # {}
       /\ \E c \in Peers(doc, t, "core") :
            \E s \in c.decisionSurface \cap t.apiReferences : Traces(t, s)

\* Effects live in handlers, states, checked interfaces and tests, or under one
\* of the two exemptions that admit them; shared state in states, tests and
\* exemptions.
EffectsConfined(doc) == \A f \in doc :
  /\ Effectful(f) =>
       \/ f.moduleType \in {"shell", "state", "interface", "test", "stateTest"}
       \/ /\ f.moduleType = "exempt"
          /\ f.exemptReason \in {"entrypoint", "effect-boundary"}
  /\ f.sharedState # {} => f.moduleType \in {"state", "test", "stateTest", "exempt"}

\* The escape hatches and the vocabulary modules hide no logic.
Inert(doc) == \A f \in doc :
  /\ f.moduleType = "value" =>
       ~ Behaving(f) /\ f.logic.imperativeDeclarations = {}
  /\ f.moduleType = "interface" =>
       /\ ~ Behaving(f)
       /\ f.logic.derivedValueBodies \cup f.logic.imperativeDeclarations = {}
  /\ f.moduleType = "exempt" =>
       /\ f.exemptReason \in {"entrypoint", "static-data"} => ~ Behaving(f)
       /\ f.exemptReason = "pure-glue" => f.logic.controlFlow = {}
       /\ f.exemptReason = "effect-boundary" => Effectful(f)

\* The pure layer names no symbol of a same-domain shell or state module.
LayersRespected(doc) ==
  \A f \in Typed(doc, "core") \cup Typed(doc, "value") :
    \A g \in Peers(doc, f, "shell") \cup Peers(doc, f, "state") :
      \A s \in g.decisionReferences :
        g.moduleName # "" => <<g.moduleName, s>> \notin f.qualifiedReferences

\* No domain is broad enough to make linkage within it meaningless.
DomainsNarrow(doc) == \A d \in ValidDomains :
  Cardinality({f \in doc : /\ f.domain = d
                           /\ f.moduleType \in {"core", "shell", "state"}})
    <= DomainLimit

\* The facts of a file agree with each other.
Coherent(doc) == \A f \in doc :
  /\ f.effectfulImports \subseteq f.imports
  /\ f.effectfulIdentifiers \cup f.decisionSurface \cup f.propertyTestSurface
       \cup f.decisionProducts \cup f.decisionReferences
       \cup f.logic.functionBodies \cup f.logic.constructorBodies
       \cup f.logic.derivedValueBodies \subseteq f.identifiers
  /\ \A e \in f.effectfulReferences :
       /\ e.enclosing \in f.identifiers \cup {""}
       /\ e.origin = "dependency-summary" => e.summarised
  /\ \A check \in f.propertyChecks :
       /\ (\E i \in check.generatedInputs : i.uses # {})
            => check.references \subseteq f.apiReferences
       /\ \A q \in check.operationSequences :
            /\ q.operations \cup q.assertions \subseteq f.apiReferences
            /\ \E other \in f.propertyChecks :
                 \E i \in other.generatedInputs : i.name = q.input

Conformant(doc) ==
  /\ Declared(doc)
  /\ DecisionsTested(doc)
  /\ HandlersDecide(doc)
  /\ StateCovered(doc)
  /\ TracesBelong(doc)
  /\ EffectsConfined(doc)
  /\ Inert(doc)
  /\ LayersRespected(doc)
  /\ DomainsNarrow(doc)
  /\ Coherent(doc)
=============================================================================
