---------------------------- MODULE MCEvaluator ----------------------------
(***************************************************************************)
(* Documents on which TLC checks the evaluator.  Each family varies the    *)
(* files of one rule group around a document that conforms: a document     *)
(* takes at most one file from each slot.                                  *)
(***************************************************************************)
EXTENDS Evaluator

MCValidDomains == {"mail", "http"}

Blank ==
  [path |-> 0, moduleType |-> None, domain |-> "mail", exemptReason |-> None,
   testScope |-> None, moduleName |-> None, imports |-> {"net"},
   identifiers |-> {}, apiReferences |-> {}, decisionSurface |-> {},
   propertyTestSurface |-> {}, decisionProducts |-> {},
   decisionReferences |-> {}, qualifiedReferences |-> {},
   effectfulImports |-> {}, effectfulIdentifiers |-> {},
   effectfulReferences |-> {}, sharedState |-> {}, propertyChecks |-> {},
   logic |-> [functionBodies |-> {}, constructorBodies |-> {},
              derivedValueBodies |-> {}, controlFlow |-> {},
              imperativeDeclarations |-> {}]]

\* A document with at most one file of each of the slots.
Pick(slot) == {{}} \cup {{f} : f \in slot}

---------------------------------------------------------------------------
(* Files.                                                                  *)

Core(path, domain, name, surface) ==
  [Blank EXCEPT !.path = path, !.moduleType = "core", !.domain = domain,
     !.moduleName = name, !.identifiers = surface \cup {"Plan"},
     !.decisionSurface = surface, !.propertyTestSurface = surface,
     !.decisionProducts = {"Plan"}, !.decisionReferences = surface \cup {"Plan"}]

Shell(path, domain, references) ==
  [Blank EXCEPT !.path = path, !.moduleType = "shell", !.domain = domain,
     !.moduleName = "Shell", !.identifiers = {"run"},
     !.decisionReferences = {"run"}, !.qualifiedReferences = references,
     !.effectfulImports = {"net"}]

Check(references, uses, sequences) ==
  [references |-> references,
   generatedInputs |-> {[name |-> "x", uses |-> uses]},
   operationSequences |-> sequences]

Sequence(input, operations, assertions) ==
  [input |-> input, operations |-> operations, assertions |-> assertions]

Test(path, domain, type, api, checks) ==
  [Blank EXCEPT !.path = path, !.moduleType = type, !.domain = domain,
     !.testScope = "scope", !.apiReferences = api, !.propertyChecks = checks]

State(path, domain, api) ==
  [Blank EXCEPT !.path = path, !.moduleType = "state", !.domain = domain,
     !.moduleName = "Store", !.identifiers = {"run"},
     !.decisionReferences = {"run"}, !.apiReferences = api,
     !.sharedState = {"lock"}]

---------------------------------------------------------------------------
(* Shell-to-core linkage and property coverage, in two domains.            *)

MailCores ==
  {Core(3, "mail", "Core", surface) : surface \in {{"decide"}, {"decide", "plan"}}}
    \cup {[Core(3, "mail", "Core", {"decide"}) EXCEPT !.qualifiedReferences = {q}] :
            q \in {<<"Shell", "run">>, <<"Other", "run">>}}
    \cup {[Core(3, "mail", "Core", {"decide"}) EXCEPT !.propertyTestSurface = {}],
          Core(3, "mail", None, {"decide"}),
          Core(3, "mail", "Core", {})}

HttpCores == {Core(6, "http", "Other", {"decide"})}

MailShells ==
  {Shell(4, "mail", {<<m, s>>}) : m \in {"Core", "Other"}, s \in {"decide", "Plan"}}
    \cup {Shell(4, "mail", {}), Shell(4, "mail", {<<None, "decide">>}),
          [Shell(4, "mail", {<<"Core", "decide">>}) EXCEPT !.effectfulImports = {}]}

MailTests ==
  {Test(2, "mail", "test", {"decide", "plan"}, checks) :
     checks \in {{}, {Check({"decide"}, {"x"}, {})},
                 {Check({"decide", "plan"}, {"x"}, {})},
                 {Check({"decide"}, {"x"}, {}), Check({"plan"}, {}, {})}}}
    \cup {Test(2, "mail", "test", {}, {Check({"decide"}, {"x"}, {})}),
          [Test(2, "mail", "test", {"decide"}, {Check({"decide"}, {"x"}, {})})
             EXCEPT !.testScope = None]}

OtherTests == {Test(1, d, "test", {"decide"}, {Check({"decide"}, {"x"}, {})}) :
                 d \in {"mail", "http"}}

LinkageDocuments ==
  {a \cup b \cup c \cup d \cup e :
     a \in Pick(MailCores), b \in Pick(HttpCores), c \in Pick(MailShells),
     d \in Pick(MailTests), e \in Pick(OtherTests)}

---------------------------------------------------------------------------
(* State coverage by temporal traces.                                      *)

Trace == Sequence("x", {"decide"}, {"holds"})

TraceTests ==
  {Test(2, "mail", type, {"decide", "holds", "plan"},
        {Check({"decide"}, {"x"}, {s})}) :
     type \in {"test", "stateTest"},
     s \in {Trace, Sequence("x", {"decide"}, {}), Sequence("y", {"decide"}, {"holds"}),
            Sequence("x", {"plan"}, {"holds"})}}
    \cup {Test(2, "http", "stateTest", {"decide", "holds"},
               {Check({"decide"}, {"x"}, {Trace})}),
          Test(2, "mail", "stateTest", {"decide"},
               {Check({"decide"}, {"x"}, {Trace})})}

States ==
  {State(5, d, api) : d \in {"mail", "http"},
                      api \in {{"decide"}, {"plan"}, {"decide", "plan"}}}
    \cup {[State(5, "mail", {"decide"}) EXCEPT !.sharedState = {}]}

StateDocuments ==
  {a \cup b \cup c \cup d \cup e :
     a \in Pick({Core(3, "mail", "Core", {s}) : s \in {"decide", "plan"}}),
     b \in Pick(HttpCores), c \in Pick(States), d \in Pick(TraceTests),
     e \in Pick({t \in OtherTests : t.domain = "http"} \cup {State(1, "mail", {"plan"})})}

---------------------------------------------------------------------------
(* One file of any shape beside a conforming domain.                       *)

Backdrop ==
  {Core(3, "mail", "Core", {"decide"}), State(5, "mail", {"decide"}),
   Test(2, "mail", "stateTest", {"decide", "holds"},
        {Check({"decide"}, {"x"}, {Trace})})}

Effect(kind, origin) ==
  [kind |-> kind, origin |-> origin, enclosing |-> None, summarised |-> FALSE]

\* The ways a file shows effects or shared state, applied to file f.
WithEvidence(f) ==
  {f,
   [f EXCEPT !.effectfulImports = {"net"}],
   [f EXCEPT !.effectfulIdentifiers = {"run"}],
   [f EXCEPT !.effectfulReferences = {Effect("import", "standard-library")}],
   [f EXCEPT !.effectfulReferences = {Effect("call", "local-call-expansion")}],
   [f EXCEPT !.effectfulReferences = {Effect("call", "dependency-summary")}],
   [f EXCEPT !.sharedState = {"lock"}]}

\* The ways a file shows logic, applied to file f.
WithLogic(f) ==
  {f,
   [f EXCEPT !.logic.functionBodies = {"run"}],
   [f EXCEPT !.logic.constructorBodies = {"run"}],
   [f EXCEPT !.logic.derivedValueBodies = {"run"}],
   [f EXCEPT !.logic.controlFlow = {"if"}],
   [f EXCEPT !.logic.imperativeDeclarations = {"do"}]}

Labelled ==
  {[Blank EXCEPT !.path = 4, !.moduleType = type, !.domain = domain,
      !.exemptReason = reason, !.testScope = scope, !.moduleName = "File",
      !.identifiers = {"run"}, !.apiReferences = {"decide"},
      !.decisionReferences = {"run"},
      !.qualifiedReferences = {<<"Core", "decide">>}] :
     type \in {None, "core", "interface", "value", "shell", "state", "test",
               "exempt", "service"},
     domain \in {None, "mail", "Mail"},
     reason \in ExemptReasons \cup {None},
     scope \in {None, "scope"}}

\* A label is spoilt in one way at a time, to keep the family small.
PlausibleLabels ==
  {f \in Labelled :
     \/ f.moduleType = "exempt" /\ f.domain # "Mail" /\ f.testScope = None
     \/ f.exemptReason = None
     \/ f.exemptReason = "pure-glue" /\ f.domain = "mail" /\ f.testScope = None}

SingleFileDocuments ==
  {Backdrop \cup {f} :
     f \in UNION {WithLogic(h) \cup WithEvidence(h) : h \in PlausibleLabels}}

---------------------------------------------------------------------------
(* Several handler-side modules in each of two domains.                    *)

BreadthDocuments ==
  LET handlers == {Core(3, "mail", "Core", {"decide"}), Core(6, "http", "Other", {"decide"})}
                    \cup {Shell(p, "mail", {<<"Core", "decide">>}) : p \in {4, 7, 8}}
                    \cup {Shell(p, "http", {<<"Other", "Plan">>}) : p \in {10, 11}}
      others == {Test(2, "mail", "test", {"decide"}, {Check({"decide"}, {"x"}, {})}),
                 Test(1, "http", "test", {"decide"}, {Check({"decide"}, {"x"}, {})}),
                 [Blank EXCEPT !.path = 9, !.moduleType = "value", !.domain = "mail"]}
  IN  {files \cup others : files \in SUBSET handlers}

---------------------------------------------------------------------------
(* Few documents, for runs of several adapters: conforming ones, one whose *)
(* handler only a file of another document could back, one the schema      *)
(* refuses.                                                                *)

AdapterDocuments ==
  {{}, Backdrop, {Shell(4, "mail", {<<"Core", "decide">>})},
   Backdrop \cup {Shell(4, "mail", {<<"Core", "decide">>})},
   {[Blank EXCEPT !.moduleType = "service"]}}

---------------------------------------------------------------------------
(* All families on which the promises about documents are checked.         *)

PolicyDocuments ==
  LinkageDocuments \cup StateDocuments \cup SingleFileDocuments \cup BreadthDocuments
=============================================================================
