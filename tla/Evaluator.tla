------------------------------ MODULE Evaluator ------------------------------
(***************************************************************************)
(* A run of evaluate.py: main, evaluate_adapters and run_adapter.  The     *)
(* requested adapters run one after the other; each document is validated, *)
(* parsed and evaluated alone, before the next adapter starts; the first   *)
(* failure ends the run and drops what was found so far.                   *)
(*                                                                         *)
(* The run that reads one document from a file or from standard input is   *)
(* the run with one source.                                                *)
(***************************************************************************)
EXTENDS Policy

CONSTANTS AdapterCount,  \* how many --adapter options, at least one source
          Documents      \* the JSON documents adapters print, valid or not

ASSUME AdapterCountAssumption == AdapterCount \in Nat \ {0}
ASSUME DocumentsAssumption == \A doc \in Documents : IsFiniteSet(doc)

VARIABLES adapter,     \* position of the adapter evaluate_adapters is at
          parsed,      \* the document run_adapter returned: << >> or <<doc>>
          raised,      \* an exception is on its way to main
          violations,  \* the accumulator of evaluate_adapters
          exit,        \* Running or the exit status of main
          printed,     \* the violations main printed
          answer       \* history: what each adapter answered

vars == <<adapter, parsed, raised, violations, exit, printed, answer>>

Sources == 1 .. AdapterCount

\* Not an exit status: main has not returned.
Running == -1

Silent        == [kind |-> "silent"]
Failed        == [kind |-> "failed"]
Document(doc) == [kind |-> "document", files |-> doc]

Init ==
  /\ adapter = 1
  /\ parsed = << >>
  /\ raised = FALSE
  /\ violations = {}
  /\ exit = Running
  /\ printed = {}
  /\ answer = [i \in Sources |-> Silent]

AdapterDue == /\ exit = Running
              /\ ~ raised
              /\ adapter \in Sources
              /\ parsed = << >>

Raise == /\ raised' = TRUE
         /\ answer' = [answer EXCEPT ![adapter] = Failed]
         /\ UNCHANGED <<adapter, parsed, violations, exit, printed>>

\* run_adapter raises: an option the adapter requires is missing, its process
\* exits with an error, or its output is not JSON.
AdapterFails == AdapterDue /\ Raise

\* The output is JSON that the schema refuses.
SchemaRefuses(doc) == AdapterDue /\ ~ ValidDocument(doc) /\ Raise

\* run_adapter returns the parsed document.
RunAdapter(doc) ==
  /\ AdapterDue
  /\ ValidDocument(doc)
  /\ parsed' = <<doc>>
  /\ answer' = [answer EXCEPT ![adapter] = Document(doc)]
  /\ UNCHANGED <<adapter, raised, violations, exit, printed>>

EvaluateDocument_slip ==
  /\ parsed # << >>
  /\ violations' = Evaluate(parsed[1])
  /\ parsed' = << >>
  /\ adapter' = adapter + 1
  /\ UNCHANGED <<raised, exit, printed, answer>>

\* violations.extend(evaluate(...)), then the next adapter.
EvaluateDocument ==
  /\ parsed # << >>
  /\ violations' = violations \cup Evaluate(parsed[1])
  /\ parsed' = << >>
  /\ adapter' = adapter + 1
  /\ UNCHANGED <<raised, exit, printed, answer>>

Diagnose_slip ==
  /\ raised
  /\ exit = Running
  /\ violations = {}
  /\ exit' = 1
  /\ UNCHANGED <<adapter, parsed, raised, violations, printed, answer>>

\* The except branch of main: one diagnostic, no violation, status 1.
Diagnose ==
  /\ raised
  /\ exit = Running
  /\ exit' = 1
  /\ UNCHANGED <<adapter, parsed, raised, violations, printed, answer>>

\* main prints the violations and returns.
Report ==
  /\ exit = Running
  /\ adapter = AdapterCount + 1
  /\ printed' = violations
  /\ exit' = IF violations = {} THEN 0 ELSE 1
  /\ UNCHANGED <<adapter, parsed, raised, violations, answer>>

Next ==
  \/ AdapterFails
  \/ \E doc \in Documents : SchemaRefuses(doc) \/ RunAdapter(doc)
  \/ EvaluateDocument
  \/ Diagnose
  \/ Report

Spec == Init /\ [][Next]_vars

\* The evaluator's own steps.  An adapter process is waited for without a
\* timeout, so nothing obliges it to answer.
FairSpec == Spec /\ WF_vars(EvaluateDocument \/ Diagnose \/ Report)

---------------------------------------------------------------------------
TypeOK ==
  /\ adapter \in 1 .. AdapterCount + 1
  /\ parsed = << >> \/ \E doc \in Documents : parsed = <<doc>>
  /\ raised \in BOOLEAN
  /\ exit \in {Running, 0, 1}
  /\ printed \subseteq violations
  /\ answer \in [Sources -> {Silent, Failed} \cup {Document(d) : d \in Documents}]

Promise == INSTANCE Conformance
             WITH verdict <- CASE exit = Running -> "pending"
                               [] exit = 0         -> "accepted"
                               [] exit = 1         -> "rejected"

\* A run implements the promise: it accepts exactly when every adapter answered
\* with a document and every document conforms (README "Enforcement Model").
Refines == Promise!Spec

Accepted == exit = 0

\* In an accepted run every callable decision of every core is exercised by a
\* generated input of a same-domain property test in a test scope that really
\* calls it: the chain through the core, consistency and metadata rules.
AcceptedDecisionsTested ==
  Accepted => \A i \in Sources : Promise!DecisionsTested(answer[i].files)

\* In an accepted run every handler reaches, by qualified name, a decision or
\* product of a property-tested core of its own domain and document.
AcceptedHandlersDecide ==
  Accepted => \A i \in Sources : Promise!HandlersDecide(answer[i].files)

\* In an accepted run every state module calls a core decision that a temporal
\* trace of a same-domain stateTest reaches; an unrelated trace is not enough.
AcceptedStateCovered ==
  Accepted => \A i \in Sources : Promise!StateCovered(answer[i].files)

\* In an accepted run temporal traces stand in stateTest files only, and each
\* stateTest reaches a core decision and has a state module.
AcceptedTracesBelong ==
  Accepted => \A i \in Sources : Promise!TracesBelong(answer[i].files)

\* In an accepted run no effect and no shared state hides under a label that
\* does not admit it, whichever of the evidence lists carries it.
AcceptedEffectsConfined ==
  Accepted => \A i \in Sources : Promise!EffectsConfined(answer[i].files)

\* In an accepted run interfaces, values and exemptions hide no logic.
AcceptedInert ==
  Accepted => \A i \in Sources : Promise!Inert(answer[i].files)

\* In an accepted run the pure layer names no shell or state symbol of its
\* domain.
AcceptedLayersRespected ==
  Accepted => \A i \in Sources : Promise!LayersRespected(answer[i].files)

\* In an accepted run every file declares a type and, unless exempt, a
\* well-formed domain: nothing escapes the other rules by having no label or
\* one the evaluator does not know.
AcceptedDeclared ==
  Accepted => \A i \in Sources : Promise!Declared(answer[i].files)

\* In an accepted run no domain holds more than DomainLimit handler-side
\* modules.
AcceptedDomainsNarrow ==
  Accepted => \A i \in Sources : Promise!DomainsNarrow(answer[i].files)

\* The verdict on a domain depends on the files of that domain alone, and a
\* violation is reported at one of them: rules never link across domains.
VerdictsAreLocal ==
  \A i \in DOMAIN parsed :
    LET doc   == parsed[i]
        Slice(f) == {g \in doc : g.domain = f.domain}
    IN  /\ Evaluate(doc) = UNION {Evaluate(Slice(f)) : f \in doc}
        /\ \A f \in doc : \A v \in Evaluate(Slice(f)) :
             v.path \in {g.path : g \in Slice(f)}

\* No document and no violation is lost between adapters: a run that ends without
\* a failed adapter printed exactly what each document earns, taken alone, and a
\* run that rejects without printing anything had an adapter that failed.
NothingSkipped ==
  /\ exit # Running /\ (\A i \in Sources : answer[i] # Failed) =>
       /\ \A i \in Sources : answer[i].kind = "document"
       /\ printed = UNION {Evaluate(answer[i].files) : i \in Sources}
  /\ Accepted => \A i \in Sources : answer[i] # Failed
  /\ exit = 1 /\ printed = {} => \E i \in Sources : answer[i] = Failed

\* Once the last adapter has answered, or one has failed, the run ends.
AnsweredRunEnds ==
  (answer[AdapterCount] # Silent \/ \E i \in Sources : answer[i] = Failed)
    ~> exit # Running
=============================================================================
