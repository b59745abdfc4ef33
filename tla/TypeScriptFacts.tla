--------------------------- MODULE TypeScriptFacts ---------------------------
(***************************************************************************)
(* The document that the TypeScript adapter prints (sourceFact of          *)
(* typescript/src/main.ts, with the two walks that collect what it         *)
(* contains), and what the evaluator's verdict on it says of the program.  *)
(*                                                                         *)
(* For this a source record also has:                                      *)
(*   comments      the lines of the comments before the code, as words     *)
(*   imports       the modules that it imports, reexports those from       *)
(*                 which it exports                                        *)
(*   declarations  what it declares at the top, and the methods of classes;*)
(*                 for a class, body says that a constructor has one       *)
(*   types         names of types that it refers to                        *)
(*   calls         calls outside its functions and properties              *)
(*   mentions      its identifiers with a declaration in another file:     *)
(*                 that file, the name of the symbol ("default" for a      *)
(*                 default export) and the position in the syntax          *)
(*   controlFlow, imperative   statements it contains of these sorts       *)
(***************************************************************************)
EXTENDS TypeScriptAdapter

CONSTANTS ValidDomains, DomainLimit,  \* of the evaluator
          EffectfulImports,           \* modules with effects
          TestImports                 \* modules that tests import

Evaluator == INSTANCE Policy

None == ""

\* The calls that a source record has.
CallsIn(source) ==
  LET runs   == {k \in DOMAIN source.walk : source.walk[k].kind \in {"runner", "check"}}
      checked == {k \in DOMAIN source.walk : source.walk[k].kind = "check"}
      InputCalls(e) == UNION {e.inputs[j].calls : j \in DOMAIN e.inputs}
  IN  source.calls
        \cup (UNION {source.functions[n] : n \in DOMAIN source.functions})
        \cup (UNION {source.walk[k].calls : k \in runs})
        \cup (UNION {source.walk[k].body \cup InputCalls(source.walk[k]) : k \in checked})

\* What a file calls is in a file of the program or in none.  A qualified reference is
\* no function's name, since it has a dot.  A type in the signature of a function is one
\* that the file refers to.
ASSUME FactsAssumption ==
  \A p \in Programs : \A i, j \in DOMAIN p.sources :
    /\ CallsIn(p.sources[i]) \subseteq (0 .. Len(p.sources)) \X STRING
    /\ \A s \in DOMAIN p.sources : \A n \in {c[2] : c \in CallsIn(p.sources[s])} \cup {"default"} :
         p.sources[i].module \o "." \o n \notin DOMAIN p.sources[j].functions
    /\ \A d \in p.sources[i].declarations :
         d.kind = "function" => d.products \subseteq p.sources[i].types

---------------------------------------------------------------------------
(* What is read off one file.                                              *)

\* References are strings in the document.
Text(r) == IF r[1] = NoModule THEN r[2] ELSE r[1] \o "." \o r[2]

Texts(references) == {Text(r) : r \in references}

\* parseMetadata: a line counts when it is the tag and one word; a tag given twice
\* is as good as none.
Tag(i, tag) ==
  LET lines == Source(i).comments
      given == {k \in DOMAIN lines : Len(lines[k]) = 2 /\ lines[k][1] = tag}
  IN  IF Cardinality(given) = 1 THEN lines[CHOOSE k \in given : TRUE][2] ELSE None

Imports(i) == Source(i).imports \cup Source(i).reexports

TestScope(i) == IF Imports(i) \cap TestImports # {} THEN "test" ELSE None

Declared(i, kinds) == {d \in Source(i).declarations : d.kind \in kinds}

NamesOf(declarations) == {d.name : d \in declarations}

LiteralExpressions == {"literal", "array", "object"}

\* Functions, function-valued constants among them, that others may call.
Functions(i) ==
  Declared(i, {"function"}) \cup {d \in Declared(i, {"variable"}) : d.value = "function"}

DecisionSurface(i) == {d \in Functions(i) : d.exported}

\* isInertConstructorFunction: the body only returns a literal or a name.
IsInert(d) == d.body /\ d.statements = 1 /\ d.returns \in LiteralExpressions \cup {"name"}

PropertyTestSurface(i) == {d \in DecisionSurface(i) : ~ IsInert(d)}

\* Types in the signatures of functions declared as such, exported or not.
DecisionProducts(i) == UNION {d.products : d \in Declared(i, {"function"})}

DecisionReferences(i) ==
  {d \in Declared(i, {"function", "class", "type"}) : d.exported}
    \cup Declared(i, {"variable"})

DerivedValues(i) ==
  {d \in Declared(i, {"variable"}) :
     d.value \notin LiteralExpressions \cup {"function", "none"}}

\* isReferenceIdentifier: declaring a name or keying a property refers to nothing.
IsReference(m) == m.position \notin {"declaration", "propertyKey", "bindingKey"}

QualifiedReferences_slip(i) ==
  {<<Source(m.file).module, m.symbol>> :
     m \in {n \in Source(i).mentions : n.file \in Owned \ {i}}}

\* Only owned files lend their names.
QualifiedReferences(i) ==
  {<<Source(m.file).module, m.symbol>> :
     m \in {n \in Source(i).mentions : IsReference(n) /\ n.file \in Owned \ {i}}}

---------------------------------------------------------------------------
(* What the walk collected.                                                *)

\* Evidence of an effectful import, and what the walk and the expansion recorded.  (A
\* required effect is a call or an identifier; the evaluator does not ask which.)
EffectfulReferences(i) ==
  LET Kind(e) == IF e.source = "global" THEN "identifier" ELSE "call"
      Origin(e) == CASE e.source = "global" -> "global"
                     [] e.source = "expansion" -> "local-call-expansion"
                     [] OTHER -> "dependency-summary"
  IN  {[kind |-> "import", origin |-> "standard-library", enclosing |-> None,
        summarised |-> FALSE] : m \in Source(i).imports \cap EffectfulImports}
        \cup {[kind |-> Kind(e), origin |-> Origin(e), enclosing |-> e.enclosing,
               summarised |-> TRUE] : e \in emitted[i].evidence}

\* Operation sequences survive in state tests only.
SequencesOf(i, k) ==
  IF Tag(i, "module") = "stateTest" THEN emitted[i].checks[k].operationSequences ELSE {}

ApiReferences_slip(i) ==
  Texts(CallReferences(i, UNION {Source(i).functions[n] : n \in FunctionNames(i)}))
    \cup Source(i).types

\* What the file calls: in its functions, in callbacks of properties and elsewhere.
CallsOf(i) ==
  Source(i).calls \cup (UNION {e.body : e \in Events(i, "check")})
    \cup (UNION {Source(i).functions[n] : n \in FunctionNames(i)})

\* What it calls, the types the file names, and all that its checks are credited with,
\* the sequences that are dropped later included.
ApiReferences(i) ==
  LET credited == UNION {emitted[i].checks[k].references : k \in DOMAIN emitted[i].checks}
      traced == UNION {UNION {s.operations \cup s.assertions :
                                s \in emitted[i].checks[k].operationSequences} :
                         k \in DOMAIN emitted[i].checks}
  IN  Texts(CallReferences(i, CallsOf(i)) \cup credited \cup traced) \cup Source(i).types

PropertyChecks_slip(i) ==
  {[references |-> ApiReferences(i),
    generatedInputs |->
      {[name |-> input.name, uses |-> IF input.used THEN {input.name} ELSE {}] :
         input \in {Source(i).walk[k].inputs[j] : j \in DOMAIN Source(i).walk[k].inputs}},
    operationSequences |->
      {[input |-> s.input, operations |-> Texts(s.operations),
        assertions |-> Texts(s.assertions)] : s \in SequencesOf(i, k)}] :
     k \in DOMAIN emitted[i].checks}

PropertyChecks(i) ==
  {[references |-> Texts(emitted[i].checks[k].references),
    generatedInputs |->
      {[name |-> input.name, uses |-> IF input.used THEN {input.name} ELSE {}] :
         input \in {Source(i).walk[k].inputs[j] : j \in DOMAIN Source(i).walk[k].inputs}},
    operationSequences |->
      {[input |-> s.input, operations |-> Texts(s.operations),
        assertions |-> Texts(s.assertions)] : s \in SequencesOf(i, k)}] :
     k \in DOMAIN emitted[i].checks}

\* Every identifier of the file, but no name in quotes.
AllIdentifiers(i) ==
  (Names(i) \cup {TextOf(i, c) : c \in Source(i).calls} \cup NamesOf(Source(i).declarations)
     \cup Source(i).types) \ Source(i).quoted

SourceFact(i) ==
  [path |-> i, moduleName |-> Source(i).module,
   moduleType |-> Tag(i, "module"), domain |-> Tag(i, "domain"),
   exemptReason |-> Tag(i, "exempt-reason"), testScope |-> TestScope(i),
   imports |-> Imports(i), identifiers |-> AllIdentifiers(i),
   apiReferences |-> ApiReferences(i),
   decisionSurface |-> NamesOf(DecisionSurface(i)),
   propertyTestSurface |-> NamesOf(PropertyTestSurface(i)),
   decisionProducts |-> DecisionProducts(i),
   decisionReferences |-> NamesOf(DecisionReferences(i)),
   qualifiedReferences |-> QualifiedReferences(i),
   effectfulImports |-> Imports(i) \cap EffectfulImports,
   effectfulIdentifiers |-> emitted[i].marked,
   effectfulReferences |-> EffectfulReferences(i),
   sharedState |-> NamesOf({d \in Declared(i, {"variable"}) : d.mutable}),
   propertyChecks |-> PropertyChecks(i),
   logic |->
     [functionBodies |-> NamesOf({d \in Functions(i) \cup Declared(i, {"method"}) : d.body}),
      constructorBodies |-> NamesOf({d \in Declared(i, {"class"}) : d.body}),
      derivedValueBodies |-> NamesOf(DerivedValues(i)),
      controlFlow |-> Source(i).controlFlow,
      imperativeDeclarations |-> Source(i).imperative]]

Document == {SourceFact(i) : i \in DOMAIN emitted}

\* The evaluator accepts the document.
Accepted ==
  /\ phase = "done"
  /\ Evaluator!ValidDocument(Document)
  /\ Evaluator!Evaluate(Document) = {}

---------------------------------------------------------------------------
(* What acceptance says of the program.                                    *)

Labelled(types) == {i \in Owned : Tag(i, "module") \in types}

SameDomain(i, j) == Tag(i, "domain") = Tag(j, "domain")

\* The check at position k of file i generates a sequence.
Generates(i, k) == \E g \in DOMAIN Source(i).walk[k].generators : Source(i).walk[k].generators[g]

\* The functions that the checks of file i really call, directly or not.
Exercised(i) == UNION {CalledFunctions(i, k) : k \in DOMAIN emitted[i].checks}

\* No method has its name in quotes.
PlainNames == \A i \in Owned : Source(i).quoted = {}

\* Facts are coherent: the consistency rules of the evaluator report no document of
\* the adapter, whatever names the shared tables bring into a file.
FactsAreConsistent == phase = "done" /\ PlainNames =>
  LET reported == Evaluator!FactConsistency(Document)
  IN  \A rule \in DOMAIN reported : reported[rule] = {}

\* No function is only declared.
FunctionsHaveBodies == \A i \in Owned : NamesOf(Functions(i)) \subseteq FunctionNames(i)

\* What the check at position k of file i calls in its callback, on its inputs or not.
TracedCalls(i, k) ==
  LET e == Source(i).walk[k]
  IN  e.body \cup UNION {e.inputs[j].calls : j \in DOMAIN e.inputs}

\* Names are distinct in what the facts add to the walk, too: a name of a function means
\* that function in all calls of a file, and is no name of a type.
DistinctUses ==
  /\ DistinctNames
  /\ \A i \in Files :
       /\ Telling(i, CallsOf(i))
       /\ \A k \in DOMAIN Source(i).walk :
            Source(i).walk[k].kind = "check" => Telling(i, TracedCalls(i, k))
       /\ \A j \in Files : FunctionNames(j) \cap Source(i).types = {}

\* In an accepted program every exported function of a core that is not inert is
\* really called, through whatever helpers, by a check of a test of its domain, where
\* names are distinct: the bare names compared on the way confuse no two functions.
AcceptedDecisionsAreCalled == Accepted /\ DistinctNames /\ FunctionsHaveBodies =>
  \A c \in Labelled({"core"}) : \A d \in PropertyTestSurface(c) :
    \E t \in Labelled({"test", "stateTest"}) :
      SameDomain(t, c) /\ <<c, d.name>> \in Exercised(t)

\* What file i calls, or its own property checks lead to.
CallsOrChecks(i) ==
  CallsOf(i) \cup UNION {Called(Source(i).walk[k].calls) \cup Called(TracedCalls(i, k)) :
                          k \in DOMAIN emitted[i].checks}

\* In an accepted program a state module, or a property check of its own, calls a core
\* decision of its domain that a generated trace of a state test really reaches, where
\* names are distinct.
AcceptedStatesFollowTraces == Accepted /\ DistinctUses /\ FunctionsHaveBodies =>
  \A s \in Labelled({"state"}) :
    \E c \in Labelled({"core"}), t \in Labelled({"stateTest"}) :
      /\ SameDomain(c, s) /\ SameDomain(t, s)
      /\ \E d \in DecisionSurface(c) :
           /\ <<c, d.name>> \in CallsOrChecks(s)
           /\ \E k \in DOMAIN emitted[t].checks :
                Generates(t, k) /\ <<c, d.name>> \in Called(TracedCalls(t, k))

\* Every required effect stands inside something that has a name.
RequirementsAreEnclosed ==
  \A i \in Files : \A e \in Events(i, "effect") :
    e.source = "requirement" => Enclosing(e) # NoFunction

\* A pure file contains no effect, and its functions reach none, through functions of
\* the file, in a function of a file it can resolve that is known there by its name.
PureFilesTouchNoEffects ==
  \A i \in Labelled({"core", "value"}) :
    LET own == [f \in {g \in DOMAIN CallTable : g[1] = i} |-> CallTable[f]]
    IN  /\ Events(i, "effect") = {}
        /\ \A h \in FunctionNames(i) \ Source(i).quoted :
             \A f \in Expanded(own, {<<i, h>>}) \cap DOMAIN CallTable :
               Resolves(i, f[1]) /\ KnownByName(f) => ~ HasEffect(f)

\* The pure files of an accepted program are free of effects.
AcceptedPureFilesTouchNoEffects ==
  Accepted /\ DistinctModules /\ RequirementsAreEnclosed => PureFilesTouchNoEffects

\* In an accepted program every shell mentions a function of a core of its domain, or
\* a type in the signature of one, and no namesake of another file counts for it.
AcceptedShellsUseACore == Accepted /\ DistinctModules =>
  \A s \in Labelled({"shell"}) : \E m \in Source(s).mentions :
    /\ m.file \in Labelled({"core"}) /\ SameDomain(m.file, s) /\ IsReference(m)
    /\ m.symbol \in NamesOf(DecisionSurface(m.file)) \cup DecisionProducts(m.file)

\* Input j of check e is generated by a sequence: the generator of its parameter.
InputIsSequence(e, j) ==
  e.inputs[j].parameter \in DOMAIN e.generators /\ e.generators[e.inputs[j].parameter]

SequencesAreTraces(i, k) ==
  LET e == Source(i).walk[k]
  IN  \A s \in emitted[i].checks[k].operationSequences :
        \E j \in DOMAIN e.inputs : e.inputs[j].name = s.input /\ InputIsSequence(e, j)

\* Where no parameter is destructured, an emitted operation sequence has as its input
\* a parameter that a generator of sequences generates.
SequencesFollowTheirInput ==
  \A i \in DOMAIN emitted : \A k \in DOMAIN emitted[i].checks :
    LET e == Source(i).walk[k]
    IN  (\A j \in DOMAIN e.inputs : e.inputs[j].parameter = j) => SequencesAreTraces(i, k)

---------------------------------------------------------------------------
(* What the documentation says and the code does not ensure.               *)

\* README.md:303: each operation sequence reports the generated input that controls
\* the trace.  The code numbers inputs by name and generators by parameter, so a
\* destructured parameter shifts all that follow.
TracesReportTheirInput ==
  \A i \in DOMAIN emitted : \A k \in DOMAIN emitted[i].checks : SequencesAreTraces(i, k)

\* README.md:199-200: known effectful libraries identify effectful code, and it lives
\* in modules that admit effects.  A required effect in a constructor, a computed
\* method or a class property is recorded nowhere.
PureFilesAreEffectFree == Accepted /\ DistinctModules => PureFilesTouchNoEffects
=============================================================================
