-------------------------- MODULE TypeScriptAdapter --------------------------
(***************************************************************************)
(* The TypeScript adapter (typescript/src/main.ts): how references and     *)
(* effects travel between files.                                           *)
(*                                                                         *)
(* All files under the root are parsed; the local call graph is collected  *)
(* from every local file of the program; then the facts of each file are   *)
(* completed and emitted, in order.  A table of function references maps a *)
(* reference to a Set object.  Tables of several files hold the same       *)
(* object, so tables map to object identities and the heap maps those to   *)
(* the references in the object.                                           *)
(*                                                                         *)
(* What the compiler API says of a file is its source record:              *)
(*   module     the module name of its path                                *)
(*   targets    the local files that its relative imports lead to          *)
(*   workspace  whether it belongs to a workspace package                  *)
(*   bindings   names it imports from effectful packages                   *)
(*   functions  for each named top-level function, the calls in its body   *)
(*   defaults   of these, the one that is declared as the default export   *)
(*   quoted     names of methods that occur as string literals only        *)
(*   aliases    functions of other files that it calls by another name     *)
(*              than that of their declaration, with that name             *)
(*   renamed    names before "as" in its imports                           *)
(*   walk       what the second walk meets, in source order:               *)
(*                effect  by source: an effectful global, a call that a    *)
(*                        dependency summary knows, or a type that         *)
(*                        requires an effectful service                    *)
(*                runner  an Effect is run, or built from a callback       *)
(*                        (both: within, the nodes around it, from inside) *)
(*                check   a property-test call: all that it calls and      *)
(*                        names, what its callback calls (body), which of  *)
(*                        its generators generate sequences, and for each  *)
(*                        name in the callback's parameters: the number of *)
(*                        the parameter, whether it is used, in what calls *)
(* A call is <<file, name>>: the callee as its declaration names it, or,   *)
(* the file being 0, a callee that is not in a local file as the caller    *)
(* does.                                                                   *)
(***************************************************************************)
EXTENDS References, Sequences

\* Programs to analyse: [sources, owned], the first owned sources being the
\* files under the TypeScript root.
CONSTANT Programs

\* Sources and what is walked in them are sequences, and some file is owned.  A file
\* has finitely many functions, and they have names; what they call is in a file of the
\* program or in none, and other names are given to functions of other files only.  No
\* reference with a module name is a bare name (it has a dot, whatever the module).
ASSUME ProgramsAssumption ==
  \A p \in Programs :
    LET Calls == (0 .. Len(p.sources)) \X STRING
    IN  /\ Len(p.sources) \in Nat /\ DOMAIN p.sources = 1 .. Len(p.sources)
        /\ p.owned \in DOMAIN p.sources
        /\ \A i \in DOMAIN p.sources :
             LET walk      == p.sources[i].walk
                 functions == p.sources[i].functions
             IN  /\ p.sources[i].module # NoModule
                 /\ Len(walk) \in Nat /\ DOMAIN walk = 1 .. Len(walk)
                 /\ \A k \in DOMAIN walk :
                      walk[k].kind \in {"runner", "check"} => walk[k].calls \subseteq Calls
                 /\ IsFiniteSet(DOMAIN functions)
                 /\ \A n \in DOMAIN functions : functions[n] \subseteq Calls
                 /\ "" \notin DOMAIN functions
                 /\ \A c \in DOMAIN p.sources[i].aliases : c[1] \notin {0, i}

VARIABLES program,
          phase,    \* what main is doing
          file,     \* with which file
          pos,      \* how far the second walk of the file is
          heap,     \* Set objects
          tables,   \* facts.functionReferences of each file
          globals,  \* uniqueGlobalFunctionReferences
          graph,    \* localCallGraph.functionReferences
          effects,  \* localCallGraph.effectfulFunctions
          marked,   \* facts.effectfulIdentifiers of the file
          evidence, \* facts.effectfulReferences of the file
          checks,   \* facts.propertyChecks of the file
          emitted   \* the file facts written so far

vars == <<program, phase, file, pos, heap, tables, globals, graph, effects,
          marked, evidence, checks, emitted>>

Source(i) == program.sources[i]
Files     == DOMAIN program.sources
Owned     == 1 .. program.owned

Empty == [x \in {} |-> {}]

\* enclosingIdentifier outside functions, and in those without a name.
NoFunction == ""

\* Nodes that give their name to what they enclose: named function declarations,
\* methods (also those whose name is computed or private, with an empty name), and
\* boundary variables, which hold functions or stand at the top of the file.  Others,
\* constructors and class properties among them, are passed.
NamingNodes == {"function", "method", "boundary"}

\* enclosingIdentifier of an event.
Enclosing(e) ==
  LET named == {k \in DOMAIN e.within : e.within[k].kind \in NamingNodes}
  IN  IF named = {} THEN NoFunction
      ELSE e.within[CHOOSE k \in named : \A j \in named : k <= j].name

---------------------------------------------------------------------------
(* Reading a file.                                                         *)

\* What file i calls a callee.
TextOf(i, c) == IF c \in DOMAIN Source(i).aliases THEN Source(i).aliases[c] ELSE c[2]

\* getName of a symbol of another file: that of a default export is not its name.
SymbolName(c) == IF c[2] \in Source(c[1]).defaults THEN "default" ELSE c[2]

\* apiReferencesInNode and identifiersInNode of a property, without a source file.
BareReferences(i, calls) == {Bare(TextOf(i, c)) : c \in calls}

CallReferences_slip(i, calls) == BareReferences(i, calls)

\* localCallableReference knows a callee of another file if that very file is
\* imported by a relative path, or belongs to a workspace package.
Resolves(i, j) == j \in Source(i).targets \/ Source(j).workspace

\* apiReferencesInNode with a source file: each callee as the file calls it and, if it
\* is in another file and resolved, by module and symbol.
CallReferences(i, calls) ==
  BareReferences(i, calls)
    \cup {<<Source(c[1]).module, SymbolName(c)>> :
            c \in {d \in calls : d[1] \notin {0, i} /\ Resolves(i, d[1])}}

FunctionNames(i) == DOMAIN Source(i).functions

Events(i, kind) ==
  {Source(i).walk[k] : k \in {j \in DOMAIN Source(i).walk : Source(i).walk[j].kind = kind}}

EffectEvents_slip(i) == {e \in Events(i, "effect") : Enclosing(e) # NoFunction}

\* The effects of file i that the walk records: a requirement of a type only where
\* a function encloses it.
EffectEvents(i) ==
  {e \in Events(i, "effect") : e.source = "requirement" => Enclosing(e) # NoFunction}

\* What the walk marks for an effect: the global's own name, or the function that
\* makes the call or names the type.
EventMarks(e) ==
  IF e.source = "global" THEN {e.reference} ELSE {Enclosing(e)} \ {NoFunction}

\* What the walk marks as effectful, before any expansion.
DirectMarks(i) == Source(i).bindings \cup UNION {EventMarks(e) : e \in EffectEvents(i)}

\* The references that effect runners in function n of file i add to its own.
RunnerReferences(i, n) ==
  UNION {CallReferences(i, e.calls) : e \in {d \in Events(i, "runner") : Enclosing(d) = n}}

\* Every name that file i uses, and of them the ones that are identifiers.
Names(i) ==
  FunctionNames(i) \cup Source(i).renamed
    \cup {TextOf(i, c) : c \in UNION {Source(i).functions[n] : n \in FunctionNames(i)}}
    \cup {TextOf(i, c) : c \in UNION {e.calls : e \in Events(i, "runner") \cup Events(i, "check")}}
    \cup ({Enclosing(e) : e \in Events(i, "runner") \cup EffectEvents(i)} \ {NoFunction})
    \cup DirectMarks(i)

Identifiers(i) == Names(i) \ Source(i).quoted

Evidence(i, n) == {e.reference : e \in {d \in EffectEvents(i) : Enclosing(d) = n}}

\* The local call graph's own table of file i, after both walks: an effect runner
\* makes an entry for a function that has none.
LocalNames(i) ==
  FunctionNames(i)
    \cup ({Enclosing(e) : e \in {d \in Events(i, "runner") : d.calls # {}}} \ {NoFunction})

LocalReferences(i, n) ==
  (IF n \in FunctionNames(i) THEN CallReferences(i, Source(i).functions[n]) ELSE {})
    \cup RunnerReferences(i, n)

\* expandEffectfulIdentifiers in the local call graph, where no effects of other
\* files are known: the loop sweeps over the table until nothing changes.
LocalMarks(i) ==
  LET table == [r \in {Bare(n) : n \in LocalNames(i)} |-> LocalReferences(i, r[2])]
      Reaches(n, marks) ==
        Expanded(table, table[Bare(n)]) \cap {Bare(m) : m \in marks} # {}
      Swept(marks) == marks \cup {n \in LocalNames(i) \cap Identifiers(i) : Reaches(n, marks)}
      sweep[k \in 0 .. Cardinality(LocalNames(i))] ==
        IF k = 0 THEN DirectMarks(i) ELSE Swept(sweep[k - 1])
  IN  sweep[Cardinality(LocalNames(i))]

---------------------------------------------------------------------------
Init ==
  /\ program \in Programs
  /\ phase = "parse"
  /\ file = 1
  /\ pos = 1
  /\ heap = Empty
  /\ tables = [i \in Files |-> Empty]
  /\ globals = Empty
  /\ graph = Empty
  /\ effects = Empty
  /\ marked = {} /\ evidence = {} /\ checks = Empty
  /\ emitted = Empty

ParseSourceFacts_slip ==
  /\ phase = "parse"
  /\ heap' = Overlay([id \in {<<"file", file, n>> : n \in FunctionNames(file)} |->
                        CallReferences(file, Source(file).functions[id[3]])], heap)
  /\ LET own == [r \in {Bare(n) : n \in FunctionNames(file)} |-> <<"file", file, r[2]>>]
     IN  tables' = [i \in Files |-> Overlay(own, tables[i])]
  /\ IF file = program.owned THEN phase' = "graph" /\ file' = 1
                             ELSE file' = file + 1 /\ UNCHANGED phase
  /\ UNCHANGED <<program, pos, globals, graph, effects, marked, evidence, checks,
                 emitted>>

\* parseSourceFacts of the next file under the root: collectTopLevel makes a Set
\* for each function.
ParseSourceFacts ==
  /\ phase = "parse"
  /\ heap' = Overlay([id \in {<<"file", file, n>> : n \in FunctionNames(file)} |->
                        CallReferences(file, Source(file).functions[id[3]])], heap)
  /\ tables' = [tables EXCEPT ![file] =
                  [r \in {Bare(n) : n \in FunctionNames(file)} |->
                     <<"file", file, r[2]>>]]
  /\ IF file = program.owned THEN phase' = "graph" /\ file' = 1
                             ELSE file' = file + 1 /\ UNCHANGED phase
  /\ UNCHANGED <<program, pos, globals, graph, effects, marked, evidence, checks,
                 emitted>>

\* One file of collectLocalCallGraph, on facts of its own: both walks, then the
\* expansion.  A later file of the same module name replaces entries.
CollectLocalCallGraph ==
  /\ phase = "graph"
  /\ LET module == Source(file).module
         names  == LocalNames(file)
     IN  /\ heap' = Overlay([id \in {<<"graph", file, n>> : n \in names} |->
                               LocalReferences(file, id[3])], heap)
         /\ graph' = Overlay([r \in {<<module, n>> : n \in names} |->
                                <<"graph", file, r[2]>>], graph)
         /\ effects' = Overlay([r \in {<<module, n>> : n \in LocalMarks(file)} |->
                                  Evidence(file, r[2])], effects)
  /\ IF file = Len(program.sources) THEN phase' = "globals" /\ file' = 1
                                    ELSE file' = file + 1 /\ UNCHANGED phase
  /\ UNCHANGED <<program, pos, tables, globals, marked, evidence, checks, emitted>>

\* The functions that exactly one file under the root defines: by its own Set.
UniqueGlobalFunctionReferences ==
  /\ phase = "globals"
  /\ LET Definers(r) == {i \in Owned : r \in DOMAIN tables[i]}
         unique == {r \in UNION {DOMAIN tables[i] : i \in Owned} :
                      Cardinality(Definers(r)) = 1}
     IN  globals' = [r \in unique |-> tables[CHOOSE i \in Owned : i \in Definers(r)][r]]
  /\ phase' = "merge"
  /\ UNCHANGED <<program, file, pos, heap, tables, graph, effects, marked, evidence,
                 checks, emitted>>

MergeTables_slip ==
  /\ phase = "merge"
  /\ tables' = [tables EXCEPT ![file] = Overlay(@, graph)]
  /\ marked' = Source(file).bindings
  /\ evidence' = {}
  /\ checks' = Empty
  /\ pos' = 1
  /\ phase' = "walk"
  /\ UNCHANGED <<program, file, heap, globals, graph, effects, emitted>>

\* sourceFact begins: the file's own functions take precedence, then the globally
\* unique ones, then those of the call graph.
MergeTables ==
  /\ phase = "merge"
  /\ tables' = [tables EXCEPT ![file] = Overlay(@, Overlay(globals, graph))]
  /\ marked' = Source(file).bindings
  /\ evidence' = {}
  /\ checks' = Empty
  /\ pos' = 1
  /\ phase' = "walk"
  /\ UNCHANGED <<program, file, heap, globals, graph, effects, emitted>>

Event == Source(file).walk[pos]

Walking(kind) == /\ phase = "walk"
                 /\ pos \in DOMAIN Source(file).walk
                 /\ Event.kind = kind

\* recordDependencyEffectfulReference, recordEffectRequirementsFromType and the
\* effectful globals.
RecordEffect ==
  /\ Walking("effect")
  /\ IF Event \in EffectEvents(file)
     THEN /\ marked' = marked \cup EventMarks(Event)
          /\ evidence' = evidence \cup {[reference |-> Bare(Event.reference),
                                         enclosing |-> Enclosing(Event),
                                         source |-> Event.source]}
     ELSE UNCHANGED <<marked, evidence>>
  /\ pos' = pos + 1
  /\ UNCHANGED <<program, phase, file, heap, tables, globals, graph, effects,
                 checks, emitted>>

RecordRunner_slip ==
  /\ Walking("runner")
  /\ LET references == CallReferences(file, Event.calls)
         name  == Bare(Enclosing(Event))
         known == name \in DOMAIN tables[file]
         id    == IF known THEN tables[file][name] ELSE <<"file", file, Enclosing(Event)>>
     IN  IF references = {} \/ Enclosing(Event) = NoFunction
         THEN UNCHANGED <<heap, tables>>
         ELSE /\ heap' = IF known THEN [heap EXCEPT ![id] = @ \cup references] ELSE heap
              /\ tables' = [tables EXCEPT ![file] =
                              Overlay([r \in {name} |-> id], @)]
  /\ pos' = pos + 1
  /\ UNCHANGED <<program, phase, file, globals, graph, effects, marked, evidence,
                 checks, emitted>>

\* addReferencesToEnclosingIdentifier: into the Set the table holds, whosever it
\* is, or into a new one.
RecordRunner ==
  /\ Walking("runner")
  /\ LET references == CallReferences(file, Event.calls)
         name  == Bare(Enclosing(Event))
         known == name \in DOMAIN tables[file]
         id    == IF known THEN tables[file][name] ELSE <<"file", file, Enclosing(Event)>>
     IN  IF references = {} \/ Enclosing(Event) = NoFunction
         THEN UNCHANGED <<heap, tables>>
         ELSE /\ heap' = Overlay([x \in {id} |->
                                    references \cup IF known THEN heap[id] ELSE {}], heap)
              /\ tables' = [tables EXCEPT ![file] =
                              Overlay([r \in {name} |-> id], @)]
  /\ pos' = pos + 1
  /\ UNCHANGED <<program, phase, file, globals, graph, effects, marked, evidence,
                 checks, emitted>>

\* facts.functionReferences with the Sets as they are now.
Table == [r \in DOMAIN tables[file] |-> heap[tables[file][r]]]

ControlsSequence_slip(e, k) == k - 1 \in DOMAIN e.generators /\ e.generators[k - 1]

\* Input number k of a property is taken to come from generator number k.
ControlsSequence(e, k) == k \in DOMAIN e.generators /\ e.generators[k]

OperationSequences_slip(e) ==
  LET assertions == Expanded(Table, BareReferences(file, e.body))
      Operations(k) == Expanded(Table, BareReferences(file, e.inputs[k].calls))
  IN  {[input |-> e.inputs[k].name, operations |-> Operations(k),
        assertions |-> assertions] :
         k \in {j \in DOMAIN e.inputs : /\ e.inputs[j].used
                                       /\ Operations(j) # {} /\ assertions # {}}}

\* operationSequencesForProperty: the inputs that sequences control, with what the
\* calls on them lead to, if the callback calls anything.
OperationSequences(e) ==
  LET assertions == Expanded(Table, BareReferences(file, e.body))
      Operations(k) == Expanded(Table, BareReferences(file, e.inputs[k].calls))
  IN  {[input |-> e.inputs[k].name, operations |-> Operations(k),
        assertions |-> assertions] :
         k \in {j \in DOMAIN e.inputs : /\ ControlsSequence(e, j)
                                       /\ e.inputs[j].used
                                       /\ Operations(j) # {} /\ assertions # {}}}

PropertyCheck_slip(e) ==
  [references |-> UNION {checks[j].references : j \in DOMAIN checks}
                    \cup Expanded(Table, BareReferences(file, e.calls)),
   operationSequences |-> OperationSequences(e)]

\* propertyCheckForCall: what the property calls and names, expanded by the table
\* as the walk has left it so far.
PropertyCheck(e) ==
  [references |-> Expanded(Table, BareReferences(file, e.calls)),
   operationSequences |-> OperationSequences(e)]

RecordCheck ==
  /\ Walking("check")
  /\ checks' = Overlay([k \in {pos} |-> PropertyCheck(Event)], checks)
  /\ pos' = pos + 1
  /\ UNCHANGED <<program, phase, file, heap, tables, globals, graph, effects,
                 marked, evidence, emitted>>

CollectNodeFactsEnds ==
  /\ phase = "walk"
  /\ pos \notin DOMAIN Source(file).walk
  /\ phase' = "expand"
  /\ UNCHANGED <<program, file, pos, heap, tables, globals, graph, effects, marked,
                 evidence, checks, emitted>>

Reach(n) == Expanded(Table, Table[Bare(n)])

ReachedEffects(n) == {r \in Reach(n) \cap DOMAIN effects : effects[r] # {}}

Triggers_slip(n, marks) ==
  \/ Reach(n) \cap {Bare(m) : m \in marks \cup {n}} # {}
  \/ ReachedEffects(n) # {}

Triggers(n, marks) ==
  \/ Reach(n) \cap {Bare(m) : m \in marks} # {}
  \/ ReachedEffects(n) # {}

Candidates == {n \in Identifiers(file) : Bare(n) \in DOMAIN tables[file]}

\* One function that the loop of expandEffectfulIdentifiers marks.  The code's
\* sweeps visit the table in insertion order; any order is allowed here.
ExpandEffectfulIdentifier(n) ==
  /\ phase = "expand"
  /\ n \in Candidates \ marked
  /\ Triggers(n, marked)
  /\ marked' = marked \cup {n}
  /\ evidence' = evidence \cup {[reference |-> r, enclosing |-> n, source |-> "expansion"] :
                                  r \in ReachedEffects(n)}
  /\ UNCHANGED <<program, phase, file, pos, heap, tables, globals, graph, effects,
                 checks, emitted>>

Settled_slip ==
  phase = "expand" /\ \A n \in Candidates \ marked : Reach(n) \cap {Bare(m) : m \in marked} = {}

\* A sweep that changes nothing ends the loop.
Settled == phase = "expand" /\ \A n \in Candidates \ marked : ~ Triggers(n, marked)

EmitFact_slip ==
  /\ Settled
  /\ emitted' = Overlay([i \in {file} |-> [marked |-> marked, evidence |-> evidence,
                                           checks |-> checks]], emitted)
  /\ IF file + 1 = program.owned THEN phase' = "done" /\ UNCHANGED file
                                 ELSE phase' = "merge" /\ file' = file + 1
  /\ UNCHANGED <<program, pos, heap, tables, globals, graph, effects, marked,
                 evidence, checks>>

EmitFact ==
  /\ Settled
  /\ emitted' = Overlay([i \in {file} |-> [marked |-> marked, evidence |-> evidence,
                                           checks |-> checks]], emitted)
  /\ IF file = program.owned THEN phase' = "done" /\ UNCHANGED file
                             ELSE phase' = "merge" /\ file' = file + 1
  /\ UNCHANGED <<program, pos, heap, tables, globals, graph, effects, marked,
                 evidence, checks>>

Next ==
  \/ ParseSourceFacts
  \/ CollectLocalCallGraph
  \/ UniqueGlobalFunctionReferences
  \/ MergeTables
  \/ RecordEffect \/ RecordRunner \/ RecordCheck
  \/ CollectNodeFactsEnds
  \/ \E n \in Identifiers(file) : ExpandEffectfulIdentifier(n)
  \/ EmitFact

Spec == Init /\ [][Next]_vars

\* A sequential program takes its next step.
FairSpec == Spec /\ WF_vars(Next)

---------------------------------------------------------------------------
(* What the files really do.                                               *)

\* The functions of the program and what each calls, running an Effect included.
CallTable ==
  [f \in UNION {{<<i, n>> : n \in FunctionNames(i)} : i \in Files} |->
     Source(f[1]).functions[f[2]]
       \cup UNION {e.calls : e \in {d \in Events(f[1], "runner") : Enclosing(d) = f[2]}}]

\* The calls that may happen when those calls are made.
Called(calls) == Expanded(CallTable, calls)

TouchesEffects(f) ==
  /\ f \in DOMAIN CallTable
  /\ \/ Evidence(f[1], f[2]) # {}
     \/ \E b \in Source(f[1]).bindings : <<0, b>> \in CallTable[f]

TrulyEffectful(f) == \E c \in Called({f}) : TouchesEffects(c)

\* What file i calls by the name of a function is that function.
Telling(i, calls) ==
  \A c \in calls : \A j \in Files :
    TextOf(i, c) \in FunctionNames(j) => c = <<j, TextOf(i, c)>>

DistinctModules ==
  \A i, j \in Files : Source(i).module = Source(j).module => i = j

\* Names that are effectful by themselves.
EffectNames(i) ==
  Source(i).bindings
    \cup {e.reference : e \in {d \in Events(i, "effect") : d.source = "global"}}

\* No name of a function means anything else in the program, that of a default export
\* included, and an effectful name means the effect wherever it is called: the effect
\* itself, or the function of its file that the effect stands in.
DistinctNames ==
  LET calls == UNION {CallTable[f] : f \in DOMAIN CallTable}
  IN  /\ DistinctModules
      /\ \A i, j \in Files : FunctionNames(i) \cap FunctionNames(j) # {} => i = j
      /\ \A f \in DOMAIN CallTable : Telling(f[1], CallTable[f])
      /\ \A i \in Files : /\ \A e \in Events(i, "check") : Telling(i, e.calls)
                          /\ LocalNames(i) = FunctionNames(i)
                          /\ Source(i).defaults # {} => "default" \notin FunctionNames(i)
      /\ \A f \in DOMAIN CallTable, i \in Files : \A c \in CallTable[f] :
           TextOf(f[1], c) \in EffectNames(i) =>
             c[1] = 0 /\ c[2] \in Source(f[1]).bindings \cup Evidence(f[1], f[2])
      /\ \A i \in Files : \A e \in EffectEvents(i) :
           \/ Enclosing(e) \in FunctionNames(i)
           \/ \A f \in DOMAIN CallTable : \A c \in CallTable[f] :
                Enclosing(e) \notin {TextOf(f[1], c), c[2], "default"}

---------------------------------------------------------------------------
TypeOK ==
  /\ phase \in {"parse", "graph", "globals", "merge", "walk", "expand", "done"}
  /\ file \in Files
  /\ DOMAIN tables = Files
  /\ \A i \in Files : \A r \in DOMAIN tables[i] : tables[i][r] \in DOMAIN heap
  /\ \A r \in DOMAIN graph : graph[r] \in DOMAIN heap
  /\ phase \in {"walk", "expand"} => /\ pos \in 1 .. Len(Source(file).walk) + 1
                                    /\ marked \subseteq Names(file)
  /\ DOMAIN emitted \subseteq Owned

ClosedUnderCalls(marks) == \A n \in Candidates : Triggers(n, marks) => n \in marks

\* When the loop of expandEffectfulIdentifiers stops, what it marked is the least
\* set that holds the direct marks and every function that reaches one: no caller
\* is missed by the order of the sweeps and none is marked in a circle.
MarksAreLeast == Settled =>
  /\ DirectMarks(file) \subseteq marked
  /\ ClosedUnderCalls(marked)
  /\ \A marks \in SUBSET marked :
       DirectMarks(file) \subseteq marks /\ ClosedUnderCalls(marks) => marks = marked

\* Where names are distinct, no function is reported as effectful that calls
\* nothing effectful, through whatever shared table the effect came.
MarksAreJustified == phase = "done" /\ DistinctNames =>
  \A i \in DOMAIN emitted : \A n \in emitted[i].marked :
    n \in DirectMarks(i) \/ \E f \in DOMAIN CallTable : f[2] = n /\ TrulyEffectful(f)

\* Function f has an effect by which its callers are found: of an effectful global,
\* only a call counts.
HasEffect(f) ==
  \E e \in EffectEvents(f[1]) :
    Enclosing(e) = f[2] /\ (e.source = "global" => <<0, e.reference>> \in CallTable[f])

\* Function f is known to other files by its name: it is no default export, and an
\* identifier of its file.
KnownByName(f) == f[2] \notin Source(f[1]).defaults \cup Source(f[1]).quoted

\* A function that calls, through functions of its own file, a function of a file it
\* imports or of a workspace package that is known by its name and has effects of its
\* own is reported (the expansion test.sh checks), whatever the caller calls it and
\* whatever functions elsewhere have the same names.
ImportedEffectsAreFound == phase = "done" /\ DistinctModules =>
  \A i \in DOMAIN emitted : \A h \in FunctionNames(i) \ Source(i).quoted :
    LET own == [f \in {g \in DOMAIN CallTable : g[1] = i} |-> CallTable[f]]
        foreign == {f \in DOMAIN CallTable : f[1] # i}
    IN  (\E g \in foreign \cap Expanded(own, {<<i, h>>}) :
           Resolves(i, g[1]) /\ HasEffect(g) /\ KnownByName(g))
        => h \in emitted[i].marked

\* Walking a file whose Effects run in its own functions adds references to the
\* Sets of that file only, though its table leads to those of other files, with
\* functions of the same names.
WalksStayAtHome ==
  [][(\A e \in Events(file, "runner") : Enclosing(e) \in FunctionNames(file) \cup {NoFunction})
       => \A id \in DOMAIN heap : heap'[id] # heap[id] => id[2] = file]_vars

CalledFunctions(i, k) == Called(Source(i).walk[k].calls) \cap DOMAIN CallTable

\* What stands for the calls of the check at position k of file i, and for those of the
\* functions that it leads to.
ReferenceOf(i, k) ==
  BareReferences(i, Source(i).walk[k].calls)
    \cup UNION {CallReferences(f[1], CallTable[f]) : f \in CalledFunctions(i, k)}

\* Where names are distinct, a property check is credited only with what the
\* property calls, directly or through helpers.
ChecksNameTheirCalls == phase = "done" /\ DistinctNames =>
  \A i \in DOMAIN emitted : \A k \in DOMAIN emitted[i].checks :
    emitted[i].checks[k].references \subseteq ReferenceOf(i, k)

\* Every call that the check at position k of file i leads to is referenced.
FollowsAllCalls(i, k) ==
  \A c \in Called(Source(i).walk[k].calls) : Bare(c[2]) \in emitted[i].checks[k].references

\* Function f runs no Effect that is yet to be walked at position k of file i.
WalkedBefore(f, i, k) ==
  \A j \in DOMAIN Source(f[1]).walk :
    LET e == Source(f[1]).walk[j]
    IN  e.kind = "runner" /\ Enclosing(e) = f[2] => f[1] < i \/ (f[1] = i /\ j < k)

\* File i calls everything there by the name of its declaration.
ByName(i, calls) == \A c \in calls : TextOf(i, c) = c[2]

\* Where names are distinct, a property check is credited with all it calls through
\* helpers under the root, if they are called by their names, as far as the walk has met
\* their effect runners.
ChecksFollowWalkedHelpers == phase = "done" /\ DistinctNames =>
  \A i \in DOMAIN emitted : \A k \in DOMAIN emitted[i].checks :
    /\ ByName(i, Source(i).walk[k].calls)
    /\ \A f \in CalledFunctions(i, k) :
         f[1] \in Owned /\ ByName(f[1], CallTable[f]) /\ WalkedBefore(f, i, k)
    => FollowsAllCalls(i, k)

\* The adapter ends, with the facts of every file under the root.
EveryFileIsEmitted == <>(phase = "done" /\ DOMAIN emitted = Owned)

---------------------------------------------------------------------------
(* What the documentation and the tests say and the code does not ensure.  *)

\* Every file resolves every other one, and calls all by their names.
PlainImports ==
  \A i, j \in Files : /\ Resolves(i, j)
                      /\ DOMAIN Source(i).aliases = {} /\ Source(i).defaults = {}
                      /\ Source(i).quoted = {}

\* typescript/test.sh asserts that a function which reaches an effect through a
\* helper of another file is reported; README.md says effectful code is found by
\* induction.  Where names are distinct and imports plain, a helper that reaches the
\* effect through another function of its file still breaks the chain.
EffectsReachEveryCaller == phase = "done" /\ DistinctNames /\ PlainImports =>
  \A i \in DOMAIN emitted : \A h \in FunctionNames(i) :
    (\E f \in Called({<<i, h>>}) \cap DOMAIN CallTable : HasEffect(f))
      => h \in emitted[i].marked
=============================================================================
