---------------------- MODULE TypeScriptAdapter_proofs ----------------------
(***************************************************************************)
(* Proofs about TypeScriptAdapter and TypeScriptFacts, for every program.  *)
(*                                                                         *)
(*   IInv      the type invariant, and that the loop that marks effectful  *)
(*             functions computes a least set: what Expanded computes does *)
(*             not matter for it, that the Sets do not change while the    *)
(*             loop runs does                                              *)
(*   TInv      that tables and Sets hold the calls that happen, none that  *)
(*             do not, and finitely many                                   *)
(*   Recorded  that what was recorded with them follows those calls        *)
(*   Kept      what the walk leaves behind for the facts, and that the     *)
(*             facts of the files before are emitted: from it, what the    *)
(*             evaluator's verdict on them says of the program             *)
(***************************************************************************)
EXTENDS TypeScriptFacts, References_proofs

\* What an event of the walk marks: nothing, unless it is an effect that is recorded.
MarksOf(e) ==
  IF e.kind = "effect" /\ (e.source = "requirement" => Enclosing(e) # NoFunction)
  THEN EventMarks(e) ELSE {}

\* What the walk has marked when it is at position p of file i.
WalkedMarks(i, p) ==
  Source(i).bindings
    \cup UNION {MarksOf(Source(i).walk[k]) : k \in {j \in DOMAIN Source(i).walk : j < p}}

\* Every set of names of the file that is closed holds what is marked so far.
MarkedInClosedSets ==
  \A marks \in SUBSET Names(file) :
    DirectMarks(file) \subseteq marks /\ ClosedUnderCalls(marks) => marked \subseteq marks

\* The Sets that tables of other files lead to exist.
TablesOK == \A r \in DOMAIN globals : globals[r] \in DOMAIN heap

\* The inductive invariant.
IInv ==
  /\ program \in Programs
  /\ TypeOK
  /\ TablesOK
  /\ phase \in {"parse", "globals", "merge", "walk", "expand"} => file \in Owned
  /\ phase = "globals" => file = 1
  /\ phase = "walk" => marked = WalkedMarks(file, pos)
  /\ phase = "expand" => DirectMarks(file) \subseteq marked /\ MarkedInClosedSets

---------------------------------------------------------------------------
(* Facts about sources, walks and tables.                                  *)

\* Overlay has the entries of both tables, the first one's taking precedence.
LEMMA OverlayEntries ==
  ASSUME NEW f, NEW g
  PROVE  /\ DOMAIN Overlay(f, g) = DOMAIN f \cup DOMAIN g
         /\ \A x \in DOMAIN f : Overlay(f, g)[x] = f[x]
         /\ \A x \in DOMAIN g \ DOMAIN f : Overlay(f, g)[x] = g[x]
  BY DEF Overlay

\* What both tables lead to, their overlay leads to.
LEMMA OverlayRange ==
  ASSUME NEW f, NEW g, NEW S,
         \A x \in DOMAIN f : f[x] \in S,
         \A x \in DOMAIN g : g[x] \in S
  PROVE  \A x \in DOMAIN Overlay(f, g) : Overlay(f, g)[x] \in S
  BY DEF Overlay

\* The calls of a program.
Calls == (Files \cup {0}) \X STRING

\* The sources and their walks are numbered, and there are owned files.
LEMMA Numbered ==
  ASSUME program \in Programs
  PROVE  /\ Files = 1 .. Len(program.sources)
         /\ Len(program.sources) \in Nat
         /\ program.owned \in Files
         /\ Owned \subseteq Files /\ 1 \in Owned /\ 1 \in Files
         /\ \A i \in Files : /\ Len(Source(i).walk) \in Nat
                             /\ DOMAIN Source(i).walk = 1 .. Len(Source(i).walk)
<1>1. /\ Len(program.sources) \in Nat
      /\ DOMAIN program.sources = 1 .. Len(program.sources)
      /\ program.owned \in DOMAIN program.sources
      /\ \A i \in DOMAIN program.sources :
           /\ Len(program.sources[i].walk) \in Nat
           /\ DOMAIN program.sources[i].walk = 1 .. Len(program.sources[i].walk)
  BY ProgramsAssumption
<1> QED
  BY <1>1 DEF Files, Owned, Source

\* Functions and their calls are those of files of the program.
LEMMA Typed ==
  ASSUME program \in Programs, NEW i \in Files
  PROVE  /\ IsFiniteSet(FunctionNames(i))
         /\ Source(i).module # NoModule
         /\ NoFunction \notin FunctionNames(i)
         /\ FunctionNames(i) \ Source(i).quoted \subseteq Identifiers(i)
         /\ \A c : c[1] \in {0, i} => TextOf(i, c) = c[2]
         /\ \A n \in FunctionNames(i) : Source(i).functions[n] \subseteq Calls
         /\ \A k \in DOMAIN Source(i).walk :
              Source(i).walk[k].kind \in {"runner", "check"} =>
                Source(i).walk[k].calls \subseteq Calls
<1> DEFINE source == program.sources[i]
<1>1. /\ DOMAIN program.sources = 1 .. Len(program.sources)
      /\ source.module # NoModule
      /\ IsFiniteSet(DOMAIN source.functions)
      /\ \A n \in DOMAIN source.functions :
           source.functions[n] \subseteq (0 .. Len(program.sources)) \X STRING
      /\ \A k \in DOMAIN source.walk : source.walk[k].kind \in {"runner", "check"} =>
           source.walk[k].calls \subseteq (0 .. Len(program.sources)) \X STRING
      /\ "" \notin DOMAIN source.functions
      /\ \A c \in DOMAIN source.aliases : c[1] \notin {0, i}
  BY ProgramsAssumption DEF Files
<1>2. Len(program.sources) \in Nat /\ Files = 1 .. Len(program.sources)
  BY Numbered
<1>3. 0 .. Len(program.sources) = Files \cup {0}
  BY <1>2
<1>4. source = Source(i)
  BY DEF Source
<1> HIDE DEF source
<1>5. FunctionNames(i) = DOMAIN source.functions
  BY <1>4 DEF FunctionNames
<1>6. FunctionNames(i) \ Source(i).quoted \subseteq Identifiers(i)
  BY DEF Identifiers, Names
<1>7. \A c : c[1] \in {0, i} => TextOf(i, c) = c[2]
  BY <1>1, <1>4 DEF TextOf
<1> QED
  BY <1>1, <1>3, <1>4, <1>5, <1>6, <1>7 DEF Calls, NoFunction

\* What the walk may mark are identifiers of the file.
LEMMA MarksAreIdentifiers ==
  ASSUME NEW i
  PROVE  /\ DirectMarks(i) \subseteq Names(i)
         /\ Identifiers(i) \subseteq Names(i)
         /\ Source(i).bindings \subseteq DirectMarks(i)
         /\ \A k \in DOMAIN Source(i).walk :
              MarksOf(Source(i).walk[k]) \subseteq DirectMarks(i)
<1>1. DirectMarks(i) \subseteq Names(i)
  BY DEF Names
<1>2. Identifiers(i) \subseteq Names(i)
  BY DEF Identifiers
<1>3. Source(i).bindings \subseteq DirectMarks(i)
  BY DEF DirectMarks
<1>4. ASSUME NEW k \in DOMAIN Source(i).walk
      PROVE  MarksOf(Source(i).walk[k]) \subseteq DirectMarks(i)
  <2> DEFINE e == Source(i).walk[k]
  <2>1. CASE MarksOf(e) = {}
    BY <2>1
  <2>2. CASE MarksOf(e) # {}
    <3>1. /\ e.kind = "effect" /\ (e.source = "requirement" => Enclosing(e) # NoFunction)
          /\ MarksOf(e) = EventMarks(e)
      BY <2>2 DEF MarksOf
    <3>2. e \in EffectEvents(i)
      BY <3>1, <1>4 DEF EffectEvents, Events
    <3> HIDE DEF e
    <3>3. EventMarks(e) \subseteq DirectMarks(i)
      BY <3>2 DEF DirectMarks
    <3> QED
      BY <3>1, <3>3 DEF e
  <2> QED
    BY <2>1, <2>2
<1> QED
  BY <1>1, <1>2, <1>3, <1>4

\* The walk marks what its next event says, and in the end all direct marks.
LEMMA WalkMarks ==
  ASSUME program \in Programs, NEW i \in Files,
         NEW p \in 1 .. Len(Source(i).walk) + 1
  PROVE  /\ WalkedMarks(i, 1) = Source(i).bindings
         /\ p \in DOMAIN Source(i).walk =>
              WalkedMarks(i, p + 1) = WalkedMarks(i, p) \cup MarksOf(Source(i).walk[p])
         /\ p \notin DOMAIN Source(i).walk => WalkedMarks(i, p) = DirectMarks(i)
<1> DEFINE walk == Source(i).walk
           Before(q) == {j \in DOMAIN walk : j < q}
           Marks(k) == MarksOf(walk[k])
<1>1. Len(walk) \in Nat /\ DOMAIN walk = 1 .. Len(walk)
  BY Numbered
<1>2. \A q : WalkedMarks(i, q) = Source(i).bindings \cup UNION {Marks(k) : k \in Before(q)}
  BY DEF WalkedMarks
<1>3. DirectMarks(i) = Source(i).bindings \cup UNION {Marks(k) : k \in DOMAIN walk}
  BY DEF DirectMarks, EffectEvents, Events, MarksOf
<1> HIDE DEF walk
<1>4. Before(1) = {}
  BY <1>1
<1>5. p \in DOMAIN walk => Before(p + 1) = Before(p) \cup {p}
  BY <1>1
<1>6. p \notin DOMAIN walk => Before(p) = DOMAIN walk
  <2> p \in 1 .. Len(walk) + 1
    BY DEF walk
  <2> QED
    BY <1>1
<1> HIDE DEF Before, Marks
<1>7. WalkedMarks(i, 1) = Source(i).bindings
  BY <1>2, <1>4
<1>8. p \in DOMAIN walk => WalkedMarks(i, p + 1) = WalkedMarks(i, p) \cup Marks(p)
  BY <1>2, <1>5
<1>9. p \notin DOMAIN walk => WalkedMarks(i, p) = DirectMarks(i)
  BY <1>2, <1>3, <1>6
<1> QED
  BY <1>7, <1>8, <1>9 DEF walk, Marks

\* More marks trigger no fewer functions.
LEMMA TriggersGrow ==
  ASSUME NEW n, NEW few, NEW more, few \subseteq more, Triggers(n, few)
  PROVE  Triggers(n, more)
  BY DEF Triggers

---------------------------------------------------------------------------
(* The invariant is inductive.                                             *)

\* The initial states satisfy the invariant.
LEMMA InitIInv == Init => IInv
<1> SUFFICES ASSUME Init PROVE IInv
  OBVIOUS
<1>1. program \in Programs /\ 1 \in Owned /\ 1 \in Files
  BY Numbered DEF Init
<1> QED
  BY <1>1 DEF Init, IInv, TypeOK, TablesOK, Empty

\* Which sets are closed does not change as long as the file's table, the Sets and
\* the effects of the call graph do not.
LEMMA LoopIsStable ==
  ASSUME UNCHANGED <<program, file, heap, tables, effects>>, NEW CONSTANT marks
  PROVE  ClosedUnderCalls(marks)' <=> ClosedUnderCalls(marks)
<1>1. Table' = Table
  BY DEF Table
<1>2. Candidates' = Candidates
  BY DEF Candidates, Identifiers, Names, TextOf, DirectMarks, EffectEvents, FunctionNames, Events, Source
<1>3. \A m : Reach(m)' = Reach(m)
  BY <1>1 DEF Reach
<1>4. \A m : Triggers(m, marks)' <=> Triggers(m, marks)
  BY <1>3 DEF Triggers, ReachedEffects
<1> QED
  BY <1>2, <1>4 DEF ClosedUnderCalls

\* Adding the entries of one Set keeps what tables lead to.
LEMMA HeapGrows ==
  ASSUME TypeOK, TablesOK, DOMAIN heap \subseteq DOMAIN heap'
  PROVE  /\ \A i \in Files : \A r \in DOMAIN tables[i] : tables[i][r] \in DOMAIN heap'
         /\ \A r \in DOMAIN graph : graph[r] \in DOMAIN heap'
         /\ \A r \in DOMAIN globals : globals[r] \in DOMAIN heap'
  BY DEF TypeOK, TablesOK

\* ParseSourceFacts keeps the invariant: its table leads to the Sets it makes.
LEMMA ParseStep ==
  ASSUME IInv, ParseSourceFacts
  PROVE  IInv'
<1> DEFINE Own == [id \in {<<"file", file, n>> : n \in FunctionNames(file)} |->
                     CallReferences(file, Source(file).functions[id[3]])]
           OwnTable == [r \in {Bare(n) : n \in FunctionNames(file)} |-> <<"file", file, r[2]>>]
<1>1. /\ heap' = Overlay(Own, heap)
      /\ tables' = [tables EXCEPT ![file] = OwnTable]
      /\ file = program.owned => phase' = "graph" /\ file' = 1
      /\ file # program.owned => phase' = "parse" /\ file' = file + 1
      /\ UNCHANGED <<program, globals, graph, emitted>>
  BY DEF ParseSourceFacts
<1>2. \A r \in DOMAIN OwnTable : OwnTable[r] \in DOMAIN Own
  BY DEF Bare
<1> HIDE DEF Own, OwnTable
<1>3. DOMAIN heap' = DOMAIN Own \cup DOMAIN heap
  BY <1>1, OverlayEntries
<1>4. /\ \A i \in Files : \A r \in DOMAIN tables[i] : tables[i][r] \in DOMAIN heap'
      /\ \A r \in DOMAIN graph : graph[r] \in DOMAIN heap'
      /\ TablesOK'
  BY <1>1, <1>3, HeapGrows DEF IInv, TablesOK
<1>5. Files' = Files /\ Owned' = Owned
  BY <1>1 DEF Files, Owned
<1>6. DOMAIN tables' = Files /\ \A i \in Files : \A r \in DOMAIN tables'[i] :
        tables'[i][r] \in DOMAIN heap'
  BY <1>1, <1>2, <1>3, <1>4 DEF IInv, TypeOK
<1>7. program \in Programs /\ file \in Owned
  BY DEF IInv, ParseSourceFacts
<1>8. file' \in Files /\ (phase' = "parse" => file' \in Owned)
  BY <1>1, <1>7, Numbered DEF Owned, Files
<1>9. phase' \in {"parse", "graph"} /\ DOMAIN emitted' \subseteq Owned
  BY <1>1 DEF IInv, TypeOK
<1> QED
  BY <1>1, <1>4, <1>5, <1>6, <1>7, <1>8, <1>9 DEF IInv, TypeOK

\* CollectLocalCallGraph keeps the invariant: its entries lead to the Sets it makes.
LEMMA GraphStep ==
  ASSUME IInv, CollectLocalCallGraph
  PROVE  IInv'
<1> DEFINE module == Source(file).module
           names == LocalNames(file)
           Sets == [id \in {<<"graph", file, n>> : n \in names} |-> LocalReferences(file, id[3])]
           Entries == [r \in {<<module, n>> : n \in names} |-> <<"graph", file, r[2]>>]
<1>1. /\ heap' = Overlay(Sets, heap)
      /\ graph' = Overlay(Entries, graph)
      /\ file = Len(program.sources) => phase' = "globals" /\ file' = 1
      /\ file # Len(program.sources) => phase' = "graph" /\ file' = file + 1
      /\ UNCHANGED <<program, tables, globals, emitted>>
  BY DEF CollectLocalCallGraph
<1>2. \A r \in DOMAIN Entries : Entries[r] \in DOMAIN Sets
  OBVIOUS
<1> HIDE DEF Sets, Entries
<1>3. DOMAIN heap' = DOMAIN Sets \cup DOMAIN heap
  BY <1>1, OverlayEntries
<1>4. /\ \A i \in Files : \A r \in DOMAIN tables[i] : tables[i][r] \in DOMAIN heap'
      /\ \A r \in DOMAIN graph : graph[r] \in DOMAIN heap'
      /\ TablesOK'
  BY <1>1, <1>3, HeapGrows DEF IInv, TablesOK
<1>5. \A r \in DOMAIN graph' : graph'[r] \in DOMAIN heap'
  <2>1. \A r \in DOMAIN Entries : Entries[r] \in DOMAIN heap'
    BY <1>2, <1>3
  <2> QED
    BY <1>1, <1>4, <2>1, OverlayRange
<1>6. Files' = Files /\ Owned' = Owned
  BY <1>1 DEF Files, Owned
<1>7. program \in Programs /\ file \in Files
  BY DEF IInv, TypeOK
<1>8. file' \in Files /\ (phase' = "globals" => file' \in Owned)
  BY <1>1, <1>7, Numbered
<1>9. phase' \in {"globals", "graph"} /\ DOMAIN emitted' \subseteq Owned
  BY <1>1 DEF IInv, TypeOK
<1>10. DOMAIN tables' = Files
  BY <1>1 DEF IInv, TypeOK
<1> QED
  BY <1>1, <1>4, <1>5, <1>6, <1>7, <1>8, <1>9, <1>10 DEF IInv, TypeOK

\* UniqueGlobalFunctionReferences keeps the invariant: its entries are those of files.
LEMMA GlobalsStep ==
  ASSUME IInv, UniqueGlobalFunctionReferences
  PROVE  IInv'
<1> DEFINE Definers(r) == {i \in Owned : r \in DOMAIN tables[i]}
           unique == {r \in UNION {DOMAIN tables[i] : i \in Owned} : Cardinality(Definers(r)) = 1}
           Definer(r) == CHOOSE i \in Owned : i \in Definers(r)
<1>1. /\ globals' = [r \in unique |-> tables[Definer(r)][r]]
      /\ phase' = "merge"
      /\ UNCHANGED <<program, file, heap, tables, graph, emitted>>
  BY DEF UniqueGlobalFunctionReferences
<1>2. \A r \in unique : Definer(r) \in Owned /\ r \in DOMAIN tables[Definer(r)]
  OBVIOUS
<1>3. Owned \subseteq Files /\ program \in Programs /\ 1 \in Owned
  BY Numbered DEF IInv
<1> HIDE DEF unique, Definer
<1>4. \A r \in DOMAIN globals' : globals'[r] \in DOMAIN heap
  BY <1>1, <1>2, <1>3 DEF IInv, TypeOK
<1>5. Files' = Files /\ Owned' = Owned
  BY <1>1 DEF Files, Owned
<1>6. file \in Owned
  BY DEF IInv, UniqueGlobalFunctionReferences
<1> QED
  BY <1>1, <1>4, <1>5, <1>3, <1>6 DEF IInv, TypeOK, TablesOK

\* MergeTables keeps the invariant: the walk starts with the imported bindings.
LEMMA MergeStep ==
  ASSUME IInv, MergeTables
  PROVE  IInv'
<1>1. /\ tables' = [tables EXCEPT ![file] =
                      Overlay(tables[file], Overlay(globals, graph))]
      /\ marked' = Source(file).bindings
      /\ pos' = 1 /\ phase' = "walk" /\ phase = "merge"
      /\ UNCHANGED <<program, file, heap, globals, graph, effects, emitted>>
  BY DEF MergeTables
<1>2. program \in Programs /\ file \in Files /\ file \in Owned
  BY <1>1 DEF IInv, TypeOK
<1>3. \A r \in DOMAIN Overlay(globals, graph) : Overlay(globals, graph)[r] \in DOMAIN heap
  BY OverlayRange DEF IInv, TypeOK, TablesOK
<1>4. \A r \in DOMAIN Overlay(tables[file], Overlay(globals, graph)) :
        Overlay(tables[file], Overlay(globals, graph))[r] \in DOMAIN heap
  BY <1>2, <1>3, OverlayRange DEF IInv, TypeOK
<1>5. DOMAIN tables' = Files /\ \A i \in Files : \A r \in DOMAIN tables'[i] :
        tables'[i][r] \in DOMAIN heap
  BY <1>1, <1>2, <1>4 DEF IInv, TypeOK
<1>6. Source(file)' = Source(file) /\ Names(file)' = Names(file)
  BY <1>1 DEF Source, Names, TextOf, DirectMarks, EffectEvents, FunctionNames, Events
<1>7. Files' = Files /\ Owned' = Owned
  BY <1>1 DEF Files, Owned
<1>8. 1 \in 1 .. Len(Source(file).walk) + 1
  BY <1>2, Numbered
<1>9. WalkedMarks(file, 1)' = Source(file).bindings
  BY <1>1, <1>2, <1>8, WalkMarks DEF WalkedMarks, Source
<1>10. marked' \subseteq Names(file)
  BY <1>1, MarksAreIdentifiers
<1> QED
  BY <1>1, <1>2, <1>5, <1>6, <1>7, <1>8, <1>9, <1>10 DEF IInv, TypeOK, TablesOK

\* A step of the walk, whatever it records besides.
LEMMA WalkStep ==
  ASSUME IInv, phase = "walk", pos \in DOMAIN Source(file).walk,
         pos' = pos + 1,
         marked' = marked \cup MarksOf(Event),
         DOMAIN heap \subseteq DOMAIN heap',
         DOMAIN tables' = DOMAIN tables,
         \A i \in DOMAIN tables : \A r \in DOMAIN tables'[i] : tables'[i][r] \in DOMAIN heap',
         UNCHANGED <<program, phase, file, globals, graph, effects, emitted>>
  PROVE  IInv'
<1>1. program \in Programs /\ file \in Files /\ file \in Owned
  BY DEF IInv, TypeOK
<1>2. /\ \A r \in DOMAIN graph : graph[r] \in DOMAIN heap'
      /\ TablesOK'
  BY HeapGrows DEF IInv, TablesOK
<1>3. /\ Source(file)' = Source(file) /\ Names(file)' = Names(file)
      /\ Files' = Files /\ Owned' = Owned
  BY DEF Source, Names, TextOf, DirectMarks, EffectEvents, FunctionNames, Events, Files, Owned
<1>4. pos \in 1 .. Len(Source(file).walk) + 1 /\ pos + 1 \in 1 .. Len(Source(file).walk) + 1
  BY <1>1, Numbered DEF IInv, TypeOK
<1>5. \A p : WalkedMarks(file, p)' = WalkedMarks(file, p')
  BY DEF WalkedMarks, Source
<1>6. marked' = WalkedMarks(file, pos + 1)
  BY <1>1, <1>4, WalkMarks DEF IInv, Event
<1>7. marked' \subseteq Names(file)
  BY MarksAreIdentifiers DEF IInv, TypeOK, Event
<1>8. WalkedMarks(file, pos)' = WalkedMarks(file, pos + 1)
  BY DEF WalkedMarks, Source
<1>9. TypeOK'
  BY <1>1, <1>2, <1>3, <1>4, <1>7 DEF IInv, TypeOK
<1> QED
  BY <1>1, <1>2, <1>3, <1>6, <1>8, <1>9 DEF IInv

\* RecordEffect keeps the invariant.
LEMMA RecordEffectStep ==
  ASSUME IInv, RecordEffect
  PROVE  IInv'
  BY WalkStep DEF RecordEffect, Walking, IInv, TypeOK, MarksOf, EffectEvents, Events, Event

\* RecordCheck keeps the invariant.
LEMMA RecordCheckStep ==
  ASSUME IInv, RecordCheck
  PROVE  IInv'
  BY WalkStep DEF RecordCheck, Walking, IInv, TypeOK, MarksOf

\* RecordRunner keeps the invariant: the Set it adds to exists from then on.
LEMMA RecordRunnerStep ==
  ASSUME IInv, RecordRunner
  PROVE  IInv'
<1> DEFINE references == CallReferences(file, Event.calls)
           name  == Bare(Enclosing(Event))
           known == name \in DOMAIN tables[file]
           id    == IF known THEN tables[file][name] ELSE <<"file", file, Enclosing(Event)>>
           new   == [x \in {id} |-> references \cup IF known THEN heap[id] ELSE {}]
           entry == [r \in {name} |-> id]
<1>1. /\ phase = "walk" /\ pos \in DOMAIN Source(file).walk /\ Event.kind = "runner"
      /\ pos' = pos + 1
      /\ UNCHANGED <<program, phase, file, globals, graph, effects, marked, emitted>>
      /\ \/ UNCHANGED <<heap, tables>>
         \/ /\ heap' = Overlay(new, heap)
            /\ tables' = [tables EXCEPT ![file] = Overlay(entry, tables[file])]
  BY DEF RecordRunner, Walking
<1>2. marked' = marked \cup MarksOf(Event)
  BY <1>1 DEF MarksOf
<1>3. CASE UNCHANGED <<heap, tables>>
  BY <1>1, <1>2, <1>3, WalkStep DEF IInv, TypeOK
<1>4. CASE /\ heap' = Overlay(new, heap)
           /\ tables' = [tables EXCEPT ![file] = Overlay(entry, tables[file])]
  <2>1. \A r \in DOMAIN entry : entry[r] \in DOMAIN new
    OBVIOUS
  <2> HIDE DEF new, entry
  <2>2. DOMAIN heap' = DOMAIN new \cup DOMAIN heap
    BY <1>4, OverlayEntries
  <2>3. file \in Files /\ DOMAIN tables = Files
    BY DEF IInv, TypeOK
  <2>4. \A i \in Files : \A r \in DOMAIN tables[i] : tables[i][r] \in DOMAIN heap'
    BY <2>2, HeapGrows DEF IInv
  <2>5. \A r \in DOMAIN Overlay(entry, tables[file]) :
          Overlay(entry, tables[file])[r] \in DOMAIN heap'
    <3>1. \A r \in DOMAIN entry : entry[r] \in DOMAIN heap'
      BY <2>1, <2>2
    <3> QED
      BY <2>3, <2>4, <3>1, OverlayRange
  <2>6. DOMAIN tables' = DOMAIN tables /\ \A i \in DOMAIN tables :
          \A r \in DOMAIN tables'[i] : tables'[i][r] \in DOMAIN heap'
    BY <1>4, <2>3, <2>4, <2>5
  <2> QED
    BY <1>1, <1>2, <2>2, <2>6, WalkStep
<1> QED
  BY <1>1, <1>3, <1>4

\* The set that the walk leaves is in every closed set, as those hold it.
LEMMA WalkEndsStep ==
  ASSUME IInv, CollectNodeFactsEnds
  PROVE  IInv'
<1>1. /\ phase = "walk" /\ pos \notin DOMAIN Source(file).walk /\ phase' = "expand"
      /\ UNCHANGED <<program, file, pos, heap, tables, globals, graph, effects,
                     marked, emitted>>
  BY DEF CollectNodeFactsEnds
<1>2. /\ Source(file)' = Source(file) /\ Names(file)' = Names(file)
      /\ DirectMarks(file)' = DirectMarks(file)
      /\ Files' = Files /\ Owned' = Owned
  BY <1>1 DEF Source, Names, TextOf, DirectMarks, EffectEvents, FunctionNames, Events, Files, Owned
<1>3. marked = DirectMarks(file)
  BY <1>1, WalkMarks DEF IInv, TypeOK
<1>4. MarkedInClosedSets'
  BY <1>1, <1>2, <1>3 DEF MarkedInClosedSets
<1> QED
  BY <1>1, <1>2, <1>3, <1>4 DEF IInv, TypeOK, TablesOK

\* A function that the marks trigger is in every closed set that holds the marks.
LEMMA ExpandStep ==
  ASSUME IInv, NEW n \in Identifiers(file), ExpandEffectfulIdentifier(n)
  PROVE  IInv'
<1>1. /\ phase = "expand" /\ n \in Candidates /\ Triggers(n, marked)
      /\ marked' = marked \cup {n}
      /\ UNCHANGED <<program, phase, file, pos, heap, tables, globals, graph, effects,
                     emitted>>
  BY DEF ExpandEffectfulIdentifier
<1>2. /\ Source(file)' = Source(file) /\ Names(file)' = Names(file)
      /\ DirectMarks(file)' = DirectMarks(file)
      /\ Files' = Files /\ Owned' = Owned
  BY <1>1 DEF Source, Names, TextOf, DirectMarks, EffectEvents, FunctionNames, Events, Files, Owned
<1>3. ASSUME NEW marks \in SUBSET Names(file),
             DirectMarks(file) \subseteq marks, ClosedUnderCalls(marks)
      PROVE  marked' \subseteq marks
  <2>1. marked \subseteq marks
    BY <1>1, <1>3 DEF IInv, MarkedInClosedSets
  <2>2. Triggers(n, marks)
    BY <1>1, <2>1, TriggersGrow
  <2>3. n \in marks
    BY <1>1, <1>3, <2>2 DEF ClosedUnderCalls
  <2> QED
    BY <1>1, <2>1, <2>3
<1>4. MarkedInClosedSets'
  <2> SUFFICES ASSUME NEW CONSTANT marks \in SUBSET Names(file),
                      DirectMarks(file) \subseteq marks, ClosedUnderCalls(marks)
               PROVE  marked' \subseteq marks
    BY <1>1, <1>2, LoopIsStable DEF MarkedInClosedSets
  <2> QED
    BY <1>3
<1>5. n \in Names(file)
  BY MarksAreIdentifiers
<1>6. TypeOK'
  BY <1>1, <1>2, <1>5 DEF IInv, TypeOK
<1> QED
  BY <1>1, <1>2, <1>4, <1>6 DEF IInv, TablesOK

\* EmitFact keeps the invariant: the next file is under the root.
LEMMA EmitStep ==
  ASSUME IInv, EmitFact
  PROVE  IInv'
<1>1. /\ phase = "expand"
      /\ emitted' = Overlay([i \in {file} |-> [marked |-> marked, evidence |-> evidence,
                                              checks |-> checks]], emitted)
      /\ file = program.owned => phase' = "done" /\ file' = file
      /\ file # program.owned => phase' = "merge" /\ file' = file + 1
      /\ UNCHANGED <<program, heap, tables, globals, graph>>
  BY DEF EmitFact, Settled
<1>2. Files' = Files /\ Owned' = Owned
  BY <1>1 DEF Files, Owned
<1>3. program \in Programs /\ file \in Owned
  BY <1>1 DEF IInv
<1>4. file' \in Owned
  BY <1>1, <1>3, Numbered DEF Owned
<1>5. file' \in Files
  BY <1>3, <1>4, Numbered
<1>6. DOMAIN emitted' \subseteq Owned
  BY <1>1, <1>3, OverlayEntries DEF IInv, TypeOK
<1> QED
  BY <1>1, <1>2, <1>3, <1>4, <1>5, <1>6 DEF IInv, TypeOK, TablesOK

\* A stuttering step keeps the invariant.
LEMMA StutterStep ==
  ASSUME IInv, UNCHANGED vars
  PROVE  IInv'
<1>1. UNCHANGED <<program, phase, file, pos, heap, tables, globals, graph, effects,
                  marked, emitted>>
  BY DEF vars
<1>2. TypeOK' /\ TablesOK'
  BY <1>1 DEF IInv, TypeOK, TablesOK, Files, Owned, Source, Names, TextOf, DirectMarks, EffectEvents, FunctionNames, Events
<1>3. WalkedMarks(file, pos)' = WalkedMarks(file, pos)
  BY <1>1 DEF WalkedMarks, Source
<1>4. DirectMarks(file)' = DirectMarks(file) /\ Names(file)' = Names(file)
  BY <1>1 DEF DirectMarks, Names, TextOf, EffectEvents, FunctionNames, Events, Source
<1>5. MarkedInClosedSets' <=> MarkedInClosedSets
  BY <1>1, <1>4, LoopIsStable DEF MarkedInClosedSets
<1> QED
  BY <1>1, <1>2, <1>3, <1>4, <1>5 DEF IInv, Owned

\* Every step keeps the invariant.
LEMMA StepIInv == IInv /\ [Next]_vars => IInv'
<1> SUFFICES ASSUME IInv, [Next]_vars PROVE IInv'
  OBVIOUS
<1>1. CASE ParseSourceFacts
  BY <1>1, ParseStep
<1>2. CASE CollectLocalCallGraph
  BY <1>2, GraphStep
<1>3. CASE UniqueGlobalFunctionReferences
  BY <1>3, GlobalsStep
<1>4. CASE MergeTables
  BY <1>4, MergeStep
<1>5. CASE RecordEffect
  BY <1>5, RecordEffectStep
<1>6. CASE RecordRunner
  BY <1>6, RecordRunnerStep
<1>7. CASE RecordCheck
  BY <1>7, RecordCheckStep
<1>8. CASE CollectNodeFactsEnds
  BY <1>8, WalkEndsStep
<1>9. CASE \E n \in Identifiers(file) : ExpandEffectfulIdentifier(n)
  BY <1>9, ExpandStep
<1>10. CASE EmitFact
  BY <1>10, EmitStep
<1>11. CASE UNCHANGED vars
  BY <1>11, StutterStep
<1> QED
  BY <1>1, <1>2, <1>3, <1>4, <1>5, <1>6, <1>7, <1>8, <1>9, <1>10, <1>11 DEF Next

\* The invariant holds throughout.
LEMMA Invariance == Spec => []IInv
<1>1. Init => IInv
  BY InitIInv
<1>2. IInv /\ [Next]_vars => IInv'
  BY StepIInv
<1> QED
  BY <1>1, <1>2, PTL DEF Spec

---------------------------------------------------------------------------
\* Type correctness: every entry of every table leads to a Set that exists, the
\* walk stays inside its file and marks identifiers of the file, and only files
\* under the root are emitted (main, main.ts).
THEOREM TypeCorrect == Spec => []TypeOK
<1>1. IInv => TypeOK
  BY DEF IInv
<1> QED
  BY <1>1, Invariance, PTL

\* When the loop of expandEffectfulIdentifiers (main.ts) stops, what it marked is
\* the least set that holds the direct marks and all that reaches one of them or an
\* effect of another file, whatever the files call and in whatever order the loop
\* takes the functions.
THEOREM LeastMarks == Spec => []MarksAreLeast
<1>1. ASSUME IInv, Settled
      PROVE  /\ DirectMarks(file) \subseteq marked
             /\ ClosedUnderCalls(marked)
             /\ \A marks \in SUBSET marked :
                  DirectMarks(file) \subseteq marks /\ ClosedUnderCalls(marks) => marks = marked
  <2>1. phase = "expand" /\ \A n \in Candidates \ marked : ~ Triggers(n, marked)
    BY <1>1 DEF Settled
  <2>2. DirectMarks(file) \subseteq marked /\ MarkedInClosedSets
    BY <1>1, <2>1 DEF IInv
  <2>3. ClosedUnderCalls(marked)
    BY <2>1 DEF ClosedUnderCalls
  <2>4. marked \subseteq Names(file)
    BY <1>1, <2>1 DEF IInv, TypeOK
  <2>5. \A marks \in SUBSET marked :
          DirectMarks(file) \subseteq marks /\ ClosedUnderCalls(marks) => marks = marked
    BY <2>2, <2>4 DEF MarkedInClosedSets
  <2> QED
    BY <2>2, <2>3, <2>5
<1>2. IInv => MarksAreLeast
  BY <1>1 DEF MarksAreLeast
<1> QED
  BY <1>2, Invariance, PTL

---------------------------------------------------------------------------
(* Whose Sets a walk changes.                                              *)

\* File i has been parsed.
Parsed(i) == i \in Owned /\ (phase = "parse" => i < file)

\* Whatever else comes into the table of a file, the names of its own functions lead to
\* its own Sets.
OwnTables ==
  \A i \in Owned : Parsed(i) =>
    \A n \in FunctionNames(i) :
      Bare(n) \in DOMAIN tables[i] /\ tables[i][Bare(n)] = <<"file", i, n>>

\* What is said of the program alone does not change.
LEMMA SameProgram ==
  ASSUME program' = program
  PROVE  /\ Files' = Files /\ Owned' = Owned /\ Calls' = Calls
         /\ \A i : /\ Source(i)' = Source(i) /\ FunctionNames(i)' = FunctionNames(i)
                   /\ Identifiers(i)' = Identifiers(i) /\ DirectMarks(i)' = DirectMarks(i)
         /\ \A i, c : TextOf(i, c)' = TextOf(i, c)
         /\ \A i, kind : Events(i, kind)' = Events(i, kind)
<1>1. Files' = Files /\ Owned' = Owned /\ \A i : Source(i)' = Source(i)
  BY DEF Files, Owned, Source
<1>2. \A i : FunctionNames(i)' = FunctionNames(i)
  BY <1>1 DEF FunctionNames
<1>3. \A i, kind : Events(i, kind)' = Events(i, kind)
  BY <1>1 DEF Events
<1>4. \A i : EffectEvents(i)' = EffectEvents(i)
  BY <1>3 DEF EffectEvents
<1>5. \A i : DirectMarks(i)' = DirectMarks(i)
  BY <1>1, <1>4 DEF DirectMarks
<1>6. \A i, c : TextOf(i, c)' = TextOf(i, c)
  BY <1>1 DEF TextOf
<1>7. \A i : Names(i)' = Names(i)
  BY <1>1, <1>2, <1>3, <1>4, <1>5, <1>6 DEF Names
<1>8. \A i : Identifiers(i)' = Identifiers(i)
  BY <1>1, <1>7 DEF Identifiers
<1> QED
  BY <1>1, <1>2, <1>3, <1>5, <1>6, <1>8 DEF Calls

\* A step that changes a table only by entries for names it does not have keeps it.
LEMMA OwnTablesStay ==
  ASSUME IInv, OwnTables, program' = program, DOMAIN tables' = DOMAIN tables,
         \A i \in Owned : Parsed(i)' => Parsed(i),
         \A i \in Owned : \A r \in DOMAIN tables[i] :
           r \in DOMAIN tables'[i] /\ tables'[i][r] = tables[i][r]
  PROVE  OwnTables'
  BY SameProgram DEF OwnTables

\* Every step leaves the functions of a parsed file in its own table.
LEMMA OwnTablesInv == IInv /\ OwnTables /\ [Next]_vars => OwnTables'
<1> SUFFICES ASSUME IInv, OwnTables, [Next]_vars PROVE OwnTables'
  OBVIOUS
<1>1. program \in Programs /\ Owned \subseteq Files /\ DOMAIN tables = Files
  BY Numbered DEF IInv, TypeOK
<1>2. CASE ParseSourceFacts
  <2> DEFINE own == [r \in {Bare(n) : n \in FunctionNames(file)} |-> <<"file", file, r[2]>>]
  <2>1. /\ phase = "parse" /\ program' = program
        /\ tables' = [tables EXCEPT ![file] = own]
        /\ file = program.owned => phase' = "graph" /\ file' = 1
        /\ file # program.owned => phase' = "parse" /\ file' = file + 1
    BY <1>2 DEF ParseSourceFacts
  <2>2. file \in Owned
    BY <2>1 DEF IInv
  <2>3. \A i \in Owned : Parsed(i)' => Parsed(i) \/ i = file
    BY <1>1, <2>1, <2>2, Numbered DEF Parsed, Owned
  <2>4. \A n \in FunctionNames(file) : Bare(n) \in DOMAIN own /\ own[Bare(n)] = <<"file", file, n>>
    BY DEF Bare
  <2> HIDE DEF own
  <2>5. ASSUME NEW i \in Owned, Parsed(i)', NEW n \in FunctionNames(i)
        PROVE  Bare(n) \in DOMAIN tables'[i] /\ tables'[i][Bare(n)] = <<"file", i, n>>
    <3>1. CASE i = file
      BY <1>1, <2>1, <2>4, <2>5, <3>1
    <3>2. CASE i # file
      BY <1>1, <2>1, <2>3, <2>5, <3>2 DEF OwnTables
    <3> QED
      BY <3>1, <3>2
  <2> QED
    BY <2>1, <2>5, SameProgram DEF OwnTables
<1>3. CASE MergeTables
  <2> DEFINE merged == Overlay(tables[file], Overlay(globals, graph))
  <2>1. /\ phase = "merge" /\ phase' = "walk" /\ program' = program
        /\ tables' = [tables EXCEPT ![file] = merged]
    BY <1>3 DEF MergeTables
  <2>2. \A r \in DOMAIN tables[file] : r \in DOMAIN merged /\ merged[r] = tables[file][r]
    BY DEF Overlay
  <2> HIDE DEF merged
  <2>3. \A i \in Owned : \A r \in DOMAIN tables[i] :
          r \in DOMAIN tables'[i] /\ tables'[i][r] = tables[i][r]
    BY <1>1, <2>1, <2>2
  <2> QED
    BY <1>1, <2>1, <2>3, OwnTablesStay DEF Parsed
<1>4. CASE RecordRunner
  <2> DEFINE name == Bare(Enclosing(Event))
             known == name \in DOMAIN tables[file]
             id == IF known THEN tables[file][name] ELSE <<"file", file, Enclosing(Event)>>
             entry == [r \in {name} |-> id]
  <2>1. /\ phase = "walk" /\ phase' = phase /\ program' = program
        /\ tables' = tables \/ tables' = [tables EXCEPT ![file] = Overlay(entry, @)]
    BY <1>4 DEF RecordRunner, Walking
  <2>2. \A r \in DOMAIN tables[file] : r \in DOMAIN entry => entry[r] = tables[file][r]
    OBVIOUS
  <2> HIDE DEF entry
  <2>3. \A i \in Owned : \A r \in DOMAIN tables[i] :
          r \in DOMAIN tables'[i] /\ tables'[i][r] = tables[i][r]
    BY <1>1, <2>1, <2>2 DEF Overlay
  <2>4. DOMAIN tables' = DOMAIN tables
    BY <1>1, <2>1
  <2> QED
    BY <2>1, <2>3, <2>4, OwnTablesStay DEF Parsed
<1>5. CASE UNCHANGED <<program, tables>> /\ phase # "parse"
  BY <1>5, OwnTablesStay DEF Parsed
<1>6. CASE UNCHANGED vars
  BY <1>6, SameProgram DEF OwnTables, Parsed, vars
<1> QED
  BY <1>2, <1>3, <1>4, <1>5, <1>6 DEF Next, CollectLocalCallGraph, UniqueGlobalFunctionReferences,
     RecordEffect, RecordCheck, Walking, CollectNodeFactsEnds, ExpandEffectfulIdentifier, EmitFact, Settled

\* A walk adds to the Sets of its own file only, as the names of the functions in
\* which its Effects run lead there (addReferencesToEnclosingIdentifier, main.ts),
\* though the tables of all files share their Sets.
THEOREM WalksAddAtHome == Spec => WalksStayAtHome
<1>1. Init => OwnTables
  BY DEF Init, OwnTables, Parsed, Owned
<1>2. IInv /\ OwnTables /\ [Next]_vars => OwnTables'
  BY OwnTablesInv
<1> DEFINE home ==
      (\A e \in Events(file, "runner") : Enclosing(e) \in FunctionNames(file) \cup {NoFunction})
        => \A id \in DOMAIN heap : heap'[id] # heap[id] => id[2] = file
<1>3. ASSUME IInv, OwnTables, [Next]_vars
      PROVE  home
  <2>1. CASE ParseSourceFacts
    <3> DEFINE own == [id \in {<<"file", file, n>> : n \in FunctionNames(file)} |->
                         CallReferences(file, Source(file).functions[id[3]])]
    <3>1. heap' = Overlay(own, heap) /\ \A id \in DOMAIN own : id[2] = file
      BY <2>1 DEF ParseSourceFacts
    <3> HIDE DEF own
    <3>2. \A id \in DOMAIN heap : id \in DOMAIN own \/ heap'[id] = heap[id]
      BY <3>1 DEF Overlay
    <3> QED
      BY <3>1, <3>2
  <2>2. CASE CollectLocalCallGraph
    <3> DEFINE new == [id \in {<<"graph", file, n>> : n \in LocalNames(file)} |->
                         LocalReferences(file, id[3])]
    <3>1. heap' = Overlay(new, heap) /\ \A id \in DOMAIN new : id[2] = file
      BY <2>2 DEF CollectLocalCallGraph
    <3> HIDE DEF new
    <3>2. \A id \in DOMAIN heap : id \in DOMAIN new \/ heap'[id] = heap[id]
      BY <3>1 DEF Overlay
    <3> QED
      BY <3>1, <3>2
  <2>3. CASE RecordRunner
    <3> DEFINE references == CallReferences(file, Event.calls)
               name  == Bare(Enclosing(Event))
               known == name \in DOMAIN tables[file]
               id    == IF known THEN tables[file][name] ELSE <<"file", file, Enclosing(Event)>>
               new   == [x \in {id} |-> references \cup IF known THEN heap[id] ELSE {}]
    <3>1. /\ phase = "walk" /\ pos \in DOMAIN Source(file).walk /\ Event.kind = "runner"
          /\ heap' = heap \/ (Enclosing(Event) # NoFunction /\ heap' = Overlay(new, heap))
      BY <2>3 DEF RecordRunner, Walking
    <3>2. DOMAIN new = {id}
      OBVIOUS
    <3> HIDE DEF new
    <3>3. Event \in Events(file, "runner")
      BY <3>1 DEF Events, Event
    <3>4. Enclosing(Event) \in FunctionNames(file) => id = <<"file", file, Enclosing(Event)>>
      <4>1. Parsed(file) /\ file \in Owned
        BY <1>3, <3>1 DEF Parsed, IInv
      <4> QED
        BY <1>3, <4>1 DEF OwnTables
    <3>5. Enclosing(Event) \in FunctionNames(file) => id[2] = file
      BY <3>4
    <3> HIDE DEF id
    <3>6. \A x \in DOMAIN heap : heap'[x] # heap[x] => x = id /\ Enclosing(Event) # NoFunction
      BY <3>1, <3>2 DEF Overlay
    <3> QED
      BY <3>3, <3>5, <3>6
  <2>4. CASE heap' = heap
    BY <2>4
  <2> QED
    BY <1>3, <2>1, <2>2, <2>3, <2>4 DEF Next, UniqueGlobalFunctionReferences, MergeTables, RecordEffect,
       RecordCheck, CollectNodeFactsEnds, ExpandEffectfulIdentifier, EmitFact, vars
<1>4. IInv /\ OwnTables /\ [Next]_vars => [home]_vars
  BY <1>3
<1> QED
  BY <1>1, <1>2, <1>4, Invariance, PTL DEF Spec, WalksStayAtHome

---------------------------------------------------------------------------
(* What the functions of the program call.                                 *)

\* The functions of the table are those of the files.
LEMMA CallingFunctions ==
  ASSUME NEW f
  PROVE  /\ f \in DOMAIN CallTable <=> \E i \in Files : \E n \in FunctionNames(i) : f = <<i, n>>
         /\ f \in DOMAIN CallTable =>
              /\ f = <<f[1], f[2]>> /\ f[1] \in Files /\ f[2] \in FunctionNames(f[1])
              /\ CallTable[f] = Source(f[1]).functions[f[2]]
                   \cup UNION {e.calls : e \in {d \in Events(f[1], "runner") : Enclosing(d) = f[2]}}
<1>1. f \in DOMAIN CallTable <=> f \in UNION {{<<i, n>> : n \in FunctionNames(i)} : i \in Files}
  BY DEF CallTable
<1>2. f \in DOMAIN CallTable <=> \E i \in Files : \E n \in FunctionNames(i) : f = <<i, n>>
  BY <1>1
<1>3. f \in DOMAIN CallTable =>
        CallTable[f] = Source(f[1]).functions[f[2]]
          \cup UNION {e.calls : e \in {d \in Events(f[1], "runner") : Enclosing(d) = f[2]}}
  BY DEF CallTable
<1> QED
  BY <1>2, <1>3

\* There are finitely many functions.
LEMMA FinitelyManyFunctions ==
  ASSUME program \in Programs
  PROVE  IsFiniteSet(DOMAIN CallTable)
<1> DEFINE names == [i \in Files |-> FunctionNames(i)]
           All == UNION {names[i] : i \in Files}
<1>1. IsFiniteSet(Files)
  <2>1. Files = 1 .. Len(program.sources) /\ Len(program.sources) \in Nat
    BY Numbered
  <2> QED
    BY <2>1, FS_Interval
<1>2. \A i \in Files : IsFiniteSet(names[i]) /\ names[i] = FunctionNames(i)
  BY Typed
<1>3. DOMAIN names = Files
  OBVIOUS
<1> HIDE DEF names
<1>4. IsFiniteSet({names[i] : i \in Files})
  BY <1>1, <1>3, FiniteImage
<1>5. IsFiniteSet(All)
  BY <1>2, <1>4, FS_UNION
<1>6. IsFiniteSet(Files \X All)
  BY <1>1, <1>5, FS_Product
<1>7. DOMAIN CallTable \subseteq Files \X All
  <2> SUFFICES ASSUME NEW f \in DOMAIN CallTable PROVE f \in Files \X All
    OBVIOUS
  <2>1. f = <<f[1], f[2]>> /\ f[1] \in Files /\ f[2] \in FunctionNames(f[1])
    BY CallingFunctions
  <2>2. f[2] \in All
    BY <1>2, <2>1
  <2> QED
    BY <2>1, <2>2
<1> QED
  BY <1>6, <1>7, FS_Subset

\* The calls that may happen are the least set that holds those made and all that the
\* functions among them call.
LEMMA CalledIsLeast ==
  ASSUME program \in Programs, NEW calls
  PROVE  /\ calls \subseteq Called(calls)
         /\ ClosedBy(CallTable, Called(calls))
         /\ \A S : calls \subseteq S /\ ClosedBy(CallTable, S) => Called(calls) \subseteq S
<1>1. IsFiniteSet(DOMAIN CallTable)
  BY FinitelyManyFunctions
<1> QED
  BY <1>1, ExpandedIsLeastClosed DEF Called

\* What a function calls happens wherever the function is called.
LEMMA CalledIsTransitive ==
  ASSUME program \in Programs, NEW calls, NEW f \in Called(calls)
  PROVE  Called({f}) \subseteq Called(calls)
<1>1. {f} \subseteq Called(calls) /\ ClosedBy(CallTable, Called(calls))
  BY CalledIsLeast
<1> QED
  BY <1>1, CalledIsLeast

\* The functions of the program, what they call and what the checks call.
Callees ==
  DOMAIN CallTable
    \cup (UNION {CallTable[f] : f \in DOMAIN CallTable})
    \cup (UNION {UNION {e.calls : e \in Events(i, "check")} : i \in Files})

\* The references of function f.
ReferencesOf(f) == CallReferences(f[1], CallTable[f])

\* The references of the functions among these calls.
ReferencesIn(calls) == UNION {ReferencesOf(f) : f \in calls \cap DOMAIN CallTable}

\* More calls make more references.
LEMMA ReferencesAreOfCalls ==
  ASSUME NEW i, NEW calls
  PROVE  /\ BareReferences(i, calls) \subseteq CallReferences(i, calls)
         /\ \A more : calls \subseteq more => CallReferences(i, calls) \subseteq CallReferences(i, more)
         /\ \A c \in calls : Bare(TextOf(i, c)) \in CallReferences(i, calls)
         /\ \A c \in calls : c[1] \notin {0, i} /\ Resolves(i, c[1]) =>
              <<Source(c[1]).module, SymbolName(c)>> \in CallReferences(i, calls)
<1>1. BareReferences(i, calls) \subseteq CallReferences(i, calls)
  BY DEF CallReferences
<1>2. \A more : calls \subseteq more => CallReferences(i, calls) \subseteq CallReferences(i, more)
  BY DEF CallReferences, BareReferences
<1>3. \A c \in calls : Bare(TextOf(i, c)) \in CallReferences(i, calls)
  BY DEF CallReferences, BareReferences
<1>4. \A c \in calls : c[1] \notin {0, i} /\ Resolves(i, c[1]) =>
        <<Source(c[1]).module, SymbolName(c)>> \in CallReferences(i, calls)
  BY DEF CallReferences
<1> QED
  BY <1>1, <1>2, <1>3, <1>4

\* The functions of a program call callees only.
LEMMA CalleesAreClosed ==
  ASSUME program \in Programs, NEW calls \in SUBSET Callees
  PROVE  Called(calls) \subseteq Callees
<1>1. ClosedBy(CallTable, Callees)
  BY DEF ClosedBy, Callees
<1> QED
  BY <1>1, CalledIsLeast

\* What functions call are calls.
LEMMA FunctionsCall ==
  ASSUME program \in Programs, NEW f \in DOMAIN CallTable
  PROVE  CallTable[f] \subseteq Calls
<1>1. /\ f[1] \in Files /\ f[2] \in FunctionNames(f[1])
      /\ CallTable[f] = Source(f[1]).functions[f[2]]
           \cup UNION {e.calls : e \in {d \in Events(f[1], "runner") : Enclosing(d) = f[2]}}
  BY CallingFunctions
<1>2. \A e \in Events(f[1], "runner") : e.calls \subseteq Calls
  BY <1>1, Typed DEF Events
<1> QED
  BY <1>1, <1>2, Typed

\* Callees are calls or functions.
LEMMA CalleesAre ==
  ASSUME program \in Programs, NEW c \in Callees
  PROVE  c = <<c[1], c[2]>> /\ c[1] \in Files \cup {0}
<1>1. c \in Calls => c = <<c[1], c[2]>> /\ c[1] \in Files \cup {0}
  BY DEF Calls
<1>2. CASE c \in DOMAIN CallTable
  BY <1>2, CallingFunctions
<1>3. CASE \E f \in DOMAIN CallTable : c \in CallTable[f]
  BY <1>1, <1>3, FunctionsCall
<1>4. CASE \E i \in Files : \E e \in Events(i, "check") : c \in e.calls
  <2>1. c \in Calls
    BY <1>4, Typed DEF Events
  <2> QED
    BY <1>1, <2>1
<1> QED
  BY <1>2, <1>3, <1>4 DEF Callees

\* What it means for names to be distinct, part by part.
LEMMA Distinct ==
  ASSUME DistinctNames
  PROVE  /\ DistinctModules
         /\ \A i, j \in Files : FunctionNames(i) \cap FunctionNames(j) # {} => i = j
         /\ \A f \in DOMAIN CallTable : Telling(f[1], CallTable[f])
         /\ \A i \in Files : \A e \in Events(i, "check") : Telling(i, e.calls)
         /\ \A i \in Files : LocalNames(i) = FunctionNames(i)
         /\ \A i \in Files : Source(i).defaults # {} => "default" \notin FunctionNames(i)
         /\ \A f \in DOMAIN CallTable, i \in Files : \A c \in CallTable[f] :
              TextOf(f[1], c) \in EffectNames(i) =>
                c[1] = 0 /\ c[2] \in Source(f[1]).bindings \cup Evidence(f[1], f[2])
         /\ \A i \in Files : \A e \in EffectEvents(i) :
              \/ Enclosing(e) \in FunctionNames(i)
              \/ \A f \in DOMAIN CallTable : \A c \in CallTable[f] :
                   Enclosing(e) \notin {TextOf(f[1], c), c[2], "default"}
<1>1. \A i \in Files : \A e \in EffectEvents(i) :
        \/ Enclosing(e) \in FunctionNames(i)
        \/ \A f \in DOMAIN CallTable : \A c \in CallTable[f] :
             Enclosing(e) \notin {TextOf(f[1], c), c[2], "default"}
  BY DEF DistinctNames
<1>2. \A f \in DOMAIN CallTable, i \in Files : \A c \in CallTable[f] :
        TextOf(f[1], c) \in EffectNames(i) =>
          c[1] = 0 /\ c[2] \in Source(f[1]).bindings \cup Evidence(f[1], f[2])
  BY DEF DistinctNames
<1>3. \A i \in Files : /\ \A e \in Events(i, "check") : Telling(i, e.calls)
                       /\ LocalNames(i) = FunctionNames(i)
                       /\ Source(i).defaults # {} => "default" \notin FunctionNames(i)
  BY DEF DistinctNames
<1>4. /\ DistinctModules
      /\ \A i, j \in Files : FunctionNames(i) \cap FunctionNames(j) # {} => i = j
      /\ \A f \in DOMAIN CallTable : Telling(f[1], CallTable[f])
  BY DEF DistinctNames
<1> QED
  BY <1>1, <1>2, <1>3, <1>4

\* Of what a file may call by the name of a function, a reference tells which it is.
LEMMA ReferencesTell ==
  ASSUME program \in Programs, DistinctNames, NEW i \in Files, NEW calls, Telling(i, calls),
         NEW r, NEW j \in Files, NEW n \in FunctionNames(j),
         r \in {Bare(n), <<Source(j).module, n>>}
  PROVE  /\ r \in BareReferences(i, calls) => <<j, n>> \in calls
         /\ calls \subseteq Calls /\ r \in CallReferences(i, calls) => <<j, n>> \in calls
<1>1. Source(j).module # NoModule
  BY Typed
<1>2. ASSUME r \in BareReferences(i, calls)
      PROVE  <<j, n>> \in calls
  <2>1. PICK c \in calls : r = Bare(TextOf(i, c))
    BY <1>2 DEF BareReferences
  <2>2. TextOf(i, c) = n
    BY <1>1, <2>1 DEF Bare
  <2>3. c = <<j, n>>
    BY <2>2 DEF Telling
  <2> QED
    BY <2>3
<1>3. ASSUME NEW c \in calls, c \in Calls, c[1] # 0, r = <<Source(c[1]).module, SymbolName(c)>>
      PROVE  <<j, n>> \in calls
  <2>1. c = <<c[1], c[2]>> /\ c[1] \in Files
    BY <1>3 DEF Calls
  <2>2. Source(c[1]).module # NoModule
    BY <2>1, Typed
  <2>3. Source(c[1]).module = Source(j).module /\ SymbolName(c) = n
    BY <1>3, <2>2 DEF Bare
  <2>4. c[1] = j
    BY <2>1, <2>3, Distinct DEF DistinctModules
  <2>5. c[2] \in Source(j).defaults => n = "default" /\ n \notin FunctionNames(j)
    BY <2>3, <2>4, Distinct DEF SymbolName
  <2>6. c[2] = n
    BY <2>3, <2>4, <2>5 DEF SymbolName
  <2>7. c = <<j, n>>
    BY <2>1, <2>4, <2>6
  <2> QED
    BY <2>7
<1>4. ASSUME calls \subseteq Calls, r \in CallReferences(i, calls)
      PROVE  <<j, n>> \in calls
  <2>1. r \in BareReferences(i, calls)
          \/ \E c \in calls : c[1] # 0 /\ r = <<Source(c[1]).module, SymbolName(c)>>
    BY <1>4 DEF CallReferences
  <2>2. CASE r \in BareReferences(i, calls)
    BY <1>2, <2>2
  <2>3. CASE \E c \in calls : c[1] # 0 /\ r = <<Source(c[1]).module, SymbolName(c)>>
    <3>1. PICK c \in calls : c[1] # 0 /\ r = <<Source(c[1]).module, SymbolName(c)>>
      BY <2>3
    <3> QED
      BY <1>3, <1>4, <3>1
  <2> QED
    BY <2>1, <2>2, <2>3
<1> QED
  BY <1>2, <1>4

\* So do the references of functions.
LEMMA FunctionsTell ==
  ASSUME program \in Programs, DistinctNames, NEW f \in DOMAIN CallTable,
         NEW r \in ReferencesOf(f), NEW j \in Files, NEW n \in FunctionNames(j),
         r \in {Bare(n), <<Source(j).module, n>>}
  PROVE  <<j, n>> \in CallTable[f]
<1>1. f[1] \in Files /\ Telling(f[1], CallTable[f])
  BY CallingFunctions, Distinct
<1>2. CallTable[f] \subseteq Calls
  BY FunctionsCall
<1>3. r \in CallReferences(f[1], CallTable[f])
  BY DEF ReferencesOf
<1> QED
  BY <1>1, <1>2, <1>3, ReferencesTell

---------------------------------------------------------------------------
(* What the tables lead to.                                                *)

\* File i has been collected for the call graph.
Collected(i) == phase # "parse" /\ (phase = "graph" => i < file)

\* The table of file i has been merged, and event k of its walk recorded.
Merged(i) ==
  \/ phase = "done"
  \/ phase = "merge" /\ i < file
  \/ phase \in {"walk", "expand"} /\ i <= file

Walked(i, k) == Merged(i) /\ (phase = "walk" /\ i = file => k < pos)

\* A Set is that of a function, and holds no references but those of the function.
SoundSet(id, references) ==
  \E kind \in {"file", "graph"}, j \in Files : \E n \in FunctionNames(j) :
    id = <<kind, j, n>> /\ references \subseteq ReferencesOf(<<j, n>>)

\* The function of a Set is the one that its reference in a table names.
SoundEntry(r, id) ==
  \E kind \in {"file", "graph"}, j \in Files : \E n \in FunctionNames(j) :
    id = <<kind, j, n>> /\ r \in {Bare(n), <<Source(j).module, n>>}

SoundTable(entries) == \A r \in DOMAIN entries : SoundEntry(r, entries[r])

\* Where names are distinct, every table leads to the Sets of the functions it names.
SoundTables == DistinctNames =>
  /\ \A id \in DOMAIN heap : SoundSet(id, heap[id])
  /\ \A i \in Files : SoundTable(tables[i])
  /\ SoundTable(globals)
  /\ SoundTable(graph)

\* There are finitely many entries.
FiniteTables ==
  /\ \A i \in Files : IsFiniteSet(DOMAIN tables[i])
  /\ IsFiniteSet(DOMAIN globals)
  /\ IsFiniteSet(DOMAIN graph)

\* The Set of a function holds what the function calls, also through the effect runners
\* that have been walked.
CompleteSets ==
  \A i \in Owned : Parsed(i) => \A n \in FunctionNames(i) :
    /\ <<"file", i, n>> \in DOMAIN heap
    /\ CallReferences(i, Source(i).functions[n]) \subseteq heap[<<"file", i, n>>]
    /\ \A k \in DOMAIN Source(i).walk :
         LET e == Source(i).walk[k]
         IN  e.kind = "runner" /\ Enclosing(e) = n /\ Walked(i, k)
               => CallReferences(i, e.calls) \subseteq heap[<<"file", i, n>>]

\* Where names are distinct, the table of a file knows its own functions until the globals
\* are merged into it, and those know every function under the root by its bare name.
CompleteTable(entries) ==
  \A j \in Owned : \A n \in FunctionNames(j) :
    Bare(n) \in DOMAIN entries /\ entries[Bare(n)] = <<"file", j, n>>

CompleteTables == DistinctNames =>
  /\ \A i \in Owned : ~ Merged(i) => DOMAIN tables[i] \subseteq {Bare(n) : n \in FunctionNames(i)}
  /\ phase \in {"merge", "walk", "expand"} => CompleteTable(globals)
  /\ phase \in {"walk", "expand"} => CompleteTable(tables[file])

\* The effects of the call graph are evidence of functions; where modules are distinct, of
\* all that have effects and are known by their names.
EffectsAreEvidence ==
  /\ \A r \in DOMAIN effects : \E j \in Files :
       r[1] = Source(j).module /\ effects[r] = Evidence(j, r[2])
  /\ DistinctModules => \A f \in DOMAIN CallTable :
       Collected(f[1]) /\ HasEffect(f) /\ KnownByName(f) =>
       LET r == <<Source(f[1]).module, f[2]>>
       IN  r \in DOMAIN effects /\ effects[r] = Evidence(f[1], f[2])

\* Neither what the files call nor what their names mean changes.
LEMMA SameCalls ==
  ASSUME program' = program
  PROVE  /\ \A i, calls : /\ BareReferences(i, calls)' = BareReferences(i, calls)
                          /\ CallReferences(i, calls)' = CallReferences(i, calls)
         /\ \A i, n : /\ RunnerReferences(i, n)' = RunnerReferences(i, n)
                      /\ LocalReferences(i, n)' = LocalReferences(i, n)
                      /\ Evidence(i, n)' = Evidence(i, n)
         /\ \A i : LocalNames(i)' = LocalNames(i) /\ EffectNames(i)' = EffectNames(i)
         /\ CallTable' = CallTable
         /\ DistinctModules' = DistinctModules
         /\ \A f : KnownByName(f)' <=> KnownByName(f)
         /\ \A i, calls : Telling(i, calls)' <=> Telling(i, calls)
<1>1. /\ Files' = Files /\ \A i : Source(i)' = Source(i) /\ FunctionNames(i)' = FunctionNames(i)
      /\ \A i, kind : Events(i, kind)' = Events(i, kind)
      /\ \A i, c : TextOf(i, c)' = TextOf(i, c)
  BY SameProgram
<1>2. \A i, j : Resolves(i, j)' = Resolves(i, j)
  BY <1>1 DEF Resolves
<1>3. \A i, calls : /\ BareReferences(i, calls)' = BareReferences(i, calls)
                   /\ CallReferences(i, calls)' = CallReferences(i, calls)
  <2>1. \A i, calls : BareReferences(i, calls)' = BareReferences(i, calls)
    BY <1>1 DEF BareReferences
  <2>2. \A c : SymbolName(c)' = SymbolName(c)
    BY <1>1 DEF SymbolName
  <2> QED
    BY <1>1, <1>2, <2>1, <2>2 DEF CallReferences
<1>4. \A i, n : RunnerReferences(i, n)' = RunnerReferences(i, n)
  BY <1>1, <1>3 DEF RunnerReferences
<1>5. \A i, n : LocalReferences(i, n)' = LocalReferences(i, n)
  BY <1>1, <1>3, <1>4 DEF LocalReferences
<1>6. \A i, n : Evidence(i, n)' = Evidence(i, n)
  BY <1>1 DEF Evidence, EffectEvents
<1>7. \A i : LocalNames(i)' = LocalNames(i) /\ EffectNames(i)' = EffectNames(i)
  BY <1>1 DEF LocalNames, EffectNames
<1>8. CallTable' = CallTable
  BY <1>1 DEF CallTable
<1>9. DistinctModules' = DistinctModules
  BY <1>1 DEF DistinctModules
<1>10. \A f : KnownByName(f)' <=> KnownByName(f)
  BY <1>1 DEF KnownByName
<1>11. \A i, calls : Telling(i, calls)' <=> Telling(i, calls)
  BY <1>1 DEF Telling
<1> QED
  BY <1>3, <1>4, <1>5, <1>6, <1>7, <1>8, <1>9, <1>10, <1>11

\* Nor does what follows from that.
LEMMA SameNames ==
  ASSUME program' = program
  PROVE  /\ DistinctNames' <=> DistinctNames
         /\ \A calls : Called(calls)' = Called(calls)
         /\ \A f : ReferencesOf(f)' = ReferencesOf(f)
         /\ \A f : HasEffect(f)' <=> HasEffect(f)
<1>1. /\ Files' = Files /\ \A i : Source(i)' = Source(i) /\ FunctionNames(i)' = FunctionNames(i)
      /\ \A i, kind : Events(i, kind)' = Events(i, kind)
      /\ \A i : DirectMarks(i)' = DirectMarks(i)
      /\ \A i, c : TextOf(i, c)' = TextOf(i, c)
  BY SameProgram
<1>2. /\ \A i, calls : Telling(i, calls)' <=> Telling(i, calls)
      /\ \A i : LocalNames(i)' = LocalNames(i) /\ EffectNames(i)' = EffectNames(i)
      /\ \A i, n : Evidence(i, n)' = Evidence(i, n) /\ LocalReferences(i, n)' = LocalReferences(i, n)
      /\ CallTable' = CallTable /\ DistinctModules' = DistinctModules
  BY SameCalls
<1>3. DistinctNames' <=> DistinctNames
  BY <1>1, <1>2 DEF DistinctNames, EffectEvents
<1>4. \A calls : Called(calls)' = Called(calls)
  BY <1>2 DEF Called
<1>5. \A f : ReferencesOf(f)' = ReferencesOf(f)
  BY <1>2, SameCalls DEF ReferencesOf
<1>6. \A f : HasEffect(f)' <=> HasEffect(f)
  BY <1>1, <1>2 DEF HasEffect, EffectEvents
<1> QED
  BY <1>3, <1>4, <1>5, <1>6

---------------------------------------------------------------------------
(* There are finitely many entries.                                        *)

\* Finitely many names make finitely many references.
LEMMA FiniteReferences ==
  ASSUME NEW S, IsFiniteSet(S), NEW module,
         NEW references, \A r \in references : \E n \in S : r = <<module, n>>
  PROVE  IsFiniteSet(references)
<1> DEFINE f == [n \in S |-> <<module, n>>]
<1>1. DOMAIN f = S /\ references \subseteq {f[n] : n \in S}
  OBVIOUS
<1> HIDE DEF f
<1>2. IsFiniteSet({f[n] : n \in S})
  BY <1>1, FiniteImage
<1> QED
  BY <1>1, <1>2, FS_Subset

\* A file has finitely many functions with effect runners.
LEMMA FiniteLocalNames ==
  ASSUME program \in Programs, NEW i \in Files
  PROVE  IsFiniteSet(LocalNames(i))
<1> DEFINE walk == Source(i).walk
           f == [k \in DOMAIN walk |-> Enclosing(walk[k])]
           enclosing == {f[k] : k \in DOMAIN walk}
<1>1. IsFiniteSet(DOMAIN walk)
  <2>1. DOMAIN walk = 1 .. Len(walk) /\ Len(walk) \in Nat
    BY Numbered
  <2> QED
    BY <2>1, FS_Interval
<1>2. LocalNames(i) \subseteq FunctionNames(i) \cup enclosing
  BY DEF LocalNames, Events
<1>3. DOMAIN f = DOMAIN walk
  OBVIOUS
<1> HIDE DEF f, walk
<1>4. IsFiniteSet(enclosing)
  BY <1>1, <1>3, FiniteImage
<1>5. IsFiniteSet(FunctionNames(i))
  BY Typed
<1>6. IsFiniteSet(FunctionNames(i) \cup enclosing)
  BY <1>4, <1>5, FS_Union
<1> QED
  BY <1>2, <1>6, FS_Subset

\* An overlay of finite tables is finite.
LEMMA FiniteOverlay ==
  ASSUME NEW f, NEW g, IsFiniteSet(DOMAIN f), IsFiniteSet(DOMAIN g)
  PROVE  IsFiniteSet(DOMAIN Overlay(f, g))
<1>1. DOMAIN Overlay(f, g) = DOMAIN f \cup DOMAIN g
  BY OverlayEntries
<1> QED
  BY <1>1, FS_Union

\* Every step adds finitely many entries.
LEMMA FiniteTablesInv == IInv /\ FiniteTables /\ [Next]_vars => FiniteTables'
<1> SUFFICES ASSUME IInv, FiniteTables, [Next]_vars PROVE FiniteTables'
  OBVIOUS
<1>1. /\ program \in Programs /\ DOMAIN tables = Files /\ file \in Files
      /\ Owned \subseteq Files /\ Files = 1 .. Len(program.sources)
      /\ program.owned \in Nat
  BY Numbered DEF IInv, TypeOK
<1>2. program' = program => Files' = Files
  BY SameProgram
<1>3. CASE ParseSourceFacts
  <2> DEFINE own == [r \in {Bare(n) : n \in FunctionNames(file)} |-> <<"file", file, r[2]>>]
  <2>1. UNCHANGED <<program, globals, graph>> /\ tables' = [tables EXCEPT ![file] = own]
    BY <1>3 DEF ParseSourceFacts
  <2>2. DOMAIN own = {<<NoModule, n>> : n \in FunctionNames(file)}
    BY DEF Bare
  <2> HIDE DEF own
  <2>3. IsFiniteSet(FunctionNames(file))
    BY <1>1, Typed
  <2>4. IsFiniteSet(DOMAIN own)
    BY <2>2, <2>3, FiniteReferences
  <2> QED
    BY <1>1, <1>2, <2>1, <2>4 DEF FiniteTables
<1>4. CASE CollectLocalCallGraph
  <2> DEFINE entries == [r \in {<<Source(file).module, n>> : n \in LocalNames(file)} |->
                           <<"graph", file, r[2]>>]
  <2>1. UNCHANGED <<program, tables, globals>> /\ graph' = Overlay(entries, graph)
    BY <1>4 DEF CollectLocalCallGraph
  <2>2. DOMAIN entries = {<<Source(file).module, n>> : n \in LocalNames(file)}
    OBVIOUS
  <2> HIDE DEF entries
  <2>3. IsFiniteSet(LocalNames(file))
    BY <1>1, FiniteLocalNames
  <2>4. IsFiniteSet(DOMAIN entries)
    BY <2>2, <2>3, FiniteReferences
  <2>5. IsFiniteSet(DOMAIN graph')
    BY <2>1, <2>4, FiniteOverlay DEF FiniteTables
  <2> QED
    BY <1>2, <2>1, <2>5 DEF FiniteTables
<1>5. CASE UniqueGlobalFunctionReferences
  <2> DEFINE domains == [i \in Owned |-> DOMAIN tables[i]]
             all == UNION {domains[i] : i \in Owned}
  <2>1. UNCHANGED <<program, tables, graph>> /\ DOMAIN globals' \subseteq all
    BY <1>5 DEF UniqueGlobalFunctionReferences
  <2>2. IsFiniteSet(Owned)
    BY <1>1, FS_Interval DEF Owned
  <2>3. DOMAIN domains = Owned /\ \A i \in Owned : IsFiniteSet(domains[i])
    BY <1>1 DEF FiniteTables
  <2> HIDE DEF domains
  <2>4. IsFiniteSet({domains[i] : i \in Owned})
    BY <2>2, <2>3, FiniteImage
  <2>5. IsFiniteSet(all)
    BY <2>3, <2>4, FS_UNION
  <2>6. IsFiniteSet(DOMAIN globals')
    BY <2>1, <2>5, FS_Subset
  <2> QED
    BY <1>2, <2>1, <2>6 DEF FiniteTables
<1>6. CASE MergeTables
  <2> DEFINE merged == Overlay(tables[file], Overlay(globals, graph))
  <2>1. UNCHANGED <<program, globals, graph>> /\ tables' = [tables EXCEPT ![file] = merged]
    BY <1>6 DEF MergeTables
  <2>2. IsFiniteSet(DOMAIN Overlay(globals, graph))
    BY FiniteOverlay DEF FiniteTables
  <2>3. IsFiniteSet(DOMAIN merged)
    BY <1>1, <2>2, FiniteOverlay DEF FiniteTables
  <2> HIDE DEF merged
  <2> QED
    BY <1>1, <1>2, <2>1, <2>3 DEF FiniteTables
<1>7. CASE RecordRunner
  <2> DEFINE name == Bare(Enclosing(Event))
             id == IF name \in DOMAIN tables[file] THEN tables[file][name]
                                                   ELSE <<"file", file, Enclosing(Event)>>
             entry == [r \in {name} |-> id]
             table == Overlay(entry, tables[file])
  <2>1. /\ UNCHANGED <<program, globals, graph>>
        /\ tables' = tables \/ tables' = [tables EXCEPT ![file] = table]
    BY <1>7 DEF RecordRunner
  <2>2. IsFiniteSet(DOMAIN entry)
    <3>1. DOMAIN entry = {} \cup {name}
      OBVIOUS
    <3> HIDE DEF entry
    <3> QED
      BY <3>1, FS_EmptySet, FS_AddElement
  <2> HIDE DEF entry
  <2>3. IsFiniteSet(DOMAIN table)
    BY <1>1, <2>2, FiniteOverlay DEF FiniteTables
  <2> HIDE DEF table
  <2> QED
    BY <1>1, <1>2, <2>1, <2>3 DEF FiniteTables
<1>8. CASE UNCHANGED <<program, tables, globals, graph>>
  BY <1>2, <1>8 DEF FiniteTables
<1> QED
  BY <1>3, <1>4, <1>5, <1>6, <1>7, <1>8 DEF Next, RecordEffect, RecordCheck, CollectNodeFactsEnds,
     ExpandEffectfulIdentifier, EmitFact, vars

---------------------------------------------------------------------------
(* Where names are distinct, tables lead to the functions they name.       *)

\* The references of a function are those of the calls in its body and in its runners.
LEMMA ReferencesAre ==
  ASSUME NEW i \in Files, NEW n \in FunctionNames(i)
  PROVE  /\ CallReferences(i, Source(i).functions[n]) \subseteq ReferencesOf(<<i, n>>)
         /\ \A e \in Events(i, "runner") :
              Enclosing(e) = n => CallReferences(i, e.calls) \subseteq ReferencesOf(<<i, n>>)
         /\ LocalReferences(i, n) \subseteq ReferencesOf(<<i, n>>)
<1> DEFINE f == <<i, n>>
<1>1. f \in DOMAIN CallTable /\ f[1] = i /\ f[2] = n
  BY CallingFunctions
<1>2. CallTable[f] = Source(i).functions[n]
        \cup UNION {e.calls : e \in {d \in Events(i, "runner") : Enclosing(d) = n}}
  BY <1>1, CallingFunctions
<1>3. ReferencesOf(f) = CallReferences(i, CallTable[f])
  BY <1>1 DEF ReferencesOf
<1> HIDE DEF f
<1>4. CallReferences(i, Source(i).functions[n]) \subseteq ReferencesOf(f)
  BY <1>2, <1>3, ReferencesAreOfCalls
<1>5. ASSUME NEW e \in Events(i, "runner"), Enclosing(e) = n
      PROVE  CallReferences(i, e.calls) \subseteq ReferencesOf(f)
  <2>1. e.calls \subseteq CallTable[f]
    BY <1>2, <1>5
  <2> QED
    BY <1>3, <2>1, ReferencesAreOfCalls
<1>6. RunnerReferences(i, n) \subseteq ReferencesOf(f)
  BY <1>5 DEF RunnerReferences
<1>7. LocalReferences(i, n) \subseteq ReferencesOf(f)
  BY <1>4, <1>6 DEF LocalReferences
<1> QED
  BY <1>4, <1>5, <1>7 DEF f

\* An overlay of sound tables is sound.
LEMMA SoundOverlay ==
  ASSUME NEW f, NEW g, SoundTable(f), SoundTable(g)
  PROVE  SoundTable(Overlay(f, g))
  BY DEF SoundTable, Overlay

\* What is sound in the program stays so.
LEMMA SoundStep ==
  ASSUME program' = program, DistinctNames,
         \A id \in DOMAIN heap' : SoundSet(id, heap'[id]),
         \A i \in Files : SoundTable(tables'[i]),
         SoundTable(globals'),
         SoundTable(graph')
  PROVE  SoundTables'
<1>1. Files' = Files /\ \A i : Source(i)' = Source(i) /\ FunctionNames(i)' = FunctionNames(i)
  BY SameProgram
<1>2. \A f : ReferencesOf(f)' = ReferencesOf(f)
  BY SameNames
<1>3. (\A id \in DOMAIN heap : SoundSet(id, heap[id]))'
  BY <1>1, <1>2 DEF SoundSet
<1>4. \A r, id : SoundEntry(r, id)' <=> SoundEntry(r, id)
  BY <1>1 DEF SoundEntry
<1>5. (\A i \in Files : SoundTable(tables[i]))' /\ SoundTable(globals)' /\ SoundTable(graph)'
  BY <1>1, <1>4 DEF SoundTable, SoundEntry
<1> QED
  BY <1>3, <1>5 DEF SoundTables

\* A Set that is added or replaced by a sound one leaves the Sets sound.
LEMMA SoundHeap ==
  ASSUME NEW new, NEW old,
         \A id \in DOMAIN new : SoundSet(id, new[id]),
         \A id \in DOMAIN old : SoundSet(id, old[id])
  PROVE  \A id \in DOMAIN Overlay(new, old) : SoundSet(id, Overlay(new, old)[id])
  BY DEF Overlay

\* Every step leaves the tables sound.
LEMMA SoundTablesInv == IInv /\ OwnTables /\ SoundTables /\ [Next]_vars => SoundTables'
<1> SUFFICES ASSUME IInv, OwnTables, SoundTables, [Next]_vars PROVE SoundTables'
  OBVIOUS
<1>1. /\ program \in Programs /\ DOMAIN tables = Files /\ file \in Files /\ Owned \subseteq Files
  BY Numbered DEF IInv, TypeOK
<1>2. program' = program
  BY DEF Next, ParseSourceFacts, CollectLocalCallGraph, UniqueGlobalFunctionReferences, MergeTables,
     RecordEffect, RecordRunner, RecordCheck, CollectNodeFactsEnds, ExpandEffectfulIdentifier, EmitFact, vars
<1> SUFFICES ASSUME DistinctNames PROVE SoundTables'
  BY <1>2, SameNames DEF SoundTables
<1>3. /\ \A id \in DOMAIN heap : SoundSet(id, heap[id])
      /\ \A i \in Files : SoundTable(tables[i])
      /\ SoundTable(globals) /\ SoundTable(graph)
  BY DEF SoundTables
<1>4. CASE ParseSourceFacts
  <2> DEFINE names == FunctionNames(file)
             sets == [id \in {<<"file", file, n>> : n \in names} |->
                        CallReferences(file, Source(file).functions[id[3]])]
             own == [r \in {Bare(n) : n \in names} |-> <<"file", file, r[2]>>]
  <2>1. /\ UNCHANGED <<globals, graph>>
        /\ heap' = Overlay(sets, heap) /\ tables' = [tables EXCEPT ![file] = own]
    BY <1>4 DEF ParseSourceFacts
  <2>2. ASSUME NEW id \in DOMAIN sets
        PROVE  SoundSet(id, sets[id])
    <3>1. PICK n \in names : id = <<"file", file, n>>
      BY <2>2
    <3>2. sets[id] = CallReferences(file, Source(file).functions[n])
      BY <3>1
    <3> HIDE DEF sets
    <3>3. sets[id] \subseteq ReferencesOf(<<file, n>>)
      BY <1>1, <3>2, ReferencesAre
    <3> QED
      BY <1>1, <3>1, <3>3 DEF SoundSet
  <2>3. SoundTable(own)
    BY <1>1 DEF SoundTable, SoundEntry, Bare
  <2> HIDE DEF sets, own
  <2>4. \A id \in DOMAIN heap' : SoundSet(id, heap'[id])
    BY <1>3, <2>1, <2>2, SoundHeap
  <2>5. \A i \in Files : SoundTable(tables'[i])
    BY <1>1, <1>3, <2>1, <2>3
  <2> QED
    BY <1>2, <1>3, <2>1, <2>4, <2>5, SoundStep
<1>5. CASE CollectLocalCallGraph
  <2> DEFINE names == LocalNames(file)
             module == Source(file).module
             sets == [id \in {<<"graph", file, n>> : n \in names} |-> LocalReferences(file, id[3])]
             entries == [r \in {<<module, n>> : n \in names} |-> <<"graph", file, r[2]>>]
  <2>1. /\ UNCHANGED <<globals, tables>>
        /\ heap' = Overlay(sets, heap) /\ graph' = Overlay(entries, graph)
    BY <1>5 DEF CollectLocalCallGraph
  <2>2. names = FunctionNames(file)
    BY <1>1, Distinct
  <2> HIDE DEF names
  <2>3. ASSUME NEW id \in DOMAIN sets
        PROVE  SoundSet(id, sets[id])
    <3>1. PICK n \in names : id = <<"graph", file, n>>
      BY <2>3
    <3>2. sets[id] = LocalReferences(file, n)
      BY <3>1
    <3> HIDE DEF sets
    <3>3. sets[id] \subseteq ReferencesOf(<<file, n>>)
      BY <1>1, <2>2, <3>2, ReferencesAre
    <3> QED
      BY <1>1, <2>2, <3>1, <3>3 DEF SoundSet
  <2>4. SoundTable(entries)
    BY <1>1, <2>2 DEF SoundTable, SoundEntry
  <2> HIDE DEF sets, entries
  <2>5. \A id \in DOMAIN heap' : SoundSet(id, heap'[id])
    BY <1>3, <2>1, <2>3, SoundHeap
  <2>6. SoundTable(graph')
    BY <1>3, <2>1, <2>4, SoundOverlay
  <2> QED
    BY <1>2, <1>3, <2>1, <2>5, <2>6, SoundStep
<1>6. CASE UniqueGlobalFunctionReferences
  <2> DEFINE Definers(r) == {i \in Owned : r \in DOMAIN tables[i]}
             unique == {r \in UNION {DOMAIN tables[i] : i \in Owned} : Cardinality(Definers(r)) = 1}
             Definer(r) == CHOOSE i \in Owned : i \in Definers(r)
  <2>1. /\ UNCHANGED <<heap, tables, graph>>
        /\ globals' = [r \in unique |-> tables[Definer(r)][r]]
    BY <1>6 DEF UniqueGlobalFunctionReferences
  <2>2. \A r \in unique : Definer(r) \in Owned /\ r \in DOMAIN tables[Definer(r)]
    OBVIOUS
  <2> HIDE DEF unique, Definer
  <2>3. SoundTable(globals')
    BY <1>1, <1>3, <2>1, <2>2 DEF SoundTable
  <2> QED
    BY <1>2, <1>3, <2>1, <2>3, SoundStep
<1>7. CASE MergeTables
  <2> DEFINE merged == Overlay(tables[file], Overlay(globals, graph))
  <2>1. UNCHANGED <<heap, globals, graph>> /\ tables' = [tables EXCEPT ![file] = merged]
    BY <1>7 DEF MergeTables
  <2>2. SoundTable(merged)
    BY <1>1, <1>3, SoundOverlay
  <2> HIDE DEF merged
  <2>3. \A i \in Files : SoundTable(tables'[i])
    BY <1>1, <1>3, <2>1, <2>2
  <2> QED
    BY <1>2, <1>3, <2>1, <2>3, SoundStep
<1>8. CASE RecordRunner
  <2> DEFINE references == CallReferences(file, Event.calls)
             name  == Bare(Enclosing(Event))
             known == name \in DOMAIN tables[file]
             id    == IF known THEN tables[file][name] ELSE <<"file", file, Enclosing(Event)>>
             old   == IF known THEN heap[id] ELSE {}
             new   == [x \in {id} |-> references \cup old]
             entry == [r \in {name} |-> id]
  <2>1. /\ phase = "walk" /\ pos \in DOMAIN Source(file).walk /\ Event.kind = "runner"
        /\ UNCHANGED <<globals, graph>>
        /\ \/ UNCHANGED <<heap, tables>>
           \/ /\ references # {} /\ Enclosing(Event) # NoFunction
              /\ heap' = Overlay(new, heap)
              /\ tables' = [tables EXCEPT ![file] = Overlay(entry, tables[file])]
    BY <1>8 DEF RecordRunner, Walking
  <2>2. CASE UNCHANGED <<heap, tables>>
    BY <1>2, <1>3, <2>1, <2>2, SoundStep
  <2>3. CASE /\ references # {} /\ Enclosing(Event) # NoFunction
             /\ heap' = Overlay(new, heap)
             /\ tables' = [tables EXCEPT ![file] = Overlay(entry, tables[file])]
    <3>1. Event \in Events(file, "runner")
      BY <2>1 DEF Events, Event
    <3>2. Event.calls # {}
      BY <2>3 DEF CallReferences, BareReferences
    <3>3. Enclosing(Event) \in LocalNames(file)
      BY <2>3, <3>1, <3>2 DEF LocalNames
    <3>4. Enclosing(Event) \in FunctionNames(file)
      BY <1>1, <3>3, Distinct
    <3>5. file \in Owned /\ Parsed(file)
      BY <2>1 DEF IInv, Parsed
    <3>6. known /\ id = <<"file", file, Enclosing(Event)>>
      BY <3>4, <3>5 DEF OwnTables
    <3>7. id \in DOMAIN heap /\ old = heap[id]
      BY <1>1, <3>6 DEF IInv, TypeOK
    <3>8. references \subseteq ReferencesOf(<<file, Enclosing(Event)>>)
      BY <1>1, <3>1, <3>4, ReferencesAre
    <3>9. SoundSet(id, old)
      BY <1>3, <3>7
    <3> DEFINE n == Enclosing(Event)
    <3>10. old \subseteq ReferencesOf(<<file, n>>)
      <4>1. PICK kind \in {"file", "graph"}, j \in Files : \E m \in FunctionNames(j) :
              id = <<kind, j, m>> /\ old \subseteq ReferencesOf(<<j, m>>)
        BY <3>9 DEF SoundSet
      <4>2. PICK m \in FunctionNames(j) : id = <<kind, j, m>> /\ old \subseteq ReferencesOf(<<j, m>>)
        BY <4>1
      <4>3. j = file /\ m = n
        BY <3>6, <4>2
      <4> QED
        BY <4>2, <4>3
    <3>11. SoundSet(id, references \cup old)
      BY <1>1, <3>4, <3>6, <3>8, <3>10 DEF SoundSet
    <3>12. \A x \in DOMAIN new : SoundSet(x, new[x])
      BY <3>11
    <3>13. SoundTable(entry)
      BY <1>1, <3>4, <3>6 DEF SoundTable, SoundEntry
    <3> HIDE DEF new, entry
    <3>14. \A x \in DOMAIN heap' : SoundSet(x, heap'[x])
      BY <1>3, <2>3, <3>12, SoundHeap
    <3>15. SoundTable(Overlay(entry, tables[file]))
      BY <1>1, <1>3, <3>13, SoundOverlay
    <3>16. \A i \in Files : SoundTable(tables'[i])
      BY <1>1, <1>3, <2>3, <3>15
    <3> QED
      BY <1>2, <1>3, <2>1, <3>14, <3>16, SoundStep
  <2> QED
    BY <2>1, <2>2, <2>3
<1>9. CASE UNCHANGED <<heap, tables, globals, graph>>
  BY <1>2, <1>3, <1>9, SoundStep
<1> QED
  BY <1>4, <1>5, <1>6, <1>7, <1>8, <1>9 DEF Next, RecordEffect, RecordCheck, CollectNodeFactsEnds,
     ExpandEffectfulIdentifier, EmitFact, vars

---------------------------------------------------------------------------
(* The Sets of the functions under the root are complete.                  *)

\* Sets that only grow stay complete, if the walk adds what the runners that it passes
\* call.
LEMMA CompleteSetsGrow ==
  ASSUME CompleteSets, program' = program,
         \A i \in Owned : Parsed(i)' => Parsed(i),
         \A i \in Owned : Parsed(i) => \A n \in FunctionNames(i) :
           /\ <<"file", i, n>> \in DOMAIN heap'
           /\ heap[<<"file", i, n>>] \subseteq heap'[<<"file", i, n>>],
         \A i \in Owned : Parsed(i) => \A n \in FunctionNames(i) : \A k \in DOMAIN Source(i).walk :
           Source(i).walk[k].kind = "runner" /\ Enclosing(Source(i).walk[k]) = n /\ Walked(i, k)' =>
             \/ Walked(i, k)
             \/ CallReferences(i, Source(i).walk[k].calls) \subseteq heap'[<<"file", i, n>>]
  PROVE  CompleteSets'
<1>1. /\ Owned' = Owned
      /\ \A i : Source(i)' = Source(i) /\ FunctionNames(i)' = FunctionNames(i)
  BY SameProgram
<1>2. \A i, calls : CallReferences(i, calls)' = CallReferences(i, calls)
  BY SameCalls
<1>3. ASSUME NEW i \in Owned, Parsed(i)', NEW n \in FunctionNames(i)
      PROVE  /\ <<"file", i, n>> \in DOMAIN heap'
             /\ CallReferences(i, Source(i).functions[n]) \subseteq heap'[<<"file", i, n>>]
             /\ \A k \in DOMAIN Source(i).walk :
                  Source(i).walk[k].kind = "runner" /\ Enclosing(Source(i).walk[k]) = n /\ Walked(i, k)'
                    => CallReferences(i, Source(i).walk[k].calls) \subseteq heap'[<<"file", i, n>>]
  <2> DEFINE id == <<"file", i, n>>
  <2>1. Parsed(i)
    BY <1>3
  <2>2. /\ id \in DOMAIN heap
        /\ CallReferences(i, Source(i).functions[n]) \subseteq heap[id]
        /\ \A k \in DOMAIN Source(i).walk :
             Source(i).walk[k].kind = "runner" /\ Enclosing(Source(i).walk[k]) = n /\ Walked(i, k)
               => CallReferences(i, Source(i).walk[k].calls) \subseteq heap[id]
    BY <2>1 DEF CompleteSets
  <2>3. id \in DOMAIN heap' /\ heap[id] \subseteq heap'[id]
    BY <2>1
  <2>4. \A k \in DOMAIN Source(i).walk :
          Source(i).walk[k].kind = "runner" /\ Enclosing(Source(i).walk[k]) = n /\ Walked(i, k)' =>
            \/ Walked(i, k)
            \/ CallReferences(i, Source(i).walk[k].calls) \subseteq heap'[id]
    BY <2>1
  <2> HIDE DEF id
  <2>5. \A k \in DOMAIN Source(i).walk :
          Source(i).walk[k].kind = "runner" /\ Enclosing(Source(i).walk[k]) = n /\ Walked(i, k)'
            => CallReferences(i, Source(i).walk[k].calls) \subseteq heap'[id]
    BY <2>2, <2>3, <2>4
  <2> QED
    BY <2>2, <2>3, <2>5 DEF id
<1>4. \A e : Enclosing(e)' = Enclosing(e)
  BY DEF Enclosing
<1> QED
  BY <1>1, <1>2, <1>3, <1>4 DEF CompleteSets

\* Every step leaves the Sets complete.
LEMMA CompleteSetsInv == IInv /\ OwnTables /\ CompleteSets /\ [Next]_vars => CompleteSets'
<1> SUFFICES ASSUME IInv, OwnTables, CompleteSets, [Next]_vars PROVE CompleteSets'
  OBVIOUS
<1>1. /\ program \in Programs /\ DOMAIN tables = Files /\ file \in Files /\ Owned \subseteq Files
      /\ Files = 1 .. Len(program.sources) /\ Len(program.sources) \in Nat
      /\ \A i \in Files : Len(Source(i).walk) \in Nat /\ DOMAIN Source(i).walk = 1 .. Len(Source(i).walk)
  BY Numbered DEF IInv, TypeOK
<1>2. program' = program
  BY DEF Next, ParseSourceFacts, CollectLocalCallGraph, UniqueGlobalFunctionReferences, MergeTables,
     RecordEffect, RecordRunner, RecordCheck, CollectNodeFactsEnds, ExpandEffectfulIdentifier, EmitFact, vars
<1>3. CASE ParseSourceFacts
  <2> DEFINE sets == [id \in {<<"file", file, n>> : n \in FunctionNames(file)} |->
                        CallReferences(file, Source(file).functions[id[3]])]
  <2>1. /\ phase = "parse" /\ heap' = Overlay(sets, heap)
        /\ file = program.owned => phase' = "graph" /\ file' = 1
        /\ file # program.owned => phase' = "parse" /\ file' = file + 1
    BY <1>3 DEF ParseSourceFacts
  <2>2. \A i \in Owned : Parsed(i)' => Parsed(i) \/ i = file
    BY <1>1, <1>2, <2>1 DEF Parsed, Owned, IInv
  <2>3. \A i, k : ~ Walked(i, k)'
    BY <2>1 DEF Walked, Merged
  <2>4. ASSUME NEW i \in Owned, Parsed(i)', NEW n \in FunctionNames(i)
        PROVE  /\ <<"file", i, n>> \in DOMAIN heap'
               /\ CallReferences(i, Source(i).functions[n]) \subseteq heap'[<<"file", i, n>>]
    <3> DEFINE id == <<"file", i, n>>
    <3>1. CASE i = file
      <4>1. id \in DOMAIN sets /\ sets[id] = CallReferences(i, Source(i).functions[n])
        BY <3>1
      <4> HIDE DEF sets, id
      <4>2. id \in DOMAIN heap' /\ heap'[id] = sets[id]
        BY <2>1, <4>1 DEF Overlay
      <4> QED
        BY <4>1, <4>2 DEF id
    <3>2. CASE i # file
      <4>1. id \notin DOMAIN sets
        BY <3>2
      <4>2. Parsed(i)
        BY <2>2, <2>4, <3>2
      <4>3. id \in DOMAIN heap /\ CallReferences(i, Source(i).functions[n]) \subseteq heap[id]
        BY <4>2 DEF CompleteSets
      <4> HIDE DEF sets, id
      <4>4. id \in DOMAIN heap' /\ heap'[id] = heap[id]
        BY <2>1, <4>1, <4>3 DEF Overlay
      <4> QED
        BY <4>3, <4>4 DEF id
    <3> QED
      BY <3>1, <3>2
  <2>5. /\ Owned' = Owned
        /\ \A i : Source(i)' = Source(i) /\ FunctionNames(i)' = FunctionNames(i)
        /\ \A i, calls : CallReferences(i, calls)' = CallReferences(i, calls)
    BY <1>2, SameProgram, SameCalls
  <2> QED
    BY <2>3, <2>4, <2>5 DEF CompleteSets
<1>4. CASE CollectLocalCallGraph
  <2> DEFINE sets == [id \in {<<"graph", file, n>> : n \in LocalNames(file)} |->
                        LocalReferences(file, id[3])]
  <2>1. /\ phase = "graph" /\ phase' \in {"graph", "globals"} /\ heap' = Overlay(sets, heap)
    BY <1>4 DEF CollectLocalCallGraph
  <2>2. \A id \in DOMAIN sets : id[1] # "file"
    OBVIOUS
  <2> HIDE DEF sets
  <2>3. \A id \in DOMAIN heap : id[1] = "file" => id \in DOMAIN heap' /\ heap[id] = heap'[id]
    BY <2>1, <2>2 DEF Overlay
  <2>4. \A i, k : ~ Walked(i, k)'
    BY <2>1 DEF Walked, Merged
  <2>5. \A i \in Owned : Parsed(i)' => Parsed(i)
    BY <2>1 DEF Parsed
  <2>6. \A i \in Owned : Parsed(i) => \A n \in FunctionNames(i) :
          /\ <<"file", i, n>> \in DOMAIN heap'
          /\ heap[<<"file", i, n>>] \subseteq heap'[<<"file", i, n>>]
    BY <2>3 DEF CompleteSets
  <2> QED
    BY <1>2, <2>4, <2>5, <2>6, CompleteSetsGrow
<1>5. CASE RecordRunner
  <2> DEFINE references == CallReferences(file, Event.calls)
             name  == Bare(Enclosing(Event))
             known == name \in DOMAIN tables[file]
             id    == IF known THEN tables[file][name] ELSE <<"file", file, Enclosing(Event)>>
             old   == IF known THEN heap[id] ELSE {}
             new   == [x \in {id} |-> references \cup old]
  <2>1. /\ phase = "walk" /\ phase' = "walk" /\ pos \in DOMAIN Source(file).walk
        /\ file' = file /\ pos' = pos + 1
        /\ \/ heap' = Overlay(new, heap)
           \/ heap' = heap /\ (references = {} \/ Enclosing(Event) = NoFunction)
    BY <1>5 DEF RecordRunner, Walking
  <2>2. Parsed(file) /\ file \in Owned
    BY <2>1 DEF IInv, Parsed
  <2>3. known => id \in DOMAIN heap
    BY <1>1 DEF IInv, TypeOK
  <2>4. Enclosing(Event) \in FunctionNames(file) =>
          known /\ id = <<"file", file, Enclosing(Event)>> /\ Enclosing(Event) # NoFunction
    BY <1>1, <2>2, Typed DEF OwnTables
  <2>5. DOMAIN new = {id} /\ new[id] = references \cup old
    OBVIOUS
  <2>6. known => old = heap[id]
    OBVIOUS
  <2>7. ~ known => id = <<"file", file, Enclosing(Event)>>
    OBVIOUS
  <2> HIDE DEF new, old, id, references
  <2>8. ASSUME NEW i \in Owned, Parsed(i), NEW n \in FunctionNames(i)
        PROVE  /\ <<"file", i, n>> \in DOMAIN heap'
               /\ heap[<<"file", i, n>>] \subseteq heap'[<<"file", i, n>>]
    <3> DEFINE own == <<"file", i, n>>
    <3>1. own \in DOMAIN heap
      BY <2>8 DEF CompleteSets
    <3>2. own = id => known
      BY <2>4, <2>7
    <3> HIDE DEF own, known
    <3>3. own \in DOMAIN heap' /\ heap[own] \subseteq heap'[own]
      BY <2>1, <2>5, <2>6, <3>1, <3>2 DEF Overlay
    <3> QED
      BY <3>3 DEF own
  <2>9. Enclosing(Event) \in FunctionNames(file) =>
          references \subseteq heap'[<<"file", file, Enclosing(Event)>>]
    BY <2>1, <2>4, <2>5 DEF Overlay
  <2>10. \A i \in Owned : Parsed(i)' => Parsed(i)
    BY <2>1 DEF Parsed
  <2>11. ASSUME NEW i \in Owned, NEW k \in DOMAIN Source(i).walk, Walked(i, k)'
         PROVE  Walked(i, k) \/ (i = file /\ k = pos)
    BY <1>1, <2>1, <2>11 DEF Walked, Merged
  <2>12. ASSUME NEW i \in Owned, NEW n \in FunctionNames(i), NEW k \in DOMAIN Source(i).walk,
                Enclosing(Source(i).walk[k]) = n, Walked(i, k)', ~ Walked(i, k)
         PROVE  CallReferences(i, Source(i).walk[k].calls) \subseteq heap'[<<"file", i, n>>]
    <3>1. i = file /\ k = pos
      BY <2>11, <2>12
    <3>2. Source(i).walk[k] = Event
      BY <3>1 DEF Event
    <3> QED
      BY <2>9, <2>12, <3>1, <3>2 DEF references
  <2> QED
    BY <1>2, <2>8, <2>10, <2>12, CompleteSetsGrow
<1>6. CASE /\ heap' = heap /\ \A i \in Owned : Parsed(i)' => Parsed(i)
           /\ \A i \in Owned : \A k \in DOMAIN Source(i).walk :
                Source(i).walk[k].kind = "runner" /\ Walked(i, k)' => Walked(i, k)
  <2>1. \A i \in Owned : Parsed(i) => \A n \in FunctionNames(i) :
          /\ <<"file", i, n>> \in DOMAIN heap'
          /\ heap[<<"file", i, n>>] \subseteq heap'[<<"file", i, n>>]
    BY <1>6 DEF CompleteSets
  <2> QED
    BY <1>2, <1>6, <2>1, CompleteSetsGrow
<1>7. CASE UniqueGlobalFunctionReferences
  <2>1. phase = "globals" /\ phase' = "merge" /\ file' = file /\ file = 1 /\ heap' = heap
    BY <1>7 DEF UniqueGlobalFunctionReferences, IInv
  <2>2. \A i \in Owned : Parsed(i)' => Parsed(i)
    BY <2>1 DEF Parsed
  <2>3. \A i \in Owned : \A k : ~ Walked(i, k)'
    BY <1>1, <2>1 DEF Walked, Merged, Owned
  <2> QED
    BY <1>6, <2>1, <2>2, <2>3
<1>8. CASE MergeTables
  <2>1. phase = "merge" /\ phase' = "walk" /\ file' = file /\ pos' = 1 /\ heap' = heap
    BY <1>8 DEF MergeTables
  <2>2. \A i \in Owned : Parsed(i)' => Parsed(i)
    BY <2>1 DEF Parsed
  <2>3. \A i \in Owned : \A k \in DOMAIN Source(i).walk : Walked(i, k)' => Walked(i, k)
    BY <1>1, <2>1 DEF Walked, Merged, Owned
  <2> QED
    BY <1>6, <2>1, <2>2, <2>3
<1>9. CASE RecordEffect \/ RecordCheck
  <2>1. /\ phase = "walk" /\ phase' = "walk" /\ file' = file /\ pos' = pos + 1 /\ heap' = heap
        /\ Source(file).walk[pos].kind # "runner"
    BY <1>9 DEF RecordEffect, RecordCheck, Walking, Event
  <2>2. \A i \in Owned : Parsed(i)' => Parsed(i)
    BY <2>1 DEF Parsed
  <2>3. ASSUME NEW i \in Owned, NEW k \in DOMAIN Source(i).walk, Walked(i, k)',
               Source(i).walk[k].kind = "runner"
        PROVE  Walked(i, k)
    <3>1. i = file => k # pos
      BY <2>1, <2>3
    <3> QED
      BY <1>1, <2>1, <2>3, <3>1 DEF Walked, Merged, IInv, TypeOK
  <2> QED
    BY <1>6, <2>1, <2>2, <2>3
<1>10. CASE CollectNodeFactsEnds
  <2>1. /\ phase = "walk" /\ phase' = "expand" /\ file' = file /\ heap' = heap
        /\ pos \notin DOMAIN Source(file).walk
    BY <1>10 DEF CollectNodeFactsEnds
  <2>2. \A i \in Owned : Parsed(i)' => Parsed(i)
    BY <2>1 DEF Parsed
  <2>3. \A k \in DOMAIN Source(file).walk : k < pos
    BY <1>1, <2>1 DEF IInv, TypeOK
  <2>4. \A i \in Owned : \A k \in DOMAIN Source(i).walk : Walked(i, k)' => Walked(i, k)
    BY <2>1, <2>3 DEF Walked, Merged
  <2> QED
    BY <1>6, <2>1, <2>2, <2>4
<1>11. CASE \E n \in Identifiers(file) : ExpandEffectfulIdentifier(n)
  <2>1. phase' = phase /\ file' = file /\ pos' = pos /\ heap' = heap
    BY <1>11 DEF ExpandEffectfulIdentifier
  <2> QED
    BY <1>6, <2>1 DEF Parsed, Walked, Merged
<1>12. CASE EmitFact
  <2>1. /\ phase = "expand" /\ heap' = heap /\ file \in Owned
        /\ file = program.owned => phase' = "done" /\ file' = file
        /\ file # program.owned => phase' = "merge" /\ file' = file + 1
    BY <1>12 DEF EmitFact, Settled, IInv
  <2>2. \A i \in Owned : Parsed(i)' => Parsed(i)
    BY <2>1 DEF Parsed
  <2>3. \A i \in Owned : \A k : Walked(i, k)' => Walked(i, k)
    BY <1>1, <2>1 DEF Walked, Merged, Owned
  <2> QED
    BY <1>6, <2>1, <2>2, <2>3
<1>13. CASE UNCHANGED vars
  BY <1>6, <1>13 DEF vars, Parsed, Walked, Merged
<1> QED
  BY <1>3, <1>4, <1>5, <1>7, <1>8, <1>9, <1>10, <1>11, <1>12, <1>13 DEF Next

---------------------------------------------------------------------------
(* The merged tables know every function under the root.                   *)

\* What the tables are to know does not change.
LEMMA CompleteTablesStep ==
  ASSUME program' = program, DistinctNames,
         \A i \in Owned : ~ Merged(i)' =>
           DOMAIN tables'[i] \subseteq {Bare(n) : n \in FunctionNames(i)},
         phase' \in {"merge", "walk", "expand"} => CompleteTable(globals'),
         phase' \in {"walk", "expand"} => CompleteTable(tables'[file'])
  PROVE  CompleteTables'
<1>1. Owned' = Owned /\ \A i : FunctionNames(i)' = FunctionNames(i)
  BY SameProgram
<1>2. (phase \in {"merge", "walk", "expand"} => CompleteTable(globals))'
  BY <1>1 DEF CompleteTable
<1>3. (phase \in {"walk", "expand"} => CompleteTable(tables[file]))'
  BY <1>1 DEF CompleteTable
<1> QED
  BY <1>1, <1>2, <1>3 DEF CompleteTables

\* Entries that a table has stay in a table that takes them first.
LEMMA CompleteOverlay ==
  ASSUME NEW f, NEW g, CompleteTable(g),
         \A j \in Owned : \A n \in FunctionNames(j) :
           Bare(n) \in DOMAIN f => f[Bare(n)] = <<"file", j, n>>
  PROVE  CompleteTable(Overlay(f, g))
  BY DEF CompleteTable, Overlay

\* Every step leaves the tables complete.
LEMMA CompleteTablesInv == IInv /\ OwnTables /\ CompleteTables /\ [Next]_vars => CompleteTables'
<1> SUFFICES ASSUME IInv, OwnTables, CompleteTables, [Next]_vars PROVE CompleteTables'
  OBVIOUS
<1>1. /\ program \in Programs /\ DOMAIN tables = Files /\ file \in Files /\ Owned \subseteq Files
      /\ Files = 1 .. Len(program.sources) /\ Len(program.sources) \in Nat
  BY Numbered DEF IInv, TypeOK
<1>2. program' = program
  BY DEF Next, ParseSourceFacts, CollectLocalCallGraph, UniqueGlobalFunctionReferences, MergeTables,
     RecordEffect, RecordRunner, RecordCheck, CollectNodeFactsEnds, ExpandEffectfulIdentifier, EmitFact, vars
<1> SUFFICES ASSUME DistinctNames PROVE CompleteTables'
  BY <1>2, SameNames DEF CompleteTables
<1>3. /\ \A i \in Owned : ~ Merged(i) => DOMAIN tables[i] \subseteq {Bare(n) : n \in FunctionNames(i)}
      /\ phase \in {"merge", "walk", "expand"} => CompleteTable(globals)
      /\ phase \in {"walk", "expand"} => CompleteTable(tables[file])
  BY DEF CompleteTables
<1>4. \A i, j \in Files : \A n \in FunctionNames(j) :
        Bare(n) \in {Bare(m) : m \in FunctionNames(i)} => i = j
  BY Distinct DEF Bare
<1>5. CASE ParseSourceFacts
  <2> DEFINE own == [r \in {Bare(n) : n \in FunctionNames(file)} |-> <<"file", file, r[2]>>]
  <2>1. /\ phase = "parse" /\ phase' \in {"parse", "graph"}
        /\ tables' = [tables EXCEPT ![file] = own]
    BY <1>5 DEF ParseSourceFacts
  <2>2. DOMAIN own = {Bare(n) : n \in FunctionNames(file)}
    OBVIOUS
  <2> HIDE DEF own
  <2>3. \A i \in Owned : DOMAIN tables'[i] \subseteq {Bare(n) : n \in FunctionNames(i)}
    BY <1>1, <1>3, <2>1, <2>2 DEF Merged
  <2> QED
    BY <1>2, <2>1, <2>3, CompleteTablesStep
<1>6. CASE CollectLocalCallGraph
  <2>1. phase = "graph" /\ phase' \in {"graph", "globals"} /\ UNCHANGED <<tables, globals>>
    BY <1>6 DEF CollectLocalCallGraph
  <2> QED
    BY <1>2, <1>3, <2>1, CompleteTablesStep DEF Merged
<1>7. CASE UniqueGlobalFunctionReferences
  <2> DEFINE Definers(r) == {i \in Owned : r \in DOMAIN tables[i]}
             unique == {r \in UNION {DOMAIN tables[i] : i \in Owned} : Cardinality(Definers(r)) = 1}
             Definer(r) == CHOOSE i \in Owned : i \in Definers(r)
  <2>1. /\ phase = "globals" /\ phase' = "merge" /\ UNCHANGED <<file, tables>>
        /\ globals' = [r \in unique |-> tables[Definer(r)][r]]
    BY <1>7 DEF UniqueGlobalFunctionReferences
  <2>2. ASSUME NEW j \in Owned, NEW n \in FunctionNames(j)
        PROVE  Bare(n) \in DOMAIN globals' /\ globals'[Bare(n)] = <<"file", j, n>>
    <3>1. Parsed(j)
      BY <2>1 DEF Parsed
    <3>2. Bare(n) \in DOMAIN tables[j] /\ tables[j][Bare(n)] = <<"file", j, n>>
      BY <3>1 DEF OwnTables
    <3>3. \A i \in Owned : Bare(n) \in DOMAIN tables[i] => i = j
      BY <1>1, <1>3, <1>4, <2>1 DEF Merged
    <3>4. Definers(Bare(n)) = {j}
      BY <3>2, <3>3
    <3>5. Cardinality(Definers(Bare(n))) = 1
      BY <3>4, FS_Singleton
    <3>6. Bare(n) \in unique
      BY <3>2, <3>5
    <3>7. Definer(Bare(n)) = j
      BY <3>2, <3>3
    <3> HIDE DEF unique, Definer
    <3> QED
      BY <2>1, <3>2, <3>6, <3>7
  <2>3. CompleteTable(globals')
    BY <2>2 DEF CompleteTable
  <2>4. \A i \in Owned : ~ Merged(i)
    BY <2>1 DEF Merged
  <2> QED
    BY <1>2, <1>3, <2>1, <2>3, <2>4, CompleteTablesStep
<1>8. CASE MergeTables
  <2> DEFINE rest == Overlay(globals, graph)
             merged == Overlay(tables[file], rest)
  <2>1. /\ phase = "merge" /\ phase' = "walk" /\ UNCHANGED <<file, globals>>
        /\ tables' = [tables EXCEPT ![file] = merged]
    BY <1>8 DEF MergeTables
  <2>2. CompleteTable(rest)
    BY <1>3, <2>1 DEF CompleteTable, Overlay
  <2>3. Parsed(file) /\ file \in Owned /\ ~ Merged(file)
    BY <1>1, <2>1 DEF IInv, Parsed, Merged
  <2>4. ASSUME NEW j \in Owned, NEW n \in FunctionNames(j), Bare(n) \in DOMAIN tables[file]
        PROVE  tables[file][Bare(n)] = <<"file", j, n>>
    <3>1. j = file
      BY <1>1, <1>3, <1>4, <2>3, <2>4
    <3> QED
      BY <2>3, <3>1 DEF OwnTables
  <2> HIDE DEF rest
  <2>5. CompleteTable(merged)
    BY <2>2, <2>4, CompleteOverlay
  <2> HIDE DEF merged
  <2>6. tables'[file'] = merged /\ \A i \in Owned : i # file => tables'[i] = tables[i]
    BY <1>1, <2>1
  <2>7. \A i \in Owned : ~ Merged(i)' => i # file /\ ~ Merged(i)
    BY <1>1, <2>1 DEF Merged, Owned
  <2>8. \A i \in Owned : ~ Merged(i)' => DOMAIN tables'[i] \subseteq {Bare(n) : n \in FunctionNames(i)}
    BY <1>3, <2>6, <2>7
  <2> QED
    BY <1>2, <1>3, <2>1, <2>5, <2>6, <2>8, CompleteTablesStep
<1>9. CASE RecordRunner
  <2> DEFINE name  == Bare(Enclosing(Event))
             known == name \in DOMAIN tables[file]
             id    == IF known THEN tables[file][name] ELSE <<"file", file, Enclosing(Event)>>
             entry == [r \in {name} |-> id]
  <2>1. /\ phase = "walk" /\ UNCHANGED <<phase, file, globals>>
        /\ \/ tables' = tables
           \/ tables' = [tables EXCEPT ![file] = Overlay(entry, tables[file])]
    BY <1>9 DEF RecordRunner, Walking
  <2>2. CompleteTable(tables[file])
    BY <1>3, <2>1
  <2>3. \A r \in DOMAIN entry : r \in DOMAIN tables[file] => entry[r] = tables[file][r]
    OBVIOUS
  <2> HIDE DEF entry
  <2>4. CompleteTable(Overlay(entry, tables[file]))
    <3>1. \A j \in Owned : \A n \in FunctionNames(j) :
            Bare(n) \in DOMAIN entry => entry[Bare(n)] = <<"file", j, n>>
      BY <2>2, <2>3 DEF CompleteTable
    <3> QED
      BY <2>2, <3>1, CompleteOverlay
  <2>5. CompleteTable(tables'[file'])
    BY <1>1, <2>1, <2>2, <2>4
  <2>6. \A i \in Owned : i # file => tables'[i] = tables[i]
    BY <1>1, <2>1
  <2>7. \A i \in Owned : ~ Merged(i)' => i # file /\ ~ Merged(i)
    BY <1>1, <2>1 DEF Merged, Owned
  <2>8. \A i \in Owned : ~ Merged(i)' => DOMAIN tables'[i] \subseteq {Bare(n) : n \in FunctionNames(i)}
    BY <1>3, <2>6, <2>7
  <2> QED
    BY <1>2, <1>3, <2>1, <2>5, <2>8, CompleteTablesStep
<1>10. CASE /\ UNCHANGED <<tables, globals>>
            /\ \A i \in Owned : ~ Merged(i)' => ~ Merged(i)
            /\ phase' \in {"merge", "walk", "expand"} => phase \in {"merge", "walk", "expand"}
            /\ phase' \in {"walk", "expand"} => phase \in {"walk", "expand"} /\ file' = file
  BY <1>2, <1>3, <1>10, CompleteTablesStep
<1>11. CASE EmitFact
  <2>1. /\ phase = "expand" /\ phase' \in {"merge", "done"} /\ UNCHANGED <<tables, globals>>
        /\ phase' = "merge" => file' = file + 1
    BY <1>11 DEF EmitFact, Settled
  <2>2. \A i \in Owned : ~ Merged(i)' => ~ Merged(i)
    BY <1>1, <2>1 DEF Merged, Owned
  <2> QED
    BY <1>10, <2>1, <2>2
<1>12. CASE RecordEffect \/ RecordCheck \/ CollectNodeFactsEnds
  BY <1>10, <1>12 DEF RecordEffect, RecordCheck, Walking, CollectNodeFactsEnds, Merged
<1>13. CASE \E n \in Identifiers(file) : ExpandEffectfulIdentifier(n)
  BY <1>10, <1>13 DEF ExpandEffectfulIdentifier, Merged
<1>14. CASE UNCHANGED vars
  BY <1>10, <1>14 DEF vars, Merged
<1> QED
  BY <1>5, <1>6, <1>7, <1>8, <1>9, <1>11, <1>12, <1>13, <1>14 DEF Next

---------------------------------------------------------------------------
(* The call graph knows the effects of functions.                          *)

\* The local expansion marks what it starts from, and every function whose references
\* lead to one of these, if its name is an identifier.
LEMMA LocalMarksHold ==
  ASSUME program \in Programs, NEW i \in Files
  PROVE  /\ DirectMarks(i) \subseteq LocalMarks(i)
         /\ \A n \in LocalNames(i) \cap Identifiers(i), m \in DirectMarks(i) :
              Bare(m) \in LocalReferences(i, n) => n \in LocalMarks(i)
<1> DEFINE names == LocalNames(i)
           table == [r \in {Bare(n) : n \in names} |-> LocalReferences(i, r[2])]
           Reaches(n, marks) == Expanded(table, table[Bare(n)]) \cap {Bare(m) : m \in marks} # {}
           own == names \cap Identifiers(i)
           Swept(marks) == marks \cup {n \in own : Reaches(n, marks)}
           k == Cardinality(names)
           sweep[j \in 0 .. k] == IF j = 0 THEN DirectMarks(i) ELSE Swept(sweep[j - 1])
<1>1. LocalMarks(i) = sweep[k]
  BY DEF LocalMarks
<1>2. IsFiniteSet(names)
  BY FiniteLocalNames
<1>3. k \in Nat /\ (names # {} => k # 0)
  BY <1>2, FS_CardinalityType, FS_EmptySet
<1>4. sweep = CHOOSE f : f = [j \in 0 .. k |-> IF j = 0 THEN DirectMarks(i) ELSE Swept(f[j - 1])]
  BY DEF sweep
<1>5. DOMAIN table = {<<NoModule, n>> : n \in names}
  BY DEF Bare
<1>6. IsFiniteSet(DOMAIN table)
  BY <1>2, <1>5, FiniteReferences
<1>7. \A n \in names : table[Bare(n)] = LocalReferences(i, n)
  BY DEF Bare
<1> HIDE DEF table, names
<1> DEFINE reached == UNION {Expanded(table, table[Bare(n)]) : n \in names}
           callers == [m \in {r[2] : r \in reached} |->
                         {n \in own : Bare(m) \in Expanded(table, table[Bare(n)])}]
<1>8. ASSUME NEW marks
      PROVE  Swept(marks) = EnteredBy(callers, marks)
  <2>1. ASSUME NEW n \in own, Reaches(n, marks)
        PROVE  n \in EnteredBy(callers, marks)
    <3>1. PICK m \in marks : Bare(m) \in Expanded(table, table[Bare(n)])
      BY <2>1
    <3>2. m \in DOMAIN callers /\ n \in callers[m]
      BY <2>1, <3>1 DEF Bare
    <3> HIDE DEF callers
    <3> QED
      BY <3>2 DEF EnteredBy
  <2>2. ASSUME NEW n \in EnteredBy(callers, marks), n \notin marks
        PROVE  n \in own /\ Reaches(n, marks)
    <3>1. PICK m \in marks \cap DOMAIN callers : n \in callers[m]
      BY <2>2 DEF EnteredBy
    <3> QED
      BY <3>1
  <2>3. marks \subseteq EnteredBy(callers, marks)
    BY DEF EnteredBy
  <2> HIDE DEF callers, Reaches
  <2> QED
    BY <2>1, <2>2, <2>3
<1> HIDE DEF callers, Swept, sweep
<1>9. PICK f : Layers(f, callers, DirectMarks(i), k)
  BY <1>3, LayersExist
<1>10. f = [j \in 0 .. k |-> IF j = 0 THEN DirectMarks(i) ELSE Swept(f[j - 1])]
  BY <1>8, <1>9 DEF Layers
<1>11. sweep = [j \in 0 .. k |-> IF j = 0 THEN DirectMarks(i) ELSE Swept(sweep[j - 1])]
  BY <1>4, <1>10
<1>12. Layers(sweep, callers, DirectMarks(i), k)
  BY <1>8, <1>11 DEF Layers
<1>13. DirectMarks(i) \subseteq sweep[k] /\ (k # 0 => Swept(DirectMarks(i)) \subseteq sweep[k])
  <2> HIDE DEF k
  <2>1. /\ DirectMarks(i) \subseteq sweep[k]
        /\ k # 0 => EnteredBy(callers, DirectMarks(i)) \subseteq sweep[k]
    BY <1>3, <1>12, LayersGrow
  <2>2. Swept(DirectMarks(i)) = EnteredBy(callers, DirectMarks(i))
    BY <1>8
  <2> QED
    BY <2>1, <2>2
<1>14. ASSUME NEW n \in own, NEW m \in DirectMarks(i), Bare(m) \in LocalReferences(i, n)
       PROVE  n \in Swept(DirectMarks(i))
  <2>1. Bare(m) \in Expanded(table, table[Bare(n)])
    BY <1>6, <1>7, <1>14, ExpandedIsLeastClosed
  <2> QED
    BY <1>14, <2>1 DEF Swept
<1> QED
  BY <1>1, <1>3, <1>13, <1>14 DEF names

\* Effects by which callers are found mark the function in the local call graph.
LEMMA EffectsAreMarked ==
  ASSUME program \in Programs, NEW f \in DOMAIN CallTable, HasEffect(f), KnownByName(f)
  PROVE  f[1] \in Files /\ f[2] \in LocalMarks(f[1]) /\ Evidence(f[1], f[2]) # {}
<1> DEFINE i == f[1]
           n == f[2]
<1>1. i \in Files /\ n \in FunctionNames(i)
  BY CallingFunctions
<1>2. CallTable[f] = Source(i).functions[n]
        \cup UNION {e.calls : e \in {d \in Events(i, "runner") : Enclosing(d) = n}}
  BY CallingFunctions
<1>3. n # NoFunction /\ n \in Identifiers(i)
  BY <1>1, Typed DEF KnownByName
<1>4. PICK e \in EffectEvents(i) :
        Enclosing(e) = n /\ (e.source = "global" => <<0, e.reference>> \in CallTable[f])
  BY DEF HasEffect
<1> HIDE DEF i, n
<1>5. Evidence(i, n) # {}
  BY <1>4 DEF Evidence
<1>6. EventMarks(e) \subseteq DirectMarks(i)
  BY <1>4 DEF DirectMarks
<1>7. CASE e.source # "global"
  <2>1. n \in DirectMarks(i)
    BY <1>3, <1>4, <1>6, <1>7 DEF EventMarks
  <2> QED
    BY <1>1, <1>5, <2>1, LocalMarksHold DEF i, n
<1>8. CASE e.source = "global"
  <2>1. e.reference \in DirectMarks(i)
    BY <1>6, <1>8 DEF EventMarks
  <2> DEFINE c == <<0, e.reference>>
  <2>2. c \in CallTable[f] /\ c[2] = e.reference
    BY <1>4, <1>8
  <2> HIDE DEF c
  <2>3. c \in Source(i).functions[n]
          \/ \E d \in Events(i, "runner") : Enclosing(d) = n /\ c \in d.calls
    BY <1>2, <2>2
  <2>4. \A calls : c \in calls => Bare(c[2]) \in CallReferences(i, calls)
    <3>1. TextOf(i, c) = c[2]
      BY <1>1, Typed DEF c
    <3> QED
      BY <3>1, ReferencesAreOfCalls
  <2>5. Bare(c[2]) \in LocalReferences(i, n)
    BY <1>1, <2>3, <2>4 DEF LocalReferences, RunnerReferences
  <2>6. n \in LocalNames(i)
    BY <1>1 DEF LocalNames
  <2> QED
    BY <1>1, <1>3, <1>5, <2>1, <2>2, <2>5, <2>6, LocalMarksHold DEF i, n
<1> QED
  BY <1>7, <1>8

\* Every step leaves the effects those of functions: a file that is collected adds its own,
\* and where modules are distinct, none replaces those of another.
LEMMA EffectsAreEvidenceInv == IInv /\ EffectsAreEvidence /\ [Next]_vars => EffectsAreEvidence'
<1> SUFFICES ASSUME IInv, EffectsAreEvidence, [Next]_vars PROVE EffectsAreEvidence'
  OBVIOUS
<1>1. program \in Programs /\ file \in Files /\ Files = 1 .. Len(program.sources)
  BY Numbered DEF IInv, TypeOK
<1>2. program' = program
  BY DEF Next, ParseSourceFacts, CollectLocalCallGraph, UniqueGlobalFunctionReferences, MergeTables,
     RecordEffect, RecordRunner, RecordCheck, CollectNodeFactsEnds, ExpandEffectfulIdentifier, EmitFact, vars
<1>3. /\ Files' = Files /\ \A i : Source(i)' = Source(i)
      /\ \A i, n : Evidence(i, n)' = Evidence(i, n)
      /\ \A f : (HasEffect(f)' <=> HasEffect(f)) /\ (KnownByName(f)' <=> KnownByName(f))
      /\ CallTable' = CallTable /\ (DistinctModules' <=> DistinctModules)
  BY <1>2, SameProgram, SameCalls, SameNames
<1>4. /\ \A r \in DOMAIN effects : \E j \in Files :
           r[1] = Source(j).module /\ effects[r] = Evidence(j, r[2])
      /\ DistinctModules => \A f \in DOMAIN CallTable :
           Collected(f[1]) /\ HasEffect(f) /\ KnownByName(f) =>
           /\ <<Source(f[1]).module, f[2]>> \in DOMAIN effects
           /\ effects[<<Source(f[1]).module, f[2]>>] = Evidence(f[1], f[2])
  BY DEF EffectsAreEvidence
<1>5. CASE CollectLocalCallGraph
  <2> DEFINE module == Source(file).module
             new == [r \in {<<module, n>> : n \in LocalMarks(file)} |-> Evidence(file, r[2])]
  <2>1. /\ phase = "graph" /\ effects' = Overlay(new, effects)
        /\ file = Len(program.sources) => phase' = "globals"
        /\ file # Len(program.sources) => phase' = "graph" /\ file' = file + 1
    BY <1>5 DEF CollectLocalCallGraph
  <2>2. \A r \in DOMAIN new : r[1] = module /\ new[r] = Evidence(file, r[2])
    OBVIOUS
  <2>3. \A n \in LocalMarks(file) :
          <<module, n>> \in DOMAIN new /\ new[<<module, n>>] = Evidence(file, n)
    OBVIOUS
  <2> HIDE DEF new
  <2>4. \A r \in DOMAIN effects' : \E j \in Files :
          r[1] = Source(j).module /\ effects'[r] = Evidence(j, r[2])
    BY <1>1, <1>4, <2>1, <2>2 DEF Overlay
  <2>5. \A i \in Files : Collected(i)' => Collected(i) \/ i = file
    BY <1>1, <2>1 DEF Collected
  <2>6. ASSUME DistinctModules, NEW f \in DOMAIN CallTable, Collected(f[1])', HasEffect(f), KnownByName(f)
        PROVE  /\ <<Source(f[1]).module, f[2]>> \in DOMAIN effects'
               /\ effects'[<<Source(f[1]).module, f[2]>>] = Evidence(f[1], f[2])
    <3> DEFINE r == <<Source(f[1]).module, f[2]>>
    <3>1. f[1] \in Files /\ f[2] \in LocalMarks(f[1])
      BY <1>1, <2>6, EffectsAreMarked
    <3>2. f[1] = file => r \in DOMAIN new /\ new[r] = Evidence(f[1], f[2])
      BY <2>3, <3>1
    <3>3. f[1] # file => r \notin DOMAIN new
      BY <1>1, <2>2, <2>6, <3>1 DEF DistinctModules
    <3>4. f[1] # file => r \in DOMAIN effects /\ effects[r] = Evidence(f[1], f[2])
      BY <1>4, <2>5, <2>6, <3>1
    <3> HIDE DEF r
    <3>5. r \in DOMAIN effects' /\ effects'[r] = Evidence(f[1], f[2])
      BY <2>1, <3>2, <3>3, <3>4 DEF Overlay
    <3> QED
      BY <3>5 DEF r
  <2> QED
    BY <1>3, <2>4, <2>6 DEF EffectsAreEvidence
<1>6. CASE effects' = effects /\ \A i \in Files : Collected(i)' => Collected(i)
  <2>1. \A f \in DOMAIN CallTable : f[1] \in Files
    BY CallingFunctions
  <2> QED
    BY <1>3, <1>4, <1>6, <2>1 DEF EffectsAreEvidence
<1>7. CASE ParseSourceFacts
  <2>1. effects' = effects /\ phase' \in {"parse", "graph"} /\ (phase' = "graph" => file' = 1)
    BY <1>7 DEF ParseSourceFacts
  <2>2. \A i \in Files : ~ Collected(i)'
    BY <1>1, <2>1 DEF Collected
  <2> QED
    BY <1>6, <2>1, <2>2
<1>8. CASE UniqueGlobalFunctionReferences \/ MergeTables \/ RecordEffect \/ RecordRunner \/ RecordCheck
             \/ CollectNodeFactsEnds \/ EmitFact
  <2>1. effects' = effects /\ phase \notin {"parse", "graph"}
    BY <1>8 DEF UniqueGlobalFunctionReferences, MergeTables, RecordEffect, RecordRunner, RecordCheck,
       Walking, CollectNodeFactsEnds, EmitFact, Settled
  <2> QED
    BY <1>6, <2>1 DEF Collected
<1>9. CASE \E n \in Identifiers(file) : ExpandEffectfulIdentifier(n)
  BY <1>6, <1>9 DEF ExpandEffectfulIdentifier, Collected
<1>10. CASE UNCHANGED vars
  BY <1>6, <1>10 DEF vars, Collected
<1> QED
  BY <1>5, <1>7, <1>8, <1>9, <1>10 DEF Next

---------------------------------------------------------------------------
(* What the expansions of a file lead to.                                  *)

\* All that the tables are known to hold.
TInv ==
  /\ IInv
  /\ OwnTables /\ FiniteTables
  /\ SoundTables /\ CompleteTables /\ CompleteSets
  /\ EffectsAreEvidence

\* What a Set in the table of the file holds is of what its function calls.
LEMMA EntryIsOfCalls ==
  ASSUME TInv, DistinctNames, NEW r \in DOMAIN Table
  PROVE  \E j \in Files : \E n \in FunctionNames(j) :
           /\ r \in {Bare(n), <<Source(j).module, n>>}
           /\ <<j, n>> \in DOMAIN CallTable
           /\ Table[r] \subseteq ReferencesOf(<<j, n>>)
<1>1. DOMAIN Table = DOMAIN tables[file] /\ Table[r] = heap[tables[file][r]] /\ file \in Files
  BY DEF Table, TInv, IInv, TypeOK
<1>2. SoundEntry(r, tables[file][r])
  BY <1>1 DEF TInv, SoundTables, SoundTable
<1> DEFINE id == tables[file][r]
<1>3. PICK kind \in {"file", "graph"}, j \in Files : \E n \in FunctionNames(j) :
        id = <<kind, j, n>> /\ r \in {Bare(n), <<Source(j).module, n>>}
  BY <1>2 DEF SoundEntry
<1>4. PICK n \in FunctionNames(j) :
        id = <<kind, j, n>> /\ r \in {Bare(n), <<Source(j).module, n>>}
  BY <1>3
<1>5. id \in DOMAIN heap
  BY <1>1 DEF TInv, IInv, TypeOK
<1>6. SoundSet(id, heap[id])
  BY <1>5 DEF TInv, SoundTables
<1>7. heap[id] \subseteq ReferencesOf(<<j, n>>)
  <2>1. PICK kk \in {"file", "graph"}, jj \in Files : \E m \in FunctionNames(jj) :
          id = <<kk, jj, m>> /\ heap[id] \subseteq ReferencesOf(<<jj, m>>)
    BY <1>6 DEF SoundSet
  <2>2. PICK m \in FunctionNames(jj) : id = <<kk, jj, m>> /\ heap[id] \subseteq ReferencesOf(<<jj, m>>)
    BY <2>1
  <2>3. jj = j /\ m = n
    BY <1>4, <2>2
  <2> QED
    BY <2>2, <2>3
<1>8. <<j, n>> \in DOMAIN CallTable
  BY <1>4, CallingFunctions
<1> QED
  BY <1>1, <1>4, <1>7, <1>8

\* The table leads from references of a file's calls, and of the functions among them, to
\* those of what these call.
LEMMA TableFollowsCalls ==
  ASSUME TInv, DistinctNames, NEW i \in Files, NEW calls, Telling(i, calls),
         NEW S, calls \subseteq S, ClosedBy(CallTable, S)
  PROVE  ClosedBy(Table, BareReferences(i, calls) \cup ReferencesIn(S))
<1> DEFINE X == BareReferences(i, calls) \cup ReferencesIn(S)
<1> SUFFICES ASSUME NEW r \in X \cap DOMAIN Table
             PROVE  Table[r] \subseteq ReferencesIn(S)
  BY DEF ClosedBy
<1>1. PICK j \in Files : \E n \in FunctionNames(j) :
        /\ r \in {Bare(n), <<Source(j).module, n>>}
        /\ <<j, n>> \in DOMAIN CallTable
        /\ Table[r] \subseteq ReferencesOf(<<j, n>>)
  BY EntryIsOfCalls
<1>2. PICK n \in FunctionNames(j) :
        /\ r \in {Bare(n), <<Source(j).module, n>>}
        /\ <<j, n>> \in DOMAIN CallTable
        /\ Table[r] \subseteq ReferencesOf(<<j, n>>)
  BY <1>1
<1>3. program \in Programs
  BY DEF TInv, IInv
<1>4. CASE r \in BareReferences(i, calls)
  <2>1. <<j, n>> \in S
    BY <1>2, <1>3, <1>4, ReferencesTell
  <2> QED
    BY <1>2, <2>1 DEF ReferencesIn
<1>5. CASE r \in ReferencesIn(S)
  <2>1. PICK f \in S \cap DOMAIN CallTable : r \in ReferencesOf(f)
    BY <1>5 DEF ReferencesIn
  <2>2. <<j, n>> \in CallTable[f]
    BY <1>2, <1>3, <2>1, FunctionsTell
  <2>3. <<j, n>> \in S
    BY <2>1, <2>2 DEF ClosedBy
  <2> QED
    BY <1>2, <2>3 DEF ReferencesIn
<1> QED
  BY <1>4, <1>5

\* The table of the file is finite.
LEMMA TableIsFinite ==
  ASSUME TInv
  PROVE  IsFiniteSet(DOMAIN Table)
  BY DEF TInv, FiniteTables, Table, IInv, TypeOK

\* An expansion that starts from references of calls ends with references of what may
\* happen when those are made.
LEMMA ExpansionFollowsCalls ==
  ASSUME TInv, DistinctNames, NEW i \in Files, NEW calls, Telling(i, calls),
         NEW some, some \subseteq calls
  PROVE  Expanded(Table, BareReferences(i, some))
           \subseteq BareReferences(i, calls) \cup ReferencesIn(Called(calls))
<1> DEFINE X == BareReferences(i, calls) \cup ReferencesIn(Called(calls))
<1>1. program \in Programs
  BY DEF TInv, IInv
<1>2. calls \subseteq Called(calls) /\ ClosedBy(CallTable, Called(calls))
  BY <1>1, CalledIsLeast
<1>3. ClosedBy(Table, X)
  BY <1>2, TableFollowsCalls
<1>4. BareReferences(i, some) \subseteq X
  BY DEF BareReferences
<1> HIDE DEF X
<1>5. Expanded(Table, BareReferences(i, some)) \subseteq X
  BY <1>3, <1>4, TableIsFinite, ExpandedIsLeastClosed
<1> QED
  BY <1>5 DEF X

\* What a property check credits is what the property calls.
LEMMA CheckIsOfCalls ==
  ASSUME TInv, DistinctNames, phase = "walk", pos \in DOMAIN Source(file).walk,
         Event.kind = "check"
  PROVE  PropertyCheck(Event).references \subseteq ReferenceOf(file, pos)
<1>1. program \in Programs /\ file \in Files
  BY DEF TInv, IInv, TypeOK
<1>2. Event \in Events(file, "check") /\ Event = Source(file).walk[pos]
  BY DEF Events, Event
<1>3. Telling(file, Event.calls)
  BY <1>1, <1>2, Distinct
<1>4. Expanded(Table, BareReferences(file, Event.calls))
        \subseteq BareReferences(file, Event.calls) \cup ReferencesIn(Called(Event.calls))
  BY <1>1, <1>3, ExpansionFollowsCalls
<1>5. PropertyCheck(Event).references = Expanded(Table, BareReferences(file, Event.calls))
  BY DEF PropertyCheck
<1>6. ReferenceOf(file, pos) = BareReferences(file, Event.calls) \cup ReferencesIn(Called(Event.calls))
  BY <1>2 DEF ReferenceOf, ReferencesIn, ReferencesOf, CalledFunctions
<1> QED
  BY <1>4, <1>5, <1>6

\* A property check whose helpers are under the root, called by their names and walked as
\* far as they run Effects is to be credited with all that it calls.
Follows(i, k, references) ==
  /\ ByName(i, Source(i).walk[k].calls)
  /\ \A f \in CalledFunctions(i, k) :
       f[1] \in Owned /\ ByName(f[1], CallTable[f]) /\ WalkedBefore(f, i, k)
  => \A c \in Called(Source(i).walk[k].calls) : Bare(c[2]) \in references

\* The table leads from a function under the root, by its name, to the calls in its body
\* and in the effect runners that have been walked.
LEMMA EntryHoldsCalls ==
  ASSUME TInv, phase \in {"walk", "expand"}, NEW j \in Owned, NEW n \in FunctionNames(j),
         Bare(n) \in DOMAIN tables[file], tables[file][Bare(n)] = <<"file", j, n>>,
         \A k \in DOMAIN Source(j).walk :
           Source(j).walk[k].kind = "runner" /\ Enclosing(Source(j).walk[k]) = n => Walked(j, k)
  PROVE  /\ Bare(n) \in DOMAIN Table
         /\ \A d \in CallTable[<<j, n>>] : \E calls :
              d \in calls /\ CallReferences(j, calls) \subseteq Table[Bare(n)]
<1> DEFINE id == <<"file", j, n>>
           f == <<j, n>>
<1>1. Bare(n) \in DOMAIN Table /\ Table[Bare(n)] = heap[id]
  BY DEF Table
<1>2. Parsed(j) /\ j \in Files
  BY Numbered DEF Parsed, TInv, IInv
<1>3. /\ CallReferences(j, Source(j).functions[n]) \subseteq heap[id]
      /\ \A k \in DOMAIN Source(j).walk :
           Source(j).walk[k].kind = "runner" /\ Enclosing(Source(j).walk[k]) = n /\ Walked(j, k)
             => CallReferences(j, Source(j).walk[k].calls) \subseteq heap[id]
  BY <1>2 DEF TInv, CompleteSets
<1>4. /\ f \in DOMAIN CallTable /\ f[1] = j /\ f[2] = n
      /\ CallTable[f] = Source(f[1]).functions[f[2]]
           \cup UNION {e.calls : e \in {d \in Events(f[1], "runner") : Enclosing(d) = f[2]}}
  BY <1>2, CallingFunctions
<1> HIDE DEF id, f
<1>5. ASSUME NEW d \in CallTable[f]
      PROVE  \E calls : d \in calls /\ CallReferences(j, calls) \subseteq Table[Bare(n)]
  <2>1. CASE d \in Source(j).functions[n]
    BY <1>1, <1>3, <2>1
  <2>2. CASE \E e \in Events(j, "runner") : Enclosing(e) = n /\ d \in e.calls
    <3>1. PICK k \in DOMAIN Source(j).walk :
            /\ Source(j).walk[k].kind = "runner" /\ Enclosing(Source(j).walk[k]) = n
            /\ d \in Source(j).walk[k].calls
      BY <2>2 DEF Events
    <3>2. CallReferences(j, Source(j).walk[k].calls) \subseteq heap[id]
      BY <1>3, <3>1
    <3> QED
      BY <1>1, <3>1, <3>2
  <2>3. d \in Source(j).functions[n] \/ \E e \in Events(j, "runner") : Enclosing(e) = n /\ d \in e.calls
    BY <1>4
  <2> QED
    BY <2>1, <2>2, <2>3
<1> QED
  BY <1>1, <1>5 DEF f

\* Every such call is referenced.
LEMMA CheckFollowsWalked ==
  ASSUME TInv, DistinctNames, phase = "walk", pos \in DOMAIN Source(file).walk,
         Event.kind = "check"
  PROVE  Follows(file, pos, PropertyCheck(Event).references)
<1> DEFINE calls == Event.calls
           X == Expanded(Table, BareReferences(file, calls))
           S == {c \in Called(calls) : Bare(c[2]) \in X}
<1>1. program \in Programs /\ file \in Owned /\ file \in Files
  BY DEF TInv, IInv, TypeOK
<1>2. Event = Source(file).walk[pos]
  BY DEF Event
<1>3. PropertyCheck(Event).references = X
  BY DEF PropertyCheck
<1> SUFFICES ASSUME ByName(file, calls),
                    \A f \in Called(calls) \cap DOMAIN CallTable :
                      /\ f[1] \in Owned /\ ByName(f[1], CallTable[f])
                      /\ WalkedBefore(f, file, pos)
             PROVE  \A c \in Called(calls) : Bare(c[2]) \in X
  BY <1>2, <1>3 DEF Follows, CalledFunctions
<1>4. BareReferences(file, calls) \subseteq X /\ ClosedBy(Table, X)
  BY TableIsFinite, ExpandedIsLeastClosed
<1>5. calls \subseteq Called(calls) /\ ClosedBy(CallTable, Called(calls))
  BY <1>1, CalledIsLeast
<1> HIDE DEF X, calls
<1>6. calls \subseteq S
  BY <1>4, <1>5 DEF BareReferences, ByName
<1>7. ASSUME NEW f \in S \cap DOMAIN CallTable
      PROVE  CallTable[f] \subseteq S
  <2> DEFINE j == f[1]
             n == f[2]
  <2>1. j \in Owned /\ ByName(j, CallTable[f]) /\ WalkedBefore(f, file, pos)
    BY <1>7
  <2>2. f = <<j, n>> /\ n \in FunctionNames(j)
    BY <1>7, CallingFunctions
  <2> HIDE DEF j, n
  <2>3. Bare(n) \in DOMAIN tables[file] /\ tables[file][Bare(n)] = <<"file", j, n>>
    BY <2>1, <2>2 DEF TInv, CompleteTables, CompleteTable
  <2>4. ASSUME NEW k \in DOMAIN Source(j).walk,
               Source(j).walk[k].kind = "runner", Enclosing(Source(j).walk[k]) = n
        PROVE  Walked(j, k)
    <3>1. j < file \/ (j = file /\ k < pos)
      BY <2>1, <2>4 DEF WalkedBefore, j, n
    <3> QED
      BY <1>1, <2>1, <3>1 DEF Walked, Merged, Owned
  <2>5. /\ Bare(n) \in DOMAIN Table
        /\ \A d \in CallTable[<<j, n>>] : \E some :
             d \in some /\ CallReferences(j, some) \subseteq Table[Bare(n)]
    BY <2>1, <2>2, <2>3, <2>4, EntryHoldsCalls
  <2>6. Bare(n) \in X
    BY <1>7 DEF n
  <2>7. Table[Bare(n)] \subseteq X
    BY <1>4, <2>5, <2>6 DEF ClosedBy
  <2>8. ASSUME NEW d \in CallTable[f]
        PROVE  d \in S
    <3>1. PICK some : d \in some /\ CallReferences(j, some) \subseteq Table[Bare(n)]
      BY <2>2, <2>5
    <3>2. Bare(d[2]) \in X
      BY <2>1, <2>7, <3>1, ReferencesAreOfCalls DEF ByName
    <3>3. d \in Called(calls)
      BY <1>5, <1>7 DEF ClosedBy
    <3> QED
      BY <3>2, <3>3
  <2> QED
    BY <2>8
<1> HIDE DEF S
<1>8. Called(calls) \subseteq S
  BY <1>1, <1>6, <1>7, CalledIsLeast DEF ClosedBy
<1> QED
  BY <1>8 DEF S

\* What may happen when a function is called is the function, or called by what may happen.
LEMMA CalledByCalled ==
  ASSUME program \in Programs, NEW f, NEW c \in Called({f})
  PROVE  c = f \/ \E g \in Called({f}) \cap DOMAIN CallTable : c \in CallTable[g]
<1> DEFINE S == {d \in Called({f}) :
                   d = f \/ \E g \in Called({f}) \cap DOMAIN CallTable : d \in CallTable[g]}
<1>1. f \in Called({f}) /\ ClosedBy(CallTable, Called({f}))
  BY CalledIsLeast
<1>2. {f} \subseteq S
  BY <1>1
<1>3. ClosedBy(CallTable, S)
  BY <1>1 DEF ClosedBy
<1> HIDE DEF S
<1>4. Called({f}) \subseteq S
  BY <1>2, <1>3, CalledIsLeast
<1> QED
  BY <1>4 DEF S

\* A mark of file i is direct, or names a function that is truly effectful.
Justified(i, n) ==
  n \in DirectMarks(i) \/ \E f \in DOMAIN CallTable : f[2] = n /\ TrulyEffectful(f)

\* A name that the effects of a file mark and that is called, is called for an effect.
LEMMA CalledMarkTouches ==
  ASSUME program \in Programs, DistinctNames, NEW i \in Files, NEW g \in DOMAIN CallTable,
         NEW c \in CallTable[g], TextOf(g[1], c) \in DirectMarks(i)
  PROVE  TouchesEffects(c) \/ TouchesEffects(g)
<1> DEFINE m == TextOf(g[1], c)
<1>1. c \in Callees
  BY DEF Callees
<1>2. c = <<c[1], c[2]>>
  BY <1>1, CalleesAre
<1>3. CASE m \in EffectNames(i)
  <2>1. c[1] = 0 /\ c[2] \in Source(g[1]).bindings \cup Evidence(g[1], g[2])
    BY <1>3, Distinct
  <2>2. CASE c[2] \in Source(g[1]).bindings
    <3>1. <<0, c[2]>> \in CallTable[g]
      BY <1>2, <2>1
    <3> QED
      BY <2>2, <3>1 DEF TouchesEffects
  <2>3. CASE c[2] \in Evidence(g[1], g[2])
    BY <2>3 DEF TouchesEffects
  <2> QED
    BY <2>1, <2>2, <2>3
<1>4. CASE \E e \in EffectEvents(i) : e.source # "global" /\ m = Enclosing(e)
  <2>1. PICK e \in EffectEvents(i) : m = Enclosing(e)
    BY <1>4
  <2>2. m \in FunctionNames(i)
    BY <2>1, Distinct
  <2>3. c = <<i, m>> /\ c[2] = m /\ c \in DOMAIN CallTable
    <3>1. c = <<i, m>>
      BY <2>2, Distinct DEF Telling
    <3> HIDE DEF m
    <3> QED
      BY <2>2, <3>1, CallingFunctions
  <2>4. e.reference \in Evidence(i, c[2])
    BY <2>1, <2>3 DEF Evidence
  <2>5. c[1] = i
    BY <2>3
  <2> QED
    BY <2>3, <2>4, <2>5 DEF TouchesEffects
<1>5. m \in Source(i).bindings \/ \E e \in EffectEvents(i) : m \in EventMarks(e)
  BY DEF DirectMarks
<1>6. \A e \in EffectEvents(i) : e \in Events(i, "effect")
  BY DEF EffectEvents
<1> QED
  BY <1>3, <1>4, <1>5, <1>6 DEF EffectNames, EventMarks

\* A function that is called by what is truly effectful makes its callers so.
LEMMA EffectsPropagate ==
  ASSUME program \in Programs, NEW f, NEW c \in Called({f}), TouchesEffects(c) \/ TrulyEffectful(c)
  PROVE  TrulyEffectful(f)
<1>1. Called({c}) \subseteq Called({f})
  BY CalledIsTransitive
<1> QED
  BY <1>1 DEF TrulyEffectful

\* What the loop marks is justified if what was marked before is.
LEMMA TriggeredIsJustified ==
  ASSUME TInv, DistinctNames, NEW n, Bare(n) \in DOMAIN tables[file],
         \A m \in marked : Justified(file, m),
         Triggers(n, marked)
  PROVE  Justified(file, n)
<1>1. program \in Programs /\ file \in Files
  BY DEF TInv, IInv, TypeOK
<1>2. PICK j \in Files : \E m \in FunctionNames(j) :
        /\ Bare(n) \in {Bare(m), <<Source(j).module, m>>}
        /\ <<j, m>> \in DOMAIN CallTable
        /\ Table[Bare(n)] \subseteq ReferencesOf(<<j, m>>)
  <2>1. Bare(n) \in DOMAIN Table
    BY DEF Table
  <2> QED
    BY <2>1, EntryIsOfCalls
<1> DEFINE f == <<j, n>>
<1>3. f \in DOMAIN CallTable /\ Table[Bare(n)] \subseteq ReferencesOf(f)
  BY <1>2 DEF Bare
<1>4. f \in Called({f}) /\ ClosedBy(CallTable, Called({f}))
  BY <1>1, CalledIsLeast
<1>5. \A r \in Reach(n) : \E g \in Called({f}) \cap DOMAIN CallTable : r \in ReferencesOf(g)
  <2>1. Telling(file, {}) /\ BareReferences(file, {}) = {}
    BY DEF Telling, BareReferences
  <2>2. ClosedBy(Table, BareReferences(file, {}) \cup ReferencesIn(Called({f})))
    BY <1>1, <1>4, <2>1, TableFollowsCalls
  <2>3. ClosedBy(Table, ReferencesIn(Called({f})))
    BY <2>1, <2>2
  <2>4. Table[Bare(n)] \subseteq ReferencesIn(Called({f}))
    BY <1>3, <1>4 DEF ReferencesIn
  <2>5. Reach(n) \subseteq ReferencesIn(Called({f}))
    BY <2>3, <2>4, TableIsFinite, ExpandedIsLeastClosed DEF Reach
  <2> QED
    BY <2>5 DEF ReferencesIn
<1>6. \A g \in Called({f}) \cap DOMAIN CallTable :
        CallTable[g] \subseteq Called({f}) /\ CallTable[g] \subseteq Callees
  BY <1>4 DEF ClosedBy, Callees
<1>7. ASSUME NEW c, c \in Callees, c[1] # 0
      PROVE  Source(c[1]).module # NoModule
  <2>1. c[1] \in Files
    BY <1>1, <1>7, CalleesAre
  <2> QED
    BY <1>1, <2>1, Typed
<1>8. f[2] = n
  OBVIOUS
<1> HIDE DEF f
<1>9. CASE Reach(n) \cap {Bare(m) : m \in marked} # {}
  <2>1. PICK m \in marked : Bare(m) \in Reach(n)
    BY <1>9
  <2>2. PICK g \in Called({f}) \cap DOMAIN CallTable : Bare(m) \in ReferencesOf(g)
    BY <1>5, <2>1
  <2>3. PICK c \in CallTable[g] : TextOf(g[1], c) = m
    BY <1>6, <1>7, <2>2 DEF ReferencesOf, CallReferences, BareReferences, Bare
  <2>4. c \in Called({f})
    BY <1>6, <2>2, <2>3
  <2>5. Justified(file, m)
    BY <2>1
  <2>6. CASE m \in DirectMarks(file)
    <3>1. TouchesEffects(c) \/ TouchesEffects(g)
      BY <1>1, <2>3, <2>6, CalledMarkTouches
    <3>2. TrulyEffectful(f)
      BY <1>1, <2>2, <2>4, <3>1, EffectsPropagate
    <3> QED
      BY <1>3, <1>8, <3>2 DEF Justified
  <2>7. CASE \E k \in DOMAIN CallTable : k[2] = m /\ TrulyEffectful(k)
    <3>1. PICK k \in DOMAIN CallTable : k[2] = m /\ TrulyEffectful(k)
      BY <2>7
    <3>2. k = <<k[1], k[2]>> /\ k[1] \in Files /\ k[2] \in FunctionNames(k[1])
      BY CallingFunctions
    <3>3. Telling(g[1], CallTable[g])
      BY Distinct
    <3>4. c = <<k[1], TextOf(g[1], c)>>
      BY <2>3, <3>1, <3>2, <3>3 DEF Telling
    <3>5. c = k
      BY <2>3, <3>1, <3>2, <3>4
    <3>6. TrulyEffectful(f)
      BY <1>1, <2>4, <3>1, <3>5, EffectsPropagate
    <3> QED
      BY <1>3, <1>8, <3>6 DEF Justified
  <2> QED
    BY <2>5, <2>6, <2>7 DEF Justified
<1>10. CASE ReachedEffects(n) # {}
  <2>1. PICK r \in Reach(n) \cap DOMAIN effects : effects[r] # {}
    BY <1>10 DEF ReachedEffects
  <2>2. PICK i \in Files : r[1] = Source(i).module /\ effects[r] = Evidence(i, r[2])
    BY <2>1 DEF TInv, EffectsAreEvidence
  <2>3. Source(i).module # NoModule
    BY <1>1, Typed
  <2>4. PICK g \in Called({f}) \cap DOMAIN CallTable : r \in ReferencesOf(g)
    BY <1>5, <2>1
  <2>5. PICK c \in CallTable[g] : r = <<Source(c[1]).module, SymbolName(c)>> /\ c[1] # 0
    BY <2>2, <2>3, <2>4 DEF ReferencesOf, CallReferences, BareReferences, Bare
  <2>6. c \in Called({f}) /\ c = <<c[1], c[2]>> /\ c[1] \in Files
    BY <1>1, <1>6, <2>4, <2>5, CalleesAre
  <2>7. c[1] = i /\ r[2] = SymbolName(c)
    <3>1. Source(c[1]).module = Source(i).module
      BY <2>2, <2>5
    <3> QED
      BY <2>5, <2>6, <3>1, Distinct DEF DistinctModules
  <2>8. SymbolName(c) \in FunctionNames(i)
    <3>1. PICK e \in EffectEvents(i) : Enclosing(e) = SymbolName(c)
      BY <2>1, <2>2, <2>7 DEF Evidence
    <3>2. SymbolName(c) \in {c[2], "default"}
      BY DEF SymbolName
    <3>3. Enclosing(e) \in {TextOf(g[1], c), c[2], "default"}
      BY <3>1, <3>2
    <3> QED
      BY <2>4, <3>1, <3>3, Distinct
  <2>9. SymbolName(c) = c[2]
    <3>1. c[2] \in Source(i).defaults => "default" \notin FunctionNames(i)
      BY Distinct
    <3> QED
      BY <2>7, <2>8, <3>1 DEF SymbolName
  <2>10. c \in DOMAIN CallTable /\ Evidence(c[1], c[2]) # {}
    <3>1. c = <<i, c[2]>>
      BY <2>6, <2>7
    <3>2. c[2] \in FunctionNames(i)
      BY <2>8, <2>9
    <3>3. c \in DOMAIN CallTable
      BY <3>1, <3>2, CallingFunctions
    <3> QED
      BY <2>1, <2>2, <2>7, <2>9, <3>3
  <2>11. TrulyEffectful(f)
    BY <1>1, <2>6, <2>10, EffectsPropagate DEF TouchesEffects
  <2> QED
    BY <1>3, <1>8, <2>11 DEF Justified
<1> QED
  BY <1>9, <1>10 DEF Triggers

\* The marks hold the functions of file i that call, through functions of the file, an
\* effectful function of another file that is known by its name.
FindsImports(i, marks) ==
  \A h \in FunctionNames(i) \ Source(i).quoted :
    LET own == [f \in {g \in DOMAIN CallTable : g[1] = i} |-> CallTable[f]]
        foreign == {f \in DOMAIN CallTable : f[1] # i}
    IN  (\E g \in foreign \cap Expanded(own, {<<i, h>>}) :
           Resolves(i, g[1]) /\ HasEffect(g) /\ KnownByName(g)) => h \in marks

\* The loop does not stop before.
LEMMA SettledFindsImports ==
  ASSUME TInv, DistinctModules, Settled
  PROVE  FindsImports(file, marked)
<1> DEFINE own == [f \in {g \in DOMAIN CallTable : g[1] = file} |-> CallTable[f]]
<1> SUFFICES ASSUME NEW h \in FunctionNames(file), h \notin Source(file).quoted,
                    NEW g \in DOMAIN CallTable,
                    g \in Expanded(own, {<<file, h>>}), g[1] # file,
                    Resolves(file, g[1]), HasEffect(g), KnownByName(g),
                    h \notin marked
             PROVE  FALSE
  BY DEF FindsImports
<1>1. program \in Programs /\ file \in Files /\ file \in Owned /\ phase = "expand"
  BY DEF TInv, IInv, TypeOK, Settled
<1>2. IsFiniteSet(DOMAIN own)
  <2>1. DOMAIN own \subseteq DOMAIN CallTable
    OBVIOUS
  <2> HIDE DEF own
  <2> QED
    BY <1>1, <2>1, FinitelyManyFunctions, FS_Subset
<1>3. \A n \in FunctionNames(file) :
        Bare(n) \in DOMAIN tables[file] /\ tables[file][Bare(n)] = <<"file", file, n>>
  BY <1>1 DEF TInv, OwnTables, Parsed
<1>4. \A n \in FunctionNames(file) :
        /\ Bare(n) \in DOMAIN Table
        /\ \A d \in CallTable[<<file, n>>] : \E some :
             d \in some /\ CallReferences(file, some) \subseteq Table[Bare(n)]
  <2>1. \A k : Walked(file, k)
    BY <1>1 DEF Walked, Merged, Owned
  <2> QED
    BY <1>1, <1>3, <2>1, EntryHoldsCalls
<1>5. Table[Bare(h)] \subseteq Reach(h) /\ ClosedBy(Table, Reach(h))
  BY TableIsFinite, ExpandedIsLeastClosed DEF Reach
<1> DEFINE S == {c \in Callees :
                   \/ c = <<file, h>>
                   \/ /\ c[1] = file => Bare(c[2]) \in Reach(h)
                      /\ c[1] \notin {0, file} /\ Resolves(file, c[1]) =>
                           <<Source(c[1]).module, SymbolName(c)>> \in Reach(h)}
<1>6. <<file, h>> \in S
  <2>1. <<file, h>> \in DOMAIN CallTable
    BY <1>1, CallingFunctions
  <2> QED
    BY <2>1 DEF Callees
<1>7. ClosedBy(own, S)
  <2> SUFFICES ASSUME NEW f \in S, f \in DOMAIN CallTable, f[1] = file
               PROVE  CallTable[f] \subseteq S
    BY DEF ClosedBy
  <2>1. PICK n \in FunctionNames(file) : f = <<file, n>>
    BY CallingFunctions
  <2>2. n = h \/ Bare(n) \in Reach(h)
    BY <2>1
  <2>3. Table[Bare(n)] \subseteq Reach(h)
    BY <1>4, <1>5, <2>2 DEF ClosedBy
  <2>4. ASSUME NEW d \in CallTable[f]
        PROVE  d \in S
    <3>1. PICK some : d \in some /\ CallReferences(file, some) \subseteq Reach(h)
      BY <1>4, <2>1, <2>3
    <3>2. /\ d[1] = file => Bare(d[2]) \in Reach(h)
          /\ d[1] \notin {0, file} /\ Resolves(file, d[1]) =>
               <<Source(d[1]).module, SymbolName(d)>> \in Reach(h)
      BY <1>1, <3>1, ReferencesAreOfCalls, Typed
    <3>3. d \in Callees
      BY DEF Callees
    <3> QED
      BY <3>2, <3>3
  <2> QED
    BY <2>4
<1> HIDE DEF own, S
<1>8. g \in S
  BY <1>2, <1>6, <1>7, ExpandedIsLeastClosed
<1>9. g[1] \in Files /\ g[1] # 0
  <2>1. g[1] \in Files /\ Files = 1 .. Len(program.sources)
    BY <1>1, Numbered, CallingFunctions
  <2> QED
    BY <2>1
<1> DEFINE r == <<Source(g[1]).module, g[2]>>
<1>10. r \in Reach(h)
  <2>1. SymbolName(g) = g[2]
    BY DEF SymbolName, KnownByName
  <2> QED
    BY <1>8, <1>9, <2>1 DEF S
<1>11. r \in DOMAIN effects /\ effects[r] = Evidence(g[1], g[2])
  BY <1>1, <1>9 DEF TInv, EffectsAreEvidence, Collected
<1>12. Evidence(g[1], g[2]) # {}
  BY <1>1, EffectsAreMarked
<1> HIDE DEF r
<1>13. ReachedEffects(h) # {}
  BY <1>10, <1>11, <1>12 DEF ReachedEffects
<1>14. h \in Candidates
  BY <1>1, <1>3, Typed DEF Candidates
<1> QED
  BY <1>13, <1>14 DEF Settled, Triggers

---------------------------------------------------------------------------
(* What the facts record.                                                  *)

SoundChecks(i, found) ==
  \A k \in DOMAIN found : /\ found[k].references \subseteq ReferenceOf(i, k)
                          /\ Follows(i, k, found[k].references)

JustifiedMarks(i, marks) == \A n \in marks : Justified(i, n)

\* The checks and the marks that are recorded are those of what the files call.
Recorded ==
  /\ DistinctNames =>
       /\ phase \in {"walk", "expand"} => SoundChecks(file, checks)
       /\ phase = "expand" => JustifiedMarks(file, marked)
       /\ \A i \in DOMAIN emitted : /\ SoundChecks(i, emitted[i].checks)
                                    /\ JustifiedMarks(i, emitted[i].marked)
  /\ DistinctModules => \A i \in DOMAIN emitted : FindsImports(i, emitted[i].marked)

\* What the files call makes of a claim does not change.
LEMMA SameClaims ==
  ASSUME program' = program
  PROVE  /\ \A i, k : ReferenceOf(i, k)' = ReferenceOf(i, k)
         /\ \A i, k, references : Follows(i, k, references)' <=> Follows(i, k, references)
         /\ \A i, n : Justified(i, n)' <=> Justified(i, n)
         /\ \A i, marks : FindsImports(i, marks)' <=> FindsImports(i, marks)
<1>1. /\ Owned' = Owned
      /\ \A i : /\ Source(i)' = Source(i) /\ FunctionNames(i)' = FunctionNames(i)
                /\ DirectMarks(i)' = DirectMarks(i)
      /\ \A i, c : TextOf(i, c)' = TextOf(i, c)
      /\ \A i, calls : /\ BareReferences(i, calls)' = BareReferences(i, calls)
                       /\ CallReferences(i, calls)' = CallReferences(i, calls)
      /\ CallTable' = CallTable
      /\ \A i, n : Evidence(i, n)' = Evidence(i, n)
      /\ \A calls : Called(calls)' = Called(calls)
      /\ \A f : (HasEffect(f)' <=> HasEffect(f)) /\ (KnownByName(f)' <=> KnownByName(f))
  BY SameProgram, SameCalls, SameNames
<1>2. \A i, k : CalledFunctions(i, k)' = CalledFunctions(i, k)
  BY <1>1 DEF CalledFunctions
<1>3. \A i, k : ReferenceOf(i, k)' = ReferenceOf(i, k)
  BY <1>1, <1>2 DEF ReferenceOf
<1>4. \A f, i, k : WalkedBefore(f, i, k)' <=> WalkedBefore(f, i, k)
  <2>1. \A e : Enclosing(e)' = Enclosing(e)
    BY DEF Enclosing
  <2> QED
    BY <1>1, <2>1 DEF WalkedBefore
<1>5. \A i, k, references : Follows(i, k, references)' <=> Follows(i, k, references)
  <2>1. \A i, calls : ByName(i, calls)' <=> ByName(i, calls)
    BY <1>1 DEF ByName
  <2> QED
    BY <1>1, <1>2, <1>4, <2>1 DEF Follows
<1>6. \A f : TouchesEffects(f)' <=> TouchesEffects(f)
  BY <1>1 DEF TouchesEffects
<1>7. \A f : TrulyEffectful(f)' <=> TrulyEffectful(f)
  BY <1>1, <1>6 DEF TrulyEffectful
<1>8. \A i, n : Justified(i, n)' <=> Justified(i, n)
  BY <1>1, <1>7 DEF Justified
<1>9. \A i, j : Resolves(i, j)' <=> Resolves(i, j)
  BY <1>1 DEF Resolves
<1>10. \A i, marks : FindsImports(i, marks)' <=> FindsImports(i, marks)
  BY <1>1, <1>9 DEF FindsImports
<1> QED
  BY <1>3, <1>5, <1>8, <1>10

\* Claims that hold of what a step records hold after it.
LEMMA RecordedStep ==
  ASSUME program' = program,
         DistinctNames =>
           /\ phase' \in {"walk", "expand"} => SoundChecks(file', checks')
           /\ phase' = "expand" => JustifiedMarks(file', marked')
           /\ \A i \in DOMAIN emitted' : /\ SoundChecks(i, emitted'[i].checks)
                                         /\ JustifiedMarks(i, emitted'[i].marked),
         DistinctModules => \A i \in DOMAIN emitted' : FindsImports(i, emitted'[i].marked)
  PROVE  Recorded'
<1>1. \A i, found : SoundChecks(i, found)' <=> SoundChecks(i, found)
  BY SameClaims DEF SoundChecks
<1>2. \A i, marks : JustifiedMarks(i, marks)' <=> JustifiedMarks(i, marks)
  BY SameClaims DEF JustifiedMarks
<1>3. \A i, marks : FindsImports(i, marks)' <=> FindsImports(i, marks)
  BY SameClaims
<1>4. (DistinctNames' <=> DistinctNames) /\ (DistinctModules' <=> DistinctModules)
  BY SameNames, SameCalls
<1>5. /\ (phase \in {"walk", "expand"} => SoundChecks(file, checks))' <=>
           (phase' \in {"walk", "expand"} => SoundChecks(file', checks'))
      /\ (phase = "expand" => JustifiedMarks(file, marked))' <=>
           (phase' = "expand" => JustifiedMarks(file', marked'))
  BY SameClaims DEF SoundChecks, JustifiedMarks
<1>6. (\A i \in DOMAIN emitted : /\ SoundChecks(i, emitted[i].checks)
                                 /\ JustifiedMarks(i, emitted[i].marked))' <=>
         \A i \in DOMAIN emitted' : /\ SoundChecks(i, emitted'[i].checks)
                                    /\ JustifiedMarks(i, emitted'[i].marked)
  BY SameClaims DEF SoundChecks, JustifiedMarks
<1>7. (\A i \in DOMAIN emitted : FindsImports(i, emitted[i].marked))' <=>
         \A i \in DOMAIN emitted' : FindsImports(i, emitted'[i].marked)
  BY SameClaims DEF FindsImports
<1> QED
  BY <1>4, <1>5, <1>6, <1>7 DEF Recorded

\* Every step records what the files call.
LEMMA RecordedInv == TInv /\ Recorded /\ [Next]_vars => Recorded'
<1> SUFFICES ASSUME TInv, Recorded, [Next]_vars PROVE Recorded'
  OBVIOUS
<1>1. program' = program
  BY DEF Next, ParseSourceFacts, CollectLocalCallGraph, UniqueGlobalFunctionReferences, MergeTables,
     RecordEffect, RecordRunner, RecordCheck, CollectNodeFactsEnds, ExpandEffectfulIdentifier, EmitFact, vars
<1>2. /\ DistinctNames =>
           /\ phase \in {"walk", "expand"} => SoundChecks(file, checks)
           /\ phase = "expand" => JustifiedMarks(file, marked)
           /\ \A i \in DOMAIN emitted : /\ SoundChecks(i, emitted[i].checks)
                                        /\ JustifiedMarks(i, emitted[i].marked)
      /\ DistinctModules => \A i \in DOMAIN emitted : FindsImports(i, emitted[i].marked)
  BY DEF Recorded
<1>3. CASE emitted' = emitted /\ phase' \notin {"walk", "expand"}
  BY <1>1, <1>2, <1>3, RecordedStep
<1>4. CASE ParseSourceFacts \/ CollectLocalCallGraph \/ UniqueGlobalFunctionReferences
  BY <1>3, <1>4 DEF ParseSourceFacts, CollectLocalCallGraph, UniqueGlobalFunctionReferences
<1>5. CASE MergeTables
  <2>1. emitted' = emitted /\ phase' = "walk" /\ checks' = Empty
    BY <1>5 DEF MergeTables
  <2>2. SoundChecks(file', checks')
    BY <2>1 DEF SoundChecks, Empty
  <2> QED
    BY <1>1, <1>2, <2>1, <2>2, RecordedStep
<1>6. CASE RecordEffect \/ RecordRunner
  <2>1. UNCHANGED <<phase, file, checks, emitted>> /\ phase = "walk"
    BY <1>6 DEF RecordEffect, RecordRunner, Walking
  <2> QED
    BY <1>1, <1>2, <2>1, RecordedStep
<1>7. CASE RecordCheck
  <2> DEFINE check == PropertyCheck(Event)
             new == [k \in {pos} |-> check]
  <2>1. /\ phase = "walk" /\ pos \in DOMAIN Source(file).walk /\ Event.kind = "check"
        /\ UNCHANGED <<phase, file, emitted>> /\ checks' = Overlay(new, checks)
    BY <1>7 DEF RecordCheck, Walking
  <2>2. DistinctNames => /\ check.references \subseteq ReferenceOf(file, pos)
                         /\ Follows(file, pos, check.references)
    BY <2>1, CheckIsOfCalls, CheckFollowsWalked
  <2> HIDE DEF check
  <2>3. DistinctNames => SoundChecks(file, checks')
    BY <1>2, <2>1, <2>2 DEF SoundChecks, Overlay
  <2> QED
    BY <1>1, <1>2, <2>1, <2>3, RecordedStep
<1>8. CASE CollectNodeFactsEnds
  <2>1. /\ phase = "walk" /\ phase' = "expand" /\ UNCHANGED <<file, checks, marked, emitted>>
        /\ pos \notin DOMAIN Source(file).walk
    BY <1>8 DEF CollectNodeFactsEnds
  <2>2. marked = DirectMarks(file)
    BY <2>1, WalkMarks DEF TInv, IInv, TypeOK
  <2>3. JustifiedMarks(file, marked)
    BY <2>2 DEF JustifiedMarks, Justified
  <2> QED
    BY <1>1, <1>2, <2>1, <2>3, RecordedStep
<1>9. CASE \E n \in Identifiers(file) : ExpandEffectfulIdentifier(n)
  <2>1. PICK n \in Candidates : /\ Triggers(n, marked) /\ marked' = marked \cup {n}
                                /\ phase = "expand" /\ UNCHANGED <<phase, file, checks, emitted>>
    BY <1>9 DEF ExpandEffectfulIdentifier
  <2>2. DistinctNames => Justified(file, n)
    BY <1>2, <2>1, TriggeredIsJustified DEF JustifiedMarks, Candidates
  <2>3. DistinctNames => JustifiedMarks(file, marked')
    BY <1>2, <2>1, <2>2 DEF JustifiedMarks
  <2> QED
    BY <1>1, <1>2, <2>1, <2>3, RecordedStep
<1>10. CASE EmitFact
  <2> DEFINE fact == [marked |-> marked, evidence |-> evidence, checks |-> checks]
             new == [i \in {file} |-> fact]
  <2>1. /\ Settled /\ phase = "expand" /\ phase' \in {"merge", "done"}
        /\ emitted' = Overlay(new, emitted)
    BY <1>10 DEF EmitFact, Settled
  <2>2. DistinctNames => SoundChecks(file, checks) /\ JustifiedMarks(file, marked)
    BY <1>2, <2>1
  <2>3. DistinctModules => FindsImports(file, marked)
    BY <2>1, SettledFindsImports
  <2>4. fact.marked = marked /\ fact.checks = checks
    OBVIOUS
  <2> HIDE DEF fact
  <2>5. \A i \in DOMAIN emitted' :
          \/ i = file /\ emitted'[i] = fact
          \/ i \in DOMAIN emitted /\ emitted'[i] = emitted[i]
    BY <2>1 DEF Overlay
  <2>6. DistinctNames => \A i \in DOMAIN emitted' : /\ SoundChecks(i, emitted'[i].checks)
                                                    /\ JustifiedMarks(i, emitted'[i].marked)
    BY <1>2, <2>2, <2>4, <2>5
  <2>7. DistinctModules => \A i \in DOMAIN emitted' : FindsImports(i, emitted'[i].marked)
    BY <1>2, <2>3, <2>4, <2>5
  <2> QED
    BY <1>1, <2>1, <2>6, <2>7, RecordedStep
<1>11. CASE UNCHANGED vars
  BY <1>1, <1>2, <1>11, RecordedStep DEF vars
<1> QED
  BY <1>4, <1>5, <1>6, <1>7, <1>8, <1>9, <1>10, <1>11 DEF Next

\* Before anything is parsed, nothing is claimed.
LEMMA InitRecorded == Init => TInv /\ Recorded
<1> SUFFICES ASSUME Init PROVE TInv /\ Recorded
  OBVIOUS
<1>1. IInv
  BY InitIInv
<1>2. /\ phase = "parse" /\ file = 1 /\ heap = Empty /\ tables = [i \in Files |-> Empty]
      /\ globals = Empty /\ graph = Empty /\ effects = Empty /\ emitted = Empty
      /\ program \in Programs
  BY DEF Init
<1>3. DOMAIN Empty = {} /\ IsFiniteSet(DOMAIN Empty)
  BY FS_EmptySet DEF Empty
<1>4. OwnTables /\ CompleteSets
  BY <1>2 DEF OwnTables, CompleteSets, Parsed, Owned
<1>5. FiniteTables
  BY <1>2, <1>3 DEF FiniteTables
<1>6. SoundTables
  BY <1>2, <1>3 DEF SoundTables, SoundTable
<1>7. CompleteTables
  BY <1>2, <1>3, Numbered DEF CompleteTables
<1>8. EffectsAreEvidence
  BY <1>2, <1>3 DEF EffectsAreEvidence, Collected
<1>9. Recorded
  BY <1>2, <1>3 DEF Recorded
<1> QED
  BY <1>1, <1>4, <1>5, <1>6, <1>7, <1>8, <1>9 DEF TInv

\* All of this holds throughout.
LEMMA RecordedInvariance == Spec => [](TInv /\ Recorded)
<1>1. Init => TInv /\ Recorded
  BY InitRecorded
<1>2. TInv /\ Recorded /\ [Next]_vars => (TInv /\ Recorded)'
  <2> SUFFICES ASSUME TInv, Recorded, [Next]_vars PROVE TInv' /\ Recorded'
    OBVIOUS
  <2>1. IInv' /\ OwnTables' /\ FiniteTables'
    BY StepIInv, OwnTablesInv, FiniteTablesInv DEF TInv
  <2>2. SoundTables' /\ CompleteTables' /\ CompleteSets' /\ EffectsAreEvidence'
    BY SoundTablesInv, CompleteTablesInv, CompleteSetsInv, EffectsAreEvidenceInv DEF TInv
  <2>3. Recorded'
    BY RecordedInv
  <2> QED
    BY <2>1, <2>2, <2>3 DEF TInv
<1> QED
  BY <1>1, <1>2, PTL DEF Spec

\* Where names are distinct, the facts of a file report no function as effectful (the
\* marks of expandEffectfulIdentifiers, main.ts) that calls nothing effectful, through
\* whatever tables that files share the mark came.
THEOREM JustifiedMarksOnly == Spec => []MarksAreJustified
<1>1. Recorded => MarksAreJustified
  BY DEF Recorded, MarksAreJustified, JustifiedMarks, Justified
<1> QED
  BY <1>1, RecordedInvariance, PTL

\* The facts of a file report each function (but a method with its name in quotes) that
\* calls, through functions of the file, an effectful function of another file: one that
\* its file resolves and that is known by its name, no default export among them
\* (localCallableReference, main.ts), whatever the caller calls it and whatever else the
\* tables hold under the same names (collectLocalCallGraph, main.ts).
THEOREM ImportsAreFound == Spec => []ImportedEffectsAreFound
<1>1. Recorded => ImportedEffectsAreFound
  BY DEF Recorded, ImportedEffectsAreFound, FindsImports
<1> QED
  BY <1>1, RecordedInvariance, PTL

\* Where names are distinct, a property check is credited only with what the property
\* calls (propertyCheckForCall, main.ts).
THEOREM ChecksNameOnlyCalls == Spec => []ChecksNameTheirCalls
<1>1. Recorded => ChecksNameTheirCalls
  BY DEF Recorded, ChecksNameTheirCalls, SoundChecks
<1> QED
  BY <1>1, RecordedInvariance, PTL

\* Where names are distinct, a property check is credited with all that the property
\* calls through helpers under the root, as far as the walk had met their effect runners and
\* if the property and the helpers call all by its name, not by one that an import gives it
\* (recordCallableReference, main.ts).
THEOREM ChecksFollowHelpers == Spec => []ChecksFollowWalkedHelpers
<1>1. Recorded => ChecksFollowWalkedHelpers
  BY DEF Recorded, ChecksFollowWalkedHelpers, SoundChecks, Follows, FollowsAllCalls
<1> QED
  BY <1>1, RecordedInvariance, PTL

---------------------------------------------------------------------------
(* What the walk leaves behind: the inductive invariant, beside that of    *)
(* the adapter.                                                            *)

\* The sequences of a check found at position k of file i are of inputs that generators
\* of sequences control.
Controlled(i, k, sequences) ==
  \A s \in sequences : \E j \in DOMAIN Source(i).walk[k].inputs :
    s.input = Source(i).walk[k].inputs[j].name /\ ControlsSequence(Source(i).walk[k], j)

\* What stands for the calls of a check's callback and for those of the functions that it
\* leads to.
TracedReferences(i, k) ==
  BareReferences(i, TracedCalls(i, k)) \cup ReferencesIn(Called(TracedCalls(i, k)))

\* They mention what the check's callback leads to, where names are distinct.
Traced(i, k, sequences) == DistinctNames /\ Telling(i, TracedCalls(i, k)) =>
  \A s \in sequences : s.operations \cup s.assertions \subseteq TracedReferences(i, k)

\* What is found at position k of file i is a check with such sequences.
FoundChecks(i, found) ==
  \A k \in DOMAIN found :
    /\ k \in DOMAIN Source(i).walk /\ Source(i).walk[k].kind = "check"
    /\ Controlled(i, k, found[k].operationSequences)
    /\ Traced(i, k, found[k].operationSequences)

\* Evidence stands in what has a name in the file, or nowhere.
Enclosed(i, found) == \A e \in found : e.enclosing \in Names(i) \cup {NoFunction}

\* The facts of file i are whole: they have evidence if the file has effects.
Whole(i, fact) ==
  /\ FoundChecks(i, fact.checks)
  /\ Enclosed(i, fact.evidence)
  /\ fact.marked \subseteq Names(i)
  /\ EffectEvents(i) # {} => fact.evidence # {}

\* The walk has met an effect of the file.
MetEffects ==
  \E k \in DOMAIN Source(file).walk :
    Source(file).walk[k] \in EffectEvents(file) /\ (phase = "walk" => k < pos)

Finished(i) == phase = "done" \/ (phase \in {"merge", "walk", "expand"} /\ i < file)

Kept ==
  /\ phase \in {"walk", "expand"} =>
       FoundChecks(file, checks) /\ Enclosed(file, evidence) /\ (MetEffects => evidence # {})
  /\ \A i \in DOMAIN emitted : Whole(i, emitted[i])
  /\ \A i \in Owned : Finished(i) => i \in DOMAIN emitted

\* What is claimed of a fact does not change.
LEMMA SameFacts ==
  ASSUME program' = program
  PROVE  /\ \A i, found : FoundChecks(i, found)' <=> FoundChecks(i, found)
         /\ \A i, found : Enclosed(i, found)' <=> Enclosed(i, found)
         /\ \A i, fact : Whole(i, fact)' <=> Whole(i, fact)
         /\ \A i : EffectEvents(i)' = EffectEvents(i) /\ Source(i)' = Source(i)
         /\ Owned' = Owned
<1>1. /\ Files' = Files /\ Owned' = Owned
      /\ \A i : /\ Source(i)' = Source(i) /\ FunctionNames(i)' = FunctionNames(i)
                /\ DirectMarks(i)' = DirectMarks(i)
      /\ \A i, kind : Events(i, kind)' = Events(i, kind)
      /\ \A i, c : TextOf(i, c)' = TextOf(i, c)
      /\ \A i, calls : BareReferences(i, calls)' = BareReferences(i, calls)
      /\ CallTable' = CallTable
      /\ \A calls : Called(calls)' = Called(calls)
      /\ \A f : ReferencesOf(f)' = ReferencesOf(f)
      /\ DistinctNames' <=> DistinctNames
  BY SameProgram, SameCalls, SameNames
<1>2. \A i : EffectEvents(i)' = EffectEvents(i)
  BY <1>1 DEF EffectEvents
<1>3. \A i : Names(i)' = Names(i)
  BY <1>1, <1>2 DEF Names
<1>4. \A i, k : TracedCalls(i, k)' = TracedCalls(i, k)
  BY <1>1 DEF TracedCalls
<1>5. \A i, calls : Telling(i, calls)' <=> Telling(i, calls)
  BY SameCalls
<1>6. \A i, k : TracedReferences(i, k)' = TracedReferences(i, k)
  BY <1>1, <1>4 DEF TracedReferences, ReferencesIn
<1>7. \A i, k, sequences : Controlled(i, k, sequences)' <=> Controlled(i, k, sequences)
  BY <1>1 DEF Controlled
<1>8. \A i, k, sequences : Traced(i, k, sequences)' <=> Traced(i, k, sequences)
  BY <1>1, <1>4, <1>5, <1>6 DEF Traced
<1>9. \A i, found : FoundChecks(i, found)' <=> FoundChecks(i, found)
  BY <1>1, <1>7, <1>8 DEF FoundChecks
<1>10. \A i, found : Enclosed(i, found)' <=> Enclosed(i, found)
  BY <1>3 DEF Enclosed
<1>11. \A i, fact : Whole(i, fact)' <=> Whole(i, fact)
  BY <1>2, <1>3, <1>9, <1>10 DEF Whole
<1> QED
  BY <1>1, <1>2, <1>9, <1>10, <1>11

\* Claims that hold of what a step leaves behind hold after it.
LEMMA KeptStep ==
  ASSUME program' = program,
         phase' \in {"walk", "expand"} =>
           /\ FoundChecks(file', checks') /\ Enclosed(file', evidence')
           /\ \A k \in DOMAIN Source(file').walk :
                Source(file').walk[k] \in EffectEvents(file') /\ (phase' = "walk" => k < pos')
                  => evidence' # {},
         \A i \in DOMAIN emitted' : Whole(i, emitted'[i]),
         \A i \in Owned : phase' = "done" \/ (phase' \in {"merge", "walk", "expand"} /\ i < file')
           => i \in DOMAIN emitted'
  PROVE  Kept'
<1>1. (FoundChecks(file, checks) /\ Enclosed(file, evidence))' <=>
        FoundChecks(file', checks') /\ Enclosed(file', evidence')
  BY SameFacts
<1>2. (MetEffects => evidence # {})' <=>
        \A k \in DOMAIN Source(file').walk :
          Source(file').walk[k] \in EffectEvents(file') /\ (phase' = "walk" => k < pos')
            => evidence' # {}
  BY SameFacts DEF MetEffects
<1>3. (\A i \in DOMAIN emitted : Whole(i, emitted[i]))' <=>
        \A i \in DOMAIN emitted' : Whole(i, emitted'[i])
  BY SameFacts
<1>4. (\A i \in Owned : Finished(i) => i \in DOMAIN emitted)' <=>
        \A i \in Owned : phase' = "done" \/ (phase' \in {"merge", "walk", "expand"} /\ i < file')
           => i \in DOMAIN emitted'
  BY SameFacts DEF Finished
<1> QED
  BY <1>1, <1>2, <1>3, <1>4 DEF Kept

\* What a check finds: sequences of inputs that generators control, with what the
\* check's callback leads to.
LEMMA CheckIsFound ==
  ASSUME TInv, phase = "walk", pos \in DOMAIN Source(file).walk, Event.kind = "check"
  PROVE  /\ Controlled(file, pos, PropertyCheck(Event).operationSequences)
         /\ Traced(file, pos, PropertyCheck(Event).operationSequences)
<1> DEFINE e == Source(file).walk[pos]
           calls == TracedCalls(file, pos)
           sequences == PropertyCheck(Event).operationSequences
<1>1. program \in Programs /\ file \in Files /\ Event = e
  BY DEF TInv, IInv, TypeOK, Event
<1>2. sequences = OperationSequences(e)
  BY <1>1 DEF PropertyCheck
<1>3. \A s \in sequences : \E j \in DOMAIN e.inputs :
        /\ s.input = e.inputs[j].name /\ ControlsSequence(e, j)
        /\ s.operations = Expanded(Table, BareReferences(file, e.inputs[j].calls))
        /\ s.assertions = Expanded(Table, BareReferences(file, e.body))
  BY <1>2 DEF OperationSequences
<1>4. /\ e.body \subseteq calls
      /\ \A j \in DOMAIN e.inputs : e.inputs[j].calls \subseteq calls
  BY DEF TracedCalls
<1> HIDE DEF sequences, e, calls
<1>5. ASSUME DistinctNames, Telling(file, calls), NEW some, some \subseteq calls
      PROVE  Expanded(Table, BareReferences(file, some)) \subseteq TracedReferences(file, pos)
  BY <1>1, <1>5, ExpansionFollowsCalls DEF TracedReferences, calls
<1>6. ASSUME DistinctNames, Telling(file, calls), NEW s \in sequences
      PROVE  s.operations \cup s.assertions \subseteq TracedReferences(file, pos)
  <2>1. PICK j \in DOMAIN e.inputs :
          /\ s.operations = Expanded(Table, BareReferences(file, e.inputs[j].calls))
          /\ s.assertions = Expanded(Table, BareReferences(file, e.body))
    BY <1>3
  <2>2. s.operations \subseteq TracedReferences(file, pos)
    BY <1>4, <1>5, <1>6, <2>1
  <2>3. s.assertions \subseteq TracedReferences(file, pos)
    BY <1>4, <1>5, <1>6, <2>1
  <2> QED
    BY <2>2, <2>3
<1>7. Controlled(file, pos, sequences)
  BY <1>3 DEF Controlled, e
<1>8. Traced(file, pos, sequences)
  BY <1>6 DEF Traced, calls
<1> QED
  BY <1>7, <1>8 DEF sequences

\* Every step keeps what the walk has found.
LEMMA KeptInv == TInv /\ Kept /\ [Next]_vars => Kept'
<1> SUFFICES ASSUME TInv, Kept, [Next]_vars PROVE Kept'
  OBVIOUS
<1>1. program' = program
  BY DEF Next, ParseSourceFacts, CollectLocalCallGraph, UniqueGlobalFunctionReferences, MergeTables,
     RecordEffect, RecordRunner, RecordCheck, CollectNodeFactsEnds, ExpandEffectfulIdentifier, EmitFact, vars
<1>2. /\ \A i \in DOMAIN emitted : Whole(i, emitted[i])
      /\ \A i \in Owned : phase = "done" \/ (phase \in {"merge", "walk", "expand"} /\ i < file)
           => i \in DOMAIN emitted
  BY DEF Kept, Finished
<1>3. phase \in {"walk", "expand"} =>
        /\ FoundChecks(file, checks) /\ Enclosed(file, evidence)
        /\ \A k \in DOMAIN Source(file).walk :
             Source(file).walk[k] \in EffectEvents(file) /\ (phase = "walk" => k < pos)
               => evidence # {}
  BY DEF Kept, MetEffects
<1>4. /\ file \in Files /\ Owned \subseteq Files
      /\ \A i \in Files : DOMAIN Source(i).walk = 1 .. Len(Source(i).walk) /\ Len(Source(i).walk) \in Nat
      /\ phase \in {"walk", "expand"} => pos \in 1 .. Len(Source(file).walk) + 1
                                        /\ marked \subseteq Names(file)
      /\ phase \in {"globals", "merge", "walk", "expand"} => file \in Owned
      /\ phase = "globals" => file = 1
      /\ program.owned \in Nat /\ Owned = 1 .. program.owned
  BY Numbered DEF TInv, IInv, TypeOK, Owned
<1>5. CASE ParseSourceFacts \/ CollectLocalCallGraph
  <2>1. emitted' = emitted /\ phase' \in {"parse", "graph", "globals"}
    BY <1>5 DEF ParseSourceFacts, CollectLocalCallGraph
  <2> QED
    BY <1>1, <1>2, <2>1, KeptStep
<1>6. CASE UniqueGlobalFunctionReferences
  <2>1. emitted' = emitted /\ phase' = "merge" /\ file' = 1
    BY <1>4, <1>6 DEF UniqueGlobalFunctionReferences
  <2>2. \A i \in Owned : ~ i < file'
    BY <1>4, <2>1
  <2> QED
    BY <1>1, <1>2, <2>1, <2>2, KeptStep
<1>7. CASE MergeTables
  <2>1. /\ phase = "merge" /\ emitted' = emitted /\ phase' = "walk" /\ file' = file
        /\ checks' = Empty /\ evidence' = {} /\ pos' = 1
    BY <1>7 DEF MergeTables
  <2>2. FoundChecks(file', checks') /\ Enclosed(file', evidence')
    BY <2>1 DEF FoundChecks, Enclosed, Empty
  <2>3. \A k \in DOMAIN Source(file').walk : ~ k < pos'
    BY <1>4, <2>1
  <2> QED
    BY <1>1, <1>2, <2>1, <2>2, <2>3, KeptStep
<1>8. CASE RecordEffect
  <2>1. /\ phase = "walk" /\ UNCHANGED <<phase, file, checks, emitted>> /\ pos' = pos + 1
        /\ pos \in DOMAIN Source(file).walk /\ Event.kind = "effect"
        /\ \/ /\ Event \in EffectEvents(file)
              /\ evidence' = evidence \cup {[reference |-> Bare(Event.reference),
                                             enclosing |-> Enclosing(Event),
                                             source |-> Event.source]}
           \/ Event \notin EffectEvents(file) /\ evidence' = evidence
    BY <1>8 DEF RecordEffect, Walking
  <2>2. Event \in EffectEvents(file) => Enclosing(Event) \in Names(file) \cup {NoFunction}
    BY DEF Names
  <2>3. \A e \in evidence' : e \in evidence \/ (Event \in EffectEvents(file) /\ e.enclosing = Enclosing(Event))
    BY <2>1
  <2>4. Enclosed(file', evidence')
    BY <1>3, <2>1, <2>2, <2>3 DEF Enclosed
  <2>5. ASSUME NEW k \in DOMAIN Source(file).walk, Source(file).walk[k] \in EffectEvents(file), k < pos'
        PROVE  evidence' # {}
    <3>1. k < pos \/ k = pos
      BY <1>4, <2>1, <2>5
    <3>2. CASE k < pos
      BY <1>3, <2>1, <2>5, <3>2
    <3>3. CASE k = pos
      BY <2>1, <2>5, <3>3 DEF Event
    <3> QED
      BY <3>1, <3>2, <3>3
  <2> QED
    BY <1>1, <1>2, <1>3, <2>1, <2>4, <2>5, KeptStep
<1>9. CASE RecordRunner \/ RecordCheck
  <2>1. /\ phase = "walk" /\ UNCHANGED <<phase, file, evidence, emitted>> /\ pos' = pos + 1
        /\ pos \in DOMAIN Source(file).walk
        /\ \/ Event.kind = "runner" /\ checks' = checks
           \/ /\ Event.kind = "check"
              /\ checks' = Overlay([k \in {pos} |-> PropertyCheck(Event)], checks)
    <3>1. CASE RecordRunner
      BY <3>1 DEF RecordRunner, Walking
    <3>2. CASE RecordCheck
      <4> DEFINE new == Overlay([k \in {pos} |-> PropertyCheck(Event)], checks)
      <4>1. checks' = new
        BY <3>2 DEF RecordCheck
      <4> HIDE DEF new
      <4>2. /\ phase = "walk" /\ UNCHANGED <<phase, file, evidence, emitted>> /\ pos' = pos + 1
            /\ pos \in DOMAIN Source(file).walk /\ Event.kind = "check"
        BY <3>2 DEF RecordCheck, Walking
      <4> QED
        BY <4>1, <4>2 DEF new
    <3> QED
      BY <1>9, <3>1, <3>2
  <2>2. FoundChecks(file', checks')
    <3> DEFINE check == PropertyCheck(Event)
    <3>1. Event.kind = "check" => /\ Controlled(file, pos, check.operationSequences)
                                  /\ Traced(file, pos, check.operationSequences)
      BY <2>1, CheckIsFound
    <3>2. \A k \in DOMAIN checks' :
            \/ k \in DOMAIN checks /\ checks'[k] = checks[k]
            \/ k = pos /\ checks'[k] = check /\ Event.kind = "check"
      BY <2>1 DEF Overlay
    <3>3. Event = Source(file).walk[pos]
      BY DEF Event
    <3> HIDE DEF check
    <3> QED
      BY <1>3, <2>1, <3>1, <3>2, <3>3 DEF FoundChecks
  <2>3. \A k \in DOMAIN Source(file).walk : Source(file).walk[k] \in EffectEvents(file) => k # pos
    BY <2>1 DEF EffectEvents, Events, Event
  <2>4. \A k \in DOMAIN Source(file).walk :
          Source(file).walk[k] \in EffectEvents(file) /\ k < pos' => k < pos
    BY <1>4, <2>1, <2>3
  <2> QED
    BY <1>1, <1>2, <1>3, <2>1, <2>2, <2>4, KeptStep
<1>10. CASE CollectNodeFactsEnds
  <2>1. /\ phase = "walk" /\ phase' = "expand" /\ UNCHANGED <<file, checks, evidence, emitted>>
        /\ pos \notin DOMAIN Source(file).walk
    BY <1>10 DEF CollectNodeFactsEnds
  <2>2. \A k \in DOMAIN Source(file).walk : k < pos
    BY <1>4, <2>1
  <2> QED
    BY <1>1, <1>2, <1>3, <2>1, <2>2, KeptStep
<1>11. CASE \E n \in Identifiers(file) : ExpandEffectfulIdentifier(n)
  <2>1. PICK n \in Identifiers(file) :
          /\ phase = "expand" /\ UNCHANGED <<phase, file, checks, emitted>>
          /\ evidence' = evidence \cup {[reference |-> r, enclosing |-> n, source |-> "expansion"] :
                                          r \in ReachedEffects(n)}
    BY <1>11 DEF ExpandEffectfulIdentifier
  <2>2. n \in Names(file)
    BY DEF Identifiers
  <2>3. Enclosed(file', evidence')
    BY <1>3, <2>1, <2>2 DEF Enclosed
  <2>4. evidence # {} => evidence' # {}
    BY <2>1
  <2> QED
    BY <1>1, <1>2, <1>3, <2>1, <2>3, <2>4, KeptStep
<1>12. CASE EmitFact
  <2> DEFINE fact == [marked |-> marked, evidence |-> evidence, checks |-> checks]
  <2>1. /\ phase = "expand" /\ emitted' = Overlay([i \in {file} |-> fact], emitted)
        /\ \/ file = program.owned /\ phase' = "done"
           \/ phase' = "merge" /\ file' = file + 1
    BY <1>12 DEF EmitFact, Settled
  <2>2. Whole(file, fact)
    <3>1. \A e \in EffectEvents(file) : \E k \in DOMAIN Source(file).walk : e = Source(file).walk[k]
      BY DEF EffectEvents, Events
    <3>2. EffectEvents(file) # {} => evidence # {}
      BY <1>3, <2>1, <3>1
    <3> QED
      BY <1>3, <1>4, <2>1, <3>2 DEF Whole
  <2> HIDE DEF fact
  <2>3. \A i \in DOMAIN emitted' :
          \/ i = file /\ emitted'[i] = fact
          \/ i \in DOMAIN emitted /\ emitted'[i] = emitted[i]
    BY <2>1 DEF Overlay
  <2>4. DOMAIN emitted' = DOMAIN emitted \cup {file}
    BY <2>1 DEF Overlay
  <2>5. \A i \in Owned : phase' = "done" \/ i < file' => i < file \/ i = file
    BY <1>4, <2>1
  <2>6. \A i \in Owned : phase' = "done" \/ (phase' \in {"merge", "walk", "expand"} /\ i < file')
          => i \in DOMAIN emitted'
    BY <1>2, <2>1, <2>4, <2>5
  <2> QED
    BY <1>1, <1>2, <2>1, <2>2, <2>3, <2>6, KeptStep
<1>13. CASE UNCHANGED vars
  <2>1. UNCHANGED <<phase, file, pos, checks, evidence, emitted>>
    BY <1>13 DEF vars
  <2> QED
    BY <1>1, <1>2, <1>3, <2>1, KeptStep
<1> QED
  BY <1>5, <1>6, <1>7, <1>8, <1>9, <1>10, <1>11, <1>12, <1>13 DEF Next

\* The adapter's facts are whole throughout.
LEMMA KeptInvariance == Spec => [](TInv /\ Recorded /\ Kept)
<1>1. Init => TInv /\ Recorded /\ Kept
  <2> SUFFICES ASSUME Init PROVE TInv /\ Recorded /\ Kept
    OBVIOUS
  <2>1. phase = "parse" /\ emitted = Empty /\ DOMAIN Empty = {}
    BY DEF Init, Empty
  <2>2. Kept
    BY <2>1 DEF Kept, Finished
  <2> QED
    BY <2>2, InitRecorded
<1>2. TInv /\ Kept /\ [Next]_vars => Kept'
  BY KeptInv
<1>3. Spec => [](TInv /\ Recorded)
  BY RecordedInvariance
<1> QED
  BY <1>1, <1>2, <1>3, PTL DEF Spec

\* Where no parameter of a property is destructured, an operation sequence that is
\* emitted (operationSequencesForProperty, main.ts) has as its input a parameter that a
\* generator of sequences generates.
THEOREM SequencesHaveTheirInput == Spec => []SequencesFollowTheirInput
<1>1. TInv /\ Recorded /\ Kept => SequencesFollowTheirInput
  <2> SUFFICES ASSUME Kept,
                      NEW i \in DOMAIN emitted, NEW k \in DOMAIN emitted[i].checks,
                      \A j \in DOMAIN Source(i).walk[k].inputs :
                        Source(i).walk[k].inputs[j].parameter = j
               PROVE  SequencesAreTraces(i, k)
    BY DEF SequencesFollowTheirInput
  <2>1. Controlled(i, k, emitted[i].checks[k].operationSequences)
    BY DEF Kept, Whole, FoundChecks
  <2> QED
    BY <2>1 DEF Controlled, ControlsSequence, SequencesAreTraces, InputIsSequence
<1> QED
  BY <1>1, KeptInvariance, PTL

---------------------------------------------------------------------------
(* The facts are consistent.                                               *)

\* What the consistency rules ask of a file fact.
Coherent(f) ==
  /\ f.effectfulImports \subseteq f.imports
  /\ f.effectfulIdentifiers \subseteq f.identifiers
  /\ \A e \in f.effectfulReferences :
       /\ e.enclosing \in f.identifiers \cup {None}
       /\ e.origin = "dependency-summary" => e.summarised
  /\ \A c \in f.propertyChecks :
       /\ c.references \subseteq f.apiReferences
       /\ \A s \in c.operationSequences :
            /\ \E input \in c.generatedInputs : input.name = s.input
            /\ s.operations \cup s.assertions \subseteq f.apiReferences
  /\ f.decisionSurface \cup f.propertyTestSurface \subseteq f.identifiers
  /\ f.decisionProducts \cup f.decisionReferences \subseteq f.identifiers
  /\ f.logic.functionBodies \cup f.logic.constructorBodies \subseteq f.identifiers
  /\ f.logic.derivedValueBodies \subseteq f.identifiers

\* No rule of consistency reports a coherent file.
LEMMA CoherentFiles ==
  ASSUME NEW files, \A f \in files : Coherent(f)
  PROVE  \A rule \in DOMAIN Evaluator!FactConsistency(files) :
           Evaluator!FactConsistency(files)[rule] = {}
<1>1. \A f \in files :
        /\ {e.enclosing : e \in f.effectfulReferences} \ {Evaluator!None} \subseteq f.identifiers
        /\ ~ \E e \in f.effectfulReferences : e.origin = "dependency-summary" /\ ~ e.summarised
  BY DEF Coherent, None, Evaluator!None
<1>2. \A f \in files :
        /\ Evaluator!PropertyTestReferences(f) \subseteq f.apiReferences
        /\ {s.input : s \in Evaluator!SequencesOf(f)} \subseteq Evaluator!GeneratedInputNames(f)
        /\ (UNION {Evaluator!SequenceReferences(s) : s \in Evaluator!SequencesOf(f)})
             \subseteq f.apiReferences
  <2> SUFFICES ASSUME NEW f \in files
               PROVE  /\ Evaluator!PropertyTestReferences(f) \subseteq f.apiReferences
                      /\ {s.input : s \in Evaluator!SequencesOf(f)}
                           \subseteq Evaluator!GeneratedInputNames(f)
                      /\ (UNION {Evaluator!SequenceReferences(s) : s \in Evaluator!SequencesOf(f)})
                           \subseteq f.apiReferences
    OBVIOUS
  <2>1. \A c \in f.propertyChecks :
          /\ c.references \subseteq f.apiReferences
          /\ \A s \in c.operationSequences :
               /\ \E input \in c.generatedInputs : input.name = s.input
               /\ s.operations \cup s.assertions \subseteq f.apiReferences
    BY DEF Coherent
  <2>2. Evaluator!PropertyTestReferences(f) \subseteq f.apiReferences
    BY <2>1 DEF Evaluator!PropertyTestReferences, Evaluator!MeaningfulChecks
  <2>3. {s.input : s \in Evaluator!SequencesOf(f)} \subseteq Evaluator!GeneratedInputNames(f)
    BY <2>1 DEF Evaluator!SequencesOf, Evaluator!GeneratedInputNames
  <2>4. (UNION {Evaluator!SequenceReferences(s) : s \in Evaluator!SequencesOf(f)})
          \subseteq f.apiReferences
    BY <2>1 DEF Evaluator!SequencesOf, Evaluator!SequenceReferences
  <2> QED
    BY <2>2, <2>3, <2>4
<1>3. \A f \in files :
        /\ f.effectfulImports \subseteq f.imports
        /\ f.effectfulIdentifiers \subseteq f.identifiers
        /\ f.decisionSurface \subseteq f.identifiers
        /\ f.propertyTestSurface \subseteq f.identifiers
        /\ f.decisionProducts \subseteq f.identifiers
        /\ f.decisionReferences \subseteq f.identifiers
        /\ f.logic.functionBodies \subseteq f.identifiers
        /\ f.logic.constructorBodies \subseteq f.identifiers
        /\ f.logic.derivedValueBodies \subseteq f.identifiers
  BY DEF Coherent
<1> QED
  BY <1>1, <1>2, <1>3 DEF Evaluator!FactConsistency

\* The fields of a file fact.
LEMMA FactFields ==
  ASSUME NEW i
  PROVE  /\ SourceFact(i).path = i
         /\ SourceFact(i).moduleName = Source(i).module
         /\ SourceFact(i).moduleType = Tag(i, "module")
         /\ SourceFact(i).domain = Tag(i, "domain")
         /\ SourceFact(i).imports = Imports(i)
         /\ SourceFact(i).identifiers = AllIdentifiers(i)
         /\ SourceFact(i).apiReferences = ApiReferences(i)
         /\ SourceFact(i).decisionSurface = NamesOf(DecisionSurface(i))
         /\ SourceFact(i).propertyTestSurface = NamesOf(PropertyTestSurface(i))
         /\ SourceFact(i).decisionProducts = DecisionProducts(i)
         /\ SourceFact(i).decisionReferences = NamesOf(DecisionReferences(i))
         /\ SourceFact(i).qualifiedReferences = QualifiedReferences(i)
         /\ SourceFact(i).effectfulImports = Imports(i) \cap EffectfulImports
         /\ SourceFact(i).effectfulIdentifiers = emitted[i].marked
         /\ SourceFact(i).effectfulReferences = EffectfulReferences(i)
         /\ SourceFact(i).propertyChecks = PropertyChecks(i)
         /\ SourceFact(i).logic.functionBodies =
              NamesOf({d \in Functions(i) \cup Declared(i, {"method"}) : d.body})
         /\ SourceFact(i).logic.constructorBodies = NamesOf({d \in Declared(i, {"class"}) : d.body})
         /\ SourceFact(i).logic.derivedValueBodies = NamesOf(DerivedValues(i))
BY DEF SourceFact

\* A text of references that are among others is a text of those.
LEMMA TextsGrow ==
  ASSUME NEW S, NEW T, S \subseteq T
  PROVE  Texts(S) \subseteq Texts(T)
BY DEF Texts

\* What a check is credited with is among the references of its file.
LEMMA ChecksAreReferenced ==
  ASSUME NEW i, NEW k \in DOMAIN emitted[i].checks
  PROVE  /\ Texts(emitted[i].checks[k].references) \subseteq ApiReferences(i)
         /\ \A s \in emitted[i].checks[k].operationSequences :
              Texts(s.operations) \cup Texts(s.assertions) \subseteq ApiReferences(i)
<1> DEFINE credited == UNION {emitted[i].checks[j].references : j \in DOMAIN emitted[i].checks}
           traced == UNION {UNION {s.operations \cup s.assertions :
                                     s \in emitted[i].checks[j].operationSequences} :
                              j \in DOMAIN emitted[i].checks}
           all == CallReferences(i, CallsOf(i)) \cup credited \cup traced
<1>1. emitted[i].checks[k].references \subseteq all
  OBVIOUS
<1>2. \A s \in emitted[i].checks[k].operationSequences :
        s.operations \subseteq all /\ s.assertions \subseteq all
  OBVIOUS
<1>3. ApiReferences(i) = Texts(all) \cup Source(i).types
  BY DEF ApiReferences
<1> HIDE DEF all
<1> QED
  BY <1>1, <1>2, <1>3, TextsGrow

\* The declarations of a file are among its identifiers, unless their names are quoted.
LEMMA DeclaredAreIdentifiers ==
  ASSUME NEW i, Source(i).quoted = {}
  PROVE  \A names : (\E some \in SUBSET Source(i).declarations : names = NamesOf(some))
                      => names \subseteq AllIdentifiers(i)
BY DEF NamesOf, AllIdentifiers

\* The facts of a file are coherent.
LEMMA FactIsCoherent ==
  ASSUME TInv, Kept, PlainNames, NEW i \in DOMAIN emitted
  PROVE  Coherent(SourceFact(i))
<1>1. /\ i \in Owned /\ i \in Files /\ program \in Programs
      /\ Source(i).quoted = {}
  BY Numbered DEF TInv, IInv, TypeOK, PlainNames
<1>2. /\ FoundChecks(i, emitted[i].checks)
      /\ Enclosed(i, emitted[i].evidence)
      /\ emitted[i].marked \subseteq Names(i)
  BY DEF Kept, Whole
<1>3. Names(i) \subseteq AllIdentifiers(i)
  BY <1>1 DEF AllIdentifiers
<1>4. \A e \in EffectfulReferences(i) :
        /\ e.enclosing \in AllIdentifiers(i) \cup {None}
        /\ e.origin = "dependency-summary" => e.summarised
  <2>1. \A e \in EffectfulReferences(i) :
          \/ e.enclosing = None /\ e.origin = "standard-library"
          \/ e.summarised /\ \E d \in emitted[i].evidence : e.enclosing = d.enclosing
    BY DEF EffectfulReferences
  <2> QED
    BY <1>2, <1>3, <2>1 DEF Enclosed, None, NoFunction
<1>5. ASSUME NEW c \in PropertyChecks(i)
      PROVE  /\ c.references \subseteq ApiReferences(i)
             /\ \A s \in c.operationSequences :
                  /\ \E input \in c.generatedInputs : input.name = s.input
                  /\ s.operations \cup s.assertions \subseteq ApiReferences(i)
  <2> DEFINE inputs(k) ==
               {[name |-> input.name, uses |-> IF input.used THEN {input.name} ELSE {}] :
                  input \in {Source(i).walk[k].inputs[j] : j \in DOMAIN Source(i).walk[k].inputs}}
             sequences(k) ==
               {[input |-> s.input, operations |-> Texts(s.operations),
                 assertions |-> Texts(s.assertions)] : s \in SequencesOf(i, k)}
  <2>1. PICK k \in DOMAIN emitted[i].checks :
          /\ c.references = Texts(emitted[i].checks[k].references)
          /\ c.generatedInputs = inputs(k)
          /\ c.operationSequences = sequences(k)
    BY DEF PropertyChecks
  <2>2. SequencesOf(i, k) \subseteq emitted[i].checks[k].operationSequences
    BY DEF SequencesOf
  <2>3. \A s \in sequences(k) : \E t \in emitted[i].checks[k].operationSequences :
          /\ s.input = t.input
          /\ s.operations = Texts(t.operations) /\ s.assertions = Texts(t.assertions)
    BY <2>2
  <2>4. \A j \in DOMAIN Source(i).walk[k].inputs :
          \E input \in inputs(k) : input.name = Source(i).walk[k].inputs[j].name
    <3> SUFFICES ASSUME NEW j \in DOMAIN Source(i).walk[k].inputs
                 PROVE  \E input \in inputs(k) : input.name = Source(i).walk[k].inputs[j].name
      OBVIOUS
    <3> DEFINE given == Source(i).walk[k].inputs[j]
               input == [name |-> given.name, uses |-> IF given.used THEN {given.name} ELSE {}]
    <3>1. given \in {Source(i).walk[k].inputs[l] : l \in DOMAIN Source(i).walk[k].inputs}
      OBVIOUS
    <3>2. input \in inputs(k)
      BY <3>1
    <3>3. input.name = given.name
      OBVIOUS
    <3> HIDE DEF input, inputs
    <3> QED
      BY <3>2, <3>3
  <2>5. \A t \in emitted[i].checks[k].operationSequences :
          \E j \in DOMAIN Source(i).walk[k].inputs : t.input = Source(i).walk[k].inputs[j].name
    BY <1>2 DEF FoundChecks, Controlled
  <2> HIDE DEF inputs, sequences
  <2> QED
    BY <2>1, <2>3, <2>4, <2>5, ChecksAreReferenced
<1>6. DecisionProducts(i) \subseteq AllIdentifiers(i)
  <2>1. \A d \in Source(i).declarations : d.kind = "function" => d.products \subseteq Source(i).types
    BY <1>1, FactsAssumption DEF Source, Files
  <2> QED
    BY <1>1, <2>1 DEF DecisionProducts, Declared, AllIdentifiers
<1>7. /\ NamesOf(DecisionSurface(i)) \subseteq AllIdentifiers(i)
      /\ NamesOf(PropertyTestSurface(i)) \subseteq AllIdentifiers(i)
      /\ NamesOf(DecisionReferences(i)) \subseteq AllIdentifiers(i)
      /\ NamesOf({d \in Functions(i) \cup Declared(i, {"method"}) : d.body}) \subseteq AllIdentifiers(i)
      /\ NamesOf({d \in Declared(i, {"class"}) : d.body}) \subseteq AllIdentifiers(i)
      /\ NamesOf(DerivedValues(i)) \subseteq AllIdentifiers(i)
  <2>1. \A kinds : Declared(i, kinds) \subseteq Source(i).declarations
    BY DEF Declared
  <2>2. Functions(i) \subseteq Source(i).declarations
    BY <2>1 DEF Functions
  <2> QED
    BY <1>1, <2>1, <2>2, DeclaredAreIdentifiers
       DEF DecisionSurface, PropertyTestSurface, DecisionReferences, DerivedValues
<1> QED
  <2> DEFINE f == SourceFact(i)
  <2>1. /\ f.imports = Imports(i) /\ f.identifiers = AllIdentifiers(i)
        /\ f.apiReferences = ApiReferences(i)
        /\ f.decisionSurface = NamesOf(DecisionSurface(i))
        /\ f.propertyTestSurface = NamesOf(PropertyTestSurface(i))
        /\ f.decisionProducts = DecisionProducts(i)
        /\ f.decisionReferences = NamesOf(DecisionReferences(i))
        /\ f.effectfulImports = Imports(i) \cap EffectfulImports
        /\ f.effectfulIdentifiers = emitted[i].marked
        /\ f.effectfulReferences = EffectfulReferences(i)
        /\ f.propertyChecks = PropertyChecks(i)
    BY FactFields
  <2>2. /\ f.logic.functionBodies =
             NamesOf({d \in Functions(i) \cup Declared(i, {"method"}) : d.body})
        /\ f.logic.constructorBodies = NamesOf({d \in Declared(i, {"class"}) : d.body})
        /\ f.logic.derivedValueBodies = NamesOf(DerivedValues(i))
    BY FactFields
  <2> HIDE DEF f
  <2>3. /\ f.effectfulImports \subseteq f.imports
        /\ f.effectfulIdentifiers \subseteq f.identifiers
    BY <1>2, <1>3, <2>1
  <2>4. /\ f.decisionSurface \cup f.propertyTestSurface \subseteq f.identifiers
        /\ f.decisionProducts \cup f.decisionReferences \subseteq f.identifiers
        /\ f.logic.functionBodies \cup f.logic.constructorBodies \subseteq f.identifiers
        /\ f.logic.derivedValueBodies \subseteq f.identifiers
    BY <1>6, <1>7, <2>1, <2>2
  <2>5. \A e \in f.effectfulReferences :
          /\ e.enclosing \in f.identifiers \cup {None}
          /\ e.origin = "dependency-summary" => e.summarised
    BY <1>4, <2>1
  <2>6. \A c \in f.propertyChecks :
          /\ c.references \subseteq f.apiReferences
          /\ \A s \in c.operationSequences :
               /\ \E input \in c.generatedInputs : input.name = s.input
               /\ s.operations \cup s.assertions \subseteq f.apiReferences
    BY <1>5, <2>1
  <2>7. Coherent(f)
    BY <2>3, <2>4, <2>5, <2>6 DEF Coherent
  <2> QED
    BY <2>7 DEF f

\* The facts of every file are coherent: the consistency rules of the evaluator
\* (evaluate_fact_consistency) report no document of the adapter.
THEOREM ConsistentFacts == Spec => []FactsAreConsistent
<1>1. TInv /\ Recorded /\ Kept => FactsAreConsistent
  <2> SUFFICES ASSUME TInv, Kept, PlainNames PROVE FactsAreConsistent
    BY DEF FactsAreConsistent
  <2>1. \A f \in Document : Coherent(f)
    BY FactIsCoherent DEF Document
  <2> QED
    BY <2>1, CoherentFiles DEF FactsAreConsistent
<1> QED
  BY <1>1, KeptInvariance, PTL

---------------------------------------------------------------------------
(* What the evaluator's silence says.                                      *)

\* Where nothing is reported, every rule holds.
LEMMA NoReports ==
  ASSUME NEW reported, Evaluator!Reports(reported) = {}
  PROVE  \A rule \in DOMAIN reported : reported[rule] = {}
<1> SUFFICES ASSUME NEW rule \in DOMAIN reported, NEW f \in reported[rule] PROVE FALSE
  OBVIOUS
<1>1. [path |-> f.path, rule |-> rule] \in Evaluator!Reports(reported)
  BY DEF Evaluator!Reports
<1> QED
  BY <1>1

\* The document has the facts of every owned file.
LEMMA DocumentIsWhole ==
  ASSUME TInv, Kept, Accepted
  PROVE  /\ DOMAIN emitted = Owned
         /\ \A i \in Owned : SourceFact(i) \in Document
         /\ \A f \in Document : \E i \in Owned : f = SourceFact(i)
<1>1. DOMAIN emitted = Owned
  BY DEF TInv, IInv, TypeOK, Kept, Finished, Accepted
<1> QED
  BY <1>1 DEF Document

\* The files of the document with a type.
LEMMA LabelledFiles ==
  ASSUME TInv, Kept, Accepted, NEW types
  PROVE  /\ \A i \in Labelled(types) : SourceFact(i) \in Evaluator!OfType(Document, types)
         /\ \A f \in Evaluator!OfType(Document, types) :
              \E i \in Labelled(types) : f = SourceFact(i)
BY DocumentIsWhole, FactFields DEF Labelled, Evaluator!OfType

\* Among the files of a file's domain.
LEMMA LabelledNeighbours ==
  ASSUME TInv, Kept, Accepted, NEW types, NEW i \in Owned
  PROVE  \A f \in Evaluator!OfType(Evaluator!SameDomain(Document, SourceFact(i)), types) :
           \E j \in Labelled(types) : f = SourceFact(j) /\ SameDomain(j, i)
<1> SUFFICES ASSUME NEW f \in Evaluator!OfType(Evaluator!SameDomain(Document, SourceFact(i)), types)
             PROVE  \E j \in Labelled(types) : f = SourceFact(j) /\ SameDomain(j, i)
  OBVIOUS
<1>1. f \in Document /\ f.moduleType \in types /\ f.domain = SourceFact(i).domain
  BY DEF Evaluator!OfType, Evaluator!SameDomain
<1>2. PICK j \in Owned : f = SourceFact(j)
  BY <1>1, DocumentIsWhole
<1>3. /\ SourceFact(j).moduleType = Tag(j, "module") /\ SourceFact(j).domain = Tag(j, "domain")
      /\ SourceFact(i).domain = Tag(i, "domain")
  BY FactFields
<1> QED
  BY <1>1, <1>2, <1>3 DEF Labelled, SameDomain

\* In an accepted program every shell mentions a function of a core of its domain, or a
\* type in the signature of one (evaluate_shell_modules on the qualified references of
\* main.ts), where module names are distinct: no namesake of another file counts.
THEOREM ShellsUseACore == Spec => []AcceptedShellsUseACore
<1>1. TInv /\ Recorded /\ Kept => AcceptedShellsUseACore
  <2> SUFFICES ASSUME TInv, Kept, Accepted, DistinctModules, NEW s \in Labelled({"shell"})
               PROVE  \E m \in Source(s).mentions :
                        /\ m.file \in Labelled({"core"}) /\ SameDomain(m.file, s) /\ IsReference(m)
                        /\ m.symbol \in NamesOf(DecisionSurface(m.file)) \cup DecisionProducts(m.file)
    BY DEF AcceptedShellsUseACore
  <2> DEFINE f == SourceFact(s)
  <2>1. Evaluator!Reports(Evaluator!ShellModules(Document)) = {}
    BY DEF Accepted, Evaluator!Evaluate
  <2>2. Evaluator!ShellModules(Document).shellNamesACoreApi = {}
    BY <2>1, NoReports DEF Evaluator!ShellModules
  <2>3. f \in Evaluator!OfType(Document, {"shell"}) /\ f.qualifiedReferences = QualifiedReferences(s)
    BY LabelledFiles, FactFields
  <2>4. PICK q \in f.qualifiedReferences : q \in Evaluator!HandlerReferences(Document, f)
    BY <2>2, <2>3 DEF Evaluator!ShellModules
  <2>5. PICK g \in Evaluator!OfType(Evaluator!SameDomain(Document, f), {"core"}) :
          q \in Evaluator!Qualify(g.moduleName, g.decisionSurface \cup g.decisionProducts)
    BY <2>4 DEF Evaluator!HandlerReferences
  <2>6. s \in Owned
    BY DEF Labelled
  <2>7. PICK c \in Labelled({"core"}) : g = SourceFact(c) /\ SameDomain(c, s)
    BY <2>5, <2>6, LabelledNeighbours
  <2>8. PICK name \in NamesOf(DecisionSurface(c)) \cup DecisionProducts(c) :
          q = <<Source(c).module, name>>
    BY <2>5, <2>7, FactFields DEF Evaluator!Qualify
  <2>9. PICK m \in Source(s).mentions :
          /\ IsReference(m) /\ m.file \in Owned
          /\ q = <<Source(m.file).module, m.symbol>>
    BY <2>3, <2>4 DEF QualifiedReferences
  <2>10. m.symbol = name /\ m.file = c
    <3>1. c \in Files /\ m.file \in Files
      BY <2>9, Numbered DEF Labelled, TInv, IInv
    <3> QED
      BY <2>8, <2>9, <3>1 DEF DistinctModules
  <2> QED
    BY <2>7, <2>8, <2>9, <2>10
<1> QED
  BY <1>1, KeptInvariance, PTL

\* The pure files of an accepted program (evaluate_effect_boundaries on what main.ts
\* marks) contain no effect, and their functions reach none, through functions of the
\* file, in a function of a file that they resolve and that is known there by its name (no
\* default export: localCallableReference), where module names are distinct and required
\* effects stand inside something that has a name.
THEOREM PureFilesAreFree == Spec => []AcceptedPureFilesTouchNoEffects
<1>1. TInv /\ Recorded /\ Kept => AcceptedPureFilesTouchNoEffects
  <2> SUFFICES ASSUME TInv, Recorded, Kept, Accepted, DistinctModules, RequirementsAreEnclosed,
                      NEW i \in Labelled({"core", "value"})
               PROVE  /\ Events(i, "effect") = {}
                      /\ \A h \in FunctionNames(i) \ Source(i).quoted :
                           LET own == [f \in {g \in DOMAIN CallTable : g[1] = i} |-> CallTable[f]]
                           IN  \A f \in Expanded(own, {<<i, h>>}) \cap DOMAIN CallTable :
                                 Resolves(i, f[1]) /\ KnownByName(f) => ~ HasEffect(f)
    BY DEF AcceptedPureFilesTouchNoEffects, PureFilesTouchNoEffects
  <2> DEFINE fact == SourceFact(i)
  <2>1. i \in Owned /\ i \in Files /\ i \in DOMAIN emitted
    BY Numbered, DocumentIsWhole DEF Labelled, TInv, IInv
  <2>2. Evaluator!Reports(Evaluator!EffectBoundaries(Document)) = {}
    BY DEF Accepted, Evaluator!Evaluate
  <2>3. Evaluator!EffectBoundaries(Document).effectsInEffectfulModules = {}
    BY <2>2, NoReports DEF Evaluator!EffectBoundaries
  <2>4. fact \in Document /\ fact.moduleType \in {"core", "value"}
    BY <2>1, DocumentIsWhole, FactFields DEF Labelled
  <2>5. ~ Evaluator!HasEffects(fact)
    BY <2>3, <2>4 DEF Evaluator!EffectBoundaries, Evaluator!OfType
  <2>6. fact.effectfulIdentifiers = {} /\ fact.effectfulReferences = {}
    BY <2>5 DEF Evaluator!HasEffects, Evaluator!HasEffectfulImports, Evaluator!HasEffectfulIdentifiers
  <2>7. emitted[i].marked = {} /\ EffectfulReferences(i) = {}
    BY <2>6, FactFields
  <2>8. emitted[i].evidence = {}
    <3> SUFFICES ASSUME NEW e \in emitted[i].evidence PROVE FALSE
      OBVIOUS
    <3> DEFINE r == [kind |-> IF e.source = "global" THEN "identifier" ELSE "call",
                     origin |-> CASE e.source = "global" -> "global"
                                  [] e.source = "expansion" -> "local-call-expansion"
                                  [] OTHER -> "dependency-summary",
                     enclosing |-> e.enclosing, summarised |-> TRUE]
    <3>1. r \in EffectfulReferences(i)
      BY DEF EffectfulReferences
    <3> QED
      BY <2>7, <3>1
  <2>9. EffectEvents(i) = {}
    BY <2>1, <2>8 DEF Kept, Whole
  <2>10. Events(i, "effect") = {}
    BY <2>1, <2>9 DEF EffectEvents, RequirementsAreEnclosed
  <2>11. ASSUME NEW h \in FunctionNames(i) \ Source(i).quoted
         PROVE  LET own == [f \in {g \in DOMAIN CallTable : g[1] = i} |-> CallTable[f]]
                IN  \A f \in Expanded(own, {<<i, h>>}) \cap DOMAIN CallTable :
                      Resolves(i, f[1]) /\ KnownByName(f) => ~ HasEffect(f)
    <3> DEFINE own == [f \in {g \in DOMAIN CallTable : g[1] = i} |-> CallTable[f]]
               reached == Expanded(own, {<<i, h>>})
    <3> SUFFICES ASSUME NEW f \in reached \cap DOMAIN CallTable, Resolves(i, f[1]),
                        KnownByName(f), HasEffect(f)
                 PROVE  FALSE
      OBVIOUS
    <3>1. f[1] # i
      BY <2>9 DEF HasEffect
    <3>2. FindsImports(i, emitted[i].marked)
      BY <2>1 DEF Recorded
    <3>3. (\E g \in {c \in DOMAIN CallTable : c[1] # i} \cap reached :
             Resolves(i, g[1]) /\ HasEffect(g) /\ KnownByName(g)) => h \in emitted[i].marked
      BY <3>2, Zenon DEF FindsImports
    <3> QED
      BY <2>7, <3>1, <3>3
  <2> QED
    BY <2>10, <2>11
<1> QED
  BY <1>1, KeptInvariance, PTL

---------------------------------------------------------------------------
(* What the texts of references mean.                                      *)

\* All that is called in the program.
AllCalls == UNION {CallsIn(Source(i)) : i \in Files}

\* What files are assumed to call, part by part.
LEMMA AllCallsAre ==
  ASSUME program \in Programs
  PROVE  /\ AllCalls \subseteq Calls
         /\ \A i, j \in Files : \A c \in AllCalls : \A n \in {c[2], "default"} :
              Source(i).module \o "." \o n \notin FunctionNames(j)
<1>1. /\ \A i \in DOMAIN program.sources :
           CallsIn(program.sources[i]) \subseteq (0 .. Len(program.sources)) \X STRING
      /\ \A i, j, s \in DOMAIN program.sources : \A c \in CallsIn(program.sources[s]) :
           \A n \in {c[2], "default"} :
             program.sources[i].module \o "." \o n \notin DOMAIN program.sources[j].functions
  BY FactsAssumption
<1>2. Files = 1 .. Len(program.sources) /\ Len(program.sources) \in Nat
      /\ Files = DOMAIN program.sources
  BY Numbered DEF Files
<1>3. 0 .. Len(program.sources) = Files \cup {0}
  BY <1>2
<1>4. \A i \in Files : CallsIn(Source(i)) \subseteq Calls
  BY <1>1, <1>2, <1>3 DEF Source, Calls
<1>5. AllCalls \subseteq Calls
  BY <1>4 DEF AllCalls
<1>6. \A i, j \in Files : \A c \in AllCalls : \A n \in {c[2], "default"} :
        Source(i).module \o "." \o n \notin FunctionNames(j)
  BY <1>1, <1>2 DEF AllCalls, Source, FunctionNames
<1> QED
  BY <1>5, <1>6

\* The calls of a file, its checks and its functions are among them.
LEMMA CallsAreAmong ==
  ASSUME program \in Programs
  PROVE  /\ \A i \in Files : CallsOf(i) \subseteq AllCalls
         /\ \A i \in Files : \A k \in DOMAIN Source(i).walk : Source(i).walk[k].kind = "check" =>
              Source(i).walk[k].calls \subseteq AllCalls /\ TracedCalls(i, k) \subseteq AllCalls
         /\ \A f \in DOMAIN CallTable : CallTable[f] \subseteq AllCalls
<1> DEFINE Run(i) == {k \in DOMAIN Source(i).walk : Source(i).walk[k].kind \in {"runner", "check"}}
           Checked(i) == {k \in DOMAIN Source(i).walk : Source(i).walk[k].kind = "check"}
<1>1. ASSUME NEW i \in Files
      PROVE  /\ Source(i).calls \subseteq CallsIn(Source(i))
             /\ \A n \in FunctionNames(i) : Source(i).functions[n] \subseteq CallsIn(Source(i))
             /\ \A k \in Run(i) : Source(i).walk[k].calls \subseteq CallsIn(Source(i))
             /\ \A k \in Checked(i) :
                  /\ Source(i).walk[k].body \subseteq CallsIn(Source(i))
                  /\ TracedCalls(i, k) \subseteq CallsIn(Source(i))
  <2>1. /\ Source(i).calls \subseteq CallsIn(Source(i))
        /\ \A n \in FunctionNames(i) : Source(i).functions[n] \subseteq CallsIn(Source(i))
        /\ \A k \in Run(i) : Source(i).walk[k].calls \subseteq CallsIn(Source(i))
    BY DEF CallsIn, FunctionNames
  <2>2. ASSUME NEW k \in Checked(i)
        PROVE  TracedCalls(i, k) \subseteq CallsIn(Source(i))
    BY DEF CallsIn, TracedCalls
  <2>3. \A k \in Checked(i) : Source(i).walk[k].body \subseteq TracedCalls(i, k)
    BY DEF TracedCalls
  <2> QED
    BY <2>1, <2>2, <2>3
<1>2. \A i \in Files : CallsIn(Source(i)) \subseteq AllCalls
  BY DEF AllCalls
<1>3. ASSUME NEW i \in Files PROVE CallsOf(i) \subseteq AllCalls
  <2>1. \A e \in Events(i, "check") : e.body \subseteq CallsIn(Source(i))
    BY <1>1 DEF Events
  <2> QED
    BY <1>1, <1>2, <2>1 DEF CallsOf
<1>4. ASSUME NEW f \in DOMAIN CallTable PROVE CallTable[f] \subseteq AllCalls
  <2>1. /\ f[1] \in Files /\ f[2] \in FunctionNames(f[1])
        /\ CallTable[f] = Source(f[1]).functions[f[2]]
             \cup UNION {e.calls : e \in {d \in Events(f[1], "runner") : Enclosing(d) = f[2]}}
    BY CallingFunctions
  <2>2. \A e \in Events(f[1], "runner") : e.calls \subseteq CallsIn(Source(f[1]))
    BY <1>1, <2>1 DEF Events
  <2> QED
    BY <1>1, <1>2, <2>1, <2>2
<1> QED
  BY <1>1, <1>2, <1>3, <1>4

\* A text that is the name of a function is of a reference to a call of the function.
LEMMA TextTells ==
  ASSUME program \in Programs, DistinctNames, NEW i \in Files,
         NEW calls \in SUBSET AllCalls, Telling(i, calls),
         NEW r \in CallReferences(i, calls), NEW j \in Files, Text(r) \in FunctionNames(j)
  PROVE  <<j, Text(r)>> \in calls /\ <<j, Text(r)>> \in DOMAIN CallTable
<1>1. ASSUME NEW c \in calls, c[1] # 0, r = <<Source(c[1]).module, SymbolName(c)>>
      PROVE  FALSE
  <2>1. c \in AllCalls /\ c[1] \in Files
    BY <1>1, AllCallsAre DEF Calls
  <2>2. Source(c[1]).module # NoModule
    BY <2>1, Typed
  <2>3. Text(r) = Source(c[1]).module \o "." \o SymbolName(c)
    BY <1>1, <2>2 DEF Text
  <2>4. SymbolName(c) \in {c[2], "default"}
    BY DEF SymbolName
  <2> QED
    BY <2>1, <2>3, <2>4, AllCallsAre
<1>2. r \in BareReferences(i, calls)
  BY <1>1 DEF CallReferences
<1>3. r = Bare(Text(r))
  <2>1. PICK n : r = Bare(n)
    BY <1>2 DEF BareReferences
  <2>2. Text(r) = n
    BY <2>1 DEF Text, Bare
  <2> QED
    BY <2>1, <2>2
<1>4. <<j, Text(r)>> \in calls
  BY <1>2, <1>3, ReferencesTell
<1>5. <<j, Text(r)>> \in DOMAIN CallTable
  BY CallingFunctions
<1> QED
  BY <1>4, <1>5

\* So it is for the references of what calls lead to.
LEMMA CalledTextTells ==
  ASSUME program \in Programs, DistinctNames, NEW i \in Files,
         NEW calls \in SUBSET AllCalls, Telling(i, calls),
         NEW r \in BareReferences(i, calls) \cup ReferencesIn(Called(calls)),
         NEW j \in Files, Text(r) \in FunctionNames(j)
  PROVE  <<j, Text(r)>> \in Called(calls) /\ <<j, Text(r)>> \in DOMAIN CallTable
<1>1. calls \subseteq Called(calls) /\ ClosedBy(CallTable, Called(calls))
  BY CalledIsLeast
<1>2. CASE r \in BareReferences(i, calls)
  <2>1. r \in CallReferences(i, calls)
    BY <1>2, ReferencesAreOfCalls
  <2> QED
    BY <1>1, <2>1, TextTells
<1>3. CASE r \in ReferencesIn(Called(calls))
  <2>1. PICK f \in Called(calls) \cap DOMAIN CallTable : r \in ReferencesOf(f)
    BY <1>3 DEF ReferencesIn
  <2>2. CallTable[f] \subseteq AllCalls /\ f[1] \in Files /\ Telling(f[1], CallTable[f])
    BY <2>1, CallsAreAmong, CallingFunctions, Distinct
  <2>3. r \in CallReferences(f[1], CallTable[f])
    BY <2>1 DEF ReferencesOf
  <2>4. <<j, Text(r)>> \in CallTable[f] /\ <<j, Text(r)>> \in DOMAIN CallTable
    BY <2>2, <2>3, TextTells
  <2> QED
    BY <1>1, <2>1, <2>4 DEF ClosedBy
<1> QED
  BY <1>2, <1>3

---------------------------------------------------------------------------
(* What tests are credited with.                                           *)

\* An emitted check is one that the walk has found, with only references to what it calls.
LEMMA EmittedChecks ==
  ASSUME TInv, Recorded, Kept, NEW i \in DOMAIN emitted, NEW k \in DOMAIN emitted[i].checks
  PROVE  /\ i \in Files /\ i \in Owned
         /\ k \in DOMAIN Source(i).walk /\ Source(i).walk[k].kind = "check"
         /\ Source(i).walk[k].calls \subseteq AllCalls
         /\ DistinctNames => Telling(i, Source(i).walk[k].calls)
         /\ DistinctNames =>
              emitted[i].checks[k].references \subseteq
                BareReferences(i, Source(i).walk[k].calls)
                  \cup ReferencesIn(Called(Source(i).walk[k].calls))
<1>1. i \in Files /\ i \in Owned /\ program \in Programs
  BY Numbered DEF TInv, IInv, TypeOK
<1>2. k \in DOMAIN Source(i).walk /\ Source(i).walk[k].kind = "check"
  BY DEF Kept, Whole, FoundChecks
<1>3. Source(i).walk[k].calls \subseteq AllCalls
  BY <1>1, <1>2, CallsAreAmong
<1>4. DistinctNames => Telling(i, Source(i).walk[k].calls)
  <2>1. Source(i).walk[k] \in Events(i, "check")
    BY <1>2 DEF Events
  <2> QED
    BY <1>1, <2>1, Distinct
<1>5. ReferenceOf(i, k) = BareReferences(i, Source(i).walk[k].calls)
                            \cup ReferencesIn(Called(Source(i).walk[k].calls))
  BY DEF ReferenceOf, ReferencesIn, ReferencesOf, CalledFunctions
<1>6. DistinctNames => emitted[i].checks[k].references \subseteq ReferenceOf(i, k)
  BY DEF Recorded, SoundChecks
<1> QED
  BY <1>1, <1>2, <1>3, <1>4, <1>5, <1>6

\* A function whose name a test's checks are credited with is really called by one.
LEMMA CreditedIsExercised ==
  ASSUME TInv, Recorded, Kept, DistinctNames,
         NEW t \in DOMAIN emitted, NEW j \in Files, NEW name \in FunctionNames(j),
         name \in Evaluator!PropertyTestReferences(SourceFact(t))
  PROVE  <<j, name>> \in Exercised(t)
<1>1. PICK c \in PropertyChecks(t) : name \in c.references
  <2>1. SourceFact(t).propertyChecks = PropertyChecks(t)
    BY FactFields
  <2> QED
    BY <2>1 DEF Evaluator!PropertyTestReferences, Evaluator!MeaningfulChecks
<1>2. PICK k \in DOMAIN emitted[t].checks : c.references = Texts(emitted[t].checks[k].references)
  BY DEF PropertyChecks
<1> DEFINE calls == Source(t).walk[k].calls
<1>3. /\ t \in Files /\ program \in Programs
      /\ calls \subseteq AllCalls /\ Telling(t, calls)
      /\ emitted[t].checks[k].references \subseteq
           BareReferences(t, calls) \cup ReferencesIn(Called(calls))
  BY EmittedChecks DEF TInv, IInv
<1>4. PICK r \in emitted[t].checks[k].references : name = Text(r)
  BY <1>1, <1>2 DEF Texts
<1> HIDE DEF calls
<1>5. <<j, name>> \in Called(calls) /\ <<j, name>> \in DOMAIN CallTable
  BY <1>3, <1>4, CalledTextTells
<1> QED
  BY <1>5 DEF calls, Exercised, CalledFunctions

\* In an accepted program every exported function of a core that is not inert is really
\* called, through whatever helpers, by a check of a test of its domain, where names are
\* distinct: the bare names that evaluate_core_modules compares confuse no two functions.
THEOREM DecisionsAreCalled == Spec => []AcceptedDecisionsAreCalled
<1>1. TInv /\ Recorded /\ Kept => AcceptedDecisionsAreCalled
  <2> SUFFICES ASSUME TInv, Recorded, Kept, Accepted, DistinctNames, FunctionsHaveBodies,
                      NEW c \in Labelled({"core"}), NEW d \in PropertyTestSurface(c)
               PROVE  \E t \in Labelled({"test", "stateTest"}) :
                        SameDomain(t, c) /\ <<c, d.name>> \in Exercised(t)
    BY DEF AcceptedDecisionsAreCalled
  <2> DEFINE f == SourceFact(c)
             rules == Evaluator!CoreModules(Document)
             Tests(g) == Evaluator!TestsFor(Document, g)
             Properties(g) == {t \in Tests(g) : Evaluator!HasPropertyTest(t)}
             Tested(g) == UNION {Evaluator!PropertyTestReferences(t) : t \in Properties(g)}
             cores == Evaluator!OfType(Document, {"core"})
             untested == {g \in cores : Tests(g) = {}}
             unproven == {g \in cores \ untested : Properties(g) = {}}
             uncovered == {g \in cores \ (untested \cup unproven) :
                             ~ g.propertyTestSurface \subseteq Tested(g)}
  <2>1. Evaluator!Reports(rules) = {}
    BY DEF Accepted, Evaluator!Evaluate
  <2>2. /\ untested = {}
        /\ {Evaluator!First(Tests(g)) : g \in unproven} = {}
        /\ {Evaluator!First(Tests(g)) : g \in uncovered} = {}
    <3>1. \A rule \in DOMAIN rules : rules[rule] = {}
      BY <2>1, NoReports
    <3> QED
      BY <3>1 DEF Evaluator!CoreModules
  <2>3. f \in cores /\ c \in Owned /\ c \in Files
    BY LabelledFiles, Numbered DEF Labelled, TInv, IInv
  <2>4. f.propertyTestSurface \subseteq Tested(f)
    BY <2>2, <2>3
  <2>5. d.name \in f.propertyTestSurface
    BY FactFields DEF NamesOf
  <2>6. PICK g \in Evaluator!OfType(Evaluator!SameDomain(Document, f), {"test", "stateTest"}) :
          d.name \in Evaluator!PropertyTestReferences(g)
    BY <2>4, <2>5 DEF Evaluator!TestsFor
  <2>7. PICK t \in Labelled({"test", "stateTest"}) : g = SourceFact(t) /\ SameDomain(t, c)
    BY <2>3, <2>6, LabelledNeighbours
  <2>8. d.name \in FunctionNames(c)
    BY <2>3 DEF FunctionsHaveBodies, PropertyTestSurface, DecisionSurface, NamesOf
  <2>9. t \in DOMAIN emitted
    BY DocumentIsWhole DEF Labelled
  <2> QED
    BY <2>3, <2>6, <2>7, <2>8, <2>9, CreditedIsExercised
<1> QED
  BY <1>1, KeptInvariance, PTL

---------------------------------------------------------------------------
(* What traces lead to.                                                    *)

\* The sequences of an emitted check mention what its callback leads to, and a check
\* with sequences generates one.
LEMMA EmittedTraces ==
  ASSUME TInv, Recorded, Kept, DistinctUses,
         NEW i \in DOMAIN emitted, NEW k \in DOMAIN emitted[i].checks
  PROVE  /\ i \in Files /\ program \in Programs /\ DistinctNames
         /\ Telling(i, TracedCalls(i, k)) /\ TracedCalls(i, k) \subseteq AllCalls
         /\ \A s \in emitted[i].checks[k].operationSequences :
              /\ s.operations \cup s.assertions \subseteq TracedReferences(i, k)
              /\ Generates(i, k)
<1>1. /\ i \in Files /\ program \in Programs
      /\ k \in DOMAIN Source(i).walk /\ Source(i).walk[k].kind = "check"
  BY EmittedChecks DEF TInv, IInv
<1>2. DistinctNames /\ Telling(i, TracedCalls(i, k))
  BY <1>1 DEF DistinctUses
<1>3. TracedCalls(i, k) \subseteq AllCalls
  BY <1>1, CallsAreAmong
<1>4. /\ Controlled(i, k, emitted[i].checks[k].operationSequences)
      /\ Traced(i, k, emitted[i].checks[k].operationSequences)
  BY DEF Kept, Whole, FoundChecks
<1> QED
  BY <1>1, <1>2, <1>3, <1>4 DEF Controlled, ControlsSequence, Traced, Generates

\* A function whose name a file's references hold is called by the file, or its checks
\* lead to it.
LEMMA ReferencedIsCalled ==
  ASSUME TInv, Recorded, Kept, DistinctUses, NEW i \in DOMAIN emitted,
         NEW j \in Files, NEW name \in FunctionNames(j), name \in ApiReferences(i)
  PROVE  <<j, name>> \in CallsOrChecks(i)
<1> DEFINE found == emitted[i].checks
           credited == UNION {found[k].references : k \in DOMAIN found}
           traced == UNION {UNION {s.operations \cup s.assertions :
                                     s \in found[k].operationSequences} : k \in DOMAIN found}
<1>1. /\ i \in Files /\ program \in Programs /\ DistinctNames
      /\ Telling(i, CallsOf(i)) /\ name \notin Source(i).types
  <2>1. i \in Files
    BY Numbered DEF TInv, IInv, TypeOK
  <2> QED
    BY <2>1 DEF TInv, IInv, DistinctUses
<1>2. PICK r \in CallReferences(i, CallsOf(i)) \cup credited \cup traced : name = Text(r)
  BY <1>1 DEF ApiReferences, Texts
<1>3. CASE r \in CallReferences(i, CallsOf(i))
  <2>1. CallsOf(i) \subseteq AllCalls
    BY <1>1, CallsAreAmong
  <2>2. <<j, name>> \in CallsOf(i)
    BY <1>1, <1>2, <1>3, <2>1, TextTells
  <2> QED
    BY <2>2 DEF CallsOrChecks
<1>4. CASE r \in credited
  <2>1. PICK k \in DOMAIN found : r \in found[k].references
    BY <1>4
  <2> DEFINE calls == Source(i).walk[k].calls
  <2>2. /\ calls \subseteq AllCalls /\ Telling(i, calls)
        /\ r \in BareReferences(i, calls) \cup ReferencesIn(Called(calls))
    BY <1>1, <2>1, EmittedChecks
  <2> HIDE DEF calls
  <2>3. <<j, name>> \in Called(calls)
    BY <1>1, <1>2, <2>2, CalledTextTells
  <2> QED
    BY <2>3 DEF CallsOrChecks, calls
<1>5. CASE r \in traced
  <2>1. PICK k \in DOMAIN found : \E s \in found[k].operationSequences :
          r \in s.operations \cup s.assertions
    BY <1>5
  <2> DEFINE calls == TracedCalls(i, k)
  <2>2. /\ calls \subseteq AllCalls /\ Telling(i, calls)
        /\ r \in BareReferences(i, calls) \cup ReferencesIn(Called(calls))
    BY <2>1, EmittedTraces DEF TracedReferences
  <2> HIDE DEF calls
  <2>3. <<j, name>> \in Called(calls)
    BY <1>1, <1>2, <2>2, CalledTextTells
  <2> QED
    BY <2>3 DEF CallsOrChecks, calls
<1> QED
  BY <1>2, <1>3, <1>4, <1>5

\* A function whose name the operation sequences of a file hold is one that a generated
\* trace of a check leads to.
LEMMA SequencedIsTraced ==
  ASSUME TInv, Recorded, Kept, DistinctUses, NEW t \in DOMAIN emitted,
         NEW j \in Files, NEW name \in FunctionNames(j),
         name \in Evaluator!OperationSequenceReferences(SourceFact(t))
  PROVE  \E k \in DOMAIN emitted[t].checks :
           Generates(t, k) /\ <<j, name>> \in Called(TracedCalls(t, k))
<1>1. PICK q \in Evaluator!SequencesOf(SourceFact(t)) : name \in q.operations \cup q.assertions
  BY DEF Evaluator!OperationSequenceReferences, Evaluator!TemporalSequences,
         Evaluator!SequenceReferences
<1>2. PICK c \in PropertyChecks(t) : q \in c.operationSequences
  <2>1. SourceFact(t).propertyChecks = PropertyChecks(t)
    BY FactFields
  <2> QED
    BY <2>1 DEF Evaluator!SequencesOf
<1>3. PICK k \in DOMAIN emitted[t].checks :
        c.operationSequences = {[input |-> s.input, operations |-> Texts(s.operations),
                                 assertions |-> Texts(s.assertions)] : s \in SequencesOf(t, k)}
  BY DEF PropertyChecks
<1>4. PICK s \in emitted[t].checks[k].operationSequences :
        q.operations = Texts(s.operations) /\ q.assertions = Texts(s.assertions)
  BY <1>2, <1>3 DEF SequencesOf
<1> DEFINE calls == TracedCalls(t, k)
<1>5. /\ s.operations \cup s.assertions \subseteq
           BareReferences(t, calls) \cup ReferencesIn(Called(calls))
      /\ Generates(t, k) /\ Telling(t, calls) /\ calls \subseteq AllCalls
      /\ t \in Files /\ program \in Programs /\ DistinctNames
  BY EmittedTraces DEF TracedReferences
<1> HIDE DEF calls
<1>6. PICK r \in s.operations \cup s.assertions : name = Text(r)
  BY <1>1, <1>4 DEF Texts
<1>7. <<j, name>> \in Called(calls)
  BY <1>5, <1>6, CalledTextTells
<1> QED
  BY <1>5, <1>7 DEF calls

\* In an accepted program a state module, or a property check of its own, calls a core
\* decision of its domain that a generated trace of a state test really reaches
\* (evaluate_state_modules on the API references and operation sequences of main.ts), where
\* names are distinct.
THEOREM StatesFollowTraces == Spec => []AcceptedStatesFollowTraces
<1>1. TInv /\ Recorded /\ Kept => AcceptedStatesFollowTraces
  <2> SUFFICES ASSUME TInv, Recorded, Kept, Accepted, DistinctUses, FunctionsHaveBodies,
                      NEW s \in Labelled({"state"})
               PROVE  \E c \in Labelled({"core"}), t \in Labelled({"stateTest"}) :
                        /\ SameDomain(c, s) /\ SameDomain(t, s)
                        /\ \E d \in DecisionSurface(c) :
                             /\ <<c, d.name>> \in CallsOrChecks(s)
                             /\ \E k \in DOMAIN emitted[t].checks :
                                  Generates(t, k) /\ <<c, d.name>> \in Called(TracedCalls(t, k))
    BY DEF AcceptedStatesFollowTraces
  <2> DEFINE f == SourceFact(s)
             rules == Evaluator!StateModules(Document)
             stateTests == Evaluator!OfType(Document, {"stateTest"})
             temporal == {t \in stateTests : Evaluator!HasOperationSequences(t)}
             Traces(g) == UNION {Evaluator!OperationSequenceReferences(t) :
                                   t \in Evaluator!SameDomain(temporal, g)}
             Surface(g) == Evaluator!CoreSurface(Document, g)
             states == Evaluator!OfType(Document, {"state"})
             unexercised == {g \in states : Evaluator!SameDomain(temporal, g) = {}}
  <2>1. Evaluator!Reports(rules) = {}
    BY DEF Accepted, Evaluator!Evaluate
  <2>2. /\ unexercised = {}
        /\ {g \in states \ unexercised : g.apiReferences \cap Traces(g) \cap Surface(g) = {}} = {}
    <3>1. \A rule \in DOMAIN rules : rules[rule] = {}
      BY <2>1, NoReports
    <3> QED
      BY <3>1 DEF Evaluator!StateModules
  <2>3. f \in states /\ s \in Owned /\ s \in DOMAIN emitted
    BY LabelledFiles, DocumentIsWhole DEF Labelled
  <2>4. PICK name \in f.apiReferences : name \in Traces(f) /\ name \in Surface(f)
    BY <2>2, <2>3
  <2>5. PICK g \in Evaluator!OfType(Evaluator!SameDomain(Document, f), {"core"}) :
          name \in g.decisionSurface
    BY <2>4 DEF Evaluator!CoreSurface
  <2>6. PICK c \in Labelled({"core"}) : g = SourceFact(c) /\ SameDomain(c, s)
    BY <2>3, <2>5, LabelledNeighbours
  <2>7. PICK d \in DecisionSurface(c) : name = d.name
    <3>1. SourceFact(c).decisionSurface = NamesOf(DecisionSurface(c))
      BY FactFields
    <3> QED
      BY <2>5, <2>6, <3>1 DEF NamesOf
  <2>8. PICK h \in Evaluator!OfType(Evaluator!SameDomain(Document, f), {"stateTest"}) :
          name \in Evaluator!OperationSequenceReferences(h)
    BY <2>4 DEF Evaluator!OfType, Evaluator!SameDomain
  <2>9. PICK t \in Labelled({"stateTest"}) : h = SourceFact(t) /\ SameDomain(t, s)
    BY <2>3, <2>8, LabelledNeighbours
  <2>10. c \in Files /\ name \in FunctionNames(c)
    <3>1. c \in Owned /\ c \in Files
      BY Numbered DEF Labelled, TInv, IInv
    <3> QED
      BY <2>7, <3>1 DEF FunctionsHaveBodies, DecisionSurface, NamesOf
  <2>11. name \in ApiReferences(s)
    <3>1. SourceFact(s).apiReferences = ApiReferences(s)
      BY FactFields
    <3> QED
      BY <2>4, <3>1
  <2>12. <<c, name>> \in CallsOrChecks(s)
    BY <2>3, <2>10, <2>11, ReferencedIsCalled
  <2>13. t \in DOMAIN emitted
    BY DocumentIsWhole DEF Labelled
  <2>14. \E k \in DOMAIN emitted[t].checks :
           Generates(t, k) /\ <<c, name>> \in Called(TracedCalls(t, k))
    BY <2>8, <2>9, <2>10, <2>13, SequencedIsTraced
  <2> QED
    BY <2>6, <2>7, <2>9, <2>12, <2>14
<1> QED
  BY <1>1, KeptInvariance, PTL
=============================================================================
