------------------------ MODULE Requirements_proofs ------------------------
(***************************************************************************)
(* The two recursions over types (classifiedEffectRequirements of          *)
(* typescript/src/main.ts) find exactly the services that a type requires, *)
(* for every graph of types.                                               *)
(*                                                                         *)
(* Each recursion keeps its visited and pending types around its start and *)
(* closed but for what is pending.  The second one starts with the type in *)
(* question as visited, which loses nothing: what a type requires is made  *)
(* before it, and so are the parts of that.                                *)
(***************************************************************************)
EXTENDS Requirements, TLAPS

\* The parts of the type in question, what they require, and the parts of that.
Reached  == WithParts({root})
Required == UNION {RequirementsOf(t) : t \in Reached}
Needed   == WithParts(Required)

Collecting ==
  /\ visited \cup todo \subseteq Reached
  /\ root \in visited \cup todo
  /\ \A t \in visited : graph[t].parts \subseteq visited \cup todo
  /\ requirements = UNION {RequirementsOf(t) : t \in visited}
  /\ found = {}

\* The types that the second recursion has looked at.
Looked == visited \ {root}

Classifying ==
  /\ requirements = Required
  /\ Looked \cup todo \subseteq Needed
  /\ Required \subseteq Looked \cup todo
  /\ \A t \in Looked : graph[t].parts \subseteq Looked \cup todo
  /\ found = UNION {Classified(t) : t \in Looked}

IInv ==
  /\ graph \in Graphs
  /\ root \in Types
  /\ phase \in {"collect", "classify"}
  /\ phase = "collect" => Collecting
  /\ phase = "classify" => Classifying

---------------------------------------------------------------------------
\* A closed set around the start has all the parts.
LEMMA PartsAreLeast ==
  ASSUME NEW start, NEW types \in SUBSET Types,
         start \subseteq types, ClosedUnderParts(types)
  PROVE  WithParts(start) \subseteq types
BY DEF WithParts

\* The parts of types are themselves a closed set around the start.
LEMMA PartsAreClosed ==
  ASSUME graph \in Graphs, NEW start \in SUBSET Types
  PROVE  /\ start \subseteq WithParts(start)
         /\ WithParts(start) \subseteq Types
         /\ ClosedUnderParts(WithParts(start))
<1>1. start \subseteq WithParts(start) /\ WithParts(start) \subseteq Types
  BY DEF WithParts
<1>2. ASSUME NEW t \in WithParts(start), ~ graph[t].empty, NEW u \in graph[t].parts
      PROVE  u \in WithParts(start)
  <2>1. t \in Types /\ u \in Types
    BY <1>2, GraphsAssumption DEF WithParts, Types
  <2>2. ASSUME NEW types \in SUBSET Types, start \subseteq types, ClosedUnderParts(types)
        PROVE  u \in types
    BY <1>2, <2>2 DEF WithParts, ClosedUnderParts
  <2> QED
    BY <2>1, <2>2 DEF WithParts
<1> QED
  BY <1>1, <1>2 DEF ClosedUnderParts

\* What a type requires was made before it.
LEMMA RequirementsAreOlder ==
  ASSUME graph \in Graphs, NEW t \in Types, NEW u \in RequirementsOf(t)
  PROVE  u \in Types /\ u < t
<1>1. PICK r \in References(t) : 3 \in DOMAIN r.arguments /\ u = r.arguments[3]
  BY DEF RequirementsOf
<1>2. PICK k \in DOMAIN graph[t].candidates : r = graph[t].candidates[k]
  BY DEF References
<1> QED
  BY <1>1, <1>2, GraphsAssumption DEF Types

\* The parts of a type that was made before another were made before it as well.
LEMMA PartsAreOlder ==
  ASSUME graph \in Graphs, NEW t \in Types, NEW start \in SUBSET {u \in Types : u < t}
  PROVE  WithParts(start) \subseteq {u \in Types : u < t}
<1> DEFINE older == {u \in Types : u < t}
<1>1. ASSUME NEW v \in older, NEW w \in graph[v].parts
      PROVE  w \in older
  <2>1. w \in Types /\ w < v /\ v < t /\ {t, v, w} \subseteq Nat
    BY <1>1, GraphsAssumption DEF Types
  <2> QED
    BY <2>1
<1>2. older \in SUBSET Types /\ start \subseteq older /\ ClosedUnderParts(older)
  BY <1>1 DEF ClosedUnderParts
<1> HIDE DEF older
<1> QED
  BY <1>2, PartsAreLeast DEF older

\* The type in question is none of those that it requires, nor a part of one.
LEMMA RootIsNotNeeded ==
  ASSUME graph \in Graphs, root \in Types
  PROVE  /\ Required \subseteq Types
         /\ root \notin Needed
<1>1. \A t \in Reached : t \in Types /\ t <= root
  <2> DEFINE upTo == {u \in Types : u <= root}
  <2>1. ASSUME NEW v \in upTo, NEW w \in graph[v].parts
        PROVE  w \in upTo
    <3>1. w \in Types /\ w < v /\ v <= root /\ {root, v, w} \subseteq Nat
      BY <2>1, GraphsAssumption DEF Types
    <3> QED
      BY <3>1
  <2>2. root \in Nat
    BY GraphsAssumption DEF Types
  <2>3. upTo \in SUBSET Types /\ {root} \subseteq upTo /\ ClosedUnderParts(upTo)
    BY <2>1, <2>2 DEF ClosedUnderParts
  <2> HIDE DEF upTo
  <2>4. Reached \subseteq upTo
    BY <2>3, PartsAreLeast DEF Reached
  <2> QED
    BY <2>4 DEF upTo
<1>2. Required \subseteq {u \in Types : u < root}
  <2>1. ASSUME NEW t \in Reached, NEW u \in RequirementsOf(t)
        PROVE  u \in Types /\ u < root
    <3>1. u \in Types /\ u < t /\ t <= root /\ {t, u, root} \subseteq Nat
      BY <1>1, RequirementsAreOlder, GraphsAssumption DEF Types
    <3> QED
      BY <3>1
  <2> QED
    BY <2>1 DEF Required
<1>3. Needed \subseteq {u \in Types : u < root}
  BY <1>2, PartsAreOlder DEF Needed
<1>4. ~ root < root
  BY GraphsAssumption DEF Types
<1> QED
  BY <1>2, <1>3, <1>4

---------------------------------------------------------------------------
(* The invariant.                                                          *)

LEMMA InitIInv == Init => IInv
<1> SUFFICES ASSUME Init PROVE IInv
  OBVIOUS
<1>1. root \in Reached
  BY PartsAreClosed DEF Init, Reached
<1> QED
  BY <1>1 DEF Init, IInv, Collecting

LEMMA SameGraph ==
  ASSUME UNCHANGED <<graph, root>>
  PROVE  Reached' = Reached /\ Required' = Required /\ Needed' = Needed
BY DEF Reached, Required, Needed, WithParts, ClosedUnderParts, Types, RequirementsOf,
       References

LEMMA CollectStep ==
  ASSUME IInv, NEW t \in todo, CollectEffectRequirementTypes(t)
  PROVE  IInv'
<1> USE DEF CollectEffectRequirementTypes
<1>1. Collecting /\ phase' = "collect" /\ UNCHANGED <<graph, root, found>>
  BY DEF IInv
<1>2. Reached \subseteq Types /\ ClosedUnderParts(Reached)
  BY PartsAreClosed DEF IInv, Reached
<1>3. t \in Reached /\ t \in Types
  BY <1>1, <1>2 DEF Collecting
<1>4. graph[t].parts \subseteq Reached
  BY <1>2, <1>3, GraphsAssumption DEF IInv, ClosedUnderParts, Types
<1>5. visited' \cup todo' = visited \cup todo \cup graph[t].parts
  BY DEF Calls
<1>6. visited' \cup todo' \subseteq Reached' /\ root' \in visited' \cup todo'
  BY <1>1, <1>4, <1>5, SameGraph DEF Collecting
<1>7. \A u \in visited' : graph'[u].parts \subseteq visited' \cup todo'
  BY <1>1, <1>5 DEF Collecting
<1>8. requirements' = UNION {RequirementsOf(u) : u \in visited'}
  BY <1>1 DEF Collecting
<1>9. \A u : RequirementsOf(u)' = RequirementsOf(u)
  BY <1>1 DEF RequirementsOf, References, Types
<1>10. requirements' = UNION {RequirementsOf(u)' : u \in visited'}
  BY <1>8, <1>9
<1>11. Collecting'
  BY <1>1, <1>6, <1>7, <1>10 DEF Collecting
<1> QED
  BY <1>1, <1>11 DEF IInv, Types

LEMMA StartStep ==
  ASSUME IInv, StartClassifying
  PROVE  IInv'
<1> USE DEF StartClassifying
<1>1. Collecting /\ phase' = "classify" /\ UNCHANGED <<graph, root, requirements, found>>
  BY DEF IInv
<1>2. ClosedUnderParts(visited) /\ root \in visited /\ visited \subseteq Reached
  BY <1>1 DEF Collecting, ClosedUnderParts
<1>3. Reached \subseteq Types
  BY PartsAreClosed DEF IInv, Reached
<1>4. visited = Reached
  BY <1>2, <1>3, PartsAreLeast DEF Reached
<1>5. requirements = Required
  BY <1>1, <1>4 DEF Collecting, Required
<1>6. Required \subseteq Needed /\ root \notin Needed
  BY RootIsNotNeeded, PartsAreClosed DEF IInv, Needed
<1>7. Looked' = {}
  BY <1>1 DEF Looked
<1>8. todo' = Required
  BY <1>5, <1>6
<1>9. found' = UNION {Classified(t)' : t \in Looked'}
  BY <1>1, <1>7 DEF Collecting
<1>10. Classifying'
  BY <1>1, <1>5, <1>6, <1>7, <1>8, <1>9, SameGraph DEF Classifying
<1> QED
  BY <1>1, <1>10 DEF IInv, Types

LEMMA ClassifyStep ==
  ASSUME IInv, NEW t \in todo, ClassifiedRequirementTypes(t)
  PROVE  IInv'
<1> USE DEF ClassifiedRequirementTypes
<1>1. Classifying /\ phase' = "classify" /\ UNCHANGED <<graph, root, requirements>>
  BY DEF IInv
<1>2. Needed \subseteq Types /\ ClosedUnderParts(Needed) /\ root \notin Needed
  BY RootIsNotNeeded, PartsAreClosed DEF IInv, Needed
<1>3. t \in Needed /\ t \in Types /\ t # root
  BY <1>1, <1>2 DEF Classifying
<1>4. graph[t].parts \subseteq Needed
  BY <1>2, <1>3, GraphsAssumption DEF IInv, ClosedUnderParts, Types
<1>5. Looked' = Looked \cup {t}
  BY <1>1, <1>3 DEF Looked
<1>6. Looked' \cup todo' = Looked \cup todo \cup graph[t].parts
  <2>1. CASE graph[t].empty
    <3>1. graph[t].parts = {}
      BY <2>1, <1>3, GraphsAssumption DEF IInv, Types
    <3> QED
      BY <1>5, <2>1, <3>1
  <2>2. CASE ~ graph[t].empty
    <3>1. root \notin todo \cup graph[t].parts
      BY <1>1, <1>2, <1>4 DEF Classifying
    <3> QED
      BY <1>5, <2>2, <3>1 DEF Calls, Looked
  <2> QED
    BY <2>1, <2>2
<1>7. /\ Looked' \cup todo' \subseteq Needed'
      /\ Required' \subseteq Looked' \cup todo'
  BY <1>1, <1>4, <1>6, SameGraph DEF Classifying
<1>8. \A u \in Looked' : graph'[u].parts \subseteq Looked' \cup todo'
  BY <1>1, <1>5, <1>6 DEF Classifying
<1>9. found' = UNION {Classified(u) : u \in Looked'}
  BY <1>1, <1>5 DEF Classifying
<1>10. \A u : Classified(u)' = Classified(u)
  BY <1>1 DEF Classified
<1>11. found' = UNION {Classified(u)' : u \in Looked'}
  BY <1>9, <1>10
<1>12. requirements' = Required'
  BY <1>1, SameGraph DEF Classifying
<1>13. Classifying'
  BY <1>7, <1>8, <1>11, <1>12 DEF Classifying
<1> QED
  BY <1>1, <1>13 DEF IInv, Types

LEMMA StepIInv == IInv /\ [Next]_vars => IInv'
<1> SUFFICES ASSUME IInv, [Next]_vars
             PROVE  IInv'
  OBVIOUS
<1>1. CASE UNCHANGED vars
  <2>1. UNCHANGED <<graph, root, phase, todo, visited, requirements, found>>
    BY <1>1 DEF vars
  <2>2. Reached' = Reached /\ Required' = Required /\ Needed' = Needed
    BY <2>1, SameGraph
  <2>3. \A t : RequirementsOf(t)' = RequirementsOf(t) /\ Classified(t)' = Classified(t)
    BY <2>1 DEF RequirementsOf, References, Types, Classified
  <2>4. Collecting' = Collecting
    BY <2>1, <2>2, <2>3 DEF Collecting
  <2>5. Classifying' = Classifying
    BY <2>1, <2>2, <2>3 DEF Classifying, Looked
  <2> QED
    BY <2>1, <2>4, <2>5 DEF IInv, Types
<1> QED
  BY <1>1, CollectStep, StartStep, ClassifyStep DEF Next

\* For every graph of types, whatever the order of visits, the services found are those
\* of the parts of what the parts of the type require (classifiedEffectRequirements).
THEOREM RequirementsFound == Spec => []RequirementsAreFound
<1>1. IInv => RequirementsAreFound
  <2> SUFFICES ASSUME IInv, Done
               PROVE  found = UNION {Classified(t) : t \in Needed}
    BY DEF RequirementsAreFound, Reached, Required, Needed
  <2>1. Classifying /\ todo = {}
    BY DEF IInv, Done
  <2>2. Needed \subseteq Types
    BY RootIsNotNeeded, PartsAreClosed DEF IInv, Needed
  <2>3. Looked \in SUBSET Types /\ Required \subseteq Looked /\ ClosedUnderParts(Looked)
    BY <2>1, <2>2 DEF Classifying, ClosedUnderParts
  <2>4. Looked = Needed
    BY <2>1, <2>3, PartsAreLeast DEF Classifying, Needed
  <2> QED
    BY <2>1, <2>4 DEF Classifying
<1> QED
  BY <1>1, InitIInv, StepIInv, PTL DEF Spec
=============================================================================
