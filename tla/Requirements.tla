---------------------------- MODULE Requirements ----------------------------
(***************************************************************************)
(* Which effectful services a type requires (classifiedEffectRequirements  *)
(* of typescript/src/main.ts).  Two recursions over the types of the       *)
(* compiler, each with a set of visited types: one through unions and      *)
(* intersections to every Effect and Layer, one through what these require *)
(* to the services.  TypeScriptAdapter has what they find as the events    *)
(* whose source is a requirement.                                          *)
(*                                                                         *)
(* A program's types are numbered in the order in which the compiler makes *)
(* them.  A type record has                                                *)
(*   parts       the types that it unites or intersects                    *)
(*   empty       whether it is never, any or unknown                       *)
(*   candidates  the type and its apparent type: the alias symbol, or else *)
(*               the symbol, and the type arguments of each                *)
(*   symbols     all these symbols, those behind an alias included         *)
(* A symbol is [package, name], with no package for code outside packages. *)
(***************************************************************************)
EXTENDS Naturals, Sequences

CONSTANTS Graphs,    \* functions from the types of a program to their records
          Services   \* symbols of effectRequirementClassifications

\* A type is made after those that it is made of: aliases that name themselves are left
\* out.  Never, any and unknown have no parts.
ASSUME GraphsAssumption ==
  \A g \in Graphs :
    /\ DOMAIN g \subseteq Nat
    /\ \A t \in DOMAIN g : g[t].parts \subseteq {u \in DOMAIN g : u < t}
    /\ \A t \in DOMAIN g : g[t].empty => g[t].parts = {}
    /\ \A t \in DOMAIN g : \A k \in DOMAIN g[t].candidates :
         LET arguments == g[t].candidates[k].arguments
         IN  \A j \in DOMAIN arguments : arguments[j] \in {u \in DOMAIN g : u < t}

VARIABLES graph,
          root,          \* the type in question
          phase,
          todo,          \* types that calls of the recursion are to look at
          visited,
          requirements,  \* what effectRequirementTypes has collected
          found          \* classified services

vars == <<graph, root, phase, todo, visited, requirements, found>>

NoPackage == ""

Types == DOMAIN graph

\* typeReferenceInfo: the first candidate whose symbol stands in a package.
References(t) ==
  LET candidates == graph[t].candidates
      packaged == {k \in DOMAIN candidates : candidates[k].symbol.package # NoPackage}
  IN  {candidates[k] : k \in {j \in packaged : \A i \in packaged : j <= i}}

IsEffect(symbol) == symbol.package = "effect" /\ symbol.name \in {"Effect", "Layer"}

\* The third type argument of an Effect or a Layer, unless it is empty.
RequirementsOf(t) ==
  {r.arguments[3] : r \in {c \in References(t) : IsEffect(c.symbol) /\ 3 \in DOMAIN c.arguments}}
    \ {u \in Types : graph[u].empty}

Init ==
  /\ graph \in Graphs
  /\ root \in Types
  /\ phase = "collect"
  /\ todo = {root}
  /\ visited = {}
  /\ requirements = {}
  /\ found = {}

\* The calls that looking at type t makes, and those that are left.
Calls(t) == (todo \cup graph[t].parts) \ (visited \cup {t})

\* collectEffectRequirementTypes of one type.
CollectEffectRequirementTypes(t) ==
  /\ phase = "collect"
  /\ t \in todo
  /\ visited' = visited \cup {t}
  /\ todo' = Calls(t)
  /\ requirements' = requirements \cup RequirementsOf(t)
  /\ UNCHANGED <<graph, root, phase, found>>

StartClassifying_slip ==
  /\ phase = "collect"
  /\ todo = {}
  /\ phase' = "classify"
  /\ visited' = visited
  /\ todo' = requirements \ visited
  /\ UNCHANGED <<graph, root, requirements, found>>

\* The second recursion has the type in question in its own set of visited types.
StartClassifying ==
  /\ phase = "collect"
  /\ todo = {}
  /\ phase' = "classify"
  /\ visited' = {root}
  /\ todo' = requirements \ {root}
  /\ UNCHANGED <<graph, root, requirements, found>>

Classified(t) ==
  IF graph[t].empty \/ graph[t].parts # {} THEN {} ELSE graph[t].symbols \cap Services

\* classifiedRequirementTypes of one type.
ClassifiedRequirementTypes(t) ==
  /\ phase = "classify"
  /\ t \in todo
  /\ visited' = visited \cup {t}
  /\ todo' = IF graph[t].empty THEN todo \ {t} ELSE Calls(t)
  /\ found' = found \cup Classified(t)
  /\ UNCHANGED <<graph, root, phase, requirements>>

Next ==
  \/ StartClassifying
  \/ \E t \in todo : CollectEffectRequirementTypes(t) \/ ClassifiedRequirementTypes(t)

Spec == Init /\ [][Next]_vars

---------------------------------------------------------------------------
Done == phase = "classify" /\ todo = {}

\* No part of a type of the set is outside.
ClosedUnderParts(types) ==
  \A t \in types : ~ graph[t].empty => graph[t].parts \subseteq types

\* What is in every closed set of types around start.
WithParts(start) ==
  {t \in Types : \A types \in SUBSET Types :
                   start \subseteq types /\ ClosedUnderParts(types) => t \in types}

\* When the recursions end, exactly those services are found that some Effect or Layer
\* among the parts of the type requires, alone or in a union: no type that both
\* recursions meet, or that one meets twice, is skipped for that.
RequirementsAreFound == Done =>
  LET required == UNION {RequirementsOf(t) : t \in WithParts({root})}
  IN  found = UNION {Classified(t) : t \in WithParts(required)}
=============================================================================
