------------------------------ MODULE Expansion ------------------------------
(***************************************************************************)
(* expandedApiReferences of typescript/src/main.ts: a recursive expansion  *)
(* through the table of function references.  All calls share one visited  *)
(* set; each call has its own result, which its caller takes over.  A Set  *)
(* is iterated in insertion order, which is any order here.                *)
(*                                                                         *)
(* The stack holds the calls in progress, the innermost first.             *)
(***************************************************************************)
EXTENDS References, Sequences

CONSTANTS Tables,  \* the tables of function references
          Starts   \* the sets of references to expand

\* A table is a Map of the functions of a program.
ASSUME TablesAssumption == \A t \in Tables : IsFiniteSet(DOMAIN t)

VARIABLES table,     \* facts.functionReferences
          start,     \* the references of the outermost call
          visited,
          stack,     \* of [todo, expanded]
          returned   \* << >> or the result of the outermost call

vars == <<table, start, visited, stack, returned>>

Call(references) == [todo |-> references, expanded |-> {}]

Init ==
  /\ table \in Tables
  /\ start \in Starts
  /\ visited = {}
  /\ stack = <<Call(start)>>
  /\ returned = << >>

Top == stack[1]

\* The innermost call adds r to its result and is done with it.
Added(r) == [todo |-> Top.todo \ {r}, expanded |-> Top.expanded \cup {r}]

\* r was visited before, or no function is known by that name.
Skip(r) ==
  /\ stack # << >>
  /\ r \in Top.todo
  /\ r \in visited \/ r \notin DOMAIN table
  /\ visited' = visited \cup {r}
  /\ stack' = <<Added(r)>> \o Tail(stack)
  /\ UNCHANGED <<table, start, returned>>

Recurse_slip(r) ==
  /\ stack # << >>
  /\ r \in Top.todo
  /\ r \notin visited /\ r \in DOMAIN table
  /\ visited' = visited \cup {r} \cup table[r]
  /\ stack' = <<Call(table[r]), Added(r)>> \o Tail(stack)
  /\ UNCHANGED <<table, start, returned>>

\* r names a helper met for the first time.
Recurse(r) ==
  /\ stack # << >>
  /\ r \in Top.todo
  /\ r \notin visited /\ r \in DOMAIN table
  /\ visited' = visited \cup {r}
  /\ stack' = <<Call(table[r]), Added(r)>> \o Tail(stack)
  /\ UNCHANGED <<table, start, returned>>

Return_slip ==
  /\ stack # << >>
  /\ Top.todo = {}
  /\ Top.expanded # {}
  /\ UNCHANGED <<table, start, visited>>
  /\ IF Len(stack) = 1
       THEN returned' = <<Top.expanded>> /\ stack' = << >>
       ELSE /\ stack' = <<[stack[2] EXCEPT !.expanded = @ \cup Top.expanded]>>
                          \o Tail(Tail(stack))
            /\ UNCHANGED returned

\* The innermost call returns to its caller, or to the code that asked.
Return ==
  /\ stack # << >>
  /\ Top.todo = {}
  /\ UNCHANGED <<table, start, visited>>
  /\ IF Len(stack) = 1
       THEN returned' = <<Top.expanded>> /\ stack' = << >>
       ELSE /\ stack' = <<[stack[2] EXCEPT !.expanded = @ \cup Top.expanded]>>
                          \o Tail(Tail(stack))
            /\ UNCHANGED returned

Next == \/ stack # << >> /\ \E r \in Top.todo : Skip(r) \/ Recurse(r)
        \/ Return

Spec == Init /\ [][Next]_vars

FairSpec == Spec /\ WF_vars(Next)

---------------------------------------------------------------------------
\* References that lead only to themselves.
Closed(references) ==
  \A r \in references \cap DOMAIN table : table[r] \subseteq references

\* Sharing the visited set between the calls loses nothing: whatever the order,
\* and with helpers that call each other, the expansion is the least closed set
\* around the start.
ExpansionIsLeastClosed == \A i \in DOMAIN returned :
  /\ start \subseteq returned[i]
  /\ Closed(returned[i])
  /\ \A references \in SUBSET returned[i] :
       start \subseteq references /\ Closed(references) => references = returned[i]

\* The expansion is the one by which the model of the adapter expands.
ExpansionIsExpanded ==
  \A i \in DOMAIN returned : returned[i] = Expanded(table, start)

\* The recursion ends, also on recursive and mutually recursive helpers.
ExpansionEnds == <>(returned # << >>)
=============================================================================
