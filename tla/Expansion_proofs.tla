-------------------------- MODULE Expansion_proofs --------------------------
(***************************************************************************)
(* Proofs about Expansion: the recursion that shares its visited set       *)
(* computes a least closed set, which is the expansion by which the model  *)
(* of the adapter expands, for every table and start.                      *)
(***************************************************************************)
EXTENDS Expansion, References_proofs, SequenceTheorems

\* All references there are.
All == start \cup UNION {table[r] : r \in DOMAIN table}

Frames == [todo : SUBSET All, expanded : SUBSET All]

\* A stack with one more call.
Push(call, calls) == <<call>> \o calls

\* What the calls of a stack have or will have in their results, and what they have.
Holds(calls) == UNION {calls[k].todo \cup calls[k].expanded : k \in DOMAIN calls}
Has(calls)   == UNION {calls[k].expanded : k \in DOMAIN calls}

Results == UNION {returned[i] : i \in DOMAIN returned}

\* The result of the outermost call will hold this, by what is under way.
Pending == Holds(stack) \cup Results

TypeInv ==
  /\ stack \in Seq(Frames)
  /\ returned = << >> \/ (stack = << >> /\ \E s \in SUBSET All : returned = <<s>>)

\* Each visited helper was entered: its references are under way.
Entered == \A r \in visited \cap DOMAIN table : table[r] \subseteq Pending

\* Nothing is in a result that was not visited.
Visited == Has(stack) \cup Results \subseteq visited

\* Nothing is under way that the start does not lead to.
Reached == \A references \in SUBSET All :
  start \subseteq references /\ Closed(references) => Pending \subseteq references

IInv ==
  /\ TypeInv
  /\ start \subseteq Pending
  /\ Entered
  /\ Visited
  /\ Reached

---------------------------------------------------------------------------
(* Stacks.                                                                 *)

\* A pushed call adds what it holds.
LEMMA Pushed ==
  ASSUME NEW S, NEW call \in S, NEW calls \in Seq(S)
  PROVE  /\ Push(call, calls) \in Seq(S)
         /\ Holds(Push(call, calls)) = call.todo \cup call.expanded \cup Holds(calls)
         /\ Has(Push(call, calls)) = call.expanded \cup Has(calls)
<1> DEFINE pushed == Push(call, calls)
<1>1. /\ pushed \in Seq(S) /\ DOMAIN pushed = 1 .. Len(calls) + 1
      /\ pushed[1] = call /\ \A k \in 1 .. Len(calls) : pushed[k + 1] = calls[k]
      /\ DOMAIN calls = 1 .. Len(calls) /\ Len(calls) \in Nat
  BY DEF Push
<1> HIDE DEF pushed
<1>2. \A k \in DOMAIN pushed : k = 1 \/ (k - 1 \in DOMAIN calls /\ pushed[k] = calls[k - 1])
  BY <1>1
<1>3. 1 \in DOMAIN pushed /\ \A k \in DOMAIN calls : k + 1 \in DOMAIN pushed
  BY <1>1
<1>4. Holds(pushed) = call.todo \cup call.expanded \cup Holds(calls)
  BY <1>1, <1>2, <1>3 DEF Holds
<1>5. Has(pushed) = call.expanded \cup Has(calls)
  BY <1>1, <1>2, <1>3 DEF Has
<1> QED
  BY <1>1, <1>4, <1>5 DEF pushed

\* A stack is its innermost call on the others.
LEMMA Popped ==
  ASSUME NEW S, NEW calls \in Seq(S), calls # << >>
  PROVE  /\ calls[1] \in S /\ Tail(calls) \in Seq(S)
         /\ calls = Push(calls[1], Tail(calls))
         /\ Holds(calls) = calls[1].todo \cup calls[1].expanded \cup Holds(Tail(calls))
         /\ Has(calls) = calls[1].expanded \cup Has(Tail(calls))
<1>1. /\ calls[1] \in S /\ Tail(calls) \in Seq(S)
      /\ calls = Push(calls[1], Tail(calls))
  BY DEF Push
<1> DEFINE inner == calls[1]
           others == Tail(calls)
<1>2. inner \in S /\ others \in Seq(S) /\ calls = Push(inner, others)
  BY <1>1
<1> HIDE DEF inner, others
<1>3. /\ Holds(calls) = inner.todo \cup inner.expanded \cup Holds(others)
      /\ Has(calls) = inner.expanded \cup Has(others)
  BY <1>2, Pushed
<1> QED
  BY <1>1, <1>3 DEF inner, others

\* The caller of the innermost call is the innermost of the others.
LEMMA Callers ==
  ASSUME NEW S, NEW calls \in Seq(S), calls # << >>
  PROVE  /\ Len(calls) = 1 => Tail(calls) = << >>
         /\ Len(calls) # 1 => Tail(calls) # << >> /\ Tail(calls)[1] = calls[2]
<1>1. Len(calls) \in Nat /\ Len(calls) # 0 /\ Len(Tail(calls)) = Len(calls) - 1
  OBVIOUS
<1>2. Len(calls) # 1 => Len(Tail(calls)) > 0 /\ Tail(calls)[1] = calls[2]
  BY <1>1
<1>3. Tail(calls) \in Seq(S)
  OBVIOUS
<1>4. Len(Tail(calls)) = 0 <=> Tail(calls) = << >>
  BY <1>3, EmptySeq
<1> QED
  BY <1>1, <1>2, <1>4

\* An empty stack holds nothing.
LEMMA Emptied == Holds(<< >>) = {} /\ Has(<< >>) = {}
  BY DEF Holds, Has

---------------------------------------------------------------------------
(* The invariant is inductive.                                             *)

\* The initial states satisfy the invariant.
LEMMA InitIInv == Init => IInv
<1> SUFFICES ASSUME Init PROVE IInv
  OBVIOUS
<1> DEFINE first == Call(start)
           none == << >>
<1>1. stack = Push(first, none) /\ returned = << >> /\ visited = {}
  BY DEF Init, Push
<1>2. first \in Frames /\ first.todo = start /\ first.expanded = {}
  BY DEF Call, Frames, All
<1>3. none \in Seq(Frames) /\ Holds(none) = {} /\ Has(none) = {}
  BY Emptied
<1> HIDE DEF first, none
<1>4. stack \in Seq(Frames) /\ Holds(stack) = start /\ Has(stack) = {}
  <2>1. /\ Push(first, none) \in Seq(Frames)
        /\ Holds(Push(first, none)) = first.todo \cup first.expanded \cup Holds(none)
        /\ Has(Push(first, none)) = first.expanded \cup Has(none)
    <3>1. first \in Frames /\ none \in Seq(Frames)
      BY <1>2, <1>3
    <3> QED
      BY <3>1, Pushed
  <2> QED
    BY <1>1, <1>2, <1>3, <2>1
<1>5. Results = {}
  BY <1>1 DEF Results
<1>6. Pending = start
  BY <1>4, <1>5 DEF Pending
<1>7. TypeInv
  BY <1>1, <1>4 DEF TypeInv
<1>8. Entered /\ Visited
  BY <1>1, <1>4, <1>5 DEF Entered, Visited
<1>9. Reached
  BY <1>6 DEF Reached
<1> QED
  BY <1>6, <1>7, <1>8, <1>9 DEF IInv

\* What a step of the innermost call may do: take a reference of its own over, and
\* with it the references of a helper that it enters.
LEMMA StepInside ==
  ASSUME IInv, NEW r, stack # << >>, r \in Top.todo,
         visited' = visited \cup {r},
         UNCHANGED <<table, start, returned>>,
         \/ /\ r \in visited \/ r \notin DOMAIN table
            /\ stack' = <<Added(r)>> \o Tail(stack)
         \/ /\ r \in DOMAIN table
            /\ stack' = <<Call(table[r]), Added(r)>> \o Tail(stack)
  PROVE  IInv'
<1> DEFINE others == Tail(stack)
           added == Added(r)
           called == Call(table[r])
<1>1. stack \in Seq(Frames) /\ returned = << >>
  BY DEF IInv, TypeInv
<1>2. /\ Top \in Frames /\ others \in Seq(Frames)
      /\ Holds(stack) = Top.todo \cup Top.expanded \cup Holds(others)
      /\ Has(stack) = Top.expanded \cup Has(others)
  BY <1>1, Popped DEF Top
<1>3. /\ added \in Frames
      /\ added.todo \cup added.expanded = Top.todo \cup Top.expanded
      /\ added.expanded = Top.expanded \cup {r}
  BY <1>2 DEF Added, Frames
<1>4. r \in DOMAIN table => called \in Frames /\ called.todo = table[r] /\ called.expanded = {}
  BY DEF Call, Frames, All
<1>5. Results = {} /\ Results' = {}
  BY <1>1 DEF Results
<1> DEFINE below == Push(added, others)
<1>6. \/ (r \in visited \/ r \notin DOMAIN table) /\ stack' = below
      \/ r \in DOMAIN table /\ stack' = Push(called, below)
  <2> HIDE DEF added, called, others
  <2>1. others \in Seq(Frames) /\ added \in Frames
    BY <1>2, <1>3
  <2>2. r \in DOMAIN table => <<called, added>> \o others = Push(called, below)
    BY <1>4, <2>1 DEF Push
  <2> QED
    BY <2>2 DEF added, Push, called, others
<1> HIDE DEF added, called, others
<1>7. /\ below \in Seq(Frames) /\ Holds(below) = Holds(stack)
      /\ Has(below) = Has(stack) \cup {r}
  BY <1>2, <1>3, Pushed
<1> HIDE DEF below
<1>8. /\ stack' \in Seq(Frames)
      /\ Has(stack') = Has(stack) \cup {r}
      /\ Holds(stack) \subseteq Holds(stack')
      /\ r \in DOMAIN table => table[r] \subseteq Holds(stack') \/ r \in visited
      /\ Holds(stack') \subseteq Holds(stack) \cup (IF r \in DOMAIN table THEN table[r] ELSE {})
  <2>1. CASE (r \in visited \/ r \notin DOMAIN table) /\ stack' = below
    BY <1>7, <2>1
  <2>2. CASE r \in DOMAIN table /\ stack' = Push(called, below)
    <3>1. called \in Frames /\ called.todo = table[r] /\ called.expanded = {}
      BY <1>4, <2>2
    <3>2. /\ Push(called, below) \in Seq(Frames)
          /\ Holds(Push(called, below)) = called.todo \cup called.expanded \cup Holds(below)
          /\ Has(Push(called, below)) = called.expanded \cup Has(below)
      BY <1>7, <3>1, Pushed
    <3>3. /\ stack' \in Seq(Frames)
          /\ Holds(stack') = table[r] \cup Holds(stack)
          /\ Has(stack') = Has(stack) \cup {r}
      BY <1>7, <2>2, <3>1, <3>2
    <3> QED
      BY <2>2, <3>3
  <2> QED
    BY <1>6, <2>1, <2>2
<1>9. Pending = Holds(stack) /\ Pending' = Holds(stack')
  BY <1>5 DEF Pending
<1>10. All' = All /\ Frames' = Frames /\ r \in Pending
  BY <1>2, <1>9 DEF All, Frames
<1>11. start' \subseteq Pending'
  BY <1>8, <1>9 DEF IInv
<1>12. Entered'
  <2>1. ASSUME NEW helper \in visited' \cap DOMAIN table
        PROVE  table[helper] \subseteq Pending'
    <3>1. CASE helper \in visited
      BY <1>8, <1>9, <3>1 DEF IInv, Entered
    <3>2. CASE helper = r /\ r \notin visited
      BY <1>8, <1>9, <2>1, <3>2
    <3> QED
      BY <3>1, <3>2
  <2> QED
    BY <2>1 DEF Entered
<1>13. Visited'
  BY <1>5, <1>8 DEF IInv, Visited
<1>14. Reached'
  <2> SUFFICES ASSUME NEW CONSTANT references \in SUBSET All,
                      start \subseteq references, Closed(references)
               PROVE  Pending' \subseteq references
    BY <1>10 DEF Reached, Closed
  <2>1. Pending \subseteq references
    BY DEF IInv, Reached
  <2>2. r \in DOMAIN table => table[r] \subseteq references
    BY <1>10, <2>1 DEF Closed
  <2> QED
    BY <1>8, <1>9, <2>1, <2>2
<1>15. TypeInv'
  BY <1>1, <1>8, <1>10 DEF TypeInv
<1> QED
  BY <1>11, <1>12, <1>13, <1>14, <1>15 DEF IInv

\* What is reached depends on what is pending only.
LEMMA ReachedStays ==
  ASSUME Reached, Pending' = Pending, UNCHANGED <<table, start>>
  PROVE  Reached'
<1> SUFFICES ASSUME NEW CONSTANT references \in SUBSET All,
                    start \subseteq references, Closed(references)
             PROVE  Pending' \subseteq references
  BY DEF Reached, Closed, All
<1> QED
  BY DEF Reached

\* A call that returns hands on what it holds: all of it is in its result.
LEMMA StepOut ==
  ASSUME IInv, Return
  PROVE  IInv'
<1> DEFINE others == Tail(stack)
<1>1. /\ stack # << >> /\ Top.todo = {}
      /\ UNCHANGED <<table, start, visited>>
      /\ \/ Len(stack) = 1 /\ returned' = <<Top.expanded>> /\ stack' = << >>
         \/ /\ Len(stack) # 1 /\ returned' = returned
            /\ stack' = <<[stack[2] EXCEPT !.expanded = @ \cup Top.expanded]>> \o Tail(Tail(stack))
  BY DEF Return
<1>2. stack \in Seq(Frames) /\ returned = << >> /\ Results = {}
  BY <1>1 DEF IInv, TypeInv, Results
<1>3. /\ Top \in Frames /\ others \in Seq(Frames)
      /\ Holds(stack) = Top.expanded \cup Holds(others)
      /\ Has(stack) = Top.expanded \cup Has(others)
  BY <1>1, <1>2, Popped DEF Top
<1>4. /\ TypeInv'
      /\ Pending' = Pending
      /\ Has(stack') \cup Results' = Has(stack) \cup Results
  <2>1. All' = All /\ Frames' = Frames
    BY <1>1 DEF All, Frames
  <2>2. CASE Len(stack) = 1 /\ returned' = <<Top.expanded>> /\ stack' = << >>
    <3>1. others = << >>
      BY <1>1, <1>2, <2>2, Callers
    <3>2. Holds(others) = {} /\ Has(others) = {} /\ Holds(stack') = {} /\ Has(stack') = {}
      BY <2>2, <3>1, Emptied
    <3>3. Results' = Top.expanded
      BY <2>2 DEF Results
    <3>4. Top.expanded \in SUBSET All
      BY <1>3 DEF Frames
    <3>5. TypeInv'
      BY <2>1, <2>2, <3>4 DEF TypeInv
    <3> QED
      BY <1>2, <1>3, <3>2, <3>3, <3>5 DEF Pending
  <2>3. CASE /\ Len(stack) # 1 /\ returned' = returned
             /\ stack' = <<[stack[2] EXCEPT !.expanded = @ \cup Top.expanded]>> \o Tail(Tail(stack))
    <3> DEFINE caller == stack[2]
               rest == Tail(Tail(stack))
               resumed == [caller EXCEPT !.expanded = @ \cup Top.expanded]
    <3>1. others # << >> /\ others[1] = caller /\ Tail(others) = rest
      BY <1>1, <1>2, <2>3, Callers
    <3>2. /\ caller \in Frames /\ rest \in Seq(Frames)
          /\ Holds(others) = caller.todo \cup caller.expanded \cup Holds(rest)
          /\ Has(others) = caller.expanded \cup Has(rest)
      BY <1>3, <3>1, Popped
    <3>3. /\ resumed \in Frames /\ resumed.todo = caller.todo
          /\ resumed.expanded = caller.expanded \cup Top.expanded
      BY <1>3, <3>2 DEF Frames
    <3>4. stack' = Push(resumed, rest)
      BY <2>3 DEF Push
    <3> HIDE DEF caller, rest, resumed, others
    <3>5. /\ Push(resumed, rest) \in Seq(Frames)
          /\ Holds(Push(resumed, rest)) = resumed.todo \cup resumed.expanded \cup Holds(rest)
          /\ Has(Push(resumed, rest)) = resumed.expanded \cup Has(rest)
      BY <3>2, <3>3, Pushed
    <3>6. /\ stack' \in Seq(Frames) /\ Holds(stack') = Holds(stack) /\ Has(stack') = Has(stack)
      BY <1>3, <3>2, <3>3, <3>4, <3>5
    <3>7. Results' = Results
      BY <2>3 DEF Results
    <3>8. TypeInv'
      BY <1>2, <2>1, <2>3, <3>6 DEF TypeInv
    <3> QED
      BY <3>6, <3>7, <3>8 DEF Pending
  <2> QED
    BY <1>1, <2>2, <2>3
<1>5. start' \subseteq Pending' /\ Entered'
  BY <1>1, <1>4 DEF IInv, Entered
<1>6. Visited'
  BY <1>1, <1>4 DEF IInv, Visited
<1>7. Reached'
  BY <1>1, <1>4, ReachedStays DEF IInv
<1> QED
  BY <1>4, <1>5, <1>6, <1>7 DEF IInv

\* Every step keeps the invariant.
LEMMA StepIInv == IInv /\ [Next]_vars => IInv'
<1> SUFFICES ASSUME IInv, [Next]_vars PROVE IInv'
  OBVIOUS
<1>1. ASSUME NEW r, stack # << >>, r \in Top.todo, Skip(r)
      PROVE  IInv'
  BY <1>1, StepInside DEF Skip
<1>2. ASSUME NEW r, stack # << >>, r \in Top.todo, Recurse(r)
      PROVE  IInv'
  BY <1>2, StepInside DEF Recurse
<1>3. CASE Return
  BY <1>3, StepOut
<1>4. CASE UNCHANGED vars
  <2>1. Pending' = Pending /\ Results' = Results /\ Has(stack)' = Has(stack)
        /\ All' = All /\ Frames' = Frames
    BY <1>4 DEF vars, Pending, Results, Holds, Has, All, Frames
  <2>2. TypeInv' /\ start' \subseteq Pending' /\ Entered' /\ Visited'
    BY <1>4, <2>1 DEF vars, IInv, TypeInv, Entered, Visited
  <2>3. Reached'
    BY <1>4, <2>1, ReachedStays DEF vars, IInv
  <2> QED
    BY <2>2, <2>3 DEF IInv
<1> QED
  BY <1>1, <1>2, <1>3, <1>4 DEF Next

---------------------------------------------------------------------------
\* When the recursion of expandedApiReferences (main.ts) has ended, its result is
\* the least set that holds the start and the references of every helper in it,
\* whatever the table, recursive helpers included, and the order of its Sets.
THEOREM LeastClosed == Spec => []ExpansionIsLeastClosed
<1>1. Init => IInv
  BY InitIInv
<1>2. IInv /\ [Next]_vars => IInv'
  BY StepIInv
<1>3. ASSUME IInv, NEW i \in DOMAIN returned
      PROVE  /\ start \subseteq returned[i]
             /\ Closed(returned[i])
             /\ \A references \in SUBSET returned[i] :
                  start \subseteq references /\ Closed(references) => references = returned[i]
  <2>1. /\ stack = << >> /\ returned[i] \in SUBSET All
        /\ Results = returned[i]
    BY <1>3 DEF IInv, TypeInv, Results
  <2>2. Pending = returned[i] /\ returned[i] \subseteq visited
    BY <1>3, <2>1, Emptied DEF Pending, IInv, Visited
  <2>3. start \subseteq returned[i] /\ Closed(returned[i])
    BY <1>3, <2>2 DEF IInv, Entered, Closed
  <2>4. \A references \in SUBSET returned[i] :
          start \subseteq references /\ Closed(references) => references = returned[i]
    BY <1>3, <2>1, <2>2 DEF IInv, Reached
  <2> QED
    BY <2>3, <2>4
<1>4. IInv => ExpansionIsLeastClosed
  BY <1>3 DEF ExpansionIsLeastClosed
<1> QED
  BY <1>1, <1>2, <1>4, PTL DEF Spec

\* The table is the one that the recursion was started with.
LEMMA TableStays == Spec => [](table \in Tables)
<1>1. Init => table \in Tables
  BY DEF Init
<1>2. table \in Tables /\ [Next]_vars => (table \in Tables)'
  BY DEF Next, Skip, Recurse, Return, vars
<1> QED
  BY <1>1, <1>2, PTL DEF Spec

\* The recursion of expandedApiReferences (main.ts) and the expansion in layers, by
\* which the model of the adapter expands, have the same result for every table.
THEOREM RecursionIsExpanded == Spec => []ExpansionIsExpanded
<1>1. ASSUME table \in Tables, ExpansionIsLeastClosed, NEW i \in DOMAIN returned
      PROVE  returned[i] = Expanded(table, start)
  <2> DEFINE result == returned[i]
             layered == Expanded(table, start)
  <2>1. /\ start \subseteq result /\ ClosedBy(table, result)
        /\ \A references \in SUBSET result :
             start \subseteq references /\ ClosedBy(table, references) => references = result
    BY <1>1 DEF ExpansionIsLeastClosed, Closed, ClosedBy
  <2>2. IsFiniteSet(DOMAIN table)
    BY <1>1, TablesAssumption
  <2>3. /\ start \subseteq layered /\ ClosedBy(table, layered)
        /\ \A S : start \subseteq S /\ ClosedBy(table, S) => layered \subseteq S
    BY <2>2, ExpandedIsLeastClosed
  <2> HIDE DEF result, layered
  <2>4. layered \subseteq result
    BY <2>1, <2>3
  <2>5. layered = result
    BY <2>1, <2>3, <2>4
  <2> QED
    BY <2>5 DEF result, layered
<1>2. table \in Tables /\ ExpansionIsLeastClosed => ExpansionIsExpanded
  BY <1>1 DEF ExpansionIsExpanded
<1> QED
  BY <1>2, LeastClosed, TableStays, PTL
=============================================================================
