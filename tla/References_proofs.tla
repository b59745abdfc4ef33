-------------------------- MODULE References_proofs --------------------------
(***************************************************************************)
(* Facts about References: what the expansion by a finite table computes,  *)
(* for every table and start.  The recursive function of its definition    *)
(* exists, its layers grow, and the last one is the least closed set       *)
(* around the start.                                                       *)
(***************************************************************************)
EXTENDS References, FiniteSetTheorems, WellFoundedInduction, TLAPS

\* One layer on: what the helpers among the references mention as well.
EnteredBy(table, references) ==
  references \cup UNION {table[r] : r \in references \cap DOMAIN table}

\* f gives the layers of the expansion up to number k.
Layers(f, table, start, k) ==
  f = [n \in 0 .. k |-> IF n = 0 THEN start ELSE EnteredBy(table, f[n - 1])]

\* References that lead only to themselves.
ClosedBy(table, references) ==
  \A r \in references \cap DOMAIN table : table[r] \subseteq references

\* What is true of the first layer and handed on is true of all: induction, for
\* the set of the numbers of which it is true.
LEMMA Induction ==
  ASSUME NEW S, 0 \in S, \A n \in Nat : n \in S => n + 1 \in S
  PROVE  Nat \subseteq S
<1> DEFINE Missing == Nat \ S
           R == {ss \in Nat \X Nat : ss[1] < ss[2]}
<1>1. IsWellFoundedOn(R, Nat)
  BY NatLessThanWellFounded DEF OpToRel
<1>2. \A x, y \in Nat : <<y, x>> \in R <=> y < x
  OBVIOUS
<1> HIDE DEF R
<1> SUFFICES ASSUME Missing # {} PROVE FALSE
  OBVIOUS
<1>3. PICK m \in Missing : \A n \in Missing : ~ <<n, m>> \in R
  <2>1. Missing \subseteq Nat
    OBVIOUS
  <2> HIDE DEF Missing
  <2> QED
    BY <1>1, <2>1, WFMin
<1>4. m \in Nat /\ m # 0 /\ m \notin S
  BY <1>3
<1>5. m - 1 \in Nat /\ m - 1 < m /\ (m - 1) + 1 = m
  BY <1>4
<1>6. m - 1 \in S
  BY <1>2, <1>3, <1>4, <1>5
<1> QED
  BY <1>4, <1>5, <1>6

\* The layers of an expansion exist, up to any number.
LEMMA LayersExist ==
  ASSUME NEW table, NEW start, NEW k \in Nat
  PROVE  \E f : Layers(f, table, start, k)
<1> DEFINE S == {m \in Nat : \E f : Layers(f, table, start, m)}
<1>1. 0 \in S
  <2> DEFINE g == [n \in 0 .. 0 |-> start]
  <2>1. Layers(g, table, start, 0)
    BY DEF Layers
  <2> QED
    BY <2>1
<1>2. ASSUME NEW m \in Nat, m \in S
      PROVE  m + 1 \in S
  <2>1. PICK f : Layers(f, table, start, m)
    BY <1>2
  <2> DEFINE g == [n \in 0 .. m + 1 |-> IF n = m + 1 THEN EnteredBy(table, f[m]) ELSE f[n]]
  <2>2. \A n \in 0 .. m + 1 : g[n] = IF n = 0 THEN start ELSE EnteredBy(table, g[n - 1])
    BY <2>1 DEF Layers
  <2>3. Layers(g, table, start, m + 1)
    BY <2>2 DEF Layers
  <2> QED
    BY <2>3
<1> HIDE DEF S
<1>3. Nat \subseteq S
  BY <1>1, <1>2, Induction
<1> QED
  BY <1>3 DEF S

\* The expansion is the last of the layers that its recursive function defines.
LEMMA ExpandedIsLastLayer ==
  ASSUME NEW table, NEW start, Cardinality(DOMAIN table) \in Nat
  PROVE  \E f : /\ Layers(f, table, start, Cardinality(DOMAIN table))
                /\ Expanded(table, start) = f[Cardinality(DOMAIN table)]
<1> DEFINE k == Cardinality(DOMAIN table)
           layer[n \in 0 .. k] == IF n = 0 THEN start ELSE EnteredBy(table, layer[n - 1])
<1>1. Expanded(table, start) = layer[k]
  BY DEF Expanded, EnteredBy
<1>2. layer = CHOOSE f : Layers(f, table, start, k)
  BY DEF layer, Layers
<1> HIDE DEF layer
<1>3. \E f : Layers(f, table, start, k)
  BY LayersExist
<1>4. Layers(layer, table, start, k)
  BY <1>2, <1>3
<1> QED
  BY <1>1, <1>4

\* The first layer is the start, and each further one is entered from the one before.
LEMMA LayerEquations ==
  ASSUME NEW table, NEW start, NEW k \in Nat, NEW f, Layers(f, table, start, k)
  PROVE  /\ f[0] = start
         /\ \A n \in Nat : n + 1 <= k => f[n + 1] = EnteredBy(table, f[n])
  BY DEF Layers

\* A layer has the one before, and what the helpers of that one mention.
LEMMA EnteredGrows ==
  ASSUME NEW table, NEW references
  PROVE  /\ references \subseteq EnteredBy(table, references)
         /\ \A r \in references \cap DOMAIN table : table[r] \subseteq EnteredBy(table, references)
         /\ \A S : references \subseteq S /\ ClosedBy(table, S) => EnteredBy(table, references) \subseteq S
         /\ ClosedBy(table, references) => EnteredBy(table, references) = references
  BY DEF EnteredBy, ClosedBy

\* Layers stay inside every closed set around the start, and hold the start.
LEMMA LayersInside ==
  ASSUME NEW table, NEW start, NEW k \in Nat, NEW f, Layers(f, table, start, k),
         NEW S, start \subseteq S, ClosedBy(table, S)
  PROVE  \A n \in Nat : n <= k => start \subseteq f[n] /\ f[n] \subseteq S
<1> DEFINE T == {n \in Nat : n <= k => start \subseteq f[n] /\ f[n] \subseteq S}
<1>1. 0 \in T
  BY LayerEquations
<1>2. ASSUME NEW n \in Nat, n \in T
      PROVE  n + 1 \in T
  <2> SUFFICES ASSUME n + 1 <= k
               PROVE  start \subseteq f[n + 1] /\ f[n + 1] \subseteq S
    OBVIOUS
  <2>1. start \subseteq f[n] /\ f[n] \subseteq S
    BY <1>2
  <2>2. f[n + 1] = EnteredBy(table, f[n])
    BY LayerEquations
  <2> QED
    BY <2>1, <2>2, EnteredGrows
<1> HIDE DEF T
<1>3. Nat \subseteq T
  BY <1>1, <1>2, Induction
<1> QED
  BY <1>3 DEF T

\* The last layer holds the start and, if it is not the first, what is entered from that.
LEMMA LayersGrow ==
  ASSUME NEW table, NEW start, NEW k \in Nat, NEW f, Layers(f, table, start, k)
  PROVE  start \subseteq f[k] /\ (k # 0 => EnteredBy(table, start) \subseteq f[k])
<1> DEFINE T == {n \in Nat : n <= k =>
                   start \subseteq f[n] /\ (n # 0 => EnteredBy(table, start) \subseteq f[n])}
<1>1. 0 \in T
  BY LayerEquations
<1>2. ASSUME NEW n \in Nat, n \in T
      PROVE  n + 1 \in T
  <2> SUFFICES ASSUME n + 1 <= k
               PROVE  start \subseteq f[n + 1] /\ EnteredBy(table, start) \subseteq f[n + 1]
    OBVIOUS
  <2>1. start \subseteq f[n] /\ (n # 0 => EnteredBy(table, start) \subseteq f[n])
    BY <1>2
  <2>2. f[n + 1] = EnteredBy(table, f[n]) /\ f[0] = start
    BY LayerEquations
  <2>3. f[n] \subseteq f[n + 1]
    BY <2>2, EnteredGrows
  <2>4. n = 0 => EnteredBy(table, start) = f[n + 1]
    BY <2>2
  <2> QED
    BY <2>1, <2>3, <2>4
<1> HIDE DEF T
<1>3. Nat \subseteq T
  BY <1>1, <1>2, Induction
<1>4. k \in T
  BY <1>3
<1> QED
  BY <1>4 DEF T

\* A layer that is not closed has entered more functions than there were layers.
LEMMA LayersEnter ==
  ASSUME NEW table, NEW start, NEW k \in Nat, NEW f, Layers(f, table, start, k),
         IsFiniteSet(DOMAIN table)
  PROVE  \A n \in Nat : n <= k =>
           ClosedBy(table, f[n]) \/ Cardinality(f[n] \cap DOMAIN table) > n
<1> DEFINE Known(n) == f[n] \cap DOMAIN table
           T == {n \in Nat : n <= k => ClosedBy(table, f[n]) \/ Cardinality(Known(n)) > n}
<1>1. \A n : IsFiniteSet(Known(n)) /\ Cardinality(Known(n)) \in Nat
  BY FS_Subset, FS_CardinalityType
<1>2. 0 \in T
  <2>1. Known(0) = {} => ClosedBy(table, f[0])
    BY DEF ClosedBy
  <2>2. Known(0) # {} => Cardinality(Known(0)) # 0
    BY <1>1, FS_EmptySet
  <2>3. Cardinality(Known(0)) \in Nat
    BY <1>1
  <2> HIDE DEF Known
  <2> QED
    BY <2>1, <2>2, <2>3
<1>3. ASSUME NEW n \in Nat, n \in T
      PROVE  n + 1 \in T
  <2> SUFFICES ASSUME n + 1 <= k
               PROVE  ClosedBy(table, f[n + 1]) \/ Cardinality(Known(n + 1)) > n + 1
    OBVIOUS
  <2>1. ClosedBy(table, f[n]) \/ Cardinality(Known(n)) > n
    BY <1>3
  <2>2. f[n + 1] = EnteredBy(table, f[n])
    BY LayerEquations
  <2>3. f[n] \subseteq f[n + 1] /\ \A r \in Known(n) : table[r] \subseteq f[n + 1]
    BY <2>2, EnteredGrows
  <2>4. CASE ClosedBy(table, f[n])
    BY <2>2, <2>4, EnteredGrows
  <2>5. CASE Known(n + 1) = Known(n)
    BY <2>3, <2>5 DEF ClosedBy
  <2>6. CASE Known(n + 1) # Known(n) /\ Cardinality(Known(n)) > n
    <3>1. Known(n) \subseteq Known(n + 1)
      BY <2>3
    <3> HIDE DEF Known
    <3>2. /\ Cardinality(Known(n)) <= Cardinality(Known(n + 1))
          /\ Cardinality(Known(n)) # Cardinality(Known(n + 1))
      BY <1>1, <2>6, <3>1, FS_Subset
    <3> QED
      BY <1>1, <2>6, <3>2
  <2> QED
    BY <2>1, <2>4, <2>5, <2>6
<1> HIDE DEF T
<1>4. Nat \subseteq T
  BY <1>2, <1>3, Induction
<1> QED
  BY <1>4 DEF T

\* The expansion by a finite table holds the start, is closed, and is inside every
\* closed set around the start.
LEMMA ExpandedIsLeastClosed ==
  ASSUME NEW table, NEW start, IsFiniteSet(DOMAIN table)
  PROVE  /\ start \subseteq Expanded(table, start)
         /\ ClosedBy(table, Expanded(table, start))
         /\ \A S : start \subseteq S /\ ClosedBy(table, S) => Expanded(table, start) \subseteq S
<1> DEFINE k == Cardinality(DOMAIN table)
<1>1. k \in Nat
  BY FS_CardinalityType
<1>2. PICK f : Layers(f, table, start, k) /\ Expanded(table, start) = f[k]
  BY <1>1, ExpandedIsLastLayer
<1>3. ASSUME NEW S, start \subseteq S, ClosedBy(table, S)
      PROVE  start \subseteq f[k] /\ f[k] \subseteq S
  <2> HIDE DEF k
  <2>1. \A n \in Nat : n <= k => start \subseteq f[n] /\ f[n] \subseteq S
    BY <1>1, <1>2, <1>3, LayersInside
  <2> QED
    BY <1>1, <2>1
<1>4. start \subseteq f[k]
  <2> DEFINE S == start \cup f[k] \cup UNION {table[r] : r \in DOMAIN table}
  <2>1. start \subseteq S /\ ClosedBy(table, S)
    BY DEF ClosedBy
  <2> QED
    BY <1>3, <2>1
<1>5. ClosedBy(table, f[k])
  <2>1. ClosedBy(table, f[k]) \/ Cardinality(f[k] \cap DOMAIN table) > k
    BY <1>1, <1>2, LayersEnter
  <2>2. /\ Cardinality(f[k] \cap DOMAIN table) \in Nat
        /\ Cardinality(f[k] \cap DOMAIN table) <= k
    BY FS_Subset, FS_CardinalityType
  <2> QED
    BY <1>1, <2>1, <2>2
<1> QED
  BY <1>2, <1>3, <1>4, <1>5

\* A finite set has a finite image.
LEMMA FiniteImage ==
  ASSUME NEW f, NEW S, IsFiniteSet(S), S = DOMAIN f
  PROVE  IsFiniteSet({f[x] : x \in S})
<1> DEFINE T == {f[x] : x \in S}
           g == [x \in S |-> f[x]]
<1>1. g \in Surjection(S, T)
  BY DEF Surjection
<1> QED
  BY <1>1, FS_Surjection
=============================================================================
