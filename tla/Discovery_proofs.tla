-------------------------- MODULE Discovery_proofs --------------------------
(***************************************************************************)
(* Proofs about Discovery, for every tree: what the two walks find.        *)
(*                                                                         *)
(*   WalkInv     what the walk of the sources has found, and that each     *)
(*               source it has not is below a call still to make           *)
(*   PatternInv  the same of the patterns: a call to make, or a package,   *)
(*               takes a beginning of a pattern for a path; and a path     *)
(*               that a pattern matches is a package or is to be reached   *)
(*               by a call                                                 *)
(***************************************************************************)
EXTENDS Discovery, SequenceTheorems, WellFoundedInduction, TLAPS

\* A call of the walk: a directory under the root that nothing ignores.
Walkable(c) ==
  /\ c = Call(c.directory, << >>)
  /\ c.directory \in tree.directories
  /\ IsPrefix(tree.root, c.directory)
  /\ \A k \in Len(tree.root) + 1 .. Len(c.directory) : c.directory[k] \notin Ignored

\* A source that is found, or below a call still to make.
Due(f) ==
  f \in owned \/ \E k \in Len(tree.root) .. Len(f) - 1 : Call(SubSeq(f, 1, k), << >>) \in todo

WalkInv ==
  /\ tree \in Trees
  /\ owned \subseteq UnderRoot
  /\ phase = "sources" => (\A c \in todo : Walkable(c)) /\ (\A f \in UnderRoot : Due(f))
  /\ AnalysisIsComplete

---------------------------------------------------------------------------
Wild(segment) == segment \in {"*", "**"}

\* A path falls to a pattern name by name, in order.
Assigned(path, pattern, segment) ==
  /\ segment \in [DOMAIN path -> Steps(pattern)]
  /\ \A j, k \in DOMAIN path : j < k => segment[j] <= segment[k]
  /\ \A k \in DOMAIN path : IF Wild(pattern[segment[k]]) THEN Listed(path, k)
                                                         ELSE path[k] = pattern[segment[k]]

\* Each of these segments but double wildcards has its one name.
Used(path, pattern, segment, segments) == \A s \in segments \cap Steps(pattern) : pattern[s] # "**" =>
  \E k \in DOMAIN path : \A j \in DOMAIN path : segment[j] = s <=> j = k

\* A name that falls to the first n segments, or to a double wildcard after them.
Falls(pattern, n, s) == s <= n \/ (s = n + 1 /\ pattern[n + 1] = "**")

\* The path takes the first n segments.
Takes(path, pattern, n, segment) ==
  /\ Assigned(path, pattern, segment)
  /\ \A k \in DOMAIN path : Falls(pattern, n, segment[k])
  /\ Used(path, pattern, segment, 1 .. n)

\* A call of visit: what is left of a pattern whose beginning the directory takes.
Rest(pattern, n) == SubSeq(pattern, n + 1, Len(pattern))

Reached(c) ==
  /\ c.directory \in Seq(STRING)
  /\ \E p \in tree.patterns : \E n \in 0 .. Len(p) :
       /\ c = Call(c.directory, Rest(p, n))
       /\ \E segment \in [DOMAIN c.directory -> Steps(p)] : Takes(c.directory, p, n, segment)

\* The first j names of the path fall to the first n segments, the others to later ones.
Parted(path, pattern, segment, j, n) ==
  /\ \A k \in 1 .. j : Falls(pattern, n, segment[k])
  /\ \A k \in j + 1 .. Len(path) : segment[k] > n

\* The package is found, or a call that is to reach it by this assignment is to be made.
Expected(path, pattern, segment) ==
  \/ Real(path) \in packages
  \/ \E j \in 0 .. Len(path), n \in 0 .. Len(pattern) :
       /\ Call(SubSeq(path, 1, j), Rest(pattern, n)) \in todo
       /\ Parted(path, pattern, segment, j, n)

\* A package is what a pattern matches.
Justified(root) ==
  /\ HasManifest(<< >>)
  /\ \E d \in Places : /\ root = Real(d) /\ HasManifest(d)
                       /\ \E p \in tree.patterns : Matches(d, p)

AllExpected ==
  \A d \in Places, p \in tree.patterns : HasManifest(d) =>
    \A segment \in [DOMAIN d -> Steps(p)] :
      Assigned(d, p, segment) /\ Used(d, p, segment, Steps(p)) => Expected(d, p, segment)

PatternInv ==
  /\ phase = "sources" => packages = {}
  /\ phase = "packages" => \A c \in todo : Reached(c) /\ HasManifest(<< >>)
  /\ \A root \in packages : Justified(root)
  /\ phase \in {"packages", "done"} /\ HasManifest(<< >>) => AllExpected
  /\ phase = "done" => todo = {}

---------------------------------------------------------------------------
(* Paths.                                                                  *)

\* The names of a path but the last, and the last.
LEMMA Ends ==
  ASSUME NEW p \in Seq(STRING), p # << >>
  PROVE  /\ Len(p) \in Nat \ {0}
         /\ Front(p) \in Seq(STRING) /\ Len(Front(p)) = Len(p) - 1
         /\ \A i \in 1 .. Len(p) - 1 : Front(p)[i] = p[i]
         /\ Last(p) \in STRING
         /\ p = Append(Front(p), Last(p))
<1>1. Len(p) \in Nat \ {0}
  BY EmptySeq
<1>2. \A i \in 1 .. Len(p) - 1 : p[i] \in STRING
  BY <1>1, ElementOfSeq
<1>3. /\ Front(p) \in Seq(STRING) /\ Len(Front(p)) = Len(p) - 1
      /\ \A i \in 1 .. Len(p) - 1 : Front(p)[i] = p[i]
  <2> DEFINE m == Len(p) - 1
  <2>1. m \in Nat /\ m - 1 + 1 = m /\ \A i \in 1 .. m : 1 + i - 1 = i
    BY <1>1
  <2>2. \A i \in 1 .. m : p[i] \in STRING
    BY <1>2
  <2> HIDE DEF m
  <2>3. /\ SubSeq(p, 1, m) \in Seq(STRING)
        /\ Len(SubSeq(p, 1, m)) = IF 1 <= m THEN m - 1 + 1 ELSE 0
        /\ \A i \in 1 .. m - 1 + 1 : SubSeq(p, 1, m)[i] = p[1 + i - 1]
    BY <2>1, <2>2, SubSeqProperties
  <2>4. Len(SubSeq(p, 1, m)) = m /\ \A i \in 1 .. m : SubSeq(p, 1, m)[i] = p[i]
    BY <2>1, <2>3
  <2> QED
    BY <2>3, <2>4 DEF Front, m
<1>4. Last(p) \in STRING
  BY <1>1, ElementOfSeq DEF Last
<1>5. p = Append(Front(p), Last(p))
  <2> DEFINE q == Append(Front(p), Last(p))
  <2>1. /\ q \in Seq(STRING) /\ Len(q) = Len(p) - 1 + 1
        /\ \A i \in 1 .. Len(p) - 1 : q[i] = Front(p)[i]
        /\ q[Len(p) - 1 + 1] = Last(p)
    BY <1>3, <1>4, AppendProperties
  <2> HIDE DEF q
  <2>2. \A i \in 1 .. Len(p) : p[i] = q[i]
    <3> TAKE i \in 1 .. Len(p)
    <3>1. CASE i = Len(p)
      BY <1>1, <2>1, <3>1 DEF Last
    <3>2. CASE i \in 1 .. Len(p) - 1
      BY <1>1, <1>3, <2>1, <3>2
    <3> QED
      BY <1>1, <3>1, <3>2
  <2>3. p = q
    BY <1>1, <2>1, <2>2, SeqEqual
  <2> QED
    BY <2>3 DEF q
<1> QED
  BY <1>1, <1>3, <1>4, <1>5

\* The first names of a path.
LEMMA Beginnings ==
  ASSUME NEW p \in Seq(STRING), NEW k \in 0 .. Len(p)
  PROVE  /\ Len(p) \in Nat
         /\ SubSeq(p, 1, k) \in Seq(STRING) /\ Len(SubSeq(p, 1, k)) = k
         /\ DOMAIN SubSeq(p, 1, k) = 1 .. k
         /\ \A i \in 1 .. k : SubSeq(p, 1, k)[i] = p[i]
<1>1. Len(p) \in Nat
  BY LenProperties
<1>2. \A i \in 1 .. k : p[i] \in STRING
  BY <1>1, ElementOfSeq
<1>3. /\ SubSeq(p, 1, k) \in Seq(STRING) /\ Len(SubSeq(p, 1, k)) = k
      /\ \A i \in 1 .. k : SubSeq(p, 1, k)[i] = p[i]
  BY <1>1, <1>2, SubSeqProperties
<1> QED
  BY <1>1, <1>3, LenProperties

\* One more name.
LEMMA NextName ==
  ASSUME NEW p \in Seq(STRING), NEW k \in 1 .. Len(p)
  PROVE  /\ p[k] \in STRING
         /\ SubSeq(p, 1, k) # << >>
         /\ Front(SubSeq(p, 1, k)) = SubSeq(p, 1, k - 1)
         /\ Last(SubSeq(p, 1, k)) = p[k]
         /\ SubSeq(p, 1, k) = Append(SubSeq(p, 1, k - 1), p[k])
<1> DEFINE q == SubSeq(p, 1, k)
           r == SubSeq(p, 1, k - 1)
<1>1. Len(p) \in Nat
  BY LenProperties
<1>2. k \in 0 .. Len(p) /\ k - 1 \in 0 .. Len(p)
  BY <1>1
<1>3. /\ q \in Seq(STRING) /\ Len(q) = k
      /\ \A i \in 1 .. k : q[i] = p[i]
  BY <1>2, Beginnings
<1>4. /\ r \in Seq(STRING) /\ Len(r) = k - 1
      /\ \A i \in 1 .. k - 1 : r[i] = p[i]
  BY <1>2, Beginnings
<1> HIDE DEF q, r
<1>5. q # << >>
  BY <1>1, <1>3, EmptySeq
<1>6. /\ Front(q) \in Seq(STRING) /\ Len(Front(q)) = Len(q) - 1
      /\ \A i \in 1 .. Len(q) - 1 : Front(q)[i] = q[i]
      /\ q = Append(Front(q), Last(q))
  BY <1>3, <1>5, Ends
<1>7. \A i \in 1 .. k - 1 : Front(q)[i] = r[i]
  BY <1>1, <1>3, <1>4, <1>6
<1>8. Front(q) = r
  BY <1>3, <1>4, <1>6, <1>7, SeqEqual
<1>9. Last(q) = p[k]
  BY <1>1, <1>3 DEF Last
<1>10. p[k] \in STRING
  BY ElementOfSeq
<1> QED
  BY <1>5, <1>6, <1>8, <1>9, <1>10 DEF q, r

\* The first names of a path's first names.
LEMMA ShorterBeginnings ==
  ASSUME NEW p \in Seq(STRING), NEW k \in 0 .. Len(p), NEW j \in 0 .. k
  PROVE  SubSeq(SubSeq(p, 1, k), 1, j) = SubSeq(p, 1, j)
<1> DEFINE q == SubSeq(p, 1, k)
           r == SubSeq(p, 1, j)
           s == SubSeq(q, 1, j)
<1>1. /\ Len(p) \in Nat
      /\ q \in Seq(STRING) /\ Len(q) = k
      /\ \A i \in 1 .. k : q[i] = p[i]
  BY Beginnings
<1>2. j \in 0 .. Len(p)
  BY <1>1
<1>3. /\ r \in Seq(STRING) /\ Len(r) = j
      /\ \A i \in 1 .. j : r[i] = p[i]
  BY <1>2, Beginnings
<1> HIDE DEF q, r
<1>4. /\ s \in Seq(STRING) /\ Len(s) = j
      /\ \A i \in 1 .. j : s[i] = q[i]
  BY <1>1, Beginnings
<1> HIDE DEF s
<1>5. \A i \in 1 .. j : s[i] = r[i]
  BY <1>1, <1>3, <1>4
<1>6. s = r
  BY <1>3, <1>4, <1>5, SeqEqual
<1> QED
  BY <1>6 DEF q, r, s

\* A path with a name added.
LEMMA Added ==
  ASSUME NEW p \in Seq(STRING), NEW n \in STRING
  PROVE  /\ Len(p) \in Nat
         /\ Append(p, n) \in Seq(STRING) /\ Append(p, n) # << >>
         /\ Len(Append(p, n)) = Len(p) + 1
         /\ DOMAIN p = 1 .. Len(p) /\ DOMAIN Append(p, n) = 1 .. Len(p) + 1
         /\ \A i \in 1 .. Len(p) : Append(p, n)[i] = p[i]
         /\ Append(p, n)[Len(p) + 1] = n
         /\ Front(Append(p, n)) = p /\ Last(Append(p, n)) = n
         /\ \A k \in 0 .. Len(p) : SubSeq(Append(p, n), 1, k) = SubSeq(p, 1, k)
<1> DEFINE q == Append(p, n)
<1>1. Len(p) \in Nat /\ DOMAIN p = 1 .. Len(p)
  BY LenProperties
<1>2. /\ q \in Seq(STRING) /\ q # << >> /\ Len(q) = Len(p) + 1
      /\ \A i \in 1 .. Len(p) : q[i] = p[i]
      /\ q[Len(p) + 1] = n
  <2>1. q \in Seq(STRING) /\ q # << >>
    BY AppendProperties
  <2>2. Len(q) = Len(p) + 1
    BY AppendProperties
  <2>3. \A i \in 1 .. Len(p) : q[i] = p[i]
    BY AppendProperties
  <2>4. q[Len(p) + 1] = n
    BY AppendProperties
  <2> QED
    BY <2>1, <2>2, <2>3, <2>4
<1> HIDE DEF q
<1>3. DOMAIN q = 1 .. Len(p) + 1
  BY <1>2, LenProperties
<1>4. Len(p) \in 0 .. Len(q) /\ Len(p) + 1 \in 1 .. Len(q)
  BY <1>1, <1>2
<1>5. /\ SubSeq(q, 1, Len(p)) \in Seq(STRING) /\ Len(SubSeq(q, 1, Len(p))) = Len(p)
      /\ \A i \in 1 .. Len(p) : SubSeq(q, 1, Len(p))[i] = q[i]
  BY <1>2, <1>4, Beginnings
<1>6. SubSeq(q, 1, Len(p)) = p
  BY <1>2, <1>5, SeqEqual
<1>7. Front(q) = p /\ Last(q) = n
  <2>1. Len(q) - 1 = Len(p)
    BY <1>1, <1>2
  <2> QED
    BY <1>2, <1>6, <2>1 DEF Front, Last
<1>8. \A k \in 0 .. Len(p) : SubSeq(q, 1, k) = SubSeq(p, 1, k)
  BY <1>2, <1>4, <1>6, ShorterBeginnings
<1> QED
  BY <1>1, <1>2, <1>3, <1>7, <1>8 DEF q

\* Prefixes are first names.
LEMMA PrefixIsBeginning ==
  ASSUME NEW s \in Seq(STRING), NEW t \in Seq(STRING)
  PROVE  /\ IsPrefix(s, t) <=> Len(s) <= Len(t) /\ s = SubSeq(t, 1, Len(s))
         /\ IsStrictPrefix(s, t) <=> Len(s) < Len(t) /\ s = SubSeq(t, 1, Len(s))
<1>1. Len(s) \in Nat /\ Len(t) \in Nat
  BY LenProperties
<1>2. SubSeq(s, 1, Len(s)) = s /\ SubSeq(t, 1, Len(t)) = t
  BY SubSeqFull
<1> QED
  BY <1>1, <1>2 DEF IsPrefix, IsStrictPrefix

---------------------------------------------------------------------------
(* The sources.                                                            *)

\* What a tree is.
LEMMA InTree ==
  ASSUME tree \in Trees
  PROVE  /\ tree.directories \subseteq Seq(STRING) /\ tree.files \subseteq Seq(STRING)
         /\ tree.patterns \subseteq Seq(STRING) /\ DOMAIN tree.links \subseteq Seq(STRING)
         /\ tree.root \in tree.directories
         /\ \A link \in DOMAIN tree.links : tree.links[link] \in tree.directories
         /\ \A p \in tree.directories \cup tree.files : \A k \in 0 .. Len(p) :
              /\ SubSeq(p, 1, k) \notin DOMAIN tree.links
              /\ k < Len(p) => SubSeq(p, 1, k) \in tree.directories
BY TreesAssumption DEF TreesAssumption

\* A directory has no link in its path.
LEMMA RealDirectory ==
  ASSUME tree \in Trees, NEW d \in tree.directories
  PROVE  Real(d) = d
<1>1. \A k \in 0 .. Len(d) : SubSeq(d, 1, k) \notin DOMAIN tree.links
  BY InTree
<1>2. {k \in 0 .. Len(d) : SubSeq(d, 1, k) \in DOMAIN tree.links} = {}
  BY <1>1
<1> QED
  BY <1>2 DEF Real

\* A source under the root, with the directories around it.
LEMMA Source ==
  ASSUME tree \in Trees, NEW f \in UnderRoot
  PROVE  /\ f \in tree.files /\ f \in Seq(STRING) /\ f # << >>
         /\ Len(tree.root) \in Nat /\ Len(f) \in Nat /\ Len(tree.root) < Len(f)
         /\ tree.root = SubSeq(f, 1, Len(tree.root))
         /\ Last(f) \in SourceNames
         /\ \A k \in Len(tree.root) + 1 .. Len(f) - 1 : f[k] \notin Ignored
<1>1. f \in tree.files /\ IsStrictPrefix(tree.root, f) /\ Last(f) \in SourceNames
      /\ \A k \in Len(tree.root) + 1 .. Len(f) - 1 : f[k] \notin Ignored
  BY DEF UnderRoot
<1>2. f \in Seq(STRING) /\ tree.root \in Seq(STRING)
  BY <1>1, InTree
<1>3. Len(tree.root) \in Nat /\ Len(f) \in Nat
  BY <1>2, LenProperties
<1>4. Len(tree.root) < Len(f) /\ tree.root = SubSeq(f, 1, Len(tree.root))
  BY <1>1, <1>2, PrefixIsBeginning
<1>5. f # << >>
  BY <1>3, <1>4, EmptySeq
<1> QED
  BY <1>1, <1>2, <1>3, <1>4, <1>5

\* The walk begins above every source.
LEMMA RootIsAbove ==
  ASSUME tree \in Trees, todo = {Call(tree.root, << >>)}
  PROVE  /\ \A c \in todo : Walkable(c)
         /\ \A f \in UnderRoot : Due(f)
<1>1. tree.root \in tree.directories /\ tree.root \in Seq(STRING)
  BY InTree
<1>2. Len(tree.root) \in Nat /\ SubSeq(tree.root, 1, Len(tree.root)) = tree.root
  BY <1>1, LenProperties, SubSeqFull
<1>3. IsPrefix(tree.root, tree.root)
  BY <1>1, <1>2, PrefixIsBeginning
<1>4. ASSUME NEW c \in todo  PROVE Walkable(c)
  <2>1. c = Call(tree.root, << >>) /\ c.directory = tree.root
    BY DEF Call
  <2>2. \A k \in Len(tree.root) + 1 .. Len(tree.root) : FALSE
    BY <1>2
  <2> QED
    BY <1>1, <1>3, <2>1, <2>2 DEF Walkable
<1>5. ASSUME NEW f \in UnderRoot  PROVE Due(f)
  <2>1. /\ Len(tree.root) \in Nat /\ Len(f) \in Nat /\ Len(tree.root) < Len(f)
        /\ tree.root = SubSeq(f, 1, Len(tree.root))
    BY Source
  <2>2. Len(tree.root) \in Len(tree.root) .. Len(f) - 1
    BY <2>1
  <2>3. Call(SubSeq(f, 1, Len(tree.root)), << >>) \in todo
    BY <2>1
  <2> QED
    BY <2>2, <2>3 DEF Due
<1> QED
  BY <1>4, <1>5

\* A step of the walk finds sources, and calls for directories that are to be walked.
LEMMA WalkFinds ==
  ASSUME WalkInv, NEW c \in todo, WalkDirectory(c)
  PROVE  owned' \subseteq UnderRoot /\ \A d \in todo' : Walkable(d)
<1>1. /\ tree \in Trees /\ owned \subseteq UnderRoot /\ Walkable(c)
      /\ \A d \in todo : Walkable(d)
  BY DEF WalkInv, WalkDirectory
<1>2. /\ c.directory \in tree.directories /\ c.directory \in Seq(STRING)
      /\ tree.root \in Seq(STRING) /\ tree.files \subseteq Seq(STRING)
      /\ tree.directories \subseteq Seq(STRING)
      /\ IsPrefix(tree.root, c.directory)
      /\ \A k \in Len(tree.root) + 1 .. Len(c.directory) : c.directory[k] \notin Ignored
  BY <1>1, InTree DEF Walkable
<1>3. Real(c.directory) = c.directory
  BY <1>1, <1>2, RealDirectory
<1>4. /\ Len(tree.root) \in Nat /\ Len(c.directory) \in Nat
      /\ Len(tree.root) <= Len(c.directory)
      /\ tree.root = SubSeq(c.directory, 1, Len(tree.root))
  BY <1>2, LenProperties, PrefixIsBeginning
\* What is in the directory.
<1>5. ASSUME NEW p \in Seq(STRING), Holds(c.directory, p)
      PROVE  /\ p = Append(c.directory, Last(p)) /\ Last(p) \in STRING
             /\ Len(p) = Len(c.directory) + 1
             /\ \A k \in 1 .. Len(c.directory) : p[k] = c.directory[k]
             /\ IsStrictPrefix(tree.root, p)
  <2>1. p # << >> /\ Front(p) = c.directory
    BY <1>3, <1>5 DEF Holds
  <2>2. p = Append(c.directory, Last(p)) /\ Last(p) \in STRING
    BY <2>1, Ends
  <2>3. /\ Len(p) = Len(c.directory) + 1
        /\ \A k \in 1 .. Len(c.directory) : p[k] = c.directory[k]
        /\ \A k \in 0 .. Len(c.directory) : SubSeq(p, 1, k) = SubSeq(c.directory, 1, k)
    <3> DEFINE n == Last(p)
    <3>1. /\ Len(Append(c.directory, n)) = Len(c.directory) + 1
          /\ \A k \in 1 .. Len(c.directory) : Append(c.directory, n)[k] = c.directory[k]
      BY <1>2, <2>2, Added
    <3>2. \A k \in 0 .. Len(c.directory) :
            SubSeq(Append(c.directory, n), 1, k) = SubSeq(c.directory, 1, k)
      BY <1>2, <2>2, Added
    <3> QED
      BY <2>2, <3>1, <3>2
  <2>4. SubSeq(p, 1, Len(tree.root)) = tree.root /\ Len(tree.root) < Len(p)
    BY <1>4, <2>3
  <2>5. IsStrictPrefix(tree.root, p)
    BY <1>2, <2>4, PrefixIsBeginning
  <2> QED
    BY <2>2, <2>3, <2>5
<1>6. ASSUME NEW f \in owned'  PROVE f \in UnderRoot
  <2>1. CASE f \in owned
    BY <1>1, <2>1
  <2>2. CASE f \in tree.files /\ Holds(c.directory, f) /\ Last(f) \in SourceNames
    <3>1. /\ f \in Seq(STRING) /\ Len(f) = Len(c.directory) + 1
          /\ \A k \in 1 .. Len(c.directory) : f[k] = c.directory[k]
          /\ IsStrictPrefix(tree.root, f)
      BY <1>2, <1>5, <2>2
    <3>2. \A k \in Len(tree.root) + 1 .. Len(f) - 1 : f[k] \notin Ignored
      BY <1>2, <1>4, <3>1
    <3> QED
      BY <2>2, <3>1, <3>2 DEF UnderRoot
  <2> QED
    BY <2>1, <2>2 DEF WalkDirectory
<1>7. ASSUME NEW d \in todo'  PROVE Walkable(d)
  <2>1. CASE d \in todo
    BY <1>1, <2>1
  <2>2. CASE \E n \in Children(c.directory) : d = Call(Append(c.directory, n), << >>)
    <3>1. PICK n \in Children(c.directory) : d = Call(Append(c.directory, n), << >>)
      BY <2>2
    <3>2. PICK p \in tree.directories : Holds(c.directory, p) /\ n = Last(p) /\ n \notin Ignored
      BY DEF Children
    <3>3. /\ p = Append(c.directory, n) /\ n \in STRING /\ Len(p) = Len(c.directory) + 1
          /\ \A k \in 1 .. Len(c.directory) : p[k] = c.directory[k]
          /\ IsStrictPrefix(tree.root, p)
      BY <1>2, <1>5, <3>2
    <3>4. p[Len(p)] = n
      BY <3>2 DEF Last
    <3>5. \A k \in Len(tree.root) + 1 .. Len(p) : p[k] \notin Ignored
      <4> TAKE k \in Len(tree.root) + 1 .. Len(p)
      <4>1. CASE k = Len(p)
        BY <3>2, <3>4, <4>1
      <4>2. CASE k \in Len(tree.root) + 1 .. Len(c.directory)
        <5>1. k \in 1 .. Len(c.directory)
          BY <1>4, <4>2
        <5> QED
          BY <1>2, <3>3, <4>2, <5>1
      <4> QED
        BY <1>4, <3>3, <4>1, <4>2
    <3>6. d = Call(p, << >>) /\ d.directory = p
      BY <3>1, <3>3 DEF Call
    <3>7. IsPrefix(tree.root, p)
      BY <3>3 DEF IsStrictPrefix
    <3> QED
      BY <3>5, <3>6, <3>7 DEF Walkable
  <2> QED
    BY <2>1, <2>2 DEF WalkDirectory
<1> QED
  BY <1>6, <1>7

\* A step of the walk loses no source: what is below its directory is found, or below one
\* of the calls it makes.
LEMMA WalkLosesNone ==
  ASSUME WalkInv, NEW c \in todo, WalkDirectory(c), NEW f \in UnderRoot
  PROVE  Due(f)'
<1>1. /\ tree \in Trees /\ Due(f) /\ Walkable(c) /\ tree' = tree
      /\ owned \subseteq owned' /\ todo \ {c} \subseteq todo'
  BY DEF WalkInv, WalkDirectory
<1>2. /\ f \in tree.files /\ f \in Seq(STRING) /\ f # << >>
      /\ Len(tree.root) \in Nat /\ Len(f) \in Nat /\ Len(tree.root) < Len(f)
      /\ Last(f) \in SourceNames
      /\ \A k \in Len(tree.root) + 1 .. Len(f) - 1 : f[k] \notin Ignored
  BY <1>1, Source
<1>3. CASE f \in owned
  BY <1>1, <1>3 DEF Due
<1>4. CASE \E k \in Len(tree.root) .. Len(f) - 1 : Call(SubSeq(f, 1, k), << >>) \in todo
  <2>1. PICK k \in Len(tree.root) .. Len(f) - 1 : Call(SubSeq(f, 1, k), << >>) \in todo
    BY <1>4
  <2>2. CASE Call(SubSeq(f, 1, k), << >>) # c
    <3>1. Call(SubSeq(f, 1, k), << >>) \in todo'
      BY <1>1, <2>1, <2>2
    <3> QED
      BY <1>1, <3>1 DEF Due
  <2>3. CASE Call(SubSeq(f, 1, k), << >>) = c
    <3>1. c.directory = SubSeq(f, 1, k)
      BY <2>3 DEF Call
    <3>2. Real(c.directory) = SubSeq(f, 1, k)
      BY <1>1, <3>1, RealDirectory DEF Walkable
    <3>3. CASE k = Len(f) - 1
      <4>1. Front(f) = SubSeq(f, 1, k)
        BY <3>3 DEF Front
      <4>2. Holds(c.directory, f)
        BY <1>2, <3>2, <4>1 DEF Holds
      <4>3. f \in owned'
        BY <1>2, <4>2 DEF WalkDirectory
      <4> QED
        BY <4>3 DEF Due
    <3>4. CASE k < Len(f) - 1
      <4> DEFINE d == SubSeq(f, 1, k + 1)
      <4>1. k + 1 \in 1 .. Len(f) /\ k + 1 \in 0 .. Len(f) /\ k + 1 < Len(f) /\ k + 1 - 1 = k
            /\ k + 1 \in Len(tree.root) + 1 .. Len(f) - 1
            /\ k + 1 \in Len(tree.root) .. Len(f) - 1
        BY <1>2, <3>4
      <4>2. d \in tree.directories
        BY <1>1, <1>2, <4>1, InTree
      <4>3. /\ d # << >> /\ Front(d) = SubSeq(f, 1, k) /\ Last(d) = f[k + 1]
            /\ d = Append(SubSeq(f, 1, k), f[k + 1])
        <5> DEFINE m == k + 1
        <5>1. m \in 1 .. Len(f)
          BY <4>1
        <5> HIDE DEF m
        <5>2. /\ SubSeq(f, 1, m) # << >> /\ Front(SubSeq(f, 1, m)) = SubSeq(f, 1, m - 1)
              /\ Last(SubSeq(f, 1, m)) = f[m]
              /\ SubSeq(f, 1, m) = Append(SubSeq(f, 1, m - 1), f[m])
          BY <1>2, <5>1, NextName
        <5>3. m - 1 = k
          BY <4>1 DEF m
        <5> QED
          BY <5>2, <5>3 DEF m
      <4>4. Holds(c.directory, d)
        BY <3>2, <4>3 DEF Holds
      <4>5. f[k + 1] \in Children(c.directory)
        BY <1>2, <4>1, <4>2, <4>3, <4>4 DEF Children
      <4>6. Call(d, << >>) \in todo'
        BY <3>1, <4>3, <4>5 DEF WalkDirectory
      <4> QED
        BY <1>1, <4>1, <4>6 DEF Due
    <3> QED
      BY <1>2, <3>3, <3>4
  <2> QED
    BY <2>2, <2>3
<1> QED
  BY <1>1, <1>3, <1>4 DEF Due

LEMMA WalkInit == Init => WalkInv
<1> SUFFICES ASSUME Init  PROVE WalkInv
  OBVIOUS
<1>1. (\A c \in todo : Walkable(c)) /\ (\A f \in UnderRoot : Due(f))
  BY RootIsAbove DEF Init
<1> QED
  BY <1>1 DEF Init, WalkInv, AnalysisIsComplete

LEMMA WalkStep == WalkInv /\ [Next]_vars => WalkInv'
<1> SUFFICES ASSUME WalkInv, [Next]_vars  PROVE WalkInv'
  OBVIOUS
<1> USE DEF WalkInv
<1>1. CASE \E c \in todo : WalkDirectory(c)
  <2>1. PICK c \in todo : WalkDirectory(c)
    BY <1>1
  <2>2. tree' = tree /\ phase' = phase /\ phase = "sources"
    BY <2>1 DEF WalkDirectory
  <2>3. UnderRoot' = UnderRoot /\ \A d : Walkable(d)' <=> Walkable(d)
    BY <2>2 DEF UnderRoot, Walkable
  <2>4. owned' \subseteq UnderRoot /\ \A d \in todo' : Walkable(d)
    BY <2>1, WalkFinds
  <2>5. \A f \in UnderRoot : Due(f)'
    BY <2>1, WalkLosesNone
  <2>6. AnalysisIsComplete'
    BY <2>2 DEF AnalysisIsComplete
  <2> QED
    BY <2>2, <2>3, <2>4, <2>5, <2>6
<1>2. CASE BuildProgram
  <2>1. tree' = tree /\ owned' = owned /\ phase = "sources" /\ phase' # "sources"
    BY <1>2 DEF BuildProgram
  <2>2. UnderRoot' = UnderRoot
    BY <2>1 DEF UnderRoot
  <2>3. UnderRoot \subseteq owned
    BY <1>2, <2>1 DEF BuildProgram, Due
  <2>4. phase' # "failed" => \A d \in tree.diagnostics : ~ Relevant(d)
    BY <1>2 DEF BuildProgram
  <2>5. AnalysisIsComplete'
    BY <2>1, <2>2, <2>3, <2>4 DEF AnalysisIsComplete, Relevant, UnresolvedLocalModule
  <2> QED
    BY <2>1, <2>2, <2>5
<1>3. CASE UNCHANGED <<tree, owned>> /\ phase # "sources" /\ phase' # "sources"
           /\ (phase' = phase \/ phase' = "failed" \/ phase = "packages")
  <2>1. UnderRoot' = UnderRoot
    BY <1>3 DEF UnderRoot
  <2>2. AnalysisIsComplete'
    BY <1>3, <2>1 DEF AnalysisIsComplete
  <2> QED
    BY <1>3, <2>1, <2>2
<1>4. CASE UNCHANGED vars
  <2>1. /\ UnderRoot' = UnderRoot /\ \A d : Walkable(d)' <=> Walkable(d)
        /\ \A f : Due(f)' <=> Due(f)
        /\ AnalysisIsComplete' <=> AnalysisIsComplete
    BY <1>4 DEF vars, UnderRoot, Walkable, Due, AnalysisIsComplete
  <2> QED
    BY <1>4, <2>1 DEF vars
<1>5. ASSUME NEW c \in todo, Visit(c) \/ Matched(c)
      PROVE  UNCHANGED <<tree, owned>> /\ phase = "packages" /\ phase' \in {"packages", "failed"}
  BY <1>5 DEF Visit, Matched
<1>6. PatternsEnd => UNCHANGED <<tree, owned>> /\ phase = "packages" /\ phase' = "done"
  BY DEF PatternsEnd
<1> QED
  BY <1>1, <1>2, <1>3, <1>4, <1>5, <1>6 DEF Next

\* Every source under the root is analysed and nothing else, and a run that goes on has
\* no relative import that is reported as not found but to those (sourceFiles,
\* relevantProgramDiagnostics); what is reported under other codes is not examined.
THEOREM CompleteAnalysis == Spec => []AnalysisIsComplete
<1>1. WalkInv => AnalysisIsComplete
  BY DEF WalkInv
<1> QED
  BY <1>1, WalkInit, WalkStep, PTL DEF Spec

---------------------------------------------------------------------------
(* The paths that patterns lead to.                                        *)

LEMMA Greatest ==
  ASSUME NEW n \in Nat, NEW T \in SUBSET (0 .. n), T # {}
  PROVE  \E k \in T : \A j \in T : j <= k
<1> DEFINE R == {ss \in Nat \X Nat : ss[1] < ss[2]}
           U == {n - k : k \in T}
<1>1. IsWellFoundedOn(R, Nat)
  BY NatLessThanWellFounded DEF OpToRel
<1>2. U \subseteq Nat /\ U # {}
  <2>1. PICK k \in T : TRUE
    OBVIOUS
  <2>2. n - k \in U
    BY <2>1
  <2>3. \A j \in T : n - j \in Nat
    OBVIOUS
  <2> QED
    BY <2>2, <2>3
<1> HIDE DEF R
<1>3. PICK x \in U : \A y \in U : ~ (<<y, x>> \in R)
  <2> HIDE DEF U
  <2> QED
    BY <1>1, <1>2, WFMin
<1>4. PICK k \in T : x = n - k
  BY <1>3
<1>5. \A j \in T : j <= k
  <2> TAKE j \in T
  <2>1. n - j \in U /\ n - j \in Nat /\ x \in Nat
    BY <1>2
  <2>2. ~ (n - j < x)
    BY <1>3, <2>1 DEF R
  <2> QED
    BY <1>4, <2>1, <2>2
<1> QED
  BY <1>5

\* The last names of a path.
LEMMA Remainder ==
  ASSUME NEW path \in Seq(STRING), NEW k \in Nat
  PROVE  SubSeq(path, k + 1, Len(path)) \in Seq(STRING)
<1> DEFINE m == k + 1
<1>1. m \in Int /\ Len(path) \in Int
  BY LenProperties
<1>2. \A i \in m .. Len(path) : path[i] \in STRING
  BY <1>1, ElementOfSeq
<1> HIDE DEF m
<1>3. SubSeq(path, m, Len(path)) \in Seq(STRING)
  BY <1>1, <1>2, SubSeqProperties
<1> QED
  BY <1>3 DEF m

\* What a path really is: itself, or what the last link in it leads to and what follows.
LEMMA RealPath ==
  ASSUME tree \in Trees, NEW path \in Seq(STRING)
  PROVE  /\ Real(path) \in Seq(STRING)
         /\ \/ Real(path) = path
            \/ \E k \in 0 .. Len(path) :
                 /\ SubSeq(path, 1, k) \in DOMAIN tree.links
                 /\ tree.links[SubSeq(path, 1, k)] \in Seq(STRING)
                 /\ SubSeq(path, k + 1, Len(path)) \in Seq(STRING)
                 /\ Real(path) = tree.links[SubSeq(path, 1, k)] \o SubSeq(path, k + 1, Len(path))
<1> DEFINE linked == {k \in 0 .. Len(path) : SubSeq(path, 1, k) \in DOMAIN tree.links}
           k == CHOOSE j \in linked : \A i \in linked : i <= j
<1>1. Len(path) \in Nat
  BY LenProperties
<1>2. CASE linked = {}
  BY <1>2 DEF Real
<1>3. CASE linked # {}
  <2>1. k \in linked
    <3> HIDE DEF linked
    <3>1. \E j \in linked : \A i \in linked : i <= j
      <4>1. linked \in SUBSET (0 .. Len(path))
        BY DEF linked
      <4> QED
        BY <1>1, <1>3, <4>1, Greatest
    <3> QED
      BY <3>1
  <2>2. Real(path) = tree.links[SubSeq(path, 1, k)] \o SubSeq(path, k + 1, Len(path))
    BY <1>3 DEF Real
  <2> HIDE DEF k
  <2>3. k \in 0 .. Len(path) /\ SubSeq(path, 1, k) \in DOMAIN tree.links
    BY <2>1
  <2>4. tree.links[SubSeq(path, 1, k)] \in Seq(STRING)
    BY <2>3, InTree
  <2>5. SubSeq(path, k + 1, Len(path)) \in Seq(STRING)
    BY <2>3, Remainder
  <2>6. Real(path) \in Seq(STRING)
    BY <2>2, <2>4, <2>5, ConcatProperties
  <2> QED
    BY <2>2, <2>3, <2>4, <2>5, <2>6
<1> QED
  BY <1>2, <1>3

\* A path to a manifest leads to a directory.
LEMMA ManifestIsInPlace ==
  ASSUME tree \in Trees, NEW path \in Seq(STRING), HasManifest(path)
  PROVE  path \in Places /\ Real(path) \in tree.directories
<1>1. Real(path) \in Seq(STRING) /\ Len(Real(path)) \in Nat
  BY RealPath, LenProperties
<1>2. Real(path) \in tree.directories
  <2> DEFINE r == Real(path)
             m == Append(r, Manifest)
             n == Len(r)
             b == SubSeq(m, 1, n)
             S == STRING \cup {Manifest}
  <2>1. m \in tree.files
    BY DEF HasManifest
  <2>2. r \in Seq(S) /\ n \in Nat
    BY <1>1, SeqMonotonic
  <2>3. /\ Len(m) = n + 1
        /\ \A i \in 1 .. n : m[i] = r[i]
    <3>1. Manifest \in S
      OBVIOUS
    <3> HIDE DEF S, r
    <3>2. Len(m) = Len(r) + 1
      BY <2>2, <3>1, AppendProperties
    <3>3. \A i \in 1 .. Len(r) : m[i] = r[i]
      BY <2>2, <3>1, AppendProperties
    <3> QED
      BY <3>2, <3>3
  <2>4. m \in Seq(STRING)
    BY <2>1, InTree
  <2> HIDE DEF m
  <2>5. n \in 0 .. Len(m) /\ n < Len(m)
    BY <2>2, <2>3
  <2>6. b \in Seq(STRING) /\ Len(b) = n /\ \A i \in 1 .. n : b[i] = m[i]
    BY <2>4, <2>5, Beginnings
  <2>7. b \in tree.directories
    BY <2>1, <2>5, InTree
  <2>8. b = r
    <3> HIDE DEF b
    <3>1. \A i \in 1 .. Len(b) : b[i] = r[i]
      BY <2>3, <2>6
    <3> QED
      BY <1>1, <2>6, <3>1, SeqEqual
  <2> QED
    BY <2>7, <2>8
<1>3. CASE Real(path) = path
  BY <1>2, <1>3 DEF Places
<1>4. CASE \E k \in 0 .. Len(path) :
             /\ SubSeq(path, 1, k) \in DOMAIN tree.links
             /\ tree.links[SubSeq(path, 1, k)] \in Seq(STRING)
             /\ SubSeq(path, k + 1, Len(path)) \in Seq(STRING)
             /\ Real(path) = tree.links[SubSeq(path, 1, k)] \o SubSeq(path, k + 1, Len(path))
  <2>1. PICK k \in 0 .. Len(path) :
             /\ SubSeq(path, 1, k) \in DOMAIN tree.links
             /\ tree.links[SubSeq(path, 1, k)] \in Seq(STRING)
             /\ SubSeq(path, k + 1, Len(path)) \in Seq(STRING)
             /\ Real(path) = tree.links[SubSeq(path, 1, k)] \o SubSeq(path, k + 1, Len(path))
    BY <1>4
  <2> DEFINE link == SubSeq(path, 1, k)
             target == tree.links[link]
             rest == SubSeq(path, k + 1, Len(path))
             real == Real(path)
  <2>2. /\ link \in DOMAIN tree.links /\ target \in Seq(STRING) /\ rest \in Seq(STRING)
        /\ real = target \o rest /\ Len(path) \in Nat
    BY <2>1, LenProperties
  <2>3. path = link \o rest
    <3>1. 1 \in 1 .. Len(path) + 1 /\ k \in 1 - 1 .. Len(path) /\ Len(path) \in k .. Len(path)
      BY <2>1, <2>2
    <3>2. SubSeq(path, 1, k) \o SubSeq(path, k + 1, Len(path)) = SubSeq(path, 1, Len(path))
      BY <3>1, ConcatAdjacentSubSeq
    <3> QED
      BY <3>2, SubSeqFull
  <2> HIDE DEF link, target, rest, real
  <2>4. /\ Len(target) \in Nat /\ Len(rest) \in Nat /\ Len(real) = Len(target) + Len(rest)
        /\ real \in Seq(STRING)
        /\ \A i \in 1 .. Len(target) + Len(rest) :
             real[i] = IF i <= Len(target) THEN target[i] ELSE rest[i - Len(target)]
    <3>1. real \in Seq(STRING)
      BY <1>1 DEF real
    <3> QED
      BY <2>2, <3>1, LenProperties, ConcatProperties
  <2>5. IsPrefix(target, real)
    <3> DEFINE t == SubSeq(real, 1, Len(target))
    <3>1. Len(target) \in 0 .. Len(real)
      BY <2>4
    <3>2. /\ t \in Seq(STRING) /\ Len(t) = Len(target)
          /\ \A i \in 1 .. Len(target) : t[i] = real[i]
      BY <2>4, <3>1, Beginnings
    <3>3. \A i \in 1 .. Len(target) : target[i] = t[i]
      BY <2>4, <3>2
    <3> HIDE DEF t
    <3>4. target = t
      BY <2>2, <3>2, <3>3, SeqEqual
    <3>5. Len(target) <= Len(real) /\ target = SubSeq(real, 1, Len(target))
      BY <2>4, <3>4 DEF t
    <3> QED
      BY <2>2, <2>4, <3>5, PrefixIsBeginning
  <2>6. SubSeq(real, Len(target) + 1, Len(real)) = rest
    <3> DEFINE m == Len(target) + 1
               n == Len(real)
               u == SubSeq(real, m, n)
    <3>1. /\ m \in Int /\ n \in Int /\ n - m + 1 = Len(rest)
          /\ \A i \in 1 .. Len(rest) : m + i - 1 = Len(target) + i
      BY <2>4
    <3>2. \A i \in m .. n : real[i] \in STRING
      BY <2>4, ElementOfSeq
    <3>3. \A i \in 1 .. Len(rest) : real[Len(target) + i] = rest[i]
      <4> TAKE i \in 1 .. Len(rest)
      <4>1. /\ Len(target) + i \in 1 .. Len(target) + Len(rest)
            /\ ~ (Len(target) + i <= Len(target)) /\ Len(target) + i - Len(target) = i
        BY <2>4
      <4> QED
        BY <2>4, <4>1
    <3>4. m <= n \/ Len(rest) = 0
      BY <2>4
    <3> HIDE DEF m, n
    <3>5. /\ u \in Seq(STRING) /\ Len(u) = (IF m <= n THEN n - m + 1 ELSE 0)
          /\ \A i \in 1 .. n - m + 1 : u[i] = real[m + i - 1]
      BY <3>1, <3>2, SubSeqProperties
    <3> HIDE DEF u
    <3>6. Len(u) = Len(rest)
      <4>1. ~ (m <= n) => Len(rest) = 0
        BY <3>4
      <4> QED
        BY <3>1, <3>5, <4>1
    <3>7. \A i \in 1 .. Len(u) : u[i] = rest[i]
      BY <3>1, <3>3, <3>5, <3>6
    <3>8. u = rest
      BY <2>2, <3>5, <3>6, <3>7, SeqEqual
    <3> QED
      BY <3>8 DEF u, m, n
  <2>7. real \in tree.directories
    BY <1>2 DEF real
  <2>8. path = link \o SubSeq(real, Len(tree.links[link]) + 1, Len(real))
    BY <2>3, <2>6 DEF target
  <2>9. IsPrefix(tree.links[link], real)
    BY <2>5 DEF target
  <2> DEFINE Linked(l) == {l \o SubSeq(d, Len(tree.links[l]) + 1, Len(d)) :
                             d \in {e \in tree.directories : IsPrefix(tree.links[l], e)}}
  <2>10. path \in Linked(link)
    BY <2>7, <2>8, <2>9
  <2>11. path \in UNION {Linked(l) : l \in DOMAIN tree.links}
    BY <2>2, <2>10
  <2> QED
    BY <1>2, <2>11 DEF Places
<1> QED
  BY <1>3, <1>4, RealPath

\* The places are told by paths.
LEMMA PlacesArePaths ==
  ASSUME tree \in Trees, NEW path \in Places
  PROVE  path \in Seq(STRING)
<1>1. CASE path \in tree.directories
  BY <1>1, InTree
<1>2. CASE \E link \in DOMAIN tree.links : \E d \in tree.directories :
             path = link \o SubSeq(d, Len(tree.links[link]) + 1, Len(d))
  <2>1. PICK link \in DOMAIN tree.links, d \in tree.directories :
             path = link \o SubSeq(d, Len(tree.links[link]) + 1, Len(d))
    BY <1>2
  <2>2. link \in Seq(STRING) /\ d \in Seq(STRING) /\ tree.links[link] \in Seq(STRING)
    BY InTree
  <2>3. SubSeq(d, Len(tree.links[link]) + 1, Len(d)) \in Seq(STRING)
    BY <2>2, LenProperties, Remainder
  <2> QED
    BY <2>1, <2>2, <2>3, ConcatProperties
<1> QED
  BY <1>1, <1>2 DEF Places

---------------------------------------------------------------------------
(* What is left of a pattern, and what a path takes of it.                 *)

LEMMA RestOf ==
  ASSUME NEW p \in Seq(STRING), NEW n \in 0 .. Len(p)
  PROVE  /\ Len(p) \in Nat /\ DOMAIN p = 1 .. Len(p)
         /\ Rest(p, 0) = p
         /\ Rest(p, n) = << >> <=> n = Len(p)
         /\ n < Len(p) => /\ n + 1 \in 1 .. Len(p) /\ n + 1 \in 0 .. Len(p)
                          /\ Head(Rest(p, n)) = p[n + 1]
                          /\ Tail(Rest(p, n)) = Rest(p, n + 1)
<1>1. Len(p) \in Nat /\ DOMAIN p = 1 .. Len(p)
  BY LenProperties
<1>2. Rest(p, 0) = p
  <2>1. SubSeq(p, 1, Len(p)) = p
    BY SubSeqFull
  <2> QED
    BY <2>1 DEF Rest
<1>3. n = Len(p) => Rest(p, n) = << >>
  <2> DEFINE m == n + 1
  <2>1. n = Len(p) => m \in Int /\ Len(p) \in Int /\ Len(p) < m
    BY <1>1
  <2> HIDE DEF m
  <2>2. n = Len(p) => SubSeq(p, m, Len(p)) = << >>
    BY <2>1, SubSeqEmpty
  <2> QED
    BY <2>2 DEF m, Rest
<1>4. ASSUME n < Len(p)
      PROVE  /\ n + 1 \in 1 .. Len(p) /\ n + 1 \in 0 .. Len(p)
             /\ Head(Rest(p, n)) = p[n + 1] /\ Tail(Rest(p, n)) = Rest(p, n + 1)
             /\ Rest(p, n) # << >>
  <2> DEFINE m == n + 1
  <2>1. m \in 1 .. Len(p) /\ m \in 0 .. Len(p) /\ Len(p) \in m .. Len(p)
    BY <1>1, <1>4
  <2>2. m \in Int /\ Len(p) \in Int /\ \A i \in m .. Len(p) : p[i] \in STRING
    BY <1>1, <2>1, ElementOfSeq
  <2> HIDE DEF m
  <2>3. Head(SubSeq(p, m, Len(p))) = p[m] /\ Tail(SubSeq(p, m, Len(p))) = SubSeq(p, m + 1, Len(p))
    BY <2>1, HeadTailOfSubSeq
  <2>4. /\ SubSeq(p, m, Len(p)) \in Seq(STRING)
        /\ Len(SubSeq(p, m, Len(p))) = IF m <= Len(p) THEN Len(p) - m + 1 ELSE 0
    BY <2>2, SubSeqProperties
  <2>5. Len(SubSeq(p, m, Len(p))) # 0
    BY <1>1, <2>1, <2>4
  <2>6. SubSeq(p, m, Len(p)) # << >>
    BY <2>4, <2>5, EmptySeq
  <2> QED
    BY <2>1, <2>3, <2>6 DEF m, Rest
<1>5. n < Len(p) \/ n = Len(p)
  <2>1. Len(p) \in Nat
    BY LenProperties
  <2> QED
    BY <2>1
<1>6. Rest(p, n) = << >> <=> n = Len(p)
  BY <1>1, <1>3, <1>4, <1>5
<1>7. n < Len(p) => /\ n + 1 \in 1 .. Len(p) /\ n + 1 \in 0 .. Len(p)
                   /\ Head(Rest(p, n)) = p[n + 1]
                   /\ Tail(Rest(p, n)) = Rest(p, n + 1)
  BY <1>4
<1> QED
  BY <1>1, <1>2, <1>6, <1>7

\* Children are listed.
LEMMA ChildIsListed ==
  ASSUME tree \in Trees, NEW path \in Seq(STRING), NEW name \in Children(path)
  PROVE  /\ name \in STRING /\ name \notin Ignored
         /\ Real(path) \o <<name>> \in tree.directories
<1>1. PICK d \in tree.directories : Holds(path, d) /\ name = Last(d) /\ name \notin Ignored
  BY DEF Children
<1>2. d \in Seq(STRING) /\ d # << >> /\ Front(d) = Real(path)
  BY <1>1, InTree DEF Holds
<1>3. d = Append(Real(path), name) /\ name \in STRING /\ Real(path) \in Seq(STRING)
  BY <1>1, <1>2, Ends
<1>4. Append(Real(path), name) = Real(path) \o <<name>>
  BY <1>3, AppendIsConcat
<1> QED
  BY <1>1, <1>3, <1>4

\* And what is listed is a child.
LEMMA ListedIsChild ==
  ASSUME tree \in Trees, NEW path \in Seq(STRING), NEW k \in 1 .. Len(path), Listed(path, k)
  PROVE  path[k] \in Children(SubSeq(path, 1, k - 1))
<1> DEFINE before == SubSeq(path, 1, k - 1)
           d == Append(Real(before), path[k])
<1>1. path[k] \in STRING
  BY NextName
<1>2. before \in Seq(STRING)
  <2> DEFINE m == k - 1
  <2>1. m \in 0 .. Len(path)
    BY LenProperties
  <2> HIDE DEF m
  <2>2. SubSeq(path, 1, m) \in Seq(STRING)
    BY <2>1, Beginnings
  <2> QED
    BY <2>2 DEF m
<1> HIDE DEF before
<1>3. Real(before) \in Seq(STRING)
  BY <1>2, RealPath
<1>4. d = Real(before) \o <<path[k]>>
  BY <1>1, <1>3, AppendIsConcat
<1>5. d \in tree.directories /\ path[k] \notin Ignored
  BY <1>4 DEF Listed, before
<1>6. d # << >> /\ Front(d) = Real(before) /\ Last(d) = path[k]
  BY <1>1, <1>3, Added
<1> HIDE DEF d
<1>7. Holds(before, d)
  BY <1>6 DEF Holds
<1>8. path[k] \in Children(before)
  BY <1>5, <1>6, <1>7 DEF Children
<1> QED
  BY <1>8 DEF before

\* A path that takes the first segments of a pattern takes, with one name more, the next
\* segment: all of it, or of a double wildcard as much as one likes.
LEMMA TakesOneMore ==
  ASSUME tree \in Trees, NEW path \in Seq(STRING), NEW p \in Seq(STRING), NEW n \in 0 .. Len(p),
         n < Len(p), p[n + 1] # ".", NEW segment \in [DOMAIN path -> Steps(p)], Takes(path, p, n, segment),
         NEW name \in STRING, IF Wild(p[n + 1]) THEN name \in Children(path) ELSE name = p[n + 1],
         NEW m, m = IF p[n + 1] = "**" THEN n ELSE n + 1
  PROVE  \E longer \in [DOMAIN Append(path, name) -> Steps(p)] :
           Takes(Append(path, name), p, m, longer)
<1> DEFINE q == Append(path, name)
           longer == [k \in 1 .. Len(path) + 1 |-> IF k \in 1 .. Len(path) THEN segment[k] ELSE n + 1]
<1>1. /\ Len(path) \in Nat /\ DOMAIN path = 1 .. Len(path) /\ DOMAIN q = 1 .. Len(path) + 1
      /\ \A k \in 1 .. Len(path) : q[k] = path[k]
      /\ q[Len(path) + 1] = name
      /\ \A k \in 0 .. Len(path) : SubSeq(q, 1, k) = SubSeq(path, 1, k)
  <2>1. /\ Len(path) \in Nat /\ DOMAIN path = 1 .. Len(path)
        /\ DOMAIN q = 1 .. Len(path) + 1
    BY Added
  <2>2. \A k \in 1 .. Len(path) : q[k] = path[k]
    BY Added
  <2>3. q[Len(path) + 1] = name
    BY Added
  <2>4. \A k \in 0 .. Len(path) : SubSeq(q, 1, k) = SubSeq(path, 1, k)
    BY Added
  <2> QED
    BY <2>1, <2>2, <2>3, <2>4
<1>2. SubSeq(path, 1, Len(path)) = path
  BY SubSeqFull
<1>3. Len(p) \in Nat /\ DOMAIN p = 1 .. Len(p) /\ n + 1 \in 1 .. Len(p)
  BY RestOf
<1> HIDE DEF q
<1>4. /\ longer \in [DOMAIN q -> Steps(p)]
      /\ \A k \in 1 .. Len(path) : longer[k] = segment[k]
      /\ longer[Len(path) + 1] = n + 1
  <2>1. n + 1 \in Steps(p)
    BY <1>3 DEF Steps
  <2> QED
    BY <1>1, <2>1
<1>0. Steps(p) \subseteq 1 .. Len(p)
  BY <1>3 DEF Steps
<1> HIDE DEF longer
<1>5. /\ \A j, k \in 1 .. Len(path) : j < k => segment[j] <= segment[k]
      /\ \A k \in 1 .. Len(path) : IF Wild(p[segment[k]]) THEN Listed(path, k)
                                                          ELSE path[k] = p[segment[k]]
      /\ \A k \in 1 .. Len(path) : segment[k] \in 1 .. Len(p) /\ Falls(p, n, segment[k])
      /\ Used(path, p, segment, 1 .. n)
  BY <1>0, <1>1, <1>3 DEF Takes, Assigned
<1>6. \A k \in 1 .. Len(path) : segment[k] <= n + 1 /\ (segment[k] = n + 1 => p[n + 1] = "**")
  BY <1>3, <1>5 DEF Falls
\* The places of names are either old or the last.
<1>7. \A k \in DOMAIN q : k \in 1 .. Len(path) \/ k = Len(path) + 1
  BY <1>1
<1>8. \A j, k \in DOMAIN q : j < k => longer[j] <= longer[k]
  <2> SUFFICES ASSUME NEW j \in DOMAIN q, NEW k \in DOMAIN q, j < k  PROVE longer[j] <= longer[k]
    OBVIOUS
  <2>1. j \in 1 .. Len(path)
    BY <1>1
  <2>2. CASE k \in 1 .. Len(path)
    BY <1>4, <1>5, <2>1, <2>2
  <2>3. CASE k = Len(path) + 1
    BY <1>4, <1>6, <2>1, <2>3
  <2> QED
    BY <1>7, <2>2, <2>3
<1>9. ASSUME NEW k \in DOMAIN q
      PROVE  IF Wild(p[longer[k]]) THEN Listed(q, k) ELSE q[k] = p[longer[k]]
  <2>1. CASE k \in 1 .. Len(path)
    <3> DEFINE h == k - 1
    <3>1. h \in 0 .. Len(path)
      BY <1>1, <2>1
    <3>2. SubSeq(q, 1, h) = SubSeq(path, 1, h)
      <4> HIDE DEF h
      <4> QED
        BY <1>1, <3>1
    <3>3. q[k] = path[k] /\ longer[k] = segment[k]
      BY <1>1, <1>4, <2>1
    <3>4. Listed(q, k) <=> Listed(path, k)
      BY <3>2, <3>3 DEF Listed
    <3> QED
      BY <1>5, <2>1, <3>3, <3>4
  <2>2. CASE k = Len(path) + 1
    <3>1. q[k] = name /\ longer[k] = n + 1
      BY <1>1, <1>4, <2>2
    <3>2. k - 1 = Len(path) /\ Len(path) \in 0 .. Len(path)
      BY <1>1, <2>2
    <3>3. SubSeq(q, 1, k - 1) = path
      BY <1>1, <1>2, <3>2
    <3>4. name \in Children(path) => Listed(q, k)
      BY <3>1, <3>3, ChildIsListed DEF Listed
    <3> QED
      BY <3>1, <3>4
  <2> QED
    BY <1>7, <2>1, <2>2
<1>10. m \in Nat /\ (m = n \/ m = n + 1) /\ (m = n <=> p[n + 1] = "**")
  BY <1>3
<1>11. ASSUME NEW k \in DOMAIN q  PROVE Falls(p, m, longer[k])
  <2>1. longer[k] <= n + 1 /\ (longer[k] = n + 1 => m = n + 1 \/ p[n + 1] = "**")
    <3>1. CASE k \in 1 .. Len(path)
      BY <1>4, <1>6, <3>1
    <3>2. CASE k = Len(path) + 1
      BY <1>3, <1>4, <1>10, <3>2
    <3> QED
      BY <1>7, <3>1, <3>2
  <2>2. longer[k] \in Nat
    BY <1>0, <1>3, <1>4
  <2> QED
    BY <1>3, <1>10, <2>1, <2>2 DEF Falls
<1>12. ASSUME NEW s \in (1 .. m) \cap Steps(p), p[s] # "**"
       PROVE  \E k \in DOMAIN q : \A j \in DOMAIN q : longer[j] = s <=> j = k
  <2>1. CASE s \in 1 .. n
    <3>1. PICK k \in DOMAIN path : \A j \in DOMAIN path : segment[j] = s <=> j = k
      <4>1. \A t \in (1 .. n) \cap Steps(p) : p[t] # "**" =>
              \E k \in DOMAIN path : \A j \in DOMAIN path : segment[j] = t <=> j = k
        BY <1>5 DEF Used
      <4> QED
        BY <1>12, <2>1, <4>1
    <3>2. k \in 1 .. Len(path) /\ k \in DOMAIN q
      BY <1>1
    <3>3. ASSUME NEW j \in DOMAIN q  PROVE longer[j] = s <=> j = k
      <4>1. CASE j \in 1 .. Len(path)
        <5>1. j \in DOMAIN path
          BY <1>1, <4>1
        <5> QED
          BY <1>4, <3>1, <4>1, <5>1
      <4>2. CASE j = Len(path) + 1
        <5>1. longer[j] = n + 1 /\ s # n + 1 /\ j # k
          BY <1>1, <1>4, <2>1, <3>2, <4>2
        <5> QED
          BY <5>1
      <4> QED
        BY <1>7, <4>1, <4>2
    <3> QED
      BY <3>2, <3>3
  <2>2. CASE s = n + 1
    <3>1. \A j \in 1 .. Len(path) : longer[j] # s
      BY <1>4, <1>6, <1>12, <2>2
    <3>2. Len(path) + 1 \in DOMAIN q /\ longer[Len(path) + 1] = s
      BY <1>1, <1>4, <2>2
    <3>3. \A j \in DOMAIN q : longer[j] = s <=> j = Len(path) + 1
      BY <1>7, <3>1, <3>2
    <3> QED
      BY <3>2, <3>3
  <2> QED
    BY <1>10, <2>1, <2>2
<1>13. Used(q, p, longer, 1 .. m)
  BY <1>12 DEF Used
<1>14. Takes(q, p, m, longer)
  BY <1>4, <1>8, <1>9, <1>11, <1>13 DEF Takes, Assigned
<1> QED
  BY <1>4, <1>14 DEF q

---------------------------------------------------------------------------
(* The walk of the patterns.                                               *)

\* The calls of a call take beginnings of the pattern too.
LEMMA CallsAreReached ==
  ASSUME tree \in Trees, NEW c, Reached(c), c.segments # << >>, NEW d \in Calls(c)
  PROVE  Reached(d)
<1> DEFINE dir == c.directory
<1>1. dir \in Seq(STRING)
  BY DEF Reached
<1>0. PICK p \in tree.patterns : \E n \in 0 .. Len(p) :
             /\ c = Call(dir, Rest(p, n))
             /\ \E segment \in [DOMAIN dir -> Steps(p)] : Takes(dir, p, n, segment)
  BY DEF Reached
<1>2. PICK n \in 0 .. Len(p) :
             /\ c = Call(dir, Rest(p, n))
             /\ \E segment \in [DOMAIN dir -> Steps(p)] : Takes(dir, p, n, segment)
  BY <1>0
<1>3. PICK segment \in [DOMAIN dir -> Steps(p)] : Takes(dir, p, n, segment)
  BY <1>2
<1>4. p \in Seq(STRING) /\ c.segments = Rest(p, n)
  BY <1>2, InTree DEF Call
<1> HIDE DEF dir
<1>5. /\ Len(p) \in Nat /\ DOMAIN p = 1 .. Len(p) /\ n < Len(p)
      /\ n + 1 \in 1 .. Len(p) /\ n + 1 \in 0 .. Len(p)
      /\ Head(c.segments) = p[n + 1] /\ Tail(c.segments) = Rest(p, n + 1)
  <2>1. Len(p) \in Nat /\ DOMAIN p = 1 .. Len(p) /\ n # Len(p)
    BY <1>4, RestOf
  <2>2. n < Len(p)
    <3>1. Len(p) \in Nat /\ n # Len(p)
      BY <2>1
    <3> QED
      BY <3>1
  <2> QED
    BY <1>4, <2>1, <2>2, RestOf
<1>6. p[n + 1] \in STRING
  BY <1>4, <1>5, ElementOfSeq
\* A name more, and what is left then.
<1> DEFINE m == IF p[n + 1] = "**" THEN n ELSE n + 1
<1>7. ASSUME NEW name \in STRING,
             IF Wild(p[n + 1]) THEN name \in Children(dir) ELSE name = p[n + 1],
             p[n + 1] # ".", d = Call(Append(dir, name), Rest(p, m))
      PROVE  Reached(d)
  <2>1. \E longer \in [DOMAIN Append(dir, name) -> Steps(p)] : Takes(Append(dir, name), p, m, longer)
    <3>1. m = IF p[n + 1] = "**" THEN n ELSE n + 1
      OBVIOUS
    <3> HIDE DEF m
    <3> QED
      BY <1>1, <1>3, <1>4, <1>5, <1>7, <3>1, TakesOneMore
  <2>2. m \in 0 .. Len(p)
    BY <1>5, <1>7
  <2>3. Append(dir, name) \in Seq(STRING)
    BY <1>1, AppendProperties
  <2>4. d.directory = Append(dir, name)
    BY <1>7 DEF Call
  <2> QED
    BY <1>2, <1>7, <2>1, <2>2, <2>3, <2>4 DEF Reached
<1>8. CASE p[n + 1] = "*"
  <2>1. PICK name \in Children(dir) : d = Call(Append(dir, name), Rest(p, n + 1))
    BY <1>5, <1>8 DEF Calls, dir
  <2>2. name \in STRING
    BY <1>1, ChildIsListed
  <2>3. m = n + 1 /\ Wild(p[n + 1]) /\ p[n + 1] # "."
    BY <1>8 DEF Wild
  <2> HIDE DEF m
  <2> QED
    BY <1>7, <2>1, <2>2, <2>3
\* No name more.
<1>11. ASSUME p[n + 1] \in {"**", "."}, d = Call(dir, Rest(p, n + 1))  PROVE Reached(d)
  <2>1. \A k \in DOMAIN dir : Falls(p, n + 1, segment[k])
    <3> SUFFICES ASSUME NEW k \in DOMAIN dir  PROVE Falls(p, n + 1, segment[k])
      OBVIOUS
    <3>1. Falls(p, n, segment[k])
      BY <1>3 DEF Takes
    <3>2. segment[k] \in Nat
      BY <1>5 DEF Steps
    <3> QED
      BY <1>5, <3>1, <3>2 DEF Falls
  <2>2. \A s \in (1 .. n + 1) \cap Steps(p) : p[s] # "**" => s \in (1 .. n) \cap Steps(p)
    BY <1>5, <1>11 DEF Steps
  <2>3. Used(dir, p, segment, 1 .. n + 1)
    BY <1>3, <2>2 DEF Takes, Used
  <2>4. Takes(dir, p, n + 1, segment)
    BY <1>3, <2>1, <2>3 DEF Takes
  <2>5. d.directory = dir
    BY <1>11 DEF Call
  <2> QED
    BY <1>1, <1>2, <1>3, <1>5, <1>11, <2>4, <2>5 DEF Reached
<1>9. CASE p[n + 1] = "**"
  <2>1. d = Call(dir, Rest(p, n + 1)) \/ \E name \in Children(dir) : d = Call(Append(dir, name), Rest(p, n))
    BY <1>4, <1>5, <1>9 DEF Calls, dir
  <2>2. CASE d = Call(dir, Rest(p, n + 1))
    BY <1>9, <1>11, <2>2
  <2>3. CASE \E name \in Children(dir) : d = Call(Append(dir, name), Rest(p, n))
    <3>1. PICK name \in Children(dir) : d = Call(Append(dir, name), Rest(p, n))
      BY <2>3
    <3>2. name \in STRING
      BY <1>1, ChildIsListed
    <3>3. m = n /\ Wild(p[n + 1]) /\ p[n + 1] # "."
      BY <1>9 DEF Wild
    <3> HIDE DEF m
    <3> QED
      BY <1>7, <3>1, <3>2, <3>3
  <2> QED
    BY <2>1, <2>2, <2>3
<1>10. CASE ~ Wild(p[n + 1]) /\ p[n + 1] # "."
  <2>1. d = Call(Append(dir, p[n + 1]), Rest(p, n + 1))
    BY <1>5, <1>10 DEF Calls, dir, Wild, Join
  <2>2. p[n + 1] # "**"
    BY <1>10 DEF Wild
  <2>3. m = n + 1
    BY <2>2
  <2> HIDE DEF m
  <2> QED
    BY <1>6, <1>7, <1>10, <2>1, <2>3
<1>12. CASE p[n + 1] = "."
  <2>1. d = Call(dir, Rest(p, n + 1))
    BY <1>5, <1>12 DEF Calls, dir, Join
  <2> QED
    BY <1>11, <1>12, <2>1
<1> QED
  BY <1>8, <1>9, <1>10, <1>12 DEF Wild

\* A call that is to reach a path makes one that is.
LEMMA CallsReachFurther ==
  ASSUME tree \in Trees, NEW path \in Seq(STRING), NEW p \in tree.patterns,
         NEW segment \in [DOMAIN path -> Steps(p)],
         Assigned(path, p, segment), Used(path, p, segment, Steps(p)),
         NEW j \in 0 .. Len(path), NEW n \in 0 .. Len(p), Parted(path, p, segment, j, n),
         NEW c, c = Call(SubSeq(path, 1, j), Rest(p, n)), c.segments # << >>
  PROVE  \E i \in 0 .. Len(path), m \in 0 .. Len(p) :
           /\ Call(SubSeq(path, 1, i), Rest(p, m)) \in Calls(c)
           /\ Parted(path, p, segment, i, m)
<1> DEFINE dir == SubSeq(path, 1, j)
<1>1. /\ Len(path) \in Nat /\ DOMAIN path = 1 .. Len(path)
      /\ p \in Seq(STRING) /\ c.segments = Rest(p, n) /\ c.directory = dir
  BY LenProperties, InTree DEF Call
<1>2. Len(p) \in Nat /\ n < Len(p) /\ n + 1 \in 1 .. Len(p) /\ n + 1 \in 0 .. Len(p)
  <2>1. Len(p) \in Nat /\ n # Len(p)
    BY <1>1, RestOf
  <2> QED
    BY <2>1
<1>3. /\ DOMAIN p = 1 .. Len(p)
      /\ Head(c.segments) = p[n + 1] /\ Tail(c.segments) = Rest(p, n + 1)
  <2>1. DOMAIN p = 1 .. Len(p)
    BY <1>1, RestOf
  <2>2. Head(Rest(p, n)) = p[n + 1]
    BY <1>1, <1>2, RestOf
  <2>3. Tail(Rest(p, n)) = Rest(p, n + 1)
    BY <1>1, <1>2, RestOf
  <2> QED
    BY <1>1, <2>1, <2>2, <2>3
<1>4. \A k \in 1 .. Len(path) : segment[k] \in 1 .. Len(p) /\ p[segment[k]] # "."
  BY <1>1, <1>3 DEF Steps
<1>5. /\ \A h, k \in 1 .. Len(path) : h < k => segment[h] <= segment[k]
      /\ \A k \in 1 .. Len(path) : IF Wild(p[segment[k]]) THEN Listed(path, k)
                                                          ELSE path[k] = p[segment[k]]
  BY <1>1 DEF Assigned
<1>6. /\ \A k \in 1 .. j : Falls(p, n, segment[k])
      /\ \A k \in j + 1 .. Len(path) : segment[k] > n
  BY DEF Parted
<1> HIDE DEF dir
\* The next name, where it is the turn of the next segment.
<1>7. ASSUME j < Len(path), segment[j + 1] = n + 1
      PROVE  /\ j + 1 \in 1 .. Len(path) /\ j + 1 \in 0 .. Len(path)
             /\ SubSeq(path, 1, j + 1) = Append(dir, path[j + 1])
             /\ IF Wild(p[n + 1]) THEN path[j + 1] \in Children(dir) ELSE path[j + 1] = p[n + 1]
  <2> DEFINE h == j + 1
  <2>1. h \in 1 .. Len(path) /\ h \in 0 .. Len(path) /\ h - 1 = j
    <3>1. Len(path) \in Nat /\ j < Len(path)
      BY <1>7, LenProperties
    <3> QED
      BY <3>1
  <2>2. IF Wild(p[n + 1]) THEN Listed(path, h) ELSE path[h] = p[n + 1]
    BY <1>5, <1>7, <2>1
  <2> HIDE DEF h
  <2>3. SubSeq(path, 1, h) = Append(SubSeq(path, 1, h - 1), path[h])
    BY <2>1, NextName
  <2>4. Listed(path, h) => path[h] \in Children(SubSeq(path, 1, h - 1))
    BY <2>1, ListedIsChild
  <2>5. SubSeq(path, 1, h - 1) = dir
    BY <2>1 DEF dir
  <2> QED
    BY <2>1, <2>2, <2>3, <2>4, <2>5 DEF h
<1>8. CASE p[n + 1] = "**" /\ j < Len(path) /\ segment[j + 1] = n + 1
  <2>1. Call(SubSeq(path, 1, j + 1), Rest(p, n)) \in Calls(c)
    <3>1. path[j + 1] \in Children(dir) /\ SubSeq(path, 1, j + 1) = Append(dir, path[j + 1])
      BY <1>7, <1>8 DEF Wild
    <3> QED
      BY <1>1, <1>3, <1>8, <3>1 DEF Calls
  <2>2. \A k \in 1 .. j + 1 : Falls(p, n, segment[k])
    <3> SUFFICES ASSUME NEW k \in 1 .. j + 1  PROVE Falls(p, n, segment[k])
      OBVIOUS
    <3>1. CASE k \in 1 .. j
      BY <1>6, <3>1
    <3>2. CASE k = j + 1
      BY <1>8, <3>2 DEF Falls
    <3> QED
      BY <3>1, <3>2
  <2>3. \A k \in j + 1 + 1 .. Len(path) : segment[k] > n
    BY <1>1, <1>6
  <2>4. j + 1 \in 0 .. Len(path)
    BY <1>7, <1>8
  <2> QED
    BY <2>1, <2>2, <2>3, <2>4 DEF Parted
<1>9. CASE p[n + 1] \in {"**", "."} /\ (j < Len(path) => segment[j + 1] # n + 1)
  <2>1. Call(SubSeq(path, 1, j), Rest(p, n + 1)) \in Calls(c)
    BY <1>1, <1>3, <1>9 DEF Calls, dir, Join
  <2>2. \A k \in 1 .. j : Falls(p, n + 1, segment[k])
    <3> SUFFICES ASSUME NEW k \in 1 .. j  PROVE Falls(p, n + 1, segment[k])
      OBVIOUS
    <3>1. Falls(p, n, segment[k]) /\ segment[k] \in Nat
      BY <1>1, <1>4, <1>6
    <3> QED
      BY <1>2, <3>1 DEF Falls
  <2>3. \A k \in j + 1 .. Len(path) : segment[k] > n + 1
    <3> SUFFICES ASSUME NEW k \in j + 1 .. Len(path)  PROVE segment[k] > n + 1
      OBVIOUS
    <3>1. j + 1 \in 1 .. Len(path) /\ j + 1 \in j + 1 .. Len(path) /\ j < Len(path) /\ k \in 1 .. Len(path)
      BY <1>1
    <3>2. segment[j + 1] \in Nat /\ segment[k] \in Nat /\ segment[j + 1] > n
      BY <1>4, <1>6, <3>1
    <3>3. segment[j + 1] <= segment[k]
      <4>1. CASE k = j + 1
        BY <3>2, <4>1
      <4>2. CASE j + 1 < k
        BY <1>5, <3>1, <4>2
      <4> QED
        BY <1>1, <4>1, <4>2
    <3> QED
      BY <1>9, <3>1, <3>2, <3>3
  <2> QED
    BY <1>2, <2>1, <2>2, <2>3 DEF Parted
<1>10. CASE p[n + 1] \notin {"**", "."}
  <2>1. PICK h \in DOMAIN path : \A k \in DOMAIN path : segment[k] = n + 1 <=> k = h
    <3>1. n + 1 \in Steps(p)
      BY <1>2, <1>3, <1>10 DEF Steps
    <3>2. \A s \in Steps(p) : p[s] # "**" =>
            \E h \in DOMAIN path : \A k \in DOMAIN path : segment[k] = s <=> k = h
      BY DEF Used
    <3> QED
      BY <1>10, <3>1, <3>2
  <2>2. h \in 1 .. Len(path) /\ \A k \in 1 .. Len(path) : segment[k] = n + 1 <=> k = h
    BY <1>1, <2>1
  <2>3. h > j
    <3> SUFFICES ASSUME h <= j  PROVE FALSE
      BY <1>1, <2>2
    <3>1. h \in 1 .. j
      BY <1>1, <2>2
    <3> QED
      BY <1>2, <1>6, <1>10, <2>2, <3>1 DEF Falls
  <2>4. j < Len(path) /\ j + 1 \in 1 .. Len(path) /\ j + 1 \in j + 1 .. Len(path)
    BY <1>1, <2>2, <2>3
  <2>5. segment[j + 1] = n + 1 /\ h = j + 1
    <3>1. segment[j + 1] > n /\ segment[j + 1] \in Nat
      BY <1>4, <1>6, <2>4
    <3>2. segment[h] = n + 1
      BY <2>2
    <3>3. segment[j + 1] <= n + 1
      <4>1. CASE j + 1 < h
        BY <1>5, <2>2, <2>4, <3>2, <4>1
      <4>2. CASE h = j + 1
        BY <1>2, <3>2, <4>2
      <4> QED
        BY <1>1, <2>2, <2>3, <4>1, <4>2
    <3>4. segment[j + 1] = n + 1
      BY <1>2, <3>1, <3>3
    <3> QED
      BY <2>2, <2>4, <3>4
  <2>6. Call(SubSeq(path, 1, j + 1), Rest(p, n + 1)) \in Calls(c)
    <3>1. /\ SubSeq(path, 1, j + 1) = Append(dir, path[j + 1])
          /\ IF Wild(p[n + 1]) THEN path[j + 1] \in Children(dir) ELSE path[j + 1] = p[n + 1]
      BY <1>7, <2>4, <2>5
    <3>2. CASE p[n + 1] = "*"
      BY <1>1, <1>3, <3>1, <3>2 DEF Calls, Wild
    <3>3. CASE ~ Wild(p[n + 1])
      BY <1>1, <1>3, <1>10, <3>1, <3>3 DEF Calls, Wild, Join
    <3> QED
      BY <1>10, <3>2, <3>3 DEF Wild
  <2>7. \A k \in 1 .. j + 1 : Falls(p, n + 1, segment[k])
    <3> SUFFICES ASSUME NEW k \in 1 .. j + 1  PROVE Falls(p, n + 1, segment[k])
      OBVIOUS
    <3>1. CASE k \in 1 .. j
      <4>1. Falls(p, n, segment[k]) /\ segment[k] \in Nat
        BY <1>1, <1>4, <1>6, <3>1
      <4> QED
        BY <1>2, <4>1 DEF Falls
    <3>2. CASE k = j + 1
      BY <1>2, <2>5, <3>2 DEF Falls
    <3> QED
      BY <3>1, <3>2
  <2>8. \A k \in j + 1 + 1 .. Len(path) : segment[k] > n + 1
    <3> SUFFICES ASSUME NEW k \in j + 1 + 1 .. Len(path)  PROVE segment[k] > n + 1
      OBVIOUS
    <3>1. k \in j + 1 .. Len(path) /\ k \in 1 .. Len(path) /\ k # h
      BY <1>1, <2>5
    <3>2. segment[k] > n /\ segment[k] # n + 1 /\ segment[k] \in Nat
      BY <1>4, <1>6, <2>2, <3>1
    <3> QED
      BY <1>2, <3>2
  <2>9. j + 1 \in 0 .. Len(path)
    BY <2>4
  <2> QED
    BY <1>2, <2>6, <2>7, <2>8, <2>9 DEF Parted
<1>11. p[n + 1] = "." => (j < Len(path) => segment[j + 1] # n + 1)
  <2>1. j < Len(path) => j + 1 \in 1 .. Len(path)
    <3>1. Len(path) \in Nat
      BY LenProperties
    <3> QED
      BY <3>1
  <2> QED
    BY <1>4, <2>1
<1> QED
  BY <1>8, <1>9, <1>10, <1>11

\* What is matched is assigned, segment by segment.
LEMMA Matching ==
  ASSUME NEW path, NEW pattern
  PROVE  Matches(path, pattern) <=>
           \E segment \in [DOMAIN path -> Steps(pattern)] :
             Assigned(path, pattern, segment) /\ Used(path, pattern, segment, Steps(pattern))
BY DEF Matches, Assigned, Used, Wild, Steps

\* As long as the tree is the same, so is what only depends on it.
LEMMA SameTree ==
  ASSUME tree' = tree
  PROVE  /\ Places' = Places /\ \A d : HasManifest(d)' <=> HasManifest(d)
         /\ \A d : Real(d)' = Real(d)
         /\ \A c : Reached(c)' <=> Reached(c)
         /\ \A root : Justified(root)' <=> Justified(root)
         /\ \A d, p, segment : Assigned(d, p, segment)' <=> Assigned(d, p, segment)
<1>1. \A d : Real(d)' = Real(d)
  BY DEF Real
<1>2. \A d : HasManifest(d)' <=> HasManifest(d)
  BY <1>1 DEF HasManifest
<1>3. Places' = Places
  BY DEF Places
<1>4. \A d, k : Listed(d, k)' <=> Listed(d, k)
  BY <1>1 DEF Listed
<1>5. \A d, p, segment : Assigned(d, p, segment)' <=> Assigned(d, p, segment)
  BY <1>4 DEF Assigned
<1>6. \A c : Reached(c)' <=> Reached(c)
  BY <1>5 DEF Reached, Takes
<1>7. \A d, p : Matches(d, p)' <=> Matches(d, p)
  BY <1>4 DEF Matches
<1>8. \A root : Justified(root)' <=> Justified(root)
  BY <1>1, <1>2, <1>3, <1>7 DEF Justified
<1> QED
  BY <1>1, <1>2, <1>3, <1>5, <1>6, <1>8

\* The patterns themselves are calls to make, and reach all that they match.
LEMMA PatternsBegin ==
  ASSUME tree \in Trees, BuildProgram, phase' = "packages"
  PROVE  /\ \A c \in todo' : Reached(c) /\ HasManifest(<< >>)
         /\ HasManifest(<< >>) => AllExpected'
<1>1. tree' = tree /\ todo' = IF HasManifest(<< >>) THEN {Call(<< >>, s) : s \in tree.patterns} ELSE {}
  BY DEF BuildProgram
<1>2. ASSUME NEW c \in todo'  PROVE Reached(c) /\ HasManifest(<< >>)
  <2>1. HasManifest(<< >>)
    BY <1>1, <1>2
  <2>2. PICK p \in tree.patterns : c = Call(<< >>, p)
    BY <1>1, <1>2
  <2>3. p \in Seq(STRING)
    BY InTree
  <2>4. Len(p) \in Nat
    BY <2>3, LenProperties
  <2>5. 0 \in 0 .. Len(p)
    BY <2>4
  <2>6. Rest(p, 0) = p
    BY <2>3, <2>5, RestOf
  <2> DEFINE empty == << >>
             segment == [k \in {} |-> 0]
  <2>7. empty \in Seq(STRING) /\ DOMAIN empty = {}
    BY EmptySeq
  <2>8. segment \in [DOMAIN empty -> Steps(p)]
    BY <2>7
  <2>9. c = Call(empty, Rest(p, 0)) /\ c.directory = empty
    BY <2>2, <2>6 DEF Call
  <2> HIDE DEF empty, segment
  <2>10. Takes(empty, p, 0, segment)
    <3>1. Assigned(empty, p, segment)
      BY <2>7, <2>8 DEF Assigned
    <3>2. Used(empty, p, segment, 1 .. 0)
      BY DEF Used
    <3> QED
      BY <2>7, <3>1, <3>2 DEF Takes
  <2>11. Reached(c)
    BY <2>2, <2>5, <2>7, <2>8, <2>9, <2>10 DEF Reached
  <2> QED
    BY <2>1, <2>11
<1>3. ASSUME HasManifest(<< >>), NEW d \in Places, NEW p \in tree.patterns,
             NEW segment \in [DOMAIN d -> Steps(p)]
      PROVE  Expected(d, p, segment)'
  <2>1. d \in Seq(STRING) /\ p \in Seq(STRING)
    BY PlacesArePaths, InTree
  <2>2. /\ Len(d) \in Nat /\ Len(p) \in Nat /\ DOMAIN d = 1 .. Len(d) /\ DOMAIN p = 1 .. Len(p)
    BY <2>1, LenProperties
  <2>3. 0 \in 0 .. Len(d) /\ 0 \in 0 .. Len(p)
    <3>1. Len(d) \in Nat /\ Len(p) \in Nat
      BY <2>2
    <3> QED
      BY <3>1
  <2>4. SubSeq(d, 1, 0) = << >> /\ Rest(p, 0) = p
    BY <2>1, <2>3, SubSeqEmpty, RestOf
  <2>5. Call(SubSeq(d, 1, 0), Rest(p, 0)) \in todo'
    BY <1>1, <1>3, <2>4
  <2>6. Parted(d, p, segment, 0, 0)
    <3>1. \A k \in 0 + 1 .. Len(d) : segment[k] > 0
      <4> SUFFICES ASSUME NEW k \in 0 + 1 .. Len(d)  PROVE segment[k] > 0
        OBVIOUS
      <4>1. segment[k] \in 1 .. Len(p)
        BY <2>2 DEF Steps
      <4> QED
        BY <4>1
    <3>2. \A k \in 1 .. 0 : Falls(p, 0, segment[k])
      OBVIOUS
    <3> QED
      BY <3>1, <3>2 DEF Parted
  <2> QED
    BY <2>3, <2>5, <2>6 DEF Expected
<1>4. HasManifest(<< >>) => AllExpected'
  BY <1>1, <1>3, SameTree DEF AllExpected
<1> QED
  BY <1>2, <1>4

\* A call that stays to be made reaches what it was to reach.
LEMMA VisitKeepsExpected ==
  ASSUME tree \in Trees, AllExpected, NEW c \in todo, Visit(c), phase' = "packages"
  PROVE  AllExpected'
<1>1. tree' = tree /\ packages' = packages /\ c.segments # << >>
      /\ todo' = (todo \ {c}) \cup Calls(c)
  BY DEF Visit
<1>2. ASSUME NEW d \in Places, NEW p \in tree.patterns, HasManifest(d),
             NEW segment \in [DOMAIN d -> Steps(p)],
             Assigned(d, p, segment), Used(d, p, segment, Steps(p))
      PROVE  Expected(d, p, segment)'
  <2>1. Real(d)' = Real(d)
    BY <1>1, SameTree
  <2>2. CASE Real(d) \in packages
    BY <1>1, <2>1, <2>2 DEF Expected
  <2>3. CASE \E j \in 0 .. Len(d), n \in 0 .. Len(p) :
               /\ Call(SubSeq(d, 1, j), Rest(p, n)) \in todo
               /\ Parted(d, p, segment, j, n)
    <3>1. PICK j \in 0 .. Len(d), n \in 0 .. Len(p) :
               /\ Call(SubSeq(d, 1, j), Rest(p, n)) \in todo
               /\ Parted(d, p, segment, j, n)
      BY <2>3
    <3>2. CASE Call(SubSeq(d, 1, j), Rest(p, n)) # c
      BY <1>1, <3>1, <3>2 DEF Expected
    <3>3. CASE Call(SubSeq(d, 1, j), Rest(p, n)) = c
      <4>1. d \in Seq(STRING)
        BY PlacesArePaths
      <4>2. \E i \in 0 .. Len(d), m \in 0 .. Len(p) :
              /\ Call(SubSeq(d, 1, i), Rest(p, m)) \in Calls(c)
              /\ Parted(d, p, segment, i, m)
        BY <1>1, <1>2, <3>1, <3>3, <4>1, CallsReachFurther
      <4> QED
        BY <1>1, <4>2 DEF Expected
    <3> QED
      BY <3>2, <3>3
  <2> QED
    BY <1>2, <2>2, <2>3 DEF AllExpected, Expected
<1> QED
  BY <1>1, <1>2, SameTree DEF AllExpected

\* A whole pattern is taken: a package is found, for a reason, and none is lost.
LEMMA MatchedFinds ==
  ASSUME tree \in Trees, AllExpected, NEW c \in todo, Matched(c), Reached(c), HasManifest(<< >>)
  PROVE  /\ \A root \in packages' : root \in packages \/ Justified(root)
         /\ AllExpected'
<1>1. /\ tree' = tree /\ todo' = todo \ {c} /\ c.segments = << >>
      /\ packages' = packages \cup (IF HasManifest(c.directory) THEN {Real(c.directory)} ELSE {})
  BY DEF Matched
<1>2. ASSUME HasManifest(c.directory)  PROVE Justified(Real(c.directory))
  <2> DEFINE dir == c.directory
  <2>1. dir \in Seq(STRING)
    BY DEF Reached
  <2>2. PICK p \in tree.patterns : \E n \in 0 .. Len(p) :
               /\ c = Call(dir, Rest(p, n))
               /\ \E segment \in [DOMAIN dir -> Steps(p)] : Takes(dir, p, n, segment)
    BY DEF Reached
  <2>3. PICK n \in 0 .. Len(p) :
               /\ c = Call(dir, Rest(p, n))
               /\ \E segment \in [DOMAIN dir -> Steps(p)] : Takes(dir, p, n, segment)
    BY <2>2
  <2>4. p \in Seq(STRING) /\ Rest(p, n) = << >>
    BY <1>1, <2>3, InTree DEF Call
  <2>5. n = Len(p) /\ DOMAIN p = 1 .. n
    BY <2>4, RestOf
  <2> HIDE DEF dir
  <2>6. Matches(dir, p)
    <3>1. \A segment : Used(dir, p, segment, 1 .. n) => Used(dir, p, segment, Steps(p))
      BY <2>5 DEF Used, Steps
    <3> QED
      BY <2>3, <3>1, Matching DEF Takes
  <2>7. dir \in Places
    BY <1>2, <2>1, ManifestIsInPlace DEF dir
  <2> QED
    BY <1>2, <2>6, <2>7 DEF Justified, dir
<1>3. ASSUME NEW d \in Places, NEW p \in tree.patterns, HasManifest(d),
             NEW segment \in [DOMAIN d -> Steps(p)],
             Assigned(d, p, segment), Used(d, p, segment, Steps(p))
      PROVE  Expected(d, p, segment)'
  <2>1. Real(d)' = Real(d)
    BY <1>1, SameTree
  <2>2. CASE Real(d) \in packages
    BY <1>1, <2>1, <2>2 DEF Expected
  <2>3. CASE \E j \in 0 .. Len(d), n \in 0 .. Len(p) :
               /\ Call(SubSeq(d, 1, j), Rest(p, n)) \in todo
               /\ Parted(d, p, segment, j, n)
    <3>1. PICK j \in 0 .. Len(d), n \in 0 .. Len(p) :
               /\ Call(SubSeq(d, 1, j), Rest(p, n)) \in todo
               /\ Parted(d, p, segment, j, n)
      BY <2>3
    <3>2. CASE Call(SubSeq(d, 1, j), Rest(p, n)) # c
      BY <1>1, <3>1, <3>2 DEF Expected
    <3>3. CASE Call(SubSeq(d, 1, j), Rest(p, n)) = c
      <4>1. d \in Seq(STRING) /\ p \in Seq(STRING)
        BY PlacesArePaths, InTree
      <4>2. Rest(p, n) = << >> /\ c.directory = SubSeq(d, 1, j)
        BY <1>1, <3>3 DEF Call
      <4>3. n = Len(p) /\ DOMAIN p = 1 .. Len(p) /\ Len(p) \in Nat
        BY <4>1, <4>2, RestOf
      <4>4. DOMAIN d = 1 .. Len(d) /\ Len(d) \in Nat
        BY <4>1, LenProperties
      <4>5. j = Len(d)
        <5> SUFFICES ASSUME j # Len(d)  PROVE FALSE
          OBVIOUS
        <5>1. j + 1 \in 1 .. Len(d) /\ j + 1 \in j + 1 .. Len(d)
          <6>1. Len(d) \in Nat
            BY <4>4
          <6> QED
            BY <6>1
        <5>2. segment[j + 1] > n
          BY <3>1, <5>1 DEF Parted
        <5>3. segment[j + 1] \in 1 .. Len(p)
          BY <4>3, <4>4, <5>1 DEF Steps
        <5> QED
          BY <4>3, <5>2, <5>3
      <4>6. c.directory = d
        BY <4>1, <4>2, <4>5, SubSeqFull
      <4>7. Real(d) \in packages'
        BY <1>1, <1>3, <4>6
      <4> QED
        BY <2>1, <4>7 DEF Expected
    <3> QED
      BY <3>2, <3>3
  <2> QED
    BY <1>3, <2>2, <2>3 DEF AllExpected, Expected
<1>4. \A root \in packages' : root \in packages \/ Justified(root)
  BY <1>1, <1>2
<1>5. AllExpected'
  BY <1>1, <1>3, SameTree DEF AllExpected
<1> QED
  BY <1>4, <1>5

LEMMA PatternInit == Init => PatternInv
BY DEF Init, PatternInv

LEMMA PatternStep == WalkInv /\ PatternInv /\ [Next]_vars => PatternInv'
<1> SUFFICES ASSUME WalkInv, PatternInv, [Next]_vars  PROVE PatternInv'
  OBVIOUS
<1>1. tree \in Trees
  BY DEF WalkInv
<1>2. /\ phase = "sources" => packages = {}
      /\ phase = "packages" => \A c \in todo : Reached(c) /\ HasManifest(<< >>)
      /\ \A root \in packages : Justified(root)
      /\ phase \in {"packages", "done"} /\ HasManifest(<< >>) => AllExpected
      /\ phase = "done" => todo = {}
  BY DEF PatternInv
<1>3. CASE \E c \in todo : WalkDirectory(c)
  BY <1>2, <1>3 DEF WalkDirectory, PatternInv
<1>4. CASE BuildProgram
  <2>1. tree' = tree /\ packages' = {} /\ phase' \in {"failed", "packages"}
    BY <1>2, <1>4 DEF BuildProgram
  <2>2. CASE phase' = "failed"
    BY <2>1, <2>2 DEF PatternInv
  <2>3. CASE phase' = "packages"
    <3>1. /\ \A c \in todo' : Reached(c) /\ HasManifest(<< >>)
          /\ HasManifest(<< >>) => AllExpected'
      BY <1>1, <1>4, <2>3, PatternsBegin
    <3>2. /\ \A c \in todo' : Reached(c)' /\ HasManifest(<< >>)'
          /\ HasManifest(<< >>)' => AllExpected'
      BY <2>1, <3>1, SameTree
    <3> QED
      BY <2>1, <2>3, <3>2 DEF PatternInv
  <2> QED
    BY <2>1, <2>2, <2>3
<1>5. ASSUME NEW c \in todo, Visit(c)  PROVE PatternInv'
  <2>1. tree' = tree /\ packages' = packages /\ phase = "packages" /\ c.segments # << >>
        /\ \/ phase' = "failed"
           \/ phase' = "packages" /\ todo' = (todo \ {c}) \cup Calls(c)
    BY <1>5 DEF Visit
  <2>2. \A root \in packages' : Justified(root)'
    BY <1>2, <2>1, SameTree
  <2>3. CASE phase' = "failed"
    BY <2>2, <2>3 DEF PatternInv
  <2>4. CASE phase' = "packages" /\ todo' = (todo \ {c}) \cup Calls(c)
    <3>1. Reached(c) /\ HasManifest(<< >>)
      BY <1>2, <1>5, <2>1
    <3>2. \A d \in Calls(c) : Reached(d)
      BY <1>1, <2>1, <3>1, CallsAreReached
    <3>3. \A d \in todo' : Reached(d)
      BY <1>2, <2>1, <2>4, <3>2
    <3>4. \A d \in todo' : Reached(d)' /\ HasManifest(<< >>)'
      BY <2>1, <3>1, <3>3, SameTree
    <3>5. AllExpected'
      BY <1>1, <1>2, <1>5, <2>1, <2>4, <3>1, VisitKeepsExpected
    <3> QED
      BY <2>2, <2>4, <3>4, <3>5 DEF PatternInv
  <2> QED
    BY <2>1, <2>3, <2>4
<1>6. ASSUME NEW c \in todo, Matched(c)  PROVE PatternInv'
  <2>1. tree' = tree /\ phase = "packages" /\ phase' = "packages" /\ todo' = todo \ {c}
    BY <1>6 DEF Matched
  <2>2. Reached(c) /\ HasManifest(<< >>) /\ AllExpected
    BY <1>2, <1>6, <2>1
  <2>3. (\A root \in packages' : root \in packages \/ Justified(root)) /\ AllExpected'
    BY <1>1, <1>6, <2>2, MatchedFinds
  <2>4. \A root \in packages' : Justified(root)'
    BY <1>2, <2>1, <2>3, SameTree
  <2>5. \A d \in todo' : Reached(d)' /\ HasManifest(<< >>)'
    BY <1>2, <2>1, SameTree
  <2> QED
    BY <2>1, <2>3, <2>4, <2>5 DEF PatternInv
<1>7. CASE PatternsEnd
  <2>1. /\ tree' = tree /\ packages' = packages /\ todo' = todo /\ todo = {}
        /\ phase = "packages" /\ phase' = "done"
    BY <1>7 DEF PatternsEnd
  <2>2. \A root \in packages' : Justified(root)'
    BY <1>2, <2>1, SameTree
  <2>3. HasManifest(<< >>)' => AllExpected'
    <3>1. AllExpected' <=> AllExpected
      <4>1. \A d, p, segment : Expected(d, p, segment)' <=> Expected(d, p, segment)
        BY <2>1, SameTree DEF Expected
      <4> QED
        BY <2>1, <4>1, SameTree DEF AllExpected
    <3> QED
      BY <1>2, <2>1, <3>1, SameTree
  <2> QED
    BY <2>1, <2>2, <2>3 DEF PatternInv
<1>8. CASE UNCHANGED vars
  <2>1. tree' = tree /\ packages' = packages /\ todo' = todo /\ phase' = phase
    BY <1>8 DEF vars
  <2>2. AllExpected' <=> AllExpected
    <3>1. \A d, p, segment : Expected(d, p, segment)' <=> Expected(d, p, segment)
      BY <2>1, SameTree DEF Expected
    <3> QED
      BY <2>1, <3>1, SameTree DEF AllExpected
  <2> QED
    BY <1>2, <2>1, <2>2, SameTree DEF PatternInv
<1> QED
  BY <1>3, <1>4, <1>5, <1>6, <1>7, <1>8 DEF Next

\* With no calls left, the packages are what the patterns match.
LEMMA AllRecognised == WalkInv /\ PatternInv => WorkspaceSourcesAreRecognised
<1> SUFFICES ASSUME WalkInv, PatternInv, phase = "done", NEW f \in tree.files
             PROVE  IsWorkspaceSourceFile(f) <=>
                      /\ HasManifest(<< >>)
                      /\ \E d \in Places : /\ IsStrictPrefix(Real(d), f)
                                           /\ HasManifest(d)
                                           /\ \E p \in tree.patterns : Matches(d, p)
  BY DEF WorkspaceSourcesAreRecognised
<1>1. /\ tree \in Trees /\ todo = {}
      /\ \A root \in packages : Justified(root)
      /\ HasManifest(<< >>) => AllExpected
  BY DEF WalkInv, PatternInv
<1>2. f \in Seq(STRING)
  BY <1>1, InTree
<1>3. Len(f) \in Nat
  BY <1>2, LenProperties
<1>4. ASSUME IsWorkspaceSourceFile(f)
      PROVE  /\ HasManifest(<< >>)
             /\ \E d \in Places : /\ IsStrictPrefix(Real(d), f)
                                  /\ HasManifest(d)
                                  /\ \E p \in tree.patterns : Matches(d, p)
  <2>1. PICK k \in 0 .. Len(f) - 1 : SubSeq(f, 1, k) \in packages
    BY <1>4 DEF IsWorkspaceSourceFile
  <2>2. k \in 0 .. Len(f) /\ k < Len(f)
    BY <1>3
  <2>3. HasManifest(<< >>)
    BY <1>1, <2>1 DEF Justified
  <2>4. PICK d \in Places : /\ SubSeq(f, 1, k) = Real(d) /\ HasManifest(d)
                            /\ \E p \in tree.patterns : Matches(d, p)
    BY <1>1, <2>1 DEF Justified
  <2>5. Real(d) \in Seq(STRING) /\ Len(Real(d)) = k
    BY <1>2, <2>2, <2>4, Beginnings
  <2>6. Len(Real(d)) < Len(f) /\ Real(d) = SubSeq(f, 1, Len(Real(d)))
    BY <2>2, <2>4, <2>5
  <2>7. IsStrictPrefix(Real(d), f)
    BY <1>2, <2>5, <2>6, PrefixIsBeginning
  <2> QED
    BY <2>3, <2>4, <2>7
<1>5. ASSUME HasManifest(<< >>), NEW d \in Places, IsStrictPrefix(Real(d), f), HasManifest(d),
             NEW p \in tree.patterns, Matches(d, p)
      PROVE  IsWorkspaceSourceFile(f)
  <2>1. d \in Seq(STRING)
    BY <1>1, PlacesArePaths
  <2>2. Real(d) \in Seq(STRING) /\ Len(Real(d)) \in Nat
    BY <1>1, <2>1, RealPath, LenProperties
  <2>3. Len(Real(d)) < Len(f) /\ Real(d) = SubSeq(f, 1, Len(Real(d)))
    BY <1>2, <1>5, <2>2, PrefixIsBeginning
  <2>4. PICK segment \in [DOMAIN d -> Steps(p)] :
             Assigned(d, p, segment) /\ Used(d, p, segment, Steps(p))
    BY <1>5, Matching
  <2>5. Real(d) \in packages
    BY <1>1, <1>5, <2>4 DEF AllExpected, Expected
  <2>6. Len(Real(d)) \in 0 .. Len(f) - 1
    BY <1>3, <2>2, <2>3
  <2> QED
    BY <2>3, <2>5, <2>6 DEF IsWorkspaceSourceFile
<1> QED
  BY <1>4, <1>5

\* A file is a workspace source exactly if a pattern matches a directory around it with a
\* manifest, whatever wildcards and links are on the way (discoverWorkspacePackageRoots,
\* expandWorkspacePattern, workspacePackageRootForFile).
THEOREM RecognisedSources == Spec => []WorkspaceSourcesAreRecognised
BY WalkInit, WalkStep, PatternInit, PatternStep, AllRecognised, PTL DEF Spec
=============================================================================
