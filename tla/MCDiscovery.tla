----------------------------- MODULE MCDiscovery -----------------------------
(***************************************************************************)
(* Small repositories for TLC: directories of three levels with packages   *)
(* in some of them, an ignored directory, links, and patterns of up to     *)
(* three segments.                                                         *)
(***************************************************************************)
EXTENDS Discovery

MCSourceNames == {"x.ts"}
MCIgnored == {"dist"}

P == <<"p">>
A == <<"p", "a">>
B == <<"p", "a", "b">>
D == <<"p", "dist">>

Directories == {<< >>, P, A, B, D, <<"q">>}

Within(name, directories) == {Append(d, name) : d \in directories}

Tree(root, sources, manifests, links, patterns) ==
  [root |-> root, directories |-> Directories,
   files |-> Within("x.ts", sources) \cup Within(Manifest, manifests) \cup {<<"q", "notes">>},
   links |-> links, patterns |-> patterns, diagnostics |-> {}]

NoLinks == [p \in {} |-> p]
ToA == [p \in {<<"q", "a">>} |-> A]
ToTop == [p \in {<<"p", "up">>, <<"p", "up", "p", "up">>} |-> << >>]

Segments == {"p", "q", "a", "dist", "notes", ".", "*", "**"}
Patterns ==
  UNION {[1 .. n -> Segments] : n \in 1 .. 2}
    \cup {<<"p", s, t>> : s, t \in {"*", "**", "b"}}
    \cup {<<"q", "a", "*">>, <<"p", "up", "*">>, <<"p", "up", "**">>,
          <<"p", "up", "p", "up">>, <<"q", "notes", "*">>}

PackageTrees ==
  {Tree(P, {A, B, D}, m, l, {s}) :
     m \in {{<< >>, P, B}, {<< >>, A, D}}, l \in {NoLinks, ToA, ToTop}, s \in Patterns}
    \cup {Tree(P, {A, B}, m, NoLinks, {<<"p", "*">>, <<"**", "b">>}) : m \in SUBSET {<< >>, A, B}}

Diagnostic(code, error, located, specifier, target) ==
  [code |-> code, error |-> error, located |-> located, specifier |-> specifier, target |-> target]

\* An import of one of these, under the code for a module not found and under another.
Imports ==
  {Diagnostic(c, TRUE, TRUE, "relative", t) :
     c \in {"notFound", "other"},
     t \in {NoFile, Append(B, "x.ts"), Append(D, "x.ts"), <<"q", "notes">>}}

OtherDiagnostics ==
  {Diagnostic("notFound", TRUE, TRUE, s, NoFile) : s \in {"package", "unnamed"}}
    \cup {Diagnostic(c, e, FALSE, "unnamed", NoFile) : c \in {"notFound", "other"}, e \in BOOLEAN}

SourceTrees ==
  {[Tree(r, s, {<< >>}, l, {}) EXCEPT !.diagnostics = ds] :
     r \in {<< >>, P, A}, s \in SUBSET {<< >>, A, B, D}, l \in {NoLinks, ToTop},
     ds \in {i \cup o : i \in {{}} \cup {{d} : d \in Imports},
                        o \in {{}} \cup {{d} : d \in OtherDiagnostics}}}

MCTrees == PackageTrees \cup SourceTrees
=============================================================================
