------------------------------ MODULE Discovery ------------------------------
(***************************************************************************)
(* Which files the TypeScript adapter analyses, and which belong to a      *)
(* workspace package (sourceFiles, buildProgram, expandWorkspacePattern    *)
(* and workspacePackageRootForFile of typescript/src/main.ts).             *)
(* TypeScriptAdapter starts from what is found here: Owned, and the field  *)
(* workspace of its sources.                                               *)
(*                                                                         *)
(* A path is the sequence of names from the repository root.  A tree has   *)
(*   root         where the sources are looked for                         *)
(*   directories, files   real paths of these                              *)
(*   links        symbolic links to directories: paths, by whatever links  *)
(*                before, to their real paths                              *)
(*   patterns     the workspaces of package.json, each a sequence of       *)
(*                names, wildcards and dots                                *)
(*   diagnostics  of the compiler: code (notFound for 2307, or other),     *)
(*                error (its category), located (in a file), and of an     *)
(*                import its specifier, unnamed if the message has none,   *)
(*                and the target the adapter finds for it, or NoFile       *)
(*                                                                         *)
(* A recursion that only collects is the set of its calls still to make:   *)
(* a directory and the segments of a pattern that are left.                *)
(***************************************************************************)
EXTENDS Naturals, Sequences, SequencesExt

CONSTANTS Trees,
          SourceNames,  \* names of files with a source extension
          Ignored       \* ignoredDirectories

\* Directories and files are told by their real paths, what is around one is a directory,
\* and the sources are looked for in a directory that is there.  No pattern goes up.
TreesAssumption == \A t \in Trees :
  LET real == t.directories \cup t.files
  IN  /\ real \cup t.patterns \cup DOMAIN t.links \subseteq Seq(STRING)
      /\ \A p \in t.patterns : ".." \notin Range(p)
      /\ t.root \in t.directories
      /\ \A link \in DOMAIN t.links : t.links[link] \in t.directories
      /\ \A p \in real : \A k \in 0 .. Len(p) :
           /\ SubSeq(p, 1, k) \notin DOMAIN t.links
           /\ k < Len(p) => SubSeq(p, 1, k) \in t.directories

ASSUME TreesAssumption

VARIABLES tree, phase, todo,
          owned,     \* sourceFiles
          packages   \* workspacePackageRoots

vars == <<tree, phase, todo, owned, packages>>

NoFile == << >>
Manifest == "package.json"

\* realpathSync: what comes after the last link in a path is no link.
Real(path) ==
  LET linked == {k \in 0 .. Len(path) : SubSeq(path, 1, k) \in DOMAIN tree.links}
  IN  IF linked = {} THEN path
      ELSE LET k == CHOOSE j \in linked : \A i \in linked : i <= j
           IN  tree.links[SubSeq(path, 1, k)] \o SubSeq(path, k + 1, Len(path))

Holds(directory, path) == path # << >> /\ Front(path) = Real(directory)

Children_slip(directory) == {Last(p) : p \in {q \in tree.directories : Holds(directory, q)}}

\* safeReadDirectories: a link is no directory here.
Children(directory) ==
  {Last(p) : p \in {q \in tree.directories : Holds(directory, q)}} \ Ignored

HasManifest(directory) == Append(Real(directory), Manifest) \in tree.files

Call(directory, segments) == [directory |-> directory, segments |-> segments]

---------------------------------------------------------------------------
Init ==
  /\ tree \in Trees
  /\ phase = "sources"
  /\ todo = {Call(tree.root, << >>)}
  /\ owned = {}
  /\ packages = {}

\* walk in sourceFiles.
WalkDirectory(c) ==
  /\ phase = "sources"
  /\ c \in todo
  /\ owned' = owned \cup {p \in tree.files : Holds(c.directory, p) /\ Last(p) \in SourceNames}
  /\ todo' = (todo \ {c}) \cup {Call(Append(c.directory, n), << >>) : n \in Children(c.directory)}
  /\ UNCHANGED <<tree, phase, packages>>

\* unresolvedLocalModuleDiagnostic: a relative import that is reported as not found is
\* relevant unless it leads to a file under analysis, an import of a package is not.
UnresolvedLocalModule(d) ==
  d.specifier = "unnamed" \/ (d.specifier = "relative" /\ d.target \notin owned)

\* relevantProgramDiagnostics: of the other diagnostics only errors of no file count, so
\* what the compiler says of an import under another code goes by.
Relevant(d) ==
  IF d.code = "notFound" /\ d.located THEN UnresolvedLocalModule(d) ELSE d.error /\ ~ d.located

BuildProgram ==
  /\ phase = "sources"
  /\ todo = {}
  /\ IF \E d \in tree.diagnostics : Relevant(d) THEN phase' = "failed" /\ UNCHANGED todo
     ELSE /\ phase' = "packages"
          /\ todo' = IF HasManifest(<< >>) THEN {Call(<< >>, s) : s \in tree.patterns} ELSE {}
  /\ UNCHANGED <<tree, owned, packages>>

\* path.join
Join(directory, segment) == IF segment = "." THEN directory ELSE Append(directory, segment)

Calls_slip(c) ==
  LET rest == Tail(c.segments)
      Below(segments) == {Call(Append(c.directory, n), segments) : n \in Children(c.directory)}
  IN  CASE Head(c.segments) = "*"  -> Below(rest)
        [] Head(c.segments) = "**" -> Below(rest) \cup Below(c.segments)
        [] OTHER -> {Call(Join(c.directory, Head(c.segments)), rest)}

Calls_slip2(c) ==
  LET rest == Tail(c.segments)
      Below(segments) == {Call(Append(c.directory, n), segments) : n \in Children(c.directory)}
  IN  CASE Head(c.segments) = "*"  -> Below(rest)
        [] Head(c.segments) = "**" -> {Call(c.directory, c.segments)} \cup Below(rest)
        [] OTHER -> {Call(Join(c.directory, Head(c.segments)), rest)}

\* The calls of visit: one wildcard stands for a directory, two for any number of them.
Calls(c) ==
  LET rest == Tail(c.segments)
      Below(segments) == {Call(Append(c.directory, n), segments) : n \in Children(c.directory)}
  IN  CASE Head(c.segments) = "*"  -> Below(rest)
        [] Head(c.segments) = "**" -> {Call(c.directory, rest)} \cup Below(c.segments)
        [] OTHER -> {Call(Join(c.directory, Head(c.segments)), rest)}

\* Reading a file as a directory throws.
Throws(c) == Head(c.segments) \in {"*", "**"} /\ Real(c.directory) \in tree.files

Visit(c) ==
  /\ phase = "packages"
  /\ c \in todo
  /\ c.segments # << >>
  /\ IF Throws(c) THEN phase' = "failed" /\ UNCHANGED todo
     ELSE todo' = (todo \ {c}) \cup Calls(c) /\ UNCHANGED phase
  /\ UNCHANGED <<tree, owned, packages>>

\* A directory that a whole pattern matches.
Matched(c) ==
  /\ phase = "packages"
  /\ c \in todo
  /\ c.segments = << >>
  /\ packages' = packages \cup (IF HasManifest(c.directory) THEN {Real(c.directory)} ELSE {})
  /\ todo' = todo \ {c}
  /\ UNCHANGED <<tree, phase, owned>>

PatternsEnd ==
  /\ phase = "packages"
  /\ todo = {}
  /\ phase' = "done"
  /\ UNCHANGED <<tree, todo, owned, packages>>

Next ==
  \/ \E c \in todo : WalkDirectory(c) \/ Visit(c) \/ Matched(c)
  \/ BuildProgram
  \/ PatternsEnd

Spec == Init /\ [][Next]_vars

\* A sequential program takes its next step.
FairSpec == Spec /\ WF_vars(Next)

\* workspacePackageRootForFile of a real path: some directory around the file is a root.
IsWorkspaceSourceFile(file) ==
  \E k \in 0 .. Len(file) - 1 : SubSeq(file, 1, k) \in packages

---------------------------------------------------------------------------
(* What the walks are to find, told without walking.                       *)

\* Paths that lead to directories, links included.
Places ==
  tree.directories
    \cup UNION {{l \o SubSeq(d, Len(tree.links[l]) + 1, Len(d)) :
                   d \in {e \in tree.directories : IsPrefix(tree.links[l], e)}} :
                  l \in DOMAIN tree.links}

\* Name number k of a path may be matched by a wildcard.
Listed(path, k) == path[k] \notin Ignored /\ Real(SubSeq(path, 1, k - 1)) \o <<path[k]>> \in tree.directories

\* Segments that names can fall to.
Steps(pattern) == {s \in DOMAIN pattern : pattern[s] # "."}

\* Each name falls to a segment, in order: one to a name or a single wildcard, any
\* number to a double one.
Matches(path, pattern) ==
  \E segment \in [DOMAIN path -> Steps(pattern)] :
    /\ \A j, k \in DOMAIN path : j < k => segment[j] <= segment[k]
    /\ \A k \in DOMAIN path :
         IF pattern[segment[k]] \in {"*", "**"} THEN Listed(path, k)
                                                ELSE path[k] = pattern[segment[k]]
    /\ \A s \in Steps(pattern) : pattern[s] # "**" =>
         \E k \in DOMAIN path : \A j \in DOMAIN path : segment[j] = s <=> j = k

UnderRoot ==
  {f \in tree.files :
     /\ IsStrictPrefix(tree.root, f)
     /\ Last(f) \in SourceNames
     /\ \A k \in Len(tree.root) + 1 .. Len(f) - 1 : f[k] \notin Ignored}

\* Every source under the root is analysed, at any depth, but those in ignored
\* directories and behind links; and a run goes on only if each relative import of which
\* the compiler says that there is no such module (code 2307; under other codes imports
\* go by) leads to one of them.
AnalysisIsComplete ==
  /\ phase # "sources" => owned = UnderRoot
  /\ phase \in {"packages", "done"} => \A d \in tree.diagnostics :
       d.code = "notFound" /\ d.located /\ d.specifier = "relative" => d.target \in UnderRoot

\* A file counts as a workspace source exactly if a pattern of the repository matches a
\* directory around it that has a manifest, by whatever links the pattern gets there.
WorkspaceSourcesAreRecognised == phase = "done" =>
  \A f \in tree.files :
    IsWorkspaceSourceFile(f) <=>
      /\ HasManifest(<< >>)
      /\ \E d \in Places : /\ IsStrictPrefix(Real(d), f)
                           /\ HasManifest(d)
                           /\ \E p \in tree.patterns : Matches(d, p)

\* Patterns with double wildcards end too, links to directories above included.
DiscoveryEnds == <>(phase \in {"done", "failed"})
=============================================================================
