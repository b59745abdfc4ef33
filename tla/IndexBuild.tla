----------------------------- MODULE IndexBuild -----------------------------
(***************************************************************************)
(* How the Swift adapter builds its index (buildIndexStore and runProcess  *)
(* of swift/Sources/SwiftArchLint/main.swift): it runs xcrun to find the   *)
(* compiler, and then the compiler once for each file.  A child writes to  *)
(* two pipes of bounded size; the adapter waits for its exit and then      *)
(* reads each pipe to its end.  A child may crash, and a compiler may      *)
(* fail, with or without leaving index records.                            *)
(*                                                                         *)
(* What a child writes on a pipe reads as a text or as nothing: nothing is *)
(* also what is left of blanks and of bytes that are no UTF-8.  A text is  *)
(* told by its process and its pipe.  No child leaves a process behind     *)
(* that holds its pipes open.                                              *)
(***************************************************************************)
EXTENDS Naturals

CONSTANTS FileCount,  \* indexable Swift files
          Capacity,   \* of a pipe
          MaxOutput   \* of a child on one pipe (a bound for TLC)

ASSUME BuildAssumption ==
  FileCount \in Nat \ {0} /\ Capacity \in Nat \ {0} /\ MaxOutput \in Nat

VARIABLES phase,        \* of the adapter
          process,      \* 0 for xcrun, then the number of the file
          child,
          failures,     \* processes that ended with an exit code other than 0
          output,       \* what the child has to say on each pipe in all
          pipe,         \* what is in the pipes
          said,         \* texts that children have written
          combined,     \* combinedOutput of runProcess, as far as it is read
          buildOutput,
          report,       \* what the error that ends the build tells
          records       \* files whose records are in the index store

vars == <<phase, process, child, failures, output, pipe, said, combined, buildOutput, report, records>>

Pipes == {"stdout", "stderr"}
Silence == [p \in Pipes |-> 0]

Texts(i) == {t \in said : t[1] = i}

Init ==
  /\ phase = "start"
  /\ process = 0
  /\ child = "none"
  /\ failures = {}
  /\ output = Silence /\ pipe = Silence
  /\ said = {} /\ combined = {} /\ buildOutput = {} /\ report = {}
  /\ records = {}

\* The compiler's path is all that xcrun says: right if that is one text on stdout.
ToolFound == Texts(0) = {<<0, "stdout">>}

\* process.run() with two new pipes, or an executable that cannot be run.
Start ==
  /\ phase = "start"
  /\ \/ /\ process # 0 => ToolFound
        /\ phase' = "wait"
        /\ child' = "running"
        /\ output' \in [Pipes -> 0 .. MaxOutput]
        /\ pipe' = Silence
        /\ UNCHANGED report
     \/ /\ phase' = "failed"
        /\ report' = {<<process, "error">>}
        /\ UNCHANGED <<child, output, pipe>>
  /\ UNCHANGED <<process, failures, said, combined, buildOutput, records>>

Write_slip(p) ==
  /\ child = "running"
  /\ pipe[p] < output[p]
  /\ pipe["stdout"] + pipe["stderr"] < Capacity
  /\ pipe' = [pipe EXCEPT ![p] = @ + 1]
  /\ UNCHANGED <<phase, process, child, failures, output, said, combined, buildOutput, report, records>>

\* A write to a full pipe blocks.
Write(p) ==
  /\ child = "running"
  /\ pipe[p] < output[p]
  /\ pipe[p] < Capacity
  /\ pipe' = [pipe EXCEPT ![p] = @ + 1]
  /\ UNCHANGED <<phase, process, child, failures, output, said, combined, buildOutput, report, records>>

\* The writer is gone; some of what is in its pipes may be text.
ChildEnds ==
  /\ child = "running"
  /\ child' = "exited"
  /\ \E ps \in SUBSET {p \in Pipes : pipe[p] > 0} : said' = said \cup {process} \X ps
  /\ UNCHANGED <<phase, process, output, pipe, combined, buildOutput, report>>

\* A child that has said all ends; a compiler may have left records even if it fails.
ChildExits ==
  /\ ChildEnds
  /\ pipe = output
  /\ \E succeeds, indexes \in BOOLEAN :
       /\ succeeds => indexes
       /\ failures' = IF succeeds THEN failures ELSE failures \cup {process}
       /\ records' = IF indexes /\ process # 0 THEN records \cup {process} ELSE records

ChildCrashes ==
  /\ ChildEnds
  /\ failures' = failures \cup {process}
  /\ UNCHANGED records

WaitUntilExit ==
  /\ phase = "wait"
  /\ child = "exited"
  /\ phase' = "stdout"
  /\ UNCHANGED <<process, child, failures, output, pipe, said, combined, buildOutput, report, records>>

\* readDataToEndOfFile returns once the pipe has no writer, with all that was in it.
Read(p) ==
  /\ phase = p
  /\ child = "exited"
  /\ pipe' = [pipe EXCEPT ![p] = 0]
  /\ combined' = (IF p = "stdout" THEN {} ELSE combined) \cup ({<<process, p>>} \cap said)

ReadOutput ==
  /\ Read("stdout")
  /\ phase' = "stderr"
  /\ UNCHANGED <<process, child, failures, output, said, buildOutput, report, records>>

Result_slip ==
  IF process < FileCount THEN "start" ELSE IF records # {} THEN "indexed" ELSE "failed"

Result_slip2 ==
  IF process \in failures THEN "failed"
  ELSE IF process < FileCount THEN "start"
  ELSE IF records # {} THEN "indexed" ELSE "failed"

\* runProcess returns, if not for a failure of xcrun; compilers may fail.  The last
\* compiler is followed by the guard on index records.
Result ==
  IF process = 0 /\ process \in failures THEN "failed"
  ELSE IF process < FileCount THEN "start"
  ELSE IF records # {} THEN "indexed" ELSE "failed"

\* A failure of xcrun is reported with what it said, the lack of records with what the
\* compilers said; an index that is used drops that.
ReadError ==
  /\ Read("stderr")
  /\ phase' = Result
  /\ process' = IF phase' = "start" THEN process + 1 ELSE process
  /\ buildOutput' = buildOutput \cup (IF process = 0 THEN {} ELSE combined')
  /\ report' = IF phase' # "failed" THEN {}
               ELSE IF process = 0 THEN combined' ELSE buildOutput'
  /\ UNCHANGED <<child, failures, output, said, records>>

Adapter == Start \/ WaitUntilExit \/ ReadOutput \/ ReadError
Child   == ChildExits \/ \E p \in Pipes : Write(p)
Next    == Adapter \/ Child \/ ChildCrashes

Spec == Init /\ [][Next]_vars
FairSpec == Spec /\ WF_vars(Adapter) /\ WF_vars(Child)

---------------------------------------------------------------------------
TypeOK ==
  /\ phase \in {"start", "wait", "stdout", "stderr", "indexed", "failed"}
  /\ process \in 0 .. FileCount
  /\ child \in {"none", "running", "exited"}
  /\ failures \subseteq 0 .. FileCount
  /\ {output, pipe} \subseteq [Pipes -> Nat]
  /\ said \cup combined \cup buildOutput \subseteq (0 .. FileCount) \X Pipes
  /\ report \subseteq (0 .. FileCount) \X (Pipes \cup {"error"})
  /\ records \subseteq 1 .. FileCount

\* Compilers may fail or crash: the build fails only if a process cannot be run, xcrun
\* fails, or all the compilers have left no record.  The error tells what xcrun said, or
\* what each of the compilers said on either pipe, so far as that is text.
FailuresAreExplained == phase = "failed" =>
  \/ report = {<<process, "error">>}
  \/ 0 \in failures /\ report = Texts(0)
  \/ /\ process = FileCount /\ records = {}
     /\ report = UNION {Texts(i) : i \in 1 .. FileCount}

\* An index is used only if xcrun has succeeded and named the compiler, with no word
\* more, and some file was indexed, and it lacks only files whose compiler failed.
IndexGapsAreFailures == phase = "indexed" =>
  /\ 0 \notin failures /\ ToolFound
  /\ records # {}
  /\ (1 .. FileCount) \ records \subseteq failures

\* Unless a child has more to say on one pipe than that holds, the build ends.  (If one
\* has, both wait: the child for a reader, the adapter for the child's exit.)
BuildEndsIfOutputFits ==
  [](\A p \in Pipes : output[p] <= Capacity) => <>(phase \in {"indexed", "failed"})
=============================================================================
