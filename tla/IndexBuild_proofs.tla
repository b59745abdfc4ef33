------------------------- MODULE IndexBuild_proofs -------------------------
(***************************************************************************)
(* How a build of the index fails and which indexes the Swift adapter      *)
(* accepts (buildIndexStore and runProcess of                              *)
(* swift/Sources/SwiftArchLint/main.swift), for any number of files, any   *)
(* size of pipe and any output.                                            *)
(***************************************************************************)
EXTENDS IndexBuild, TLAPS

\* A child runs only while the adapter waits, and is gone when its pipes are read.
Order ==
  /\ phase = "wait" => child \in {"running", "exited"}
  /\ phase # "wait" => child # "running"
  /\ phase \in {"stdout", "stderr"} => child = "exited"

\* Texts are from the processes so far; while the build goes on, those of the compilers
\* that are over are in buildOutput, and what is read of this process in combined.
Told ==
  /\ \A t \in said : t[1] < process \/ (t[1] = process /\ phase # "start" /\ child = "exited")
  /\ phase \in {"start", "wait", "stdout", "stderr"} =>
       /\ buildOutput = {t \in said : 0 < t[1] /\ t[1] < process}
       /\ phase = "start" /\ process = 0 => said = {}
  /\ phase = "stderr" => combined = {t \in said : t = <<process, "stdout">>}

\* The compiler is known when one is run.
Found == (process # 0 /\ phase \notin {"start", "failed"}) \/ process > 1 => ToolFound

\* The processes that have ended.
Over == {i \in 0 .. FileCount :
           \/ i < process
           \/ i = process /\ child = "exited" /\ phase \notin {"start", "failed"}}

\* A compiler that has ended has left records or failed; the tool has not failed once a
\* compiler is due.
Outcome ==
  /\ \A i \in Over : i # 0 => i \in records \cup failures
  /\ process # 0 => 0 \notin failures
  /\ phase = "indexed" => records # {} /\ process = FileCount /\ child = "exited"

IInv == TypeOK /\ Order /\ Told /\ Found /\ Outcome /\ FailuresAreExplained

---------------------------------------------------------------------------
LEMMA SilenceIsQuiet == Silence \in [Pipes -> Nat]
BY DEF Silence, Pipes

LEMMA InitIInv == Init => IInv
<1> SUFFICES ASSUME Init PROVE IInv
  OBVIOUS
<1>1. TypeOK
  BY SilenceIsQuiet, BuildAssumption DEF Init, TypeOK
<1>2. Told
  BY DEF Init, Told
<1> QED
  BY <1>1, <1>2 DEF Init, IInv, Order, Found, Outcome, Over, FailuresAreExplained

LEMMA StartStep == IInv /\ Start => IInv'
<1> SUFFICES ASSUME IInv, Start PROVE IInv'
  OBVIOUS
<1>1. /\ UNCHANGED <<process, failures, said, combined, buildOutput, records>>
      /\ phase = "start"
  BY DEF Start
<1>2. process \in 0 .. FileCount
  BY DEF IInv, TypeOK
<1>3. CASE /\ phase' = "failed"
           /\ report' = {<<process, "error">>}
           /\ UNCHANGED <<child, output, pipe>>
  <2>1. report' \subseteq (0 .. FileCount) \X (Pipes \cup {"error"})
    BY <1>2, <1>3
  <2>2. TypeOK'
    BY <1>1, <1>3, <2>1 DEF IInv, TypeOK
  <2>3. Told'
    BY <1>1, <1>3 DEF IInv, Told
  <2>4. Found'
    BY <1>1, <1>3 DEF IInv, Found, ToolFound, Texts
  <2>5. FailuresAreExplained'
    BY <1>1, <1>3 DEF FailuresAreExplained
  <2>6. Order' /\ Outcome'
    BY <1>1, <1>3 DEF IInv, Order, Outcome, Over
  <2> QED
    BY <2>2, <2>3, <2>4, <2>5, <2>6 DEF IInv
<1>4. CASE /\ process # 0 => ToolFound
           /\ phase' = "wait"
           /\ child' = "running"
           /\ output' \in [Pipes -> 0 .. MaxOutput]
           /\ pipe' = Silence
           /\ UNCHANGED report
  <2>1. output' \in [Pipes -> Nat]
    BY <1>4, BuildAssumption
  <2>2. TypeOK'
    BY <1>1, <1>4, <2>1, SilenceIsQuiet DEF IInv, TypeOK
  <2>3. Told'
    BY <1>1, <1>4 DEF IInv, Told
  <2>4. Found'
    BY <1>1, <1>2, <1>4 DEF Found, ToolFound, Texts
  <2>5. Over' \subseteq Over
    BY <1>1, <1>4 DEF Over
  <2>6. Order' /\ Outcome' /\ FailuresAreExplained'
    BY <1>1, <1>4, <2>5 DEF IInv, Order, Outcome, FailuresAreExplained
  <2> QED
    BY <2>2, <2>3, <2>4, <2>6 DEF IInv
<1> QED
  BY <1>3, <1>4 DEF Start

LEMMA WriteStep == ASSUME NEW p \in Pipes, IInv, Write(p) PROVE IInv'
<1> USE DEF Write
<1>1. TypeOK'
  BY DEF IInv, TypeOK
<1>2. Order' /\ Told' /\ Outcome'
  BY DEF IInv, Order, Told, Outcome, Over
<1>3. Found' /\ FailuresAreExplained'
  BY DEF IInv, Found, ToolFound, Texts, FailuresAreExplained
<1> QED
  BY <1>1, <1>2, <1>3 DEF IInv

LEMMA ExitStep ==
  ASSUME IInv, ChildEnds,
         failures' = failures \/ failures' = failures \cup {process},
         records' = records \/ (process # 0 /\ records' = records \cup {process}),
         process \in failures' \cup records' \/ process = 0
  PROVE  IInv'
<1>1. /\ process \in 0 .. FileCount /\ phase = "wait" /\ child = "running" /\ child' = "exited"
      /\ UNCHANGED <<phase, process, output, pipe, combined, buildOutput, report>>
  BY DEF IInv, TypeOK, Order, ChildEnds
<1>2. PICK ps \in SUBSET {p \in Pipes : pipe[p] > 0} : said' = said \cup {process} \X ps
  BY DEF ChildEnds
<1>3. \A t \in said' : t \in said \/ (t \in (0 .. FileCount) \X Pipes /\ t[1] = process)
  BY <1>1, <1>2
<1>4. said \subseteq said' /\ \A t \in said : t[1] < process
  BY <1>1, <1>2 DEF IInv, Told
<1>5. TypeOK'
  <2>1. failures' \subseteq 0 .. FileCount
    BY <1>1 DEF IInv, TypeOK
  <2>2. records' \subseteq 1 .. FileCount
    <3>1. process # 0 => process \in 1 .. FileCount
      BY <1>1, BuildAssumption
    <3>2. records \subseteq 1 .. FileCount
      BY DEF IInv, TypeOK
    <3> QED
      BY <3>1, <3>2
  <2>3. (said \cup combined \cup buildOutput)' \subseteq (0 .. FileCount) \X Pipes
    BY <1>1, <1>3 DEF IInv, TypeOK
  <2>4. {output, pipe}' \subseteq [Pipes -> Nat]
    BY <1>1 DEF IInv, TypeOK
  <2>5. report' \subseteq (0 .. FileCount) \X (Pipes \cup {"error"})
    BY <1>1 DEF IInv, TypeOK
  <2> QED
    BY <1>1, <2>1, <2>2, <2>3, <2>4, <2>5 DEF TypeOK
<1>6. Order' /\ FailuresAreExplained'
  BY <1>1 DEF IInv, Order, FailuresAreExplained
<1>7. Told'
  <2>1. \A t \in said' : t[1] < process' \/ (t[1] = process' /\ phase' # "start" /\ child' = "exited")
    BY <1>1, <1>3, <1>4
  <2>2. buildOutput' = {t \in said' : 0 < t[1] /\ t[1] < process'}
    <3>1. buildOutput = {t \in said : 0 < t[1] /\ t[1] < process}
      BY <1>1 DEF IInv, Told
    <3> QED
      BY <1>1, <1>3, <1>4, <3>1
  <2> QED
    BY <1>1, <2>1, <2>2 DEF Told
<1>8. Found'
  <2> SUFFICES ASSUME process # 0 PROVE ToolFound'
    BY <1>1 DEF Found
  <2>1. ToolFound
    BY <1>1 DEF IInv, Found
  <2>2. Texts(0)' = Texts(0)
    BY <1>1, <1>3, <1>4 DEF Texts
  <2> QED
    BY <2>1, <2>2 DEF ToolFound
<1>9. Over' \subseteq Over \cup {process}
  BY <1>1 DEF Over
<1>10. Outcome'
  BY <1>1, <1>9 DEF IInv, Outcome
<1> QED
  BY <1>5, <1>6, <1>7, <1>8, <1>10 DEF IInv

LEMMA ChildStep == IInv /\ (ChildExits \/ ChildCrashes) => IInv'
<1> SUFFICES ASSUME IInv, ChildExits \/ ChildCrashes PROVE IInv'
  OBVIOUS
<1>1. CASE ChildExits
  <2>1. PICK succeeds, indexes \in BOOLEAN :
          /\ succeeds => indexes
          /\ failures' = IF succeeds THEN failures ELSE failures \cup {process}
          /\ records' = IF indexes /\ process # 0 THEN records \cup {process} ELSE records
    BY <1>1 DEF ChildExits
  <2>2. process \in failures' \cup records' \/ process = 0
    BY <2>1
  <2> QED
    BY <1>1, <2>1, <2>2, ExitStep DEF ChildExits
<1>2. CASE ChildCrashes
  BY <1>2, ExitStep DEF ChildCrashes
<1> QED
  BY <1>1, <1>2

LEMMA WaitStep == IInv /\ WaitUntilExit => IInv'
<1> SUFFICES ASSUME IInv, WaitUntilExit PROVE IInv'
  OBVIOUS
<1>1. /\ phase = "wait" /\ child = "exited" /\ phase' = "stdout"
      /\ UNCHANGED <<process, child, failures, output, pipe, said, combined, buildOutput, report, records>>
  BY DEF WaitUntilExit
<1>2. TypeOK' /\ Order' /\ Told'
  BY <1>1 DEF IInv, TypeOK, Order, Told
<1>3. Found' /\ Outcome' /\ FailuresAreExplained'
  BY <1>1 DEF IInv, Found, ToolFound, Texts, Outcome, Over, FailuresAreExplained
<1> QED
  BY <1>2, <1>3 DEF IInv

LEMMA ReadOutputStep == IInv /\ ReadOutput => IInv'
<1> SUFFICES ASSUME IInv, ReadOutput PROVE IInv'
  OBVIOUS
<1>1. /\ phase = "stdout" /\ child = "exited" /\ phase' = "stderr"
      /\ pipe' = [pipe EXCEPT !["stdout"] = 0]
      /\ combined' = {<<process, "stdout">>} \cap said
      /\ UNCHANGED <<process, child, failures, output, said, buildOutput, report, records>>
  BY DEF ReadOutput, Read
<1>2. TypeOK'
  BY <1>1 DEF IInv, TypeOK, Pipes
<1>3. Told'
  BY <1>1 DEF IInv, Told
<1>4. Order' /\ Outcome'
  BY <1>1 DEF IInv, Order, Outcome, Over
<1>5. Found' /\ FailuresAreExplained'
  BY <1>1 DEF IInv, Found, ToolFound, Texts, FailuresAreExplained
<1> QED
  BY <1>2, <1>3, <1>4, <1>5 DEF IInv

LEMMA ReadErrorStep == IInv /\ ReadError => IInv'
<1> SUFFICES ASSUME IInv, ReadError PROVE IInv'
  OBVIOUS
<1> DEFINE collected == buildOutput \cup (IF process = 0 THEN {} ELSE combined')
<1>1. /\ phase = "stderr" /\ child = "exited"
      /\ pipe' = [pipe EXCEPT !["stderr"] = 0]
      /\ combined' = combined \cup ({<<process, "stderr">>} \cap said)
      /\ phase' = Result
      /\ process' = IF phase' = "start" THEN process + 1 ELSE process
      /\ buildOutput' = collected
      /\ UNCHANGED <<child, failures, output, said, records>>
  BY DEF ReadError, Read
<1>2. report' = IF phase' # "failed" THEN {} ELSE IF process = 0 THEN combined' ELSE collected
  BY <1>1 DEF ReadError
<1>3. process \in 0 .. FileCount /\ FileCount \in Nat \ {0} /\ said \subseteq (0 .. FileCount) \X Pipes
  BY BuildAssumption DEF IInv, TypeOK
<1>4. combined' = Texts(process)
  <2>1. combined = {t \in said : t = <<process, "stdout">>}
    BY <1>1 DEF IInv, Told
  <2>2. \A t \in said : t[1] = process <=> t = <<process, "stdout">> \/ t = <<process, "stderr">>
    BY <1>3 DEF Pipes
  <2> QED
    BY <1>1, <2>1, <2>2 DEF Texts
<1>5. /\ \A t \in said : t[1] < process \/ t[1] = process
      /\ buildOutput = {t \in said : 0 < t[1] /\ t[1] < process}
  BY <1>1 DEF IInv, Told
<1>6. collected = {t \in said : 0 < t[1] /\ t[1] < process + 1}
  <2>1. \A t \in said : t[1] \in Nat
    BY <1>3
  <2> QED
    BY <1>3, <1>4, <1>5, <2>1 DEF Texts
<1>7. \A i \in 0 .. process : i # 0 => i \in records \cup failures
  BY <1>1, <1>3 DEF IInv, Outcome, Over
<1>8. pipe' \in [Pipes -> Nat] /\ (combined \cup buildOutput)' \subseteq said
  BY <1>1, <1>4, <1>6 DEF IInv, TypeOK, Texts
<1>9. report' \subseteq (0 .. FileCount) \X (Pipes \cup {"error"})
  BY <1>1, <1>2, <1>3, <1>8
<1>10. phase' \in {"start", "indexed", "failed"}
  BY <1>1 DEF Result
<1>11. process' \in 0 .. FileCount
  BY <1>1, <1>3 DEF Result
<1>12. TypeOK'
  BY <1>1, <1>3, <1>8, <1>9, <1>10, <1>11 DEF IInv, TypeOK
<1>13. Order'
  BY <1>1, <1>10 DEF Order
<1> HIDE DEF collected
<1>14. CASE phase' = "start"
  <2>1. process' = process + 1 /\ process < FileCount /\ ~ (process = 0 /\ 0 \in failures)
    BY <1>1, <1>3, <1>14 DEF Result
  <2>2. Over' \subseteq 0 .. process
    BY <1>3, <1>14, <2>1 DEF Over
  <2>3. 0 \notin failures
    BY <2>1 DEF IInv, Outcome
  <2>4. Outcome'
    BY <1>1, <1>7, <1>14, <2>2, <2>3 DEF Outcome
  <2>5. Told'
    <3>1. \A t \in said' : t[1] < process'
      BY <1>1, <1>3, <1>5, <2>1
    <3>2. buildOutput' = {t \in said' : 0 < t[1] /\ t[1] < process'}
      BY <1>1, <1>6, <2>1
    <3> QED
      BY <1>3, <1>14, <2>1, <3>1, <3>2 DEF Told
  <2>6. Found'
    BY <1>1, <1>3, <1>14, <2>1 DEF IInv, Found, ToolFound, Texts
  <2>7. FailuresAreExplained'
    BY <1>14 DEF FailuresAreExplained
  <2> QED
    BY <1>12, <1>13, <2>4, <2>5, <2>6, <2>7 DEF IInv
<1>15. CASE phase' # "start"
  <2>1. process' = process /\ phase' \in {"indexed", "failed"}
    BY <1>1, <1>10, <1>15
  <2>2. Over' \subseteq 0 .. process
    BY <1>3, <2>1 DEF Over
  <2>3. phase' = "indexed" => records # {} /\ process = FileCount
    BY <1>1, <1>3 DEF Result
  <2>4. Outcome'
    BY <1>1, <1>7, <2>1, <2>2, <2>3 DEF IInv, Outcome
  <2>5. Told'
    BY <1>1, <1>5, <2>1 DEF Told
  <2>6. Found'
    BY <1>1, <2>1 DEF IInv, Found, ToolFound, Texts
  <2>7. FailuresAreExplained'
    <3> SUFFICES ASSUME phase' = "failed"
                 PROVE  \/ 0 \in failures /\ report' = Texts(0)
                        \/ /\ process = FileCount /\ records = {}
                           /\ report' = UNION {Texts(i) : i \in 1 .. FileCount}
      BY <1>1, <2>1 DEF FailuresAreExplained, Texts
    <3>1. CASE process = 0
      BY <1>1, <1>2, <1>3, <1>4, <3>1 DEF Result
    <3>2. CASE process # 0
      <4>1. process = FileCount /\ records = {} /\ report' = collected
        BY <1>1, <1>2, <1>3, <3>2 DEF Result
      <4>2. \A t \in said : t[1] \in 0 .. FileCount
        BY <1>3
      <4>3. UNION {Texts(i) : i \in 1 .. FileCount} = {t \in said : t[1] \in 1 .. FileCount}
        BY DEF Texts
      <4>4. \A t \in said : t[1] \in 1 .. FileCount <=> 0 < t[1] /\ t[1] < FileCount + 1
        BY <1>3, <4>2
      <4> QED
        BY <1>6, <4>1, <4>3, <4>4
    <3> QED
      BY <3>1, <3>2
  <2> QED
    BY <1>12, <1>13, <2>4, <2>5, <2>6, <2>7 DEF IInv
<1> QED
  BY <1>14, <1>15

LEMMA StepIInv == IInv /\ [Next]_vars => IInv'
<1> SUFFICES ASSUME IInv, [Next]_vars
             PROVE  IInv'
  OBVIOUS
<1>1. CASE UNCHANGED vars
  BY <1>1 DEF vars, IInv, TypeOK, Order, Told, Found, ToolFound, Texts, Outcome, Over,
              FailuresAreExplained
<1> QED
  BY <1>1, StartStep, WriteStep, ChildStep, WaitStep, ReadOutputStep, ReadErrorStep
  DEF Next, Adapter, Child

LEMMA Invariance == Spec => []IInv
BY InitIInv, StepIInv, PTL DEF Spec

---------------------------------------------------------------------------
\* The variables keep their types for any number of files.
THEOREM TypeCorrect == Spec => []TypeOK
BY Invariance, PTL DEF IInv

\* However many compilers fail or crash, a build that fails for want of records reports
\* what every one of them said as text, one that fails for xcrun what xcrun said, and
\* there is no other failure but that of a process that cannot be run.
THEOREM FailuresExplained == Spec => []FailuresAreExplained
BY Invariance, PTL DEF IInv

\* For any number of files, an index that is accepted was made by the compiler xcrun
\* named, is not empty (the guard of buildIndexStore), and lacks only files whose
\* compiler failed.
THEOREM GapsAreFailures == Spec => []IndexGapsAreFailures
<1>1. IInv => IndexGapsAreFailures
  <2> SUFFICES ASSUME IInv, phase = "indexed"
               PROVE  /\ 0 \notin failures /\ ToolFound
                      /\ records # {}
                      /\ (1 .. FileCount) \ records \subseteq failures
    BY DEF IndexGapsAreFailures
  <2>1. records # {} /\ process = FileCount /\ child = "exited" /\ 0 \notin failures
    BY BuildAssumption DEF IInv, Outcome
  <2>2. 1 .. FileCount \subseteq Over
    BY <2>1, BuildAssumption DEF Over
  <2>3. ToolFound
    BY <2>1, BuildAssumption DEF IInv, Found
  <2> QED
    BY <2>1, <2>2, <2>3 DEF IInv, Outcome
<1> QED
  BY <1>1, Invariance, PTL
=============================================================================
