------------------------- MODULE TestRunner_proofs -------------------------
(***************************************************************************)
(* The summary and the exit code of `just test` (justfile), for any number *)
(* of suites and any exit codes.                                           *)
(*                                                                         *)
(* A status file holds a number only if its subshell ended, and the recipe *)
(* reads the files when no subshell is left that could write one; each of  *)
(* its loops has then seen the suites before the current one.              *)
(***************************************************************************)
EXTENDS TestRunner, TLAPS

Running == {"suite", "open", "write"}

\* What a subshell has left, by how far it is.
Files == \A s \in Suites :
  /\ shell[s] \in {"absent", "suite", "open"} => file[s] = None
  /\ shell[s] \in {"write", "killed"} => file[s] \in {None, Empty}
  /\ shell[s] = "ended" => file[s] = code[s] /\ code[s] \in Codes
  /\ shell[s] \in {"open", "write"} => code[s] \in Codes

Forked ==
  /\ phase = "fork" => \A s \in Suites : suite <= s => shell[s] = "absent"
  /\ phase \notin {"fork", "wait"} => \A s \in Suites : shell[s] \in {"ended", "killed"}

\* The suites that the current loop of the recipe has seen.
Seen == {s \in Suites : s < suite}

FailedOf(suites) == {s \in suites : ~ Passed(s)}

Summary ==
  /\ phase \in {"fork", "wait"} => status = 0
  /\ phase = "wait" => suite = 1
  /\ phase = "results" => (status = 0 <=> FailedOf(Seen) = {})
  /\ phase \in {"details", "exit", "exited"} => (status = 0 <=> FailedOf(Suites) = {})
  /\ phase \in {"fork", "wait", "results"} => dumped = {}
  /\ phase = "details" => dumped = FailedOf(Seen)
  /\ phase = "exit" => status # 0 /\ dumped = FailedOf(Suites)
  /\ phase = "exited" => exit = status /\ (status # 0 => dumped = FailedOf(Suites))
  /\ phase # "exited" => exit = None

IInv == TypeOK /\ Files /\ Forked /\ Summary

---------------------------------------------------------------------------
\* A file holds 0 only if the suite passed and its subshell ended.
LEMMA PassedMeans ==
  ASSUME IInv, NEW s \in Suites, shell[s] \in {"ended", "killed"}
  PROVE  Passed(s) <=> shell[s] = "ended" /\ code[s] = 0
BY RunnerAssumption DEF IInv, Files, Passed

LEMMA InitIInv == Init => IInv
BY RunnerAssumption DEF Init, IInv, TypeOK, Files, Forked, Summary, Suites

\* A step of a subshell does not change what the recipe has read: the files are read
\* when no subshell runs.
LEMMA SubshellStep ==
  ASSUME IInv, NEW s \in Suites, Subshell(s) \/ Killed(s)
  PROVE  IInv'
<1>1. /\ shell[s] \in Running
      /\ UNCHANGED <<phase, suite, status, dumped, exit>>
      /\ \A r \in Suites : r # s =>
           shell'[r] = shell[r] /\ file'[r] = file[r] /\ code'[r] = code[r]
  BY DEF IInv, TypeOK, Subshell, Killed, SuiteEnds, OpenStatus, WriteStatus, Advance,
         Running
<1>2. phase \in {"fork", "wait"}
  BY <1>1 DEF IInv, Forked, Running
<1>3. TypeOK'
  BY <1>1 DEF IInv, TypeOK, Files, Subshell, Killed, SuiteEnds, OpenStatus, WriteStatus,
              Advance
<1>4. Files'
  <2>1. ASSUME NEW r \in Suites, r # s
        PROVE  /\ shell'[r] \in {"absent", "suite", "open"} => file'[r] = None
               /\ shell'[r] \in {"write", "killed"} => file'[r] \in {None, Empty}
               /\ shell'[r] = "ended" => file'[r] = code'[r] /\ code'[r] \in Codes
               /\ shell'[r] \in {"open", "write"} => code'[r] \in Codes
    BY <1>1, <2>1 DEF IInv, Files
  <2>2. /\ shell'[s] \in {"absent", "suite", "open"} => file'[s] = None
        /\ shell'[s] \in {"write", "killed"} => file'[s] \in {None, Empty}
        /\ shell'[s] = "ended" => file'[s] = code'[s] /\ code'[s] \in Codes
        /\ shell'[s] \in {"open", "write"} => code'[s] \in Codes
    BY DEF IInv, TypeOK, Files, Subshell, Killed, SuiteEnds, OpenStatus, WriteStatus,
           Advance
  <2> QED
    BY <2>1, <2>2 DEF Files, Suites
<1>5. Forked'
  <2>1. phase = "fork" => ~ suite <= s
    BY <1>1 DEF IInv, Forked, Running
  <2> QED
    BY <1>1, <1>2, <2>1 DEF IInv, Forked, Suites
<1>6. Summary'
  BY <1>1, <1>2 DEF IInv, Summary
<1> QED
  BY <1>3, <1>4, <1>5, <1>6 DEF IInv

LEMMA ForkStep == IInv /\ Fork => IInv'
<1> SUFFICES ASSUME IInv, Fork PROVE IInv'
  OBVIOUS
<1>1. /\ phase = "fork" /\ suite \in Suites /\ shell[suite] = "absent"
      /\ shell' = [shell EXCEPT ![suite] = "suite"]
      /\ UNCHANGED <<code, file, status, dumped, exit>>
  BY RunnerAssumption DEF IInv, TypeOK, Forked, Fork, Suites
<1>2. \/ suite = SuiteCount /\ phase' = "wait" /\ suite' = 1
      \/ suite # SuiteCount /\ phase' = "fork" /\ suite' = suite + 1
  BY <1>1 DEF Fork, Continue
<1>3. suite' \in Suites
  BY <1>1, <1>2, RunnerAssumption DEF Suites
<1>4. TypeOK'
  BY <1>1, <1>2, <1>3 DEF IInv, TypeOK
<1>5. Files'
  BY <1>1 DEF IInv, TypeOK, Files, Suites
<1>6. Forked'
  BY <1>1, <1>2, RunnerAssumption DEF IInv, TypeOK, Forked, Suites
<1>7. Summary'
  BY <1>1, <1>2 DEF IInv, Summary
<1> QED
  BY <1>4, <1>5, <1>6, <1>7 DEF IInv

LEMMA WaitStep == IInv /\ Wait => IInv'
<1> SUFFICES ASSUME IInv, Wait PROVE IInv'
  OBVIOUS
<1>1. /\ phase = "wait" /\ phase' = "results" /\ suite = 1 /\ status = 0
      /\ \A s \in Suites : shell[s] \in {"ended", "killed"}
      /\ UNCHANGED <<suite, shell, code, file, status, dumped, exit>>
  BY DEF IInv, Summary, Wait
<1>2. Seen' = {}
  BY <1>1 DEF Seen, Suites
<1>3. TypeOK' /\ Files' /\ Forked'
  BY <1>1 DEF IInv, TypeOK, Files, Forked
<1>4. Summary'
  BY <1>1, <1>2 DEF IInv, Summary, FailedOf
<1> QED
  BY <1>3, <1>4 DEF IInv

\* One round of a loop sees one suite more, the last one all of them.
LEMMA Round ==
  ASSUME IInv, NEW after, Continue(after), UNCHANGED <<shell, code, file>>
  PROVE  /\ suite' \in Suites
         /\ suite = SuiteCount => /\ phase' = after /\ suite' = 1 /\ Seen' = {}
                                  /\ FailedOf(Suites)' = FailedOf(Seen) \cup FailedOf({suite})
         /\ suite # SuiteCount => /\ phase' = phase
                                  /\ FailedOf(Seen)' = FailedOf(Seen) \cup FailedOf({suite})
<1>1. suite \in Suites /\ SuiteCount \in Nat \ {0}
  BY RunnerAssumption DEF IInv, TypeOK
<1>2. suite' \in Suites
  BY <1>1 DEF Continue, Suites
<1>3. \A s : Passed(s)' = Passed(s)
  BY DEF Passed
<1>4. CASE suite = SuiteCount
  <2>1. Suites = Seen \cup {suite} /\ phase' = after /\ suite' = 1
    BY <1>1, <1>4 DEF Seen, Suites, Continue
  <2>2. Seen' = {}
    BY <2>1 DEF Seen, Suites
  <2> QED
    BY <1>2, <1>3, <1>4, <2>1, <2>2 DEF FailedOf
<1>5. CASE suite # SuiteCount
  <2>1. Seen' = Seen \cup {suite} /\ phase' = phase
    BY <1>1, <1>5 DEF Seen, Suites, Continue
  <2> QED
    BY <1>2, <1>3, <1>5, <2>1 DEF FailedOf
<1> QED
  BY <1>4, <1>5

LEMMA ReadStep == IInv /\ ReadStatus => IInv'
<1> SUFFICES ASSUME IInv, ReadStatus PROVE IInv'
  OBVIOUS
<1>1. /\ phase = "results" /\ Continue("details") /\ dumped = {}
      /\ status' = (IF Passed(suite) THEN status ELSE 1)
      /\ UNCHANGED <<shell, code, file, dumped, exit>>
  BY DEF IInv, Summary, ReadStatus
<1>2. phase' \in {"results", "details"} /\ suite' \in Suites
  BY <1>1, Round DEF Continue
<1>3. status' = 0 <=> FailedOf(Seen) \cup FailedOf({suite}) = {}
  BY <1>1 DEF IInv, Summary, FailedOf
<1>4. TypeOK' /\ Files' /\ Forked'
  BY <1>1, <1>2 DEF IInv, TypeOK, Files, Forked
<1>5. CASE suite = SuiteCount
  <2>1. phase' = "details" /\ Seen' = {} /\ (status' = 0 <=> FailedOf(Suites)' = {})
    BY <1>1, <1>3, <1>5, Round
  <2>2. FailedOf(Seen)' = {}
    BY <2>1 DEF FailedOf
  <2>3. Summary'
    BY <1>1, <2>1, <2>2 DEF IInv, Summary
  <2> QED
    BY <1>4, <2>3 DEF IInv
<1>6. CASE suite # SuiteCount
  <2>1. phase' = "results" /\ (status' = 0 <=> FailedOf(Seen)' = {})
    BY <1>1, <1>3, <1>6, Round
  <2>2. Summary'
    BY <1>1, <2>1 DEF IInv, Summary
  <2> QED
    BY <1>4, <2>2 DEF IInv
<1> QED
  BY <1>5, <1>6

LEMMA DumpStep == IInv /\ DumpLog => IInv'
<1> SUFFICES ASSUME IInv, DumpLog PROVE IInv'
  OBVIOUS
<1>1. /\ phase = "details" /\ status # 0 /\ Continue("exit") /\ dumped = FailedOf(Seen)
      /\ dumped' = (IF Passed(suite) THEN dumped ELSE dumped \cup {suite})
      /\ UNCHANGED <<shell, code, file, status, exit>>
  BY DEF IInv, Summary, DumpLog
<1>2. phase' \in {"details", "exit"} /\ suite' \in Suites
  BY <1>1, Round DEF Continue
<1>3. dumped' = FailedOf(Seen) \cup FailedOf({suite})
  BY <1>1 DEF FailedOf
<1>4. FailedOf(Suites)' = FailedOf(Suites)
  BY <1>1 DEF FailedOf, Passed
<1>5. TypeOK' /\ Files' /\ Forked'
  <2>1. suite \in Suites
    BY DEF IInv, TypeOK
  <2> QED
    BY <1>1, <1>2, <2>1 DEF IInv, TypeOK, Files, Forked
<1>6. CASE suite = SuiteCount
  <2>1. phase' = "exit" /\ dumped' = FailedOf(Suites)'
    BY <1>1, <1>3, <1>6, Round
  <2>2. Summary'
    BY <1>1, <1>4, <2>1 DEF IInv, Summary
  <2> QED
    BY <1>5, <2>2 DEF IInv
<1>7. CASE suite # SuiteCount
  <2>1. phase' = "details" /\ dumped' = FailedOf(Seen)'
    BY <1>1, <1>3, <1>7, Round
  <2>2. Summary'
    BY <1>1, <1>4, <2>1 DEF IInv, Summary
  <2> QED
    BY <1>5, <2>2 DEF IInv
<1> QED
  BY <1>6, <1>7

LEMMA ExitStep == IInv /\ Exit => IInv'
<1> SUFFICES ASSUME IInv, Exit PROVE IInv'
  OBVIOUS
<1>1. /\ phase \in {"details", "exit"} /\ phase' = "exited" /\ exit' = status
      /\ phase = "details" => status = 0
      /\ UNCHANGED <<suite, shell, code, file, status, dumped>>
  BY DEF Exit
<1>2. FailedOf(Suites)' = FailedOf(Suites)
  BY <1>1 DEF FailedOf, Passed
<1>3. TypeOK' /\ Files' /\ Forked'
  BY <1>1 DEF IInv, TypeOK, Files, Forked
<1>4. Summary'
  BY <1>1, <1>2 DEF IInv, Summary
<1> QED
  BY <1>3, <1>4 DEF IInv

LEMMA StepIInv == IInv /\ [Next]_vars => IInv'
<1> SUFFICES ASSUME IInv, [Next]_vars
             PROVE  IInv'
  OBVIOUS
<1>1. CASE UNCHANGED vars
  BY <1>1 DEF vars, IInv, TypeOK, Files, Forked, Summary, Seen, FailedOf, Passed
<1> QED
  BY <1>1, SubshellStep, ForkStep, WaitStep, ReadStep, DumpStep, ExitStep
  DEF Next, Recipe

LEMMA Invariance == Spec => []IInv
BY InitIInv, StepIInv, PTL DEF Spec

---------------------------------------------------------------------------
\* The variables keep their types for any number of suites.
THEOREM TypeCorrect == Spec => []TypeOK
BY Invariance, PTL DEF IInv

\* However many suites run and whichever are killed, exit code 0 says that all of them
\* ran to their end and passed.
THEOREM EarnedSuccess == Spec => []SuccessIsEarned
<1>1. IInv => SuccessIsEarned
  <2> SUFFICES ASSUME IInv, exit = 0, NEW s \in Suites
               PROVE  code[s] = 0 /\ shell[s] = "ended"
    BY DEF SuccessIsEarned
  <2>1. phase = "exited" /\ status = 0
    BY RunnerAssumption DEF IInv, Summary
  <2>2. Passed(s) /\ shell[s] \in {"ended", "killed"}
    BY <2>1 DEF IInv, Summary, Forked, FailedOf
  <2> QED
    BY <2>2, PassedMeans
<1> QED
  BY <1>1, Invariance, PTL

\* Exit code 1 comes with the logs of exactly the suites that failed or were killed, and
\* there is one.
THEOREM ShownFailures == Spec => []FailuresAreShown
<1>1. IInv => FailuresAreShown
  <2> SUFFICES ASSUME IInv, exit = 1
               PROVE  /\ dumped # {}
                      /\ dumped = {s \in Suites : shell[s] = "killed" \/ code[s] # 0}
    BY DEF FailuresAreShown
  <2>1. phase = "exited" /\ status # 0
    BY RunnerAssumption DEF IInv, Summary
  <2>2. dumped = FailedOf(Suites) /\ dumped # {}
    BY <2>1 DEF IInv, Summary
  <2>3. \A s \in Suites : ~ Passed(s) <=> shell[s] = "killed" \/ code[s] # 0
    BY <2>1, PassedMeans DEF IInv, Forked
  <2> QED
    BY <2>2, <2>3 DEF FailedOf
<1> QED
  BY <1>1, Invariance, PTL
=============================================================================
