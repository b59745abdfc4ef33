----------------------------- MODULE TestRunner -----------------------------
(***************************************************************************)
(* The recipe `just test` (justfile): suites run in the background, each   *)
(* in a subshell that leaves the suite's exit code in a file; the recipe   *)
(* waits for them, reads the files and exits.                              *)
(*                                                                         *)
(* A subshell may be killed at any point (memory, a signal).  It then      *)
(* writes nothing more, and its status file may be missing or empty.       *)
(***************************************************************************)
EXTENDS Naturals

CONSTANTS SuiteCount,  \* suites, in the order of the recipe
          Codes,       \* exit codes of suites
          None,        \* no such file, no code yet
          Empty        \* a file that is still empty

ASSUME RunnerAssumption ==
  /\ SuiteCount \in Nat \ {0}
  /\ {None, Empty} \cap (Codes \cup {0, 1}) = {}

VARIABLES phase,
          suite,    \* the next suite of the recipe's loop
          shell,    \* where each subshell is
          code,     \* how each suite ended, once it has
          file,     \* what each status file holds
          status,   \* the recipe's shell variable
          dumped,   \* suites whose log is printed
          exit

vars == <<phase, suite, shell, code, file, status, dumped, exit>>

Suites == 1 .. SuiteCount

Init ==
  /\ phase = "fork"
  /\ suite = 1
  /\ shell = [s \in Suites |-> "absent"]
  /\ code = [s \in Suites |-> None]
  /\ file = [s \in Suites |-> None]
  /\ status = 0
  /\ dumped = {}
  /\ exit = None

---------------------------------------------------------------------------
(* The subshells.                                                          *)

Advance(s, from, to) == shell[s] = from /\ shell' = [shell EXCEPT ![s] = to]

SuiteEnds(s) ==
  /\ Advance(s, "suite", "open")
  /\ \E c \in Codes : code' = [code EXCEPT ![s] = c]
  /\ UNCHANGED <<phase, suite, file, status, dumped, exit>>

\* The shell opens the status file before echo writes to it.
OpenStatus(s) ==
  /\ Advance(s, "open", "write")
  /\ file' = [file EXCEPT ![s] = Empty]
  /\ UNCHANGED <<phase, suite, code, status, dumped, exit>>

WriteStatus(s) ==
  /\ Advance(s, "write", "ended")
  /\ file' = [file EXCEPT ![s] = code[s]]
  /\ UNCHANGED <<phase, suite, code, status, dumped, exit>>

Killed(s) ==
  /\ shell[s] \in {"suite", "open", "write"}
  /\ shell' = [shell EXCEPT ![s] = "killed"]
  /\ UNCHANGED <<phase, suite, code, file, status, dumped, exit>>

---------------------------------------------------------------------------
(* The recipe.                                                             *)

\* The next round of a loop over the suites, or what follows it.
Continue(after) ==
  IF suite = SuiteCount THEN phase' = after /\ suite' = 1
                        ELSE suite' = suite + 1 /\ UNCHANGED phase

Fork ==
  /\ phase = "fork"
  /\ shell' = [shell EXCEPT ![suite] = "suite"]
  /\ Continue("wait")
  /\ UNCHANGED <<code, file, status, dumped, exit>>

Wait_slip ==
  /\ phase = "wait"
  /\ \E s \in Suites : shell[s] \in {"ended", "killed"}
  /\ phase' = "results"
  /\ UNCHANGED <<suite, shell, code, file, status, dumped, exit>>

Wait_slip2 ==
  /\ phase = "wait"
  /\ \A s \in Suites : shell[s] = "ended"
  /\ phase' = "results"
  /\ UNCHANGED <<suite, shell, code, file, status, dumped, exit>>

\* The subshells are children: wait returns when all have ended, killed or not.
Wait ==
  /\ phase = "wait"
  /\ \A s \in Suites : shell[s] \in {"ended", "killed"}
  /\ phase' = "results"
  /\ UNCHANGED <<suite, shell, code, file, status, dumped, exit>>

\* `[ "$(cat file)" -eq 0 ]`: false as well if there is no number to compare.
Passed(s) == file[s] = 0

ReadStatus_slip ==
  /\ phase = "results"
  /\ status' = IF Passed(suite) THEN 0 ELSE 1
  /\ Continue("details")
  /\ UNCHANGED <<shell, code, file, dumped, exit>>

ReadStatus ==
  /\ phase = "results"
  /\ status' = IF Passed(suite) THEN status ELSE 1
  /\ Continue("details")
  /\ UNCHANGED <<shell, code, file, dumped, exit>>

DumpLog ==
  /\ phase = "details"
  /\ status # 0
  /\ dumped' = IF Passed(suite) THEN dumped ELSE dumped \cup {suite}
  /\ Continue("exit")
  /\ UNCHANGED <<shell, code, file, status, exit>>

Exit ==
  /\ phase = "exit" \/ (phase = "details" /\ status = 0)
  /\ exit' = status
  /\ phase' = "exited"
  /\ UNCHANGED <<suite, shell, code, file, status, dumped>>

Subshell(s) == SuiteEnds(s) \/ OpenStatus(s) \/ WriteStatus(s)

Recipe == Fork \/ Wait \/ ReadStatus \/ DumpLog \/ Exit

Next == Recipe \/ \E s \in Suites : Subshell(s) \/ Killed(s)

Spec == Init /\ [][Next]_vars

\* The processes run, and each suite ends.
FairSpec == Spec /\ WF_vars(Recipe) /\ \A s \in Suites : WF_vars(Subshell(s))

---------------------------------------------------------------------------
TypeOK ==
  /\ phase \in {"fork", "wait", "results", "details", "exit", "exited"}
  /\ suite \in Suites
  /\ shell \in [Suites -> {"absent", "suite", "open", "write", "ended", "killed"}]
  /\ code \in [Suites -> Codes \cup {None}]
  /\ file \in [Suites -> Codes \cup {None, Empty}]
  /\ status \in {0, 1}
  /\ dumped \subseteq Suites
  /\ exit \in {0, 1, None}

\* The recipe succeeds only if every suite ran to its end and passed, whatever was
\* killed and however the subshells interleave with the recipe.
SuccessIsEarned == exit = 0 => \A s \in Suites : code[s] = 0 /\ shell[s] = "ended"

\* The recipe fails only for a reason: it prints the logs of the suites that failed or
\* were killed before their code was written, of at least one, and of no other.
FailuresAreShown == exit = 1 =>
  dumped # {} /\ dumped = {s \in Suites : shell[s] = "killed" \/ code[s] # 0}

\* The recipe ends once its suites end.
RecipeEnds == <>(exit # None)
=============================================================================
