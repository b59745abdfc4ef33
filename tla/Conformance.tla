----------------------------- MODULE Conformance -----------------------------
(***************************************************************************)
(* What archlint promises about a run: a repository is accepted only when  *)
(* every requested adapter answered with a document and each document,     *)
(* taken alone, conforms; it is rejected only for a reason.                *)
(***************************************************************************)
EXTENDS Promises

CONSTANTS Sources,    \* the requested adapters, by position
          Documents   \* the documents adapters may emit

VARIABLES answer,   \* what each source has answered so far
          verdict

vars == <<answer, verdict>>

Silent        == [kind |-> "silent"]
Failed        == [kind |-> "failed"]
Document(doc) == [kind |-> "document", files |-> doc]

Init ==
  /\ answer = [i \in Sources |-> Silent]
  /\ verdict = "pending"

\* Source i answers, with a document or by failing.
Answer(i) ==
  /\ verdict = "pending"
  /\ answer[i] = Silent
  /\ \/ \E doc \in Documents : answer' = [answer EXCEPT ![i] = Document(doc)]
     \/ answer' = [answer EXCEPT ![i] = Failed]
  /\ UNCHANGED verdict

Accept ==
  /\ verdict = "pending"
  /\ \A i \in Sources : /\ answer[i].kind = "document"
                        /\ Conformant(answer[i].files)
  /\ verdict' = "accepted"
  /\ UNCHANGED answer

Reject ==
  /\ verdict = "pending"
  /\ \E i \in Sources :
       \/ answer[i].kind = "failed"
       \/ answer[i].kind = "document" /\ ~ Conformant(answer[i].files)
  /\ verdict' = "rejected"
  /\ UNCHANGED answer

Next == (\E i \in Sources : Answer(i)) \/ Accept \/ Reject

Spec == Init /\ [][Next]_vars
=============================================================================
