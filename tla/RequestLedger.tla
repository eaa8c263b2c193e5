---------------------------- MODULE RequestLedger ----------------------------
(***************************************************************************)
(* What POST /gateway/complete promises to the readers of the tables and   *)
(* to its callers: the records of a request appear one after the other in  *)
(* a fixed order, so that whatever goes wrong they are a beginning of the  *)
(* complete set, and an answer is given only to what its records say.      *)
(***************************************************************************)
CONSTANT Requests

VARIABLES
  stage,  \* how far the records of each request go
  reply   \* what its caller was told

vars == <<stage, reply>>

\* The stages that may come next: "refused" is an audit row alone, "searched" a
\* retrieval run, "unanswered" adds the audit row of a call that failed,
\* "answered" that of one that did not and its invocation, and then follow the
\* evaluation job, the spend and the dispatch.
Following(s) ==
  CASE s = "nothing"  -> {"refused", "searched"}
    [] s = "searched" -> {"unanswered", "answered"}
    [] s = "answered" -> {"queued"}
    [] s = "queued"   -> {"charged"}
    [] s = "charged"  -> {"sent"}
    [] OTHER          -> {}

\* What a caller may be told at each stage, besides that something went wrong.
Proper(s) ==
  CASE s = "refused"    -> {"blocked", "overBudget"}
    [] s = "searched"   -> {"invalid"}
    [] s = "unanswered" -> {"unavailable"}
    [] s = "sent"       -> {"answered"}
    [] OTHER            -> {}

Init ==
  /\ stage = [r \in Requests |-> "nothing"]
  /\ reply = [r \in Requests |-> "none"]

\* A record of r is committed.
Record(r) ==
  /\ reply[r] = "none"
  /\ \E s \in Following(stage[r]) : stage' = [stage EXCEPT ![r] = s]
  /\ UNCHANGED reply

\* r's caller is told what its records say, or that something went wrong.
Tell(r) ==
  /\ reply[r] = "none"
  /\ \E a \in Proper(stage[r]) \union {"error"} : reply' = [reply EXCEPT ![r] = a]
  /\ UNCHANGED stage

Next == \E r \in Requests : Record(r) \/ Tell(r)

Spec == Init /\ [][Next]_vars
=============================================================================
