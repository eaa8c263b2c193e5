--------------------------- MODULE EvalLifecycle ---------------------------
(***************************************************************************)
(* What the evaluation queue promises to those who read its tables, with   *)
(* no worker, broker, session or retry in sight: each job has a status and *)
(* a history of results; a committed transaction changes any set of jobs   *)
(* at once; a job is never seen in the middle of its processing; an        *)
(* outcome and the result that documents it appear together; nothing ever  *)
(* removes a job or a result.                                              *)
(***************************************************************************)
EXTENDS Sequences

CONSTANT Jobs
VARIABLES status, results

Outcomes == {"COMPLETED", "SKIPPED"}

Init ==
  /\ status = [j \in Jobs |-> "ABSENT"]
  /\ results = [j \in Jobs |-> <<>>]

\* What one transaction may do to job j: nothing, enqueue it, record the
\* outcome of an evaluation, put it off or give it up, or put it back in line.
Untouched(j) ==
  status'[j] = status[j] /\ results'[j] = results[j]

Enqueued(j) ==
  status[j] = "ABSENT" /\ status'[j] = "PENDING" /\ results'[j] = results[j]

Recorded(j) ==
  /\ status[j] # "ABSENT"
  /\ status'[j] \in Outcomes
  /\ results'[j] = Append(results[j], status'[j])

PutOff(j) ==
  /\ status[j] # "ABSENT"
  /\ status'[j] \in {"RETRY", "FAILED"}
  /\ results'[j] = results[j]

Replayed(j) ==
  status[j] # "ABSENT" /\ status'[j] = "PENDING" /\ results'[j] = results[j]

Transaction ==
  /\ \A j \in Jobs :
       Untouched(j) \/ Enqueued(j) \/ Recorded(j) \/ PutOff(j) \/ Replayed(j)
  /\ status' = [j \in Jobs |-> status'[j]]
  /\ results' = [j \in Jobs |-> results'[j]]

Spec == Init /\ [][Transaction]_<<status, results>>
=============================================================================
