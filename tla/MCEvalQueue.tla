------------------------------ MODULE MCEvalQueue ------------------------------
(***************************************************************************)
(* EvalQueue for TLC, and three scenarios of one instance, which together  *)
(* would be out of TLC's reach.  One job that meets crashes, database      *)
(* errors, judge errors, outages and requeues, two kinds in one behaviour; *)
(* two jobs of one tenant whose sessions deadlock on its quota row; and    *)
(* three jobs after all of them were dispatched, with a broker that        *)
(* refuses the retry of a deadlock victim.                                 *)
(***************************************************************************)
EXTENDS EvalQueue, TLC

MCTenantOf == [j \in Jobs |-> CHOOSE t \in Tenants : TRUE]

\* Workers are interchangeable, and so are API processes (jobs are ordered).
MCSymmetry == Permutations(Workers) \union Permutations(Apis)

-----------------------------------------------------------------------------
(* The scenario of a behaviour is read off the rows: a job that is not in  *)
(* it was completed at its second attempt before, and nothing changes such *)
(* a row any more.                                                         *)

Over == [status |-> "COMPLETED", attempt |-> 1, next |-> "null"]
Troubled == row[2] = Over /\ row[3] = Over
Overlapping == row[2] # Over /\ row[3] = Over
Dispatched == row[3] # Over

\* The jobs of S are still to come.
InitWith(S) ==
  /\ row = [j \in Jobs |-> IF j \in S THEN Absent ELSE Over]
  /\ results = [j \in Jobs |-> IF j \in S THEN <<>> ELSE <<"COMPLETED">>]
  /\ queue = [t \in Task |-> 0]

\* Job 1 was evaluated, raised and is due again; the other jobs were dispatched,
\* and so was a backfill, and no worker has taken a task of these yet.
InitDispatched ==
  /\ row = [j \in Jobs |-> IF j > 1 THEN Fresh
                           ELSE [status |-> "RETRY", attempt |-> 1, next |-> "reached"]]
  /\ results = [j \in Jobs |-> <<>>]
  /\ queue = [t \in Task |-> IF t.retries = 0 /\ t.job # 1 THEN 1 ELSE 0]

FaultsInit ==
  /\ InitWith({1}) \/ InitWith({1, 2}) \/ InitDispatched
  /\ deadLetters = {} /\ dropped = {}
  /\ faults = 0 /\ outages = 0 /\ requeues = 0
  /\ proc = [p \in Procs |-> Idle]

\* The trouble that each scenario may meet.
FaultsAllowed ==
  /\ Troubled => faults' + outages' + requeues' <= 2
  /\ Overlapping => /\ faults' + outages' + requeues' = 0
                    /\ \A p \in Procs : proc'[p].op = "process" =>
                         \A j \in Jobs : proc'[p].new[j].attempt <= 1
  /\ Dispatched => /\ faults' = 0
                   /\ \A p \in Apis : proc'[p] = Idle
                   /\ queue'[BackfillTask] <= queue[BackfillTask]

FaultsSpec == FaultsInit /\ [][Next]_vars
=============================================================================
