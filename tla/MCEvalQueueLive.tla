--------------------------- MODULE MCEvalQueueLive ---------------------------
(***************************************************************************)
(* The liveness of EvalQueue for TLC, in two scenarios of one instance.    *)
(* "overlap": two jobs of one tenant and no faults, so that the sessions   *)
(* deadlock on its quota row; "faults": one job that meets a crash, judge  *)
(* errors and an outage.  Together they would be out of TLC's reach.       *)
(***************************************************************************)
EXTENDS MCEvalQueue

VARIABLE scenario

LiveVars == <<vars, scenario>>

Allowed ==
  \/ /\ scenario = "overlap"
     /\ faults' = 0 /\ outages' = 0
     /\ \A j \in Jobs : row'[j].status # "RETRY"
     /\ \A p \in Procs, j \in Jobs : proc'[p].new[j].status # "RETRY"
  \/ /\ scenario = "faults"
     /\ \A j \in Jobs : j > 1 => row'[j] = Absent

LiveInit == Init /\ scenario \in {"overlap", "faults"}
LiveNext == Next /\ Allowed /\ UNCHANGED scenario
LiveSpec ==
  /\ LiveInit /\ [][LiveNext]_LiveVars
  /\ Fairness
  /\ WF_vars(\E p \in Apis : Backfill(p))
=============================================================================
