-------------------------- MODULE EvalQueueProofs --------------------------
(***************************************************************************)
(* Theorems about EvalQueue, for any number of jobs, workers and API       *)
(* processes, any limits and any faults.                                   *)
(***************************************************************************)
EXTENDS EvalQueue, SequenceTheorems, TLAPS

USE DEF AllDue

-----------------------------------------------------------------------------
(* Rows. *)

\* _mark_job_retry_with_session leaves a well-formed row, RETRY or FAILED.
LEMMA RetriedRow ==
  ASSUME NEW r \in Row
  PROVE  Retried(r) \in Row /\ Retried(r).status \in {"RETRY", "FAILED"}
  BY LimitAssumption DEF Retried, Row, Statuses, Settled, Outcomes

\* mark_job_failed leaves a well-formed FAILED row.
LEMMA MarkedFailedRow ==
  ASSUME NEW r \in Row
  PROVE  MarkedFailed(r) \in Row /\ MarkedFailed(r).status = "FAILED"
  BY LimitAssumption DEF MarkedFailed, Row, Statuses, Settled, Outcomes

\* The end of an evaluation leaves a well-formed row with its outcome.
LEMMA EvaluatedRow ==
  ASSUME NEW r \in Row, NEW outcome \in Outcomes
  PROVE  Evaluated(r, outcome) \in Row /\ Evaluated(r, outcome).status = outcome
  BY DEF Evaluated, Row, Statuses, Settled, Outcomes

\* Rows before and after their insertion.
LEMMA FirstRows ==
  /\ Absent \in Row /\ Absent.status = "ABSENT"
  /\ Fresh \in Row /\ Fresh.status = "PENDING"
  BY DEF Absent, Fresh, Row, Statuses, Settled, Outcomes

\* A committed row is well formed; its status is the session's or the old one,
\* and the session's when a worker processed the job.
LEMMA MergedRow ==
  ASSUME NEW op, NEW committed \in Row, NEW loaded \in Row, NEW new \in Row
  PROVE  LET m == Merged(op, committed, loaded, new)
         IN  /\ m \in Row
             /\ m.status \in {new.status, committed.status}
             /\ op = "process" => m.status = new.status
  BY DEF Merged, Row

-----------------------------------------------------------------------------
(* Tasks and sessions. *)

\* The tasks the code publishes first are tasks.
LEMMA FirstTasks ==
  /\ BackfillTask \in Task
  /\ \A j \in Jobs : JobTask(j) \in Task
  BY LimitAssumption DEF BackfillTask, JobTask, Task

\* A process between two sessions is well formed.
LEMMA AtSession ==
  ASSUME NEW pc \in PCs, NEW task \in Task
  PROVE  /\ At(pc, task) \in Session
         /\ At(pc, task).pc = pc
         /\ At(pc, task).task = task
         /\ At(pc, task).held = {}
  BY FirstRows DEF At, Session, Ops, NoRows

LEMMA IdleSession == Idle \in Session /\ Idle.pc = "idle" /\ Idle.held = {}
  BY AtSession, FirstTasks DEF Idle, PCs

\* A session that has just loaded some rows is well formed.
LEMMA OpenedSession ==
  ASSUME row \in [Jobs -> Row], NEW op \in Ops, NEW task \in Task, NEW S \in SUBSET Jobs
  PROVE  /\ Opened(op, task, S) \in Session
         /\ Opened(op, task, S).pc = "flush"
         /\ Opened(op, task, S).held = {}
  BY FirstRows DEF Opened, Session, PCs

-----------------------------------------------------------------------------
(* The inductive invariant.  Type correctness needs to know that on_failure *)
(* only marks a job the task names; what a commit leaves in the tables      *)
(* needs to know what the open sessions are going to write.                 *)

\* A session will write no job as PROCESSING or ABSENT, and an outcome only
\* for a job a worker processed.
Sound(s) ==
  /\ s.pc = "markFailed" => s.task.job \in Jobs
  /\ \A j \in Jobs \intersect s.held :
       /\ s.new[j].status \notin {"PROCESSING", "ABSENT"}
       /\ s.new[j].status \in Outcomes => s.op = "process"

SessionsSound == \A p \in Procs : Sound(proc[p])

\* A process that is between two sessions holds nothing.
LEMMA AtSound ==
  ASSUME NEW pc \in PCs, NEW task \in Task,
         pc = "markFailed" => task.job \in Jobs
  PROVE  At(pc, task) \in Session /\ Sound(At(pc, task))
  BY AtSession DEF Sound

LEMMA IdleSound == Idle \in Session /\ Sound(Idle)
  BY IdleSession DEF Sound

LEMMA OpenedSound ==
  ASSUME TypeOK, NEW op \in Ops, NEW task \in Task, NEW S \in SUBSET Jobs
  PROVE  Opened(op, task, S) \in Session /\ Sound(Opened(op, task, S))
  <1>1. row \in [Jobs -> Row]
    BY DEF TypeOK
  <1> QED BY <1>1, OpenedSession DEF Sound

\* Replacing one process's session by a sound one keeps all of them sound.
LEMMA BecomeSound ==
  ASSUME TypeOK, SessionsSound, NEW p \in Procs, NEW s \in Session, Sound(s), Become(p, s)
  PROVE  proc' \in [Procs -> Session] /\ SessionsSound'
  <1>1. proc \in [Procs -> Session]
    BY DEF TypeOK
  <1>2. proc' = [proc EXCEPT ![p] = s]
    BY DEF Become
  <1>3. proc' \in [Procs -> Session]
    BY <1>1, <1>2
  <1>4. ASSUME NEW q \in Procs PROVE Sound(proc'[q])
    <2>1. proc'[q] = proc[q] \/ proc'[q] = s
      BY <1>1, <1>2
    <2> QED BY <2>1 DEF SessionsSound
  <1> QED BY <1>3, <1>4 DEF SessionsSound

\* What a task selects are jobs, none of them absent.
LEMMA SelectedJobs ==
  ASSUME TypeOK, NEW task \in Task
  PROVE  /\ Due \in SUBSET Jobs
         /\ Selected(task) \in SUBSET Jobs
         /\ \A j \in Due \union Selected(task) : row[j].status # "ABSENT"
  <1>1. Due \in SUBSET Jobs /\ \A j \in Due : row[j].status # "ABSENT"
    BY DEF Due, Runnable
  <1>2. CASE task.job = AllDue
    BY <1>1, <1>2 DEF Selected
  <1>3. CASE task.job # AllDue
    <2>1. task.job \in Jobs
      BY <1>3 DEF Task
    <2> QED BY <1>1, <1>3, <2>1 DEF Selected, Runnable
  <1> QED BY <1>2, <1>3

\* A worker that has evaluated a job stays sound.
LEMMA ProcessSound ==
  ASSUME TypeOK, SessionsSound, NEW p \in Procs, NEW j \in Jobs,
         NEW outcome \in Outcomes \union {"RETRY"}, NEW spends \in BOOLEAN,
         Process(p, j, outcome, spends)
  PROVE  proc' \in [Procs -> Session] /\ SessionsSound'
  <1> DEFINE s == proc[p]
             job == [s.loaded[j] EXCEPT !.status = "PROCESSING"]
             new == IF outcome = "RETRY" THEN Retried(job) ELSE Evaluated(job, outcome)
             t == [s EXCEPT !.pc = IF spends THEN "persist" ELSE "flush",
                            !.todo = IF spends THEN @ ELSE @ \ {j},
                            !.new[j] = new,
                            !.held = @ \union {j}]
  <1>1. s \in Session /\ Sound(s) /\ s.op = "process"
    BY DEF TypeOK, SessionsSound, Process
  <1>2. job \in Row
    BY <1>1 DEF Session, Row, Statuses
  <1>3. new \in Row /\ new.status \in Outcomes \union {"RETRY", "FAILED"}
    <2>1. CASE outcome = "RETRY"
      BY <2>1, <1>2, RetriedRow
    <2>2. CASE outcome # "RETRY"
      BY <2>2, <1>2, EvaluatedRow
    <2> QED BY <2>1, <2>2
  <1> HIDE DEF new
  <1>4. t \in Session
    BY <1>1, <1>3 DEF Session, PCs
  <1>5. Sound(t)
    <2>1. /\ t.op = "process" /\ t.pc \in {"persist", "flush"} /\ t.held = s.held \union {j}
          /\ t.new = [s.new EXCEPT ![j] = new]
      BY <1>1 DEF Session
    <2>2. ASSUME NEW k \in Jobs \intersect t.held
          PROVE  t.new[k].status \notin {"PROCESSING", "ABSENT"}
      <3>1. s.new \in [Jobs -> Row]
        BY <1>1 DEF Session
      <3>2. CASE k = j
        BY <3>1, <3>2, <2>1, <1>3 DEF Outcomes
      <3>3. CASE k # j
        BY <3>1, <3>3, <2>1, <1>1, <2>2 DEF Sound
      <3> QED BY <3>2, <3>3
    <2> QED BY <2>1, <2>2 DEF Sound
  <1>6. Become(p, t)
    BY DEF Process, new
  <1> QED BY <1>4, <1>5, <1>6, BecomeSound

\* So does a session that has flushed the quota row.
LEMMA PersistSound ==
  ASSUME TypeOK, SessionsSound, NEW p \in Procs, NEW j \in Jobs, Persist(p, j)
  PROVE  proc' \in [Procs -> Session] /\ SessionsSound'
  <1> DEFINE s == proc[p]
             t == [s EXCEPT !.pc = "flush", !.todo = @ \ {j},
                            !.held = @ \union {TenantOf[j]}]
  <1>1. s \in Session /\ Sound(s)
    BY DEF TypeOK, SessionsSound
  <1>2. TenantOf[j] \in Tenants /\ TenantOf[j] \notin Jobs
    BY TenantAssumption
  <1>3. t \in Session
    BY <1>1, <1>2 DEF Session, PCs
  <1>4. t.pc = "flush" /\ t.op = s.op /\ t.new = s.new /\ t.held = s.held \union {TenantOf[j]}
    BY <1>1 DEF Session
  <1>5. Sound(t)
    BY <1>1, <1>2, <1>4 DEF Sound
  <1> QED BY <1>3, <1>5, BecomeSound DEF Persist

\* The rows the other operations write are neither outcomes nor PROCESSING.
LEMMA ChangedRow ==
  ASSUME NEW r \in Row, NEW op \in {"retry", "fail", "requeue"}
  PROVE  Changed(op, r) \in Row /\ Changed(op, r).status \in {"RETRY", "FAILED", "PENDING"}
  <1>1. CASE op = "retry"
    BY <1>1, RetriedRow DEF Changed
  <1>2. CASE op = "fail"
    BY <1>2, MarkedFailedRow DEF Changed
  <1>3. CASE op = "requeue"
    BY <1>3, FirstRows DEF Changed
  <1> QED BY <1>1, <1>2, <1>3

LEMMA FlushSound ==
  ASSUME TypeOK, SessionsSound, NEW p \in Procs, NEW j \in Jobs, Flush(p, j)
  PROVE  proc' \in [Procs -> Session] /\ SessionsSound'
  <1> DEFINE s == proc[p]
             new == Changed(s.op, s.loaded[j])
             t == [s EXCEPT !.todo = @ \ {j}, !.new[j] = new, !.held = @ \union {j}]
  <1>1. s \in Session /\ Sound(s)
    BY DEF TypeOK, SessionsSound
  <1>2. s.op \in {"retry", "fail", "requeue"} /\ s.pc = "flush"
    BY DEF Flush
  <1>3. new \in Row /\ new.status \in {"RETRY", "FAILED", "PENDING"}
    BY <1>1, <1>2, ChangedRow DEF Session
  <1> HIDE DEF new
  <1>4. t \in Session
    BY <1>1, <1>3 DEF Session
  <1>5. Sound(t)
    <2>1. t.op = s.op /\ t.pc = "flush" /\ t.held = s.held \union {j}
          /\ t.new = [s.new EXCEPT ![j] = new] /\ s.new \in [Jobs -> Row]
      BY <1>1, <1>2 DEF Session
    <2>2. ASSUME NEW k \in Jobs \intersect t.held
          PROVE  /\ t.new[k].status \notin {"PROCESSING", "ABSENT"}
                 /\ t.new[k].status \in Outcomes => t.op = "process"
      <3>1. CASE k = j
        BY <3>1, <2>1, <1>3 DEF Outcomes
      <3>2. CASE k # j
        BY <3>2, <2>1, <1>1, <2>2 DEF Sound
      <3> QED BY <3>1, <3>2
    <2> QED BY <2>1, <2>2 DEF Sound
  <1>6. Become(p, t)
    BY DEF Flush, new
  <1> QED BY <1>4, <1>5, <1>6, BecomeSound

\* Publishing and receiving tasks keeps their numbers natural.
LEMMA PublishQueue ==
  ASSUME queue \in [Task -> Nat], NEW task \in Task, Publish(task)
  PROVE  queue' \in [Task -> Nat]
  BY DEF Publish

\* The counters of faults and outages stay natural.
LEMMA Counted ==
  ASSUME TypeOK
  PROVE  /\ faults \in Nat /\ outages \in Nat /\ requeues \in Nat
         /\ \A kind : Fault(kind) => faults' \in Nat
         /\ Outage => outages' \in Nat
  BY DEF TypeOK, Fault, Outage

\* An exception leaves its process sound and the broker's queue well formed.
LEMMA RaisedSound ==
  ASSUME TypeOK, SessionsSound, NEW p \in Procs, Raised(p)
  PROVE  /\ proc' \in [Procs -> Session] /\ SessionsSound' /\ queue' \in [Task -> Nat]
         /\ outages' \in Nat /\ dropped' \subseteq Jobs \union {AllDue}
  <1> DEFINE s == proc[p]
             retry == [s.task EXCEPT !.retries = @ + 1]
  <1>1. /\ s \in Session /\ s.task \in Task /\ queue \in [Task -> Nat]
        /\ dropped \subseteq Jobs \union {AllDue}
    BY DEF TypeOK, Session
  <1>2. CASE Become(p, Idle) /\ UNCHANGED <<queue, outages, dropped>>
    BY <1>1, <1>2, Counted, IdleSound, BecomeSound
  <1>3. CASE /\ s.task.retries < MaxTaskRetries /\ Become(p, Idle)
             /\ Publish(retry) /\ UNCHANGED <<outages, dropped>>
    <2>1. retry \in Task
      BY <1>1, <1>3, LimitAssumption DEF Task
    <2> QED BY <1>1, <1>3, <2>1, Counted, IdleSound, BecomeSound, PublishQueue
  <1>4. CASE /\ Become(p, Idle)
             /\ Outage /\ dropped' = dropped \union {s.task.job} /\ UNCHANGED queue
    <2>1. s.task.job \in Jobs \union {AllDue}
      BY <1>1 DEF Task
    <2> QED BY <1>1, <1>4, <2>1, Counted, IdleSound, BecomeSound
  <1>5. CASE Become(p, At("deadLetter", s.task)) /\ UNCHANGED <<queue, outages, dropped>>
    BY <1>1, <1>5, Counted, AtSound, BecomeSound DEF PCs
  <1> QED BY <1>2, <1>3, <1>4, <1>5 DEF Raised

\* A commit leaves well-formed tables.
LEMMA CommittedTables ==
  ASSUME TypeOK, NEW p \in Procs, Committed(proc[p])
  PROVE  row' \in [Jobs -> Row] /\ results' \in [Jobs -> Seq(Outcomes)]
  <1> DEFINE s == proc[p]
  <1>1. s \in Session /\ row \in [Jobs -> Row] /\ results \in [Jobs -> Seq(Outcomes)]
    BY DEF TypeOK
  <1>2. ASSUME NEW j \in Jobs
        PROVE  Merged(s.op, row[j], s.loaded[j], s.new[j]) \in Row
    BY <1>1, MergedRow DEF Session
  <1>3. row' \in [Jobs -> Row]
    BY <1>1, <1>2 DEF Committed
  <1>4. ASSUME NEW j \in Recorded(s)
        PROVE  j \in Jobs /\ Append(results[j], s.new[j].status) \in Seq(Outcomes)
    BY <1>1 DEF Recorded, Written
  <1>5. results' \in [Jobs -> Seq(Outcomes)]
    BY <1>1, <1>4 DEF Committed
  <1> QED BY <1>3, <1>5

LEMMA AfterwardsSound ==
  ASSUME TypeOK, NEW p \in Procs
  PROVE  Afterwards(proc[p]) \in Session /\ Sound(Afterwards(proc[p]))
  <1>1. proc[p].task \in Task
    BY DEF TypeOK, Session
  <1> QED BY <1>1, AtSound, IdleSound DEF Afterwards, PCs

-----------------------------------------------------------------------------
(* Type correctness. *)

Shaped == TypeOK /\ SessionsSound

LEMMA InitShaped == Init => Shaped
  <1> SUFFICES ASSUME Init PROVE Shaped
    OBVIOUS
  <1>1. row \in [Jobs -> Row] /\ results \in [Jobs -> Seq(Outcomes)]
    BY FirstRows DEF Init
  <1>2. queue \in [Task -> Nat] /\ deadLetters \subseteq Jobs \union {AllDue}
        /\ {faults, outages, requeues} \subseteq Nat /\ dropped \subseteq Jobs \union {AllDue}
    BY DEF Init
  <1>3. proc \in [Procs -> Session] /\ \A p \in Procs : proc[p] = Idle
    BY IdleSound DEF Init
  <1> QED BY <1>1, <1>2, <1>3, IdleSound DEF Shaped, TypeOK, SessionsSound

\* Every action keeps the types and the soundness of the sessions.
LEMMA StepShaped == Shaped /\ [Next]_vars => Shaped'
  <1> SUFFICES ASSUME Shaped, [Next]_vars PROVE Shaped'
    OBVIOUS
  <1> USE DEF Shaped
  <1>0. /\ TypeOK /\ SessionsSound
        /\ row \in [Jobs -> Row] /\ results \in [Jobs -> Seq(Outcomes)]
        /\ deadLetters \subseteq Jobs \union {AllDue}
        /\ queue \in [Task -> Nat] /\ proc \in [Procs -> Session]
        /\ faults \in Nat /\ outages \in Nat /\ requeues \in Nat
        /\ dropped \subseteq Jobs \union {AllDue}
    BY DEF TypeOK
  <1>1. ASSUME NEW p \in Apis, NEW j \in Jobs, Enqueue(p, j) PROVE Shaped'
    <2>1. At("submit", JobTask(j)) \in Session /\ Sound(At("submit", JobTask(j)))
      BY FirstTasks, AtSound DEF PCs
    <2>2. proc' \in [Procs -> Session] /\ SessionsSound'
      BY <1>0, <1>1, <2>1, BecomeSound DEF Enqueue, Procs
    <2>3. row' \in [Jobs -> Row]
      BY <1>0, <1>1, FirstRows DEF Enqueue
    <2> QED BY <1>0, <1>1, <2>2, <2>3 DEF Enqueue, TypeOK, history
  <1>2. ASSUME NEW p \in Apis, Submit(p) PROVE Shaped'
    <2>1. proc' \in [Procs -> Session] /\ SessionsSound'
      BY <1>0, <1>2, IdleSound, BecomeSound DEF Submit, Procs
    <2>2. queue' \in [Task -> Nat]
      BY <1>0, <1>2, PublishQueue DEF Submit, Session, Procs
    <2> QED BY <1>0, <1>2, <2>1, <2>2 DEF Submit, TypeOK, history
  <1>3. ASSUME NEW p \in Apis, SubmitFails(p) PROVE Shaped'
    <2>1. proc[p].task \in Task
      BY <1>0 DEF Session, Procs
    <2>2. proc' \in [Procs -> Session] /\ SessionsSound'
      BY <1>0, <1>3, <2>1, AtSound, BecomeSound DEF SubmitFails, Procs, PCs
    <2>3. queue' \in [Task -> Nat]
      BY <1>0, <1>3, <2>1, PublishQueue DEF SubmitFails
    <2> QED BY <1>0, <1>3, <2>2, <2>3, Counted DEF SubmitFails, TypeOK
  <1>4. ASSUME NEW p \in Apis, Backfill(p) PROVE Shaped'
    <2>1. queue' \in [Task -> Nat]
      BY <1>0, <1>4, FirstTasks, PublishQueue DEF Backfill
    <2> QED BY <1>0, <1>4, <2>1 DEF Backfill, TypeOK, history, SessionsSound
  <1>5. ASSUME NEW p \in Apis, BackfillFails(p) PROVE Shaped'
    <2>1. proc' \in [Procs -> Session] /\ SessionsSound'
      BY <1>0, <1>5, FirstTasks, AtSound, BecomeSound DEF BackfillFails, Procs, PCs
    <2> QED BY <1>0, <1>5, <2>1, Counted DEF BackfillFails, TypeOK
  <1>6. ASSUME NEW p \in Apis, LoadUnsent(p) PROVE Shaped'
    <2> DEFINE task == proc[p].task
               S == IF task.job = AllDue THEN Due ELSE {task.job}
    <2>1. task \in Task
      BY <1>0 DEF Session, Procs
    <2>2. S \in SUBSET Jobs
      BY <1>0, <2>1, SelectedJobs DEF Task
    <2>3. Become(p, Opened("retry", task, S))
      BY <1>6 DEF LoadUnsent
    <2>4. proc' \in [Procs -> Session] /\ SessionsSound'
      BY <1>0, <2>1, <2>2, <2>3, OpenedSound, BecomeSound DEF Procs, Ops
    <2> QED BY <1>0, <1>6, <2>4 DEF LoadUnsent, TypeOK, history
  <1>7. ASSUME NEW p \in Apis, NEW j \in Jobs, LoadRequeue(p, j) PROVE Shaped'
    <2>1. proc' \in [Procs -> Session] /\ SessionsSound'
      BY <1>0, <1>7, FirstTasks, OpenedSound, BecomeSound DEF LoadRequeue, Procs, Ops
    <2> QED BY <1>0, <1>7, <2>1 DEF LoadRequeue, TypeOK
  <1>8. ASSUME NEW p \in Workers, NEW task \in Task, Receive(p, task) PROVE Shaped'
    <2>1. queue' \in [Task -> Nat]
      BY <1>0, <1>8 DEF Receive
    <2>2. CASE Selected(task) = {}
      BY <1>0, <1>8, <2>1, <2>2, IdleSound, BecomeSound DEF Receive, Procs, TypeOK, history
    <2>3. CASE Selected(task) # {}
      <3>1. Opened("process", task, Selected(task)) \in Session
            /\ Sound(Opened("process", task, Selected(task)))
        BY <1>0, SelectedJobs, OpenedSound DEF Ops
      <3>2. proc' \in [Procs -> Session] /\ SessionsSound'
        BY <1>0, <1>8, <2>3, <3>1, BecomeSound DEF Receive, Procs
      <3> QED BY <1>0, <1>8, <2>1, <3>2 DEF Receive, TypeOK, history
    <2> QED BY <2>2, <2>3
  <1>9. ASSUME NEW p \in Workers, NEW j \in Jobs, NEW outcome \in Outcomes \union {"RETRY"},
               NEW spends \in BOOLEAN, Process(p, j, outcome, spends)
        PROVE  Shaped'
    <2>1. proc' \in [Procs -> Session] /\ SessionsSound'
      BY <1>0, <1>9, ProcessSound DEF Procs
    <2> QED BY <1>0, <1>9, <2>1 DEF Process, TypeOK, history
  <1>10. ASSUME NEW p \in Workers, NEW j \in Jobs, Persist(p, j) PROVE Shaped'
    <2>1. proc' \in [Procs -> Session] /\ SessionsSound'
      BY <1>0, <1>10, PersistSound DEF Procs
    <2> QED BY <1>0, <1>10, <2>1 DEF Persist, TypeOK, history
  <1>11. ASSUME NEW p \in Workers, RecordDeadLetter(p) PROVE Shaped'
    <2>1. proc[p].task \in Task
      BY <1>0 DEF Session, Procs
    <2>2. proc' \in [Procs -> Session] /\ SessionsSound'
      <3>1. CASE proc[p].task.job = AllDue
        BY <1>0, <1>11, <3>1, IdleSound, BecomeSound DEF RecordDeadLetter, Procs
      <3>2. CASE proc[p].task.job # AllDue
        <4>1. proc[p].task.job \in Jobs
          BY <2>1, <3>2 DEF Task
        <4> QED BY <1>0, <1>11, <2>1, <3>2, <4>1, AtSound, BecomeSound
                DEF RecordDeadLetter, Procs, PCs
      <3> QED BY <3>1, <3>2
    <2>3. deadLetters' \subseteq Jobs \union {AllDue}
      BY <1>0, <1>11, <2>1 DEF RecordDeadLetter, Task
    <2>4. faults' \in Nat
      BY <1>0, <1>11, Counted DEF RecordDeadLetter
    <2> QED BY <1>0, <1>11, <2>2, <2>3, <2>4 DEF RecordDeadLetter, TypeOK
  <1>12. ASSUME NEW p \in Workers, LoadMarkFailed(p) PROVE Shaped'
    <2>1. proc[p].task \in Task /\ proc[p].task.job \in Jobs
      BY <1>0, <1>12 DEF Session, Procs, SessionsSound, Sound, LoadMarkFailed
    <2>2. proc' \in [Procs -> Session] /\ SessionsSound'
      BY <1>0, <1>12, <2>1, OpenedSound, BecomeSound DEF LoadMarkFailed, Procs, Ops
    <2> QED BY <1>0, <1>12, <2>2 DEF LoadMarkFailed, TypeOK, history
  <1>13. ASSUME NEW p \in Procs, NEW j \in Jobs, Flush(p, j) PROVE Shaped'
    <2>1. proc' \in [Procs -> Session] /\ SessionsSound'
      BY <1>0, <1>13, FlushSound
    <2> QED BY <1>0, <1>13, <2>1 DEF Flush, TypeOK, history
  <1>14. ASSUME NEW p \in Procs, Commit(p) PROVE Shaped'
    <2>1. row' \in [Jobs -> Row] /\ results' \in [Jobs -> Seq(Outcomes)]
      BY <1>0, <1>14, CommittedTables DEF Commit
    <2>2. proc' \in [Procs -> Session] /\ SessionsSound'
      BY <1>0, <1>14, AfterwardsSound, BecomeSound DEF Commit
    <2> QED BY <1>0, <1>14, <2>1, <2>2 DEF Commit, TypeOK, history
  <1>15. ASSUME NEW p \in Procs, CommitUnconfirmed(p) PROVE Shaped'
    <2>1. row' \in [Jobs -> Row] /\ results' \in [Jobs -> Seq(Outcomes)]
      BY <1>0, <1>15, CommittedTables DEF CommitUnconfirmed
    <2>2. proc' \in [Procs -> Session] /\ SessionsSound' /\ queue' \in [Task -> Nat]
          /\ outages' \in Nat /\ dropped' \subseteq Jobs \union {AllDue}
      BY <1>0, <1>15, RaisedSound DEF CommitUnconfirmed
    <2> QED BY <1>0, <1>15, <2>1, <2>2, Counted DEF CommitUnconfirmed, TypeOK
  <1>16. ASSUME NEW p \in Procs, DatabaseError(p) PROVE Shaped'
    <2>1. proc' \in [Procs -> Session] /\ SessionsSound' /\ queue' \in [Task -> Nat]
          /\ outages' \in Nat /\ dropped' \subseteq Jobs \union {AllDue}
      BY <1>0, <1>16, RaisedSound DEF DatabaseError
    <2> QED BY <1>0, <1>16, <2>1, Counted DEF DatabaseError, TypeOK
  <1>17. ASSUME NEW p \in Procs, DeadlockVictim(p) PROVE Shaped'
    <2>1. proc' \in [Procs -> Session] /\ SessionsSound' /\ queue' \in [Task -> Nat]
          /\ outages' \in Nat /\ dropped' \subseteq Jobs \union {AllDue}
      BY <1>0, <1>17, RaisedSound DEF DeadlockVictim
    <2> QED BY <1>0, <1>17, <2>1 DEF DeadlockVictim, TypeOK
  <1>18. ASSUME NEW p \in Procs, Crash(p) PROVE Shaped'
    <2>1. proc' \in [Procs -> Session] /\ SessionsSound'
      BY <1>0, <1>18, IdleSound, BecomeSound DEF Crash
    <2> QED BY <1>0, <1>18, <2>1, Counted DEF Crash, TypeOK
  <1>19. ASSUME NEW j \in Jobs, AttemptDue(j) PROVE Shaped'
    <2>1. row' \in [Jobs -> Row]
      BY <1>0, <1>19 DEF AttemptDue, Row
    <2> QED BY <1>0, <1>19, <2>1 DEF AttemptDue, TypeOK, history, SessionsSound
  <1>20. CASE UNCHANGED vars
    BY <1>0, <1>20 DEF vars, TypeOK, history, SessionsSound
  <1> QED BY <1>1, <1>2, <1>3, <1>4, <1>5, <1>6, <1>7, <1>8, <1>9, <1>10, <1>11, <1>12,
             <1>13, <1>14, <1>15, <1>16, <1>17, <1>18, <1>19, <1>20
          DEF Next, ApiStep, WorkerStep, SessionStep

\* Every reachable state of the queue is well formed, whatever the numbers of
\* jobs and processes and whatever fails.
THEOREM TypeCorrect == Spec => []TypeOK
  <1>1. Shaped => TypeOK
    BY DEF Shaped
  <1> QED BY <1>1, InitShaped, StepShaped, PTL DEF Spec

-----------------------------------------------------------------------------
(* What a step may do to the tables. *)

\* The only steps that write eval_jobs or eval_results: an enqueue, a commit,
\* and the clock, which changes what next_attempt_at means.
LEMMA TableSteps ==
  ASSUME [Next]_vars
  PROVE  \/ UNCHANGED <<row, results>>
         \/ \E j \in Jobs : /\ row[j] = Absent /\ results' = results
                            /\ row' = [row EXCEPT ![j] = Fresh]
         \/ \E j \in Jobs : /\ row[j].next = "ahead" /\ results' = results
                            /\ row' = [row EXCEPT ![j].next = "reached"]
         \/ \E p \in Procs : proc[p].pc = "flush" /\ Committed(proc[p])
  <1>1. CASE \E p \in Apis : ApiStep(p)
    BY <1>1 DEF ApiStep, Enqueue, Submit, SubmitFails, Backfill, BackfillFails,
                LoadUnsent, LoadRequeue
  <1>2. CASE \E p \in Workers : WorkerStep(p)
    <2>1. ASSUME NEW p, NEW task, Receive(p, task) PROVE UNCHANGED <<row, results>>
      BY <2>1 DEF Receive
    <2>2. ASSUME NEW p, NEW j, NEW outcome, NEW spends, Process(p, j, outcome, spends)
          PROVE  UNCHANGED <<row, results>>
      BY <2>2 DEF Process
    <2>3. ASSUME NEW p, NEW j, Persist(p, j) PROVE UNCHANGED <<row, results>>
      BY <2>3 DEF Persist
    <2>4. ASSUME NEW p, RecordDeadLetter(p) \/ LoadMarkFailed(p)
          PROVE  UNCHANGED <<row, results>>
      BY <2>4 DEF RecordDeadLetter, LoadMarkFailed
    <2> QED BY <1>2, <2>1, <2>2, <2>3, <2>4 DEF WorkerStep
  <1>3. CASE \E p \in Procs : SessionStep(p)
    BY <1>3 DEF SessionStep, Flush, Commit, CommitUnconfirmed, DatabaseError,
                DeadlockVictim, Crash
  <1>4. CASE \E j \in Jobs : AttemptDue(j)
    BY <1>4 DEF AttemptDue
  <1>5. CASE UNCHANGED vars
    BY <1>5 DEF vars
  <1> QED BY <1>1, <1>2, <1>3, <1>4, <1>5 DEF Next

\* What a transaction's commit may do to the row and the results of one job.
JobCommitted(j) ==
  \/ row'[j].status \in Outcomes /\ results'[j] = Append(results[j], row'[j].status)
  \/ row'[j].status \in {"PENDING", "RETRY", "FAILED"} /\ results'[j] = results[j]
  \/ row'[j].status = row[j].status /\ results'[j] = results[j]

LEMMA CommitTables ==
  ASSUME Shaped, NEW p \in Procs, Committed(proc[p]), NEW j \in Jobs
  PROVE  /\ JobCommitted(j)
         /\ j \notin proc[p].held => row'[j] = row[j] /\ results'[j] = results[j]
  <1> DEFINE s == proc[p]
             m == Merged(s.op, row[j], s.loaded[j], s.new[j])
  <1>1. s \in Session /\ Sound(s) /\ row \in [Jobs -> Row]
    BY DEF Shaped, TypeOK, SessionsSound
  <1>2. s.loaded[j] \in Row /\ s.new[j] \in Row /\ row[j] \in Row
    BY <1>1 DEF Session
  <1>3. /\ row'[j] = IF j \in s.held THEN m ELSE row[j]
        /\ results'[j] = IF j \in s.held /\ s.new[j].status \in Outcomes
                           THEN Append(results[j], s.new[j].status) ELSE results[j]
    BY DEF Committed, Written, Recorded
  <1>4. /\ m.status \in {s.new[j].status, row[j].status}
        /\ s.op = "process" => m.status = s.new[j].status
    BY <1>2, MergedRow
  <1> HIDE DEF m
  <1>5. CASE j \in s.held
    <2>1. /\ s.new[j].status \notin {"PROCESSING", "ABSENT"}
          /\ s.new[j].status \in Outcomes => s.op = "process"
      BY <1>1, <1>5 DEF Sound
    <2>2. s.new[j].status \in Outcomes \union {"PENDING", "RETRY", "FAILED"}
      BY <1>2, <2>1 DEF Row, Statuses, Settled
    <2>3. CASE s.new[j].status \in Outcomes
      BY <1>3, <1>4, <1>5, <2>1, <2>3 DEF JobCommitted
    <2>4. CASE s.new[j].status \notin Outcomes
      BY <1>3, <1>4, <1>5, <2>2, <2>4 DEF JobCommitted
    <2> QED BY <1>5, <2>3, <2>4
  <1>6. CASE j \notin s.held
    BY <1>3, <1>6 DEF JobCommitted
  <1> QED BY <1>5, <1>6

-----------------------------------------------------------------------------
(* The tables a reader sees. *)

Tables == NeverStuckProcessing /\ OutcomeBacked

LEMMA StepTables == Shaped /\ Tables /\ [Next]_vars => Tables'
  <1> SUFFICES ASSUME Shaped, Tables, [Next]_vars, NEW k \in Jobs
               PROVE  /\ row'[k].status # "PROCESSING"
                      /\ row'[k].status \in Outcomes =>
                           /\ results'[k] # <<>>
                           /\ results'[k][Len(results'[k])] = row'[k].status
    BY DEF Tables, NeverStuckProcessing, OutcomeBacked
  <1>1. /\ row \in [Jobs -> Row] /\ results[k] \in Seq(Outcomes)
        /\ row[k].status # "PROCESSING"
        /\ row[k].status \in Outcomes =>
             /\ results[k] # <<>>
             /\ results[k][Len(results[k])] = row[k].status
    BY DEF Shaped, TypeOK, Tables, NeverStuckProcessing, OutcomeBacked
  <1>2. CASE UNCHANGED <<row, results>>
    BY <1>1, <1>2
  <1>3. ASSUME NEW j \in Jobs, results' = results, row' = [row EXCEPT ![j] = Fresh]
        PROVE  /\ row'[k].status # "PROCESSING"
               /\ row'[k].status \in Outcomes => row'[k] = row[k]
    BY <1>1, <1>3, FirstRows DEF Outcomes
  <1>4. ASSUME NEW j \in Jobs, results' = results, row' = [row EXCEPT ![j].next = "reached"]
        PROVE  row'[k].status = row[k].status
    BY <1>1, <1>4 DEF Row
  <1>5. ASSUME NEW p \in Procs, Committed(proc[p])
        PROVE  /\ row'[k].status # "PROCESSING"
               /\ row'[k].status \in Outcomes =>
                    /\ results'[k] # <<>>
                    /\ results'[k][Len(results'[k])] = row'[k].status
    <2>1. JobCommitted(k)
      BY <1>5, CommitTables
    <2>2. CASE row'[k].status \in Outcomes /\ results'[k] = Append(results[k], row'[k].status)
      <3>1. row'[k].status # "PROCESSING"
        BY <2>2 DEF Outcomes
      <3>2. results'[k] # <<>> /\ results'[k][Len(results'[k])] = row'[k].status
        BY <1>1, <2>2, AppendProperties
      <3> QED BY <3>1, <3>2
    <2>3. CASE row'[k].status \in {"PENDING", "RETRY", "FAILED"}
      BY <2>3 DEF Outcomes
    <2>4. CASE row'[k].status = row[k].status /\ results'[k] = results[k]
      BY <1>1, <2>4
    <2> QED BY <2>1, <2>2, <2>3, <2>4 DEF JobCommitted
  <1> QED BY <1>1, <1>2, <1>3, <1>4, <1>5, TableSteps

LEMMA Invariance == Spec => [](Shaped /\ Tables)
  <1>1. Init => Shaped /\ Tables
    BY InitShaped, FirstRows
    DEF Init, Tables, NeverStuckProcessing, OutcomeBacked, Outcomes
  <1>2. (Shaped /\ Tables) /\ [Next]_vars => (Shaped /\ Tables)'
    BY StepShaped, StepTables
  <1> QED BY <1>1, <1>2, PTL DEF Spec

\* No crash, error or interleaving leaves a job in PROCESSING.
THEOREM NeverStuck == Spec => []NeverStuckProcessing
  BY Invariance, PTL DEF Tables

\* Every outcome a reader finds has the result that documents it.
THEOREM OutcomesBacked == Spec => []OutcomeBacked
  BY Invariance, PTL DEF Tables

\* A result is only ever committed together with the outcome it documents.
THEOREM ResultsAtomic == Spec => ResultsComeWithOutcome
  <1> DEFINE A == \A j \in Jobs : results'[j] # results[j] =>
                    /\ row'[j].status \in Outcomes
                    /\ results'[j] = Append(results[j], row'[j].status)
  <1>1. Shaped /\ [Next]_vars => A
    <2> SUFFICES ASSUME Shaped, [Next]_vars, NEW j \in Jobs, results'[j] # results[j]
                 PROVE  /\ row'[j].status \in Outcomes
                        /\ results'[j] = Append(results[j], row'[j].status)
      OBVIOUS
    <2>1. PICK p \in Procs : Committed(proc[p])
      BY TableSteps
    <2>2. JobCommitted(j)
      BY <2>1, CommitTables
    <2> QED BY <2>2 DEF JobCommitted
  <1>2. Shaped /\ [Next]_vars => [A]_vars
    BY <1>1
  <1> QED BY <1>2, InitShaped, StepShaped, PTL DEF Spec, ResultsComeWithOutcome

-----------------------------------------------------------------------------
(* Refinement of EvalLifecycle.  A commit may only touch jobs that exist,  *)
(* which needs to be known of the jobs the open sessions work on.          *)

\* All the jobs session s refers to are in the table r.
KnownIn(s, r) ==
  /\ s.task.job \in Jobs => r[s.task.job].status # "ABSENT"
  /\ \A j \in Jobs \intersect (s.todo \union s.held) : r[j].status # "ABSENT"

SessionsKnown == \A p \in Procs : KnownIn(proc[p], row)

\* A job that is in the table stays there.
LEMMA PresenceKept ==
  ASSUME Shaped, [Next]_vars, NEW k \in Jobs, row[k].status # "ABSENT"
  PROVE  row'[k].status # "ABSENT"
  <1>1. row \in [Jobs -> Row]
    BY DEF Shaped, TypeOK
  <1>2. CASE UNCHANGED <<row, results>>
    BY <1>2
  <1>3. ASSUME NEW j \in Jobs, row[j] = Absent, row' = [row EXCEPT ![j] = Fresh]
        PROVE  row'[k].status # "ABSENT"
    BY <1>1, <1>3, FirstRows
  <1>4. ASSUME NEW j \in Jobs, row' = [row EXCEPT ![j].next = "reached"]
        PROVE  row'[k].status # "ABSENT"
    BY <1>1, <1>4 DEF Row
  <1>5. ASSUME NEW p \in Procs, Committed(proc[p]) PROVE row'[k].status # "ABSENT"
    BY <1>5, CommitTables DEF JobCommitted, Outcomes
  <1> QED BY <1>2, <1>3, <1>4, <1>5, TableSteps

LEMMA IdleKnown == \A r : KnownIn(Idle, r)
  BY JobsAssumption DEF Idle, At, KnownIn, BackfillTask, JobTask

\* A process between two sessions knows the job of its task.
LEMMA AtKnown ==
  ASSUME NEW pc, NEW task, NEW r, task.job \in Jobs => r[task.job].status # "ABSENT"
  PROVE  KnownIn(At(pc, task), r)
  BY DEF At, KnownIn

\* So does a session that has loaded jobs that exist.
LEMMA OpenedKnown ==
  ASSUME NEW op, NEW task, NEW S \in SUBSET Jobs,
         task.job \in Jobs => row[task.job].status # "ABSENT",
         \A j \in S : row[j].status # "ABSENT"
  PROVE  KnownIn(Opened(op, task, S), row)
  BY DEF Opened, KnownIn

\* It is enough that the new session knows its jobs before the step, or after.
LEMMA BecomeKnown ==
  ASSUME Shaped, SessionsKnown, [Next]_vars, NEW p \in Procs, NEW s, Become(p, s),
         KnownIn(s, row) \/ KnownIn(s, row')
  PROVE  SessionsKnown'
  <1>1. proc \in [Procs -> Session]
    BY DEF Shaped, TypeOK
  <1> SUFFICES ASSUME NEW q \in Procs PROVE KnownIn(proc'[q], row')
    BY DEF SessionsKnown
  <1>2. CASE KnownIn(proc'[q], row)
    BY <1>2, PresenceKept DEF KnownIn
  <1>3. CASE KnownIn(proc'[q], row')
    BY <1>3
  <1>4. proc'[q] = IF q = p THEN s ELSE proc[q]
    BY <1>1 DEF Become
  <1> QED BY <1>2, <1>3, <1>4 DEF SessionsKnown

\* An exception leaves a process that knows no more jobs than it did.
LEMMA RaisedKnown ==
  ASSUME Shaped, SessionsKnown, [Next]_vars, NEW p \in Procs, Raised(p)
  PROVE  SessionsKnown'
  <1>1. KnownIn(proc[p], row)
    BY DEF SessionsKnown
  <1>2. Become(p, Idle) \/ Become(p, At("deadLetter", proc[p].task))
    BY DEF Raised
  <1>3. KnownIn(At("deadLetter", proc[p].task), row)
    BY <1>1, AtKnown DEF KnownIn
  <1> QED BY <1>2, <1>3, IdleKnown, BecomeKnown

LEMMA StepKnown == Shaped /\ SessionsKnown /\ [Next]_vars => SessionsKnown'
  <1> SUFFICES ASSUME Shaped, SessionsKnown, [Next]_vars PROVE SessionsKnown'
    OBVIOUS
  <1>0. TypeOK /\ proc \in [Procs -> Session] /\ row \in [Jobs -> Row]
        /\ \A p \in Procs : KnownIn(proc[p], row)
    BY DEF Shaped, TypeOK, SessionsKnown
  <1>1. ASSUME NEW p \in Apis, NEW j \in Jobs, Enqueue(p, j) PROVE SessionsKnown'
    <2>1. row'[j].status # "ABSENT"
      BY <1>0, <1>1, FirstRows DEF Enqueue
    <2>2. KnownIn(At("submit", JobTask(j)), row')
      BY <2>1, AtKnown DEF JobTask
    <2> QED BY <1>1, <2>2, BecomeKnown DEF Enqueue, Procs
  <1>2. ASSUME NEW p \in Apis, Submit(p) PROVE SessionsKnown'
    BY <1>2, IdleKnown, BecomeKnown DEF Submit, Procs
  <1>3. ASSUME NEW p \in Apis, SubmitFails(p) PROVE SessionsKnown'
    <2>1. KnownIn(At("unsent", proc[p].task), row)
      BY <1>0, AtKnown DEF KnownIn, Procs
    <2> QED BY <1>3, <2>1, BecomeKnown DEF SubmitFails, Procs
  <1>4. ASSUME NEW p \in Apis, Backfill(p) PROVE SessionsKnown'
    BY <1>0, <1>4 DEF Backfill, SessionsKnown
  <1>5. ASSUME NEW p \in Apis, BackfillFails(p) PROVE SessionsKnown'
    <2>1. KnownIn(At("unsent", BackfillTask), row)
      BY AtKnown, JobsAssumption DEF BackfillTask, JobTask
    <2> QED BY <1>5, <2>1, BecomeKnown DEF BackfillFails, Procs
  <1>6. ASSUME NEW p \in Apis, LoadUnsent(p) PROVE SessionsKnown'
    <2> DEFINE task == proc[p].task
               S == IF task.job = AllDue THEN Due ELSE {task.job}
    <2>1. task \in Task /\ (task.job \in Jobs => row[task.job].status # "ABSENT")
      BY <1>0 DEF Session, Procs, KnownIn
    <2>2. S \in SUBSET Jobs /\ \A j \in S : row[j].status # "ABSENT"
      BY <1>0, <2>1, SelectedJobs DEF Task
    <2>3. KnownIn(Opened("retry", task, S), row)
      BY <2>1, <2>2, OpenedKnown
    <2>4. Become(p, Opened("retry", task, S))
      BY <1>6 DEF LoadUnsent
    <2> QED BY <2>3, <2>4, BecomeKnown DEF Procs
  <1>7. ASSUME NEW p \in Apis, NEW j \in Jobs, LoadRequeue(p, j) PROVE SessionsKnown'
    <2>1. KnownIn(Opened("requeue", JobTask(j), {j}), row)
      BY <1>7, OpenedKnown DEF LoadRequeue, JobTask
    <2> QED BY <1>7, <2>1, BecomeKnown DEF LoadRequeue, Procs
  <1>8. ASSUME NEW p \in Workers, NEW task \in Task, Receive(p, task) PROVE SessionsKnown'
    <2>1. CASE Selected(task) = {}
      BY <1>8, <2>1, IdleKnown, BecomeKnown DEF Receive, Procs
    <2>2. CASE Selected(task) # {}
      <3>1. Selected(task) \in SUBSET Jobs /\ \A j \in Selected(task) : row[j].status # "ABSENT"
        BY <1>0, SelectedJobs
      <3>2. task.job \in Jobs => task.job \in Selected(task)
        BY <2>2, JobsAssumption DEF Selected
      <3>3. KnownIn(Opened("process", task, Selected(task)), row)
        BY <3>1, <3>2, OpenedKnown
      <3> QED BY <1>8, <2>2, <3>3, BecomeKnown DEF Receive, Procs
    <2> QED BY <2>1, <2>2
  <1>9. ASSUME NEW p \in Workers, NEW j \in Jobs, NEW outcome \in Outcomes \union {"RETRY"},
               NEW spends \in BOOLEAN, Process(p, j, outcome, spends)
        PROVE  SessionsKnown'
    <2>1. PICK new : Become(p, [proc[p] EXCEPT
                       !.pc = IF spends THEN "persist" ELSE "flush",
                       !.todo = IF spends THEN @ ELSE @ \ {j},
                       !.new[j] = new,
                       !.held = @ \union {j}])
      BY <1>9 DEF Process
    <2>2. proc[p] \in Session /\ KnownIn(proc[p], row) /\ j \in proc[p].todo
      BY <1>0, <1>9 DEF Procs, Process, IsNext
    <2>3. KnownIn([proc[p] EXCEPT
                       !.pc = IF spends THEN "persist" ELSE "flush",
                       !.todo = IF spends THEN @ ELSE @ \ {j},
                       !.new[j] = new,
                       !.held = @ \union {j}], row)
      BY <2>2 DEF KnownIn, Session
    <2> QED BY <2>1, <2>3, BecomeKnown DEF Procs
  <1>10. ASSUME NEW p \in Workers, NEW j \in Jobs, Persist(p, j) PROVE SessionsKnown'
    <2> DEFINE t == [proc[p] EXCEPT !.pc = "flush", !.todo = @ \ {j},
                                    !.held = @ \union {TenantOf[j]}]
    <2>1. proc[p] \in Session /\ KnownIn(proc[p], row)
      BY <1>0 DEF Procs
    <2>2. KnownIn(t, row)
      BY <2>1, TenantAssumption DEF KnownIn, Session
    <2>3. Become(p, t)
      BY <1>10 DEF Persist
    <2> QED BY <2>2, <2>3, BecomeKnown DEF Procs
  <1>11. ASSUME NEW p \in Workers, RecordDeadLetter(p) PROVE SessionsKnown'
    <2>1. KnownIn(At("markFailed", proc[p].task), row)
      BY <1>0, AtKnown DEF KnownIn, Procs
    <2>2. Become(p, Idle) \/ Become(p, At("markFailed", proc[p].task))
      BY <1>11 DEF RecordDeadLetter
    <2> QED BY <2>1, <2>2, IdleKnown, BecomeKnown DEF Procs
  <1>12. ASSUME NEW p \in Workers, LoadMarkFailed(p) PROVE SessionsKnown'
    <2>1. proc[p].task.job \in Jobs /\ row[proc[p].task.job].status # "ABSENT"
      BY <1>0, <1>12 DEF Shaped, SessionsSound, Sound, LoadMarkFailed, KnownIn, Procs
    <2>2. KnownIn(Opened("fail", proc[p].task, {proc[p].task.job}), row)
      BY <2>1, OpenedKnown
    <2> QED BY <1>12, <2>2, BecomeKnown DEF LoadMarkFailed, Procs
  <1>13. ASSUME NEW p \in Procs, NEW j \in Jobs, Flush(p, j) PROVE SessionsKnown'
    <2>1. PICK new : Become(p, [proc[p] EXCEPT !.todo = @ \ {j}, !.new[j] = new,
                                               !.held = @ \union {j}])
      BY <1>13 DEF Flush
    <2>2. proc[p] \in Session /\ KnownIn(proc[p], row) /\ j \in proc[p].todo
      BY <1>0, <1>13 DEF Flush, IsNext
    <2>3. KnownIn([proc[p] EXCEPT !.todo = @ \ {j}, !.new[j] = new,
                                  !.held = @ \union {j}], row)
      BY <2>2 DEF KnownIn, Session
    <2> QED BY <2>1, <2>3, BecomeKnown
  <1>14. ASSUME NEW p \in Procs, Commit(p) PROVE SessionsKnown'
    <2>1. KnownIn(At("submit", proc[p].task), row)
      BY <1>0, AtKnown DEF KnownIn
    <2>2. Become(p, Idle) \/ Become(p, At("submit", proc[p].task))
      BY <1>14 DEF Commit, Afterwards
    <2> QED BY <2>1, <2>2, IdleKnown, BecomeKnown
  <1>15. ASSUME NEW p \in Procs, CommitUnconfirmed(p) \/ DatabaseError(p) \/ DeadlockVictim(p)
         PROVE  SessionsKnown'
    BY <1>15, RaisedKnown DEF CommitUnconfirmed, DatabaseError, DeadlockVictim
  <1>16. ASSUME NEW p \in Procs, Crash(p) PROVE SessionsKnown'
    BY <1>16, IdleKnown, BecomeKnown DEF Crash
  <1>17. ASSUME NEW j \in Jobs, AttemptDue(j) PROVE SessionsKnown'
    BY <1>0, <1>17, PresenceKept DEF AttemptDue, SessionsKnown, KnownIn
  <1>18. CASE UNCHANGED vars
    BY <1>0, <1>18 DEF vars, SessionsKnown
  <1> QED BY <1>1, <1>2, <1>3, <1>4, <1>5, <1>6, <1>7, <1>8, <1>9, <1>10, <1>11, <1>12,
             <1>13, <1>14, <1>15, <1>16, <1>17, <1>18
          DEF Next, ApiStep, WorkerStep, SessionStep

\* Each step of the queue is a transaction of EvalLifecycle, or leaves what
\* its readers see as it was.
LEMMA StepRefines ==
  Shaped /\ SessionsKnown /\ [Next]_vars =>
    [Lifecycle!Transaction]_<<[j \in Jobs |-> row[j].status], results>>
  <1> SUFFICES ASSUME Shaped, SessionsKnown, [Next]_vars
               PROVE  Lifecycle!Transaction
                      \/ UNCHANGED <<[j \in Jobs |-> row[j].status], results>>
    OBVIOUS
  <1>0. row \in [Jobs -> Row] /\ results \in [Jobs -> Seq(Outcomes)]
    BY DEF Shaped, TypeOK
  <1>1. results' = [j \in Jobs |-> results'[j]]
    BY StepShaped DEF Shaped, TypeOK
  <1>2. ASSUME \A k \in Jobs :
                 \/ Lifecycle!Untouched(k) \/ Lifecycle!Enqueued(k)
                 \/ Lifecycle!Recorded(k) \/ Lifecycle!PutOff(k) \/ Lifecycle!Replayed(k)
        PROVE  Lifecycle!Transaction
    BY <1>1, <1>2 DEF Lifecycle!Transaction
  <1>3. CASE UNCHANGED <<row, results>>
    BY <1>3
  <1>4. ASSUME NEW j \in Jobs, row[j] = Absent, results' = results,
               row' = [row EXCEPT ![j] = Fresh], NEW k \in Jobs
        PROVE  Lifecycle!Untouched(k) \/ Lifecycle!Enqueued(k)
    BY <1>0, <1>4, FirstRows DEF Lifecycle!Untouched, Lifecycle!Enqueued
  <1>5. ASSUME NEW j \in Jobs, results' = results, row' = [row EXCEPT ![j].next = "reached"],
               NEW k \in Jobs
        PROVE  Lifecycle!Untouched(k)
    BY <1>0, <1>5 DEF Lifecycle!Untouched, Row
  <1>6. ASSUME NEW p \in Procs, Committed(proc[p]), NEW k \in Jobs
        PROVE  \/ Lifecycle!Untouched(k) \/ Lifecycle!Recorded(k)
               \/ Lifecycle!PutOff(k) \/ Lifecycle!Replayed(k)
    <2>1. JobCommitted(k)
          /\ (k \notin proc[p].held => row'[k] = row[k] /\ results'[k] = results[k])
      BY <1>6, CommitTables
    <2>2. CASE k \notin proc[p].held
      BY <2>1, <2>2 DEF Lifecycle!Untouched
    <2>3. CASE k \in proc[p].held
      <3>1. row[k].status # "ABSENT"
        BY <2>3 DEF SessionsKnown, KnownIn
      <3>2. CASE row'[k].status \in Outcomes /\ results'[k] = Append(results[k], row'[k].status)
        BY <3>1, <3>2 DEF Lifecycle!Recorded, Lifecycle!Outcomes, Outcomes
      <3>3. CASE row'[k].status \in {"PENDING", "RETRY", "FAILED"} /\ results'[k] = results[k]
        BY <3>1, <3>3 DEF Lifecycle!PutOff, Lifecycle!Replayed
      <3>4. CASE row'[k].status = row[k].status /\ results'[k] = results[k]
        BY <3>4 DEF Lifecycle!Untouched
      <3> QED BY <2>1, <3>2, <3>3, <3>4 DEF JobCommitted
    <2> QED BY <2>2, <2>3
  <1> QED BY <1>2, <1>3, <1>4, <1>5, <1>6, TableSteps

\* The queue, with all its sessions, tasks, retries and faults, implements the
\* lifecycle its readers rely on.
THEOREM Implements == Spec => LifecycleSpec
  <1>1. Init => SessionsKnown
    BY IdleKnown DEF Init, SessionsKnown
  <1>2. Init => Lifecycle!Init
    BY FirstRows DEF Init, Lifecycle!Init
  <1> QED BY <1>1, <1>2, InitShaped, StepShaped, StepKnown, StepRefines, PTL
          DEF Spec, LifecycleSpec, Lifecycle!Spec


-----------------------------------------------------------------------------
(* No PENDING job is lost.  InHand counts every session that refers to the *)
(* job, but not every one of them will move it on: a backfill that is the  *)
(* victim of a deadlock is published again without naming it, and what     *)
(* loaded the row before a requeue leaves its status alone.  The invariant *)
(* is about those that do: a task of the job itself, and who has one, is   *)
(* about to publish one, or loaded the job as PENDING; or about the task   *)
(* whose retry was refused.                                                *)

Dispatching == {"submit", "unsent", "deadLetter", "markFailed"}

\* Session s will take j out of PENDING, or hand it to somebody who does.
Holds(s, j) ==
  /\ s.task.job = j
  /\ \/ s.pc \in Dispatching
     \/ s.op = "process"
     \/ s.op \in {"retry", "fail"} /\ s.loaded[j].status = "PENDING"

Queued(j) == \E t \in Task : t.job = j /\ queue[t] > 0

PendingHeld ==
  faults = 0 => \A j \in Jobs : row[j].status = "PENDING" =>
    Queued(j) \/ j \in dropped \/ \E p \in Procs : Holds(proc[p], j)

\* A session for one job works on it and on no other, and has flushed it when it
\* is ready to commit; only a requeue makes a job PENDING.
Works(s) ==
  /\ s.pc \in {"flush", "persist"} /\ s.task.job \in Jobs =>
       /\ Jobs \intersect (s.todo \union s.held) = {s.task.job}
       /\ s.op # "process" => s.todo = {} \/ s.held = {}
       /\ s.pc = "persist" => s.task.job \in s.held
  /\ s.op = "requeue" => s.task.job \in Jobs
  /\ \A j \in Jobs \intersect s.held : s.op # "requeue" => s.new[j].status # "PENDING"

SessionsWork == \A p \in Procs : Works(proc[p])

LEMMA AtWorks ==
  ASSUME NEW pc \in PCs \ {"flush", "persist"}, NEW task
  PROVE  Works(At(pc, task))
  BY DEF At, Works

LEMMA IdleWorks == Works(Idle) /\ \A j \in Jobs : ~Holds(Idle, j)
  BY AtWorks, JobsAssumption DEF Idle, At, BackfillTask, JobTask, Holds, PCs, Dispatching

LEMMA OpenedWorks ==
  ASSUME NEW op, NEW task, NEW S \in SUBSET Jobs,
         task.job \in Jobs => S = {task.job},
         op = "requeue" => task.job \in Jobs
  PROVE  Works(Opened(op, task, S))
  BY DEF Opened, Works

LEMMA BecomeWorks ==
  ASSUME TypeOK, SessionsWork, NEW p \in Procs, NEW s, Works(s), Become(p, s)
  PROVE  SessionsWork'
  <1>1. \A q \in Procs : proc'[q] = IF q = p THEN s ELSE proc[q]
    BY DEF TypeOK, Become
  <1> QED BY <1>1 DEF SessionsWork, Works

LEMMA RaisedWorks ==
  ASSUME TypeOK, SessionsWork, NEW p \in Procs, Raised(p)
  PROVE  SessionsWork'
  <1>1. Become(p, Idle) \/ Become(p, At("deadLetter", proc[p].task))
    BY DEF Raised
  <1>2. "deadLetter" \in PCs \ {"flush", "persist"}
    BY DEF PCs
  <1> QED BY <1>1, <1>2, AtWorks, IdleWorks, BecomeWorks

\* The job of a session for one job, when it is still to do something.
LEMMA NextJob ==
  ASSUME TypeOK, SessionsWork, NEW p \in Procs, NEW j \in Jobs, IsNext(p, j),
         proc[p].pc \in {"flush", "persist"}, proc[p].task.job \in Jobs
  PROVE  /\ proc[p].task.job = j /\ proc[p].todo = {j}
         /\ proc[p].op # "process" => proc[p].held = {}
  <1>1. proc[p].todo \in SUBSET Jobs /\ j \in proc[p].todo
    BY DEF TypeOK, Session, IsNext
  <1> QED BY <1>1 DEF SessionsWork, Works

LEMMA ProcessWorks ==
  ASSUME TypeOK, SessionsWork, NEW p \in Procs, NEW j \in Jobs,
         NEW outcome \in Outcomes \union {"RETRY"}, NEW spends \in BOOLEAN,
         Process(p, j, outcome, spends)
  PROVE  SessionsWork'
  <1> DEFINE s == proc[p]
             job == [s.loaded[j] EXCEPT !.status = "PROCESSING"]
             new == IF outcome = "RETRY" THEN Retried(job) ELSE Evaluated(job, outcome)
             t == [s EXCEPT !.pc = IF spends THEN "persist" ELSE "flush",
                            !.todo = IF spends THEN @ ELSE @ \ {j},
                            !.new[j] = new,
                            !.held = @ \union {j}]
  <1>1. s \in Session /\ s.op = "process" /\ s.pc = "flush" /\ IsNext(p, j) /\ Works(s)
    BY DEF TypeOK, Process, SessionsWork
  <1>2. job \in Row
    BY <1>1 DEF Session, Row, Statuses
  <1>3. new \in Row /\ new.status # "PENDING"
    BY <1>2, RetriedRow, EvaluatedRow DEF Outcomes
  <1> HIDE DEF new
  <1>4. /\ t.op = "process" /\ t.pc = (IF spends THEN "persist" ELSE "flush") /\ t.task = s.task
        /\ t.todo = (IF spends THEN s.todo ELSE s.todo \ {j})
        /\ t.held = s.held \union {j}
        /\ t.new = [s.new EXCEPT ![j] = new] /\ s.new \in [Jobs -> Row]
    BY <1>1 DEF Session
  <1>5. Become(p, t)
    BY DEF Process, new
  <1> HIDE DEF t
  <1>6. s.task.job \in Jobs => s.task.job = j /\ s.todo = {j}
    BY <1>1, NextJob
  <1>7. ASSUME s.task.job \in Jobs
        PROVE  /\ Jobs \intersect (t.todo \union t.held) = {s.task.job}
               /\ s.task.job \in t.held
    BY <1>1, <1>4, <1>6, <1>7 DEF Works
  <1>8. \A k \in Jobs \intersect t.held : t.new[k].status # "PENDING"
    BY <1>1, <1>3, <1>4 DEF Works
  <1>9. Works(t)
    BY <1>4, <1>7, <1>8 DEF Works
  <1> QED BY <1>5, <1>9, BecomeWorks

LEMMA PersistWorks ==
  ASSUME TypeOK, SessionsWork, NEW p \in Procs, NEW j \in Jobs, Persist(p, j), SessionsSound
  PROVE  SessionsWork'
  <1> DEFINE s == proc[p]
             t == [s EXCEPT !.pc = "flush", !.todo = @ \ {j},
                            !.held = @ \union {TenantOf[j]}]
  <1>1. s \in Session /\ s.pc = "persist" /\ IsNext(p, j) /\ Works(s)
    BY DEF TypeOK, Persist, SessionsWork
  <1>2. TenantOf[j] \notin Jobs
    BY TenantAssumption
  <1>3. /\ t.op = s.op /\ t.pc = "flush" /\ t.task = s.task /\ t.todo = s.todo \ {j}
        /\ t.held = s.held \union {TenantOf[j]} /\ t.new = s.new
    BY <1>1 DEF Session
  <1>4. Become(p, t)
    BY DEF Persist
  <1> HIDE DEF t
  <1>5. s.task.job \in Jobs => /\ s.task.job = j /\ s.todo = {j} /\ j \in s.held
                               /\ s.op = "process"
    BY <1>1, NextJob DEF Works
  <1>6. s.task.job \in Jobs =>
          /\ Jobs \intersect (t.todo \union t.held) = {s.task.job}
          /\ t.todo = {}
    BY <1>1, <1>2, <1>3, <1>5 DEF Works
  <1>7. \A k \in Jobs \intersect t.held : t.op # "requeue" => t.new[k].status # "PENDING"
    BY <1>1, <1>2, <1>3 DEF Works
  <1>8. Works(t)
    BY <1>1, <1>3, <1>6, <1>7 DEF Works
  <1> QED BY <1>4, <1>8, BecomeWorks

LEMMA FlushWorks ==
  ASSUME TypeOK, SessionsWork, NEW p \in Procs, NEW j \in Jobs, Flush(p, j)
  PROVE  SessionsWork'
  <1> DEFINE s == proc[p]
             new == Changed(s.op, s.loaded[j])
             t == [s EXCEPT !.todo = @ \ {j}, !.new[j] = new, !.held = @ \union {j}]
  <1>1. /\ s \in Session /\ s.pc = "flush" /\ s.op \in {"retry", "fail", "requeue"}
        /\ IsNext(p, j) /\ Works(s)
    BY DEF TypeOK, Flush, SessionsWork
  <1>2. new \in Row /\ (s.op # "requeue" => new.status # "PENDING")
    <2>1. s.loaded[j] \in Row
      BY <1>1 DEF Session
    <2> QED BY <1>1, <2>1, ChangedRow, RetriedRow, MarkedFailedRow DEF Changed
  <1> HIDE DEF new
  <1>3. /\ t.op = s.op /\ t.pc = "flush" /\ t.task = s.task /\ t.todo = s.todo \ {j}
        /\ t.held = s.held \union {j}
        /\ t.new = [s.new EXCEPT ![j] = new] /\ s.new \in [Jobs -> Row]
    BY <1>1 DEF Session
  <1>4. Become(p, t)
    BY DEF Flush, new
  <1> HIDE DEF t
  <1>5. s.task.job \in Jobs => s.task.job = j /\ s.todo = {j} /\ s.held = {}
    BY <1>1, NextJob
  <1>6. s.task.job \in Jobs => Jobs \intersect (t.todo \union t.held) = {s.task.job} /\ t.todo = {}
    BY <1>3, <1>5
  <1>7. \A k \in Jobs \intersect t.held : t.op # "requeue" => t.new[k].status # "PENDING"
    BY <1>1, <1>2, <1>3 DEF Works
  <1>8. Works(t)
    BY <1>1, <1>3, <1>6, <1>7 DEF Works
  <1> QED BY <1>4, <1>8, BecomeWorks

LEMMA StepWorks == Shaped /\ SessionsWork /\ [Next]_vars => SessionsWork'
  <1> SUFFICES ASSUME Shaped, SessionsWork, [Next]_vars PROVE SessionsWork'
    OBVIOUS
  <1>0. TypeOK /\ SessionsSound /\ proc \in [Procs -> Session]
    BY DEF Shaped, TypeOK
  <1>1. Dispatching \subseteq PCs \ {"flush", "persist"}
    BY DEF Dispatching, PCs
  <1>2. ASSUME NEW p \in Procs, NEW pc \in Dispatching, NEW task, Become(p, At(pc, task))
        PROVE  SessionsWork'
    BY <1>0, <1>1, <1>2, AtWorks, BecomeWorks
  <1>3. ASSUME NEW p \in Procs, Become(p, Idle) PROVE SessionsWork'
    BY <1>0, <1>3, IdleWorks, BecomeWorks
  <1>4. ASSUME UNCHANGED proc PROVE SessionsWork'
    BY <1>4 DEF SessionsWork, Works
  <1>5. ASSUME NEW p \in Apis, ApiStep(p) PROVE SessionsWork'
    <2>1. p \in Procs /\ proc[p].task \in Task
      BY <1>0 DEF Procs, Session
    <2>2. CASE LoadUnsent(p)
      <3> DEFINE task == proc[p].task
                 S == IF task.job = AllDue THEN Due ELSE {task.job}
      <3>1. S \in SUBSET Jobs /\ (task.job \in Jobs => S = {task.job})
        BY <1>0, <2>1, SelectedJobs, JobsAssumption DEF Task
      <3>2. Become(p, Opened("retry", task, S))
        BY <2>2 DEF LoadUnsent
      <3> HIDE DEF S
      <3> QED BY <1>0, <2>1, <3>1, <3>2, OpenedWorks, BecomeWorks
    <2>3. ASSUME NEW j \in Jobs, LoadRequeue(p, j) PROVE SessionsWork'
      <3>1. JobTask(j).job = j
        BY DEF JobTask
      <3> QED BY <1>0, <2>1, <2>3, <3>1, OpenedWorks, BecomeWorks DEF LoadRequeue
    <2> QED
      BY <1>2, <1>3, <1>4, <1>5, <2>1, <2>2, <2>3
         DEF ApiStep, Enqueue, Submit, SubmitFails, Backfill, BackfillFails, Dispatching
  <1>6. ASSUME NEW p \in Workers, WorkerStep(p) PROVE SessionsWork'
    <2>1. p \in Procs /\ proc[p].task \in Task
      BY <1>0 DEF Procs, Session
    <2>2. ASSUME NEW task \in Task, Receive(p, task) PROVE SessionsWork'
      <3>1. CASE Selected(task) = {}
        BY <1>3, <2>1, <2>2, <3>1 DEF Receive
      <3>2. CASE Selected(task) # {}
        <4>1. Selected(task) \in SUBSET Jobs
          BY <1>0, SelectedJobs
        <4>2. task.job \in Jobs => Selected(task) = {task.job}
          BY <3>2, JobsAssumption DEF Selected
        <4> QED BY <1>0, <2>1, <2>2, <3>2, <4>1, <4>2, OpenedWorks, BecomeWorks DEF Receive
      <3> QED BY <3>1, <3>2
    <2>3. CASE LoadMarkFailed(p)
      <3>1. proc[p].task.job \in Jobs
        BY <1>0, <2>1, <2>3 DEF SessionsSound, Sound, LoadMarkFailed
      <3> QED BY <1>0, <2>1, <2>3, <3>1, OpenedWorks, BecomeWorks DEF LoadMarkFailed
    <2>4. CASE RecordDeadLetter(p)
      BY <1>2, <1>3, <2>1, <2>4 DEF RecordDeadLetter, Dispatching
    <2> QED BY <1>0, <1>6, <2>1, <2>2, <2>3, <2>4, ProcessWorks, PersistWorks DEF WorkerStep
  <1>7. ASSUME NEW p \in Procs, SessionStep(p) PROVE SessionsWork'
    <2>1. CASE Commit(p)
      <3>1. Become(p, Idle) \/ Become(p, At("submit", proc[p].task))
        BY <2>1 DEF Commit, Afterwards
      <3> QED BY <1>2, <1>3, <3>1 DEF Dispatching
    <2>2. CASE Raised(p)
      BY <1>0, <2>2, RaisedWorks
    <2> QED
      BY <1>0, <1>3, <1>7, <2>1, <2>2, FlushWorks
         DEF SessionStep, CommitUnconfirmed, DatabaseError, DeadlockVictim, Crash
  <1> QED BY <1>4, <1>5, <1>6, <1>7 DEF Next, AttemptDue, vars

\* A task that was dropped stays so.
LEMMA DroppedStays == [Next]_vars => dropped \subseteq dropped'
  <1>1. ASSUME NEW p, Raised(p) PROVE dropped \subseteq dropped'
    BY <1>1 DEF Raised
  <1>2. ASSUME NEW p, ApiStep(p) PROVE dropped' = dropped
    BY <1>2 DEF ApiStep, Enqueue, LoadRequeue, Submit, SubmitFails, Backfill, BackfillFails,
                LoadUnsent, history
  <1>3. ASSUME NEW p, WorkerStep(p) PROVE dropped' = dropped
    BY <1>3 DEF WorkerStep, Receive, Process, Persist, RecordDeadLetter, LoadMarkFailed, history
  <1>4. ASSUME NEW p, SessionStep(p) PROVE dropped' = dropped \/ Raised(p)
    BY <1>4 DEF SessionStep, Flush, Commit, CommitUnconfirmed, DatabaseError, DeadlockVictim,
                Crash, history
  <1>5. CASE UNCHANGED dropped
    BY <1>5
  <1> QED BY <1>1, <1>2, <1>3, <1>4, <1>5 DEF Next, AttemptDue, vars, history

\* What is in somebody's hands stays there when p's session is replaced and
\* each PENDING job is then held by p, waits in the broker, was dropped, or was
\* PENDING before and not p's.
LEMMA PendingMoves ==
  ASSUME TypeOK, PendingHeld, faults' = 0 => faults = 0, dropped \subseteq dropped',
         NEW p \in Procs, NEW s, Become(p, s),
         \A j \in Jobs : faults = 0 /\ row'[j].status = "PENDING" =>
           \/ Holds(s, j) \/ Queued(j)' \/ j \in dropped'
           \/ /\ row[j].status = "PENDING" /\ ~Holds(proc[p], j)
              /\ Queued(j) => Queued(j)'
  PROVE  PendingHeld'
  <1>1. \A q \in Procs : proc'[q] = IF q = p THEN s ELSE proc[q]
    BY DEF TypeOK, Become
  <1>2. ASSUME faults' = 0, NEW j \in Jobs, row'[j].status = "PENDING"
        PROVE  Queued(j)' \/ j \in dropped' \/ \E q \in Procs : Holds(proc'[q], j)
    <2>1. CASE Holds(s, j)
      BY <1>1, <2>1
    <2>2. CASE row[j].status = "PENDING" /\ ~Holds(proc[p], j) /\ (Queued(j) => Queued(j)')
      <3>1. Queued(j) \/ j \in dropped \/ \E q \in Procs : Holds(proc[q], j)
        BY <1>2, <2>2 DEF PendingHeld
      <3>2. ASSUME NEW q \in Procs, Holds(proc[q], j)
            PROVE  Holds(proc'[q], j)
        BY <1>1, <2>2, <3>2
      <3> QED BY <2>2, <3>1, <3>2
    <2> QED BY <1>2, <2>1, <2>2
  <1> QED BY <1>2 DEF PendingHeld, Holds

\* The broker's queue as tasks come and go.
LEMMA PublishQueued ==
  ASSUME TypeOK, NEW task \in Task, Publish(task)
  PROVE  /\ Queued(task.job)'
         /\ \A j : Queued(j) => Queued(j)'
  <1>1. /\ queue \in [Task -> Nat]
        /\ \A t \in Task : queue'[t] = IF t = task THEN queue[t] + 1 ELSE queue[t]
    BY DEF TypeOK, Publish
  <1>2. \A t \in Task : queue[t] > 0 => queue'[t] > 0
    BY <1>1
  <1>3. queue'[task] > 0
    BY <1>1
  <1> QED BY <1>2, <1>3 DEF Queued

LEMMA ReceiveQueued ==
  ASSUME TypeOK, NEW task \in Task, queue' = [queue EXCEPT ![task] = @ - 1]
  PROVE  \A j : j # task.job => (Queued(j) => Queued(j)')
  <1>1. \A t \in Task : t # task => queue'[t] = queue[t]
    BY DEF TypeOK
  <1> QED BY <1>1 DEF Queued

\* A process that works on a task, or has one to publish or give up, holds its job.
LEMMA AtHolds ==
  ASSUME NEW pc \in Dispatching, NEW task
  PROVE  Holds(At(pc, task), task.job)
  BY DEF At, Holds

LEMMA OpenedHolds ==
  ASSUME TypeOK, NEW op \in {"process", "retry", "fail"}, NEW task, NEW S,
         task.job \in Jobs, task.job \in S, row[task.job].status = "PENDING"
  PROVE  Holds(Opened(op, task, S), task.job)
  BY DEF Opened, Holds

\* A commit leaves a job PENDING that it requeued, or that it was not to move on.
LEMMA CommitPending ==
  ASSUME Shaped, SessionsWork, NEW p \in Procs, Commit(p),
         NEW j \in Jobs, row'[j].status = "PENDING"
  PROVE  \/ Holds(Afterwards(proc[p]), j)
         \/ row[j].status = "PENDING" /\ ~Holds(proc[p], j)
  <1> DEFINE s == proc[p]
  <1>1. /\ s \in Session /\ s.pc = "flush" /\ s.todo = {} /\ Works(s)
        /\ row \in [Jobs -> Row]
    BY DEF Shaped, TypeOK, Commit, SessionsWork
  <1>2. row'[j] = IF j \in s.held THEN Merged(s.op, row[j], s.loaded[j], s.new[j]) ELSE row[j]
    BY DEF Commit, Committed, Written
  <1>3. s.task.job \in Jobs => Jobs \intersect s.held = {s.task.job}
    BY <1>1 DEF Works
  <1>4. Holds(s, j) => j \in s.held
    BY <1>3 DEF Holds
  <1>5. CASE j \notin s.held
    BY <1>2, <1>4, <1>5
  <1>6. CASE j \in s.held /\ s.op = "requeue"
    <2>1. s.task.job = j
      BY <1>1, <1>3, <1>6 DEF Works
    <2>2. Afterwards(s) = At("submit", s.task)
      BY <1>6 DEF Afterwards
    <2> QED BY <2>1, <2>2, AtHolds DEF Dispatching
  <1>7. CASE j \in s.held /\ s.op # "requeue"
    <2>1. s.new[j].status # "PENDING"
      BY <1>1, <1>7 DEF Works
    <2>2. /\ row[j].status = "PENDING" /\ s.op # "process"
          /\ s.new[j].status = s.loaded[j].status
      BY <1>2, <1>7, <2>1 DEF Merged
    <2>3. ~Holds(s, j)
      BY <1>1, <2>1, <2>2 DEF Holds, Dispatching
    <2> QED BY <2>2, <2>3
  <1> QED BY <1>5, <1>6, <1>7

\* A deadlock's victim that held a job was evaluating it: the sessions of the
\* other operations on one job take one lock and are never waited for while
\* they wait.  Its task waits in the broker again, was dropped, or is given up.
LEMMA VictimPending ==
  ASSUME TypeOK, SessionsWork, NEW p \in Procs, DeadlockVictim(p), NEW j \in Jobs
  PROVE  /\ Queued(j) => Queued(j)'
         /\ Holds(proc[p], j) =>
              \/ Queued(j)' \/ j \in dropped'
              \/ proc[p].op = "process" /\ Become(p, At("deadLetter", proc[p].task))
  <1> DEFINE s == proc[p]
             again == [s.task EXCEPT !.retries = @ + 1]
  <1>1. Raised(p) /\ s \in Session /\ s.task \in Task /\ Works(s)
    BY DEF DeadlockVictim, TypeOK, Session, SessionsWork
  <1>2. \E x, y : Wants(p, x) /\ y \in s.held
    BY DEF DeadlockVictim, Deadlocked, Awaits
  <1>3. s.held # {} /\ s.todo # {} /\ s.pc \in {"flush", "persist"}
    BY <1>2 DEF Wants, IsNext
  <1>4. Holds(s, j) => s.op = "process" /\ s.task.job = j
    BY <1>1, <1>3 DEF Holds, Works, Dispatching
  <1>5. CASE UNCHANGED queue /\ s.op # "process"
    BY <1>4, <1>5 DEF Queued
  <1>6. CASE s.op = "process" /\ s.task.retries < MaxTaskRetries /\ Publish(again)
    <2>1. again \in Task /\ again.job = s.task.job
      BY <1>1, <1>6, LimitAssumption DEF Task
    <2>2. Publish(again)
      BY <1>6
    <2> HIDE DEF again
    <2> QED BY <1>4, <2>1, <2>2, PublishQueued
  <1>7. CASE UNCHANGED queue /\ dropped' = dropped \union {s.task.job}
    BY <1>4, <1>7 DEF Queued
  <1>8. CASE UNCHANGED queue /\ s.op = "process" /\ Become(p, At("deadLetter", s.task))
    BY <1>8 DEF Queued
  <1> QED BY <1>1, <1>5, <1>6, <1>7, <1>8 DEF Raised

\* Nothing is lost by the steps of the API processes,
LEMMA ApiPending ==
  ASSUME Shaped, PendingHeld, dropped \subseteq dropped', NEW p \in Apis, ApiStep(p)
  PROVE  PendingHeld'
  <1>0. /\ TypeOK /\ p \in Procs /\ proc[p].task \in Task
        /\ row \in [Jobs -> Row] /\ proc \in [Procs -> Session]
    BY DEF Shaped, TypeOK, Procs, Session
  <1>1. faults' = faults
    BY DEF ApiStep, Enqueue, LoadRequeue, Submit, SubmitFails, Backfill, BackfillFails,
           LoadUnsent, Outage, history
  <1>2. ASSUME NEW j \in Jobs, Enqueue(p, j) PROVE PendingHeld'
    <2>1. "submit" \in Dispatching /\ JobTask(j).job = j
      BY DEF Dispatching, JobTask
    <2>2. Holds(At("submit", JobTask(j)), j)
      BY <2>1, AtHolds
    <2>3. ASSUME NEW k \in Jobs, k # j
          PROVE  row'[k] = row[k] /\ ~Holds(proc[p], k) /\ (Queued(k) => Queued(k)')
      BY <1>0, <1>2, <2>3, IdleWorks DEF Enqueue, Queued
    <2> QED BY <1>0, <1>1, <1>2, <2>2, <2>3, PendingMoves DEF Enqueue
  <1>3. ASSUME NEW j \in Jobs, LoadRequeue(p, j) PROVE PendingHeld'
    <2>1. \A k \in Jobs : row'[k] = row[k] /\ ~Holds(proc[p], k) /\ (Queued(k) => Queued(k)')
      BY <1>3, IdleWorks DEF LoadRequeue, Queued
    <2> QED BY <1>0, <1>1, <1>3, <2>1, PendingMoves DEF LoadRequeue
  <1>4. CASE Submit(p)
    <2>1. \A k \in Jobs : row'[k] = row[k] /\ (Queued(k) => Queued(k)')
      BY <1>0, <1>4, PublishQueued DEF Submit
    <2>2. ASSUME NEW k \in Jobs, Holds(proc[p], k) PROVE Queued(k)'
      BY <1>0, <1>4, <2>2, PublishQueued DEF Submit, Holds
    <2> QED BY <1>0, <1>1, <1>4, <2>1, <2>2, PendingMoves DEF Submit
  <1>5. CASE SubmitFails(p)
    <2>1. \A k \in Jobs : row'[k] = row[k] /\ (Queued(k) => Queued(k)')
      BY <1>0, <1>5, PublishQueued DEF SubmitFails, Queued
    <2>2. ASSUME NEW k \in Jobs, Holds(proc[p], k) PROVE Holds(At("unsent", proc[p].task), k)
      BY <2>2, AtHolds DEF Holds, Dispatching
    <2> QED BY <1>0, <1>1, <1>5, <2>1, <2>2, PendingMoves DEF SubmitFails
  <1>6. CASE Backfill(p)
    <2>1. \A k \in Jobs : row'[k] = row[k] /\ (Queued(k) => Queued(k)')
      BY <1>0, <1>6, FirstTasks, PublishQueued DEF Backfill
    <2> QED BY <1>1, <1>6, <2>1 DEF PendingHeld, Backfill, Holds, history
  <1>7. CASE BackfillFails(p)
    <2>1. \A k \in Jobs : row'[k] = row[k] /\ ~Holds(proc[p], k) /\ (Queued(k) => Queued(k)')
      BY <1>7, IdleWorks DEF BackfillFails, Queued
    <2> QED BY <1>0, <1>1, <1>7, <2>1, PendingMoves DEF BackfillFails
  <1>8. CASE LoadUnsent(p)
    <2> DEFINE task == proc[p].task
               S == IF task.job = AllDue THEN Due ELSE {task.job}
    <2>1. Become(p, Opened("retry", task, S))
      BY <1>8 DEF LoadUnsent
    <2>2. \A k \in Jobs : row'[k] = row[k] /\ (Queued(k) => Queued(k)')
      BY <1>8 DEF LoadUnsent, Queued
    <2>3. ASSUME NEW k \in Jobs, row[k].status = "PENDING", Holds(proc[p], k)
          PROVE  Holds(Opened("retry", task, S), k)
      <3>1. task.job = k /\ k \in S
        BY <2>3, JobsAssumption DEF Holds
      <3> HIDE DEF S
      <3> QED BY <1>0, <2>3, <3>1, OpenedHolds
    <2> HIDE DEF S
    <2> QED BY <1>0, <1>1, <2>1, <2>2, <2>3, PendingMoves
  <1> QED BY <1>2, <1>3, <1>4, <1>5, <1>6, <1>7, <1>8 DEF ApiStep

\* A session that goes on with what it loaded holds what it held.
LEMMA WorkingHolds ==
  ASSUME Shaped, PendingHeld, faults' = faults, UNCHANGED <<row, queue>>, dropped \subseteq dropped',
         NEW p \in Procs, NEW s, Become(p, s), proc[p].pc \notin Dispatching,
         s.task = proc[p].task, s.op = proc[p].op, s.loaded = proc[p].loaded
  PROVE  PendingHeld'
  <1>1. \A j \in Jobs : row'[j] = row[j] /\ (Queued(j) => Queued(j)')
    BY DEF Queued
  <1>2. \A j \in Jobs : Holds(proc[p], j) => Holds(s, j)
    BY DEF Holds
  <1> QED BY <1>1, <1>2, PendingMoves DEF Shaped

\* by those of the workers,
LEMMA WorkerPending ==
  ASSUME Shaped, PendingHeld, dropped \subseteq dropped', NEW p \in Workers, WorkerStep(p)
  PROVE  PendingHeld'
  <1>0. /\ TypeOK /\ p \in Procs /\ proc[p] \in Session /\ proc[p].task \in Task
        /\ row \in [Jobs -> Row] /\ faults \in Nat
    BY DEF Shaped, TypeOK, Procs, Session
  <1>1. ASSUME NEW task \in Task, Receive(p, task) PROVE PendingHeld'
    <2>1. faults' = faults /\ \A k \in Jobs : row'[k] = row[k] /\ ~Holds(proc[p], k)
      BY <1>1, IdleWorks DEF Receive, history
    <2>2. \A k \in Jobs : k # task.job => (Queued(k) => Queued(k)')
      BY <1>0, <1>1, ReceiveQueued DEF Receive
    <2>3. CASE Selected(task) = {}
      <3>1. task.job \in Jobs => row[task.job].status # "PENDING"
        BY <2>3, JobsAssumption DEF Selected, Runnable
      <3>2. Become(p, Idle)
        BY <1>1, <2>3 DEF Receive
      <3> QED BY <1>0, <2>1, <2>2, <3>1, <3>2, PendingMoves
    <2>4. CASE Selected(task) # {}
      <3>1. Become(p, Opened("process", task, Selected(task)))
        BY <1>1, <2>4 DEF Receive
      <3>2. task.job \in Jobs => task.job \in Selected(task)
        BY <2>4, JobsAssumption DEF Selected
      <3>3. task.job \in Jobs /\ row[task.job].status = "PENDING" =>
              Holds(Opened("process", task, Selected(task)), task.job)
        BY <1>0, <3>2, OpenedHolds
      <3> QED BY <1>0, <2>1, <2>2, <3>1, <3>3, PendingMoves
    <2> QED BY <2>3, <2>4
  <1>2. ASSUME NEW j \in Jobs, NEW outcome, NEW spends, Process(p, j, outcome, spends)
        PROVE  PendingHeld'
    <2> DEFINE job == [proc[p].loaded[j] EXCEPT !.status = "PROCESSING"]
               new == IF outcome = "RETRY" THEN Retried(job) ELSE Evaluated(job, outcome)
               t == [proc[p] EXCEPT !.pc = IF spends THEN "persist" ELSE "flush",
                                    !.todo = IF spends THEN @ ELSE @ \ {j},
                                    !.new[j] = new,
                                    !.held = @ \union {j}]
    <2>1. Become(p, t)
      BY <1>2 DEF Process
    <2>2. t.task = proc[p].task /\ t.op = proc[p].op /\ t.loaded = proc[p].loaded
      BY <1>0 DEF Session
    <2> HIDE DEF t
    <2>3. proc[p].pc \notin Dispatching /\ UNCHANGED <<row, queue>> /\ faults' = faults
      BY <1>2 DEF Process, Dispatching, history
    <2> QED BY <1>0, <2>1, <2>2, <2>3, WorkingHolds
  <1>3. ASSUME NEW j \in Jobs, Persist(p, j) PROVE PendingHeld'
    <2> DEFINE t == [proc[p] EXCEPT !.pc = "flush", !.todo = @ \ {j},
                                    !.held = @ \union {TenantOf[j]}]
    <2>1. Become(p, t)
      BY <1>3 DEF Persist
    <2>2. t.task = proc[p].task /\ t.op = proc[p].op /\ t.loaded = proc[p].loaded
      BY <1>0 DEF Session
    <2> HIDE DEF t
    <2>3. proc[p].pc \notin Dispatching /\ UNCHANGED <<row, queue>> /\ faults' = faults
      BY <1>3 DEF Persist, Dispatching, history
    <2> QED BY <1>0, <2>1, <2>2, <2>3, WorkingHolds
  <1>4. CASE RecordDeadLetter(p)
    <2>1. \A k \in Jobs : row'[k] = row[k] /\ (Queued(k) => Queued(k)')
      BY <1>4 DEF RecordDeadLetter, Queued
    <2>2. faults' = 0 => faults = 0
      BY <1>0, <1>4 DEF RecordDeadLetter, Fault, history
    <2>3. CASE proc[p].task.job = AllDue
      <3>1. \A k \in Jobs : ~Holds(proc[p], k)
        BY <2>3, JobsAssumption DEF Holds
      <3>2. Become(p, Idle)
        BY <1>4, <2>3 DEF RecordDeadLetter
      <3> QED BY <1>0, <2>1, <2>2, <3>1, <3>2, PendingMoves
    <2>4. CASE proc[p].task.job # AllDue
      <3>1. \A k \in Jobs : Holds(proc[p], k) => Holds(At("markFailed", proc[p].task), k)
        BY AtHolds DEF Holds, Dispatching
      <3>2. Become(p, At("markFailed", proc[p].task))
        BY <1>4, <2>4 DEF RecordDeadLetter
      <3> QED BY <1>0, <2>1, <2>2, <3>1, <3>2, PendingMoves
    <2> QED BY <2>3, <2>4
  <1>5. CASE LoadMarkFailed(p)
    <2> DEFINE s == Opened("fail", proc[p].task, {proc[p].task.job})
    <2>1. \A k \in Jobs : row[k].status = "PENDING" /\ Holds(proc[p], k) => Holds(s, k)
      BY <1>0, OpenedHolds DEF Holds
    <2>2. Become(p, s) /\ faults' = faults
      BY <1>5 DEF LoadMarkFailed, history
    <2>3. \A k \in Jobs : row'[k] = row[k] /\ (Queued(k) => Queued(k)')
      BY <1>5 DEF LoadMarkFailed, Queued
    <2> HIDE DEF s
    <2> QED BY <1>0, <2>1, <2>2, <2>3, PendingMoves
  <1> QED BY <1>1, <1>2, <1>3, <1>4, <1>5 DEF WorkerStep

\* and by those of the sessions, unless a fault is counted.
LEMMA SessionPending ==
  ASSUME Shaped, SessionsWork, PendingHeld, dropped \subseteq dropped', NEW p \in Procs,
         SessionStep(p)
  PROVE  PendingHeld'
  <1>0. /\ TypeOK /\ proc[p] \in Session /\ row \in [Jobs -> Row] /\ faults \in Nat
    BY DEF Shaped, TypeOK
  <1>1. ASSUME NEW j \in Jobs, Flush(p, j) PROVE PendingHeld'
    <2> DEFINE t == [proc[p] EXCEPT !.todo = @ \ {j},
                                    !.new[j] = Changed(proc[p].op, proc[p].loaded[j]),
                                    !.held = @ \union {j}]
    <2>1. Become(p, t)
      BY <1>1 DEF Flush
    <2>2. t.task = proc[p].task /\ t.op = proc[p].op /\ t.loaded = proc[p].loaded
      BY <1>0 DEF Session
    <2> HIDE DEF t
    <2>3. proc[p].pc \notin Dispatching /\ UNCHANGED <<row, queue>> /\ faults' = faults
      BY <1>1 DEF Flush, Dispatching, history
    <2> QED BY <1>0, <2>1, <2>2, <2>3, WorkingHolds
  <1>2. CASE Commit(p)
    <2>1. Become(p, Afterwards(proc[p])) /\ faults' = faults
          /\ \A k \in Jobs : Queued(k) => Queued(k)'
      BY <1>2 DEF Commit, history, Queued
    <2>2. \A k \in Jobs : row'[k].status = "PENDING" =>
            \/ Holds(Afterwards(proc[p]), k)
            \/ row[k].status = "PENDING" /\ ~Holds(proc[p], k)
      BY <1>2, CommitPending
    <2> QED BY <1>0, <2>1, <2>2, PendingMoves
  <1>3. CASE DeadlockVictim(p)
    <2>1. UNCHANGED row /\ faults' = faults
      BY <1>3 DEF DeadlockVictim
    <2>2. \A k \in Jobs : Queued(k) => Queued(k)'
      BY <1>0, <1>3, VictimPending
    <2>3. CASE Become(p, Idle)
      <3>1. ASSUME NEW k \in Jobs, Holds(proc[p], k), ~Queued(k)', k \notin dropped'
            PROVE  Holds(Idle, k)
        <4>1. Become(p, At("deadLetter", proc[p].task))
          BY <1>0, <1>3, <3>1, VictimPending
        <4>2. Idle = At("deadLetter", proc[p].task)
          BY <1>0, <2>3, <4>1 DEF Become, TypeOK
        <4> QED BY <4>2 DEF Idle, At
      <3> QED BY <1>0, <2>1, <2>2, <2>3, <3>1, PendingMoves
    <2>4. CASE Become(p, At("deadLetter", proc[p].task))
      <3>1. \A k \in Jobs : Holds(proc[p], k) => Holds(At("deadLetter", proc[p].task), k)
        BY AtHolds DEF Holds, Dispatching
      <3> QED BY <1>0, <2>1, <2>2, <2>4, <3>1, PendingMoves
    <2> QED BY <1>3, <2>3, <2>4 DEF DeadlockVictim, Raised
  <1>4. CASE CommitUnconfirmed(p) \/ DatabaseError(p) \/ Crash(p)
    <2>1. faults' = faults + 1
      BY <1>4 DEF CommitUnconfirmed, DatabaseError, Crash, Fault
    <2> QED BY <1>0, <2>1 DEF PendingHeld
  <1> QED BY <1>1, <1>2, <1>3, <1>4 DEF SessionStep

LEMMA StepPending == Shaped /\ SessionsWork /\ PendingHeld /\ [Next]_vars => PendingHeld'
  <1> SUFFICES ASSUME Shaped, SessionsWork, PendingHeld, [Next]_vars PROVE PendingHeld'
    OBVIOUS
  <1>1. ASSUME NEW j \in Jobs, AttemptDue(j) PROVE PendingHeld'
    <2>1. \A k \in Jobs : row'[k].status = row[k].status
      BY <1>1 DEF Shaped, TypeOK, Row, AttemptDue
    <2> QED BY <1>1, <2>1 DEF PendingHeld, Queued, Holds, AttemptDue, history
  <1>2. CASE UNCHANGED vars
    BY <1>2 DEF vars, PendingHeld, Queued, Holds
  <1> QED BY <1>1, <1>2, DroppedStays, ApiPending, WorkerPending, SessionPending DEF Next

\* Who holds a job has it in hand.
LEMMA HeldInHand == PendingHeld => NoSilentLoss
  <1>1. ASSUME NEW j \in Jobs, NEW p \in Procs, Holds(proc[p], j) PROVE InHand(j)
    BY <1>1, IdleWorks DEF InHand, Holds
  <1> QED BY <1>1 DEF PendingHeld, NoSilentLoss, Queued, InHand

\* As long as no process crashed and no database call failed, a job that waits
\* for its first attempt is not forgotten, whatever the outages of the broker,
\* the exceptions of the judge, the deadlocks, the overlapping evaluations and
\* the requeues: a task, a dispatch or an evaluation of it is on its way, unless
\* the retry of a task that named this job was refused.
THEOREM NothingLost == Spec => []NoSilentLoss
  <1>1. Init => SessionsWork /\ PendingHeld
    BY IdleWorks, FirstRows DEF Init, SessionsWork, PendingHeld
  <1> QED BY <1>1, InitShaped, StepShaped, StepWorks, StepPending, HeldInHand, PTL DEF Spec
=============================================================================
