------------------------ MODULE EvalQueueWorkersProofs ------------------------
(***************************************************************************)
(* Theorems about EvalQueue that count its workers: how many results a job *)
(* can get from workers that overlap, and what a single worker promises.   *)
(* They hold for any number of jobs and any limits.                        *)
(***************************************************************************)
EXTENDS EvalQueueProofs, FiniteSetTheorems

-----------------------------------------------------------------------------
(* Who does what.  Workers evaluate and give up, the API processes record  *)
(* dispatch failures and requeue, and these two leave their mark in the    *)
(* counters.                                                               *)

\* What process p may be doing when the counters stand at o and r.
Role(p, s, o, r) ==
  /\ s.op # "none" => s.pc \in {"flush", "persist"}
  /\ s.op = "none" => s.todo = {} /\ s.held = {}
  /\ s.op \in {"process", "fail"} \/ s.pc \in {"deadLetter", "markFailed"} => p \in Workers
  /\ s.op \in {"retry", "requeue"} \/ s.pc = "unsent" => p \in Apis
  /\ o = 0 => s.op # "retry" /\ s.pc # "unsent"
  /\ r = 0 => s.op # "requeue"

Roles == \A p \in Procs : Role(p, proc[p], outages, requeues)

LEMMA IdleRole == \A p, o, r : Role(p, Idle, o, r)
  BY DEF Idle, At, Role

LEMMA AtRole ==
  ASSUME NEW p, NEW pc \in {"submit", "unsent", "deadLetter", "markFailed"}, NEW task,
         NEW o, NEW r,
         pc \in {"deadLetter", "markFailed"} => p \in Workers,
         pc = "unsent" => p \in Apis /\ o # 0
  PROVE  Role(p, At(pc, task), o, r)
  BY DEF At, Role

LEMMA OpenedRole ==
  ASSUME NEW p, NEW op \in Ops \ {"none"}, NEW task, NEW S, NEW o, NEW r,
         op \in {"process", "fail"} => p \in Workers,
         op \in {"retry", "requeue"} => p \in Apis,
         op = "retry" => o # 0,
         op = "requeue" => r # 0
  PROVE  Role(p, Opened(op, task, S), o, r)
  BY DEF Opened, Role, Ops

LEMMA BecomeRole ==
  ASSUME TypeOK, Roles, NEW p \in Procs, NEW s, Become(p, s),
         Role(p, s, outages', requeues'),
         outages' = 0 => outages = 0, requeues' = 0 => requeues = 0
  PROVE  Roles'
  <1>1. \A q \in Procs : proc'[q] = IF q = p THEN s ELSE proc[q]
    BY DEF TypeOK, Become
  <1>2. ASSUME NEW q \in Procs PROVE Role(q, proc'[q], outages', requeues')
    <2>1. CASE q = p
      BY <1>1, <2>1
    <2>2. CASE q # p
      <3>1. Role(q, proc[q], outages, requeues)
        BY DEF Roles
      <3>2. Role(q, proc[q], outages', requeues')
        BY <3>1 DEF Role
      <3> QED BY <1>1, <2>2, <3>2
    <2> QED BY <2>1, <2>2
  <1> QED BY <1>2 DEF Roles

\* The counters only grow.
LEMMA CountersGrow ==
  ASSUME TypeOK, [Next]_vars
  PROVE  (outages' = 0 => outages = 0) /\ (requeues' = 0 => requeues = 0)
  <1>0. outages \in Nat /\ requeues \in Nat
    BY DEF TypeOK
  <1>1. CASE \E p \in Apis : ApiStep(p)
    <2>1. ASSUME NEW p \in Apis, NEW j \in Jobs, LoadRequeue(p, j)
          PROVE  outages' = outages /\ requeues' # 0
      BY <1>0, <2>1 DEF LoadRequeue
    <2>2. Outage => outages' # 0
      BY <1>0 DEF Outage
    <2> QED BY <1>0, <1>1, <2>1, <2>2
            DEF ApiStep, Enqueue, Submit, SubmitFails, Backfill, BackfillFails,
                LoadUnsent, history
  <1>2. CASE \E p \in Workers : WorkerStep(p)
    <2>1. ASSUME NEW p, NEW task, Receive(p, task) PROVE UNCHANGED <<outages, requeues>>
      BY <2>1 DEF Receive, history
    <2>2. ASSUME NEW p, NEW j, NEW outcome, NEW spends, Process(p, j, outcome, spends)
          PROVE  UNCHANGED <<outages, requeues>>
      BY <2>2 DEF Process, history
    <2>3. ASSUME NEW p, NEW j, Persist(p, j) PROVE UNCHANGED <<outages, requeues>>
      BY <2>3 DEF Persist, history
    <2>4. ASSUME NEW p, RecordDeadLetter(p) \/ LoadMarkFailed(p)
          PROVE  UNCHANGED <<outages, requeues>>
      BY <2>4 DEF RecordDeadLetter, LoadMarkFailed, history
    <2> QED BY <1>2, <2>1, <2>2, <2>3, <2>4 DEF WorkerStep
  <1>3. CASE \E p \in Procs : SessionStep(p)
    <2>1. ASSUME NEW p, Raised(p) PROVE outages' = outages \/ outages' # 0
      BY <1>0, <2>1 DEF Raised, Outage
    <2> QED BY <1>3, <2>1 DEF SessionStep, Flush, Commit, CommitUnconfirmed, DatabaseError,
                              DeadlockVictim, Crash, history
  <1>4. CASE (\E j \in Jobs : AttemptDue(j)) \/ UNCHANGED vars
    BY <1>4 DEF AttemptDue, vars, history
  <1> QED BY <1>1, <1>2, <1>3, <1>4 DEF Next

-----------------------------------------------------------------------------
(* What a session does with one of its jobs: an evaluation, its two        *)
(* flushes, and the flush of another operation.                            *)

\* The row that session s makes of job j when it works on it.
Produced(s, j, r) ==
  \/ /\ s.op = "process"
     /\ \E outcome \in Outcomes \union {"RETRY"} :
          LET job == [s.loaded[j] EXCEPT !.status = "PROCESSING"]
          IN  /\ outcome = "RETRY" => j \in Erring
              /\ r = IF outcome = "RETRY" THEN Retried(job) ELSE Evaluated(job, outcome)
  \/ s.op \in {"retry", "fail", "requeue"} /\ r = Changed(s.op, s.loaded[j])

\* Session s becomes t when it works on j.
WorksOn(s, t, j) ==
  /\ t.op = s.op /\ t.task = s.task /\ t.loaded = s.loaded
  /\ s.op # "none" /\ s.pc \in {"flush", "persist"} /\ t.pc \in {"flush", "persist"}
  /\ j \in s.todo /\ t.todo \subseteq s.todo
  /\ t.held \subseteq s.held \union {j} \union Tenants
  /\ \A k \in Jobs \intersect t.held :
       \/ k \in s.held /\ t.new[k] = s.new[k]
       \/ k = j /\ Produced(s, j, t.new[j])

LEMMA ProcessWorksOn ==
  ASSUME Shaped, NEW p \in Procs, NEW j \in Jobs,
         NEW outcome \in Outcomes \union {"RETRY"}, NEW spends \in BOOLEAN,
         Process(p, j, outcome, spends)
  PROVE  \E t : Become(p, t) /\ WorksOn(proc[p], t, j)
  <1> DEFINE s == proc[p]
             job == [s.loaded[j] EXCEPT !.status = "PROCESSING"]
             new == IF outcome = "RETRY" THEN Retried(job) ELSE Evaluated(job, outcome)
             t == [s EXCEPT !.pc = IF spends THEN "persist" ELSE "flush",
                            !.todo = IF spends THEN @ ELSE @ \ {j},
                            !.new[j] = new,
                            !.held = @ \union {j}]
  <1>1. s \in Session /\ s.pc = "flush" /\ s.op = "process" /\ j \in s.todo
    BY DEF Shaped, TypeOK, Process, IsNext
  <1>2. Become(p, t)
    BY DEF Process
  <1>3. Produced(s, j, new)
    BY <1>1 DEF Process, Produced
  <1> HIDE DEF new
  <1>4. /\ t.op = s.op /\ t.task = s.task /\ t.loaded = s.loaded
        /\ t.pc \in {"flush", "persist"}
        /\ t.todo \subseteq s.todo /\ t.held = s.held \union {j}
        /\ t.new = [s.new EXCEPT ![j] = new] /\ s.new \in [Jobs -> Row]
    BY <1>1 DEF Session
  <1> HIDE DEF t
  <1>5. \A k \in Jobs : t.new[k] = IF k = j THEN new ELSE s.new[k]
    BY <1>4
  <1>6. WorksOn(s, t, j)
    BY <1>1, <1>3, <1>4, <1>5 DEF WorksOn
  <1> QED BY <1>2, <1>6

LEMMA PersistWorksOn ==
  ASSUME Shaped, Roles, NEW p \in Procs, NEW j \in Jobs, Persist(p, j)
  PROVE  \E t : Become(p, t) /\ WorksOn(proc[p], t, j)
  <1> DEFINE s == proc[p]
             t == [s EXCEPT !.pc = "flush", !.todo = @ \ {j},
                            !.held = @ \union {TenantOf[j]}]
  <1>1. /\ s \in Session /\ s.pc = "persist" /\ j \in s.todo /\ s.op # "none"
        /\ TenantOf[j] \in Tenants /\ TenantOf[j] \notin Jobs
    BY TenantAssumption DEF Shaped, TypeOK, Persist, IsNext, Roles, Role
  <1>2. Become(p, t)
    BY DEF Persist
  <1>3. /\ t.op = s.op /\ t.task = s.task /\ t.loaded = s.loaded /\ t.pc = "flush"
        /\ t.todo \subseteq s.todo /\ t.held = s.held \union {TenantOf[j]} /\ t.new = s.new
    BY <1>1 DEF Session
  <1> HIDE DEF t
  <1>4. WorksOn(s, t, j)
    BY <1>1, <1>3 DEF WorksOn
  <1> QED BY <1>2, <1>4

LEMMA FlushWorksOn ==
  ASSUME Shaped, NEW p \in Procs, NEW j \in Jobs, Flush(p, j)
  PROVE  \E t : Become(p, t) /\ WorksOn(proc[p], t, j)
  <1> DEFINE s == proc[p]
             new == Changed(s.op, s.loaded[j])
             t == [s EXCEPT !.todo = @ \ {j}, !.new[j] = new, !.held = @ \union {j}]
  <1>1. /\ s \in Session /\ s.pc = "flush" /\ s.op \in {"retry", "fail", "requeue"}
        /\ j \in s.todo
    BY DEF Shaped, TypeOK, Flush, IsNext
  <1>2. Become(p, t)
    BY DEF Flush
  <1>3. Produced(s, j, new)
    BY <1>1 DEF Produced
  <1> HIDE DEF new
  <1>4. /\ t.op = s.op /\ t.task = s.task /\ t.loaded = s.loaded /\ t.pc = s.pc
        /\ t.todo \subseteq s.todo /\ t.held = s.held \union {j}
        /\ t.new = [s.new EXCEPT ![j] = new] /\ s.new \in [Jobs -> Row]
    BY <1>1 DEF Session
  <1> HIDE DEF t
  <1>5. \A k \in Jobs : t.new[k] = IF k = j THEN new ELSE s.new[k]
    BY <1>4
  <1>6. WorksOn(s, t, j)
    BY <1>1, <1>3, <1>4, <1>5 DEF WorksOn
  <1> QED BY <1>2, <1>6

LEMMA WorksOnRole ==
  ASSUME NEW p, NEW s, NEW t, NEW j, NEW o, NEW r, WorksOn(s, t, j), Role(p, s, o, r)
  PROVE  Role(p, t, o, r)
  BY DEF WorksOn, Role

-----------------------------------------------------------------------------
(* Every step is one of seven moves: nothing happens to sessions and       *)
(* tables, the clock reaches a row, a session ends without a trace, a job  *)
(* is inserted, a session opens, it works on a job, or it commits.         *)

\* The session t in which p ends what it was doing.
AtRest(p, t) ==
  /\ t.op = "none" /\ t.todo = {} /\ t.held = {}
  /\ t.pc \in {"idle", "submit", "unsent", "deadLetter", "markFailed"}
  /\ t.pc = "unsent" => p \in Apis /\ outages' # 0
  /\ t.pc = "deadLetter" => p \in Workers /\ proc[p].op = "process" /\ t.task = proc[p].task
  /\ t.pc = "markFailed" => p \in Workers /\ proc[p].pc = "deadLetter" /\ t.task = proc[p].task

Stays == UNCHANGED <<row, results, proc, outages, requeues>>

Reaches ==
  /\ UNCHANGED <<results, proc, outages, requeues>>
  /\ \E j \in Jobs : row[j].next = "ahead" /\ row' = [row EXCEPT ![j].next = "reached"]

Rests(p, t) == AtRest(p, t) /\ UNCHANGED <<row, results>>

Inserts(p, t) ==
  /\ AtRest(p, t) /\ t.pc = "submit" /\ UNCHANGED results
  /\ \E j \in Jobs : row[j] = Absent /\ row' = [row EXCEPT ![j] = Fresh]

Opens(p, t) ==
  /\ UNCHANGED <<row, results>>
  /\ \E op \in Ops \ {"none"}, task \in Task, S \in SUBSET Jobs :
       /\ t = Opened(op, task, S)
       /\ \/ op = "process" /\ p \in Workers /\ \A j \in S : Runnable(row[j])
          \/ /\ op = "fail" /\ p \in Workers
             /\ proc[p].pc = "markFailed" /\ S = {proc[p].task.job}
          \/ op = "retry" /\ p \in Apis /\ outages' # 0
          \/ /\ op = "requeue" /\ p \in Apis /\ \A j \in S : row[j].status = "FAILED"
             /\ requeues < MaxRequeues /\ requeues' # 0

WorksInside(p, t) == UNCHANGED <<row, results>> /\ \E j \in Jobs : WorksOn(proc[p], t, j)

Commits(p, t) ==
  /\ proc[p].pc = "flush" /\ proc[p].todo = {} /\ Committed(proc[p])
  /\ AtRest(p, t)
  /\ t.pc = "deadLetter" => "commit" \in Faults

Moves(p, t) ==
  Become(p, t) /\ (Rests(p, t) \/ Inserts(p, t) \/ Opens(p, t) \/ WorksInside(p, t) \/ Commits(p, t))

LEMMA IdleAtRest == \A p : AtRest(p, Idle)
  BY DEF Idle, At, AtRest

LEMMA RaisedAtRest ==
  ASSUME Shaped, Roles, NEW p \in Procs, Raised(p)
  PROVE  \E t : /\ Become(p, t) /\ AtRest(p, t)
                /\ t.pc = "idle" \/ t.pc = "deadLetter"
  <1>1. CASE Become(p, Idle)
    BY <1>1, IdleAtRest DEF Idle, At
  <1>2. CASE Become(p, At("deadLetter", proc[p].task)) /\ proc[p].op = "process"
    BY <1>2 DEF At, AtRest, Roles, Role
  <1> QED BY <1>1, <1>2 DEF Raised

LEMMA ApiMoves ==
  ASSUME Shaped, Roles, NEW p \in Apis, ApiStep(p)
  PROVE  Stays \/ \E t : Moves(p, t)
  <1>0. /\ p \in Procs /\ proc[p] \in Session /\ proc[p].task \in Task /\ TypeOK
        /\ outages \in Nat /\ requeues \in Nat
    BY DEF Shaped, TypeOK, Session, Procs
  <1>1. ASSUME NEW j \in Jobs, Enqueue(p, j) PROVE \E t : Moves(p, t)
    <2>1. AtRest(p, At("submit", JobTask(j)))
      BY DEF At, AtRest
    <2> QED BY <1>1, <2>1 DEF Enqueue, Moves, Inserts, At
  <1>2. CASE Submit(p)
    BY <1>2, IdleAtRest DEF Submit, Moves, Rests
  <1>3. CASE SubmitFails(p) \/ BackfillFails(p)
    <2>1. outages' # 0
      BY <1>0, <1>3 DEF SubmitFails, BackfillFails, Outage
    <2>2. \A task : AtRest(p, At("unsent", task))
      BY <2>1 DEF At, AtRest
    <2> QED BY <1>3, <2>2 DEF SubmitFails, BackfillFails, Moves, Rests
  <1>4. CASE Backfill(p)
    BY <1>4 DEF Backfill, Stays, history
  <1>5. CASE LoadUnsent(p)
    <2> DEFINE task == proc[p].task
               S == IF task.job = AllDue THEN Due ELSE {task.job}
    <2>1. S \in SUBSET Jobs
      BY <1>0, SelectedJobs DEF Task, AllDue
    <2>2. /\ Become(p, Opened("retry", task, S)) /\ UNCHANGED <<row, results>>
          /\ proc[p].pc = "unsent" /\ outages' = outages
      BY <1>5 DEF LoadUnsent, history
    <2> HIDE DEF S
    <2>3. outages' # 0
      BY <1>0, <2>2 DEF Roles, Role
    <2>4. "retry" \in Ops \ {"none"}
      BY DEF Ops
    <2>5. Opens(p, Opened("retry", task, S))
      BY <1>0, <2>1, <2>2, <2>3, <2>4 DEF Opens
    <2> QED BY <2>2, <2>5 DEF Moves
  <1>6. ASSUME NEW j \in Jobs, LoadRequeue(p, j) PROVE \E t : Moves(p, t)
    <2>1. /\ requeues' # 0 /\ requeues < MaxRequeues
          /\ row[j].status = "FAILED" /\ UNCHANGED <<row, results>>
          /\ Become(p, Opened("requeue", JobTask(j), {j}))
      BY <1>0, <1>6 DEF LoadRequeue
    <2>2. "requeue" \in Ops \ {"none"} /\ JobTask(j) \in Task /\ {j} \in SUBSET Jobs
      BY FirstTasks DEF Ops
    <2>3. Opens(p, Opened("requeue", JobTask(j), {j}))
      BY <2>1, <2>2 DEF Opens
    <2> QED BY <2>1, <2>3 DEF Moves
  <1> QED BY <1>1, <1>2, <1>3, <1>4, <1>5, <1>6 DEF ApiStep

LEMMA WorkerMoves ==
  ASSUME Shaped, Roles, NEW p \in Workers, WorkerStep(p)
  PROVE  \E t : Moves(p, t)
  <1>0. /\ p \in Procs /\ proc[p] \in Session /\ proc[p].task \in Task /\ TypeOK
        /\ Sound(proc[p])
    BY DEF Shaped, TypeOK, Session, Procs, SessionsSound
  <1>1. ASSUME NEW task \in Task, Receive(p, task) PROVE \E t : Moves(p, t)
    <2>0. UNCHANGED <<row, results>>
      BY <1>1 DEF Receive
    <2>1. CASE Selected(task) = {}
      BY <1>1, <2>0, <2>1, IdleAtRest DEF Receive, Moves, Rests
    <2>2. CASE Selected(task) # {}
      <3>1. Selected(task) \in SUBSET Jobs
        BY <1>0, SelectedJobs
      <3>2. \A j \in Selected(task) : Runnable(row[j])
        BY DEF Selected, Due
      <3>3. Become(p, Opened("process", task, Selected(task)))
        BY <1>1, <2>2 DEF Receive
      <3>4. "process" \in Ops \ {"none"}
        BY DEF Ops
      <3>5. Opens(p, Opened("process", task, Selected(task)))
        BY <2>0, <3>1, <3>2, <3>4 DEF Opens
      <3> QED BY <3>3, <3>5 DEF Moves
    <2> QED BY <2>1, <2>2
  <1>2. ASSUME NEW j \in Jobs, NEW outcome \in Outcomes \union {"RETRY"}, NEW spends \in BOOLEAN,
               Process(p, j, outcome, spends)
        PROVE  \E t : Moves(p, t)
    <2>1. UNCHANGED <<row, results>>
      BY <1>2 DEF Process
    <2> QED BY <1>0, <1>2, <2>1, ProcessWorksOn DEF Moves, WorksInside
  <1>3. ASSUME NEW j \in Jobs, Persist(p, j) PROVE \E t : Moves(p, t)
    <2>1. UNCHANGED <<row, results>>
      BY <1>3 DEF Persist
    <2> QED BY <1>0, <1>3, <2>1, PersistWorksOn DEF Moves, WorksInside
  <1>4. CASE RecordDeadLetter(p)
    <2>1. AtRest(p, At("markFailed", proc[p].task))
      BY <1>4 DEF At, AtRest, RecordDeadLetter
    <2> QED BY <1>4, <2>1, IdleAtRest DEF RecordDeadLetter, Moves, Rests
  <1>5. CASE LoadMarkFailed(p)
    <2>1. /\ proc[p].pc = "markFailed" /\ UNCHANGED <<row, results>>
          /\ Become(p, Opened("fail", proc[p].task, {proc[p].task.job}))
      BY <1>5 DEF LoadMarkFailed
    <2>2. "fail" \in Ops \ {"none"} /\ {proc[p].task.job} \in SUBSET Jobs
      BY <1>0, <2>1 DEF Ops, Sound
    <2>3. Opens(p, Opened("fail", proc[p].task, {proc[p].task.job}))
      BY <1>0, <2>1, <2>2 DEF Opens
    <2> QED BY <2>1, <2>3 DEF Moves
  <1> QED BY <1>1, <1>2, <1>3, <1>4, <1>5 DEF WorkerStep

LEMMA SessionMoves ==
  ASSUME Shaped, Roles, NEW p \in Procs, SessionStep(p)
  PROVE  \E t : Moves(p, t)
  <1>1. ASSUME NEW j \in Jobs, Flush(p, j) PROVE \E t : Moves(p, t)
    <2>1. UNCHANGED <<row, results>>
      BY <1>1 DEF Flush
    <2> QED BY <1>1, <2>1, FlushWorksOn DEF Moves, WorksInside
  <1>2. CASE Commit(p)
    <2>1. AtRest(p, At("submit", proc[p].task)) /\ At("submit", proc[p].task).pc = "submit"
      BY DEF At, AtRest
    <2>2. AtRest(p, Idle) /\ Idle.pc = "idle"
      BY IdleAtRest DEF Idle, At
    <2> QED BY <1>2, <2>1, <2>2 DEF Commit, Afterwards, Moves, Commits
  <1>3. CASE CommitUnconfirmed(p)
    <2>1. "commit" \in Faults
      BY <1>3 DEF CommitUnconfirmed, Fault
    <2> QED BY <1>3, <2>1, RaisedAtRest DEF CommitUnconfirmed, Moves, Commits
  <1>4. CASE DatabaseError(p) \/ DeadlockVictim(p)
    BY <1>4, RaisedAtRest DEF DatabaseError, DeadlockVictim, Moves, Rests
  <1>5. CASE Crash(p)
    BY <1>5, IdleAtRest DEF Crash, Moves, Rests
  <1> QED BY <1>1, <1>2, <1>3, <1>4, <1>5 DEF SessionStep

LEMMA StepMoves ==
  ASSUME Shaped, Roles, [Next]_vars
  PROVE  Stays \/ Reaches \/ \E p \in Procs : \E t : Moves(p, t)
  <1>1. CASE \E p \in Apis : ApiStep(p)
    BY <1>1, ApiMoves DEF Procs
  <1>2. CASE \E p \in Workers : WorkerStep(p)
    BY <1>2, WorkerMoves DEF Procs
  <1>3. CASE \E p \in Procs : SessionStep(p)
    BY <1>3, SessionMoves
  <1>4. CASE \E j \in Jobs : AttemptDue(j)
    BY <1>4 DEF AttemptDue, Reaches, history
  <1>5. CASE UNCHANGED vars
    BY <1>5 DEF vars, Stays
  <1> QED BY <1>1, <1>2, <1>3, <1>4, <1>5 DEF Next

LEMMA StepRoles == Shaped /\ Roles /\ [Next]_vars => Roles'
  <1> SUFFICES ASSUME Shaped, Roles, [Next]_vars PROVE Roles'
    OBVIOUS
  <1>0. TypeOK
    BY DEF Shaped
  <1>1. (outages' = 0 => outages = 0) /\ (requeues' = 0 => requeues = 0)
    BY <1>0, CountersGrow
  <1>2. CASE Stays \/ Reaches
    BY <1>2 DEF Stays, Reaches, Roles, Role
  <1>3. ASSUME NEW p \in Procs, NEW t, Moves(p, t) PROVE Roles'
    <2>1. Role(p, proc[p], outages, requeues)
      BY DEF Roles
    <2>2. Role(p, proc[p], outages', requeues')
      BY <1>1, <2>1 DEF Role
    <2>3. ASSUME AtRest(p, t) PROVE Role(p, t, outages', requeues')
      BY <2>3 DEF AtRest, Role
    <2>4. ASSUME Opens(p, t) PROVE Role(p, t, outages', requeues')
      BY <2>4, OpenedRole DEF Opens
    <2>5. ASSUME WorksInside(p, t) PROVE Role(p, t, outages', requeues')
      <3>1. PICK j : WorksOn(proc[p], t, j)
        BY <2>5 DEF WorksInside
      <3> QED BY <2>2, <3>1, WorksOnRole
    <2>6. AtRest(p, t) \/ Opens(p, t) \/ WorksInside(p, t)
      BY <1>3 DEF Moves, Rests, Inserts, Commits
    <2>7. Role(p, t, outages', requeues')
      BY <2>3, <2>4, <2>5, <2>6
    <2> QED BY <1>0, <1>1, <1>3, <2>7, BecomeRole DEF Moves
  <1> QED BY <1>2, <1>3, StepMoves

LEMMA InitRoles == Init => Roles
  BY IdleRole DEF Init, Roles

-----------------------------------------------------------------------------
(* One result per worker.  While nothing puts a job back in line, a job    *)
(* with a result is settled, so no worker starts on it any more: its       *)
(* results and the sessions that are still to add one are as many as the   *)
(* workers at most.                                                        *)

Evaluates(s, j) == s.op = "process" /\ j \in s.todo \union s.held

\* The workers that evaluate job j when f gives each process its session.
Evaluators(f, j) == {w \in Workers : Evaluates(f[w], j)}

\* What session s writes for j settles it.
Settling(s, j) ==
  j \in s.held => /\ s.op = "process" => s.new[j].status \in Outcomes
                  /\ s.op = "fail" => s.new[j].status = "FAILED"

SettledOnce(j) ==
  /\ results[j] # <<>> => row[j].status \in Settled
  /\ \A p \in Procs : Settling(proc[p], j)
  /\ Len(results[j]) + Cardinality(Evaluators(proc, j)) <= Cardinality(Workers)

Undisturbed == outages = 0 /\ requeues = 0
OneEach == Undisturbed => \A j \in Jobs \ Erring : SettledOnce(j)

LEMMA EvaluatorsCounted ==
  /\ Cardinality(Workers) \in Nat
  /\ \A f, j : /\ IsFiniteSet(Evaluators(f, j))
               /\ Cardinality(Evaluators(f, j)) \in Nat
               /\ Cardinality(Evaluators(f, j)) <= Cardinality(Workers)
  <1>1. IsFiniteSet(Workers)
    BY ProcessAssumption
  <1>2. ASSUME NEW f, NEW j
        PROVE  /\ IsFiniteSet(Evaluators(f, j))
               /\ Cardinality(Evaluators(f, j)) <= Cardinality(Workers)
    <2>1. Evaluators(f, j) \subseteq Workers
      BY DEF Evaluators
    <2> QED BY <1>1, <2>1, FS_Subset
  <1> QED BY <1>1, <1>2, FS_CardinalityType

\* Replacing p's session by one that does not evaluate more leaves no more
\* workers on j than there were.
LEMMA FewerEvaluators ==
  ASSUME TypeOK, NEW p \in Procs, NEW t, Become(p, t), NEW j,
         Evaluates(t, j) => Evaluates(proc[p], j)
  PROVE  Cardinality(Evaluators(proc', j)) <= Cardinality(Evaluators(proc, j))
  <1>1. \A q \in Procs : proc'[q] = IF q = p THEN t ELSE proc[q]
    BY DEF TypeOK, Become
  <1>2. Evaluators(proc', j) \subseteq Evaluators(proc, j)
    BY <1>1 DEF Evaluators, Procs
  <1> QED BY <1>2, EvaluatorsCounted, FS_Subset

\* A worker that is done with j is one less.
LEMMA OneEvaluatorLess ==
  ASSUME TypeOK, NEW p \in Workers, NEW t, Become(p, t), NEW j,
         Evaluates(proc[p], j), ~Evaluates(t, j)
  PROVE  Cardinality(Evaluators(proc', j)) + 1 = Cardinality(Evaluators(proc, j))
  <1>1. \A q \in Procs : proc'[q] = IF q = p THEN t ELSE proc[q]
    BY DEF TypeOK, Become, Procs
  <1>2. p \in Evaluators(proc, j) /\ Evaluators(proc', j) = Evaluators(proc, j) \ {p}
    BY <1>1 DEF Evaluators, Procs
  <1>3. Cardinality(Evaluators(proc', j)) = Cardinality(Evaluators(proc, j)) - 1
    BY <1>2, EvaluatorsCounted, FS_RemoveElement
  <1> QED BY <1>3, EvaluatorsCounted

\* What a session makes of a job that does not err settles it.
LEMMA ProducedSettles ==
  ASSUME NEW s \in Session, NEW j \in Jobs \ Erring, NEW r, Produced(s, j, r)
  PROVE  /\ s.op = "process" => r.status \in Outcomes
         /\ s.op = "fail" => r.status = "FAILED"
  <1> DEFINE job == [s.loaded[j] EXCEPT !.status = "PROCESSING"]
  <1>1. s.loaded[j] \in Row
    BY DEF Session
  <1>2. job \in Row
    BY <1>1 DEF Row, Statuses
  <1>3. CASE s.op = "process"
    <2>1. PICK outcome \in Outcomes : r = Evaluated(job, outcome)
      BY <1>3 DEF Produced
    <2> QED BY <1>2, <1>3, <2>1, EvaluatedRow
  <1>4. CASE s.op = "fail"
    BY <1>1, <1>4, MarkedFailedRow DEF Produced, Changed
  <1> QED BY <1>3, <1>4

LEMMA WorksSettling ==
  ASSUME NEW s \in Session, NEW t, NEW k \in Jobs, WorksOn(s, t, k),
         NEW j \in Jobs \ Erring, Settling(s, j)
  PROVE  Settling(t, j) /\ (Evaluates(t, j) => Evaluates(s, j))
  <1>1. /\ t.op = s.op /\ k \in s.todo /\ t.todo \subseteq s.todo
        /\ t.held \subseteq s.held \union {k} \union Tenants
        /\ j \notin Tenants
    BY TenantAssumption DEF WorksOn
  <1>2. j \in t.held => \/ j \in s.held /\ t.new[j] = s.new[j]
                        \/ Produced(s, j, t.new[j])
    BY DEF WorksOn
  <1>3. Settling(t, j)
    BY <1>1, <1>2, ProducedSettles DEF Settling
  <1>4. Evaluates(t, j) => Evaluates(s, j)
    BY <1>1 DEF Evaluates
  <1> QED BY <1>3, <1>4

\* A commit settles the job it writes, and the worker is done with it.
LEMMA CommitSettles ==
  ASSUME Shaped, Roles, Undisturbed, NEW p \in Procs, NEW t, Become(p, t), Commits(p, t),
         NEW j \in Jobs, SettledOnce(j)
  PROVE  /\ results'[j] # <<>> => row'[j].status \in Settled
         /\ Len(results'[j]) + Cardinality(Evaluators(proc', j)) <= Cardinality(Workers)
  <1> DEFINE s == proc[p]
  <1>0. /\ TypeOK /\ s \in Session /\ results[j] \in Seq(Outcomes)
        /\ row \in [Jobs -> Row] /\ Role(p, s, outages, requeues) /\ Settling(s, j)
        /\ Len(results[j]) \in Nat
    BY DEF Shaped, TypeOK, Roles, SettledOnce
  <1>1. ~Evaluates(t, j)
    BY DEF Commits, AtRest, Evaluates
  <1>2. Cardinality(Evaluators(proc', j)) <= Cardinality(Evaluators(proc, j))
    BY <1>0, <1>1, FewerEvaluators
  <1>3. /\ results[j] # <<>> => row[j].status \in Settled
        /\ Len(results[j]) + Cardinality(Evaluators(proc, j)) <= Cardinality(Workers)
    BY DEF SettledOnce
  <1>4. CASE j \notin s.held
    <2>1. row'[j] = row[j] /\ results'[j] = results[j]
      BY <1>4, CommitTables DEF Commits
    <2> QED BY <1>0, <1>2, <1>3, <2>1, EvaluatorsCounted
  <1>5. CASE j \in s.held
    <2>1. s.op \in {"process", "fail"}
      BY <1>0, <1>5 DEF Role, Session, Ops, Undisturbed
    <2>2. /\ row'[j] = Merged(s.op, row[j], s.loaded[j], s.new[j])
          /\ results'[j] = IF s.new[j].status \in Outcomes
                             THEN Append(results[j], s.new[j].status) ELSE results[j]
      BY <1>5 DEF Commits, Committed, Written, Recorded
    <2>3. /\ row'[j].status \in {s.new[j].status, row[j].status}
          /\ s.op = "process" => row'[j].status = s.new[j].status
      BY <1>0, <2>2, MergedRow DEF Session
    <2>4. CASE s.op = "process"
      <3>1. s.new[j].status \in Outcomes
        BY <1>0, <1>5, <2>4 DEF Settling
      <3>2. row'[j].status \in Settled
        BY <2>3, <2>4, <3>1 DEF Settled
      <3>3. Len(results'[j]) = Len(results[j]) + 1
        BY <1>0, <2>2, <3>1, AppendProperties
      <3>4. p \in Workers /\ Evaluates(s, j)
        BY <1>0, <1>5, <2>4 DEF Role, Evaluates
      <3>5. Cardinality(Evaluators(proc', j)) + 1 = Cardinality(Evaluators(proc, j))
        BY <1>0, <1>1, <3>4, OneEvaluatorLess
      <3> QED BY <1>0, <1>3, <3>2, <3>3, <3>5, EvaluatorsCounted
    <2>5. CASE s.op = "fail"
      <3>1. s.new[j].status = "FAILED"
        BY <1>0, <1>5, <2>5 DEF Settling
      <3>2. results'[j] = results[j]
        BY <2>2, <3>1 DEF Outcomes
      <3>3. results'[j] # <<>> => row'[j].status \in Settled
        BY <1>3, <2>3, <3>1, <3>2 DEF Settled
      <3> QED BY <1>0, <1>2, <1>3, <3>2, <3>3, EvaluatorsCounted
    <2> QED BY <2>1, <2>4, <2>5
  <1> QED BY <1>4, <1>5

LEMMA StepSettled ==
  ASSUME Shaped, Roles, Undisturbed, [Next]_vars, NEW j \in Jobs \ Erring, SettledOnce(j)
  PROVE  SettledOnce(j)'
  <1>0. /\ TypeOK /\ proc \in [Procs -> Session] /\ row \in [Jobs -> Row]
        /\ results[j] \in Seq(Outcomes) /\ Len(results[j]) \in Nat
    BY DEF Shaped, TypeOK
  <1>1. CASE Stays
    BY <1>1 DEF Stays, SettledOnce
  <1>2. CASE Reaches
    <2>1. row'[j].status = row[j].status
      BY <1>0, <1>2 DEF Reaches, Row
    <2> QED BY <1>2, <2>1 DEF Reaches, SettledOnce
  <1>3. ASSUME NEW p \in Procs, NEW t, Moves(p, t)
        PROVE  SettledOnce(j)'
    <2>0. Become(p, t)
      BY <1>3 DEF Moves
    <2>1. \A q \in Procs : proc'[q] = IF q = p THEN t ELSE proc[q]
      BY <1>0, <2>0 DEF Become
    <2>2. \A q \in Procs : Settling(proc[q], j)
      BY DEF SettledOnce
    <2>3. /\ results[j] # <<>> => row[j].status \in Settled
          /\ Len(results[j]) + Cardinality(Evaluators(proc, j)) <= Cardinality(Workers)
      BY DEF SettledOnce
    <2>4. ASSUME Settling(t, j),
                 results'[j] # <<>> => row'[j].status \in Settled,
                 Len(results'[j]) + Cardinality(Evaluators(proc', j)) <= Cardinality(Workers)
          PROVE  SettledOnce(j)'
      BY <2>1, <2>2, <2>4 DEF SettledOnce
    <2>5. AtRest(p, t) => Settling(t, j) /\ ~Evaluates(t, j)
      BY DEF AtRest, Settling, Evaluates
    <2>6. ASSUME Settling(t, j), Evaluates(t, j) => Evaluates(proc[p], j),
                 results'[j] = results[j],
                 results[j] # <<>> => row'[j].status \in Settled
          PROVE  SettledOnce(j)'
      <3>1. Cardinality(Evaluators(proc', j)) <= Cardinality(Evaluators(proc, j))
        BY <1>0, <2>0, <2>6, FewerEvaluators
      <3>2. Len(results'[j]) + Cardinality(Evaluators(proc', j)) <= Cardinality(Workers)
        BY <1>0, <2>3, <2>6, <3>1, EvaluatorsCounted
      <3> QED BY <2>4, <2>6, <3>2
    <2>7. CASE Rests(p, t)
      BY <2>3, <2>5, <2>6, <2>7 DEF Rests
    <2>8. CASE Inserts(p, t)
      <3>1. PICK k \in Jobs : row[k] = Absent /\ row' = [row EXCEPT ![k] = Fresh]
        BY <2>8 DEF Inserts
      <3>2. results[j] # <<>> => j # k
        BY <2>3, <3>1, FirstRows DEF Settled, Outcomes
      <3>3. results[j] # <<>> => row'[j].status \in Settled
        BY <1>0, <2>3, <3>1, <3>2
      <3> QED BY <2>5, <2>6, <2>8, <3>3 DEF Inserts
    <2>9. CASE Opens(p, t)
      <3>1. PICK op \in Ops \ {"none"}, task \in Task, S \in SUBSET Jobs :
              /\ t = Opened(op, task, S)
              /\ op = "process" => \A k \in S : Runnable(row[k])
        BY <2>9 DEF Opens
      <3>2. t.op = op /\ t.todo = S /\ t.held = {}
        BY <3>1 DEF Opened
      <3>3. Settling(t, j)
        BY <3>2 DEF Settling
      <3>4. row' = row /\ results' = results
        BY <2>9 DEF Opens
      <3>5. CASE Evaluates(t, j)
        <4>1. Runnable(row[j])
          BY <3>1, <3>2, <3>5 DEF Evaluates
        <4>2. results[j] = <<>>
          BY <2>3, <4>1 DEF Runnable, Settled, Outcomes
        <4>3. Len(results'[j]) = 0
          BY <3>4, <4>2
        <4> QED BY <2>4, <3>3, <3>4, <4>2, <4>3, EvaluatorsCounted
      <3>6. CASE ~Evaluates(t, j)
        BY <2>3, <2>6, <3>3, <3>4, <3>6
      <3> QED BY <3>5, <3>6
    <2>10. CASE WorksInside(p, t)
      <3>1. PICK k \in Jobs : WorksOn(proc[p], t, k)
        BY <2>10 DEF WorksInside
      <3>2. Settling(t, j) /\ (Evaluates(t, j) => Evaluates(proc[p], j))
        BY <1>0, <2>2, <3>1, WorksSettling
      <3> QED BY <2>3, <2>6, <2>10, <3>2 DEF WorksInside
    <2>11. CASE Commits(p, t)
      <3>1. Settling(t, j)
        BY <2>5, <2>11 DEF Commits
      <3> QED BY <2>0, <2>4, <2>11, <3>1, CommitSettles
    <2> QED BY <1>3, <2>7, <2>8, <2>9, <2>10, <2>11 DEF Moves
  <1> QED BY <1>1, <1>2, <1>3, StepMoves

\* A worker that evaluates a job can add one result to it, and no worker starts
\* on a job that has one: however many of them overlap, whatever is retried
\* after a crash, a database error or an unconfirmed commit, a job of a judge
\* that answers gets no more results than there are workers.
THEOREM OneResultEach == Spec => []OneResultPerWorker
  <1> DEFINE Inv == Shaped /\ Roles /\ OneEach
  <1>1. Init => Inv
    <2> SUFFICES ASSUME Init, NEW j \in Jobs \ Erring PROVE SettledOnce(j)
      BY InitShaped, InitRoles DEF OneEach
    <2>1. \A p \in Procs : proc[p] = Idle
      BY DEF Init
    <2>2. \A p \in Procs : Settling(proc[p], j) /\ ~Evaluates(proc[p], j)
      BY <2>1 DEF Idle, At, Settling, Evaluates
    <2>3. Evaluators(proc, j) = {}
      BY <2>2 DEF Evaluators, Procs
    <2>4. results[j] = <<>> /\ Len(results[j]) = 0
      BY DEF Init
    <2> QED BY <2>2, <2>4, EvaluatorsCounted DEF SettledOnce
  <1>2. Inv /\ [Next]_vars => Inv'
    <2> SUFFICES ASSUME Inv, [Next]_vars PROVE OneEach'
      BY StepShaped, StepRoles
    <2>1. Undisturbed' => Undisturbed
      BY CountersGrow DEF Shaped, Undisturbed
    <2> QED BY <2>1, StepSettled DEF OneEach
  <1>3. Inv => OneResultPerWorker
    <2> SUFFICES ASSUME Inv, Undisturbed, NEW j \in Jobs \ Erring
                 PROVE  Len(results[j]) <= Cardinality(Workers)
      BY DEF OneResultPerWorker, Undisturbed
    <2>1. Len(results[j]) \in Nat
      BY DEF Shaped, TypeOK
    <2>2. SettledOnce(j)
      BY DEF OneEach
    <2> QED BY <2>1, <2>2, EvaluatorsCounted DEF SettledOnce
  <1> QED BY <1>1, <1>2, <1>3, PTL DEF Spec

-----------------------------------------------------------------------------
(* One session per job.  With one worker process, one requeue at a time, a *)
(* broker that answers and commits that are confirmed, a job is in the     *)
(* hands of one session at a time, which sees the row as it is: a worker   *)
(* only has jobs that are runnable, a requeue only jobs that failed.  No   *)
(* commit then overwrites what another session committed.                  *)

OneAtATime ==
  /\ \A v, w \in Workers : v = w
  /\ (\A a, b \in Apis : a = b) \/ MaxRequeues <= 1
  /\ Faults \intersect {"broker", "commit"} = {}

\* What RowConsistent says of one row.
Consistent(r) ==
  /\ r.status = "RETRY" <=> r.next # "null"
  /\ r.status = "FAILED" <=> r.attempt >= MaxAttempts
  /\ r.status = "PENDING" => r.attempt = 0

Once(j) ==
  /\ Consistent(row[j])
  /\ Len(results[j]) <= 1
  /\ results[j] # <<>> => row[j].status \in Outcomes

\* Session s has the row r of a job it works on as it is in the table, and may
\* work on it.
UpToDate(s, r, j) ==
  /\ s.loaded[j] = r
  /\ \/ s.op \in {"process", "fail"} /\ Runnable(r)
     \/ s.op = "requeue" /\ r.status = "FAILED"

GivesUp(s) == s.pc \in {"deadLetter", "markFailed"}

\* All session s works on, or is about to give up, is as it knows it in table f.
InStep(s, f) ==
  /\ \A j \in Jobs \intersect (s.todo \union s.held) : UpToDate(s, f[j], j)
  /\ \A j \in Jobs \intersect s.held : Consistent(s.new[j])
  /\ GivesUp(s) /\ s.task.job \in Jobs => Runnable(f[s.task.job])

OneRequeue ==
  \A p, q \in Procs : proc[p].op = "requeue" /\ proc[q].op = "requeue" => p = q

\* The inductive invariant.
InTurn ==
  /\ OneAtATime /\ Shaped /\ Roles /\ SessionsWork
  /\ outages = 0 /\ OneRequeue
  /\ \A p \in Procs : InStep(proc[p], row)
  /\ \A j \in Jobs : Once(j)

LEMMA StepUnhindered ==
  ASSUME OneAtATime, TypeOK, outages = 0, [Next]_vars
  PROVE  outages' = 0
  <1>0. ~Outage /\ ~Fault("commit")
    BY DEF OneAtATime, Outage, Fault
  <1>1. CASE \E p \in Apis : ApiStep(p)
    BY <1>0, <1>1 DEF ApiStep, Enqueue, LoadRequeue, Submit, SubmitFails, Backfill,
                      BackfillFails, LoadUnsent, history
  <1>2. CASE \E p \in Workers : WorkerStep(p)
    <2>1. ASSUME NEW p, NEW task, Receive(p, task) PROVE outages' = outages
      BY <2>1 DEF Receive, history
    <2>2. ASSUME NEW p, NEW j, NEW outcome, NEW spends, Process(p, j, outcome, spends)
          PROVE  outages' = outages
      BY <2>2 DEF Process, history
    <2>3. ASSUME NEW p, NEW j, Persist(p, j) PROVE outages' = outages
      BY <2>3 DEF Persist, history
    <2>4. ASSUME NEW p, RecordDeadLetter(p) \/ LoadMarkFailed(p) PROVE outages' = outages
      BY <2>4 DEF RecordDeadLetter, LoadMarkFailed, history
    <2> QED BY <1>2, <2>1, <2>2, <2>3, <2>4 DEF WorkerStep
  <1>3. CASE \E p \in Procs : SessionStep(p)
    <2>1. ASSUME NEW p, Raised(p) PROVE outages' = outages
      BY <1>0, <2>1 DEF Raised
    <2> QED BY <1>3, <2>1 DEF SessionStep, Flush, Commit, CommitUnconfirmed, DatabaseError,
                              DeadlockVictim, Crash, history
  <1>4. CASE (\E j \in Jobs : AttemptDue(j)) \/ UNCHANGED vars
    BY <1>4 DEF AttemptDue, vars, history
  <1> QED BY <1>1, <1>2, <1>3, <1>4 DEF Next

\* Only a row that is neither runnable nor FAILED changes under the sessions.
LEMMA UpToDateRow ==
  ASSUME NEW s, NEW r, NEW j, UpToDate(s, r, j), Consistent(r)
  PROVE  r # Absent /\ r.next # "ahead"
  BY DEF UpToDate, Consistent, Runnable, Absent

\* Two processes never work on one job, nor does one that another gives up.
LEMMA Exclusive ==
  ASSUME InTurn, NEW p \in Procs, NEW q \in Procs, p # q,
         NEW j \in Jobs, j \in proc[p].todo \union proc[p].held
  PROVE  /\ j \notin proc[q].todo \union proc[q].held
         /\ ~(GivesUp(proc[q]) /\ proc[q].task.job = j)
  <1>1. /\ Role(p, proc[p], outages, requeues) /\ Role(q, proc[q], outages, requeues)
        /\ InStep(proc[p], row) /\ InStep(proc[q], row)
    BY DEF InTurn, Roles
  <1>2. ~(p \in Workers /\ q \in Workers) /\ ~(proc[p].op = "requeue" /\ proc[q].op = "requeue")
    BY DEF InTurn, OneAtATime, OneRequeue
  <1>3. UpToDate(proc[p], row[j], j)
    BY <1>1 DEF InStep
  <1>4. ~(Runnable(row[j]) /\ row[j].status = "FAILED")
    BY DEF Runnable
  <1>5. ASSUME j \in proc[q].todo \union proc[q].held PROVE FALSE
    <2>1. UpToDate(proc[q], row[j], j)
      BY <1>1, <1>5 DEF InStep
    <2> QED BY <1>1, <1>2, <1>3, <1>4, <2>1 DEF UpToDate, Role
  <1>6. ASSUME GivesUp(proc[q]), proc[q].task.job = j PROVE FALSE
    <2>1. Runnable(row[j]) /\ q \in Workers
      BY <1>1, <1>6 DEF InStep, GivesUp, Role
    <2> QED BY <1>1, <1>2, <1>3, <1>4, <2>1 DEF UpToDate, Role
  <1> QED BY <1>5, <1>6

\* The rows that an evaluation, mark_job_failed and requeue_job make of a row
\* whose columns agree have columns that agree.
LEMMA ProducedConsistent ==
  ASSUME NEW s \in Session, NEW j \in Jobs, NEW r \in Row, UpToDate(s, r, j), Consistent(r),
         NEW n, Produced(s, j, n)
  PROVE  Consistent(n)
  <1> DEFINE job == [r EXCEPT !.status = "PROCESSING"]
  <1>0. /\ s.loaded[j] = r /\ r.attempt \in Nat
        /\ MaxAttempts \in Nat \ {0}
    BY LimitAssumption DEF UpToDate, Row
  <1>1. CASE s.op = "process"
    <2>1. ~(r.attempt >= MaxAttempts)
      BY <1>1 DEF UpToDate, Runnable, Consistent
    <2>2. job.attempt = r.attempt /\ job \in Row
      BY DEF Row, Statuses
    <2>3. CASE n = Retried(job)
      BY <1>0, <2>2, <2>3 DEF Retried, Consistent
    <2>4. ASSUME NEW outcome \in Outcomes, n = Evaluated(job, outcome) PROVE Consistent(n)
      <3>1. n.status = outcome /\ n.next = "null" /\ n.attempt = r.attempt
        BY <2>2, <2>4 DEF Evaluated, Row
      <3> QED BY <2>1, <3>1 DEF Consistent, Outcomes
    <2> QED BY <1>0, <1>1, <2>3, <2>4 DEF Produced
  <1>2. CASE s.op = "fail"
    BY <1>0, <1>2 DEF Produced, Changed, MarkedFailed, Consistent
  <1>3. CASE s.op = "requeue"
    BY <1>0, <1>3 DEF Produced, Changed, Fresh, Consistent
  <1> QED BY <1>1, <1>2, <1>3 DEF UpToDate

\* A commit of a row nobody else has changed writes exactly the session's row.
LEMMA MergedUnchanged ==
  ASSUME NEW op, NEW r \in Row, NEW new \in Row
  PROVE  Merged(op, r, r, new) = new
  BY DEF Merged, Row

\* A session stays in step when the rows it has to do with stay as they are.
LEMMA SameRows ==
  ASSUME NEW s, NEW f, NEW g, InStep(s, f),
         \A j \in Jobs : \/ j \in s.todo \union s.held
                         \/ GivesUp(s) /\ s.task.job = j
                         => g[j] = f[j]
  PROVE  InStep(s, g)
  BY DEF InStep

\* The clock and an insertion change no row a session has to do with.
LEMMA RowsApart ==
  ASSUME NEW s, NEW f, InStep(s, f), NEW k \in Jobs, Consistent(f[k]),
         f[k] = Absent \/ f[k].next = "ahead"
  PROVE  k \notin s.todo \union s.held /\ ~(GivesUp(s) /\ s.task.job = k)
  <1>1. k \notin s.todo \union s.held
    BY UpToDateRow DEF InStep
  <1>2. ~Runnable(f[k])
    BY DEF Consistent, Runnable, Absent
  <1> QED BY <1>1, <1>2 DEF InStep

LEMMA RestsInStep ==
  ASSUME InTurn, NEW p \in Procs, NEW t, AtRest(p, t)
  PROVE  InStep(t, row)
  <1>0. /\ proc[p].task \in Task /\ Works(proc[p]) /\ InStep(proc[p], row)
        /\ Role(p, proc[p], outages, requeues)
    BY DEF InTurn, Shaped, TypeOK, Session, SessionsWork, Roles
  <1>1. CASE ~GivesUp(t)
    BY <1>1 DEF AtRest, InStep
  <1>2. CASE t.pc = "markFailed"
    BY <1>0, <1>2 DEF AtRest, InStep, GivesUp
  <1>3. CASE t.pc = "deadLetter"
    <2>1. t.task = proc[p].task /\ proc[p].op = "process" /\ t.todo = {} /\ t.held = {}
      BY <1>3 DEF AtRest
    <2>2. t.task.job \in Jobs => t.task.job \in proc[p].todo \union proc[p].held
      BY <1>0, <2>1 DEF Role, Works
    <2>3. t.task.job \in Jobs => Runnable(row[t.task.job])
      BY <1>0, <2>1, <2>2 DEF InStep, UpToDate
    <2> QED BY <2>1, <2>3 DEF InStep
  <1> QED BY <1>1, <1>2, <1>3 DEF GivesUp

LEMMA OpensInStep ==
  ASSUME InTurn, NEW p \in Procs, NEW t, Opens(p, t), outages' = 0
  PROVE  InStep(t, row)
  <1>1. PICK op \in Ops \ {"none"}, task \in Task, S \in SUBSET Jobs :
          /\ t = Opened(op, task, S)
          /\ \/ op = "process" /\ \A j \in S : Runnable(row[j])
             \/ op = "fail" /\ proc[p].pc = "markFailed" /\ S = {proc[p].task.job}
             \/ op = "requeue" /\ \A j \in S : row[j].status = "FAILED"
    BY DEF Opens
  <1>2. InStep(proc[p], row)
    BY DEF InTurn
  <1>3. op = "fail" => \A j \in S : Runnable(row[j])
    BY <1>1, <1>2 DEF InStep, GivesUp
  <1>4. /\ t.op = op /\ t.todo = S /\ t.held = {} /\ t.pc = "flush"
        /\ \A j \in S : t.loaded[j] = row[j]
    BY <1>1 DEF Opened
  <1>5. \A j \in S : UpToDate(t, row[j], j)
    BY <1>1, <1>3, <1>4 DEF UpToDate
  <1> QED BY <1>4, <1>5 DEF InStep, GivesUp

LEMMA WorksInStep ==
  ASSUME InTurn, NEW p \in Procs, NEW t, NEW k \in Jobs, WorksOn(proc[p], t, k)
  PROVE  InStep(t, row)
  <1> DEFINE s == proc[p]
  <1>0. s \in Session /\ row \in [Jobs -> Row] /\ InStep(s, row)
        /\ \A j \in Jobs : Consistent(row[j])
    BY DEF InTurn, Shaped, TypeOK, Once
  <1>1. /\ t.op = s.op /\ t.loaded = s.loaded /\ k \in s.todo /\ t.todo \subseteq s.todo
        /\ t.held \subseteq s.held \union {k} \union Tenants /\ ~GivesUp(t)
    BY DEF WorksOn, GivesUp
  <1>2. Jobs \intersect (t.todo \union t.held) \subseteq s.todo \union s.held
    BY <1>1, TenantAssumption
  <1>3. \A j \in Jobs \intersect (s.todo \union s.held) : UpToDate(s, row[j], j)
    BY <1>0 DEF InStep
  <1>4. \A j \in Jobs \intersect (t.todo \union t.held) : UpToDate(t, row[j], j)
    BY <1>1, <1>2, <1>3 DEF UpToDate
  <1>5. ASSUME NEW j \in Jobs \intersect t.held PROVE Consistent(t.new[j])
    <2>1. \/ j \in s.held /\ t.new[j] = s.new[j]
          \/ Produced(s, j, t.new[j])
      BY DEF WorksOn
    <2>2. UpToDate(s, row[j], j)
      BY <1>2, <1>3
    <2> QED BY <1>0, <2>1, <2>2, ProducedConsistent DEF InStep
  <1> QED BY <1>1, <1>4, <1>5 DEF InStep

\* What a commit leaves of a job that it writes.
LEMMA CommitOnce ==
  ASSUME InTurn, NEW p \in Procs, Committed(proc[p]), NEW j \in Jobs
  PROVE  Once(j)'
  <1> DEFINE s == proc[p]
  <1>0. /\ s \in Session /\ Sound(s) /\ InStep(s, row) /\ Once(j) /\ Shaped
        /\ row \in [Jobs -> Row] /\ results[j] \in Seq(Outcomes)
    BY DEF InTurn, Shaped, TypeOK, SessionsSound
  <1>1. CASE j \notin s.held
    BY <1>0, <1>1, CommitTables DEF Once
  <1>2. CASE j \in s.held
    <2>1. UpToDate(s, row[j], j) /\ Consistent(s.new[j])
      BY <1>0, <1>2 DEF InStep
    <2>2. row'[j] = Merged(s.op, row[j], row[j], s.new[j])
      BY <1>2, <2>1 DEF Committed, Written, UpToDate
    <2>3. row'[j] = s.new[j]
      BY <1>0, <2>2, MergedUnchanged DEF Session
    <2>4. results[j] = <<>>
      BY <1>0, <2>1 DEF UpToDate, Runnable, Once, Outcomes
    <2>5. results'[j] = IF s.new[j].status \in Outcomes
                          THEN Append(results[j], s.new[j].status) ELSE results[j]
      BY <1>2 DEF Committed, Written, Recorded
    <2>6. Len(results'[j]) <= 1
      <3>1. Len(results[j]) = 0
        BY <2>4
      <3> QED BY <1>0, <2>5, <3>1, AppendProperties
    <2>7. results'[j] # <<>> => row'[j].status \in Outcomes
      BY <2>3, <2>4, <2>5
    <2> QED BY <2>1, <2>3, <2>6, <2>7 DEF Once
  <1> QED BY <1>1, <1>2

LEMMA StepOnce ==
  ASSUME InTurn, [Next]_vars, NEW j \in Jobs
  PROVE  Once(j)'
  <1>0. Once(j) /\ row \in [Jobs -> Row] /\ Shaped
    BY DEF InTurn, Shaped, TypeOK
  <1>1. CASE UNCHANGED <<row, results>>
    BY <1>0, <1>1 DEF Once
  <1>2. ASSUME NEW k \in Jobs, row[k] = Absent, results' = results,
               row' = [row EXCEPT ![k] = Fresh]
        PROVE  Once(j)'
    <2>1. CASE j = k
      <3>1. row'[j] = Fresh /\ results'[j] = results[j]
        BY <1>0, <1>2, <2>1
      <3>2. Consistent(Fresh) /\ Absent.status \notin Outcomes
        BY LimitAssumption DEF Consistent, Fresh, Absent, Outcomes
      <3> QED BY <1>0, <1>2, <2>1, <3>1, <3>2 DEF Once
    <2>2. CASE j # k
      BY <1>0, <1>2, <2>2 DEF Once
    <2> QED BY <2>1, <2>2
  <1>3. ASSUME NEW k \in Jobs, row[k].next = "ahead", results' = results,
               row' = [row EXCEPT ![k].next = "reached"]
        PROVE  Once(j)'
    <2>1. CASE j = k
      <3>1. /\ row'[j].status = row[j].status /\ row'[j].attempt = row[j].attempt
            /\ row'[j].next = "reached" /\ results'[j] = results[j]
        BY <1>0, <1>3, <2>1 DEF Row
      <3>2. Consistent(row'[j])
        BY <1>0, <1>3, <2>1, <3>1 DEF Once, Consistent
      <3> QED BY <1>0, <3>1, <3>2 DEF Once
    <2>2. CASE j # k
      BY <1>0, <1>3, <2>2 DEF Once
    <2> QED BY <2>1, <2>2
  <1>4. ASSUME NEW p \in Procs, Committed(proc[p]) PROVE Once(j)'
    BY <1>4, CommitOnce
  <1> QED BY <1>1, <1>2, <1>3, <1>4, TableSteps

LEMMA StepInStep ==
  ASSUME InTurn, [Next]_vars, NEW q \in Procs
  PROVE  InStep(proc'[q], row')
  <1>0. /\ TypeOK /\ row \in [Jobs -> Row] /\ Shaped /\ Roles /\ OneAtATime
        /\ \A k \in Jobs : Consistent(row[k])
        /\ \A p \in Procs : InStep(proc[p], row)
    BY DEF InTurn, Shaped, TypeOK, Once
  <1>1. outages' = 0
    BY <1>0, StepUnhindered DEF InTurn
  <1>2. CASE Stays
    BY <1>0, <1>2 DEF Stays
  <1>3. ASSUME NEW s, InStep(s, row), NEW k \in Jobs, row[k] = Absent \/ row[k].next = "ahead",
               \A j \in Jobs : j # k => row'[j] = row[j]
        PROVE  InStep(s, row')
    BY <1>0, <1>3, RowsApart, SameRows
  <1>4. CASE Reaches
    <2>1. PICK k \in Jobs : row[k].next = "ahead" /\ row' = [row EXCEPT ![k].next = "reached"]
      BY <1>4 DEF Reaches
    <2>2. \A j \in Jobs : j # k => row'[j] = row[j]
      BY <1>0, <2>1
    <2> QED BY <1>0, <1>3, <1>4, <2>1, <2>2 DEF Reaches
  <1>5. ASSUME NEW p \in Procs, NEW t, Moves(p, t)
        PROVE  InStep(proc'[q], row')
    <2>1. proc'[q] = IF q = p THEN t ELSE proc[q]
      BY <1>0, <1>5 DEF Moves, Become, TypeOK
    <2>2. ASSUME row' = row, InStep(t, row) PROVE InStep(proc'[q], row')
      BY <1>0, <2>1, <2>2
    <2>3. CASE Rests(p, t)
      BY <2>2, <2>3, RestsInStep DEF Rests
    <2>4. CASE Inserts(p, t)
      <3>1. PICK k \in Jobs : row[k] = Absent /\ row' = [row EXCEPT ![k] = Fresh]
        BY <2>4 DEF Inserts
      <3>2. \A j \in Jobs : j # k => row'[j] = row[j]
        BY <1>0, <3>1
      <3>3. InStep(proc'[q], row)
        BY <1>0, <2>1, <2>4, RestsInStep DEF Inserts
      <3> QED BY <1>3, <3>1, <3>2, <3>3
    <2>5. CASE Opens(p, t)
      BY <1>1, <2>2, <2>5, OpensInStep DEF Opens
    <2>6. CASE WorksInside(p, t)
      BY <2>2, <2>6, WorksInStep DEF WorksInside
    <2>7. CASE Commits(p, t)
      <3>1. CASE q = p
        <4>1. t.todo = {} /\ t.held = {} /\ ~GivesUp(t)
          BY <1>0, <2>7 DEF Commits, AtRest, GivesUp, OneAtATime
        <4> QED BY <2>1, <3>1, <4>1 DEF InStep
      <3>2. CASE q # p
        <4>1. \A j \in Jobs : j \notin proc[p].held => row'[j] = row[j]
          BY <1>0, <2>7, CommitTables DEF Commits
        <4>2. \A j \in Jobs : \/ j \in proc[q].todo \union proc[q].held
                              \/ GivesUp(proc[q]) /\ proc[q].task.job = j
                              => row'[j] = row[j]
          BY <3>2, <4>1, Exclusive
        <4> QED BY <1>0, <2>1, <3>2, <4>2, SameRows
      <3> QED BY <3>1, <3>2
    <2> QED BY <1>5, <2>3, <2>4, <2>5, <2>6, <2>7 DEF Moves
  <1> QED BY <1>0, <1>2, <1>4, <1>5, StepMoves

LEMMA StepOneRequeue ==
  ASSUME InTurn, [Next]_vars
  PROVE  OneRequeue'
  <1>0. TypeOK /\ Shaped /\ Roles /\ OneAtATime /\ OneRequeue /\ requeues \in Nat
    BY DEF InTurn, Shaped, TypeOK
  <1>1. Roles'
    BY <1>0, StepRoles
  <1>2. CASE \A a, b \in Apis : a = b
    BY <1>1, <1>2 DEF Roles, Role, OneRequeue
  <1>3. CASE MaxRequeues <= 1
    <2>1. CASE Stays \/ Reaches
      BY <1>0, <2>1 DEF Stays, Reaches, OneRequeue
    <2>2. ASSUME NEW p \in Procs, NEW t, Moves(p, t) PROVE OneRequeue'
      <3>1. \A q \in Procs : proc'[q] = IF q = p THEN t ELSE proc[q]
        BY <1>0, <2>2 DEF Moves, Become, TypeOK
      <3>2. CASE t.op = "requeue" => proc[p].op = "requeue"
        BY <1>0, <3>1, <3>2 DEF OneRequeue
      <3>3. CASE t.op = "requeue" /\ proc[p].op # "requeue"
        <4>1. Opens(p, t)
          BY <2>2, <3>3 DEF Moves, Rests, Inserts, WorksInside, WorksOn, Commits, AtRest
        <4>2. requeues < MaxRequeues
          BY <3>3, <4>1 DEF Opens, Opened
        <4>3. requeues = 0
          BY <1>0, <1>3, <4>2, BoundAssumption
        <4>4. \A q \in Procs : proc[q].op # "requeue"
          BY <1>0, <4>3 DEF Roles, Role
        <4> QED BY <3>1, <4>4 DEF OneRequeue
      <3> QED BY <3>2, <3>3
    <2> QED BY <1>0, <2>1, <2>2, StepMoves
  <1> QED BY <1>0, <1>2, <1>3 DEF OneAtATime

LEMMA InitInTurn == OneAtATime /\ Init => InTurn
  <1> SUFFICES ASSUME OneAtATime, Init PROVE InTurn
    OBVIOUS
  <1>1. Shaped /\ Roles /\ outages = 0 /\ \A p \in Procs : proc[p] = Idle
    BY InitShaped, InitRoles DEF Init
  <1>2. SessionsWork
    BY <1>1, IdleWorks DEF SessionsWork
  <1>3. OneRequeue /\ \A p \in Procs : InStep(proc[p], row)
    BY <1>1 DEF OneRequeue, InStep, GivesUp, Idle, At
  <1>4. ASSUME NEW j \in Jobs PROVE Once(j)
    <2>1. row[j] = Absent /\ results[j] = <<>> /\ Len(results[j]) = 0
      BY DEF Init
    <2>2. Consistent(Absent)
      BY LimitAssumption DEF Consistent, Absent
    <2> QED BY <2>1, <2>2 DEF Once
  <1> QED BY <1>1, <1>2, <1>3, <1>4 DEF InTurn

LEMMA StepInTurn == InTurn /\ [Next]_vars => InTurn'
  <1> SUFFICES ASSUME InTurn, [Next]_vars PROVE InTurn'
    OBVIOUS
  <1>0. OneAtATime /\ Shaped /\ Roles /\ SessionsWork /\ TypeOK /\ outages = 0
    BY DEF InTurn, Shaped
  <1>1. OneAtATime'
    BY <1>0 DEF OneAtATime
  <1>2. Shaped' /\ Roles' /\ SessionsWork' /\ outages' = 0
    BY <1>0, StepShaped, StepRoles, StepWorks, StepUnhindered
  <1>3. OneRequeue'
    BY StepOneRequeue
  <1>4. \A p \in Procs : InStep(proc'[p], row')
    BY StepInStep
  <1>5. \A j \in Jobs : Once(j)'
    BY StepOnce
  <1> QED BY <1>1, <1>2, <1>3, <1>4, <1>5 DEF InTurn

LEMMA InTurnAlways == OneAtATime /\ Spec => []InTurn
  BY InitInTurn, StepInTurn, PTL DEF Spec

\* One worker never evaluates a job twice: whatever crashes, whatever the
\* database refuses, however often Celery repeats a task or an operator asks
\* for a backfill or, one job after the other, for a requeue.
THEOREM OnceEvaluated == OneAtATime /\ Spec => []EvaluatedOnce
  <1>1. InTurn => EvaluatedOnce
    BY DEF InTurn, Once, EvaluatedOnce
  <1> QED BY <1>1, InTurnAlways, PTL

\* One worker leaves no row whose status, attempt count and next attempt
\* contradict each other.
THEOREM ColumnsAgree == OneAtATime /\ Spec => []RowConsistent
  <1>1. InTurn => RowConsistent
    BY DEF InTurn, Once, Consistent, RowConsistent
  <1> QED BY <1>1, InTurnAlways, PTL

\* With one worker, a job that failed for good stays FAILED until requeue_job
\* commits it.
THEOREM FailedStays == OneAtATime /\ Spec => FailedIsTerminal
  <1> DEFINE A == \A j \in Jobs : row[j].status = "FAILED" =>
                    \/ row'[j].status = "FAILED"
                    \/ \E p \in Apis : proc[p].op = "requeue" /\ j \in proc[p].held
  <1>1. ASSUME InTurn, [Next]_vars, NEW j \in Jobs, row[j].status = "FAILED",
               row'[j].status # "FAILED"
        PROVE  \E p \in Apis : proc[p].op = "requeue" /\ j \in proc[p].held
    <2>0. Shaped /\ row \in [Jobs -> Row]
      BY <1>1 DEF InTurn, Shaped, TypeOK
    <2>1. CASE UNCHANGED <<row, results>>
      BY <1>1, <2>1
    <2>2. ASSUME NEW k \in Jobs, row[k] = Absent, row' = [row EXCEPT ![k] = Fresh]
          PROVE  FALSE
      BY <1>1, <2>0, <2>2, FirstRows
    <2>3. ASSUME NEW k \in Jobs, row' = [row EXCEPT ![k].next = "reached"]
          PROVE  FALSE
      BY <1>1, <2>0, <2>3 DEF Row
    <2>4. ASSUME NEW p \in Procs, Committed(proc[p])
          PROVE  p \in Apis /\ proc[p].op = "requeue" /\ j \in proc[p].held
      <3>1. j \in proc[p].held
        BY <1>1, <2>0, <2>4, CommitTables
      <3>2. UpToDate(proc[p], row[j], j) /\ Role(p, proc[p], outages, requeues)
        BY <1>1, <3>1 DEF InTurn, InStep, Roles
      <3> QED BY <1>1, <3>1, <3>2 DEF UpToDate, Runnable, Role
    <2> QED BY <1>1, <2>1, <2>2, <2>3, <2>4, TableSteps
  <1>2. InTurn /\ [Next]_vars => [A]_vars
    BY <1>1
  <1> QED BY <1>2, InTurnAlways, PTL DEF Spec, FailedIsTerminal

\* With one worker, a backfill evaluates no job that is not due at that moment:
\* none that is settled, nor one whose next attempt is still ahead.
THEOREM BackfillsDue == OneAtATime /\ Spec => BackfillOnlyDue
  <1> DEFINE A == \A p \in Workers, j \in Jobs :
                    /\ proc[p].op = "process" /\ proc[p].task = BackfillTask
                    /\ j \in proc'[p].held \ proc[p].held
                    => Runnable(row[j])
  <1>1. ASSUME InTurn, [Next]_vars, NEW p \in Workers, NEW j \in Jobs,
               proc[p].op = "process", j \in proc'[p].held, j \notin proc[p].held
        PROVE  Runnable(row[j])
    <2>0. /\ Shaped /\ Roles /\ TypeOK /\ p \in Procs /\ j \notin Tenants
          /\ InStep(proc[p], row)
      BY <1>1, TenantAssumption DEF InTurn, Shaped, Procs
    <2>1. CASE Stays \/ Reaches
      BY <1>1, <2>1 DEF Stays, Reaches
    <2>2. ASSUME NEW q \in Procs, NEW t, Moves(q, t) PROVE Runnable(row[j])
      <3>1. proc'[p] = IF p = q THEN t ELSE proc[p]
        BY <2>0, <2>2 DEF Moves, Become, TypeOK
      <3>2. p = q /\ j \in t.held
        BY <1>1, <3>1
      <3>3. WorksInside(p, t)
        BY <2>2, <3>2 DEF Moves, Rests, Inserts, Opens, Opened, Commits, AtRest
      <3>4. j \in proc[p].todo
        BY <1>1, <2>0, <3>2, <3>3 DEF WorksInside, WorksOn
      <3> QED BY <1>1, <2>0, <3>4 DEF InStep, UpToDate
    <2> QED BY <2>0, <2>1, <2>2, <1>1, StepMoves
  <1>2. InTurn /\ [Next]_vars => [A]_vars
    BY <1>1
  <1> QED BY <1>2, InTurnAlways, PTL DEF Spec, BackfillOnlyDue
=============================================================================
