------------------------------ MODULE EvalQueue ------------------------------
(***************************************************************************)
(* The evaluation queue of Sentinel RAG: the eval_jobs table, the Celery   *)
(* broker that announces jobs to the workers, the worker processes that    *)
(* evaluate them and the API processes that enqueue, dispatch, backfill    *)
(* and requeue them (core/evaluation.py, core/eval_worker.py,              *)
(* core/eval_tasks.py and the routes that call them).                      *)
(*                                                                         *)
(* The database is PostgreSQL at READ COMMITTED behind SQLAlchemy          *)
(* sessions.  A session keeps the row as it was when it was loaded, an     *)
(* UPDATE names only the columns whose value differs from the loaded one,  *)
(* the first flush of a row takes its lock, and what was flushed is        *)
(* visible to others at commit and not before.                             *)
(*                                                                         *)
(* Data left out: the text of last_error, the completion, the payloads,    *)
(* and the worker token (every task carries the token of its own job).     *)
(***************************************************************************)
EXTENDS Integers, Sequences, FiniteSets

CONSTANTS
  Jobs,           \* ids of eval_jobs rows, in the order they are inserted
  Tenants,        \* each has one tenant_quotas row
  TenantOf,       \* the tenant of each job
  Workers,        \* Celery worker processes
  Apis,           \* API processes: each runs one handler at a time
  MaxAttempts,    \* settings.eval_job_max_attempts
  MaxTaskRetries, \* settings.celery_task_max_retries
  BatchLimit,     \* the limit of a backfill
  Erring,         \* the jobs whose evaluation may raise (the judge does not answer)
  Faults,         \* the other kinds of fault an instance may meet
  MaxFaults,      \* bound: crashes and database errors
  MaxOutages,     \* bound: calls the broker refuses
  MaxRequeues,    \* bound: requeues by the operator
  MaxBackfills    \* bound: backfill tasks waiting in the broker

FaultKinds == {"crash", "database", "commit", "broker"}

ASSUME JobsAssumption == Jobs \subseteq Nat \ {0} /\ IsFiniteSet(Jobs)
ASSUME TenantAssumption ==
  /\ TenantOf \in [Jobs -> Tenants]
  /\ Tenants \cap Jobs = {}
ASSUME ProcessAssumption == Workers \cap Apis = {} /\ IsFiniteSet(Workers)
ASSUME LimitAssumption ==
  /\ MaxAttempts \in Nat \ {0}
  /\ MaxTaskRetries \in Nat
  /\ BatchLimit \in Nat \ {0}
ASSUME BoundAssumption ==
  /\ Erring \subseteq Jobs /\ Faults \subseteq FaultKinds
  /\ {MaxFaults, MaxOutages, MaxRequeues, MaxBackfills} \subseteq Nat

VARIABLES
  row,         \* eval_jobs, as committed
  results,     \* the statuses of a job's eval_results rows, oldest first
  deadLetters, \* the jobs (or AllDue) that have a row in eval_dead_letters
  queue,       \* tasks waiting in the broker, with multiplicity
  proc,        \* what each process is doing, and its open session
  faults,      \* crashes and database errors so far
  outages,     \* calls the broker refused so far
  requeues,    \* requeues so far
  dropped      \* observer: the jobs (or AllDue) whose task Celery failed to retry

vars == <<row, results, deadLetters, queue, proc, faults, outages, requeues, dropped>>
history == <<faults, outages, requeues, dropped>>

-----------------------------------------------------------------------------
(* Rows.  next_attempt_at is NULL, still ahead of the clock, or reached. *)

Outcomes == {"COMPLETED", "SKIPPED"}
Settled == Outcomes \union {"FAILED"}
Statuses == Settled \union {"ABSENT", "PENDING", "PROCESSING", "RETRY"}
Row == [status : Statuses, attempt : Nat, next : {"null", "ahead", "reached"}]

Absent == [status |-> "ABSENT", attempt |-> 0, next |-> "null"]
Fresh == [status |-> "PENDING", attempt |-> 0, next |-> "null"]

\* Mutant: FAILED jobs are picked up as well.
Runnable_Failed(r) == r.status \in {"PENDING", "FAILED"} \/ (r.status = "RETRY" /\ r.next # "ahead")

\* Mutant: a RETRY is due only when next_attempt_at is NULL.
Runnable_NeverReached(r) == r.status = "PENDING" \/ (r.status = "RETRY" /\ r.next = "null")

\* PENDING, or RETRY once next_attempt_at is reached.
Runnable(r) == r.status = "PENDING" \/ (r.status = "RETRY" /\ r.next # "ahead")

\* Mutant: the exception handler counts the attempt and forgets the status.
Retried_StatusKept(r) == [r EXCEPT !.attempt = @ + 1, !.next = "ahead"]

\* _mark_job_retry_with_session: one more attempt, then FAILED or a later RETRY.
Retried(r) ==
  LET n == r.attempt + 1
  IN  [status |-> IF n >= MaxAttempts THEN "FAILED" ELSE "RETRY",
       attempt |-> n,
       next |-> IF n >= MaxAttempts THEN "null" ELSE "ahead"]

\* Mutant: attempt_count is left alone.
MarkedFailed_AttemptKept(r) ==
  [status |-> "FAILED", attempt |-> r.attempt, next |-> "null"]

\* mark_job_failed, from any status.
MarkedFailed(r) ==
  [status |-> "FAILED",
   attempt |-> IF r.attempt < MaxAttempts THEN MaxAttempts ELSE r.attempt,
   next |-> "null"]

\* The end of _process_job_with_session, after a result was persisted.
Evaluated(r, outcome) == [r EXCEPT !.status = outcome, !.next = "null"]

\* What committing a row does to the table: the columns that differ from the
\* loaded row are written, the others keep what other sessions committed.
\* A worker has flushed PROCESSING, so its final status always differs; a new
\* next_attempt_at is a new instant, so it always differs too.
Merged(op, committed, loaded, new) ==
  [status |-> IF op = "process" \/ new.status # loaded.status
                THEN new.status ELSE committed.status,
   attempt |-> IF new.attempt # loaded.attempt THEN new.attempt ELSE committed.attempt,
   next |-> IF new.next # loaded.next \/ new.next = "ahead"
              THEN new.next ELSE committed.next]

-----------------------------------------------------------------------------
(* Tasks and processes. *)

AllDue == 0     \* in place of a job: process_pending_eval_jobs
Task == [job : Jobs \union {AllDue}, retries : 0 .. MaxTaskRetries]
JobTask(j) == [job |-> j, retries |-> 0]
BackfillTask == JobTask(AllDue)

Procs == Workers \union Apis
PCs == {"idle", "submit", "unsent", "flush", "persist", "deadLetter", "markFailed"}
\* process: process_job, process_pending_jobs     fail: mark_job_failed
\* retry: record_dispatch_failure, record_batch_dispatch_failure
\* requeue: requeue_job
Ops == {"none", "process", "retry", "fail", "requeue"}

\* todo: the job objects the session has yet to work on; loaded and new: their
\* loaded and current attribute values; held: the rows it has locked.
Session == [pc : PCs, op : Ops, task : Task, todo : SUBSET Jobs,
            loaded : [Jobs -> Row], new : [Jobs -> Row],
            held : SUBSET (Jobs \union Tenants)]

NoRows == [j \in Jobs |-> Absent]
At(pc, task) ==
  [pc |-> pc, op |-> "none", task |-> task, todo |-> {},
   loaded |-> NoRows, new |-> NoRows, held |-> {}]
Idle == At("idle", BackfillTask)

\* A session that has just loaded the rows S to apply op to them.
Opened(op, task, S) ==
  LET found == [j \in Jobs |-> IF j \in S THEN row[j] ELSE Absent]
  IN  [pc |-> "flush", op |-> op, task |-> task, todo |-> S,
       loaded |-> found, new |-> found, held |-> {}]

Become(p, session) == proc' = [proc EXCEPT ![p] = session]
Publish(task) == queue' = [queue EXCEPT ![task] = @ + 1]

\* A row's lock is free for p when no other open session has flushed it.
Free(x, p) == \A q \in Procs \ {p} : x \notin proc[q].held

\* The job p works on next: the loaded objects are handled in the order of ids.
IsNext(p, j) == j \in proc[p].todo /\ \A k \in proc[p].todo : j <= k

\* Mutant: the clock is not asked.
Due_AnyRetry ==
  LET waiting == {j \in Jobs : row[j].status \in {"PENDING", "RETRY"}}
  IN  {j \in waiting : Cardinality({k \in waiting : k < j}) < BatchLimit}

\* The rows a backfill selects: runnable, oldest first, at most BatchLimit.
Due ==
  LET runnable == {j \in Jobs : Runnable(row[j])}
  IN  {j \in runnable : Cardinality({k \in runnable : k < j}) < BatchLimit}

\* Mutant: process_job without _job_is_runnable.
Selected_Unchecked(task) == IF task.job = AllDue THEN Due ELSE {task.job}

\* The rows the body of a task works on when it starts.
Selected(task) ==
  IF task.job = AllDue THEN Due ELSE {j \in {task.job} : Runnable(row[j])}

Fault(kind) ==
  /\ kind \in Faults
  /\ faults < MaxFaults
  /\ faults' = faults + 1

\* The broker refuses a call.
Outage ==
  /\ "broker" \in Faults
  /\ outages < MaxOutages
  /\ outages' = outages + 1

Init ==
  /\ row = [j \in Jobs |-> Absent]
  /\ results = [j \in Jobs |-> <<>>]
  /\ deadLetters = {}
  /\ queue = [t \in Task |-> 0]
  /\ proc = [p \in Procs |-> Idle]
  /\ faults = 0 /\ outages = 0 /\ requeues = 0
  /\ dropped = {}

-----------------------------------------------------------------------------
(* API processes: the gateway handler from the enqueue on, dispatch_job,   *)
(* the backfill and requeue endpoints.                                     *)

\* enqueue_gateway_evaluation commits a new row; dispatch_job follows.
Enqueue(p, j) ==
  /\ proc[p] = Idle
  /\ row[j] = Absent
  /\ \A k \in Jobs : k < j => row[k] # Absent
  /\ row' = [row EXCEPT ![j] = Fresh]
  /\ Become(p, At("submit", JobTask(j)))
  /\ UNCHANGED <<results, deadLetters, queue, history>>

\* dispatch_job, with a broker that accepts the task.
Submit(p) ==
  /\ proc[p].pc = "submit"
  /\ Publish(proc[p].task)
  /\ Become(p, Idle)
  /\ UNCHANGED <<row, results, deadLetters, history>>

\* dispatch_job meets an OperationalError; the broker may have taken the task
\* before the connection failed.
SubmitFails(p) ==
  /\ proc[p].pc = "submit"
  /\ Outage
  /\ \/ Publish(proc[p].task)
     \/ UNCHANGED queue
  /\ Become(p, At("unsent", proc[p].task))
  /\ UNCHANGED <<row, results, deadLetters, faults, requeues, dropped>>

\* POST /evals/process: dispatch_pending, accepted by the broker.
Backfill(p) ==
  /\ proc[p] = Idle
  /\ \A t \in Task : t.job = AllDue => queue[t] < MaxBackfills
  /\ Publish(BackfillTask)
  /\ UNCHANGED <<row, results, deadLetters, proc, history>>

\* dispatch_pending meets an OperationalError.
BackfillFails(p) ==
  /\ proc[p] = Idle
  /\ Outage
  /\ Become(p, At("unsent", BackfillTask))
  /\ UNCHANGED <<row, results, deadLetters, queue, faults, requeues, dropped>>

\* record_dispatch_failure loads its job whatever its status;
\* record_batch_dispatch_failure loads the rows that are due.
LoadUnsent(p) ==
  /\ proc[p].pc = "unsent"
  /\ LET task == proc[p].task
         S == IF task.job = AllDue THEN Due ELSE {task.job}
     IN  Become(p, Opened("retry", task, S))
  /\ UNCHANGED <<row, results, deadLetters, queue, history>>

\* requeue_job loads a FAILED job.
LoadRequeue(p, j) ==
  /\ proc[p] = Idle
  /\ row[j].status = "FAILED"
  /\ requeues < MaxRequeues
  /\ requeues' = requeues + 1
  /\ Become(p, Opened("requeue", JobTask(j), {j}))
  /\ UNCHANGED <<row, results, deadLetters, queue, faults, outages, dropped>>

-----------------------------------------------------------------------------
(* Workers. *)

\* A worker takes a task, acknowledges it, and loads the rows it will process.
\* A task that finds nothing runnable is done.
Receive(p, task) ==
  /\ proc[p] = Idle
  /\ queue[task] > 0
  /\ queue' = [queue EXCEPT ![task] = @ - 1]
  /\ Become(p, IF Selected(task) = {} THEN Idle
               ELSE Opened("process", task, Selected(task)))
  /\ UNCHANGED <<row, results, deadLetters, history>>

\* _process_job_with_session: PROCESSING is flushed, which takes the row's
\* lock, and the evaluation ends with an outcome or with an exception.  An
\* evaluation spends from the quota row; the others write it only when the
\* daily or the monthly counter was due for a reset.
Process(p, j, outcome, spends) ==
  /\ proc[p].pc = "flush" /\ proc[p].op = "process"
  /\ IsNext(p, j) /\ Free(j, p)
  /\ outcome = "RETRY" => j \in Erring
  /\ outcome = "COMPLETED" => spends
  /\ LET job == [proc[p].loaded[j] EXCEPT !.status = "PROCESSING"]
         new == IF outcome = "RETRY" THEN Retried(job) ELSE Evaluated(job, outcome)
     IN  Become(p, [proc[p] EXCEPT
           !.pc = IF spends THEN "persist" ELSE "flush",
           !.todo = IF spends THEN @ ELSE @ \ {j},
           !.new[j] = new,
           !.held = @ \union {j}])
  /\ UNCHANGED <<row, results, deadLetters, queue, history>>

\* Mutant: the result is committed on its own, before the job's outcome.
Persist_OwnCommit(p, j) ==
  /\ proc[p].pc = "persist"
  /\ IsNext(p, j) /\ Free(TenantOf[j], p)
  /\ Become(p, [proc[p] EXCEPT !.pc = "flush", !.todo = @ \ {j},
                               !.held = @ \union {TenantOf[j]}])
  /\ results' = [results EXCEPT ![j] = Append(@, "COMPLETED")]
  /\ UNCHANGED <<row, deadLetters, queue, history>>

\* The flush that writes the result writes the quota row with it, under its lock.
Persist(p, j) ==
  /\ proc[p].pc = "persist"
  /\ IsNext(p, j) /\ Free(TenantOf[j], p)
  /\ Become(p, [proc[p] EXCEPT !.pc = "flush", !.todo = @ \ {j},
                               !.held = @ \union {TenantOf[j]}])
  /\ UNCHANGED <<row, results, deadLetters, queue, history>>

\* EvalTaskBase.on_failure, first half: record_dead_letter, errors suppressed.
\* A backfill task names no job, so nothing is left to do for it.
RecordDeadLetter(p) ==
  /\ proc[p].pc = "deadLetter"
  /\ \/ deadLetters' = deadLetters \union {proc[p].task.job} /\ UNCHANGED faults
     \/ Fault("database") /\ UNCHANGED deadLetters
  /\ Become(p, IF proc[p].task.job = AllDue THEN Idle
               ELSE At("markFailed", proc[p].task))
  /\ UNCHANGED <<row, results, queue, outages, requeues, dropped>>

\* on_failure, second half: mark_job_failed loads its job whatever its status.
LoadMarkFailed(p) ==
  /\ proc[p].pc = "markFailed"
  /\ Become(p, Opened("fail", proc[p].task, {proc[p].task.job}))
  /\ UNCHANGED <<row, results, deadLetters, queue, history>>

-----------------------------------------------------------------------------
(* Sessions of both. *)

\* The other operations assign a job's attributes and flush them.
Changed(op, r) ==
  CASE op = "retry" -> Retried(r)
    [] op = "fail" -> MarkedFailed(r)
    [] op = "requeue" -> Fresh

Flush(p, j) ==
  /\ proc[p].pc = "flush" /\ proc[p].op \in {"retry", "fail", "requeue"}
  /\ IsNext(p, j) /\ Free(j, p)
  /\ Become(p, [proc[p] EXCEPT !.todo = @ \ {j},
                               !.new[j] = Changed(proc[p].op, proc[p].loaded[j]),
                               !.held = @ \union {j}])
  /\ UNCHANGED <<row, results, deadLetters, queue, history>>

\* Mutant: the session is closed without a commit.
Written_Nothing(s) == {}

\* The rows a session writes, and those among them it persisted a result for.
Written(s) == Jobs \intersect s.held

\* Mutant: a result is persisted for an evaluation that raised, too.
Recorded_OnError(s) == Written(s)

\* Mutant: a skipped evaluation leaves no result.
Recorded_NotSkips(s) == {j \in Written(s) : s.new[j].status = "COMPLETED"}

Recorded(s) == {j \in Written(s) : s.new[j].status \in Outcomes}

\* What a session leaves in the tables when it commits.
Committed(s) ==
  /\ row' = [j \in Jobs |-> IF j \in Written(s)
                              THEN Merged(s.op, row[j], s.loaded[j], s.new[j])
                              ELSE row[j]]
  /\ results' = [j \in Jobs |-> IF j \in Recorded(s)
                                  THEN Append(results[j], s.new[j].status)
                                  ELSE results[j]]

\* Mutant: the requeue endpoint does not dispatch the job.
Afterwards_NotDispatched(s) == Idle

\* A requeued job is then dispatched; other sessions end with their commit.
Afterwards(s) == IF s.op = "requeue" THEN At("submit", s.task) ELSE Idle

Commit(p) ==
  /\ proc[p].pc = "flush" /\ proc[p].todo = {}
  /\ Committed(proc[p])
  /\ Become(p, Afterwards(proc[p]))
  /\ UNCHANGED <<deadLetters, queue, history>>

\* An exception ends what p was doing.  A handler answers 500; an error in
\* mark_job_failed is suppressed.  A task is published once more by Celery, and
\* if the broker refuses that, the task, long acknowledged, is rejected without
\* on_failure; when its retries are used up on_failure runs.
Raised(p) ==
  LET s == proc[p]
      retry == [s.task EXCEPT !.retries = @ + 1]
  IN  \/ /\ s.op # "process"
         /\ Become(p, Idle)
         /\ UNCHANGED <<queue, outages, dropped>>
      \/ /\ s.op = "process" /\ s.task.retries < MaxTaskRetries
         /\ Become(p, Idle)
         /\ \/ Publish(retry) /\ UNCHANGED <<outages, dropped>>
            \/ Outage /\ dropped' = dropped \union {s.task.job} /\ UNCHANGED queue
      \/ /\ s.op = "process" /\ s.task.retries >= MaxTaskRetries
         /\ Become(p, At("deadLetter", s.task))
         /\ UNCHANGED <<queue, outages, dropped>>

\* A database error rolls the session back.
DatabaseError(p) ==
  /\ proc[p].pc \in {"submit", "unsent", "markFailed", "flush", "persist"}
  /\ Fault("database")
  /\ Raised(p)
  /\ UNCHANGED <<row, results, deadLetters, requeues>>

\* The connection fails after the server committed, before the client knew.
CommitUnconfirmed(p) ==
  /\ proc[p].pc = "flush" /\ proc[p].todo = {}
  /\ Fault("commit")
  /\ Committed(proc[p])
  /\ Raised(p)
  /\ UNCHANGED <<deadLetters, requeues>>

\* The row whose lock p is about to take.
Wants(p, x) ==
  \E j \in Jobs : /\ IsNext(p, j)
                  /\ \/ proc[p].pc = "flush" /\ x = j
                     \/ proc[p].pc = "persist" /\ x = TenantOf[j]

\* p is waiting for a row that q has locked.
Awaits(p, q) == p # q /\ \E x \in proc[q].held : Wants(p, x)

\* p is one of a circle of sessions: each waits for one of them, and is waited for.
Deadlocked(p) ==
  \E S \in SUBSET Procs :
    /\ p \in S
    /\ \A q \in S : (\E r \in S : Awaits(q, r)) /\ (\E r \in S : Awaits(r, q))

\* PostgreSQL breaks a deadlock by aborting one of its transactions.
DeadlockVictim(p) ==
  /\ Deadlocked(p)
  /\ Raised(p)
  /\ UNCHANGED <<row, results, deadLetters, faults, requeues>>

\* A process dies: its session is rolled back; the task a worker had taken
\* was acknowledged before it ran and is gone.
Crash(p) ==
  /\ proc[p] # Idle
  /\ Fault("crash")
  /\ Become(p, Idle)
  /\ UNCHANGED <<row, results, deadLetters, queue, outages, requeues, dropped>>

\* The clock reaches a job's next_attempt_at.
AttemptDue(j) ==
  /\ row[j].next = "ahead"
  /\ row' = [row EXCEPT ![j].next = "reached"]
  /\ UNCHANGED <<results, deadLetters, queue, proc, history>>

-----------------------------------------------------------------------------
ApiStep(p) ==
  \/ \E j \in Jobs : Enqueue(p, j) \/ LoadRequeue(p, j)
  \/ Submit(p) \/ SubmitFails(p)
  \/ Backfill(p) \/ BackfillFails(p)
  \/ LoadUnsent(p)

WorkerStep(p) ==
  \/ \E task \in Task : Receive(p, task)
  \/ \E j \in Jobs, outcome \in Outcomes \union {"RETRY"}, spends \in BOOLEAN :
       Process(p, j, outcome, spends)
  \/ \E j \in Jobs : Persist(p, j)
  \/ RecordDeadLetter(p) \/ LoadMarkFailed(p)

SessionStep(p) ==
  \/ \E j \in Jobs : Flush(p, j)
  \/ Commit(p) \/ CommitUnconfirmed(p)
  \/ DatabaseError(p) \/ DeadlockVictim(p) \/ Crash(p)

Next ==
  \/ \E p \in Apis : ApiStep(p)
  \/ \E p \in Workers : WorkerStep(p)
  \/ \E p \in Procs : SessionStep(p)
  \/ \E j \in Jobs : AttemptDue(j)

Spec == Init /\ [][Next]_vars

-----------------------------------------------------------------------------
(* Fairness.  Processes that are up keep running; PostgreSQL grants row    *)
(* locks in the order of the requests and the broker hands tasks out in    *)
(* the order of their arrival, so a request that is grantable again and    *)
(* again is granted (strong fairness).  Nothing makes the operator act.    *)

LockStep(p) ==
  \E j \in Jobs :
    \/ \E outcome \in Outcomes \union {"RETRY"}, spends \in BOOLEAN :
         Process(p, j, outcome, spends)
    \/ Persist(p, j) \/ Flush(p, j)

PromptStep(p) ==
  \/ Submit(p) \/ SubmitFails(p) \/ LoadUnsent(p)
  \/ RecordDeadLetter(p) \/ LoadMarkFailed(p)
  \/ Commit(p)

Fairness ==
  /\ \A task \in Task : SF_vars(\E p \in Workers : Receive(p, task))
  /\ \A p \in Procs : SF_vars(LockStep(p))
                      /\ WF_vars(PromptStep(p))
                      /\ WF_vars(DeadlockVictim(p))
  /\ \A j \in Jobs : WF_vars(AttemptDue(j))

FairSpec == Spec /\ Fairness

\* An operator who asks for a backfill again and again.
AttendedSpec == FairSpec /\ WF_vars(\E p \in Apis : Backfill(p))

-----------------------------------------------------------------------------
(* Properties. *)

\* The tables, the broker and the sessions hold what their schema allows.
TypeOK ==
  /\ row \in [Jobs -> Row]
  /\ results \in [Jobs -> Seq(Outcomes)]
  /\ deadLetters \subseteq Jobs \union {AllDue}
  /\ queue \in [Task -> Nat]
  /\ proc \in [Procs -> Session]
  /\ {faults, outages, requeues} \subseteq Nat
  /\ dropped \subseteq Jobs \union {AllDue}

\* No job is left in PROCESSING: nothing in the code takes a job out of that
\* status again (not the backfill, not requeue_job), so a worker that dies in
\* the middle of an evaluation must leave the committed row as it was.
NeverStuckProcessing == \A j \in Jobs : row[j].status # "PROCESSING"

\* A job that reads COMPLETED or SKIPPED has its eval_results row, and the last
\* one persisted for it says the same, whatever the workers that evaluated the
\* job at the same time, crashed or overwrote each other's columns.
OutcomeBacked ==
  \A j \in Jobs : row[j].status \in Outcomes =>
    /\ results[j] # <<>>
    /\ results[j][Len(results[j])] = row[j].status

\* A result appears in the very commit that gives its job that outcome, one
\* result at a time: a rolled back evaluation leaves none behind.
ResultsComeWithOutcome ==
  [][\A j \in Jobs : results'[j] # results[j] =>
       /\ row'[j].status \in Outcomes
       /\ results'[j] = Append(results[j], row'[j].status)]_vars

\* Somebody will still work on j: a task that names it waits in the broker, or
\* a process is about to dispatch it, evaluate it or give it up.
InHand(j) ==
  \/ \E t \in Task : t.job = j /\ queue[t] > 0
  \/ \E p \in Procs : /\ proc[p] # Idle
                      /\ proc[p].task.job = j \/ j \in proc[p].todo \union proc[p].held

\* A PENDING job is not forgotten: as long as no process crashed and no database
\* call failed, a job that waits for its first attempt is in somebody's hands,
\* whatever the judge errors, deadlocks and refused calls of the broker, save one:
\* a refused retry of Celery loses the job of that very task, and no other.
NoSilentLoss ==
  faults = 0 =>
    \A j \in Jobs : row[j].status = "PENDING" => InHand(j) \/ j \in dropped

\* Several workers may evaluate one job, each in a session that loaded it
\* before the first outcome was committed: so at most one result per worker, as
\* long as nothing puts the job back in line (no judge error, no broker outage,
\* no requeue), whatever crashes, database errors and failure handlers do.
OneResultPerWorker ==
  outages = 0 /\ requeues = 0 =>
    \A j \in Jobs \ Erring : Len(results[j]) <= Cardinality(Workers)

\* With one worker process, one operator's requeue at a time, a broker that
\* answers and commits that are confirmed, a job is evaluated at most once,
\* whatever the crashes, database errors, Celery retries and backfills; and the
\* next three properties hold.
EvaluatedOnce == \A j \in Jobs : Len(results[j]) <= 1

\* The columns of a row agree: next_attempt_at is set
\* exactly for RETRY, and attempt_count has reached the maximum exactly for
\* FAILED.
RowConsistent ==
  \A j \in Jobs :
    /\ row[j].status = "RETRY" <=> row[j].next # "null"
    /\ row[j].status = "FAILED" <=> row[j].attempt >= MaxAttempts
    /\ row[j].status = "PENDING" => row[j].attempt = 0

\* FAILED is terminal: a job leaves it only through requeue_job.
FailedIsTerminal ==
  [][\A j \in Jobs : row[j].status = "FAILED" =>
       \/ row'[j].status = "FAILED"
       \/ \E p \in Apis : proc[p].op = "requeue" /\ j \in proc[p].held]_vars

\* A backfill works only on jobs that are due when it starts to work on them.
BackfillOnlyDue ==
  [][\A p \in Workers, j \in Jobs :
       /\ proc[p].op = "process" /\ proc[p].task = BackfillTask
       /\ j \in proc'[p].held \ proc[p].held
       => Runnable(row[j])]_vars

\* A job with a dead letter that nobody works on and nobody requeued is one
\* that requeue_job accepts, or one whose evaluation ended after all.
DeadLetterReplayable ==
  \A j \in Jobs \intersect deadLetters :
    requeues = 0 /\ ~InHand(j) => row[j].status \in Settled

\* Every enqueued job ends COMPLETED, SKIPPED or FAILED, again and again if it
\* is put back in line.
Settles ==
  \A j \in Jobs : (row[j].status # "ABSENT") ~> (row[j].status \in Settled)

-----------------------------------------------------------------------------
(* The tables as their readers see them. *)

Lifecycle == INSTANCE EvalLifecycle WITH
  status <- [j \in Jobs |-> row[j].status]

\* The queue implements EvalLifecycle.
LifecycleSpec == Lifecycle!Spec

=============================================================================
