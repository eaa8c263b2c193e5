# A TLA+ model of Sentinel RAG

Sentinel RAG is a gateway between applications and language models. A request
passes a policy check and a budget check, is answered with the help of the
tenant's documents, is written to an audit log, and its answer is evaluated
later by a worker. This directory holds the specifications of that system, the
TLC configurations that check them on small instances, and proofs for TLAPS.
Paths below are relative to `src/backend/`.

## The system and its parts

| part | state | operations | what it talks to |
|---|---|---|---|
| Evaluation queue (`core/evaluation.py`, `core/eval_worker.py`, `core/eval_tasks.py`, `api/v1/routes/evals.py`) | tables `eval_jobs`, `eval_results`, `eval_dead_letters`; tasks in the broker; one session per running process | enqueue, dispatch, process one job, process a batch, record a dispatch failure, mark failed, dead letter, requeue | PostgreSQL, Celery, the judge |
| Tenant quotas (`core/evaluation.py`, `core/db.py`) | one `tenant_quotas` row per tenant | spend on evaluations, spend on models, daily and monthly reset, budget check, upsert | PostgreSQL; called by the queue and the gateway handler |
| Model router and circuit breakers (`core/gateway.py`) | one breaker record per provider in Redis, with a copy in every process | complete, record success, record failure | Redis, the model providers |
| Gateway handler (`api/v1/routes/gateway.py`) | none of its own | one request: policy, budget, retrieval, model, audit, enqueue, spend, dispatch | all of the above |
| Audit log and retention (`core/audit.py`, `core/audit_tasks.py`) | `audit_logs`, `model_invocations` | record, list, purge, cost summary | PostgreSQL |
| Documents (`core/documents.py`) | `documents`, `document_chunks` | create, delete, apply a scan result | PostgreSQL, the scanner |
| Retrieval, chunking (`core/retrieval.py`, `core/embeddings.py`) | `retrieval_runs`, `retrieval_results` | retrieve, rank, chunk | PostgreSQL |
| Policy, authentication, encryption (`core/policy.py`, `core/auth.py`, `core/crypto.py`) | none | evaluate, verify, encrypt | libraries |
| Schema and seeding (`core/db.py`, `core/bootstrap.py`, `alembic/`) | the schema | create, reconcile, seed | PostgreSQL |
| Frontend (`src/frontend/`) | none the backend depends on | read the lists, post requests | the API |

What makes it hard: several workers and API processes share the tables without
any row lock taken on reading, tasks are acknowledged before they run, the
database may abort any session, the broker may or may not have taken a task when
publishing fails, and the two halves of giving a job up are two transactions.
`PROJECT.json` lists these hazards line by line under `hazards`.

## Modules

| module | what it is |
|---|---|
| `EvalQueue` | the evaluation queue: tables, broker, workers, API processes, their sessions |
| `EvalLifecycle` | what the queue promises to a reader of its tables |
| `MCEvalQueue` | `EvalQueue` for TLC |
| `MCEvalQueueLive` | the same for the liveness run |
| `EvalQueueProofs` | theorems about `EvalQueue`, and that it implements `EvalLifecycle` |
| `EvalQueueWorkersProofs` | theorems about `EvalQueue` that count its workers: one result for each, and what one worker promises |
| `CircuitBreaker` | the router, the breaker records in Redis and the copies of them |
| `MCCircuitBreaker`, `CircuitBreakerProofs` | the same two companions |
| `TenantQuota` | one tenant's quota row, the requests and evaluations that use it |
| `MCTenantQuota`, `TenantQuotaProofs` | the same two companions |
| `TenantQuotaSpendProofs` | theorems about how far a spend can be from the invocations and from the budget |
| `Documents` | documents, their chunks and the searches over them: create, scan, delete, search |
| `MCDocuments`, `DocumentsProofs` | the same two companions |
| `GatewayRequest` | one request from the policy check to the dispatch of its evaluation, and the retention purge beside it |
| `RequestLedger` | what the handler promises to a reader of its records and to its callers |
| `MCGatewayRequest`, `GatewayRequestProofs` | the two companions; the proofs end with the refinement of `RequestLedger` |
| `Bootstrap` | the start of the processes: schema, reconciliation, seeding, migration, and the router that caches `provider_configs` |
| `MCBootstrap`, `BootstrapProofs` | the same two companions |

The gateway handler ties the parts together: it reads and charges the row of
`TenantQuota`, searches the documents of `Documents`, calls a model through
`CircuitBreaker` and leaves a job to `EvalQueue`. Each of those modules has the
handler's steps that touch its state, with all the interleavings of them;
`GatewayRequest` has the handler itself, where each of those calls is one
transaction with its possible outcomes.

An MC module adds what a `.cfg` cannot write: the symmetry of the processes,
the maps from jobs and documents to tenants, the schemas of older releases; and,
where one run explores several deployments of a component, which of them a
behaviour belongs to (`scenario`, `alone`, `Troubled`, `Overlapping`, `Dispatched`). Operators whose name contains
an underscore (`Runnable_Failed`, `Failed_Late`, ...) are deliberate mistakes:
`PROJECT.json` says which operator each would replace and which property then
fails. They are part of no specification.

### How a database session is modelled

Every component but the breakers shares state through PostgreSQL at READ
COMMITTED and SQLAlchemy sessions, and most of what can go wrong comes from
three facts that the database modules keep:

- a session reads a row without locking it and works on its own copy; nothing
  tells it that another session commits in between;
- an `UPDATE` names only the columns whose value differs from the loaded one
  (`Merged` in `EvalQueue`, `Changed` and `CommitRow` in `TenantQuota`): two
  sessions that overlap can leave a row with one column from each;
- the first flush of a row takes its lock, and the lock is held until the commit
  or the rollback (`held`, `written`). A second session waits at its own flush,
  and then overwrites what it has not seen. Sessions that wait for each other
  are a deadlock, of which PostgreSQL aborts one.

A session is therefore several actions: load, one flush per row, commit. What
happens inside one of them does not touch the database and cannot be seen. The
sessions of `Documents` write one row each, so that flush and commit are one
action: a lock another session waits for is only a commit that comes later.

### EvalQueue

| code | model |
|---|---|
| `EvalJob`, `EvalResult`, `EvalDeadLetter` rows | `row`, `results`, `deadLetters` |
| the broker's queue; a task is a job id or `process_pending_eval_jobs` | `queue`, a bag of `Task`; `AllDue` |
| `enqueue_gateway_evaluation`, then `dispatch_job` | `Enqueue`, then `Submit` or `SubmitFails` |
| `dispatch_pending`, `POST /evals/process` | `Backfill`, `BackfillFails` |
| `record_dispatch_failure`, `record_batch_dispatch_failure` | `LoadUnsent`, `Flush`, `Commit` |
| `process_job`, `process_pending_jobs` | `Receive`, then per job `Process` and `Persist`, then `Commit` |
| `_mark_job_retry_with_session` | `Retried`, in `Process` and `Flush` |
| `EvalTaskBase.on_failure`, `handle_task_failure` | `RecordDeadLetter`, `LoadMarkFailed`, `Flush`, `Commit` |
| `requeue_job` and the endpoint's dispatch | `LoadRequeue`, `Flush`, `Commit`, then `Submit` |
| an exception in a task: Celery publishes it once more, then calls `on_failure` | `Raised`, from `DatabaseError`, `DeadlockVictim`, `CommitUnconfirmed` |
| the broker refuses that retry: the task, long acknowledged, is rejected without `on_failure` | the disjunct of `Raised` with `Outage`; `dropped` observes whose task it was |

`next_attempt_at` is `null`, `ahead` of the clock or `reached`; `AttemptDue` is the
clock. Tasks are acknowledged before they run, so a `Crash` loses the task.
`SubmitFails` allows both outcomes of a connection that breaks while publishing; a
retry of Celery that breaks but arrives is a retry like any other.
`CommitUnconfirmed` is a connection that breaks after the server committed. The
judge, and whether a job is sampled or within the daily budget, is the choice of
`outcome` and `spends` in `Process`; it may raise for the jobs of `Erring` only,
which the proofs leave open and the runs use to keep two scenarios apart. `TenantQuota` is about the amounts.

`EvalLifecycle` has no worker, broker or session: a transaction changes any set
of jobs at once, each by one of five moves, and a result appears with its
outcome. The mapping reads `status` off the committed rows; that no step of the
queue shows more than this, in particular never a `PROCESSING` row and never a
result without its outcome, is what the refinement says.

### CircuitBreaker

| code | model |
|---|---|
| `BreakerState`; its `is_open` | `BreakerState`, `IsOpen` |
| the key of a provider, with its expiry | `redis`; `Advance` drops a key in time |
| `_fallback_states` of a process | `fallback` |
| `get_state` | `GetState`: Redis, or the copy when the key is gone or Redis fails |
| `record_failure` | `RecordFailure` reads and computes (`Failed`), `WriteState` writes |
| `record_success` | `RecordSuccess`, `WriteState` |
| `GatewayRouterService.complete` | `Complete`, `Consult`, `Rejected`, `GiveUp`, `NextCandidate` |

Reading and writing a record are two calls to Redis, and so two actions. A
failure that counts is followed by a retry or by the next provider; a failure
that does not count leaves the record alone. The clock is one for all processes:
the code compares the clocks of the hosts, and their skew is left out. Two
failures are never recorded at one instant: `time.time()` is a float.

### TenantQuota

| code | model |
|---|---|
| the `tenant_quotas` row | `quota` |
| `get_quota` and `is_monthly_budget_exceeded` | `Begin`, `Load`, `CommitCheck`, `Decide` |
| `_get_or_create_quota` | `Insert` |
| `_reset_daily_budget_if_needed`, `_reset_monthly_budget_if_needed` | `ResetDaily`, `ResetMonthly` |
| the gateway handler around them | `Call`, `Audit`, `Refuse` |
| `record_model_spend` | `Load`, `CommitSpend` |
| an evaluation's spend, `_evaluate_with_session` | `Open`, `Evaluate`, `CommitEvaluations` |

`get_quota` returns the object after its commit, which expired it, so `Decide`
judges the row as it is when the attribute is read and not as it was committed.
The code takes the date before the session is opened (`day`), for a worker
before the judge is called. Amounts are whole numbers: the rounding of the
code to six places is left out. `charged` and `evaluated` observe what has been
recorded in the row's month and paid on its day; `overlapped` notes that a
session wrote a row that another one had changed since it was loaded.

### Documents

| code | model |
|---|---|
| `documents.status` | `status`; `ABSENT` and `DELETED` before and after the row |
| `document_chunks` of a document, with `embedding_pg` and `fts_tsv` | `chunks`: none, raw or indexed |
| `retrieval_runs`, `retrieval_results` | `cited`, pairs of a tenant and a document |
| `create_document`, its commit and then `sync_pgvector_chunk_features` | `Create`, `Sync` |
| `apply_scan_result` | `LoadScan`, `CommitScan`, `Refresh` |
| `delete_document` | `LoadDelete`, `CommitDelete` |
| `retrieve` | `Search` selects, `CommitSearch` commits the run with its results |
| `lifespan` and `bootstrap_persistence_safely`: errors are suppressed | `Start`, with or without its effect |
| `bootstrap_schema` in the constructors of the services | `Bootstrap` |

A request that finds no row changes nothing (404, or `deleted: true`) and has no
action. `Applied` is the SQLAlchemy rule: a status that equals the loaded one is
not written at all; an `UPDATE` that meets no row is an error, a `DELETE` that
meets none is not. No foreign key cascades, so a document that has chunks or was
ever returned by a search cannot be deleted (`Referred`): the handler answers
with an error of the database. `Start` and `Bootstrap` index
every chunk there is because on
PostgreSQL `init_schema` always has statements to run. The HTTP route never passes
a `content_text`; `Create` allows one, as the service does. The `status` argument
of the two `create_document` services is used by tests only, and every document
starts PENDING. `last`, `cleaned`, `overlapped` and `unsynced` only observe.

### GatewayRequest

| code | model |
|---|---|
| `POST /gateway/complete`, one request | the requests an API process holds in `handler`, which never awaits |
| `PolicyEngine.evaluate` | the `decision` of `Begin` |
| `is_monthly_budget_exceeded` | `Check`, either answer |
| `retrieve` | `Search`: the run is committed |
| `GatewayRouterService.complete` | `Call`: an answer, 503, or 422 for an unknown provider |
| `record_gateway_call` | `Recorded`: audit row, violations and invocation in one commit, in `Audit` and `Refuse` |
| `enqueue_gateway_evaluation`, `record_model_spend`, `dispatch_job` | `Enqueue`, `Spend`, `Dispatch` |
| the response, or the status of an `HTTPException` | `Reply` |
| `purge_expired_response_bodies` | `LoadPurge`, `CommitPurge` |

The records of a request are sets of requests (`runs`, `jobs`, ...), except for the
audit row, whose `body` and `expires` the purge clears. `RequestLedger` sees only
`stage`, how far the records of a request go, and `reply`: a record is added at the
end of a fixed order and none is ever taken away. The mapping (`Stage`) reads the
stage off the six tables; a combination that is no beginning of the order is
`"broken"`, which the ledger does not have.

### Bootstrap

| code | model |
|---|---|
| `Base.metadata.create_all` | `Look` asks for the tables, `Create` creates the missing ones |
| `reconcile_schema` | `Inspect`, `Alter`, then `Fill` (`sync_pgvector_chunk_features`) and `Index` |
| `seed_provider_configs` | `Load`, `Seed` |
| `load_provider_configs`, `_build_gateway_service` | `ProviderConfigs`, `BuildRouter` |
| `lifespan` and `bootstrap_persistence_safely` | `Start`; an error ends the bootstrap, not the process |
| the constructors of `DocumentService` and `RetrievalService` | `Ask`; an error fails the request, and the next one constructs again |
| `alembic upgrade head` | `Migrate` |

Each step is a transaction of its own. A step that finds what it was to create
already there fails (`GiveUp`), as the DDL does. Tables and columns are members
of sets; `Native` are the two columns, `embedding_pg` and `fts_tsv`, that no mapped
class has, so that neither `create_all` nor the migration creates them. Of a
`provider_configs` row only the model (retired, current or somebody's choice) and
`enabled` are kept. On another database than PostgreSQL `reconcile_schema` may
return early and there are no native columns; that branch is left out.

## What the runs check

Every run explores its instance completely within the bounds it names; no run
replaces a definition.

| run | instance | what it shows |
|---|---|---|
| `queue_faults` | 2 workers, 1 API process, 2 attempts, 1 Celery retry; one of three scenarios: one job whose judge may raise, with two of: a fault of any kind, an outage, a requeue (`Troubled`); two jobs of one tenant that overlap, with no trouble but their deadlocks and one judge error (`Overlapping`); a job that is due again beside two dispatched ones and a backfill, with an outage that may meet the retry of a deadlock victim (`Dispatched`) | `NeverStuckProcessing`: no crash leaves a committed PROCESSING. `OutcomeBacked`: a settled outcome is that of the last result. `ResultsComeWithOutcome`: the two appear together. `NoSilentLoss`: without crashes and database errors a PENDING job is in somebody's hands, unless the broker refused the retry of its own task. |
| `queue_one_worker` | 2 jobs, 1 worker, 2 attempts, 1 Celery retry, 2 faults, 1 requeue | what holds with one worker, one requeue at a time, a broker that answers and commits that are confirmed: a job is evaluated once (`EvaluatedOnce`), its columns agree (`RowConsistent`), FAILED is left by a requeue only (`FailedIsTerminal`), a backfill works on due jobs only (`BackfillOnlyDue`) |
| `queue_live` | 2 workers and an operator who repeats the backfill; either two jobs of one tenant, backfills of 2 beside single tasks and no faults, or one job with a crash, judge errors and an outage | the queue implements `EvalLifecycle` (`LifecycleSpec`); `Settles`, although sessions deadlock on the quota row and the job rows; until an outage or a requeue, a job whose judge does not raise gets at most one result per worker (`OneResultPerWorker`) |
| `queue_unattended` | 1 worker, judge errors, no operator | a job whose evaluation raised stays in RETRY |
| `queue_dead_letter` | 1 worker, two faults | a dead letter whose job cannot be requeued |
| `breaker_shared` | a failing and a healthy provider, threshold 2, window 1, cooldowns 1 and 3; either 2 processes with reads and writes of Redis that fail, and restarts, or one process alone | `OpenJustified`: an open breaker was opened by enough failures in one window, wherever the record is kept. `HealthyNeverRefused`: failover finds the healthy provider. `ClosedEarlyOnlyByOverlap`: only a success, or a record computed from an older one, closes a breaker before its time. Alone: the threshold opens the breaker (`OpensOnTimeAlone`), and for the whole of its cooldown not even a success closes it (`OpenUntilCooldownAlone`). |
| `breaker_probe` | 1 process, threshold 3, window 4, cooldowns 2 and 6 | a failed probe after the long cooldown does not reopen the breaker |
| `quota_shared` | 2 API processes, 1 worker, budget 1, calls that cost 1, months of two days, days 0 to 2 | `SpendExact`, `OverspendBounded` and `RefusedOnlyWhenSpent` as long as no session overwrites another; `SpendBacked`, however they overlap; `ChargeFindsRow`: two sessions may both create the row, but only the budget checks do, and a charge always finds it |
| `quota_month_end` | 1 API process, 1 worker, one month end | an evaluation wipes the spend of the new month |
| `documents` | 1 document, 2 processes, 2 tenants, crashes and database errors | `ReferencesKept`: searches and deletions that overlap leave no result or chunk without its document. `ReturnedWereClean`: no search returns what was never found clean. `LastScanDecides`, unless two scan sessions overlapped. `DeletedForGood`: a scan result on its way does not bring a document back. `EventuallyIndexed`: chunks get indexed, although their process may die, by the next process that constructs its services. |
| `gateway` | 2 requests, 2 API processes, 2 purging workers, 2 faults anywhere, bodies kept for one day, days 0 to 2 | `LedgerSpec`: the records of a request are a beginning of the complete set, whatever dies and whoever purges. `NothingHalfDone`: without faults they are complete, and the caller was told so. `BlockedGoesNowhere`: a blocked prompt is audited with its violations and leaves no other record. `PurgedOnlyExpired`: overlapping purges clear what has expired, all columns of it, and nothing else. |
| `bootstrap` | 2 processes, 3 tables, 2 providers; an empty database, one without the newer columns, one without a table and with a retired model; a migration, an operator's change, 2 faults | `SchemaReady`: who completes a bootstrap has the whole schema. `RouterComplete`: a router built afterwards has every provider that is not disabled, by its current model. `NoEndlessRetry`: processes that overtake each other do not go on failing. |

Why the bounds are enough. Two workers and one API process are the fewest for
every overlap of the queue: a single task beside a backfill, two evaluations of
one job, an evaluation beside a failure handler or a requeue. A fault of any
kind beside an outage or a requeue in the two-worker run (`queue_faults`), and two faults in the
one-worker run, let a fault meet the recovery from another. Two attempts tell a first failure from a last one.
`MaxBackfills = 1` bounds the backfill tasks that wait, not how often one is sent.
Three jobs (`Dispatched`) are the fewest for a batch that has worked on the job of
a refused retry and is then a deadlock victim itself; that scenario begins with the
tasks in the broker, where the orders of enqueueing no longer matter. The action
constraint `FaultsAllowed` keeps each scenario to the trouble it is about.
For the breakers, a threshold of 2 and a window of 1 (3 and 4 in `breaker_probe`)
put failures inside, at the edge of and outside the window, and the two cooldowns
lie below (or at) and above it, as do the code's 30 and 120 seconds around its 60
second window; `MaxTime` reaches past a full cycle of opening, cooling and probing.
For the quota, three days with months of two contain a midnight inside a month
and a month's end. `MaxInvoiced = 2` lets a request overspend and another be
refused; `MaxDaily = 1` means that a batch that pays twice is left to the proof.
Documents do not share anything but the run that cites several of them, so one
document and two processes meet every overlap; several documents are left to the
proof, which covers any number.

Two requests and two purges are the fewest that share a purge and overlap in it;
days 0 to 2 with a retention of one day contain a row that expires, one that does
not yet, and a purge that commits a day after it loaded. Three tables, two mapped
and two native columns and two providers of which one was renamed give `Bootstrap`
one of each kind: there before, missing, half done. Two faults let a process die
in the recovery from the other's failure. Larger instances are left to the proofs.

Deadlock is checked in every run but `bootstrap`, where processes that have
nothing left to construct rest; sessions that wait for each other are not a
deadlock of the model, since PostgreSQL aborts one of them.

### Fairness

`FairSpec` assumes that the processes that are up keep running (`WF` of their
steps), that PostgreSQL grants locks and the broker hands out tasks in the order
of arrival (`SF` of a step that waits for a lock, and of the receipt of a task),
that a deadlock is broken, and that time passes. Nothing in the code acts for
the operator, so the backfill is fair in `AttendedSpec` only: `queue_unattended`
shows what happens without. In `Documents` a request that is under way goes on
unless its process dies. Nothing is assumed of what the repository does not do:
that a process which died is started again (`infra/docker-compose.yml` has no
restart policy), that a bootstrap succeeds (`bootstrap_persistence_safely` suppresses
every error and the process serves on), or that anybody asks a process for
something. `EventuallyIndexed` therefore allows chunks to stay raw for ever
when the processes that have not constructed their services since they started
(`Silent`) are from some time on the same ones, and at least one; without this
escape TLC finds the behaviour in which the process that wrote the chunks dies
and its next bootstrap fails or never comes. In `Bootstrap` a bootstrap that was
begun goes on (`WF` of `Advance`), and nobody has to ask for one: `NoEndlessRetry`
says that the ones that are asked for do not go on failing. `GatewayRequest` has
no fairness: that a request ends is the shape of its handler. Faults are never fair. The breakers and the quota
have no liveness property: a request ends after as many steps as there are
providers.

## What is proved

TLAPS checks the following for every value of the constants that satisfies the
assumptions named in the modules: any number of jobs, tenants, processes and
providers, any limits, calendars and mixes of faults.

**EvalQueue.** `TypeCorrect`, `NeverStuck`, `OutcomesBacked`, `ResultsAtomic`,
`Implements` and `NothingLost`. The committed rows alone do not carry the proof, since a commit
copies columns out of a session that may be arbitrarily old. The invariant is in
parts: `Shaped`, the types; `SessionsSound`, that a row a session will write has a
new status that is neither PROCESSING nor ABSENT, and an outcome only when the
session evaluates jobs, and that a failure handler names a real job; `Tables`,
that no committed row is PROCESSING and every outcome is that of the last result;
and `SessionsKnown`, that every job a session refers to is in the table. With it a commit that writes the status of a row is one of the moves of
`EvalLifecycle`, and one that leaves the status alone (because it equals the
loaded one) leaves the results alone too: that case is why `Merged` treats a
`process` session apart, whose flushed PROCESSING makes the final status differ.

`NoSilentLoss` is not inductive, because its `InHand` counts every session that
refers to a job and not each of them moves the job on: a backfill that is the victim
of a deadlock is published again without naming its jobs, and a session that loaded
the row before a requeue leaves its status alone. `PendingHeld` counts those that do
(`Holds`; or the job was `dropped`, as its one exception says): a task of the job itself, and a process that has such a task, is about to
publish one, or loaded the job as PENDING. `SessionsWork` says that a session for one
job works on that job only, has flushed it when it commits, and makes it PENDING only
for a requeue, whose dispatch follows. A victim of a deadlock has a lock and waits
for one, so among the sessions for one job it is an evaluation, which is retried,
dropped or given up by name. A batch whose retry is refused drops no job: each of
its jobs is still held by a task or a process of its own.

`EvalQueueWorkersProofs` counts. `OneResultEach` says that workers that overlap give a
job one result each at most (`OneResultPerWorker`). Its invariant, `OneEach`, says of each
job that what any session is about to write settles it, that a job with a result is
settled, so that no worker starts on it again, and that its results and the workers
that still evaluate it are together no more than the workers. Only a requeue, an outage whose record is written late, or a
judge that raises makes a job runnable again, and the property leaves these out;
crashes, database errors and late failure handlers do not.

`OnceEvaluated`, `ColumnsAgree`, `FailedStays` and `BackfillsDue` have the hypothesis
`OneAtATime`: one worker process, one API process or one requeue, and no fault of
the broker or of a commit's confirmation. The instance of `queue_one_worker`
satisfies it; crashes, database errors, judge errors, Celery retries, backfills
and dead letters remain, for any number of jobs and any limits. The invariant,
`InTurn`, says that the sessions are in step with the tables: a job is in the hands
of one session, whose loaded row is the committed one, runnable for a worker and
FAILED for a requeue; a task that is about to be given up names a job that is still
runnable; and a job with a result has its outcome. A commit then overwrites nothing
it has not seen, and FAILED, which is not runnable, is met by a requeue only. Each
hypothesis is needed: TLC finds a counterexample in `EvalQueueOneWorker.cfg` with a second
worker (two evaluations of one job overlap), with a broker that fails (a publication
that arrived all the same leaves its record to be written under an evaluation), with an
unconfirmed commit (the job is committed, and its task retried), and with two API
processes that requeue one job together. Both proofs use `StepMoves`, which says
once what a step may be: a process rests, opens a session, works inside it, or
commits.

**CircuitBreaker.** `TypeCorrect`, `OpensJustified`, `FailoverFinds`,
`ClosesByOverlap`, `AloneOpensOnTime` and `AloneClosesOnTime`. `OpenJustified`
speaks of Redis and the copies, but a record is also under way in a process that
has read and not yet written; the invariant `RecordsInv` says of all three places
that the failures of the record are failures that were counted
(`RecordsGenuine`), and that none of them is in the future (`FailuresPast`). A new
opening then takes its failures from one window. `FailoverFinds` rests on
`HealthyInv`: a healthy provider's record is `Closed` in every place, and a
request that may go anywhere keeps it among its candidates until it is called.
`ClosesByOverlap` rests on `CooldownInv`: no two failures are counted at one instant, so
records of one opening time, in Redis, in the copies and in processes about to write,
have the same cooldown (`SameCooldown`), and a key of Redis outlives the cooldown of
its record (`KeysLast`). The two theorems about a process that works alone add
`Alone` to it: the copy and the key of Redis say the same, or the key is gone and the
copy's cooldown with it (`Echo`), so that whichever is read, the process reads its
own record; the failures in it are those of the window that count, or will be once
the record on its way is written (`Fits`); and a call is under way only at a
breaker that is not open.

**TenantQuota.** `TypeCorrect`, `SpendsExact`, `ChargesFindRow`, and in
`TenantQuotaSpendProofs` `SpendsBacked`, `OverspendsBounded`, `RefusalsRight`. The invariant adds `Sound` to
`SpendExact`: a session's row agrees with the row it loaded in every column it has
not sent; its spend is the loaded one plus what it added when the period is still
the loaded one, and just what it added after a reset; and it has written nothing
without holding the row, so at most one session has. When the loaded row is still
the committed one, the commit therefore moves the spend by what the observer moves
by, and resets it exactly when the observer is reset.

The bounds count what the processes have under way (`SpendInv`). `SpendBacked` alone
is not inductive, since a charge comes after its invoice: `Backed` says that the row,
and the row in every session, leaves room for what is invoiced and not charged
yet. That is a sum over processes; it is the cardinality of a set, `Owed`, with one
element for each unit of cost. `Room` bounds the overspend by one call of each process
that is not admitted: a process that is let through takes its call from the bound
while the spend is below the budget, and gives it back when it is charged. `MonthsKept`
says that without overlaps the row's month never goes back behind what a session
has loaded, so a refusal is judged on the month of the request or a later one. The
set is finite because there are finitely many processes (`FiniteAssumption`).

**Documents.** `TypeCorrect`, `ReferencesStay`, `FailClosed`, `LastScanStands`,
`StaysDeleted`. A commit may meet a row its session has never seen, so `Inv` adds
`SessionsSound`, what an open session can still rely on: the documents it works on
were created; those a search selected belong to its tenant and were found clean
(they may be gone, which the foreign keys catch); and a scan session in whose time
no other scan was committed has loaded the status as it still is, unless the
document was deleted. The last is what `LastScanDecides` needs when a commit
writes nothing.

**GatewayRequest.** `TypeCorrect`, `NothingIsHalfDone`, `BlockedStays`,
`PurgesOnlyExpired` and `Implements`. The records are spread over seven tables, so
the invariant goes through the handlers: what a handler is about to do says which
records its request has (`HandlersSound`, with `StageOf`), and a request is in one
hand only (`Alone`), so that nobody else moves them on. The purge is outside of
this: `Stage` does not look at the body, and what a purge has loaded is due and
stays due or is purged by another (its part of the invariant). A commit is then
the next step of `RequestLedger`, and a purge a stutter.

**Bootstrap.** `TypeCorrect`, `SchemaIsReady`, `RouterIsComplete`. Tables, columns and
provider rows are never taken away, so what a process once saw stays true: the
invariant says for each step that a process has reached what the database holds
at least (`Known`, `Complete`, `Loaded`). A step of its own adds what it saw missing;
a step of another process can only make it fail. For the router, a process that
has completed a bootstrap is one since whose seeding no row can be missing or
named by its retired model (`Served`).

Only model-checked: liveness, which is out of the prover's reach with its
`ENABLED` (`Settles`, `EventuallyIndexed`, `NoEndlessRetry`). Every other property of a
passing run is stated by a theorem.

## Where documents and code differ

1. A job whose evaluation raised waits in RETRY for a backfill that only an
   administrator starts (`queue_unattended`).
2. A dead letter can refer to a job that the requeue endpoint refuses, because
   the dead letter and the FAILED status are two transactions
   (`queue_dead_letter`).
3. After the 120 second cooldown of a rate limit the failures that opened the
   breaker have left the 60 second window, and a failed probe does not open it
   again (`breaker_probe`).
4. An evaluation that spans the end of a month sets the new month's spend back
   to zero (`quota_month_end`).

Each is quoted with its lines under `findings` in `PROJECT.json`. Others follow
from the models and have no run of their own:

- a task that fails, if only as the victim of a deadlock, and whose Celery retry the
  broker refuses leaves a PENDING job with no task and no dead letter, because the
  task was acknowledged before it ran and a rejected task does not run `on_failure`
  (`dropped` in `NoSilentLoss`); a backfill still finds the job;
- with several workers a job can be evaluated twice, and its `attempt_count` can lose
  an increment (with one worker, `EvaluatedOnce` and `RowConsistent`);
- with several workers a FAILED job can become COMPLETED, SKIPPED or RETRY with no
  requeue: a worker that loaded it earlier writes its own status over it. Every
  outcome is still backed by a result, and with one worker it cannot happen
  (`FailedIsTerminal` in `queue_one_worker`);
- with several processes an open breaker may be closed before its cooldown is over
  by a record computed from an older one, and more than one request probes a
  provider;
- a malware result does not always quarantine: a session that loaded QUARANTINED
  writes nothing, and a clean result committed meanwhile stays. `LastScanDecides`
  leaves out documents of which two scan sessions overlapped;
- a quarantined document can be deleted, where the specification has it
  "preserved for forensics, not deleted" (`CommitDelete` has no guard on the
  status).

- the purge clears `audit_logs.response_redacted` only, and nothing schedules it (the
  specification has a Celery beat job that "clears expired persisted response
  bodies"); the text of an answer stays in `eval_jobs.completion_text`, and the raw
  prompt in `retrieval_runs.query_text`;
- a request that names an unknown provider is answered 422 without an audit row
  (`invalid` in `Proper`), and so is one that dies before its first commit;
- a router that is built before the providers are seeded, or while the database
  does not answer, keeps the built-in list until its process ends; one that is built
  when an operator has disabled every provider uses all of them
  (`ProviderConfigs`);
- the seeding renames a model by what it loaded, and overwrites one that an
  operator has chosen in between (`Renamed`), although it is written to leave custom
  choices alone (`core/db.py`, line 396);
- `alembic upgrade head` fails on a database that a process has bootstrapped
  (`Migrate`), and the migration alone lacks the native columns until a process
  starts; `reconcile_schema` does not look for every mapped column
  (`tenant_quotas.updated_at`, for one), and a schema without such a column stays
  without it.

## What is not modelled

- the wording of errors, log records, metrics, prompts, completions and payloads;
- the judge's scores, the providers' protocols, the encryption of keys and the
  verification of tokens: calls of libraries with no state of their own;
- `worker_token`, which is always that of the task's own job unless a row comes
  from an older schema; `InlineEvalWorker`, which runs the same functions in the
  API process, for tests; `upsert_quota`, which only tests call;
- the frontend, and the endpoints that only read;
- the windows in which a text is cut into chunks, the embedding, the scores and
  snippets of retrieval, and the patterns of the policy engine: data on one request that no other step reads.

## Plan

Done: the evaluation queue, the breakers, the quota, the documents, the gateway
handler with the purge, and the bootstrap, each with its theorems. Left:

1. `worker_token` of jobs from an older schema in the queue: two requeues of one such
   job may each write a token, and the task with the first finds no job.
