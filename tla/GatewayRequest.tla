---------------------------- MODULE GatewayRequest ----------------------------
(***************************************************************************)
(* One request of Sentinel RAG from end to end: POST /gateway/complete     *)
(* (api/v1/routes/gateway.py) with the records it leaves behind in its     *)
(* separate transactions, and the retention purge of the response bodies   *)
(* (core/audit.py, core/audit_tasks.py) that runs beside it.               *)
(*                                                                         *)
(* The handler never awaits, so an API process answers one request at a    *)
(* time; several processes share the tables.  Each action of it is one     *)
(* transaction, one call or the reply; a process may die, or the database  *)
(* end the request with an error, between any two of them.                 *)
(*                                                                         *)
(* Left to the other modules: the quota row (TenantQuota), the breakers    *)
(* (CircuitBreaker), the documents of a search (Documents), and what       *)
(* happens to the job once its row is there (EvalQueue).                   *)
(***************************************************************************)
EXTENDS Integers, FiniteSets

CONSTANTS
  Requests,   \* each is sent once
  Processes,  \* API processes
  Purgers,    \* Celery workers that run the purge
  TTL,        \* settings.audit_response_ttl_days
  MaxTime,    \* bound: the calendar
  MaxFaults   \* bound: crashes and database errors

ASSUME ProcessAssumption == Processes \cap Purgers = {}
ASSUME SettingsAssumption == {TTL, MaxTime, MaxFaults} \subseteq Nat

VARIABLES
  now,          \* the date
  fresh,        \* requests that nobody has sent yet
  handler,      \* what each API process is doing
  reply,        \* what the caller of a request was told
  runs,         \* requests with a retrieval_runs row
  audit,        \* their audit_logs rows
  violations,   \* those whose audit row has policy_violations
  invocations,  \* those with a model_invocations row
  jobs,         \* those with an eval_jobs row
  spent,        \* those whose cost was added to the tenant's spend
  sent,         \* those whose job dispatch_job has announced to the broker, or put off
  purger,       \* the audit rows a purge has loaded
  faults        \* faults so far

records == <<runs, audit, violations, invocations, jobs, spent, sent>>
vars == <<now, fresh, handler, reply, records, purger, faults>>

-----------------------------------------------------------------------------
(* Audit rows. *)

Decisions == {"allow", "allow_with_redactions", "block"}

Null == -1
\* body: response_redacted, kept or NULL; expires: response_expires_at.
AuditRow == [decision : Decisions, body : BOOLEAN, expires : Int]
NoAudit == [decision |-> "none", body |-> FALSE, expires |-> Null]

\* A row without a body never expires.
Expiry(body) == IF body THEN now + TTL ELSE Null

\* Mutant: rows that expire tomorrow are taken as well.
Expired_Early(r) == audit[r].body /\ audit[r].expires # Null /\ audit[r].expires <= now + 1

\* The rows the purge selects.
Expired(r) == audit[r].body /\ audit[r].expires # Null /\ audit[r].expires <= now

\* Mutant: only the body is cleared.
Purged_BodyOnly(row) == [row EXCEPT !.body = FALSE]

Purged(row) == [decision |-> row.decision, body |-> FALSE, expires |-> Null]

-----------------------------------------------------------------------------
(* The handler. *)

Steps ==
  {"check", "search", "call", "audit", "enqueue", "spend", "dispatch", "refuse", "reply"}
Verdicts == {"blocked", "overBudget", "unavailable"}
Answers == Verdicts \union {"invalid", "answered"}
\* request and decision: what is being answered; verdict: what its caller will be
\* told, as soon as that is known.
Activity ==
  [pc : Steps, request : Requests, decision : Decisions, verdict : Answers \union {"none"}]
Idle == [pc |-> "idle"]

At(pc, s) == [s EXCEPT !.pc = pc]
Refused(s, verdict) ==
  [pc |-> "refuse", request |-> s.request, decision |-> s.decision, verdict |-> verdict]
Replying(s, answer) ==
  [pc |-> "reply", request |-> s.request, decision |-> s.decision, verdict |-> answer]
Become(p, activity) == handler' = [handler EXCEPT ![p] = activity]
Doing(p, pc, r) == handler[p].pc = pc /\ handler[p].request = r
Answer(r, a) == reply' = [reply EXCEPT ![r] = a]

Fault == faults < MaxFaults /\ faults' = faults + 1

Init ==
  /\ now = 0
  /\ fresh = Requests
  /\ handler = [p \in Processes |-> Idle]
  /\ reply = [r \in Requests |-> "none"]
  /\ runs = {} /\ violations = {} /\ invocations = {}
  /\ jobs = {} /\ spent = {} /\ sent = {}
  /\ audit = [r \in Requests |-> NoAudit]
  /\ purger = [w \in Purgers |-> {}]
  /\ faults = 0

\* Mutant: a blocked prompt is handled like the others.
Begin_Unblocked(p, r, decision) ==
  /\ handler[p] = Idle
  /\ r \in fresh
  /\ fresh' = fresh \ {r}
  /\ Become(p, [pc |-> "check", request |-> r, decision |-> decision, verdict |-> "none"])
  /\ UNCHANGED <<now, reply, records, purger, faults>>

\* The policy engine looks at the prompt first; a blocked one is refused.
Begin(p, r, decision) ==
  /\ handler[p] = Idle
  /\ r \in fresh
  /\ fresh' = fresh \ {r}
  /\ LET s == [pc |-> "check", request |-> r, decision |-> decision, verdict |-> "none"]
     IN  Become(p, IF decision = "block" THEN Refused(s, "blocked") ELSE s)
  /\ UNCHANGED <<now, reply, records, purger, faults>>

\* is_monthly_budget_exceeded.
Check(p, r) ==
  /\ Doing(p, "check", r)
  /\ \/ Become(p, At("search", handler[p]))
     \/ Become(p, Refused(handler[p], "overBudget"))
  /\ UNCHANGED <<now, fresh, reply, records, purger, faults>>

\* retrieve commits its run.
Search(p, r) ==
  /\ Doing(p, "search", r)
  /\ runs' = runs \union {r}
  /\ Become(p, At("call", handler[p]))
  /\ UNCHANGED <<now, fresh, reply, audit, violations, invocations, jobs, spent, sent,
                 purger, faults>>

\* The router answers, every provider is unavailable, or the one that was asked
\* for does not exist, which is answered at once (422).
Call(p, r) ==
  /\ Doing(p, "call", r)
  /\ \/ Become(p, At("audit", handler[p]))
     \/ Become(p, Refused(handler[p], "unavailable"))
     \/ Become(p, Replying(handler[p], "invalid"))
  /\ UNCHANGED <<now, fresh, reply, records, purger, faults>>

\* record_gateway_call: one commit for the audit row and what refers to it.
Recorded(r, decision, body) ==
  /\ audit' = [audit EXCEPT ![r] =
       [decision |-> decision, body |-> body, expires |-> Expiry(body)]]
  /\ violations' = IF decision = "allow" THEN violations ELSE violations \union {r}
  /\ invocations' = IF body THEN invocations \union {r} ELSE invocations
  /\ UNCHANGED <<runs, jobs, spent, sent>>

\* A refusal is recorded without a body (403, 429, 503).
Refuse(p, r) ==
  /\ Doing(p, "refuse", r)
  /\ Recorded(r, handler[p].decision, FALSE)
  /\ Become(p, Replying(handler[p], handler[p].verdict))
  /\ UNCHANGED <<now, fresh, reply, purger, faults>>

\* The answer is redacted and recorded.
Audit(p, r) ==
  /\ Doing(p, "audit", r)
  /\ Recorded(r, handler[p].decision, TRUE)
  /\ Become(p, At("enqueue", handler[p]))
  /\ UNCHANGED <<now, fresh, reply, purger, faults>>

\* Mutant: the handler goes on to the dispatch and forgets the spend.
AfterEnqueue_Dispatch == "dispatch"

\* The job is announced last.
AfterEnqueue == "spend"

\* enqueue_gateway_evaluation.
Enqueue(p, r) ==
  /\ Doing(p, "enqueue", r)
  /\ jobs' = jobs \union {r}
  /\ Become(p, At(AfterEnqueue, handler[p]))
  /\ UNCHANGED <<now, fresh, reply, runs, audit, violations, invocations, spent, sent,
                 purger, faults>>

\* record_model_spend.
Spend(p, r) ==
  /\ Doing(p, "spend", r)
  /\ spent' = spent \union {r}
  /\ Become(p, At("dispatch", handler[p]))
  /\ UNCHANGED <<now, fresh, reply, runs, audit, violations, invocations, jobs, sent,
                 purger, faults>>

\* dispatch_job announces the job or, when the broker fails, puts it off; the
\* caller gets the answer in both cases.
Dispatch(p, r) ==
  /\ Doing(p, "dispatch", r)
  /\ sent' = sent \union {r}
  /\ Become(p, Replying(handler[p], "answered"))
  /\ UNCHANGED <<now, fresh, reply, runs, audit, violations, invocations, jobs, spent,
                 purger, faults>>

\* The caller is told: the response, or the status of the HTTPException.
Reply(p, r) ==
  /\ Doing(p, "reply", r)
  /\ Become(p, Idle)
  /\ Answer(r, handler[p].verdict)
  /\ UNCHANGED <<now, fresh, records, purger, faults>>

\* The database ends a request with an error (500); what was committed stays.  A
\* reply needs the database no more.
DatabaseError(p, r) ==
  /\ handler[p] # Idle /\ handler[p].request = r /\ handler[p].pc # "reply"
  /\ Fault
  /\ Become(p, Idle)
  /\ Answer(r, "error")
  /\ UNCHANGED <<now, fresh, records, purger>>

\* A process dies and is started again: its caller is told nothing.
Crash(p) ==
  /\ handler[p] # Idle
  /\ Fault
  /\ Become(p, Idle)
  /\ UNCHANGED <<now, fresh, reply, records, purger>>

-----------------------------------------------------------------------------
(* purge_expired_response_bodies. *)

\* The session loads the rows that are expired by now; there may be none.
LoadPurge(w) ==
  /\ purger[w] = {}
  /\ purger' = [purger EXCEPT ![w] = {r \in Requests : Expired(r)}]
  /\ UNCHANGED <<now, fresh, handler, reply, records, faults>>

\* Mutant: the whole row goes, and with it what refers to it.
CommitPurge_Rows(w) ==
  /\ purger[w] # {}
  /\ audit' = [r \in Requests |-> IF r \in purger[w] THEN NoAudit ELSE audit[r]]
  /\ purger' = [purger EXCEPT ![w] = {}]
  /\ UNCHANGED <<now, fresh, handler, reply, runs, violations, invocations, jobs, spent, sent,
                 faults>>

\* One commit for all of them, whoever else has purged them meanwhile.
CommitPurge(w) ==
  /\ purger[w] # {}
  /\ audit' = [r \in Requests |-> IF r \in purger[w] THEN Purged(audit[r]) ELSE audit[r]]
  /\ purger' = [purger EXCEPT ![w] = {}]
  /\ UNCHANGED <<now, fresh, handler, reply, runs, violations, invocations, jobs, spent, sent,
                 faults>>

\* The worker dies, or the database undoes the purge.
PurgeFails(w) ==
  /\ purger[w] # {}
  /\ Fault
  /\ purger' = [purger EXCEPT ![w] = {}]
  /\ UNCHANGED <<now, fresh, handler, reply, records>>

NextDay ==
  /\ now < MaxTime
  /\ now' = now + 1
  /\ UNCHANGED <<fresh, handler, reply, records, purger, faults>>

-----------------------------------------------------------------------------
Handle(p) ==
  \E r \in Requests :
    \/ Check(p, r) \/ Search(p, r) \/ Call(p, r) \/ Refuse(p, r) \/ Audit(p, r)
    \/ Enqueue(p, r) \/ Spend(p, r) \/ Dispatch(p, r) \/ Reply(p, r)

Next ==
  \/ \E p \in Processes, r \in Requests, decision \in Decisions : Begin(p, r, decision)
  \/ \E p \in Processes : Handle(p) \/ Crash(p)
  \/ \E p \in Processes, r \in Requests : DatabaseError(p, r)
  \/ \E w \in Purgers : LoadPurge(w) \/ CommitPurge(w) \/ PurgeFails(w)
  \/ NextDay

Spec == Init /\ [][Next]_vars

-----------------------------------------------------------------------------
(* Properties. *)

\* The tables and the sessions have the shape of the schema, and a row has an
\* expiry exactly as long as it has a body.
TypeOK ==
  /\ now \in Nat /\ faults \in Nat
  /\ fresh \subseteq Requests
  /\ handler \in [Processes -> Activity \union {Idle}]
  /\ reply \in [Requests -> Answers \union {"none", "error"}]
  /\ audit \in [Requests -> AuditRow \union {NoAudit}]
  /\ {runs, violations, invocations, jobs, spent, sent} \subseteq SUBSET Requests
  /\ \A r \in Requests : audit[r].body <=> audit[r].expires # Null
  /\ purger \in [Purgers -> SUBSET Requests]

InHand(r) == \E p \in Processes : handler[p] # Idle /\ handler[p].request = r

\* Without faults no request is left half done: what is no longer in hand was
\* told a proper reply, and a model call that answered is on the audit log,
\* paid for, to be evaluated, and returned to the caller.
NothingHalfDone ==
  faults = 0 => \A r \in Requests \ fresh :
    \/ InHand(r)
    \/ reply[r] \in Verdicts /\ audit[r] # NoAudit /\ r \notin invocations
    \/ reply[r] = "invalid" /\ audit[r] = NoAudit
    \/ reply[r] = "answered" /\ r \in runs \intersect invocations \intersect jobs \intersect spent

\* A blocked prompt goes nowhere but to the audit log, where its violations
\* are: no document is searched for it, no model sees it and nothing is paid,
\* even when its request dies on the way.
BlockedGoesNowhere ==
  \A r \in Requests :
    /\ audit[r].decision = "block" =>
         r \in violations /\ r \notin runs \union invocations \union jobs \union spent
    /\ \A p \in Processes :
         handler[p] # Idle /\ handler[p].request = r /\ handler[p].decision = "block"
           => r \notin runs

\* Whatever purges overlap or die: a body is kept until its day, the columns are
\* cleared together, and the rest of the row stays.
PurgedOnlyExpired ==
  [][\A r \in Requests : audit[r] # NoAudit /\ audit'[r] # audit[r] =>
       /\ audit[r].expires # Null /\ audit[r].expires <= now
       /\ audit'[r] = Purged(audit[r])]_vars

-----------------------------------------------------------------------------
(* The records as their readers see them. *)

\* How far the records of r go.
Stage(r) ==
  LET searched == r \in runs
      audited == audit[r] # NoAudit
      called == r \in invocations
      later == r \in jobs \union spent \union sent
  IN  CASE ~audited /\ ~called /\ ~later -> IF searched THEN "searched" ELSE "nothing"
        [] audited /\ ~called /\ ~later  -> IF searched THEN "unanswered" ELSE "refused"
        [] searched /\ audited /\ called /\ ~later -> "answered"
        [] searched /\ audited /\ called /\ r \in jobs \ (spent \union sent) -> "queued"
        [] searched /\ audited /\ called /\ r \in (jobs \intersect spent) \ sent -> "charged"
        [] searched /\ audited /\ called /\ r \in jobs \intersect spent \intersect sent -> "sent"
        [] OTHER -> "broken"

Ledger == INSTANCE RequestLedger WITH stage <- [r \in Requests |-> Stage(r)]

\* The handler implements RequestLedger: its records are a beginning of the
\* complete set whatever dies, and the purge, the queue and other requests
\* take nothing away from them.
LedgerSpec == Ledger!Spec
=============================================================================
