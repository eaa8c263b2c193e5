------------------------------ MODULE TenantQuota ------------------------------
(***************************************************************************)
(* The tenant_quotas row of one tenant and the sessions that read and      *)
(* write it (core/evaluation.py): API processes that check the monthly     *)
(* budget before a model call and record its cost afterwards, on the path  *)
(* of POST /gateway/complete (api/v1/routes/gateway.py), and workers that  *)
(* pay for evaluations out of the daily budget.  The row is created by the *)
(* first session that misses it, and its two spends are set back to zero   *)
(* by the first session of a new day or month that loads it.               *)
(*                                                                         *)
(* PostgreSQL at READ COMMITTED behind SQLAlchemy sessions: no session     *)
(* locks the row by reading it, an UPDATE names the columns whose value    *)
(* the session changed, and holds the row until the commit.                *)
(*                                                                         *)
(* Data left out: prompts, documents and completions; amounts are whole    *)
(* numbers, an evaluation costs one.  The tables the handler writes beside *)
(* the row matter for the cost of the model_invocations only; which jobs a *)
(* worker evaluates is EvalQueue's subject.                                *)
(***************************************************************************)
EXTENDS Integers, FiniteSets

CONSTANTS
  Processes,      \* API processes: each runs one handler at a time
  Workers,        \* evaluation workers
  MonthlyBudget,  \* monthly_llm_budget_usd
  DailyBudget,    \* daily_eval_budget_usd
  Costs,          \* what model calls cost
  MaxCost,        \* no model call costs more
  DaysInMonth,    \* the calendar: every month has as many days
  Faults,         \* the kinds of fault an instance may meet
  MaxDay,         \* bound: the calendar
  MaxInvoiced,    \* bound: a model is called only while its invoices are below
  MaxDaily        \* bound: a worker pays only while the daily spend is below

ASSUME ProcessAssumption == Processes \cap Workers = {}
ASSUME FiniteAssumption == IsFiniteSet(Processes)
ASSUME SettingsAssumption ==
  /\ {MonthlyBudget, DailyBudget, MaxCost} \subseteq Nat
  /\ Costs \subseteq 0 .. MaxCost
  /\ DaysInMonth \in Nat \ {0}
ASSUME BoundAssumption ==
  /\ Faults \subseteq {"crash", "judge", "provider"}
  /\ {MaxDay, MaxInvoiced, MaxDaily} \subseteq Nat

VARIABLES
  today,      \* the date
  quota,      \* the tenant_quotas row, as committed
  proc,       \* what each process is doing, and its open session
  invoiced,   \* the cost_usd of the model_invocations rows, summed
  charged,    \* observer: costs recorded since the row's month began
  evaluated,  \* observer: evaluations paid since the row's day began
  overlapped  \* observer: a session wrote a row it had not loaded last

vars == <<today, quota, proc, invoiced, charged, evaluated, overlapped>>
observed == <<charged, evaluated, overlapped>>

-----------------------------------------------------------------------------
(* The row. *)

MonthOf(day) == day \div DaysInMonth

Columns == {"daily", "day", "monthly", "month"}
Quota == [daily : Nat, day : Nat, monthly : Nat, month : Nat]

\* In place of a row that is not there.
NoQuota == [daily |-> 0, day |-> -1, monthly |-> 0, month |-> -1]

\* The defaults of a new row.
NewQuota == [daily |-> 0, day |-> today, monthly |-> 0, month |-> MonthOf(today)]

ResetDaily(row, day) ==
  IF row.day >= day THEN row ELSE [row EXCEPT !.daily = 0, !.day = day]

\* Mutant: the row's own month counts as past.
ResetMonthly_Always(row, day) ==
  IF row.month > MonthOf(day) THEN row
  ELSE [row EXCEPT !.monthly = 0, !.month = MonthOf(day)]

\* Mutant: the reset is missing.
ResetMonthly_Never(row, day) == row

ResetMonthly(row, day) ==
  IF row.month >= MonthOf(day) THEN row
  ELSE [row EXCEPT !.monthly = 0, !.month = MonthOf(day)]

Renewed(row, day) == ResetMonthly(ResetDaily(row, day), day)

\* Mutant: a budget that is just used up still admits a request.
OverBudget_Beyond(row) == row.monthly > MonthlyBudget

OverBudget(row) == row.monthly >= MonthlyBudget

\* The columns an UPDATE names.
Changed(old, new) == {c \in Columns : new[c] # old[c]}

-----------------------------------------------------------------------------
(* Processes. *)

Api == {"check", "checking", "decide", "call", "audit", "spend", "spending", "refuse"}
InSession == {"checking", "spending", "judging"}

\* day: the date the code took; cost: of the model call; loaded: the row as the
\* session read it; row: as the session has it now; written: the columns it has
\* sent to the database; added: what it has added to a spend.
Activity ==
  [pc : Api \union {"idle", "judging"}, day : Nat, cost : Nat, loaded : Quota \union {NoQuota},
   row : Quota \union {NoQuota}, written : SUBSET Columns, added : Nat]
Idle == [pc |-> "idle", day |-> 0, cost |-> 0, loaded |-> NoQuota, row |-> NoQuota,
         written |-> {}, added |-> 0]

Become(p, activity) == proc' = [proc EXCEPT ![p] = activity]
At(pc, day, cost) == [Idle EXCEPT !.pc = pc, !.day = day, !.cost = cost]
Opened(s, pc) == [s EXCEPT !.pc = pc, !.loaded = quota, !.row = quota]

\* No other session holds the row.
Free(p) == \A q \in Processes \union Workers : q # p => proc[q].written = {}

Init ==
  /\ today = 0
  /\ quota = NoQuota
  /\ proc = [p \in Processes \union Workers |-> Idle]
  /\ invoiced = 0 /\ charged = 0 /\ evaluated = 0
  /\ overlapped = FALSE

\* p's session commits: the columns in columns get their value in new, added
\* was added to the monthly spend and paid to the daily one.
CommitRow(p, new, columns, added, paid) ==
  /\ columns # {} => Free(p)
  /\ quota' = [c \in Columns |-> IF c \in columns THEN new[c] ELSE quota[c]]
  /\ charged' = (IF quota'.month = quota.month THEN charged ELSE 0) + added
  /\ evaluated' = (IF quota'.day = quota.day THEN evaluated ELSE 0) + paid
  /\ overlapped' = (overlapped \/ (columns # {} /\ proc[p].loaded # quota))

-----------------------------------------------------------------------------
(* POST /gateway/complete. *)

\* A request whose prompt is not blocked takes the date for the budget check.
Begin(p) ==
  /\ proc[p].pc = "idle"
  /\ Become(p, At("check", today, 0))
  /\ UNCHANGED <<today, quota, invoiced, observed>>

\* get_quota, record_model_spend: the session loads the row.
Load(p) ==
  /\ \/ proc[p].pc = "check" /\ Become(p, Opened(proc[p], "checking"))
     \/ proc[p].pc = "spend" /\ Become(p, Opened(proc[p], "spending"))
  /\ UNCHANGED <<today, quota, invoiced, observed>>

\* The session missed the row and inserts one; when another session did so in
\* between, the primary key is violated and the request or the task fails.
Insert(p) ==
  /\ proc[p].pc \in InSession /\ proc[p].row = NoQuota
  /\ Free(p)
  /\ Become(p, IF quota = NoQuota
                 THEN [proc[p] EXCEPT !.row = NewQuota, !.written = Columns]
                 ELSE Idle)
  /\ UNCHANGED <<today, quota, invoiced, observed>>

\* Mutant: the check leaves the new row to whoever needs it next.
CommitCheck_ReadOnly(p) ==
  /\ proc[p].pc = "checking" /\ proc[p].row # NoQuota
  /\ Become(p, At("decide", proc[p].day, 0))
  /\ UNCHANGED <<today, quota, invoiced, observed>>

\* get_quota commits the resets.
CommitCheck(p) ==
  /\ proc[p].pc = "checking" /\ proc[p].row # NoQuota
  /\ LET s == proc[p]
         new == Renewed(s.row, s.day)
     IN  CommitRow(p, new, s.written \union Changed(s.row, new), 0, 0)
  /\ Become(p, At("decide", proc[p].day, 0))
  /\ UNCHANGED <<today, invoiced>>

\* The commit expired the row: the budget is judged on what is read now.
Decide(p) ==
  /\ proc[p].pc = "decide"
  /\ Become(p, At(IF OverBudget(quota) THEN "refuse" ELSE "call", 0, 0))
  /\ UNCHANGED <<today, quota, invoiced, observed>>

\* Mutant: the handler forgets that the answer is yet to be recorded.
AfterCall_Spend == "spend"

\* Where the handler goes with an answer: it is recorded before it is charged.
AfterCall == "audit"

\* After the retrieval run the model answers, or there is no answer: the refusal
\* is audited without an invocation, or, for an unknown provider, not at all.
Call(p) ==
  /\ proc[p].pc = "call" /\ invoiced < MaxInvoiced
  /\ \/ \E cost \in Costs : Become(p, At(AfterCall, 0, cost))
     \/ "provider" \in Faults /\ Become(p, Idle)
  /\ UNCHANGED <<today, quota, invoiced, observed>>

\* record_gateway_call: audit row and invocation, one commit.  Then the eval job
\* is committed, and the date is taken for the spend.
Audit(p) ==
  /\ proc[p].pc = "audit"
  /\ invoiced' = invoiced + proc[p].cost
  /\ Become(p, At("spend", today, proc[p].cost))
  /\ UNCHANGED <<today, quota, observed>>

\* record_model_spend commits the resets and the new spend; the job is dispatched
\* and the answer returned.
CommitSpend(p) ==
  /\ proc[p].pc = "spending" /\ proc[p].row # NoQuota
  /\ LET s == proc[p]
         renewed == Renewed(s.row, s.day)
         new == [renewed EXCEPT !.monthly = @ + s.cost]
     IN  CommitRow(p, new, s.written \union Changed(s.row, new), s.cost, 0)
  /\ Become(p, Idle)
  /\ UNCHANGED <<today, invoiced>>

\* The refusal is audited.
Refuse(p) ==
  /\ proc[p].pc = "refuse"
  /\ Become(p, Idle)
  /\ UNCHANGED <<today, quota, invoiced, observed>>

-----------------------------------------------------------------------------
(* Evaluations. *)

\* A worker's session loads the row, and takes the date of its first evaluation.
Open(w) ==
  /\ proc[w].pc = "idle"
  /\ Become(w, Opened([Idle EXCEPT !.day = today], "judging"))
  /\ UNCHANGED <<today, quota, invoiced, observed>>

\* The worker's session flushes new in place of its row and takes the date of its
\* next evaluation.
Flush(w, new, added) ==
  LET columns == Changed(proc[w].row, new)
  IN  /\ columns # {} => Free(w)
      /\ Become(w, [proc[w] EXCEPT !.row = new, !.written = @ \union columns, !.added = added,
                                  !.day = today])

\* The end of an evaluation that was dated before its judge was called: it was
\* skipped (over budget or sampled out), the judge failed, or it is paid.  A forced
\* one does not ask for the daily budget.
Evaluate(w) ==
  /\ proc[w].pc = "judging" /\ proc[w].row # NoQuota
  /\ LET renewed == Renewed(proc[w].row, proc[w].day)
         added == IF renewed.day = proc[w].row.day THEN proc[w].added ELSE 0
     IN  \/ /\ renewed.daily >= DailyBudget \/ "judge" \in Faults
            /\ Flush(w, renewed, added)
         \/ \E forced \in BOOLEAN :
              /\ forced \/ renewed.daily < DailyBudget
              /\ renewed.daily < MaxDaily
              /\ Flush(w, [renewed EXCEPT !.daily = @ + 1], added + 1)
  /\ UNCHANGED <<today, quota, invoiced, observed>>

\* process_job, process_pending_jobs: one commit for all of them.
CommitEvaluations(w) ==
  /\ proc[w].pc = "judging" /\ proc[w].row # NoQuota
  /\ CommitRow(w, proc[w].row, proc[w].written, 0, proc[w].added)
  /\ Become(w, Idle)
  /\ UNCHANGED <<today, invoiced>>

-----------------------------------------------------------------------------

\* Mutant: the session is not closed, and keeps what it holds.
Abandoned_Open(p) == [proc[p] EXCEPT !.pc = "idle"]

\* What is left of an activity that dies or raises.
Abandoned(p) == Idle

\* A process dies, or an error of the database ends its request or its task.
Abandon(p) ==
  /\ "crash" \in Faults
  /\ proc[p].pc # "idle"
  /\ Become(p, Abandoned(p))
  /\ UNCHANGED <<today, quota, invoiced, observed>>

Midnight ==
  /\ today < MaxDay
  /\ today' = today + 1
  /\ UNCHANGED <<quota, proc, invoiced, observed>>

Handle(p) ==
  \/ Begin(p) \/ Load(p) \/ CommitCheck(p) \/ Decide(p) \/ Refuse(p) \/ Call(p)
  \/ Audit(p) \/ CommitSpend(p)
Work(w) == Open(w) \/ Evaluate(w) \/ CommitEvaluations(w)

Next ==
  \/ \E p \in Processes : Handle(p)
  \/ \E w \in Workers : Work(w)
  \/ \E p \in Processes \union Workers : Insert(p) \/ Abandon(p)
  \/ Midnight

Spec == Init /\ [][Next]_vars

-----------------------------------------------------------------------------
(* Properties. *)

\* The row and the sessions have the shape of the schema; what is not in a
\* session holds nothing.
TypeOK ==
  /\ today \in Nat
  /\ quota \in Quota \union {NoQuota}
  /\ proc \in [Processes \union Workers -> Activity]
  /\ \A p \in Processes \union Workers :
       /\ proc[p].pc \notin InSession => proc[p].written = {} /\ proc[p].row = NoQuota
       /\ proc[p].pc # "idle" => (p \in Workers <=> proc[p].pc = "judging")
  /\ {invoiced, charged, evaluated} \subseteq Nat
  /\ overlapped \in BOOLEAN

\* As long as no session writes the row after another one changed it under its
\* hands, the two spends are exactly what was recorded in the row's month and
\* paid on its day, whatever dies in between.
SpendExact ==
  ~overlapped => quota.monthly = charged /\ quota.daily = evaluated

\* Under the same condition the spend of a month exceeds its budget by less
\* than one call of every process: the calls that had been let through already.
OverspendBounded ==
  ~overlapped /\ charged > 0
    => charged < MonthlyBudget + Cardinality(Processes) * MaxCost

\* However the sessions overlap, no tenant is charged for more than its
\* invocations in the audit log cost.
SpendBacked == quota.monthly <= invoiced

\* The race to create the row is over before anything is spent: whoever has
\* passed the budget check finds a row to charge, and no call that is paid for
\* fails on the primary key.
ChargeFindsRow ==
  \A p \in Processes :
    /\ proc[p].pc \in {"decide", "call", "audit", "spend", "spending", "refuse"} => quota # NoQuota
    /\ proc[p].pc = "spending" => proc[p].row # NoQuota

\* Under the condition of SpendExact a request is refused for its budget only
\* when the month that it came in, or a later one, has spent it.
RefusedOnlyWhenSpent ==
  [][\A p \in Processes :
       proc[p].pc = "decide" /\ proc'[p].pc = "refuse" /\ ~overlapped
         => charged >= MonthlyBudget /\ quota.month >= MonthOf(proc[p].day)]_vars

\* What was recorded in the row's month is in its spend.
SpendNotLost == quota.monthly >= charged
=============================================================================
