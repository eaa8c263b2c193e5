--------------------------- MODULE TenantQuotaProofs ---------------------------
(* Theorems about TenantQuota: its type invariant, and that the two spends are *)
(* exact as long as no session writes over another one's change.               *)
EXTENDS TenantQuota, TLAPS

USE ProcessAssumption, SettingsAssumption, BoundAssumption

-----------------------------------------------------------------------------
(* The row. *)

\* A month has a number.
LEMMA Months == ASSUME NEW day \in Nat PROVE MonthOf(day) \in Nat
  BY DEF MonthOf

\* A row is one of the table's, or the one that stands for none.
LEMMA NoRow ==
  /\ NoQuota \notin Quota
  /\ \A row \in Quota \union {NoQuota} :
       row.daily \in Nat /\ row.monthly \in Nat /\ row.day \in Int /\ row.month \in Int
  BY DEF NoQuota, Quota

\* Each spend is kept with its period, or zero in a later one.
LEMMA DailyReset ==
  ASSUME NEW row \in Quota, NEW day \in Nat
  PROVE  /\ ResetDaily(row, day) \in Quota
         /\ ResetDaily(row, day).month = row.month /\ ResetDaily(row, day).monthly = row.monthly
         /\ \/ ResetDaily(row, day).day = row.day /\ ResetDaily(row, day).daily = row.daily
            \/ ResetDaily(row, day).day > row.day /\ ResetDaily(row, day).daily = 0
  <1>1. row.day \in Nat
    BY DEF Quota
  <1>2. CASE row.day >= day
    BY <1>2 DEF ResetDaily
  <1>3. CASE ~(row.day >= day)
    <2> DEFINE reset == [row EXCEPT !.daily = 0, !.day = day]
    <2>1. reset \in Quota /\ reset.day = day /\ reset.daily = 0
          /\ reset.month = row.month /\ reset.monthly = row.monthly
      BY DEF Quota
    <2>2. ResetDaily(row, day) = reset
      BY <1>3 DEF ResetDaily
    <2> QED BY <1>1, <1>3, <2>1, <2>2
  <1> QED BY <1>2, <1>3

LEMMA MonthlyReset ==
  ASSUME NEW row \in Quota, NEW day \in Nat
  PROVE  /\ ResetMonthly(row, day) \in Quota
         /\ ResetMonthly(row, day).day = row.day /\ ResetMonthly(row, day).daily = row.daily
         /\ \/ /\ ResetMonthly(row, day).month = row.month
               /\ ResetMonthly(row, day).monthly = row.monthly
            \/ /\ ResetMonthly(row, day).month > row.month
               /\ ResetMonthly(row, day).monthly = 0
  <1>1. row.month \in Nat /\ MonthOf(day) \in Nat
    BY Months DEF Quota
  <1>2. CASE row.month >= MonthOf(day)
    BY <1>2 DEF ResetMonthly
  <1>3. CASE ~(row.month >= MonthOf(day))
    <2> DEFINE reset == [row EXCEPT !.monthly = 0, !.month = MonthOf(day)]
    <2>1. reset \in Quota /\ reset.month = MonthOf(day) /\ reset.monthly = 0
          /\ reset.day = row.day /\ reset.daily = row.daily
      BY <1>1 DEF Quota
    <2>2. ResetMonthly(row, day) = reset
      BY <1>3 DEF ResetMonthly
    <2> QED BY <1>1, <1>3, <2>1, <2>2
  <1> QED BY <1>2, <1>3

LEMMA Renewal ==
  ASSUME NEW row \in Quota, NEW day \in Nat
  PROVE  /\ Renewed(row, day) \in Quota
         /\ \/ Renewed(row, day).day = row.day /\ Renewed(row, day).daily = row.daily
            \/ Renewed(row, day).day > row.day /\ Renewed(row, day).daily = 0
         /\ \/ Renewed(row, day).month = row.month /\ Renewed(row, day).monthly = row.monthly
            \/ Renewed(row, day).month > row.month /\ Renewed(row, day).monthly = 0
  <1> DEFINE half == ResetDaily(row, day)
  <1>1. /\ half \in Quota
        /\ half.month = row.month /\ half.monthly = row.monthly
        /\ \/ half.day = row.day /\ half.daily = row.daily
           \/ half.day > row.day /\ half.daily = 0
    BY DailyReset
  <1>2. Renewed(row, day) = ResetMonthly(half, day)
    BY DEF Renewed
  <1> HIDE DEF half
  <1>3. /\ ResetMonthly(half, day) \in Quota
        /\ ResetMonthly(half, day).day = half.day /\ ResetMonthly(half, day).daily = half.daily
        /\ \/ /\ ResetMonthly(half, day).month = half.month
              /\ ResetMonthly(half, day).monthly = half.monthly
           \/ /\ ResetMonthly(half, day).month > half.month
              /\ ResetMonthly(half, day).monthly = 0
    BY <1>1, MonthlyReset
  <1> QED BY <1>1, <1>2, <1>3

\* The rows sessions start from.
LEMMA FirstRows ==
  /\ Idle \in Activity
  /\ Idle.pc = "idle" /\ Idle.row = NoQuota /\ Idle.loaded = NoQuota
  /\ Idle.written = {} /\ Idle.added = 0
  BY DEF Idle, Activity, NoQuota

LEMMA NewRow == ASSUME today \in Nat PROVE NewQuota \in Quota
  BY Months DEF NewQuota, Quota

LEMMA SetDown ==
  ASSUME NEW pc \in Api, NEW day \in Nat, NEW cost \in Nat
  PROVE  /\ At(pc, day, cost) \in Activity
         /\ At(pc, day, cost).pc = pc /\ At(pc, day, cost).row = NoQuota
         /\ At(pc, day, cost).loaded = NoQuota /\ At(pc, day, cost).written = {}
         /\ At(pc, day, cost).added = 0
  BY DEF At, Idle, Activity, NoQuota

\* What a commit leaves is a row of the table.
LEMMA Merge ==
  ASSUME quota \in Quota \union {NoQuota}, NEW new \in Quota, NEW columns \in SUBSET Columns,
         quota = NoQuota => columns = Columns
  PROVE  /\ [c \in Columns |-> IF c \in columns THEN new[c] ELSE quota[c]] \in Quota
  BY DEF Quota, Columns, NoQuota

-----------------------------------------------------------------------------
(* The inductive invariant. *)

\* What a session has made of the row it loaded: columns it did not send are as
\* loaded, a spend is the loaded one and what it added while its period is the
\* same, and only what it added once the period is a later one.
SessionSound(s) ==
  /\ s.loaded = NoQuota => s.row = NoQuota \/ s.written = Columns
  /\ s.row = NoQuota => s.loaded = NoQuota
  /\ s.pc # "judging" => s.added = 0
  /\ \A c \in Columns \ s.written : s.row[c] = s.loaded[c]
  /\ \/ s.row.day = s.loaded.day /\ s.row.daily = s.loaded.daily + s.added
     \/ s.row.day > s.loaded.day /\ s.row.daily = s.added
  /\ \/ s.row.month = s.loaded.month /\ s.row.monthly = s.loaded.monthly
     \/ s.row.month > s.loaded.month /\ s.row.monthly = 0

\* s may be what p is doing.
Fits(p, s) ==
  /\ s \in Activity
  /\ s.pc \notin InSession => s.written = {} /\ s.row = NoQuota
  /\ s.pc # "idle" => (p \in Workers <=> s.pc = "judging")
  /\ SessionSound(s)

All == Processes \union Workers

Sound ==
  /\ today \in Nat
  /\ quota \in Quota \union {NoQuota}
  /\ proc \in [All -> Activity]
  /\ {invoiced, charged, evaluated} \subseteq Nat
  /\ overlapped \in BOOLEAN
  /\ \A p \in All : Fits(p, proc[p])
  /\ \A p \in All : proc[p].loaded # NoQuota => quota # NoQuota

Inv == Sound /\ SpendExact

LEMMA SoundTypes == ASSUME Sound PROVE TypeOK
  BY DEF Sound, TypeOK, Fits, All

\* One process moves on.
LEMMA Moves ==
  ASSUME Sound, NEW p \in All, NEW s, Fits(p, s), Become(p, s)
  PROVE  /\ proc' \in [All -> Activity]
         /\ \A q \in All : Fits(q, proc'[q])
         /\ proc'[p] = s
         /\ \A q \in All : q # p => proc'[q] = proc[q]
  <1>1. proc' = [proc EXCEPT ![p] = s] /\ proc \in [All -> Activity] /\ s \in Activity
    BY DEF Become, Sound, Fits
  <1>2. /\ proc' \in [All -> Activity]
        /\ proc'[p] = s
        /\ \A q \in All : q # p => proc'[q] = proc[q]
    BY <1>1
  <1>3. \A q \in All : Fits(q, proc[q])
    BY DEF Sound
  <1>4. ASSUME NEW q \in All PROVE Fits(q, proc'[q])
    <2>1. CASE q = p
      BY <1>2, <2>1
    <2>2. CASE q # p
      BY <1>2, <1>3, <2>2
    <2> QED BY <2>1, <2>2
  <1> QED BY <1>2, <1>4

\* A step that leaves the row alone.
LEMMA Quiet ==
  ASSUME Inv, NEW p \in All, NEW s, Fits(p, s), Become(p, s),
         s.loaded # NoQuota => quota # NoQuota,
         today' = today, quota' = quota, UNCHANGED observed, invoiced' \in Nat
  PROVE  Inv'
  <1>1. Sound /\ SpendExact
    BY DEF Inv
  <1>2. /\ proc' \in [All -> Activity]
        /\ \A q \in All : Fits(q, proc'[q])
        /\ \A q \in All : proc'[q].loaded # NoQuota => quota # NoQuota
    BY <1>1, Moves DEF Sound
  <1>3. /\ today' \in Nat
        /\ quota' \in Quota \union {NoQuota}
        /\ {invoiced', charged', evaluated'} \subseteq Nat
        /\ overlapped' \in BOOLEAN
    BY <1>1 DEF Sound, observed
  <1>4. Sound'
    <2>1. (\A q \in All : Fits(q, proc[q]))'
      BY <1>2 DEF Fits, SessionSound, Activity, All, InSession, Api, Quota, NoQuota, Columns
    <2> QED BY <1>2, <1>3, <2>1 DEF Sound, All, Activity, Quota, NoQuota, Columns, Api
  <1>5. SpendExact'
    BY <1>1 DEF SpendExact, observed
  <1> QED BY <1>4, <1>5 DEF Inv

\* A session commits.
LEMMA Commits ==
  ASSUME Inv, NEW p \in All, NEW s, Fits(p, s), Become(p, s), s.loaded = NoQuota,
         NEW new \in Quota, NEW columns \in SUBSET Columns, NEW added \in Nat, NEW paid \in Nat,
         CommitRow(p, new, columns, added, paid),
         UNCHANGED <<today, invoiced>>,
         proc[p].loaded = NoQuota => columns = Columns,
         \A c \in Columns \ columns : new[c] = proc[p].loaded[c],
         \/ new.day = proc[p].loaded.day /\ new.daily = proc[p].loaded.daily + paid
         \/ new.day > proc[p].loaded.day /\ new.daily = paid,
         \/ new.month = proc[p].loaded.month /\ new.monthly = proc[p].loaded.monthly + added
         \/ new.month > proc[p].loaded.month /\ new.monthly = added
  PROVE  Inv' /\ quota' # NoQuota
  <1> DEFINE loaded == proc[p].loaded
             left == [c \in Columns |-> IF c \in columns THEN new[c] ELSE quota[c]]
  <1>1. Sound /\ SpendExact
    BY DEF Inv
  <1>2. /\ loaded \in Quota \union {NoQuota}
        /\ loaded # NoQuota => quota # NoQuota
        /\ quota \in Quota \union {NoQuota}
        /\ charged \in Nat /\ evaluated \in Nat /\ overlapped \in BOOLEAN
        /\ today \in Nat /\ invoiced \in Nat
    BY <1>1 DEF Sound, Fits, Activity
  <1>3. /\ quota' = left
        /\ charged' = (IF quota'.month = quota.month THEN charged ELSE 0) + added
        /\ evaluated' = (IF quota'.day = quota.day THEN evaluated ELSE 0) + paid
        /\ overlapped' = (overlapped \/ (columns # {} /\ loaded # quota))
    BY DEF CommitRow
  <1>4. left \in Quota
    BY <1>2, Merge
  <1>5. /\ charged' \in Nat /\ evaluated' \in Nat /\ overlapped' \in BOOLEAN
        /\ today' \in Nat /\ invoiced' \in Nat /\ quota' \in Quota
    BY <1>2, <1>3, <1>4
  <1>6. Sound'
    <2>1. /\ proc' \in [All -> Activity]
          /\ \A q \in All : Fits(q, proc'[q])
      BY <1>1, Moves
    <2>2. (\A q \in All : Fits(q, proc[q]))'
      BY <2>1 DEF Fits, SessionSound, Activity, All, InSession, Api, Quota, NoQuota, Columns
    <2>3. quota' # NoQuota
      BY <1>5, NoRow
    <2> QED
      BY <1>5, <2>1, <2>2, <2>3 DEF Sound, All, Activity, Quota, NoQuota, Columns, Api
  <1>7. SpendExact'
    <2>1. SUFFICES ASSUME ~overlapped'
                   PROVE  quota'.monthly = charged' /\ quota'.daily = evaluated'
      BY DEF SpendExact
    <2>2. /\ ~overlapped /\ (columns = {} \/ loaded = quota)
          /\ quota.monthly = charged /\ quota.daily = evaluated
      BY <1>1, <1>3, <2>1 DEF SpendExact
    <2>3. /\ new.day \in Nat /\ new.daily \in Nat /\ new.month \in Nat /\ new.monthly \in Nat
          /\ loaded.day \in Int /\ loaded.daily \in Nat /\ loaded.month \in Int /\ loaded.monthly \in Nat
      BY <1>2 DEF Quota, NoQuota
    <2>4. CASE columns = {}
      <3>1. /\ new.day = loaded.day /\ new.daily = loaded.daily
            /\ new.month = loaded.month /\ new.monthly = loaded.monthly
        BY <2>4 DEF Columns
      <3>2. added = 0 /\ paid = 0
        BY <2>3, <3>1
      <3>3. /\ quota'.month = quota.month /\ quota'.monthly = quota.monthly
            /\ quota'.day = quota.day /\ quota'.daily = quota.daily
        BY <1>3, <2>4 DEF Columns
      <3> QED BY <1>2, <1>3, <2>2, <3>2, <3>3
    <2>5. CASE loaded = quota
      <3>1. /\ left.month = new.month /\ left.monthly = new.monthly
            /\ left.day = new.day /\ left.daily = new.daily
        BY <2>5 DEF Columns
      <3>2. /\ quota'.month = new.month /\ quota'.monthly = new.monthly
            /\ quota'.day = new.day /\ quota'.daily = new.daily
        BY <1>3, <3>1
      <3>3. /\ \/ new.day = quota.day /\ new.daily = quota.daily + paid
               \/ new.day > quota.day /\ new.daily = paid
            /\ \/ new.month = quota.month /\ new.monthly = quota.monthly + added
               \/ new.month > quota.month /\ new.monthly = added
        BY <2>5
      <3> HIDE DEF left
      <3> QED BY <1>2, <1>3, <2>2, <2>3, <2>5, <3>2, <3>3
    <2> QED BY <2>2, <2>4, <2>5
  <1>8. quota' # NoQuota
    BY <1>5, NoRow
  <1> QED BY <1>6, <1>7, <1>8 DEF Inv

-----------------------------------------------------------------------------
(* One lemma for every action, or for those that do the same to the row. *)

\* A process that does nothing.
LEMMA IdleFits == ASSUME NEW p \in All PROVE Fits(p, Idle) /\ Idle.loaded = NoQuota
  BY FirstRows DEF Fits, SessionSound, InSession, NoQuota

LEMMA InitInv == Init => Inv
  <1> SUFFICES ASSUME Init PROVE Inv
    OBVIOUS
  <1>1. \A p \in All : proc[p] = Idle
    BY DEF Init, All
  <1>2. \A p \in All : Fits(p, Idle)
    BY IdleFits
  <1>3. Sound
    <2>1. proc \in [All -> Activity]
      BY FirstRows DEF Init, All
    <2>2. \A p \in All : Fits(p, proc[p]) /\ proc[p].loaded = NoQuota
      BY <1>1, <1>2, FirstRows
    <2>3. /\ today \in Nat /\ quota \in Quota \union {NoQuota}
          /\ {invoiced, charged, evaluated} \subseteq Nat
      BY DEF Init
    <2>4. overlapped \in BOOLEAN
      BY Zenon DEF Init
    <2> QED BY <2>1, <2>2, <2>3, <2>4 DEF Sound
  <1>4. SpendExact
    BY DEF Init, SpendExact, NoQuota
  <1> QED BY <1>3, <1>4 DEF Inv

\* A process that is in no session.
LEMMA Resting ==
  ASSUME NEW p \in Processes, NEW pc \in Api \ InSession, NEW day \in Nat, NEW cost \in Nat
  PROVE  Fits(p, At(pc, day, cost)) /\ At(pc, day, cost).loaded = NoQuota
  <1> DEFINE s == At(pc, day, cost)
  <1>1. /\ s \in Activity /\ s.pc = pc /\ s.row = NoQuota /\ s.loaded = NoQuota
        /\ s.written = {} /\ s.added = 0
    BY SetDown
  <1>2. p \notin Workers /\ pc # "judging" /\ pc \notin InSession
    BY DEF InSession, Api
  <1> HIDE DEF s
  <1>3. SessionSound(s)
    BY <1>1 DEF SessionSound, NoQuota
  <1> QED BY <1>1, <1>2, <1>3 DEF Fits, s

\* What is known of a process.
LEMMA Known ==
  ASSUME Inv, NEW p \in All
  PROVE  /\ Fits(p, proc[p]) /\ proc[p] \in Activity
         /\ today \in Nat /\ invoiced \in Nat /\ quota \in Quota \union {NoQuota}
         /\ proc[p].loaded # NoQuota => quota # NoQuota
         /\ proc[p].day \in Nat /\ proc[p].cost \in Nat
  BY DEF Inv, Sound, Fits, Activity

\* Steps that end outside of a session and leave the row alone.
LEMMA Rests ==
  ASSUME Inv, NEW p \in Processes, NEW pc \in Api \ InSession, NEW day \in Nat, NEW cost \in Nat,
         Become(p, At(pc, day, cost)) \/ Become(p, Idle),
         UNCHANGED <<today, quota, observed>>, invoiced' \in Nat
  PROVE  Inv'
  <1>1. p \in All
    BY DEF All
  <1>2. CASE Become(p, At(pc, day, cost))
    BY <1>1, <1>2, Resting, Quiet
  <1>3. CASE Become(p, Idle)
    BY <1>1, <1>3, IdleFits, Quiet
  <1> QED BY <1>2, <1>3

LEMMA BeginInv == ASSUME Inv, NEW p \in Processes, Begin(p) PROVE Inv'
  <1>1. today \in Nat /\ invoiced \in Nat
    BY DEF Inv, Sound
  <1>2. "check" \in Api \ InSession
    BY DEF Api, InSession
  <1> QED BY <1>1, <1>2, Rests DEF Begin

LEMMA DecideInv == ASSUME Inv, NEW p \in Processes, Decide(p) PROVE Inv'
  <1>1. invoiced \in Nat
    BY DEF Inv, Sound
  <1>2. {"refuse", "call"} \subseteq Api \ InSession
    BY DEF Api, InSession
  <1> QED BY <1>1, <1>2, Rests DEF Decide

LEMMA CallInv == ASSUME Inv, NEW p \in Processes, Call(p) PROVE Inv'
  <1>1. invoiced \in Nat
    BY DEF Inv, Sound
  <1>2. AfterCall \in Api \ InSession
    BY DEF Api, InSession, AfterCall
  <1>3. PICK cost \in Costs \union {0} :
          Become(p, At(AfterCall, 0, cost)) \/ Become(p, Idle)
    BY DEF Call
  <1>4. cost \in Nat
    BY DEF SettingsAssumption
  <1> QED BY <1>1, <1>2, <1>3, <1>4, Rests DEF Call

LEMMA AuditInv == ASSUME Inv, NEW p \in Processes, Audit(p) PROVE Inv'
  <1>1. p \in All
    BY DEF All
  <1>2. /\ today \in Nat /\ invoiced \in Nat /\ proc[p].cost \in Nat
    BY <1>1, Known
  <1>3. "spend" \in Api \ InSession
    BY DEF Api, InSession
  <1> QED BY <1>2, <1>3, Rests DEF Audit

LEMMA GoneInv ==
  ASSUME Inv, NEW p \in All, Become(p, Idle), UNCHANGED <<today, quota, invoiced, observed>>
  PROVE  Inv'
  BY IdleFits, Known, Quiet

\* A session opens.
LEMMA OpenFits ==
  ASSUME Inv, NEW p \in All, NEW s \in Activity, SessionSound(s), s.written = {}, s.row = NoQuota,
         s.added = 0,
         NEW pc \in InSession, p \in Workers <=> pc = "judging"
  PROVE  Fits(p, Opened(s, pc)) /\ Opened(s, pc).loaded = quota
  <1> DEFINE t == Opened(s, pc)
  <1>1. quota \in Quota \union {NoQuota}
    BY Known
  <1>2. /\ t \in Activity /\ t.pc = pc /\ t.loaded = quota /\ t.row = quota
        /\ t.written = {} /\ t.added = 0
    BY <1>1 DEF Opened, Activity, InSession, Api
  <1> HIDE DEF t
  <1>3. quota.daily \in Nat
    BY <1>1, NoRow
  <1>4. SessionSound(t)
    BY <1>2, <1>3 DEF SessionSound
  <1> QED BY <1>2, <1>4 DEF Fits, t

LEMMA LoadInv == ASSUME Inv, NEW p \in Processes, Load(p) PROVE Inv'
  <1>1. p \in All /\ p \notin Workers
    BY DEF All
  <1>2. /\ Fits(p, proc[p]) /\ proc[p].pc \notin InSession /\ proc[p].pc # "judging"
    BY <1>1, Known DEF Load, InSession
  <1>3. /\ proc[p] \in Activity /\ SessionSound(proc[p]) /\ proc[p].written = {}
        /\ proc[p].row = NoQuota /\ proc[p].added = 0
    BY <1>2 DEF Fits, SessionSound
  <1>4. PICK pc \in {"checking", "spending"} : Become(p, Opened(proc[p], pc))
    BY DEF Load
  <1>5. pc \in InSession /\ pc # "judging"
    BY DEF InSession
  <1>6. Fits(p, Opened(proc[p], pc)) /\ Opened(proc[p], pc).loaded = quota
    BY <1>1, <1>3, <1>5, OpenFits
  <1> QED BY <1>1, <1>4, <1>6, Known, Quiet DEF Load

LEMMA OpenInv == ASSUME Inv, NEW w \in Workers, Open(w) PROVE Inv'
  <1> DEFINE s == [Idle EXCEPT !.day = today]
  <1>1. w \in All /\ "judging" \in InSession
    BY DEF All, InSession
  <1>2. today \in Nat
    BY <1>1, Known
  <1>3. /\ s \in Activity /\ SessionSound(s) /\ s.written = {} /\ s.row = NoQuota /\ s.added = 0
    BY <1>2, FirstRows DEF Activity, Idle, SessionSound, NoQuota
  <1> HIDE DEF s
  <1>4. Fits(w, Opened(s, "judging")) /\ Opened(s, "judging").loaded = quota
    BY <1>1, <1>3, OpenFits
  <1>5. Become(w, Opened(s, "judging"))
    BY DEF Open, s
  <1> QED BY <1>1, <1>4, <1>5, Known, Quiet DEF Open

\* What Changed leaves out is the same in both rows.
LEMMA Unchanged ==
  ASSUME NEW old, NEW new, NEW c \in Columns, c \notin Changed(old, new)
  PROVE  new[c] = old[c]
  BY DEF Changed

LEMMA InsertInv == ASSUME Inv, NEW p \in All, Insert(p) PROVE Inv'
  <1> DEFINE t == [proc[p] EXCEPT !.row = NewQuota, !.written = Columns]
  <1>1. /\ Fits(p, proc[p]) /\ proc[p] \in Activity /\ today \in Nat /\ invoiced \in Nat
        /\ proc[p].pc \in InSession /\ proc[p].row = NoQuota
    BY Known DEF Insert
  <1>2. CASE Become(p, Idle)
    BY <1>2, GoneInv DEF Insert
  <1>3. CASE Become(p, t)
    <2>1. /\ NewQuota \in Quota /\ NewQuota.day = today /\ NewQuota.month = MonthOf(today)
          /\ NewQuota.daily = 0 /\ NewQuota.monthly = 0 /\ MonthOf(today) \in Nat
      BY <1>1, NewRow, Months DEF NewQuota
    <2>2. /\ t \in Activity /\ t.pc = proc[p].pc /\ t.loaded = proc[p].loaded
          /\ t.row = NewQuota /\ t.written = Columns /\ t.added = proc[p].added
      BY <1>1, <2>1 DEF Activity
    <2>3. /\ proc[p].loaded = NoQuota /\ SessionSound(proc[p]) /\ proc[p].added \in Nat
      BY <1>1 DEF Fits, SessionSound, Activity
    <2>4. proc[p].added = 0
      BY <1>1, <2>3 DEF SessionSound, NoQuota
    <2>5. NewQuota # NoQuota
      BY <2>1, NoRow
    <2> HIDE DEF t
    <2>6. SessionSound(t)
      BY <1>1, <2>1, <2>2, <2>3, <2>4, <2>5 DEF SessionSound, NoQuota
    <2>7. Fits(p, t)
      BY <1>1, <2>2, <2>6 DEF Fits
    <2> QED BY <1>1, <1>3, <2>2, <2>3, <2>7, Quiet DEF Insert
  <1> QED BY <1>2, <1>3 DEF Insert

\* A session of the handler commits: its row is as loaded or new.
LEMMA ApiSession ==
  ASSUME Inv, NEW p \in Processes, proc[p].pc \in {"checking", "spending"},
         proc[p].row # NoQuota
  PROVE  /\ p \in All /\ proc[p].row \in Quota /\ proc[p].day \in Nat /\ proc[p].cost \in Nat
         /\ proc[p].written \in SUBSET Columns
         /\ proc[p].loaded = NoQuota => proc[p].written = Columns
         /\ \A c \in Columns \ proc[p].written : proc[p].row[c] = proc[p].loaded[c]
         /\ \/ proc[p].row.day = proc[p].loaded.day /\ proc[p].row.daily = proc[p].loaded.daily
            \/ proc[p].row.day > proc[p].loaded.day /\ proc[p].row.daily = 0
         /\ \/ proc[p].row.month = proc[p].loaded.month /\ proc[p].row.monthly = proc[p].loaded.monthly
            \/ proc[p].row.month > proc[p].loaded.month /\ proc[p].row.monthly = 0
         /\ proc[p].loaded.day \in Int /\ proc[p].loaded.month \in Int
         /\ proc[p].loaded.daily \in Nat /\ proc[p].loaded.monthly \in Nat
         /\ today \in Nat /\ invoiced \in Nat
  <1>1. p \in All
    BY DEF All
  <1>2. /\ Fits(p, proc[p]) /\ proc[p] \in Activity /\ today \in Nat /\ invoiced \in Nat
    BY <1>1, Known
  <1>3. /\ SessionSound(proc[p]) /\ proc[p].loaded \in Quota \union {NoQuota}
        /\ proc[p].row \in Quota \union {NoQuota} /\ proc[p].written \in SUBSET Columns
        /\ proc[p].day \in Nat /\ proc[p].cost \in Nat
    BY <1>2 DEF Fits, Activity
  <1>4. proc[p].added = 0
    BY <1>3 DEF SessionSound
  <1>5. /\ proc[p].loaded.day \in Int /\ proc[p].loaded.month \in Int
        /\ proc[p].loaded.daily \in Nat /\ proc[p].loaded.monthly \in Nat
    BY <1>3, NoRow
  <1> QED BY <1>1, <1>2, <1>3, <1>4, <1>5 DEF SessionSound

\* Both commits of the handler: the resets, and a cost that may be nothing.
LEMMA ApiCommits ==
  ASSUME Inv, NEW p \in Processes, proc[p].pc \in {"checking", "spending"},
         proc[p].row # NoQuota, NEW cost \in Nat, NEW s, Fits(p, s), s.loaded = NoQuota,
         Become(p, s), NEW new \in Quota,
         new.day = Renewed(proc[p].row, proc[p].day).day,
         new.daily = Renewed(proc[p].row, proc[p].day).daily,
         new.month = Renewed(proc[p].row, proc[p].day).month,
         new.monthly = Renewed(proc[p].row, proc[p].day).monthly + cost,
         CommitRow(p, new, proc[p].written \union Changed(proc[p].row, new), cost, 0),
         UNCHANGED <<today, invoiced>>
  PROVE  Inv' /\ quota' # NoQuota
  <1> DEFINE row == proc[p].row
             loaded == proc[p].loaded
             columns == proc[p].written \union Changed(row, new)
             renewed == Renewed(row, proc[p].day)
  <1>1. /\ p \in All /\ row \in Quota /\ proc[p].day \in Nat
        /\ proc[p].written \in SUBSET Columns
        /\ loaded = NoQuota => proc[p].written = Columns
        /\ \A c \in Columns \ proc[p].written : row[c] = loaded[c]
        /\ \/ row.day = loaded.day /\ row.daily = loaded.daily
           \/ row.day > loaded.day /\ row.daily = 0
        /\ \/ row.month = loaded.month /\ row.monthly = loaded.monthly
           \/ row.month > loaded.month /\ row.monthly = 0
        /\ loaded.day \in Int /\ loaded.month \in Int
        /\ loaded.daily \in Nat /\ loaded.monthly \in Nat
    BY ApiSession
  <1>2. /\ renewed \in Quota
        /\ \/ renewed.day = row.day /\ renewed.daily = row.daily
           \/ renewed.day > row.day /\ renewed.daily = 0
        /\ \/ renewed.month = row.month /\ renewed.monthly = row.monthly
           \/ renewed.month > row.month /\ renewed.monthly = 0
    BY <1>1, Renewal
  <1>3. /\ row.day \in Nat /\ row.month \in Nat /\ renewed.day \in Nat /\ renewed.month \in Nat
    BY <1>1, <1>2 DEF Quota
  <1>4. columns \in SUBSET Columns /\ (loaded = NoQuota => columns = Columns)
    BY <1>1 DEF Changed
  <1>5. \A c \in Columns \ columns : new[c] = loaded[c]
    BY <1>1, Unchanged
  <1>6. /\ \/ new.day = loaded.day /\ new.daily = loaded.daily + 0
           \/ new.day > loaded.day /\ new.daily = 0
        /\ \/ new.month = loaded.month /\ new.monthly = loaded.monthly + cost
           \/ new.month > loaded.month /\ new.monthly = cost
    <2>1. /\ new.day = renewed.day /\ new.daily = renewed.daily
          /\ new.month = renewed.month /\ new.monthly = renewed.monthly + cost
      OBVIOUS
    <2> HIDE DEF row, loaded, renewed
    <2> QED BY <1>1, <1>2, <1>3, <2>1
  <1>7. CommitRow(p, new, columns, cost, 0) /\ 0 \in Nat
    OBVIOUS
  <1> HIDE DEF columns, row, renewed
  <1> QED BY <1>1, <1>4, <1>5, <1>6, <1>7, Commits

LEMMA CommitCheckInv == ASSUME Inv, NEW p \in Processes, CommitCheck(p)
  PROVE  Inv' /\ quota' # NoQuota
  <1> DEFINE new == Renewed(proc[p].row, proc[p].day)
  <1>1. /\ proc[p].pc \in {"checking", "spending"} /\ proc[p].row # NoQuota
        /\ CommitRow(p, new, proc[p].written \union Changed(proc[p].row, new), 0, 0)
        /\ Become(p, At("decide", proc[p].day, 0))
        /\ UNCHANGED <<today, invoiced>>
    BY DEF CommitCheck
  <1>2. proc[p].row \in Quota /\ proc[p].day \in Nat
    BY <1>1, ApiSession
  <1>3. new \in Quota /\ new.monthly = new.monthly + 0
    <2>1. new \in Quota
      BY <1>2, Renewal
    <2> HIDE DEF new
    <2> QED BY <2>1 DEF Quota
  <1>4. "decide" \in Api \ InSession /\ 0 \in Nat
    BY DEF Api, InSession
  <1>5. Fits(p, At("decide", proc[p].day, 0)) /\ At("decide", proc[p].day, 0).loaded = NoQuota
    BY <1>2, <1>4, Resting
  <1> QED BY <1>1, <1>3, <1>4, <1>5, ApiCommits

LEMMA CommitSpendInv == ASSUME Inv, NEW p \in Processes, CommitSpend(p)
  PROVE  Inv' /\ quota' # NoQuota
  <1> DEFINE renewed == Renewed(proc[p].row, proc[p].day)
             new == [renewed EXCEPT !.monthly = @ + proc[p].cost]
  <1>1. /\ proc[p].pc \in {"checking", "spending"} /\ proc[p].row # NoQuota
        /\ CommitRow(p, new, proc[p].written \union Changed(proc[p].row, new), proc[p].cost, 0)
        /\ Become(p, Idle)
        /\ UNCHANGED <<today, invoiced>>
    BY DEF CommitSpend
  <1>2. proc[p].row \in Quota /\ proc[p].day \in Nat /\ proc[p].cost \in Nat /\ p \in All
    BY <1>1, ApiSession
  <1>3. /\ new \in Quota
        /\ new.day = renewed.day /\ new.daily = renewed.daily
        /\ new.month = renewed.month /\ new.monthly = renewed.monthly + proc[p].cost
    <2>1. renewed \in Quota
      BY <1>2, Renewal
    <2> HIDE DEF renewed
    <2> QED BY <1>2, <2>1 DEF Quota
  <1>4. Fits(p, Idle) /\ Idle.loaded = NoQuota
    BY <1>2, IdleFits
  <1> HIDE DEF new
  <1> QED BY <1>1, <1>2, <1>3, <1>4, ApiCommits

\* What an evaluation does to a session's row and to what the session added.
Evaluates(row, new, was, added) ==
  /\ \/ new.day = row.day /\ new.daily = row.daily + (added - was)
     \/ new.day > row.day /\ new.daily = added
  /\ \/ new.month = row.month /\ new.monthly = row.monthly
     \/ new.month > row.month /\ new.monthly = 0

\* A worker's session after one more evaluation.
LEMMA FlushInv ==
  ASSUME Inv, NEW w \in Workers, proc[w].pc = "judging", proc[w].row # NoQuota,
         NEW new \in Quota, NEW added \in Nat, Flush(w, new, added),
         Evaluates(proc[w].row, new, proc[w].added, added),
         UNCHANGED <<today, quota, invoiced, observed>>
  PROVE  Inv'
  <1> DEFINE row == proc[w].row
             loaded == proc[w].loaded
             written == proc[w].written \union Changed(row, new)
             s == [proc[w] EXCEPT !.row = new,
                                  !.written = @ \union Changed(row, new),
                                  !.added = added,
                                  !.day = today]
  <1>0. /\ w \in All /\ Fits(w, proc[w]) /\ invoiced \in Nat /\ today \in Nat
        /\ loaded # NoQuota => quota # NoQuota
    BY Known DEF All
  <1>1. /\ proc[w] \in Activity /\ SessionSound(proc[w])
        /\ row \in Quota \union {NoQuota} /\ loaded \in Quota \union {NoQuota}
        /\ proc[w].written \in SUBSET Columns /\ proc[w].added \in Nat
    BY <1>0 DEF Fits, Activity
  <1>2. written \in SUBSET Columns
    BY <1>1 DEF Changed
  <1>3. /\ s \in Activity /\ s.pc = "judging" /\ s.loaded = loaded /\ s.row = new
        /\ s.written = written /\ s.added = added
    BY <1>0, <1>1, <1>2 DEF Activity
  <1>4. loaded = NoQuota => written = Columns
    BY <1>1, <1>2 DEF SessionSound
  <1>5. \A c \in Columns \ written : new[c] = loaded[c]
    BY <1>1, Unchanged DEF SessionSound
  <1>6. /\ row.day \in Int /\ row.month \in Int /\ loaded.day \in Int /\ loaded.month \in Int
        /\ row.daily \in Nat /\ loaded.daily \in Nat /\ row.monthly \in Nat /\ loaded.monthly \in Nat
        /\ new.day \in Int /\ new.month \in Int /\ new.daily \in Nat /\ new.monthly \in Nat
    BY <1>1, NoRow
  <1>7. /\ \/ new.day = loaded.day /\ new.daily = loaded.daily + added
           \/ new.day > loaded.day /\ new.daily = added
        /\ \/ new.month = loaded.month /\ new.monthly = loaded.monthly
           \/ new.month > loaded.month /\ new.monthly = 0
    <2>1. /\ \/ row.day = loaded.day /\ row.daily = loaded.daily + proc[w].added
             \/ row.day > loaded.day /\ row.daily = proc[w].added
          /\ \/ row.month = loaded.month /\ row.monthly = loaded.monthly
             \/ row.month > loaded.month /\ row.monthly = 0
      BY <1>1 DEF SessionSound
    <2>2. /\ \/ new.day = row.day /\ new.daily = row.daily + (added - proc[w].added)
             \/ new.day > row.day /\ new.daily = added
          /\ \/ new.month = row.month /\ new.monthly = row.monthly
             \/ new.month > row.month /\ new.monthly = 0
      BY DEF Evaluates
    <2> HIDE DEF row, loaded
    <2> QED BY <1>1, <1>6, <2>1, <2>2
  <1>8. new # NoQuota
    BY NoRow
  <1> HIDE DEF written, loaded, s
  <1>9. SessionSound(s)
    BY <1>3, <1>4, <1>5, <1>7, <1>8 DEF SessionSound
  <1>10. Fits(w, s)
    BY <1>3, <1>9 DEF Fits, InSession
  <1>11. Become(w, s) /\ (s.loaded # NoQuota => quota # NoQuota)
    BY <1>0, <1>3 DEF Flush, s
  <1> QED BY <1>0, <1>10, <1>11, Quiet

LEMMA EvaluateInv == ASSUME Inv, NEW w \in Workers, Evaluate(w) PROVE Inv'
  <1> DEFINE row == proc[w].row
             renewed == Renewed(row, proc[w].day)
             kept == IF renewed.day = row.day THEN proc[w].added ELSE 0
             paid == [renewed EXCEPT !.daily = @ + 1]
  <1>1. w \in All
    BY DEF All
  <1>2. /\ Fits(w, proc[w]) /\ proc[w].pc = "judging" /\ row # NoQuota
        /\ proc[w].day \in Nat /\ (proc[w].loaded # NoQuota => quota # NoQuota)
    BY <1>1, Known DEF Evaluate
  <1>3. row \in Quota /\ proc[w].added \in Nat
    BY <1>2 DEF Fits, Activity
  <1>4. /\ renewed \in Quota
        /\ \/ renewed.day = row.day /\ renewed.daily = row.daily
           \/ renewed.day > row.day /\ renewed.daily = 0
        /\ \/ renewed.month = row.month /\ renewed.monthly = row.monthly
           \/ renewed.month > row.month /\ renewed.monthly = 0
    BY <1>2, <1>3, Renewal
  <1>5. Flush(w, renewed, kept) \/ Flush(w, paid, kept + 1)
    BY DEF Evaluate
  <1>6. /\ row.day \in Nat /\ row.daily \in Nat /\ renewed.day \in Nat /\ renewed.daily \in Nat
    BY <1>3, <1>4 DEF Quota
  <1>7. /\ kept \in Nat
        /\ \/ renewed.day = row.day /\ kept = proc[w].added /\ renewed.daily = row.daily
           \/ renewed.day > row.day /\ kept = 0 /\ renewed.daily = 0
    <2> HIDE DEF renewed, row
    <2> QED BY <1>3, <1>4, <1>6
  <1>8. /\ paid \in Quota /\ paid.day = renewed.day /\ paid.daily = renewed.daily + 1
        /\ paid.month = renewed.month /\ paid.monthly = renewed.monthly
    <2> HIDE DEF renewed
    <2> QED BY <1>4, <1>6 DEF Quota
  <1> HIDE DEF renewed, kept, paid
  <1>9. CASE Flush(w, renewed, kept)
    <2>1. Evaluates(row, renewed, proc[w].added, kept)
      BY <1>3, <1>4, <1>6, <1>7 DEF Evaluates
    <2> QED BY <1>2, <1>4, <1>7, <1>9, <2>1, FlushInv DEF Evaluate
  <1>10. CASE Flush(w, paid, kept + 1)
    <2>1. Evaluates(row, paid, proc[w].added, kept + 1)
      BY <1>3, <1>4, <1>6, <1>7, <1>8 DEF Evaluates
    <2>2. kept + 1 \in Nat
      BY <1>7
    <2> QED BY <1>2, <1>8, <1>10, <2>1, <2>2, FlushInv DEF Evaluate
  <1> QED BY <1>5, <1>9, <1>10

LEMMA CommitEvaluationsInv == ASSUME Inv, NEW w \in Workers, CommitEvaluations(w)
  PROVE  Inv' /\ quota' # NoQuota
  <1> DEFINE s == proc[w]
  <1>1. w \in All
    BY DEF All
  <1>2. Fits(w, s) /\ s.row # NoQuota
    BY <1>1, Known DEF CommitEvaluations
  <1>3. /\ s.row \in Quota /\ s.written \in SUBSET Columns /\ s.added \in Nat /\ SessionSound(s)
        /\ s.loaded \in Quota \union {NoQuota}
    BY <1>2 DEF Fits, Activity
  <1>4. s.loaded.monthly \in Nat /\ s.row.monthly \in Nat
    BY <1>3, NoRow
  <1>5. /\ s.loaded = NoQuota => s.written = Columns
        /\ \A c \in Columns \ s.written : s.row[c] = s.loaded[c]
        /\ \/ s.row.day = s.loaded.day /\ s.row.daily = s.loaded.daily + s.added
           \/ s.row.day > s.loaded.day /\ s.row.daily = s.added
        /\ \/ s.row.month = s.loaded.month /\ s.row.monthly = s.loaded.monthly + 0
           \/ s.row.month > s.loaded.month /\ s.row.monthly = 0
    BY <1>2, <1>3, <1>4 DEF SessionSound
  <1>6. Fits(w, Idle) /\ Idle.loaded = NoQuota
    BY <1>1, IdleFits
  <1>7. /\ CommitRow(w, s.row, s.written, 0, s.added) /\ Become(w, Idle) /\ 0 \in Nat
        /\ UNCHANGED <<today, invoiced>>
    BY DEF CommitEvaluations
  <1> QED BY <1>1, <1>3, <1>5, <1>6, <1>7, Commits

LEMMA MidnightInv == ASSUME Inv, Midnight PROVE Inv'
  <1>1. today' \in Nat /\ UNCHANGED <<quota, proc, invoiced, observed>>
    BY DEF Inv, Sound, Midnight
  <1>2. Sound'
    BY <1>1 DEF Inv, Sound, Fits, SessionSound, observed, Activity, All, InSession, Api, Quota,
                NoQuota, Columns
  <1>3. SpendExact'
    BY <1>1 DEF Inv, SpendExact, observed
  <1> QED BY <1>2, <1>3 DEF Inv

LEMMA StutterInv == ASSUME Inv, UNCHANGED vars PROVE Inv'
  BY DEF Inv, Sound, SpendExact, vars, Fits, SessionSound, Activity, All, InSession, Api, Quota,
         NoQuota, Columns

LEMMA NextInv == ASSUME Inv, [Next]_vars PROVE Inv'
  <1>1. ASSUME NEW p \in Processes, Handle(p) PROVE Inv'
    <2>1. p \in All
      BY DEF All
    <2>2. CASE Refuse(p)
      BY <2>1, <2>2, GoneInv DEF Refuse
    <2> QED
      BY <1>1, <2>2, BeginInv, LoadInv, CommitCheckInv, DecideInv, CallInv, AuditInv,
         CommitSpendInv DEF Handle
  <1>2. ASSUME NEW w \in Workers, Work(w) PROVE Inv'
    BY <1>2, OpenInv, EvaluateInv, CommitEvaluationsInv DEF Work
  <1>3. ASSUME NEW p \in All, Insert(p) \/ Abandon(p) PROVE Inv'
    BY <1>3, InsertInv, GoneInv DEF Abandon, Abandoned
  <1> QED
    BY <1>1, <1>2, <1>3, MidnightInv, StutterInv DEF Next, All

LEMMA Invariance == Spec => []Inv
  BY InitInv, NextInv, PTL DEF Spec

-----------------------------------------------------------------------------

\* The row and the sessions always have the shape of the schema.
THEOREM TypeCorrect == Spec => []TypeOK
  <1>1. Inv => TypeOK
    BY SoundTypes DEF Inv
  <1> QED BY <1>1, Invariance, PTL

\* As long as no session writes over another one's change, the two spends are
\* exactly what was recorded in the row's month and paid on its day: for any
\* number of API processes and workers, whatever dies in between.
THEOREM SpendsExact == Spec => []SpendExact
  <1>1. Inv => SpendExact
    BY DEF Inv
  <1> QED BY <1>1, Invariance, PTL

-----------------------------------------------------------------------------
(* The race to create the row. *)

Charged == {"decide", "call", "audit", "spend", "spending", "refuse"}

\* Once there is a row there always is one.
LEMMA RowStays == ASSUME Inv, [Next]_vars, quota # NoQuota PROVE quota' # NoQuota
  <1>1. ASSUME NEW p \in Processes, Handle(p) PROVE quota' # NoQuota
    BY <1>1, CommitCheckInv, CommitSpendInv
       DEF Handle, Begin, Load, Decide, Refuse, Call, Audit
  <1>2. ASSUME NEW w \in Workers, Work(w) PROVE quota' # NoQuota
    BY <1>2, CommitEvaluationsInv DEF Work, Open, Evaluate
  <1> QED BY <1>1, <1>2 DEF Next, Insert, Abandon, Midnight, vars

\* A process goes on; what it goes on with may rely on the row.
LEMMA ChargeMoves ==
  ASSUME Inv, ChargeFindsRow, [Next]_vars, NEW p \in Processes, NEW s, Become(p, s),
         s.pc \in Charged => quota' # NoQuota,
         s.pc = "spending" => s.row # NoQuota
  PROVE  ChargeFindsRow'
  <1>1. proc' = [proc EXCEPT ![p] = s] /\ proc \in [All -> Activity] /\ p \in All
    BY DEF Become, Inv, Sound, All
  <1>2. ASSUME NEW q \in Processes
        PROVE  /\ proc'[q].pc \in Charged => quota' # NoQuota
               /\ proc'[q].pc = "spending" => proc'[q].row # NoQuota
    <2>1. q \in All
      BY DEF All
    <2>2. CASE q = p
      BY <1>1, <2>1, <2>2
    <2>3. CASE q # p
      <3>1. proc'[q] = proc[q]
        BY <1>1, <2>1, <2>3
      <3>2. /\ proc[q].pc \in Charged => quota # NoQuota
            /\ proc[q].pc = "spending" => proc[q].row # NoQuota
        BY DEF ChargeFindsRow, Charged
      <3> QED BY <3>1, <3>2, RowStays
    <2> QED BY <2>2, <2>3
  <1> QED BY <1>2 DEF ChargeFindsRow, Charged

\* A worker has no part in it.
LEMMA WorkerMoves ==
  ASSUME Inv, ChargeFindsRow, [Next]_vars, NEW w \in Workers, NEW s, Become(w, s)
  PROVE  ChargeFindsRow'
  <1>1. \A q \in Processes : proc'[q] = proc[q]
    BY DEF Become, Inv, Sound, All
  <1> QED BY <1>1, RowStays DEF ChargeFindsRow

\* So has a step that no process takes.
LEMMA NobodyMoves ==
  ASSUME Inv, ChargeFindsRow, [Next]_vars, UNCHANGED proc
  PROVE  ChargeFindsRow'
  BY RowStays DEF ChargeFindsRow

LEMMA ChargeNext == ASSUME Inv, ChargeFindsRow, [Next]_vars PROVE ChargeFindsRow'
  <1>1. ASSUME NEW p \in Processes \union Workers, Become(p, Idle) PROVE ChargeFindsRow'
    <2>1. CASE p \in Processes
      BY <1>1, <2>1, FirstRows, ChargeMoves DEF Charged
    <2>2. CASE p \in Workers
      BY <1>1, <2>2, WorkerMoves
    <2> QED BY <2>1, <2>2
  <1>2. ASSUME NEW p \in Processes, NEW pc \in Api \ InSession, NEW cost \in Nat, NEW day \in Nat,
               Become(p, At(pc, day, cost)), pc \in Charged => quota' # NoQuota
        PROVE  ChargeFindsRow'
    <2> DEFINE s == At(pc, day, cost)
    <2>1. s.pc = pc /\ pc # "spending"
      BY SetDown DEF InSession
    <2> HIDE DEF s
    <2>2. Become(p, s)
      BY <1>2 DEF s
    <2> QED BY <1>2, <2>1, <2>2, ChargeMoves
  <1>3. ASSUME NEW p \in Processes
        PROVE  /\ proc[p].pc \in Charged => quota # NoQuota /\ quota' # NoQuota
               /\ proc[p].pc = "spending" => proc[p].row # NoQuota
               /\ proc[p] \in Activity /\ proc[p].day \in Nat /\ proc[p].cost \in Nat /\ p \in All
               /\ today \in Nat /\ quota \in Quota \union {NoQuota}
    <2>1. p \in All
      BY DEF All
    <2> QED BY <2>1, Known, RowStays DEF ChargeFindsRow, Charged
  <1>4. Api \ InSession = {"check", "decide", "call", "audit", "spend", "refuse"}
    BY DEF Api, InSession
  <1>5. ASSUME NEW p \in Processes, Begin(p) PROVE ChargeFindsRow'
    BY <1>2, <1>3, <1>4, <1>5 DEF Begin, Charged
  <1>6. ASSUME NEW p \in Processes, Load(p) PROVE ChargeFindsRow'
    <2>1. PICK pc \in {"checking", "spending"} :
            /\ Become(p, Opened(proc[p], pc))
            /\ pc = "spending" => proc[p].pc = "spend"
      BY <1>6 DEF Load
    <2> DEFINE s == Opened(proc[p], pc)
    <2>2. s \in Activity /\ s.pc = pc /\ s.row = quota
      BY <1>3 DEF Opened, Activity, Api
    <2> HIDE DEF s
    <2>3. Become(p, s)
      BY <2>1 DEF s
    <2>4. pc = "spending" => quota # NoQuota /\ quota' # NoQuota
      BY <1>3, <2>1 DEF Charged
    <2>5. pc \in Charged => pc = "spending"
      BY DEF Charged
    <2> QED BY <1>3, <2>2, <2>3, <2>4, <2>5, ChargeMoves
  <1>7. ASSUME NEW p \in Processes, CommitCheck(p) PROVE ChargeFindsRow'
    BY <1>2, <1>3, <1>4, <1>7, CommitCheckInv DEF CommitCheck
  <1>8. ASSUME NEW p \in Processes, Decide(p) PROVE ChargeFindsRow'
    BY <1>2, <1>3, <1>4, <1>8 DEF Decide, Charged
  <1>9. ASSUME NEW p \in Processes, Call(p) PROVE ChargeFindsRow'
    <2>1. PICK cost \in Costs \union {0} : Become(p, At("audit", 0, cost)) \/ Become(p, Idle)
      BY <1>9 DEF Call, AfterCall
    <2>2. cost \in Nat /\ 0 \in Nat /\ quota' # NoQuota
      BY <1>3, <1>9 DEF SettingsAssumption, Call, Charged
    <2> QED BY <1>1, <1>2, <1>3, <1>4, <2>1, <2>2
  <1>10. ASSUME NEW p \in Processes, Audit(p) PROVE ChargeFindsRow'
    BY <1>2, <1>3, <1>4, <1>10 DEF Audit, Charged
  <1>11. ASSUME NEW p \in Processes, CommitSpend(p) \/ Refuse(p) PROVE ChargeFindsRow'
    BY <1>1, <1>3, <1>11 DEF CommitSpend, Refuse
  <1>12. ASSUME NEW w \in Workers, Work(w) PROVE ChargeFindsRow'
    <2>1. \E s : Become(w, s)
      BY <1>12 DEF Work, Open, Evaluate, Flush, CommitEvaluations
    <2> QED BY <2>1, WorkerMoves
  <1>13. ASSUME NEW p \in All, Insert(p) PROVE ChargeFindsRow'
    <2> DEFINE s == [proc[p] EXCEPT !.row = NewQuota, !.written = Columns]
    <2>1. Become(p, Idle) \/ Become(p, s)
      BY <1>13 DEF Insert
    <2>2. CASE p \in Workers
      BY <2>1, <2>2, WorkerMoves
    <2>3. CASE p \in Processes /\ Become(p, s)
      <3>1. /\ proc[p] \in Activity /\ proc[p].pc \in InSession /\ proc[p].row = NoQuota
        BY <1>3, <1>13, <2>3 DEF Insert
      <3>2. proc[p].pc \in {"checking", "judging"}
        BY <1>3, <2>3, <3>1 DEF InSession
      <3>3. s.pc = proc[p].pc
        BY <3>1 DEF Activity
      <3>4. s.pc \notin Charged /\ s.pc # "spending"
        BY <3>2, <3>3 DEF Charged
      <3> HIDE DEF s
      <3> QED BY <2>3, <3>4, ChargeMoves
    <2> QED BY <1>1, <2>1, <2>2, <2>3 DEF All
  <1>14. ASSUME NEW p \in All, Abandon(p) PROVE ChargeFindsRow'
    BY <1>1, <1>14 DEF Abandon, Abandoned, All
  <1>15. ASSUME NEW p \in Processes, Handle(p) PROVE ChargeFindsRow'
    BY <1>15, <1>5, <1>6, <1>7, <1>8, <1>9, <1>10, <1>11 DEF Handle
  <1>16. CASE Midnight \/ UNCHANGED vars
    BY <1>16, NobodyMoves DEF Midnight, vars
  <1> QED BY <1>12, <1>13, <1>14, <1>15, <1>16 DEF Next, All

\* Whoever has passed the budget check finds a row to charge: for any number of
\* processes that miss the row at once, and whatever dies.
THEOREM ChargesFindRow == Spec => []ChargeFindsRow
  <1>1. Init => ChargeFindsRow
    BY FirstRows DEF Init, ChargeFindsRow
  <1>2. Inv /\ ChargeFindsRow /\ [Next]_vars => ChargeFindsRow'
    BY ChargeNext
  <1> QED BY <1>1, <1>2, Invariance, PTL DEF Spec
================================================================================
