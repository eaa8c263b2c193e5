------------------------- MODULE GatewayRequestProofs -------------------------
(***************************************************************************)
(* Proofs about GatewayRequest, for any requests, processes, purges and    *)
(* faults: what a handler is about to do says exactly which records its    *)
(* request has, and nobody else touches them but the purge.                *)
(***************************************************************************)
EXTENDS GatewayRequest, TLAPS

USE ProcessAssumption, SettingsAssumption

-----------------------------------------------------------------------------
(* The stages. *)

Later(r) == r \in jobs \/ r \in spent \/ r \in sent

\* The records of each stage.
RecordsOf(r) ==
  /\ Stage(r) = "nothing" <=>
       r \notin runs /\ audit[r] = NoAudit /\ r \notin invocations /\ ~Later(r)
  /\ Stage(r) = "searched" <=>
       r \in runs /\ audit[r] = NoAudit /\ r \notin invocations /\ ~Later(r)
  /\ Stage(r) = "refused" <=>
       r \notin runs /\ audit[r] # NoAudit /\ r \notin invocations /\ ~Later(r)
  /\ Stage(r) = "unanswered" <=>
       r \in runs /\ audit[r] # NoAudit /\ r \notin invocations /\ ~Later(r)
  /\ Stage(r) = "answered" <=>
       r \in runs /\ audit[r] # NoAudit /\ r \in invocations /\ ~Later(r)
  /\ Stage(r) = "queued" <=>
       /\ r \in runs /\ audit[r] # NoAudit /\ r \in invocations
       /\ r \in jobs /\ r \notin spent /\ r \notin sent
  /\ Stage(r) = "charged" <=>
       /\ r \in runs /\ audit[r] # NoAudit /\ r \in invocations
       /\ r \in jobs /\ r \in spent /\ r \notin sent
  /\ Stage(r) = "sent" <=>
       /\ r \in runs /\ audit[r] # NoAudit /\ r \in invocations
       /\ r \in jobs /\ r \in spent /\ r \in sent

LEMMA Stages == ASSUME NEW r PROVE RecordsOf(r) /\ RecordsOf(r)'
  BY DEF RecordsOf, Stage, Later

\* Where the records of the request of a handler are.
StageOf(s) ==
  IF s.pc \in {"check", "search"} THEN "nothing"
  ELSE IF s.pc \in {"call", "audit"} THEN "searched"
  ELSE IF s.pc = "enqueue" THEN "answered"
  ELSE IF s.pc = "spend" THEN "queued"
  ELSE IF s.pc = "dispatch" THEN "charged"
  ELSE IF s.pc = "refuse" THEN IF s.verdict = "unavailable" THEN "searched" ELSE "nothing"
  ELSE IF s.verdict = "answered" THEN "sent"
  ELSE IF s.verdict = "invalid" THEN "searched"
  ELSE IF s.verdict = "unavailable" THEN "unanswered"
  ELSE "refused"

-----------------------------------------------------------------------------
(* The inductive invariant. *)

\* What a handler at work relies on.
Holds(s) ==
  /\ s.request \notin fresh
  /\ reply[s.request] = "none"
  /\ Stage(s.request) = StageOf(s)
  /\ s.pc = "refuse" => s.verdict \in Verdicts
  /\ s.pc = "reply" => s.verdict # "none"
  /\ s.decision = "block" => s.pc \in {"refuse", "reply"} /\ s.verdict = "blocked"

HandlersSound == \A p \in Processes : handler[p] # Idle => Holds(handler[p])

\* A request is in one hand.
Alone ==
  \A p, q \in Processes :
    handler[p] # Idle /\ handler[q] # Idle /\ handler[p].request = handler[q].request => p = q

FreshSound == \A r \in fresh : Stage(r) = "nothing" /\ reply[r] = "none"

\* A request that left the hands of its process in good order.
Settled(r) ==
  \/ reply[r] \in Verdicts /\ audit[r] # NoAudit /\ r \notin invocations
  \/ reply[r] = "invalid" /\ audit[r] = NoAudit
  \/ reply[r] = "answered" /\ r \in runs \intersect invocations \intersect jobs \intersect spent

AllSettled == faults = 0 => \A r \in Requests \ fresh : InHand(r) \/ Settled(r)

Blocked(r) ==
  audit[r].decision = "block" =>
    r \in violations /\ r \notin runs \union invocations \union jobs \union spent

AllBlocked == \A r \in Requests : Blocked(r)

\* A purge has only rows that are, or were, due.
PurgesSound ==
  \A w \in Purgers : \A r \in purger[w] :
    audit[r] # NoAudit /\ (audit[r].body => audit[r].expires <= now)

Inv ==
  /\ TypeOK
  /\ HandlersSound
  /\ Alone
  /\ FreshSound
  /\ AllSettled
  /\ AllBlocked
  /\ PurgesSound

LEMMA InvNothingHalfDone == Inv => NothingHalfDone
  BY DEF Inv, AllSettled, Settled, NothingHalfDone

LEMMA InvBlocked == Inv => BlockedGoesNowhere
  <1> SUFFICES ASSUME Inv PROVE BlockedGoesNowhere
    OBVIOUS
  <1>1. ASSUME NEW p \in Processes, handler[p] # Idle, handler[p].decision = "block"
        PROVE  handler[p].request \notin runs
    <2>1. Stage(handler[p].request) \in {"nothing", "refused"}
      BY <1>1 DEF Inv, HandlersSound, Holds, StageOf
    <2> QED BY <2>1, Stages DEF RecordsOf
  <1> QED BY <1>1 DEF Inv, AllBlocked, Blocked, BlockedGoesNowhere

\* Audit rows.
LEMMA Rows ==
  ASSUME NEW row \in AuditRow
  PROVE  /\ row # NoAudit
         /\ Purged(row) \in AuditRow
         /\ Purged(row).decision = row.decision
         /\ Purged(row).body = FALSE /\ Purged(row).expires = Null
         /\ ~row.body /\ row.expires = Null => Purged(row) = row
  <1>1. Null \in Int
    BY DEF Null
  <1>2. row = [decision |-> row.decision, body |-> row.body, expires |-> row.expires]
        /\ row.decision \in Decisions /\ row.body \in BOOLEAN
    BY DEF AuditRow
  <1>3. row # NoAudit
    BY <1>2 DEF NoAudit, Decisions
  <1>4. Purged(row) = [decision |-> row.decision, body |-> FALSE, expires |-> Null]
    BY DEF Purged
  <1>5. Purged(row) \in AuditRow
    BY <1>1, <1>2, <1>4 DEF AuditRow
  <1>6. ~row.body /\ row.expires = Null => Purged(row) = row
    <2> SUFFICES ASSUME ~row.body, row.expires = Null PROVE Purged(row) = row
      OBVIOUS
    <2>1. row.body = FALSE
      BY <1>2
    <2> QED BY <1>2, <1>4, <2>1
  <1> QED BY <1>3, <1>4, <1>5, <1>6

LEMMA NotIdle == ASSUME NEW s \in Activity PROVE s # Idle
  <1>1. "request" \in DOMAIN s
    BY DEF Activity
  <1>2. "request" \notin DOMAIN Idle
    BY DEF Idle
  <1> QED BY <1>1, <1>2

-----------------------------------------------------------------------------
(* A step of a handler. *)

\* The other requests are left alone.
Others(r) ==
  \A q \in Requests \ {r} :
    /\ q \in fresh' <=> q \in fresh
    /\ reply'[q] = reply[q] /\ audit'[q] = audit[q]
    /\ q \in runs' <=> q \in runs
    /\ q \in violations' <=> q \in violations
    /\ q \in invocations' <=> q \in invocations
    /\ q \in jobs' <=> q \in jobs
    /\ q \in spent' <=> q \in spent
    /\ q \in sent' <=> q \in sent

LEMMA OtherStages ==
  ASSUME NEW r, Others(r), NEW q \in Requests, q # r
  PROVE  Stage(q)' = Stage(q)
  BY DEF Others, Stage

LEMMA HandlerStep ==
  ASSUME Inv, TypeOK', NEW p \in Processes, NEW r \in Requests, NEW s \in Activity \union {Idle},
         Become(p, s), now' = now, purger' = purger, faults' = 0 => faults = 0,
         IF handler[p] = Idle THEN r \in fresh ELSE handler[p].request = r,
         r \notin fresh', Others(r),
         s # Idle => s.request = r /\ Holds(s)',
         s = Idle => (faults' = 0 => Settled(r)'),
         Blocked(r)',
         audit[r] = NoAudit \/ audit'[r] = audit[r]
  PROVE  Inv'
  <1>1. /\ handler \in [Processes -> Activity \union {Idle}]
        /\ fresh \subseteq Requests
    BY DEF Inv, TypeOK
  <1>2. /\ handler'[p] = s
        /\ \A q \in Processes : q # p => handler'[q] = handler[q]
    BY <1>1 DEF Become
  <1>3. \A q \in Processes : handler[q] # Idle => handler[q].request \in Requests
    BY <1>1 DEF Activity
  \* Nobody else has r.
  <1>4. ASSUME NEW q \in Processes, q # p, handler[q] # Idle PROVE handler[q].request # r
    BY <1>4 DEF Inv, Alone, HandlersSound, Holds
  <1>5. HandlersSound'
    <2>1. ASSUME NEW q \in Processes, q # p, handler'[q] # Idle PROVE Holds(handler[q])'
      <3> DEFINE t == handler[q]
      <3>1. handler'[q] = t /\ t # Idle /\ t.request \in Requests /\ t.request # r
        BY <1>2, <1>3, <1>4, <2>1
      <3>2. Holds(t)
        BY <3>1 DEF Inv, HandlersSound
      <3>3. Stage(t.request)' = Stage(t.request)
        BY <3>1, OtherStages
      <3>4. (Holds(handler[q]))' <=>
              /\ handler'[q].request \notin fresh'
              /\ reply'[handler'[q].request] = "none"
              /\ Stage(handler[q].request)' = StageOf(handler'[q])
              /\ handler'[q].pc = "refuse" => handler'[q].verdict \in Verdicts
              /\ handler'[q].pc = "reply" => handler'[q].verdict # "none"
              /\ handler'[q].decision = "block" =>
                   /\ handler'[q].pc \in {"refuse", "reply"}
                   /\ handler'[q].verdict = "blocked"
        BY DEF Holds, StageOf
      <3> QED BY <3>1, <3>2, <3>3, <3>4 DEF Others, Holds
    <2> QED BY <1>2, <2>1 DEF HandlersSound
  <1>6. Alone'
    <2>1. ASSUME NEW q \in Processes, NEW t \in Processes, handler'[q] # Idle, handler'[t] # Idle,
                 handler'[q].request = handler'[t].request
          PROVE  q = t
      BY <1>2, <1>4, <2>1 DEF Inv, Alone
    <2> QED BY <2>1 DEF Alone
  <1>7. FreshSound'
    <2>1. ASSUME NEW q \in fresh' PROVE (Stage(q) = "nothing" /\ reply[q] = "none")'
      <3>1. q # r /\ q \in Requests /\ q \in fresh
        BY <2>1 DEF TypeOK, Others
      <3> QED BY <3>1, OtherStages DEF Others, Inv, FreshSound
    <2> QED BY <2>1 DEF FreshSound
  <1>8. AllSettled'
    <2>1. ASSUME faults' = 0, NEW q \in Requests \ fresh' PROVE InHand(q)' \/ Settled(q)'
      <3>1. CASE q = r
        BY <1>2, <2>1, <3>1 DEF InHand
      <3>2. CASE q # r
        <4>1. q \notin fresh /\ (InHand(q) \/ Settled(q))
          BY <2>1, <3>2 DEF Others, Inv, AllSettled
        <4>2. Settled(q) => Settled(q)'
          BY <3>2 DEF Others, Settled
        <4>3. ASSUME NEW t \in Processes, handler[t] # Idle, handler[t].request = q
              PROVE  InHand(q)'
          <5>1. t # p
            BY <3>2, <4>3
          <5>2. handler'[t] # Idle /\ handler'[t].request = q
            BY <1>2, <4>3, <5>1
          <5> QED BY <5>2 DEF InHand
        <4> QED BY <4>1, <4>2, <4>3 DEF InHand
      <3> QED BY <3>1, <3>2
    <2> QED BY <2>1 DEF AllSettled
  <1>9. AllBlocked'
    <2>1. ASSUME NEW q \in Requests, q # r PROVE Blocked(q)'
      BY <2>1 DEF Others, Inv, AllBlocked, Blocked
    <2> QED BY <2>1 DEF AllBlocked
  <1>10. PurgesSound'
    <2>1. ASSUME NEW w \in Purgers, NEW q \in purger[w]
          PROVE  audit'[q] # NoAudit /\ (audit'[q].body => audit'[q].expires <= now')
      <3>1. /\ audit[q] # NoAudit /\ (audit[q].body => audit[q].expires <= now)
            /\ q \in Requests
        BY <2>1 DEF Inv, PurgesSound, TypeOK
      <3>2. audit'[q] = audit[q]
        BY <3>1 DEF Others
      <3> QED BY <3>1, <3>2
    <2> QED BY <2>1 DEF PurgesSound
  <1> QED BY <1>5, <1>6, <1>7, <1>8, <1>9, <1>10 DEF Inv

-----------------------------------------------------------------------------
(* What the steps of a handler keep. *)

\* What is known of a handler at work.
LEMMA Known ==
  ASSUME Inv, NEW p \in Processes, handler[p] # Idle
  PROVE  LET s == handler[p]
             r == handler[p].request
         IN  /\ s \in Activity /\ r \in Requests /\ r \notin fresh /\ reply[r] = "none"
             /\ s.pc \in Steps /\ s.decision \in Decisions /\ s.verdict \in Answers \union {"none"}
             /\ Stage(r) = StageOf(s)
             /\ s.pc = "refuse" => s.verdict \in Verdicts
             /\ s.pc = "reply" => s.verdict \in Answers
             /\ s.decision = "block" => s.pc \in {"refuse", "reply"} /\ s.verdict = "blocked"
             /\ Blocked(r)
  <1>1. handler[p] \in Activity
    BY DEF Inv, TypeOK
  <1>2. handler[p].request \in Requests
    BY <1>1 DEF Activity
  <1>3. Holds(handler[p]) /\ Blocked(handler[p].request)
    BY <1>2 DEF Inv, HandlersSound, AllBlocked
  <1> QED BY <1>1, <1>2, <1>3 DEF Holds, Activity

\* The next activity of a handler that goes on.
LEMMA GoesOn ==
  ASSUME NEW s \in Activity, NEW pc \in Steps
  PROVE  /\ At(pc, s) \in Activity /\ At(pc, s).pc = pc
         /\ At(pc, s).request = s.request /\ At(pc, s).decision = s.decision
         /\ At(pc, s).verdict = s.verdict
  BY DEF At, Activity

LEMMA IsRefused ==
  ASSUME NEW s \in Activity, NEW verdict \in Verdicts
  PROVE  /\ Refused(s, verdict) \in Activity /\ Refused(s, verdict).pc = "refuse"
         /\ Refused(s, verdict).request = s.request
         /\ Refused(s, verdict).decision = s.decision
         /\ Refused(s, verdict).verdict = verdict
  BY DEF Refused, Activity, Steps, Answers

LEMMA IsReplying ==
  ASSUME NEW s \in Activity, NEW answer \in Answers
  PROVE  /\ Replying(s, answer) \in Activity /\ Replying(s, answer).pc = "reply"
         /\ Replying(s, answer).request = s.request
         /\ Replying(s, answer).decision = s.decision
         /\ Replying(s, answer).verdict = answer
  BY DEF Replying, Activity, Steps

LEMMA InitInv == Init => Inv
  <1> SUFFICES ASSUME Init PROVE Inv
    OBVIOUS
  <1>1. TypeOK
    BY DEF Init, TypeOK, NoAudit, Null
  <1>2. \A r \in Requests : Stage(r) = "nothing" /\ reply[r] = "none" /\ audit[r].decision = "none"
    BY Stages DEF RecordsOf, Init, Later, NoAudit
  <1>3. HandlersSound /\ Alone /\ PurgesSound
    BY DEF Init, HandlersSound, Alone, PurgesSound
  <1>4. FreshSound /\ AllSettled /\ AllBlocked
    BY <1>2 DEF Init, FreshSound, AllSettled, AllBlocked, Blocked
  <1> QED BY <1>1, <1>3, <1>4 DEF Inv

\* A handler that goes on without a commit.
LEMMA Quiet ==
  ASSUME Inv, NEW p \in Processes, handler[p] # Idle, NEW s \in Activity, Become(p, s),
         s.request = handler[p].request,
         StageOf(s) = StageOf(handler[p]),
         s.pc = "refuse" => s.verdict \in Verdicts,
         s.pc = "reply" => s.verdict # "none",
         s.decision = "block" => s.pc \in {"refuse", "reply"} /\ s.verdict = "blocked",
         UNCHANGED <<now, fresh, reply, records, purger, faults>>
  PROVE  Inv'
  <1>1. PICK r \in Requests : r = handler[p].request
    BY Known
  <1>2. /\ r \notin fresh /\ reply[r] = "none" /\ Stage(r) = StageOf(handler[p]) /\ Blocked(r)
    BY <1>1, Known
  <1>3. TypeOK'
    BY DEF Become, records, Inv, TypeOK
  <1>4. Others(r) /\ r \notin fresh' /\ reply'[r] = "none" /\ audit' = audit
    BY <1>2 DEF Others, records
  <1>5. Stage(r)' = Stage(r)
    BY DEF records, Stage
  <1>6. Blocked(r)'
    BY <1>2 DEF records, Blocked
  <1>7. Holds(s)'
    BY <1>1, <1>2, <1>4, <1>5 DEF Holds, StageOf
  <1>8. now' = now /\ purger' = purger /\ faults' = faults
    OBVIOUS
  <1> QED BY <1>1, <1>3, <1>4, <1>6, <1>7, <1>8, NotIdle, HandlerStep

LEMMA BeginInv ==
  ASSUME Inv, NEW p \in Processes, NEW r \in Requests, NEW decision \in Decisions,
         Begin(p, r, decision)
  PROVE  Inv'
  <1> DEFINE begun == [pc |-> "check", request |-> r, decision |-> decision, verdict |-> "none"]
             s == IF decision = "block" THEN Refused(begun, "blocked") ELSE begun
  <1>1. begun \in Activity
    BY DEF Activity, Steps
  <1>2. /\ s \in Activity /\ s.request = r /\ s.decision = decision
        /\ s.pc = IF decision = "block" THEN "refuse" ELSE "check"
        /\ s.verdict = IF decision = "block" THEN "blocked" ELSE "none"
        /\ s.verdict \in Verdicts \union {"none"}
    BY <1>1, IsRefused DEF Verdicts
  <1>3. /\ handler[p] = Idle /\ r \in fresh /\ fresh' = fresh \ {r} /\ Become(p, s)
        /\ UNCHANGED <<now, reply, records, purger, faults>>
    BY DEF Begin
  <1> HIDE DEF s
  <1>4. TypeOK'
    BY <1>2, <1>3 DEF Become, records, Inv, TypeOK
  <1>5. Others(r) /\ r \notin fresh' /\ audit' = audit /\ now' = now /\ purger' = purger
        /\ faults' = faults
    BY <1>3 DEF Others, records
  <1>6. Stage(r) = "nothing" /\ reply[r] = "none" /\ Blocked(r)
    BY <1>3 DEF Inv, FreshSound, AllBlocked
  <1>7. Stage(r)' = Stage(r) /\ reply' = reply
    BY <1>3 DEF records, Stage
  <1>8. Blocked(r)'
    BY <1>3, <1>6 DEF records, Blocked
  <1>9. Holds(s)'
    <2>1. s.pc = "refuse" => s.verdict \in Verdicts
      BY <1>2 DEF Verdicts
    <2>2. StageOf(s) = "nothing" /\ s.pc # "reply"
      BY <1>2 DEF StageOf
    <2> QED BY <1>2, <1>5, <1>6, <1>7, <2>1, <2>2 DEF Holds
  <1> QED BY <1>2, <1>3, <1>4, <1>5, <1>8, <1>9, NotIdle, HandlerStep

LEMMA CheckInv ==
  ASSUME Inv, NEW p \in Processes, NEW r \in Requests, Check(p, r)
  PROVE  Inv'
  <1>1. PICK t \in Activity : t = handler[p] /\ handler[p] # Idle
    BY NotIdle DEF Check, Doing, Inv, TypeOK, Idle
  <1>2. t.pc = "check" /\ t.decision # "block" /\ StageOf(t) = "nothing"
    BY <1>1, Known DEF Check, Doing, StageOf
  <1>3. "search" \in Steps /\ "overBudget" \in Verdicts
    BY DEF Steps, Verdicts
  <1>4. PICK s \in Activity :
          /\ Become(p, s) /\ s.request = t.request /\ s.decision = t.decision
          /\ \/ s.pc = "search"
             \/ s.pc = "refuse" /\ s.verdict = "overBudget"
    BY <1>1, <1>3, GoesOn, IsRefused DEF Check
  <1>5. StageOf(s) = "nothing" /\ s.pc # "reply" /\ (s.pc = "refuse" => s.verdict \in Verdicts)
    BY <1>3, <1>4 DEF StageOf
  <1> QED BY <1>1, <1>2, <1>4, <1>5, Quiet DEF Check

\* A handler that goes on after a commit, or ends.
LEMMA Commits ==
  ASSUME Inv, TypeOK', NEW p \in Processes, NEW r \in Requests,
         handler[p] # Idle, handler[p].request = r,
         NEW s \in Activity \union {Idle}, Become(p, s),
         UNCHANGED <<now, fresh, purger>>, faults' = 0 => faults = 0, Others(r),
         s # Idle => /\ s.request = r /\ reply'[r] = "none" /\ Stage(r)' = StageOf(s)
                     /\ s.pc # "refuse" /\ (s.pc = "reply" => s.verdict # "none")
                     /\ s.decision = "block" => s.pc = "reply" /\ s.verdict = "blocked",
         s = Idle => (faults' = 0 => Settled(r)'),
         Blocked(r)',
         audit[r] = NoAudit \/ audit'[r] = audit[r]
  PROVE  Inv'
  <1>1. r \notin fresh /\ r \notin fresh'
    BY Known
  <1>2. s # Idle => Holds(s)'
    BY <1>1 DEF Holds, StageOf
  <1>3. now' = now /\ purger' = purger
    OBVIOUS
  <1> QED BY <1>1, <1>2, <1>3, HandlerStep

LEMMA SearchInv ==
  ASSUME Inv, NEW p \in Processes, NEW r \in Requests, Search(p, r)
  PROVE  Inv'
  <1>1. PICK t \in Activity : t = handler[p] /\ handler[p] # Idle
    BY NotIdle DEF Search, Doing, Inv, TypeOK, Idle
  <1>2. /\ t.pc = "search" /\ t.request = r /\ t.decision # "block" /\ Stage(r) = "nothing"
        /\ reply[r] = "none"
    BY <1>1, Known DEF Search, Doing, StageOf
  <1>3. PICK s \in Activity :
          Become(p, s) /\ s.pc = "call" /\ s.request = r /\ s.decision = t.decision
    BY <1>1, <1>2, GoesOn DEF Search, Steps
  <1>4. TypeOK'
    BY <1>3 DEF Search, Become, Inv, TypeOK
  <1>5. Others(r) /\ audit' = audit /\ reply' = reply
    BY DEF Search, Others
  <1>6. Stage(r)' = "searched"
    BY <1>2, Stages DEF RecordsOf, Search, Later
  <1>7. StageOf(s) = "searched"
    BY <1>3 DEF StageOf
  <1>8. Blocked(r)'
    BY <1>2, <1>5, Stages DEF RecordsOf, Blocked, NoAudit
  <1>9. UNCHANGED <<now, fresh, purger>> /\ faults' = faults
    BY DEF Search
  <1> QED BY <1>1, <1>2, <1>3, <1>4, <1>5, <1>6, <1>7, <1>8, <1>9, NotIdle, Commits

LEMMA CallInv ==
  ASSUME Inv, NEW p \in Processes, NEW r \in Requests, Call(p, r)
  PROVE  Inv'
  <1>1. PICK t \in Activity : t = handler[p] /\ handler[p] # Idle
    BY NotIdle DEF Call, Doing, Inv, TypeOK, Idle
  <1>2. /\ t.pc = "call" /\ t.request = r /\ t.decision # "block" /\ StageOf(t) = "searched"
        /\ Stage(r) = "searched" /\ reply[r] = "none" /\ Blocked(r)
    BY <1>1, Known DEF Call, Doing, StageOf
  <1>3. PICK s \in Activity :
          /\ Become(p, s) /\ s.request = r /\ s.decision = t.decision
          /\ \/ s.pc = "audit"
             \/ s.pc = "refuse" /\ s.verdict = "unavailable"
             \/ s.pc = "reply" /\ s.verdict = "invalid"
    BY <1>1, <1>2, GoesOn, IsRefused, IsReplying DEF Call, Steps, Verdicts, Answers
  <1>4. StageOf(s) = "searched"
    BY <1>3 DEF StageOf
  <1>5. "unavailable" \in Verdicts
    BY DEF Verdicts
  <1> QED BY <1>1, <1>2, <1>3, <1>4, <1>5, Quiet DEF Call

\* record_gateway_call leaves a sound row.
LEMMA RecordedRow ==
  ASSUME Inv, NEW r \in Requests, NEW decision \in Decisions, NEW body \in BOOLEAN,
         Recorded(r, decision, body)
  PROVE  /\ audit' \in [Requests -> AuditRow \union {NoAudit}]
         /\ {runs', violations', invocations', jobs', spent', sent'} \subseteq SUBSET Requests
         /\ \A q \in Requests : audit'[q].body <=> audit'[q].expires # Null
         /\ audit'[r] # NoAudit /\ audit'[r].decision = decision
         /\ r \in invocations' <=> body \/ r \in invocations
         /\ decision # "allow" => r \in violations'
         /\ Others(r) <=> \A q \in Requests \ {r} :
                            (q \in fresh' <=> q \in fresh) /\ reply'[q] = reply[q]
  <1> DEFINE row == [decision |-> decision, body |-> body, expires |-> Expiry(body)]
  <1>1. now \in Nat /\ TTL \in Nat /\ audit \in [Requests -> AuditRow \union {NoAudit}]
        /\ \A q \in Requests : audit[q].body <=> audit[q].expires # Null
    BY DEF Inv, TypeOK
  <1>2. Expiry(body) \in Int /\ (body <=> Expiry(body) # Null)
    BY <1>1 DEF Expiry, Null
  <1>3. /\ row \in AuditRow /\ row.decision = decision /\ row.body = body
        /\ row.expires = Expiry(body)
    BY <1>2 DEF AuditRow
  <1>4. row # NoAudit
    BY <1>3, Rows
  <1>5. audit' = [audit EXCEPT ![r] = row] /\ UNCHANGED <<runs, jobs, spent, sent>>
    BY DEF Recorded
  <1> HIDE DEF row
  <1>6. /\ audit' \in [Requests -> AuditRow \union {NoAudit}] /\ audit'[r] = row
        /\ \A q \in Requests \ {r} : audit'[q] = audit[q]
    BY <1>1, <1>3, <1>5
  <1>7. \A q \in Requests : audit'[q].body <=> audit'[q].expires # Null
    BY <1>1, <1>2, <1>3, <1>6
  <1>8. /\ {runs', violations', invocations', jobs', spent', sent'} \subseteq SUBSET Requests
        /\ r \in invocations' <=> body \/ r \in invocations
        /\ decision # "allow" => r \in violations'
        /\ \A q \in Requests \ {r} : /\ q \in violations' <=> q \in violations
                                     /\ q \in invocations' <=> q \in invocations
    BY DEF Recorded, Inv, TypeOK
  <1>9. Others(r) <=> \A q \in Requests \ {r} :
                        (q \in fresh' <=> q \in fresh) /\ reply'[q] = reply[q]
    BY <1>5, <1>6, <1>8 DEF Others
  <1> QED BY <1>3, <1>4, <1>6, <1>7, <1>8, <1>9

LEMMA RefuseInv ==
  ASSUME Inv, NEW p \in Processes, NEW r \in Requests, Refuse(p, r)
  PROVE  Inv'
  <1>1. PICK t \in Activity : t = handler[p] /\ handler[p] # Idle
    BY NotIdle DEF Refuse, Doing, Inv, TypeOK, Idle
  <1>2. /\ t.request = r /\ t.pc = "refuse" /\ t.verdict \in Verdicts /\ t.decision \in Decisions
        /\ Stage(r) = IF t.verdict = "unavailable" THEN "searched" ELSE "nothing"
        /\ t.decision = "block" => t.verdict = "blocked"
        /\ reply[r] = "none"
    BY <1>1, Known DEF Refuse, Doing, StageOf
  <1>3. PICK s \in Activity :
          /\ Become(p, s) /\ s.pc = "reply" /\ s.request = r /\ s.decision = t.decision
          /\ s.verdict = t.verdict
    BY <1>1, <1>2, IsReplying DEF Refuse, Answers
  <1>4. Recorded(r, t.decision, FALSE) /\ UNCHANGED <<now, fresh, reply, purger, faults>>
    BY <1>1 DEF Refuse
  <1>5. /\ audit' \in [Requests -> AuditRow \union {NoAudit}]
        /\ {runs', violations', invocations', jobs', spent', sent'} \subseteq SUBSET Requests
        /\ \A q \in Requests : audit'[q].body <=> audit'[q].expires # Null
        /\ audit'[r] # NoAudit /\ audit'[r].decision = t.decision
        /\ r \in invocations' <=> r \in invocations
        /\ t.decision # "allow" => r \in violations'
        /\ Others(r)
    BY <1>2, <1>4, RecordedRow
  <1>6. TypeOK'
    BY <1>3, <1>4, <1>5 DEF Become, Inv, TypeOK
  <1>7. Stage(r)' = IF t.verdict = "unavailable" THEN "unanswered" ELSE "refused"
    BY <1>2, <1>4, <1>5, Stages DEF RecordsOf, Recorded, Later
  <1>8. StageOf(s) = IF t.verdict = "unavailable" THEN "unanswered" ELSE "refused"
    BY <1>2, <1>3 DEF StageOf, Verdicts
  <1>9. Blocked(r)'
    BY <1>2, <1>4, <1>5, Stages DEF RecordsOf, Blocked, Recorded, Later
  <1>10. audit[r] = NoAudit
    BY <1>2, Stages DEF RecordsOf
  <1>11. reply'[r] = "none" /\ s.verdict # "none" /\ faults' = faults
    BY <1>2, <1>3, <1>4 DEF Verdicts
  <1> QED BY <1>1, <1>2, <1>3, <1>4, <1>5, <1>6, <1>7, <1>8, <1>9, <1>10, <1>11, NotIdle, Commits

LEMMA AuditInv ==
  ASSUME Inv, NEW p \in Processes, NEW r \in Requests, Audit(p, r)
  PROVE  Inv'
  <1>1. PICK t \in Activity : t = handler[p] /\ handler[p] # Idle
    BY NotIdle DEF Audit, Doing, Inv, TypeOK, Idle
  <1>2. /\ t.request = r /\ t.pc = "audit" /\ t.decision \in Decisions /\ t.decision # "block"
        /\ Stage(r) = "searched" /\ reply[r] = "none"
    BY <1>1, Known DEF Audit, Doing, StageOf
  <1>3. PICK s \in Activity :
          Become(p, s) /\ s.pc = "enqueue" /\ s.request = r /\ s.decision = t.decision
    BY <1>1, <1>2, GoesOn DEF Audit, Steps
  <1>4. Recorded(r, t.decision, TRUE) /\ UNCHANGED <<now, fresh, reply, purger, faults>>
    BY <1>1 DEF Audit
  <1>5. /\ audit' \in [Requests -> AuditRow \union {NoAudit}]
        /\ {runs', violations', invocations', jobs', spent', sent'} \subseteq SUBSET Requests
        /\ \A q \in Requests : audit'[q].body <=> audit'[q].expires # Null
        /\ audit'[r] # NoAudit /\ audit'[r].decision = t.decision
        /\ r \in invocations'
        /\ Others(r)
    BY <1>2, <1>4, RecordedRow
  <1>6. TypeOK'
    BY <1>3, <1>4, <1>5 DEF Become, Inv, TypeOK
  <1>7. Stage(r)' = "answered"
    BY <1>2, <1>4, <1>5, Stages DEF RecordsOf, Recorded, Later
  <1>8. Blocked(r)'
    BY <1>2, <1>5 DEF Blocked
  <1>9. audit[r] = NoAudit
    BY <1>2, Stages DEF RecordsOf
  <1>10. StageOf(s) = "answered" /\ reply'[r] = "none" /\ faults' = faults
    BY <1>2, <1>3, <1>4 DEF StageOf
  <1> QED BY <1>1, <1>2, <1>3, <1>4, <1>5, <1>6, <1>7, <1>8, <1>9, <1>10, NotIdle, Commits

LEMMA EnqueueInv ==
  ASSUME Inv, NEW p \in Processes, NEW r \in Requests, Enqueue(p, r)
  PROVE  Inv'
  <1>1. PICK t \in Activity : t = handler[p] /\ handler[p] # Idle
    BY NotIdle DEF Enqueue, Doing, Inv, TypeOK, Idle
  <1>2. /\ t.request = r /\ t.pc = "enqueue" /\ t.decision # "block"
        /\ Stage(r) = "answered" /\ reply[r] = "none" /\ Blocked(r)
    BY <1>1, Known DEF Enqueue, Doing, StageOf
  <1>3. PICK s \in Activity :
          Become(p, s) /\ s.pc = "spend" /\ s.request = r /\ s.decision = t.decision
    BY <1>1, <1>2, GoesOn DEF Enqueue, AfterEnqueue, Steps
  <1>4. TypeOK'
    BY <1>3 DEF Enqueue, Become, Inv, TypeOK
  <1>5. Others(r) /\ audit' = audit /\ reply' = reply /\ faults' = faults
        /\ UNCHANGED <<now, fresh, purger>>
    BY DEF Enqueue, Others
  <1>6. Stage(r)' = "queued"
    BY <1>2, Stages DEF RecordsOf, Enqueue, Later
  <1>7. StageOf(s) = "queued"
    BY <1>3 DEF StageOf
  <1>8. Blocked(r)'
    BY <1>2, <1>5, Stages DEF RecordsOf, Blocked
  <1> QED BY <1>1, <1>2, <1>3, <1>4, <1>5, <1>6, <1>7, <1>8, NotIdle, Commits

LEMMA SpendInv ==
  ASSUME Inv, NEW p \in Processes, NEW r \in Requests, Spend(p, r)
  PROVE  Inv'
  <1>1. PICK t \in Activity : t = handler[p] /\ handler[p] # Idle
    BY NotIdle DEF Spend, Doing, Inv, TypeOK, Idle
  <1>2. /\ t.request = r /\ t.pc = "spend" /\ t.decision # "block"
        /\ Stage(r) = "queued" /\ reply[r] = "none" /\ Blocked(r)
    BY <1>1, Known DEF Spend, Doing, StageOf
  <1>3. PICK s \in Activity :
          Become(p, s) /\ s.pc = "dispatch" /\ s.request = r /\ s.decision = t.decision
    BY <1>1, <1>2, GoesOn DEF Spend, Steps
  <1>4. TypeOK'
    BY <1>3 DEF Spend, Become, Inv, TypeOK
  <1>5. Others(r) /\ audit' = audit /\ reply' = reply /\ faults' = faults
        /\ UNCHANGED <<now, fresh, purger>>
    BY DEF Spend, Others
  <1>6. Stage(r)' = "charged"
    BY <1>2, Stages DEF RecordsOf, Spend, Later
  <1>7. StageOf(s) = "charged"
    BY <1>3 DEF StageOf
  <1>8. Blocked(r)'
    BY <1>2, <1>5, Stages DEF RecordsOf, Blocked
  <1> QED BY <1>1, <1>2, <1>3, <1>4, <1>5, <1>6, <1>7, <1>8, NotIdle, Commits

LEMMA DispatchInv ==
  ASSUME Inv, NEW p \in Processes, NEW r \in Requests, Dispatch(p, r)
  PROVE  Inv'
  <1>1. PICK t \in Activity : t = handler[p] /\ handler[p] # Idle
    BY NotIdle DEF Dispatch, Doing, Inv, TypeOK, Idle
  <1>2. /\ t.request = r /\ t.decision # "block" /\ Stage(r) = "charged" /\ reply[r] = "none"
        /\ Blocked(r)
    BY <1>1, Known DEF Dispatch, Doing, StageOf
  <1>3. PICK s \in Activity :
          /\ Become(p, s) /\ s.pc = "reply" /\ s.request = r /\ s.decision = t.decision
          /\ s.verdict = "answered"
    BY <1>1, <1>2, IsReplying DEF Dispatch, Answers
  <1>4. TypeOK'
    BY <1>3 DEF Dispatch, Become, Inv, TypeOK
  <1>5. Others(r) /\ audit' = audit /\ reply' = reply /\ faults' = faults
        /\ UNCHANGED <<now, fresh, purger>>
    BY DEF Dispatch, Others
  <1>6. Stage(r)' = "sent"
    BY <1>2, Stages DEF RecordsOf, Dispatch
  <1>7. StageOf(s) = "sent"
    BY <1>3 DEF StageOf
  <1>8. Blocked(r)'
    BY <1>2, <1>5 DEF Blocked, Dispatch
  <1> QED BY <1>1, <1>2, <1>3, <1>4, <1>5, <1>6, <1>7, <1>8, NotIdle, Commits

\* What the records of a request say when its caller is told.
LEMMA Replies ==
  ASSUME Inv, NEW p \in Processes, NEW r \in Requests, Reply(p, r)
  PROVE  /\ handler[p] # Idle /\ handler[p].request = r /\ handler[p].verdict \in Answers
         /\ handler[p].verdict \in {"blocked", "overBudget"} => Stage(r) = "refused"
         /\ handler[p].verdict = "unavailable" => Stage(r) = "unanswered"
         /\ handler[p].verdict = "invalid" => Stage(r) = "searched"
         /\ handler[p].verdict = "answered" => Stage(r) = "sent"
         /\ reply[r] = "none" /\ Blocked(r) /\ Answer(r, handler[p].verdict)
         /\ UNCHANGED <<now, fresh, records, purger, faults>>
  <1>1. handler[p] # Idle /\ handler[p].request = r /\ handler[p].pc = "reply"
    BY DEF Reply, Doing, Idle
  <1>2. Stage(r) = StageOf(handler[p])
    BY <1>1, Known
  <1> QED BY <1>1, <1>2, Known DEF Reply, StageOf

LEMMA ReplyInv ==
  ASSUME Inv, NEW p \in Processes, NEW r \in Requests, Reply(p, r)
  PROVE  Inv'
  <1>1. PICK a \in Answers : a = handler[p].verdict
    BY Replies
  <1>2. /\ handler[p] # Idle /\ handler[p].request = r /\ Become(p, Idle) /\ Answer(r, a)
        /\ UNCHANGED <<now, fresh, records, purger>> /\ faults' = faults
    BY <1>1, Replies DEF Reply
  <1>3. TypeOK'
    BY <1>2 DEF Become, Answer, records, Inv, TypeOK
  <1>4. Others(r) /\ audit' = audit /\ reply'[r] = a /\ invocations' = invocations
    BY <1>2 DEF Answer, records, Others, Inv, TypeOK
  <1>5. Blocked(r)'
    BY <1>2, Replies DEF Blocked, records
  <1>6. Settled(r)'
    <2>1. CASE a \in Verdicts
      <3>1. Stage(r) \in {"refused", "unanswered"}
        BY <1>1, <2>1, Replies DEF Verdicts
      <3> QED BY <1>4, <2>1, <3>1, Stages DEF RecordsOf, Settled
    <2>2. CASE a = "invalid"
      <3>1. Stage(r) = "searched"
        BY <1>1, <2>2, Replies
      <3> QED BY <1>4, <2>2, <3>1, Stages DEF RecordsOf, Settled
    <2>3. CASE a = "answered"
      <3>1. Stage(r) = "sent"
        BY <1>1, <2>3, Replies
      <3> QED BY <1>2, <1>4, <2>3, <3>1, Stages DEF RecordsOf, Settled, records
    <2> QED BY <2>1, <2>2, <2>3 DEF Answers
  <1> QED BY <1>2, <1>3, <1>4, <1>5, <1>6, Commits

\* A request that dies or is ended by an error.
LEMMA FaultInv ==
  ASSUME Inv, NEW p \in Processes, Crash(p) \/ \E r \in Requests : DatabaseError(p, r)
  PROVE  Inv'
  <1>1. handler[p] # Idle /\ Become(p, Idle) /\ Fault
        /\ UNCHANGED <<now, fresh, records, purger>>
    BY DEF Crash, DatabaseError
  <1>2. PICK r \in Requests : handler[p].request = r
    BY <1>1, Known
  <1>3. reply' = reply \/ Answer(r, "error")
    BY <1>2 DEF Crash, DatabaseError
  <1>4. faults' \in Nat /\ faults' # 0
    BY <1>1 DEF Fault, Inv, TypeOK
  <1>5. TypeOK'
    BY <1>1, <1>3, <1>4 DEF Become, Answer, records, Inv, TypeOK
  <1>6. Others(r) /\ audit' = audit
    BY <1>1, <1>3 DEF Answer, records, Others, Inv, TypeOK
  <1>7. Blocked(r)'
    BY <1>1, <1>2, Known DEF Blocked, records
  <1> QED BY <1>1, <1>2, <1>4, <1>5, <1>6, <1>7, Commits

-----------------------------------------------------------------------------
(* The purge and the calendar. *)

\* What a purge may do to the rows.
LEMMA PurgedRows ==
  ASSUME Inv, NEW w \in Purgers, CommitPurge(w)
  PROVE  /\ audit' \in [Requests -> AuditRow \union {NoAudit}]
         /\ \A r \in Requests :
              /\ audit'[r] # NoAudit <=> audit[r] # NoAudit
              /\ audit'[r].decision = audit[r].decision
              /\ audit'[r].body <=> audit'[r].expires # Null
              /\ audit'[r].body => audit'[r] = audit[r]
              /\ audit'[r] # audit[r] =>
                   /\ audit[r].expires # Null /\ audit[r].expires <= now
                   /\ audit'[r] = Purged(audit[r])
  <1>1. /\ audit \in [Requests -> AuditRow \union {NoAudit}]
        /\ \A r \in Requests : audit[r].body <=> audit[r].expires # Null
    BY DEF Inv, TypeOK
  <1>2. audit' = [r \in Requests |-> IF r \in purger[w] THEN Purged(audit[r]) ELSE audit[r]]
    BY DEF CommitPurge
  <1>3. ASSUME NEW r \in Requests, r \in purger[w]
        PROVE  /\ audit[r] \in AuditRow /\ audit[r] # NoAudit
               /\ audit[r].body => audit[r].expires <= now
               /\ audit'[r] = Purged(audit[r]) /\ Purged(audit[r]) \in AuditRow
               /\ Purged(audit[r]) # NoAudit
               /\ Purged(audit[r]).decision = audit[r].decision
               /\ Purged(audit[r]).body = FALSE /\ Purged(audit[r]).expires = Null
               /\ ~audit[r].body /\ audit[r].expires = Null => Purged(audit[r]) = audit[r]
    <2>1. audit[r] # NoAudit /\ (audit[r].body => audit[r].expires <= now)
      BY <1>3 DEF Inv, PurgesSound
    <2>2. audit[r] \in AuditRow
      BY <1>1, <2>1
    <2> QED BY <1>2, <1>3, <2>1, <2>2, Rows
  <1>4. \A r \in Requests : r \notin purger[w] => audit'[r] = audit[r]
    BY <1>2
  <1>5. audit' \in [Requests -> AuditRow \union {NoAudit}]
    BY <1>1, <1>2, <1>3
  <1>6. ASSUME NEW r \in Requests
        PROVE  /\ audit'[r] # NoAudit <=> audit[r] # NoAudit
               /\ audit'[r].decision = audit[r].decision
               /\ audit'[r].body <=> audit'[r].expires # Null
               /\ audit'[r].body => audit'[r] = audit[r]
               /\ audit'[r] # audit[r] =>
                    /\ audit[r].expires # Null /\ audit[r].expires <= now
                    /\ audit'[r] = Purged(audit[r])
    <2>1. CASE r \in purger[w]
      BY <1>1, <1>3, <2>1
    <2>2. CASE r \notin purger[w]
      BY <1>1, <1>4, <2>2
    <2> QED BY <2>1, <2>2
  <1> QED BY <1>5, <1>6

\* A step that changes no row but those of the audit log, and these as a purge does.
LEMMA Aside ==
  ASSUME Inv, TypeOK', UNCHANGED <<fresh, handler, reply, runs, violations, invocations, jobs,
                                   spent, sent>>,
         faults' = 0 => faults = 0,
         \A r \in Requests :
           /\ audit'[r] # NoAudit <=> audit[r] # NoAudit
           /\ audit'[r].decision = audit[r].decision,
         PurgesSound'
  PROVE  Inv' /\ \A r \in Requests : Stage(r)' = Stage(r)
  <1>1. \A r \in Requests : Stage(r)' = Stage(r)
    BY DEF Stage
  <1>2. HandlersSound'
    <2>1. ASSUME NEW p \in Processes, handler[p] # Idle PROVE Holds(handler[p])'
      BY <1>1, <2>1, Known DEF Inv, HandlersSound, Holds, StageOf
    <2> QED BY <2>1 DEF HandlersSound
  <1>3. Alone'
    BY DEF Inv, Alone
  <1>4. FreshSound'
    BY <1>1 DEF Inv, FreshSound, TypeOK
  <1>5. AllSettled'
    BY DEF Inv, AllSettled, Settled, InHand
  <1>6. AllBlocked'
    BY DEF Inv, AllBlocked, Blocked
  <1> QED BY <1>1, <1>2, <1>3, <1>4, <1>5, <1>6 DEF Inv

LEMMA AsideInv ==
  ASSUME Inv, (\E w \in Purgers : LoadPurge(w) \/ CommitPurge(w) \/ PurgeFails(w))
              \/ NextDay \/ UNCHANGED vars
  PROVE  Inv' /\ \A r \in Requests : Stage(r)' = Stage(r)
  <1>1. /\ now \in Nat /\ faults \in Nat /\ purger \in [Purgers -> SUBSET Requests]
        /\ audit \in [Requests -> AuditRow \union {NoAudit}]
    BY DEF Inv, TypeOK
  <1>2. ASSUME NEW w \in Purgers, LoadPurge(w)
        PROVE  Inv' /\ \A r \in Requests : Stage(r)' = Stage(r)
    <2>1. purger' = [purger EXCEPT ![w] = {r \in Requests : Expired(r)}]
          /\ UNCHANGED <<now, fresh, handler, reply, records, faults>>
      BY <1>2 DEF LoadPurge
    <2>2. TypeOK'
      BY <1>1, <2>1 DEF records, Inv, TypeOK
    <2>3. \A r \in Requests : Expired(r) => audit[r] # NoAudit /\ audit[r].expires <= now
      BY DEF Expired, NoAudit
    <2>4. PurgesSound'
      BY <1>1, <2>1, <2>3 DEF records, Inv, PurgesSound
    <2> QED BY <2>1, <2>2, <2>4, Aside DEF records
  <1>3. ASSUME NEW w \in Purgers, CommitPurge(w)
        PROVE  Inv' /\ \A r \in Requests : Stage(r)' = Stage(r)
    <2>1. /\ purger' = [purger EXCEPT ![w] = {}]
          /\ UNCHANGED <<now, fresh, handler, reply, runs, violations, invocations, jobs, spent, sent,
                         faults>>
      BY <1>3 DEF CommitPurge
    <2>2. TypeOK'
      BY <1>1, <1>3, <2>1, PurgedRows DEF Inv, TypeOK
    <2>3. ASSUME NEW v \in Purgers, NEW r \in purger'[v]
          PROVE  audit'[r] # NoAudit /\ (audit'[r].body => audit'[r].expires <= now')
      <3>1. r \in purger[v] /\ r \in Requests
        BY <1>1, <2>1, <2>3
      <3>2. audit[r] # NoAudit /\ (audit[r].body => audit[r].expires <= now)
        BY <3>1 DEF Inv, PurgesSound
      <3> QED BY <1>3, <2>1, <3>1, <3>2, PurgedRows
    <2>4. PurgesSound'
      BY <2>3 DEF PurgesSound
    <2> QED BY <1>3, <2>1, <2>2, <2>4, PurgedRows, Aside
  <1>4. ASSUME NEW w \in Purgers, PurgeFails(w)
        PROVE  Inv' /\ \A r \in Requests : Stage(r)' = Stage(r)
    <2>1. /\ purger' = [purger EXCEPT ![w] = {}] /\ faults' = faults + 1
          /\ UNCHANGED <<now, fresh, handler, reply, records>>
      BY <1>4 DEF PurgeFails, Fault
    <2>2. TypeOK'
      BY <1>1, <2>1 DEF records, Inv, TypeOK
    <2>3. PurgesSound'
      BY <1>1, <2>1 DEF records, Inv, PurgesSound
    <2> QED BY <1>1, <2>1, <2>2, <2>3, Aside DEF records
  <1>5. CASE NextDay
    <2>1. now' = now + 1 /\ UNCHANGED <<fresh, handler, reply, records, purger, faults>>
      BY <1>5 DEF NextDay
    <2>2. TypeOK'
      BY <1>1, <2>1 DEF records, Inv, TypeOK
    <2>3. ASSUME NEW w \in Purgers, NEW r \in purger[w]
          PROVE  audit[r] # NoAudit /\ (audit[r].body => audit[r].expires <= now + 1)
      <3>1. /\ audit[r] \in AuditRow /\ audit[r] # NoAudit
            /\ audit[r].body => audit[r].expires <= now
        BY <1>1 DEF Inv, PurgesSound
      <3>2. audit[r].expires \in Int
        BY <3>1 DEF AuditRow
      <3> QED BY <1>1, <3>1, <3>2
    <2>4. PurgesSound'
      BY <2>1, <2>3 DEF records, PurgesSound
    <2> QED BY <2>1, <2>2, <2>4, Aside DEF records
  <1>6. CASE UNCHANGED vars
    <2>1. TypeOK' /\ PurgesSound'
      BY <1>6 DEF vars, records, Inv, TypeOK, PurgesSound
    <2> QED BY <1>6, <2>1, Aside DEF vars, records
  <1> QED BY <1>2, <1>3, <1>4, <1>5, <1>6

LEMMA NextInv == ASSUME Inv, [Next]_vars PROVE Inv'
  <1>1. ASSUME NEW p \in Processes, Handle(p) PROVE Inv'
    BY <1>1, CheckInv, SearchInv, CallInv, RefuseInv, AuditInv, EnqueueInv, SpendInv, DispatchInv,
       ReplyInv
       DEF Handle
  <1> QED BY <1>1, BeginInv, FaultInv, AsideInv DEF Next

LEMMA Invariance == Spec => []Inv
  BY InitInv, NextInv, PTL DEF Spec

-----------------------------------------------------------------------------

\* The tables, the sessions and the expiries always have the shape of the schema.
THEOREM TypeCorrect == Spec => []TypeOK
  <1>1. Inv => TypeOK
    BY DEF Inv
  <1> QED BY <1>1, Invariance, PTL

\* Without faults no request is left half done.
THEOREM NothingIsHalfDone == Spec => []NothingHalfDone
  BY InvNothingHalfDone, Invariance, PTL

\* A blocked prompt goes nowhere but to the audit log, whatever dies.
THEOREM BlockedStays == Spec => []BlockedGoesNowhere
  BY InvBlocked, Invariance, PTL

\* The rows of the audit log change by a purge, and only when they are due.
LEMMA OnlyPurges ==
  ASSUME Inv, [Next]_vars, NEW r \in Requests, audit[r] # NoAudit, audit'[r] # audit[r]
  PROVE  /\ audit[r].expires # Null /\ audit[r].expires <= now
         /\ audit'[r] = Purged(audit[r])
  <1>1. ASSUME NEW w \in Purgers, CommitPurge(w)
        PROVE  /\ audit[r].expires # Null /\ audit[r].expires <= now
               /\ audit'[r] = Purged(audit[r])
    BY <1>1, PurgedRows
  <1>2. ASSUME NEW p \in Processes, NEW q \in Requests, Refuse(p, q) \/ Audit(p, q)
        PROVE  FALSE
    <2>1. handler[p].request = q /\ handler[p].pc \in {"refuse", "audit"}
      BY <1>2 DEF Refuse, Audit, Doing
    <2>2. Stage(q) \in {"nothing", "searched"}
      <3>1. handler[p] # Idle
        BY <2>1 DEF Idle
      <3> QED BY <2>1, <3>1, Known DEF StageOf
    <2>3. audit[q] = NoAudit
      BY <2>2, Stages DEF RecordsOf
    <2>4. audit'[r] = audit[r] \/ r = q
      BY <1>2 DEF Refuse, Audit, Recorded, Inv, TypeOK
    <2> QED BY <2>3, <2>4
  <1>3. ASSUME NEW p \in Processes, Handle(p) PROVE FALSE
    BY <1>2, <1>3 DEF Handle, Check, Search, Call, Enqueue, Spend, Dispatch, Reply, records
  <1> QED
    BY <1>1, <1>3 DEF Next, Begin, Crash, DatabaseError, LoadPurge, PurgeFails, NextDay, vars, records

\* Whatever purges overlap or die, they clear what has expired, body and expiry
\* together, and leave the rest of the row.
THEOREM PurgesOnlyExpired == Spec => PurgedOnlyExpired
  <1> DEFINE A == \A r \in Requests : audit[r] # NoAudit /\ audit'[r] # audit[r] =>
                    /\ audit[r].expires # Null /\ audit[r].expires <= now
                    /\ audit'[r] = Purged(audit[r])
  <1>1. Inv /\ [Next]_vars => [A]_vars
    BY OnlyPurges
  <1> HIDE DEF A
  <1>2. Spec => [][A]_vars
    BY <1>1, Invariance, PTL DEF Spec
  <1> QED BY <1>2 DEF PurgedOnlyExpired, A

-----------------------------------------------------------------------------
(* The handler implements RequestLedger. *)

\* One request goes on.
LEMMA OneMoves ==
  ASSUME NEW r \in Requests, \A q \in Requests \ {r} : Stage(q)' = Stage(q),
         reply[r] = "none",
         NEW a \in Ledger!Proper(Stage(r)') \union {"error"},
         \/ Stage(r)' \in Ledger!Following(Stage(r)) /\ reply' = reply
         \/ Stage(r)' = Stage(r) /\ Answer(r, a)
  PROVE  Ledger!Next
  <1>1. PICK s : s = Stage(r)'
    OBVIOUS
  <1>2. [q \in Requests |-> Stage(q)][r] = Stage(r)
    OBVIOUS
  <1>3. [q \in Requests |-> Stage(q)]' = [[q \in Requests |-> Stage(q)] EXCEPT ![r] = s]
    BY <1>1
  <1>4. CASE s \in Ledger!Following(Stage(r)) /\ reply' = reply
    <2>1. Ledger!Record(r)
      BY <1>2, <1>3, <1>4 DEF Ledger!Record
    <2> QED BY <2>1 DEF Ledger!Next
  <1>5. CASE s = Stage(r) /\ Answer(r, a)
    <2>1. [q \in Requests |-> Stage(q)]' = [q \in Requests |-> Stage(q)]
      BY <1>3, <1>5
    <2>2. a \in Ledger!Proper(Stage(r)) \union {"error"}
      BY <1>1, <1>5
    <2>3. Ledger!Tell(r)
      BY <1>2, <1>5, <2>1, <2>2 DEF Ledger!Tell, Answer
    <2> QED BY <2>3 DEF Ledger!Next
  <1> QED BY <1>1, <1>4, <1>5

\* Every step of a handler is one of RequestLedger, or changes no record.
LEMMA HandleStage ==
  ASSUME Inv, NEW p \in Processes, NEW r \in Requests, handler[p] # Idle,
         handler[p].request = r, Others(r)
  PROVE  /\ \A q \in Requests \ {r} : Stage(q)' = Stage(q)
         /\ reply[r] = "none" /\ Stage(r) = StageOf(handler[p])
  BY OtherStages, Known

LEMMA Busy ==
  ASSUME Inv, NEW p \in Processes, NEW r \in Requests, NEW pc \in Steps, Doing(p, pc, r)
  PROVE  handler[p] # Idle /\ handler[p].request = r
  BY DEF Doing, Idle, Steps

LEMMA RefuseStep ==
  ASSUME Inv, NEW p \in Processes, NEW r \in Requests, Refuse(p, r)
  PROVE  Ledger!Next
  <1>1. PICK t \in Activity : t = handler[p] /\ handler[p] # Idle
    BY NotIdle DEF Refuse, Doing, Inv, TypeOK, Idle
  <1>2. /\ t.request = r /\ t.pc = "refuse" /\ t.verdict \in Verdicts /\ t.decision \in Decisions
        /\ Stage(r) = IF t.verdict = "unavailable" THEN "searched" ELSE "nothing"
        /\ reply[r] = "none"
    BY <1>1, Known DEF Refuse, Doing, StageOf
  <1>3. Recorded(r, t.decision, FALSE) /\ UNCHANGED <<fresh, reply>>
    BY <1>1 DEF Refuse
  <1>4. audit'[r] # NoAudit /\ (r \in invocations' <=> r \in invocations) /\ Others(r)
    BY <1>2, <1>3, RecordedRow
  <1>5. Stage(r)' = IF t.verdict = "unavailable" THEN "unanswered" ELSE "refused"
    BY <1>2, <1>3, <1>4, Stages DEF RecordsOf, Recorded, Later
  <1>6. Stage(r)' \in Ledger!Following(Stage(r))
    BY <1>2, <1>5 DEF Ledger!Following
  <1>7. \A q \in Requests \ {r} : Stage(q)' = Stage(q)
    BY <1>4, OtherStages
  <1> QED BY <1>2, <1>3, <1>6, <1>7, OneMoves

LEMMA AuditStep ==
  ASSUME Inv, NEW p \in Processes, NEW r \in Requests, Audit(p, r)
  PROVE  Ledger!Next
  <1>1. PICK t \in Activity : t = handler[p] /\ handler[p] # Idle
    BY NotIdle DEF Audit, Doing, Inv, TypeOK, Idle
  <1>2. /\ t.request = r /\ t.decision \in Decisions /\ Stage(r) = "searched" /\ reply[r] = "none"
    BY <1>1, Known DEF Audit, Doing, StageOf
  <1>3. Recorded(r, t.decision, TRUE) /\ UNCHANGED <<fresh, reply>>
    BY <1>1 DEF Audit
  <1>4. audit'[r] # NoAudit /\ r \in invocations' /\ Others(r)
    BY <1>2, <1>3, RecordedRow
  <1>5. Stage(r)' = "answered"
    BY <1>2, <1>3, <1>4, Stages DEF RecordsOf, Recorded, Later
  <1>6. Stage(r)' \in Ledger!Following(Stage(r))
    BY <1>2, <1>5 DEF Ledger!Following
  <1>7. \A q \in Requests \ {r} : Stage(q)' = Stage(q)
    BY <1>4, OtherStages
  <1> QED BY <1>2, <1>3, <1>6, <1>7, OneMoves

LEMMA CommitStep ==
  ASSUME Inv, NEW p \in Processes, NEW r \in Requests,
         Search(p, r) \/ Enqueue(p, r) \/ Spend(p, r) \/ Dispatch(p, r)
  PROVE  Ledger!Next
  <1>1. handler[p] # Idle /\ handler[p].request = r
    BY Busy DEF Search, Enqueue, Spend, Dispatch, Steps
  <1>2. Others(r)
    BY DEF Search, Enqueue, Spend, Dispatch, Others, Answer, Inv, TypeOK
  <1>3. reply[r] = "none" /\ \A q \in Requests \ {r} : Stage(q)' = Stage(q)
    BY <1>1, <1>2, HandleStage
  <1>4. CASE Search(p, r)
    <2>1. Stage(r) = "nothing"
      BY <1>1, <1>4, Known DEF Search, Doing, StageOf
    <2>2. Stage(r)' = "searched"
      BY <1>4, <2>1, Stages DEF RecordsOf, Search, Later
    <2> QED BY <1>3, <1>4, <2>1, <2>2, OneMoves DEF Ledger!Following, Search
  <1>5. CASE Enqueue(p, r)
    <2>1. Stage(r) = "answered"
      BY <1>1, <1>5, Known DEF Enqueue, Doing, StageOf
    <2>2. Stage(r)' = "queued"
      BY <1>5, <2>1, Stages DEF RecordsOf, Enqueue, Later
    <2> QED BY <1>3, <1>5, <2>1, <2>2, OneMoves DEF Ledger!Following, Enqueue
  <1>6. CASE Spend(p, r)
    <2>1. Stage(r) = "queued"
      BY <1>1, <1>6, Known DEF Spend, Doing, StageOf
    <2>2. Stage(r)' = "charged"
      BY <1>6, <2>1, Stages DEF RecordsOf, Spend, Later
    <2> QED BY <1>3, <1>6, <2>1, <2>2, OneMoves DEF Ledger!Following, Spend
  <1>7. CASE Dispatch(p, r)
    <2>1. Stage(r) = "charged"
      BY <1>1, <1>7, Known DEF Dispatch, Doing, StageOf
    <2>2. Stage(r)' = "sent"
      BY <1>7, <2>1, Stages DEF RecordsOf, Dispatch
    <2> QED BY <1>3, <1>7, <2>1, <2>2, OneMoves DEF Ledger!Following, Dispatch
  <1> QED BY <1>4, <1>5, <1>6, <1>7

LEMMA TellStep ==
  ASSUME Inv, NEW p \in Processes, NEW r \in Requests, Reply(p, r) \/ DatabaseError(p, r)
  PROVE  Ledger!Next
  <1>1. \A q \in Requests : Stage(q)' = Stage(q)
    BY DEF Reply, DatabaseError, Stage, records
  <1>2. reply[r] = "none"
    BY Replies, Known DEF DatabaseError
  <1>3. CASE DatabaseError(p, r)
    BY <1>1, <1>2, <1>3, OneMoves DEF DatabaseError
  <1>4. CASE Reply(p, r)
    <2>1. Answer(r, handler[p].verdict) /\ handler[p].verdict \in Ledger!Proper(Stage(r))
      BY <1>4, Replies DEF Ledger!Proper, Answers, Verdicts
    <2> QED BY <1>1, <1>2, <2>1, OneMoves
  <1> QED BY <1>3, <1>4

LEMMA Stutters ==
  ASSUME \A r \in Requests : Stage(r)' = Stage(r), UNCHANGED reply
  PROVE  UNCHANGED Ledger!vars
  BY DEF Ledger!vars

LEMMA LedgerStep == ASSUME Inv, [Next]_vars PROVE [Ledger!Next]_(Ledger!vars)
  <1>1. ASSUME UNCHANGED <<reply, records>> PROVE [Ledger!Next]_(Ledger!vars)
    <2>1. \A q \in Requests : Stage(q)' = Stage(q)
      BY <1>1 DEF Stage, records
    <2> QED BY <1>1, <2>1, Stutters
  <1>2. ASSUME NEW p \in Processes, Handle(p) PROVE [Ledger!Next]_(Ledger!vars)
    <2>1. PICK r \in Requests :
            \/ Check(p, r) \/ Search(p, r) \/ Call(p, r) \/ Refuse(p, r) \/ Audit(p, r)
            \/ Enqueue(p, r) \/ Spend(p, r) \/ Dispatch(p, r) \/ Reply(p, r)
      BY <1>2 DEF Handle
    <2>2. CASE Check(p, r) \/ Call(p, r)
      BY <1>1, <2>2 DEF Check, Call
    <2> QED BY <2>1, <2>2, RefuseStep, AuditStep, CommitStep, TellStep
  <1>3. ASSUME NEW p \in Processes, NEW r \in Requests, DatabaseError(p, r)
        PROVE  [Ledger!Next]_(Ledger!vars)
    BY <1>3, TellStep
  <1>4. CASE \/ \E p \in Processes, r \in Requests, decision \in Decisions : Begin(p, r, decision)
             \/ \E p \in Processes : Crash(p)
    BY <1>1, <1>4 DEF Begin, Crash
  <1>5. CASE \/ \E w \in Purgers : LoadPurge(w) \/ CommitPurge(w) \/ PurgeFails(w)
             \/ NextDay \/ UNCHANGED vars
    <2>1. UNCHANGED reply
      BY <1>5 DEF LoadPurge, CommitPurge, PurgeFails, NextDay, vars
    <2> QED BY <1>5, <2>1, AsideInv, Stutters
  <1> QED BY <1>2, <1>3, <1>4, <1>5 DEF Next

LEMMA LedgerInit == Init => Ledger!Init
  <1>1. Init => \A r \in Requests : Stage(r) = "nothing"
    BY Stages DEF RecordsOf, Init, Later
  <1> QED BY <1>1 DEF Init, Ledger!Init

\* Every step of the handler, of the purge and of a fault is a step of
\* RequestLedger or leaves the records alone.
THEOREM Implements == Spec => LedgerSpec
  <1>1. Spec => Ledger!Init /\ [][Ledger!Next]_(Ledger!vars)
    BY LedgerInit, LedgerStep, Invariance, PTL DEF Spec
  <1> QED BY <1>1 DEF LedgerSpec, Ledger!Spec
=============================================================================
