------------------------- MODULE CircuitBreakerProofs -------------------------
(***************************************************************************)
(* Theorems about CircuitBreaker, for any providers, processes, threshold, *)
(* window, cooldowns and faults, and about the process that works alone in *)
(* MCCircuitBreaker.                                                       *)
(***************************************************************************)
EXTENDS MCCircuitBreaker, FiniteSetTheorems, TLAPS

-----------------------------------------------------------------------------
(* Type correctness. *)

\* The first records are records.
LEMMA FirstStates ==
  /\ Closed \in BreakerState
  /\ Missing \in [state : BreakerState, expires : Nat]
  /\ Idle \in Activity
  BY DEF Closed, Missing, Idle, BreakerState, Activity, Request, AnyProvider

\* get_state returns a record.
LEMMA GetStateType ==
  ASSUME TypeOK, NEW g \in Gateways, NEW p \in Providers, NEW state \in GetState(g, p)
  PROVE  state \in BreakerState
  BY DEF TypeOK, GetState

\* record_failure computes a record, one that counts the failure.
LEMMA FailedType ==
  ASSUME TypeOK, NEW state \in BreakerState, NEW cooldown \in Cooldowns
  PROVE  Failed(state, cooldown) \in BreakerState
  <1> DEFINE failures == {t \in state.failures : t >= now - Window} \union {now}
  <1>1. failures \in SUBSET Nat /\ now \in Nat
    BY DEF TypeOK, BreakerState
  <1>2. state.opened \in Nat \union {Never} /\ state.cooldown \in Nat /\ cooldown \in Nat
    BY SettingsAssumption DEF BreakerState
  <1> QED BY <1>1, <1>2 DEF Failed, BreakerState

\* The time to live of a key is a positive number of seconds.
LEMMA TimeToLiveType ==
  ASSUME NEW state \in BreakerState
  PROVE  TimeToLive(state) \in Nat \ {0}
  BY SettingsAssumption DEF TimeToLive, BreakerState

\* After a failure a process goes on with fewer candidates, or is done.
LEMMA NextCandidateType ==
  ASSUME TypeOK, NEW g \in Gateways, NEW p \in Providers
  PROVE  /\ NextCandidate(g, p) \in Activity
         /\ NextCandidate(g, p).pc \in {"select", "idle"}
  BY FirstStates DEF NextCandidate, TypeOK, Activity, Idle

\* Replacing the activity of one process by a well-formed one.
LEMMA BecomeType ==
  ASSUME TypeOK, NEW g \in Gateways, NEW a \in Activity, Become(g, a),
         a.pc \in {"calling", "store"} => a.todo # {}
  PROVE  /\ gateway' \in [Gateways -> Activity]
         /\ \A h \in Gateways : gateway'[h].pc \in {"calling", "store"} => gateway'[h].todo # {}
  BY DEF TypeOK, Become

\* The clock and Redis after it has moved on.
LEMMA AdvanceType ==
  ASSUME TypeOK, Advance
  PROVE  now' \in Nat /\ redis' \in [Providers -> [state : BreakerState, expires : Nat]]
  BY FirstStates DEF TypeOK, Advance

LEMMA InitType == Init => TypeOK
  BY FirstStates DEF Init, TypeOK, Idle

LEMMA StepType == TypeOK /\ [Next]_vars => TypeOK'
  <1> SUFFICES ASSUME TypeOK, [Next]_vars
               PROVE  TypeOK'
    OBVIOUS
  <1> USE DEF observed
  <1>1. ASSUME NEW g \in Gateways, Complete(g)
        PROVE  TypeOK'
    <2>1. PICK a \in Activity : Become(g, a) /\ a.pc = "select"
      <3>1. [Idle EXCEPT !.pc = "select", !.todo = Providers] \in Activity
        BY FirstStates DEF Activity, Idle
      <3>2. ASSUME NEW p \in Providers
            PROVE  [Idle EXCEPT !.pc = "select", !.request = "explicit", !.todo = {p}] \in Activity
        BY FirstStates DEF Activity, Idle, Request
      <3> QED BY <1>1, <3>1, <3>2 DEF Complete, Idle
    <2> QED BY <1>1, <2>1, BecomeType DEF Complete, TypeOK
  <1>2. ASSUME NEW g \in Gateways, GiveUp(g)
        PROVE  TypeOK'
    BY <1>2, BecomeType, FirstStates DEF GiveUp, TypeOK, Idle
  <1>3. ASSUME NEW g \in Gateways, Restart(g)
        PROVE  TypeOK'
    <2>1. fallback' \in [Gateways -> [Providers -> BreakerState]]
      BY <1>3, FirstStates DEF Restart, TypeOK
    <2> QED BY <1>3, <2>1, BecomeType, FirstStates DEF Restart, TypeOK, Idle
  <1>4. ASSUME NEW g \in Gateways, NEW p \in Providers, Consult(g, p)
        PROVE  TypeOK'
    <2>1. gateway[g] \in Activity /\ gateway[g].pc = "select" /\ p \in gateway[g].todo
      BY <1>4 DEF Consult, Current, TypeOK
    <2>2. [gateway[g] EXCEPT !.todo = @ \ {p}] \in Activity
      BY <2>1 DEF Activity
    <2>3. [gateway[g] EXCEPT !.pc = "calling"] \in Activity
      BY <2>1 DEF Activity
    <2>4. PICK a \in Activity : Become(g, a) /\ (a.pc \in {"calling", "store"} => a.todo # {})
      <3>1. PICK state \in GetState(g, p) :
              Become(g, IF IsOpen(state) THEN [gateway[g] EXCEPT !.todo = @ \ {p}]
                        ELSE [gateway[g] EXCEPT !.pc = "calling"])
        BY <1>4 DEF Consult
      <3>2. CASE IsOpen(state)
        BY <3>1, <3>2, <2>1, <2>2 DEF Activity
      <3>3. CASE ~IsOpen(state)
        BY <3>1, <3>3, <2>1, <2>3 DEF Activity
      <3> QED BY <3>2, <3>3
    <2> QED BY <1>4, <2>4, BecomeType DEF Consult, TypeOK
  <1>5. ASSUME NEW g \in Gateways, NEW p \in Providers, Rejected(g, p)
        PROVE  TypeOK'
    BY <1>5, BecomeType, NextCandidateType DEF Rejected, TypeOK
  <1>6. ASSUME NEW g \in Gateways, NEW p \in Providers, RecordSuccess(g, p)
        PROVE  TypeOK'
    <2>1. gateway[g] \in Activity /\ p \in gateway[g].todo
      BY <1>6 DEF RecordSuccess, Current, TypeOK
    <2>2. [gateway[g] EXCEPT !.pc = "store", !.state = Closed] \in Activity
      BY <2>1, FirstStates DEF Activity
    <2>3. [gateway[g] EXCEPT !.pc = "store", !.state = Closed].todo # {}
      BY <2>1 DEF Activity
    <2> QED BY <1>6, <2>2, <2>3, BecomeType DEF RecordSuccess, TypeOK
  <1>7. ASSUME NEW g \in Gateways, NEW p \in Providers, NEW cooldown \in Cooldowns,
               RecordFailure(g, p, cooldown)
        PROVE  TypeOK'
    <2>1. gateway[g] \in Activity /\ p \in gateway[g].todo
      BY <1>7 DEF RecordFailure, Current, TypeOK
    <2>2. PICK state \in GetState(g, p) :
            Become(g, [gateway[g] EXCEPT !.pc = "store", !.state = Failed(state, cooldown)])
      BY <1>7 DEF RecordFailure
    <2>3. Failed(state, cooldown) \in BreakerState
      BY GetStateType, FailedType
    <2>4. [gateway[g] EXCEPT !.pc = "store", !.state = Failed(state, cooldown)] \in Activity
      BY <2>1, <2>3 DEF Activity
    <2>5. [gateway[g] EXCEPT !.pc = "store", !.state = Failed(state, cooldown)].todo # {}
      BY <2>1 DEF Activity
    <2>6. now \in Nat /\ failedAt' \in [Providers -> SUBSET Nat]
            /\ streak' \in [Providers -> SUBSET Nat]
      BY <1>7 DEF RecordFailure, TypeOK
    <2>7. now' \in Nat /\ redis' \in [Providers -> [state : BreakerState, expires : Nat]]
      BY <1>7, AdvanceType DEF RecordFailure
    <2>8. /\ gateway' \in [Gateways -> Activity]
          /\ \A h \in Gateways : gateway'[h].pc \in {"calling", "store"} => gateway'[h].todo # {}
      BY <2>2, <2>4, <2>5, BecomeType
    <2> QED BY <1>7, <2>6, <2>7, <2>8 DEF RecordFailure, TypeOK
  <1>8. ASSUME NEW g \in Gateways, NEW p \in Providers, WriteState(g, p)
        PROVE  TypeOK'
    <2> DEFINE state == gateway[g].state
               written == [state |-> state, expires |-> now + TimeToLive(state)]
    <2>1. state \in BreakerState /\ now \in Nat
      BY DEF TypeOK, Activity
    <2>2. written \in [state : BreakerState, expires : Nat]
      BY <2>1, TimeToLiveType
    <2>3. redis' \in [Providers -> [state : BreakerState, expires : Nat]]
      BY <1>8, <2>2 DEF WriteState, TypeOK
    <2>4. fallback' \in [Gateways -> [Providers -> BreakerState]]
      BY <1>8, <2>1 DEF WriteState, TypeOK
    <2>5. Become(g, Idle) \/ Become(g, NextCandidate(g, p))
      BY <1>8 DEF WriteState
    <2>6. /\ gateway' \in [Gateways -> Activity]
          /\ \A h \in Gateways : gateway'[h].pc \in {"calling", "store"} => gateway'[h].todo # {}
      BY <2>5, BecomeType, NextCandidateType, FirstStates DEF Idle
    <2> QED BY <1>8, <2>3, <2>4, <2>6 DEF WriteState, TypeOK
  <1>9. CASE Tick
    BY <1>9, AdvanceType DEF Tick, TypeOK
  <1>10. CASE UNCHANGED vars
    BY <1>10 DEF vars, TypeOK
  <1> QED BY <1>1, <1>2, <1>3, <1>4, <1>5, <1>6, <1>7, <1>8, <1>9, <1>10
          DEF Next, CallStep

\* Breaker records, copies and requests keep their shape, for any number of
\* processes and any Redis faults.
THEOREM TypeCorrect == Spec => []TypeOK
  <1>1. Init => TypeOK
    BY InitType
  <1>2. TypeOK /\ [Next]_vars => TypeOK'
    BY StepType
  <1> QED BY <1>1, <1>2, PTL DEF Spec

-----------------------------------------------------------------------------
(* No failure is invented.  OpenJustified speaks of what is stored; what a  *)
(* process is about to store must be as genuine, and a failure must not lie *)
(* in the future.                                                           *)

\* A record of p made of p's own failures, opened by enough of them.
Genuine(state, p) ==
  /\ state.failures \subseteq failedAt[p]
  /\ state.opened # Never => Failing(p, state.opened)

\* Every record of p there is, and those about to be written.
RecordsGenuine ==
  \A p \in Providers :
    /\ Genuine(redis[p].state, p)
    /\ \A g \in Gateways :
         /\ Genuine(fallback[g][p], p)
         /\ gateway[g].pc = "store" /\ Current(g, p) => Genuine(gateway[g].state, p)

FailuresPast == \A p \in Providers : \A f \in failedAt[p] : f < now

RecordsInv == TypeOK /\ RecordsGenuine /\ FailuresPast

\* A record without failures is genuine.
LEMMA ClosedGenuine == \A p \in Providers : Genuine(Closed, p) /\ Genuine(Missing.state, p)
  BY DEF Genuine, Closed, Missing

\* What get_state returns is genuine.
LEMMA GetStateGenuine ==
  ASSUME RecordsGenuine, NEW g \in Gateways, NEW p \in Providers, NEW state \in GetState(g, p)
  PROVE  Genuine(state, p)
  BY DEF RecordsGenuine, GetState

\* Time and further failures do not make a record less genuine.
LEMMA GenuineStays ==
  ASSUME NEW p \in Providers, NEW state, Genuine(state, p), failedAt[p] \subseteq failedAt'[p]
  PROVE  Genuine(state, p)'
  BY DEF Genuine, Failing

\* The window of a new failure holds the failures the record keeps: when they
\* are enough, the breaker is opened by them.
LEMMA FailedGenuine ==
  ASSUME RecordsInv, NEW p \in Providers, NEW state \in BreakerState, Genuine(state, p),
         NEW cooldown \in Cooldowns, NEW new, new = Failed(state, cooldown),
         failedAt' = [failedAt EXCEPT ![p] = @ \union {now}]
  PROVE  Genuine(new, p)'
  <1> DEFINE failures == {t \in state.failures : t >= now - Window} \union {now}
  <1>1. now \in Nat /\ Window \in Nat /\ failedAt[p] \in SUBSET Nat
    BY SettingsAssumption DEF RecordsInv, TypeOK
  <1>2. failedAt'[p] = failedAt[p] \union {now}
    BY DEF RecordsInv, TypeOK
  <1>3. failures \subseteq failedAt'[p]
    BY <1>2 DEF Genuine
  <1>4. \A f \in failures : now - Window <= f /\ f <= now
    BY <1>1 DEF Genuine, RecordsInv, FailuresPast
  <1>5. CASE Cardinality(failures) >= Threshold
    <2>1. new.failures = failures /\ new.opened = now
      BY <1>5 DEF Failed
    <2>2. \E S \in SUBSET failedAt'[p] :
            Cardinality(S) >= Threshold /\ \A f \in S : now - Window <= f /\ f <= now
      BY <1>3, <1>4, <1>5
    <2> HIDE DEF failures
    <2> QED BY <2>1, <2>2, <1>3 DEF Genuine, Failing
  <1>6. CASE ~(Cardinality(failures) >= Threshold)
    <2>1. new.failures = failures /\ new.opened = state.opened
      BY <1>6 DEF Failed
    <2>2. Genuine(state, p)'
      BY <1>2, GenuineStays
    <2> HIDE DEF failures
    <2> QED BY <1>3, <2>1, <2>2 DEF Genuine
  <1> QED BY <1>5, <1>6

\* The records in Redis stay genuine when they stay or go.
LEMMA RedisStays ==
  ASSUME RecordsInv, \A p \in Providers : failedAt[p] \subseteq failedAt'[p],
         \A p \in Providers : redis'[p].state \in {redis[p].state, Closed}
  PROVE  \A p \in Providers : Genuine(redis[p].state, p)'
  <1> SUFFICES ASSUME NEW p \in Providers PROVE Genuine(redis[p].state, p)'
    OBVIOUS
  <1>1. PICK state : state = redis'[p].state
    OBVIOUS
  <1>2. Genuine(state, p)
    BY <1>1, ClosedGenuine DEF RecordsInv, RecordsGenuine
  <1>3. Genuine(state, p)'
    BY <1>2, GenuineStays
  <1> QED BY <1>1, <1>3 DEF Genuine

\* So do the copies.
LEMMA FallbackStays ==
  ASSUME RecordsInv, \A p \in Providers : failedAt[p] \subseteq failedAt'[p],
         \A g \in Gateways, p \in Providers : fallback'[g][p] \in {fallback[g][p], Closed}
  PROVE  \A g \in Gateways, p \in Providers : Genuine(fallback[g][p], p)'
  <1> SUFFICES ASSUME NEW g \in Gateways, NEW p \in Providers
               PROVE  Genuine(fallback[g][p], p)'
    OBVIOUS
  <1>1. PICK state : state = fallback'[g][p]
    OBVIOUS
  <1>2. Genuine(state, p)
    BY <1>1, ClosedGenuine DEF RecordsInv, RecordsGenuine
  <1>3. Genuine(state, p)'
    BY <1>2, GenuineStays
  <1> QED BY <1>1, <1>3 DEF Genuine

\* What the other processes are about to write stays genuine when one process
\* changes its activity.
LEMMA GatewayStays ==
  ASSUME RecordsInv, \A p \in Providers : failedAt[p] \subseteq failedAt'[p],
         NEW g \in Gateways, NEW a \in Activity, Become(g, a),
         \A p \in Providers : a.pc = "store" /\ p \in a.todo /\ (\A q \in a.todo : p <= q)
                                => Genuine(a.state, p)'
  PROVE  \A h \in Gateways, p \in Providers :
           (gateway[h].pc = "store" /\ Current(h, p) => Genuine(gateway[h].state, p))'
  <1> SUFFICES ASSUME NEW h \in Gateways, NEW p \in Providers,
                      gateway'[h].pc = "store", Current(h, p)'
               PROVE  Genuine(gateway[h].state, p)'
    OBVIOUS
  <1>1. gateway' = [gateway EXCEPT ![g] = a] /\ gateway \in [Gateways -> Activity]
    BY DEF Become, RecordsInv, TypeOK
  <1>2. CASE h = g
    <2>1. gateway'[h] = a
      BY <1>1, <1>2
    <2>2. Genuine(a.state, p)'
      BY <2>1 DEF Current
    <2> QED BY <2>1, <2>2 DEF Genuine
  <1>3. CASE h # g
    <2>1. gateway'[h] = gateway[h]
      BY <1>1, <1>3
    <2>2. PICK state : state = gateway[h].state
      OBVIOUS
    <2>3. Genuine(state, p)
      BY <2>1, <2>2 DEF RecordsInv, RecordsGenuine, Current
    <2>4. Genuine(state, p)'
      BY <2>3, GenuineStays
    <2> QED BY <2>1, <2>2, <2>4 DEF Genuine
  <1> QED BY <1>2, <1>3

\* One that stays what it is keeps every condition of GatewayStays.
LEMMA GatewaysIdle ==
  ASSUME RecordsInv, \A p \in Providers : failedAt[p] \subseteq failedAt'[p],
         UNCHANGED gateway
  PROVE  \A h \in Gateways, p \in Providers :
           (gateway[h].pc = "store" /\ Current(h, p) => Genuine(gateway[h].state, p))'
  <1> SUFFICES ASSUME NEW h \in Gateways, NEW p \in Providers,
                      gateway'[h].pc = "store", Current(h, p)'
               PROVE  Genuine(gateway[h].state, p)'
    OBVIOUS
  <1>1. PICK state : state = gateway[h].state
    OBVIOUS
  <1>2. Genuine(state, p)
    BY <1>1 DEF RecordsInv, RecordsGenuine, Current
  <1>3. Genuine(state, p)'
    BY <1>2, GenuineStays
  <1> QED BY <1>1, <1>3 DEF Genuine

LEMMA InitRecords == Init => RecordsInv
  BY InitType, ClosedGenuine DEF Init, RecordsInv, RecordsGenuine, FailuresPast, Idle

\* A step that only moves one request along, and not to write but a closed record.
LEMMA QuietStep ==
  ASSUME RecordsInv, UNCHANGED <<now, redis, fallback, failedAt>>,
         NEW g \in Gateways, NEW a \in Activity, Become(g, a),
         a.pc = "store" => a.state = Closed
  PROVE  RecordsGenuine' /\ FailuresPast'
  <1>1. \A p \in Providers : failedAt[p] \subseteq failedAt'[p]
    OBVIOUS
  <1>2. \A p \in Providers : Genuine(Closed, p)'
    BY DEF Genuine, Closed
  <1>3. \A h \in Gateways, p \in Providers :
          (gateway[h].pc = "store" /\ Current(h, p) => Genuine(gateway[h].state, p))'
    BY <1>1, <1>2, GatewayStays
  <1>4. \A p \in Providers : Genuine(redis[p].state, p)'
    BY <1>1, RedisStays
  <1>5. \A h \in Gateways, p \in Providers : Genuine(fallback[h][p], p)'
    BY <1>1, FallbackStays
  <1>6. FailuresPast'
    BY DEF RecordsInv, FailuresPast
  <1> QED BY <1>3, <1>4, <1>5, <1>6 DEF RecordsGenuine

\* Redis drops keys when the clock moves on, and nothing else.
LEMMA AdvanceRedis ==
  ASSUME RecordsInv, Advance
  PROVE  \A p \in Providers : redis'[p].state \in {redis[p].state, Closed}
  BY DEF RecordsInv, TypeOK, Advance, Missing

LEMMA StepRecords == RecordsInv /\ [Next]_vars => RecordsInv'
  <1> SUFFICES ASSUME RecordsInv, [Next]_vars
               PROVE  RecordsGenuine' /\ FailuresPast'
    BY StepType DEF RecordsInv
  <1> USE DEF observed
  <1>t. TypeOK /\ now \in Nat
    BY DEF RecordsInv, TypeOK
  <1>1. ASSUME NEW g \in Gateways, Complete(g)
        PROVE  RecordsGenuine' /\ FailuresPast'
    <2>1. PICK a \in Activity : Become(g, a) /\ a.pc = "select"
      <3>1. [Idle EXCEPT !.pc = "select", !.todo = Providers] \in Activity
        BY FirstStates DEF Activity, Idle
      <3>2. ASSUME NEW p \in Providers
            PROVE  [Idle EXCEPT !.pc = "select", !.request = "explicit", !.todo = {p}] \in Activity
        BY FirstStates DEF Activity, Idle, Request
      <3> QED BY <1>1, <3>1, <3>2 DEF Complete, Idle
    <2> QED BY <1>1, <2>1, QuietStep DEF Complete
  <1>2. ASSUME NEW g \in Gateways, GiveUp(g)
        PROVE  RecordsGenuine' /\ FailuresPast'
    BY <1>2, QuietStep, FirstStates DEF GiveUp, Idle
  <1>3. ASSUME NEW g \in Gateways, Restart(g)
        PROVE  RecordsGenuine' /\ FailuresPast'
    <2>1. \A p \in Providers : failedAt[p] \subseteq failedAt'[p]
      BY <1>3 DEF Restart
    <2>2. \A h \in Gateways, p \in Providers : fallback'[h][p] \in {fallback[h][p], Closed}
      BY <1>3, <1>t DEF Restart, TypeOK
    <2>3. \A h \in Gateways, p \in Providers : Genuine(fallback[h][p], p)'
      BY <2>1, <2>2, FallbackStays
    <2>4. \A p \in Providers : Genuine(redis[p].state, p)'
      BY <1>3, <2>1, RedisStays DEF Restart
    <2>5. \A h \in Gateways, p \in Providers :
            (gateway[h].pc = "store" /\ Current(h, p) => Genuine(gateway[h].state, p))'
      BY <1>3, <2>1, GatewayStays, FirstStates DEF Restart, Idle
    <2>6. FailuresPast'
      BY <1>3 DEF Restart, RecordsInv, FailuresPast
    <2> QED BY <2>3, <2>4, <2>5, <2>6 DEF RecordsGenuine
  <1>4. ASSUME NEW g \in Gateways, NEW p \in Providers, Consult(g, p)
        PROVE  RecordsGenuine' /\ FailuresPast'
    <2>1. gateway[g] \in Activity /\ gateway[g].pc = "select"
      BY <1>4, <1>t DEF Consult, TypeOK
    <2>2. /\ [gateway[g] EXCEPT !.todo = @ \ {p}] \in Activity
          /\ [gateway[g] EXCEPT !.todo = @ \ {p}].pc = "select"
          /\ [gateway[g] EXCEPT !.pc = "calling"] \in Activity
          /\ [gateway[g] EXCEPT !.pc = "calling"].pc = "calling"
      BY <2>1 DEF Activity
    <2>3. PICK a \in Activity : Become(g, a) /\ a.pc # "store"
      BY <1>4, <2>2 DEF Consult
    <2> QED BY <1>4, <2>3, QuietStep DEF Consult
  <1>5. ASSUME NEW g \in Gateways, NEW p \in Providers, Rejected(g, p)
        PROVE  RecordsGenuine' /\ FailuresPast'
    BY <1>5, <1>t, QuietStep, NextCandidateType DEF Rejected
  <1>6. ASSUME NEW g \in Gateways, NEW p \in Providers, RecordSuccess(g, p)
        PROVE  RecordsGenuine' /\ FailuresPast'
    <2>1. gateway[g] \in Activity
      BY <1>t DEF TypeOK
    <2>2. /\ [gateway[g] EXCEPT !.pc = "store", !.state = Closed] \in Activity
          /\ [gateway[g] EXCEPT !.pc = "store", !.state = Closed].state = Closed
      BY <2>1, FirstStates DEF Activity
    <2> QED BY <1>6, <2>2, QuietStep DEF RecordSuccess
  <1>7. ASSUME NEW g \in Gateways, NEW p \in Providers, NEW cooldown \in Cooldowns,
               RecordFailure(g, p, cooldown)
        PROVE  RecordsGenuine' /\ FailuresPast'
    <2>1. gateway[g] \in Activity /\ Current(g, p)
      BY <1>7, <1>t DEF RecordFailure, TypeOK
    <2>2. failedAt' = [failedAt EXCEPT ![p] = @ \union {now}] /\ Advance /\ UNCHANGED fallback
      BY <1>7 DEF RecordFailure
    <2>3. /\ \A q \in Providers : failedAt[q] \subseteq failedAt'[q]
          /\ \A q \in Providers : failedAt'[q] \subseteq failedAt[q] \union {now}
      BY <2>2, <1>t DEF TypeOK
    <2>4. PICK state \in GetState(g, p) :
            Become(g, [gateway[g] EXCEPT !.pc = "store", !.state = Failed(state, cooldown)])
      BY <1>7 DEF RecordFailure
    <2>5. PICK new : new = Failed(state, cooldown)
      OBVIOUS
    <2>6. state \in BreakerState /\ new \in BreakerState /\ Genuine(state, p)
      BY <1>t, <2>5, GetStateType, FailedType, GetStateGenuine DEF RecordsInv
    <2>7. Genuine(new, p)'
      BY <2>2, <2>5, <2>6, FailedGenuine
    <2>8. PICK a : a = [gateway[g] EXCEPT !.pc = "store", !.state = new]
      OBVIOUS
    <2>9. /\ a \in Activity /\ Become(g, a) /\ a.state = new
          /\ a.todo = gateway[g].todo
      BY <2>1, <2>4, <2>5, <2>6, <2>8 DEF Activity
    <2>10. \A q \in Providers : q \in a.todo /\ (\A r \in a.todo : q <= r) => q = p
      BY <2>1, <2>9, ProvidersAssumption DEF Current, Activity
    <2>11. \A h \in Gateways, q \in Providers :
             (gateway[h].pc = "store" /\ Current(h, q) => Genuine(gateway[h].state, q))'
      BY <2>3, <2>7, <2>9, <2>10, GatewayStays
    <2>12. \A q \in Providers : Genuine(redis[q].state, q)'
      BY <2>2, <2>3, AdvanceRedis, RedisStays
    <2>13. \A h \in Gateways, q \in Providers : Genuine(fallback[h][q], q)'
      BY <2>2, <2>3, FallbackStays
    <2>14. FailuresPast'
      BY <1>t, <2>2, <2>3 DEF RecordsInv, FailuresPast, Advance, TypeOK
    <2> QED BY <2>11, <2>12, <2>13, <2>14 DEF RecordsGenuine
  <1>8. ASSUME NEW g \in Gateways, NEW p \in Providers, WriteState(g, p)
        PROVE  RecordsGenuine' /\ FailuresPast'
    <2>1. \A q \in Providers : failedAt[q] \subseteq failedAt'[q]
      BY <1>8 DEF WriteState
    <2>2. PICK state : state = gateway[g].state
      OBVIOUS
    <2>3. Genuine(state, p)'
      <3>1. Genuine(state, p)
        BY <1>8, <2>2 DEF WriteState, RecordsInv, RecordsGenuine
      <3> QED BY <3>1, <2>1, GenuineStays
    <2>4. \A q \in Providers : Genuine(redis[q].state, q)'
      <3> DEFINE written == [state |-> state, expires |-> now + TimeToLive(state)]
      <3>1. redis' = [redis EXCEPT ![p] = written] \/ redis' = redis
        BY <1>8, <2>2 DEF WriteState
      <3>2. written.state = state /\ redis \in [Providers -> [state : BreakerState, expires : Nat]]
        BY <1>t DEF TypeOK
      <3> HIDE DEF written
      <3>3. \A q \in Providers : redis'[q] = redis[q] \/ (q = p /\ redis'[q] = written)
        BY <3>1, <3>2
      <3>4. ASSUME NEW q \in Providers PROVE Genuine(redis[q].state, q)'
        <4>1. PICK old : old = redis[q].state
          OBVIOUS
        <4>2. Genuine(old, q)'
          BY <2>1, <4>1, GenuineStays DEF RecordsInv, RecordsGenuine
        <4> QED BY <2>3, <3>2, <3>3, <4>1, <4>2 DEF Genuine
      <3> QED BY <3>4
    <2>5. \A h \in Gateways, q \in Providers : Genuine(fallback[h][q], q)'
      <3>0. fallback' = [fallback EXCEPT ![g][p] = state]
        BY <1>8, <2>2 DEF WriteState
      <3>1. \A h \in Gateways, q \in Providers :
              fallback'[h][q] = fallback[h][q] \/ (q = p /\ fallback'[h][q] = state)
        BY <3>0, <1>t DEF TypeOK
      <3>2. ASSUME NEW h \in Gateways, NEW q \in Providers PROVE Genuine(fallback[h][q], q)'
        <4>1. PICK old : old = fallback[h][q]
          OBVIOUS
        <4>2. Genuine(old, q)'
          BY <2>1, <4>1, GenuineStays DEF RecordsInv, RecordsGenuine
        <4> QED BY <2>3, <3>1, <4>1, <4>2 DEF Genuine
      <3> QED BY <3>2
    <2>6. PICK a \in Activity : Become(g, a) /\ a.pc # "store"
      BY <1>8, <1>t, NextCandidateType, FirstStates DEF WriteState, Idle
    <2>7. \A h \in Gateways, q \in Providers :
            (gateway[h].pc = "store" /\ Current(h, q) => Genuine(gateway[h].state, q))'
      BY <2>1, <2>6, GatewayStays
    <2>8. FailuresPast'
      BY <1>8 DEF WriteState, RecordsInv, FailuresPast
    <2> QED BY <2>4, <2>5, <2>7, <2>8 DEF RecordsGenuine
  <1>9. CASE Tick
    <2>1. \A q \in Providers : failedAt[q] \subseteq failedAt'[q]
      BY <1>9 DEF Tick
    <2>2. \A q \in Providers : Genuine(redis[q].state, q)'
      BY <1>9, <2>1, AdvanceRedis, RedisStays DEF Tick
    <2>3. \A h \in Gateways, q \in Providers : Genuine(fallback[h][q], q)'
      BY <1>9, <2>1, FallbackStays DEF Tick
    <2>4. \A h \in Gateways, q \in Providers :
            (gateway[h].pc = "store" /\ Current(h, q) => Genuine(gateway[h].state, q))'
      BY <1>9, <2>1, GatewaysIdle DEF Tick
    <2>5. FailuresPast'
      BY <1>9, <1>t DEF Tick, Advance, RecordsInv, FailuresPast, TypeOK
    <2> QED BY <2>2, <2>3, <2>4, <2>5 DEF RecordsGenuine
  <1>10. CASE UNCHANGED vars
    BY <1>10 DEF vars, RecordsInv, RecordsGenuine, FailuresPast, Genuine, Failing, Current
  <1> QED BY <1>1, <1>2, <1>3, <1>4, <1>5, <1>6, <1>7, <1>8, <1>9, <1>10
          DEF Next, CallStep

\* A breaker is open only after Threshold genuine failures in one window, for
\* any number of processes, lost updates, lost keys and restarts.
THEOREM OpensJustified == Spec => []OpenJustified
  <1>1. Init => RecordsInv
    BY InitRecords
  <1>2. RecordsInv /\ [Next]_vars => RecordsInv'
    BY StepRecords
  <1>3. RecordsInv => OpenJustified
    BY DEF RecordsInv, RecordsGenuine, Genuine, OpenJustified
  <1> QED BY <1>1, <1>2, <1>3, PTL DEF Spec

-----------------------------------------------------------------------------
(* Failover.  A healthy provider has no failures, so its breaker, which     *)
(* would need Threshold of them, is never found open; nothing else takes it *)
(* from the candidates of a request.                                        *)

\* A request that may go to any provider has all the healthy ones before it.
HealthyAhead ==
  \A g \in Gateways :
    gateway[g].pc # "idle" /\ gateway[g].request = AnyProvider => Healthy \subseteq gateway[g].todo

\* Nothing but a success is ever written for a healthy provider.
HealthyStored ==
  \A g \in Gateways, p \in Healthy :
    gateway[g].pc = "store" /\ Current(g, p) => gateway[g].state = Closed

HealthyInv ==
  /\ RecordsInv
  /\ \A p \in Healthy : failedAt[p] = {}
  /\ HealthyAhead
  /\ HealthyStored

\* The breaker of a healthy provider is closed in any record of it.
LEMMA HealthyClosed ==
  ASSUME NEW p \in Healthy, failedAt[p] = {}, NEW state, Genuine(state, p)
  PROVE  state.opened = Never
  <1>1. \A S \in SUBSET {} : ~(Cardinality(S) >= Threshold)
    BY FS_EmptySet, SettingsAssumption
  <1> QED BY <1>1 DEF Genuine, Failing

\* Replacing the activity of one process by one with the healthy ones before it.
LEMMA BecomeHealthy ==
  ASSUME HealthyInv, NEW g \in Gateways, NEW a \in Activity, Become(g, a),
         a.pc # "idle" /\ a.request = AnyProvider => Healthy \subseteq a.todo,
         a.pc = "store" => \/ a.state = Closed
                           \/ \A p \in Healthy : ~(p \in a.todo /\ \A q \in a.todo : p <= q)
  PROVE  HealthyAhead' /\ HealthyStored'
  <1>1. gateway' = [gateway EXCEPT ![g] = a] /\ gateway \in [Gateways -> Activity]
    BY DEF Become, HealthyInv, RecordsInv, TypeOK
  <1>2. \A h \in Gateways : gateway'[h] = IF h = g THEN a ELSE gateway[h]
    BY <1>1
  <1>3. HealthyAhead'
    BY <1>2 DEF HealthyInv, HealthyAhead
  <1>4. HealthyStored'
    BY <1>2 DEF HealthyInv, HealthyStored, Current
  <1> QED BY <1>3, <1>4

\* What comes after a failure of p leaves the healthy ones before the request.
LEMMA NextCandidateHealthy ==
  ASSUME HealthyInv, NEW g \in Gateways, NEW p \in Providers \ Healthy,
         gateway[g].pc # "idle", Become(g, NextCandidate(g, p))
  PROVE  HealthyAhead' /\ HealthyStored'
  <1>1. TypeOK /\ gateway[g] \in Activity
    BY DEF HealthyInv, RecordsInv, TypeOK
  <1>2. NextCandidate(g, p) \in Activity /\ NextCandidate(g, p).pc \in {"select", "idle"}
    BY <1>1, NextCandidateType
  <1>3. NextCandidate(g, p).pc # "idle" =>
          /\ gateway[g].request = AnyProvider
          /\ NextCandidate(g, p).todo = gateway[g].todo \ {p}
    BY <1>1 DEF NextCandidate, Activity, Idle
  <1>4. gateway[g].request = AnyProvider => Healthy \subseteq gateway[g].todo
    BY DEF HealthyInv, HealthyAhead
  <1> QED BY <1>2, <1>3, <1>4, BecomeHealthy

LEMMA IdleHealthy ==
  ASSUME HealthyInv, NEW g \in Gateways, Become(g, Idle)
  PROVE  HealthyAhead' /\ HealthyStored'
  BY BecomeHealthy, FirstStates DEF Idle

LEMMA InitHealthy == Init => HealthyInv
  BY InitRecords, ProvidersAssumption
  DEF Init, HealthyInv, HealthyAhead, HealthyStored, Idle

LEMMA StepHealthy == HealthyInv /\ [Next]_vars => HealthyInv'
  <1> SUFFICES ASSUME HealthyInv, [Next]_vars
               PROVE  (\A p \in Healthy : failedAt'[p] = {}) /\ HealthyAhead' /\ HealthyStored'
    BY StepRecords DEF HealthyInv
  <1> USE DEF observed
  <1>t. TypeOK /\ RecordsInv /\ RecordsGenuine /\ \A p \in Healthy : failedAt[p] = {}
    BY DEF HealthyInv, RecordsInv
  <1>h. Healthy \subseteq Providers
    BY ProvidersAssumption
  <1> DEFINE Goal == (\A p \in Healthy : failedAt'[p] = {}) /\ HealthyAhead' /\ HealthyStored'
  <1>1. ASSUME NEW g \in Gateways, Complete(g)
        PROVE  Goal
    <2>1. PICK a \in Activity :
            Become(g, a) /\ a.pc = "select" /\ (a.request = AnyProvider => Healthy \subseteq a.todo)
      <3>1. /\ [Idle EXCEPT !.pc = "select", !.todo = Providers] \in Activity
            /\ [Idle EXCEPT !.pc = "select", !.todo = Providers].todo = Providers
        BY FirstStates DEF Activity, Idle
      <3>2. ASSUME NEW p \in Providers
            PROVE  /\ [Idle EXCEPT !.pc = "select", !.request = "explicit", !.todo = {p}] \in Activity
                   /\ [Idle EXCEPT !.pc = "select", !.request = "explicit", !.todo = {p}].request # AnyProvider
        BY FirstStates DEF Activity, Idle, Request, AnyProvider
      <3> QED BY <1>1, <1>h, <3>1, <3>2 DEF Complete, Idle
    <2> QED BY <1>1, <1>t, <2>1, BecomeHealthy DEF Complete
  <1>2. ASSUME NEW g \in Gateways, GiveUp(g)
        PROVE  Goal
    BY <1>2, <1>t, IdleHealthy DEF GiveUp
  <1>3. ASSUME NEW g \in Gateways, Restart(g)
        PROVE  Goal
    BY <1>3, <1>t, IdleHealthy DEF Restart
  <1>4. ASSUME NEW g \in Gateways, NEW p \in Providers, Consult(g, p)
        PROVE  Goal
    <2>1. gateway[g] \in Activity /\ gateway[g].pc = "select"
            /\ (gateway[g].request = AnyProvider => Healthy \subseteq gateway[g].todo)
      BY <1>4, <1>t DEF Consult, TypeOK, HealthyInv, HealthyAhead
    <2>2. PICK state \in GetState(g, p) :
            Become(g, IF IsOpen(state) THEN [gateway[g] EXCEPT !.todo = @ \ {p}]
                      ELSE [gateway[g] EXCEPT !.pc = "calling"])
      BY <1>4 DEF Consult
    <2>3. CASE IsOpen(state)
      <3>1. p \notin Healthy
        BY <1>t, <2>3, GetStateGenuine, HealthyClosed DEF IsOpen
      <3>2. PICK a : a = [gateway[g] EXCEPT !.todo = @ \ {p}]
        OBVIOUS
      <3>3. /\ a \in Activity /\ a.pc = "select" /\ a.request = gateway[g].request
            /\ a.todo = gateway[g].todo \ {p} /\ Become(g, a)
        BY <2>1, <2>2, <2>3, <3>2 DEF Activity
      <3> QED BY <1>4, <1>t, <2>1, <3>1, <3>3, BecomeHealthy DEF Consult
    <2>4. CASE ~IsOpen(state)
      <3>1. PICK a : a = [gateway[g] EXCEPT !.pc = "calling"]
        OBVIOUS
      <3>2. /\ a \in Activity /\ a.pc = "calling" /\ a.request = gateway[g].request
            /\ a.todo = gateway[g].todo /\ Become(g, a)
        BY <2>1, <2>2, <2>4, <3>1 DEF Activity
      <3> QED BY <1>4, <1>t, <2>1, <3>2, BecomeHealthy DEF Consult
    <2> QED BY <2>3, <2>4
  <1>5. ASSUME NEW g \in Gateways, NEW p \in Providers, Rejected(g, p)
        PROVE  Goal
    BY <1>5, <1>t, NextCandidateHealthy DEF Rejected
  <1>6. ASSUME NEW g \in Gateways, NEW p \in Providers, RecordSuccess(g, p)
        PROVE  Goal
    <2>1. gateway[g] \in Activity
            /\ (gateway[g].request = AnyProvider => Healthy \subseteq gateway[g].todo)
      BY <1>6, <1>t DEF RecordSuccess, TypeOK, HealthyInv, HealthyAhead
    <2>2. PICK a : a = [gateway[g] EXCEPT !.pc = "store", !.state = Closed]
      OBVIOUS
    <2>3. /\ a \in Activity /\ a.state = Closed /\ a.request = gateway[g].request
          /\ a.todo = gateway[g].todo /\ Become(g, a)
      BY <1>6, <2>1, <2>2, FirstStates DEF Activity, RecordSuccess
    <2> QED BY <1>6, <1>t, <2>1, <2>3, BecomeHealthy DEF RecordSuccess
  <1>7. ASSUME NEW g \in Gateways, NEW p \in Providers, NEW cooldown \in Cooldowns,
               RecordFailure(g, p, cooldown)
        PROVE  Goal
    <2>1. /\ gateway[g] \in Activity /\ Current(g, p) /\ p \notin Healthy
          /\ (gateway[g].request = AnyProvider => Healthy \subseteq gateway[g].todo)
      BY <1>7, <1>t DEF RecordFailure, TypeOK, HealthyInv, HealthyAhead
    <2>2. PICK state \in GetState(g, p) :
            Become(g, [gateway[g] EXCEPT !.pc = "store", !.state = Failed(state, cooldown)])
      BY <1>7 DEF RecordFailure
    <2>3. Failed(state, cooldown) \in BreakerState
      BY <1>t, GetStateType, FailedType
    <2>4. PICK a : a = [gateway[g] EXCEPT !.pc = "store", !.state = Failed(state, cooldown)]
      OBVIOUS
    <2>5. /\ a \in Activity /\ a.request = gateway[g].request
          /\ a.todo = gateway[g].todo /\ Become(g, a)
      BY <2>1, <2>2, <2>3, <2>4 DEF Activity
    <2>6. \A q \in Healthy : ~(q \in a.todo /\ \A r \in a.todo : q <= r)
      BY <2>1, <2>5, ProvidersAssumption DEF Current, Activity
    <2>7. HealthyAhead' /\ HealthyStored'
      BY <2>1, <2>5, <2>6, BecomeHealthy
    <2>8. failedAt' = [failedAt EXCEPT ![p] = @ \union {now}]
      BY <1>7 DEF RecordFailure
    <2>9. \A q \in Healthy : failedAt'[q] = {}
      BY <1>t, <1>h, <2>1, <2>8 DEF TypeOK
    <2> QED BY <2>7, <2>9
  <1>8. ASSUME NEW g \in Gateways, NEW p \in Providers, WriteState(g, p)
        PROVE  Goal
    <2>1. UNCHANGED failedAt /\ gateway[g].pc = "store" /\ Current(g, p)
      BY <1>8 DEF WriteState
    <2>2. CASE gateway[g].state = Closed
      BY <1>8, <1>t, <2>1, <2>2, IdleHealthy DEF WriteState
    <2>3. CASE gateway[g].state # Closed
      <3>1. p \notin Healthy
        BY <2>1, <2>3 DEF HealthyInv, HealthyStored
      <3>2. Become(g, NextCandidate(g, p))
        BY <1>8, <2>3 DEF WriteState
      <3> QED BY <1>t, <2>1, <3>1, <3>2, NextCandidateHealthy
    <2> QED BY <2>2, <2>3
  <1>9. CASE Tick
    BY <1>9, <1>t DEF Tick, HealthyInv, HealthyAhead, HealthyStored, Current
  <1>10. CASE UNCHANGED vars
    BY <1>10, <1>t DEF vars, HealthyInv, HealthyAhead, HealthyStored, Current
  <1> QED BY <1>1, <1>2, <1>3, <1>4, <1>5, <1>6, <1>7, <1>8, <1>9, <1>10
          DEF Next, CallStep

\* As long as one provider is healthy no request for any provider is refused,
\* whatever the other providers, Redis and the other processes do.
THEOREM FailoverFinds == Spec => []HealthyNeverRefused
  <1>1. Init => HealthyInv
    BY InitHealthy
  <1>2. HealthyInv /\ [Next]_vars => HealthyInv'
    BY StepHealthy
  <1>3. HealthyInv => HealthyNeverRefused
    BY DEF HealthyInv, HealthyAhead, HealthyNeverRefused
  <1> QED BY <1>1, <1>2, <1>3, PTL DEF Spec

-----------------------------------------------------------------------------
(* How an open breaker can close before its cooldown is over.  A record    *)
(* may be overwritten by one that another process has read before.  When   *)
(* the two were opened at the same instant they are the same opening,      *)
(* since no two failures are recorded at one instant, and so they have the *)
(* same cooldown: that is the invariant, for all copies of a record and    *)
(* those about to be written.                                              *)

\* Every record of p there is.
Records(p) ==
  {redis[p].state}
    \union {fallback[g][p] : g \in Gateways}
    \union {gateway[g].state : g \in {h \in Gateways : gateway[h].pc = "store" /\ Current(h, p)}}

OpenedPast == \A p \in Providers : \A s \in Records(p) : s.opened < now

\* One opening, one cooldown.
SameCooldown ==
  \A p \in Providers : \A s, t \in Records(p) :
    s.opened = t.opened /\ s.opened # Never => s.cooldown = t.cooldown

\* A key outlives the cooldown of its record.
KeysLast ==
  \A p \in Providers :
    redis[p].state.opened # Never =>
      redis[p].state.opened + redis[p].state.cooldown <= redis[p].expires

CooldownInv == TypeOK /\ OpenedPast /\ SameCooldown /\ KeysLast

LEMMA RecordsType ==
  ASSUME TypeOK, NEW p \in Providers
  PROVE  /\ Records(p) \subseteq BreakerState
         /\ redis[p].state \in Records(p)
         /\ \A g \in Gateways : GetState(g, p) \subseteq Records(p)
  BY DEF TypeOK, Records, Activity, GetState

LEMMA NumbersOf ==
  ASSUME NEW s \in BreakerState
  PROVE  s.opened \in Int /\ s.cooldown \in Nat /\ (s.opened # Never => s.opened \in Nat)
  BY DEF BreakerState, Never

\* What one step can add to the records of a provider.
LEMMA RecordsMove ==
  ASSUME TypeOK, NEW g \in Gateways, NEW a \in Activity, Become(g, a),
         \A q \in Providers : redis'[q].state \in Records(q) \union {Closed},
         \A h \in Gateways, q \in Providers : fallback'[h][q] \in Records(q) \union {Closed},
         NEW q \in Providers, NEW s \in Records(q)'
  PROVE  \/ s \in Records(q) \union {Closed}
         \/ /\ a.pc = "store" /\ q \in a.todo /\ (\A r \in a.todo : q <= r)
            /\ s = a.state
  <1>1. \A h \in Gateways : gateway'[h] = IF h = g THEN a ELSE gateway[h]
    BY DEF Become, TypeOK
  <1>2. \/ s = redis'[q].state
        \/ \E h \in Gateways : s = fallback'[h][q]
        \/ \E h \in Gateways : /\ gateway'[h].pc = "store" /\ q \in gateway'[h].todo
                               /\ \A r \in gateway'[h].todo : q <= r
                               /\ s = gateway'[h].state
    BY DEF Records, Current
  <1>3. ASSUME NEW h \in Gateways, gateway'[h].pc = "store", q \in gateway'[h].todo,
               \A r \in gateway'[h].todo : q <= r, s = gateway'[h].state, h # g
        PROVE  s \in Records(q)
    BY <1>1, <1>3 DEF Records, Current
  <1> QED BY <1>1, <1>2, <1>3

\* Records that are old, closed, or opened just now, all with the cooldown c.
LEMMA RecordsNext ==
  ASSUME CooldownInv, TypeOK', NEW c,
         now' \in {now, now + 1},
         \A q \in Providers : \A s \in Records(q)' :
           \/ s.opened = Never
           \/ \E t \in Records(q) : s.opened = t.opened /\ s.cooldown = t.cooldown
           \/ s.opened = now /\ now' = now + 1 /\ s.cooldown = c
  PROVE  OpenedPast' /\ SameCooldown'
  <1>1. now \in Nat /\ now' \in Nat
    BY DEF CooldownInv, TypeOK
  <1>2. \A q \in Providers : \A t \in Records(q) : t.opened \in Int /\ t.opened < now
    BY RecordsType, NumbersOf DEF CooldownInv, OpenedPast
  <1>3. OpenedPast'
    <2> SUFFICES ASSUME NEW q \in Providers, NEW s \in Records(q)' PROVE s.opened < now'
      BY DEF OpenedPast
    <2> QED BY <1>1, <1>2 DEF Never
  <1>4. SameCooldown'
    <2> SUFFICES ASSUME NEW q \in Providers, NEW s \in Records(q)', NEW t \in Records(q)',
                        s.opened = t.opened, s.opened # Never
                 PROVE  s.cooldown = t.cooldown
      BY DEF SameCooldown
    <2>1. \A u, v \in Records(q) :
            u.opened = v.opened /\ u.opened # Never => u.cooldown = v.cooldown
      BY DEF CooldownInv, SameCooldown
    <2>2. \/ \E u \in Records(q) : s.opened = u.opened /\ s.cooldown = u.cooldown
          \/ s.opened = now /\ s.cooldown = c
      OBVIOUS
    <2>3. \/ \E u \in Records(q) : t.opened = u.opened /\ t.cooldown = u.cooldown
          \/ t.opened = now /\ t.cooldown = c
      OBVIOUS
    <2>4. \A u \in Records(q) : u.opened # now
      BY <1>1, <1>2
    <2> QED BY <2>1, <2>2, <2>3, <2>4
  <1> QED BY <1>3, <1>4

\* The records of a step by one process that writes down none, or a closed one.
LEMMA QuietRecords ==
  ASSUME CooldownInv, TypeOK', NEW g \in Gateways, NEW a \in Activity, Become(g, a),
         a.pc = "store" => a.state = Closed,
         UNCHANGED <<now, redis>>,
         \A h \in Gateways, q \in Providers : fallback'[h][q] \in Records(q) \union {Closed}
  PROVE  CooldownInv'
  <1>1. TypeOK
    BY DEF CooldownInv
  <1>2. \A q \in Providers : redis'[q].state \in Records(q)
    BY <1>1, RecordsType
  <1>3. \A q \in Providers : \A s \in Records(q)' : s \in Records(q) \/ s.opened = Never
    BY <1>1, <1>2, RecordsMove DEF Closed
  <1>4. OpenedPast' /\ SameCooldown'
    BY <1>3, RecordsNext
  <1>5. KeysLast'
    BY DEF CooldownInv, KeysLast
  <1> QED BY <1>4, <1>5 DEF CooldownInv

LEMMA CopiesStay ==
  ASSUME TypeOK, UNCHANGED fallback
  PROVE  \A h \in Gateways, q \in Providers : fallback'[h][q] \in Records(q)
  BY DEF Records

\* The clock moves on: Redis drops keys, and nothing else.
LEMMA AdvanceRecords ==
  ASSUME CooldownInv, Advance
  PROVE  /\ \A q \in Providers : redis'[q].state \in Records(q) \union {Closed}
         /\ KeysLast' /\ now' = now + 1
  <1>1. \A q \in Providers : redis'[q] \in {redis[q], Missing}
    BY DEF Advance
  <1>2. Missing.state = Closed /\ Closed.opened = Never
    BY DEF Missing, Closed
  <1>3. \A q \in Providers : redis'[q].state \in Records(q) \union {Closed}
    BY <1>1, <1>2, RecordsType DEF CooldownInv
  <1>4. KeysLast'
    BY <1>1, <1>2 DEF CooldownInv, KeysLast
  <1> QED BY <1>3, <1>4 DEF Advance

LEMMA FailureRecords ==
  ASSUME CooldownInv, TypeOK', NEW g \in Gateways, NEW p \in Providers, NEW cooldown \in Cooldowns,
         RecordFailure(g, p, cooldown)
  PROVE  CooldownInv'
  <1>1. TypeOK /\ gateway[g] \in Activity /\ Current(g, p) /\ now \in Nat
    BY DEF CooldownInv, RecordFailure, TypeOK
  <1>2. PICK state \in GetState(g, p) :
          Become(g, [gateway[g] EXCEPT !.pc = "store", !.state = Failed(state, cooldown)])
    BY DEF RecordFailure
  <1>3. PICK new : new = Failed(state, cooldown)
    OBVIOUS
  <1>4. state \in Records(p) /\ new \in BreakerState
    BY <1>1, <1>3, RecordsType, GetStateType, FailedType
  <1>5. PICK a : a = [gateway[g] EXCEPT !.pc = "store", !.state = new]
    OBVIOUS
  <1>6. a \in Activity /\ Become(g, a) /\ a.state = new /\ a.todo = gateway[g].todo
    BY <1>1, <1>2, <1>3, <1>4, <1>5 DEF Activity
  <1>7. \A q \in Providers : q \in a.todo /\ (\A r \in a.todo : q <= r) => q = p
    BY <1>1, <1>6, ProvidersAssumption DEF Current, Activity
  <1>8. \/ new.opened = now /\ new.cooldown = cooldown
        \/ new.opened = state.opened /\ new.cooldown = state.cooldown
    BY <1>3 DEF Failed
  <1>9. /\ \A q \in Providers : redis'[q].state \in Records(q) \union {Closed}
        /\ KeysLast' /\ now' = now + 1
    BY AdvanceRecords DEF RecordFailure
  <1>10. \A h \in Gateways, q \in Providers : fallback'[h][q] \in Records(q)
    BY <1>1, CopiesStay DEF RecordFailure
  <1>11. \A q \in Providers : \A s \in Records(q)' :
           s \in Records(q) \union {Closed} \/ (q = p /\ s = new)
    BY <1>1, <1>6, <1>7, <1>9, <1>10, RecordsMove
  <1>12. \A q \in Providers : \A s \in Records(q)' :
           \/ s.opened = Never
           \/ \E t \in Records(q) : s.opened = t.opened /\ s.cooldown = t.cooldown
           \/ s.opened = now /\ now' = now + 1 /\ s.cooldown = cooldown
    BY <1>4, <1>8, <1>9, <1>11 DEF Closed
  <1>13. OpenedPast' /\ SameCooldown'
    BY <1>9, <1>12, RecordsNext
  <1> QED BY <1>9, <1>13 DEF CooldownInv

LEMMA WriteRecords ==
  ASSUME CooldownInv, TypeOK', NEW g \in Gateways, NEW p \in Providers, WriteState(g, p)
  PROVE  CooldownInv'
  <1> DEFINE state == gateway[g].state
             written == [state |-> state, expires |-> now + TimeToLive(state)]
  <1>1. /\ TypeOK /\ now \in Nat /\ now' = now
        /\ redis \in [Providers -> [state : BreakerState, expires : Nat]]
        /\ fallback \in [Gateways -> [Providers -> BreakerState]]
    BY DEF CooldownInv, TypeOK, WriteState
  <1>2. state \in Records(p) /\ state \in BreakerState
    <2>1. state \in Records(p)
      BY DEF WriteState, Records
    <2> QED BY <1>1, <2>1, RecordsType
  <1>3. /\ redis' = [redis EXCEPT ![p] = written] \/ redis' = redis
        /\ fallback' = [fallback EXCEPT ![g][p] = state]
    BY DEF WriteState
  <1>4. written.state = state /\ written.expires = now + TimeToLive(state)
    OBVIOUS
  <1>5. state.opened # Never => state.opened + state.cooldown <= written.expires
    <2>1. state.opened \in Int /\ state.cooldown \in Nat /\ state.opened < now
      BY <1>2, NumbersOf DEF CooldownInv, OpenedPast
    <2>2. /\ state.opened # Never => TimeToLive(state) >= state.cooldown
          /\ TimeToLive(state) \in Nat
      BY <1>2, <2>1, SettingsAssumption, TimeToLiveType DEF TimeToLive
    <2> HIDE DEF state, written
    <2> QED BY <1>1, <1>4, <2>1, <2>2
  <1> HIDE DEF state, written
  <1>6. \A q \in Providers : redis'[q] = redis[q] \/ (q = p /\ redis'[q] = written)
    BY <1>1, <1>3
  <1>7. \A h \in Gateways, q \in Providers :
          fallback'[h][q] = fallback[h][q] \/ (q = p /\ fallback'[h][q] = state)
    BY <1>1, <1>3
  <1>8. \A q \in Providers : redis'[q].state \in Records(q)
    BY <1>1, <1>2, <1>4, <1>6, RecordsType
  <1>9. \A h \in Gateways, q \in Providers : fallback'[h][q] \in Records(q)
    BY <1>2, <1>7 DEF Records
  <1>10. PICK a \in Activity : Become(g, a) /\ a.pc # "store"
    BY <1>1, NextCandidateType, FirstStates DEF WriteState, Idle
  <1>11. \A q \in Providers : \A s \in Records(q)' : s \in Records(q) \/ s.opened = Never
    BY <1>1, <1>8, <1>9, <1>10, RecordsMove DEF Closed
  <1>12. OpenedPast' /\ SameCooldown'
    BY <1>1, <1>11, RecordsNext
  <1>13. KeysLast'
    BY <1>4, <1>5, <1>6 DEF CooldownInv, KeysLast
  <1> QED BY <1>12, <1>13 DEF CooldownInv

\* Every step keeps it.
LEMMA StepCooldown == CooldownInv /\ [Next]_vars => CooldownInv'
  <1> SUFFICES ASSUME CooldownInv, [Next]_vars PROVE CooldownInv'
    OBVIOUS
  <1>t. TypeOK /\ TypeOK'
    BY StepType DEF CooldownInv
  <1>1. ASSUME NEW g \in Gateways, NEW a \in Activity, Become(g, a),
               a.pc = "store" => a.state = Closed, UNCHANGED <<now, redis, fallback>>
        PROVE  CooldownInv'
    BY <1>t, <1>1, CopiesStay, QuietRecords
  <1>2. ASSUME NEW g \in Gateways, Complete(g) PROVE CooldownInv'
    <2>1. PICK a \in Activity : Become(g, a) /\ a.pc = "select"
      <3>1. [Idle EXCEPT !.pc = "select", !.todo = Providers] \in Activity
        BY FirstStates DEF Activity, Idle
      <3>2. ASSUME NEW p \in Providers
            PROVE  [Idle EXCEPT !.pc = "select", !.request = "explicit", !.todo = {p}] \in Activity
        BY FirstStates DEF Activity, Idle, Request
      <3> QED BY <1>2, <3>1, <3>2 DEF Complete, Idle
    <2> QED BY <1>1, <1>2, <2>1 DEF Complete
  <1>3. ASSUME NEW g \in Gateways, GiveUp(g) PROVE CooldownInv'
    BY <1>1, <1>3, FirstStates DEF GiveUp, Idle
  <1>4. ASSUME NEW g \in Gateways, Restart(g) PROVE CooldownInv'
    <2>1. \A h \in Gateways, q \in Providers : fallback'[h][q] \in Records(q) \union {Closed}
      BY <1>t, <1>4 DEF Restart, TypeOK, Records
    <2> QED BY <1>t, <1>4, <2>1, QuietRecords, FirstStates DEF Restart, Idle
  <1>5. ASSUME NEW g \in Gateways, NEW p \in Providers, Consult(g, p) PROVE CooldownInv'
    <2>1. gateway[g] \in Activity /\ gateway[g].pc = "select"
      BY <1>5, <1>t DEF Consult, TypeOK
    <2>2. /\ [gateway[g] EXCEPT !.todo = @ \ {p}] \in Activity
          /\ [gateway[g] EXCEPT !.todo = @ \ {p}].pc = "select"
          /\ [gateway[g] EXCEPT !.pc = "calling"] \in Activity
          /\ [gateway[g] EXCEPT !.pc = "calling"].pc = "calling"
      BY <2>1 DEF Activity
    <2>3. PICK a \in Activity : Become(g, a) /\ a.pc # "store"
      BY <1>5, <2>2 DEF Consult
    <2> QED BY <1>1, <1>5, <2>3 DEF Consult
  <1>6. ASSUME NEW g \in Gateways, NEW p \in Providers, Rejected(g, p) PROVE CooldownInv'
    BY <1>1, <1>6, <1>t, NextCandidateType DEF Rejected
  <1>7. ASSUME NEW g \in Gateways, NEW p \in Providers, RecordSuccess(g, p) PROVE CooldownInv'
    <2>1. gateway[g] \in Activity
      BY <1>t DEF TypeOK
    <2>2. /\ [gateway[g] EXCEPT !.pc = "store", !.state = Closed] \in Activity
          /\ [gateway[g] EXCEPT !.pc = "store", !.state = Closed].state = Closed
      BY <2>1, FirstStates DEF Activity
    <2> QED BY <1>1, <1>7, <2>2 DEF RecordSuccess
  <1>8. CASE Tick
    <2>1. /\ \A q \in Providers : redis'[q].state \in Records(q) \union {Closed}
          /\ KeysLast' /\ now' = now + 1
      BY <1>8, AdvanceRecords DEF Tick
    <2>2. \A q \in Providers : \A s \in Records(q)' : s \in Records(q) \/ s.opened = Never
      BY <1>8, <2>1 DEF Tick, Records, Current, Closed
    <2>3. OpenedPast' /\ SameCooldown'
      BY <1>t, <2>1, <2>2, RecordsNext
    <2> QED BY <1>t, <2>1, <2>3 DEF CooldownInv
  <1>9. CASE UNCHANGED vars
    BY <1>9, <1>t
       DEF vars, CooldownInv, OpenedPast, SameCooldown, KeysLast, Records, Current
  <1> QED
    BY <1>t, <1>2, <1>3, <1>4, <1>5, <1>6, <1>7, <1>8, <1>9, FailureRecords, WriteRecords
       DEF Next, CallStep

LEMMA InitCooldown == Init => CooldownInv
  <1> SUFFICES ASSUME Init PROVE CooldownInv
    OBVIOUS
  <1>1. TypeOK
    BY InitType
  <1>2. \A p \in Providers : \A s \in Records(p) : s = Closed
    BY DEF Init, Records, Missing, Idle
  <1>3. Closed.opened = Never /\ Missing.state = Closed /\ Never < 0
    BY DEF Closed, Missing, Never
  <1>4. OpenedPast
    BY <1>2, <1>3 DEF OpenedPast, Init
  <1>5. SameCooldown
    BY <1>2 DEF SameCooldown
  <1>6. KeysLast
    BY <1>3 DEF KeysLast, Init
  <1> QED BY <1>1, <1>4, <1>5, <1>6 DEF CooldownInv

\* How a breaker whose cooldown goes on can come to be closed.
LEMMA ClosedEarly ==
  ASSUME CooldownInv, [Next]_vars, NEW p \in Providers, Cooling(p)
  PROVE  \/ Blocked(p)'
         \/ \E g \in Gateways : /\ Stores(g, p)
                                /\ gateway[g].state.opened # redis[p].state.opened
  <1> DEFINE record == redis[p].state
  <1>1. /\ TypeOK /\ now \in Nat /\ now' \in Nat
        /\ record \in BreakerState /\ redis[p].expires \in Nat
    BY StepType DEF CooldownInv, TypeOK
  <1>2. /\ record.opened # Never /\ now' < record.opened + record.cooldown
        /\ record.opened \in Int /\ record.cooldown \in Nat
    BY <1>1, NumbersOf DEF Cooling, Blocked, IsOpen
  <1>3. CASE redis'[p] = redis[p]
    BY <1>2, <1>3 DEF Blocked, IsOpen
  <1>4. CASE Advance
    <2>1. redis[p].expires > now + 1 /\ now' = now + 1
      BY <1>1, <1>2, <1>4 DEF CooldownInv, KeysLast, Advance
    <2>2. redis'[p] = redis[p]
      BY <1>1, <1>4, <2>1 DEF Advance
    <2> QED BY <1>3, <2>2
  <1>5. ASSUME NEW g \in Gateways, NEW q \in Providers, WriteState(g, q), redis'[p] # redis[p]
        PROVE  \/ Blocked(p)'
               \/ Stores(g, p) /\ gateway[g].state.opened # record.opened
    <2> DEFINE state == gateway[g].state
               written == [state |-> state, expires |-> now + TimeToLive(state)]
    <2>1. redis' = [redis EXCEPT ![q] = written]
      BY <1>5 DEF WriteState
    <2>2. q = p /\ redis'[p] = written
      BY <1>1, <1>5, <2>1 DEF TypeOK
    <2>3. gateway[g].pc = "store" /\ Current(g, p) /\ now' = now
      BY <1>5, <2>2 DEF WriteState
    <2>4. Stores(g, p)
      <3>1. PICK a \in Activity : Become(g, a) /\ a.pc # "store"
        BY <1>1, <1>5, NextCandidateType, FirstStates DEF WriteState, Idle
      <3>2. gateway'[g] = a
        BY <1>1, <3>1 DEF Become, TypeOK
      <3> QED BY <2>3, <3>1, <3>2 DEF Stores
    <2>5. state.opened = record.opened => state.cooldown = record.cooldown
      BY <1>2, <2>3 DEF CooldownInv, SameCooldown, Records
    <2>6. redis'[p].state = state
      BY <2>2
    <2> QED BY <1>2, <2>4, <2>5, <2>6 DEF Blocked, IsOpen
  <1> QED
    BY <1>3, <1>4, <1>5
       DEF Next, CallStep, Complete, GiveUp, Restart, Consult, Rejected, RecordSuccess,
           RecordFailure, Tick, vars

\* An open breaker closes in Redis before its cooldown is over only when a process
\* writes a record that was opened at another time or never, from a success or
\* from what it had read before: no key expires too early, and no copy of the same
\* opening cuts it short, whatever the cooldowns and however calls to Redis fail.
THEOREM ClosesByOverlap == Spec => ClosedEarlyOnlyByOverlap
  <1>1. CooldownInv /\ [Next]_vars =>
          [\A p \in Providers : Cooling(p) =>
             \/ Blocked(p)'
             \/ \E g \in Gateways : /\ Stores(g, p)
                                    /\ gateway[g].state.opened # redis[p].state.opened]_vars
    BY ClosedEarly
  <1>2. CooldownInv /\ [Next]_vars => CooldownInv'
    BY StepCooldown
  <1> QED BY <1>1, <1>2, InitCooldown, PTL DEF Spec, ClosedEarlyOnlyByOverlap

-----------------------------------------------------------------------------
(* A process that works alone.  Its copy of a record and Redis say the     *)
(* same, or the key is gone and the copy's cooldown is over; the failures  *)
(* of the copy are those that count, or will be when the record about to   *)
(* be written is; and a call is under way only at a breaker that is not    *)
(* open.                                                                   *)

\* What Counting takes of the failures S of a provider.
Last(S) == {t \in S : \A f \in S : f - Window <= t}

\* Record s counts the failures S as it should.
Fits(s, S) ==
  /\ s.failures = Last(S)
  /\ Cardinality(Last(S)) >= Threshold => s.opened \in S /\ \A f \in S : f <= s.opened

Elapsed(s, t) == s.opened = Never \/ s.opened + s.cooldown <= t

\* Redis has r where the process has s, at time t.
Echo(r, s, t) == r.state = s \/ (r = Missing /\ Elapsed(s, t))

\* p is the current candidate of activity a.
Ahead(a, p) == p \in a.todo /\ \A q \in a.todo : p <= q

InOrder(a, s, r, S, t, p) ==
  /\ \A f \in S : f < t
  /\ Echo(r, s, t)
  /\ a.pc \in {"calling", "store"} /\ Ahead(a, p) => Elapsed(s, t)
  /\ Fits(IF a.pc = "store" /\ Ahead(a, p) THEN a.state ELSE s, S)

Alone(g) ==
  /\ \A h \in Gateways \ {g} : gateway[h] = Idle
  /\ \A p \in Providers :
       InOrder(gateway[g], fallback[g][p], redis[p], streak[p], now, p)

LEMMA AheadOne ==
  ASSUME NEW a \in Activity, NEW p \in Providers, NEW q \in Providers, Ahead(a, p), Ahead(a, q)
  PROVE  p = q
  BY ProvidersAssumption DEF Ahead

LEMMA NotOpenElapsed ==
  ASSUME TypeOK, NEW s \in BreakerState, ~IsOpen(s)
  PROVE  Elapsed(s, now)
  <1>1. now \in Nat
    BY DEF TypeOK
  <1> QED BY <1>1, NumbersOf DEF IsOpen, Elapsed

\* Whether it is read from Redis or from the copy, the process finds its copy.
LEMMA ReadsOwn ==
  ASSUME NEW g \in Gateways, Alone(g), NEW p \in Providers, NEW s \in GetState(g, p)
  PROVE  s = fallback[g][p]
  BY DEF Alone, InOrder, Echo, GetState

\* Time does not part the copy and Redis: a key outlives its cooldown.
LEMMA EchoLater ==
  ASSUME CooldownInv, Advance, NEW p \in Providers, NEW s \in BreakerState,
         Echo(redis[p], s, now)
  PROVE  Echo(redis'[p], s, now')
  <1>1. /\ now \in Nat /\ now' = now + 1
        /\ redis[p].expires \in Nat
        /\ redis'[p] = IF redis[p].expires <= now + 1 THEN Missing ELSE redis[p]
    BY DEF CooldownInv, TypeOK, Advance
  <1>2. s.opened \in Int /\ s.cooldown \in Nat
    BY NumbersOf
  <1>3. Elapsed(s, now) => Elapsed(s, now')
    BY <1>1, <1>2 DEF Elapsed
  <1>4. CASE redis'[p] = redis[p]
    BY <1>3, <1>4 DEF Echo
  <1>5. CASE redis'[p] = Missing /\ redis[p].expires <= now + 1
    <2>1. redis[p].state = s => Elapsed(s, now')
      BY <1>1, <1>2, <1>5 DEF CooldownInv, KeysLast, Elapsed
    <2> QED BY <1>3, <1>5, <2>1 DEF Echo
  <1> QED BY <1>1, <1>4, <1>5

\* One more failure is counted with those of its window.
LEMMA FailedFits ==
  ASSUME TypeOK, NEW s \in BreakerState, NEW S \in SUBSET Nat, \A f \in S : f < now,
         Fits(s, S), NEW cooldown
  PROVE  Fits(Failed(s, cooldown), S \union {now})
  <1> DEFINE failures == {t \in s.failures : t >= now - Window} \union {now}
  <1>1. now \in Nat /\ Window \in Nat /\ s.failures = Last(S)
    BY SettingsAssumption DEF TypeOK, Fits
  <1>2. Last(S \union {now}) = failures
    <2>1. ASSUME NEW t \in failures PROVE t \in Last(S \union {now})
      <3>1. t \in S \union {now} /\ t >= now - Window
        BY <1>1 DEF Last
      <3>2. \A f \in S \union {now} : f - Window <= t
        BY <1>1, <3>1
      <3> QED BY <3>1, <3>2 DEF Last
    <2>2. ASSUME NEW t \in Last(S \union {now}) PROVE t \in failures
      <3>1. t \in S \union {now} /\ \A f \in S \union {now} : f - Window <= t
        BY DEF Last
      <3>2. t >= now - Window
        BY <1>1, <3>1
      <3>3. t \in S => t \in Last(S)
        BY <3>1 DEF Last
      <3> QED BY <1>1, <3>1, <3>2, <3>3
    <2> QED BY <2>1, <2>2
  <1>3. Failed(s, cooldown).failures = failures
    BY DEF Failed
  <1>4. Cardinality(failures) >= Threshold => Failed(s, cooldown).opened = now
    BY DEF Failed
  <1>5. now \in S \union {now} /\ \A f \in S \union {now} : f <= now
    BY <1>1
  <1> HIDE DEF failures
  <1> QED BY <1>2, <1>3, <1>4, <1>5 DEF Fits

LEMMA ClosedFits == Fits(Closed, {})
  <1>1. Last({}) = {} /\ ~(Cardinality({}) >= Threshold)
    BY FS_EmptySet, SettingsAssumption DEF Last
  <1> QED BY <1>1 DEF Fits, Closed

\* A step that stores and computes no record.
LEMMA QuietAlone ==
  ASSUME TypeOK, NEW g \in Gateways, Alone(g), UNCHANGED <<now, redis, fallback, streak>>,
         gateway[g].pc # "store",
         NEW a \in Activity, Become(g, a), a.pc # "store",
         \A p \in Providers : a.pc = "calling" /\ Ahead(a, p) => Elapsed(fallback[g][p], now)
  PROVE  Alone(g)'
  <1>1. \A h \in Gateways : gateway'[h] = IF h = g THEN a ELSE gateway[h]
    BY DEF TypeOK, Become
  <1>2. ASSUME NEW p \in Providers
        PROVE  InOrder(gateway'[g], fallback'[g][p], redis'[p], streak'[p], now', p)
    <2>1. InOrder(gateway[g], fallback[g][p], redis[p], streak[p], now, p)
      BY DEF Alone
    <2> QED BY <1>1, <2>1 DEF InOrder
  <1> QED BY <1>1, <1>2 DEF Alone

\* What the other processes do is nothing.
LEMMA OthersStill ==
  ASSUME TypeOK, NEW g \in Gateways, Alone(g), Undisturbed(g), NEW h \in Gateways, h # g,
         \/ Complete(h) \/ GiveUp(h) \/ Restart(h)
         \/ \E p \in Providers : CallStep(h, p)
  PROVE  UNCHANGED <<now, redis, fallback, gateway, streak>>
  <1>1. gateway[h] = Idle /\ gateway'[h] = Idle /\ Idle.pc = "idle"
    BY DEF Alone, Undisturbed, Idle
  <1>2. ~GiveUp(h) /\ ~\E p \in Providers : CallStep(h, p)
    BY <1>1 DEF GiveUp, CallStep, Consult, Rejected, RecordSuccess, RecordFailure, WriteState
  <1>3. ~Complete(h)
    <2>1. ASSUME NEW a, Become(h, a), a.pc = "select" PROVE FALSE
      BY <1>1, <2>1 DEF Become, TypeOK
    <2> QED BY <2>1 DEF Complete, Idle
  <1>4. CASE Restart(h)
    <2>1. gateway' = gateway
      BY <1>1, <1>4 DEF Restart, Become, TypeOK
    <2>2. fallback' = fallback
      BY <2>1 DEF Undisturbed
    <2> QED BY <1>4, <2>1, <2>2 DEF Restart, observed
  <1> QED BY <1>2, <1>3, <1>4

\* The record that is written is the one whose failures count.
LEMMA WritesAlone ==
  ASSUME TypeOK, NEW g \in Gateways, Alone(g), UNCHANGED <<now, streak>>,
         gateway[g].pc = "store", NEW p \in Providers, Current(g, p),
         fallback' = [fallback EXCEPT ![g][p] = gateway[g].state],
         redis'[p].state = gateway[g].state,
         \A q \in Providers : q # p => redis'[q] = redis[q],
         NEW a, Become(g, a), a.pc \in {"select", "idle"}
  PROVE  Alone(g)'
  <1>1. /\ \A h \in Gateways : gateway'[h] = IF h = g THEN a ELSE gateway[h]
        /\ \A q \in Providers : fallback'[g][q] = IF q = p THEN gateway[g].state
                                                  ELSE fallback[g][q]
        /\ gateway[g] \in Activity /\ Ahead(gateway[g], p)
    BY DEF TypeOK, Become, Current, Ahead
  <1>2. ASSUME NEW q \in Providers
        PROVE  InOrder(gateway'[g], fallback'[g][q], redis'[q], streak'[q], now', q)
    <2>1. InOrder(gateway[g], fallback[g][q], redis[q], streak[q], now, q)
      BY DEF Alone
    <2>2. CASE q = p
      BY <1>1, <2>1, <2>2 DEF InOrder, Echo
    <2>3. CASE q # p
      <3>1. ~Ahead(gateway[g], q)
        BY <1>1, <2>3, AheadOne
      <3> QED BY <1>1, <2>1, <2>3, <3>1 DEF InOrder
    <2> QED BY <2>2, <2>3
  <1> QED BY <1>1, <1>2 DEF Alone

LEMMA SuccessAlone ==
  ASSUME TypeOK, NEW g \in Gateways, Alone(g), NEW p \in Providers, RecordSuccess(g, p)
  PROVE  Alone(g)'
  <1>1. PICK a : a = [gateway[g] EXCEPT !.pc = "store", !.state = Closed]
    OBVIOUS
  <1>2. /\ gateway[g] \in Activity /\ gateway[g].pc = "calling" /\ Ahead(gateway[g], p)
        /\ UNCHANGED <<now, redis, fallback>> /\ streak' = [streak EXCEPT ![p] = {}]
        /\ Become(g, a)
    BY <1>1 DEF TypeOK, RecordSuccess, Current, Ahead
  <1>3. a.pc = "store" /\ a.state = Closed /\ a.todo = gateway[g].todo
    BY <1>1, <1>2 DEF Activity
  <1>4. /\ \A h \in Gateways : gateway'[h] = IF h = g THEN a ELSE gateway[h]
        /\ \A q \in Providers : streak'[q] = IF q = p THEN {} ELSE streak[q]
    BY <1>2 DEF TypeOK, Become
  <1>5. ASSUME NEW q \in Providers
        PROVE  InOrder(gateway'[g], fallback'[g][q], redis'[q], streak'[q], now', q)
    <2>1. InOrder(gateway[g], fallback[g][q], redis[q], streak[q], now, q)
      BY DEF Alone
    <2>2. CASE q = p
      BY <1>2, <1>3, <1>4, <2>1, <2>2, ClosedFits DEF InOrder, Ahead
    <2>3. CASE q # p
      <3>1. ~Ahead(gateway[g], q)
        BY <1>2, <2>3, AheadOne
      <3> QED BY <1>2, <1>3, <1>4, <2>1, <2>3, <3>1 DEF InOrder, Ahead
    <2> QED BY <2>2, <2>3
  <1> QED BY <1>4, <1>5 DEF Alone

\* What time alone changes of one provider.
LEMMA LaterInOrder ==
  ASSUME CooldownInv, Advance, NEW g \in Gateways, Alone(g), NEW p \in Providers
  PROVE  /\ \A f \in streak[p] : f < now'
         /\ Echo(redis'[p], fallback[g][p], now')
         /\ Elapsed(fallback[g][p], now) => Elapsed(fallback[g][p], now')
  <1>1. /\ fallback[g][p] \in BreakerState /\ now \in Nat /\ now' = now + 1
        /\ streak[p] \in SUBSET Nat
    BY DEF CooldownInv, TypeOK, Advance
  <1>2. InOrder(gateway[g], fallback[g][p], redis[p], streak[p], now, p)
    BY DEF Alone
  <1>3. \A f \in streak[p] : f < now'
    BY <1>1, <1>2 DEF InOrder
  <1>4. Echo(redis'[p], fallback[g][p], now')
    BY <1>1, <1>2, EchoLater DEF InOrder
  <1>5. Elapsed(fallback[g][p], now) => Elapsed(fallback[g][p], now')
    BY <1>1, NumbersOf DEF Elapsed
  <1> QED BY <1>3, <1>4, <1>5

LEMMA FailureAlone ==
  ASSUME CooldownInv, NEW g \in Gateways, Alone(g), NEW p \in Providers,
         NEW cooldown \in Cooldowns, RecordFailure(g, p, cooldown)
  PROVE  Alone(g)'
  <1>0. /\ TypeOK /\ gateway[g] \in Activity /\ gateway[g].pc = "calling"
        /\ Ahead(gateway[g], p) /\ fallback[g][p] \in BreakerState
        /\ streak[p] \in SUBSET Nat /\ now \in Nat /\ now' = now + 1 /\ Advance
        /\ fallback' = fallback /\ streak' = [streak EXCEPT ![p] = @ \union {now}]
    BY DEF CooldownInv, TypeOK, RecordFailure, Current, Ahead, Advance
  <1>1. PICK new : new = Failed(fallback[g][p], cooldown)
    OBVIOUS
  <1>2. PICK a : a = [gateway[g] EXCEPT !.pc = "store", !.state = new]
    OBVIOUS
  <1>3. Become(g, a)
    BY <1>1, <1>2, ReadsOwn DEF RecordFailure
  <1>4. a.pc = "store" /\ a.state = new /\ a.todo = gateway[g].todo
    BY <1>0, <1>2 DEF Activity
  <1>5. /\ \A h \in Gateways : gateway'[h] = IF h = g THEN a ELSE gateway[h]
        /\ \A q \in Providers : streak'[q] = IF q = p THEN streak[p] \union {now} ELSE streak[q]
    BY <1>0, <1>3 DEF TypeOK, Become
  <1>6. ASSUME NEW q \in Providers
        PROVE  InOrder(gateway'[g], fallback'[g][q], redis'[q], streak'[q], now', q)
    <2>1. InOrder(gateway[g], fallback[g][q], redis[q], streak[q], now, q)
      BY DEF Alone
    <2>2. /\ \A f \in streak[q] : f < now'
          /\ Echo(redis'[q], fallback'[g][q], now')
          /\ Elapsed(fallback[g][q], now) => Elapsed(fallback'[g][q], now')
      BY <1>0, LaterInOrder
    <2>3. CASE q = p
      <3>1. (\A f \in streak[p] : f < now) /\ Fits(fallback[g][p], streak[p])
            /\ Elapsed(fallback[g][p], now)
        BY <1>0, <2>1, <2>3 DEF InOrder
      <3>2. Fits(new, streak[p] \union {now})
        BY <1>0, <1>1, <3>1, FailedFits
      <3>3. \A f \in streak[p] \union {now} : f < now'
        BY <1>0, <2>2, <2>3
      <3>4. Ahead(a, p)
        BY <1>0, <1>4 DEF Ahead
      <3> QED BY <1>4, <1>5, <2>2, <2>3, <3>1, <3>2, <3>3, <3>4 DEF InOrder
    <2>4. CASE q # p
      <3>1. ~Ahead(gateway[g], q) /\ ~Ahead(a, q)
        BY <1>0, <1>4, <2>4, AheadOne DEF Ahead
      <3> QED BY <1>0, <1>5, <2>1, <2>2, <2>4, <3>1 DEF InOrder
    <2> QED BY <2>3, <2>4
  <1> QED BY <1>5, <1>6 DEF Alone

LEMMA StepAlone ==
  ASSUME CooldownInv, NEW g \in Gateways, Alone(g), Next, Undisturbed(g)
  PROVE  Alone(g)'
  <1>0. /\ TypeOK /\ gateway[g] \in Activity /\ gateway \in [Gateways -> Activity]
        /\ redis \in [Providers -> [state : BreakerState, expires : Nat]]
    BY DEF CooldownInv, TypeOK
  <1>i. Idle \in Activity /\ Idle.pc = "idle"
    BY FirstStates DEF Idle
  <1> USE DEF observed
  <1>1. ASSUME NEW h \in Gateways, h # g,
               \/ Complete(h) \/ GiveUp(h) \/ Restart(h)
               \/ \E p \in Providers : CallStep(h, p)
        PROVE  Alone(g)'
    <2>1. UNCHANGED <<now, redis, fallback, gateway, streak>>
      BY <1>0, <1>1, OthersStill
    <2> QED BY <2>1 DEF Alone
  <1>2. ASSUME NEW a \in Activity, Become(g, a), a.pc \in {"idle", "select"},
               UNCHANGED <<now, redis, fallback, streak>>, gateway[g].pc # "store"
        PROVE  Alone(g)'
    BY <1>0, <1>2, QuietAlone
  <1>3. CASE Complete(g)
    <2>1. PICK a \in Activity : Become(g, a) /\ a.pc = "select"
      <3>1. [Idle EXCEPT !.pc = "select", !.todo = Providers] \in Activity
        BY <1>i DEF Activity, Idle
      <3>2. ASSUME NEW p \in Providers
            PROVE  [Idle EXCEPT !.pc = "select", !.request = "explicit", !.todo = {p}] \in Activity
        BY <1>i DEF Activity, Idle, Request
      <3> QED BY <1>3, <3>1, <3>2 DEF Complete, Idle
    <2> QED BY <1>2, <1>3, <1>i, <2>1 DEF Complete
  <1>4. CASE GiveUp(g)
    BY <1>2, <1>4, <1>i DEF GiveUp
  <1>5. CASE Restart(g)
    <2>1. /\ Become(g, Idle) /\ gateway'[g] = Idle
          /\ UNCHANGED <<now, redis, streak>>
      BY <1>0, <1>5 DEF Restart, Become
    <2>2. CASE gateway[g].pc # "store"
      <3>1. fallback' = fallback
        BY <2>2 DEF Undisturbed
      <3> QED BY <1>2, <1>i, <2>1, <2>2, <3>1
    <2>3. CASE gateway[g].pc = "store"
      <3>1. Stored(g)
        BY <1>i, <2>1, <2>3 DEF Undisturbed
      <3>2. PICK p \in Providers :
              /\ Current(g, p)
              /\ fallback' = [fallback EXCEPT ![g][p] = gateway[g].state]
              /\ redis'[p] = [state |-> gateway[g].state,
                              expires |-> now + TimeToLive(gateway[g].state)]
        BY <3>1 DEF Stored
      <3>3. redis'[p].state = gateway[g].state
        BY <3>2
      <3> QED BY <1>0, <1>i, <2>1, <2>3, <3>2, <3>3, WritesAlone
    <2> QED BY <2>2, <2>3
  <1>6. ASSUME NEW p \in Providers, Consult(g, p) PROVE Alone(g)'
    <2>1. /\ gateway[g].pc = "select" /\ Ahead(gateway[g], p)
          /\ UNCHANGED <<now, redis, fallback, streak>>
      BY <1>6 DEF Consult, Current, Ahead
    <2>2. PICK state \in GetState(g, p) :
            Become(g, IF IsOpen(state) THEN [gateway[g] EXCEPT !.todo = @ \ {p}]
                      ELSE [gateway[g] EXCEPT !.pc = "calling"])
      BY <1>6 DEF Consult
    <2>3. CASE IsOpen(state)
      <3>1. PICK a : a = [gateway[g] EXCEPT !.todo = @ \ {p}]
        OBVIOUS
      <3>2. a \in Activity /\ a.pc = "select"
        BY <1>0, <2>1, <3>1 DEF Activity
      <3> QED BY <1>2, <2>1, <2>2, <2>3, <3>1, <3>2
    <2>4. CASE ~IsOpen(state)
      <3>1. PICK a : a = [gateway[g] EXCEPT !.pc = "calling"]
        OBVIOUS
      <3>2. a \in Activity /\ a.pc = "calling" /\ a.todo = gateway[g].todo
        BY <1>0, <2>1, <3>1 DEF Activity
      <3>3. state = fallback[g][p] /\ state \in BreakerState
        BY <1>0, ReadsOwn, GetStateType
      <3>4. Elapsed(fallback[g][p], now)
        BY <1>0, <2>4, <3>3, NotOpenElapsed
      <3>5. \A q \in Providers : Ahead(a, q) => q = p
        BY <1>0, <2>1, <3>2, AheadOne DEF Ahead
      <3>6. Become(g, a)
        BY <2>2, <2>4, <3>1
      <3> QED BY <1>0, <2>1, <3>2, <3>4, <3>5, <3>6, QuietAlone
    <2> QED BY <2>3, <2>4
  <1>7. ASSUME NEW p \in Providers, Rejected(g, p) PROVE Alone(g)'
    BY <1>0, <1>2, <1>7, NextCandidateType DEF Rejected
  <1>8. ASSUME NEW p \in Providers, WriteState(g, p) PROVE Alone(g)'
    <2>1. /\ gateway[g].pc = "store" /\ Current(g, p) /\ UNCHANGED <<now, streak>>
          /\ fallback' = [fallback EXCEPT ![g][p] = gateway[g].state]
          /\ \A q \in Providers : q # p => redis'[q] = redis[q]
      BY <1>0, <1>8 DEF WriteState
    <2>2. PICK a : Become(g, a) /\ a.pc \in {"select", "idle"}
      BY <1>0, <1>8, <1>i, NextCandidateType DEF WriteState
    <2>3. Stored(g)
      <3>1. gateway'[g] = a
        BY <1>0, <2>2 DEF Become
      <3> QED BY <2>1, <2>2, <3>1 DEF Undisturbed
    <2>4. redis'[p].state = gateway[g].state
      <3>1. PICK q \in Providers :
              /\ Current(g, q)
              /\ redis'[q] = [state |-> gateway[g].state,
                              expires |-> now + TimeToLive(gateway[g].state)]
        BY <2>3 DEF Stored
      <3>2. q = p
        BY <1>0, <2>1, <3>1, AheadOne DEF Current, Ahead
      <3> QED BY <3>1, <3>2
    <2> QED BY <1>0, <2>1, <2>2, <2>4, WritesAlone
  <1>9. CASE Tick
    <2>1. Advance /\ UNCHANGED <<fallback, gateway, streak>>
      BY <1>9 DEF Tick
    <2>2. ASSUME NEW p \in Providers
          PROVE  InOrder(gateway'[g], fallback'[g][p], redis'[p], streak'[p], now', p)
      <3>1. InOrder(gateway[g], fallback[g][p], redis[p], streak[p], now, p)
        BY DEF Alone
      <3>2. /\ \A f \in streak[p] : f < now'
            /\ Echo(redis'[p], fallback[g][p], now')
            /\ Elapsed(fallback[g][p], now) => Elapsed(fallback[g][p], now')
        BY <2>1, LaterInOrder
      <3> QED BY <2>1, <3>1, <3>2 DEF InOrder
    <2> QED BY <2>1, <2>2 DEF Alone
  <1> QED
    BY <1>0, <1>1, <1>3, <1>4, <1>5, <1>6, <1>7, <1>8, <1>9, SuccessAlone, FailureAlone
       DEF Next, CallStep

LEMMA InitAlone == Init => \A g \in Gateways : Alone(g)
  <1> SUFFICES ASSUME Init, NEW g \in Gateways, NEW p \in Providers
               PROVE  InOrder(gateway[g], fallback[g][p], redis[p], streak[p], now, p)
    BY DEF Alone, Init
  <1>1. /\ gateway[g] = Idle /\ fallback[g][p] = Closed /\ redis[p].state = Closed
        /\ streak[p] = {} /\ Idle.pc = "idle"
    BY DEF Init, Idle, Missing
  <1> QED BY <1>1, ClosedFits DEF InOrder, Echo

\* With nobody to disturb it, g opens its breakers on time.
LEMMA AloneOnTime ==
  ASSUME TypeOK, NEW g \in Gateways, Alone(g)
  PROVE  OpensOnTime(g)
  <1> SUFFICES ASSUME NEW p \in Providers, Cardinality(Counting(p)) >= Threshold,
                      gateway[g].pc # "store"
               PROVE  /\ fallback[g][p].opened \in streak[p]
                      /\ \A f \in streak[p] : f <= fallback[g][p].opened
                      /\ IsOpen(fallback[g][p]) => Blocked(p)
    BY DEF OpensOnTime
  <1>1. InOrder(gateway[g], fallback[g][p], redis[p], streak[p], now, p)
    BY DEF Alone
  <1>2. Counting(p) = Last(streak[p])
    BY DEF Counting, Last
  <1>3. Fits(fallback[g][p], streak[p]) /\ Echo(redis[p], fallback[g][p], now)
    BY <1>1 DEF InOrder
  <1>4. IsOpen(fallback[g][p]) => Blocked(p)
    <2>1. fallback[g][p] \in BreakerState /\ now \in Nat
      BY DEF TypeOK
    <2>2. IsOpen(fallback[g][p]) => ~Elapsed(fallback[g][p], now)
      BY <2>1, NumbersOf DEF IsOpen, Elapsed
    <2> QED BY <1>3, <2>2 DEF Echo, Blocked
  <1> QED BY <1>2, <1>3, <1>4 DEF Fits

\* Nobody writes a record while a breaker is open.
LEMMA AloneStaysOpen ==
  ASSUME CooldownInv, NEW g \in Gateways, Alone(g), Next, Undisturbed(g),
         NEW p \in Providers, Cooling(p)
  PROVE  Blocked(p)'
  <1>1. ASSUME NEW h \in Gateways, Stores(h, p) PROVE FALSE
    <2>1. h = g
      BY <1>1 DEF Stores, Alone, Idle
    <2>2. Elapsed(fallback[g][p], now) /\ Echo(redis[p], fallback[g][p], now)
      BY <1>1, <2>1 DEF Stores, Alone, InOrder, Current, Ahead
    <2>3. redis[p].state = fallback[g][p] \/ redis[p].state.opened = Never
      BY <2>2 DEF Echo, Missing, Closed
    <2>4. fallback[g][p] \in BreakerState /\ now \in Nat
      BY DEF CooldownInv, TypeOK
    <2> QED BY <2>2, <2>3, <2>4, NumbersOf DEF Cooling, Blocked, IsOpen, Elapsed
  <1> QED BY <1>1, ClosedEarly

\* The instances of MCCircuitBreaker.
AloneInv ==
  /\ CooldownInv
  /\ alone # Nobody => alone \in Gateways /\ Alone(alone)

LEMMA InitAloneInv == MCInit => AloneInv
  BY InitCooldown, InitAlone DEF MCInit, AloneInv

LEMMA StepAloneInv == AloneInv /\ [MCNext]_<<vars, alone>> => AloneInv'
  <1> SUFFICES ASSUME AloneInv, [MCNext]_<<vars, alone>> PROVE AloneInv'
    OBVIOUS
  <1>1. CASE UNCHANGED <<vars, alone>>
    <2>1. CooldownInv'
      BY <1>1, StepCooldown DEF AloneInv
    <2>2. ASSUME NEW g \in Gateways, Alone(g) PROVE Alone(g)'
      BY <1>1, <2>2 DEF Alone, vars
    <2> QED BY <1>1, <2>1, <2>2 DEF AloneInv
  <1>2. CASE MCNext
    <2>1. CooldownInv'
      BY <1>2, StepCooldown DEF AloneInv, MCNext
    <2>2. ASSUME NEW g \in Gateways, g = alone, alone # Nobody PROVE Alone(g)'
      BY <1>2, <2>2, StepAlone DEF AloneInv, MCNext
    <2>3. alone' = alone
      BY <1>2 DEF MCNext
    <2> QED BY <2>1, <2>2, <2>3 DEF AloneInv
  <1> QED BY <1>1, <1>2

\* A process that works alone opens a breaker with the failure that completes
\* the threshold in its window, and as long as its cooldown lasts Redis says so.
THEOREM AloneOpensOnTime == MCSpec => []OpensOnTimeAlone
  <1>1. AloneInv => OpensOnTimeAlone
    BY AloneOnTime DEF AloneInv, CooldownInv, OpensOnTimeAlone
  <1> QED BY <1>1, InitAloneInv, StepAloneInv, PTL DEF MCSpec

\* It never closes one early: it calls no provider whose breaker is open, so it
\* has nothing to record of it, and no key expires before its cooldown is over.
THEOREM AloneClosesOnTime == MCSpec => OpenUntilCooldownAlone
  <1> DEFINE A == alone # Nobody => \A p \in Providers : Cooling(p) => Blocked(p)'
  <1>1. AloneInv /\ [MCNext]_<<vars, alone>> => [A]_<<vars, alone>>
    BY AloneStaysOpen DEF AloneInv, MCNext
  <1> QED BY <1>1, InitAloneInv, StepAloneInv, PTL DEF MCSpec, OpenUntilCooldownAlone
=============================================================================
