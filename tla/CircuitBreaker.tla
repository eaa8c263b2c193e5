---------------------------- MODULE CircuitBreaker ----------------------------
(***************************************************************************)
(* The model router of Sentinel RAG and its circuit breakers               *)
(* (core/gateway.py): gateway processes that try one provider after        *)
(* another, one breaker record per provider in Redis with a time to live,  *)
(* and in every process a copy of the records it wrote itself, which       *)
(* stands in for Redis when the key is gone or Redis does not answer.      *)
(*                                                                         *)
(* A failure is recorded by reading the record and writing a new one; the  *)
(* two are separate calls to Redis and other processes run in between.     *)
(* Data left out: prompts and completions, and how LiteLLM's exceptions    *)
(* are told apart; a call ends well, with a failure that counts or with    *)
(* one that does not.                                                      *)
(***************************************************************************)
EXTENDS Integers, FiniteSets

CONSTANTS
  Providers,  \* provider_configs, in the order of their numbers
  Healthy,    \* providers that never fail
  Gateways,   \* API processes: each answers one request at a time
  Threshold,  \* counted failures that open a breaker
  Window,     \* the rolling window of failures
  Cooldowns,  \* after a rate limit, after any other counted failure
  Faults,     \* the kinds of fault an instance may meet
  MaxTime     \* bound: the clock

ASSUME ProvidersAssumption == Providers \subseteq Nat /\ Healthy \subseteq Providers
ASSUME SettingsAssumption ==
  /\ Threshold \in Nat \ {0}
  /\ Window \in Nat \ {0}
  /\ Cooldowns \subseteq Nat
ASSUME FaultsAssumption == Faults \subseteq {"get", "set", "crash"}
ASSUME TimeAssumption == MaxTime \in Nat

VARIABLES
  now,         \* the clock; two failures are never recorded at one instant
  redis,       \* the record of each provider and when its key expires
  fallback,    \* the copies each process keeps of the records it wrote
  gateway,     \* what each process is doing
  failedAt,    \* observer: when the counted failures of a provider were recorded
  streak       \* observer: those since the provider last completed a call

vars == <<now, redis, fallback, gateway, failedAt, streak>>
observed == <<failedAt, streak>>

-----------------------------------------------------------------------------
(* Breaker records. *)

Never == -1
BreakerState ==
  [failures : SUBSET Nat, opened : Nat \union {Never}, cooldown : Nat]
Closed == [failures |-> {}, opened |-> Never, cooldown |-> 0]

\* A provider without a key in Redis.
Missing == [state |-> Closed, expires |-> 0]

IsOpen(state) == state.opened # Never /\ now < state.opened + state.cooldown

\* What get_state may return to g: Redis's record while its key lives, else,
\* or when Redis does not answer, the process's own copy.
GetState(g, p) ==
  {IF redis[p] # Missing THEN redis[p].state ELSE fallback[g][p]}
    \union (IF "get" \in Faults THEN {fallback[g][p]} ELSE {})

\* Mutant: the failures that left the window still count.
Failed_NoWindow(state, cooldown) ==
  LET failures == state.failures \union {now}
      opens == Cardinality(failures) >= Threshold
  IN  [failures |-> failures,
       opened |-> IF opens THEN now ELSE state.opened,
       cooldown |-> IF opens THEN cooldown ELSE state.cooldown]

\* Mutant: one failure more is needed.
Failed_Late(state, cooldown) ==
  LET failures == {t \in state.failures : t >= now - Window} \union {now}
      opens == Cardinality(failures) > Threshold
  IN  [failures |-> failures,
       opened |-> IF opens THEN now ELSE state.opened,
       cooldown |-> IF opens THEN cooldown ELSE state.cooldown]

\* The record after one more failure.
Failed(state, cooldown) ==
  LET failures == {t \in state.failures : t >= now - Window} \union {now}
      opens == Cardinality(failures) >= Threshold
  IN  [failures |-> failures,
       opened |-> IF opens THEN now ELSE state.opened,
       cooldown |-> IF opens THEN cooldown ELSE state.cooldown]

\* Mutant: an open breaker's key lives no longer than the window.
TimeToLive_Window(state) == Window

TimeToLive(state) ==
  IF state.opened # Never /\ state.cooldown > Window THEN state.cooldown ELSE Window

\* The clock moves on, and Redis drops the keys whose time has come.
Advance ==
  /\ now < MaxTime
  /\ now' = now + 1
  /\ redis' = [p \in Providers |-> IF redis[p].expires <= now + 1 THEN Missing ELSE redis[p]]

-----------------------------------------------------------------------------
(* Gateway processes. *)

AnyProvider == "auto"
Request == {AnyProvider, "explicit"}
\* todo: the candidates not yet done with, the least of them being the current
\* one; state: the record about to be written.
Activity == [pc : {"idle", "select", "calling", "store"}, request : Request,
             todo : SUBSET Providers, state : BreakerState]
Idle == [pc |-> "idle", request |-> AnyProvider, todo |-> {}, state |-> Closed]

Current(g, p) == p \in gateway[g].todo /\ \A q \in gateway[g].todo : p <= q
Become(g, activity) == gateway' = [gateway EXCEPT ![g] = activity]

Init ==
  /\ now = 0
  /\ redis = [p \in Providers |-> Missing]
  /\ fallback = [g \in Gateways |-> [p \in Providers |-> Closed]]
  /\ gateway = [g \in Gateways |-> Idle]
  /\ failedAt = [p \in Providers |-> {}]
  /\ streak = [p \in Providers |-> {}]

\* complete resolves its candidates: all providers, or the one that is named.
Complete(g) ==
  /\ gateway[g] = Idle
  /\ \/ Become(g, [Idle EXCEPT !.pc = "select", !.todo = Providers])
     \/ \E p \in Providers :
          Become(g, [Idle EXCEPT !.pc = "select", !.request = "explicit", !.todo = {p}])
  /\ UNCHANGED <<now, redis, fallback, observed>>

\* Mutant: the loop breaks instead of going on.
NextCandidate_Breaks(g, p) ==
  IF gateway[g].request = AnyProvider
    THEN [gateway[g] EXCEPT !.pc = "select", !.todo = {}, !.state = Closed]
    ELSE Idle

\* Mutant: any failure calls the next provider at once, with neither a look at
\* its breaker nor at whether there is one.
NextCandidate_Unconsulted(g, p) ==
  [gateway[g] EXCEPT !.pc = "calling", !.todo = @ \ {p}, !.state = Closed]

\* The loop goes on after a failure of p, unless p was asked for by name.
NextCandidate(g, p) ==
  IF gateway[g].request = AnyProvider
    THEN [gateway[g] EXCEPT !.pc = "select", !.todo = @ \ {p}, !.state = Closed]
    ELSE Idle

\* The breaker of the current candidate is consulted: it is skipped or called.
Consult(g, p) ==
  /\ gateway[g].pc = "select" /\ Current(g, p)
  /\ \E state \in GetState(g, p) :
       Become(g, IF IsOpen(state) THEN [gateway[g] EXCEPT !.todo = @ \ {p}]
                 ELSE [gateway[g] EXCEPT !.pc = "calling"])
  /\ UNCHANGED <<now, redis, fallback, observed>>

\* No candidate is left: ProviderUnavailableError.
GiveUp(g) ==
  /\ gateway[g].pc = "select" /\ gateway[g].todo = {}
  /\ Become(g, Idle)
  /\ UNCHANGED <<now, redis, fallback, observed>>

\* The call fails in a way that does not count.
Rejected(g, p) ==
  /\ gateway[g].pc = "calling" /\ Current(g, p)
  /\ p \notin Healthy
  /\ Become(g, NextCandidate(g, p))
  /\ UNCHANGED <<now, redis, fallback, observed>>

\* The call fails in a way that counts: record_failure reads the record.
RecordFailure(g, p, cooldown) ==
  /\ gateway[g].pc = "calling" /\ Current(g, p)
  /\ p \notin Healthy
  /\ \E state \in GetState(g, p) :
       Become(g, [gateway[g] EXCEPT !.pc = "store", !.state = Failed(state, cooldown)])
  /\ failedAt' = [failedAt EXCEPT ![p] = @ \union {now}]
  /\ streak' = [streak EXCEPT ![p] = @ \union {now}]
  /\ Advance
  /\ UNCHANGED fallback

\* The call ends well: record_success.
RecordSuccess(g, p) ==
  /\ gateway[g].pc = "calling" /\ Current(g, p)
  /\ Become(g, [gateway[g] EXCEPT !.pc = "store", !.state = Closed])
  /\ streak' = [streak EXCEPT ![p] = {}]
  /\ UNCHANGED <<now, redis, fallback, failedAt>>

\* _write_state: the process's copy, then Redis, whose error is ignored.  After
\* a success the request is answered, after a failure the loop goes on.
WriteState(g, p) ==
  /\ gateway[g].pc = "store" /\ Current(g, p)
  /\ LET state == gateway[g].state
     IN  /\ fallback' = [fallback EXCEPT ![g][p] = state]
         /\ \/ redis' = [redis EXCEPT
                 ![p] = [state |-> state, expires |-> now + TimeToLive(state)]]
            \/ "set" \in Faults /\ UNCHANGED redis
         /\ Become(g, IF state = Closed THEN Idle ELSE NextCandidate(g, p))
  /\ UNCHANGED <<now, observed>>

\* A process dies and starts again with no copies.
Restart(g) ==
  /\ "crash" \in Faults
  /\ Become(g, Idle)
  /\ fallback' = [fallback EXCEPT ![g] = [p \in Providers |-> Closed]]
  /\ UNCHANGED <<now, redis, observed>>

Tick == Advance /\ UNCHANGED <<fallback, gateway, observed>>

CallStep(g, p) ==
  \/ Consult(g, p) \/ Rejected(g, p) \/ RecordSuccess(g, p) \/ WriteState(g, p)
  \/ \E cooldown \in Cooldowns : RecordFailure(g, p, cooldown)

Next ==
  \/ \E g \in Gateways : Complete(g) \/ GiveUp(g) \/ Restart(g)
  \/ \E g \in Gateways, p \in Providers : CallStep(g, p)
  \/ Tick

Spec == Init /\ [][Next]_vars

-----------------------------------------------------------------------------
(* Properties. *)

\* The records, the copies and the requests have the shape the code gives them.
TypeOK ==
  /\ now \in Nat
  /\ redis \in [Providers -> [state : BreakerState, expires : Nat]]
  /\ fallback \in [Gateways -> [Providers -> BreakerState]]
  /\ gateway \in [Gateways -> Activity]
  /\ \A g \in Gateways : gateway[g].pc \in {"calling", "store"} => gateway[g].todo # {}
  /\ failedAt \in [Providers -> SUBSET Nat]
  /\ streak \in [Providers -> SUBSET Nat]

\* Threshold counted failures of p in one window that ends at t.
Failing(p, t) ==
  \E S \in SUBSET failedAt[p] :
    /\ Cardinality(S) >= Threshold
    /\ \A f \in S : t - Window <= f /\ f <= t

\* A breaker is opened only by Threshold failures in one window, wherever its
\* record is kept: however the reads and writes of the processes overlap, get
\* lost or are answered from a copy, no failure is counted twice or invented.
OpenJustified ==
  \A p \in Providers :
    /\ redis[p].state.opened # Never => Failing(p, redis[p].state.opened)
    /\ \A g \in Gateways :
         fallback[g][p].opened # Never => Failing(p, fallback[g][p].opened)

\* A request that may go to any provider is never refused while one of them is
\* healthy: a healthy provider's breaker stays closed in every process, and the
\* failures of the others lead to it.
HealthyNeverRefused ==
  \A g \in Gateways :
    gateway[g].pc = "select" /\ gateway[g].request = AnyProvider /\ gateway[g].todo = {}
      => Healthy = {}

\* What a process that keeps no copy finds in Redis: the breaker of p is open.
Blocked(p) == IsOpen(redis[p].state)

\* p's breaker was open and its cooldown is not over.
Cooling(p) == Blocked(p) /\ now' < redis[p].state.opened + redis[p].state.cooldown

\* The step stores g's record for p.
Stores(g, p) == gateway[g].pc = "store" /\ Current(g, p) /\ gateway'[g] # gateway[g]

\* An open breaker closes in Redis before its cooldown is over only by overlap:
\* through a record computed from what its writer read before the breaker was
\* opened, or from its copy, or through the success of a call begun before.
ClosedEarlyOnlyByOverlap ==
  [][\A p \in Providers : Cooling(p) =>
       \/ Blocked(p)'
       \/ \E g \in Gateways : /\ Stores(g, p)
                              /\ gateway[g].state.opened # redis[p].state.opened]_vars

\* The failures of p since it last completed a call, in the window that ends
\* with the last of them.
Counting(p) == {t \in streak[p] : \A f \in streak[p] : f - Window <= t}

\* With g as the only process and a Redis that answers, Threshold failures in a
\* window and no success since leave a record opened at the last of them, and
\* until its cooldown is over Redis says so too.
OpensOnTime(g) ==
  \A p \in Providers :
    Cardinality(Counting(p)) >= Threshold /\ gateway[g].pc # "store" =>
      LET state == fallback[g][p]
      IN  /\ state.opened \in streak[p]
          /\ \A f \in streak[p] : f <= state.opened
          /\ IsOpen(state) => Blocked(p)

\* A probe: the call p gets once the cooldown of its open breaker is over.  When
\* it fails the breaker opens again, at that very failure.
ProbeFailureReopens ==
  [][\A g \in Gateways, p \in Providers :
       Stores(g, p) /\ gateway[g].state.opened # Never
         => \A f \in gateway[g].state.failures : f <= gateway[g].state.opened]_vars
=============================================================================
