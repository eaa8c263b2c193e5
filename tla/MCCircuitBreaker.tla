-------------------------- MODULE MCCircuitBreaker --------------------------
(***************************************************************************)
(* CircuitBreaker for TLC.  The processes are interchangeable.  One run    *)
(* explores two deployments: several processes with every fault, and one   *)
(* process alone with a Redis that always answers.  The second is a part   *)
(* of the first, and what only holds there is stated of it alone.          *)
(***************************************************************************)
EXTENDS CircuitBreaker, TLC

CONSTANTS
  Nobody,
  MaxSharedTime  \* bound: the clock of several processes; MaxTime is that of one

VARIABLE alone  \* the process that works alone, or Nobody

MCSymmetry == Permutations(Gateways)

\* The record g is about to write reaches its copy and Redis.
Stored(g) ==
  \E p \in Providers :
    /\ Current(g, p)
    /\ fallback' = [fallback EXCEPT ![g][p] = gateway[g].state]
    /\ redis'[p] = [state |-> gateway[g].state,
                    expires |-> now + TimeToLive(gateway[g].state)]

\* No other process does anything, no copy is lost and no write fails.  (A read
\* that fails is answered from a copy that equals the record.)
Undisturbed(g) ==
  /\ \A h \in Gateways \ {g} : gateway'[h] = gateway[h]
  /\ IF gateway[g].pc = "store" /\ gateway'[g] # gateway[g]
       THEN Stored(g)
       ELSE fallback' = fallback

MCInit == Init /\ alone \in Gateways \union {Nobody}
MCNext ==
  /\ Next
  /\ UNCHANGED alone
  /\ IF alone = Nobody THEN now' <= MaxSharedTime ELSE Undisturbed(alone)
MCSpec == MCInit /\ [][MCNext]_<<vars, alone>>

\* Alone, a process opens the breaker on time.
OpensOnTimeAlone == alone # Nobody => OpensOnTime(alone)

\* Alone, a process finds a breaker that opened open in Redis until its cooldown
\* is over: no call is let through that could close it, no key expires early.
OpenUntilCooldownAlone ==
  [][alone # Nobody => \A p \in Providers : Cooling(p) => Blocked(p)']_<<vars, alone>>
=============================================================================
