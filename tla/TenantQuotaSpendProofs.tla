------------------------ MODULE TenantQuotaSpendProofs ------------------------
(***************************************************************************)
(* How far a tenant's spend can be from its invocations and its budget:    *)
(* proofs about TenantQuota, for any number of processes and any costs.    *)
(*                                                                         *)
(* Both bounds count what the processes have under way.  What has been     *)
(* invoiced and is still to be charged is a set (Owed) with one element    *)
(* for each unit of cost, so that its cardinality is the sum.              *)
(***************************************************************************)
EXTENDS TenantQuotaProofs, FiniteSetTheorems

USE ProcessAssumption, FiniteAssumption, SettingsAssumption, BoundAssumption

-----------------------------------------------------------------------------
(* What is under way. *)

Owing == {"spend", "spending"}
Owes(s) == IF s.pc \in Owing THEN s.cost ELSE 0

\* One pair for each unit of each cost that is invoiced and not charged yet.
Owed == {x \in Processes \X (1 .. MaxCost) : x[2] <= Owes(proc[x[1]])}
Share(p, n) == {p} \X (1 .. n)

\* Processes that have been let through and are not through.
Admitted == {"call", "audit", "spend", "spending"}
Unadmitted == {p \in Processes : proc[p].pc \notin Admitted}

LEMMA ShareSize ==
  ASSUME NEW p, NEW n \in Nat
  PROVE  IsFiniteSet(Share(p, n)) /\ Cardinality(Share(p, n)) = n
  <1>1. IsFiniteSet(1 .. n) /\ Cardinality(1 .. n) = n
    <2>1. 1 \in Int /\ n \in Int
      OBVIOUS
    <2>2. IsFiniteSet(1 .. n) /\ Cardinality(1 .. n) = IF 1 > n THEN 0 ELSE n - 1 + 1
      BY <2>1, FS_Interval
    <2> QED BY <2>2
  <1>2. IsFiniteSet({p}) /\ Cardinality({p}) = 1
    BY FS_Singleton
  <1>3. IsFiniteSet({p} \X (1 .. n)) /\ Cardinality({p} \X (1 .. n)) = 1 * n
    BY <1>1, <1>2, FS_Product
  <1>4. 1 * n = n
    OBVIOUS
  <1> QED BY <1>3, <1>4 DEF Share

\* The sum without one of its parts, and with it.
LEMMA OwedSplits ==
  ASSUME NEW Rest, NEW p, NEW n \in Nat, IsFiniteSet(Rest), \A x \in Rest : x[1] # p
  PROVE  /\ IsFiniteSet(Rest \union Share(p, n))
         /\ Cardinality(Rest \union Share(p, n)) = Cardinality(Rest) + n
  <1>1. IsFiniteSet(Share(p, n)) /\ Cardinality(Share(p, n)) = n
    BY ShareSize
  <1>2. Rest \intersect Share(p, n) = {}
    BY DEF Share
  <1>3. Cardinality(Rest) \in Nat /\ Cardinality({}) = 0
    BY FS_CardinalityType, FS_EmptySet
  <1> QED BY <1>1, <1>2, <1>3, FS_Union

LEMMA OwedFinite == IsFiniteSet(Owed) /\ Cardinality(Owed) \in Nat
  <1>1. IsFiniteSet(1 .. MaxCost)
    BY FS_Interval
  <1>2. IsFiniteSet(Processes \X (1 .. MaxCost))
    BY <1>1, FS_Product
  <1>3. Owed \in SUBSET (Processes \X (1 .. MaxCost))
    BY DEF Owed
  <1> QED BY <1>2, <1>3, FS_Subset, FS_CardinalityType

\* When a process goes on, the sum changes by its part.
LEMMA OwedMoves ==
  ASSUME NEW p \in Processes, NEW s, proc \in [All -> Activity], proc' \in [All -> Activity],
         proc'[p] = s, \A q \in All : q # p => proc'[q] = proc[q],
         Owes(proc[p]) \in 0 .. MaxCost, Owes(s) \in 0 .. MaxCost
  PROVE  Cardinality(Owed') + Owes(proc[p]) = Cardinality(Owed) + Owes(s)
  <1> DEFINE Rest == {x \in Owed : x[1] # p}
  <1>1. p \in All
    BY DEF All
  <1>2. Owed = Rest \union Share(p, Owes(proc[p]))
    BY DEF Owed, Share
  <1>3. Owed' = {x \in Processes \X (1 .. MaxCost) : x[2] <= Owes(proc'[x[1]])}
    BY DEF Owed, Owes
  <1>4. \A q \in Processes : q # p => Owes(proc'[q]) = Owes(proc[q])
    BY DEF All
  <1>5. Owed' = Rest \union Share(p, Owes(s))
    BY <1>3, <1>4 DEF Owed, Share
  <1>6. IsFiniteSet(Rest)
    BY OwedFinite, FS_Subset
  <1>7. Cardinality(Rest) \in Nat
    BY <1>6, FS_CardinalityType
  <1> HIDE DEF Rest
  <1>8. \A x \in Rest : x[1] # p
    BY DEF Rest
  <1>9. /\ Cardinality(Owed) = Cardinality(Rest) + Owes(proc[p])
        /\ Cardinality(Owed') = Cardinality(Rest) + Owes(s)
    BY <1>2, <1>5, <1>6, <1>8, OwedSplits
  <1> QED BY <1>7, <1>9

\* The set does not change with what it does not look at.
LEMMA OwedStays ==
  ASSUME \A q \in Processes : proc'[q] = proc[q]
  PROVE  Owed' = Owed /\ Unadmitted' = Unadmitted
  BY DEF Owed, Owes, Unadmitted

LEMMA UnadmittedFinite ==
  /\ IsFiniteSet(Unadmitted) /\ Cardinality(Unadmitted) \in Nat
  /\ Cardinality(Processes) \in Nat /\ Cardinality(Unadmitted) <= Cardinality(Processes)
  BY FS_Subset, FS_CardinalityType DEF Unadmitted

LEMMA UnadmittedMoves ==
  ASSUME NEW p \in Processes, NEW s, proc \in [All -> Activity], proc' \in [All -> Activity],
         proc'[p] = s, \A q \in All : q # p => proc'[q] = proc[q]
  PROVE  /\ (s.pc \in Admitted <=> proc[p].pc \in Admitted) => Unadmitted' = Unadmitted
         /\ s.pc \notin Admitted /\ proc[p].pc \in Admitted =>
              Cardinality(Unadmitted') = Cardinality(Unadmitted) + 1
  <1>1. \A q \in Processes : q # p => proc'[q].pc = proc[q].pc
    BY DEF All
  <1>2. Unadmitted' = {q \in Processes : proc'[q].pc \notin Admitted}
    BY DEF Unadmitted
  <1>3. (s.pc \in Admitted <=> proc[p].pc \in Admitted) => Unadmitted' = Unadmitted
    BY <1>1, <1>2 DEF Unadmitted
  <1>4. ASSUME s.pc \notin Admitted, proc[p].pc \in Admitted
        PROVE  Cardinality(Unadmitted') = Cardinality(Unadmitted) + 1
    <2>1. Unadmitted' = Unadmitted \union {p} /\ p \notin Unadmitted
      BY <1>1, <1>2, <1>4 DEF Unadmitted
    <2> QED BY <2>1, UnadmittedFinite, FS_AddElement
  <1> QED BY <1>3, <1>4

\* n calls of m each, and one more.
LEMMA OneMore ==
  ASSUME NEW n \in Nat, NEW m \in Nat
  PROVE  n * m \in Nat /\ (n + 1) * m = n * m + m
  OBVIOUS

LEMMA Products ==
  ASSUME NEW n \in Nat, NEW k \in Nat, NEW m \in Nat, n <= k
  PROVE  n * m <= k * m
  <1>1. k = n + (k - n) /\ k - n \in Nat
    OBVIOUS
  <1>2. k * m = n * m + (k - n) * m
    BY <1>1
  <1>3. (k - n) * m \in Nat /\ n * m \in Nat /\ k * m \in Nat
    BY <1>1
  <1> QED BY <1>2, <1>3

-----------------------------------------------------------------------------
(* The invariant. *)

CostBounded == \A p \in All : proc[p].cost <= MaxCost

\* Neither the row nor what a session would write there exceeds what has been
\* invoiced without what is still to be charged.
Backed ==
  /\ quota.monthly + Cardinality(Owed) <= invoiced
  /\ \A p \in All : proc[p].row.monthly + Cardinality(Owed) <= invoiced

\* As long as sessions do not overlap, the spend exceeds the budget by less than
\* one call of each process that is not admitted: those may have charged a call
\* after the budget was gone, the admitted ones are still to.
Room ==
  /\ charged > 0 => MonthlyBudget > 0
  /\ \A p \in Processes : proc[p].pc \in Admitted => MonthlyBudget > 0
  /\ ~overlapped /\ MonthlyBudget > 0 =>
       charged < MonthlyBudget + Cardinality(Unadmitted) * MaxCost

\* Under the same condition the row's month does not go back behind a month
\* that a session has loaded or a check has renewed it to.
MonthsKept ==
  ~overlapped => \A p \in All :
    /\ proc[p].loaded.month <= quota.month
    /\ proc[p].pc = "decide" => MonthOf(proc[p].day) <= quota.month

SpendInv == CostBounded /\ Backed /\ Room /\ MonthsKept

\* The numbers of the rows.
Numbers ==
  /\ quota.monthly \in Nat /\ quota.month \in Int
  /\ invoiced \in Nat /\ charged \in Nat /\ overlapped \in BOOLEAN
  /\ proc \in [All -> Activity]
  /\ \A p \in All : /\ proc[p].row.monthly \in Nat
                    /\ proc[p].loaded.month \in Int
                    /\ proc[p].cost \in Nat /\ proc[p].day \in Nat
                    /\ MonthOf(proc[p].day) \in Nat
                    /\ p \in Workers => proc[p].pc \in {"idle", "judging"}

LEMMA NumbersHold == Inv => Numbers
  <1> SUFFICES ASSUME Inv PROVE Numbers
    OBVIOUS
  <1>1. Sound
    BY DEF Inv
  <1>2. quota.monthly \in Nat /\ quota.month \in Int
    BY <1>1, NoRow DEF Sound
  <1>3. ASSUME NEW p \in All
        PROVE  /\ proc[p].row.monthly \in Nat
               /\ proc[p].loaded.month \in Int
               /\ proc[p].cost \in Nat /\ proc[p].day \in Nat
               /\ MonthOf(proc[p].day) \in Nat
               /\ p \in Workers => proc[p].pc \in {"idle", "judging"}
    <2>1. Fits(p, proc[p]) /\ proc[p] \in Activity
      BY <1>1 DEF Sound, Fits
    <2>2. /\ proc[p].row \in Quota \union {NoQuota} /\ proc[p].loaded \in Quota \union {NoQuota}
          /\ proc[p].cost \in Nat /\ proc[p].day \in Nat
      BY <2>1 DEF Activity
    <2>3. p \in Workers => proc[p].pc \in {"idle", "judging"}
      BY <2>1 DEF Fits
    <2> QED BY <2>2, <2>3, NoRow, Months
  <1> QED BY <1>1, <1>2, <1>3 DEF Sound, Numbers

LEMMA NumbersNext == Inv' => Numbers'
  BY NumbersHold, PTL

LEMMA CountsNext == (Cardinality(Owed) \in Nat)' /\ (Cardinality(Unadmitted) \in Nat)'
  <1>1. Cardinality(Owed) \in Nat /\ Cardinality(Unadmitted) \in Nat
    BY OwedFinite, UnadmittedFinite
  <1> QED BY <1>1, PTL

\* p goes on with s: what that may do to each part of the invariant.
StepBacked(p, s, added, billed) ==
  /\ added \in Nat /\ billed \in Nat
  /\ invoiced' = invoiced + billed
  /\ Owes(s) + added <= Owes(proc[p]) + billed
  /\ \/ quota'.monthly <= quota.monthly + added
     \/ quota'.monthly <= proc[p].row.monthly + added
  /\ \/ s.row.monthly = 0
     \/ s.row.monthly = quota.monthly
     \/ s.row.monthly = proc[p].row.monthly

StepRoom(p, s, added) ==
  /\ charged' <= charged + added
  /\ overlapped => overlapped'
  /\ \/ added = 0 /\ (s.pc \in Admitted => proc[p].pc \in Admitted)
     \/ /\ added = 0 /\ proc[p].pc = "decide" /\ charged' = charged
        /\ quota.monthly < MonthlyBudget
     \/ added <= MaxCost /\ proc[p].pc \in Admitted /\ s.pc \notin Admitted

StepMonths(p, s) ==
  ~overlapped' =>
    /\ quota'.month >= quota.month
    /\ s.loaded.month <= quota'.month
    /\ s.pc = "decide" => MonthOf(s.day) <= quota'.month

LEMMA StepInv ==
  ASSUME Inv, Inv', SpendInv, NEW p \in All, NEW s, Become(p, s),
         NEW added, NEW billed,
         s.cost <= MaxCost,
         StepBacked(p, s, added, billed), StepRoom(p, s, added), StepMonths(p, s)
  PROVE  SpendInv'
  <1>1. Numbers /\ Numbers'
    BY NumbersHold, NumbersNext
  <1>2. /\ proc \in [All -> Activity] /\ proc' \in [All -> Activity]
        /\ proc'[p] = s /\ \A q \in All : q # p => proc'[q] = proc[q]
    BY <1>1 DEF Become, Numbers
  <1>3. s.cost \in Nat /\ s.row.monthly \in Nat
    BY <1>1, <1>2 DEF Numbers
  <1>4. CostBounded'
    BY <1>2 DEF SpendInv, CostBounded
  <1>5. Owes(proc[p]) \in 0 .. MaxCost /\ Owes(s) \in 0 .. MaxCost
    BY <1>1, <1>3 DEF Owes, SpendInv, CostBounded, Numbers
  <1>6. p \in Workers => /\ Owes(proc[p]) = 0 /\ Owes(s) = 0
                         /\ \A q \in Processes : proc'[q] = proc[q]
                         /\ s.pc \notin Admitted /\ proc[p].pc \notin Admitted
                         /\ proc[p].pc # "decide"
    <2>1. p \in Workers => proc[p].pc \in {"idle", "judging"} /\ s.pc \in {"idle", "judging"}
      BY <1>1, <1>2 DEF Numbers
    <2>2. p \in Workers => \A q \in Processes : proc'[q] = proc[q]
      BY <1>2 DEF All
    <2> QED BY <2>1, <2>2 DEF Owes, Owing, Admitted
  <1>7. Cardinality(Owed') + Owes(proc[p]) = Cardinality(Owed) + Owes(s)
    BY <1>2, <1>5, <1>6, OwedMoves, OwedStays, OwedFinite DEF All
  <1>8. Backed'
    <2> DEFINE owed == Cardinality(Owed)
               owedNext == Cardinality(Owed')
    <2>1. owed \in Nat /\ owedNext \in Nat
      BY CountsNext, OwedFinite
    <2>2. /\ quota.monthly + owed <= invoiced
          /\ \A q \in All : proc[q].row.monthly + owed <= invoiced
      BY DEF SpendInv, Backed
    <2>3. /\ owedNext + Owes(proc[p]) = owed + Owes(s)
          /\ Owes(s) + added <= Owes(proc[p]) + billed
          /\ invoiced' = invoiced + billed /\ added \in Nat /\ billed \in Nat
      BY <1>7 DEF StepBacked
    <2> HIDE DEF owed, owedNext
    <2>4. owedNext + added <= owed + billed
      BY <1>5, <2>1, <2>3
    <2>5. (quota')["monthly"] + owedNext <= invoiced'
      <3>1. /\ quota.monthly \in Nat /\ quota'.monthly \in Nat /\ invoiced \in Nat
            /\ proc[p].row.monthly \in Nat
        BY <1>1 DEF Numbers
      <3>2. \/ quota'.monthly <= quota.monthly + added
            \/ quota'.monthly <= proc[p].row.monthly + added
        BY DEF StepBacked
      <3>3. proc[p].row.monthly + owed <= invoiced
        BY <2>2
      <3> QED BY <2>1, <2>2, <2>3, <2>4, <3>1, <3>2, <3>3
    <2>6. ASSUME NEW q \in All PROVE proc'[q].row.monthly + owedNext <= invoiced'
      <3>1. \/ proc'[q].row.monthly = 0
            \/ proc'[q].row.monthly = quota.monthly
            \/ \E r \in All : proc'[q].row.monthly = proc[r].row.monthly
        BY <1>2 DEF StepBacked
      <3>2. /\ quota.monthly \in Nat /\ invoiced \in Nat
            /\ \A r \in All : proc[r].row.monthly \in Nat
        BY <1>1 DEF Numbers
      <3>3. proc'[q].row.monthly + owed <= invoiced
        BY <2>1, <2>2, <3>1, <3>2
      <3>4. proc'[q].row.monthly \in Nat
        BY <3>1, <3>2
      <3> QED BY <2>1, <2>3, <2>4, <3>2, <3>3, <3>4
    <2> QED BY <2>5, <2>6 DEF Backed, owedNext
  <1>9. Room'
    <2> DEFINE n == Cardinality(Unadmitted)
               next == Cardinality(Unadmitted')
    <2>1. n \in Nat /\ next \in Nat
      BY CountsNext, UnadmittedFinite
    <2>2. /\ s.pc \notin Admitted /\ proc[p].pc \in Admitted => next = n + 1
          /\ (s.pc \in Admitted <=> proc[p].pc \in Admitted) => next = n
      <3>1. CASE p \in Processes
        BY <1>2, <3>1, UnadmittedMoves
      <3>2. CASE p \in Workers
        BY <1>6, <3>2, OwedStays
      <3> QED BY <3>1, <3>2 DEF All
    <2>3. /\ charged \in Nat /\ charged' \in Nat /\ overlapped \in BOOLEAN /\ overlapped' \in BOOLEAN
          /\ quota.monthly \in Nat /\ added \in Nat
      BY <1>1 DEF Numbers, StepBacked
    <2>4. /\ charged > 0 => MonthlyBudget > 0
          /\ \A q \in Processes : proc[q].pc \in Admitted => MonthlyBudget > 0
          /\ ~overlapped /\ MonthlyBudget > 0 => charged < MonthlyBudget + n * MaxCost
      BY DEF SpendInv, Room
    <2>5. n * MaxCost \in Nat /\ next * MaxCost \in Nat /\ (n + 1) * MaxCost = n * MaxCost + MaxCost
      BY <2>1, OneMore
    <2>6. proc[p].pc \in Admitted => p \in Processes
      BY <1>6 DEF All
    <2>7. \A q \in Processes : q # p => proc'[q].pc = proc[q].pc
      BY <1>2 DEF All
    <2>8. charged' <= charged + added /\ (overlapped => overlapped')
      BY DEF StepRoom
    <2>9. ~overlapped => quota.monthly = charged
      BY DEF Inv, SpendExact
    <2> HIDE DEF n, next
    <2>10. CASE added = 0 /\ (s.pc \in Admitted => proc[p].pc \in Admitted)
      <3>1. next * MaxCost >= n * MaxCost
        BY <2>2, <2>5, <2>10
      <3>2. charged' > 0 => MonthlyBudget > 0
        BY <2>3, <2>4, <2>8, <2>10
      <3>3. \A q \in Processes : proc'[q].pc \in Admitted => MonthlyBudget > 0
        BY <1>2, <2>4, <2>6, <2>7, <2>10
      <3>4. ~overlapped' /\ MonthlyBudget > 0 => charged' < MonthlyBudget + next * MaxCost
        BY <2>3, <2>4, <2>5, <2>8, <2>10, <3>1
      <3> QED BY <3>2, <3>3, <3>4 DEF Room, next
    <2>11. CASE added = 0 /\ proc[p].pc = "decide" /\ charged' = charged /\ quota.monthly < MonthlyBudget
      <3>1. MonthlyBudget > 0
        BY <2>3, <2>11
      <3>2. ~overlapped' => charged' < MonthlyBudget
        BY <2>3, <2>8, <2>9, <2>11
      <3>3. ~overlapped' => charged' < MonthlyBudget + next * MaxCost
        BY <2>3, <2>5, <3>2
      <3> QED BY <3>1, <3>3 DEF Room, next
    <2>12. CASE added <= MaxCost /\ proc[p].pc \in Admitted /\ s.pc \notin Admitted
      <3>1. MonthlyBudget > 0
        BY <2>4, <2>6, <2>12
      <3>2. next * MaxCost = n * MaxCost + MaxCost
        BY <2>2, <2>5, <2>12
      <3>3. ~overlapped' => charged' < MonthlyBudget + next * MaxCost
        BY <2>3, <2>4, <2>5, <2>8, <2>12, <3>1, <3>2
      <3> QED BY <3>1, <3>3 DEF Room, next
    <2> QED BY <2>10, <2>11, <2>12 DEF StepRoom
  <1>10. MonthsKept'
    <2> SUFFICES ASSUME ~overlapped', NEW q \in All
                 PROVE  /\ proc'[q].loaded.month <= quota'.month
                        /\ proc'[q].pc = "decide" => MonthOf(proc'[q].day) <= quota'.month
      BY <1>1 DEF MonthsKept, MonthOf
    <2>1. /\ quota'.month >= quota.month /\ s.loaded.month <= quota'.month
          /\ s.pc = "decide" => MonthOf(s.day) <= quota'.month
      BY DEF StepMonths
    <2>2. CASE q = p
      BY <1>2, <2>1, <2>2
    <2>3. CASE q # p
      <3>1. proc'[q] = proc[q]
        BY <1>2, <2>3
      <3>2. ~overlapped
        BY DEF StepRoom
      <3>3. /\ proc[q].loaded.month <= quota.month
            /\ proc[q].pc = "decide" => MonthOf(proc[q].day) <= quota.month
        BY <3>2 DEF SpendInv, MonthsKept
      <3>4. /\ proc[q].loaded.month \in Int /\ MonthOf(proc[q].day) \in Nat
            /\ quota.month \in Int /\ quota'.month \in Int
        BY <1>1 DEF Numbers
      <3> QED BY <2>1, <3>1, <3>3, <3>4
    <2> QED BY <2>2, <2>3
  <1> QED BY <1>4, <1>8, <1>9, <1>10 DEF SpendInv

-----------------------------------------------------------------------------
(* The steps. *)

\* What p has open is a row or none.
LEMMA OpenRows ==
  ASSUME Inv, NEW p \in All
  PROVE  /\ quota.month >= -1 /\ quota.month \in Int /\ quota.monthly \in Nat
         /\ NoQuota.month = -1 /\ NoQuota.monthly = 0
         /\ proc[p].row \in Quota \union {NoQuota} /\ proc[p].loaded \in Quota \union {NoQuota}
         /\ proc[p].row.monthly \in Nat /\ proc[p].loaded.month \in Int
  <1>1. /\ quota \in Quota \union {NoQuota} /\ proc[p] \in Activity
    BY Known
  <1>2. /\ proc[p].row \in Quota \union {NoQuota} /\ proc[p].loaded \in Quota \union {NoQuota}
    BY <1>1 DEF Activity
  <1>3. quota.month >= -1
    BY <1>1 DEF Quota, NoQuota
  <1>4. NoQuota.month = -1 /\ NoQuota.monthly = 0
    BY DEF NoQuota
  <1> QED BY <1>1, <1>2, <1>3, <1>4, NoRow

\* A step that leaves the row alone, and invoices billed.
LEMMA QuietStep ==
  ASSUME Inv, Inv', SpendInv, NEW p \in All, NEW s, Become(p, s), s.cost <= MaxCost,
         UNCHANGED <<quota, observed>>, NEW billed \in Nat, invoiced' = invoiced + billed,
         Owes(s) <= Owes(proc[p]) + billed,
         \/ s.row \in {NoQuota, quota}
         \/ s.row.monthly \in {0, proc[p].row.monthly},
         s.loaded \in {NoQuota, quota, proc[p].loaded},
         s.pc # "decide",
         s.pc \in Admitted => \/ proc[p].pc \in Admitted
                              \/ proc[p].pc = "decide" /\ quota.monthly < MonthlyBudget
  PROVE  SpendInv'
  <1>1. Numbers /\ Numbers'
    BY NumbersHold, NumbersNext
  <1>2. proc'[p] = s
    BY <1>1 DEF Become, Numbers
  <1>3. /\ Owes(proc[p]) \in Nat /\ Owes(s) \in Nat
    BY <1>1, <1>2 DEF Numbers, Owes
  <1>4. /\ quota.month >= -1 /\ quota.month \in Int /\ quota.monthly \in Nat
        /\ NoQuota.month = -1 /\ NoQuota.monthly = 0
        /\ proc[p].row.monthly \in Nat /\ proc[p].loaded.month \in Int
    BY OpenRows
  <1>5. /\ quota' = quota /\ charged' = charged /\ overlapped' = overlapped /\ charged \in Nat
    BY <1>1 DEF observed, Numbers
  <1>6. StepBacked(p, s, 0, billed)
    BY <1>3, <1>4, <1>5 DEF StepBacked
  <1>7. StepRoom(p, s, 0)
    BY <1>5 DEF StepRoom
  <1>8. StepMonths(p, s)
    <2>1. ~overlapped => proc[p].loaded.month <= quota.month
      BY DEF SpendInv, MonthsKept
    <2> QED BY <1>4, <1>5, <2>1 DEF StepMonths
  <1> QED BY <1>6, <1>7, <1>8, StepInv

\* A step that commits.
LEMMA CommitStep ==
  ASSUME Inv, Inv', SpendInv, NEW p \in All, NEW s, Become(p, s), s.cost <= MaxCost,
         NEW new \in Quota, NEW columns \in SUBSET Columns, NEW added \in Nat, NEW paid \in Nat,
         CommitRow(p, new, columns, added, paid), invoiced' = invoiced,
         s.row = NoQuota, s.loaded = NoQuota, s.pc \notin Admitted,
         added <= Owes(proc[p]), added = 0 \/ proc[p].pc \in Admitted,
         new.monthly <= proc[p].row.monthly + added,
         new.month >= proc[p].loaded.month,
         \A c \in Columns \ columns : new[c] = proc[p].loaded[c],
         s.pc = "decide" => MonthOf(s.day) \in Nat /\ MonthOf(s.day) <= new.month
  PROVE  SpendInv'
  <1>1. Numbers /\ Numbers'
    BY NumbersHold, NumbersNext
  <1>2. /\ quota.month >= -1 /\ quota.month \in Int /\ quota.monthly \in Nat
        /\ NoQuota.month = -1 /\ NoQuota.monthly = 0
        /\ proc[p].row.monthly \in Nat /\ proc[p].loaded.month \in Int
    BY OpenRows
  <1>3. /\ quota' = [c \in Columns |-> IF c \in columns THEN new[c] ELSE quota[c]]
        /\ charged' = (IF quota'.month = quota.month THEN charged ELSE 0) + added
        /\ overlapped' = (overlapped \/ (columns # {} /\ proc[p].loaded # quota))
    BY DEF CommitRow
  <1>4. /\ quota'.monthly = new.monthly \/ quota'.monthly = quota.monthly
        /\ "month" \in columns => quota'.month = new.month
        /\ "month" \notin columns => quota'.month = quota.month
    BY <1>3 DEF Columns
  <1>5. /\ charged \in Nat /\ charged' <= charged + added
        /\ overlapped => overlapped'
        /\ ~overlapped' => columns = {} \/ proc[p].loaded = quota
    <2>1. charged \in Nat
      BY <1>1 DEF Numbers
    <2>2. charged' <= charged + added
      BY <1>3, <2>1
    <2>3. overlapped' = (overlapped \/ (columns # {} /\ proc[p].loaded # quota))
      BY <1>3
    <2>4. /\ overlapped => overlapped'
          /\ ~overlapped' => columns = {} \/ proc[p].loaded = quota
      BY <2>3, Zenon
    <2> QED BY <2>1, <2>2, <2>4
  <1>6. new.month \in Nat /\ new.monthly \in Nat
    BY DEF Quota
  <1>7. Owes(s) = 0 /\ Owes(proc[p]) \in Nat /\ Owes(proc[p]) <= MaxCost
    <2>1. proc[p].cost \in Nat /\ proc[p].cost <= MaxCost
      BY <1>1 DEF Numbers, SpendInv, CostBounded
    <2> QED BY <2>1 DEF Owes, Owing, Admitted, SettingsAssumption
  <1>8. StepBacked(p, s, added, 0)
    <2>1. \/ quota'.monthly <= quota.monthly + added
          \/ quota'.monthly <= proc[p].row.monthly + added
      BY <1>2, <1>4, <1>6
    <2>2. invoiced' = invoiced + 0
      BY <1>1 DEF Numbers
    <2> QED BY <1>2, <1>7, <2>1, <2>2 DEF StepBacked
  <1>9. StepRoom(p, s, added)
    <2>1. added <= MaxCost
      BY <1>7 DEF SettingsAssumption
    <2> QED BY <1>5, <2>1 DEF StepRoom
  <1>10. StepMonths(p, s)
    <2> SUFFICES ASSUME ~overlapped'
                 PROVE  /\ quota'.month >= quota.month
                        /\ s.loaded.month <= quota'.month
                        /\ s.pc = "decide" => MonthOf(s.day) <= quota'.month
      BY DEF StepMonths
    <2>1. ~overlapped /\ (columns = {} \/ proc[p].loaded = quota)
      BY <1>5
    <2>2. proc[p].loaded.month <= quota.month
      BY <2>1 DEF SpendInv, MonthsKept
    <2>3. "month" \notin columns => new.month = proc[p].loaded.month
      BY DEF Columns
    <2>4. quota'.month >= quota.month /\ quota'.month >= new.month
      <3>1. CASE "month" \in columns
        BY <1>2, <1>4, <1>6, <2>1, <3>1
      <3>2. CASE "month" \notin columns
        BY <1>2, <1>4, <1>6, <2>2, <2>3, <3>2
      <3> QED BY <3>1, <3>2
    <2>5. quota'.month \in Int
      BY <1>1 DEF Numbers
    <2> QED BY <1>2, <1>6, <2>4, <2>5
  <1> QED BY <1>8, <1>9, <1>10, StepInv

-----------------------------------------------------------------------------
(* One lemma for every action, or for those that do the same. *)

\* A process gives up, or is through with something that is not to be charged.
LEMMA GoneSpend ==
  ASSUME Inv, Inv', SpendInv, NEW p \in All, Become(p, Idle),
         UNCHANGED <<quota, invoiced, observed>>
  PROVE  SpendInv'
  <1>1. /\ Idle.cost = 0 /\ Idle.pc = "idle" /\ Idle.row = NoQuota /\ Idle.loaded = NoQuota
        /\ Owes(Idle) = 0
    BY DEF Idle, Owes, Owing
  <1>2. invoiced' = invoiced + 0 /\ 0 \in Nat /\ 0 <= MaxCost
    BY NumbersHold DEF Numbers, SettingsAssumption
  <1>3. Owes(Idle) <= Owes(proc[p]) + 0
    BY <1>1, NumbersHold DEF Numbers, Owes
  <1> QED BY <1>1, <1>2, <1>3, QuietStep DEF Admitted

\* A process of the API goes on without a session.
LEMMA RestSpend ==
  ASSUME Inv, Inv', SpendInv, NEW p \in Processes, NEW pc \in Api \ InSession,
         NEW day \in Nat, NEW cost \in 0 .. MaxCost, Become(p, At(pc, day, cost)),
         UNCHANGED <<quota, observed>>, NEW billed \in Nat, invoiced' = invoiced + billed,
         pc # "decide",
         pc = "spend" => cost <= billed,
         pc \in Admitted => \/ proc[p].pc \in Admitted
                            \/ proc[p].pc = "decide" /\ quota.monthly < MonthlyBudget
  PROVE  SpendInv'
  <1> DEFINE s == At(pc, day, cost)
  <1>1. p \in All /\ cost \in Nat
    BY DEF All, SettingsAssumption
  <1>2. s.pc = pc /\ s.row = NoQuota /\ s.loaded = NoQuota /\ s.cost = cost
    BY <1>1, SetDown DEF At, Idle
  <1>3. Owes(proc[p]) \in Nat
    BY <1>1, NumbersHold DEF Numbers, Owes
  <1>4. Become(p, s) /\ s.cost <= MaxCost
    BY <1>2 DEF SettingsAssumption
  <1> HIDE DEF s
  <1>5. Owes(s) <= Owes(proc[p]) + billed
    BY <1>1, <1>2, <1>3 DEF Owes, Owing, InSession
  <1> QED BY <1>1, <1>2, <1>4, <1>5, QuietStep

LEMMA BeginSpend == ASSUME Inv, Inv', SpendInv, NEW p \in Processes, Begin(p) PROVE SpendInv'
  <1>1. today \in Nat /\ 0 \in Nat /\ 0 \in 0 .. MaxCost /\ invoiced' = invoiced + 0
    BY NumbersHold DEF Begin, Numbers, Inv, Sound, SettingsAssumption
  <1>2. "check" \in Api \ InSession /\ "check" \notin Admitted
    BY DEF Api, InSession, Admitted
  <1> QED BY <1>1, <1>2, RestSpend DEF Begin

LEMMA DecideSpend == ASSUME Inv, Inv', SpendInv, NEW p \in Processes, Decide(p) PROVE SpendInv'
  <1>1. 0 \in Nat /\ 0 \in 0 .. MaxCost /\ invoiced' = invoiced + 0
    BY NumbersHold DEF Decide, Numbers, SettingsAssumption
  <1>2. /\ {"call", "refuse"} \subseteq Api \ InSession /\ "refuse" \notin Admitted
    BY DEF Api, InSession, Admitted
  <1>3. quota.monthly \in Nat /\ MonthlyBudget \in Nat
    BY NumbersHold DEF Numbers, SettingsAssumption
  <1>4. CASE OverBudget(quota)
    BY <1>1, <1>2, <1>4, RestSpend DEF Decide
  <1>5. CASE ~OverBudget(quota)
    <2>1. quota.monthly < MonthlyBudget
      BY <1>3, <1>5 DEF OverBudget
    <2> QED BY <1>1, <1>2, <1>5, <2>1, RestSpend DEF Decide
  <1> QED BY <1>4, <1>5

LEMMA CallSpend == ASSUME Inv, Inv', SpendInv, NEW p \in Processes, Call(p) PROVE SpendInv'
  <1>1. 0 \in Nat /\ invoiced' = invoiced + 0
    BY NumbersHold DEF Call, Numbers
  <1>2. AfterCall \in Api \ InSession /\ AfterCall \notin {"decide", "spend"}
    BY DEF Api, InSession, AfterCall
  <1>3. proc[p].pc \in Admitted /\ p \in All
    BY DEF Call, Admitted, All
  <1>4. CASE Become(p, Idle)
    BY <1>3, <1>4, GoneSpend DEF Call
  <1>5. ASSUME NEW cost \in Costs, Become(p, At(AfterCall, 0, cost)) PROVE SpendInv'
    <2>1. cost \in 0 .. MaxCost
      BY DEF SettingsAssumption
    <2> QED BY <1>1, <1>2, <1>3, <1>5, <2>1, RestSpend DEF Call
  <1> QED BY <1>4, <1>5 DEF Call

LEMMA AuditSpend == ASSUME Inv, Inv', SpendInv, NEW p \in Processes, Audit(p) PROVE SpendInv'
  <1>1. p \in All /\ proc[p].pc \in Admitted
    BY DEF All, Audit, Admitted
  <1>2. today \in Nat /\ proc[p].cost \in Nat /\ proc[p].cost \in 0 .. MaxCost
    BY <1>1, NumbersHold DEF Numbers, Inv, Sound, SpendInv, CostBounded, SettingsAssumption
  <1>3. "spend" \in Api \ InSession /\ proc[p].cost <= proc[p].cost
    BY <1>2 DEF Api, InSession
  <1> QED BY <1>1, <1>2, <1>3, RestSpend DEF Audit

LEMMA LoadSpend == ASSUME Inv, Inv', SpendInv, NEW p \in Processes, Load(p) PROVE SpendInv'
  <1>1. PICK pc \in {"checking", "spending"} :
          /\ Become(p, Opened(proc[p], pc))
          /\ proc[p].pc \in {"check", "spend"}
          /\ pc = "spending" => proc[p].pc = "spend"
    BY DEF Load
  <1> DEFINE s == Opened(proc[p], pc)
  <1>2. p \in All /\ proc[p] \in Activity
    BY Known DEF All
  <1>3. /\ s.pc = pc /\ s.row = quota /\ s.loaded = quota /\ s.cost = proc[p].cost
    BY <1>2 DEF Opened, Activity
  <1>4. proc[p].cost \in Nat /\ proc[p].cost <= MaxCost /\ invoiced' = invoiced + 0 /\ 0 \in Nat
    BY <1>2, NumbersHold DEF Numbers, SpendInv, CostBounded, Load
  <1>5. Become(p, s)
    BY <1>1
  <1> HIDE DEF s
  <1>6. Owes(s) <= Owes(proc[p]) + 0
    BY <1>1, <1>3, <1>4 DEF Owes, Owing
  <1>7. s.pc # "decide" /\ (s.pc \in Admitted => proc[p].pc \in Admitted)
    BY <1>1, <1>3 DEF Admitted
  <1>8. UNCHANGED <<quota, observed>>
    BY DEF Load
  <1> QED BY <1>2, <1>3, <1>4, <1>5, <1>6, <1>7, <1>8, QuietStep

LEMMA InsertSpend == ASSUME Inv, Inv', SpendInv, NEW p \in All, Insert(p) PROVE SpendInv'
  <1> DEFINE t == [proc[p] EXCEPT !.row = NewQuota, !.written = Columns]
  <1>1. CASE Become(p, Idle)
    BY <1>1, GoneSpend DEF Insert
  <1>2. CASE Become(p, t)
    <2>1. proc[p] \in Activity /\ proc[p].pc \in InSession
      BY Known DEF Insert
    <2>2. /\ t.pc = proc[p].pc /\ t.cost = proc[p].cost /\ t.loaded = proc[p].loaded
          /\ t.row = NewQuota
      BY <2>1 DEF Activity
    <2>3. t.row.monthly = 0
      BY <2>2 DEF NewQuota
    <2>4. proc[p].cost \in Nat /\ proc[p].cost <= MaxCost /\ invoiced' = invoiced + 0 /\ 0 \in Nat
      BY NumbersHold DEF Numbers, SpendInv, CostBounded, Insert
    <2>5. UNCHANGED <<quota, observed>> /\ Become(p, t)
      BY <1>2 DEF Insert
    <2> HIDE DEF t
    <2>6. Owes(t) <= Owes(proc[p]) + 0
      BY <2>2, <2>4 DEF Owes
    <2>7. t.pc # "decide" /\ (t.pc \in Admitted => proc[p].pc \in Admitted)
      BY <2>1, <2>2 DEF InSession
    <2> QED BY <2>2, <2>3, <2>4, <2>5, <2>6, <2>7, QuietStep
  <1> QED BY <1>1, <1>2 DEF Insert

LEMMA OpenSpend == ASSUME Inv, Inv', SpendInv, NEW w \in Workers, Open(w) PROVE SpendInv'
  <1> DEFINE s == Opened([Idle EXCEPT !.day = today], "judging")
  <1>1. w \in All /\ 0 \in Nat /\ 0 <= MaxCost /\ invoiced' = invoiced + 0
    BY NumbersHold DEF All, Numbers, Open, SettingsAssumption
  <1>2. s.pc = "judging" /\ s.row = quota /\ s.loaded = quota /\ s.cost = 0
    BY DEF Opened, Idle
  <1>3. Become(w, s) /\ UNCHANGED <<quota, observed>>
    BY DEF Open
  <1> HIDE DEF s
  <1>4. Owes(proc[w]) \in Nat
    BY <1>1, NumbersHold DEF Numbers, Owes
  <1>5. Owes(s) <= Owes(proc[w]) + 0
    BY <1>2, <1>4 DEF Owes, Owing
  <1>6. s.pc # "decide" /\ s.pc \notin Admitted
    BY <1>2 DEF Admitted
  <1> QED BY <1>1, <1>2, <1>3, <1>5, <1>6, QuietStep

LEMMA FlushSpend ==
  ASSUME Inv, Inv', SpendInv, NEW w \in Workers, NEW new \in Quota, NEW added \in Nat,
         Flush(w, new, added), UNCHANGED <<quota, invoiced, observed>>,
         proc[w].pc = "judging", new.monthly \in {0, proc[w].row.monthly}
  PROVE  SpendInv'
  <1> DEFINE s == [proc[w] EXCEPT !.row = new, !.written = @ \union Changed(proc[w].row, new),
                                  !.added = added, !.day = today]
  <1>1. w \in All /\ proc[w] \in Activity
    BY Known DEF All
  <1>2. /\ s.pc = "judging" /\ s.cost = proc[w].cost /\ s.loaded = proc[w].loaded /\ s.row = new
    BY <1>1 DEF Activity
  <1>3. Become(w, s)
    BY DEF Flush
  <1> HIDE DEF s
  <1>4. proc[w].cost \in Nat /\ proc[w].cost <= MaxCost /\ invoiced' = invoiced + 0 /\ 0 \in Nat
    BY <1>1, NumbersHold DEF Numbers, SpendInv, CostBounded
  <1>5. Owes(s) <= Owes(proc[w]) + 0 /\ s.pc # "decide" /\ s.pc \notin Admitted
    BY <1>2, <1>4 DEF Owes, Owing, Admitted
  <1> QED BY <1>1, <1>2, <1>3, <1>4, <1>5, QuietStep

LEMMA EvaluateSpend == ASSUME Inv, Inv', SpendInv, NEW w \in Workers, Evaluate(w) PROVE SpendInv'
  <1> DEFINE row == proc[w].row
             renewed == Renewed(row, proc[w].day)
             kept == IF renewed.day = row.day THEN proc[w].added ELSE 0
             paid == [renewed EXCEPT !.daily = @ + 1]
  <1>1. w \in All
    BY DEF All
  <1>2. proc[w] \in Activity /\ proc[w].pc = "judging" /\ row # NoQuota /\ proc[w].day \in Nat
    BY <1>1, Known DEF Evaluate
  <1>3. row \in Quota /\ proc[w].added \in Nat
    BY <1>2 DEF Activity
  <1>4. renewed \in Quota /\ renewed.monthly \in {0, row.monthly}
    BY <1>2, <1>3, Renewal
  <1>5. /\ Flush(w, renewed, kept) \/ Flush(w, paid, kept + 1)
        /\ UNCHANGED <<quota, invoiced, observed>>
    BY DEF Evaluate
  <1>6. kept \in Nat /\ kept + 1 \in Nat
    BY <1>3
  <1>7. paid \in Quota /\ paid.monthly = renewed.monthly
    <2> HIDE DEF renewed
    <2> QED BY <1>4 DEF Quota
  <1> HIDE DEF renewed, kept, paid
  <1> QED BY <1>2, <1>4, <1>5, <1>6, <1>7, FlushSpend

\* A renewed row is of the day's month, or of a later one.
LEMMA RenewedMonth ==
  ASSUME NEW row \in Quota, NEW day \in Nat
  PROVE  /\ MonthOf(day) \in Nat /\ Renewed(row, day).month \in Nat
         /\ Renewed(row, day).month >= MonthOf(day)
  <1> DEFINE half == ResetDaily(row, day)
             new == Renewed(row, day)
  <1>1. half \in Quota /\ MonthOf(day) \in Nat
    BY DailyReset, Months
  <1>2. new = ResetMonthly(half, day)
    BY DEF Renewed
  <1> HIDE DEF half, new
  <1>3. half.month \in Nat
    BY <1>1 DEF Quota
  <1> SUFFICES new.month \in Nat /\ new.month >= MonthOf(day)
    BY <1>1 DEF new
  <1>4. CASE half.month >= MonthOf(day)
    BY <1>1, <1>2, <1>3, <1>4 DEF ResetMonthly
  <1>5. CASE ~(half.month >= MonthOf(day))
    <2>1. new = [half EXCEPT !.monthly = 0, !.month = MonthOf(day)]
      BY <1>2, <1>5 DEF ResetMonthly
    <2>2. new.month = MonthOf(day)
      BY <1>1, <2>1 DEF Quota
    <2> QED BY <1>1, <2>2
  <1> QED BY <1>4, <1>5

\* Both commits of the handler.
LEMMA ApiCommitSpend ==
  ASSUME Inv, Inv', SpendInv, NEW p \in Processes, proc[p].pc \in {"checking", "spending"},
         proc[p].row # NoQuota, NEW added \in Nat, NEW s, Become(p, s), s.cost <= MaxCost,
         s.row = NoQuota, s.loaded = NoQuota, s.pc \notin Admitted,
         added <= Owes(proc[p]), added = 0 \/ proc[p].pc \in Admitted,
         s.pc = "decide" => s.day = proc[p].day,
         NEW new \in Quota,
         new.month = Renewed(proc[p].row, proc[p].day).month,
         new.monthly = Renewed(proc[p].row, proc[p].day).monthly + added,
         CommitRow(p, new, proc[p].written \union Changed(proc[p].row, new), added, 0),
         invoiced' = invoiced
  PROVE  SpendInv'
  <1> DEFINE row == proc[p].row
             loaded == proc[p].loaded
             columns == proc[p].written \union Changed(row, new)
             renewed == Renewed(row, proc[p].day)
  <1>1. /\ p \in All /\ row \in Quota /\ proc[p].day \in Nat
        /\ proc[p].written \in SUBSET Columns
        /\ \A c \in Columns \ proc[p].written : row[c] = loaded[c]
        /\ row.month = loaded.month \/ row.month > loaded.month
        /\ loaded.month \in Int
    BY ApiSession
  <1>2. /\ renewed \in Quota
        /\ \/ renewed.month = row.month /\ renewed.monthly = row.monthly
           \/ renewed.month > row.month /\ renewed.monthly = 0
        /\ MonthOf(proc[p].day) \in Nat /\ renewed.month >= MonthOf(proc[p].day)
    BY <1>1, Renewal, RenewedMonth
  <1>3. /\ row.month \in Nat /\ row.monthly \in Nat /\ renewed.month \in Nat
        /\ renewed.monthly \in Nat
    BY <1>1, <1>2 DEF Quota
  <1>4. columns \in SUBSET Columns
    BY <1>1 DEF Changed
  <1>5. \A c \in Columns \ columns : new[c] = loaded[c]
    BY <1>1, Unchanged
  <1>6. new.month = renewed.month /\ new.monthly = renewed.monthly + added
    OBVIOUS
  <1>7. CommitRow(p, new, columns, added, 0) /\ 0 \in Nat
    OBVIOUS
  <1> HIDE DEF columns, renewed, loaded, row
  <1>8. new.monthly <= row.monthly + added /\ new.month >= loaded.month
    BY <1>1, <1>2, <1>3, <1>6
  <1>9. s.pc = "decide" => MonthOf(s.day) \in Nat /\ MonthOf(s.day) <= new.month
    BY <1>2, <1>6
  <1> QED BY <1>1, <1>4, <1>5, <1>7, <1>8, <1>9, CommitStep DEF loaded, row

LEMMA CommitCheckSpend ==
  ASSUME Inv, Inv', SpendInv, NEW p \in Processes, CommitCheck(p) PROVE SpendInv'
  <1> DEFINE new == Renewed(proc[p].row, proc[p].day)
             s == At("decide", proc[p].day, 0)
  <1>1. /\ proc[p].pc \in {"checking", "spending"} /\ proc[p].row # NoQuota
        /\ CommitRow(p, new, proc[p].written \union Changed(proc[p].row, new), 0, 0)
        /\ Become(p, s) /\ invoiced' = invoiced
    BY DEF CommitCheck
  <1>2. proc[p].row \in Quota /\ proc[p].day \in Nat /\ p \in All
    BY <1>1, ApiSession
  <1>3. new \in Quota /\ new.monthly = new.monthly + 0
    <2>1. new \in Quota
      BY <1>2, Renewal
    <2> HIDE DEF new
    <2> QED BY <2>1 DEF Quota
  <1>4. "decide" \in Api /\ 0 \in Nat /\ 0 <= MaxCost
    BY DEF Api, SettingsAssumption
  <1>5. /\ s.pc = "decide" /\ s.row = NoQuota /\ s.loaded = NoQuota
        /\ s.cost = 0 /\ s.day = proc[p].day
    BY <1>2, <1>4, SetDown DEF At, Idle
  <1>6. 0 <= Owes(proc[p])
    BY <1>2, NumbersHold DEF Numbers, Owes
  <1> HIDE DEF s
  <1> QED BY <1>1, <1>3, <1>4, <1>5, <1>6, ApiCommitSpend DEF Admitted

LEMMA CommitSpendSpend ==
  ASSUME Inv, Inv', SpendInv, NEW p \in Processes, CommitSpend(p) PROVE SpendInv'
  <1> DEFINE renewed == Renewed(proc[p].row, proc[p].day)
             cost == proc[p].cost
             new == [renewed EXCEPT !.monthly = @ + cost]
  <1>1. /\ proc[p].pc = "spending" /\ proc[p].row # NoQuota
        /\ CommitRow(p, new, proc[p].written \union Changed(proc[p].row, new), cost, 0)
        /\ Become(p, Idle) /\ invoiced' = invoiced
    BY DEF CommitSpend
  <1>2. proc[p].row \in Quota /\ proc[p].day \in Nat /\ cost \in Nat /\ p \in All
    BY <1>1, ApiSession
  <1>3. /\ new \in Quota
        /\ new.month = renewed.month /\ new.monthly = renewed.monthly + cost
    <2>1. renewed \in Quota
      BY <1>2, Renewal
    <2> HIDE DEF renewed
    <2> QED BY <1>2, <2>1 DEF Quota
  <1>4. /\ Idle.pc = "idle" /\ Idle.row = NoQuota /\ Idle.loaded = NoQuota
        /\ Idle.cost = 0 /\ 0 <= MaxCost
    BY DEF Idle, SettingsAssumption
  <1>5. cost <= Owes(proc[p]) /\ proc[p].pc \in Admitted
    BY <1>1, <1>2 DEF Owes, Owing, Admitted
  <1> HIDE DEF new
  <1> QED BY <1>1, <1>2, <1>3, <1>4, <1>5, ApiCommitSpend DEF Admitted

LEMMA CommitEvaluationsSpend ==
  ASSUME Inv, Inv', SpendInv, NEW w \in Workers, CommitEvaluations(w) PROVE SpendInv'
  <1> DEFINE t == proc[w]
  <1>1. w \in All
    BY DEF All
  <1>2. Fits(w, t) /\ t.row # NoQuota
    BY <1>1, Known DEF CommitEvaluations
  <1>3. /\ t.row \in Quota /\ t.written \in SUBSET Columns /\ t.added \in Nat /\ SessionSound(t)
        /\ t.loaded \in Quota \union {NoQuota}
    BY <1>2 DEF Fits, Activity
  <1>4. t.row.monthly \in Nat /\ t.row.month \in Int /\ t.loaded.month \in Int
    BY <1>3, NoRow
  <1>5. /\ \A c \in Columns \ t.written : t.row[c] = t.loaded[c]
        /\ t.row.month >= t.loaded.month /\ t.row.monthly <= t.row.monthly + 0
    BY <1>3, <1>4 DEF SessionSound
  <1>6. /\ Idle.pc = "idle" /\ Idle.row = NoQuota /\ Idle.loaded = NoQuota
        /\ Idle.cost = 0 /\ 0 <= MaxCost /\ 0 \in Nat
    BY DEF Idle, SettingsAssumption
  <1>7. 0 <= Owes(proc[w])
    BY <1>1, NumbersHold DEF Numbers, Owes
  <1>8. CommitRow(w, t.row, t.written, 0, t.added) /\ Become(w, Idle) /\ invoiced' = invoiced
    BY DEF CommitEvaluations
  <1> QED BY <1>1, <1>3, <1>5, <1>6, <1>7, <1>8, CommitStep DEF Admitted

LEMMA NobodySpends ==
  ASSUME SpendInv, UNCHANGED <<quota, proc, invoiced, observed>> PROVE SpendInv'
  BY DEF SpendInv, CostBounded, Backed, Room, MonthsKept, Owed, Owes, Unadmitted, observed, All,
         MonthOf

LEMMA SpendNext == ASSUME Inv, SpendInv, [Next]_vars PROVE SpendInv'
  <1>1. Inv'
    BY NextInv
  <1>2. ASSUME NEW p \in Processes, Handle(p) PROVE SpendInv'
    <2>1. CASE Refuse(p)
      BY <1>1, <2>1, GoneSpend DEF Refuse, All
    <2> QED
      BY <1>1, <1>2, <2>1, BeginSpend, LoadSpend, CommitCheckSpend, DecideSpend, CallSpend,
         AuditSpend, CommitSpendSpend DEF Handle
  <1>3. ASSUME NEW w \in Workers, Work(w) PROVE SpendInv'
    BY <1>1, <1>3, OpenSpend, EvaluateSpend, CommitEvaluationsSpend DEF Work
  <1>4. ASSUME NEW p \in All, Insert(p) \/ Abandon(p) PROVE SpendInv'
    BY <1>1, <1>4, InsertSpend, GoneSpend DEF Abandon, Abandoned
  <1>5. CASE Midnight \/ UNCHANGED vars
    BY <1>5, NobodySpends DEF Midnight, vars, observed
  <1> QED BY <1>2, <1>3, <1>4, <1>5 DEF Next, All

LEMMA SpendInit == Init => SpendInv
  <1> SUFFICES ASSUME Init PROVE SpendInv
    OBVIOUS
  <1>1. \A p \in All : proc[p] = Idle
    BY DEF Init, All
  <1>2. /\ Idle.cost = 0 /\ Idle.pc = "idle" /\ Idle.row.monthly = 0 /\ Idle.loaded.month = -1
    BY DEF Idle, NoQuota
  <1>3. quota.monthly = 0 /\ quota.month = -1 /\ invoiced = 0 /\ charged = 0
    BY DEF Init, NoQuota
  <1>4. Owed = {}
    BY <1>1, <1>2 DEF Owed, Owes, Owing, All
  <1>5. Cardinality(Owed) = 0
    BY <1>4, FS_EmptySet
  <1>6. CostBounded
    BY <1>1, <1>2 DEF CostBounded, SettingsAssumption
  <1>7. Backed
    BY <1>1, <1>2, <1>3, <1>5 DEF Backed
  <1>8. Room
    <2> DEFINE n == Cardinality(Unadmitted)
    <2>1. n * MaxCost \in Nat /\ MonthlyBudget \in Nat
      BY UnadmittedFinite, OneMore DEF SettingsAssumption
    <2>2. \A p \in Processes : proc[p].pc \notin Admitted
      BY <1>1, <1>2 DEF All, Admitted
    <2> HIDE DEF n
    <2>3. MonthlyBudget > 0 => charged < MonthlyBudget + n * MaxCost
      BY <1>3, <2>1
    <2> QED BY <1>3, <2>2, <2>3 DEF Room, n
  <1>9. MonthsKept
    BY <1>1, <1>2, <1>3 DEF MonthsKept
  <1> QED BY <1>6, <1>7, <1>8, <1>9 DEF SpendInv

LEMMA SpendInvariance == Spec => [](Inv /\ SpendInv)
  <1>1. Inv /\ SpendInv /\ [Next]_vars => SpendInv'
    BY SpendNext
  <1> QED BY <1>1, SpendInit, Invariance, PTL DEF Spec

-----------------------------------------------------------------------------

\* However the sessions overlap, die or fail, no tenant is charged for more than
\* its invocations cost: for any number of processes and workers.
THEOREM SpendsBacked == Spec => []SpendBacked
  <1>1. Inv /\ SpendInv => SpendBacked
    <2> SUFFICES ASSUME Inv, SpendInv PROVE SpendBacked
      OBVIOUS
    <2>1. quota.monthly \in Nat /\ invoiced \in Nat /\ Cardinality(Owed) \in Nat
      BY NumbersHold, OwedFinite DEF Numbers
    <2>2. quota.monthly + Cardinality(Owed) <= invoiced
      BY DEF SpendInv, Backed
    <2> QED BY <2>1, <2>2 DEF SpendBacked
  <1> QED BY <1>1, SpendInvariance, PTL

\* As long as sessions do not overlap, a month's spend exceeds its budget by less
\* than one call of every process, however many processes and whatever calls cost.
THEOREM OverspendsBounded == Spec => []OverspendBounded
  <1>1. Inv /\ SpendInv => OverspendBounded
    <2> DEFINE n == Cardinality(Unadmitted)
               all == Cardinality(Processes)
    <2> SUFFICES ASSUME Inv, SpendInv, ~overlapped, charged > 0
                 PROVE  charged < MonthlyBudget + all * MaxCost
      BY DEF OverspendBounded
    <2>1. n \in Nat /\ all \in Nat /\ n <= all /\ MaxCost \in Nat /\ MonthlyBudget \in Nat
      BY UnadmittedFinite DEF SettingsAssumption
    <2>2. charged < MonthlyBudget + n * MaxCost /\ charged \in Nat
      BY NumbersHold DEF SpendInv, Room, Numbers
    <2> HIDE DEF n, all
    <2>3. n * MaxCost <= all * MaxCost /\ n * MaxCost \in Nat /\ all * MaxCost \in Nat
      BY <2>1, Products, OneMore
    <2> QED BY <2>1, <2>2, <2>3
  <1> QED BY <1>1, SpendInvariance, PTL

\* Only the budget check refuses.
LEMMA WhoRefuses ==
  ASSUME Inv, [Next]_vars, NEW p \in Processes, proc[p].pc = "decide", proc'[p].pc = "refuse"
  PROVE  Decide(p)
  <1>1. proc \in [All -> Activity] /\ p \in All /\ p \notin Workers
    BY DEF Inv, Sound, All
  <1>2. ASSUME NEW q \in All, NEW s, Become(q, s) PROVE q = p /\ s.pc = "refuse"
    BY <1>1, <1>2 DEF Become
  <1>3. ASSUME NEW q \in Processes, Handle(q) PROVE Decide(p)
    <2>1. q \in All /\ \E s : Become(q, s)
      BY <1>3 DEF All, Handle, Begin, Load, CommitCheck, Decide, Refuse, Call, Audit, CommitSpend
    <2>2. q = p
      BY <1>2, <2>1
    <2> QED BY <1>3, <2>2
         DEF Handle, Begin, Load, CommitCheck, Refuse, Call, Audit, CommitSpend
  <1>4. ASSUME NEW w \in Workers, Work(w) PROVE FALSE
    <2>1. w \in All /\ \E s : Become(w, s)
      BY <1>4 DEF All, Work, Open, Evaluate, Flush, CommitEvaluations
    <2> QED BY <1>1, <1>2, <2>1
  <1>5. ASSUME NEW q \in All, Insert(q) \/ Abandon(q) PROVE FALSE
    <2>1. \E s : Become(q, s)
      BY <1>5 DEF Insert, Abandon
    <2>2. q = p
      BY <1>2, <2>1
    <2>3. Abandon(p)
      BY <1>5, <2>2 DEF Insert, InSession
    <2>4. Become(p, Idle)
      BY <2>3 DEF Abandon, Abandoned
    <2> QED BY <1>1, <1>2, <2>4, FirstRows
  <1>6. ~Midnight /\ ~UNCHANGED vars
    BY DEF Midnight, vars
  <1> QED BY <1>3, <1>4, <1>5, <1>6 DEF Next, All

\* Under the same condition a request is refused for its budget only when the
\* month it came in, or a later one, has spent it.
THEOREM RefusalsRight == Spec => RefusedOnlyWhenSpent
  <1>1. ASSUME Inv, SpendInv, [Next]_vars, NEW p \in Processes,
               proc[p].pc = "decide", proc'[p].pc = "refuse", ~overlapped
        PROVE  charged >= MonthlyBudget /\ quota.month >= MonthOf(proc[p].day)
    <2>1. Decide(p) /\ p \in All
      BY <1>1, WhoRefuses DEF All
    <2>2. proc'[p] = At(IF OverBudget(quota) THEN "refuse" ELSE "call", 0, 0)
      BY <1>1, <2>1 DEF Decide, Become, Inv, Sound
    <2>3. OverBudget(quota)
      BY <1>1, <2>2 DEF At, Idle
    <2>4. quota.monthly = charged
      BY <1>1 DEF Inv, SpendExact
    <2>5. MonthOf(proc[p].day) <= quota.month
      BY <1>1, <2>1 DEF SpendInv, MonthsKept
    <2>6. MonthOf(proc[p].day) \in Nat /\ quota.month \in Int
      BY <1>1, <2>1, NumbersHold DEF Numbers
    <2> QED BY <2>3, <2>4, <2>5, <2>6 DEF OverBudget
  <1>2. Inv /\ SpendInv /\ [Next]_vars =>
          [\A p \in Processes :
             proc[p].pc = "decide" /\ proc'[p].pc = "refuse" /\ ~overlapped
               => charged >= MonthlyBudget /\ quota.month >= MonthOf(proc[p].day)]_vars
    BY <1>1
  <1> QED BY <1>2, SpendInvariance, PTL DEF Spec, RefusedOnlyWhenSpent
=============================================================================
