--------------------------- MODULE BootstrapProofs ---------------------------
(***************************************************************************)
(* Proofs about Bootstrap, for any number of processes, tables, columns    *)
(* and providers, and whatever an earlier release left in the database.    *)
(*                                                                         *)
(* Tables, columns and rows are never taken away.  So what a process saw   *)
(* is there stays there, and the place a process has reached tells what    *)
(* the database holds at least (Known): a step of its own adds what it saw *)
(* missing, a step of another process can only make it fail.               *)
(***************************************************************************)
EXTENDS Bootstrap, TLAPS

USE DEF schema

-----------------------------------------------------------------------------
(* Types. *)

LEMMA Rows ==
  /\ NoRow \notin Row /\ DefaultRow \in Row /\ DefaultRow # NoRow
  /\ NoRows \in Configs /\ [x \in Providers |-> DefaultRow] \in Configs
  BY DEF NoRow, Row, DefaultRow, NoRows, Configs

LEMMA EnterType ==
  ASSUME NEW caller \in Callers, NEW pc \in Steps,
         NEW missing \in SUBSET (Tables \union AllColumns), NEW loaded \in Configs
  PROVE  /\ Enter(caller, pc, missing, loaded) \in Activity
         /\ Enter(caller, pc, missing, loaded).pc = pc
         /\ Enter(caller, pc, missing, loaded).caller = caller
         /\ Enter(caller, pc, missing, loaded).missing = missing
         /\ Enter(caller, pc, missing, loaded).loaded = loaded
  BY DEF Enter, Activity

LEMMA ActivityType ==
  ASSUME NEW s \in Activity \union {Down, Idle}, s.pc \in Steps
  PROVE  /\ s \in Activity
         /\ s.caller \in Callers /\ s.loaded \in Configs
         /\ s.missing \in SUBSET (Tables \union AllColumns)
  BY DEF Activity, Down, Idle, Steps

LEMMA RenamedType ==
  ASSUME NEW row \in Row \union {NoRow}
  PROVE  Renamed(row) \in Row /\ Renamed(row).model = "current"
  <1>1. row.enabled \in BOOLEAN
    <2>1. CASE row \in Row
      BY <2>1 DEF Row
    <2>2. CASE row = NoRow
      BY <2>2, Zenon DEF NoRow
    <2> QED BY <2>1, <2>2
  <1> QED BY <1>1 DEF Renamed, Row

\* What a commit of the seeding leaves is well formed.
LEMMA SeededType ==
  ASSUME NEW loaded \in Configs, configs \in Configs
  PROVE  Seeded(loaded) \in Configs
  <1>1. ASSUME NEW x \in Providers PROVE Seeded(loaded)[x] \in Row \union {NoRow}
    <2>1. CASE loaded[x] = NoRow
      BY <2>1, Rows DEF Seeded
    <2>2. CASE loaded[x] # NoRow
      <3>1. configs[x] \in Row \union {NoRow}
        BY DEF Configs
      <3>2. Renamed(configs[x]) \in Row
        BY <3>1, RenamedType
      <3> QED BY <2>2, <3>1, <3>2 DEF Seeded
    <2> QED BY <2>1, <2>2
  <1> QED BY <1>1 DEF Seeded, Configs

LEMMA ProviderConfigsType ==
  ASSUME configs \in Configs
  PROVE  ProviderConfigs \in Configs
  <1>1. [x \in Providers |-> IF Enabled(x) THEN configs[x] ELSE NoRow] \in Configs
    BY DEF Configs
  <1> QED BY <1>1, Rows DEF ProviderConfigs

\* A process looks for tables, then for columns.
Sees(s) ==
  /\ s.pc = "create" => s.missing \subseteq Tables
  /\ s.pc = "alter" => s.missing \subseteq AllColumns

\* The part of TypeOK that is inductive with it.
Shape ==
  /\ tables \subseteq Tables /\ columns \subseteq AllColumns
  /\ filled \in BOOLEAN /\ indexed \in BOOLEAN
  /\ configs \in Configs
  /\ process \in [Processes -> Activity \union {Down, Idle}]
  /\ ready \in [Processes -> SUBSET Callers]
  /\ router \in [Processes -> Configs]
  /\ edits \in Nat /\ faults \in Nat
  /\ \A p \in Processes : Sees(process[p])

LEMMA InitShape == Init => Shape
  <1> SUFFICES ASSUME Init PROVE Shape
    OBVIOUS
  <1>1. PICK old \in OldSchemas :
          /\ tables = old.tables /\ columns = old.columns
          /\ filled = (ChunkTable \notin old.tables) /\ configs = old.configs
    BY DEF Init
  <1>2. /\ tables \subseteq Tables /\ columns \subseteq AllColumns
        /\ configs \in Configs /\ filled \in BOOLEAN
    BY <1>1, OldSchemasAssumption DEF AllColumns
  <1>3. Sees(Down)
    BY DEF Sees, Down
  <1>4. process \in [Processes -> Activity \union {Down, Idle}] /\ \A p \in Processes : process[p] = Down
    BY DEF Init
  <1> QED BY <1>2, <1>3, <1>4, Rows DEF Init, Shape, NoRouter

\* What a process does next replaces its own entry.
LEMMA BecomeShape ==
  ASSUME Shape, NEW p \in Processes, NEW s \in Activity \union {Down, Idle}, Become(p, s)
  PROVE  /\ process' \in [Processes -> Activity \union {Down, Idle}]
         /\ process'[p] = s
         /\ Sees(s) => \A q \in Processes : Sees(process'[q])
         /\ \A q \in Processes \ {p} : process'[q] = process[q]
  <1>1. process' = [process EXCEPT ![p] = s] /\ process \in [Processes -> Activity \union {Down, Idle}]
    BY DEF Become, Shape
  <1>2. \A q \in Processes : Sees(process[q])
    BY DEF Shape
  <1>3. \A q \in Processes : process'[q] = IF q = p THEN s ELSE process[q]
    BY <1>1
  <1>4. process' \in [Processes -> Activity \union {Down, Idle}]
    BY <1>1
  <1> HIDE DEF Sees
  <1> QED BY <1>2, <1>3, <1>4

LEMMA FaultShape == Shape /\ Fault => faults' \in Nat
  BY DEF Shape, Fault

LEMMA StepsOf == {"look", "create", "inspect", "alter", "fill", "index", "load", "seed"} = Steps
  BY DEF Steps

LEMMA ShapeStep == Shape /\ [Next]_vars => Shape'
  <1> SUFFICES ASSUME Shape, [Next]_vars PROVE Shape'
    OBVIOUS
  <1>1. CASE UNCHANGED vars
    BY <1>1 DEF vars, Shape
  <1>2. ASSUME NEW p \in Processes, NEW caller \in Callers, Become(p, Bootstrap(caller)),
               UNCHANGED <<schema, configs, ready, router, edits, faults>>
        PROVE Shape'
    <2>1. Bootstrap(caller) \in Activity /\ Sees(Bootstrap(caller))
      BY EnterType, Rows DEF Bootstrap, Steps, Sees
    <2>2. /\ process' \in [Processes -> Activity \union {Down, Idle}]
          /\ \A q \in Processes : Sees(process'[q])
      BY <1>2, <2>1, BecomeShape
    <2> QED BY <1>2, <2>2 DEF Shape
  <1>3. ASSUME NEW p \in Processes, NEW s \in {Down, Idle}, Become(p, s)
        PROVE  /\ process' \in [Processes -> Activity \union {Down, Idle}]
               /\ \A q \in Processes : Sees(process'[q])
    <2>1. Sees(s)
      BY DEF Sees, Down, Idle
    <2> QED BY <1>3, <2>1, BecomeShape
  <1>4. ASSUME NEW p \in Processes, Start(p) PROVE Shape'
    <2>1. CASE OnStartup
      BY <1>2, <1>4, <2>1 DEF Start, Callers
    <2>2. CASE ~OnStartup
      BY <1>3, <1>4, <2>2 DEF Start, Shape
    <2> QED BY <2>1, <2>2
  <1>5. ASSUME NEW p \in Processes, NEW service \in Services, Ask(p, service) PROVE Shape'
    BY <1>2, <1>5 DEF Ask, Callers
  <1>6. ASSUME NEW p \in Processes, Advance(p) PROVE Shape'
    <2> DEFINE s == process[p]
    <2>0. s \in Activity \union {Down, Idle} /\ s.pc \in Steps /\ Sees(s)
      BY <1>6, StepsOf DEF Shape, Advance, Look, Create, Inspect, Alter, Fill, Index, Load, Seed, Doing
    <2>1. /\ s.caller \in Callers /\ s.loaded \in Configs
          /\ s.missing \in SUBSET (Tables \union AllColumns)
      BY <2>0, ActivityType
    <2>2. ASSUME NEW pc \in Steps, NEW missing \in SUBSET (Tables \union AllColumns),
                 NEW loaded \in Configs, Become(p, Enter(s.caller, pc, missing, loaded)),
                 pc = "create" => missing \subseteq Tables,
                 pc = "alter" => missing \subseteq AllColumns
          PROVE  /\ process' \in [Processes -> Activity \union {Down, Idle}]
                 /\ \A q \in Processes : Sees(process'[q])
      <3>1. Enter(s.caller, pc, missing, loaded) \in Activity /\ Sees(Enter(s.caller, pc, missing, loaded))
        BY <2>1, <2>2, EnterType DEF Sees
      <3> QED BY <2>2, <3>1, BecomeShape
    <2>3. /\ process' \in [Processes -> Activity \union {Down, Idle}]
          /\ \A q \in Processes : Sees(process'[q])
      <3>1. CASE Look(p)
        BY <3>1, <2>2, Rows DEF Look, Steps
      <3>2. CASE Inspect(p)
        BY <3>2, <2>2, Rows DEF Inspect, Lacking, Steps
      <3>3. CASE Load(p)
        BY <3>3, <2>2 DEF Load, Steps, Shape
      <3>4. CASE \E pc \in Steps \ {"create", "alter"} : Continue(p, pc)
        BY <3>4, <2>2, Rows DEF Continue
      <3>5. CASE GiveUp(p)
        BY <3>5, <1>3 DEF GiveUp
      <3>6. Create(p) \/ Alter(p) \/ Fill(p) \/ Index(p) \/ Seed(p)
              => GiveUp(p) \/ \E pc \in Steps \ {"create", "alter"} : Continue(p, pc)
        BY DEF Create, Alter, Fill, Index, Seed, Steps
      <3> QED BY <1>6, <3>1, <3>2, <3>3, <3>4, <3>5, <3>6 DEF Advance
    <2>4. tables' \subseteq Tables /\ columns' \subseteq AllColumns
      <3>1. CASE Create(p)
        BY <3>1, <2>0 DEF Create, Doing, Sees, Shape, AllColumns
      <3>2. CASE Alter(p)
        BY <3>2, <2>0 DEF Alter, Doing, Sees, Shape
      <3>3. CASE ~Create(p) /\ ~Alter(p)
        BY <1>6, <3>3 DEF Advance, Look, Inspect, Fill, Index, Load, Seed, Shape
      <3> QED BY <3>1, <3>2, <3>3
    <2>5. configs' \in Configs /\ ready' \in [Processes -> SUBSET Callers]
      <3>1. CASE Seed(p)
        BY <3>1, <2>1, SeededType DEF Seed, Shape
      <3>2. CASE ~Seed(p)
        BY <1>6, <3>2 DEF Advance, Look, Create, Inspect, Alter, Fill, Index, Load, Shape
      <3> QED BY <3>1, <3>2
    <2>6. filled' \in BOOLEAN /\ indexed' \in BOOLEAN
          /\ UNCHANGED <<router, edits, faults>>
      BY <1>6 DEF Advance, Look, Create, Inspect, Alter, Fill, Index, Load, Seed, Shape
    <2> QED BY <2>3, <2>4, <2>5, <2>6 DEF Shape
  <1>7. ASSUME NEW p \in Processes, BuildRouter(p) PROVE Shape'
    BY <1>7, ProviderConfigsType, Rows, FaultShape DEF BuildRouter, Shape
  <1>8. ASSUME NEW p \in Processes, DatabaseError(p) PROVE Shape'
    BY <1>3, <1>8, FaultShape DEF DatabaseError, GiveUp, Shape
  <1>9. ASSUME NEW p \in Processes, Crash(p) PROVE Shape'
    BY <1>3, <1>9, FaultShape, Rows DEF Crash, NoRouter, Shape
  <1>10. CASE Migrate
    BY <1>10 DEF Migrate, Shape, AllColumns
  <1>11. ASSUME NEW x \in Providers, NEW enabled \in BOOLEAN, Edit(x, enabled) PROVE Shape'
    <2>1. [model |-> "custom", enabled |-> enabled] \in Row
      BY DEF Row
    <2> QED BY <1>11, <2>1 DEF Edit, Shape, Configs
  <1> QED BY <1>1, <1>4, <1>5, <1>6, <1>7, <1>8, <1>9, <1>10, <1>11 DEF Next

-----------------------------------------------------------------------------
(* What the database holds at least. *)

AfterCreate == {"inspect", "alter", "fill", "index", "load", "seed"}
AfterAlter == {"fill", "index", "load", "seed"}

\* ... when a process is at s ...
Known(s) ==
  /\ s.pc = "create" => Tables \ s.missing \subseteq tables
  /\ s.pc \in AfterCreate => tables = Tables
  /\ s.pc = "alter" => AllColumns \ s.missing \subseteq columns
  /\ s.pc \in AfterAlter => columns = AllColumns
  /\ s.pc \in {"index", "load", "seed"} => filled
  /\ s.pc \in {"load", "seed"} => indexed

\* ... and when one has completed the bootstraps of done.
Complete(done) ==
  done # {} =>
    /\ tables = Tables /\ columns = AllColumns
    /\ filled /\ indexed

\* No column and no row is there without its table.
Whole ==
  /\ \A c \in columns : Owner(c) \in tables
  /\ configs # NoRows => ConfigTable \in tables

IInv == Shape /\ Whole /\ \A p \in Processes : Known(process[p]) /\ Complete(ready[p])

LEMMA OwnerType == ASSUME NEW c \in AllColumns PROVE Owner(c) \in Tables
  BY SchemaAssumption DEF Owner, AllColumns

\* Tables, columns and what was computed from them are there to stay.
LEMMA SchemaGrows ==
  ASSUME IInv, [Next]_vars
  PROVE  /\ tables \subseteq tables' /\ columns \subseteq columns'
         /\ (filled => filled') /\ (indexed => indexed')
  <1>1. CASE Migrate
    <2>1. columns = {}
      BY <1>1 DEF Migrate, IInv, Whole
    <2> QED BY <1>1, <2>1 DEF Migrate
  <1>2. CASE UNCHANGED schema
    BY <1>2
  <1>3. ASSUME NEW p \in Processes, Advance(p)
        PROVE  /\ tables \subseteq tables' /\ columns \subseteq columns'
               /\ (filled => filled') /\ (indexed => indexed')
    BY <1>3 DEF Advance, Look, Create, Inspect, Alter, Fill, Index, Load, Seed
  <1>4. Migrate \/ UNCHANGED schema \/ \E p \in Processes : Advance(p)
    BY DEF Next, Start, Ask, BuildRouter, DatabaseError, Crash, Edit, vars
  <1> QED BY <1>1, <1>2, <1>3, <1>4

\* So what a process relies on stays true as long as it does nothing itself.
LEMMA KnownStays ==
  ASSUME IInv, Shape', [Next]_vars, NEW s, Known(s)
  PROVE  Known(s)'
  <1>1. /\ tables \subseteq tables' /\ columns \subseteq columns'
        /\ (filled => filled') /\ (indexed => indexed')
    BY SchemaGrows
  <1>2. tables' \subseteq Tables /\ columns' \subseteq AllColumns
    BY DEF Shape
  <1>3. /\ s.pc = "create" => Tables \ s.missing \subseteq tables'
        /\ s.pc \in AfterCreate => tables' = Tables
        /\ s.pc = "alter" => AllColumns \ s.missing \subseteq columns'
        /\ s.pc \in AfterAlter => columns' = AllColumns
    <2>1. /\ s.pc = "create" => Tables \ s.missing \subseteq tables
          /\ s.pc \in AfterCreate => tables = Tables
          /\ s.pc = "alter" => AllColumns \ s.missing \subseteq columns
          /\ s.pc \in AfterAlter => columns = AllColumns
      BY Zenon DEF Known
    <2> QED BY <1>1, <1>2, <2>1
  <1>4. /\ s.pc \in {"index", "load", "seed"} => filled'
        /\ s.pc \in {"load", "seed"} => indexed'
    BY <1>1, Zenon DEF Known
  <1> QED BY <1>3, <1>4, Zenon DEF Known

LEMMA CompleteStays ==
  ASSUME IInv, Shape', [Next]_vars, NEW done, Complete(done)
  PROVE  Complete(done)'
  <1>1. /\ tables \subseteq tables' /\ columns \subseteq columns'
        /\ (filled => filled') /\ (indexed => indexed')
    BY SchemaGrows
  <1>2. tables' \subseteq Tables /\ columns' \subseteq AllColumns
    BY DEF Shape
  <1>3. done # {} => tables = Tables /\ columns = AllColumns
    BY Zenon DEF Complete
  <1>4. done # {} => tables' = Tables /\ columns' = AllColumns
    BY <1>1, <1>2, <1>3
  <1>5. done # {} => filled' /\ indexed'
    BY <1>1, Zenon DEF Complete
  <1> QED BY <1>4, <1>5, Zenon DEF Complete

\* Nobody relies on anything at the places that are not listed.
LEMMA NothingKnown ==
  ASSUME NEW s, s.pc \in {"down", "idle", "look"}
  PROVE  Known(s)'
  BY DEF Known, AfterCreate, AfterAlter

\* So the step of process p has to establish what p itself relies on next.
LEMMA OwnStep ==
  ASSUME IInv, Shape', [Next]_vars, NEW p \in Processes, NEW s, NEW done,
         Become(p, s), Known(s)',
         \A q \in Processes \ {p} : ready'[q] = ready[q],
         ready'[p] = done, Complete(done)'
  PROVE  \A q \in Processes : (Known(process[q]) /\ Complete(ready[q]))'
  <1>1. process'[p] = s /\ \A q \in Processes \ {p} : process'[q] = process[q]
    BY DEF Become, IInv, Shape
  <1>2. (Known(process[p]) /\ Complete(ready[p]))'
    BY <1>1, Zenon DEF Known, Complete
  <1>3. ASSUME NEW q \in Processes \ {p}
        PROVE  (Known(process[q]) /\ Complete(ready[q]))'
    <2>1. PICK t : t = process[q]
      OBVIOUS
    <2>2. PICK d : d = ready[q]
      OBVIOUS
    <2>3. Known(t) /\ Complete(d)
      BY <2>1, <2>2 DEF IInv
    <2>4. Known(t)' /\ Complete(d)'
      BY <2>3, KnownStays, CompleteStays
    <2>5. process'[q] = t /\ ready'[q] = d
      BY <1>1, <2>1, <2>2
    <2> QED BY <2>4, <2>5, Zenon DEF Known, Complete
  <1> QED BY <1>2, <1>3

\* A step of p that leaves its own completed bootstraps alone.
LEMMA OwnStepDone ==
  ASSUME IInv, Shape', [Next]_vars, NEW p \in Processes, NEW s,
         Become(p, s), Known(s)', UNCHANGED ready
  PROVE  \A q \in Processes : (Known(process[q]) /\ Complete(ready[q]))'
  <1>1. PICK done : done = ready[p]
    OBVIOUS
  <1>2. Complete(done)
    BY <1>1 DEF IInv
  <1>3. Complete(done)'
    BY <1>2, CompleteStays
  <1> QED BY <1>1, <1>3, OwnStep

\* What p relied on before its step, with names for what it saw.
LEMMA Relied ==
  ASSUME IInv, NEW p \in Processes
  PROVE  Known(process[p]) /\ process[p] \in Activity \union {Down, Idle} /\ Sees(process[p])
  BY DEF IInv, Shape

LEMMA AdvanceKnown ==
  ASSUME IInv, Shape', [Next]_vars, NEW p \in Processes, Advance(p)
  PROVE  \A q \in Processes : (Known(process[q]) /\ Complete(ready[q]))'
  <1> DEFINE Goal == \A q \in Processes : (Known(process[q]) /\ Complete(ready[q]))'
  <1> SUFFICES Goal
    OBVIOUS
  <1> HIDE DEF Goal
  <1>1. PICK s : s = process[p]
    OBVIOUS
  <1>2. Known(s) /\ Sees(s) /\ s \in Activity \union {Down, Idle}
    BY <1>1, Relied
  <1>3. ASSUME GiveUp(p), UNCHANGED ready PROVE Goal
    <2>1. Known(Idle)'
      BY NothingKnown DEF Idle
    <2> QED BY <1>3, <2>1, OwnStepDone DEF GiveUp, Goal
  <1>4. ASSUME NEW pc \in Steps, NEW missing, NEW loaded,
               Become(p, Enter(s.caller, pc, missing, loaded)), UNCHANGED ready,
               Known(Enter(s.caller, pc, missing, loaded))'
        PROVE  Goal
    BY <1>4, OwnStepDone DEF Goal
  <1>5. ASSUME NEW pc \in AfterCreate \ {"alter"}, Continue(p, pc), UNCHANGED ready,
               tables' = Tables,
               pc \in AfterAlter => columns' = AllColumns,
               pc \in {"index", "load", "seed"} => filled',
               pc \in {"load", "seed"} => indexed'
        PROVE  Goal
    <2>1. Enter(s.caller, pc, {}, NoRows).pc = pc
      BY DEF Enter
    <2>2. Known(Enter(s.caller, pc, {}, NoRows))'
      BY <1>5, <2>1, Zenon DEF Known
    <2>3. pc \in Steps /\ Become(p, Enter(s.caller, pc, {}, NoRows))
      BY <1>1, <1>5 DEF Continue, Steps, AfterCreate
    <2> QED BY <1>4, <1>5, <2>2, <2>3
  <1>6. CASE Look(p)
    <2>1. PICK m : m = Tables \ tables
      OBVIOUS
    <2>2. tables' = tables /\ UNCHANGED ready /\ Become(p, Enter(s.caller, "create", m, NoRows))
      BY <1>1, <1>6, <2>1 DEF Look
    <2>3. Known(Enter(s.caller, "create", m, NoRows))'
      BY <1>2, <2>1, <2>2 DEF Enter, Known, AfterCreate, AfterAlter, IInv, Shape
    <2> QED BY <1>4, <2>2, <2>3 DEF Steps
  <1>7. CASE Create(p)
    <2>1. CASE GiveUp(p)
      BY <1>3, <1>7, <2>1 DEF Create
    <2>2. CASE ~GiveUp(p)
      <3>1. s.pc = "create" /\ tables' = tables \union s.missing /\ Continue(p, "inspect")
        BY <1>1, <1>7, <2>2 DEF Create, Doing
      <3>2. tables' = Tables
        BY <1>2, <3>1 DEF Known, Sees, IInv, Shape
      <3> QED BY <1>5, <1>7, <3>1, <3>2 DEF Create, AfterCreate, AfterAlter
    <2> QED BY <2>1, <2>2
  <1>8. CASE Inspect(p)
    <2>1. tables = Tables /\ s.pc = "inspect"
      BY <1>1, <1>2, <1>8 DEF Inspect, Doing, Known, AfterCreate
    <2>2. Lacking = AllColumns \ columns
      BY <2>1, OwnerType DEF Lacking
    <2>3. PICK m : m = AllColumns \ columns
      OBVIOUS
    <2>4. /\ tables' = Tables /\ columns' = columns /\ UNCHANGED ready
          /\ Become(p, Enter(s.caller, "alter", m, NoRows))
      BY <1>1, <1>8, <2>1, <2>2, <2>3 DEF Inspect
    <2>5. Known(Enter(s.caller, "alter", m, NoRows))'
      BY <2>3, <2>4 DEF Enter, Known, AfterAlter
    <2> QED BY <1>4, <2>4, <2>5 DEF Steps
  <1>9. CASE Alter(p)
    <2>1. CASE GiveUp(p)
      BY <1>3, <1>9, <2>1 DEF Alter
    <2>2. CASE ~GiveUp(p)
      <3>1. s.pc = "alter" /\ columns' = columns \union s.missing /\ Continue(p, "fill")
        BY <1>1, <1>9, <2>2 DEF Alter, Doing
      <3>2. columns' = AllColumns /\ tables' = Tables
        BY <1>2, <1>9, <3>1 DEF Alter, Known, Sees, IInv, Shape, AfterCreate
      <3> QED BY <1>5, <1>9, <3>1, <3>2 DEF Alter, AfterCreate, AfterAlter
    <2> QED BY <2>1, <2>2
  <1>10. CASE Fill(p)
    <2>1. s.pc = "fill"
      BY <1>1, <1>10 DEF Fill, Doing
    <2>2. tables' = Tables /\ columns' = AllColumns /\ filled'
      BY <1>2, <1>10, <2>1 DEF Fill, Known, AfterCreate, AfterAlter
    <2> QED BY <1>5, <1>10, <2>2 DEF Fill, AfterCreate, AfterAlter
  <1>11. CASE Index(p)
    <2>1. s.pc = "index"
      BY <1>1, <1>11 DEF Index, Doing
    <2>2. tables' = Tables /\ columns' = AllColumns
      BY <1>2, <1>11, <2>1 DEF Index, Known, AfterCreate, AfterAlter
    <2>3. filled' /\ indexed'
      BY <1>2, <1>11, <2>1 DEF Index, Known
    <2> QED BY <1>5, <1>11, <2>2, <2>3 DEF Index, AfterCreate, AfterAlter
  <1>12. ASSUME s.pc \in {"load", "seed"}
         PROVE  tables = Tables /\ columns = AllColumns /\ filled /\ indexed
    BY <1>2, <1>12 DEF Known, AfterCreate, AfterAlter
  <1>13. CASE Load(p)
    <2>1. PICK l : l = configs
      OBVIOUS
    <2>2. Become(p, Enter(s.caller, "seed", {}, l)) /\ UNCHANGED <<schema, ready>>
      BY <1>1, <1>13, <2>1 DEF Load
    <2>3. tables = Tables /\ columns = AllColumns /\ filled /\ indexed
      BY <1>1, <1>12, <1>13 DEF Load, Doing
    <2>4. tables' = Tables /\ columns' = AllColumns /\ filled' /\ indexed'
      BY <2>2, <2>3
    <2>5. Enter(s.caller, "seed", {}, l).pc = "seed"
      BY DEF Enter
    <2>6. Known(Enter(s.caller, "seed", {}, l))'
      BY <2>4, <2>5, Zenon DEF Known
    <2> QED BY <1>4, <2>2, <2>6 DEF Steps
  <1>14. CASE Seed(p)
    <2>1. CASE UNCHANGED ready
      BY <1>3, <1>14, <2>1 DEF Seed
    <2>2. CASE ~UNCHANGED ready
      <3>1. tables = Tables /\ columns = AllColumns /\ filled /\ indexed
        BY <1>1, <1>12, <1>14 DEF Seed, Doing
      <3>2. PICK done : done = ready[p] \union {s.caller}
        OBVIOUS
      <3>3. /\ \A q \in Processes \ {p} : ready'[q] = ready[q]
            /\ ready'[p] = done
        BY <1>1, <1>14, <2>2, <3>2 DEF Seed, IInv, Shape
      <3>4. Complete(done)
        BY <3>1, Zenon DEF Complete
      <3>5. Complete(done)'
        BY <3>4, CompleteStays
      <3>6. Known(Idle)' /\ Become(p, Idle)
        BY <1>14, NothingKnown DEF Idle, Seed, GiveUp
      <3> QED BY <3>3, <3>5, <3>6, OwnStep DEF Goal
    <2> QED BY <2>1, <2>2
  <1> QED BY <1>6, <1>7, <1>8, <1>9, <1>10, <1>11, <1>13, <1>14 DEF Advance

LEMMA KnownStep ==
  ASSUME IInv, Shape', [Next]_vars
  PROVE  \A q \in Processes : (Known(process[q]) /\ Complete(ready[q]))'
  <1> DEFINE Goal == \A q \in Processes : (Known(process[q]) /\ Complete(ready[q]))'
  <1> SUFFICES Goal
    OBVIOUS
  <1> HIDE DEF Goal
  <1>1. ASSUME UNCHANGED <<process, ready>> PROVE Goal
    <2>1. ASSUME NEW q \in Processes PROVE (Known(process[q]) /\ Complete(ready[q]))'
      <3>1. PICK t : t = process[q]
        OBVIOUS
      <3>2. PICK d : d = ready[q]
        OBVIOUS
      <3>3. Known(t) /\ Complete(d)
        BY <3>1, <3>2 DEF IInv
      <3>4. Known(t)' /\ Complete(d)'
        BY <3>3, KnownStays, CompleteStays
      <3>5. process'[q] = t /\ ready'[q] = d
        BY <1>1, <3>1, <3>2
      <3> QED BY <3>4, <3>5, Zenon DEF Known, Complete
    <2> QED BY <2>1 DEF Goal
  <1>2. ASSUME NEW p \in Processes, NEW s, s.pc \in {"down", "idle", "look"}, Become(p, s),
               UNCHANGED ready
        PROVE  Goal
    BY <1>2, NothingKnown, OwnStepDone DEF Goal
  <1>3. /\ Down.pc = "down" /\ Idle.pc = "idle"
        /\ \A caller : Bootstrap(caller).pc = "look"
    BY DEF Down, Idle, Bootstrap, Enter
  <1>4. ASSUME NEW p \in Processes, Start(p) PROVE Goal
    <2>1. CASE OnStartup
      BY <1>2, <1>3, <1>4, <2>1 DEF Start
    <2>2. CASE ~OnStartup
      BY <1>2, <1>3, <1>4, <2>2 DEF Start
    <2> QED BY <2>1, <2>2
  <1>5. ASSUME NEW p \in Processes, NEW service \in Services, Ask(p, service) PROVE Goal
    BY <1>2, <1>3, <1>5 DEF Ask
  <1>6. ASSUME NEW p \in Processes, Advance(p) PROVE Goal
    BY <1>6, AdvanceKnown DEF Goal
  <1>7. ASSUME NEW p \in Processes, DatabaseError(p) PROVE Goal
    BY <1>2, <1>3, <1>7 DEF DatabaseError, GiveUp
  <1>8. ASSUME NEW p \in Processes, Crash(p) PROVE Goal
    <2>1. PICK done : done = {}
      OBVIOUS
    <2>2. Become(p, Down) /\ Known(Down)' /\ Complete(done)'
      BY <1>3, <1>8, <2>1, NothingKnown DEF Crash, Complete
    <2>3. ready'[p] = done /\ \A q \in Processes \ {p} : ready'[q] = ready[q]
      BY <1>8, <2>1 DEF Crash, IInv, Shape
    <2> QED BY <2>2, <2>3, OwnStep DEF Goal
  <1>9. UNCHANGED vars \/ Migrate \/ (\E p \in Processes : BuildRouter(p))
          \/ (\E x \in Providers, enabled \in BOOLEAN : Edit(x, enabled))
          => UNCHANGED <<process, ready>>
    BY DEF vars, Migrate, BuildRouter, Edit
  <1> QED BY <1>1, <1>4, <1>5, <1>6, <1>7, <1>8, <1>9 DEF Next

LEMMA WholeStep ==
  ASSUME IInv, Shape', [Next]_vars
  PROVE  Whole'
  <1>1. tables \subseteq tables' /\ columns \subseteq columns'
    BY SchemaGrows
  <1>2. \A c \in columns' : Owner(c) \in tables'
    <2>1. ASSUME NEW p \in Processes, Create(p) PROVE \A c \in columns' : Owner(c) \in tables'
      <3>1. \A c \in Columns : Owner(c) = TableOf[c]
        BY SchemaAssumption DEF Owner
      <3>2. CASE UNCHANGED <<tables, columns>>
        BY <3>2 DEF IInv, Whole
      <3>3. CASE ~UNCHANGED <<tables, columns>>
        <4>1. /\ tables' = tables \union process[p].missing
              /\ columns' = columns \union {c \in Columns : TableOf[c] \in process[p].missing}
          BY <2>1, <3>3 DEF Create
        <4> QED BY <3>1, <4>1 DEF IInv, Whole
      <3> QED BY <3>2, <3>3
    <2>2. ASSUME NEW p \in Processes, Alter(p) PROVE \A c \in columns' : Owner(c) \in tables'
      <3>1. process[p].pc = "alter" /\ Known(process[p])
        BY <2>2 DEF Alter, Doing, IInv
      <3>2. tables' = Tables
        BY <2>2, <3>1 DEF Alter, Known, AfterCreate
      <3> QED BY <3>2, OwnerType DEF Shape
    <2>3. CASE Migrate
      BY <2>3, OwnerType DEF Migrate, Shape
    <2>4. CASE UNCHANGED columns
      BY <1>1, <2>4 DEF IInv, Whole
    <2>5. \/ UNCHANGED columns \/ Migrate
          \/ \E p \in Processes : Create(p) \/ Alter(p)
      BY DEF Next, Start, Ask, BuildRouter, DatabaseError, Crash, Edit, vars,
             Advance, Look, Inspect, Fill, Index, Load, Seed
    <2> QED BY <2>1, <2>2, <2>3, <2>4, <2>5
  <1>3. configs' # NoRows => ConfigTable \in tables'
    <2>1. ASSUME NEW p \in Processes, Seed(p) PROVE ConfigTable \in tables'
      <3>1. process[p].pc = "seed" /\ Known(process[p])
        BY <2>1 DEF Seed, Doing, IInv
      <3> QED BY <2>1, <3>1, SchemaAssumption DEF Seed, Known, AfterCreate
    <2>2. ASSUME NEW x \in Providers, NEW enabled \in BOOLEAN, Edit(x, enabled)
          PROVE  ConfigTable \in tables'
      BY <2>2 DEF Edit, NoRows, IInv, Whole
    <2>3. CASE UNCHANGED configs
      BY <1>1, <2>3 DEF IInv, Whole
    <2>4. \/ UNCHANGED configs
          \/ \E p \in Processes : Seed(p)
          \/ \E x \in Providers, enabled \in BOOLEAN : Edit(x, enabled)
      BY DEF Next, Start, Ask, BuildRouter, DatabaseError, Crash, Migrate, vars,
             Advance, Look, Create, Inspect, Alter, Fill, Index, Load
    <2> QED BY <2>1, <2>2, <2>3, <2>4
  <1> QED BY <1>2, <1>3 DEF Whole

LEMMA InitIInv == Init => IInv
  <1> SUFFICES ASSUME Init PROVE IInv
    OBVIOUS
  <1>1. Shape
    BY InitShape
  <1>2. Whole
    <2>1. PICK old \in OldSchemas :
            tables = old.tables /\ columns = old.columns /\ configs = old.configs
      BY DEF Init
    <2> QED BY <2>1, OldSchemasAssumption, SchemaAssumption DEF Whole, Owner
  <1>3. \A p \in Processes : process[p] = Down /\ ready[p] = {}
    BY DEF Init
  <1>4. ASSUME NEW p \in Processes PROVE Known(process[p]) /\ Complete(ready[p])
    <2>1. process[p].pc = "down"
      BY <1>3 DEF Down
    <2> QED BY <1>3, <2>1 DEF Known, Complete, AfterCreate, AfterAlter
  <1> QED BY <1>1, <1>2, <1>4 DEF IInv

THEOREM Invariant == Spec => []IInv
  <1>1. IInv /\ [Next]_vars => IInv'
    <2> SUFFICES ASSUME IInv, [Next]_vars PROVE IInv'
      OBVIOUS
    <2>1. Shape'
      BY ShapeStep DEF IInv
    <2> QED BY <2>1, KnownStep, WholeStep DEF IInv
  <1> QED BY InitIInv, <1>1, PTL DEF Spec

\* The state keeps its shape, and no column or row is there without its table.
THEOREM TypeCorrect == Spec => []TypeOK
  <1>1. IInv => TypeOK
    BY DEF IInv, Shape, Whole, TypeOK
  <1> QED BY <1>1, Invariant, PTL

\* A process that has completed a bootstrap finds the whole schema.
THEOREM SchemaIsReady == Spec => []SchemaReady
  <1>1. IInv => SchemaReady
    BY Zenon DEF IInv, Complete, SchemaReady
  <1> QED BY <1>1, Invariant, PTL

-----------------------------------------------------------------------------
(* The rows.  None is ever deleted, and none is given its retired model     *)
(* back: so what a session loaded is still a lower bound when it commits.   *)

Current(x) == x \in Upgradable => configs[x].model # "retired"

\* What a session that is at s can rely on ...
Loaded(s) ==
  s.pc = "seed" => \A x \in Providers : s.loaded[x] # NoRow =>
    /\ configs[x] # NoRow
    /\ x \in Upgradable /\ s.loaded[x].model # "retired" => configs[x].model # "retired"

\* ... and a process that has completed the bootstraps of done.
Served(done) == done # {} => \A x \in Providers : configs[x] # NoRow /\ Current(x)

RInv == Shape /\ \A p \in Processes : Loaded(process[p]) /\ Served(ready[p])

\* What the commit of p's seeding does to a row.
LEMMA SeedRow ==
  ASSUME RInv, NEW p \in Processes, Seed(p), ~Overtaken(process[p].loaded), NEW x \in Providers
  PROVE  /\ configs'[x] # NoRow
         /\ (x \in Upgradable => configs'[x].model # "retired")
  <1>1. PICK l : l = process[p].loaded
    OBVIOUS
  <1>2. configs' = Seeded(l) /\ process[p].pc = "seed"
    BY <1>1 DEF Seed, Doing
  <1>3. /\ l[x] = NoRow => configs[x] = NoRow
        /\ l[x] # NoRow => configs[x] # NoRow
        /\ l[x] # NoRow /\ x \in Upgradable /\ l[x].model # "retired" => configs[x].model # "retired"
    BY <1>1, <1>2 DEF RInv, Loaded, Overtaken
  <1>4. configs[x] \in Row \union {NoRow}
    BY DEF RInv, Shape, Configs
  <1>5. CASE l[x] = NoRow
    <2>1. configs'[x] = DefaultRow
      BY <1>2, <1>5 DEF Seeded
    <2>2. DefaultRow.model = "current"
      BY DEF DefaultRow
    <2> QED BY <2>1, <2>2, Rows
  <1>6. CASE l[x] # NoRow /\ x \in Upgradable /\ l[x].model = "retired"
    <2>1. configs'[x] = Renamed(configs[x])
      BY <1>2, <1>6 DEF Seeded
    <2>2. Renamed(configs[x]) \in Row /\ Renamed(configs[x]).model = "current"
      BY <1>4, RenamedType
    <2>3. configs'[x] # NoRow
      BY <2>1, <2>2, Rows
    <2> QED BY <2>1, <2>2, <2>3
  <1>7. CASE l[x] # NoRow /\ ~(x \in Upgradable /\ l[x].model = "retired")
    <2>1. configs'[x] = configs[x]
      BY <1>2, <1>7 DEF Seeded
    <2> QED BY <1>3, <1>7, <2>1
  <1> QED BY <1>5, <1>6, <1>7

\* Rows stay, and stay current.
LEMMA RowsStay ==
  ASSUME RInv, [Next]_vars, NEW x \in Providers, configs[x] # NoRow
  PROVE  /\ configs'[x] # NoRow
         /\ x \in Upgradable /\ configs[x].model # "retired" => configs'[x].model # "retired"
  <1>1. CASE UNCHANGED configs
    BY <1>1
  <1>2. ASSUME NEW p \in Processes, Seed(p), ~UNCHANGED configs
        PROVE  configs'[x] # NoRow /\ (x \in Upgradable => configs'[x].model # "retired")
    BY <1>2, SeedRow DEF Seed
  <1>3. ASSUME NEW y \in Providers, NEW enabled \in BOOLEAN, Edit(y, enabled)
        PROVE  /\ configs'[x] # NoRow
               /\ x \in Upgradable /\ configs[x].model # "retired" => configs'[x].model # "retired"
    <2> DEFINE new == [model |-> "custom", enabled |-> enabled]
    <2>1. new # NoRow /\ new.model = "custom"
      BY DEF NoRow
    <2>2. configs'[x] = IF x = y THEN new ELSE configs[x]
      BY <1>3 DEF Edit, RInv, Shape, Configs
    <2> HIDE DEF new
    <2> QED BY <2>1, <2>2
  <1>4. \/ UNCHANGED configs
        \/ \E p \in Processes : Seed(p)
        \/ \E y \in Providers, enabled \in BOOLEAN : Edit(y, enabled)
    BY DEF Next, Start, Ask, BuildRouter, DatabaseError, Crash, Migrate, vars,
           Advance, Look, Create, Inspect, Alter, Fill, Index, Load
  <1> QED BY <1>1, <1>2, <1>3, <1>4

LEMMA LoadedStays ==
  ASSUME RInv, [Next]_vars, NEW s, Loaded(s)
  PROVE  Loaded(s)'
  BY RowsStay DEF Loaded

LEMMA ServedStays ==
  ASSUME RInv, [Next]_vars, NEW done, Served(done)
  PROVE  Served(done)'
  BY RowsStay DEF Served, Current

\* How a step changes what a process is doing: it is left alone, moves to a
\* place where no rows are loaded, or loads them.
LEMMA ActivityStep ==
  ASSUME Shape, [Next]_vars, NEW q \in Processes
  PROVE  \/ process'[q] = process[q]
         \/ process'[q].pc # "seed"
         \/ process'[q].pc = "seed" /\ process'[q].loaded = configs /\ UNCHANGED configs
  <1>1. CASE UNCHANGED process
    BY <1>1
  <1>2. ASSUME NEW p \in Processes, NEW s, Become(p, s), s.pc # "seed"
        PROVE  process'[q] = process[q] \/ process'[q].pc # "seed"
    BY <1>2 DEF Become, Shape
  <1>3. Down.pc # "seed" /\ Idle.pc # "seed"
    BY DEF Down, Idle
  <1>4. \A caller, pc, missing, loaded :
          /\ Enter(caller, pc, missing, loaded).pc = pc
          /\ Enter(caller, pc, missing, loaded).loaded = loaded
    BY DEF Enter
  <1>5. ASSUME NEW p \in Processes, Load(p)
        PROVE  \/ process'[q] = process[q]
               \/ process'[q].pc = "seed" /\ process'[q].loaded = configs /\ UNCHANGED configs
    BY <1>4, <1>5 DEF Load, Become, Shape
  <1>6. ASSUME NEW p \in Processes, Start(p)
        PROVE  process'[q] = process[q] \/ process'[q].pc # "seed"
    <2>1. CASE OnStartup
      BY <1>2, <1>4, <1>6, <2>1 DEF Start, Bootstrap
    <2>2. CASE ~OnStartup
      BY <1>2, <1>3, <1>6, <2>2 DEF Start
    <2> QED BY <2>1, <2>2
  <1>7. ASSUME NEW p \in Processes, NEW service \in Services, Ask(p, service)
        PROVE  process'[q] = process[q] \/ process'[q].pc # "seed"
    BY <1>2, <1>4, <1>7 DEF Ask, Bootstrap
  <1>8. ASSUME NEW p \in Processes, GiveUp(p) \/ DatabaseError(p) \/ Crash(p)
        PROVE  process'[q] = process[q] \/ process'[q].pc # "seed"
    BY <1>2, <1>3, <1>8 DEF GiveUp, DatabaseError, Crash
  <1>9. ASSUME NEW p \in Processes, Look(p) \/ Inspect(p)
        PROVE  process'[q] = process[q] \/ process'[q].pc # "seed"
    BY <1>2, <1>4, <1>9 DEF Look, Inspect
  <1>10. ASSUME NEW p \in Processes, NEW pc, pc # "seed", Continue(p, pc)
         PROVE  process'[q] = process[q] \/ process'[q].pc # "seed"
    BY <1>2, <1>4, <1>10 DEF Continue
  <1>11. ASSUME NEW p \in Processes, Create(p) \/ Alter(p) \/ Fill(p) \/ Index(p) \/ Seed(p)
         PROVE  process'[q] = process[q] \/ process'[q].pc # "seed"
    <2>1. GiveUp(p) \/ Continue(p, "inspect") \/ Continue(p, "fill")
            \/ Continue(p, "index") \/ Continue(p, "load")
      BY <1>11 DEF Create, Alter, Fill, Index, Seed
    <2> QED BY <1>8, <1>10, <2>1
  <1>12. \/ UNCHANGED process
         \/ \E p \in Processes :
              \/ Start(p) \/ DatabaseError(p) \/ Crash(p) \/ Advance(p)
              \/ \E service \in Services : Ask(p, service)
    BY DEF Next, BuildRouter, Migrate, Edit, vars
  <1> QED BY <1>1, <1>5, <1>6, <1>7, <1>8, <1>9, <1>11, <1>12 DEF Advance

\* How a step changes what a process has completed.
LEMMA ReadyStep ==
  ASSUME Shape, [Next]_vars, NEW q \in Processes
  PROVE  \/ ready'[q] = ready[q]
         \/ ready'[q] = {}
         \/ \E p \in Processes : Seed(p) /\ ~Overtaken(process[p].loaded)
  <1>1. CASE UNCHANGED ready
    BY <1>1
  <1>2. ASSUME NEW p \in Processes, Crash(p) PROVE ready'[q] = ready[q] \/ ready'[q] = {}
    BY <1>2 DEF Crash, Shape
  <1>3. ASSUME NEW p \in Processes, Seed(p)
        PROVE  UNCHANGED ready \/ ~Overtaken(process[p].loaded)
    BY <1>3 DEF Seed
  <1>4. \/ UNCHANGED ready
        \/ \E p \in Processes : Crash(p) \/ Seed(p)
    BY DEF Next, Start, Ask, BuildRouter, DatabaseError, Migrate, Edit, vars,
           Advance, Look, Create, Inspect, Alter, Fill, Index, Load
  <1> QED BY <1>1, <1>2, <1>3, <1>4

LEMMA RStep == RInv /\ [Next]_vars => RInv'
  <1> SUFFICES ASSUME RInv, [Next]_vars PROVE RInv'
    OBVIOUS
  <1>1. Shape /\ Shape'
    BY ShapeStep DEF RInv
  <1>2. ASSUME NEW q \in Processes PROVE Loaded(process[q])'
    <2>1. PICK s : s = process[q]
      OBVIOUS
    <2>2. Loaded(s)
      BY <2>1 DEF RInv
    <2>3. Loaded(s)'
      BY <2>2, LoadedStays
    <2>4. CASE process'[q] = process[q]
      BY <2>1, <2>3, <2>4 DEF Loaded
    <2>5. CASE process'[q].pc # "seed"
      BY <2>5 DEF Loaded
    <2>6. CASE process'[q].loaded = configs /\ UNCHANGED configs
      BY <2>6 DEF Loaded
    <2> QED BY <1>1, <2>4, <2>5, <2>6, ActivityStep
  <1>3. ASSUME NEW q \in Processes PROVE Served(ready[q])'
    <2>1. PICK done : done = ready[q]
      OBVIOUS
    <2>2. Served(done)
      BY <2>1 DEF RInv
    <2>3. Served(done)'
      BY <2>2, ServedStays
    <2>4. CASE ready'[q] = ready[q]
      BY <2>1, <2>3, <2>4 DEF Served, Current
    <2>5. CASE ready'[q] = {}
      BY <2>5 DEF Served
    <2>6. CASE \E p \in Processes : Seed(p) /\ ~Overtaken(process[p].loaded)
      BY <2>6, SeedRow DEF Served, Current
    <2> QED BY <1>1, <2>4, <2>5, <2>6, ReadyStep
  <1> QED BY <1>1, <1>2, <1>3 DEF RInv

\* What a router caches when it is built in a process that has bootstrapped.
LEMMA RouterBuilt ==
  ASSUME RInv, NEW p \in Processes, ready[p] # {}, BuildRouter(p), NEW x \in Providers
  PROVE  /\ router'[p][x] = NoRow => configs[x] # NoRow /\ ~configs[x].enabled
         /\ x \in Upgradable => router'[p][x].model # "retired"
  <1>1. configs[x] # NoRow /\ (x \in Upgradable => configs[x].model # "retired")
    BY DEF RInv, Served, Current
  <1>2. DefaultRow # NoRow /\ DefaultRow.model # "retired" /\ NoRow.model # "retired"
    BY Rows DEF DefaultRow, NoRow
  <1>3. CASE router'[p] = [y \in Providers |-> DefaultRow]
    BY <1>2, <1>3
  <1>4. CASE router'[p] = [y \in Providers |-> IF Enabled(y) THEN configs[y] ELSE NoRow]
    BY <1>1, <1>2, <1>4 DEF Enabled
  <1>5. \/ router'[p] = [y \in Providers |-> DefaultRow]
        \/ router'[p] = [y \in Providers |-> IF Enabled(y) THEN configs[y] ELSE NoRow]
    BY DEF BuildRouter, ProviderConfigs, RInv, Shape
  <1> QED BY <1>3, <1>4, <1>5

LEMMA OnlyBuilt ==
  ASSUME Shape, [Next]_vars, NEW p \in Processes
  PROVE  router'[p] = router[p] \/ router'[p] = NoRouter \/ BuildRouter(p)
  <1>1. ASSUME NEW q \in Processes, Crash(q)
        PROVE  router'[p] = router[p] \/ router'[p] = NoRouter
    BY <1>1 DEF Crash, Shape
  <1>2. ASSUME NEW q \in Processes, BuildRouter(q)
        PROVE  router'[p] = router[p] \/ q = p
    BY <1>2 DEF BuildRouter, Shape
  <1>3. \/ UNCHANGED router
        \/ \E q \in Processes : Crash(q) \/ BuildRouter(q)
    BY DEF Next, Start, Ask, DatabaseError, Migrate, Edit, vars,
           Advance, Look, Create, Inspect, Alter, Fill, Index, Load, Seed
  <1> QED BY <1>1, <1>2, <1>3

\* A router built after a bootstrap knows every provider that is not disabled,
\* and no retired model.
THEOREM RouterIsComplete == Spec => RouterComplete
  <1>1. Init => RInv
    <2> SUFFICES ASSUME Init PROVE RInv
      OBVIOUS
    <2>1. \A p \in Processes : process[p].pc = "down" /\ ready[p] = {}
      BY DEF Init, Down
    <2> QED BY <2>1, InitShape DEF RInv, Loaded, Served
  <1>2. RInv /\ [Next]_vars =>
          [\A p \in Processes : ready[p] # {} /\ router'[p] # router[p] /\ router'[p] # NoRouter =>
             \A x \in Providers :
               /\ router'[p][x] = NoRow => configs[x] # NoRow /\ ~configs[x].enabled
               /\ x \in Upgradable => router'[p][x].model # "retired"]_vars
    <2> SUFFICES ASSUME RInv, [Next]_vars, NEW p \in Processes,
                        ready[p] # {}, router'[p] # router[p], router'[p] # NoRouter,
                        NEW x \in Providers
                 PROVE  /\ router'[p][x] = NoRow => configs[x] # NoRow /\ ~configs[x].enabled
                        /\ x \in Upgradable => router'[p][x].model # "retired"
      OBVIOUS
    <2>1. BuildRouter(p)
      BY OnlyBuilt DEF RInv
    <2> QED BY <2>1, RouterBuilt
  <1> QED BY <1>1, <1>2, RStep, PTL DEF Spec, RouterComplete
=============================================================================
