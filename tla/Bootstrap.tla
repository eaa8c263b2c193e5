------------------------------ MODULE Bootstrap ------------------------------
(***************************************************************************)
(* How Sentinel RAG's processes bring the database up to date when they    *)
(* start (core/db.py, core/bootstrap.py, the lifespan of main.py and the   *)
(* constructors of the document and retrieval services), and the router    *)
(* that each of them builds once from provider_configs (core/gateway.py).  *)
(*                                                                         *)
(* Nothing makes the processes take turns: every bootstrap looks at the    *)
(* database, then changes it in transactions of its own, and a process     *)
(* that was overtaken fails.  The lifespan suppresses the failure; the     *)
(* constructor of a service raises it, and the next request tries again.   *)
(*                                                                         *)
(* A column stands for the ones that reconcile_schema looks for.  The      *)
(* native ones (embedding_pg, fts_tsv) are in no mapped class: create_all  *)
(* does not create them.  The database is PostgreSQL.                      *)
(***************************************************************************)
EXTENDS Naturals

CONSTANTS
  Processes,     \* API processes
  Services,      \* those whose constructor bootstraps: documents, retrieval
  Tables,        \* those of Base.metadata
  ChunkTable,    \* document_chunks
  ConfigTable,   \* provider_configs
  Columns,       \* mapped columns that older schemas lack
  TableOf,       \* the table of a column
  Native,        \* columns of ChunkTable that only reconcile_schema adds
  OldSchemas,    \* what earlier releases may have left in the database
  Providers,     \* those of DEFAULT_PROVIDER_CONFIGS
  Upgradable,    \* those whose default model was renamed
  OnStartup,     \* settings.bootstrap_schema_on_startup
  MaxEdits,      \* bound: changes made by an operator
  MaxFaults      \* bound: crashes and database errors

\* "retired" and "current": the old and the new default of a provider.
Row == [model : {"retired", "current", "custom"}, enabled : BOOLEAN]
NoRow == [model |-> "none", enabled |-> FALSE]
DefaultRow == [model |-> "current", enabled |-> TRUE]
NoRows == [x \in Providers |-> NoRow]
Configs == [Providers -> Row \union {NoRow}]

AllColumns == Columns \union Native
Owner(c) == IF c \in Native THEN ChunkTable ELSE TableOf[c]

ASSUME SchemaAssumption ==
  /\ "lifespan" \notin Services
  /\ {ChunkTable, ConfigTable} \subseteq Tables
  /\ TableOf \in [Columns -> Tables]
  /\ Tables \cap AllColumns = {} /\ Columns \cap Native = {}
  /\ Upgradable \subseteq Providers
  /\ OnStartup \in BOOLEAN
  /\ {MaxEdits, MaxFaults} \subseteq Nat

\* A release created its tables before it seeded them, and had neither tables
\* nor columns that this one does not have.
ASSUME OldSchemasAssumption ==
  \A old \in OldSchemas :
    /\ old.tables \subseteq Tables /\ old.columns \subseteq AllColumns /\ old.configs \in Configs
    /\ \A c \in old.columns : Owner(c) \in old.tables
    /\ old.configs = NoRows \/ ConfigTable \in old.tables

VARIABLES
  tables,    \* the tables there are
  columns,   \* their columns, of AllColumns
  filled,    \* the native columns of every stored chunk have been computed
  indexed,   \* the indexes on the native columns are there
  configs,   \* provider_configs
  process,   \* what each process is doing
  ready,     \* bootstraps a process has completed since it started
  router,    \* the provider configuration its router has cached
  edits,     \* changes made by the operator
  faults     \* faults so far

schema == <<tables, columns, filled, indexed>>
vars == <<schema, configs, process, ready, router, edits, faults>>

-----------------------------------------------------------------------------
\* Who asks for a bootstrap: the lifespan, or the constructor of a service.
Callers == {"lifespan"} \union Services

Steps == {"look", "create", "inspect", "alter", "fill", "index", "load", "seed"}
\* missing: what the process saw missing; loaded: the rows its session has read.
Activity ==
  [pc : Steps, caller : Callers, missing : SUBSET (Tables \union AllColumns), loaded : Configs]
Down == [pc |-> "down"]
Idle == [pc |-> "idle"]

Doing(p, pc) == process[p].pc = pc
Become(p, activity) == process' = [process EXCEPT ![p] = activity]
Enter(caller, pc, missing, loaded) ==
  [pc |-> pc, caller |-> caller, missing |-> missing, loaded |-> loaded]
Continue(p, pc) == Become(p, Enter(process[p].caller, pc, {}, NoRows))

\* Mutant: the providers are seeded before the schema is initialized.
Bootstrap_SeedFirst(caller) == Enter(caller, "load", {}, NoRows)

\* bootstrap_schema: the schema, then the providers.
Bootstrap(caller) == Enter(caller, "look", {}, NoRows)
GiveUp(p) == Become(p, Idle)

Fault == faults < MaxFaults /\ faults' = faults + 1

NoRouter == NoRows

Init ==
  /\ \E old \in OldSchemas :
       /\ tables = old.tables
       /\ columns = old.columns
       /\ filled = (ChunkTable \notin old.tables)
       /\ configs = old.configs
  /\ indexed = FALSE
  /\ process = [p \in Processes |-> Down]
  /\ ready = [p \in Processes |-> {}]
  /\ router = [p \in Processes |-> NoRouter]
  /\ edits = 0 /\ faults = 0

\* lifespan: serve only after the bootstrap has succeeded or failed.
Start(p) ==
  /\ Doing(p, "down")
  /\ Become(p, IF OnStartup THEN Bootstrap("lifespan") ELSE Idle)
  /\ UNCHANGED <<schema, configs, ready, router, edits, faults>>

\* A request needs a service the process has not constructed yet.
Ask(p, service) ==
  /\ Doing(p, "idle")
  /\ service \notin ready[p]
  /\ Become(p, Bootstrap(service))
  /\ UNCHANGED <<schema, configs, ready, router, edits, faults>>

-----------------------------------------------------------------------------
(* init_schema. *)

\* create_all asks for its tables ...
Look(p) ==
  /\ Doing(p, "look")
  /\ Become(p, Enter(process[p].caller, "create", Tables \ tables, NoRows))
  /\ UNCHANGED <<schema, configs, ready, router, edits, faults>>

\* ... and creates the ones that were missing, in one transaction.
Create(p) ==
  /\ Doing(p, "create")
  /\ LET new == process[p].missing IN
     IF new \cap tables # {}
     THEN GiveUp(p) /\ UNCHANGED <<tables, columns>>
     ELSE /\ tables' = tables \union new
          /\ columns' = columns \union {c \in Columns : TableOf[c] \in new}
          /\ Continue(p, "inspect")
  /\ UNCHANGED <<filled, indexed, configs, ready, router, edits, faults>>

\* The columns that the tables there are lack.
Lacking == {c \in AllColumns : Owner(c) \in tables} \ columns

\* Mutant: the extension is created elsewhere, so that nothing is left to do
\* when no column is missing.
Inspect_Return(p) ==
  /\ Doing(p, "inspect")
  /\ Become(p, Enter(process[p].caller, IF Lacking = {} THEN "load" ELSE "alter", Lacking, NoRows))
  /\ UNCHANGED <<schema, configs, ready, router, edits, faults>>

\* reconcile_schema asks for the columns.  There is always a statement to
\* execute, CREATE EXTENSION, so that it goes on to the indexes every time.
Inspect(p) ==
  /\ Doing(p, "inspect")
  /\ Become(p, Enter(process[p].caller, "alter", Lacking, NoRows))
  /\ UNCHANGED <<schema, configs, ready, router, edits, faults>>

\* Mutant: every column is added, the ones that are there included.
Alter_All(p) ==
  /\ Doing(p, "alter")
  /\ IF AllColumns \cap columns # {}
     THEN GiveUp(p) /\ UNCHANGED columns
     ELSE columns' = AllColumns /\ Continue(p, "fill")
  /\ UNCHANGED <<tables, filled, indexed, configs, ready, router, edits, faults>>

\* ALTER TABLE for all that was missing, in one transaction; a column that
\* somebody else has added meanwhile fails it.
Alter(p) ==
  /\ Doing(p, "alter")
  /\ LET new == process[p].missing IN
     IF new \cap columns # {}
     THEN GiveUp(p) /\ UNCHANGED columns
     ELSE columns' = columns \union new /\ Continue(p, "fill")
  /\ UNCHANGED <<tables, filled, indexed, configs, ready, router, edits, faults>>

\* sync_pgvector_chunk_features of all chunks.
Fill(p) ==
  /\ Doing(p, "fill")
  /\ filled' = TRUE
  /\ Continue(p, "index")
  /\ UNCHANGED <<tables, columns, indexed, configs, ready, router, edits, faults>>

\* CREATE INDEX IF NOT EXISTS.
Index(p) ==
  /\ Doing(p, "index")
  /\ indexed' = TRUE
  /\ Continue(p, "load")
  /\ UNCHANGED <<tables, columns, filled, configs, ready, router, edits, faults>>

-----------------------------------------------------------------------------
(* seed_provider_configs. *)

Load(p) ==
  /\ Doing(p, "load")
  /\ Become(p, Enter(process[p].caller, "seed", {}, configs))
  /\ UNCHANGED <<schema, configs, ready, router, edits, faults>>

Renamed(row) == [model |-> "current", enabled |-> row.enabled]

\* Mutant: a table that has rows is left alone.
Seeded_OnlyEmpty(loaded) == IF loaded = NoRows THEN [x \in Providers |-> DefaultRow] ELSE configs

\* The commit writes what the session changed of the rows it loaded: only the
\* model of a row, whatever it is by now.
Seeded(loaded) ==
  [x \in Providers |->
     IF loaded[x] = NoRow THEN DefaultRow
     ELSE IF x \in Upgradable /\ loaded[x].model = "retired" THEN Renamed(configs[x])
     ELSE configs[x]]

\* A row that somebody else has inserted fails the commit.
Overtaken(loaded) == \E x \in Providers : loaded[x] = NoRow /\ configs[x] # NoRow

\* Then the caller's bootstrap is complete.
Seed(p) ==
  /\ Doing(p, "seed")
  /\ GiveUp(p)
  /\ IF Overtaken(process[p].loaded)
     THEN UNCHANGED <<configs, ready>>
     ELSE /\ configs' = Seeded(process[p].loaded)
          /\ ready' = [ready EXCEPT ![p] = @ \union {process[p].caller}]
  /\ UNCHANGED <<schema, router, edits, faults>>

-----------------------------------------------------------------------------
(* load_provider_configs and the router that keeps its answer. *)

Enabled(x) == configs[x] # NoRow /\ configs[x].enabled

\* The rows that are enabled, or the defaults when there is none.
ProviderConfigs ==
  IF \E x \in Providers : Enabled(x)
  THEN [x \in Providers |-> IF Enabled(x) THEN configs[x] ELSE NoRow]
  ELSE [x \in Providers |-> DefaultRow]

\* The first request to the gateway builds the router, for as long as the
\* process lives.  A query that fails counts as an empty table.
BuildRouter(p) ==
  /\ Doing(p, "idle")
  /\ router[p] = NoRouter
  /\ \/ router' = [router EXCEPT ![p] = ProviderConfigs] /\ UNCHANGED faults
     \/ router' = [router EXCEPT ![p] = [x \in Providers |-> DefaultRow]] /\ Fault
  /\ UNCHANGED <<schema, configs, process, ready, edits>>

-----------------------------------------------------------------------------
(* Around the processes. *)

\* The database ends a bootstrap with an error.
DatabaseError(p) ==
  /\ process[p].pc \in Steps
  /\ Fault
  /\ GiveUp(p)
  /\ UNCHANGED <<schema, configs, ready, router, edits>>

\* A process dies and forgets what it cached.
Crash(p) ==
  /\ ~Doing(p, "down")
  /\ Fault
  /\ Become(p, Down)
  /\ ready' = [ready EXCEPT ![p] = {}]
  /\ router' = [router EXCEPT ![p] = NoRouter]
  /\ UNCHANGED <<schema, configs, edits>>

\* alembic upgrade head: one transaction that creates every table, with the
\* mapped columns; it fails when there is one.
Migrate ==
  /\ tables = {}
  /\ tables' = Tables
  /\ columns' = Columns
  /\ UNCHANGED <<filled, indexed, configs, process, ready, router, edits, faults>>

\* An operator disables a provider, enables it again or chooses its model:
\* no code of the repository does, but the seeding allows for it.
Edit(x, enabled) ==
  /\ edits < MaxEdits /\ edits' = edits + 1
  /\ configs[x] # NoRow
  /\ configs' = [configs EXCEPT ![x] = [model |-> "custom", enabled |-> enabled]]
  /\ UNCHANGED <<schema, process, ready, router, faults>>

-----------------------------------------------------------------------------
Advance(p) ==
  \/ Look(p) \/ Create(p) \/ Inspect(p) \/ Alter(p)
  \/ Fill(p) \/ Index(p) \/ Load(p) \/ Seed(p)

Next ==
  \/ \E p \in Processes :
       \/ Start(p) \/ Advance(p) \/ BuildRouter(p) \/ DatabaseError(p) \/ Crash(p)
       \/ \E service \in Services : Ask(p, service)
  \/ Migrate
  \/ \E x \in Providers, enabled \in BOOLEAN : Edit(x, enabled)

Spec == Init /\ [][Next]_vars

\* A bootstrap that was begun goes on; nobody has to ask for one.
Fairness == \A p \in Processes : WF_vars(Advance(p))
FairSpec == Spec /\ Fairness

-----------------------------------------------------------------------------
(* Properties. *)

\* The state has its shape; a column is never there without its table, nor a
\* row without provider_configs.
TypeOK ==
  /\ tables \subseteq Tables /\ columns \subseteq AllColumns
  /\ filled \in BOOLEAN /\ indexed \in BOOLEAN
  /\ configs \in Configs
  /\ process \in [Processes -> Activity \union {Down, Idle}]
  /\ ready \in [Processes -> SUBSET Callers]
  /\ router \in [Processes -> Configs]
  /\ edits \in Nat /\ faults \in Nat
  /\ \A c \in columns : Owner(c) \in tables
  /\ configs # NoRows => ConfigTable \in tables

\* A process that has completed one bootstrap, its own, finds the whole schema:
\* every table and column, the native ones filled for the chunks that were
\* there before, and indexed; however the bootstraps of the others were
\* overtaken, failed or died half way.
SchemaReady ==
  \A p \in Processes : ready[p] # {} =>
    /\ tables = Tables /\ columns = AllColumns
    /\ filled /\ indexed

\* A router that is built after a bootstrap of its process knows every default
\* provider that no operator has disabled, and none by its retired model.
RouterComplete ==
  [][\A p \in Processes : ready[p] # {} /\ router'[p] # router[p] /\ router'[p] # NoRouter =>
       \A x \in Providers :
         /\ router'[p][x] = NoRow => configs[x] # NoRow /\ ~configs[x].enabled
         /\ x \in Upgradable => router'[p][x].model # "retired"]_vars

\* Processes that overtake each other do not go on failing: each of them begins
\* only finitely many bootstraps, as every one of its requests finds its
\* services constructed from some point on, or stops asking.
NoEndlessRetry == \A p \in Processes : <>[](process[p].pc \in {"idle", "down"})
=============================================================================
