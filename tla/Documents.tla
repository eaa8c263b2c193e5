------------------------------- MODULE Documents -------------------------------
(***************************************************************************)
(* The documents of Sentinel RAG and the searches over them: the tables    *)
(* documents, document_chunks and retrieval_results, and the API processes *)
(* that create, scan, delete and search documents (core/documents.py,      *)
(* core/retrieval.py and their routes).                                    *)
(*                                                                         *)
(* PostgreSQL at READ COMMITTED: a session works on the row it loaded, an  *)
(* UPDATE or DELETE meets the row as it is by then, and the foreign keys   *)
(* on documents are checked when a referring row is inserted and when a    *)
(* document is deleted.                                                    *)
(*                                                                         *)
(* Data left out: names, contents, scores and snippets.  The chunks of a   *)
(* document are written and indexed together; a search's answer is the set *)
(* of the documents in it.                                                 *)
(***************************************************************************)
EXTENDS FiniteSets

CONSTANTS
  Docs,       \* ids of documents
  Tenants,
  TenantOf,   \* the tenant of each document
  Processes,  \* API processes: each runs one handler at a time
  Faults      \* the kinds of fault an instance may meet

ASSUME OwnersAssumption == Tenants # {} /\ TenantOf \in [Docs -> Tenants]
ASSUME FaultsAssumption == Faults \subseteq {"crash", "database"}

VARIABLES
  status,      \* documents.status, as committed, or what became of the row
  chunks,      \* document_chunks of each document: none, raw, or indexed
  cited,       \* the documents in retrieval_results, with the run's tenant
  proc,        \* what each process is doing, and its open session
  last,        \* observer: the scan result committed last for each document
  cleaned,     \* observer: the documents ever found clean
  overlapped,  \* observer: documents of which two scan sessions overlapped
  unsynced     \* observer: documents whose indexing raised an error

vars == <<status, chunks, cited, proc, last, cleaned, overlapped, unsynced>>
observed == <<last, cleaned, overlapped, unsynced>>

-----------------------------------------------------------------------------
(* Rows. *)

StatusMap == [clean |-> "ACTIVE", timeout |-> "SCAN_FAILED", failed |-> "SCAN_FAILED",
              unknown |-> "SCAN_UNKNOWN", malware |-> "QUARANTINED"]
Results == DOMAIN StatusMap
Statuses == {"PENDING"} \union {StatusMap[r] : r \in Results}

InTable(d) == status[d] \in Statuses

\* Mutant: everything but quarantine is searched.
Searchable_NotQuarantined(t) ==
  {d \in Docs : InTable(d) /\ status[d] # "QUARANTINED" /\ TenantOf[d] = t}

\* The documents a search of t selects.
Searchable(t) == {d \in Docs : status[d] = "ACTIVE" /\ TenantOf[d] = t}

\* A foreign key refers to d.
Referred(d) == chunks[d] # "none" \/ \E t \in Tenants : <<t, d>> \in cited

\* Other rows of another tenant are not found.
Found(t, d) == InTable(d) /\ TenantOf[d] = t

-----------------------------------------------------------------------------
(* Processes. *)

\* down: not running; up: running, its services not constructed yet.
PCs == {"down", "up", "idle", "sync", "scan", "refresh", "delete", "search"}
\* docs: what the handler works on; result: of a scan; loaded: the status of the
\* row when the session read it; stale: a scan of it was committed since.
Activity ==
  [pc : PCs, tenant : Tenants, docs : SUBSET Docs, result : Results,
   loaded : Statuses, stale : BOOLEAN]

Opened(pc, t, D, result, loaded) ==
  [pc |-> pc, tenant |-> t, docs |-> D, result |-> result, loaded |-> loaded, stale |-> FALSE]
At(pc) == Opened(pc, CHOOSE t \in Tenants : TRUE, {}, "clean", "PENDING")
Idle == At("idle")

Become(p, activity) == proc' = [proc EXCEPT ![p] = activity]

Init ==
  /\ status = [d \in Docs |-> "ABSENT"]
  /\ chunks = [d \in Docs |-> "none"]
  /\ cited = {}
  /\ proc = [p \in Processes |-> At("down")]
  /\ last = [d \in Docs |-> "none"]
  /\ cleaned = {} /\ overlapped = {} /\ unsynced = {}

\* Mutant: the schema is bootstrapped without indexing.
Indexed_Unchanged == chunks

\* bootstrap_schema indexes every chunk there is.
Indexed == [d \in Docs |-> IF chunks[d] = "raw" THEN "indexed" ELSE chunks[d]]

\* A process starts.  Its lifespan may bootstrap the schema, or be told not to;
\* when the bootstrap fails the error is suppressed, and the process serves on.
Start(p) ==
  /\ proc[p].pc = "down"
  /\ Become(p, At("up"))
  /\ chunks' \in {Indexed, chunks}
  /\ UNCHANGED <<status, cited, observed>>

\* The first request constructs the services, whose constructors bootstrap the
\* schema.  An error fails that request only: the next one constructs again.
Bootstrap(p) ==
  /\ proc[p].pc = "up"
  /\ Become(p, Idle)
  /\ chunks' = Indexed
  /\ UNCHANGED <<status, cited, observed>>

\* create_document commits the document with its chunks, if it has a content.
Create(p, d, content) ==
  /\ proc[p].pc = "idle"
  /\ status[d] = "ABSENT"
  /\ status' = [status EXCEPT ![d] = "PENDING"]
  /\ chunks' = [chunks EXCEPT ![d] = IF content THEN "raw" ELSE "none"]
  /\ Become(p, Opened("sync", TenantOf[d], {d}, "clean", "PENDING"))
  /\ UNCHANGED <<cited, observed>>

\* sync_pgvector_chunk_features, a transaction of its own; then the document is
\* read again for the answer, which fails when it was deleted meanwhile.
Sync(p) ==
  /\ proc[p].pc = "sync"
  /\ chunks' = [d \in Docs |-> IF d \in proc[p].docs /\ chunks[d] = "raw"
                                 THEN "indexed" ELSE chunks[d]]
  /\ Become(p, Idle)
  /\ UNCHANGED <<status, cited, observed>>

-----------------------------------------------------------------------------
(* Scan results. *)

\* apply_scan_result loads the row, or answers 404.
LoadScan(p, t, d, result) ==
  /\ proc[p].pc = "idle"
  /\ Found(t, d)
  /\ Become(p, Opened("scan", t, {d}, result, status[d]))
  /\ UNCHANGED <<status, chunks, cited, observed>>

\* Mutant: a status is only ever given to a document that was PENDING.
Applied_Once(s, d) ==
  IF s.loaded = "PENDING" /\ InTable(d) THEN StatusMap[s.result] ELSE status[d]

\* Mutant: the document is written anew when its row is gone.
Applied_Merged(s, d) == StatusMap[s.result]

\* Mutant: the result itself is stored.
Applied_Unmapped(s, d) == IF InTable(d) THEN s.result ELSE status[d]

\* The committed row, when the session assigned its result: an attribute that
\* keeps its value is not written.
Applied(s, d) ==
  IF StatusMap[s.result] = s.loaded \/ ~InTable(d) THEN status[d] ELSE StatusMap[s.result]

\* The commit.  An UPDATE that meets no row is an error of the session.
CommitScan(p, d) ==
  /\ proc[p].pc = "scan" /\ d \in proc[p].docs
  /\ LET s == proc[p]
         succeeds == InTable(d) \/ StatusMap[s.result] = s.loaded
     IN  /\ status' = [status EXCEPT ![d] = Applied(s, d)]
         /\ proc' = [q \in Processes |->
              IF q = p THEN IF succeeds THEN At("refresh") ELSE Idle
              ELSE [proc[q] EXCEPT !.stale =
                      @ \/ (succeeds /\ proc[q].pc = "scan" /\ d \in proc[q].docs)]]
         /\ IF succeeds
              THEN /\ last' = [last EXCEPT ![d] = s.result]
                   /\ cleaned' = IF s.result = "clean" THEN cleaned \union {d} ELSE cleaned
                   /\ overlapped' = IF s.stale THEN overlapped \union {d} ELSE overlapped
              ELSE UNCHANGED <<last, cleaned, overlapped>>
  /\ UNCHANGED <<chunks, cited, unsynced>>

\* The row is read again for the answer.
Refresh(p) ==
  /\ proc[p].pc = "refresh"
  /\ Become(p, Idle)
  /\ UNCHANGED <<status, chunks, cited, observed>>

-----------------------------------------------------------------------------
(* Deletion. *)

\* delete_document loads the row; when it finds none it answers at once.
LoadDelete(p, t, d) ==
  /\ proc[p].pc = "idle"
  /\ Found(t, d)
  /\ Become(p, Opened("delete", t, {d}, "clean", "PENDING"))
  /\ UNCHANGED <<status, chunks, cited, observed>>

\* The DELETE: an error when a foreign key refers to the row, nothing when the row
\* is gone already.
CommitDelete(p, d) ==
  /\ proc[p].pc = "delete" /\ d \in proc[p].docs
  /\ status' = [status EXCEPT ![d] = IF Referred(d) THEN @ ELSE "DELETED"]
  /\ Become(p, Idle)
  /\ UNCHANGED <<chunks, cited, observed>>

-----------------------------------------------------------------------------
(* Searches. *)

\* retrieve selects the documents of its answer.
Search(p, t) ==
  /\ proc[p].pc = "idle"
  /\ Become(p, Opened("search", t, Searchable(t), "clean", "PENDING"))
  /\ UNCHANGED <<status, chunks, cited, observed>>

\* Mutant: the results do not refer to the documents' table.
Citable_Unchecked(D) == TRUE

\* The foreign keys of a run's results hold.
Citable(D) == \A d \in D : InTable(d)

\* The commit of the run with its results, all of them or none.
CommitSearch(p) ==
  /\ proc[p].pc = "search"
  /\ LET s == proc[p]
     IN  cited' = IF Citable(s.docs) THEN cited \union ({s.tenant} \X s.docs) ELSE cited
  /\ Become(p, Idle)
  /\ UNCHANGED <<status, chunks, observed>>

-----------------------------------------------------------------------------
(* Faults. *)

\* An error of the database ends the request; its transaction is rolled back.
DatabaseError(p) ==
  /\ "database" \in Faults
  /\ proc[p].pc \notin {"down", "up", "idle"}
  /\ Become(p, Idle)
  /\ unsynced' = IF proc[p].pc = "sync" THEN unsynced \union proc[p].docs ELSE unsynced
  /\ UNCHANGED <<status, chunks, cited, last, cleaned, overlapped>>

Crash(p) ==
  /\ "crash" \in Faults
  /\ proc[p].pc # "down"
  /\ Become(p, At("down"))
  /\ UNCHANGED <<status, chunks, cited, observed>>

Handle(p) ==
  \/ Sync(p) \/ Refresh(p) \/ CommitSearch(p)
  \/ \E d \in Docs : CommitScan(p, d) \/ CommitDelete(p, d)

Request(p) ==
  \/ \E d \in Docs, content \in BOOLEAN : Create(p, d, content)
  \/ \E t \in Tenants : Search(p, t)
  \/ \E t \in Tenants, d \in Docs :
       LoadDelete(p, t, d) \/ \E result \in Results : LoadScan(p, t, d, result)

Next ==
  \E p \in Processes :
    \/ Start(p) \/ Bootstrap(p) \/ Request(p) \/ Handle(p)
    \/ DatabaseError(p) \/ Crash(p)

Spec == Init /\ [][Next]_vars

\* A request that is under way goes on.  Nothing starts a process that died,
\* sends it a request or makes its bootstrap succeed.
FairSpec == Spec /\ \A p \in Processes : WF_vars(Handle(p))

-----------------------------------------------------------------------------
(* Properties. *)

\* The tables, sessions and observers hold what the schema and the code allow.
TypeOK ==
  /\ status \in [Docs -> Statuses \union {"ABSENT", "DELETED"}]
  /\ chunks \in [Docs -> {"none", "raw", "indexed"}]
  /\ cited \subseteq Tenants \X Docs
  /\ proc \in [Processes -> Activity]
  /\ last \in [Docs -> Results \union {"none"}]
  /\ cleaned \subseteq Docs /\ overlapped \subseteq Docs /\ unsynced \subseteq Docs

\* Chunks and results never outlive their document, and no run holds a document
\* of another tenant, however searches and deletions overlap.
ReferencesKept ==
  /\ \A d \in Docs : chunks[d] # "none" => InTable(d)
  /\ \A c \in cited : InTable(c[2]) /\ TenantOf[c[2]] = c[1]

\* Fail-closed: what a search ever returned had been found clean by a scan, and
\* so had every document that is ACTIVE, whatever else was reported about it.
ReturnedWereClean ==
  \A d \in Docs :
    status[d] = "ACTIVE" \/ (\E t \in Tenants : <<t, d>> \in cited)
      => d \in cleaned

\* As long as no two scan sessions of a document overlapped, the scan result that
\* was committed last decides: malware keeps it in quarantine, and only a clean
\* one makes it ACTIVE.
LastScanDecides ==
  \A d \in Docs : InTable(d) /\ d \notin overlapped =>
    /\ last[d] = "malware" => status[d] = "QUARANTINED"
    /\ status[d] = "ACTIVE" <=> last[d] = "clean"

\* A deleted document does not come back: not by a scan result that was on its
\* way, nor by anything else.
DeletedForGood ==
  [][\A d \in Docs : status[d] = "DELETED" => status'[d] = "DELETED"]_vars

\* The processes that serve no document: down, or never asked since they started.
Silent == {p \in Processes : proc[p].pc \in {"down", "up"}}

\* The chunks of a document get indexed, though the process that created them
\* may die before: by the next process, whichever it is, that constructs its
\* services.  They stay as they are only if the indexing itself raised an error,
\* or if the processes that are silent stay so and no other one joins them: they
\* are not started again, are not asked for anything or fail every bootstrap.
EventuallyIndexed ==
  \A d \in Docs :
    chunks[d] = "raw" ~>
      \/ chunks[d] = "indexed" \/ d \in unsynced
      \/ \E S \in SUBSET Processes \ {{}} : [](Silent = S)
=============================================================================
