---------------------------- MODULE DocumentsProofs ----------------------------
(***************************************************************************)
(* Proofs about Documents, for any documents, tenants, processes and       *)
(* faults.  A commit may meet a row that its session has never seen, so    *)
(* the invariant says what each open session may still rely on.            *)
(***************************************************************************)
EXTENDS Documents, TLAPS

\* What the scan results are turned into.
LEMMA Mapping ==
  /\ Results = {"clean", "timeout", "failed", "unknown", "malware"}
  /\ Statuses = {"PENDING", "ACTIVE", "SCAN_FAILED", "SCAN_UNKNOWN", "QUARANTINED"}
  /\ \A r \in Results :
       /\ StatusMap[r] \in Statuses
       /\ StatusMap[r] = "ACTIVE" <=> r = "clean"
       /\ r = "malware" => StatusMap[r] = "QUARANTINED"
  <1>1. Results = {"clean", "timeout", "failed", "unknown", "malware"}
    BY DEF Results, StatusMap
  <1>2. /\ StatusMap["clean"] = "ACTIVE" /\ StatusMap["timeout"] = "SCAN_FAILED"
        /\ StatusMap["failed"] = "SCAN_FAILED" /\ StatusMap["unknown"] = "SCAN_UNKNOWN"
        /\ StatusMap["malware"] = "QUARANTINED"
    BY DEF StatusMap
  <1>3. Statuses = {"PENDING", "ACTIVE", "SCAN_FAILED", "SCAN_UNKNOWN", "QUARANTINED"}
    BY <1>1, <1>2 DEF Statuses
  <1> QED BY <1>1, <1>2, <1>3

\* What a session may rely on, the tables being as they are.
Sound(s) ==
  /\ s.pc \in {"sync", "scan", "delete", "search"} =>
       \A d \in s.docs : status[d] # "ABSENT"
  /\ s.pc = "search" => \A d \in s.docs : TenantOf[d] = s.tenant /\ d \in cleaned
  /\ s.pc = "scan" /\ ~s.stale =>
       \A d \in s.docs : status[d] = s.loaded \/ status[d] = "DELETED"

SessionsSound == \A p \in Processes : Sound(proc[p])

\* A document that does not exist yet has no history.
NoHistory == \A d \in Docs : status[d] = "ABSENT" => last[d] = "none" /\ d \notin cleaned

Inv ==
  /\ TypeOK
  /\ ReferencesKept
  /\ ReturnedWereClean
  /\ LastScanDecides
  /\ NoHistory
  /\ SessionsSound

\* A process between two sessions relies on nothing.
LEMMA AtSound ==
  ASSUME NEW pc \in PCs
  PROVE  /\ At(pc) \in Activity
         /\ At(pc).pc = pc /\ At(pc).docs = {}
         /\ Sound(At(pc))
  <1>1. (CHOOSE t \in Tenants : TRUE) \in Tenants
    BY OwnersAssumption
  <1> QED BY <1>1, Mapping DEF At, Opened, Activity, Sound

\* A session that has just been opened.
LEMMA OpenedSession ==
  ASSUME NEW pc \in PCs, NEW t \in Tenants, NEW D \in SUBSET Docs, NEW result \in Results,
         NEW l \in Statuses
  PROVE  \E s \in Activity : /\ s = Opened(pc, t, D, result, l)
                            /\ s.pc = pc /\ s.tenant = t /\ s.docs = D /\ s.loaded = l
  <1> DEFINE s == Opened(pc, t, D, result, l)
  <1>1. s \in Activity /\ s.pc = pc /\ s.tenant = t /\ s.docs = D /\ s.loaded = l
    BY DEF Opened, Activity
  <1>2. s = Opened(pc, t, D, result, l)
    OBVIOUS
  <1> HIDE DEF s
  <1> QED BY <1>1, <1>2

\* Replacing the activity of one process, the tables it relies on being kept.
LEMMA Moves ==
  ASSUME TypeOK, SessionsSound, NEW p \in Processes, NEW s \in Activity, Sound(s)',
         Become(p, s), UNCHANGED <<status, cleaned>>
  PROVE  proc' \in [Processes -> Activity] /\ SessionsSound'
  <1>1. /\ proc \in [Processes -> Activity]
        /\ proc' = [proc EXCEPT ![p] = s]
    BY DEF TypeOK, Become
  <1>2. \A q \in Processes : proc'[q] = IF q = p THEN s ELSE proc[q]
    BY <1>1
  <1>3. SUFFICES ASSUME NEW q \in Processes PROVE Sound(proc[q])'
    BY <1>1 DEF SessionsSound
  <1>4. CASE q = p
    BY <1>2, <1>4 DEF Sound
  <1>5. CASE q # p
    BY <1>2, <1>5 DEF Sound, SessionsSound
  <1> QED BY <1>4, <1>5

LEMMA InitInv == Init => Inv
  <1> SUFFICES ASSUME Init PROVE Inv
    OBVIOUS
  <1>1. TypeOK
    <2>1. proc \in [Processes -> Activity]
      BY AtSound DEF Init, PCs
    <2> QED BY <2>1 DEF Init, TypeOK
  <1>2. SessionsSound
    BY AtSound DEF Init, PCs, SessionsSound
  <1>3. \A d \in Docs : ~InTable(d) /\ status[d] # "ACTIVE"
    BY Mapping DEF Init, InTable
  <1> QED BY <1>1, <1>2, <1>3
            DEF Init, Inv, ReferencesKept, ReturnedWereClean, LastScanDecides, NoHistory

\* A step of one process that leaves the rows of documents alone: its new activity
\* is sound, and what it added to the other tables refers to documents in the table.
LEMMA Quiet ==
  ASSUME Inv, NEW p \in Processes, NEW s \in Activity, Sound(s)', Become(p, s),
         UNCHANGED <<status, last, cleaned, overlapped>>,
         unsynced' \subseteq Docs,
         chunks' \in [Docs -> {"none", "raw", "indexed"}],
         \A d \in Docs : chunks[d] = "none" => chunks'[d] = "none",
         cited' \subseteq Tenants \X Docs,
         \A c \in cited' \ cited : InTable(c[2]) /\ TenantOf[c[2]] = c[1] /\ c[2] \in cleaned
  PROVE  Inv'
  <1>1. proc' \in [Processes -> Activity] /\ SessionsSound'
    BY Moves DEF Inv
  <1>2. TypeOK'
    BY <1>1 DEF Inv, TypeOK
  <1>3. \A d \in Docs : InTable(d)' <=> InTable(d)
    BY DEF InTable
  <1>4. ReferencesKept'
    BY <1>3 DEF Inv, ReferencesKept, TypeOK, InTable
  <1>5. ReturnedWereClean'
    <2> SUFFICES ASSUME NEW d \in Docs, NEW t \in Tenants,
                        status[d] = "ACTIVE" \/ <<t, d>> \in cited'
                 PROVE  d \in cleaned
      BY DEF Inv, ReturnedWereClean
    <2>1. CASE status[d] = "ACTIVE" \/ <<t, d>> \in cited
      BY <2>1 DEF Inv, ReturnedWereClean
    <2>2. CASE <<t, d>> \in cited' \ cited
      BY <2>2
    <2> QED BY <2>1, <2>2
  <1>6. LastScanDecides' /\ NoHistory'
    BY <1>3 DEF Inv, LastScanDecides, NoHistory
  <1> QED BY <1>1, <1>2, <1>4, <1>5, <1>6 DEF Inv

-----------------------------------------------------------------------------
(* The three steps that change a document. *)

LEMMA CreateInv ==
  ASSUME Inv, NEW p \in Processes, NEW d \in Docs, NEW content \in BOOLEAN, Create(p, d, content)
  PROVE  Inv'
  <1> DEFINE s == Opened("sync", TenantOf[d], {d}, "clean", "PENDING")
  <1>1. /\ status[d] = "ABSENT" /\ status' = [status EXCEPT ![d] = "PENDING"]
        /\ chunks' = [chunks EXCEPT ![d] = IF content THEN "raw" ELSE "none"]
        /\ proc' = [proc EXCEPT ![p] = s]
        /\ UNCHANGED <<cited, last, cleaned, overlapped, unsynced>>
    BY DEF Create, Become, observed
  <1>2. TypeOK /\ ReferencesKept /\ ReturnedWereClean /\ LastScanDecides /\ NoHistory /\ SessionsSound
    BY DEF Inv
  <1>3. /\ s \in Activity /\ s.pc = "sync" /\ s.docs = {d}
    BY Mapping, OwnersAssumption DEF Opened, PCs, Activity
  <1>4. status' \in [Docs -> Statuses \union {"ABSENT", "DELETED"}]
    BY <1>1, <1>2, Mapping DEF TypeOK
  <1>5. TypeOK'
    BY <1>1, <1>2, <1>3, <1>4 DEF TypeOK
  <1>6. ~InTable(d) /\ InTable(d)' /\ status'[d] = "PENDING"
    BY <1>1, <1>2, Mapping DEF InTable, TypeOK
  <1>7. \A e \in Docs \ {d} : status'[e] = status[e] /\ chunks'[e] = chunks[e]
                               /\ (InTable(e)' <=> InTable(e))
    BY <1>1, <1>2 DEF TypeOK, InTable
  <1>8. ReferencesKept'
    BY <1>1, <1>2, <1>6, <1>7 DEF ReferencesKept, TypeOK
  <1>9. ReturnedWereClean' /\ LastScanDecides' /\ NoHistory'
    BY <1>1, <1>2, <1>6, <1>7 DEF ReturnedWereClean, LastScanDecides, NoHistory
  <1>10. SessionsSound'
    <2> SUFFICES ASSUME NEW q \in Processes PROVE Sound(proc[q])'
      BY DEF SessionsSound
    <2>1. CASE q = p
      <3>1. proc'[q] = s
        BY <1>1, <1>2, <2>1 DEF TypeOK
      <3> QED BY <3>1, <1>3, <1>6 DEF Sound
    <2>2. CASE q # p
      <3>1. proc'[q] = proc[q] /\ Sound(proc[q]) /\ proc[q] \in Activity
        BY <1>1, <1>2, <2>2 DEF TypeOK, SessionsSound
      <3>2. proc[q].pc = "scan" => d \notin proc[q].docs
        BY <3>1, <1>1 DEF Sound
      <3> QED BY <3>1, <3>2, <1>1, <1>6, <1>7 DEF Sound, Activity
    <2> QED BY <2>1, <2>2
  <1> QED BY <1>5, <1>8, <1>9, <1>10 DEF Inv

\* A document is deleted, or the DELETE fails.
LEMMA CommitDeleteInv ==
  ASSUME Inv, NEW p \in Processes, NEW d \in Docs, CommitDelete(p, d)
  PROVE  Inv'
  <1>1. /\ proc[p].pc = "delete" /\ d \in proc[p].docs
        /\ status' = [status EXCEPT ![d] = IF Referred(d) THEN @ ELSE "DELETED"]
        /\ Become(p, Idle)
        /\ UNCHANGED <<chunks, cited, last, cleaned, overlapped, unsynced>>
    BY DEF CommitDelete, observed
  <1>2. TypeOK /\ ReferencesKept /\ ReturnedWereClean /\ LastScanDecides /\ NoHistory /\ SessionsSound
    BY DEF Inv
  <1>3. CASE Referred(d)
    <2>1. status' = status
      BY <1>1, <1>2, <1>3 DEF TypeOK
    <2>2. Idle \in Activity /\ Sound(Idle)'
      BY AtSound DEF Idle, Sound, PCs
    <2> QED BY <1>1, <1>2, <2>1, <2>2, Quiet DEF TypeOK
  <1>4. CASE ~Referred(d)
    <2>1. /\ status' \in [Docs -> Statuses \union {"ABSENT", "DELETED"}]
          /\ status'[d] = "DELETED" /\ \A e \in Docs \ {d} : status'[e] = status[e]
      BY <1>1, <1>2, <1>4 DEF TypeOK
    <2>2. Idle \in Activity /\ Idle.pc = "idle"
      BY AtSound DEF Idle, PCs
    <2>3. /\ proc' = [proc EXCEPT ![p] = Idle] /\ proc' \in [Processes -> Activity]
          /\ TypeOK'
      BY <1>1, <1>2, <2>1, <2>2 DEF TypeOK, Become
    <2>4. status[d] # "ABSENT"
      BY <1>1, <1>2 DEF SessionsSound, Sound
    <2>5. ~InTable(d)' /\ \A e \in Docs \ {d} : InTable(e)' <=> InTable(e)
      BY <2>1, Mapping DEF InTable
    <2>6. chunks[d] = "none" /\ \A t \in Tenants : <<t, d>> \notin cited
      BY <1>4 DEF Referred
    <2>7. ReferencesKept'
      BY <1>1, <1>2, <2>5, <2>6 DEF ReferencesKept, TypeOK
    <2>8. ReturnedWereClean' /\ LastScanDecides' /\ NoHistory'
      BY <1>1, <1>2, <2>1, <2>5, <2>6 DEF ReturnedWereClean, LastScanDecides, NoHistory
    <2>9. SessionsSound'
      <3> SUFFICES ASSUME NEW q \in Processes PROVE Sound(proc[q])'
        BY DEF SessionsSound
      <3>1. CASE q = p
        BY <3>1, <2>2, <2>3, <1>2 DEF Sound, TypeOK
      <3>2. CASE q # p
        <4>1. proc'[q] = proc[q] /\ Sound(proc[q])
          BY <3>2, <2>3, <1>2 DEF TypeOK, SessionsSound
        <4> QED BY <4>1, <1>1, <2>1 DEF Sound
      <3> QED BY <3>1, <3>2
    <2> QED BY <2>3, <2>7, <2>8, <2>9 DEF Inv
  <1> QED BY <1>3, <1>4

\* The commit of a scan result: the row gets its status, unless the session had
\* loaded a row with that status already, or the row is gone.
LEMMA CommitScanInv ==
  ASSUME Inv, NEW p \in Processes, NEW d \in Docs, CommitScan(p, d)
  PROVE  Inv'
  <1> DEFINE s == proc[p]
             new == StatusMap[s.result]
             succeeds == InTable(d) \/ new = s.loaded
             after == IF succeeds THEN At("refresh") ELSE Idle
  <1>1. TypeOK /\ ReferencesKept /\ ReturnedWereClean /\ LastScanDecides /\ NoHistory /\ SessionsSound
    BY DEF Inv
  <1>2. /\ s.pc = "scan" /\ d \in s.docs
        /\ status' = [status EXCEPT ![d] = Applied(s, d)]
        /\ proc' = [q \in Processes |->
             IF q = p THEN after
             ELSE [proc[q] EXCEPT !.stale =
                     @ \/ (succeeds /\ proc[q].pc = "scan" /\ d \in proc[q].docs)]]
        /\ UNCHANGED <<chunks, cited, unsynced>>
    BY DEF CommitScan
  <1>3. /\ succeeds => /\ last' = [last EXCEPT ![d] = s.result]
                       /\ cleaned' = IF s.result = "clean" THEN cleaned \union {d} ELSE cleaned
                       /\ overlapped' = IF s.stale THEN overlapped \union {d} ELSE overlapped
        /\ ~succeeds => UNCHANGED <<last, cleaned, overlapped>>
    BY DEF CommitScan
  <1>4. /\ s \in Activity /\ s.result \in Results /\ new \in Statuses
        /\ new = "ACTIVE" <=> s.result = "clean"
        /\ s.result = "malware" => new = "QUARANTINED"
    BY <1>1, Mapping DEF TypeOK, Activity
  <1>5. /\ status[d] # "ABSENT"
        /\ ~s.stale => status[d] = s.loaded \/ status[d] = "DELETED"
    BY <1>1, <1>2 DEF SessionsSound, Sound
  <1>6. /\ status' \in [Docs -> Statuses \union {"ABSENT", "DELETED"}]
        /\ status'[d] = Applied(s, d)
        /\ \A e \in Docs \ {d} : status'[e] = status[e]
    BY <1>1, <1>2, <1>4 DEF TypeOK, Applied
  <1>7. /\ InTable(d) => status'[d] = new \/ (status'[d] = status[d] /\ new = s.loaded)
        /\ ~InTable(d) => status'[d] = status[d]
    BY <1>6 DEF Applied
  <1>8. \A e \in Docs : InTable(e)' <=> InTable(e)
    BY <1>1, <1>4, <1>6, <1>7 DEF InTable
  <1>9. after \in Activity /\ after.pc \in {"refresh", "idle"} /\ after.docs = {}
    BY AtSound DEF Idle, PCs
  <1>10. \A q \in Processes : q # p =>
           /\ proc'[q] \in Activity
           /\ proc'[q].pc = proc[q].pc /\ proc'[q].docs = proc[q].docs
           /\ proc'[q].tenant = proc[q].tenant /\ proc'[q].loaded = proc[q].loaded
           /\ proc'[q].stale =
                (proc[q].stale \/ (succeeds /\ proc[q].pc = "scan" /\ d \in proc[q].docs))
    BY <1>1, <1>2 DEF TypeOK, Activity
  <1>11. TypeOK'
    <2>1. proc' \in [Processes -> Activity]
      BY <1>2, <1>9, <1>10
    <2>2. last' \in [Docs -> Results \union {"none"}] /\ cleaned' \subseteq Docs /\ overlapped' \subseteq Docs
      BY <1>1, <1>3, <1>4 DEF TypeOK
    <2> QED BY <1>1, <1>2, <1>6, <2>1, <2>2 DEF TypeOK
  <1>12. ReferencesKept'
    BY <1>1, <1>2, <1>8 DEF ReferencesKept, TypeOK
  <1>13. cleaned \subseteq cleaned' /\ (succeeds /\ new = "ACTIVE" => d \in cleaned')
    BY <1>3, <1>4
  <1>14. ReturnedWereClean'
    <2> SUFFICES ASSUME NEW e \in Docs,
                        status'[e] = "ACTIVE" \/ \E t \in Tenants : <<t, e>> \in cited
                 PROVE  e \in cleaned'
      BY <1>2 DEF ReturnedWereClean
    <2>1. CASE status[e] = "ACTIVE" \/ \E t \in Tenants : <<t, e>> \in cited
      BY <2>1, <1>1, <1>13 DEF ReturnedWereClean
    <2>2. CASE e = d /\ InTable(d) /\ status'[d] = new /\ new = "ACTIVE"
      BY <2>2, <1>13
    <2> QED BY <2>1, <2>2, <1>6, <1>7
  <1>15. LastScanDecides'
    <2> SUFFICES ASSUME NEW e \in Docs, InTable(e)', e \notin overlapped'
                 PROVE  /\ last'[e] = "malware" => status'[e] = "QUARANTINED"
                        /\ status'[e] = "ACTIVE" <=> last'[e] = "clean"
      BY DEF LastScanDecides
    <2>1. CASE e # d
      <3>1. last'[e] = last[e] /\ status'[e] = status[e] /\ InTable(e) /\ e \notin overlapped
        BY <2>1, <1>1, <1>3, <1>6, <1>8 DEF TypeOK
      <3> QED BY <3>1, <1>1 DEF LastScanDecides
    <2>2. CASE e = d
      <3>1. InTable(d) /\ succeeds /\ ~s.stale
        BY <2>2, <1>3, <1>8
      <3>2. status[d] = s.loaded
        BY <3>1, <1>5, Mapping DEF InTable
      <3>3. status'[d] = new
        BY <3>1, <3>2, <1>7
      <3>4. last'[d] = s.result
        BY <3>1, <1>1, <1>3 DEF TypeOK
      <3> QED BY <2>2, <3>3, <3>4, <1>4
    <2> QED BY <2>1, <2>2
  <1>16. status'[d] # "ABSENT"
    <2>1. new # "ABSENT"
      BY <1>4, Mapping
    <2> QED BY <2>1, <1>5, <1>7
  <1>17. NoHistory'
    <2> SUFFICES ASSUME NEW e \in Docs, status'[e] = "ABSENT"
                 PROVE  last'[e] = "none" /\ e \notin cleaned'
      BY DEF NoHistory
    <2>1. e # d /\ status[e] = "ABSENT"
      BY <1>6, <1>16
    <2>2. last'[e] = last[e] /\ (e \in cleaned' => e \in cleaned)
      BY <2>1, <1>1, <1>3 DEF TypeOK
    <2> QED BY <2>1, <2>2, <1>1 DEF NoHistory
  <1>18. SessionsSound'
    <2> SUFFICES ASSUME NEW q \in Processes PROVE Sound(proc[q])'
      BY DEF SessionsSound
    <2>1. CASE q = p
      BY <2>1, <1>2, <1>9 DEF Sound
    <2>2. CASE q # p
      <3>1. Sound(proc[q]) /\ proc[q].docs \subseteq Docs
        BY <1>1 DEF SessionsSound, TypeOK, Activity
      <3>2. \A e \in proc[q].docs : status[e] # "ABSENT" => status'[e] # "ABSENT"
        BY <3>1, <1>6, <1>16
      <3>3. proc[q].pc = "scan" /\ ~proc'[q].stale =>
              \A e \in proc[q].docs : status'[e] = status[e]
        BY <2>2, <3>1, <1>6, <1>7, <1>10
      <3> QED BY <2>2, <3>1, <3>2, <3>3, <1>10, <1>13 DEF Sound
    <2> QED BY <2>1, <2>2
  <1> QED BY <1>11, <1>12, <1>14, <1>15, <1>17, <1>18 DEF Inv

-----------------------------------------------------------------------------
(* The invariant. *)

LEMMA StepInv == Inv /\ [Next]_vars => Inv'
  <1> SUFFICES ASSUME Inv, [Next]_vars PROVE Inv'
    OBVIOUS
  <1>1. TypeOK
    BY DEF Inv
  <1>2. \A pc \in {"idle", "down", "up", "sync", "scan", "delete", "search", "refresh"} : pc \in PCs
    BY DEF PCs
  <1>3. /\ Idle \in Activity /\ Sound(Idle)'
        /\ At("down") \in Activity /\ Sound(At("down"))'
        /\ At("up") \in Activity /\ Sound(At("up"))'
    BY AtSound, <1>2 DEF Idle, Sound
  <1>4. CASE UNCHANGED vars
    <2>1. UNCHANGED <<status, chunks, cited, proc, last, cleaned, overlapped, unsynced>>
      BY <1>4 DEF vars
    <2> QED BY <2>1 DEF Inv, TypeOK, ReferencesKept, ReturnedWereClean, LastScanDecides,
                        NoHistory, SessionsSound, Sound, InTable
  <1>5. ASSUME NEW p \in Processes, Bootstrap(p) PROVE Inv'
    BY <1>1, <1>3, <1>5, Quiet DEF Bootstrap, Indexed, TypeOK, observed
  <1>6. ASSUME NEW p \in Processes, NEW d \in Docs, NEW content \in BOOLEAN, Create(p, d, content)
        PROVE  Inv'
    BY <1>6, CreateInv
  <1>7. ASSUME NEW p \in Processes, NEW t \in Tenants, Search(p, t) PROVE Inv'
    <2>1. Searchable(t) \in SUBSET Docs
      BY DEF Searchable
    <2>2. PICK s \in Activity :
            /\ s = Opened("search", t, Searchable(t), "clean", "PENDING")
            /\ s.pc = "search" /\ s.tenant = t /\ s.docs = Searchable(t)
      BY <2>1, <1>2, Mapping, OpenedSession
    <2>3. Become(p, s) /\ UNCHANGED <<status, chunks, cited, last, cleaned, overlapped, unsynced>>
      BY <1>7, <2>2 DEF Search, observed
    <2>4. \A d \in Searchable(t) : status[d] = "ACTIVE" /\ TenantOf[d] = t /\ d \in cleaned
      BY DEF Searchable, Inv, ReturnedWereClean
    <2>5. Sound(s)'
      BY <2>2, <2>3, <2>4 DEF Sound
    <2> QED BY <1>1, <2>3, <2>5, Quiet DEF TypeOK
  <1>8. ASSUME NEW p \in Processes, NEW t \in Tenants, NEW d \in Docs, LoadDelete(p, t, d)
        PROVE  Inv'
    <2>1. PICK s \in Activity : /\ s = Opened("delete", t, {d}, "clean", "PENDING")
                               /\ s.pc = "delete" /\ s.docs = {d}
      BY <1>2, Mapping, OpenedSession
    <2>2. Become(p, s) /\ UNCHANGED <<status, chunks, cited, last, cleaned, overlapped, unsynced>>
      BY <1>8, <2>1 DEF LoadDelete, observed
    <2>3. status[d] # "ABSENT"
      BY <1>8, Mapping DEF LoadDelete, Found, InTable
    <2>4. Sound(s)'
      BY <2>1, <2>2, <2>3 DEF Sound
    <2> QED BY <1>1, <2>2, <2>4, Quiet DEF TypeOK
  <1>9. ASSUME NEW p \in Processes, NEW t \in Tenants, NEW d \in Docs, NEW result \in Results,
               LoadScan(p, t, d, result)
        PROVE  Inv'
    <2>1. status[d] \in Statuses /\ status[d] # "ABSENT"
      BY <1>9, Mapping DEF LoadScan, Found, InTable
    <2>2. PICK s \in Activity : /\ s = Opened("scan", t, {d}, result, status[d])
                               /\ s.pc = "scan" /\ s.docs = {d} /\ s.loaded = status[d]
      BY <2>1, <1>2, OpenedSession
    <2>3. Become(p, s) /\ UNCHANGED <<status, chunks, cited, last, cleaned, overlapped, unsynced>>
      BY <1>9, <2>2 DEF LoadScan, observed
    <2>4. Sound(s)'
      BY <2>1, <2>2, <2>3 DEF Sound
    <2> QED BY <1>1, <2>3, <2>4, Quiet DEF TypeOK
  <1>10. ASSUME NEW p \in Processes, Sync(p) PROVE Inv'
    BY <1>1, <1>3, <1>10, Quiet DEF Sync, TypeOK, observed
  <1>11. ASSUME NEW p \in Processes, Refresh(p) PROVE Inv'
    BY <1>1, <1>3, <1>11, Quiet DEF Refresh, TypeOK, observed
  <1>12. ASSUME NEW p \in Processes, CommitSearch(p) PROVE Inv'
    <2>1. /\ proc[p].pc = "search" /\ proc[p] \in Activity /\ Sound(proc[p])
          /\ \A c \in cited' \ cited : c \in {proc[p].tenant} \X proc[p].docs /\ Citable(proc[p].docs)
          /\ cited' \subseteq cited \union ({proc[p].tenant} \X proc[p].docs)
      BY <1>1, <1>12 DEF CommitSearch, TypeOK, Inv, SessionsSound
    <2>2. cited' \subseteq Tenants \X Docs
      BY <1>1, <2>1 DEF TypeOK, Activity
    <2>3. \A c \in cited' \ cited : InTable(c[2]) /\ TenantOf[c[2]] = c[1] /\ c[2] \in cleaned
      BY <2>1 DEF Sound, Citable
    <2> QED BY <1>1, <1>3, <1>12, <2>2, <2>3, Quiet DEF CommitSearch, TypeOK, observed
  <1>13. ASSUME NEW p \in Processes, NEW d \in Docs, CommitScan(p, d) PROVE Inv'
    BY <1>13, CommitScanInv
  <1>14. ASSUME NEW p \in Processes, NEW d \in Docs, CommitDelete(p, d) PROVE Inv'
    BY <1>14, CommitDeleteInv
  <1>15. ASSUME NEW p \in Processes, DatabaseError(p) PROVE Inv'
    <2>1. unsynced' \subseteq Docs
      BY <1>1, <1>15 DEF DatabaseError, TypeOK, Activity
    <2> QED BY <1>1, <1>3, <1>15, <2>1, Quiet DEF DatabaseError, TypeOK
  <1>16. ASSUME NEW p \in Processes, Crash(p) PROVE Inv'
    BY <1>1, <1>3, <1>16, Quiet DEF Crash, TypeOK, observed
  <1>17. ASSUME NEW p \in Processes, Start(p) PROVE Inv'
    <2>1. /\ chunks' \in [Docs -> {"none", "raw", "indexed"}]
          /\ \A d \in Docs : chunks[d] = "none" => chunks'[d] = "none"
      BY <1>1, <1>17 DEF Start, Indexed, TypeOK
    <2> QED BY <1>1, <1>3, <1>17, <2>1, Quiet DEF Start, TypeOK, observed
  <1> QED BY <1>4, <1>5, <1>6, <1>7, <1>8, <1>9, <1>10, <1>11, <1>12, <1>13, <1>14, <1>15, <1>16,
             <1>17
            DEF Next, Request, Handle

LEMMA Invariance == Spec => []Inv
  BY InitInv, StepInv, PTL DEF Spec

\* The rows, the sessions and the observers have the shape of the schema.
THEOREM TypeCorrect == Spec => []TypeOK
  <1>1. Inv => TypeOK
    BY DEF Inv
  <1> QED BY <1>1, Invariance, PTL

\* Chunks and search results refer to documents that are there, and a run only to
\* those of its tenant, however searches and deletions overlap.
THEOREM ReferencesStay == Spec => []ReferencesKept
  <1>1. Inv => ReferencesKept
    BY DEF Inv
  <1> QED BY <1>1, Invariance, PTL

\* No search returns a document that was never found clean.
THEOREM FailClosed == Spec => []ReturnedWereClean
  <1>1. Inv => ReturnedWereClean
    BY DEF Inv
  <1> QED BY <1>1, Invariance, PTL

\* The last scan result decides about a document unless two of them overlapped.
THEOREM LastScanStands == Spec => []LastScanDecides
  <1>1. Inv => LastScanDecides
    BY DEF Inv
  <1> QED BY <1>1, Invariance, PTL

\* A document that was deleted stays so: a commit that meets no row writes none.
THEOREM StaysDeleted == Spec => DeletedForGood
  <1>1. ASSUME Inv, [Next]_vars, NEW d \in Docs, status[d] = "DELETED"
        PROVE  status'[d] = "DELETED"
    <2>1. status \in [Docs -> Statuses \union {"ABSENT", "DELETED"}] /\ ~InTable(d)
      BY <1>1, Mapping DEF Inv, TypeOK, InTable
    <2>2. ASSUME NEW p \in Processes, NEW e \in Docs, NEW content \in BOOLEAN, Create(p, e, content)
          PROVE  status'[d] = "DELETED"
      BY <1>1, <2>1, <2>2 DEF Create
    <2>3. ASSUME NEW p \in Processes, NEW e \in Docs, CommitScan(p, e)
          PROVE  status'[d] = "DELETED"
      BY <1>1, <2>1, <2>3 DEF CommitScan, Applied
    <2>4. ASSUME NEW p \in Processes, NEW e \in Docs, CommitDelete(p, e)
          PROVE  status'[d] = "DELETED"
      BY <1>1, <2>1, <2>4 DEF CommitDelete
    <2>5. CASE UNCHANGED status
      BY <1>1, <2>5
    <2> QED BY <1>1, <2>2, <2>3, <2>4, <2>5
              DEF Next, Request, Handle, Start, Bootstrap, Search, LoadDelete, LoadScan, Sync, Refresh,
                  CommitSearch, DatabaseError, Crash, vars
  <1>2. Inv /\ [Next]_vars => [\A d \in Docs : status[d] = "DELETED" => status'[d] = "DELETED"]_vars
    BY <1>1
  <1> QED BY <1>2, Invariance, PTL DEF Spec, DeletedForGood
=============================================================================
