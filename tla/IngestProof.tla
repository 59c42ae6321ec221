---------------------------- MODULE IngestProof ----------------------------
(***************************************************************************)
(* Proofs about Ingest.  The rules of the images table hold whatever runs  *)
(* at the same time.  When the repair and the uploads do not overlap, no   *)
(* acknowledged image is ever lost, for any number of concurrent uploads   *)
(* and crashes: Inv says what an upload may assume about the rows of its   *)
(* checksum from the lookup on, and what the repair may assume about the   *)
(* file it visits.                                                         *)
(*                                                                         *)
(* A report without an issue is right even when they do overlap:           *)
(* HealthyInv carries what each pass of the check has seen over the steps  *)
(* of the uploads to its end.                                              *)
(***************************************************************************)
EXTENDS Ingest, FiniteSetTheorems, TLAPS

LEMMA TypeInit == Init => TypeOK
<1> SUFFICES ASSUME Init PROVE TypeOK
  OBVIOUS
<1>1. IsFiniteSet(rows)
  <2>1. \A r, s \in rows : r = s
    BY DEF Init
  <2>2. CASE rows = {}
    BY <2>2, FS_EmptySet
  <2>3. CASE rows # {}
    <3>1. PICK r : rows = {r}
      BY <2>1, <2>3
    <3>2. IsFiniteSet({r})
      BY FS_Singleton
    <3> QED BY <3>1, <3>2
  <2> QED BY <2>2, <2>3
<1> QED BY <1>1, IngestAssumption DEF Init, TypeOK, Row

LEMMA NewRowType ==
  ASSUME TypeOK, NEW u \in Uploads, pc[u] # "idle"
  PROVE  /\ NewRow(u) \in Row
         /\ NewRow(u).id = job[u].path[1]
         /\ NewRow(u).sha = job[u].sha
         /\ NewRow(u).path = job[u].path
         /\ job[u].sha \in Contents
         /\ job[u].path \in Path
  BY IngestAssumption DEF TypeOK, NewRow, Row, Path, Job

LEMMA TypeNext == TypeOK /\ [Next]_vars => TypeOK'
<1> SUFFICES ASSUME TypeOK, [Next]_vars PROVE TypeOK'
  OBVIOUS
<1> USE IngestAssumption DEF TypeOK, uploadVars, repairVars, reportVars
<1>1. ASSUME NEW u \in Uploads, UploadStart(u) PROVE TypeOK'
  BY <1>1 DEF UploadStart, Job
<1>2. ASSUME NEW u \in Uploads, UploadLookup(u) PROVE TypeOK'
  BY <1>2, NewRowType DEF UploadLookup, Goto, Finish
<1>3. ASSUME NEW u \in Uploads, UploadCommit(u) PROVE TypeOK'
  BY <1>3, NewRowType DEF UploadCommit, Goto, Finish
<1>4. ASSUME NEW u \in Uploads, UploadCreate(u) PROVE TypeOK'
  <2>1. pc[u] # "idle"
    BY <1>4 DEF UploadCreate
  <2>2. rows' \subseteq Row /\ acked' \subseteq Contents
    BY <1>4, <2>1, NewRowType DEF UploadCreate
  <2>3. \A r, s \in rows' : r.id = s.id \/ r.sha = s.sha => r = s
    BY <1>4 DEF UploadCreate, Conflicts
  <2>4. IsFiniteSet(rows')
    BY <1>4, FS_AddElement DEF UploadCreate
  <2> QED BY <1>4, <2>2, <2>3, <2>4 DEF UploadCreate, Goto, Finish
<1>5. ASSUME NEW u \in Uploads, UploadRemove(u) PROVE TypeOK'
  BY <1>5, NewRowType DEF UploadRemove, Goto, Finish
<1>6. ASSUME NEW u \in Uploads, UploadDuplicate(u) PROVE TypeOK'
  BY <1>6, NewRowType DEF UploadDuplicate, Finish
<1>7. CASE CheckReferences
  <2>1. Cardinality(rows \ Existing(rows)) \in Nat
    BY FS_Subset, FS_CardinalityType
  <2>2. {r.path : r \in Existing(rows)} \subseteq Path
    BY DEF Existing, Row
  <2> QED BY <1>7, <2>1, <2>2 DEF CheckReferences
<1>8. CASE CheckScan
  BY <1>8 DEF CheckScan
<1>9. CASE RepairNext
  BY <1>9 DEF RepairNext
<1>10. CASE RepairDigest
  BY <1>10 DEF RepairDigest
<1>11. CASE RepairQuery
  BY <1>11 DEF RepairQuery
<1>12. CASE RepairCreate
  <2>1. IsFiniteSet(rows')
    BY <1>12, FS_AddElement DEF RepairCreate
  <2> QED BY <1>12, <2>1 DEF RepairCreate, Conflicts, Row
<1>13. CASE RepairExisting
  BY <1>13 DEF RepairExisting
<1>14. CASE RepairUpdate
  <2>1. IsFiniteSet(rows')
    <3>1. CASE \E s \in rows : s.sha = digest
      <4>1. PICK s \in rows : s.sha = digest
        BY <3>1
      <4>2. rows' \subseteq rows \cup {[id |-> s.id, sha |-> s.sha, path |-> at]}
        BY <1>14, <4>1 DEF RepairUpdate
      <4>3. IsFiniteSet(rows \cup {[id |-> s.id, sha |-> s.sha, path |-> at]})
        BY FS_AddElement
      <4> QED BY <4>2, <4>3, FS_Subset
    <3>2. CASE \A s \in rows : s.sha # digest
      <4>1. rows' = rows
        BY <1>14, <3>2 DEF RepairUpdate
      <4> QED BY <4>1
    <3> QED BY <3>1, <3>2
  <2> QED BY <1>14, <2>1 DEF RepairUpdate, Row
<1>15. CASE Crash
  BY <1>15, NewRowType DEF Crash, CheckForgotten, Published
<1>16. CASE UNCHANGED vars
  BY <1>16 DEF vars
<1>17. CASE CheckCount
  BY <1>17 DEF CheckCount
<1>18. CASE CheckChecksums
  <2>1. /\ IsFiniteSet(Existing(rows))
        /\ IsFiniteSet({r \in Existing(rows) : ~Served(r)})
    BY FS_Subset DEF Existing
  <2>2. Cardinality({r \in Existing(rows) : ~Served(r)}) \in Nat
    BY <2>1, FS_CardinalityType
  <2> QED BY <1>18, <2>2 DEF CheckChecksums
<1>19. ASSUME NEW u \in Uploads, UploadRemoveFails(u) PROVE TypeOK'
  BY <1>19, NewRowType DEF UploadRemoveFails, Finish
<1>22. ASSUME NEW u \in Uploads, UploadFails(u) PROVE TypeOK'
  BY <1>22 DEF UploadFails, Finish
<1>20. CASE RepairFails
  BY <1>20 DEF RepairFails
<1>21. CASE CheckFails
  BY <1>21 DEF CheckFails, CheckForgotten
<1> QED
  BY <1>1, <1>2, <1>3, <1>4, <1>5, <1>6, <1>7, <1>8, <1>9, <1>10, <1>11, <1>12,
     <1>13, <1>14, <1>15, <1>16, <1>17, <1>18, <1>19, <1>20, <1>21, <1>22
  DEF Next, Upload, Repair

\* The types, and the uniqueness of id and of checksum in the images table,
\* whatever uploads, repair and crashes do.
THEOREM TypeCorrect == Spec => []TypeOK
  BY TypeInit, TypeNext, PTL DEF Spec

-----------------------------------------------------------------------------
(* Uploads and repair apart                                                *)

\* The two never run at the same time; a check alone may run beside uploads.
Apart ==
    /\ ~NoRepair => \A u \in Uploads : pc[u] = "idle"
    /\ rpc \in {"count", "next", "stat", "query", "create", "existing", "update"} => mode # "check"

\* From the moment its lookup found no row until its own insert, every row
\* with the checksum of upload u is served, and from another path.
OwnPath ==
    \A u \in Uploads :
        /\ Published(u) => file[job[u].path] = job[u].sha
        /\ pc[u] = "commit" \/ Published(u) =>
              \A r \in rows : r.sha = job[u].sha => Served(r)
        /\ Published(u) =>
              /\ \A r \in rows : r.sha = job[u].sha => r.path # job[u].path
              /\ \A v \in Uploads : Published(v) /\ v # u => job[v].path # job[u].path

\* The repair knows the checksum of the file it visits, and moves a reference
\* only when the row is not served.
Visited ==
    /\ rpc \in {"query", "create", "existing", "update"} => file[at] = digest
    /\ rpc = "update" => \A r \in BySHA1(digest) : file[r.path] = None

\* Rows are served unless their file was gone at the start, and an
\* acknowledged content has a row.
Recorded ==
    /\ \A r \in rows : r.sha \notin lost => Served(r)
    /\ \A c \in acked : BySHA1(c) # {}

Inv == TypeOK /\ Apart /\ OwnPath /\ Visited /\ Recorded

LEMMA InvInit == Init => Inv
<1> SUFFICES ASSUME Init PROVE Inv
  OBVIOUS
<1>1. TypeOK
  BY TypeInit
<1>2. Apart /\ OwnPath /\ Visited
  BY DEF Init, Apart, NoRepair, OwnPath, Visited, Published
<1>3. Recorded
  BY DEF Init, Recorded, Served
<1> QED BY <1>1, <1>2, <1>3 DEF Inv

\* What a step of an upload does to the rows of the others.
LEMMA UploadKeepsInv ==
  ASSUME ~RepairDuringUploads, Inv, TypeOK', NEW u \in Uploads, Upload(u)
  PROVE  Apart' /\ OwnPath' /\ Visited' /\ Recorded'
<1> USE IngestAssumption DEF Inv
<1>0. NoRepair /\ rpc' = rpc /\ mode' = mode
  BY DEF Upload, UploadStart, UploadLookup, UploadCommit, UploadCreate, UploadRemove,
         UploadRemoveFails, UploadDuplicate, UploadFails, Apart, repairVars, reportVars
<1>1. Apart' /\ Visited'
  BY <1>0 DEF Apart, NoRepair, Visited
<1>2. CASE UploadStart(u)
  BY <1>1, <1>2 DEF UploadStart, OwnPath, Recorded, Served, Published, BySHA1, TypeOK
<1>3. CASE UploadLookup(u)
  BY <1>1, <1>3 DEF UploadLookup, OwnPath, Recorded, Served, Published, BySHA1, TypeOK, Goto, Finish
<1>4. CASE UploadCommit(u)
  <2>1. CASE file[job[u].path] = None
    <3>1. job[u].sha \in Contents /\ job[u].path \in Path /\ job[u].sha # None
      BY <1>4, NewRowType DEF UploadCommit
    <3>2. /\ file' = [file EXCEPT ![job[u].path] = job[u].sha]
          /\ rows' = rows /\ acked' = acked /\ lost' = lost /\ job' = job
          /\ pc' = [pc EXCEPT ![u] = "create"] /\ pc[u] = "commit"
      BY <1>4, <2>1 DEF UploadCommit, Goto
    <3>3. \A r \in rows : Served(r) => Served(r)' /\ r.path # job[u].path
      BY <2>1, <3>1, <3>2 DEF Served, TypeOK, Row
    <3>4. \A v \in Uploads : Published(v) => job[v].path # job[u].path /\ file'[job[v].path] = job[v].sha
      <4> SUFFICES ASSUME NEW v \in Uploads, Published(v)
                   PROVE  job[v].path # job[u].path /\ file'[job[v].path] = job[v].sha
        OBVIOUS
      <4>1. job[v].sha \in Contents /\ job[v].path \in Path
        BY NewRowType DEF Published
      <4> QED BY <2>1, <3>2, <4>1 DEF OwnPath, TypeOK
    <3>5. OwnPath'
      BY <3>1, <3>2, <3>3, <3>4 DEF OwnPath, Published, TypeOK
    <3>6. Recorded'
      BY <3>2, <3>3 DEF Recorded, BySHA1
    <3> QED BY <1>1, <3>5, <3>6
  <2>2. CASE file[job[u].path] # None
    BY <1>1, <1>4, <2>2 DEF UploadCommit, OwnPath, Recorded, Served, Published, BySHA1, TypeOK, Finish
  <2> QED BY <2>1, <2>2
<1>5. CASE UploadCreate(u)
  <2>1. pc[u] = "create" /\ file' = file /\ lost' = lost
    BY <1>5 DEF UploadCreate
  <2>2. CASE rows' = rows /\ acked' = acked
    BY <1>1, <1>5, <2>1, <2>2
       DEF UploadCreate, OwnPath, Recorded, Served, Published, BySHA1, TypeOK, Goto, Finish
  <2>3. CASE rows' = rows \cup {NewRow(u)} /\ acked' = acked \cup {job[u].sha} /\ Finish(u)
    <3>1. /\ NewRow(u).sha = job[u].sha /\ NewRow(u).path = job[u].path
          /\ file[job[u].path] = job[u].sha
      BY <2>1, NewRowType DEF OwnPath, Published
    <3>2. \A v \in Uploads : v # u => pc'[v] = pc[v] /\ job'[v] = job[v]
      BY <2>3 DEF Finish, TypeOK
    <3>3. pc'[u] = "idle"
      BY <2>3 DEF Finish, TypeOK
    <3>4. OwnPath'
      BY <2>1, <2>3, <3>1, <3>2, <3>3 DEF OwnPath, Published, Served
    <3>5. Recorded'
      BY <2>1, <2>3, <3>1 DEF Recorded, BySHA1, Served
    <3> QED BY <1>1, <3>4, <3>5
  <2> QED BY <1>5, <2>2, <2>3 DEF UploadCreate
<1>6. CASE UploadRemove(u)
  <2>1. /\ Published(u) /\ pc[u] # "idle"
        /\ file' = [file EXCEPT ![job[u].path] = None]
        /\ rows' = rows /\ acked' = acked /\ lost' = lost
        /\ pc'[u] \in {"duplicate", "idle"}
        /\ \A v \in Uploads : v # u => pc'[v] = pc[v] /\ job'[v] = job[v]
    BY <1>6 DEF UploadRemove, Goto, Finish, Published, TypeOK
  <2>2. job[u].path \in Path /\ file[job[u].path] = job[u].sha
    BY <2>1, NewRowType DEF OwnPath
  <2>3. \A r \in rows : Served(r) => Served(r)'
    BY <2>1, <2>2 DEF Served, OwnPath, TypeOK, Row
  <2>4. \A v \in Uploads : v # u /\ Published(v) => file'[job[v].path] = job[v].sha
    BY <2>1, <2>2, NewRowType DEF OwnPath, TypeOK, Published
  <2>5. OwnPath'
    BY <2>1, <2>3, <2>4 DEF OwnPath, Published
  <2>6. Recorded'
    BY <2>1, <2>3 DEF Recorded, BySHA1
  <2> QED BY <1>1, <2>5, <2>6
<1>7. CASE UploadDuplicate(u)
  BY <1>1, <1>7 DEF UploadDuplicate, OwnPath, Recorded, Served, Published, BySHA1, TypeOK, Finish
<1>8. CASE UploadRemoveFails(u)
  <2>1. /\ file' = file /\ rows' = rows /\ acked' = acked /\ lost' = lost
        /\ pc'[u] = "idle"
        /\ \A v \in Uploads : v # u => pc'[v] = pc[v] /\ job'[v] = job[v]
    BY <1>8 DEF UploadRemoveFails, Finish, TypeOK
  <2> QED BY <1>1, <2>1 DEF OwnPath, Recorded, Served, Published, BySHA1
<1>9. CASE UploadFails(u)
  BY <1>1, <1>9 DEF UploadFails, OwnPath, Recorded, Served, Published, BySHA1, TypeOK, Finish
<1> QED BY <1>2, <1>3, <1>4, <1>5, <1>6, <1>7, <1>8, <1>9 DEF Upload

\* What a step of the repair, or a crash, does.
LEMMA RepairKeepsInv ==
  ASSUME ~RepairDuringUploads, Inv, TypeOK', Repair
  PROVE  Apart' /\ OwnPath' /\ Visited' /\ Recorded'
<1> USE IngestAssumption DEF Inv
<1>1. pc' = pc /\ job' = job
  BY DEF Repair, CheckCount, CheckReferences, CheckChecksums, CheckScan, RepairNext, RepairDigest,
         RepairQuery, RepairCreate, RepairExisting, RepairUpdate, RepairFails, CheckFails,
         CheckForgotten, uploadVars
<1>2. Apart'
  BY <1>1 DEF Repair, CheckCount, CheckReferences, CheckChecksums, CheckScan, RepairNext,
         RepairDigest, RepairQuery, RepairCreate, RepairExisting, RepairUpdate, RepairFails,
         CheckFails, CheckForgotten, Apart, NoRepair,
         reportVars
<1>3. file' = file /\ lost' = lost /\ acked' = acked
  BY DEF Repair, CheckCount, CheckReferences, CheckChecksums, CheckScan, RepairNext, RepairDigest,
         RepairQuery, RepairCreate, RepairExisting, RepairUpdate, RepairFails, CheckFails,
         CheckForgotten
<1>4. ASSUME rows' = rows, Visited' PROVE OwnPath' /\ Visited' /\ Recorded'
  BY <1>1, <1>3, <1>4 DEF OwnPath, Published, Recorded, Served, BySHA1
<1>5. CASE \/ CheckCount \/ CheckReferences \/ CheckChecksums \/ CheckScan
           \/ RepairNext \/ RepairDigest \/ RepairQuery \/ RepairFails \/ CheckFails
  <2>1. rows' = rows /\ Visited'
    BY <1>3, <1>5 DEF CheckCount, CheckReferences, CheckChecksums, CheckScan, RepairNext,
                      RepairDigest, RepairQuery, RepairFails, CheckFails, CheckForgotten, Visited
  <2> QED BY <1>2, <1>4, <2>1
\* No upload runs while a repair changes rows.
<1>9. ASSUME RepairCreate \/ RepairUpdate PROVE OwnPath'
  <2>1. \A u \in Uploads : pc[u] = "idle"
    BY <1>9 DEF RepairCreate, RepairUpdate, Apart, NoRepair
  <2> QED BY <1>1, <2>1 DEF OwnPath, Published
<1>6. CASE RepairCreate
  <2>1. Visited'
    BY <1>6 DEF RepairCreate, Visited
  <2>2. Recorded'
    BY <1>3, <1>6 DEF RepairCreate, Recorded, Visited, Served, BySHA1
  <2> QED BY <1>2, <1>6, <1>9, <2>1, <2>2
<1>7. CASE RepairExisting
  <2>1. Visited'
    BY <1>3, <1>7 DEF RepairExisting, Visited, BySHA1, TypeOK
  <2> QED BY <1>2, <1>4, <1>7, <2>1 DEF RepairExisting
<1>8. CASE RepairUpdate
  <2>1. Visited'
    BY <1>8 DEF RepairUpdate, Visited
  <2> DEFINE moved(r) == IF r.sha = digest THEN [id |-> r.id, sha |-> r.sha, path |-> at] ELSE r
  <2>2. rows' = {moved(r) : r \in rows} /\ file[at] = digest
    BY <1>8 DEF RepairUpdate, Visited
  <2>3. \A r \in rows : moved(r).sha = r.sha /\ (moved(r) = r \/ file[moved(r).path] = r.sha)
    BY <2>2
  <2>4. \A s \in rows' : s.sha \notin lost => file[s.path] = s.sha
    <3> SUFFICES ASSUME NEW r \in rows, moved(r).sha \notin lost
                 PROVE  file[moved(r).path] = moved(r).sha
      BY <2>2
    <3> QED BY <2>3 DEF Recorded, Served
  <2>5. \A c \in acked : \E s \in rows' : s.sha = c
    <3> SUFFICES ASSUME NEW c \in acked PROVE \E s \in rows' : s.sha = c
      OBVIOUS
    <3>1. PICK r \in rows : r.sha = c
      BY DEF Recorded, BySHA1
    <3>2. moved(r) \in rows' /\ moved(r).sha = c
      BY <2>2, <2>3, <3>1
    <3> QED BY <3>2
  <2>6. Recorded'
    BY <1>3, <2>4, <2>5 DEF Recorded, Served, BySHA1
  <2> QED BY <1>2, <1>8, <1>9, <2>1, <2>6
<1> QED BY <1>5, <1>6, <1>7, <1>8 DEF Repair

LEMMA InvNext == ~RepairDuringUploads /\ Inv /\ [Next]_vars => Inv'
<1> SUFFICES ASSUME ~RepairDuringUploads, Inv, [Next]_vars PROVE Inv'
  OBVIOUS
<1>1. TypeOK'
  BY TypeNext DEF Inv
<1>2. ASSUME NEW u \in Uploads, Upload(u) PROVE Inv'
  BY <1>1, <1>2, UploadKeepsInv DEF Inv
<1>3. CASE Repair
  BY <1>1, <1>3, RepairKeepsInv DEF Inv
<1>4. CASE Crash
  <2>1. Apart' /\ OwnPath' /\ Visited'
    BY <1>4 DEF Crash, CheckForgotten, Apart, NoRepair, OwnPath, Visited, Published
  <2>2. Recorded'
    BY <1>4 DEF Crash, Inv, Recorded, Served, BySHA1
  <2> QED BY <1>1, <2>1, <2>2 DEF Inv
<1>5. CASE UNCHANGED vars
  <2>1. Apart' /\ OwnPath' /\ Visited' /\ Recorded'
    BY <1>5 DEF vars, uploadVars, repairVars, reportVars, Inv, Apart, NoRepair, OwnPath, Visited, Recorded,
                Served, BySHA1, Published
  <2> QED BY <1>1, <2>1 DEF Inv
<1> QED BY <1>2, <1>3, <1>4, <1>5 DEF Next

\* An image whose upload was answered with success stays stored, for any
\* number of overlapping uploads of the same content or with the same
\* requested identifier, and across crashes.
THEOREM AcknowledgedStays ==
  ASSUME ~RepairDuringUploads
  PROVE  Spec => []AcknowledgedIsStored
<1>1. Inv => AcknowledgedIsStored
  BY DEF Inv, Recorded, AcknowledgedIsStored, BySHA1
<1> QED BY <1>1, InvInit, InvNext, PTL DEF Spec

\* No rollback of an upload takes a file that a row refers to.
THEOREM RollbackIsOwn ==
  ASSUME ~RepairDuringUploads
  PROVE  Spec => ReferencedFileStays
<1>1. ASSUME Inv, [Next]_vars
      PROVE  [\A r \in rows : Served(r) => file'[r.path] = r.sha]_vars
  <2> SUFFICES ASSUME NEW r \in rows, Served(r), Next PROVE file'[r.path] = r.sha
    BY <1>1
  <2>1. CASE file' = file
    BY <2>1 DEF Served
  <2>2. ASSUME NEW u \in Uploads, UploadCommit(u) PROVE file'[r.path] = r.sha
    BY <1>1, <2>2, IngestAssumption DEF UploadCommit, Served, Inv, TypeOK, Row
  <2>3. ASSUME NEW u \in Uploads, UploadRemove(u) PROVE file'[r.path] = r.sha
    <3>1. Published(u) /\ file' = [file EXCEPT ![job[u].path] = None]
      BY <2>3 DEF UploadRemove, Published
    <3>2. r.path # job[u].path
      BY <1>1, <3>1 DEF Inv, OwnPath, Served
    <3> QED BY <1>1, <3>1, <3>2 DEF Served, Inv, TypeOK, Row
  <2> QED BY <2>1, <2>2, <2>3
          DEF Next, Upload, UploadStart, UploadLookup, UploadCreate, UploadRemoveFails,
              UploadDuplicate, UploadFails, Repair, CheckCount, CheckReferences, CheckChecksums,
              CheckScan, RepairNext, RepairDigest, RepairQuery,
              RepairCreate, RepairExisting, RepairUpdate, RepairFails, CheckFails, Crash
<1> QED BY <1>1, InvInit, InvNext, PTL DEF Spec, ReferencedFileStays

\* No row that is served is changed or deleted: the repair moves a reference
\* only when its file is gone.
THEOREM ServedRowsStay ==
  ASSUME ~RepairDuringUploads
  PROVE  Spec => ServedRowStays
<1>1. ASSUME Inv, [Next]_vars
      PROVE  [\A r \in rows : Served(r) => r \in rows']_vars
  <2> SUFFICES ASSUME NEW r \in rows, Served(r), Next PROVE r \in rows'
    BY <1>1
  <2>1. CASE RepairUpdate
    <3>1. r.sha # digest
      BY <1>1, <2>1, IngestAssumption DEF RepairUpdate, Inv, Visited, BySHA1, Served, TypeOK
    <3> QED BY <2>1, <3>1 DEF RepairUpdate
  <2>2. CASE RepairCreate
    BY <2>2 DEF RepairCreate
  <2>3. ASSUME NEW u \in Uploads, Upload(u) PROVE r \in rows'
    BY <2>3 DEF Upload, UploadStart, UploadLookup, UploadCommit, UploadCreate, UploadRemove,
                UploadRemoveFails, UploadDuplicate, UploadFails
  <2> QED BY <2>1, <2>2, <2>3
          DEF Next, Repair, CheckCount, CheckReferences, CheckChecksums, CheckScan, RepairNext,
              RepairDigest,
              RepairQuery, RepairExisting, RepairFails, CheckFails, Crash
<1> QED BY <1>1, InvInit, InvNext, PTL DEF Spec, ServedRowStays

\* An upload never runs while a repair changes rows.
LEMMA UploadsApart ==
  ASSUME ~RepairDuringUploads, Inv, NEW u \in Uploads, Upload(u)
  PROVE  NoRepair /\ rpc' = rpc /\ mode' = mode
  BY DEF Inv, Upload, UploadStart, UploadLookup, UploadCommit, UploadCreate, UploadRemove,
         UploadRemoveFails, UploadDuplicate, UploadFails, Apart, repairVars, reportVars

\* A file without a row belongs to a running upload, or a crash, a failed
\* removal or an earlier run left it: the repair takes a row only from a file
\* that is gone.
THEOREM OrphansExplained ==
  ASSUME ~RepairDuringUploads
  PROVE  Spec => []OrphansAreExplained
<1>1. Init => OrphansAreExplained
  BY DEF Init, OrphansAreExplained
<1>2. Inv /\ OrphansAreExplained /\ [Next]_vars => OrphansAreExplained'
  <2> SUFFICES ASSUME Inv, OrphansAreExplained, [Next]_vars, NEW p \in Path, file'[p] # None
               PROVE  \/ \E r \in rows' : r.path = p
                      \/ p \in left'
                      \/ \E u \in Uploads : Published(u)' /\ job'[u].path = p
    BY DEF OrphansAreExplained
  <2>1. ASSUME NEW u \in Uploads, UploadCommit(u), file[p] = None
        PROVE  Published(u)' /\ job'[u].path = p
    BY <2>1, NewRowType DEF UploadCommit, Goto, Finish, Published, Inv, TypeOK
  <2>2. ASSUME NEW u \in Uploads, Upload(u), file[p] # None
        PROVE  \/ \E r \in rows' : r.path = p
               \/ p \in left'
               \/ \E v \in Uploads : Published(v)' /\ job'[v].path = p
    <3>1. /\ rows \subseteq rows' /\ left \subseteq left'
          /\ \A v \in Uploads : v # u => pc'[v] = pc[v] /\ job'[v] = job[v]
      BY <2>2 DEF Upload, UploadStart, UploadLookup, UploadCommit, UploadCreate, UploadRemove,
                  UploadRemoveFails, UploadDuplicate, UploadFails, Goto, Finish, Inv, TypeOK
    <3>2. CASE (\E r \in rows : r.path = p) \/ p \in left
      BY <3>1, <3>2
    <3>3. ASSUME NEW v \in Uploads, Published(v), job[v].path = p, v # u
          PROVE  Published(v)' /\ job'[v].path = p
      BY <3>1, <3>3 DEF Published
    <3>4. CASE Published(u) /\ job[u].path = p
      <4>1. CASE UploadCreate(u)
        <5>1. NewRow(u).path = p
          BY <3>4, NewRowType DEF Published, Inv
        <5> QED BY <3>4, <4>1, <5>1 DEF UploadCreate, Goto, Finish, Published, Inv, TypeOK
      <4>2. CASE UploadRemove(u)
        BY <3>4, <4>2 DEF UploadRemove, Inv, TypeOK
      <4>3. CASE UploadRemoveFails(u)
        BY <3>4, <4>3 DEF UploadRemoveFails
      <4> QED BY <2>2, <3>4, <4>1, <4>2, <4>3
              DEF Upload, UploadStart, UploadLookup, UploadCommit, UploadDuplicate, UploadFails, Published
    <3> QED BY <2>2, <3>2, <3>3, <3>4 DEF OrphansAreExplained
  <2>3. ASSUME NEW u \in Uploads, Upload(u), file[p] = None
        PROVE  UploadCommit(u)
    BY <2>3, NewRowType, IngestAssumption
       DEF Upload, UploadStart, UploadLookup, UploadCreate, UploadRemove, UploadRemoveFails,
           UploadDuplicate, UploadFails, Inv, TypeOK
  <2>4. CASE Repair
    <3>1. file' = file /\ left' = left /\ pc' = pc /\ job' = job
      BY <2>4 DEF Repair, CheckCount, CheckReferences, CheckChecksums, CheckScan, RepairNext,
                  RepairDigest, RepairQuery, RepairCreate, RepairExisting, RepairUpdate,
                  RepairFails, CheckFails, CheckForgotten, uploadVars
    <3>2. CASE RepairUpdate
      <4>1. ASSUME NEW r \in rows, r.path = p PROVE \E s \in rows' : s.path = p
        <5>1. r.sha # digest
          BY <3>1, <3>2, <4>1 DEF RepairUpdate, Inv, Visited, BySHA1
        <5> QED BY <3>2, <4>1, <5>1 DEF RepairUpdate
      <4> QED BY <3>1, <4>1 DEF OrphansAreExplained, Published
    <3>3. CASE ~RepairUpdate
      <4>1. rows \subseteq rows'
        BY <2>4, <3>3 DEF Repair, CheckCount, CheckReferences, CheckChecksums, CheckScan,
             RepairNext, RepairDigest, RepairQuery, RepairCreate, RepairExisting, RepairFails,
             CheckFails
      <4> QED BY <3>1, <4>1 DEF OrphansAreExplained, Published
    <3> QED BY <3>2, <3>3
  <2>5. CASE Crash
    BY <2>5 DEF Crash, OrphansAreExplained
  <2>6. CASE UNCHANGED vars
    BY <2>6 DEF vars, uploadVars, OrphansAreExplained, Published
  <2> QED BY <2>1, <2>2, <2>3, <2>4, <2>5, <2>6 DEF Next
<1> QED BY <1>1, <1>2, InvInit, InvNext, PTL DEF Spec

-----------------------------------------------------------------------------
(* A healthy report                                                        *)

\* What the check knows between two of its passes, uploads in between: a row
\* it counted is still there, and its file was there in the first pass and the
\* right one in the second, if no issue was found, unless an upload failed at
\* that path.
Passes ==
    /\ rpc \in {"references", "checksums", "scan"} => counted \subseteq rows
    /\ rpc = "checksums" /\ issues = 0 =>
          \A r \in counted : file[r.path] # None \/ r.path \in failed
    /\ rpc = "scan" /\ issues = 0 =>
          \A r \in counted : Served(r) \/ r.path \in failed
    /\ rpc \in {"checksums", "scan"} => \A p \in seen : \E r \in rows : r.path = p
    /\ verdict = "healthy" => rpc = "idle" /\ counted \subseteq Row

HealthyInv == TypeOK /\ Passes /\ HealthyIsSound

LEMMA HealthyInit == Init => HealthyInv
<1> SUFFICES ASSUME Init PROVE HealthyInv
  OBVIOUS
<1>1. TypeOK
  BY TypeInit
<1>2. Passes /\ HealthyIsSound
  BY DEF Init, Passes, HealthyIsSound
<1> QED BY <1>1, <1>2 DEF HealthyInv

\* An upload keeps the check's own variables and every row; a file that
\* disappears is at a path where an upload failed.
LEMMA UploadKeepsHealthy ==
  ASSUME HealthyInv, TypeOK', NEW u \in Uploads, Upload(u)
  PROVE  Passes' /\ HealthyIsSound'
<1> USE IngestAssumption DEF HealthyInv
<1>1. /\ rpc' = rpc /\ counted' = counted /\ issues' = issues /\ verdict' = verdict
      /\ seen' = seen /\ rows \subseteq rows' /\ failed \subseteq failed'
      /\ \A v \in Uploads : v # u => pc'[v] = pc[v] /\ job'[v] = job[v]
  BY DEF Upload, UploadStart, UploadLookup, UploadCommit, UploadCreate, UploadRemove,
         UploadRemoveFails, UploadDuplicate, UploadFails, repairVars, reportVars, Goto, Finish, TypeOK
<1>2. \A p \in Path : file[p] # None => file'[p] = file[p] \/ p \in failed'
  <2>1. CASE UploadCommit(u)
    BY <2>1, NewRowType DEF UploadCommit, TypeOK
  <2>2. CASE UploadRemove(u)
    <3>1. job[u].path \in Path /\ file' = [file EXCEPT ![job[u].path] = None]
      BY <2>2, NewRowType DEF UploadRemove
    <3>2. job[u].path \in failed'
      BY <2>2 DEF UploadRemove
    <3> QED BY <3>1, <3>2 DEF TypeOK
  <2>3. CASE ~UploadCommit(u) /\ ~UploadRemove(u)
    BY <2>3 DEF Upload, UploadStart, UploadLookup, UploadCreate, UploadRemoveFails, UploadDuplicate, UploadFails
  <2> QED BY <2>1, <2>2, <2>3
<1>3. counted \subseteq Row
  BY DEF TypeOK
<1>4. \A r \in counted : /\ r.path \in Path /\ r.sha # None
                         /\ Served(r) \/ r.path \in failed => Served(r)' \/ r.path \in failed'
  <2>1. \A r \in counted : r.path \in Path /\ r.sha \in Contents
    BY <1>3 DEF Row
  <2>2. \A r \in counted : Served(r) => Served(r)' \/ r.path \in failed'
    BY <1>2, <2>1 DEF Served, TypeOK
  <2> QED BY <1>1, <2>1, <2>2
<1>5. Passes'
  <2>1. rpc = "checksums" /\ issues = 0 =>
          \A r \in counted : file'[r.path] # None \/ r.path \in failed'
    BY <1>1, <1>2, <1>4 DEF Passes
  <2>2. rpc = "scan" /\ issues = 0 => \A r \in counted : Served(r)' \/ r.path \in failed'
    BY <1>4 DEF Passes
  <2>3. rpc \in {"checksums", "scan"} => \A p \in seen : \E r \in rows' : r.path = p
    BY <1>1 DEF Passes
  <2>4. rpc \in {"references", "checksums", "scan"} => counted \subseteq rows'
    BY <1>1 DEF Passes
  <2> QED BY <1>1, <1>3, <2>1, <2>2, <2>3, <2>4 DEF Passes, Served
<1>6. ASSUME NEW p \in Path, file'[p] # None, verdict = "healthy"
      PROVE  \/ \E r \in rows' : r.path = p
             \/ p \in failed'
             \/ \E v \in Uploads : Published(v)' /\ job'[v].path = p
  <2>1. CASE file[p] = None
    <3>1. UploadCommit(u) /\ pc'[u] = "create" /\ job' = job /\ job[u].path = p
      <4>1. UploadCommit(u)
        BY <1>6, <2>1, NewRowType DEF Upload, UploadStart, UploadLookup, UploadCommit, UploadCreate,
             UploadRemove, UploadRemoveFails, UploadDuplicate, UploadFails, TypeOK
      <4> QED BY <1>6, <2>1, <4>1, NewRowType DEF UploadCommit, Goto, Finish, TypeOK
    <3> QED BY <3>1 DEF Published
  <2>2. CASE file[p] # None
    <3>1. CASE \E r \in rows : r.path = p
      BY <1>1, <3>1
    <3>2. CASE p \in failed
      BY <1>1, <3>2
    <3>3. CASE \E v \in Uploads : Published(v) /\ job[v].path = p
      <4>1. PICK v \in Uploads : Published(v) /\ job[v].path = p
        BY <3>3
      <4>2. CASE v # u
        BY <1>1, <4>1, <4>2 DEF Published
      <4>3. CASE v = u
        <5>1. CASE UploadCreate(u)
          <6>1. NewRow(u).path = p
            BY <4>1, <4>3, NewRowType DEF Published
          <6> QED BY <4>1, <4>3, <5>1, <6>1 DEF UploadCreate, Goto, Finish, Published, TypeOK
        <5>2. CASE UploadRemove(u) \/ UploadRemoveFails(u)
          BY <4>1, <4>3, <5>2 DEF UploadRemove, UploadRemoveFails
        <5> QED BY <4>1, <4>3, <5>1, <5>2
                DEF Upload, UploadStart, UploadLookup, UploadCommit, UploadDuplicate, UploadFails, Published
      <4> QED BY <4>2, <4>3
    <3> QED BY <1>6, <2>2, <3>1, <3>2, <3>3 DEF HealthyIsSound
  <2> QED BY <2>1, <2>2
<1>7. HealthyIsSound'
  <2>1. verdict = "healthy" => \A r \in counted : Served(r)' \/ r.path \in failed'
    BY <1>4 DEF HealthyIsSound
  <2> QED BY <1>1, <1>6, <2>1 DEF HealthyIsSound
<1> QED BY <1>5, <1>7

\* A pass of the check, or a step of the repair.
LEMMA RepairKeepsHealthy ==
  ASSUME HealthyInv, TypeOK', Repair
  PROVE  Passes' /\ HealthyIsSound'
<1> USE IngestAssumption DEF HealthyInv
<1>1. CASE CheckCount
  BY <1>1 DEF CheckCount, Passes, HealthyIsSound
<1>2. CASE CheckReferences
  <2>1. /\ file' = file /\ rows' = rows /\ counted' = counted /\ failed' = failed
        /\ rpc = "references" /\ rpc' = "checksums" /\ verdict' = verdict
        /\ seen' = {r.path : r \in Existing(rows)}
        /\ issues' = issues + Cardinality(rows \ Existing(rows))
    BY <1>2 DEF CheckReferences
  <2>2. verdict # "healthy" /\ counted \subseteq rows
    BY <2>1 DEF Passes
  <2>3. issues' = 0 => rows \ Existing(rows) = {}
    <3>1. IsFiniteSet(rows \ Existing(rows))
      BY FS_Subset DEF TypeOK
    <3>2. Cardinality(rows \ Existing(rows)) \in Nat
      BY <3>1, FS_CardinalityType
    <3>3. issues' = 0 => Cardinality(rows \ Existing(rows)) = 0
      BY <2>1, <3>2 DEF TypeOK
    <3> QED BY <3>1, <3>3, FS_EmptySet
  <2>4. issues' = 0 => \A r \in counted : file[r.path] # None
    BY <2>2, <2>3 DEF Existing
  <2>5. \A p \in seen' : \E r \in rows : r.path = p
    BY <2>1 DEF Existing
  <2> QED BY <2>1, <2>2, <2>4, <2>5 DEF Passes, HealthyIsSound
<1>3. CASE CheckChecksums
  <2> DEFINE differ == {r \in Existing(rows) : ~Served(r)}
  <2>1. /\ file' = file /\ rows' = rows /\ counted' = counted /\ failed' = failed
        /\ rpc = "checksums" /\ rpc' = "scan" /\ verdict' = verdict /\ seen' = seen
        /\ issues' = issues + Cardinality(differ)
                     + IF Cardinality(Existing(rows)) = Cardinality(counted) THEN 0 ELSE 1
    BY <1>3 DEF CheckChecksums
  <2>2. verdict # "healthy" /\ counted \subseteq rows
    BY <2>1 DEF Passes
  <2>3. issues' = 0 => issues = 0 /\ differ = {}
    <3>1. IsFiniteSet(Existing(rows))
      BY FS_Subset DEF Existing, TypeOK
    <3>2. IsFiniteSet(differ)
      BY <3>1, FS_Subset
    <3>3. Cardinality(differ) \in Nat
      BY <3>2, FS_CardinalityType
    <3> HIDE DEF differ
    <3>4. issues' = 0 => issues = 0 /\ Cardinality(differ) = 0
      BY <2>1, <3>3 DEF TypeOK
    <3> QED BY <3>2, <3>4, FS_EmptySet
  <2>4. issues' = 0 => \A r \in counted : Served(r) \/ r.path \in failed
    <3> SUFFICES ASSUME issues' = 0, NEW r \in counted, r.path \notin failed PROVE Served(r)
      OBVIOUS
    <3>1. r \in Existing(rows)
      BY <2>1, <2>2, <2>3 DEF Passes, Existing
    <3> QED BY <2>3, <3>1
  <2>5. \A p \in seen' : \E r \in rows : r.path = p
    BY <2>1 DEF Passes
  <2> QED BY <2>1, <2>2, <2>4, <2>5 DEF Passes, HealthyIsSound, Served
<1>4. CASE CheckScan
  <2>1. /\ file' = file /\ rows' = rows /\ counted' = counted /\ failed' = failed
        /\ rpc = "scan" /\ rpc' \in {"idle", "next"} /\ pc' = pc /\ job' = job
        /\ verdict' = "healthy" => /\ rpc' = "idle"
                                   /\ issues = 0
                                   /\ {p \in Path : file[p] # None} \ seen = {}
    BY <1>4 DEF CheckScan, uploadVars
  <2>2. counted \subseteq Row /\ counted \subseteq rows
    BY <2>1 DEF Passes, TypeOK
  <2>3. ASSUME verdict' = "healthy"
        PROVE  /\ \A r \in counted : Served(r) \/ r.path \in failed
               /\ \A p \in Path : file[p] # None => \E r \in rows : r.path = p
    BY <2>1, <2>3 DEF Passes
  <2> QED BY <2>1, <2>2, <2>3 DEF Passes, HealthyIsSound, Served
<1>5. CASE RepairNext \/ RepairDigest \/ RepairQuery \/ RepairCreate \/ RepairExisting \/ RepairUpdate
  <2>1. /\ rpc \in {"next", "stat", "query", "create", "existing", "update"}
        /\ rpc' \in {"count", "next", "stat", "query", "create", "existing", "update"}
        /\ verdict' = verdict
    BY <1>5 DEF RepairNext, RepairDigest, RepairQuery, RepairCreate, RepairExisting, RepairUpdate,
                reportVars
  <2> QED BY <2>1 DEF Passes, HealthyIsSound
<1>6. CASE RepairFails
  BY <1>6 DEF RepairFails, Passes, HealthyIsSound
<1>7. CASE CheckFails
  BY <1>7 DEF CheckFails, CheckForgotten, Passes, HealthyIsSound
<1> QED BY <1>1, <1>2, <1>3, <1>4, <1>5, <1>6, <1>7 DEF Repair

LEMMA HealthyNext == HealthyInv /\ [Next]_vars => HealthyInv'
<1> SUFFICES ASSUME HealthyInv, [Next]_vars PROVE HealthyInv'
  OBVIOUS
<1>1. TypeOK'
  BY TypeNext DEF HealthyInv
<1>2. ASSUME NEW u \in Uploads, Upload(u) PROVE HealthyInv'
  BY <1>1, <1>2, UploadKeepsHealthy DEF HealthyInv
<1>3. CASE Repair
  BY <1>1, <1>3, RepairKeepsHealthy DEF HealthyInv
<1>4. CASE Crash
  BY <1>1, <1>4 DEF Crash, CheckForgotten, HealthyInv, Passes, HealthyIsSound
<1>5. CASE UNCHANGED vars
  BY <1>1, <1>5 DEF vars, uploadVars, repairVars, reportVars, HealthyInv, Passes, HealthyIsSound,
                    Served, Published
<1> QED BY <1>2, <1>3, <1>4, <1>5 DEF Next

\* A report without an issue is true, whatever uploads and repairs do while
\* it is made and after it.
THEOREM HealthyReports == Spec => []HealthyIsSound
<1>1. HealthyInv => HealthyIsSound
  BY DEF HealthyInv
<1> QED BY <1>1, HealthyInit, HealthyNext, PTL DEF Spec

-----------------------------------------------------------------------------
(* What a repair leaves behind                                             *)

\* While the repair visits a file, the rows of its checksum are those its
\* query found.
Queried ==
    /\ rpc = "create" => BySHA1(digest) = {}
    /\ rpc \in {"existing", "update"} => BySHA1(digest) # {}

SettleInv == Inv /\ HealthyInv /\ Queried /\ RepairSettlesOrphans

\* Each step of the repair, no upload running.
LEMMA RepairSettles ==
  ASSUME SettleInv, Inv', Repair
  PROVE  Queried' /\ RepairSettlesOrphans'
<1> USE IngestAssumption DEF SettleInv
<1>1. CASE CheckCount
  BY <1>1 DEF CheckCount, Queried, RepairSettlesOrphans
<1>2. CASE CheckReferences \/ CheckChecksums
  BY <1>2 DEF CheckReferences, CheckChecksums, Queried, RepairSettlesOrphans
<1>3. CASE CheckScan
  <2>1. /\ file' = file /\ rows' = rows /\ rpc = "scan" /\ rpc' \in {"idle", "next"}
        /\ mode' = "repair" => todo' \cup skipped' = {p \in Path : file[p] # None} \ seen
    BY <1>3 DEF CheckScan
  <2>2. \A p \in seen : \E r \in rows : r.path = p
    BY <2>1 DEF HealthyInv, Passes
  <2> QED BY <2>1, <2>2 DEF Queried, RepairSettlesOrphans
<1>4. CASE RepairNext
  BY <1>4 DEF RepairNext, reportVars, Queried, RepairSettlesOrphans, BySHA1
<1>5. CASE RepairDigest
  BY <1>5 DEF RepairDigest, reportVars, Queried, RepairSettlesOrphans, BySHA1
<1>6. CASE RepairQuery
  BY <1>6 DEF RepairQuery, reportVars, Queried, RepairSettlesOrphans, BySHA1
<1>7. CASE RepairCreate
  <2>1. /\ file' = file /\ mode' = mode /\ todo' = todo /\ skipped' = skipped /\ at' = at
        /\ rpc = "create" /\ rpc' = "next"
    BY <1>7 DEF RepairCreate, reportVars
  <2>2. PICK fresh \in RepairIds \ {r.id : r \in rows} :
           rows' = IF Conflicts([id |-> fresh, sha |-> digest, path |-> at]) THEN rows
                   ELSE rows \cup {[id |-> fresh, sha |-> digest, path |-> at]}
    BY <1>7 DEF RepairCreate
  <2>3. ~Conflicts([id |-> fresh, sha |-> digest, path |-> at])
    BY <2>1, <2>2 DEF Queried, Conflicts, BySHA1
  <2>4. rows' = rows \cup {[id |-> fresh, sha |-> digest, path |-> at]}
    BY <2>2, <2>3
  <2>5. rows \subseteq rows' /\ \E s \in rows' : s.path = at
    <3> DEFINE new == [id |-> fresh, sha |-> digest, path |-> at]
    <3>1. new \in rows' /\ rows \subseteq rows'
      BY <2>4
    <3>2. new.path = at
      OBVIOUS
    <3> HIDE DEF new
    <3> QED BY <3>1, <3>2
  <2> QED BY <2>1, <2>5 DEF Queried, RepairSettlesOrphans, BySHA1
<1>8. CASE RepairExisting
  <2>1. file[at] = digest /\ \A r \in BySHA1(digest) : r \in rows
    BY <1>8 DEF RepairExisting, Inv, Visited, BySHA1
  <2> QED BY <1>8, <2>1 DEF RepairExisting, reportVars, Queried, RepairSettlesOrphans, BySHA1
<1>9. CASE RepairUpdate
  <2> DEFINE moved(r) == IF r.sha = digest THEN [id |-> r.id, sha |-> r.sha, path |-> at] ELSE r
  <2>1. /\ file' = file /\ mode' = mode /\ todo' = todo /\ skipped' = skipped /\ at' = at
        /\ rpc = "update" /\ rpc' = "next"
        /\ rows' = {moved(r) : r \in rows}
    BY <1>9 DEF RepairUpdate, reportVars
  <2>2. \A r \in rows : r.sha = digest => file[r.path] = None
    BY <2>1 DEF Inv, Visited, BySHA1
  <2>3. \A r \in rows : file[r.path] # None => r \in rows'
    <3> SUFFICES ASSUME NEW r \in rows, file[r.path] # None PROVE r \in rows'
      OBVIOUS
    <3>1. moved(r) = r
      BY <2>2
    <3> QED BY <2>1, <3>1
  <2>4. \E s \in rows' : s.path = at
    <3>1. PICK r \in rows : r.sha = digest
      BY <2>1 DEF Queried, BySHA1
    <3>2. moved(r) \in rows' /\ moved(r).path = at
      BY <2>1, <3>1
    <3> QED BY <3>2
  <2>5. ASSUME mode = "repair", NEW p \in Path, file[p] # None
        PROVE  \/ p \in todo \cup skipped
               \/ \E s \in rows' : s.path = p
               \/ \E s \in rows' : s.sha = file[p] /\ file[s.path] # None
    BY <2>1, <2>3, <2>4, <2>5 DEF RepairSettlesOrphans, BySHA1
  <2> QED BY <2>1, <2>5 DEF Queried, RepairSettlesOrphans, BySHA1
<1>10. CASE RepairFails
  BY <1>10 DEF RepairFails, Queried, RepairSettlesOrphans, BySHA1
<1>11. CASE CheckFails
  BY <1>11 DEF CheckFails, CheckForgotten, Queried, RepairSettlesOrphans
<1> QED BY <1>1, <1>2, <1>3, <1>4, <1>5, <1>6, <1>7, <1>8, <1>9, <1>10, <1>11 DEF Repair

\* A repair leaves no file behind that it could have given a row, but those
\* the report it works from had no room for, and those it reports as failed.
THEOREM RepairIsComplete ==
  ASSUME ~RepairDuringUploads
  PROVE  Spec => []RepairSettlesOrphans
<1>1. Init => SettleInv
  <2> SUFFICES ASSUME Init PROVE SettleInv
    OBVIOUS
  <2>1. Queried /\ RepairSettlesOrphans
    BY DEF Init, Queried, RepairSettlesOrphans
  <2> QED BY <2>1, InvInit, HealthyInit DEF SettleInv
<1>2. SettleInv /\ [Next]_vars => SettleInv'
  <2> SUFFICES ASSUME SettleInv, [Next]_vars PROVE SettleInv'
    OBVIOUS
  <2>1. Inv' /\ HealthyInv'
    BY InvNext, HealthyNext DEF SettleInv
  <2>2. ASSUME NEW u \in Uploads, Upload(u) PROVE Queried' /\ RepairSettlesOrphans'
    <3>1. NoRepair /\ rpc' = rpc /\ mode' = mode
      BY <2>2, UploadsApart DEF SettleInv
    <3> QED BY <3>1 DEF NoRepair, Queried, RepairSettlesOrphans, SettleInv, Inv, Apart
  <2>3. CASE Repair
    BY <2>1, <2>3, RepairSettles DEF SettleInv
  <2>4. CASE Crash
    BY <2>1, <2>4 DEF Crash, CheckForgotten, SettleInv, Queried, RepairSettlesOrphans
  <2>5. CASE UNCHANGED vars
    BY <2>1, <2>5 DEF vars, repairVars, reportVars, SettleInv, Queried, RepairSettlesOrphans, BySHA1
  <2> QED BY <2>1, <2>2, <2>3, <2>4, <2>5 DEF Next, SettleInv
<1>3. SettleInv => RepairSettlesOrphans
  BY DEF SettleInv
<1> QED BY <1>1, <1>2, <1>3, PTL DEF Spec
=============================================================================
