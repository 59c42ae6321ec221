--------------------------- MODULE BingArchiveProof ---------------------------
(***************************************************************************)
(* Proofs about BingArchive, for any set of addresses and any twins among  *)
(* them. Every row names a file of its own picture, so that by the unique  *)
(* hash no two rows share a file, and what the synchronization renames,    *)
(* removes or takes back is the file of the row it visits or of no row;    *)
(* what it found when it looked at them stays true while it holds the      *)
(* token, in spite of uploads, which replace nothing. What an upload takes *)
(* back is a file that it published, and never one of a renaming or of a   *)
(* download.                                                               *)
(***************************************************************************)
EXTENDS BingArchive, TLAPS

\* A row names a file of its own picture, and one that has its picture names
\* it, unless a renaming of it was interrupted or failed half way: then the
\* picture has another name, and not by an upload that may take it back.
RowsInv ==
    \A u \in Urls :
        /\ rows[u] \in Name => HashIn(rows[u]) = HashOf(u)
        /\ HasPicture(u) /\ rows[u] # Opaque(u) => file[rows[u]] = "image"

KeptInv ==
    \A u \in Urls :
        HasPicture(u) /\ rows[u] = Opaque(u) =>
            \E n \in Name \ batch : HashIn(n) = HashOf(u) /\ file[n] = "image"

\* Steps with a record at hand, and those that have decided on its name.
OnRecord == {"link", "obtain", "unlink", "upsert", "relink", "drop", "remove"}
WithName == {"unlink", "upsert", "relink", "drop", "remove"}

\* What the synchronization knows of the record it visits and its files.
Visited ==
    /\ sync \in OnRecord => at \in Urls
    /\ sync \in WithName => to \in Name /\ HashIn(to) = HashOf(at)
    /\ sync \in WithName => file[to] = "image" \/ (origin = "kept" /\ to \in taken)
    /\ sync \notin WithName => origin = "kept"
    /\ sync \in {"unlink", "relink", "drop"} => origin = "renamed"
    /\ sync = "remove" => origin = "created"
    /\ sync \in {"link", "unlink", "drop"} => rows[at] = Opaque(at) /\ file[Opaque(at)] = "image"
    /\ sync = "obtain" => rows[at] \notin Name \/ file[rows[at]] = "none" \/ rows[at] \in left
    /\ sync = "upsert" =>
          rows[at] \notin Name \/ rows[at] = to \/ file[rows[at]] = "none" \/ rows[at] \in left

\* What an upload may take back is a file, never under a name of the earlier
\* scheme, and never one the synchronization renamed or created.
BatchInv ==
    /\ \A n \in batch : n[1] # "opaque" /\ file[n] # "none"
    /\ \A n \in taken : n[1] # "opaque"
    /\ origin # "kept" => to \notin batch

\* A renamed record still has its old name in its row.
Renamed ==
    origin = "renamed" =>
        /\ rows[at] = Opaque(at) /\ to # Opaque(at)
        /\ sync \in {"upsert", "relink"} => file[Opaque(at)] = "none"

\* A downloaded file is nobody else's, and nobody depends on it.
Created ==
    origin = "created" =>
        /\ \A u \in Urls : rows[u] = to => ~HasPicture(u)
        /\ to # Opaque(at)
        /\ \A u \in Urls :
              HasPicture(u) /\ rows[u] = Opaque(u) /\ HashOf(u) = HashOf(at) =>
                  \E n \in Name \ (batch \cup {to}) : HashIn(n) = HashOf(u) /\ file[n] = "image"

\* A file without a row has a reason, or is the one being worked on.
OrphanInv ==
    \A n \in Name :
        file[n] # "none" /\ (\A u \in Urls : rows[u] # n) => n \in left \/ (origin # "kept" /\ n = to)

\* The repair has looked at the orphans it will save rows for; what they give
\* a new name has no file or an orphan for one.
UnknownInv ==
    /\ \A n \in unknown : file[n] = "image" \/ n \in taken
    /\ unknown # {} => rep \in {"match", "save", "rebuild"}
    /\ rep = "save" =>
          /\ pick \in Name /\ whose \in Urls /\ HashIn(pick) = HashOf(whose)
          /\ file[pick] = "image" \/ pick \in taken
          /\ rows[whose] \notin Name \/ file[rows[whose]] = "none" \/ rows[whose] \in left

ArchiveInv == RowsInv /\ KeptInv /\ Visited /\ BatchInv /\ Renamed /\ Created /\ OrphanInv /\ UnknownInv

-----------------------------------------------------------------------------
(* Names and hashes                                                        *)

\* An address is one of its picture, and its three names are names of that
\* picture; the name of the earlier scheme is no other name.
LEMMA NameFacts ==
  ASSUME NEW u \in Urls
  PROVE  /\ HashOf(u) \subseteq Urls
         /\ Opaque(u) \in Name /\ Readable(HashOf(u)) \in Name /\ Collision(u) \in Name
         /\ HashIn(Opaque(u)) = HashOf(u) /\ HashIn(Readable(HashOf(u))) = HashOf(u)
         /\ HashIn(Collision(u)) = HashOf(u)
         /\ Opaque(u)[1] = "opaque"
         /\ Opaque(u) # Readable(HashOf(u)) /\ Opaque(u) # Collision(u)
<1>1. /\ Opaque(u)[1] = "opaque" /\ Opaque(u)[2] = u
      /\ Collision(u)[1] = "collision" /\ Collision(u)[2] = u
      /\ Readable(HashOf(u))[1] = "readable" /\ Readable(HashOf(u))[2] = HashOf(u)
  BY DEF Opaque, Collision, Readable
<1>2. /\ HashIn(Opaque(u)) = HashOf(u) /\ HashIn(Readable(HashOf(u))) = HashOf(u)
      /\ HashIn(Collision(u)) = HashOf(u)
  BY <1>1 DEF HashIn
<1>3. Opaque(u) # Readable(HashOf(u)) /\ Opaque(u) # Collision(u)
  BY <1>1
<1>4. HashOf(u) \subseteq Urls
  BY BingAssumption DEF HashOf
<1>5. Opaque(u) \in Name /\ Readable(HashOf(u)) \in Name /\ Collision(u) \in Name
  BY DEF Name
<1> QED BY <1>1, <1>2, <1>3, <1>4, <1>5

\* Names that are told apart by their first part.
LEMMA OpaqueIsNotReadable ==
  ASSUME NEW u \in Urls, NEW n \in Name, n[1] = "readable"
  PROVE  n # Opaque(u)
  BY NameFacts

LEMMA NoNames == NoRow \notin Name /\ NoFile \notin Name /\ None \notin Name
  BY BingAssumption

\* The hash of a row is unique, so that a file has at most one row.
LEMMA OneRow ==
  ASSUME TypeOK, RowsInv, NEW u \in Urls, NEW v \in Urls, rows[u] # NoRow,
         rows[v] # NoRow, HashOf(u) = HashOf(v) \/ (rows[u] \in Name /\ rows[u] = rows[v])
  PROVE  u = v
<1>1. HashOf(u) = HashOf(v)
  BY DEF RowsInv
<1> QED BY <1>1 DEF TypeOK

-----------------------------------------------------------------------------
(* The types                                                               *)

LEMMA TypeInit == Init => TypeOK
<1> SUFFICES ASSUME Init PROVE TypeOK
  OBVIOUS
<1>1. rows \in [Urls -> Name \cup {NoRow, NoFile}]
  BY DEF Init
<1>2. left \subseteq Name /\ missing \subseteq Urls
  BY DEF Init, Present
<1> QED BY <1>1, <1>2, BingAssumption DEF Init, TypeOK

\* A row gets a name and its hash stays the only one.
LEMMA SaveType ==
  ASSUME TypeOK, NEW u \in Urls, NEW n \in Name, Save(u, n)
  PROVE  /\ rows' \in [Urls -> Name \cup {NoRow, NoFile}]
         /\ \A v, w \in Urls :
               v # w /\ HashOf(v) = HashOf(w) => rows'[v] = NoRow \/ rows'[w] = NoRow
         /\ missing' \subseteq Urls
         /\ taken' \subseteq Name
<1>1. rows' = [rows EXCEPT ![u] = n] /\ missing' = missing \ {u}
  BY DEF Save
<1>2. \A v \in Urls : v # u /\ HashOf(v) = HashOf(u) => rows[v] = NoRow
  BY DEF Save, HashFree
<1>3. taken' \subseteq taken
  BY DEF Save
<1> QED BY <1>1, <1>2, <1>3 DEF TypeOK

LEMMA SyncType ==
  ASSUME TypeOK, Visited, Sync
  PROVE  TypeOK'
<1> USE BingAssumption DEF TypeOK, Goto, Return, NextRecord, Fail, repairVars, bounds
<1>1. CASE SyncBegin \/ SyncCancelled \/ RenamesDone \/ Fetch \/ ImagesDone
  BY <1>1 DEF SyncBegin, SyncCancelled, RenamesDone, Fetch, ImagesDone
<1>2. ASSUME NEW u \in Urls, VisitRecord(u) \/ VisitImage(u) \/ VisitDamaged(u) PROVE TypeOK'
  <2>1. CASE VisitRecord(u)
    BY <1>2, <2>1 DEF VisitRecord
  <2>2. CASE VisitImage(u)
    BY <1>2, <2>2 DEF VisitImage, Served
  <2>3. CASE VisitDamaged(u)
    BY <1>2, <2>3 DEF VisitDamaged
  <2> QED BY <1>2, <2>1, <2>2, <2>3
<1>3. CASE Link
  <2>1. at \in Urls /\ FreeName(at) \in Name /\ rows[at] \in Name
    BY <1>3, NameFacts DEF Link, FreeName, Visited, OnRecord
  <2> QED BY <1>3, <2>1 DEF Link
<1>4. CASE LinkFails \/ ObtainFails \/ UpsertFails
  BY <1>4 DEF LinkFails, ObtainFails, UpsertFails
<1>5. CASE Unlink \/ UnlinkFails \/ Remove
  BY <1>5 DEF Unlink, UnlinkFails, Remove, Visited, WithName
<1>6. CASE Upsert
  <2>1. at \in Urls /\ to \in Name
    BY <1>6 DEF Upsert, Visited, OnRecord, WithName
  <2> QED BY <1>6, <2>1, SaveType DEF Upsert
<1>7. CASE Relink
  <2>1. at \in Urls /\ to \in Name
    BY <1>7 DEF Relink, Visited, OnRecord, WithName
  <2> QED BY <1>7, <2>1 DEF Relink
<1>8. CASE Drop \/ RollBackFails
  BY <1>8 DEF Drop, RollBackFails, Visited, WithName
<1>9. CASE Adopt \/ Download
  <2>1. Readable(HashOf(at)) \in Name
    BY <1>9, NameFacts DEF Adopt, Download, Visited, OnRecord
  <2> QED BY <1>9, <2>1 DEF Adopt, Download
<1> QED BY <1>1, <1>2, <1>3, <1>4, <1>5, <1>6, <1>7, <1>8, <1>9 DEF Sync

LEMMA RepairType ==
  ASSUME TypeOK, UnknownInv, RepairOrphanRecords
  PROVE  TypeOK'
<1> USE BingAssumption DEF TypeOK, syncVars, bounds
<1>1. CASE RepairReads \/ RepairScans \/ RepairBegins \/ RepairFetch \/ RepairEnds
  BY <1>1 DEF RepairReads, RepairScans, RepairBegins, RepairFetch, RepairEnds, Referenced, Present
<1>2. CASE RepairSave
  <2>1. CASE UNCHANGED <<rows, missing, taken>>
    BY <1>2, <2>1 DEF RepairSave
  <2>2. CASE Save(whose, pick)
    BY <1>2, <2>2, SaveType DEF RepairSave, UnknownInv
  <2> QED BY <1>2, <2>1, <2>2 DEF RepairSave
<1>3. ASSUME NEW n \in Name, RepairMatch(n) PROVE TypeOK'
  BY <1>3 DEF RepairMatch, RepairExisting, ByHash
<1>4. ASSUME NEW n \in Name, RepairRebuild(n) PROVE TypeOK'
  BY <1>4 DEF RepairRebuild, RepairExisting
<1> QED BY <1>1, <1>2, <1>3, <1>4 DEF RepairOrphanRecords

LEMMA TypeNext == TypeOK /\ ArchiveInv /\ [Next]_vars => TypeOK'
<1> SUFFICES ASSUME TypeOK, ArchiveInv, [Next]_vars PROVE TypeOK'
  OBVIOUS
<1>1. CASE Sync \/ RepairOrphanRecords
  BY <1>1, SyncType, RepairType DEF ArchiveInv
<1>2. CASE Upload \/ UploadRollBack
  BY <1>2, BingAssumption DEF Upload, UploadRollBack, TypeOK, syncVars, repairVars
<1>3. CASE Crash
  <2>1. origin # "kept" => to \in Name
    BY DEF ArchiveInv, Visited
  <2> QED BY <1>3, <2>1, BingAssumption DEF Crash, TypeOK
<1>4. CASE UNCHANGED vars
  BY <1>4 DEF vars, syncVars, repairVars, bounds, TypeOK
<1> QED BY <1>1, <1>2, <1>3, <1>4 DEF Next

-----------------------------------------------------------------------------
(* Steps that change no file and no row                                    *)

\* A row has its picture as long as nobody says otherwise.
LEMMA SamePictures ==
  ASSUME rows' = rows, missing' = missing, taken' = taken, NEW u \in Urls
  PROVE  HasPicture(u)' <=> HasPicture(u)
  BY DEF HasPicture

\* Files and rows as they are: what is said of rows and pictures stays.
LEMMA QuietKeepsRows ==
  ASSUME RowsInv, KeptInv, UNCHANGED <<file, rows, missing, taken>>, batch' \subseteq batch
  PROVE  RowsInv' /\ KeptInv'
  BY SamePictures DEF RowsInv, KeptInv

\* Nor is there another file that an upload may take back.
LEMMA QuietKeepsBatch ==
  ASSUME BatchInv, UNCHANGED <<file, batch, taken>>, origin' # "kept" => origin' = origin /\ to' = to
  PROVE  BatchInv'
  BY DEF BatchInv

\* An orphan keeps its reason, if the name at work is not lost of sight.
LEMMA QuietKeepsOrphans ==
  ASSUME OrphanInv, file' = file, rows' = rows, left \subseteq left',
         origin # "kept" => to \in left' \/ (origin' # "kept" /\ to' = to)
  PROVE  OrphanInv'
  BY DEF OrphanInv

\* While the synchronization holds the token the repair has settled nothing.
LEMMA SyncKeepsUnknown ==
  ASSUME TypeOK, UnknownInv, sync # "idle" \/ token # "repair", UNCHANGED repairVars
  PROVE  UnknownInv'
  BY DEF TypeOK, UnknownInv, repairVars

\* What an upload may take back stays, and the name at work is none of it.
LEMMA FilesKeepBatch ==
  ASSUME BatchInv, UNCHANGED <<batch, taken>>, \A n \in batch : file'[n] # "none",
         origin' # "kept" => to' \notin batch
  PROVE  BatchInv'
  BY DEF BatchInv

\* Between two records nothing is known of a record.
LEMMA BetweenRecords ==
  ASSUME sync' \notin OnRecord, origin' = "kept"
  PROVE  Visited' /\ Renamed' /\ Created'
  BY DEF Visited, Renamed, Created, OnRecord, WithName

\* Every failure ends the visit.
LEMMA FailEnds == Fail \/ Return \/ NextRecord => sync' \notin OnRecord /\ origin' = "kept"
  BY DEF Fail, Return, NextRecord, OnRecord

LEMMA QuietSync ==
  ASSUME TypeOK, ArchiveInv,
         \/ SyncBegin \/ SyncCancelled \/ RenamesDone \/ Fetch \/ ImagesDone
         \/ LinkFails \/ UpsertFails \/ Adopt \/ ObtainFails
         \/ \E u \in Urls : VisitRecord(u) \/ VisitImage(u) \/ VisitDamaged(u)
  PROVE  ArchiveInv'
<1> USE DEF ArchiveInv
<1>1. /\ UNCHANGED <<file, rows, missing, taken, batch>> /\ left' = left /\ UNCHANGED repairVars
      /\ token # "repair"
  BY DEF TypeOK, bounds, SyncBegin, SyncCancelled, RenamesDone, Fetch, ImagesDone, LinkFails, UpsertFails, Adopt,
     ObtainFails, VisitRecord, VisitImage, VisitDamaged
<1>2. RowsInv' /\ KeptInv' /\ UnknownInv'
  BY <1>1, QuietKeepsRows, SyncKeepsUnknown
<1>3. (origin # "kept" => origin' # "kept" /\ to' = to) => OrphanInv'
  BY <1>1, QuietKeepsOrphans
<1>b. (origin' # "kept" => origin' = origin /\ to' = to) => BatchInv'
  BY <1>1, QuietKeepsBatch
<1>4. CASE SyncBegin \/ SyncCancelled \/ RenamesDone \/ Fetch \/ ImagesDone \/ LinkFails \/ ObtainFails
  <2>1. origin = "kept" /\ origin' = "kept" /\ sync' \notin OnRecord
    BY <1>4, FailEnds DEF SyncBegin, SyncCancelled, RenamesDone, Fetch, ImagesDone, LinkFails,
       ObtainFails, Goto, Visited, WithName, OnRecord
  <2> QED BY <1>2, <1>3, <1>b, <2>1, BetweenRecords
<1>5. CASE UpsertFails
  <2>1. CASE origin = "kept" /\ Fail
    BY <1>2, <1>3, <1>b, <2>1, FailEnds, BetweenRecords
  <2>2. CASE /\ (origin = "renamed" /\ sync' = "relink") \/ (origin = "created" /\ sync' = "remove")
             /\ UNCHANGED <<pass, todo, at, to, origin>>
    <3>1. /\ at \in Urls /\ to \in Name /\ HashIn(to) = HashOf(at) /\ sync = "upsert"
          /\ file[to] = "image"
      BY <1>5, <2>2 DEF UpsertFails, Visited, OnRecord, WithName
    <3>2. Visited'
      BY <1>1, <2>2, <3>1 DEF Visited, OnRecord, WithName
    <3>3. Renamed' /\ Created'
      BY <1>1, <2>2, <3>1, SamePictures DEF Renamed, Created
    <3> QED BY <1>2, <1>3, <1>b, <2>2, <3>2, <3>3
  <2> QED BY <1>5, <2>1, <2>2 DEF UpsertFails, Goto
<1>6. CASE Adopt
  <2>1. at \in Urls /\ origin = "kept" /\ sync = "obtain"
    BY <1>6 DEF Adopt, Visited, OnRecord, WithName
  <2>2. to' = Readable(HashOf(at)) /\ at' = at /\ sync' = "upsert" /\ origin' = "kept"
    BY <1>6, <2>1 DEF Adopt
  <2>3. Visited'
    BY <1>1, <1>6, <2>1, <2>2, NameFacts DEF Adopt, Visited, OnRecord, WithName
  <2>4. Renamed' /\ Created'
    BY <2>2 DEF Renamed, Created
  <2> QED BY <1>2, <1>3, <1>b, <2>1, <2>2, <2>3, <2>4
<1>7. ASSUME NEW u \in Urls, VisitRecord(u) \/ VisitImage(u) \/ VisitDamaged(u) PROVE ArchiveInv'
  <2>1. origin = "kept" /\ origin' = "kept"
    BY <1>7 DEF VisitRecord, VisitImage, VisitDamaged, Visited, WithName, Return
  <2>2. Renamed' /\ Created'
    BY <2>1 DEF Renamed, Created
  <2>3. Visited'
    <3>1. CASE VisitRecord(u)
      BY <1>1, <2>1, <3>1 DEF VisitRecord, NeedsRename, Visited, OnRecord, WithName, Return
    <3>2. CASE VisitImage(u)
      BY <1>1, <2>1, <3>2 DEF VisitImage, Served, Gone, Visited, RowsInv, OnRecord, WithName
    <3>3. CASE VisitDamaged(u)
      BY <1>1, <2>1, <3>3 DEF VisitDamaged, Visited, OnRecord, WithName
    <3> QED BY <1>7, <3>1, <3>2, <3>3
  <2> QED BY <1>2, <1>3, <1>b, <2>1, <2>2, <2>3
<1> QED BY <1>4, <1>5, <1>6, <1>7

-----------------------------------------------------------------------------
(* Steps that change files                                                 *)

\* A new file with the bytes of a picture, where none was.
LEMMA LinkKeeps == TypeOK /\ ArchiveInv /\ Link => ArchiveInv'
<1> SUFFICES ASSUME TypeOK, ArchiveInv, Link PROVE ArchiveInv'
  OBVIOUS
<1> DEFINE new == FreeName(at)
<1> USE DEF ArchiveInv
<1>1. /\ at \in Urls /\ sync = "link" /\ origin = "kept" /\ rows[at] = Opaque(at)
      /\ file[Opaque(at)] = "image"
  BY DEF Link, Visited, OnRecord, WithName
<1>2. new \in Name /\ HashIn(new) = HashOf(at) /\ new # Opaque(at) /\ file[new] = "none"
  BY <1>1, NameFacts DEF Link, FreeName
<1>3. /\ file' = [file EXCEPT ![new] = "image"] /\ to' = new /\ origin' = "renamed" /\ sync' = "unlink"
      /\ at' = at /\ UNCHANGED <<rows, missing, taken, batch, left>> /\ UNCHANGED repairVars
  BY <1>1 DEF Link, bounds
<1>4. file \in [Name -> {"none", "image", "other"}] /\ Opaque(at) \in Name
  BY <1>1, NameFacts DEF TypeOK
<1> HIDE DEF new
<1>5. RowsInv' /\ KeptInv'
  BY <1>2, <1>3, <1>4, SamePictures DEF RowsInv, KeptInv
<1>6. Visited' /\ Renamed' /\ Created'
  BY <1>1, <1>2, <1>3, <1>4 DEF Visited, Renamed, Created, OnRecord, WithName
<1>b. BatchInv'
  BY <1>2, <1>3, <1>4, FilesKeepBatch DEF BatchInv, TypeOK
<1>7. OrphanInv'
  BY <1>1, <1>2, <1>3, <1>4 DEF OrphanInv
<1>8. UnknownInv'
  BY <1>1, <1>3, SyncKeepsUnknown
<1> QED BY <1>5, <1>6, <1>7, <1>8, <1>b

\* The old name is removed; its row is the one at hand and the picture has
\* the new name.
LEMMA UnlinkKeeps == TypeOK /\ ArchiveInv /\ (Unlink \/ UnlinkFails) => ArchiveInv'
<1> SUFFICES ASSUME TypeOK, ArchiveInv, Unlink \/ UnlinkFails PROVE ArchiveInv'
  OBVIOUS
<1> USE DEF ArchiveInv
<1>1. /\ at \in Urls /\ sync = "unlink" /\ origin = "renamed" /\ rows[at] = Opaque(at)
      /\ file[Opaque(at)] = "image" /\ to \in Name /\ file[to] = "image" /\ to # Opaque(at)
      /\ HashIn(to) = HashOf(at)
  BY DEF Unlink, UnlinkFails, Visited, Renamed, OnRecord, WithName
<1>2. file \in [Name -> {"none", "image", "other"}] /\ Opaque(at) \in Name /\ HashIn(Opaque(at)) = HashOf(at)
  BY <1>1, NameFacts DEF TypeOK
<1>n. to \notin batch /\ Opaque(at) \notin batch
  BY <1>1, NameFacts DEF BatchInv
<1>3. \A u \in Urls : rows[u] = Opaque(at) => u = at
  BY <1>1, <1>2, OneRow, NoNames
<1>4. \A u \in Urls : rows[u] # to
  <2> SUFFICES ASSUME NEW u \in Urls, rows[u] = to PROVE FALSE
    OBVIOUS
  <2>1. HashOf(u) = HashOf(at)
    BY <1>1 DEF RowsInv
  <2> QED BY <1>1, <1>2, <2>1, OneRow, NoNames
<1>5. UNCHANGED <<rows, missing, taken, batch>> /\ UNCHANGED repairVars
  BY DEF Unlink, UnlinkFails, bounds
<1>6. UnknownInv'
  BY <1>1, <1>5, SyncKeepsUnknown
<1>7. CASE Unlink
  <2>1. /\ file' = [file EXCEPT ![Opaque(at)] = "none"] /\ left' = left /\ sync' = "upsert"
        /\ at' = at /\ to' = to /\ origin' = origin
    BY <1>1, <1>7 DEF Unlink, Goto
  <2>2. RowsInv'
    BY <1>2, <1>3, <1>5, <2>1, SamePictures DEF RowsInv, HasPicture
  <2>3. KeptInv'
    BY <1>n, <1>1, <1>2, <1>5, <2>1, SamePictures DEF KeptInv
  <2>4. Visited' /\ Renamed' /\ Created'
    BY <1>1, <1>2, <1>5, <2>1 DEF Visited, Renamed, Created, OnRecord, WithName
  <2>b. BatchInv'
    BY <1>2, <1>5, <1>n, <2>1, <2>4, FilesKeepBatch DEF BatchInv, TypeOK
  <2>5. OrphanInv'
    BY <1>1, <1>2, <1>5, <2>1 DEF OrphanInv
  <2> QED BY <1>6, <2>b, <2>2, <2>3, <2>4, <2>5
<1>8. CASE UnlinkFails
  <2>1. \/ file' = [file EXCEPT ![to] = "none"] /\ left' = left
        \/ file' = file /\ left' = left \cup {to}
    BY <1>8 DEF UnlinkFails
  <2>2. RowsInv'
    BY <1>2, <1>4, <1>5, <2>1, SamePictures DEF RowsInv, HasPicture
  <2>3. KeptInv'
    BY <1>n, <1>1, <1>2, <1>5, <2>1, SamePictures DEF KeptInv
  <2>4. sync' \notin OnRecord /\ origin' = "kept"
    BY <1>8, FailEnds DEF UnlinkFails
  <2>b. BatchInv'
    BY <1>2, <1>5, <1>n, <2>1, <2>4, FilesKeepBatch DEF BatchInv, TypeOK
  <2>5. OrphanInv'
    BY <1>1, <1>2, <1>5, <2>1 DEF OrphanInv
  <2> QED BY <1>6, <2>b, <2>2, <2>3, <2>4, <2>5, BetweenRecords
<1> QED BY <1>7, <1>8

\* The roll back of a renaming: the old name is restored before the new one
\* goes, and where it stops half way the new one stays.
LEMMA RollBackKeeps == TypeOK /\ ArchiveInv /\ (Relink \/ Drop \/ RollBackFails) => ArchiveInv'
<1> SUFFICES ASSUME TypeOK, ArchiveInv, Relink \/ Drop \/ RollBackFails PROVE ArchiveInv'
  OBVIOUS
<1> USE DEF ArchiveInv
<1>1. /\ at \in Urls /\ sync \in {"relink", "drop"} /\ origin = "renamed" /\ rows[at] = Opaque(at)
      /\ to \in Name /\ file[to] = "image" /\ to # Opaque(at) /\ HashIn(to) = HashOf(at)
  BY DEF Relink, Drop, RollBackFails, Visited, Renamed, OnRecord, WithName
<1>2. file \in [Name -> {"none", "image", "other"}] /\ Opaque(at) \in Name /\ HashIn(Opaque(at)) = HashOf(at)
  BY <1>1, NameFacts DEF TypeOK
<1>n. to \notin batch /\ Opaque(at) \notin batch
  BY <1>1, NameFacts DEF BatchInv
<1>3. \A u \in Urls : rows[u] = Opaque(at) => u = at
  BY <1>1, <1>2, OneRow, NoNames
<1>4. \A u \in Urls : rows[u] # to
  <2> SUFFICES ASSUME NEW u \in Urls, rows[u] = to PROVE FALSE
    OBVIOUS
  <2>1. HashOf(u) = HashOf(at)
    BY <1>1 DEF RowsInv
  <2> QED BY <1>1, <1>2, <2>1, OneRow, NoNames
<1>5. UNCHANGED <<rows, missing, taken, batch>> /\ UNCHANGED repairVars
  BY DEF Relink, Drop, RollBackFails, bounds
<1>6. UnknownInv'
  BY <1>1, <1>5, SyncKeepsUnknown
<1>7. CASE Relink
  <2>1. /\ file' = [file EXCEPT ![Opaque(at)] = "image"] /\ left' = left /\ sync' = "drop"
        /\ at' = at /\ to' = to /\ origin' = origin
    BY <1>1, <1>7 DEF Relink, Goto
  <2>2. RowsInv' /\ KeptInv'
    BY <1>n, <1>2, <1>5, <2>1, SamePictures DEF RowsInv, KeptInv
  <2>3. Visited' /\ Renamed' /\ Created'
    BY <1>1, <1>2, <1>5, <2>1 DEF Visited, Renamed, Created, OnRecord, WithName
  <2>b. BatchInv'
    BY <1>2, <1>5, <1>n, <2>1, FilesKeepBatch DEF BatchInv, TypeOK
  <2>4. OrphanInv'
    BY <1>1, <1>2, <1>5, <2>1 DEF OrphanInv
  <2> QED BY <1>6, <2>b, <2>2, <2>3, <2>4
<1>8. CASE Drop
  <2>1. file' = [file EXCEPT ![to] = "none"] /\ left' = left /\ file[Opaque(at)] = "image"
    BY <1>1, <1>8 DEF Drop, Visited
  <2>2. RowsInv'
    BY <1>2, <1>4, <1>5, <2>1, SamePictures DEF RowsInv, HasPicture
  <2>3. KeptInv'
    BY <1>n, <1>1, <1>2, <1>5, <2>1, SamePictures DEF KeptInv
  <2>4. sync' \notin OnRecord /\ origin' = "kept"
    BY <1>8, FailEnds DEF Drop
  <2>b. BatchInv'
    BY <1>2, <1>5, <1>n, <2>1, <2>4, FilesKeepBatch DEF BatchInv, TypeOK
  <2>5. OrphanInv'
    BY <1>1, <1>2, <1>5, <2>1 DEF OrphanInv
  <2> QED BY <1>6, <2>b, <2>2, <2>3, <2>4, <2>5, BetweenRecords
<1>9. CASE RollBackFails
  <2>1. file' \in {file, [file EXCEPT ![Opaque(at)] = "none"]} /\ left' = left \cup {to}
    BY <1>1, <1>9 DEF RollBackFails
  <2>2. RowsInv'
    BY <1>2, <1>3, <1>5, <2>1, SamePictures DEF RowsInv, HasPicture
  <2>3. KeptInv'
    BY <1>n, <1>1, <1>2, <1>5, <2>1, SamePictures DEF KeptInv
  <2>4. sync' \notin OnRecord /\ origin' = "kept"
    BY <1>9, FailEnds DEF RollBackFails
  <2>b. BatchInv'
    BY <1>2, <1>5, <1>n, <2>1, <2>4, FilesKeepBatch DEF BatchInv, TypeOK
  <2>5. OrphanInv'
    BY <1>1, <1>2, <1>5, <2>1 DEF OrphanInv
  <2> QED BY <1>6, <2>b, <2>2, <2>3, <2>4, <2>5, BetweenRecords
<1> QED BY <1>7, <1>8, <1>9

\* The download stands where no file was; a row that already named it never
\* had its picture, and the other pictures have their files elsewhere.
LEMMA DownloadKeeps == TypeOK /\ ArchiveInv /\ Download => ArchiveInv'
<1> SUFFICES ASSUME TypeOK, ArchiveInv, Download PROVE ArchiveInv'
  OBVIOUS
<1> DEFINE new == Readable(HashOf(at))
<1> USE DEF ArchiveInv
<1>1. /\ at \in Urls /\ sync = "obtain" /\ origin = "kept" /\ file[new] = "none"
      /\ rows[at] \notin Name \/ file[rows[at]] = "none" \/ rows[at] \in left
  BY DEF Download, Visited, OnRecord, WithName
<1>2. new \in Name /\ HashIn(new) = HashOf(at) /\ \A u \in Urls : new # Opaque(u)
  <2>1. new[1] = "readable"
    BY DEF Readable
  <2> QED BY <1>1, <2>1, NameFacts, OpaqueIsNotReadable
<1>3. /\ file' = [file EXCEPT ![new] = "image"] /\ to' = new /\ origin' = "created" /\ sync' = "upsert"
      /\ at' = at /\ UNCHANGED <<rows, missing, taken, batch, left>> /\ UNCHANGED repairVars
  BY DEF Download, bounds
<1>4. file \in [Name -> {"none", "image", "other"}]
  BY DEF TypeOK
<1> HIDE DEF new
<1>5. RowsInv' /\ KeptInv'
  BY <1>2, <1>3, <1>4, SamePictures DEF RowsInv, KeptInv
<1>6. Visited' /\ Renamed'
  BY <1>1, <1>2, <1>3, <1>4 DEF Visited, Renamed, OnRecord, WithName
<1>7. \A u \in Urls : rows[u] = new => ~HasPicture(u)
  BY <1>1, <1>2 DEF RowsInv
<1>8. Created'
  <2>1. \A u \in Urls : HasPicture(u) /\ rows[u] = Opaque(u) =>
           \E n \in Name \ (batch \cup {new}) : HashIn(n) = HashOf(u) /\ file[n] = "image"
    BY <1>1 DEF KeptInv
  <2>2. \A n \in Name \ {new} : file'[n] = file[n]
    BY <1>3, <1>4
  <2>3. \A u \in Urls : HasPicture(u)' <=> HasPicture(u)
    BY <1>3, SamePictures
  <2> QED BY <1>1, <1>2, <1>3, <1>7, <2>1, <2>2, <2>3 DEF Created
<1>b. BatchInv'
  BY <1>1, <1>2, <1>3, <1>4, FilesKeepBatch DEF BatchInv, TypeOK
<1>9. OrphanInv'
  BY <1>1, <1>2, <1>3, <1>4 DEF OrphanInv
<1>10. UnknownInv'
  BY <1>1, <1>3, SyncKeepsUnknown
<1> QED BY <1>5, <1>6, <1>8, <1>9, <1>10, <1>b

\* The downloaded file goes again: the picture of every row has its file
\* elsewhere, as it had before.
LEMMA RemoveKeeps == TypeOK /\ ArchiveInv /\ Remove => ArchiveInv'
<1> SUFFICES ASSUME TypeOK, ArchiveInv, Remove PROVE ArchiveInv'
  OBVIOUS
<1> USE DEF ArchiveInv
<1>1. /\ at \in Urls /\ sync = "remove" /\ origin = "created" /\ to \in Name /\ HashIn(to) = HashOf(at)
      /\ file \in [Name -> {"none", "image", "other"}]
  BY DEF Remove, Visited, OnRecord, WithName, TypeOK
<1>2. UNCHANGED <<rows, missing, taken, batch>> /\ UNCHANGED repairVars
  BY DEF Remove, bounds
<1>3. \/ file' = [file EXCEPT ![to] = "none"] /\ left' = left
      \/ file' = file /\ left' = left \cup {to}
  BY DEF Remove
<1>n. to \notin batch
  BY <1>1 DEF BatchInv
<1>4. RowsInv'
  BY <1>1, <1>2, <1>3, SamePictures DEF RowsInv, Created, HasPicture
<1>5. KeptInv'
  <2> SUFFICES ASSUME NEW u \in Urls, HasPicture(u), rows[u] = Opaque(u)
               PROVE  \E n \in Name \ batch : HashIn(n) = HashOf(u) /\ file'[n] = "image"
    BY <1>2, SamePictures DEF KeptInv
  <2>1. CASE HashOf(u) = HashOf(at)
    BY <1>1, <1>3, <2>1 DEF Created
  <2>2. CASE HashOf(u) # HashOf(at)
    BY <1>1, <1>3, <2>2 DEF KeptInv
  <2> QED BY <2>1, <2>2
<1>6. sync' \notin OnRecord /\ origin' = "kept"
  BY FailEnds DEF Remove
<1>7. OrphanInv'
  BY <1>1, <1>2, <1>3 DEF OrphanInv
<1>8. UnknownInv'
  BY <1>1, <1>2, SyncKeepsUnknown
<1>9. BatchInv'
  BY <1>1, <1>2, <1>3, <1>6, <1>n, FilesKeepBatch DEF BatchInv, TypeOK
<1> QED BY <1>4, <1>5, <1>6, <1>7, <1>8, <1>9, BetweenRecords

\* An upload replaces nothing and never has a name of the earlier scheme.
LEMMA UploadKeeps == TypeOK /\ ArchiveInv /\ Upload => ArchiveInv'
<1> SUFFICES ASSUME TypeOK, ArchiveInv, Upload PROVE ArchiveInv'
  OBVIOUS
<1> USE DEF ArchiveInv
<1>1. PICK n \in Name, bytes \in {"image", "other"} :
         /\ n[1] # "opaque" /\ file[n] = "none" /\ file' = [file EXCEPT ![n] = bytes]
         /\ left' = left \cup {n} /\ batch' = batch \cup {n}
  BY DEF Upload
<1>2. UNCHANGED <<rows, missing, taken, sync, at, to, origin, rep, unknown, pick, whose>>
  BY DEF Upload, syncVars, repairVars
<1>3. file \in [Name -> {"none", "image", "other"}] /\ \A u \in Urls : n # Opaque(u)
  BY <1>1, NameFacts DEF TypeOK
<1>4. \A m \in Name : file[m] = "image" => m # n /\ file'[m] = "image"
  BY <1>1, <1>3
<1>5. \A u \in Urls : HasPicture(u)' <=> HasPicture(u)
  BY <1>2, SamePictures
<1>6. RowsInv' /\ KeptInv'
  <2>1. RowsInv'
    BY <1>2, <1>4, <1>5 DEF RowsInv, HasPicture
  <2>2. KeptInv'
    BY <1>1, <1>2, <1>4, <1>5 DEF KeptInv
  <2> QED BY <2>1, <2>2
<1>7. Visited'
  <2>1. sync \in WithName => file'[to] = "image" \/ (origin = "kept" /\ to \in taken)
    BY <1>4 DEF Visited
  <2>2. sync \in {"link", "unlink", "drop"} => file'[Opaque(at)] = "image"
    BY <1>1, <1>3, NameFacts DEF Visited, OnRecord
  <2>3. rows[at] \notin Name \/ file'[rows[at]] = file[rows[at]] \/ rows[at] \in left'
    BY <1>1, <1>3
  <2> QED BY <1>1, <1>2, <2>1, <2>2, <2>3 DEF Visited
<1>8. BatchInv'
  <2>1. origin # "kept" => to # n
    BY <1>4 DEF Visited
  <2> QED BY <1>1, <1>2, <1>3, <2>1 DEF BatchInv, TypeOK
<1>9. Renamed'
  BY <1>1, <1>2, <1>3, NameFacts DEF Renamed, Visited, OnRecord
<1>10. Created'
  BY <1>1, <1>2, <1>4, <1>5 DEF Created
<1>11. OrphanInv'
  BY <1>1, <1>2, <1>3 DEF OrphanInv
<1>12. UnknownInv'
  <2>1. \A m \in Name : file'[m] = file[m] \/ m \in left'
    BY <1>1, <1>3
  <2> QED BY <1>1, <1>2, <1>4, <2>1 DEF UnknownInv, TypeOK
<1> QED BY <1>6, <1>7, <1>8, <1>9, <1>10, <1>11, <1>12

\* What an upload takes back is no file of the earlier scheme and none that
\* the synchronization works on, and a row that names it has lost it to a roll
\* back.
LEMMA UploadRollBackKeeps == TypeOK /\ ArchiveInv /\ UploadRollBack => ArchiveInv'
<1> SUFFICES ASSUME TypeOK, ArchiveInv, UploadRollBack PROVE ArchiveInv'
  OBVIOUS
<1> USE DEF ArchiveInv
<1>1. PICK n \in batch :
         /\ file' = [file EXCEPT ![n] = "none"] /\ batch' = batch \ {n}
         /\ taken' = taken \cup {n} /\ left' = left \ {n}
  BY DEF UploadRollBack
<1>2. UNCHANGED <<rows, missing, sync, at, to, origin, rep, unknown, pick, whose>>
  BY DEF UploadRollBack, syncVars, repairVars
<1>3. file \in [Name -> {"none", "image", "other"}] /\ n \in Name /\ n[1] # "opaque"
  BY DEF TypeOK, BatchInv
<1>4. \A u \in Urls : n # Opaque(u)
  BY <1>3, NameFacts
<1>5. \A m \in Name : (file'[m] = file[m] /\ m # n) \/ (file'[m] = "none" /\ m \in taken')
  BY <1>1, <1>3
<1>6. \A u \in Urls : HasPicture(u)' => HasPicture(u) /\ rows[u] # n
  BY <1>1, <1>2 DEF HasPicture
<1>7. RowsInv' /\ KeptInv'
  <2>1. RowsInv'
    BY <1>2, <1>5, <1>6 DEF RowsInv, HasPicture
  <2>2. KeptInv'
    BY <1>1, <1>2, <1>5, <1>6 DEF KeptInv
  <2> QED BY <2>1, <2>2
<1>8. origin # "kept" => to # n
  BY DEF BatchInv
<1>9. Visited'
  <2>1. sync \in WithName => file'[to] = "image" \/ (origin = "kept" /\ to \in taken')
    BY <1>1, <1>5, <1>8 DEF Visited
  <2>2. sync \in {"link", "unlink", "drop"} => file'[Opaque(at)] = "image"
    BY <1>1, <1>3, <1>4, NameFacts DEF Visited, OnRecord
  <2>3. rows[at] \in Name /\ file'[rows[at]] # "none" =>
           file[rows[at]] # "none" /\ (rows[at] \in left => rows[at] \in left')
    BY <1>1, <1>3
  <2> QED BY <1>2, <2>1, <2>2, <2>3 DEF Visited
<1>10. BatchInv'
  BY <1>1, <1>2, <1>3, <1>5 DEF BatchInv, TypeOK
<1>11. Renamed'
  BY <1>1, <1>2, <1>3, <1>4, NameFacts DEF Renamed, Visited, OnRecord
<1>12. Created'
  BY <1>1, <1>2, <1>5, <1>6 DEF Created
<1>13. OrphanInv'
  BY <1>1, <1>2, <1>3 DEF OrphanInv
<1>14. UnknownInv'
  <2>1. \A m \in Name : file[m] = "image" \/ m \in taken => file'[m] = "image" \/ m \in taken'
    BY <1>1, <1>5
  <2>2. rows[whose] \in Name /\ file'[rows[whose]] # "none" =>
           file[rows[whose]] # "none" /\ (rows[whose] \in left => rows[whose] \in left')
    BY <1>1, <1>3
  <2> QED BY <1>2, <2>1, <2>2 DEF UnknownInv, TypeOK
<1> QED BY <1>7, <1>9, <1>10, <1>11, <1>12, <1>13, <1>14

\* A crash accounts for the file at work.
LEMMA CrashKeeps == TypeOK /\ ArchiveInv /\ Crash => ArchiveInv'
<1> SUFFICES ASSUME TypeOK, ArchiveInv, Crash PROVE ArchiveInv'
  OBVIOUS
<1> USE DEF ArchiveInv
<1>1. /\ UNCHANGED <<file, rows, missing, taken>> /\ sync' = "idle" /\ origin' = "kept"
      /\ unknown' = {} /\ rep' = "idle" /\ batch' = {}
      /\ left' = IF origin = "kept" THEN left ELSE left \cup {to}
  BY DEF Crash
<1>2. RowsInv' /\ KeptInv' /\ OrphanInv'
  BY <1>1, QuietKeepsRows, QuietKeepsOrphans
<1>3. BatchInv'
  BY <1>1 DEF BatchInv
<1>4. sync' \notin OnRecord
  BY <1>1 DEF OnRecord
<1> QED BY <1>1, <1>2, <1>3, <1>4, BetweenRecords DEF UnknownInv

-----------------------------------------------------------------------------
(* Steps that change rows                                                  *)

\* A row gets a file of its own picture, or the name of one that a roll back
\* took; the file it names no longer, if it exists, has another reason.
LEMMA SaveKeeps ==
  ASSUME TypeOK, RowsInv, KeptInv, OrphanInv, BatchInv, NEW u \in Urls, NEW n \in Name, Save(u, n),
         HashIn(n) = HashOf(u), file[n] = "image" \/ n \in taken, UNCHANGED <<file, left, batch>>,
         rows[u] \notin Name \/ rows[u] = n \/ file[rows[u]] = "none" \/ rows[u] \in left,
         \/ origin' = origin /\ to' = to
         \/ to = n /\ origin' = "kept"
         \/ origin = "kept" /\ origin' = "kept"
  PROVE  RowsInv' /\ KeptInv' /\ OrphanInv' /\ BatchInv'
<1>1. /\ rows' = [rows EXCEPT ![u] = n] /\ missing' = missing \ {u}
      /\ rows \in [Urls -> Name \cup {NoRow, NoFile}]
      /\ taken' = IF file[n] = "image" THEN taken \ {n} ELSE taken
  BY DEF Save, TypeOK
<1>2. \A v \in Urls \ {u} : rows[v] \in Name => rows[v] # n
  <2> SUFFICES ASSUME NEW v \in Urls \ {u}, rows[v] = n PROVE FALSE
    OBVIOUS
  <2>1. HashOf(v) = HashOf(u)
    BY DEF RowsInv
  <2> QED BY <2>1, NoNames DEF Save, HashFree
<1>3. \A v \in Urls \ {u} : rows'[v] = rows[v] /\ (HasPicture(v)' => HasPicture(v))
  BY <1>1, <1>2 DEF HasPicture
<1>4. rows'[u] = n /\ (HasPicture(u)' => file[n] = "image")
  BY <1>1 DEF HasPicture
<1>5. RowsInv'
  BY <1>3, <1>4 DEF RowsInv
<1>6. KeptInv'
  <2>1. n = Opaque(u) => n \notin batch
    BY NameFacts DEF BatchInv
  <2> QED BY <1>3, <1>4, <2>1 DEF KeptInv
<1>7. OrphanInv'
  <2> SUFFICES ASSUME NEW m \in Name, file[m] # "none", \A v \in Urls : rows'[v] # m
               PROVE  m \in left \/ (origin' # "kept" /\ m = to')
    BY DEF OrphanInv
  <2>1. m # n /\ \A v \in Urls : v # u => rows[v] # m
    BY <1>1
  <2>2. CASE rows[u] = m
    BY <2>1, <2>2
  <2>3. CASE rows[u] # m
    BY <2>1, <2>3 DEF OrphanInv
  <2> QED BY <2>2, <2>3
<1>8. BatchInv'
  BY <1>1 DEF BatchInv
<1> QED BY <1>5, <1>6, <1>7, <1>8

LEMMA UpsertKeeps == TypeOK /\ ArchiveInv /\ Upsert => ArchiveInv'
<1> SUFFICES ASSUME TypeOK, ArchiveInv, Upsert PROVE ArchiveInv'
  OBVIOUS
<1> USE DEF ArchiveInv
<1>1. /\ at \in Urls /\ sync = "upsert" /\ to \in Name /\ HashIn(to) = HashOf(at)
      /\ file[to] = "image" \/ to \in taken
      /\ rows[at] \notin Name \/ rows[at] = to \/ file[rows[at]] = "none" \/ rows[at] \in left
  BY DEF Upsert, Visited, OnRecord, WithName
<1>2. Save(at, to) /\ UNCHANGED <<file, left, batch>> /\ UNCHANGED repairVars
  BY DEF Upsert, bounds
<1>3. sync' \notin OnRecord /\ origin' = "kept"
  BY FailEnds DEF Upsert
<1>4. RowsInv' /\ KeptInv' /\ OrphanInv' /\ BatchInv'
  BY <1>1, <1>2, <1>3, SaveKeeps
<1>5. UnknownInv'
  <2>1. unknown = {} /\ rep # "save"
    BY <1>1 DEF TypeOK, UnknownInv
  <2> QED BY <1>2, <2>1 DEF UnknownInv, repairVars
<1> QED BY <1>3, <1>4, <1>5, BetweenRecords

\* While the repair holds the token the synchronization is at no record.
LEMMA RepairAlone ==
  ASSUME TypeOK, Visited, rep \in {"match", "save", "rebuild"}, UNCHANGED syncVars
  PROVE  Visited' /\ Renamed' /\ Created' /\ origin = "kept" /\ origin' = "kept"
<1>1. sync' = "idle" /\ origin = "kept" /\ origin' = "kept"
  BY DEF TypeOK, Visited, WithName, syncVars
<1> QED BY <1>1, BetweenRecords DEF OnRecord

LEMMA RepairSaveKeeps == TypeOK /\ ArchiveInv /\ RepairSave => ArchiveInv'
<1> SUFFICES ASSUME TypeOK, ArchiveInv, RepairSave PROVE ArchiveInv'
  OBVIOUS
<1> USE DEF ArchiveInv
<1>1. /\ rep = "save" /\ UNCHANGED <<file, left, batch, unknown>> /\ UNCHANGED syncVars
      /\ rep' \in {"match", "rebuild"}
  BY DEF RepairSave, bounds
<1>2. Visited' /\ Renamed' /\ Created' /\ origin = "kept" /\ origin' = "kept"
  BY <1>1, RepairAlone
<1>3. CASE UNCHANGED <<rows, missing, taken>>
  <2>1. RowsInv' /\ KeptInv' /\ OrphanInv' /\ BatchInv'
    BY <1>1, <1>2, <1>3, QuietKeepsRows, QuietKeepsOrphans, QuietKeepsBatch
  <2> QED BY <1>1, <1>2, <1>3, <2>1 DEF UnknownInv
<1>4. CASE Save(whose, pick)
  <2>1. /\ pick \in Name /\ whose \in Urls /\ HashIn(pick) = HashOf(whose)
        /\ file[pick] = "image" \/ pick \in taken
        /\ rows[whose] \notin Name \/ file[rows[whose]] = "none" \/ rows[whose] \in left
    BY <1>1 DEF UnknownInv
  <2>2. RowsInv' /\ KeptInv' /\ OrphanInv' /\ BatchInv'
    BY <1>1, <1>2, <1>4, <2>1, SaveKeeps
  <2>3. UnknownInv'
    BY <1>1, <1>4 DEF UnknownInv, Save
  <2> QED BY <1>2, <2>2, <2>3
<1> QED BY <1>3, <1>4 DEF RepairSave

LEMMA RepairKeeps == TypeOK /\ ArchiveInv /\ RepairOrphanRecords => ArchiveInv'
<1> SUFFICES ASSUME TypeOK, ArchiveInv, RepairOrphanRecords PROVE ArchiveInv'
  OBVIOUS
<1> USE DEF ArchiveInv
<1>1. CASE RepairSave
  BY <1>1, RepairSaveKeeps
<1>2. ASSUME ~RepairSave PROVE ArchiveInv'
  <2>1. UNCHANGED <<file, rows, missing, taken, left, batch, sync, at, to, origin>>
    BY <1>2 DEF RepairOrphanRecords, RepairReads, RepairScans, RepairBegins, RepairFetch, RepairEnds,
       RepairMatch, RepairRebuild, syncVars, bounds
  <2>2. RowsInv' /\ KeptInv' /\ OrphanInv' /\ BatchInv'
    BY <2>1, QuietKeepsRows, QuietKeepsOrphans, QuietKeepsBatch
  <2>3. Visited' /\ Renamed' /\ Created'
    BY <2>1, SamePictures DEF Visited, Renamed, Created
  <2>4. UnknownInv'
    <3>1. CASE RepairReads \/ RepairScans \/ RepairBegins \/ RepairFetch \/ RepairEnds
      BY <2>1, <3>1 DEF RepairReads, RepairScans, RepairBegins, RepairFetch, RepairEnds, UnknownInv
    <3>2. ASSUME NEW n \in Name, NEW u \in Urls, RepairExisting(u, n), HashOf(u) = HashIn(n),
                 file[n] = "image" \/ n \in taken, rep # "save", unknown' \subseteq unknown,
                 rep \in {"match", "rebuild"}
          PROVE  UnknownInv'
      BY <2>1, <3>2 DEF UnknownInv, RepairExisting, Gone
    <3>3. ASSUME NEW n \in Name, RepairMatch(n) PROVE UnknownInv'
      <4>1. CASE UNCHANGED <<rep, pick, whose>>
        BY <2>1, <3>3, <4>1 DEF RepairMatch, UnknownInv
      <4>2. CASE ~UNCHANGED <<rep, pick, whose>>
        BY <3>2, <3>3, <4>2 DEF RepairMatch, ByHash
      <4> QED BY <4>1, <4>2
    <3>4. ASSUME NEW n \in Name, RepairRebuild(n) PROVE UnknownInv'
      <4>1. CASE UNCHANGED <<rep, pick, whose>>
        BY <2>1, <3>4, <4>1 DEF RepairRebuild, UnknownInv
      <4>2. CASE ~UNCHANGED <<rep, pick, whose>>
        BY <3>2, <3>4, <4>2 DEF RepairRebuild, UnknownInv, TypeOK
      <4> QED BY <4>1, <4>2
    <3> QED BY <1>2, <3>1, <3>3, <3>4 DEF RepairOrphanRecords
  <2> QED BY <2>2, <2>3, <2>4
<1> QED BY <1>1, <1>2

-----------------------------------------------------------------------------
(* The invariant                                                           *)

LEMMA ArchiveInvInit == Init => ArchiveInv
<1> SUFFICES ASSUME Init PROVE ArchiveInv
  OBVIOUS
<1>1. \A u \in Urls : rows[u] \in Name => HashIn(rows[u]) = HashOf(u)
  BY NameFacts, NoNames DEF Init
<1>2. \A u \in Urls : HasPicture(u) => file[rows[u]] = "image"
  BY DEF Init, HasPicture, Served
<1>3. RowsInv /\ KeptInv
  BY <1>1, <1>2 DEF RowsInv, KeptInv, HasPicture, Init
<1>4. Visited /\ Renamed /\ Created /\ BatchInv
  BY DEF Init, Visited, Renamed, Created, BatchInv, OnRecord, WithName
<1>5. OrphanInv /\ UnknownInv
  BY DEF Init, OrphanInv, UnknownInv, Present, Referenced
<1> QED BY <1>3, <1>4, <1>5 DEF ArchiveInv

LEMMA ArchiveInvNext == TypeOK /\ ArchiveInv /\ [Next]_vars => ArchiveInv'
<1> SUFFICES ASSUME TypeOK, ArchiveInv, [Next]_vars PROVE ArchiveInv'
  OBVIOUS
<1>1. CASE Sync
  BY <1>1, QuietSync, LinkKeeps, UnlinkKeeps, RollBackKeeps, DownloadKeeps, RemoveKeeps, UpsertKeeps DEF Sync
<1>2. CASE RepairOrphanRecords \/ Upload \/ UploadRollBack \/ Crash
  BY <1>2, RepairKeeps, UploadKeeps, UploadRollBackKeeps, CrashKeeps
<1>3. CASE UNCHANGED vars
  BY <1>3 DEF vars, syncVars, repairVars, bounds, ArchiveInv, RowsInv, KeptInv, HasPicture, Visited,
     BatchInv, Renamed, Created, OrphanInv, UnknownInv
<1> QED BY <1>1, <1>2, <1>3 DEF Next

LEMMA Inductive ==
  /\ Init => TypeOK /\ ArchiveInv
  /\ TypeOK /\ ArchiveInv /\ [Next]_vars => (TypeOK /\ ArchiveInv)'
<1>1. Init => TypeOK /\ ArchiveInv
  BY TypeInit, ArchiveInvInit
<1>2. TypeOK /\ ArchiveInv /\ [Next]_vars => (TypeOK /\ ArchiveInv)'
  BY TypeNext, ArchiveInvNext
<1> QED BY <1>1, <1>2

-----------------------------------------------------------------------------
(* What a step may do to files and rows                                    *)

\* Nothing, a new file where none was, a row for a file that was looked at,
\* the removal of a file that no row with its picture names, but for the old
\* name of the record being renamed, or what an upload takes back.
Untouched == file' = file /\ rows' = rows
Adds == rows' = rows /\ \E n \in Name : file[n] = "none" /\ \A m \in Name \ {n} : file'[m] = file[m]
Saves ==
    /\ file' = file
    /\ \E u \in Urls, n \in Name :
          /\ file[n] = "image" \/ (n \in taken /\ n \in taken')
          /\ rows' = [rows EXCEPT ![u] = n]
Removes ==
    /\ rows' = rows
    /\ \E n \in Name :
          /\ \A m \in Name \ {n} : file'[m] = file[m]
          /\ \A u \in Urls : HasPicture(u) /\ rows[u] = n => sync \in {"unlink", "drop"} /\ at = u
Takes ==
    /\ rows' = rows
    /\ \E n \in taken' : \A m \in Name \ {n} : file'[m] = file[m]

\* The record being renamed owns both its names.
LEMMA RenamedOwnsNames ==
  ASSUME TypeOK, ArchiveInv, sync \in {"unlink", "drop"}
  PROVE  /\ at \in Urls /\ to \in Name /\ rows[at] \in Name
         /\ \A u \in Urls : rows[u] \in {to, rows[at]} => u = at
<1> USE DEF ArchiveInv
<1>1. /\ at \in Urls /\ to \in Name /\ HashIn(to) = HashOf(at) /\ rows[at] \in Name
  BY NameFacts DEF Visited, OnRecord, WithName
<1>2. ASSUME NEW u \in Urls, rows[u] \in {to, rows[at]} PROVE u = at
  <2>1. rows[u] \in Name /\ HashOf(u) = HashOf(at)
    BY <1>1, <1>2 DEF RowsInv
  <2> QED BY <1>1, <2>1, OneRow, NoNames
<1> QED BY <1>1, <1>2

LEMMA Effects ==
  ASSUME TypeOK, ArchiveInv, [Next]_vars
  PROVE  Untouched \/ Adds \/ Saves \/ Removes \/ Takes
<1> USE DEF ArchiveInv
<1>t. file \in [Name -> {"none", "image", "other"}]
  BY DEF TypeOK
<1>1. CASE \/ SyncBegin \/ SyncCancelled \/ RenamesDone \/ Fetch \/ ImagesDone
           \/ LinkFails \/ UpsertFails \/ Adopt \/ ObtainFails
           \/ \E u \in Urls : VisitRecord(u) \/ VisitImage(u) \/ VisitDamaged(u)
  BY <1>1 DEF Untouched, SyncBegin, SyncCancelled, RenamesDone, Fetch, ImagesDone, LinkFails, UpsertFails,
     Adopt, ObtainFails, VisitRecord, VisitImage, VisitDamaged
<1>2. CASE Link
  <2>1. FreeName(at) \in Name
    BY <1>2, NameFacts DEF Link, FreeName, Visited, OnRecord
  <2> QED BY <1>2, <1>t, <2>1 DEF Link, Adds
<1>3. CASE Download
  <2>1. Readable(HashOf(at)) \in Name
    BY <1>3, NameFacts DEF Download, Visited, OnRecord
  <2> QED BY <1>3, <1>t, <2>1 DEF Download, Adds
<1>4. CASE Relink
  <2>1. rows[at] \in Name
    BY <1>4, NameFacts DEF Relink, Visited, OnRecord, WithName, Renamed
  <2> QED BY <1>4, <1>t, <2>1 DEF Relink, Adds
<1>5. CASE Unlink \/ UnlinkFails \/ Drop
  <2>1. /\ rows' = rows
        /\ file' \in {file, [file EXCEPT ![to] = "none"], [file EXCEPT ![rows[at]] = "none"]}
        /\ sync \in {"unlink", "drop"}
    BY <1>5 DEF Unlink, UnlinkFails, Drop
  <2> QED BY <1>t, <2>1, RenamedOwnsNames DEF Untouched, Removes
<1>6. CASE RollBackFails
  <2>1. CASE sync = "drop" /\ file' = [file EXCEPT ![rows[at]] = "none"]
    BY <1>6, <1>t, <2>1, RenamedOwnsNames DEF RollBackFails, Removes
  <2>2. CASE file' = file
    BY <1>6, <2>2 DEF RollBackFails, Untouched
  <2> QED BY <1>6, <2>1, <2>2 DEF RollBackFails
<1>7. CASE Remove
  <2>1. to \in Name /\ \A u \in Urls : rows[u] = to => ~HasPicture(u)
    BY <1>7 DEF Remove, Visited, WithName, Created
  <2> QED BY <1>7, <1>t, <2>1 DEF Remove, Untouched, Removes
<1>8. CASE Upsert
  <2>1. at \in Urls /\ to \in Name /\ (file[to] = "image" \/ to \in taken)
    BY <1>8 DEF Upsert, Visited, OnRecord, WithName
  <2> QED BY <1>8, <2>1 DEF Upsert, Save, Saves
<1>9. CASE RepairSave
  <2>1. whose \in Urls /\ pick \in Name /\ (file[pick] = "image" \/ pick \in taken)
    BY <1>9 DEF RepairSave, UnknownInv
  <2> QED BY <1>9, <2>1 DEF RepairSave, Save, Saves, Untouched
<1>10. CASE \/ RepairReads \/ RepairScans \/ RepairBegins \/ RepairFetch \/ RepairEnds \/ Crash
            \/ UNCHANGED vars
            \/ \E n \in Name : RepairMatch(n) \/ RepairRebuild(n)
  BY <1>10 DEF Untouched, RepairReads, RepairScans, RepairBegins, RepairFetch, RepairEnds, Crash, vars,
     RepairMatch, RepairRebuild
<1>11. CASE Upload
  BY <1>11, <1>t DEF Upload, Adds
<1>12. CASE UploadRollBack
  <2>1. PICK n \in batch : file' = [file EXCEPT ![n] = "none"] /\ taken' = taken \cup {n}
    BY <1>12 DEF UploadRollBack
  <2> QED BY <1>12, <1>t, <2>1 DEF UploadRollBack, Takes
<1> QED BY <1>1, <1>2, <1>3, <1>4, <1>5, <1>6, <1>7, <1>8, <1>9, <1>10, <1>11, <1>12
    DEF Next, Sync, RepairOrphanRecords

-----------------------------------------------------------------------------
(* The theorems                                                            *)

\* In every reachable state the variables have their types, a hash has at
\* most one row and the token serializes synchronization and repair.
THEOREM TypesAndToken == Spec => []TypeOK
BY Inductive, PTL DEF Spec

\* Whatever fails or crashes, a picture that a row once had keeps a file under
\* one of its names, unless an upload took back the file of the row.
THEOREM PicturesAreKept == Spec => []PictureKept
<1>1. TypeOK /\ ArchiveInv => PictureKept
  <2> SUFFICES ASSUME ArchiveInv, NEW u \in Urls, HasPicture(u)
               PROVE  \E n \in Name : HashIn(n) = HashOf(u) /\ file[n] = "image"
    BY DEF PictureKept
  <2>1. CASE rows[u] = Opaque(u)
    BY <2>1 DEF ArchiveInv, KeptInv
  <2>2. CASE rows[u] # Opaque(u)
    BY <2>2 DEF ArchiveInv, RowsInv, HasPicture
  <2> QED BY <2>1, <2>2
<1> QED BY <1>1, Inductive, PTL DEF Spec

\* A file without a row has a reason whenever nobody is at work.
THEOREM OrphansHaveReasons == Spec => []OrphansAreExplained
<1>1. TypeOK /\ ArchiveInv => OrphansAreExplained
  <2> SUFFICES ASSUME TypeOK, ArchiveInv, token = "free", NEW n \in Name, file[n] # "none",
                      \A u \in Urls : rows[u] # n
               PROVE  n \in left
    BY DEF OrphansAreExplained, Present, Referenced
  <2>1. origin = "kept"
    BY DEF TypeOK, ArchiveInv, Visited, WithName
  <2> QED BY <2>1 DEF ArchiveInv, OrphanInv
<1> QED BY <1>1, Inductive, PTL DEF Spec

\* A row that has its picture is deprived of it by its own renaming, until its
\* row is updated, and by the roll back of an upload: by nothing else.
THEOREM ServedRowsStay == Spec => ServedStays
<1> DEFINE Stays(u) ==
      HasPicture(u) /\ Served(u) /\ ~Served(u)' =>
          \/ sync \in {"unlink", "drop"} /\ at = u
          \/ rows'[u] \in taken'
<1>1. TypeOK /\ ArchiveInv /\ [Next]_vars => \A u \in Urls : Stays(u)
  <2> SUFFICES ASSUME TypeOK, ArchiveInv, [Next]_vars, NEW u \in Urls, HasPicture(u), Served(u), ~Served(u)'
               PROVE  \/ sync \in {"unlink", "drop"} /\ at = u
                      \/ rows'[u] \in taken'
    OBVIOUS
  <2> USE DEF Served
  <2>1. ~Untouched
    BY DEF Untouched
  <2>2. ~Adds
    BY DEF Adds
  <2>3. CASE Saves
    BY <2>3 DEF Saves, TypeOK
  <2>4. CASE Removes
    BY <2>4 DEF Removes
  <2>5. CASE Takes
    BY <2>5 DEF Takes
  <2> QED BY <2>1, <2>2, <2>3, <2>4, <2>5, Effects
<1>2. TypeOK /\ ArchiveInv /\ [Next]_vars => [\A u \in Urls : Stays(u)]_vars
  BY <1>1
<1> QED BY <1>2, Inductive, PTL DEF Spec, ServedStays

\* A row that is changed, however late after the look at its file, names a
\* picture, or a file that an upload has taken back since.
THEOREM ChangedRowsCanBeServed == Spec => ChangedRowsAreServed
<1> DEFINE Changed(u) == rows'[u] # rows[u] => Served(u)' \/ rows'[u] \in taken
<1>1. TypeOK /\ ArchiveInv /\ [Next]_vars => \A u \in Urls : Changed(u)
  <2> SUFFICES ASSUME TypeOK, ArchiveInv, [Next]_vars, NEW u \in Urls, rows'[u] # rows[u]
               PROVE  Served(u)' \/ rows'[u] \in taken
    OBVIOUS
  <2>1. Saves
    BY Effects DEF Untouched, Adds, Removes, Takes
  <2> QED BY <2>1 DEF Saves, Served, TypeOK
<1>2. TypeOK /\ ArchiveInv /\ [Next]_vars => [\A u \in Urls : Changed(u)]_vars
  BY <1>1
<1> QED BY <1>2, Inductive, PTL DEF Spec, ChangedRowsAreServed

==============================================================================
