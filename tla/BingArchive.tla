----------------------------- MODULE BingArchive -----------------------------
(***************************************************************************)
(* The Bing archive (internal/bing): the synchronization, which renames    *)
(* the files of an earlier naming scheme and then reconciles the rows with *)
(* the published pictures, and the repair of orphans that the integrity    *)
(* page starts. One token serializes the two; the integrity check that     *)
(* lists the orphans, and uploads of the file browser, run without it.     *)
(*                                                                         *)
(* Abstractions: an image is its address; the hash of an address is the    *)
(* set of addresses published for the same picture; extension and year are *)
(* left out of the names, so one picture has the name made of the digest   *)
(* of its address, the readable name, and the readable name with a         *)
(* qualifier. Every row carries the hash of its address.                   *)
(***************************************************************************)
EXTENDS Naturals, FiniteSets

CONSTANTS
    Urls,        \* image addresses
    Twins,       \* addresses that were published for one picture
    Undated,     \* addresses whose row carries no date: the renaming pass skips them
    None,        \* no address, no name
    NoRow,       \* the table has no row for the address
    NoFile,      \* the row names no file
    MaxUploads,  \* bound: files the file browser puts into the archive directory
    MaxCrashes   \* bound: crashes

HashOf(u) == IF u \in Twins THEN Twins ELSE {u}

Opaque(u) == <<"opaque", u>>
Readable(h) == <<"readable", h>>
Collision(u) == <<"collision", u>>

Name == {Opaque(u) : u \in Urls} \cup {Collision(u) : u \in Urls}
          \cup {Readable(HashOf(u)) : u \in Urls}

ASSUME BingAssumption ==
    /\ Twins \subseteq Urls
    /\ Undated \subseteq Urls
    /\ None \notin Urls \cup Name
    /\ NoRow # NoFile
    /\ {NoRow, NoFile} \cap Name = {}
    /\ MaxUploads \in Nat
    /\ MaxCrashes \in Nat

VARIABLES
    file,      \* name -> "none", an "image", or some "other" bytes
    rows,      \* bing_images: address -> the file its row names
    token,     \* who holds syncToken
    sync,      \* the synchronization's next step
    pass,      \* the renaming pass or the pass over the published images
    todo,      \* the addresses this pass still visits
    at,        \* the address it visits
    to,        \* the name its row gets
    origin,    \* how that name got its file
    rep,       \* the repair's next step
    refs,      \* the references the integrity check read
    orphans,   \* the orphans still to visit
    unknown,   \* the orphans no row has the hash of
    window,    \* the published addresses, one for each hash
    pick,      \* the orphan it saves a row for
    whose,     \* and the address of that row
    missing,   \* addresses whose row never had its picture (history)
    left,      \* files that have a reason to be without a row (history)
    batch,     \* files of uploads that may still take back what they published
    taken,     \* names such a roll back took from the directory (history)
    uploads,   \* files the file browser has put into the directory
    crashes

syncVars == <<sync, pass, todo, at, to, origin>>
repairVars == <<rep, refs, orphans, unknown, window, pick, whose>>
bounds == <<batch, uploads, crashes>>
vars == <<file, rows, token, syncVars, repairVars, missing, taken, left, bounds>>

\* Every variable has its type, a hash has at most one row (hsh is unique),
\* and whoever works on rows or files holds the token.
TypeOK ==
    /\ file \in [Name -> {"none", "image", "other"}]
    /\ rows \in [Urls -> Name \cup {NoRow, NoFile}]
    /\ \A u, v \in Urls :
          u # v /\ HashOf(u) = HashOf(v) => rows[u] = NoRow \/ rows[v] = NoRow
    /\ token \in {"free", "sync", "repair"}
    /\ token = "sync" <=> sync # "idle"
    /\ token = "repair" <=> rep \in {"match", "save", "rebuild"}
    /\ sync \in {"idle", "visit", "link", "unlink", "upsert", "relink", "drop", "remove", "fetch", "obtain"}
    /\ pass \in {"rename", "images"}
    /\ todo \subseteq Urls
    /\ at \in Urls \cup {None}
    /\ to \in Name \cup {None}
    /\ origin \in {"kept", "renamed", "created"}
    /\ rep \in {"idle", "scan", "wait", "match", "save", "rebuild"}
    /\ refs \subseteq Name
    /\ orphans \subseteq Name
    /\ unknown \subseteq Name
    /\ window \subseteq Urls
    /\ pick \in Name \cup {None}
    /\ whose \in Urls \cup {None}
    /\ missing \subseteq Urls
    /\ batch \subseteq Name
    /\ taken \subseteq Name
    /\ left \subseteq Name
    /\ uploads \in 0..MaxUploads
    /\ crashes \in 0..MaxCrashes

Referenced == {rows[u] : u \in Urls} \cap Name

Present == {n \in Name : file[n] # "none"}

\* The row of u names a picture: the image can be delivered.
Served(u) == rows[u] \in Name /\ file[rows[u]] = "image"

\* The row of u, if there is one, names no file that exists.
Gone(u) == rows[u] \in Name => file[rows[u]] = "none"

\* A database and a directory that may have diverged before the start: files
\* that are gone, damaged, or of no row.
Init ==
    /\ file \in [Name -> {"none", "image", "other"}]
    /\ rows \in [Urls -> Name \cup {NoRow, NoFile}]
    /\ \A u \in Urls : rows[u] \in {NoRow, NoFile, Opaque(u), Readable(HashOf(u)), Collision(u)}
    /\ \A u, v \in Urls :
          u # v /\ HashOf(u) = HashOf(v) => rows[u] = NoRow \/ rows[v] = NoRow
    /\ token = "free"
    /\ sync = "idle" /\ pass = "rename" /\ todo = {}
    /\ at = None /\ to = None /\ origin = "kept"
    /\ rep = "idle" /\ refs = {} /\ orphans = {} /\ unknown = {} /\ window = {}
    /\ pick = None /\ whose = None
    /\ missing = {u \in Urls : ~Served(u)}
    /\ left = Present \ Referenced
    /\ batch = {} /\ taken = {}
    /\ uploads = 0 /\ crashes = 0

-----------------------------------------------------------------------------
(* Service.Sync                                                            *)

Goto(step) == sync' = step /\ UNCHANGED <<pass, todo, at, to, origin>>

\* The visit of `at` is over and the pass goes on.
NextRecord ==
    /\ sync' = "visit"
    /\ todo' = todo \ {at}
    /\ at' = None /\ to' = None /\ origin' = "kept"
    /\ UNCHANGED pass

\* Sync returns and gives the token back.
Return ==
    /\ sync' = "idle" /\ pass' = "rename" /\ todo' = {}
    /\ at' = None /\ to' = None /\ origin' = "kept"
    /\ token' = "free"

\* A failure ends the renaming pass and with it the synchronization, while
\* the other pass collects it and goes on with the next image.
Fail ==
    \/ pass = "rename" /\ Return
    \/ pass = "images" /\ NextRecord /\ UNCHANGED token

\* Mutant: the table has no unique hash.
HashFreeAlways(u) == TRUE

\* Another row with the hash makes the upsert fail: its conflict clause names
\* only the address.
HashFree(u) == \A v \in Urls \ {u} : HashOf(v) = HashOf(u) => rows[v] = NoRow

Save(u, n) ==
    /\ HashFree(u)
    /\ rows' = [rows EXCEPT ![u] = n]
    /\ missing' = missing \ {u}
    /\ taken' = IF file[n] = "image" THEN taken \ {n} ELSE taken

\* ListWithFiles: the rows that name a file.
SyncBegin ==
    /\ token = "free" /\ sync = "idle"
    /\ token' = "sync"
    /\ sync' = "visit" /\ pass' = "rename"
    /\ todo' = {u \in Urls : rows[u] \in Name}
    /\ UNCHANGED <<at, to, origin, file, rows, repairVars, missing, taken, left, bounds>>

\* A cancelled context ends either pass between two records.
SyncCancelled ==
    /\ sync \in {"visit", "fetch"}
    /\ Return
    /\ UNCHANGED <<file, rows, repairVars, missing, taken, left, bounds>>

\* The record has a name of the earlier scheme, seen from its own date.
NeedsRename(u) == rows[u] = Opaque(u) /\ u \notin Undated

\* migrateExistingURLDigestFiles: other names and missing files are skipped;
\* bytes that are no image end the synchronization.
VisitRecord(u) ==
    /\ sync = "visit" /\ pass = "rename" /\ u \in todo
    /\ \/ /\ ~NeedsRename(u) \/ file[rows[u]] = "none"
          /\ todo' = todo \ {u}
          /\ UNCHANGED <<sync, pass, at, to, origin, token>>
       \/ /\ NeedsRename(u) /\ file[rows[u]] = "image"
          /\ sync' = "link" /\ at' = u
          /\ UNCHANGED <<pass, todo, to, origin, token>>
       \/ /\ NeedsRename(u) /\ file[rows[u]] = "other"
          /\ Return
    /\ UNCHANGED <<file, rows, repairVars, missing, taken, left, bounds>>

RenamesDone ==
    /\ sync = "visit" /\ pass = "rename" /\ todo = {}
    /\ Goto("fetch")
    /\ UNCHANGED <<file, rows, token, repairVars, missing, taken, left, bounds>>

Fetch ==
    /\ sync = "fetch"
    /\ pass' = "images" /\ sync' = "visit"
    /\ todo' \in SUBSET Urls
    /\ UNCHANGED <<at, to, origin, file, rows, token, repairVars, missing, taken, left, bounds>>

\* syncImage: a usable file is kept, after a renaming if its name is of the
\* earlier scheme; a damaged one is an error; otherwise a file is obtained.
VisitImage(u) ==
    /\ sync = "visit" /\ pass = "images" /\ u \in todo
    /\ at' = u
    /\ UNCHANGED <<pass, todo, token, origin>>
    /\ \/ /\ Served(u) /\ rows[u] = Opaque(u)
          /\ sync' = "link" /\ UNCHANGED to
       \/ /\ Served(u) /\ rows[u] # Opaque(u)
          /\ sync' = "upsert" /\ to' = rows[u]
       \/ /\ Gone(u)
          /\ sync' = "obtain" /\ UNCHANGED to
    /\ UNCHANGED <<file, rows, repairVars, missing, taken, left, bounds>>

VisitDamaged(u) ==
    /\ sync = "visit" /\ pass = "images" /\ u \in todo
    /\ rows[u] \in Name /\ file[rows[u]] = "other"
    /\ todo' = todo \ {u}
    /\ UNCHANGED <<sync, pass, at, to, origin, file, rows, token, repairVars, missing, taken, left, bounds>>

ImagesDone ==
    /\ sync = "visit" /\ pass = "images" /\ todo = {}
    /\ Return
    /\ UNCHANGED <<file, rows, repairVars, missing, taken, left, bounds>>

\* The names the renaming tries, none of which it may replace.
FreeName(u) ==
    IF file[Readable(HashOf(u))] = "none" THEN Readable(HashOf(u)) ELSE Collision(u)

\* RenameFile, first half: the new name is linked to the file.
Link ==
    /\ sync = "link"
    /\ file[FreeName(at)] = "none"
    /\ file' = [file EXCEPT ![FreeName(at)] = file[rows[at]]]
    /\ to' = FreeName(at) /\ origin' = "renamed"
    /\ sync' = "unlink"
    /\ UNCHANGED <<pass, todo, at, rows, token, repairVars, missing, taken, left, bounds>>

\* Both names are taken, or the link fails.
LinkFails ==
    /\ sync = "link"
    /\ Fail
    /\ UNCHANGED <<file, rows, repairVars, missing, taken, left, bounds>>

\* RenameFile, second half.
Unlink ==
    /\ sync = "unlink"
    /\ file' = [file EXCEPT ![rows[at]] = "none"]
    /\ Goto("upsert")
    /\ UNCHANGED <<rows, token, repairVars, missing, taken, left, bounds>>

\* The old name cannot be removed: the new one is, if that succeeds.
UnlinkFails ==
    /\ sync = "unlink"
    /\ \/ file' = [file EXCEPT ![to] = "none"] /\ UNCHANGED left
       \/ left' = left \cup {to} /\ UNCHANGED file
    /\ Fail
    /\ UNCHANGED <<rows, repairVars, missing, taken, bounds>>

Upsert ==
    /\ sync = "upsert"
    /\ Save(at, to)
    /\ NextRecord
    /\ UNCHANGED <<file, token, repairVars, left, bounds>>

\* Mutant: the roll back does not ask whether this attempt created the file.
UpsertFailsRemoves ==
    /\ sync = "upsert"
    /\ IF origin = "renamed" THEN Goto("relink") ELSE Goto("remove")
    /\ UNCHANGED <<file, rows, token, repairVars, missing, taken, left, bounds>>

\* Mutant: the roll back treats a renamed file as one it created.
UpsertFailsForgetsRename ==
    /\ sync = "upsert"
    /\ \/ origin = "kept" /\ Fail
       \/ origin # "kept" /\ Goto("remove") /\ UNCHANGED token
    /\ UNCHANGED <<file, rows, repairVars, missing, taken, left, bounds>>

\* Mutant: a created file is not removed.
UpsertFailsLeaves ==
    /\ sync = "upsert"
    /\ \/ origin # "renamed" /\ Fail
       \/ origin = "renamed" /\ Goto("relink") /\ UNCHANGED token
    /\ UNCHANGED <<file, rows, repairVars, missing, taken, left, bounds>>

\* A failed update rolls its own renaming or its own file back.
UpsertFails ==
    /\ sync = "upsert"
    /\ \/ origin = "kept" /\ Fail
       \/ origin = "renamed" /\ Goto("relink") /\ UNCHANGED token
       \/ origin = "created" /\ Goto("remove") /\ UNCHANGED token
    /\ UNCHANGED <<file, rows, repairVars, missing, taken, left, bounds>>

Relink ==
    /\ sync = "relink"
    /\ file[rows[at]] = "none"
    /\ file' = [file EXCEPT ![rows[at]] = file[to]]
    /\ Goto("drop")
    /\ UNCHANGED <<rows, token, repairVars, missing, taken, left, bounds>>

\* The new name goes, and the failed update is reported.
Drop ==
    /\ sync = "drop"
    /\ file' = [file EXCEPT ![to] = "none"]
    /\ Fail
    /\ UNCHANGED <<rows, repairVars, missing, taken, left, bounds>>

\* Half done, a failed roll back takes the restored name away again.
RollBackFails ==
    /\ sync \in {"relink", "drop"}
    /\ \/ sync = "drop" /\ file' = [file EXCEPT ![rows[at]] = "none"]
       \/ UNCHANGED file
    /\ left' = left \cup {to}
    /\ Fail
    /\ UNCHANGED <<rows, repairVars, missing, taken, bounds>>

\* Mutant: whatever stands at the name is adopted.
AdoptUnchecked ==
    /\ sync = "obtain"
    /\ file[Readable(HashOf(at))] # "none"
    /\ to' = Readable(HashOf(at))
    /\ sync' = "upsert"
    /\ UNCHANGED <<pass, todo, at, origin, file, rows, token, repairVars, missing, taken, left, bounds>>

\* obtainFile: a file at the deterministic name is adopted if it is an image.
Adopt ==
    /\ sync = "obtain"
    /\ file[Readable(HashOf(at))] = "image"
    /\ to' = Readable(HashOf(at))
    /\ sync' = "upsert"
    /\ UNCHANGED <<pass, todo, at, origin, file, rows, token, repairVars, missing, taken, left, bounds>>

\* The download is staged, checked and committed without replacing a file.
\* Between the look at the name and the commit the file browser may have put
\* an image there, which is adopted: that order is Upload, then Adopt.
Download ==
    /\ sync = "obtain"
    /\ file[Readable(HashOf(at))] = "none"
    /\ file' = [file EXCEPT ![Readable(HashOf(at))] = "image"]
    /\ to' = Readable(HashOf(at)) /\ origin' = "created"
    /\ sync' = "upsert"
    /\ UNCHANGED <<pass, todo, at, rows, token, repairVars, missing, taken, left, bounds>>

\* The download, its validation or the commit fails.
ObtainFails ==
    /\ sync = "obtain"
    /\ Fail
    /\ UNCHANGED <<file, rows, repairVars, missing, taken, left, bounds>>

\* The file this attempt created is removed, if that succeeds.
Remove ==
    /\ sync = "remove"
    /\ \/ file' = [file EXCEPT ![to] = "none"] /\ UNCHANGED left
       \/ left' = left \cup {to} /\ UNCHANGED file
    /\ Fail
    /\ UNCHANGED <<rows, repairVars, missing, taken, bounds>>

-----------------------------------------------------------------------------
(* IntegrityHandler.Repair and Service.RepairOrphanRecords                 *)

\* integrity.Check: the references are read first, the directory later.
RepairReads ==
    /\ rep = "idle"
    /\ rep' = "scan" /\ refs' = Referenced
    /\ UNCHANGED <<orphans, unknown, window, pick, whose, file, rows, token, syncVars, missing, taken, left, bounds>>

\* Only names that end in a hash are candidates.
RepairScans ==
    /\ rep = "scan"
    /\ rep' = "wait" /\ refs' = {}
    /\ orphans' = {n \in Present \ refs : n[1] # "opaque"}
    /\ UNCHANGED <<unknown, window, pick, whose, file, rows, token, syncVars, missing, taken, left, bounds>>

RepairBegins ==
    /\ rep = "wait" /\ token = "free"
    /\ token' = "repair" /\ rep' = "match"
    /\ UNCHANGED <<refs, orphans, unknown, window, pick, whose, file, rows, syncVars, missing, taken, left, bounds>>

HashIn(n) == IF n[1] = "readable" THEN n[2] ELSE HashOf(n[2])

ByHash(h) == {u \in Urls : HashOf(u) = h /\ rows[u] # NoRow}

\* repairExisting: a row whose file can be used keeps it, and a damaged file
\* is an error; a missing one is to be replaced by the orphan.
RepairExisting(u, n) ==
    \/ /\ ~Gone(u)
       /\ UNCHANGED <<rep, pick, whose>>
    \/ /\ Gone(u)
       /\ rep' = "save" /\ pick' = n /\ whose' = u

RepairMatch(n) ==
    /\ rep = "match" /\ n \in orphans
    /\ orphans' = orphans \ {n}
    /\ \/ /\ file[n] # "image"
          /\ UNCHANGED <<rep, unknown, pick, whose>>
       \/ /\ file[n] = "image"
          /\ \E u \in ByHash(HashIn(n)) : RepairExisting(u, n)
          /\ UNCHANGED unknown
       \/ /\ file[n] = "image" /\ ByHash(HashIn(n)) = {}
          /\ unknown' = unknown \cup {n}
          /\ UNCHANGED <<rep, pick, whose>>
    /\ UNCHANGED <<refs, window, file, rows, token, syncVars, missing, taken, left, bounds>>

\* The row of the orphan is saved, without another look at the file, or that
\* fails; the next candidate follows.
RepairSave ==
    /\ rep = "save"
    /\ Save(whose, pick) \/ UNCHANGED <<rows, missing, taken>>
    /\ rep' = IF window = {} THEN "match" ELSE "rebuild"
    /\ pick' = None /\ whose' = None
    /\ UNCHANGED <<refs, orphans, unknown, window, file, token, syncVars, left, bounds>>

\* Of two published addresses with one hash the last one counts.
RepairFetch ==
    /\ rep = "match" /\ orphans = {} /\ unknown # {}
    /\ rep' = "rebuild"
    /\ window' \in {w \in SUBSET Urls : \A u, v \in w : HashOf(u) = HashOf(v) => u = v}
    /\ UNCHANGED <<refs, orphans, unknown, pick, whose, file, rows, token, syncVars, missing, taken, left, bounds>>

\* The row of the published address gets the orphan, or a new row does.
RepairRebuild(n) ==
    /\ rep = "rebuild" /\ n \in unknown
    /\ unknown' = unknown \ {n}
    /\ \/ /\ \A u \in window : HashOf(u) # HashIn(n)
          /\ UNCHANGED <<rep, pick, whose>>
       \/ \E u \in window : HashOf(u) = HashIn(n) /\ RepairExisting(u, n)
    /\ UNCHANGED <<refs, orphans, window, file, rows, token, syncVars, missing, taken, left, bounds>>

\* All candidates are settled, or the request is cancelled or the metadata
\* cannot be fetched; the handler's second check changes nothing.
RepairEnds ==
    /\ rep \in {"wait", "match", "rebuild"}
    /\ rep' = "idle" /\ orphans' = {} /\ unknown' = {} /\ window' = {}
    /\ pick' = None /\ whose' = None
    /\ token' = IF token = "repair" THEN "free" ELSE token
    /\ UNCHANGED <<refs, file, rows, syncVars, missing, taken, left, bounds>>

-----------------------------------------------------------------------------
\* The file browser publishes a file below a root that holds the archive; it
\* replaces nothing. Nobody uploads a name of the earlier scheme.
Upload ==
    /\ uploads < MaxUploads
    /\ uploads' = uploads + 1
    /\ \E n \in Name, bytes \in {"image", "other"} :
          /\ n[1] # "opaque" /\ file[n] = "none"
          /\ file' = [file EXCEPT ![n] = bytes]
          /\ left' = left \cup {n}
          /\ batch' = batch \cup {n}
    /\ UNCHANGED <<rows, token, syncVars, repairVars, missing, taken, crashes>>

\* rollbackFiles: a later file of the upload fails, and what it published is
\* removed by name, with or without a row. A batch that succeeds, or whose
\* removal fails, just takes nothing back.
UploadRollBack ==
    /\ \E n \in batch :
          /\ file' = [file EXCEPT ![n] = "none"]
          /\ batch' = batch \ {n}
          /\ taken' = taken \cup {n}
          /\ left' = left \ {n}
    /\ UNCHANGED <<rows, token, syncVars, repairVars, missing, uploads, crashes>>

Crash ==
    /\ crashes < MaxCrashes
    /\ crashes' = crashes + 1
    /\ sync' = "idle" /\ pass' = "rename" /\ todo' = {}
    /\ at' = None /\ to' = None /\ origin' = "kept"
    /\ rep' = "idle" /\ refs' = {} /\ orphans' = {} /\ unknown' = {} /\ window' = {}
    /\ pick' = None /\ whose' = None /\ batch' = {}
    /\ token' = "free"
    /\ left' = IF origin = "kept" THEN left ELSE left \cup {to}
    /\ UNCHANGED <<file, rows, missing, taken, uploads>>

Sync ==
    \/ SyncBegin \/ SyncCancelled \/ RenamesDone \/ Fetch \/ ImagesDone
    \/ \E u \in Urls : VisitRecord(u) \/ VisitImage(u) \/ VisitDamaged(u)
    \/ Link \/ LinkFails \/ Unlink \/ UnlinkFails
    \/ Upsert \/ UpsertFails \/ Relink \/ Drop \/ RollBackFails
    \/ Adopt \/ Download \/ ObtainFails \/ Remove

RepairOrphanRecords ==
    \/ RepairReads \/ RepairScans \/ RepairBegins \/ RepairSave \/ RepairFetch \/ RepairEnds
    \/ \E n \in Name : RepairMatch(n) \/ RepairRebuild(n)

Next == Sync \/ RepairOrphanRecords \/ Upload \/ UploadRollBack \/ Crash

Spec == Init /\ [][Next]_vars

-----------------------------------------------------------------------------
\* The row of u once had its picture, and no roll back of an upload has taken
\* the file it names.
HasPicture(u) == rows[u] \in Name /\ u \notin missing /\ rows[u] \notin taken

\* A picture that a row once had is never lost, unless the file was part of an
\* upload that took it back: whatever else fails or crashes, some name of the
\* picture still has its file, so that the next synchronization or repair
\* finds it ("a valid deterministic orphan left by an interrupted run is
\* adopted").
PictureKept ==
    \A u \in Urls : HasPicture(u) =>
        \E n \in Name : HashIn(n) = HashOf(u) /\ file[n] = "image"

\* A row that has its picture can be delivered until its own renaming removes
\* the old name, and again with the update of the row: no roll back of the
\* archive and no repair of another orphan takes its file or its reference
\* away. Only the roll back of an upload does: it removes the file of the row,
\* or the one that a repair is just giving to it.
ServedStays ==
    [][\A u \in Urls :
          HasPicture(u) /\ Served(u) /\ ~Served(u)' =>
              \/ sync \in {"unlink", "drop"} /\ at = u
              \/ rows'[u] \in taken']_vars

\* Whoever changes a row, the synchronization many steps after it looked at a
\* file, or the repair from a list of orphans that may be old, leaves it with
\* the name of a picture, so that a row counted as synchronized or repaired can
\* be delivered; unless the roll back of an upload took the file after the look.
ChangedRowsAreServed ==
    [][\A u \in Urls : rows'[u] # rows[u] => Served(u)' \/ rows'[u] \in taken]_vars

\* A file without a row is there for a reason: it was there before, somebody
\* put it there, or a crash or a failed roll back left it. Everything else
\* the synchronization publishes gets its row or is removed.
OrphansAreExplained == token = "free" => Present \ Referenced \subseteq left

=============================================================================
