------------------------------- MODULE Ingest -------------------------------
(***************************************************************************)
(* Managed images: uploads (internal/imageupload) and the integrity check  *)
(* and repair of the settings page (internal/integrity, internal/httpapi,  *)
(* internal/integrityrepair) over the upload directory and the images      *)
(* table.  An upload publishes its file and then inserts its row; a check  *)
(* counts the rows, looks for the file of each, compares the checksums and *)
(* scans the directory, with uploads in between; a repair gives a row to   *)
(* each file the check reported, and checks again.                         *)
(*                                                                         *)
(* Abstractions: a content stands for the bytes and for their SHA-1; a     *)
(* place stands for the month folder and the extension, so that a path is  *)
(* an identifier at a place; id and uuid of a row are one identifier.  A   *)
(* query of the check and the files it leads to are one step; a report is  *)
(* the number of its issues, its verdict and the orphans it leaves out.    *)
(***************************************************************************)
EXTENDS Naturals, FiniteSets

CONSTANTS
    Uploads,       \* upload requests served at the same time
    Contents,      \* what the uploaded files hold
    Ids,           \* identifiers uploads request or draw
    RepairIds,     \* identifiers the repair draws
    Places,        \* month folder and extension
    None,          \* no file, no path
    MaxOldFiles,   \* bound: files in the upload directory at the start
    MaxIssues,     \* MaxReportedIssues
    MayCrash,      \* may the process die?
    RepairDuringUploads  \* does an administrator repair while uploads run?

Path == Ids \X Places

Job == [sha : Contents, path : Path]

ASSUME IngestAssumption ==
    /\ None \notin Contents \cup Path \cup Job
    /\ Ids \cap RepairIds = {}
    /\ IsFiniteSet(RepairIds)
    /\ IsFiniteSet(Contents)
    /\ Cardinality(RepairIds) >= Cardinality(Contents)
    /\ {MaxOldFiles, MaxIssues} \subseteq Nat
    /\ MayCrash \in BOOLEAN
    /\ RepairDuringUploads \in BOOLEAN

Row == [id : Ids \cup RepairIds, sha : Contents, path : Path]

VARIABLES
    file,      \* path -> the content of the file there, or None
    rows,      \* the images table
    lost,      \* contents whose file was gone or damaged before the start (history)
    left,      \* paths whose file a crash, a failed removal or an earlier run left
               \* without a row (history)
    acked,     \* contents an upload was told are stored (history)
    pc,        \* upload -> its next step
    job,       \* upload -> the content and the path it works with
    mode,      \* a check, the check of a repair, or the one after it
    rpc,       \* the next step of the check or the repair
    counted,   \* the rows the check counted; it keeps their number
    issues,    \* how many issues it has found so far
    verdict,   \* what the last check answered
    skipped,   \* the orphans the last report had no room for, or whose repair is
               \* reported as failed (history)
    failed,    \* paths of uploads that failed after they published their file, since
               \* the check began (history)
    seen,      \* the files the check found references to
    todo,      \* the orphans the repair still has to visit
    at,        \* the orphan it visits
    digest     \* its checksum

uploadVars == <<pc, job>>
reportVars == <<mode, counted, issues, verdict, skipped, failed>>
repairVars == <<reportVars, rpc, seen, todo, at, digest>>
vars == <<file, rows, lost, left, acked, uploadVars, repairVars>>

\* Every variable has its type, and the table's three uniqueness constraints
\* (id, uuid, sha1) hold.
TypeOK ==
    /\ file \in [Path -> Contents \cup {None}]
    /\ rows \subseteq Row
    /\ IsFiniteSet(rows)
    /\ \A r, s \in rows : r.id = s.id \/ r.sha = s.sha => r = s
    /\ lost \subseteq Contents
    /\ left \subseteq Path
    /\ acked \subseteq Contents
    /\ pc \in [Uploads -> {"idle", "lookup", "commit", "create", "remove", "abandon", "duplicate"}]
    /\ job \in [Uploads -> Job \cup {None}]
    /\ \A u \in Uploads : pc[u] = "idle" \/ job[u] # None
    /\ mode \in {"check", "repair", "after"}
    /\ rpc \in {"idle", "count", "references", "checksums", "scan",
               "next", "stat", "query", "create", "existing", "update"}
    /\ counted \subseteq Row
    /\ issues \in Nat
    /\ verdict \in {"none", "healthy", "issues"}
    /\ skipped \cup failed \subseteq Path
    /\ seen \subseteq Path
    /\ todo \subseteq Path
    /\ at \in Path \cup {None}
    /\ digest \in Contents \cup {None}
    /\ rpc \in {"stat", "query", "create", "existing", "update"} => at \in Path
    /\ rpc \in {"query", "create", "existing", "update"} => digest \in Contents

\* The row and the file agree: the image can be served.
Served(r) == file[r.path] = r.sha

\* What the database contains and the directory does not match: a database
\* restored beside a directory that lacks a file, or holds other bytes under
\* its name, and files the database does not know.
Init ==
    /\ \E old \in [Path -> Contents \cup {None}],
          table \in SUBSET {r \in Row : r.id = r.path[1]} :
          /\ Cardinality({p \in Path : old[p] # None}) <= MaxOldFiles
          /\ \A r, s \in table : r = s
          /\ file = old
          /\ rows = table
          /\ lost = {r.sha : r \in {r \in table : old[r.path] # r.sha}}
          /\ left = {p \in Path : old[p] # None} \ {r.path : r \in table}
    /\ acked = {}
    /\ pc = [u \in Uploads |-> "idle"]
    /\ job = [u \in Uploads |-> None]
    /\ mode = "check"
    /\ rpc = "idle"
    /\ counted = {}
    /\ issues = 0
    /\ verdict = "none"
    /\ skipped = {}
    /\ failed = {}
    /\ seen = {}
    /\ todo = {}
    /\ at = None
    /\ digest = None

\* No repair, or a check that belongs to one, is running.
NoRepair == rpc = "idle" \/ mode = "check"

Goto(u, step) == pc' = [pc EXCEPT ![u] = step] /\ UNCHANGED job

Finish(u) ==
    /\ pc' = [pc EXCEPT ![u] = "idle"]
    /\ job' = [job EXCEPT ![u] = None]

\* The file of u is published and has no row yet, or never will.
Published(u) == pc[u] \in {"create", "remove", "abandon"}

BySHA1(c) == {r \in rows : r.sha = c}

Conflicts(r) == \E s \in rows : s.id = r.id \/ s.sha = r.sha

NewRow(u) == [id |-> job[u].path[1], sha |-> job[u].sha, path |-> job[u].path]

-----------------------------------------------------------------------------
(* imageupload.Save                                                        *)

\* The identifier is the client's or random; the staged file is an image and
\* its checksum is known.
UploadStart(u) ==
    /\ pc[u] = "idle"
    /\ RepairDuringUploads \/ NoRepair
    /\ \E c \in Contents, p \in Path :
          job' = [job EXCEPT ![u] = [sha |-> c, path |-> p]]
    /\ pc' = [pc EXCEPT ![u] = "lookup"]
    /\ UNCHANGED <<file, rows, lost, left, acked, repairVars>>

\* A row with the checksum exists: the upload is reported as its duplicate.
UploadLookup(u) ==
    /\ pc[u] = "lookup"
    /\ \/ /\ BySHA1(job[u].sha) # {}
          /\ acked' = acked \cup {job[u].sha}
          /\ Finish(u)
       \/ /\ BySHA1(job[u].sha) = {}
          /\ Goto(u, "commit")
          /\ UNCHANGED acked
    /\ UNCHANGED <<file, rows, lost, left, repairVars>>

\* Mutant: the file is published over an existing one.
UploadCommitReplaces(u) ==
    /\ pc[u] = "commit"
    /\ file' = [file EXCEPT ![job[u].path] = job[u].sha]
    /\ Goto(u, "create")
    /\ UNCHANGED <<rows, lost, left, acked, repairVars>>

\* StagedFile.Commit: a hard link that never replaces an existing file.
UploadCommit(u) ==
    /\ pc[u] = "commit"
    /\ \/ /\ file[job[u].path] = None
          /\ file' = [file EXCEPT ![job[u].path] = job[u].sha]
          /\ Goto(u, "create")
       \/ /\ file[job[u].path] # None
          /\ Finish(u)
          /\ UNCHANGED file
    /\ UNCHANGED <<rows, lost, left, acked, repairVars>>

\* Mutant: a failed insert leaves the published file where it is.
UploadCreateKeepsFile(u) ==
    /\ pc[u] = "create"
    /\ \/ /\ ~Conflicts(NewRow(u))
          /\ rows' = rows \cup {NewRow(u)}
          /\ acked' = acked \cup {job[u].sha}
       \/ UNCHANGED <<rows, acked>>
    /\ Finish(u)
    /\ UNCHANGED <<file, lost, left, repairVars>>

\* ImageRepository.Create: it inserts, it conflicts, or it fails because the
\* request was cancelled or the database is busy.
UploadCreate(u) ==
    /\ pc[u] = "create"
    /\ \/ /\ ~Conflicts(NewRow(u))
          /\ rows' = rows \cup {NewRow(u)}
          /\ acked' = acked \cup {job[u].sha}
          /\ Finish(u)
       \/ /\ Conflicts(NewRow(u))
          /\ Goto(u, "remove")
          /\ UNCHANGED <<rows, acked>>
       \/ /\ Goto(u, "abandon")
          /\ UNCHANGED <<rows, acked>>
    /\ UNCHANGED <<file, lost, left, repairVars>>

\* Store.RemoveFile rolls the publication back.  After a conflict the row that
\* won is looked up; any other failure is the answer.
UploadRemove(u) ==
    /\ \/ pc[u] = "remove" /\ Goto(u, "duplicate")
       \/ pc[u] = "abandon" /\ Finish(u)
    /\ file' = [file EXCEPT ![job[u].path] = None]
    /\ failed' = failed \cup {job[u].path}
    /\ UNCHANGED <<rows, lost, left, acked, mode, counted, issues, verdict, skipped,
                   rpc, seen, todo, at, digest>>

\* The removal fails: the upload ends with both errors, the file stays.
UploadRemoveFails(u) ==
    /\ pc[u] \in {"remove", "abandon"}
    /\ left' = left \cup {job[u].path}
    /\ failed' = failed \cup {job[u].path}
    /\ Finish(u)
    /\ UNCHANGED <<file, rows, lost, acked, mode, counted, issues, verdict, skipped,
                   rpc, seen, todo, at, digest>>

UploadDuplicate(u) ==
    /\ pc[u] = "duplicate"
    /\ acked' = IF BySHA1(job[u].sha) # {} THEN acked \cup {job[u].sha} ELSE acked
    /\ Finish(u)
    /\ UNCHANGED <<file, rows, lost, left, repairVars>>

\* A query, the folder or the link fails: the upload ends with the error and
\* has nothing published.
UploadFails(u) ==
    /\ pc[u] \in {"lookup", "commit", "duplicate"}
    /\ Finish(u)
    /\ UNCHANGED <<file, rows, lost, left, acked, repairVars>>

Upload(u) ==
    \/ UploadStart(u)
    \/ UploadLookup(u)
    \/ UploadCommit(u)
    \/ UploadCreate(u)
    \/ UploadRemove(u)
    \/ UploadRemoveFails(u)
    \/ UploadDuplicate(u)
    \/ UploadFails(u)

-----------------------------------------------------------------------------
(* IntegrityHandler: a check, or a repair between two checks, one at a     *)
(* time.                                                                   *)

\* What a check and a repair keep is gone with their request.
CheckForgotten ==
    /\ mode' = "check"
    /\ rpc' = "idle"
    /\ counted' = {}
    /\ issues' = 0
    /\ verdict' = "none"
    /\ skipped' = {}
    /\ failed' = {}
    /\ seen' = {}
    /\ todo' = {}
    /\ at' = None
    /\ digest' = None

Existing(table) == {r \in table : file[r.path] # None}

\* checker.checkDatabase counts the rows.
CheckCount ==
    /\ \/ rpc = "idle" /\ mode' = "check"
       \/ /\ rpc = "idle"
          /\ mode' = "repair"
          /\ RepairDuringUploads \/ \A u \in Uploads : pc[u] = "idle"
       \/ rpc = "count" /\ mode' = mode
    /\ counted' = rows
    /\ issues' = 0
    /\ verdict' = "none"
    /\ skipped' = {}
    /\ failed' = {}
    /\ rpc' = "references"
    /\ UNCHANGED <<file, rows, lost, left, acked, uploadVars, seen, todo, at, digest>>

\* Mutant: rows whose file is missing are left to the comparison of checksums.
CheckReferencesSkips ==
    /\ rpc = "references"
    /\ seen' = {r.path : r \in Existing(rows)}
    /\ rpc' = "checksums"
    /\ UNCHANGED <<file, rows, lost, left, acked, uploadVars, mode, counted, issues, verdict,
                   skipped, failed, todo, at, digest>>

\* checker.collectReferences: a row whose file is missing is an issue.
CheckReferences ==
    /\ rpc = "references"
    /\ seen' = {r.path : r \in Existing(rows)}
    /\ issues' = issues + Cardinality(rows \ Existing(rows))
    /\ rpc' = "checksums"
    /\ UNCHANGED <<file, rows, lost, left, acked, uploadVars, mode, counted, verdict, skipped,
                   failed, todo, at, digest>>

\* checker.checkImageChecksums: a file that is there is compared with its row,
\* and as many must have been compared as rows were counted.
CheckChecksums ==
    LET there == Existing(rows)
        differ == {r \in there : ~Served(r)} IN
    /\ rpc = "checksums"
    /\ issues' = issues + Cardinality(differ)
                 + IF Cardinality(there) = Cardinality(counted) THEN 0 ELSE 1
    /\ rpc' = "scan"
    /\ UNCHANGED <<file, rows, lost, left, acked, uploadVars, mode, counted, verdict, skipped,
                   failed, seen, todo, at, digest>>

\* checker.scanManagedFiles: the files no row refers to, the last issues of
\* the report, as far as it has room for them.  A repair goes on with those.
CheckScan ==
    LET orphans == {p \in Path : file[p] # None} \ seen IN
    /\ rpc = "scan"
    /\ \E reported \in SUBSET orphans :
          /\ issues + Cardinality(reported) <= MaxIssues \/ reported = {}
          /\ reported = orphans \/ issues + Cardinality(reported) >= MaxIssues
          /\ skipped' = orphans \ reported
          /\ todo' = IF mode = "repair" THEN reported ELSE {}
    /\ verdict' = IF mode = "repair" THEN "none"
                  ELSE IF issues = 0 /\ orphans = {} THEN "healthy" ELSE "issues"
    /\ rpc' = IF mode = "repair" THEN "next" ELSE "idle"
    /\ issues' = 0
    /\ seen' = {}
    /\ UNCHANGED <<file, rows, lost, left, acked, uploadVars, mode, counted, failed, at, digest>>

\* The next orphan of the report, or the check after the repair.
RepairNext ==
    /\ rpc = "next"
    /\ \/ \E p \in todo : at' = p /\ todo' = todo \ {p} /\ rpc' = "stat" /\ UNCHANGED mode
       \/ todo = {} /\ at' = None /\ rpc' = "count" /\ mode' = "after" /\ UNCHANGED todo
    /\ digest' = None
    /\ UNCHANGED <<file, rows, lost, left, acked, uploadVars, counted, issues, verdict, skipped,
                   failed, seen>>

\* repairUpload: the file is read and its checksum is computed.
RepairDigest ==
    /\ rpc = "stat"
    /\ digest' = file[at]
    /\ rpc' = IF file[at] = None THEN "next" ELSE "query"
    /\ UNCHANGED <<file, rows, lost, left, acked, uploadVars, reportVars, seen, todo, at>>

RepairQuery ==
    /\ rpc = "query"
    /\ rpc' = IF BySHA1(digest) = {} THEN "create" ELSE "existing"
    /\ UNCHANGED <<file, rows, lost, left, acked, uploadVars, reportVars, seen, todo, at, digest>>

\* A new row for the file; a conflict is reported as a failure.
RepairCreate ==
    /\ rpc = "create"
    /\ \E fresh \in RepairIds \ {r.id : r \in rows} :
          LET row == [id |-> fresh, sha |-> digest, path |-> at] IN
          rows' = IF Conflicts(row) THEN rows ELSE rows \cup {row}
    /\ rpc' = "next"
    /\ UNCHANGED <<file, lost, left, acked, uploadVars, reportVars, seen, todo, at, digest>>

\* Mutant: the reference is repaired without the check that its file is gone.
RepairExistingAlways ==
    /\ rpc = "existing"
    /\ rpc' = "update"
    /\ UNCHANGED <<file, rows, lost, left, acked, uploadVars, reportVars, seen, todo, at, digest>>

\* Mutant: the repair never moves a reference.
RepairExistingNever ==
    /\ rpc = "existing"
    /\ rpc' = "next"
    /\ UNCHANGED <<file, rows, lost, left, acked, uploadVars, reportVars, seen, todo, at, digest>>

\* repairExistingUpload: a row whose file is still there is left alone.
RepairExisting ==
    /\ rpc = "existing"
    /\ \E r \in BySHA1(digest) :
          rpc' = IF file[r.path] = None THEN "update" ELSE "next"
    /\ UNCHANGED <<file, rows, lost, left, acked, uploadVars, reportVars, seen, todo, at, digest>>

\* RepairFileReference
RepairUpdate ==
    /\ rpc = "update"
    /\ rows' = {IF r.sha = digest THEN [id |-> r.id, sha |-> r.sha, path |-> at] ELSE r : r \in rows}
    /\ rpc' = "next"
    /\ UNCHANGED <<file, lost, left, acked, uploadVars, reportVars, seen, todo, at, digest>>

\* A file that cannot be read, a cancelled request or a busy database: the
\* report of the repair says that this file failed.
RepairFails ==
    /\ rpc \in {"stat", "query", "create", "update"}
    /\ skipped' = skipped \cup {at}
    /\ rpc' = "next"
    /\ UNCHANGED <<file, rows, lost, left, acked, uploadVars, mode, counted, issues, verdict,
                   failed, seen, todo, at, digest>>

\* A check, or the repair as a whole, is cancelled or ends with an error, for a
\* file that is removed while it is read in particular: there is no report.
CheckFails ==
    /\ rpc \in {"count", "references", "checksums", "scan", "next"}
    /\ CheckForgotten
    /\ UNCHANGED <<file, rows, lost, left, acked, uploadVars>>

Repair ==
    \/ CheckCount
    \/ CheckReferences
    \/ CheckChecksums
    \/ CheckScan
    \/ RepairNext
    \/ RepairDigest
    \/ RepairQuery
    \/ RepairCreate
    \/ RepairExisting
    \/ RepairUpdate
    \/ RepairFails
    \/ CheckFails

-----------------------------------------------------------------------------
\* The process dies: requests are gone, files and rows stay.
Crash ==
    /\ MayCrash
    /\ left' = left \cup {job[u].path : u \in {u \in Uploads : Published(u)}}
    /\ pc' = [u \in Uploads |-> "idle"]
    /\ job' = [u \in Uploads |-> None]
    /\ CheckForgotten
    /\ UNCHANGED <<file, rows, lost, acked>>

Next ==
    \/ \E u \in Uploads : Upload(u)
    \/ Repair
    \/ Crash

Spec == Init /\ [][Next]_vars

-----------------------------------------------------------------------------
(* Properties                                                              *)

\* A content whose upload was answered with success, as new or as duplicate,
\* has a row whose file holds it, unless its recorded file was already gone
\* when the server started: the answer of one upload never rests on a file
\* that the rollback of another, or the repair, takes away.
AcknowledgedIsStored ==
    \A c \in acked \ lost : \E r \in BySHA1(c) : Served(r)

\* A file of the upload directory without a row belongs to an upload that is
\* still running, or a crash or a failed removal left it there: an upload that
\* fails otherwise leaves nothing.
OrphansAreExplained ==
    \A p \in Path :
        file[p] # None =>
            \/ \E r \in rows : r.path = p
            \/ p \in left
            \/ \E u \in Uploads : Published(u) /\ job[u].path = p

\* "If the database insert fails after the rename, remove only the newly
\* created file whose ownership is known" (docs/ARCHITECTURE.md): no step
\* removes or replaces a file while a row refers to it for its content.
ReferencedFileStays ==
    [][\A r \in rows : Served(r) => file'[r.path] = r.sha]_vars

\* A row that resolves to its own content is never changed or deleted, by the
\* repair of another file with the same checksum in particular.
ServedRowStays ==
    [][\A r \in rows : Served(r) => r \in rows']_vars

\* Once the repair has passed a file, a row refers to it, or the row of its
\* content refers to another file that exists: no orphan it could have saved
\* is left behind, but those its report had no room for and those it counts as
\* failed.
RepairSettlesOrphans ==
    mode = "repair" /\ rpc \notin {"idle", "references", "checksums", "scan"} =>
        \A p \in Path :
            file[p] # None =>
                \/ p \in todo \cup skipped
                \/ p = at /\ rpc # "next"
                \/ \E r \in rows : r.path = p
                \/ \E r \in BySHA1(file[p]) : file[r.path] # None

\* A check that ends healthy is right, although it reads the table three times
\* and the directory three times while uploads run: every row it counted is
\* served, and every file has a row or belongs to an upload that is still
\* running.  It may be wrong about a path where an upload failed meanwhile:
\* while its file stood in for a missing one, the row looked complete.
HealthyIsSound ==
    verdict = "healthy" =>
        /\ \A r \in counted : Served(r) \/ r.path \in failed
        /\ \A p \in Path :
              file[p] # None =>
                  \/ \E r \in rows : r.path = p
                  \/ p \in failed
                  \/ \E u \in Uploads : Published(u) /\ job[u].path = p
=============================================================================
