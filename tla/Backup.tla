------------------------------- MODULE Backup -------------------------------
(***************************************************************************)
(* Database backups (internal/backup, internal/backupstore, the `backup`   *)
(* command) on top of RestoreSwap: the serve processes, the restores, the  *)
(* data directory lock and the commands are the ones of that module, with  *)
(* the copy of the database files where RestoreSwap has one locked step.   *)
(*                                                                         *)
(* Two callers run backup.Create: the `backup` command, which before that  *)
(* opens, migrates and closes the database without the lock, a step each,  *)
(* and a starting server, for the request an administrator has queued.     *)
(* Both look at the destination before they hold the lock.                 *)
(*                                                                         *)
(* Abstractions: a transaction is a number and its order, a database file  *)
(* is its generation and the last transaction in it; the migrations are    *)
(* transaction 1; the rollback journal plays the part of the WAL; the      *)
(* private repository and the parent of `--output` are one directory; the  *)
(* staging directory is the copy in it, since no other process reads it.   *)
(***************************************************************************)
EXTENDS RestoreSwap

CONSTANTS
    Snaps,      \* names a snapshot may be given
    Torn,       \* a file copied while it changed, or with pages of another one
    MaxCommits  \* bound: the transactions of one database, migrations included

Content == [gen : Generation, tx : 0..MaxCommits]

ASSUME BackupAssumption ==
    /\ MaxCommits \in Nat \ {0}
    /\ None \notin Snaps \cup Content
    /\ Torn \notin Content \cup {None}

VARIABLES
    committed,  \* the last transaction of the database
    merged,     \* the last transaction that is in the database file itself
    request,    \* .create-request.json: the queued name, or None
    snapshots,  \* name -> the state its database file holds, or None
    step,       \* caller -> where its backup is
    target,     \* caller -> the name of the snapshot it makes
    todo,       \* the inventoried files still to be copied
    reading,    \* what the file being copied held when it was opened
    copied      \* the staged copies

backupVars == <<committed, merged, request, snapshots, step, target, todo, reading, copied>>
txVars == <<committed, merged>>
stage == <<todo, reading, copied>>
allVars == <<vars, backupVars>>

Callers == Servers \cup {"backup"}
\* The steps of execute with the lock held.
Locked == {"inventory", "copy", "copying", "validate", "publish"}

CallerOK(a) ==
    /\ step[a] \in Locked => lock = a
    /\ step[a] \in Locked \cup {"lock"} => target[a] \in Snaps
    /\ step[a] # "look" => IF a = "backup" THEN tool[a] \in {"closed", "locked"} ELSE pc[a] = "open"

\* Every variable has its type, a caller past the lock holds it and has a
\* name, and only a starting server or a running command makes a backup.
BackupTypeOK ==
    /\ TypeOK
    /\ committed \in 0..MaxCommits
    /\ merged \in 0..committed
    /\ request \in Snaps \cup {None}
    /\ snapshots \in [Snaps -> Content \cup {None, Torn}]
    /\ step \in [Callers -> {"look", "lock", "unqueue", "start"} \cup Locked]
    /\ target \in [Callers -> Snaps \cup {None}]
    /\ todo \subseteq Names
    /\ reading \in Content \cup {None}
    /\ copied \in [Names -> Content \cup {None, Torn}]
    /\ \A a \in Callers : CallerOK(a)

NoStage ==
    /\ todo = {}
    /\ reading = None
    /\ copied = NoFiles

\* MkdirTemp
NewStage == reading' = None /\ copied' = NoFiles

BackupInit ==
    /\ Init
    /\ committed \in {0, 1}  \* a database of an older or of this release
    /\ merged = committed
    /\ request = None
    /\ snapshots = [n \in Snaps |-> None]
    /\ step = [a \in Callers |-> "look"]
    /\ target = [a \in Callers |-> None]
    /\ NoStage

-----------------------------------------------------------------------------
(* The database, as the steps of RestoreSwap change it.                    *)

\* database.Open applies the migrations that are missing.
Migrated(tx) == IF tx = 0 THEN 1 ELSE tx

\* The transactions database.Open finds; a missing file is created empty.
Found == IF data["db"] = None THEN 0 ELSE committed

\* A rename of the swap: the candidate it installs is a migrated database
\* without a WAL, and a database whose WAL it moves away is left with what is
\* in its own file.
FollowSwap ==
    IF data'["db"] \notin {data["db"], None} THEN committed' = 1 /\ merged' = 1
    ELSE /\ committed' = IF data["wal"] # None /\ data'["wal"] = None THEN merged ELSE committed
         /\ UNCHANGED merged

\* A process with the lock opens the database, or closes it.
FollowOpen ==
    /\ committed' = Migrated(Found)
    /\ merged' = IF data["db"] = None THEN 0 ELSE merged

FollowClose ==
    /\ merged' = IF CommandConnected THEN merged ELSE committed
    /\ UNCHANGED committed

\* A server that leaves the start of its loop has forgotten its backup.
Forget(p) ==
    IF pc'[p] = "open" THEN UNCHANGED <<step, target, stage>>
    ELSE /\ step' = [step EXCEPT ![p] = "look"]
         /\ target' = [target EXCEPT ![p] = None]
         /\ IF lock = p /\ step[p] \in Locked
            THEN todo' = {} /\ NewStage
            ELSE UNCHANGED stage

RestorePending(p) ==
    /\ ApplyPending(p)
    /\ FollowSwap
    /\ Forget(p)
    /\ UNCHANGED <<request, snapshots>>

\* app.Run opens the database once the queue has been looked at.
Serve(p) ==
    /\ step[p] = "start"
    /\ OpenDatabase(p)
    /\ IF pc'[p] = "serving" THEN FollowOpen ELSE UNCHANGED txVars
    /\ Forget(p)
    /\ UNCHANGED <<request, snapshots>>

\* A transaction of the running server goes to the WAL.
Commit(p) ==
    /\ pc[p] = "serving"
    /\ committed < MaxCommits
    /\ committed' = committed + 1
    /\ UNCHANGED <<vars, merged, request, snapshots, step, target, stage>>

\* The restore page offers the snapshots of the private repository; the
\* candidate is built from the one that was chosen (backup.Restore).
PrepareFromSnapshot(p) ==
    /\ Prepare(p)
    /\ pc'[p] = "preparing" => \E n \in Snaps : snapshots[n] # None
    /\ UNCHANGED backupVars

StopServing(p) ==
    /\ Stop(p)
    /\ FollowClose
    /\ Forget(p)
    /\ UNCHANGED <<request, snapshots>>

\* A crash leaves the WAL where it is, and a staging directory that nobody
\* reads again.
CrashServer(p) ==
    /\ Crash(p)
    /\ Forget(p)
    /\ UNCHANGED <<txVars, request, snapshots>>

Check ==
    /\ (CheckStart /\ FollowOpen) \/ (CheckEnd /\ FollowClose)
    /\ UNCHANGED <<request, snapshots, step, target, stage>>

-----------------------------------------------------------------------------
(* The queue of internal/backupstore.                                      *)

\* Queue refuses a name that exists and a second request; the request file
\* is written as a whole here (Lifecycle has its torn form).
Queue(p) ==
    /\ pc[p] = "serving"
    /\ request = None
    /\ \E n \in Snaps : snapshots[n] = None /\ request' = n
    /\ UNCHANGED <<vars, txVars, snapshots, step, target, stage>>

\* ApplyPending reads the request and looks for its snapshot, which a start
\* that crashed before it removed the request has already published.
LookForRequest(p) ==
    /\ pc[p] = "open"
    /\ step[p] = "look"
    /\ step' = [step EXCEPT ![p] = IF request = None THEN "start"
                                   ELSE IF snapshots[request] # None THEN "unqueue"
                                   ELSE "lock"]
    /\ target' = [target EXCEPT ![p] = request]
    /\ UNCHANGED <<vars, txVars, request, snapshots, stage>>

\* The request is settled, by its snapshot or by a recorded failure.  When
\* another process has removed the request first the server exits.
Unqueue(p) ==
    /\ step[p] = "unqueue"
    /\ IF request # None
       THEN /\ request' = None
            /\ step' = [step EXCEPT ![p] = "start"]
            /\ target' = [target EXCEPT ![p] = None]
            /\ UNCHANGED <<vars, stage>>
       ELSE /\ Exit(p)
            /\ Forget(p)
            /\ UNCHANGED <<marker, used, work, files, commands, crashes, request>>
    /\ UNCHANGED <<txVars, snapshots>>

-----------------------------------------------------------------------------
(* The `backup` command.                                                   *)

\* database.Open without the lock: a missing database is created empty.
CommandOpens ==
    /\ BackupOpen
    /\ committed' = Found
    /\ merged' = IF data["db"] = None THEN 0 ELSE merged
    /\ UNCHANGED <<request, snapshots, step, target, stage>>

\* Its migrations go to the WAL.  What it writes beside a database that is not
\* the one it opened is OneGeneration's concern.
CommandAccesses ==
    /\ BackupAccess
    /\ committed' = IF held = data["db"] THEN Migrated(committed) ELSE committed
    /\ UNCHANGED <<merged, request, snapshots, step, target, stage>>

\* db.Close merges the WAL unless another process has the database open.
CommandCloses ==
    /\ BackupClose
    /\ merged' = IF CommandConnected /\ ~DatabaseOpen THEN committed ELSE merged
    /\ UNCHANGED <<committed, request, snapshots, step, target, stage>>

\* Killed with the database open: its transactions stay in the WAL.
CommandKilled ==
    /\ \E t \in Tools : CommandDies(t)
    /\ UNCHANGED backupVars

\* locations: the destination must not exist, which is checked before the
\* lock is asked for.
CommandLocates ==
    /\ tool["backup"] = "closed"
    /\ step["backup"] = "look"
    /\ \E n \in Snaps :
          /\ snapshots[n] = None
          /\ target' = [target EXCEPT !["backup"] = n]
    /\ step' = [step EXCEPT !["backup"] = "lock"]
    /\ UNCHANGED <<vars, txVars, request, snapshots, stage>>

\* The destination exists.
CommandRefused ==
    /\ tool["backup"] = "closed"
    /\ step["backup"] = "look"
    /\ \E n \in Snaps : snapshots[n] # None
    /\ tool' = [tool EXCEPT !["backup"] = "idle"]
    /\ UNCHANGED <<marker, used, work, files, lock, pc, pend, idx, held, crashes, backupVars>>

-----------------------------------------------------------------------------
(* execute, for a caller a: the lock, the copy and the publication.        *)

\* The caller ends its backup and drops the lock: a command exits, a server
\* goes on to settle the request.
End(a) ==
    /\ lock' = IF lock = a THEN None ELSE lock
    /\ step' = [step EXCEPT ![a] = IF a = "backup" THEN "look" ELSE "unqueue"]
    /\ target' = [target EXCEPT ![a] = IF a = "backup" THEN None ELSE @]
    /\ tool' = IF a = "backup" THEN [tool EXCEPT ![a] = "idle"] ELSE tool
    /\ IF step[a] \in Locked
       THEN todo' = {} /\ NewStage
       ELSE UNCHANGED stage
    /\ UNCHANGED <<marker, used, work, files, pc, pend, idx, held, crashes, txVars, request>>

Advance(a, next) == step' = [step EXCEPT ![a] = next]

\* Any step before the publication may fail or be cancelled: a limit, the
\* capacity, an I/O error, a size that is not the inventoried one.  A command
\* that is killed has the same effect, except for its staging directory.
CreateFails(a) ==
    /\ step[a] \in Locked
    /\ End(a)
    /\ UNCHANGED snapshots

\* datalock.Acquire; a busy lock ends the command and fails the request.
AcquireForBackup(a) ==
    /\ step[a] = "lock"
    /\ \/ /\ lock = None
          /\ lock' = a
          /\ Advance(a, "inventory")
          /\ tool' = IF a = "backup" THEN [tool EXCEPT ![a] = "locked"] ELSE tool
          /\ UNCHANGED <<marker, used, work, files, pc, pend, idx, held, crashes, txVars, request, target, stage>>
       \/ /\ lock # None
          /\ End(a)
    /\ UNCHANGED snapshots

\* Mutant: the side files are not copied.
InventoryDatabaseOnly(a) ==
    /\ step[a] = "inventory"
    /\ data["db"] # None
    /\ todo' = {"db"}
    /\ Advance(a, "copy")
    /\ NewStage
    /\ UNCHANGED <<vars, txVars, request, snapshots, target>>

\* databaseInventory, the files to copy, and a new staging directory.  The
\* database must be there.
Inventory(a) ==
    /\ step[a] = "inventory"
    /\ data["db"] # None
    /\ todo' = {n \in Names : data[n] # None}
    /\ Advance(a, "copy")
    /\ NewStage
    /\ UNCHANGED <<vars, txVars, request, snapshots, target>>

\* What the file n holds.
Held(n) == [gen |-> data[n], tx |-> IF n = "db" THEN merged ELSE committed]

\* The database first, then its side file.
NextFile == IF "db" \in todo THEN "db" ELSE "wal"

\* copyFile opens the next file; when it is gone the backup fails, and so it
\* does when its size is not the inventoried one, as that of a WAL which was
\* merged and created anew after the database had been copied.
CopyBegin(a) ==
    /\ step[a] = "copy"
    /\ data[NextFile] # None
    /\ NextFile = "wal" /\ copied["db"] # Torn => copied["db"].tx = merged
    /\ reading' = Held(NextFile)
    /\ Advance(a, "copying")
    /\ UNCHANGED <<vars, txVars, request, snapshots, target, todo, copied>>

CopyDone(a, content) ==
    /\ copied' = [copied EXCEPT ![NextFile] = content]
    /\ todo' = todo \ {NextFile}
    /\ reading' = None
    /\ Advance(a, IF todo = {NextFile} THEN "validate" ELSE "copy")
    /\ UNCHANGED <<vars, txVars, request, snapshots, target>>

\* Mutant: the copy does not look whether its source changed.
CopyEndUnchecked(a) ==
    /\ step[a] = "copying"
    /\ CopyDone(a, IF data[NextFile] # None => Held(NextFile) = reading THEN reading ELSE Torn)

\* Stat on the open file shows whether it was written to since it was opened;
\* a file that was removed keeps its bytes.
CopyEnd(a) ==
    /\ step[a] = "copying"
    /\ data[NextFile] # None => Held(NextFile) = reading
    /\ CopyDone(a, reading)

\* What opening the copy makes of its two files: the WAL is merged into the
\* database, whose pages it replaces whatever database it comes from; an empty
\* database has no use for the WAL of another one.
Opening ==
    IF Torn \in {copied["db"], copied["wal"]} THEN Torn
    ELSE IF copied["wal"] = None THEN copied["db"]
    ELSE IF copied["wal"].gen = copied["db"].gen
         THEN [copied["db"] EXCEPT !.tx = copied["wal"].tx]
    ELSE IF copied["db"].gen = Fresh THEN copied["db"] ELSE Torn

\* validateDatabase opens the copy; only the schema of this release passes, in
\* one file.
Validate(a) ==
    /\ step[a] = "validate"
    /\ Opening # Torn => Opening.tx > 0
    /\ copied' = [NoFiles EXCEPT !["db"] = Opening]
    /\ Advance(a, "publish")
    /\ UNCHANGED <<vars, txVars, request, snapshots, target, todo, reading>>

\* Mutant: an existing destination is replaced.
PublishReplaces(a) ==
    /\ step[a] = "publish"
    /\ snapshots' = [snapshots EXCEPT ![target[a]] = copied["db"]]
    /\ End(a)

\* The manifest is written and the staging directory renamed, which fails
\* when the destination exists (RENAME_NOREPLACE).
Publish(a) ==
    /\ step[a] = "publish"
    /\ snapshots[target[a]] = None
    /\ snapshots' = [snapshots EXCEPT ![target[a]] = copied["db"]]
    /\ End(a)

-----------------------------------------------------------------------------
Create(a) ==
    \/ AcquireForBackup(a) \/ Inventory(a) \/ CopyBegin(a) \/ CopyEnd(a)
    \/ Validate(a) \/ Publish(a) \/ CreateFails(a)

BackupNext ==
    \/ \E p \in Servers :
          \/ RestorePending(p) \/ Serve(p) \/ Commit(p) \/ PrepareFromSnapshot(p)
          \/ StopServing(p) \/ CrashServer(p)
          \/ Queue(p) \/ LookForRequest(p) \/ Unqueue(p)
    \/ Check
    \/ CommandOpens \/ CommandAccesses \/ CommandCloses \/ CommandKilled
    \/ CommandLocates \/ CommandRefused
    \/ \E a \in Callers : Create(a)

BackupSpec == BackupInit /\ [][BackupNext]_allVars

-----------------------------------------------------------------------------
(* Properties.                                                             *)

Store == INSTANCE SnapshotStore WITH
    current <- IF data["db"] = None THEN None ELSE [gen |-> data["db"], tx |-> committed]

\* A published snapshot is the state the database is in at the instant of its
\* publication: with every transaction that only its WAL holds, with nothing
\* of a file that changed under the copy, and it is never replaced, although
\* the destination is looked at before the lock is taken and the `backup`
\* command opens, migrates and closes the database without the lock, also in
\* the middle of a copy.  Excepted by OpenDuringSwap is a rename of the swap
\* while the command has the database open: see OneGeneration.
SnapshotsAreAtomic == Store!Spec
=============================================================================
