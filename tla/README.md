# Formal models of Kaven Media Server

TLA+ models of the parts of the server whose correctness depends on the order of
steps: what a crash leaves on the disk, how requests overlap, and what a restart
makes of both. TLC checks them on small instances, TLAPS proves the most important
properties for every instance. All paths below are relative to the repository.

* [1. The system](#1-the-system)
* [2. The modules and the code](#2-the-modules-and-the-code)
* [3. The runs](#3-the-runs)
* [4. The proofs](#4-the-proofs)
* [5. Where the program disagrees with its documents](#5-where-the-program-disagrees-with-its-documents)
* [6. What is not modelled](#6-what-is-not-modelled)
* [7. Plan](#7-plan)

## 1. The system

One process serves images, an archive of Bing pictures and a file browser. Its state is
a data directory: an SQLite database with its side files, managed files (`upload/`,
`download/bing/`, `cache/`, `tmp/`), private snapshots under `backup/`, a lock file and
the marker of a recorded restore. The database and the files are written one after the
other, never in one transaction, and nothing but the lock keeps a second process away.

### 1.1 Components

| Component | State | Operations | What makes it correct |
|---|---|---|---|
| Serve loop, `cmd/kaven-media/main.go`, `internal/app/app.go` | one lifetime of everything in memory; `restartReady`, a channel of capacity one | restore, backup, `app.Run`, again while `ErrRestartReady` comes back; deferred calls close in reverse order | nobody uses the database when it is closed; a requested restart takes place; what an administrator was promised is there afterwards |
| Web restore, `internal/uirestore` | marker, work directory with candidate, rollback and phase files | `PrepareDirectory`, `ApplyPending` | the database is never lost or mixed with foreign side files; a recorded restore is installed as a whole |
| Data lock, `internal/datalock` | an advisory lock | `Acquire`, `Close` | one owner of the data directory |
| Backup queue, `internal/backupstore`, `internal/httpapi/backupstore.go` | `.create-request.json`, the result file, snapshots, the token `active` | `Queue`, `ApplyPending`, `List`, `Resolve` | a snapshot promised with 202 is made or its failure recorded |
| Backup, `internal/backup` | a staging directory, snapshot and manifest | `Create`, `Restore` | a snapshot is the database of one instant, with what only its WAL holds, and is never replaced |
| Sessions, `internal/auth`, `internal/repository/admin_sessions.go` | a map in memory and a table, a verifier | login, authentication, logout, revocation, eviction | logout is final; no session outlives its credential; both stores are bounded |
| Login limiter, session policy, `internal/auth`, `internal/httpapi/admin_session_policy.go` | failure counts, verification slots, remembered duration in table and memory | `loginBlocked`, `recordLoginFailure`, `VerifyPassword`, `SetRememberDuration` | the limit holds up to what runs side by side; no slot is lost; table and memory agree |
| Upload, `internal/imageupload` | `images` table, `upload/` | `Save` | an acknowledged image is stored; a failed one leaves nothing |
| Integrity check and repair, `internal/integrity`, `internal/integrityrepair` | none of its own | `Check`, `RepairOrphanRecords` | a healthy report is right; no repair makes things worse; every orphan that can be saved is saved |
| Image cache, `internal/imagecache` | `image_cache` table, `cache/`, open flights | `Transform` | one transformation per variant at a time; no file blocks its variant for ever |
| Recorders, `internal/imageaccess`, `internal/hfsdownload` | a bounded channel, one worker, a closed flag | `Record`, `Close` | no send on a closed channel; order kept; a drain that succeeds is complete |
| Scheduler, `internal/scheduler` | one trigger channel of capacity one per job | `Run`, `Trigger` | a job never overlaps itself; no request for a run is lost; a stop ends |
| Bing archive, `internal/bing` | `bing_images` table, `download/bing/`, a token | `Sync`, `RepairOrphanRecords` | no picture is lost by a renaming; a deliverable row stays deliverable |
| File browser, `internal/httpapi/hfs.go`, `internal/hfs` | configured directories, mutation slots | `CreateDirectory`, `CommitFiles`, reads | a batch is published whole or not at all; nobody's file is replaced |
| Storage, `internal/storage` | `tmp/`, managed directories | `Stage`, `Commit`, `CommitAbsolute`, `WriteAtomic`, `RenameFile`, `RemoveFile` | publication never replaces |
| Image processing, log, settings, setup, request filters, lookups, release tools, web front end | see section 6 | | |

### 1.2 How they interact

```
main loop --> uirestore.ApplyPending --> backupstore.ApplyPending --> app.Run ---+
   ^                                                                             |
   |  ErrRestartReady                                                            v
   +---- lock, database, recorders, scheduler, HTTP server (closed in reverse order)

handler --ready()--> restartReady      handler --Record--> channel --> worker --> database
handler --Trigger--> scheduler --> bing.Sync <--token--> RepairOrphanRecords <-- integrity page
handler --> imageupload / imagecache / hfs --> storage (files), then repository (rows)
```

Handlers share the database, the session map, the flights of the cache, the slots of the
file browser and the channels of the recorders. They influence the next lifetime only
through the disk: the marker, the backup request, the tables.

### 1.3 What is hard about it

* **Crashes between two durable steps**: the swap of a restore, file and row of an upload,
  of a cached variant and of a Bing picture, answer and snapshot of a backup.
* **Interleavings without a common lock**: authentication and logout, check and upload,
  repair and upload, invalidation and a new flight, two batches for the same names.
* **Roll backs by name**: an insert that fails removes a file by its name, which by then
  may belong to somebody else.
* **Copies of what changes**: a snapshot of database files while another process may open
  them; a check that reads table and directory one after the other.
* **Checked before, counted after**: login attempts that run side by side, slots that a way
  out may keep.
* **Shutdown**: requests, the worker, a job and a restart fall together; the deadlines
  turn a restart into an exit, and a drain into a loss.
* **State read early and used late**: the marker before the lock, the credential before
  the restart, the references before the scan of the directory.

The hazards, each with its line and with the properties that would catch it, are listed in
`PROJECT.json`.

## 2. The modules and the code

Names follow the code; an action is one step between two moments at which another actor
can see or change the state. `PROJECT.json` maps every definition to its lines.

### 2.1 RestoreSwap, AtomicRestore

`RestoreSwap` is `internal/uirestore` file by file. `data`, `cand[w]` and `roll[w]` say
which generation of `db` and `wal` lies in the data directory, in the candidate and in the
rollback directory of work `w`; `work[w]` holds the directory and its phase files, `marker`
is `.kaven-restore.json`. A server goes through `ReadState` (before the lock, as in the
code), `AcquireForRestore`, `Inspect`, `MoveOld` and `RenameOld` (the two Lstat calls and
the Rename of `moveIfPresent`) for each managed file, `MarkOldMoved`, `MoveNew` and
`RenameNew`, `MarkNewMoved`, `RemoveEntry` (one entry of the work directory) and
`RemoveMarker`, then `OpenDatabase`. While it serves it prepares a restore (`PrepareBegin`,
`PrepareCandidate`, `PrepareFail`, `WriteState`). `Crash` may come before any step. Two
managed files stand for the four of the code: the database, and one side file.

The other commands of the binary are `CheckStart` and `CheckEnd`, with the lock, and the
`backup` command, whose open, statements and close run without it: `BackupOpen` connects
to the database file (`held`) or creates it, `BackupAccess` opens or creates the WAL by its
name, whatever has become of the file, `BackupClose` takes the WAL away if the command was
the last connection to it; then come `BackupLock` and `BackupEnd`, and `CommandDies` at any
of these steps.

`Backup` (2.8) puts this module under a second one, with two servers and the commands.

`CrashInCleanup` lets a crash fall inside `os.RemoveAll`; `MaintenanceDuringRestore` lets
a command start while a restore is recorded; `OpenDuringSwap` lets `backup` have the
database open at a rename of the swap, or open it between a rename and its Lstat. It is
FALSE in the runs, because `OneGeneration` and `SnapshotsAreAtomic` are false with it
(section 5).

`AtomicRestore` is what the swap promises: `Record`, then `Install` in one step. The
property `SwapIsAtomic` is its specification under the mapping *installed* = the database
in the data directory, or the one in the rollback directory while there is none, and
*pending* = the candidate the marker leads to. The commit point is the move of the
candidate database.

### 2.2 Sessions

`internal/auth` and its table. A handler is split where the code releases the mutex or
calls the database: a login writes its row (`LoginPersist`) and then its map entry
(`LoginInsert`); an authentication looks into the map (`AuthenticateLookup`), reads the
row without the mutex (`AuthenticateGet`) and puts the session into the map
(`AuthenticateCache`); a logout deletes the map entry (`LogoutMemory`), then the row
(`LogoutStore`, or `LogoutStoreFails`, which the code logs and answers like a success;
`loggedOut` has the first kind only). `credential` is the stored verifier, `verifier` the one the running
authenticator was made with: a password change alters the first and revokes the sessions, and only
`Restart` brings the two together. `OverlapLogout` says whether a cookie may be in use
while it is logged out.

`Login` EXTENDS `Sessions` with what stands in front of a login, and the run of both is
`MCLogin`, which adds the symmetry. The code looks at the failures of a source under the
mutex (`LoginAdmit`, `Blocked`), takes a slot (`LoginTakeSlot`, or `LoginBusy`), compares
the password without the mutex, and counts under it again (`LoginWrong`, `Counted`) or
forgets the failures (`LoginRight`); the slot is given back when the session exists or
cannot be made (`LoginEnds`). A password change takes a slot for its verification only
(`Verify`, `Verified`, `Change`). `remember` is the duration in memory, `stored` the one in
the table: the policy handler stores and then applies (`PolicyStore`, `PolicyApply`), the
settings page stores and asks for a restart (`SettingsSave`), and a new lifetime loads the
table (`LoginRestart`). The window of a source may end at any moment (`WindowEnds`).

### 2.3 Ingest

`internal/imageupload` with the checks of `internal/integrity` and the repair of
`internal/integrityrepair`. An upload is `UploadStart`, `UploadLookup` (by checksum),
`UploadCommit` (no replacement), `UploadCreate` (the table refuses an identifier or a
checksum it has), `UploadRemove` (the roll back, which may fail: `UploadRemoveFails`) and
`UploadDuplicate`; `UploadFails` is any error before the publication.

A check makes the passes of the code, each at a moment of its own and without a snapshot
over them: it counts the rows (`CheckCount`), resolves the references (`CheckReferences`),
reads the checksums (`CheckChecksums`) and scans the directory (`CheckScan`), and its
report has room for `MaxIssues` issues, of which orphans are the last. `CheckFails` is any
error on the way. A repair takes the orphans of the report one at a time: checksum, query,
new row or new path of an existing row, or a failure it reports (`RepairFails`). `lost`,
`left`, `acked` and `skipped` are histories. `RepairDuringUploads` says whether repairs and
uploads overlap; checks always may. `MCIngest` adds the symmetry.

### 2.4 ImageCache

`internal/imagecache` for one variant: row, file (good or damaged) and flight. A request
loads the row, checks the file, invalidates a damaged entry (row, then file), joins or
leads the flight; the leader transforms, publishes the file and inserts the row, or rolls
back. Either removal of the file may fail (`Unremoved`), which ends the request with an
error. `left` is why a file stands without its row when nobody is going to remove it: a
crash, or such a failure. A follower may give up. `Damage` is what happens to the file from
outside.

### 2.5 Recorder, Scheduler, Lifecycle

`Recorder` stands for both audit recorders. A goroutine at `"send"` holds the read lock;
`CloseStart` needs the write lock. `panicked` records a send on the closed channel.

`Scheduler` has one loop per job and call of `Run`. `select` picks any ready case, so
`LoopTick`, `LoopTrigger` and `LoopDone` are alternatives; the trigger leaves the channel
before the job starts.

`Lifecycle` EXTENDS both and adds the serve loop, so that recorder and scheduler are
checked inside the system that creates, uses and closes them, in every lifetime:

| `phase` | code |
|---|---|
| `restore` | `uirestore.ApplyPending` (one step here, `RestoreSwap` has its detail) |
| `backup`, `unqueue` | `Store.ApplyPending`: the snapshot or the recorded failure, then the removal of the request |
| `start` | the first half of `app.Run`, up to the scheduler |
| `serving` | the `select` of `app.Run` |
| `shutdown`, `scheduler`, `recorder`, `database` | `server.Shutdown`, then the deferred calls |
| `exited` | the process has ended, and its supervisor may start it again |

The requests of an administrator are split at their durable steps: `QueueCreate` leaves an
empty request file (`Torn`) that `QueueWrite` fills; `RestoreRead` copies the credential
into the candidate, `RestoreMark` records it; `Accept` is the flushed answer 202, and
`RestartAfterBackup` the call of `ready()` behind it. The token `active` is deliberately
not given back after a success, as in the code.

### 2.6 BingArchive

`internal/bing/service.go` and `repair.go`. `rows` maps an address to the name its row
holds, `file` a name to an image, to other bytes or to nothing. A synchronization renames
files of the earlier scheme (`Link`, `Unlink`, `Upsert`, and `Relink`, `Drop` when the
update fails), fetches the published addresses, and visits each: keep, rename, adopt or
download, then `Upsert`, then `Remove` if the update of a created file fails. `HashOf`
lets two addresses have one picture: the table then refuses the second row. The repair
reads and scans without the token (`RepairReads`, `RepairScans`), waits for it
(`RepairBegins`), and settles its candidates by hash, then by metadata; it looks at the file
(`RepairMatch`, `RepairRebuild`) a step before it saves the row (`RepairSave`). `Upload` is
the file browser publishing into the archive directory, which may lie below one of its
roots, and `UploadRollBack` the roll back of that batch, which removes what it published by
name, with or without a row by then (`hfs/roots.go:272`). The initial states are all the
combinations of files and rows, damaged and missing ones included, as after a restore of
an older snapshot.

### 2.7 HfsUploads

`HFSWriteHandler`, `Registry.CommitFiles` and `StagedFile.CommitAbsolute` for one
directory: `AcquireMutation`, `OpenDirectory`, `StageFile` for each part, `CheckBatch`,
then `Commit` by hard link or, across file systems, `CopyBeside` and `LinkBeside`; a
failure leads to `RollbackFile` for each published name. Every removal of a staged file and
of a temporary file beside the destination may fail (`RemoveStaged`, `RemoveTemp`): the
code drops that error, and the file stays for good (`stagedKept`, `tempKept`; `MaxUnremoved`
bounds the requests it happens to). `HostStep` is the owner of the directory, who adds and
removes files by other means; it is the one definition of code outside the repository.
`MCHfsUploads` adds the symmetry.

### 2.8 Backup, SnapshotStore

`Backup` EXTENDS `RestoreSwap`: the servers, the lock, the files and the commands are the
ones of that module, and each of its steps is extended by what it does to the database
(`FollowSwap`, `FollowOpen`, `FollowClose`) and to a backup under way (`Forget`). A state of the
database is its generation and its last transaction (`committed`); `merged` is the last
transaction in the database file itself, and what lies between them is in the WAL only.
Closing the database merges the WAL, a crash leaves it.

Two callers run `backup.Create`: a starting server for the queued request (`Queue`,
`LookForRequest`, `Unqueue`) and the `backup` command (`CommandOpens`, `CommandAccesses`
and `CommandCloses` without the lock, each at a moment of its own, also in the middle of
another caller's copy; then `CommandLocates`). `execute` is `AcquireForBackup`,
`Inventory`, `CopyBegin` and `CopyEnd` for each file, `Validate` (which merges the copied
WAL), `Publish` (no replacement) and `CreateFails`. A file that changes between the two
ends of its copy would be `Torn`; `CopyEnd` has the code's look at the source that
refuses it, and `CopyBegin` the one at the inventoried size. `Opening` is what SQLite makes
of the copied database and WAL; those of two databases make it `Torn` too.

`SnapshotStore` is what a backup promises: a snapshot is taken in one step, of the state the
database is in, and never changes. `SnapshotsAreAtomic` is its specification under the
mapping *current* = generation and last transaction; the commit point is the publication,
which works because nothing but a transaction of a running server changes the state, and
a backup holds the lock.

## 3. The runs

A run that passes was explored completely. Deadlock is checked except where noted.

| Run | Instance | States | Shows |
|---|---|---|---|
| RestoreSwap | 1 server, 2 restores, 2 crashes, commands while no restore is recorded | 4,636 | `NeverLost`, `OneGeneration`, `OpensOnlyAfterSwap`, `SwapIsAtomic` and, with fairness, `RecordedIsInstalled` |
| Backup | 2 servers, 1 restore, 2 snapshot names, 2 transactions, 1 crash, commands at any time, none with the database open across a rename of the swap | 1,840,325 | `CandidateKept`, `SnapshotsAreAtomic` |
| Login | 2 requests, 2 tokens, 2 sources, limits 1 (sessions), 2 (failures), 1 (sources), 1 (slots), 1 password change, overlapping logout | 529,672 | `LogoutClearsRow`, `SessionsMatchVerifier`, `SessionsBounded`, `LimiterBounded`, `SlotsAccounted`, `PolicyAgrees` |
| Ingest | 2 uploads, 2 contents, 3 identifiers, 2 old files, 1 old row, a report of 3 issues, crashes | 443,297 | `AcknowledgedIsStored`, `ReferencedFileStays`, `ServedRowStays`, `OrphansAreExplained`, `RepairSettlesOrphans`, `HealthyIsSound` |
| ImageCache | 3 requests, 2 damages, crashes, failing removals | 15,041 | `OneTransformation`, `LooseFileHasOwner` and, with fairness, `EveryRequestAnswered` |
| Lifecycle | 2 lifetimes, 2 events, capacity 1, 1 job, 1 snapshot, 1 restore, 1 change, 1 crash | 481,917 | the nine properties of recorder, scheduler and serve loop below |
| BingArchive | 2 addresses of one picture, one without a date, 1 upload and its roll back, 1 crash | 2,194,668 | `PictureKept`, `ServedStays`, `ChangedRowsAreServed`, `OrphansAreExplained` |
| HfsUploads | 3 requests, 2 names, 2 slots, 1 step of the owner, 1 crash, 1 request with failing removals | 1,082,624 | `BatchIsAtomic`, `OnlyOwnFilesGo`, `NothingStaysStaged` |

Four runs find a documented property violated; section 5 describes them.

**Properties of Lifecycle.** `NoSendOnClosed`, `AcceptedInOrder`, `DrainedIsComplete`
(recorder); `NoOverlap`, `RequestIsKept` (scheduler); `DatabaseClosesLast`: when the
database closes no job runs, the worker has ended unless its deadline passed, and no
request is served unless `Shutdown` gave up on it; `PromisedBackupSettled`;
`CredentialRetained`; and, with fairness, `RestartCompletes`.

**Why the bounds are enough.** RestoreSwap has one server, for which the swap
is made; what a second one can spoil in spite of the lock is in section 5. The second
server of Backup exists to race for the lock and to start while the first makes a backup. Two snapshot names are one that exists and one that does not; of two transactions the
first is a migration and the second is in the WAL only. Two
restores, so that the second starts from what the first left; two crashes, so that the
recovery itself crashes. Two requests are the least that overtake each
other, in a logout as in the limiter (SessionsLogoutRace needs no third one, and section 4 proves the properties of
sessions and limiter for any number); one map slot makes every login evict; with one slot for a password check, one tracked source
and two failures every bound of the limiter is reached, and the second source is one without room. Two uploads of one content
or one identifier meet every conflict of the table; three issues are fewer than the
orphans and missing files of the instance, so that a report overflows. Three requests are a leader, a
follower and one that comes when the flight ends. A recorder of capacity one with two
events is full, and drops. Two lifetimes are one that restarts and one that is restarted
into; the second accepts no requests, and is there to see what the first left. Two
addresses are the least that can collide in hash and name; three requests and two slots
are the least that wait, and one upload in the archive is enough for its file to be adopted,
renamed or chosen by a repair and then taken back. Every bound is a constant and named as such in its module.

**Symmetry.** `MCLogin`, `MCIngest` and `MCHfsUploads` permute requests, tokens, sources,
contents, identifiers and names. These are model values that no constant, guard or property
names, no property of the three runs is a liveness property, and no definition chooses among them with
`CHOOSE`, so the reduction is sound.

**Fairness.** Weak fairness on the steps of a started goroutine: the scheduler of Go runs
what can run, and every call in those steps returns or has a deadline. RestoreSwap
also assumes a supervisor that starts the server again, the deployment the documents
describe. In Lifecycle, strong fairness on `LoopDone`: `select` picks at random among ready
cases, so a cancelled context is not passed over for ever in favour of ticks. A job returns,
because the only job, the synchronization, uses its context for every wait. No handler is
assumed to return, no client to call and no job to start; `Shutdown` has its own deadline.

**Deadlock.** Lifecycle ends when its last lifetime has exited, HfsUploads when each
request has had its answer, since a request is made once: both set `CHECK_DEADLOCK FALSE`.

Each property has a mutant in `PROJECT.json`: a plausible slip in one definition, under
which TLC finds the property violated by the same run. The mutated operators stand before
the definitions they replace, and their comments begin with "Mutant:".

## 4. The proofs

Proof modules EXTEND the module they are about. Every theorem is for all values of the
constants that satisfy the module's ASSUME. The pattern is the same throughout: an
inductive invariant, a lemma that `Init` establishes it, a lemma that every action
preserves it, one step per action, and PTL for the temporal conclusion.

| Module | Theorems | Inductive invariant, and why the property alone is not enough |
|---|---|---|
| RestoreSwapProof | `TypeCorrect`, `DatabaseNeverLost`, `DatabaseMatchesWAL`, `OpensAfterSwap`, `CandidateSurvives`, `SwapRefinesAtomicRestore` | `IInv`: where the lock is held, what a server knows of the marker, and the stage of the recorded restore (`Before`, `Between`, `After`, `Cleaning`, `Gone`), each fixing the phase files and the place of every managed file. A crash forgets the location, so the stage must be readable from the disk alone, which is what resuming rests on. `DatabaseMatchesWAL`, `OpensAfterSwap` and `CandidateSurvives` need less than that discipline and have invariants of their own: `ReaderInv`, that a reading of the marker is true or its restore finished; `WALInv`, that a WAL whose database was moved aside is gone before a candidate moves in, and that the database the `backup` command has open is where it opened it; `KeepInv`, that something on the disk, or the server that is removing it, keeps the installed database from being moved aside again |
| BackupProof | `BackupTypeCorrect`, `BackupRefinesSnapshotStore`, `BackupMatchesWAL`, `CandidateSurvivesBackups` | `BackupInv`: who has the database open or moves its files holds the lock; a database without a WAL has every transaction in its file; and at each step of a copy the staged files belong to the database that is in the directory, the last of them with its last transaction. The property speaks of the publication only, when the copies are already made. `FreshInv` says that an empty database beside a WAL which is not its own is not migrated, and that no server has it open; `PairInv` that the copied WAL belongs to the copied database, or that one is empty and will be refused. No `Disciplined` is needed. Every step of `Backup` is one of the swap or touches the lock only (`SwapStepOrLockOnly`), which carries `ReaderInv`, `WALInv` and `KeepInv` over |
| LoginProof | of sessions: `TypeCorrect`, `VerifierMatches`, `LogoutRemovesRow`, `BoundedSessions`, `LogoutFinality`; of the login: `LoginRefinesSessions`, `SessionsBehindLogin`, `LoginTypeCorrect`, `NoSlotIsLost`, `LimiterHolds`, `PolicyHolds` | `IInv`: the token of a login in flight is unknown to clients and belongs to it alone; what an authentication is about to cache was checked against the running verifier. `FinalInv` adds, without overlap, that nobody holds a token whose logout was answered. `Login` refines `Sessions`, so these theorems hold behind the login. The slots are counted by the cardinality of the requests that hold one, the failures of a source together with the attempts that are admitted and not yet counted: the property alone says nothing of those. `PolicyInv` ties the duration a request is about to apply to the stored one |
| IngestProof | `TypeCorrect`, `AcknowledgedStays`, `RollbackIsOwn`, `ServedRowsStay`, `OrphansExplained`, `HealthyReports`, `RepairIsComplete` | `Inv`: from the publication of its file to its own insert, an upload is the only one with that path, and every row of its checksum is served from another one; so the roll back takes no file a row needs. `HealthyInv` says, pass by pass, what a check without an issue so far knows of the rows it counted and the files it has still to scan; `SettleInv` that every orphan is in the report, in `skipped` or settled |
| ImageCacheProof | `TypeCorrect`, `SingleFlight`, `LooseFilesAreOwned` | type, flight and ownership together: the ownership of a loose file needs that the leader is unique, and that a recorded reason belongs to the file that is there |
| LifecycleProof | of a recorder on its own: `RecorderTypeCorrect`, `NoPanic`, `OrderKept`, `DrainComplete`; of the lifetimes: `LifetimesNeverPanic`, `LifetimesKeepOrder`, `LifetimesDrain`, `JobsRunAlone`, `LifetimesJobsRunAlone`, `LifetimesKeepRequests`, `LifecycleTypeCorrect`, `DatabaseOutlivesItsUsers`, `PromisesAreKept`, `CredentialSurvivesRestore` | `RecorderInv`: nobody is past the closed check once the channel is closed, and the worker ends only with an empty channel or a cancelled context. `RecorderStep`: every step of the server is a step of the recorder, leaves it alone or makes a new one, which carries `RecorderInv` over. `ScheduleInv` does the same for the scheduler: its loops belong to the one call of `Run` that has not returned, and that is the call of this lifetime while it serves or shuts down. `ClosingInv` says who can still be left in each phase of the shutdown; `BackupInv` and `CredentialInv` say who owns the request file, and what candidate and marker hold, at each step of a handler |
| BingArchiveProof | `TypesAndToken`, `PicturesAreKept`, `OrphansHaveReasons`, `ServedRowsStay`, `ChangedRowsCanBeServed` | `ArchiveInv`. `RowsInv`: every row names a file of its own picture, so that by the unique hash no two rows share a file. `Visited`, `Renamed`, `Created`: what the synchronization saw when it looked at a record is still so when it updates, links or removes, many steps later and beside uploads and a scanning repair; in particular a downloaded file is named only by rows that never had their picture, and no picture depends on it, which is why its removal is safe. A file that the roll back of an upload took is in `taken` until a row is saved for a picture of that name, and each of these facts excepts it. `Effects` sorts the steps into four kinds (nothing, a file where none was, a row for a file that was looked at, a removal no deliverable row sees but the one being renamed or one an upload takes back), from which both action properties follow |
| HfsUploadsProof | `TypesAndSlots`, `BatchesAreAtomic`, `RollBackTakesItsOwn`, `EveryExitRemoves` | `AtomicInv`. `Ownership`: what a request has published, and the owner of the directory has not touched, is its own until it takes it back, and it has published nothing else; the property speaks of answered requests only, when the roll back, which removes by name, is over. `Progress` carries the check for duplicate names to the roll back: without it one removal would take a name that is still counted as published. `StagedInv` counts, at each step, the files a request has still to remove and those whose removal failed |

**Assumptions beyond the ASSUMEs.** `Disciplined` (`DatabaseNeverLost`,
`SwapRefinesAtomicRestore`): one server, no command while a restore is recorded, no crash
inside `os.RemoveAll`. `Alone` (`DatabaseMatchesWAL`, `CandidateSurvives` and the same of
BackupProof, `BackupRefinesSnapshotStore`): one server, or one restore; commands at any
time. `~OpenDuringSwap` for `DatabaseMatchesWAL`, `BackupMatchesWAL` and
`BackupRefinesSnapshotStore`, which are false without it; the candidate survives either
way. One server for `OpensAfterSwap`, no crash inside `os.RemoveAll` for the candidate. `~OverlapLogout` for
`LogoutFinality`, `~OverlapPolicy` for `PolicyHolds`, `~RepairDuringUploads` for the theorems
of IngestProof but `TypeCorrect` and `HealthyReports`, `~PasswordDuringRestore` for
`CredentialSurvivesRestore`. What happens without them is in section 5, for four of them
as a run. `SwapRefinesAtomicRestore`
is the refinement of the specification, initial states and steps; liveness is not part of
`AtomicRestore`.

**Only model-checked**: liveness under fairness (`RecordedIsInstalled`,
`EveryRequestAnswered`, `RestartCompletes`), which TLAPS does not prove.

## 5. Where the program disagrees with its documents

Each of the first four is a run of its own.

1. **RestoreSwapCleanupCrash**, `NeverLost`. `ApplyPending` removes the work directory,
   phase files included, before the marker (`uirestore/restore.go:308`). A crash inside
   `os.RemoveAll` can leave the marker and a work directory without phase files; the next
   start moves the database it installed into the rollback directory and finds no candidate.
2. **SessionsLogoutRace**, `LogoutIsFinal`. `authenticateRequest` reads the row without the
   mutex (`auth/auth.go:442-455`); a logout in between is undone in memory.
3. **IngestRollback**, `ReferencedFileStays`. A repair that scans between the rename and
   the insert of an upload gives the file a row; the insert then fails on the checksum and
   the roll back removes the file (`imageupload/service.go:107`).
4. **LifecyclePassword**, `CredentialRetained`. The candidate's credential is read while
   the server goes on serving (`uirestore/restore.go:171`); a password change that is
   acknowledged afterwards is undone by the restore.

**Disagreements without a run.** They follow from the same models; the properties were
reduced to what holds, and the reduction is named in the property or its hazard.

* `backup` opens the database before it takes the lock (`cmd/kaven-media/main.go:180`), and `check` takes the
  lock and ignores the marker: between two steps of an interrupted swap each creates an empty
  database, and every later `ApplyPending` ends with a conflict, against
  `docs/BACKUP.md:152`. `CandidateKept` is what remains.
* The `backup` command may also have the database open while the swap renames it (its open,
  statements and close are at `cmd/kaven-media/main.go:180-186`): its first statement then
  creates the WAL of the old database, by name, beside the candidate that was moved in, and
  a snapshot taken of both is of neither. With `OpenDuringSwap = TRUE` TLC finds
  `OneGeneration` and `SnapshotsAreAtomic` violated that way; the runs and the three theorems
  about them leave it out, `CandidateKept` does not need that.
* `ApplyPending` reads the marker before the lock (`restore.go:255`): of two servers on one
  directory, the second can open the old database although the first recorded a restore. Nor is the
  marker read again under the lock: a server that read of a restore another one has finished
  since finds no work directory and removes the marker that is there, of whichever restore
  (`restore.go:272`), and a recorded restore is never installed. With a third restore and a
  crash a candidate that was given up this way displaces an installed one, against
  `CandidateKept`; hence `Alone` in section 4.
* `repairExistingUpload` (`integrityrepair/service.go:150`) takes the existence of a row's
  file for its validity and reports a good orphan as a duplicate, against
  `docs/DEVELOPMENT.md:140`. `RepairSettlesOrphans` asks only that the file exists.
* `invalidate` (`imagecache/service.go:195-202`) works by name and outside the flight: it
  can remove the file a new flight has just published, whose row then names no file until
  the next request repairs it, against `docs/DEVELOPMENT.md:381`.
* "A failed database write removes the newly published file, while the `check` command
  reports orphaned files left by process interruption" (`docs/DEVELOPMENT.md:383`). The
  removal may fail (`imagecache/service.go:185`), and so may the one of `invalidate` when
  the row is already deleted (`service.go:202`): the file that stays makes every later
  publication of its variant fail, since `WriteAtomic` replaces nothing.
  `LooseFileHasOwner` names this reason beside the crash.
* A crash between link and removal of a renaming leaves two names of a picture; after two
  of them the opaque, the readable and the qualified name exist, both destinations are
  taken, and every later `Sync` ends in the renaming pass, before it fetches metadata,
  against "Synchronization is safe to rerun" (`docs/DEVELOPMENT.md:418`). A damaged file
  with an opaque name has the same effect. `PictureKept` says that no picture is lost by it.
* A picture that is published again under another address fails at each synchronization,
  since `ON CONFLICT` names only the address and the hash is unique.
* `rollbackFiles` (`hfs/roots.go:272`) removes by name: if the owner of the directory
  removed a published file and another request published the name meanwhile, that file
  goes. `OnlyOwnFilesGo` excepts the names the owner has touched. A root may contain the
  Bing archive, for `roots.go:102-104` excludes only the backup, temporary and log
  directories: a synchronization or a repair can adopt a file a batch has published, and
  write its row, before a later file of the batch fails and the roll back takes the only
  file of that row. `PictureKept`, `ServedStays` and `ChangedRowsAreServed` except the files
  a roll back took (`taken`).
* Errors of `os.Remove` on staged files and on temporary files beside the destination are
  dropped (`storage.go:497,508,541,543`, `httpapi/hfs.go:255`): such a file stays although
  nothing crashed. `NothingStaysStaged` says that each removal was tried.
* Five failed attempts "block further attempts from that peer" (`docs/AUTHENTICATION.md:118`).
  Attempts are admitted before the password is checked and counted after it, so those that
  run side by side are all checked: `LimiterBounded` allows the limit less one and the number
  of requests at once, which the four slots keep small. The current password of a password
  change is checked without being counted (`auth/auth.go:124`).
* A password change is checked against the verifier of the running lifetime: between an
  acknowledged change and the restart the superseded password can change it once more.
* "Logout is idempotent. It removes both" (`docs/AUTHENTICATION.md:139`). The error of the
  delete is dropped (`auth/auth.go:475`): the answer is 204, and the row that stayed brings
  the session back. `LogoutClearsRow` speaks of the logouts that reached the table.
* "changes apply to newly created remembered sessions" (`docs/AUTHENTICATION.md:114`). Two
  changes in flight can be stored in one order and applied in the other
  (`httpapi/admin_session_policy.go:56-60`); table and memory then differ until the restart.
* The count and the two readings of the rows in a check are separate queries, and a file
  that is gone when its checksum is due is passed over (`integrity/integrity.go:404`,
  "Missing and non-regular references were already recorded"). If an upload's file stands at
  the path of a row without a file while references are checked, and is taken back before
  the checksums, the report is healthy; `HealthyIsSound` excepts those paths. The other way
  round, the file of an upload that is still running is reported as an orphan.
* Setup takes the complete settings, trusted proxies included
  (`docs/DEVELOPMENT.md:237-246`), but its transaction leaves `trusted_proxy_cidrs` out
  (`repository/admin_credentials.go:91`).
* The repair starts from the issues the report kept (`docs/DEVELOPMENT.md:117`), and orphans
  come last in it: with a thousand issues of other kinds it repairs nothing, though it could
  (`docs/DEVELOPMENT.md:130`). `RepairSettlesOrphans` needs a report that was not cut off.
* "Failed creation is recorded ... without preventing the server from returning to service"
  (`docs/ARCHITECTURE.md:384`). With a second server on the directory the request that is
  removed is whichever is there (`backupstore/store.go:208`), and a server that finds it
  gone ends with an error. With one server `PromisedBackupSettled` holds.

## 6. What is not modelled

* **The snapshot format** (`internal/backup`): manifest, checksums, limits and path rules, and
  `Restore` beyond the candidate it makes for the web restore. A snapshot's own database
  is the state it was taken of.
* **The other passes of the integrity check**: cache entries, Bing pictures and the pragmas of
  SQLite; they read, and report what they find in one pass.
* **Two overlapping changes of the session policy** are in the model (`OverlapPolicy`) but not in
  its run: section 5 says what they do.
* **Application log** (`internal/applog`): rotation is planned.
* **Database**: one statement or transaction of SQLite is one atomic step; the migrations are
  one transaction, a WAL is the transactions it holds, and busy handling is SQLite's.
* **File systems**: a rename, link or removal is atomic and durable in order. Power failures
  that reorder them are outside the models: `restore.go` syncs files, not directories.
* **Setup, lookups, activity, the settings but the remembered duration**: one transaction or query each, without an order
  that could matter.
* **Image processing** (libvips), **configuration**, **request filters**, **CI evidence and
  version check**, **build information**: pure functions of their input.
* **The web front end**: a client of the interface.
* A start that fails, and an HTTP server that fails to listen, are crashes of the model: the
  process ends and is started again.

## 7. Plan

Done, in order of importance: the swap of a restore with its abstract specification; the
sessions; uploads, check and repair; the image cache; recorders and scheduler inside the
lifetimes of the server; the Bing archive; the file browser; backups under the swap, with
their abstract specification; the login limiter and the session policy around the sessions.

Next:

1. `LogRotation` of `internal/applog`, with a failure between closing and reopening.
2. Pure algorithms as operators, each against a reference definition over bounded inputs:
   comparison of versions, the proxy chain of `internal/clientip`, `pathsOverlap`, the prefix check of
   migrations, the output sizes of `internal/imageproc`.
