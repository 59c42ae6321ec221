----------------------------- MODULE Lifecycle -----------------------------
(***************************************************************************)
(* The serve loop (cmd/kaven-media, internal/app): lifetimes of the        *)
(* application follow each other in one process.  Between two lifetimes    *)
(* the loop installs a recorded restore and makes a queued snapshot        *)
(* (internal/backupstore); within one, requests are served until a request *)
(* asks for a restart or the process is told to stop, and then everything  *)
(* is closed in the reverse order of its creation.                         *)
(*                                                                         *)
(* The module composes Recorder and Scheduler: both are created anew in    *)
(* every lifetime, used by its requests, and closed in its shutdown.       *)
(*                                                                         *)
(* Abstractions: one recorder stands for the two, which close one after    *)
(* the other; a credential is a number that grows with every change; the   *)
(* swap of a restore is one step (RestoreSwap has its detail); the         *)
(* process is started again by its supervisor whenever it ended.           *)
(***************************************************************************)
EXTENDS Recorder, Scheduler

CONSTANTS
    Backups,     \* names of snapshots
    Torn,        \* a request file whose content was never written
    MaxChanges,  \* bound: password changes
    MaxCrashes,  \* bound: crashes
    PasswordDuringRestore  \* is the password changed while a restore is prepared?

Lives == 1..Cardinality(Runs)

ASSUME LifecycleAssumption ==
    /\ IsFiniteSet(Runs)
    /\ Runs # {}
    /\ Runs = Lives
    /\ Torn \notin Backups
    /\ None \notin Backups \cup {Torn} \cup 0..MaxChanges
    /\ MaxChanges \in Nat
    /\ MaxCrashes \in Nat
    /\ PasswordDuringRestore \in BOOLEAN

VARIABLES
    phase,      \* where the serve loop is
    life,       \* the current lifetime
    restarting, \* is the current shutdown one that restarts?
    overdue,    \* did Shutdown give up on requests of this lifetime?
    ready,      \* is there a value in the channel restartReady?
    inflight,   \* the events whose request is being served
    active,     \* BackupStoreHandler.active is taken
    admin,      \* next step of the backup or restore request that took it
    chosen,     \* the snapshot that request is to make
    change,     \* next step of a password change
    request,    \* backup/.request.json: a name, Torn or None
    snapshots,  \* the published snapshots
    marker,     \* the credential in the candidate of a recorded restore
    candidate,  \* the credential a restore in preparation has read
    credential, \* the stored administrator credential
    accepted202,\* the snapshots promised to an administrator (history)
    failed,     \* the snapshots whose failure was recorded (history)
    promised,   \* the credential of the last acknowledged change (history)
    crashes     \* how many crashes have happened

appVars == <<phase, life, restarting, overdue, ready, inflight>>
adminVars == <<active, admin, chosen, candidate, change>>
diskVars == <<request, snapshots, marker, credential>>
historyVars == <<accepted202, failed, promised, crashes>>
vars == <<recorderVars, schedulerVars, appVars, adminVars, diskVars, historyVars>>

Closing == {"shutdown", "scheduler", "recorder", "database"}
Off == {"restore", "backup", "unqueue", "start", "exited"}

AppTypeOK ==
    /\ phase \in Off \cup {"serving"} \cup Closing
    /\ life \in Lives
    /\ restarting \in BOOLEAN
    /\ overdue \in BOOLEAN
    /\ ready \in BOOLEAN
    /\ inflight \subseteq Events
    /\ active \in BOOLEAN
    /\ admin \in {"idle", "queue", "write", "read", "mark", "accept", "ready"}
    /\ admin # "idle" => active
    /\ chosen \in Backups \cup {None}
    /\ admin \in {"queue", "write"} => chosen \in Backups
    /\ change \in {"idle", "update", "ready"}
    /\ request \in Backups \cup {Torn, None}
    /\ snapshots \subseteq Backups
    /\ marker \in 0..MaxChanges \cup {None}
    /\ candidate \in 0..MaxChanges
    /\ credential \in 0..MaxChanges
    /\ accepted202 \subseteq Backups
    /\ failed \subseteq Backups
    /\ promised \in 0..MaxChanges
    /\ crashes \in 0..MaxCrashes

TypeOK == RecorderTypeOK /\ SchedulerTypeOK /\ AppTypeOK

\* The objects app.Run creates for a lifetime.
NewLifetime ==
    /\ ready = FALSE
    /\ restarting = FALSE
    /\ overdue = FALSE
    /\ inflight = {}
    /\ active = FALSE
    /\ admin = "idle"
    /\ chosen = None
    /\ change = "idle"
    /\ candidate = 0

Init ==
    /\ RecorderInit
    /\ SchedulerInit
    /\ NewLifetime
    /\ phase = "restore"
    /\ life = 1
    /\ request = None
    /\ snapshots = {}
    /\ marker = None
    /\ credential = 0
    /\ accepted202 = {}
    /\ failed = {}
    /\ promised = 0
    /\ crashes = 0

\* The objects of a lifetime are gone.
Fresh ==
    /\ pc' = [e \in Events |-> "new"]
    /\ events' = <<>>
    /\ closed' = FALSE
    /\ closer' = "open"
    /\ cancelled' = FALSE
    /\ worker' = "receive"
    /\ current' = None
    /\ accepted' = <<>>
    /\ attempted' = <<>>
    /\ panicked' = FALSE
    /\ running' = FALSE
    /\ trigger' = {}
    /\ unserved' = {}
    /\ ready' = FALSE
    /\ restarting' = FALSE
    /\ overdue' = FALSE
    /\ inflight' = {}
    /\ active' = FALSE
    /\ admin' = "idle"
    /\ chosen' = None
    /\ change' = "idle"
    /\ candidate' = 0

\* Everything in memory is gone.
Die ==
    /\ phase' = "exited"
    /\ Fresh
    /\ run' = [r \in Runs |-> "new"]
    /\ stopped' = {}
    /\ loop' = [r \in Runs |-> [j \in Jobs |-> "off"]]

Serving == phase = "serving"

\* Requests are accepted.  A bound: the last lifetime gets none.
Receiving == Serving /\ life < Cardinality(Runs)

-----------------------------------------------------------------------------
(* The serve loop, between two lifetimes                                   *)

\* uirestore.ApplyPending: the candidate replaces the database.
ApplyRestore ==
    /\ phase = "restore"
    /\ phase' = "backup"
    /\ credential' = IF marker = None THEN credential ELSE marker
    /\ marker' = None
    /\ UNCHANGED <<recorderVars, schedulerVars, life, restarting, overdue, ready, inflight,
                   adminVars, request, snapshots, historyVars>>

\* Mutant: the request is removed before the snapshot is made.
ApplyBackupEarly ==
    /\ phase = "backup"
    /\ phase' = IF request \in Backups \ snapshots THEN "unqueue" ELSE "start"
    /\ request' = None
    /\ UNCHANGED <<recorderVars, schedulerVars, life, restarting, overdue, ready, inflight,
                   adminVars, snapshots, marker, credential, historyVars>>

\* Store.ApplyPending: a snapshot that is there already is taken for done, an
\* unreadable request and a failed backup are recorded as failures.
ApplyBackup ==
    /\ phase = "backup"
    /\ phase' = IF request = None THEN "start" ELSE "unqueue"
    /\ \/ /\ request \notin Backups \ snapshots
          /\ UNCHANGED <<snapshots, failed>>
       \/ /\ request \in Backups \ snapshots
          /\ \/ snapshots' = snapshots \cup {request} /\ UNCHANGED failed
             \/ failed' = failed \cup {request} /\ UNCHANGED snapshots
    /\ UNCHANGED <<recorderVars, schedulerVars, life, restarting, overdue, ready, inflight,
                   adminVars, request, marker, credential, accepted202, promised, crashes>>

\* Store.ApplyPending and finishFailedRequest: the request is removed.
Unqueue ==
    /\ phase = "unqueue"
    /\ phase' = "start"
    /\ request' = None
    /\ UNCHANGED <<recorderVars, schedulerVars, life, restarting, overdue, ready, inflight,
                   adminVars, snapshots, marker, credential, historyVars>>

\* app.Run: the lock, the database, a recorder, a scheduler, the server.
Start ==
    /\ phase = "start"
    /\ phase' = "serving"
    /\ RunStart(life)
    /\ UNCHANGED <<recorderVars, life, restarting, overdue, ready, inflight,
                   adminVars, diskVars, historyVars>>

-----------------------------------------------------------------------------
(* Requests of visitors and of the scheduler                               *)

\* A request that will be recorded, an image or a download, is accepted.
Visit(e) ==
    /\ Receiving
    /\ e \notin inflight
    /\ pc[e] = "new"
    /\ inflight' = inflight \cup {e}
    /\ UNCHANGED <<recorderVars, schedulerVars, phase, life, restarting, overdue, ready,
                   adminVars, diskVars, historyVars>>

\* Its handler records it, at any time before it returns.
VisitRecords(e) ==
    /\ e \in inflight
    /\ Record(e)
    /\ UNCHANGED <<schedulerVars, appVars, adminVars, diskVars, historyVars>>

VisitEnds(e) ==
    /\ e \in inflight
    /\ pc[e] # "send"
    /\ inflight' = inflight \ {e}
    /\ UNCHANGED <<recorderVars, schedulerVars, phase, life, restarting, overdue, ready,
                   adminVars, diskVars, historyVars>>

RecorderWorks ==
    /\ Worker
    /\ UNCHANGED <<schedulerVars, appVars, adminVars, diskVars, historyVars>>

\* BingSyncHandler: an administrator asks for a run of the job.
SyncNow(j) ==
    /\ Receiving
    /\ Trigger(j)
    /\ UNCHANGED <<recorderVars, appVars, adminVars, diskVars, historyVars>>

SchedulerWorks ==
    /\ \/ \E r \in Runs : RunReturn(r)
       \/ \E r \in Runs, j \in Jobs : Loop(r, j)
    /\ UNCHANGED <<recorderVars, appVars, adminVars, diskVars, historyVars>>

-----------------------------------------------------------------------------
(* Administrator requests that end with a restart                          *)

\* The request fails and gives the token back.
Release ==
    /\ admin' = "idle"
    /\ chosen' = None
    /\ active' = FALSE

\* BackupStoreHandler.Create takes the token; without it a request is
\* answered with 409 and changes nothing.
BackupBegin ==
    /\ Receiving
    /\ ~active
    /\ active' = TRUE
    /\ chosen' \in Backups
    /\ admin' = "queue"
    /\ UNCHANGED <<recorderVars, schedulerVars, appVars, candidate, change, diskVars, historyVars>>

\* Store.Queue: the name must be new, and the request file is created with
\* O_EXCL; reading the directory or creating the file may also fail.
QueueCreate ==
    /\ admin = "queue"
    /\ \/ /\ Release
          /\ UNCHANGED request
       \/ /\ chosen \notin snapshots
          /\ request = None
          /\ request' = Torn
          /\ admin' = "write"
          /\ UNCHANGED <<active, chosen>>
    /\ UNCHANGED <<recorderVars, schedulerVars, appVars, candidate, change,
                   snapshots, marker, credential, historyVars>>

\* Store.Queue: the name is written and synced, or the file is removed.
QueueWrite ==
    /\ admin = "write"
    /\ \/ /\ request' = chosen
          /\ admin' = "accept"
          /\ UNCHANGED <<active, chosen>>
       \/ /\ request' = None
          /\ Release
    /\ UNCHANGED <<recorderVars, schedulerVars, appVars, candidate, change,
                   snapshots, marker, credential, historyVars>>

\* BackupStoreHandler.Restore takes the token.
RestoreBegin ==
    /\ Receiving
    /\ ~active
    /\ PasswordDuringRestore \/ change # "update"
    /\ active' = TRUE
    /\ admin' = "read"
    /\ UNCHANGED <<recorderVars, schedulerVars, appVars, chosen, candidate, change, diskVars, historyVars>>

\* Mutant: the candidate keeps the credential of the snapshot.
RestoreReadSnapshot ==
    /\ admin = "read"
    /\ admin' = "mark"
    /\ candidate' = 0
    /\ UNCHANGED <<recorderVars, schedulerVars, appVars, active, chosen, change, diskVars, historyVars>>

\* readAdministratorState: the active credential goes into the candidate.
RestoreRead ==
    /\ admin = "read"
    /\ \/ /\ admin' = "mark"
          /\ candidate' = credential
          /\ UNCHANGED <<active, chosen>>
       \/ /\ Release
          /\ UNCHANGED candidate
    /\ UNCHANGED <<recorderVars, schedulerVars, appVars, change, diskVars, historyVars>>

\* writeState
RestoreMark ==
    /\ admin = "mark"
    /\ \/ /\ marker' = candidate
          /\ admin' = "accept"
          /\ UNCHANGED <<active, chosen>>
       \/ /\ Release
          /\ UNCHANGED marker
    /\ UNCHANGED <<recorderVars, schedulerVars, appVars, candidate, change,
                   request, snapshots, credential, historyVars>>

\* The answer 202 is flushed; the token stays taken.
Accept ==
    /\ admin = "accept"
    /\ accepted202' = accepted202 \cup ({chosen} \ {None})
    /\ admin' = "ready"
    /\ UNCHANGED <<recorderVars, schedulerVars, appVars, active, chosen, candidate, change,
                   diskVars, failed, promised, crashes>>

\* Mutant: the channel has no buffer, and Run may not be listening yet.
RestartAfterBackupDrops ==
    /\ admin = "ready"
    /\ ready' \in {ready, TRUE}
    /\ admin' = "idle"
    /\ chosen' = None
    /\ UNCHANGED <<recorderVars, schedulerVars, phase, life, restarting, overdue, inflight,
                   active, candidate, change, diskVars, historyVars>>

\* ready(): a value is put into restartReady unless there is one.
RestartAfterBackup ==
    /\ admin = "ready"
    /\ ready' = TRUE
    /\ admin' = "idle"
    /\ chosen' = None
    /\ UNCHANGED <<recorderVars, schedulerVars, phase, life, restarting, overdue, inflight,
                   active, candidate, change, diskVars, historyVars>>

\* NewAdminPasswordHandler, up to the update: the password is verified.
PasswordBegin ==
    /\ Receiving
    /\ change = "idle"
    /\ promised < MaxChanges
    /\ PasswordDuringRestore \/ (marker = None /\ admin \notin {"read", "mark"})
    /\ change' = "update"
    /\ UNCHANGED <<recorderVars, schedulerVars, appVars, active, admin, chosen, candidate,
                   diskVars, historyVars>>

\* UpdatePassword, and the answer; or it fails.
PasswordUpdate ==
    /\ change = "update"
    /\ \/ /\ credential' = promised + 1
          /\ promised' = promised + 1
          /\ change' = "ready"
       \/ /\ change' = "idle"
          /\ UNCHANGED <<credential, promised>>
    /\ UNCHANGED <<recorderVars, schedulerVars, appVars, active, admin, chosen, candidate,
                   request, snapshots, marker, accepted202, failed, crashes>>

RestartAfterChange ==
    /\ change = "ready"
    /\ ready' = TRUE
    /\ change' = "idle"
    /\ UNCHANGED <<recorderVars, schedulerVars, phase, life, restarting, overdue, inflight,
                   active, admin, chosen, candidate, diskVars, historyVars>>

Administer ==
    \/ BackupBegin \/ QueueCreate \/ QueueWrite
    \/ RestoreBegin \/ RestoreRead \/ RestoreMark
    \/ Accept \/ RestartAfterBackup
    \/ PasswordBegin \/ PasswordUpdate \/ RestartAfterChange

-----------------------------------------------------------------------------
(* The end of app.Run: Shutdown, and the deferred calls                    *)

Stop(restart) ==
    /\ Serving
    /\ phase' = "shutdown"
    /\ restarting' = restart
    /\ UNCHANGED <<recorderVars, schedulerVars, life, overdue, inflight,
                   adminVars, diskVars, historyVars>>

\* A handler asked for a restart.
StopForRestart ==
    /\ ready
    /\ ready' = FALSE
    /\ Stop(TRUE)

\* SIGTERM or an interrupt.
StopForSignal ==
    /\ Stop(FALSE)
    /\ UNCHANGED ready

NoRequests == inflight = {} /\ admin = "idle" /\ change = "idle"

\* Mutant: the server is closed without waiting for its requests.
ShutdownAtOnce ==
    /\ phase = "shutdown"
    /\ phase' = "scheduler"
    /\ UNCHANGED <<recorderVars, schedulerVars, life, restarting, overdue, ready, inflight,
                   adminVars, diskVars, historyVars>>

\* server.Shutdown: it waits for the requests, up to its deadline; then the
\* error it returns ends the process.
Shutdown ==
    /\ phase = "shutdown"
    /\ phase' = "scheduler"
    /\ \/ NoRequests /\ UNCHANGED <<restarting, overdue>>
       \/ ~NoRequests /\ restarting' = FALSE /\ overdue' = TRUE
    /\ UNCHANGED <<recorderVars, schedulerVars, life, ready, inflight,
                   adminVars, diskVars, historyVars>>

StopSchedule ==
    /\ phase = "scheduler"
    /\ life \notin stopped
    /\ Cancel(life)
    /\ UNCHANGED <<recorderVars, appVars, adminVars, diskVars, historyVars>>

\* <-scheduleResult
ScheduleStopped ==
    /\ phase = "scheduler"
    /\ run[life] = "returned"
    /\ phase' = "recorder"
    /\ UNCHANGED <<recorderVars, schedulerVars, life, restarting, overdue, ready, inflight,
                   adminVars, diskVars, historyVars>>

CloseRecorder ==
    /\ phase = "recorder"
    /\ Close
    /\ phase' = IF closer' = "waiting" THEN "recorder" ELSE "database"
    /\ UNCHANGED <<schedulerVars, life, restarting, overdue, ready, inflight,
                   adminVars, diskVars, historyVars>>

\* db.Close and lock.Close; ErrRestartReady starts the loop again, whatever
\* the deferred calls have joined to it.
CloseDatabase ==
    /\ phase = "database"
    /\ \/ /\ restarting
          /\ phase' = "restore"
          /\ life' = life + 1
          /\ Fresh
          /\ UNCHANGED <<run, stopped, loop>>
       \/ /\ ~restarting
          /\ Die
          /\ UNCHANGED life
    /\ UNCHANGED <<diskVars, historyVars>>

\* The process is killed.
Crash ==
    /\ phase # "exited"
    /\ crashes < MaxCrashes
    /\ crashes' = crashes + 1
    /\ Die
    /\ UNCHANGED <<life, diskVars, accepted202, failed, promised>>

\* The supervisor starts the process again.
Relaunch ==
    /\ phase = "exited"
    /\ life < Cardinality(Runs)
    /\ life' = life + 1
    /\ phase' = "restore"
    /\ UNCHANGED <<recorderVars, schedulerVars, restarting, overdue, ready, inflight,
                   adminVars, diskVars, historyVars>>

\* The goroutine of main.
Main ==
    \/ ApplyRestore \/ ApplyBackup \/ Unqueue \/ Start
    \/ StopForRestart \/ Shutdown \/ StopSchedule \/ ScheduleStopped
    \/ CloseRecorder \/ CloseDatabase

Next ==
    \/ Main
    \/ \E e \in Events : Visit(e) \/ VisitRecords(e) \/ VisitEnds(e)
    \/ RecorderWorks
    \/ \E j \in Jobs : SyncNow(j)
    \/ SchedulerWorks
    \/ Administer
    \/ StopForSignal
    \/ Crash \/ Relaunch

Spec == Init /\ [][Next]_vars

\* Goroutines that can run do, jobs return, deadlines pass, and Go's select
\* picks a ready case at random, so that a case that is ready again and again
\* is taken.  ready() does not block.  Nothing else makes a handler return, a
\* client call or a job start.
FairSpec ==
    /\ Spec
    /\ WF_vars(Main)
    /\ WF_vars(RestartAfterBackup \/ RestartAfterChange)
    /\ WF_vars(RecorderWorks)
    /\ WF_vars(\E e \in Events : RecordSend(e) /\ VisitRecords(e))
    /\ WF_vars(\E r \in Runs : RunReturn(r) /\ SchedulerWorks)
    /\ \A j \in Jobs :
          /\ SF_vars(\E r \in Runs : LoopDone(r, j) /\ SchedulerWorks)
          /\ WF_vars(\E r \in Runs : JobReturns(r, j) /\ SchedulerWorks)

-----------------------------------------------------------------------------
(* Properties                                                              *)

\* Nobody who uses the database is left when it is closed: no job runs, the
\* recorder has ended unless its deadline passed, and no request is served
\* unless Shutdown gave up on it, and then the process ends.
DatabaseClosesLast ==
    phase \in {"database", "restore", "backup", "unqueue", "start"} =>
        /\ \A r \in Runs, j \in Jobs : loop[r][j] \notin {"select", "execute"}
        /\ phase = "database" => closer = "late" \/ (worker = "done" /\ attempted = accepted)
        /\ NoRequests \/ (phase = "database" /\ overdue /\ ~restarting)

\* "Creating a private snapshot records a bounded, validated request and
\* performs the existing offline backup operation between application
\* lifecycles" (docs/ARCHITECTURE.md): a snapshot promised with 202 exists, or
\* its failure has been recorded, or its request waits for the next start,
\* crashes included.
PromisedBackupSettled ==
    \A b \in accepted202 : b \in snapshots \cup failed \/ request = b

\* "Web restore retains the active administrator credential" (docs/
\* ARCHITECTURE.md): the next lifetime uses the credential of the last
\* acknowledged password change.
CredentialRetained ==
    promised = IF marker = None THEN credential ELSE marker

\* A backup, a restore or a password change that was answered is followed by
\* a new lifetime that serves, or the process ends: no request for a restart
\* is forgotten, and no shutdown hangs.
RestartCompletes ==
    \A r \in Runs \ {Cardinality(Runs)} :
        life = r /\ "ready" \in {admin, change} ~> phase = "exited" \/ (life > r /\ Serving)

=============================================================================
