---------------------------- MODULE RestoreSwap ----------------------------
(***************************************************************************)
(* The database swap of a web restore (internal/uirestore): a running      *)
(* server prepares a candidate database in a work directory and records it *)
(* in a marker file; the next start moves the old database aside, moves    *)
(* the candidate in, removes the work directory and then the marker.       *)
(*                                                                         *)
(* Every file operation of ApplyPending is a step of its own, so that a    *)
(* crash can fall between any two of them, and so that the commands        *)
(* `check` and `backup`, which also open the database, can run between     *)
(* them.  The `backup` command has no lock while it has the database open: *)
(* it opens the file, then the side files beside the name it opened, and   *)
(* closes them, and each of the three may fall between two steps of a      *)
(* swap or between the Lstat and the Rename of one move.  The data         *)
(* directory lock (internal/datalock) is modelled with its holder; the     *)
(* kernel drops it when the holder exits or crashes.                       *)
(*                                                                         *)
(* Abstractions: a database file is the generation it was created by (the  *)
(* original one, the one a restore installed, or a fresh empty one that    *)
(* opening a missing file creates); "wal" stands for the three side files  *)
(* of managedNames; the rollback and candidate directories are the files   *)
(* they hold, and nobody but the holder of the lock looks into them.       *)
(***************************************************************************)
EXTENDS Naturals, FiniteSets

CONSTANTS
    Servers,     \* the `serve` processes that may use the data directory
    Works,       \* the names MkdirTemp may give a work directory
    Original,    \* the database generation at the start
    Fresh,       \* an empty database, created by opening a missing file
    None,        \* absent file, free lock, no work directory
    MaxCrashes,  \* bound: how many crashes a behaviour may contain
    CrashInCleanup,           \* may a crash fall inside os.RemoveAll(work)?
    MaintenanceDuringRestore, \* are commands run while a restore is recorded?
    OpenDuringSwap   \* may the `backup` command have the database open at a rename
                     \* of the swap, or open it between that and its Lstat?

ASSUME RestoreSwapAssumption ==
    /\ Original \notin Works
    /\ Fresh \notin Works \cup {Original}
    /\ None \notin Works \cup {Original, Fresh} \cup Servers
    /\ Servers \cap {"check", "backup"} = {}
    /\ None \notin {"check", "backup"}
    /\ MaxCrashes \in Nat
    /\ CrashInCleanup \in BOOLEAN
    /\ MaintenanceDuringRestore \in BOOLEAN
    /\ OpenDuringSwap \in BOOLEAN

VARIABLES
    marker,   \* .kaven-restore.json: the recorded work name, or None
    used,     \* the work names MkdirTemp has given out
    work,     \* work name -> its directory ("dir") and the phase files in it
    data,     \* the managed files of the data directory
    cand,     \* work name -> the files of its candidate directory
    roll,     \* work name -> the files of its rollback directory
    lock,     \* the holder of .kaven-media.lock, or None
    pc,       \* server -> where its serve loop is
    pend,     \* server -> the work name it read from the marker or prepared
    idx,      \* server -> position in managedNames while it moves files
    tool,     \* maintenance command -> where it is
    held,     \* the database the `backup` command has open, or None
    crashes   \* how many crashes have happened

vars == <<marker, used, work, data, cand, roll, lock, pc, pend, idx, tool, held, crashes>>
files == <<data, cand, roll>>
commands == <<tool, held>>

managedNames == [i \in 1..2 |-> IF i = 1 THEN "db" ELSE "wal"]
Names == {"db", "wal"}
Generation == Works \cup {Original, Fresh}
Files == [Names -> Generation \cup {None}]
NoFiles == [n \in Names |-> None]
Tools == {"check", "backup"}
Swapping == {"lock", "inspect", "moveOld", "renameOld", "moveNew", "renameNew",
             "cleanup", "unmark"}
Running == {"serving", "preparing", "prepared", "recorded"}
Location == {"begin", "open"} \cup Swapping \cup Running

\* Every variable has its type, and a server that works on a restore knows
\* the work directory it works in (pending.Work is valid).
TypeOK ==
    /\ marker \in Works \cup {None}
    /\ used \subseteq Works
    /\ work \in [Works -> SUBSET {"dir", "old-moved", "new-moved"}]
    /\ data \in Files
    /\ cand \in [Works -> Files]
    /\ roll \in [Works -> Files]
    /\ lock \in Servers \cup Tools \cup {None}
    /\ pc \in [Servers -> Location]
    /\ pend \in [Servers -> Works \cup {None}]
    /\ idx \in [Servers -> 1..3]
    /\ tool \in [Tools -> {"idle", "file", "wal", "closed", "locked"}]
    /\ held \in Generation \cup {None}
    /\ crashes \in 0..MaxCrashes
    /\ \A p \in Servers :
          /\ pc[p] \in Swapping \cup {"preparing", "prepared"} => pend[p] \in Works
          /\ pc[p] \in {"renameOld", "renameNew"} => idx[p] \in 1..2

Init ==
    /\ marker = None
    /\ used = {}
    /\ work = [w \in Works |-> {}]
    /\ data = [n \in Names |-> IF n = "db" THEN Original ELSE None]
    /\ cand = [w \in Works |-> NoFiles]
    /\ roll = [w \in Works |-> NoFiles]
    /\ lock = None
    /\ pc = [p \in Servers |-> "begin"]
    /\ pend = [p \in Servers |-> None]
    /\ idx = [p \in Servers |-> 1]
    /\ tool = [t \in Tools |-> "idle"]
    /\ held = None
    /\ crashes = 0

-----------------------------------------------------------------------------
(* ApplyPending, called at the top of the serve loop.                      *)

\* The process exits with an error: the kernel releases its lock.
Exit(p) ==
    /\ pc' = [pc EXCEPT ![p] = "begin"]
    /\ pend' = [pend EXCEPT ![p] = None]
    /\ idx' = [idx EXCEPT ![p] = 1]
    /\ lock' = IF lock = p THEN None ELSE lock

\* readState runs before the lock is taken.
ReadState(p) ==
    /\ pc[p] = "begin"
    /\ pend' = [pend EXCEPT ![p] = marker]
    /\ pc' = [pc EXCEPT ![p] = IF marker = None THEN "open" ELSE "lock"]
    /\ UNCHANGED <<marker, used, work, files, lock, idx, commands, crashes>>

\* Mutant: a busy lock skips the restore instead of ending the start.
AcquireForRestoreSkips(p) ==
    /\ pc[p] = "lock"
    /\ \/ /\ lock = None
          /\ lock' = p
          /\ pc' = [pc EXCEPT ![p] = "inspect"]
          /\ UNCHANGED pend
       \/ /\ lock # None
          /\ pc' = [pc EXCEPT ![p] = "open"]
          /\ pend' = [pend EXCEPT ![p] = None]
          /\ UNCHANGED lock
    /\ UNCHANGED <<marker, used, work, files, idx, commands, crashes>>

\* Mutant: the swap runs without the data directory lock.
AcquireForRestoreUnlocked(p) ==
    /\ pc[p] = "lock"
    /\ pc' = [pc EXCEPT ![p] = "inspect"]
    /\ UNCHANGED <<marker, used, work, files, lock, pend, idx, commands, crashes>>

\* datalock.Acquire for the swap; it fails promptly when the lock is busy.
AcquireForRestore(p) ==
    /\ pc[p] = "lock"
    /\ \/ /\ lock = None
          /\ lock' = p
          /\ pc' = [pc EXCEPT ![p] = "inspect"]
          /\ UNCHANGED <<pend, idx>>
       \/ /\ lock # None  \* ErrBusy
          /\ Exit(p)
    /\ UNCHANGED <<marker, used, work, files, commands, crashes>>

\* The two Lstat calls that decide where to resume.
Inspect(p) ==
    LET phases == work[pend[p]] IN
    /\ pc[p] = "inspect"
    /\ pc' = [pc EXCEPT ![p] =
                 IF phases = {} THEN "unmark"
                 ELSE IF "old-moved" \notin phases THEN "moveOld"
                 ELSE IF "new-moved" \notin phases THEN "moveNew"
                 ELSE "cleanup"]
    /\ idx' = [idx EXCEPT ![p] = 1]
    /\ UNCHANGED <<marker, used, work, files, lock, pend, commands, crashes>>

\* Mutant: a source that is already gone is an error, so a swap that was
\* interrupted between two moves cannot be resumed.
MoveOldRequiresSource(p) ==
    LET n == managedNames[idx[p]] IN
    /\ pc[p] = "moveOld"
    /\ idx[p] \in 1..2
    /\ IF data[n] # None /\ roll[pend[p]][n] = None
       THEN pc' = [pc EXCEPT ![p] = "renameOld"] /\ UNCHANGED <<pend, idx, lock>>
       ELSE Exit(p)
    /\ UNCHANGED <<marker, used, work, files, commands, crashes>>

\* moveIfPresent from the data directory to the rollback directory: the two
\* Lstat calls.
MoveOld(p) ==
    LET n == managedNames[idx[p]] IN
    /\ pc[p] = "moveOld"
    /\ idx[p] \in 1..2
    /\ \/ /\ data[n] = None
          /\ idx' = [idx EXCEPT ![p] = idx[p] + 1]
          /\ UNCHANGED <<pc, pend, lock>>
       \/ /\ data[n] # None
          /\ roll[pend[p]][n] = None
          /\ pc' = [pc EXCEPT ![p] = "renameOld"]
          /\ UNCHANGED <<pend, idx, lock>>
       \/ /\ data[n] # None  \* restore destination already exists
          /\ roll[pend[p]][n] # None
          /\ Exit(p)
    /\ UNCHANGED <<marker, used, work, files, commands, crashes>>

\* OpenDuringSwap, here and in BackupOpen.
MayRename == OpenDuringSwap \/ held = None

Renamed(p, from) ==
    /\ pc' = [pc EXCEPT ![p] = from]
    /\ idx' = [idx EXCEPT ![p] = idx[p] + 1]
    /\ UNCHANGED <<pend, lock>>

\* Mutant: the old files are deleted instead of being moved to rollback.
RenameOldDiscards(p) ==
    /\ pc[p] = "renameOld"
    /\ MayRename
    /\ data' = [data EXCEPT ![managedNames[idx[p]]] = None]
    /\ Renamed(p, "moveOld")
    /\ UNCHANGED <<marker, used, work, cand, roll, commands, crashes>>

\* Its Rename; a side file may be gone since the command closed the database.
RenameOld(p) ==
    LET n == managedNames[idx[p]] IN
    /\ pc[p] = "renameOld"
    /\ MayRename
    /\ IF data[n] # None
       THEN /\ roll' = [roll EXCEPT ![pend[p]][n] = data[n]]
            /\ data' = [data EXCEPT ![n] = None]
            /\ Renamed(p, "moveOld")
       ELSE Exit(p) /\ UNCHANGED <<data, roll>>
    /\ UNCHANGED <<marker, used, work, cand, commands, crashes>>

\* Mutant: the phase is recorded after the database, before its side files.
MarkOldMovedEarly(p) ==
    /\ pc[p] = "moveOld"
    /\ idx[p] = 2
    /\ work' = [work EXCEPT ![pend[p]] = @ \cup {"old-moved"}]
    /\ pc' = [pc EXCEPT ![p] = "moveNew"]
    /\ idx' = [idx EXCEPT ![p] = 1]
    /\ UNCHANGED <<marker, used, files, lock, pend, commands, crashes>>

\* writePhase(oldMoved), then the Lstat of new-moved.
MarkOldMoved(p) ==
    LET w == pend[p] IN
    /\ pc[p] = "moveOld"
    /\ idx[p] = 3
    /\ work' = [work EXCEPT ![w] = @ \cup {"old-moved"}]
    /\ pc' = [pc EXCEPT ![p] = IF "new-moved" \in work[w] THEN "cleanup" ELSE "moveNew"]
    /\ idx' = [idx EXCEPT ![p] = 1]
    /\ UNCHANGED <<marker, used, files, lock, pend, commands, crashes>>

\* moveIfPresent from the candidate directory to the data directory: the two
\* Lstat calls.
MoveNew(p) ==
    LET n == managedNames[idx[p]] IN
    /\ pc[p] = "moveNew"
    /\ idx[p] \in 1..2
    /\ \/ /\ cand[pend[p]][n] = None
          /\ idx' = [idx EXCEPT ![p] = idx[p] + 1]
          /\ UNCHANGED <<pc, pend, lock>>
       \/ /\ cand[pend[p]][n] # None
          /\ data[n] = None
          /\ pc' = [pc EXCEPT ![p] = "renameNew"]
          /\ UNCHANGED <<pend, idx, lock>>
       \/ /\ cand[pend[p]][n] # None  \* restore destination already exists
          /\ data[n] # None
          /\ Exit(p)
    /\ UNCHANGED <<marker, used, work, files, commands, crashes>>

\* Its Rename, which replaces a file created since.
RenameNew(p) ==
    LET w == pend[p]
        n == managedNames[idx[p]] IN
    /\ pc[p] = "renameNew"
    /\ MayRename
    /\ data' = [data EXCEPT ![n] = cand[w][n]]
    /\ cand' = [cand EXCEPT ![w][n] = None]
    /\ Renamed(p, "moveNew")
    /\ UNCHANGED <<marker, used, work, roll, commands, crashes>>

\* writePhase(newMoved).
MarkNewMoved(p) ==
    /\ pc[p] = "moveNew"
    /\ idx[p] = 3
    /\ work' = [work EXCEPT ![pend[p]] = @ \cup {"new-moved"}]
    /\ pc' = [pc EXCEPT ![p] = "cleanup"]
    /\ idx' = [idx EXCEPT ![p] = 1]
    /\ UNCHANGED <<marker, used, files, lock, pend, commands, crashes>>

\* os.RemoveAll(work) removes one entry at a time, in directory order, which
\* is unspecified; the directory itself goes last.  The candidate directory
\* is empty by then.
RemoveEntry(p) ==
    LET w == pend[p] IN
    /\ pc[p] = "cleanup"
    /\ \/ \E ph \in work[w] \ {"dir"} :
             /\ work' = [work EXCEPT ![w] = @ \ {ph}]
             /\ UNCHANGED <<roll, pc>>
       \/ \E n \in Names :
             /\ roll[w][n] # None
             /\ roll' = [roll EXCEPT ![w][n] = None]
             /\ UNCHANGED <<work, pc>>
       \/ /\ work[w] \subseteq {"dir"}
          /\ roll[w] = NoFiles
          /\ work' = [work EXCEPT ![w] = {}]
          /\ pc' = [pc EXCEPT ![p] = "unmark"]
          /\ UNCHANGED roll
    /\ UNCHANGED <<marker, used, data, cand, lock, pend, idx, commands, crashes>>

\* os.Remove(marker) fails when another process removed it first.
RemoveMarker(p) ==
    /\ pc[p] = "unmark"
    /\ \/ /\ marker # None
          /\ marker' = None
          /\ pc' = [pc EXCEPT ![p] = "open"]
          /\ pend' = [pend EXCEPT ![p] = None]
          /\ lock' = None
          /\ UNCHANGED idx
       \/ /\ marker = None
          /\ Exit(p)
          /\ UNCHANGED marker
    /\ UNCHANGED <<used, work, files, commands, crashes>>

-----------------------------------------------------------------------------
(* app.Run, as far as the swap is concerned.                               *)

\* database.Open on a data directory: a missing file is created.
Opened(d) == IF d["db"] = None THEN Fresh ELSE d["db"]

\* Its statements put it in WAL mode.  SQLite removes a WAL it finds beside an
\* empty database.
InWALMode(d) ==
    [n \in Names |-> IF n = "db" \/ d["wal"] = None \/ Opened(d) = Fresh
                     THEN Opened(d)
                     ELSE d["wal"]]

\* The `backup` command is connected to the database in the data directory.
CommandConnected == tool["backup"] = "wal" /\ held = data["db"]

\* The last connection to close the database takes its WAL away.
Closed == IF CommandConnected THEN data ELSE [data EXCEPT !["wal"] = None]

\* app.Run takes the lock, opens the database and puts it in WAL mode.
OpenDatabase(p) ==
    /\ pc[p] = "open"
    /\ \/ /\ lock = None
          /\ lock' = p
          /\ data' = InWALMode(data)
          /\ pc' = [pc EXCEPT ![p] = "serving"]
          /\ UNCHANGED <<pend, idx>>
       \/ /\ lock # None  \* ErrBusy
          /\ Exit(p)
          /\ UNCHANGED data
    /\ UNCHANGED <<marker, used, work, cand, roll, commands, crashes>>

\* prepareDirectory: no marker may exist, then MkdirTemp.
PrepareBegin(p) ==
    /\ pc[p] = "serving"
    /\ marker = None
    /\ \E w \in Works \ used :
          /\ used' = used \cup {w}
          /\ work' = [work EXCEPT ![w] = {"dir"}]
          /\ pend' = [pend EXCEPT ![p] = w]
    /\ pc' = [pc EXCEPT ![p] = "preparing"]
    /\ UNCHANGED <<marker, files, lock, idx, commands, crashes>>

\* backup.Restore and configureCandidate build and close the candidate.
PrepareCandidate(p) ==
    /\ pc[p] = "preparing"
    /\ cand' = [cand EXCEPT ![pend[p]]["db"] = pend[p]]
    /\ pc' = [pc EXCEPT ![p] = "prepared"]
    /\ UNCHANGED <<marker, used, work, data, roll, lock, pend, idx, commands, crashes>>

\* Any error before the marker is published removes the work directory.
PrepareFail(p) ==
    /\ pc[p] \in {"preparing", "prepared"}
    /\ work' = [work EXCEPT ![pend[p]] = {}]
    /\ cand' = [cand EXCEPT ![pend[p]] = NoFiles]
    /\ pc' = [pc EXCEPT ![p] = "serving"]
    /\ pend' = [pend EXCEPT ![p] = None]
    /\ UNCHANGED <<marker, used, data, roll, lock, idx, commands, crashes>>

\* Mutant: the marker is published before the candidate is complete.
WriteStateEarly(p) ==
    /\ pc[p] \in {"preparing", "prepared"}
    /\ marker' = pend[p]
    /\ pc' = [pc EXCEPT ![p] = "recorded"]
    /\ pend' = [pend EXCEPT ![p] = None]
    /\ UNCHANGED <<used, work, files, lock, idx, commands, crashes>>

\* writeState renames the synced marker into place; the handler then asks
\* for a restart and accepts no further restore.
WriteState(p) ==
    /\ pc[p] = "prepared"
    /\ marker' = pend[p]
    /\ pc' = [pc EXCEPT ![p] = "recorded"]
    /\ pend' = [pend EXCEPT ![p] = None]
    /\ UNCHANGED <<used, work, files, lock, idx, commands, crashes>>

\* app.Run returns: the database is closed, the lock released, and the serve
\* loop starts over or the process ends.
Stop(p) ==
    /\ pc[p] \in {"serving", "recorded"}
    /\ data' = Closed
    /\ Exit(p)
    /\ UNCHANGED <<marker, used, work, cand, roll, commands, crashes>>

Crash(p) ==
    /\ crashes < MaxCrashes
    /\ pc[p] # "begin"
    /\ CrashInCleanup \/ pc[p] # "cleanup"
    /\ crashes' = crashes + 1
    /\ Exit(p)
    /\ UNCHANGED <<marker, used, work, files, commands>>

-----------------------------------------------------------------------------
(* The maintenance commands of cmd/kaven-media.                            *)

Maintenance == MaintenanceDuringRestore \/ marker = None

\* A process with the lock has the database open.
DatabaseOpen == tool["check"] = "locked" \/ \E p \in Servers : pc[p] \in Running

\* runCheck: the lock first, then database.Open.
CheckStart ==
    /\ Maintenance
    /\ tool["check"] = "idle"
    /\ lock = None
    /\ lock' = "check"
    /\ tool' = [tool EXCEPT !["check"] = "locked"]
    /\ data' = InWALMode(data)
    /\ UNCHANGED <<marker, used, work, cand, roll, pc, pend, idx, held, crashes>>

\* The deferred db.Close and lock.Close.
CheckEnd ==
    /\ tool["check"] = "locked"
    /\ lock' = None
    /\ tool' = [tool EXCEPT !["check"] = "idle"]
    /\ data' = Closed
    /\ UNCHANGED <<marker, used, work, cand, roll, pc, pend, idx, held, crashes>>

\* runBackup calls database.Open with no lock held: the connection opens the
\* database file, and creates it when it is missing.
BackupOpen ==
    /\ Maintenance
    /\ OpenDuringSwap \/ \A p \in Servers : pc[p] \notin {"renameOld", "renameNew"}
    /\ tool["backup"] = "idle"
    /\ tool' = [tool EXCEPT !["backup"] = "file"]
    /\ held' = Opened(data)
    /\ data' = [data EXCEPT !["db"] = Opened(data)]
    /\ UNCHANGED <<marker, used, work, cand, roll, lock, pc, pend, idx, crashes>>

\* The statements of database.Open: the WAL is opened by its name, whatever
\* has become of the database file, and created when it is missing.  A WAL of
\* another database is written into, or removed for an empty one.
BackupAccess ==
    /\ tool["backup"] = "file"
    /\ tool' = [tool EXCEPT !["backup"] = "wal"]
    /\ \/ data' = [data EXCEPT !["wal"] = held]
       \/ held # Fresh /\ data["wal"] # None /\ UNCHANGED data
    /\ UNCHANGED <<marker, used, work, cand, roll, lock, pc, pend, idx, held, crashes>>

\* db.Close.  A database that was moved keeps its WAL, and so does one that
\* another process has open.  An error before it ends the command.
BackupClose ==
    /\ tool["backup"] = "wal"
    /\ \E next \in {"closed", "idle"} : tool' = [tool EXCEPT !["backup"] = next]
    /\ held' = None
    /\ data' = IF CommandConnected /\ ~DatabaseOpen THEN [data EXCEPT !["wal"] = None] ELSE data
    /\ UNCHANGED <<marker, used, work, cand, roll, lock, pc, pend, idx, crashes>>

\* backup.Create takes the lock, or fails when it is busy.
BackupLock ==
    /\ tool["backup"] = "closed"
    /\ \/ /\ lock = None
          /\ lock' = "backup"
          /\ tool' = [tool EXCEPT !["backup"] = "locked"]
       \/ /\ lock # None
          /\ tool' = [tool EXCEPT !["backup"] = "idle"]
          /\ UNCHANGED lock
    /\ UNCHANGED <<marker, used, work, files, pc, pend, idx, held, crashes>>

\* The command ends and its lock goes with it.
BackupEnd ==
    /\ tool["backup"] = "locked"
    /\ lock' = None
    /\ tool' = [tool EXCEPT !["backup"] = "idle"]
    /\ UNCHANGED <<marker, used, work, files, pc, pend, idx, held, crashes>>

\* A command is killed while it has the database open; the WAL stays.
CommandDies(t) ==
    /\ crashes < MaxCrashes
    /\ tool[t] \in IF t = "check" THEN {"locked"} ELSE {"file", "wal"}
    /\ crashes' = crashes + 1
    /\ tool' = [tool EXCEPT ![t] = "idle"]
    /\ lock' = IF lock = t THEN None ELSE lock
    /\ held' = IF t = "backup" THEN None ELSE held
    /\ UNCHANGED <<marker, used, work, files, pc, pend, idx>>

-----------------------------------------------------------------------------
ApplyPending(p) ==
    \/ ReadState(p) \/ AcquireForRestore(p) \/ Inspect(p)
    \/ MoveOld(p) \/ RenameOld(p) \/ MarkOldMoved(p)
    \/ MoveNew(p) \/ RenameNew(p) \/ MarkNewMoved(p)
    \/ RemoveEntry(p) \/ RemoveMarker(p)

Prepare(p) ==
    PrepareBegin(p) \/ PrepareCandidate(p) \/ PrepareFail(p) \/ WriteState(p)

Next ==
    \/ \E p \in Servers :
          ApplyPending(p) \/ OpenDatabase(p) \/ Prepare(p) \/ Stop(p) \/ Crash(p)
    \/ CheckStart \/ CheckEnd
    \/ BackupOpen \/ BackupAccess \/ BackupClose \/ BackupLock \/ BackupEnd
    \/ \E t \in Tools : CommandDies(t)

Spec == Init /\ [][Next]_vars

\* A supervisor restarts the server, a started step finishes, a recorded
\* restore ends in the requested restart, and commands end.
Fairness ==
    /\ \A p \in Servers :
          /\ WF_vars(ApplyPending(p))
          /\ WF_vars(OpenDatabase(p))
          /\ WF_vars(pc[p] = "recorded" /\ Stop(p))
    /\ WF_vars(CheckEnd)
    /\ WF_vars(BackupAccess \/ BackupClose \/ BackupEnd)

FairSpec == Spec /\ Fairness

-----------------------------------------------------------------------------
(* Properties.                                                             *)

\* At every instant the database is either in the data directory or in the
\* rollback directory the recorded restore will be resumed with, and no start
\* or command ever found it missing and put an empty one in its place.
NeverLost ==
    /\ data["db"] # Fresh
    /\ data["db"] = None => marker \in Works /\ roll[marker]["db"] \notin {None, Fresh}

\* A database never lies beside the WAL of another one: opening it would
\* replay foreign pages into it (an empty database has no use for a WAL).
\* Nothing in the code keeps the `backup` command from having the old database
\* open while the swap moves it, and from then creating its WAL by name beside
\* the candidate; OpenDuringSwap = FALSE leaves that out.
OneGeneration ==
    data["db"] \notin {None, Fresh} => data["wal"] \in {None, data["db"]}

\* A recorded restore is never thrown away: until its database is in the data
\* directory the candidate stays where the swap will look for it, even when a
\* command got in between and the swap can only fail.
CandidateKept ==
    marker # None => marker \in {cand[marker]["db"], data["db"]}

\* ApplyPending comes before the server opens its data: no server opens the
\* database while a restore is recorded, or the changes made from then on
\* would be thrown away by the swap.
OpensOnlyAfterSwap ==
    [][\A p \in Servers : pc[p] = "open" /\ pc'[p] = "serving" => marker = None]_vars

\* Seen from outside the swap is atomic: its commit point is the move of the
\* candidate database into the data directory.
Swap == INSTANCE AtomicRestore WITH
    installed <- IF data["db"] # None THEN data["db"]
                 ELSE IF marker # None THEN roll[marker]["db"]
                 ELSE None,
    pending <- IF marker # None THEN cand[marker]["db"] ELSE None

\* The file-by-file swap, with its crashes, implements AtomicRestore.
SwapIsAtomic == Swap!Spec

\* A recorded restore is installed, however often the process crashes on the
\* way: the phase files make the swap resumable.
RecordedIsInstalled ==
    \A w \in Works : (marker = w) ~> (data["db"] = w)
=============================================================================
