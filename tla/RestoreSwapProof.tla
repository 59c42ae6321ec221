-------------------------- MODULE RestoreSwapProof --------------------------
(***************************************************************************)
(* Proofs about RestoreSwap, for any set of work names and any number of   *)
(* crashes.  With one server, no command while a restore is recorded and   *)
(* no crash inside the removal of the work directory, the recorded restore *)
(* is swapped in atomically and the database is never lost; a `backup`     *)
(* command that had opened the database before may still have it open.     *)
(* What remains true with commands at any time, and with other servers, is *)
(* at the end.                                                             *)
(***************************************************************************)
EXTENDS RestoreSwap, TLAPS

\* The conditions the atomic swap needs: no command starts while a restore is
\* recorded, there is one server, and no crash falls in the cleanup.
Disciplined ==
    /\ ~CrashInCleanup
    /\ ~MaintenanceDuringRestore
    /\ \A p, q \in Servers : p = q

-----------------------------------------------------------------------------
(* The inductive invariant.                                                *)

Holding == Location \ {"begin", "lock", "open"}

\* The lock is held exactly where the code holds it.
LockInv ==
    /\ \A p \in Servers : pc[p] \in Holding <=> lock = p
    /\ \A t \in Tools : tool[t] = "locked" <=> lock = t

\* What a server knows about the marker at each point of its loop.
MarkerInv ==
    \A p \in Servers :
        /\ pc[p] \in Swapping => marker # None /\ pend[p] = marker
        /\ pc[p] \in {"open", "serving", "preparing", "prepared"} => marker = None
        /\ pc[p] \in {"preparing", "prepared"} =>
              pend[p] \in used /\ work[pend[p]] = {"dir"}
        /\ pc[p] = "prepared" => cand[pend[p]]["db"] = pend[p]

\* Which files exist outside the swap in progress.
FilesInv ==
    /\ marker \in used \cup {None}
    /\ \A w \in Works : cand[w]["wal"] = None /\ cand[w]["db"] \in {None, w}
    /\ \A w \in Works : w # marker => roll[w]["db"] = None /\ roll[w]["wal"] = None
    /\ \A w \in Works \ used : work[w] = {} /\ cand[w]["db"] = None
    /\ data["db"] # Fresh
    /\ marker = None => data["db"] # None

\* The stages of the swap of work w, as the disk shows them after a crash.
Before(w) ==
    /\ work[w] = {"dir"}
    /\ cand[w]["db"] = w
    /\ data["db"] = None <=> roll[w]["db"] # None
    /\ roll[w]["db"] # Fresh
    /\ \A p \in Servers :
          /\ pc[p] \notin {"moveNew", "renameNew", "cleanup", "unmark"}
          /\ pc[p] = "moveOld" /\ idx[p] \in {2, 3} => data["db"] = None
          /\ pc[p] = "renameOld" /\ idx[p] = 1 => data["db"] # None
          /\ pc[p] = "renameOld" /\ idx[p] # 1 => idx[p] = 2 /\ data["db"] = None

Between(w) ==
    /\ work[w] = {"dir", "old-moved"}
    /\ roll[w]["db"] \notin {None, Fresh}
    /\ \/ cand[w]["db"] = w /\ data["db"] = None
       \/ cand[w]["db"] = None /\ data["db"] = w
    /\ \A p \in Servers :
          /\ pc[p] \notin {"moveOld", "renameOld", "cleanup", "unmark"}
          /\ pc[p] = "moveNew" /\ idx[p] \in {2, 3} => cand[w]["db"] = None
          /\ pc[p] = "renameNew" => idx[p] = 1 /\ cand[w]["db"] = w

Installed(w) ==
    /\ data["db"] = w
    /\ cand[w]["db"] = None

After(w) ==
    /\ work[w] = {"dir", "old-moved", "new-moved"}
    /\ Installed(w)
    /\ \A p \in Servers : pc[p] \notin {"moveOld", "renameOld", "moveNew", "renameNew", "unmark"}

Cleaning(w) ==
    /\ Installed(w)
    /\ \E p \in Servers : pc[p] = "cleanup"

Gone(w) ==
    /\ work[w] = {}
    /\ Installed(w)
    /\ roll[w]["db"] = None /\ roll[w]["wal"] = None
    /\ \A p \in Servers : pc[p] \notin {"moveOld", "renameOld", "moveNew", "renameNew", "cleanup"}

StageInv ==
    marker # None =>
        Before(marker) \/ Between(marker) \/ After(marker) \/ Cleaning(marker) \/ Gone(marker)

IInv == TypeOK /\ LockInv /\ MarkerInv /\ FilesInv /\ StageInv

-----------------------------------------------------------------------------
(* Type correctness; it needs no discipline.                               *)

\* One step of any process keeps every variable in its type.
LEMMA TypeStep ==
    ASSUME TypeOK, [Next]_vars
    PROVE  TypeOK'
<1> USE RestoreSwapAssumption DEF Files, Generation, Names, Tools, Location, Swapping, Running, commands
<1> USE DEF TypeOK
<1>1. ASSUME NEW p \in Servers, ReadState(p) PROVE TypeOK'
  BY <1>1 DEF ReadState, files
<1>2. ASSUME NEW p \in Servers, AcquireForRestore(p) PROVE TypeOK'
  BY <1>2 DEF AcquireForRestore, Exit, files
<1>3. ASSUME NEW p \in Servers, Inspect(p) PROVE TypeOK'
  BY <1>3 DEF Inspect, files
<1>4. ASSUME NEW p \in Servers, MoveOld(p) PROVE TypeOK'
  BY <1>4 DEF MoveOld, Exit, files
<1>5. ASSUME NEW p \in Servers, MarkOldMoved(p) PROVE TypeOK'
  BY <1>5 DEF MarkOldMoved, files
<1>6. ASSUME NEW p \in Servers, MoveNew(p) PROVE TypeOK'
  BY <1>6 DEF MoveNew, Exit, files
<1>7. ASSUME NEW p \in Servers, MarkNewMoved(p) PROVE TypeOK'
  BY <1>7 DEF MarkNewMoved, files
<1>8. ASSUME NEW p \in Servers, RemoveEntry(p) PROVE TypeOK'
  BY <1>8 DEF RemoveEntry
<1>9. ASSUME NEW p \in Servers, RemoveMarker(p) PROVE TypeOK'
  BY <1>9 DEF RemoveMarker, Exit, files
<1>10. ASSUME NEW p \in Servers, OpenDatabase(p) PROVE TypeOK'
  BY <1>10 DEF OpenDatabase, InWALMode, Opened, Exit
<1>11. ASSUME NEW p \in Servers, PrepareBegin(p) PROVE TypeOK'
  BY <1>11 DEF PrepareBegin, files
<1>12. ASSUME NEW p \in Servers, PrepareCandidate(p) PROVE TypeOK'
  BY <1>12 DEF PrepareCandidate
<1>13. ASSUME NEW p \in Servers, PrepareFail(p) PROVE TypeOK'
  BY <1>13 DEF PrepareFail, NoFiles
<1>14. ASSUME NEW p \in Servers, WriteState(p) PROVE TypeOK'
  BY <1>14 DEF WriteState, files
<1>15. ASSUME NEW p \in Servers, Stop(p) PROVE TypeOK'
  BY <1>15 DEF Stop, Closed, Exit
<1>16. ASSUME NEW p \in Servers, Crash(p) PROVE TypeOK'
  BY <1>16 DEF Crash, Exit, files
<1>17. CASE CheckStart
  BY <1>17 DEF CheckStart, InWALMode, Opened
<1>18. CASE CheckEnd
  BY <1>18 DEF CheckEnd, Closed
<1>19. CASE BackupOpen
  BY <1>19 DEF BackupOpen, Opened
<1>20. CASE BackupAccess
  BY <1>20 DEF BackupAccess
<1>21. CASE BackupClose
  BY <1>21 DEF BackupClose
<1>22. CASE BackupLock
  BY <1>22 DEF BackupLock, files
<1>23. CASE BackupEnd
  BY <1>23 DEF BackupEnd, files
<1>24. ASSUME NEW t \in Tools, CommandDies(t) PROVE TypeOK'
  BY <1>24 DEF CommandDies, files
<1>25. ASSUME NEW p \in Servers, RenameOld(p) PROVE TypeOK'
  <2>1. CASE data[managedNames[idx[p]]] = None
    BY <1>25, <2>1 DEF RenameOld, Exit
  <2>2. CASE data[managedNames[idx[p]]] # None
    BY <1>25, <2>2 DEF RenameOld, Renamed, managedNames
  <2>3. QED
    BY <2>1, <2>2
<1>26. ASSUME NEW p \in Servers, RenameNew(p) PROVE TypeOK'
  BY <1>26 DEF RenameNew, Renamed, managedNames
<1>27. CASE UNCHANGED vars
  BY <1>27 DEF vars
<1>28. QED
  BY <1>1, <1>2, <1>3, <1>4, <1>5, <1>6, <1>7, <1>8, <1>9, <1>10, <1>11, <1>12, <1>13, <1>14,
     <1>15, <1>16, <1>17, <1>18, <1>19, <1>20, <1>21, <1>22, <1>23, <1>24, <1>25, <1>26, <1>27
     DEF Next, ApplyPending, Prepare

\* TypeOK is inductive: every step of ApplyPending, of prepareDirectory and of
\* the commands keeps every variable in its type, and a server that works on
\* a restore keeps a work name.
THEOREM TypeCorrect == Spec => []TypeOK
<1>1. Init => TypeOK
  BY RestoreSwapAssumption
     DEF Init, TypeOK, NoFiles, Files, Generation, Names, Tools, Location, Swapping, Running
<1>2. TypeOK /\ [Next]_vars => TypeOK'
  BY TypeStep
<1>3. QED
  BY <1>1, <1>2, PTL DEF Spec
-----------------------------------------------------------------------------
(* The safety of the swap.                                                 *)

LEMMA InitInductive == Init => IInv
  BY RestoreSwapAssumption
     DEF Init, IInv, TypeOK, LockInv, MarkerInv, FilesInv, StageInv, Files, Generation,
         Names, Tools, Location, Swapping, Running, Holding, NoFiles

\* One step of any process preserves the inductive invariant.
LEMMA StepInductive ==
    ASSUME Disciplined, IInv, [Next]_vars, TypeOK'
    PROVE  IInv'
<1> USE RestoreSwapAssumption
    DEF Disciplined, TypeOK, LockInv, MarkerInv, FilesInv, StageInv, Files, Generation,
        Names, Tools, Location, Swapping, Running, commands, Holding, Before, Between, After, Cleaning, Gone, Installed
<1> USE DEF IInv
<1>1. ASSUME NEW p \in Servers, ReadState(p) PROVE IInv'
  BY <1>1 DEF ReadState, files
<1>2. ASSUME NEW p \in Servers, AcquireForRestore(p) PROVE IInv'
  BY <1>2 DEF AcquireForRestore, Exit, files
<1>3. ASSUME NEW p \in Servers, Inspect(p) PROVE IInv'
  <2>1. LockInv' /\ MarkerInv' /\ FilesInv'
    BY <1>3 DEF Inspect, files
  <2>2. marker # None /\ pend[p] = marker /\ \A q \in Servers : q = p
    BY <1>3 DEF Inspect
  <2>3. /\ \A q \in Servers : idx'[q] = 1
        /\ pc'[p] = IF work[marker] = {} THEN "unmark"
                    ELSE IF "old-moved" \notin work[marker] THEN "moveOld"
                    ELSE IF "new-moved" \notin work[marker] THEN "moveNew"
                    ELSE "cleanup"
    BY <1>3, <2>2 DEF Inspect
  <2>4. UNCHANGED <<marker, work, data, cand, roll>>
    BY <1>3 DEF Inspect, files
  <2>5. Before(marker) \/ Between(marker) \/ After(marker) \/ Gone(marker)
    BY <1>3, <2>2 DEF Inspect
  <2>6. CASE Before(marker)
    <3>1. Before(marker)'
      BY <2>2, <2>3, <2>4, <2>6
    <3>2. QED
      BY <2>1, <3>1
  <2>7. CASE Between(marker)
    <3>1. Between(marker)'
      BY <2>2, <2>3, <2>4, <2>7
    <3>2. QED
      BY <2>1, <3>1
  <2>8. CASE After(marker)
    <3>1. After(marker)'
      BY <2>2, <2>3, <2>4, <2>8
    <3>2. QED
      BY <2>1, <3>1
  <2>9. CASE Gone(marker)
    <3>1. Gone(marker)'
      BY <2>2, <2>3, <2>4, <2>9
    <3>2. QED
      BY <2>1, <3>1
  <2>10. QED
    BY <2>5, <2>6, <2>7, <2>8, <2>9
<1>4. ASSUME NEW p \in Servers, MoveOld(p) PROVE IInv'
  <2>1. LockInv' /\ MarkerInv' /\ FilesInv'
    BY <1>4 DEF MoveOld, Exit, files
  <2>2. StageInv'
    <3>1. CASE idx[p] = 1
      BY <1>4, <3>1 DEF MoveOld, managedNames, Exit, files
    <3>2. CASE idx[p] = 2
      BY <1>4, <3>2 DEF MoveOld, managedNames, Exit, files
    <3>3. QED
      BY <1>4, <3>1, <3>2 DEF MoveOld
  <2>3. QED
    BY <2>1, <2>2
<1>5. ASSUME NEW p \in Servers, MarkOldMoved(p) PROVE IInv'
  BY <1>5 DEF MarkOldMoved, files
<1>6. ASSUME NEW p \in Servers, MoveNew(p) PROVE IInv'
  <2>1. LockInv' /\ MarkerInv' /\ FilesInv'
    BY <1>6 DEF MoveNew, Exit, files
  <2>2. Between(marker) /\ pend[p] = marker /\ marker \in Works
    BY <1>6 DEF MoveNew
  <2>3. UNCHANGED <<marker, work, data, cand, roll>>
    BY <1>6 DEF MoveNew, files
  <2>4. CASE idx[p] = 1
    BY <1>6, <2>1, <2>2, <2>3, <2>4 DEF MoveNew, managedNames, Exit
  <2>5. CASE idx[p] = 2
    BY <1>6, <2>1, <2>2, <2>3, <2>5 DEF MoveNew, managedNames, Exit
  <2>6. QED
    BY <1>6, <2>4, <2>5 DEF MoveNew
<1>7. ASSUME NEW p \in Servers, MarkNewMoved(p) PROVE IInv'
  BY <1>7 DEF MarkNewMoved, files
<1>8. ASSUME NEW p \in Servers, RemoveEntry(p) PROVE IInv'
  <2>1. LockInv' /\ MarkerInv'
    BY <1>8 DEF RemoveEntry
  <2>2. FilesInv'
    BY <1>8 DEF RemoveEntry
  <2>3. pend[p] = marker /\ marker \in Works /\ Installed(marker) /\ Installed(marker)' /\ marker' = marker
    BY <1>8 DEF RemoveEntry
  <2>4. CASE pc' = pc
    BY <1>8, <2>1, <2>2, <2>3, <2>4 DEF RemoveEntry
  <2>5. CASE pc' # pc
    <3>1. Gone(marker)'
      BY <1>8, <2>3, <2>5 DEF RemoveEntry, NoFiles
    <3>2. QED
      BY <2>1, <2>2, <2>3, <3>1
  <2>6. QED
    BY <2>4, <2>5
<1>9. ASSUME NEW p \in Servers, RemoveMarker(p) PROVE IInv'
  BY <1>9 DEF RemoveMarker, Exit, files
<1>10. ASSUME NEW p \in Servers, OpenDatabase(p) PROVE IInv'
  BY <1>10 DEF OpenDatabase, InWALMode, Opened, Exit
<1>11. ASSUME NEW p \in Servers, PrepareBegin(p) PROVE IInv'
  BY <1>11 DEF PrepareBegin, files
<1>12. ASSUME NEW p \in Servers, PrepareCandidate(p) PROVE IInv'
  BY <1>12 DEF PrepareCandidate
<1>13. ASSUME NEW p \in Servers, PrepareFail(p) PROVE IInv'
  BY <1>13 DEF PrepareFail, NoFiles
<1>14. ASSUME NEW p \in Servers, WriteState(p) PROVE IInv'
  BY <1>14 DEF WriteState, files
<1>15. ASSUME NEW p \in Servers, Stop(p) PROVE IInv'
  BY <1>15 DEF Stop, Closed, Exit
<1>16. ASSUME NEW p \in Servers, Crash(p) PROVE IInv'
  BY <1>16 DEF Crash, Exit, files
<1>17. CASE CheckStart
  BY <1>17 DEF CheckStart, Maintenance, InWALMode, Opened
<1>18. CASE CheckEnd
  BY <1>18 DEF CheckEnd, Closed
<1>19. CASE BackupOpen
  BY <1>19 DEF BackupOpen, Maintenance, Opened
<1>20. CASE BackupAccess
  BY <1>20 DEF BackupAccess
<1>21. CASE BackupClose
  BY <1>21 DEF BackupClose
<1>22. CASE BackupLock
  BY <1>22 DEF BackupLock, files
<1>23. CASE BackupEnd
  BY <1>23 DEF BackupEnd, files
<1>24. ASSUME NEW t \in Tools, CommandDies(t) PROVE IInv'
  BY <1>24 DEF CommandDies, files
<1>25. ASSUME NEW p \in Servers, RenameOld(p) PROVE IInv'
  <2>1. LockInv' /\ MarkerInv'
    BY <1>25 DEF RenameOld, Renamed, Exit
  <2>2. Before(marker) /\ pend[p] = marker /\ marker \in Works /\ idx[p] \in {1, 2}
    BY <1>25 DEF RenameOld
  <2>3. CASE idx[p] = 1
    BY <1>25, <2>1, <2>2, <2>3 DEF RenameOld, Renamed, managedNames
  <2>4. CASE idx[p] = 2
    BY <1>25, <2>1, <2>2, <2>4 DEF RenameOld, Renamed, managedNames, Exit
  <2>5. QED
    BY <2>2, <2>3, <2>4
<1>26. ASSUME NEW p \in Servers, RenameNew(p) PROVE IInv'
  <2>1. LockInv' /\ MarkerInv'
    BY <1>26 DEF RenameNew, Renamed
  <2>2. Between(marker) /\ pend[p] = marker /\ marker \in Works /\ idx[p] = 1 /\ cand[marker]["db"] = marker
    BY <1>26 DEF RenameNew
  <2>3. /\ data' = [data EXCEPT !["db"] = marker]
        /\ cand' = [cand EXCEPT ![marker]["db"] = None]
        /\ UNCHANGED <<marker, used, work, roll>>
        /\ pc' = [pc EXCEPT ![p] = "moveNew"] /\ idx' = [idx EXCEPT ![p] = 2]
    <3>1. managedNames[idx[p]] = "db"
      BY <2>2 DEF managedNames
    <3>2. data' = [data EXCEPT !["db"] = marker] /\ cand' = [cand EXCEPT ![marker]["db"] = None]
      BY <1>26, <2>2, <3>1 DEF RenameNew
    <3>3. pc' = [pc EXCEPT ![p] = "moveNew"] /\ idx' = [idx EXCEPT ![p] = 2]
      BY <1>26, <2>2 DEF RenameNew, Renamed
    <3>4. QED
      BY <1>26, <3>2, <3>3 DEF RenameNew
  <2>4. FilesInv'
    BY <2>2, <2>3
  <2>5. Between(marker)'
    BY <2>2, <2>3
  <2>6. QED
    BY <2>1, <2>4, <2>5
<1>27. CASE UNCHANGED vars
  BY <1>27 DEF vars
<1>28. QED
  BY <1>1, <1>2, <1>3, <1>4, <1>5, <1>6, <1>7, <1>8, <1>9, <1>10, <1>11, <1>12, <1>13, <1>14,
     <1>15, <1>16, <1>17, <1>18, <1>19, <1>20, <1>21, <1>22, <1>23, <1>24, <1>25, <1>26, <1>27
     DEF Next, ApplyPending, Prepare

\* Under the discipline every reachable state satisfies the invariant.
LEMMA SwapInvariant ==
    ASSUME Disciplined
    PROVE  Spec => []IInv
<1>1. Init => IInv
  BY InitInductive
<1>2. IInv /\ [Next]_vars /\ TypeOK' => IInv'
  BY StepInductive
<1>3. QED
  BY <1>1, <1>2, TypeCorrect, PTL DEF Spec

\* The database survives any number of crashes of the swap: it is in the data
\* directory or in the rollback directory of the recorded restore, and no
\* start or command replaces it by an empty one.
THEOREM DatabaseNeverLost ==
    ASSUME Disciplined
    PROVE  Spec => []NeverLost
<1>1. IInv => NeverLost
  BY RestoreSwapAssumption
     DEF IInv, TypeOK, FilesInv, StageInv, NeverLost, Before, Between, After, Cleaning,
         Gone, Installed
<1>2. QED
  BY <1>1, SwapInvariant, PTL

-----------------------------------------------------------------------------
(* The swap implements AtomicRestore.                                      *)

InstalledNow ==
    IF data["db"] # None THEN data["db"]
    ELSE IF marker # None THEN roll[marker]["db"]
    ELSE None
PendingNow == IF marker # None THEN cand[marker]["db"] ELSE None

\* A step of the swap is a Record, an Install, or invisible from outside.
LEMMA StepRefines ==
    ASSUME Disciplined, IInv, IInv', [Next]_vars
    PROVE  [Swap!Next]_(Swap!vars)
<1> USE RestoreSwapAssumption
    DEF IInv, Disciplined, TypeOK, MarkerInv, FilesInv, StageInv, Files, Generation,
        Names, Before, Between, After, Cleaning, Gone, Installed, Swapping,
        InstalledNow, PendingNow
<1> DEFINE Same == UNCHANGED <<InstalledNow, PendingNow>>
<1> DEFINE Recorded == PendingNow = None /\ PendingNow' \in Works /\ UNCHANGED InstalledNow
<1> DEFINE Swapped == PendingNow \in Works /\ InstalledNow' = PendingNow /\ PendingNow' = None
<1> SUFFICES Same \/ Recorded \/ Swapped
  BY DEF Swap!Next, Swap!Record, Swap!Install, Swap!vars
<1>1. ASSUME NEW p \in Servers, ReadState(p) PROVE Same
  BY <1>1 DEF ReadState, files
<1>2. ASSUME NEW p \in Servers, AcquireForRestore(p) PROVE Same
  BY <1>2 DEF AcquireForRestore, Exit, files
<1>3. ASSUME NEW p \in Servers, Inspect(p) PROVE Same
  BY <1>3 DEF Inspect, files
<1>4. ASSUME NEW p \in Servers, MoveOld(p) PROVE Same
  BY <1>4 DEF MoveOld, files
<1>5. ASSUME NEW p \in Servers, MarkOldMoved(p) PROVE Same
  BY <1>5 DEF MarkOldMoved, files
<1>6. ASSUME NEW p \in Servers, MoveNew(p) PROVE Same
  BY <1>6 DEF MoveNew, files
<1>7. ASSUME NEW p \in Servers, MarkNewMoved(p) PROVE Same
  BY <1>7 DEF MarkNewMoved, files
<1>8. ASSUME NEW p \in Servers, RemoveEntry(p) PROVE Same
  BY <1>8 DEF RemoveEntry, NoFiles
<1>9. ASSUME NEW p \in Servers, RemoveMarker(p) PROVE Same
  BY <1>9 DEF RemoveMarker, Exit, files
<1>10. ASSUME NEW p \in Servers, OpenDatabase(p) PROVE Same
  BY <1>10 DEF OpenDatabase, InWALMode, Opened, Exit
<1>11. ASSUME NEW p \in Servers, PrepareBegin(p) PROVE Same
  BY <1>11 DEF PrepareBegin, files
<1>12. ASSUME NEW p \in Servers, PrepareCandidate(p) PROVE Same
  BY <1>12 DEF PrepareCandidate
<1>13. ASSUME NEW p \in Servers, PrepareFail(p) PROVE Same
  BY <1>13 DEF PrepareFail, NoFiles
<1>14. ASSUME NEW p \in Servers, WriteState(p) PROVE Recorded
  BY <1>14 DEF WriteState, files
<1>15. ASSUME NEW p \in Servers, Stop(p) PROVE Same
  BY <1>15 DEF Stop, Closed, Exit
<1>16. ASSUME NEW p \in Servers, Crash(p) PROVE Same
  BY <1>16 DEF Crash, Exit, files
<1>17. ASSUME CheckStart PROVE Same
  BY <1>17 DEF CheckStart, Maintenance, InWALMode, Opened
<1>18. ASSUME CheckEnd PROVE Same
  BY <1>18 DEF CheckEnd, Closed
<1>19. ASSUME BackupOpen PROVE Same
  BY <1>19 DEF BackupOpen, Maintenance, Opened
<1>20. ASSUME BackupAccess PROVE Same
  BY <1>20 DEF BackupAccess
<1>21. ASSUME BackupClose PROVE Same
  BY <1>21 DEF BackupClose
<1>22. ASSUME BackupLock PROVE Same
  BY <1>22 DEF BackupLock, files
<1>23. ASSUME BackupEnd PROVE Same
  BY <1>23 DEF BackupEnd, files
<1>24. ASSUME NEW t \in Tools, CommandDies(t) PROVE Same
  BY <1>24 DEF CommandDies, files
<1>25. ASSUME NEW p \in Servers, RenameOld(p) PROVE Same
  <2>1. Before(marker) /\ pend[p] = marker /\ marker \in Works /\ idx[p] \in {1, 2}
    BY <1>25 DEF RenameOld
  <2>2. CASE idx[p] = 1
    BY <1>25, <2>1, <2>2 DEF RenameOld, managedNames
  <2>3. CASE idx[p] = 2
    BY <1>25, <2>1, <2>3 DEF RenameOld, managedNames
  <2>4. QED
    BY <2>1, <2>2, <2>3
<1>26. ASSUME NEW p \in Servers, RenameNew(p) PROVE Swapped
  <2>1. Between(marker) /\ pend[p] = marker /\ marker \in Works /\ idx[p] = 1 /\ cand[marker]["db"] = marker
    BY <1>26 DEF RenameNew
  <2>2. data' = [data EXCEPT !["db"] = marker] /\ cand' = [cand EXCEPT ![marker]["db"] = None] /\ marker' = marker
    <3>1. managedNames[idx[p]] = "db"
      BY <2>1 DEF managedNames
    <3>2. cand' = [cand EXCEPT ![marker]["db"] = None] /\ marker' = marker
      BY <1>26, <2>1, <3>1 DEF RenameNew
    <3>3. data' = [data EXCEPT !["db"] = marker]
      <4>1. data' = [data EXCEPT !["db"] = cand[pend[p]]["db"]]
        BY <1>26, <3>1 DEF RenameNew
      <4>2. QED
        BY <2>1, <4>1
    <3>4. QED
      BY <3>2, <3>3
  <2>3. QED
    BY <2>1, <2>2
<1>27. ASSUME UNCHANGED vars PROVE Same
  BY <1>27 DEF vars
<1>28. QED
  BY <1>1, <1>2, <1>3, <1>4, <1>5, <1>6, <1>7, <1>8, <1>9, <1>10, <1>11, <1>12, <1>13, <1>14,
     <1>15, <1>16, <1>17, <1>18, <1>19, <1>20, <1>21, <1>22, <1>23, <1>24, <1>25, <1>26, <1>27
     DEF Next, ApplyPending, Prepare

\* Seen from outside, the file-by-file swap with its crashes is AtomicRestore:
\* a recorded restore is installed in one step, and nothing else changes the
\* database the server continues from.
THEOREM SwapRefinesAtomicRestore ==
    ASSUME Disciplined
    PROVE  Spec => SwapIsAtomic
<1>1. Init => Swap!Init
  BY RestoreSwapAssumption DEF Init, Names, Swap!Init
<1>2. IInv /\ IInv' /\ [Next]_vars => [Swap!Next]_(Swap!vars)
  BY StepRefines
<1>3. QED
  BY <1>1, <1>2, SwapInvariant, PTL DEF Spec, SwapIsAtomic, Swap!Spec
-----------------------------------------------------------------------------
(* What holds whatever the commands do, for one server and any number of   *)
(* restores, or for one restore and any number of servers.  With more of   *)
(* both, a server that read the marker of a finished restore before it     *)
(* took the lock may take a later restore for its own.                     *)

Alone == (\A p, q \in Servers : p = q) \/ (\A v, w \in Works : v = w)

\* Who is past the lock holds it; nothing is said of the other holders.
Holds == \A p \in Servers : pc[p] \in Holding => lock = p

\* What a server knows from the marker is true, or the restore it read of is
\* finished; the phase files are those of the recorded restore, and a server
\* that moves files is in the phase they tell.
ReaderInv ==
    /\ marker \in used \cup {None}
    /\ \A w \in Works \ used : work[w] = {} /\ cand[w]["db"] = None
    /\ \A w \in Works : cand[w]["wal"] = None
    /\ \A w \in Works : work[w] \cap {"old-moved", "new-moved"} # {} => w = marker
    /\ (\A p, q \in Servers : p = q) => \A p \in Servers : pc[p] = "open" => marker = None
    /\ \A p \in Servers :
          /\ pc[p] \in Swapping =>
                /\ pend[p] \in used
                /\ \/ marker = pend[p]
                   \/ marker = None /\ work[pend[p]] = {} /\ pc[p] \in {"lock", "inspect", "unmark"}
          /\ pc[p] \in {"preparing", "prepared"} =>
                marker = None /\ pend[p] \in used /\ work[pend[p]] = {"dir"}
          /\ pc[p] \in {"moveOld", "renameOld"} => "old-moved" \notin work[pend[p]]
          /\ pc[p] \in {"moveNew", "renameNew"} => "old-moved" \in work[pend[p]]
          /\ pc[p] = "renameNew" => idx[p] = 1 /\ cand[pend[p]]["db"] # None
          /\ pc[p] = "unmark" => work[pend[p]] = {}

\* A WAL without its database is gone before the candidate moves in, and the
\* database the `backup` command has open is where it opened it.
WALInv ==
    /\ held # None => data["db"] = held
    /\ data["db"] \notin {None, Fresh} => data["wal"] \in {None, data["db"]}
    /\ \A w \in Works :
          "old-moved" \in work[w] /\ data["db"] = None /\ cand[w]["db"] # None => data["wal"] = None
    /\ \A p \in Servers :
          /\ pc[p] = "moveOld" /\ idx[p] = 3 /\ data["db"] = None => data["wal"] = None
          /\ pc[p] = "renameNew" => data["db"] = None

\* The candidate is in its place, or its database is and will not be moved
\* aside again: a phase file, the missing work directory, or the server that
\* is removing it says so.
KeepInv ==
    /\ \A w \in Works :
          /\ cand[w]["db"] \in {None, w}
          /\ "new-moved" \in work[w] => cand[w]["db"] = None
    /\ \A p \in Servers :
          /\ pc[p] = "prepared" => cand[pend[p]]["db"] = pend[p]
          /\ pc[p] \in {"moveOld", "renameOld"} => cand[pend[p]]["db"] # None
          /\ pc[p] = "moveNew" /\ idx[p] \in {2, 3} => cand[pend[p]]["db"] = None
          /\ pc[p] = "cleanup" => cand[pend[p]]["db"] = None
    /\ marker # None /\ cand[marker]["db"] = None =>
          /\ data["db"] = marker
          /\ \/ "old-moved" \in work[marker]
             \/ work[marker] = {}
             \/ \E p \in Servers : pc[p] = "cleanup"

\* Every step takes the lock where it is free, or leaves it with its holder.
LEMMA LockStep ==
    ASSUME TypeOK, LockInv, [Next]_vars
    PROVE  LockInv'
<1> USE RestoreSwapAssumption DEF Names, Tools, Location, Swapping, Running, commands, Holding
<1> USE DEF TypeOK, LockInv
<1>1. ASSUME NEW p \in Servers, ReadState(p) PROVE LockInv'
  BY <1>1 DEF ReadState, files
<1>2. ASSUME NEW p \in Servers, AcquireForRestore(p) PROVE LockInv'
  BY <1>2 DEF AcquireForRestore, Exit, files
<1>3. ASSUME NEW p \in Servers, Inspect(p) PROVE LockInv'
  BY <1>3 DEF Inspect, files
<1>4. ASSUME NEW p \in Servers, MoveOld(p) PROVE LockInv'
  BY <1>4 DEF MoveOld, Exit, files
<1>5. ASSUME NEW p \in Servers, MarkOldMoved(p) PROVE LockInv'
  BY <1>5 DEF MarkOldMoved, files
<1>6. ASSUME NEW p \in Servers, MoveNew(p) PROVE LockInv'
  BY <1>6 DEF MoveNew, Exit, files
<1>7. ASSUME NEW p \in Servers, MarkNewMoved(p) PROVE LockInv'
  BY <1>7 DEF MarkNewMoved, files
<1>8. ASSUME NEW p \in Servers, RemoveEntry(p) PROVE LockInv'
  BY <1>8 DEF RemoveEntry
<1>9. ASSUME NEW p \in Servers, RemoveMarker(p) PROVE LockInv'
  BY <1>9 DEF RemoveMarker, Exit, files
<1>10. ASSUME NEW p \in Servers, OpenDatabase(p) PROVE LockInv'
  BY <1>10 DEF OpenDatabase, InWALMode, Opened, Exit
<1>11. ASSUME NEW p \in Servers, PrepareBegin(p) PROVE LockInv'
  BY <1>11 DEF PrepareBegin, files
<1>12. ASSUME NEW p \in Servers, PrepareCandidate(p) PROVE LockInv'
  BY <1>12 DEF PrepareCandidate
<1>13. ASSUME NEW p \in Servers, PrepareFail(p) PROVE LockInv'
  BY <1>13 DEF PrepareFail, NoFiles
<1>14. ASSUME NEW p \in Servers, WriteState(p) PROVE LockInv'
  BY <1>14 DEF WriteState, files
<1>15. ASSUME NEW p \in Servers, Stop(p) PROVE LockInv'
  BY <1>15 DEF Stop, Closed, Exit
<1>16. ASSUME NEW p \in Servers, Crash(p) PROVE LockInv'
  BY <1>16 DEF Crash, Exit, files
<1>17. CASE CheckStart
  BY <1>17 DEF CheckStart, InWALMode, Opened
<1>18. CASE CheckEnd
  BY <1>18 DEF CheckEnd, Closed
<1>19. CASE BackupOpen
  BY <1>19 DEF BackupOpen, Opened
<1>20. CASE BackupAccess
  BY <1>20 DEF BackupAccess
<1>21. CASE BackupClose
  BY <1>21 DEF BackupClose
<1>22. CASE BackupLock
  BY <1>22 DEF BackupLock, files
<1>23. CASE BackupEnd
  BY <1>23 DEF BackupEnd, files
<1>24. ASSUME NEW t \in Tools, CommandDies(t) PROVE LockInv'
  BY <1>24 DEF CommandDies, files
<1>25. ASSUME NEW p \in Servers, RenameOld(p) PROVE LockInv'
  BY <1>25 DEF RenameOld, Renamed, managedNames, Exit
<1>26. ASSUME NEW p \in Servers, RenameNew(p) PROVE LockInv'
  BY <1>26 DEF RenameNew, Renamed, managedNames
<1>27. CASE UNCHANGED vars
  BY <1>27 DEF vars
<1> HIDE DEF TypeOK, LockInv
<1>28. QED
  BY <1>1, <1>2, <1>3, <1>4, <1>5, <1>6, <1>7, <1>8, <1>9, <1>10, <1>11, <1>12, <1>13, <1>14,
     <1>15, <1>16, <1>17, <1>18, <1>19, <1>20, <1>21, <1>22, <1>23, <1>24, <1>25, <1>26, <1>27
     DEF Next, ApplyPending, Prepare

\* No step makes a stale reading of the marker look like a true one.
LEMMA ReaderStep ==
    ASSUME Alone, TypeOK, TypeOK', Holds, Holds', ReaderInv, [Next]_vars
    PROVE  ReaderInv'
<1> USE RestoreSwapAssumption DEF Files, Generation, Names, Tools, Location, Swapping, Running, commands, Holding
<1> USE DEF TypeOK, Holds, ReaderInv, Alone
<1>1. ASSUME NEW p \in Servers, ReadState(p) PROVE ReaderInv'
  BY <1>1 DEF ReadState, files
<1>2. ASSUME NEW p \in Servers, AcquireForRestore(p) PROVE ReaderInv'
  BY <1>2 DEF AcquireForRestore, Exit, files
<1>3. ASSUME NEW p \in Servers, Inspect(p) PROVE ReaderInv'
  BY <1>3 DEF Inspect, files
<1>4. ASSUME NEW p \in Servers, MoveOld(p) PROVE ReaderInv'
  BY <1>4 DEF MoveOld, Exit, files
<1>5. ASSUME NEW p \in Servers, MarkOldMoved(p) PROVE ReaderInv'
  BY <1>5 DEF MarkOldMoved, files
<1>6. ASSUME NEW p \in Servers, MoveNew(p) PROVE ReaderInv'
  <2>1. CASE idx[p] = 1
    BY <1>6, <2>1 DEF MoveNew, managedNames, Exit, files
  <2>2. CASE idx[p] = 2
    BY <1>6, <2>2 DEF MoveNew, managedNames, Exit, files
  <2>3. QED
    BY <1>6, <2>1, <2>2 DEF MoveNew
<1>7. ASSUME NEW p \in Servers, MarkNewMoved(p) PROVE ReaderInv'
  BY <1>7 DEF MarkNewMoved, files
<1>8. ASSUME NEW p \in Servers, RemoveEntry(p) PROVE ReaderInv'
  BY <1>8 DEF RemoveEntry
<1>9. ASSUME NEW p \in Servers, RemoveMarker(p) PROVE ReaderInv'
  BY <1>9 DEF RemoveMarker, Exit, files
<1>10. ASSUME NEW p \in Servers, OpenDatabase(p) PROVE ReaderInv'
  BY <1>10 DEF OpenDatabase, InWALMode, Opened, Exit
<1>11. ASSUME NEW p \in Servers, PrepareBegin(p) PROVE ReaderInv'
  BY <1>11 DEF PrepareBegin, files
<1>12. ASSUME NEW p \in Servers, PrepareCandidate(p) PROVE ReaderInv'
  BY <1>12 DEF PrepareCandidate
<1>13. ASSUME NEW p \in Servers, PrepareFail(p) PROVE ReaderInv'
  BY <1>13 DEF PrepareFail, NoFiles
<1>14. ASSUME NEW p \in Servers, WriteState(p) PROVE ReaderInv'
  BY <1>14 DEF WriteState, files
<1>15. ASSUME NEW p \in Servers, Stop(p) PROVE ReaderInv'
  BY <1>15 DEF Stop, Closed, Exit
<1>16. ASSUME NEW p \in Servers, Crash(p) PROVE ReaderInv'
  BY <1>16 DEF Crash, Exit, files
<1>17. CASE CheckStart
  BY <1>17 DEF CheckStart, InWALMode, Opened
<1>18. CASE CheckEnd
  BY <1>18 DEF CheckEnd, Closed
<1>19. CASE BackupOpen
  BY <1>19 DEF BackupOpen, Opened
<1>20. CASE BackupAccess
  BY <1>20 DEF BackupAccess
<1>21. CASE BackupClose
  BY <1>21 DEF BackupClose
<1>22. CASE BackupLock
  BY <1>22 DEF BackupLock, files
<1>23. CASE BackupEnd
  BY <1>23 DEF BackupEnd, files
<1>24. ASSUME NEW t \in Tools, CommandDies(t) PROVE ReaderInv'
  BY <1>24 DEF CommandDies, files
<1>25. ASSUME NEW p \in Servers, RenameOld(p) PROVE ReaderInv'
  <2>1. CASE idx[p] = 1
    BY <1>25, <2>1 DEF RenameOld, Renamed, managedNames, Exit
  <2>2. CASE idx[p] = 2
    BY <1>25, <2>2 DEF RenameOld, Renamed, managedNames, Exit
  <2>3. QED
    BY <1>25, <2>1, <2>2 DEF RenameOld
<1>26. ASSUME NEW p \in Servers, RenameNew(p) PROVE ReaderInv'
  <2>1. /\ idx[p] = 1 /\ pend[p] = marker /\ marker \in Works /\ cand[marker]["db"] # None
        /\ "old-moved" \in work[marker]
    BY <1>26 DEF RenameNew
  <2>2. /\ data' = [data EXCEPT !["db"] = cand[marker]["db"]]
        /\ cand' = [cand EXCEPT ![marker]["db"] = None]
        /\ UNCHANGED <<marker, used, work, roll, lock, pend, commands>>
        /\ pc' = [pc EXCEPT ![p] = "moveNew"] /\ idx' = [idx EXCEPT ![p] = 2]
    BY <1>26, <2>1 DEF RenameNew, Renamed, managedNames
  <2>3. \A q \in Servers : q # p => pc[q] \notin Holding /\ pc'[q] = pc[q]
    BY <1>26, <2>2 DEF RenameNew
  <2>4. QED
    BY <1>26, <2>1, <2>2, <2>3 DEF RenameNew
<1>27. CASE UNCHANGED vars
  BY <1>27 DEF vars
<1> HIDE DEF TypeOK, Holds, ReaderInv, Alone
<1>28. QED
  BY <1>1, <1>2, <1>3, <1>4, <1>5, <1>6, <1>7, <1>8, <1>9, <1>10, <1>11, <1>12, <1>13, <1>14,
     <1>15, <1>16, <1>17, <1>18, <1>19, <1>20, <1>21, <1>22, <1>23, <1>24, <1>25, <1>26, <1>27
     DEF Next, ApplyPending, Prepare

\* No step brings a database beside a WAL that is not its own.
LEMMA WALStep ==
    ASSUME ~OpenDuringSwap, TypeOK, TypeOK', Holds, Holds', ReaderInv, ReaderInv', WALInv, [Next]_vars
    PROVE  WALInv'
<1> USE RestoreSwapAssumption DEF Files, Generation, Names, Tools, Location, Swapping, Running, commands, Holding
<1> USE DEF TypeOK, Holds, ReaderInv, WALInv, MayRename
<1>1. ASSUME NEW p \in Servers, ReadState(p) PROVE WALInv'
  BY <1>1 DEF ReadState, files
<1>2. ASSUME NEW p \in Servers, AcquireForRestore(p) PROVE WALInv'
  BY <1>2 DEF AcquireForRestore, Exit, files
<1>3. ASSUME NEW p \in Servers, Inspect(p) PROVE WALInv'
  BY <1>3 DEF Inspect, files
<1>4. ASSUME NEW p \in Servers, MoveOld(p) PROVE WALInv'
  <2>1. CASE idx[p] = 1
    BY <1>4, <2>1 DEF MoveOld, managedNames, Exit, files
  <2>2. CASE idx[p] = 2
    BY <1>4, <2>2 DEF MoveOld, managedNames, Exit, files
  <2>3. QED
    BY <1>4, <2>1, <2>2 DEF MoveOld
<1>5. ASSUME NEW p \in Servers, MarkOldMoved(p) PROVE WALInv'
  BY <1>5 DEF MarkOldMoved, files
<1>6. ASSUME NEW p \in Servers, MoveNew(p) PROVE WALInv'
  <2>1. CASE idx[p] = 1
    BY <1>6, <2>1 DEF MoveNew, managedNames, Exit, files
  <2>2. CASE idx[p] = 2
    BY <1>6, <2>2 DEF MoveNew, managedNames, Exit, files
  <2>3. QED
    BY <1>6, <2>1, <2>2 DEF MoveNew
<1>7. ASSUME NEW p \in Servers, MarkNewMoved(p) PROVE WALInv'
  BY <1>7 DEF MarkNewMoved, files
<1>8. ASSUME NEW p \in Servers, RemoveEntry(p) PROVE WALInv'
  <2>1. /\ UNCHANGED <<data, cand, idx, pend, held>>
        /\ \A w \in Works : work'[w] \subseteq work[w]
        /\ \A q \in Servers : q # p => pc[q] \notin Holding /\ pc'[q] = pc[q]
        /\ pc'[p] \in {"cleanup", "unmark"}
    <3>1. UNCHANGED <<data, cand, idx, pend, held>> /\ lock = p
      BY <1>8 DEF RemoveEntry
    <3>2. \A w \in Works : work'[w] \subseteq work[w]
      BY <1>8 DEF RemoveEntry
    <3>3. pc' = pc \/ pc' = [pc EXCEPT ![p] = "unmark"]
      BY <1>8 DEF RemoveEntry
    <3>4. pc[p] = "cleanup"
      BY <1>8 DEF RemoveEntry
    <3>5. QED
      BY <3>1, <3>2, <3>3, <3>4
  <2>2. QED
    BY <2>1
<1>9. ASSUME NEW p \in Servers, RemoveMarker(p) PROVE WALInv'
  BY <1>9 DEF RemoveMarker, Exit, files
<1>10. ASSUME NEW p \in Servers, OpenDatabase(p) PROVE WALInv'
  BY <1>10 DEF OpenDatabase, InWALMode, Opened, Exit
<1>11. ASSUME NEW p \in Servers, PrepareBegin(p) PROVE WALInv'
  BY <1>11 DEF PrepareBegin, files
<1>12. ASSUME NEW p \in Servers, PrepareCandidate(p) PROVE WALInv'
  BY <1>12 DEF PrepareCandidate
<1>13. ASSUME NEW p \in Servers, PrepareFail(p) PROVE WALInv'
  BY <1>13 DEF PrepareFail, NoFiles
<1>14. ASSUME NEW p \in Servers, WriteState(p) PROVE WALInv'
  BY <1>14 DEF WriteState, files
<1>15. ASSUME NEW p \in Servers, Stop(p) PROVE WALInv'
  BY <1>15 DEF Stop, Closed, Exit
<1>16. ASSUME NEW p \in Servers, Crash(p) PROVE WALInv'
  BY <1>16 DEF Crash, Exit, files
<1>17. CASE CheckStart
  BY <1>17 DEF CheckStart, InWALMode, Opened
<1>18. CASE CheckEnd
  BY <1>18 DEF CheckEnd, Closed
<1>19. CASE BackupOpen
  BY <1>19 DEF BackupOpen, Opened
<1>20. CASE BackupAccess
  BY <1>20 DEF BackupAccess
<1>21. CASE BackupClose
  BY <1>21 DEF BackupClose
<1>22. CASE BackupLock
  BY <1>22 DEF BackupLock, files
<1>23. CASE BackupEnd
  BY <1>23 DEF BackupEnd, files
<1>24. ASSUME NEW t \in Tools, CommandDies(t) PROVE WALInv'
  BY <1>24 DEF CommandDies, files
<1>25. ASSUME NEW p \in Servers, RenameOld(p) PROVE WALInv'
  <2>1. /\ pend[p] = marker /\ marker \in Works /\ "old-moved" \notin work[marker] /\ held = None
        /\ UNCHANGED <<work, cand, held>>
    <3>1. pc[p] = "renameOld" /\ held = None /\ UNCHANGED <<work, cand, held>>
      BY <1>25 DEF RenameOld
    <3>2. QED
      BY <3>1
  <2>2. \A q \in Servers : q # p => pc[q] \notin Holding /\ pc'[q] = pc[q]
    BY <1>25 DEF RenameOld, Renamed, Exit
  <2>3. CASE data[managedNames[idx[p]]] = None
    <3>1. data' = data /\ pc'[p] = "begin"
      BY <1>25, <2>3 DEF RenameOld, Exit
    <3>2. QED
      BY <2>1, <2>2, <3>1
  <2>4. CASE data[managedNames[idx[p]]] # None
    <3>1. /\ data' = [data EXCEPT ![managedNames[idx[p]]] = None] /\ managedNames[idx[p]] \in Names
          /\ pc'[p] = "moveOld" /\ idx'[p] = idx[p] + 1
      BY <1>25, <2>4 DEF RenameOld, Renamed, managedNames
    <3>2. idx'[p] = 3 => managedNames[idx[p]] = "wal"
      BY <1>25, <3>1 DEF RenameOld, managedNames
    <3>3. QED
      BY <2>1, <2>2, <3>1, <3>2
  <2>5. QED
    BY <2>3, <2>4
<1>26. ASSUME NEW p \in Servers, RenameNew(p) PROVE WALInv'
  <2>1. /\ idx[p] = 1 /\ pend[p] = marker /\ marker \in Works /\ cand[marker]["db"] # None
        /\ "old-moved" \in work[marker]
    BY <1>26 DEF RenameNew
  <2>2. /\ data' = [data EXCEPT !["db"] = cand[marker]["db"]]
        /\ cand' = [cand EXCEPT ![marker]["db"] = None]
        /\ UNCHANGED <<marker, used, work, roll, lock, pend, commands>>
        /\ pc' = [pc EXCEPT ![p] = "moveNew"] /\ idx' = [idx EXCEPT ![p] = 2]
    BY <1>26, <2>1 DEF RenameNew, Renamed, managedNames
  <2>3. \A q \in Servers : q # p => pc[q] \notin Holding /\ pc'[q] = pc[q]
    BY <1>26, <2>2 DEF RenameNew
  <2>4. QED
    BY <1>26, <2>1, <2>2, <2>3 DEF RenameNew
<1>27. CASE UNCHANGED vars
  BY <1>27 DEF vars
<1> HIDE DEF TypeOK, Holds, ReaderInv, WALInv
<1>28. QED
  BY <1>1, <1>2, <1>3, <1>4, <1>5, <1>6, <1>7, <1>8, <1>9, <1>10, <1>11, <1>12, <1>13, <1>14,
     <1>15, <1>16, <1>17, <1>18, <1>19, <1>20, <1>21, <1>22, <1>23, <1>24, <1>25, <1>26, <1>27
     DEF Next, ApplyPending, Prepare

\* No step loses the candidate before its database is installed, and none
\* moves the installed database aside.
LEMMA KeepStep ==
    ASSUME ~CrashInCleanup, TypeOK, TypeOK', Holds, Holds', ReaderInv, ReaderInv', KeepInv,
           [Next]_vars
    PROVE  KeepInv'
<1> USE RestoreSwapAssumption DEF Files, Generation, Names, Tools, Location, Swapping, Running, commands, Holding
<1> USE DEF TypeOK, Holds, ReaderInv, KeepInv
<1>1. ASSUME NEW p \in Servers, ReadState(p) PROVE KeepInv'
  BY <1>1 DEF ReadState, files
<1>2. ASSUME NEW p \in Servers, AcquireForRestore(p) PROVE KeepInv'
  BY <1>2 DEF AcquireForRestore, Exit, files
<1>3. ASSUME NEW p \in Servers, Inspect(p) PROVE KeepInv'
  BY <1>3 DEF Inspect, files
<1>4. ASSUME NEW p \in Servers, MoveOld(p) PROVE KeepInv'
  BY <1>4 DEF MoveOld, Exit, files
<1>5. ASSUME NEW p \in Servers, MarkOldMoved(p) PROVE KeepInv'
  BY <1>5 DEF MarkOldMoved, files
<1>6. ASSUME NEW p \in Servers, MoveNew(p) PROVE KeepInv'
  <2>1. CASE idx[p] = 1
    BY <1>6, <2>1 DEF MoveNew, managedNames, Exit, files
  <2>2. CASE idx[p] = 2
    BY <1>6, <2>2 DEF MoveNew, managedNames, Exit, files
  <2>3. QED
    BY <1>6, <2>1, <2>2 DEF MoveNew
<1>7. ASSUME NEW p \in Servers, MarkNewMoved(p) PROVE KeepInv'
  BY <1>7 DEF MarkNewMoved, files
<1>8. ASSUME NEW p \in Servers, RemoveEntry(p) PROVE KeepInv'
  BY <1>8 DEF RemoveEntry
<1>9. ASSUME NEW p \in Servers, RemoveMarker(p) PROVE KeepInv'
  BY <1>9 DEF RemoveMarker, Exit, files
<1>10. ASSUME NEW p \in Servers, OpenDatabase(p) PROVE KeepInv'
  BY <1>10 DEF OpenDatabase, InWALMode, Opened, Exit
<1>11. ASSUME NEW p \in Servers, PrepareBegin(p) PROVE KeepInv'
  BY <1>11 DEF PrepareBegin, files
<1>12. ASSUME NEW p \in Servers, PrepareCandidate(p) PROVE KeepInv'
  BY <1>12 DEF PrepareCandidate
<1>13. ASSUME NEW p \in Servers, PrepareFail(p) PROVE KeepInv'
  BY <1>13 DEF PrepareFail, NoFiles
<1>14. ASSUME NEW p \in Servers, WriteState(p) PROVE KeepInv'
  BY <1>14 DEF WriteState, files
<1>15. ASSUME NEW p \in Servers, Stop(p) PROVE KeepInv'
  BY <1>15 DEF Stop, Closed, Exit
<1>16. ASSUME NEW p \in Servers, Crash(p) PROVE KeepInv'
  BY <1>16 DEF Crash, Exit, files
<1>17. CASE CheckStart
  BY <1>17 DEF CheckStart, InWALMode, Opened
<1>18. CASE CheckEnd
  BY <1>18 DEF CheckEnd, Closed
<1>19. CASE BackupOpen
  BY <1>19 DEF BackupOpen, Opened
<1>20. CASE BackupAccess
  BY <1>20 DEF BackupAccess
<1>21. CASE BackupClose
  BY <1>21 DEF BackupClose
<1>22. CASE BackupLock
  BY <1>22 DEF BackupLock, files
<1>23. CASE BackupEnd
  BY <1>23 DEF BackupEnd, files
<1>24. ASSUME NEW t \in Tools, CommandDies(t) PROVE KeepInv'
  BY <1>24 DEF CommandDies, files
<1>25. ASSUME NEW p \in Servers, RenameOld(p) PROVE KeepInv'
  <2>1. CASE idx[p] = 1
    BY <1>25, <2>1 DEF RenameOld, Renamed, managedNames, Exit
  <2>2. CASE idx[p] = 2
    BY <1>25, <2>2 DEF RenameOld, Renamed, managedNames, Exit
  <2>3. QED
    BY <1>25, <2>1, <2>2 DEF RenameOld
<1>26. ASSUME NEW p \in Servers, RenameNew(p) PROVE KeepInv'
  <2>1. /\ idx[p] = 1 /\ pend[p] = marker /\ marker \in Works /\ cand[marker]["db"] # None
        /\ "old-moved" \in work[marker]
    BY <1>26 DEF RenameNew
  <2>2. /\ data' = [data EXCEPT !["db"] = cand[marker]["db"]]
        /\ cand' = [cand EXCEPT ![marker]["db"] = None]
        /\ UNCHANGED <<marker, used, work, roll, lock, pend, commands>>
        /\ pc' = [pc EXCEPT ![p] = "moveNew"] /\ idx' = [idx EXCEPT ![p] = 2]
    BY <1>26, <2>1 DEF RenameNew, Renamed, managedNames
  <2>3. \A q \in Servers : q # p => pc[q] \notin Holding /\ pc'[q] = pc[q]
    BY <1>26, <2>2 DEF RenameNew
  <2>4. QED
    BY <1>26, <2>1, <2>2, <2>3 DEF RenameNew
<1>27. CASE UNCHANGED vars
  BY <1>27 DEF vars
<1> HIDE DEF TypeOK, Holds, ReaderInv, KeepInv
<1>28. QED
  BY <1>1, <1>2, <1>3, <1>4, <1>5, <1>6, <1>7, <1>8, <1>9, <1>10, <1>11, <1>12, <1>13, <1>14,
     <1>15, <1>16, <1>17, <1>18, <1>19, <1>20, <1>21, <1>22, <1>23, <1>24, <1>25, <1>26, <1>27
     DEF Next, ApplyPending, Prepare

\* At the first start nothing is recorded and nobody holds the lock.
LEMMA InitAlone == Init => LockInv /\ ReaderInv /\ WALInv /\ KeepInv
  BY RestoreSwapAssumption
     DEF Init, LockInv, ReaderInv, WALInv, KeepInv, Files, Generation, Names, Tools, Location,
         Swapping, Holding, NoFiles

\* They hold in every reachable state, wherever a crash falls.
LEMMA AloneInvariant ==
    ASSUME Alone
    PROVE  Spec => [](TypeOK /\ Holds /\ ReaderInv)
<1>1. Init => LockInv /\ ReaderInv
  BY InitAlone
<1>2. LockInv => Holds
  BY DEF LockInv, Holds
<1>3. TypeOK /\ TypeOK' /\ LockInv /\ ReaderInv /\ [Next]_vars => LockInv' /\ ReaderInv'
  <2> SUFFICES ASSUME TypeOK, TypeOK', LockInv, ReaderInv, [Next]_vars
               PROVE  LockInv' /\ ReaderInv'
    OBVIOUS
  <2>1. LockInv'
    BY LockStep
  <2>2. Holds /\ Holds'
    BY <2>1 DEF LockInv, Holds
  <2>3. ReaderInv'
    BY <2>2, ReaderStep
  <2>4. QED
    BY <2>1, <2>3
<1>4. QED
  BY <1>1, <1>2, <1>3, TypeCorrect, PTL DEF Spec

\* No database is ever opened beside the WAL of another one, wherever the
\* swap is interrupted, and also when commands run between its steps, as long
\* as the `backup` command neither has the database open at a rename of the
\* swap nor opens it between a rename and its Lstat.  Nothing in the code sees
\* to that: the command opens the database without the lock, and a file moved
\* in between ends in a WAL of the old database beside the new one.
THEOREM DatabaseMatchesWAL ==
    ASSUME Alone, ~OpenDuringSwap
    PROVE  Spec => []OneGeneration
<1>1. Init => WALInv
  BY InitAlone
<1>2. TypeOK /\ TypeOK' /\ Holds /\ Holds' /\ ReaderInv /\ ReaderInv' /\ WALInv /\ [Next]_vars
        => WALInv'
  BY WALStep
<1>3. WALInv => OneGeneration
  BY DEF WALInv, OneGeneration
<1>4. QED
  BY <1>1, <1>2, <1>3, AloneInvariant, PTL DEF Spec

\* The only server never opens the database while a restore is recorded.
THEOREM OpensAfterSwap ==
    ASSUME \A p, q \in Servers : p = q
    PROVE  Spec => OpensOnlyAfterSwap
<1>1. Alone
  BY DEF Alone
<1>2. ReaderInv /\ [Next]_vars =>
        [\A p \in Servers : pc[p] = "open" /\ pc'[p] = "serving" => marker = None]_vars
  BY DEF ReaderInv
<1>3. QED
  BY <1>1, <1>2, AloneInvariant, PTL DEF Spec, OpensOnlyAfterSwap

\* The candidate of a recorded restore is kept until its database is
\* installed, although commands may make the swap fail; here the `backup`
\* command may have the database open across any number of its steps.
THEOREM CandidateSurvives ==
    ASSUME Alone, ~CrashInCleanup
    PROVE  Spec => []CandidateKept
<1>1. Init => KeepInv
  BY InitAlone
<1>2. TypeOK /\ TypeOK' /\ Holds /\ Holds' /\ ReaderInv /\ ReaderInv' /\ KeepInv /\ [Next]_vars
        => KeepInv'
  BY KeepStep
<1>3. TypeOK /\ KeepInv => CandidateKept
  BY DEF KeepInv, TypeOK, CandidateKept
<1>4. QED
  BY <1>1, <1>2, <1>3, AloneInvariant, PTL DEF Spec
=============================================================================
