---------------------------- MODULE BackupProof ----------------------------
(***************************************************************************)
(* Proofs about Backup, for any number of servers, snapshots, transactions *)
(* and crashes: a published snapshot is the state of the database at the   *)
(* instant it is published.  The argument: while a caller copies, it holds *)
(* the lock, so that no server has the database open and no swap moves its *)
(* files; only the `backup` command, which opens it without the lock, can  *)
(* get in between, and it merges the WAL, after which the copy of the WAL  *)
(* cannot begin.  That the WAL beside the database is its own is           *)
(* OneGeneration, and the refinement has its hypotheses.                   *)
(***************************************************************************)
EXTENDS Backup, RestoreSwapProof

-----------------------------------------------------------------------------
(* The inductive invariant.                                                *)

Copying == {"copy", "copying", "validate", "publish"}

\* Who has the database open, or moves its files, holds the lock.
HolderInv ==
    /\ \A p \in Servers : pc[p] \in Holding => lock = p
    /\ tool["check"] = "locked" => lock = "check"
    /\ tool["backup"] \in {"file", "wal"} <=> held # None

\* A server that has the database open has it with its WAL, and a database
\* without a WAL holds every transaction.
MergedInv ==
    /\ \A p \in Servers : pc[p] \in Running => data["db"] # None /\ data["wal"] # None
    /\ data["db"] # None /\ data["wal"] = None => merged = committed

\* The last transaction of a copy: the last of the database, or that of an
\* older release, which the validation will refuse.
Faithful(tx) == tx \in {0, committed}

\* What the staging directory holds at each step of the copy.
StagedAt(a) ==
    /\ step[a] \in Copying => data["db"] # None
    /\ step[a] \in {"copy", "copying"} =>
          /\ todo # {}
          /\ copied["wal"] = None
          /\ "wal" \notin todo => Faithful(merged)
    /\ step[a] = "copying" =>
          /\ reading \in Content
          /\ todo # Names => Faithful(reading.tx)
    /\ step[a] \in {"copy", "copying", "validate"} /\ "db" \notin todo =>
          copied["db"] \in Content /\ copied["db"].gen = data["db"]
    /\ step[a] = "validate" =>
          IF copied["wal"] # None
          THEN copied["wal"] \in Content /\ Faithful(copied["wal"].tx)
          ELSE Faithful(copied["db"].tx)
    /\ step[a] = "validate" => todo = {}

CopyInv == \A a \in Callers : StagedAt(a)

BackupInv == BackupTypeOK /\ HolderInv /\ MergedInv /\ CopyInv

-----------------------------------------------------------------------------
(* Every step preserves it.                                                *)

LEMMA BackupInitial == BackupInit => BackupInv
<1> SUFFICES ASSUME BackupInit PROVE BackupInv
  OBVIOUS
<1> USE RestoreSwapAssumption, BackupAssumption
<1>1. TypeOK
  BY DEF BackupInit, Init, TypeOK, NoFiles, Files, Generation, Names, Tools, Location, Swapping, Running
<1>2. BackupTypeOK
  BY <1>1 DEF BackupInit, BackupTypeOK, CallerOK, Init, NoStage, NoFiles, Names, Callers, Locked, Tools
<1>3. HolderInv /\ MergedInv /\ CopyInv
  BY DEF BackupInit, Init, HolderInv, MergedInv, CopyInv, StagedAt, Holding, Copying, Callers, Tools, Names, Running
<1>4. QED
  BY <1>2, <1>3 DEF BackupInv

\* A server outside the start of its loop has no backup, and while it or a
\* command holds the lock nobody copies.
LEMMA NobodyCopies ==
    ASSUME BackupInv, NEW h \in Servers \cup {"check"}, lock = h, h = "check" \/ pc[h] # "open"
    PROVE  \A a \in Callers : step[a] \notin Locked
  BY RestoreSwapAssumption DEF BackupInv, BackupTypeOK, CallerOK, Callers, Locked

\* A step of the swap, of a restore or of a stop leaves every backup alone.
LEMMA SwapLeavesBackups ==
    ASSUME BackupInv, NEW p \in Servers, pc[p] # "open", Forget(p),
           \A q \in Servers \ {p} : pc'[q] = pc[q], tool' = tool,
           lock' = lock \/ lock = p \/ lock = None
    PROVE  /\ UNCHANGED <<step, stage>>
           /\ step[p] = "look"
           /\ target' \in [Callers -> Snaps \cup {None}]
           /\ \A a \in Callers : CallerOK(a)'
<1> USE RestoreSwapAssumption, BackupAssumption DEF Callers
<1>1. step[p] = "look" /\ step[p] \notin Locked /\ step \in [Callers -> {"look", "lock", "unqueue", "start"} \cup Locked]
  BY DEF BackupInv, BackupTypeOK, CallerOK, Locked
<1>2. UNCHANGED <<step, stage>> /\ target' \in [Callers -> Snaps \cup {None}]
      /\ \A a \in Callers \ {p} : target'[a] = target[a]
  BY <1>1 DEF Forget, BackupInv, BackupTypeOK
<1>3. ASSUME NEW a \in Callers PROVE CallerOK(a)'
  <2>1. CASE a = p
    BY <1>1, <1>2, <2>1 DEF CallerOK, Locked
  <2>2. CASE a # p
    <3>1. CallerOK(a) /\ target'[a] = target[a] /\ step'[a] = step[a] /\ tool' = tool
      BY <1>2, <2>2 DEF BackupInv, BackupTypeOK
    <3>2. a # "backup" => pc'[a] = pc[a]
      BY <2>2
    <3>3. step[a] \in Locked => lock' = a
      BY <2>2, <3>1 DEF CallerOK, Locked
    <3>4. QED
      BY <3>1, <3>2, <3>3 DEF CallerOK
  <2>3. QED
    BY <2>1, <2>2
<1>4. QED
  BY <1>1, <1>2, <1>3

\* Only the holder of the lock copies.
LEMMA OnlyHolderCopies ==
    ASSUME BackupInv, NEW a \in Callers, lock = a
    PROVE  \A b \in Callers \ {a} : step[b] \notin Locked
  BY DEF BackupInv, BackupTypeOK, CallerOK

\* A copy that goes on leaves everything else alone.
LEMMA CopyingStep ==
    ASSUME BackupInv, NEW a \in Callers, step[a] \in Locked, NEW next \in Locked,
           Advance(a, next), UNCHANGED <<vars, txVars, request, snapshots, target>>,
           todo' \subseteq Names, reading' \in Content \cup {None},
           copied' \in [Names -> Content \cup {None, Torn}], StagedAt(a)'
    PROVE  BackupInv'
<1>1. UNCHANGED TypeOK /\ UNCHANGED HolderInv /\ UNCHANGED MergedInv
  BY DEF vars, txVars, TypeOK, HolderInv, MergedInv
<1>2. step' = [step EXCEPT ![a] = next] /\ step' \in [Callers -> {"look", "lock", "unqueue", "start"} \cup Locked]
  BY DEF Advance, BackupInv, BackupTypeOK
<1>3. lock = a /\ CallerOK(a)
  BY DEF BackupInv, BackupTypeOK, CallerOK
<1>4. CallerOK(a)'
  BY <1>2, <1>3 DEF CallerOK, vars, BackupInv, BackupTypeOK, Locked
<1>5. ASSUME NEW b \in Callers \ {a} PROVE CallerOK(b)' /\ StagedAt(b)'
  <2>1. step'[b] = step[b] /\ step[b] \notin Locked /\ CallerOK(b)
    BY <1>2, <1>3, OnlyHolderCopies DEF BackupInv, BackupTypeOK
  <2>2. CallerOK(b)'
    BY <2>1 DEF CallerOK, vars
  <2>3. StagedAt(b)'
    BY <2>1 DEF StagedAt, Locked, Copying
  <2>4. QED
    BY <2>2, <2>3
<1>6. BackupTypeOK'
  BY <1>1, <1>2, <1>4, <1>5 DEF BackupInv, BackupTypeOK, txVars
<1>7. CopyInv'
  BY <1>5 DEF CopyInv
<1>8. QED
  BY <1>1, <1>6, <1>7 DEF BackupInv

\* A caller that ends its backup leaves no other one disturbed.
LEMMA EndingStep ==
    ASSUME BackupInv, NEW a \in Callers, step[a] \in Locked \cup {"lock"}, End(a),
           snapshots' \in [Snaps -> Content \cup {None, Torn}]
    PROVE  BackupInv'
<1> USE RestoreSwapAssumption, BackupAssumption DEF Callers
<1>1. TypeOK'
  BY DEF End, BackupInv, BackupTypeOK, TypeOK, files, Tools
<1>2. HolderInv'
  <2>1. lock = a => \A p \in Servers : pc[p] \notin Holding
    BY DEF BackupInv, BackupTypeOK, CallerOK, HolderInv, Holding, Locked
  <2>2. lock' = lock \/ lock = a
    BY DEF End
  <2>3. tool'["check"] = tool["check"] /\ pc' = pc /\ held' = held
    BY DEF End, BackupInv, BackupTypeOK, TypeOK, Tools
  <2>4. a = "backup" => tool["backup"] \notin {"file", "wal"}
    BY DEF BackupInv, BackupTypeOK, CallerOK, Locked
  <2>5. tool'["backup"] \in {"file", "wal"} <=> tool["backup"] \in {"file", "wal"}
    BY <2>4 DEF End, BackupInv, BackupTypeOK, TypeOK, Tools
  <2>6. QED
    BY <2>1, <2>2, <2>3, <2>5 DEF HolderInv, BackupInv
<1>3. MergedInv'
  BY DEF End, files, txVars, MergedInv, BackupInv
<1>4. step' \in [Callers -> {"look", "lock", "unqueue", "start"} \cup Locked]
      /\ target' \in [Callers -> Snaps \cup {None}] /\ step'[a] \in {"look", "unqueue"}
      /\ todo' \subseteq Names /\ reading' \in Content \cup {None}
      /\ copied' \in [Names -> Content \cup {None, Torn}]
  BY DEF End, NewStage, NoFiles, stage, BackupInv, BackupTypeOK
<1>5. CallerOK(a)' /\ StagedAt(a)'
  BY <1>4 DEF End, CallerOK, StagedAt, Copying, Locked, BackupInv, BackupTypeOK
<1>6. ASSUME NEW b \in Callers \ {a} PROVE CallerOK(b)' /\ StagedAt(b)'
  <2>1. step'[b] = step[b] /\ target'[b] = target[b] /\ CallerOK(b) /\ StagedAt(b)
    BY DEF End, BackupInv, BackupTypeOK, CopyInv
  <2>2. step[b] \in Locked => lock' = b
    BY <2>1 DEF End, CallerOK
  <2>3. CallerOK(b)'
    BY <2>1, <2>2 DEF End, CallerOK, BackupInv, BackupTypeOK, TypeOK, Tools
  <2>4. CASE step[b] \in Locked
    <3>1. lock = b /\ step[a] \notin Locked
      BY <2>1, <2>4 DEF CallerOK, BackupInv, BackupTypeOK
    <3>2. UNCHANGED <<data, txVars, stage>>
      BY <3>1 DEF End, files, txVars
    <3>3. QED
      BY <2>1, <2>3, <3>2 DEF StagedAt, Faithful, stage, txVars
  <2>5. CASE step[b] \notin Locked
    BY <2>1, <2>3, <2>5 DEF StagedAt, Locked, Copying
  <2>6. QED
    BY <2>4, <2>5
<1>7. BackupTypeOK'
  BY <1>1, <1>4, <1>5, <1>6 DEF BackupTypeOK, BackupInv, End, txVars
<1>8. CopyInv'
  BY <1>5, <1>6 DEF CopyInv
<1>9. QED
  BY <1>2, <1>3, <1>7, <1>8 DEF BackupInv

\* A process that exits leaves the backups of the others alone.
LEMMA LeavingStep ==
    ASSUME BackupInv, TypeOK', NEW p \in Servers, Exit(p), Forget(p),
           UNCHANGED <<files, commands, txVars, request, snapshots>>
    PROVE  BackupInv'
<1> USE RestoreSwapAssumption, BackupAssumption DEF Callers, commands
<1>1. pc' = [pc EXCEPT ![p] = "begin"] /\ pc \in [Servers -> Location] /\ pc'[p] = "begin"
  BY DEF Exit, BackupInv, BackupTypeOK, TypeOK
<1>2. lock' = IF lock = p THEN None ELSE lock
  BY DEF Exit
<1>3. HolderInv'
  BY <1>1, <1>2 DEF BackupInv, HolderInv, Holding
<1>4. MergedInv'
  BY <1>1 DEF BackupInv, MergedInv, Running, Exit, BackupTypeOK, TypeOK, files, txVars
<1>5. /\ step' = [step EXCEPT ![p] = "look"] /\ target' = [target EXCEPT ![p] = None]
      /\ IF lock = p /\ step[p] \in Locked THEN todo' = {} /\ NewStage ELSE UNCHANGED stage
  BY <1>1 DEF Forget
<1>6. step \in [Callers -> {"look", "lock", "unqueue", "start"} \cup Locked]
      /\ target \in [Callers -> Snaps \cup {None}] /\ \A a \in Callers : CallerOK(a)
  BY DEF BackupInv, BackupTypeOK
<1>7. \A a \in Callers : CallerOK(a)'
  BY <1>1, <1>2, <1>5, <1>6 DEF CallerOK, Locked
<1>8. todo' \subseteq Names /\ reading' \in Content \cup {None}
      /\ copied' \in [Names -> Content \cup {None, Torn}]
  BY <1>5 DEF NewStage, NoFiles, stage, BackupInv, BackupTypeOK
<1>9. BackupTypeOK'
  BY <1>5, <1>6, <1>7, <1>8 DEF BackupInv, BackupTypeOK, txVars
<1>10. ASSUME NEW a \in Callers PROVE StagedAt(a)'
  <2>1. CASE step[a] \in Locked /\ a # p
    <3>1. lock = a /\ UNCHANGED <<stage, data, txVars>> /\ step'[a] = step[a] /\ StagedAt(a)
      BY <1>5, <1>6, <2>1 DEF CallerOK, files, txVars, BackupInv, CopyInv
    <3>2. QED
      BY <3>1 DEF StagedAt, Faithful, stage, txVars
  <2>2. CASE step[a] \notin Locked \/ a = p
    <3>1. step'[a] \notin Locked
      BY <1>5, <1>6, <2>2 DEF Locked
    <3>2. QED
      BY <3>1 DEF StagedAt, Locked, Copying
  <2>3. QED
    BY <2>1, <2>2
<1>11. QED
  BY <1>3, <1>4, <1>9, <1>10 DEF BackupInv, CopyInv

\* One step of any caller preserves the invariant.
LEMMA BackupStep ==
    ASSUME BackupInv, [BackupNext]_allVars
    PROVE  BackupInv'
<1> USE RestoreSwapAssumption, BackupAssumption
<1> USE DEF BackupInv, Callers, Holding, Locked, Copying, Names, Tools, Location, Running, files, commands, stage, txVars
<1>1. ASSUME NEW p \in Servers, RestorePending(p), ReadState(p) PROVE BackupInv'
  <2>1. TypeOK'
    BY <1>1, TypeStep DEF BackupTypeOK, Next, ApplyPending, Prepare, RestorePending
  <2>2. /\ pc[p] # "open" /\ Forget(p) /\ tool' = tool /\ UNCHANGED <<request, snapshots>>
        /\ \A q \in Servers \ {p} : pc'[q] = pc[q]
        /\ lock' = lock \/ lock = p \/ lock = None
    BY <1>1 DEF TypeOK, BackupTypeOK, HolderInv, RestorePending, ReadState
  <2>3. UNCHANGED <<step, stage>> /\ \A a \in Callers : CallerOK(a)' /\ target' \in [Callers -> Snaps \cup {None}]
    BY <2>2, SwapLeavesBackups
  <2>4. committed' \in 0..MaxCommits /\ merged' \in 0..committed'
    BY <1>1 DEF BackupTypeOK, RestorePending, ReadState, FollowSwap
  <2>5. BackupTypeOK'
    BY <2>1, <2>2, <2>3, <2>4 DEF BackupTypeOK
  <2>6. HolderInv'
    BY <1>1, <2>1, <2>2 DEF HolderInv, TypeOK, BackupTypeOK, RestorePending, ReadState
  <2>7. MergedInv'
    BY <1>1, <2>1 DEF HolderInv, MergedInv, TypeOK, BackupTypeOK, RestorePending, ReadState, FollowSwap
  <2>8. UNCHANGED <<data, txVars>>
    BY <1>1 DEF RestorePending, ReadState, FollowSwap
  <2>9. CopyInv'
    BY <2>3, <2>8 DEF CopyInv, StagedAt, Faithful
  <2>10. QED
    BY <2>5, <2>6, <2>7, <2>9
<1>2. ASSUME NEW p \in Servers, RestorePending(p), AcquireForRestore(p) PROVE BackupInv'
  <2>1. TypeOK'
    BY <1>2, TypeStep DEF BackupTypeOK, Next, ApplyPending, Prepare, RestorePending
  <2>2. /\ pc[p] # "open" /\ Forget(p) /\ tool' = tool /\ UNCHANGED <<request, snapshots>>
        /\ \A q \in Servers \ {p} : pc'[q] = pc[q]
        /\ lock' = lock \/ lock = p \/ lock = None
    BY <1>2 DEF TypeOK, BackupTypeOK, HolderInv, RestorePending, AcquireForRestore, Exit
  <2>3. UNCHANGED <<step, stage>> /\ \A a \in Callers : CallerOK(a)' /\ target' \in [Callers -> Snaps \cup {None}]
    BY <2>2, SwapLeavesBackups
  <2>4. committed' \in 0..MaxCommits /\ merged' \in 0..committed'
    BY <1>2 DEF BackupTypeOK, RestorePending, AcquireForRestore, FollowSwap
  <2>5. BackupTypeOK'
    BY <2>1, <2>2, <2>3, <2>4 DEF BackupTypeOK
  <2>6. HolderInv'
    BY <1>2, <2>1, <2>2 DEF HolderInv, TypeOK, BackupTypeOK, RestorePending, AcquireForRestore, Exit
  <2>7. MergedInv'
    BY <1>2, <2>1 DEF HolderInv, MergedInv, TypeOK, BackupTypeOK, RestorePending, AcquireForRestore, Exit, FollowSwap
  <2>8. UNCHANGED <<data, txVars>>
    BY <1>2 DEF RestorePending, AcquireForRestore, Exit, FollowSwap
  <2>9. CopyInv'
    BY <2>3, <2>8 DEF CopyInv, StagedAt, Faithful
  <2>10. QED
    BY <2>5, <2>6, <2>7, <2>9
<1>3. ASSUME NEW p \in Servers, RestorePending(p), Inspect(p) PROVE BackupInv'
  <2>1. TypeOK'
    BY <1>3, TypeStep DEF BackupTypeOK, Next, ApplyPending, Prepare, RestorePending
  <2>2. /\ pc[p] # "open" /\ Forget(p) /\ tool' = tool /\ UNCHANGED <<request, snapshots>>
        /\ \A q \in Servers \ {p} : pc'[q] = pc[q]
        /\ lock' = lock \/ lock = p \/ lock = None
        /\ lock = p
    BY <1>3 DEF TypeOK, BackupTypeOK, HolderInv, RestorePending, Inspect
  <2>3. UNCHANGED <<step, stage>> /\ \A a \in Callers : CallerOK(a)' /\ target' \in [Callers -> Snaps \cup {None}]
    BY <2>2, SwapLeavesBackups
  <2>4. committed' \in 0..MaxCommits /\ merged' \in 0..committed'
    BY <1>3 DEF BackupTypeOK, RestorePending, Inspect, FollowSwap
  <2>5. BackupTypeOK'
    BY <2>1, <2>2, <2>3, <2>4 DEF BackupTypeOK
  <2>6. HolderInv'
    BY <1>3, <2>1, <2>2 DEF HolderInv, TypeOK, BackupTypeOK, RestorePending, Inspect
  <2>7. MergedInv'
    BY <1>3, <2>1 DEF HolderInv, MergedInv, TypeOK, BackupTypeOK, RestorePending, Inspect, FollowSwap
  <2>8. CopyInv'
    BY <2>2, <2>3, NobodyCopies DEF CopyInv, StagedAt
  <2>9. QED
    BY <2>5, <2>6, <2>7, <2>8
<1>4. ASSUME NEW p \in Servers, RestorePending(p), MoveOld(p) PROVE BackupInv'
  <2>1. TypeOK'
    BY <1>4, TypeStep DEF BackupTypeOK, Next, ApplyPending, Prepare, RestorePending
  <2>2. /\ pc[p] # "open" /\ Forget(p) /\ tool' = tool /\ UNCHANGED <<request, snapshots>>
        /\ \A q \in Servers \ {p} : pc'[q] = pc[q]
        /\ lock' = lock \/ lock = p \/ lock = None
        /\ lock = p
    BY <1>4 DEF TypeOK, BackupTypeOK, HolderInv, RestorePending, MoveOld, managedNames, Exit
  <2>3. UNCHANGED <<step, stage>> /\ \A a \in Callers : CallerOK(a)' /\ target' \in [Callers -> Snaps \cup {None}]
    BY <2>2, SwapLeavesBackups
  <2>4. committed' \in 0..MaxCommits /\ merged' \in 0..committed'
    BY <1>4 DEF BackupTypeOK, RestorePending, MoveOld, FollowSwap
  <2>5. BackupTypeOK'
    BY <2>1, <2>2, <2>3, <2>4 DEF BackupTypeOK
  <2>6. HolderInv'
    BY <1>4, <2>1, <2>2 DEF HolderInv, TypeOK, BackupTypeOK, RestorePending, MoveOld, managedNames, Exit
  <2>7. MergedInv'
    BY <1>4, <2>1, <2>2 DEF HolderInv, MergedInv, TypeOK, BackupTypeOK, RestorePending, MoveOld, Exit, FollowSwap
  <2>8. CopyInv'
    BY <2>2, <2>3, NobodyCopies DEF CopyInv, StagedAt
  <2>9. QED
    BY <2>5, <2>6, <2>7, <2>8
<1>5. ASSUME NEW p \in Servers, RestorePending(p), MarkOldMoved(p) PROVE BackupInv'
  <2>1. TypeOK'
    BY <1>5, TypeStep DEF BackupTypeOK, Next, ApplyPending, Prepare, RestorePending
  <2>2. /\ pc[p] # "open" /\ Forget(p) /\ tool' = tool /\ UNCHANGED <<request, snapshots>>
        /\ \A q \in Servers \ {p} : pc'[q] = pc[q]
        /\ lock' = lock \/ lock = p \/ lock = None
        /\ lock = p
    BY <1>5 DEF TypeOK, BackupTypeOK, HolderInv, RestorePending, MarkOldMoved
  <2>3. UNCHANGED <<step, stage>> /\ \A a \in Callers : CallerOK(a)' /\ target' \in [Callers -> Snaps \cup {None}]
    BY <2>2, SwapLeavesBackups
  <2>4. committed' \in 0..MaxCommits /\ merged' \in 0..committed'
    BY <1>5 DEF BackupTypeOK, RestorePending, MarkOldMoved, FollowSwap
  <2>5. BackupTypeOK'
    BY <2>1, <2>2, <2>3, <2>4 DEF BackupTypeOK
  <2>6. HolderInv'
    BY <1>5, <2>1, <2>2 DEF HolderInv, TypeOK, BackupTypeOK, RestorePending, MarkOldMoved
  <2>7. MergedInv'
    BY <1>5, <2>1 DEF HolderInv, MergedInv, TypeOK, BackupTypeOK, RestorePending, MarkOldMoved, FollowSwap
  <2>8. CopyInv'
    BY <2>2, <2>3, NobodyCopies DEF CopyInv, StagedAt
  <2>9. QED
    BY <2>5, <2>6, <2>7, <2>8
<1>6. ASSUME NEW p \in Servers, RestorePending(p), MoveNew(p) PROVE BackupInv'
  <2>1. TypeOK'
    BY <1>6, TypeStep DEF BackupTypeOK, Next, ApplyPending, Prepare, RestorePending
  <2>2. /\ pc[p] # "open" /\ Forget(p) /\ tool' = tool /\ UNCHANGED <<request, snapshots>>
        /\ \A q \in Servers \ {p} : pc'[q] = pc[q]
        /\ lock' = lock \/ lock = p \/ lock = None
        /\ lock = p
    BY <1>6 DEF TypeOK, BackupTypeOK, HolderInv, RestorePending, MoveNew, managedNames, Exit
  <2>3. UNCHANGED <<step, stage>> /\ \A a \in Callers : CallerOK(a)' /\ target' \in [Callers -> Snaps \cup {None}]
    BY <2>2, SwapLeavesBackups
  <2>4. committed' \in 0..MaxCommits /\ merged' \in 0..committed'
    BY <1>6 DEF BackupTypeOK, RestorePending, MoveNew, FollowSwap
  <2>5. BackupTypeOK'
    BY <2>1, <2>2, <2>3, <2>4 DEF BackupTypeOK
  <2>6. HolderInv'
    BY <1>6, <2>1, <2>2 DEF HolderInv, TypeOK, BackupTypeOK, RestorePending, MoveNew, managedNames, Exit
  <2>7. MergedInv'
    BY <1>6, <2>1 DEF HolderInv, MergedInv, TypeOK, BackupTypeOK, RestorePending, MoveNew, managedNames, Exit, FollowSwap
  <2>8. CopyInv'
    BY <2>2, <2>3, NobodyCopies DEF CopyInv, StagedAt
  <2>9. QED
    BY <2>5, <2>6, <2>7, <2>8
<1>7. ASSUME NEW p \in Servers, RestorePending(p), MarkNewMoved(p) PROVE BackupInv'
  <2>1. TypeOK'
    BY <1>7, TypeStep DEF BackupTypeOK, Next, ApplyPending, Prepare, RestorePending
  <2>2. /\ pc[p] # "open" /\ Forget(p) /\ tool' = tool /\ UNCHANGED <<request, snapshots>>
        /\ \A q \in Servers \ {p} : pc'[q] = pc[q]
        /\ lock' = lock \/ lock = p \/ lock = None
        /\ lock = p
    BY <1>7 DEF TypeOK, BackupTypeOK, HolderInv, RestorePending, MarkNewMoved
  <2>3. UNCHANGED <<step, stage>> /\ \A a \in Callers : CallerOK(a)' /\ target' \in [Callers -> Snaps \cup {None}]
    BY <2>2, SwapLeavesBackups
  <2>4. committed' \in 0..MaxCommits /\ merged' \in 0..committed'
    BY <1>7 DEF BackupTypeOK, RestorePending, MarkNewMoved, FollowSwap
  <2>5. BackupTypeOK'
    BY <2>1, <2>2, <2>3, <2>4 DEF BackupTypeOK
  <2>6. HolderInv'
    BY <1>7, <2>1, <2>2 DEF HolderInv, TypeOK, BackupTypeOK, RestorePending, MarkNewMoved
  <2>7. MergedInv'
    BY <1>7, <2>1 DEF HolderInv, MergedInv, TypeOK, BackupTypeOK, RestorePending, MarkNewMoved, FollowSwap
  <2>8. CopyInv'
    BY <2>2, <2>3, NobodyCopies DEF CopyInv, StagedAt
  <2>9. QED
    BY <2>5, <2>6, <2>7, <2>8
<1>8. ASSUME NEW p \in Servers, RestorePending(p), RemoveEntry(p) PROVE BackupInv'
  <2>1. TypeOK'
    BY <1>8, TypeStep DEF BackupTypeOK, Next, ApplyPending, Prepare, RestorePending
  <2>2. /\ pc[p] # "open" /\ Forget(p) /\ tool' = tool /\ UNCHANGED <<request, snapshots>>
        /\ \A q \in Servers \ {p} : pc'[q] = pc[q]
        /\ lock' = lock \/ lock = p \/ lock = None
        /\ lock = p
    BY <1>8 DEF TypeOK, BackupTypeOK, HolderInv, RestorePending, RemoveEntry
  <2>3. UNCHANGED <<step, stage>> /\ \A a \in Callers : CallerOK(a)' /\ target' \in [Callers -> Snaps \cup {None}]
    BY <2>2, SwapLeavesBackups
  <2>4. committed' \in 0..MaxCommits /\ merged' \in 0..committed'
    BY <1>8 DEF BackupTypeOK, RestorePending, RemoveEntry, FollowSwap
  <2>5. BackupTypeOK'
    BY <2>1, <2>2, <2>3, <2>4 DEF BackupTypeOK
  <2>6. HolderInv'
    BY <1>8, <2>1, <2>2 DEF HolderInv, TypeOK, BackupTypeOK, RestorePending, RemoveEntry
  <2>7. MergedInv'
    BY <1>8, <2>1 DEF HolderInv, MergedInv, TypeOK, BackupTypeOK, RestorePending, RemoveEntry, FollowSwap
  <2>8. CopyInv'
    BY <2>2, <2>3, NobodyCopies DEF CopyInv, StagedAt
  <2>9. QED
    BY <2>5, <2>6, <2>7, <2>8
<1>9. ASSUME NEW p \in Servers, RestorePending(p), RemoveMarker(p) PROVE BackupInv'
  <2>1. TypeOK'
    BY <1>9, TypeStep DEF BackupTypeOK, Next, ApplyPending, Prepare, RestorePending
  <2>2. /\ pc[p] # "open" /\ Forget(p) /\ tool' = tool /\ UNCHANGED <<request, snapshots>>
        /\ \A q \in Servers \ {p} : pc'[q] = pc[q]
        /\ lock' = lock \/ lock = p \/ lock = None
        /\ lock = p
    BY <1>9 DEF TypeOK, BackupTypeOK, HolderInv, RestorePending, RemoveMarker, Exit
  <2>3. UNCHANGED <<step, stage>> /\ \A a \in Callers : CallerOK(a)' /\ target' \in [Callers -> Snaps \cup {None}]
    BY <2>2, SwapLeavesBackups
  <2>4. committed' \in 0..MaxCommits /\ merged' \in 0..committed'
    BY <1>9 DEF BackupTypeOK, RestorePending, RemoveMarker, FollowSwap
  <2>5. BackupTypeOK'
    BY <2>1, <2>2, <2>3, <2>4 DEF BackupTypeOK
  <2>6. HolderInv'
    BY <1>9, <2>1, <2>2 DEF HolderInv, TypeOK, BackupTypeOK, RestorePending, RemoveMarker, Exit
  <2>7. MergedInv'
    BY <1>9, <2>1 DEF HolderInv, MergedInv, TypeOK, BackupTypeOK, RestorePending, RemoveMarker, Exit, FollowSwap
  <2>8. CopyInv'
    BY <2>2, <2>3, NobodyCopies DEF CopyInv, StagedAt
  <2>9. QED
    BY <2>5, <2>6, <2>7, <2>8
<1>10. ASSUME NEW p \in Servers, StopServing(p) PROVE BackupInv'
  <2>1. TypeOK'
    BY <1>10, TypeStep DEF BackupTypeOK, Next, ApplyPending, Prepare, StopServing
  <2>2. /\ pc[p] # "open" /\ Forget(p) /\ tool' = tool /\ UNCHANGED <<request, snapshots>>
        /\ \A q \in Servers \ {p} : pc'[q] = pc[q]
        /\ lock' = lock \/ lock = p \/ lock = None
        /\ lock = p
    BY <1>10 DEF TypeOK, BackupTypeOK, HolderInv, StopServing, Stop, Exit
  <2>3. UNCHANGED <<step, stage>> /\ \A a \in Callers : CallerOK(a)' /\ target' \in [Callers -> Snaps \cup {None}]
    BY <2>2, SwapLeavesBackups
  <2>4. committed' \in 0..MaxCommits /\ merged' \in 0..committed'
    BY <1>10 DEF BackupTypeOK, StopServing, FollowClose
  <2>5. BackupTypeOK'
    BY <2>1, <2>2, <2>3, <2>4 DEF BackupTypeOK
  <2>6. HolderInv'
    BY <1>10, <2>1, <2>2 DEF HolderInv, TypeOK, BackupTypeOK, StopServing, Stop, Exit
  <2>7. MergedInv'
    BY <1>10, <2>1 DEF HolderInv, MergedInv, TypeOK, BackupTypeOK, StopServing, FollowClose, Closed, Stop, Exit
  <2>8. CopyInv'
    BY <2>2, <2>3, NobodyCopies DEF CopyInv, StagedAt
  <2>9. QED
    BY <2>5, <2>6, <2>7, <2>8
<1>11. ASSUME NEW p \in Servers, Serve(p) PROVE BackupInv'
  <2>1. TypeOK'
    BY <1>11, TypeStep DEF BackupTypeOK, Next, ApplyPending, Prepare, Serve
  <2>2. CASE lock # None
    <3>1. Exit(p) /\ Forget(p) /\ UNCHANGED <<files, commands, txVars, request, snapshots>>
      BY <1>11, <2>2 DEF Serve, OpenDatabase, Exit, TypeOK, BackupTypeOK
    <3>2. QED
      BY <2>1, <3>1, LeavingStep
  <2>3. CASE lock = None
    <3>1. /\ step[p] = "start" /\ pc[p] = "open" /\ lock' = p /\ pc' = [pc EXCEPT ![p] = "serving"]
          /\ data' = InWALMode(data) /\ FollowOpen
          /\ UNCHANGED <<commands, idx, request, snapshots>>
      BY <1>11, <2>3 DEF Serve, OpenDatabase, TypeOK, BackupTypeOK
    <3>2. \A a \in Callers : step[a] \notin Locked /\ CallerOK(a)
      BY <2>3 DEF BackupTypeOK, CallerOK
    <3>3. step' = [step EXCEPT ![p] = "look"] /\ target' = [target EXCEPT ![p] = None] /\ UNCHANGED stage
      BY <1>11, <3>1, <3>2 DEF Serve, Forget, TypeOK, BackupTypeOK
    <3>4. \A a \in Callers : step'[a] \notin Locked
      BY <3>2, <3>3 DEF BackupTypeOK
    <3>5. \A a \in Callers : CallerOK(a)'
      BY <3>1, <3>2, <3>3 DEF CallerOK, BackupTypeOK, TypeOK
    <3>6. committed' \in 0..MaxCommits /\ merged' \in 0..committed'
      <4>1. committed' = Migrated(Found) /\ merged' = IF data["db"] = None THEN 0 ELSE merged
        BY <3>1 DEF FollowOpen
      <4>2. committed \in 0..MaxCommits /\ merged \in 0..committed
        BY DEF BackupTypeOK
      <4>3. CASE data["db"] = None
        BY <4>1, <4>2, <4>3 DEF Found, Migrated
      <4>4. CASE data["db"] # None
        BY <4>1, <4>2, <4>4 DEF Found, Migrated
      <4>5. QED
        BY <4>3, <4>4
    <3>7. BackupTypeOK'
      BY <2>1, <3>1, <3>3, <3>5, <3>6 DEF BackupTypeOK
    <3>8. HolderInv'
      BY <2>3, <3>1 DEF HolderInv, BackupTypeOK, TypeOK
    <3>9. MergedInv'
      BY <2>1, <3>1 DEF MergedInv, InWALMode, Opened, BackupTypeOK, TypeOK
    <3>10. CopyInv'
      BY <3>4 DEF CopyInv, StagedAt
    <3>11. QED
      BY <3>7, <3>8, <3>9, <3>10
  <2>4. QED
    BY <2>2, <2>3
<1>12. ASSUME NEW p \in Servers, CrashServer(p) PROVE BackupInv'
  <2>1. TypeOK'
    BY <1>12, TypeStep DEF BackupTypeOK, Next, CrashServer
  <2>2. QED
    BY <1>12, <2>1, LeavingStep DEF CrashServer, Crash, BackupTypeOK
<1>13. ASSUME NEW p \in Servers, PrepareFromSnapshot(p), PrepareBegin(p) PROVE BackupInv'
  <2>1. TypeOK'
    BY <1>13, TypeStep DEF BackupTypeOK, Next, ApplyPending, Prepare, PrepareFromSnapshot
  <2>2. BackupTypeOK'
    BY <1>13, <2>1 DEF BackupTypeOK, CallerOK, HolderInv, TypeOK, PrepareFromSnapshot, backupVars, PrepareBegin, NoFiles
  <2>3. HolderInv'
    BY <1>13, <2>1 DEF HolderInv, TypeOK, BackupTypeOK, CallerOK, PrepareFromSnapshot, backupVars, PrepareBegin, NoFiles
  <2>4. MergedInv'
    BY <1>13, <2>1 DEF HolderInv, MergedInv, TypeOK, BackupTypeOK, CallerOK, PrepareFromSnapshot, backupVars, PrepareBegin, NoFiles
  <2>5. CopyInv'
    BY <1>13, <2>1 DEF HolderInv, MergedInv, CopyInv, StagedAt, Faithful, TypeOK, BackupTypeOK, CallerOK, PrepareFromSnapshot, backupVars, PrepareBegin, NoFiles
  <2>6. QED
    BY <2>2, <2>3, <2>4, <2>5
<1>14. ASSUME NEW p \in Servers, PrepareFromSnapshot(p), PrepareCandidate(p) PROVE BackupInv'
  <2>1. TypeOK'
    BY <1>14, TypeStep DEF BackupTypeOK, Next, ApplyPending, Prepare, PrepareFromSnapshot
  <2>2. BackupTypeOK'
    BY <1>14, <2>1 DEF BackupTypeOK, CallerOK, HolderInv, TypeOK, PrepareFromSnapshot, backupVars, PrepareCandidate, NoFiles
  <2>3. HolderInv'
    BY <1>14, <2>1 DEF HolderInv, TypeOK, BackupTypeOK, CallerOK, PrepareFromSnapshot, backupVars, PrepareCandidate, NoFiles
  <2>4. MergedInv'
    BY <1>14, <2>1 DEF HolderInv, MergedInv, TypeOK, BackupTypeOK, CallerOK, PrepareFromSnapshot, backupVars, PrepareCandidate, NoFiles
  <2>5. CopyInv'
    BY <1>14, <2>1 DEF HolderInv, MergedInv, CopyInv, StagedAt, Faithful, TypeOK, BackupTypeOK, CallerOK, PrepareFromSnapshot, backupVars, PrepareCandidate, NoFiles
  <2>6. QED
    BY <2>2, <2>3, <2>4, <2>5
<1>15. ASSUME NEW p \in Servers, PrepareFromSnapshot(p), PrepareFail(p) PROVE BackupInv'
  <2>1. TypeOK'
    BY <1>15, TypeStep DEF BackupTypeOK, Next, ApplyPending, Prepare, PrepareFromSnapshot
  <2>2. BackupTypeOK'
    BY <1>15, <2>1 DEF BackupTypeOK, CallerOK, HolderInv, TypeOK, PrepareFromSnapshot, backupVars, PrepareFail, NoFiles
  <2>3. HolderInv'
    BY <1>15, <2>1 DEF HolderInv, TypeOK, BackupTypeOK, CallerOK, PrepareFromSnapshot, backupVars, PrepareFail, NoFiles
  <2>4. MergedInv'
    BY <1>15, <2>1 DEF HolderInv, MergedInv, TypeOK, BackupTypeOK, CallerOK, PrepareFromSnapshot, backupVars, PrepareFail, NoFiles
  <2>5. CopyInv'
    BY <1>15, <2>1 DEF HolderInv, MergedInv, CopyInv, StagedAt, Faithful, TypeOK, BackupTypeOK, CallerOK, PrepareFromSnapshot, backupVars, PrepareFail, NoFiles
  <2>6. QED
    BY <2>2, <2>3, <2>4, <2>5
<1>16. ASSUME NEW p \in Servers, PrepareFromSnapshot(p), WriteState(p) PROVE BackupInv'
  <2>1. TypeOK'
    BY <1>16, TypeStep DEF BackupTypeOK, Next, ApplyPending, Prepare, PrepareFromSnapshot
  <2>2. BackupTypeOK'
    BY <1>16, <2>1 DEF BackupTypeOK, CallerOK, HolderInv, TypeOK, PrepareFromSnapshot, backupVars, WriteState, NoFiles
  <2>3. HolderInv'
    BY <1>16, <2>1 DEF HolderInv, TypeOK, BackupTypeOK, CallerOK, PrepareFromSnapshot, backupVars, WriteState, NoFiles
  <2>4. MergedInv'
    BY <1>16, <2>1 DEF HolderInv, MergedInv, TypeOK, BackupTypeOK, CallerOK, PrepareFromSnapshot, backupVars, WriteState, NoFiles
  <2>5. CopyInv'
    BY <1>16, <2>1 DEF HolderInv, MergedInv, CopyInv, StagedAt, Faithful, TypeOK, BackupTypeOK, CallerOK, PrepareFromSnapshot, backupVars, WriteState, NoFiles
  <2>6. QED
    BY <2>2, <2>3, <2>4, <2>5
<1>17. ASSUME Check, CheckStart PROVE BackupInv'
  <2>1. TypeOK'
    BY <1>17, TypeStep DEF BackupTypeOK, Next
  <2>2. /\ lock = None /\ lock' = "check" /\ tool' = [tool EXCEPT !["check"] = "locked"]
        /\ UNCHANGED <<pc, idx, held, step, target, stage, request, snapshots>>
        /\ FollowOpen /\ data' = InWALMode(data)
    BY <1>17 DEF Check, CheckStart, CheckEnd, BackupTypeOK, TypeOK
  <2>3. \A a \in Callers : step[a] \notin Locked /\ CallerOK(a)'
    BY <2>2 DEF BackupTypeOK, CallerOK, TypeOK
  <2>4. committed' \in 0..MaxCommits /\ merged' \in 0..committed'
    BY <2>2 DEF FollowOpen, Found, Migrated, BackupTypeOK
  <2>5. BackupTypeOK'
    BY <2>1, <2>2, <2>3, <2>4 DEF BackupTypeOK
  <2>6. HolderInv'
    BY <2>2 DEF HolderInv, BackupTypeOK, TypeOK
  <2>7. MergedInv'
    BY <2>1, <2>2 DEF MergedInv, InWALMode, Opened, BackupTypeOK, TypeOK
  <2>8. CopyInv'
    BY <2>2, <2>3 DEF CopyInv, StagedAt
  <2>9. QED
    BY <2>5, <2>6, <2>7, <2>8
<1>18. ASSUME Check, CheckEnd PROVE BackupInv'
  <2>1. TypeOK'
    BY <1>18, TypeStep DEF BackupTypeOK, Next
  <2>2. /\ lock = "check" /\ lock' = None /\ tool' = [tool EXCEPT !["check"] = "idle"]
        /\ UNCHANGED <<pc, idx, held, step, target, stage, request, snapshots>>
        /\ FollowClose /\ data' = Closed
    BY <1>18 DEF Check, CheckStart, CheckEnd, HolderInv, BackupTypeOK, TypeOK
  <2>3. \A a \in Callers : step[a] \notin Locked /\ CallerOK(a)'
    BY <2>2 DEF BackupTypeOK, CallerOK, TypeOK
  <2>4. committed' \in 0..MaxCommits /\ merged' \in 0..committed'
    BY <2>2 DEF FollowClose, BackupTypeOK
  <2>5. BackupTypeOK'
    BY <2>1, <2>2, <2>3, <2>4 DEF BackupTypeOK
  <2>6. HolderInv'
    BY <2>2 DEF HolderInv, BackupTypeOK, TypeOK
  <2>7. MergedInv'
    <3>1. \A q \in Servers : pc'[q] \notin Running
      BY <2>2 DEF HolderInv
    <3>2. QED
      BY <2>1, <2>2, <3>1 DEF MergedInv, Closed, FollowClose, BackupTypeOK, TypeOK, Files
  <2>8. CopyInv'
    BY <2>2, <2>3 DEF CopyInv, StagedAt
  <2>9. QED
    BY <2>5, <2>6, <2>7, <2>8
<1>19. ASSUME CommandOpens PROVE BackupInv'
  <2>1. TypeOK'
    BY <1>19, TypeStep DEF BackupTypeOK, Next, CommandOpens
  <2>2. /\ tool["backup"] = "idle" /\ tool' = [tool EXCEPT !["backup"] = "file"] /\ held' = Opened(data)
        /\ data' = [data EXCEPT !["db"] = Opened(data)]
        /\ committed' = Found /\ merged' = IF data["db"] = None THEN 0 ELSE merged
        /\ UNCHANGED <<pc, lock, step, target, stage, request, snapshots>>
    BY <1>19 DEF CommandOpens, BackupOpen
  <2>3. \A a \in Callers : CallerOK(a)'
    BY <2>2 DEF BackupTypeOK, CallerOK, TypeOK
  <2>4. BackupTypeOK'
    BY <2>1, <2>2, <2>3 DEF BackupTypeOK, Found
  <2>5. HolderInv'
    BY <2>2 DEF HolderInv, Opened, BackupTypeOK, TypeOK
  <2>6. MergedInv'
    BY <2>1, <2>2 DEF MergedInv, Opened, Found, BackupTypeOK, TypeOK, Files
  <2>7. CopyInv'
    <3>1. data["db"] # None => data' = data /\ UNCHANGED txVars
      BY <2>2 DEF Opened, Found, BackupTypeOK, TypeOK, Files
    <3>2. SUFFICES ASSUME NEW a \in Callers PROVE StagedAt(a)'
      BY DEF CopyInv
    <3>3. StagedAt(a)
      BY DEF CopyInv
    <3>4. QED
      BY <2>2, <3>1, <3>3 DEF StagedAt, Faithful
  <2>8. QED
    BY <2>4, <2>5, <2>6, <2>7
<1>20. ASSUME CommandAccesses PROVE BackupInv'
  <2>1. TypeOK'
    BY <1>20, TypeStep DEF BackupTypeOK, Next, CommandAccesses
  <2>2. /\ tool["backup"] = "file" /\ tool' = [tool EXCEPT !["backup"] = "wal"]
        /\ data' = [data EXCEPT !["wal"] = held] \/ (data["wal"] # None /\ data' = data)
        /\ committed' = IF held = data["db"] THEN Migrated(committed) ELSE committed
        /\ UNCHANGED <<pc, lock, held, merged, step, target, stage, request, snapshots>>
    BY <1>20 DEF CommandAccesses, BackupAccess
  <2>3. held # None
    BY <2>2 DEF HolderInv
  <2>4. \A a \in Callers : CallerOK(a)'
    BY <2>2 DEF BackupTypeOK, CallerOK, TypeOK
  <2>5. BackupTypeOK'
    BY <2>1, <2>2, <2>4 DEF BackupTypeOK, Migrated
  <2>6. HolderInv'
    BY <2>2 DEF HolderInv, BackupTypeOK, TypeOK
  <2>7. data'["db"] = data["db"] /\ data'["wal"] # None
    BY <2>2, <2>3 DEF BackupTypeOK, TypeOK, Files
  <2>8. MergedInv'
    BY <2>2, <2>7 DEF MergedInv
  <2>9. CopyInv'
    <3>1. \A tx : Faithful(tx) => Faithful(tx)'
      BY <2>2 DEF Faithful, Migrated
    <3>2. SUFFICES ASSUME NEW a \in Callers PROVE StagedAt(a)'
      BY DEF CopyInv
    <3>3. StagedAt(a)
      BY DEF CopyInv
    <3>4. /\ Faithful(merged) => Faithful(merged)'
          /\ Faithful(reading.tx) => Faithful(reading.tx)'
          /\ Faithful(copied["db"].tx) => Faithful(copied["db"].tx)'
          /\ Faithful(copied["wal"].tx) => Faithful(copied["wal"].tx)'
      BY <2>2 DEF Faithful, Migrated
    <3>5. QED
      BY <2>2, <2>7, <3>3, <3>4 DEF StagedAt
  <2>10. QED
    BY <2>5, <2>6, <2>8, <2>9
<1>21. ASSUME CommandCloses PROVE BackupInv'
  <2>1. TypeOK'
    BY <1>21, TypeStep DEF BackupTypeOK, Next, CommandCloses
  <2>2. /\ tool["backup"] = "wal" /\ held' = None
        /\ \E next \in {"closed", "idle"} : tool' = [tool EXCEPT !["backup"] = next]
        /\ UNCHANGED <<pc, lock, committed, step, target, stage, request, snapshots>>
    BY <1>21 DEF CommandCloses, BackupClose
  <2>3. \/ data' = data /\ merged' = merged
        \/ ~DatabaseOpen /\ data' = [data EXCEPT !["wal"] = None] /\ merged' = committed
    BY <1>21 DEF CommandCloses, BackupClose
  <2>4. \A a \in Callers : CallerOK(a)'
    BY <2>2 DEF BackupTypeOK, CallerOK, TypeOK
  <2>5. BackupTypeOK'
    BY <2>1, <2>2, <2>3, <2>4 DEF BackupTypeOK
  <2>6. HolderInv'
    BY <2>2 DEF HolderInv, BackupTypeOK, TypeOK
  <2>7. data'["db"] = data["db"]
    BY <2>3 DEF BackupTypeOK, TypeOK, Files
  <2>8. MergedInv'
    BY <2>2, <2>3, <2>7 DEF MergedInv, DatabaseOpen
  <2>9. CopyInv'
    <3>1. SUFFICES ASSUME NEW a \in Callers PROVE StagedAt(a)'
      BY DEF CopyInv
    <3>2. StagedAt(a) /\ (Faithful(merged) => Faithful(merged)')
      BY <2>2, <2>3 DEF CopyInv, Faithful
    <3>3. QED
      BY <2>2, <2>7, <3>2 DEF StagedAt, Faithful
  <2>10. QED
    BY <2>5, <2>6, <2>8, <2>9
<1>22. ASSUME NEW t \in Tools, CommandDies(t), UNCHANGED backupVars PROVE BackupInv'
  <2>1. TypeOK'
    BY <1>22, TypeStep DEF BackupTypeOK, Next
  <2>2. /\ tool[t] \in (IF t = "check" THEN {"locked"} ELSE {"file", "wal"})
        /\ tool' = [tool EXCEPT ![t] = "idle"] /\ lock' = (IF lock = t THEN None ELSE lock)
        /\ held' = IF t = "backup" THEN None ELSE held
        /\ UNCHANGED <<data, pc, committed, merged, request, snapshots, step, target, todo, reading, copied>>
    BY <1>22 DEF CommandDies, backupVars
  <2>3. \A a \in Callers : CallerOK(a)'
    <3>1. ASSUME NEW a \in Callers PROVE CallerOK(a)'
      <4>1. CallerOK(a)
        BY DEF BackupTypeOK
      <4>2. step[a] \in Locked => lock' = a
        <5>1. CASE t = "check"
          BY <2>2, <4>1, <5>1 DEF CallerOK, HolderInv
        <5>2. CASE t = "backup"
          BY <2>2, <4>1, <5>2 DEF CallerOK
        <5>3. QED
          BY <5>1, <5>2
      <4>3. a = "backup" /\ step[a] # "look" => tool'[a] \in {"closed", "locked"}
        BY <2>2, <4>1 DEF CallerOK, BackupTypeOK, TypeOK
      <4>4. QED
        BY <2>2, <4>1, <4>2, <4>3 DEF CallerOK
    <3>2. QED
      BY <3>1
  <2>4. BackupTypeOK'
    BY <2>1, <2>2, <2>3 DEF BackupTypeOK
  <2>5. HolderInv'
    BY <2>2 DEF HolderInv, BackupTypeOK, TypeOK
  <2>6. MergedInv'
    BY <2>2 DEF MergedInv
  <2>7. CopyInv'
    BY <2>2 DEF CopyInv, StagedAt, Faithful
  <2>8. QED
    BY <2>4, <2>5, <2>6, <2>7
<1>23. ASSUME NEW p \in Servers, Commit(p) PROVE BackupInv'
  <2>1. BackupTypeOK'
    BY <1>23 DEF BackupTypeOK, CallerOK, HolderInv, TypeOK, Commit, vars
  <2>2. HolderInv'
    BY <1>23 DEF HolderInv, TypeOK, BackupTypeOK, CallerOK, Commit, vars
  <2>3. MergedInv'
    BY <1>23 DEF HolderInv, MergedInv, TypeOK, BackupTypeOK, CallerOK, Commit, vars
  <2>4. CopyInv'
    BY <1>23 DEF HolderInv, MergedInv, CopyInv, StagedAt, Faithful, TypeOK, BackupTypeOK, CallerOK, Commit, vars
  <2>5. QED
    BY <2>1, <2>2, <2>3, <2>4
<1>24. ASSUME NEW p \in Servers, Queue(p) PROVE BackupInv'
  <2>1. BackupTypeOK'
    BY <1>24 DEF BackupTypeOK, CallerOK, HolderInv, TypeOK, Queue, vars
  <2>2. HolderInv'
    BY <1>24 DEF HolderInv, TypeOK, BackupTypeOK, CallerOK, Queue, vars
  <2>3. MergedInv'
    BY <1>24 DEF HolderInv, MergedInv, TypeOK, BackupTypeOK, CallerOK, Queue, vars
  <2>4. CopyInv'
    BY <1>24 DEF HolderInv, MergedInv, CopyInv, StagedAt, Faithful, TypeOK, BackupTypeOK, CallerOK, Queue, vars
  <2>5. QED
    BY <2>1, <2>2, <2>3, <2>4
<1>25. ASSUME NEW p \in Servers, LookForRequest(p) PROVE BackupInv'
  <2>1. BackupTypeOK'
    BY <1>25 DEF BackupTypeOK, CallerOK, HolderInv, TypeOK, LookForRequest, vars
  <2>2. HolderInv'
    BY <1>25 DEF HolderInv, TypeOK, BackupTypeOK, CallerOK, LookForRequest, vars
  <2>3. MergedInv'
    BY <1>25 DEF HolderInv, MergedInv, TypeOK, BackupTypeOK, CallerOK, LookForRequest, vars
  <2>4. CopyInv'
    BY <1>25 DEF HolderInv, MergedInv, CopyInv, StagedAt, Faithful, TypeOK, BackupTypeOK, CallerOK, LookForRequest, vars
  <2>5. QED
    BY <2>1, <2>2, <2>3, <2>4
<1>26. ASSUME NEW p \in Servers, Unqueue(p) PROVE BackupInv'
  <2>1. CASE request # None
    <3>1. BackupTypeOK'
      <4>1. /\ request' = None /\ step' = [step EXCEPT ![p] = "start"]
            /\ target' = [target EXCEPT ![p] = None] /\ step[p] = "unqueue"
            /\ UNCHANGED <<vars, stage, txVars, snapshots>>
        BY <1>26, <2>1 DEF Unqueue
      <4>2. TypeOK'
        BY <4>1 DEF vars, TypeOK, BackupTypeOK
      <4>3. \A a \in Callers : CallerOK(a)'
        BY <4>1 DEF vars, CallerOK, BackupTypeOK
      <4>4. QED
        BY <4>1, <4>2, <4>3 DEF BackupTypeOK
    <3>2. HolderInv' /\ MergedInv'
      BY <1>26, <2>1 DEF HolderInv, MergedInv, Unqueue, vars
    <3>3. CopyInv'
      <4>1. UNCHANGED <<data, txVars, stage>> /\ step' = [step EXCEPT ![p] = "start"]
        BY <1>26, <2>1 DEF Unqueue, vars
      <4>2. \A a \in Callers : step'[a] = step[a] \/ step'[a] = "start"
        BY <4>1 DEF BackupTypeOK
      <4>3. QED
        BY <4>1, <4>2 DEF CopyInv, StagedAt, Faithful
    <3>4. QED
      BY <3>1, <3>2, <3>3
  <2>2. CASE request = None
    <3>1. Exit(p) /\ Forget(p)
          /\ UNCHANGED <<marker, used, work, files, commands, crashes, txVars, request, snapshots>>
      BY <1>26, <2>2 DEF Unqueue
    <3>2. TypeOK'
      BY <3>1 DEF Exit, BackupTypeOK, TypeOK, Swapping
    <3>3. QED
      BY <3>1, <3>2, LeavingStep DEF BackupTypeOK
  <2>3. QED
    BY <2>1, <2>2
<1>27. ASSUME CommandLocates PROVE BackupInv'
  <2>1. BackupTypeOK'
    BY <1>27 DEF BackupTypeOK, CallerOK, HolderInv, TypeOK, CommandLocates, vars
  <2>2. HolderInv'
    BY <1>27 DEF HolderInv, TypeOK, BackupTypeOK, CallerOK, CommandLocates, vars
  <2>3. MergedInv'
    BY <1>27 DEF HolderInv, MergedInv, TypeOK, BackupTypeOK, CallerOK, CommandLocates, vars
  <2>4. CopyInv'
    BY <1>27 DEF HolderInv, MergedInv, CopyInv, StagedAt, Faithful, TypeOK, BackupTypeOK, CallerOK, CommandLocates, vars
  <2>5. QED
    BY <2>1, <2>2, <2>3, <2>4
<1>28. ASSUME CommandRefused PROVE BackupInv'
  <2>1. BackupTypeOK'
    BY <1>28 DEF BackupTypeOK, CallerOK, HolderInv, TypeOK, CommandRefused, backupVars
  <2>2. HolderInv'
    BY <1>28 DEF HolderInv, TypeOK, BackupTypeOK, CallerOK, CommandRefused, backupVars
  <2>3. MergedInv'
    BY <1>28 DEF HolderInv, MergedInv, TypeOK, BackupTypeOK, CallerOK, CommandRefused, backupVars
  <2>4. CopyInv'
    BY <1>28 DEF HolderInv, MergedInv, CopyInv, StagedAt, Faithful, TypeOK, BackupTypeOK, CallerOK, CommandRefused, backupVars
  <2>5. QED
    BY <2>1, <2>2, <2>3, <2>4
<1>29. ASSUME NEW a \in Callers, AcquireForBackup(a) PROVE BackupInv'
  <2>1. CASE lock # None
    BY <1>29, <2>1, EndingStep DEF AcquireForBackup, BackupTypeOK
  <2>2. CASE lock = None
    <3>1. /\ step[a] = "lock" /\ lock' = a /\ Advance(a, "inventory")
          /\ tool' = IF a = "backup" THEN [tool EXCEPT ![a] = "locked"] ELSE tool
          /\ UNCHANGED <<marker, used, work, files, pc, pend, idx, held, crashes, txVars, request, snapshots, target, stage>>
      BY <1>29, <2>2 DEF AcquireForBackup, End
    <3>2. \A b \in Callers : step[b] \notin Locked
      BY <2>2 DEF BackupTypeOK, CallerOK
    <3>3. TypeOK'
      BY <3>1 DEF BackupTypeOK, TypeOK
    <3>4. /\ step' \in [Callers -> {"look", "lock", "unqueue", "start"} \cup Locked]
          /\ step'[a] = "inventory"
          /\ \A b \in Callers \ {a} : step'[b] = step[b]
      BY <3>1 DEF Advance, BackupTypeOK
    <3>5. \A b \in Callers : CallerOK(b)'
      BY <3>1, <3>2, <3>4 DEF CallerOK, BackupTypeOK, TypeOK
    <3>6. BackupTypeOK'
      BY <3>1, <3>3, <3>4, <3>5 DEF BackupTypeOK
    <3>7. HolderInv'
      <4>1. a = "backup" => tool["backup"] \notin {"file", "wal"}
        BY <3>1 DEF BackupTypeOK, CallerOK
      <4>2. tool'["check"] = tool["check"]
            /\ (tool'["backup"] \in {"file", "wal"} <=> tool["backup"] \in {"file", "wal"})
        BY <3>1, <4>1 DEF BackupTypeOK, TypeOK
      <4>3. QED
        BY <2>2, <3>1, <4>2 DEF HolderInv
    <3>10. MergedInv'
      BY <3>1 DEF MergedInv
    <3>8. CopyInv'
      BY <3>2, <3>4 DEF CopyInv, StagedAt
    <3>9. QED
      BY <3>6, <3>7, <3>8, <3>10
  <2>3. QED
    BY <2>1, <2>2
<1>30. ASSUME NEW a \in Callers, Inventory(a) PROVE BackupInv'
  <2>1. /\ step[a] = "inventory" /\ data["db"] # None
        /\ todo' = {n \in Names : data[n] # None} /\ Advance(a, "copy") /\ NewStage
        /\ UNCHANGED <<vars, txVars, request, snapshots, target>>
    BY <1>30 DEF Inventory
  <2>2. step'[a] = "copy"
    BY <2>1 DEF Advance, BackupTypeOK
  <2>3. StagedAt(a)'
    <3>1. "wal" \notin todo' => merged = committed
      BY <2>1 DEF MergedInv
    <3>2. copied'["wal"] = None /\ todo' # {}
      BY <2>1 DEF NewStage, NoFiles
    <3>3. QED
      BY <2>1, <2>2, <3>1, <3>2 DEF StagedAt, Faithful, vars
  <2>4. QED
    BY <2>1, <2>3, CopyingStep DEF NewStage, NoFiles
<1>31. ASSUME NEW a \in Callers, CopyBegin(a) PROVE BackupInv'
  <2>1. /\ step[a] = "copy" /\ data[NextFile] # None /\ reading' = Held(NextFile)
        /\ Advance(a, "copying")
        /\ UNCHANGED <<vars, txVars, request, snapshots, target, todo, copied>>
    BY <1>31 DEF CopyBegin
  <2>2. step'[a] = "copying" /\ StagedAt(a) /\ NextFile \in Names
    BY <2>1 DEF Advance, BackupTypeOK, CopyInv, NextFile
  <2>3. reading' \in Content
    BY <2>1, <2>2 DEF Held, Content, BackupTypeOK, TypeOK, Files
  <2>4. todo # Names => Faithful(reading'.tx)
    <3>1. CASE "db" \in todo
      <4>1. "wal" \in todo => todo = Names
        <5>1. todo \subseteq {"db", "wal"}
          BY DEF BackupTypeOK
        <5>2. QED
          BY <3>1, <5>1
      <4>2. todo # Names => Faithful(merged)
        BY <2>1, <2>2, <4>1 DEF StagedAt
      <4>3. QED
        BY <2>1, <3>1, <4>2 DEF Held, NextFile
    <3>2. CASE "db" \notin todo
      BY <2>1, <3>2 DEF Held, NextFile, Faithful
    <3>3. QED
      BY <3>1, <3>2
  <2>5. StagedAt(a)'
    BY <2>1, <2>2, <2>3, <2>4 DEF StagedAt, Faithful, vars, txVars
  <2>6. QED
    BY <2>1, <2>3, <2>5, CopyingStep DEF BackupTypeOK
<1>32. ASSUME NEW a \in Callers, CopyEnd(a) PROVE BackupInv'
  <2>1. /\ step[a] = "copying"
        /\ data[NextFile] # None => Held(NextFile) = reading
        /\ copied' = [copied EXCEPT ![NextFile] = reading]
        /\ todo' = todo \ {NextFile} /\ reading' = None
        /\ Advance(a, IF todo = {NextFile} THEN "validate" ELSE "copy")
        /\ UNCHANGED <<vars, txVars, request, snapshots, target>>
    BY <1>32 DEF CopyEnd, CopyDone
  <2>2. StagedAt(a) /\ NextFile \in todo /\ todo \subseteq Names /\ reading \in Content
    <3>1. StagedAt(a) /\ todo \subseteq Names
      BY DEF CopyInv, BackupTypeOK
    <3>2. todo # {} /\ reading \in Content
      BY <2>1, <3>1 DEF StagedAt
    <3>3. NextFile \in todo
      BY <3>1, <3>2 DEF NextFile
    <3>4. QED
      BY <3>1, <3>2, <3>3
  <2>3. step'[a] = IF todo' = {} THEN "validate" ELSE "copy"
    <3>1. todo' = {} <=> todo = {NextFile}
      BY <2>1, <2>2
    <3>2. QED
      BY <2>1, <3>1 DEF Advance, BackupTypeOK
  <2>4. CASE NextFile = "db"
    <3>1. reading.gen = data["db"]
      BY <2>1, <2>2, <2>4 DEF Held, StagedAt
    <3>2. copied'["db"] = reading /\ copied'["wal"] = None
      BY <2>1, <2>2, <2>4 DEF StagedAt, BackupTypeOK
    <3>3. todo' = {} => Faithful(reading.tx)
      BY <2>1, <2>2, <2>4 DEF StagedAt
    <3>4. todo' # {} => todo' = {"wal"}
      BY <2>1, <2>2, <2>4
    <3>5. QED
      BY <2>1, <2>2, <2>3, <3>1, <3>2, <3>3, <3>4, CopyingStep
         DEF StagedAt, Faithful, vars, txVars, BackupTypeOK
  <2>5. CASE NextFile = "wal"
    <3>1. todo = {"wal"} /\ todo' = {}
      BY <2>1, <2>2, <2>5 DEF NextFile
    <3>2. copied'["wal"] = reading /\ copied'["db"] = copied["db"] /\ Faithful(reading.tx)
      BY <2>1, <2>2, <2>5, <3>1 DEF StagedAt, BackupTypeOK
    <3>3. QED
      BY <2>1, <2>2, <2>3, <3>1, <3>2, CopyingStep
         DEF StagedAt, Faithful, vars, txVars, BackupTypeOK
  <2>6. QED
    BY <2>2, <2>4, <2>5
<1>33. ASSUME NEW a \in Callers, Validate(a) PROVE BackupInv'
  <2>1. /\ step[a] = "validate" /\ copied' = [NoFiles EXCEPT !["db"] = Opening]
        /\ Advance(a, "publish")
        /\ UNCHANGED <<vars, txVars, request, snapshots, target, todo, reading>>
    BY <1>33 DEF Validate
  <2>2. StagedAt(a) /\ step'[a] = "publish"
    BY <2>1 DEF CopyInv, Advance, BackupTypeOK
  <2>3. copied["db"] \in Content /\ copied["wal"] \in Content \cup {None}
    BY <2>1, <2>2 DEF StagedAt
  <2>4. Opening \in Content \cup {Torn}
    BY <2>3 DEF Opening, Content
  <2>5. StagedAt(a)'
    BY <2>1, <2>2 DEF StagedAt, vars, txVars
  <2>6. QED
    BY <2>1, <2>4, <2>5, CopyingStep DEF NoFiles, BackupTypeOK
<1>34. ASSUME NEW a \in Callers, Publish(a) PROVE BackupInv'
  BY <1>34, EndingStep DEF Publish, BackupTypeOK
<1>35. ASSUME NEW a \in Callers, CreateFails(a) PROVE BackupInv'
  BY <1>35, EndingStep DEF CreateFails, BackupTypeOK
<1>36. ASSUME NEW p \in Servers, RestorePending(p), RenameOld(p) PROVE BackupInv'
  <2>1. TypeOK'
    BY <1>36, TypeStep DEF BackupTypeOK, Next, ApplyPending, Prepare, RestorePending
  <2>2. /\ pc[p] # "open" /\ Forget(p) /\ UNCHANGED <<request, snapshots, tool, held>>
        /\ \A q \in Servers \ {p} : pc'[q] = pc[q]
        /\ lock' = lock \/ lock = p \/ lock = None
        /\ lock = p /\ pc'[p] \in {"moveOld", "moveNew", "begin"}
    BY <1>36 DEF TypeOK, BackupTypeOK, HolderInv, RestorePending, RenameOld, Renamed, Exit
  <2>3. UNCHANGED <<step, stage>> /\ \A a \in Callers : CallerOK(a)' /\ target' \in [Callers -> Snaps \cup {None}]
    BY <2>2, SwapLeavesBackups
  <2>4. committed' \in 0..MaxCommits /\ merged' \in 0..committed' /\ FollowSwap
    BY <1>36 DEF BackupTypeOK, RestorePending, FollowSwap
  <2>5. BackupTypeOK'
    BY <2>1, <2>2, <2>3, <2>4 DEF BackupTypeOK
  <2>6. HolderInv'
    <3>1. lock' = lock \/ pc'[p] = "begin"
      BY <1>36 DEF RenameOld, Renamed, Exit, TypeOK, BackupTypeOK
    <3>2. QED
      BY <2>2, <3>1 DEF HolderInv
  <2>7. MergedInv'
    <3>1. \A q \in Servers : pc'[q] \notin Running
      BY <2>2 DEF HolderInv
    <3>2. data'["db"] # None /\ data'["wal"] = None => merged' = committed'
      <4>1. data' = data \/ data'["db"] = None \/ data'["db"] = data["db"]
        BY <1>36 DEF RenameOld, managedNames, TypeOK, BackupTypeOK, Files
      <4>2. QED
        BY <2>4, <4>1 DEF FollowSwap, MergedInv
    <3>3. QED
      BY <3>1, <3>2 DEF MergedInv
  <2>8. CopyInv'
    BY <2>2, <2>3, NobodyCopies DEF CopyInv, StagedAt
  <2>9. QED
    BY <2>5, <2>6, <2>7, <2>8
<1>37. ASSUME NEW p \in Servers, RestorePending(p), RenameNew(p) PROVE BackupInv'
  <2>1. TypeOK'
    BY <1>37, TypeStep DEF BackupTypeOK, Next, ApplyPending, Prepare, RestorePending
  <2>2. /\ pc[p] # "open" /\ Forget(p) /\ UNCHANGED <<request, snapshots, tool, held>>
        /\ \A q \in Servers \ {p} : pc'[q] = pc[q]
        /\ lock' = lock \/ lock = p \/ lock = None
        /\ lock = p /\ pc'[p] \in {"moveOld", "moveNew", "begin"}
    BY <1>37 DEF TypeOK, BackupTypeOK, HolderInv, RestorePending, RenameNew, Renamed, Exit
  <2>3. UNCHANGED <<step, stage>> /\ \A a \in Callers : CallerOK(a)' /\ target' \in [Callers -> Snaps \cup {None}]
    BY <2>2, SwapLeavesBackups
  <2>4. committed' \in 0..MaxCommits /\ merged' \in 0..committed' /\ FollowSwap
    BY <1>37 DEF BackupTypeOK, RestorePending, FollowSwap
  <2>5. BackupTypeOK'
    BY <2>1, <2>2, <2>3, <2>4 DEF BackupTypeOK
  <2>6. HolderInv'
    <3>1. lock' = lock \/ pc'[p] = "begin"
      BY <1>37 DEF RenameNew, Renamed, Exit, TypeOK, BackupTypeOK
    <3>2. QED
      BY <2>2, <3>1 DEF HolderInv
  <2>7. MergedInv'
    <3>1. \A q \in Servers : pc'[q] \notin Running
      BY <2>2 DEF HolderInv
    <3>2. data'["db"] # None /\ data'["wal"] = None => merged' = committed'
      <4>1. \/ data'["wal"] = data["wal"]
            \/ data'["db"] = data["db"]
        BY <1>37 DEF RenameNew, managedNames, TypeOK, BackupTypeOK, Files
      <4>2. QED
        BY <2>4, <4>1 DEF FollowSwap, MergedInv
    <3>3. QED
      BY <3>1, <3>2 DEF MergedInv
  <2>8. CopyInv'
    BY <2>2, <2>3, NobodyCopies DEF CopyInv, StagedAt
  <2>9. QED
    BY <2>5, <2>6, <2>7, <2>8
<1>38. CASE UNCHANGED allVars
  BY <1>38 DEF allVars, vars, backupVars, BackupTypeOK, CallerOK, TypeOK, HolderInv, MergedInv, CopyInv, StagedAt, Faithful
<1> HIDE DEF BackupInv
<1>39. QED
  BY <1>1, <1>2, <1>3, <1>4, <1>5, <1>6, <1>7, <1>8, <1>9, <1>10, <1>11, <1>12, <1>13, <1>14, <1>15, <1>16, <1>17, <1>18, <1>19, <1>20, <1>21, <1>22, <1>23, <1>24, <1>25, <1>26, <1>27, <1>28, <1>29, <1>30, <1>31, <1>32, <1>33, <1>34, <1>35, <1>36, <1>37, <1>38
     DEF BackupNext, RestorePending, ApplyPending, PrepareFromSnapshot, Prepare, Check, CommandKilled, Create

-----------------------------------------------------------------------------
(* What follows.                                                           *)

\* The invariant holds in every reachable state.
LEMMA BackupInvariant == BackupSpec => []BackupInv
<1>1. BackupInit => BackupInv
  BY BackupInitial
<1>2. BackupInv /\ [BackupNext]_allVars => BackupInv'
  BY BackupStep
<1>3. QED
  BY <1>1, <1>2, PTL DEF BackupSpec

\* Type correctness, and with it the discipline of the lock: whoever copies
\* holds it, whatever other servers and commands do.
THEOREM BackupTypeCorrect == BackupSpec => []BackupTypeOK
<1>1. BackupInv => BackupTypeOK
  BY DEF BackupInv
<1>2. QED
  BY <1>1, BackupInvariant, PTL

-----------------------------------------------------------------------------
(* What RestoreSwapProof shows of the swap beside other servers and        *)
(* commands holds beside backups, too.                                     *)

\* A step of a backup that the swap does not have: it takes the lock or drops
\* it, or a start that looked for a request ends.
LockOnly ==
    /\ UNCHANGED <<marker, used, work, files, held>>
    /\ \A p \in Servers :
          \/ pc'[p] = pc[p] /\ pend'[p] = pend[p] /\ idx'[p] = idx[p]
          \/ pc[p] = "open" /\ pc'[p] = "begin"

\* Every step is one of the swap, or touches the lock only.
LEMMA SwapStepOrLockOnly ==
    ASSUME BackupInv, [BackupNext]_allVars
    PROVE  [Next]_vars \/ LockOnly
<1> USE RestoreSwapAssumption, BackupAssumption
<1>1. ASSUME NEW p \in Servers,
             \/ RestorePending(p) \/ Serve(p) \/ PrepareFromSnapshot(p)
             \/ StopServing(p) \/ CrashServer(p)
      PROVE  Next
  BY <1>1 DEF RestorePending, Serve, PrepareFromSnapshot, StopServing, CrashServer, Next
<1>2. ASSUME NEW p \in Servers, Commit(p) \/ Queue(p) \/ LookForRequest(p)
      PROVE  UNCHANGED vars
  BY <1>2 DEF Commit, Queue, LookForRequest
<1>3. ASSUME NEW p \in Servers, Unqueue(p)
      PROVE  UNCHANGED vars \/ LockOnly
  <2>1. pc[p] = "open"
    BY <1>3 DEF Unqueue, BackupInv, BackupTypeOK, CallerOK, Callers
  <2>2. QED
    BY <1>3, <2>1 DEF Unqueue, Exit, LockOnly, files, commands, BackupInv, BackupTypeOK, TypeOK
<1>4. CASE Check \/ CommandOpens \/ CommandAccesses \/ CommandCloses \/ CommandKilled
  BY <1>4 DEF Check, CommandOpens, CommandAccesses, CommandCloses, CommandKilled, Next
<1>5. CASE CommandLocates \/ CommandRefused
  BY <1>5 DEF CommandLocates, CommandRefused, LockOnly, vars, files
<1>6. ASSUME NEW a \in Callers, Create(a)
      PROVE  UNCHANGED vars \/ LockOnly
  BY <1>6 DEF Create, AcquireForBackup, Inventory, CopyBegin, CopyEnd, CopyDone, Validate,
              Publish, CreateFails, End, LockOnly, files
<1>7. CASE UNCHANGED allVars
  BY <1>7 DEF allVars, vars
<1>8. QED
  BY <1>1, <1>2, <1>3, <1>4, <1>5, <1>6, <1>7 DEF BackupNext

\* A step that touches the lock only disturbs none of the invariants.
LEMMA LockOnlyStep ==
    ASSUME TypeOK, LockOnly
    PROVE  /\ ReaderInv => ReaderInv'
           /\ WALInv => WALInv'
           /\ KeepInv => KeepInv'
<1> USE RestoreSwapAssumption DEF LockOnly, files, TypeOK
<1>1. ASSUME ReaderInv PROVE ReaderInv'
  BY <1>1 DEF ReaderInv, Swapping
<1>2. ASSUME WALInv PROVE WALInv'
  BY <1>2 DEF WALInv
<1>3. ASSUME KeepInv PROVE KeepInv'
  BY <1>3 DEF KeepInv
<1>4. QED
  BY <1>1, <1>2, <1>3

\* The invariant of the readers of the marker holds beside backups.
LEMMA ReadersBesideBackups ==
    ASSUME Alone
    PROVE  BackupSpec => [](BackupInv /\ TypeOK /\ Holds /\ ReaderInv)
<1>1. BackupInit => ReaderInv
  BY InitAlone DEF BackupInit
<1>2. BackupInv => TypeOK /\ Holds
  BY DEF BackupInv, BackupTypeOK, HolderInv, Holds
<1>3. BackupInv /\ BackupInv' /\ ReaderInv /\ [BackupNext]_allVars => ReaderInv'
  <2> SUFFICES ASSUME BackupInv, BackupInv', ReaderInv, [BackupNext]_allVars
               PROVE  ReaderInv'
    OBVIOUS
  <2>1. TypeOK /\ TypeOK' /\ Holds /\ Holds'
    BY <1>2 DEF BackupInv, BackupTypeOK, HolderInv, Holds
  <2>2. CASE [Next]_vars
    BY <2>1, <2>2, ReaderStep
  <2>3. CASE LockOnly
    BY <2>1, <2>3, LockOnlyStep
  <2>4. QED
    BY <2>2, <2>3, SwapStepOrLockOnly
<1>4. QED
  BY <1>1, <1>2, <1>3, BackupInvariant, PTL DEF BackupSpec

\* No file is moved while the `backup` command has the database open, and so
\* no database gets the WAL of another one.
LEMMA WALsBesideBackups ==
    ASSUME Alone, ~OpenDuringSwap
    PROVE  BackupSpec => [](BackupInv /\ ReaderInv /\ WALInv)
<1>1. BackupInit => WALInv
  BY InitAlone DEF BackupInit
<1>2. BackupInv /\ TypeOK /\ TypeOK' /\ Holds /\ Holds' /\ ReaderInv /\ ReaderInv' /\ WALInv
        /\ [BackupNext]_allVars => WALInv'
  <2> SUFFICES ASSUME BackupInv, TypeOK, TypeOK', Holds, Holds', ReaderInv, ReaderInv', WALInv,
                      [BackupNext]_allVars
               PROVE  WALInv'
    OBVIOUS
  <2>1. CASE [Next]_vars
    BY <2>1, WALStep
  <2>2. CASE LockOnly
    BY <2>2, LockOnlyStep
  <2>3. QED
    BY <2>1, <2>2, SwapStepOrLockOnly
<1>3. QED
  BY <1>1, <1>2, ReadersBesideBackups, PTL DEF BackupSpec

\* No database lies beside the WAL of another one, in the `backup` command's
\* hands or in anyone else's: a copy takes both files for one database.  As in
\* DatabaseMatchesWAL the swap must not rename a file while that command has
\* the database open, or the command open it between a rename and its Lstat,
\* which the code does not ensure.
THEOREM BackupMatchesWAL ==
    ASSUME Alone, ~OpenDuringSwap
    PROVE  BackupSpec => []OneGeneration
<1>1. WALInv => OneGeneration
  BY DEF WALInv, OneGeneration
<1>2. QED
  BY <1>1, WALsBesideBackups, PTL

\* A backup that gets in between two steps of a recorded restore may make it
\* fail, but never costs its candidate, even when the command has the database
\* open across those steps.
THEOREM CandidateSurvivesBackups ==
    ASSUME Alone, ~CrashInCleanup
    PROVE  BackupSpec => []CandidateKept
<1>1. BackupInit => KeepInv
  BY InitAlone DEF BackupInit
<1>2. BackupInv /\ TypeOK /\ TypeOK' /\ Holds /\ Holds' /\ ReaderInv /\ ReaderInv' /\ KeepInv
        /\ [BackupNext]_allVars => KeepInv'
  <2> SUFFICES ASSUME BackupInv, TypeOK, TypeOK', Holds, Holds', ReaderInv, ReaderInv', KeepInv,
                      [BackupNext]_allVars
               PROVE  KeepInv'
    OBVIOUS
  <2>1. CASE [Next]_vars
    BY <2>1, KeepStep
  <2>2. CASE LockOnly
    BY <2>2, LockOnlyStep
  <2>3. QED
    BY <2>1, <2>2, SwapStepOrLockOnly
<1>3. TypeOK /\ KeepInv => CandidateKept
  BY DEF KeepInv, TypeOK, CandidateKept
<1>4. QED
  BY <1>1, <1>2, <1>3, ReadersBesideBackups, PTL DEF BackupSpec

-----------------------------------------------------------------------------
(* Every published snapshot is the state the database has at that instant. *)

\* A step of the swap copies nothing, and moves no file under a copy.
LEMMA SwapBesideCopies ==
    ASSUME BackupInv, NEW p \in Servers, RestorePending(p)
    PROVE  /\ UNCHANGED <<step, stage>>
           /\ UNCHANGED <<data, txVars>> \/ \A a \in Callers : step[a] \notin Locked
<1> USE RestoreSwapAssumption, BackupAssumption
<1> USE DEF BackupInv, BackupTypeOK, TypeOK, HolderInv, Holding, Location, Swapping, Running, files, commands
<1> DEFINE Beside ==
      /\ pc[p] # "open" /\ tool' = tool
      /\ \A q \in Servers \ {p} : pc'[q] = pc[q]
      /\ lock' = lock \/ lock = p \/ lock = None
      /\ lock = p \/ data' = data
<1>1. Forget(p) /\ FollowSwap /\ ApplyPending(p)
  BY DEF RestorePending
<1>2. ASSUME ReadState(p) PROVE Beside
  BY <1>2 DEF ReadState
<1>3. ASSUME AcquireForRestore(p) PROVE Beside
  BY <1>3 DEF AcquireForRestore, Exit
<1>4. ASSUME Inspect(p) PROVE Beside
  BY <1>4 DEF Inspect
<1>5. ASSUME MoveOld(p) PROVE Beside
  BY <1>5 DEF MoveOld, Exit
<1>6. ASSUME RenameOld(p) PROVE Beside
  BY <1>6 DEF RenameOld, Renamed, Exit
<1>7. ASSUME MarkOldMoved(p) PROVE Beside
  BY <1>7 DEF MarkOldMoved
<1>8. ASSUME MoveNew(p) PROVE Beside
  BY <1>8 DEF MoveNew, Exit
<1>9. ASSUME RenameNew(p) PROVE Beside
  BY <1>9 DEF RenameNew, Renamed
<1>10. ASSUME MarkNewMoved(p) PROVE Beside
  BY <1>10 DEF MarkNewMoved
<1>11. ASSUME RemoveEntry(p) PROVE Beside
  BY <1>11 DEF RemoveEntry
<1>12. ASSUME RemoveMarker(p) PROVE Beside
  BY <1>12 DEF RemoveMarker, Exit
<1>13. Beside
  BY <1>1, <1>2, <1>3, <1>4, <1>5, <1>6, <1>7, <1>8, <1>9, <1>10, <1>11, <1>12 DEF ApplyPending
<1>14. data' = data => UNCHANGED txVars
  BY <1>1 DEF FollowSwap, txVars
<1> HIDE DEF BackupInv
<1>15. UNCHANGED <<step, stage>>
  BY <1>1, <1>13, SwapLeavesBackups
<1>16. QED
  BY <1>13, <1>14, <1>15, NobodyCopies

\* A database without pages beside the WAL of another one is not migrated, and
\* no server has it open.
FreshInv ==
    data["db"] = Fresh /\ data["wal"] # Fresh =>
        /\ data["wal"] # None => committed = 0
        /\ \A p \in Servers : pc[p] \notin Running

\* Every step keeps it.
LEMMA FreshStep ==
    ASSUME BackupInv, BackupInv', ReaderInv, WALInv, FreshInv, [BackupNext]_allVars
    PROVE  FreshInv'
<1> USE RestoreSwapAssumption, BackupAssumption
<1> USE DEF BackupInv, BackupTypeOK, TypeOK, HolderInv, FreshInv, Holding, Location, Swapping, Running, Names,
            files, commands, txVars
<1> DEFINE Same == UNCHANGED <<data, committed>> /\ \A q \in Servers : pc'[q] \in Running => pc[q] \in Running
<1>1. Same => FreshInv'
  OBVIOUS
<1>2. ASSUME NEW p \in Servers, RestorePending(p), ~RenameOld(p), ~RenameNew(p) PROVE Same
  <2>1. FollowSwap /\ ApplyPending(p)
    BY <1>2 DEF RestorePending
  <2>2. CASE ReadState(p)
    BY <2>1, <2>2 DEF ReadState, FollowSwap
  <2>3. CASE AcquireForRestore(p)
    BY <2>1, <2>3 DEF AcquireForRestore, Exit, FollowSwap
  <2>4. CASE Inspect(p)
    BY <2>1, <2>4 DEF Inspect, FollowSwap
  <2>5. CASE MoveOld(p)
    BY <2>1, <2>5 DEF MoveOld, Exit, FollowSwap
  <2>6. CASE MarkOldMoved(p)
    BY <2>1, <2>6 DEF MarkOldMoved, FollowSwap
  <2>7. CASE MoveNew(p)
    BY <2>1, <2>7 DEF MoveNew, Exit, FollowSwap
  <2>8. CASE MarkNewMoved(p)
    BY <2>1, <2>8 DEF MarkNewMoved, FollowSwap
  <2>9. CASE RemoveEntry(p)
    BY <2>1, <2>9 DEF RemoveEntry, FollowSwap
  <2>10. CASE RemoveMarker(p)
    BY <2>1, <2>10 DEF RemoveMarker, Exit, FollowSwap
  <2>11. QED
    BY <1>2, <2>1, <2>2, <2>3, <2>4, <2>5, <2>6, <2>7, <2>8, <2>9, <2>10 DEF ApplyPending
<1>3. ASSUME NEW p \in Servers, RestorePending(p), RenameOld(p) PROVE FreshInv'
  <2>1. lock = p /\ FollowSwap /\ \A q \in Servers : pc'[q] \notin Running
    BY <1>3 DEF RestorePending, RenameOld, Renamed, Exit
  <2>2. \/ data' = data
        \/ data'["db"] = None
        \/ data'["db"] = data["db"] /\ data'["wal"] = None
    BY <1>3 DEF RenameOld, managedNames, Files
  <2>3. QED
    BY <2>1, <2>2 DEF FollowSwap
<1>4. ASSUME NEW p \in Servers, RestorePending(p), RenameNew(p) PROVE FreshInv'
  <2>1. lock = p /\ \A q \in Servers : pc'[q] \notin Running
    BY <1>4 DEF RestorePending, RenameNew, Renamed
  <2>2. idx[p] = 1 /\ pend[p] \in Works /\ cand[pend[p]]["db"] # None /\ "old-moved" \in work[pend[p]]
        /\ data["db"] = None
    BY <1>4 DEF RenameNew, ReaderInv, WALInv
  <2>3. data["wal"] = None
    BY <2>2 DEF WALInv
  <2>4. data'["wal"] = data["wal"]
    BY <1>4, <2>2 DEF RenameNew, managedNames
  <2>5. QED
    BY <2>1, <2>3, <2>4
<1>5. ASSUME NEW p \in Servers, Serve(p) PROVE FreshInv'
  <2>1. CASE lock # None
    <3>1. Same
      BY <1>5, <2>1 DEF Serve, OpenDatabase, Exit
    <3>2. QED
      BY <1>1, <3>1
  <2>2. CASE lock = None
    <3>1. data' = InWALMode(data)
      BY <1>5, <2>2 DEF Serve, OpenDatabase
    <3>2. QED
      BY <3>1 DEF InWALMode
  <2>3. QED
    BY <2>1, <2>2
<1>6. ASSUME NEW p \in Servers, Commit(p) PROVE FreshInv'
  BY <1>6 DEF Commit, vars
<1>7. ASSUME NEW p \in Servers, PrepareFromSnapshot(p) PROVE Same
  <2>1. UNCHANGED committed /\ Prepare(p)
    BY <1>7 DEF PrepareFromSnapshot, backupVars
  <2>2. CASE PrepareBegin(p)
    BY <2>1, <2>2 DEF PrepareBegin
  <2>3. CASE PrepareCandidate(p)
    BY <2>1, <2>3 DEF PrepareCandidate
  <2>4. CASE PrepareFail(p)
    BY <2>1, <2>4 DEF PrepareFail
  <2>5. CASE WriteState(p)
    BY <2>1, <2>5 DEF WriteState
  <2>6. QED
    BY <2>1, <2>2, <2>3, <2>4, <2>5 DEF Prepare
<1>8. ASSUME NEW p \in Servers, StopServing(p) PROVE FreshInv'
  <2>1. UNCHANGED committed /\ data' = Closed /\ \A q \in Servers : pc'[q] \notin Running
    BY <1>8 DEF StopServing, FollowClose, Stop, Exit
  <2>2. QED
    BY <2>1 DEF Closed, Files
<1>9. ASSUME NEW p \in Servers, CrashServer(p) PROVE Same
  BY <1>9 DEF CrashServer, Crash, Exit
<1>10. CASE Check
  <2>1. CASE CheckStart
    BY <2>1 DEF CheckStart, InWALMode
  <2>2. CASE CheckEnd
    <3>1. lock = "check" /\ data' = Closed /\ pc' = pc
      BY <2>2 DEF CheckEnd
    <3>2. UNCHANGED committed
      <4>1. ~CheckStart
        BY <2>2 DEF CheckStart, CheckEnd
      <4>2. QED
        BY <1>10, <4>1 DEF Check, FollowClose
    <3>3. QED
      BY <3>1, <3>2 DEF Closed, Files
  <2>3. QED
    BY <1>10, <2>1, <2>2 DEF Check
<1>11. ASSUME NEW p \in Servers, Queue(p) \/ LookForRequest(p) PROVE Same
  BY <1>11 DEF Queue, LookForRequest, vars
<1>12. ASSUME NEW p \in Servers, Unqueue(p) PROVE Same
  BY <1>12 DEF Unqueue, Exit, vars
<1>13. CASE CommandOpens
  <2>1. data' = [data EXCEPT !["db"] = Opened(data)] /\ committed' = Found /\ pc' = pc
    BY <1>13 DEF CommandOpens, BackupOpen
  <2>2. CASE data["db"] = None
    BY <2>1, <2>2 DEF Found, MergedInv
  <2>3. CASE data["db"] # None
    <3>1. Same
      BY <2>1, <2>3 DEF Found, Opened, Files
    <3>2. QED
      BY <1>1, <3>1
  <2>4. QED
    BY <2>2, <2>3
<1>14. CASE CommandAccesses
  <2>1. /\ tool["backup"] = "file"
        /\ data' = [data EXCEPT !["wal"] = held] \/ (held # Fresh /\ data' = data)
    BY <1>14 DEF CommandAccesses, BackupAccess
  <2>2. data["db"] = held
    BY <2>1 DEF WALInv
  <2>3. data'["db"] = Fresh => data'["wal"] = Fresh
    BY <2>1, <2>2 DEF Files
  <2>4. QED
    BY <2>3
<1>15. CASE CommandCloses
  <2>1. UNCHANGED <<committed, pc>>
    BY <1>15 DEF CommandCloses, BackupClose
  <2>2. \/ data' = data
        \/ ~DatabaseOpen /\ data' = [data EXCEPT !["wal"] = None]
    BY <1>15 DEF CommandCloses, BackupClose
  <2>3. QED
    BY <2>1, <2>2 DEF DatabaseOpen, Files
<1>16. CASE CommandKilled
  BY <1>16 DEF CommandKilled, CommandDies, backupVars
<1>17. CASE CommandLocates \/ CommandRefused
  BY <1>17 DEF CommandLocates, CommandRefused, vars, backupVars
<1>18. ASSUME NEW a \in Callers, Create(a) PROVE Same
  BY <1>18 DEF Create, AcquireForBackup, Inventory, CopyBegin, CopyEnd, CopyDone, Validate, Publish,
               CreateFails, End, vars
<1>19. CASE UNCHANGED allVars
  BY <1>19 DEF allVars, vars, backupVars
<1> HIDE DEF BackupInv, FreshInv
<1>20. QED
  BY <1>1, <1>2, <1>3, <1>4, <1>5, <1>6, <1>7, <1>8, <1>9, <1>10, <1>11, <1>12, <1>13, <1>14, <1>15, <1>16, <1>17, <1>18, <1>19
     DEF BackupNext

\* A copied WAL belongs to the copied database, or that one will be refused.
Paired(c) == c.gen = data["db"] \/ (data["db"] = Fresh /\ copied["db"].tx = 0)

PairedAt(a) ==
    /\ step[a] = "copying" /\ todo = {"wal"} => Paired(reading)
    /\ step[a] = "validate" /\ copied["wal"] # None => Paired(copied["wal"])
    /\ step[a] = "publish" =>
          committed > 0 /\ copied["db"] = [gen |-> data["db"], tx |-> committed]

PairInv == \A a \in Callers : PairedAt(a)

\* Where a copy stands still, or ends, what it holds is still so.
LEMMA PairKept ==
    ASSUME PairInv, NEW a \in Callers,
           step'[a] = step[a] \/ step'[a] \notin Copying,
           step'[a] = step[a] /\ step[a] \in Copying =>
              /\ UNCHANGED stage
              /\ data'["db"] = data["db"]
              /\ committed > 0 => committed' = committed
    PROVE  PairedAt(a)'
<1>1. CASE step'[a] \notin Copying
  BY <1>1 DEF PairedAt, Copying
<1>2. CASE step'[a] = step[a] /\ step[a] \in Copying
  <2>1. UNCHANGED <<todo, reading, copied>> /\ data'["db"] = data["db"] /\ PairedAt(a)
        /\ (committed > 0 => committed' = committed)
    BY <1>2 DEF PairInv, stage
  <2>2. QED
    BY <1>2, <2>1 DEF PairedAt, Paired
<1>3. QED
  BY <1>1, <1>2

\* Every step of a copy pairs its files.
LEMMA PairCreates ==
    ASSUME BackupInv, WALInv, FreshInv, PairInv, NEW a \in Callers, Create(a)
    PROVE  PairInv'
<1> USE RestoreSwapAssumption, BackupAssumption
<1> USE DEF BackupInv, BackupTypeOK, Callers, Locked, Copying
<1>1. ASSUME NEW b \in Callers \ {a} PROVE PairedAt(b)'
  <2>1. step'[b] = step[b]
    BY DEF Create, AcquireForBackup, Inventory, CopyBegin, CopyEnd, CopyDone, Validate, Publish,
           CreateFails, End, Advance
  <2>2. UNCHANGED <<data, committed>>
    BY DEF Create, AcquireForBackup, Inventory, CopyBegin, CopyEnd, CopyDone, Validate, Publish,
           CreateFails, End, vars, files, txVars
  <2>3. ASSUME step[b] \in Copying PROVE UNCHANGED stage
    <3>1. lock = b /\ step[a] \notin Locked
      BY <2>3 DEF CallerOK
    <3>2. AcquireForBackup(a)
      BY <3>1 DEF Create, Inventory, CopyBegin, CopyEnd, Validate, Publish, CreateFails
    <3>3. End(a)
      BY <3>1, <3>2 DEF AcquireForBackup
    <3>4. QED
      BY <3>1, <3>3 DEF End
  <2>4. QED
    BY <2>1, <2>2, <2>3, PairKept
<1>2. CASE CopyBegin(a)
  <2>1. /\ step[a] = "copy" /\ data[NextFile] # None /\ reading' = Held(NextFile)
        /\ NextFile = "wal" /\ copied["db"] # Torn => copied["db"].tx = merged
        /\ step'[a] = "copying" /\ UNCHANGED <<data, committed, todo, copied>>
    BY <1>2 DEF CopyBegin, Advance, vars, files, txVars
  <2>2. ASSUME todo = {"wal"} PROVE Paired(reading)'
    <3>1. reading'.gen = data["wal"] /\ data["wal"] # None /\ copied["db"] \in Content
      BY <2>1, <2>2 DEF Held, NextFile, CopyInv, StagedAt
    <3>2. copied["db"].tx = merged /\ merged \in 0..committed
      BY <2>1, <2>2, <3>1 DEF NextFile
    <3>3. data["db"] # None
      BY <2>1 DEF CopyInv, StagedAt
    <3>4. data["wal"] = data["db"] \/ (data["db"] = Fresh /\ committed = 0)
      BY <3>1, <3>3 DEF WALInv, FreshInv
    <3>5. committed = 0 => copied["db"].tx = 0
      BY <3>2
    <3>6. QED
      BY <2>1, <3>1, <3>4, <3>5 DEF Paired
  <2>3. PairedAt(a)'
    BY <2>1, <2>2 DEF PairedAt
  <2>4. QED
    BY <1>1, <2>3 DEF PairInv
<1>3. CASE CopyEnd(a)
  <2>1. /\ step[a] = "copying" /\ copied' = [copied EXCEPT ![NextFile] = reading]
        /\ todo' = todo \ {NextFile}
        /\ step'[a] = IF todo = {NextFile} THEN "validate" ELSE "copy"
        /\ UNCHANGED <<data, committed>>
    BY <1>3 DEF CopyEnd, CopyDone, Advance, vars, files, txVars
  <2>2. StagedAt(a) /\ PairedAt(a)
    BY DEF CopyInv, PairInv
  <2>3. ASSUME step'[a] = "validate", copied'["wal"] # None PROVE Paired(copied["wal"])'
    <3>1. todo = {NextFile}
      BY <2>1, <2>3
    <3>2. NextFile = "wal"
      BY <2>1, <2>2, <2>3 DEF NextFile, StagedAt, Names
    <3>3. Paired(reading)
      BY <2>1, <2>2, <3>1, <3>2 DEF PairedAt
    <3>4. copied'["wal"] = reading /\ copied'["db"] = copied["db"]
      BY <2>1, <3>2 DEF Names
    <3>5. QED
      BY <2>1, <3>3, <3>4 DEF Paired
  <2>4. PairedAt(a)'
    BY <2>1, <2>3 DEF PairedAt
  <2>5. QED
    BY <1>1, <2>4 DEF PairInv
<1>4. CASE Validate(a)
  <2>1. /\ step[a] = "validate" /\ (Opening # Torn => Opening.tx > 0)
        /\ copied' = [NoFiles EXCEPT !["db"] = Opening]
        /\ step'[a] = "publish" /\ UNCHANGED <<data, committed>>
    BY <1>4 DEF Validate, Advance, vars, files, txVars
  <2>2. StagedAt(a) /\ PairedAt(a)
    BY DEF CopyInv, PairInv
  <2>3. copied["db"] \in Content /\ copied["db"].gen = data["db"]
    BY <2>1, <2>2 DEF StagedAt
  <2>4. Opening = [gen |-> data["db"], tx |-> Opening.tx] /\ Faithful(Opening.tx) /\ Opening # Torn
    <3>1. CASE copied["wal"] = None
      <4>1. Opening = copied["db"] /\ Faithful(copied["db"].tx)
        BY <2>1, <2>2, <2>3, <3>1 DEF Opening, StagedAt
      <4>2. QED
        BY <2>3, <4>1 DEF Content
    <3>2. CASE copied["wal"] # None
      <4>1. copied["wal"] \in Content /\ Faithful(copied["wal"].tx) /\ Paired(copied["wal"])
        BY <2>1, <2>2, <3>2 DEF StagedAt, PairedAt
      <4>2. Torn \notin {copied["db"], copied["wal"]}
        BY <2>3, <4>1
      <4>3. CASE copied["wal"].gen = copied["db"].gen
        <5>1. Opening = [copied["db"] EXCEPT !.tx = copied["wal"].tx]
          BY <3>2, <4>2, <4>3 DEF Opening
        <5>2. Opening = [gen |-> data["db"], tx |-> copied["wal"].tx]
          BY <2>3, <5>1 DEF Content
        <5>3. Opening \in Content
          BY <2>3, <4>1, <5>2 DEF Content
        <5>4. QED
          BY <4>1, <5>2, <5>3
      <4>4. CASE copied["wal"].gen # copied["db"].gen
        <5>1. data["db"] = Fresh /\ copied["db"].tx = 0
          BY <2>3, <4>1, <4>4 DEF Paired
        <5>2. Opening = copied["db"]
          BY <2>3, <3>2, <4>2, <4>4, <5>1 DEF Opening
        <5>3. QED
          BY <2>1, <2>3, <5>1, <5>2
      <4>5. QED
        BY <4>3, <4>4
    <3>3. QED
      BY <3>1, <3>2
  <2>5. Opening.tx = committed /\ committed > 0
    BY <2>1, <2>4 DEF Faithful
  <2>6. copied'["db"] = Opening
    BY <2>1 DEF NoFiles, Names
  <2>7. PairedAt(a)'
    BY <2>1, <2>4, <2>5, <2>6 DEF PairedAt
  <2>8. QED
    BY <1>1, <2>7 DEF PairInv
<1>5. CASE AcquireForBackup(a) \/ Inventory(a) \/ Publish(a) \/ CreateFails(a)
  <2>1. step'[a] \in {"inventory", "copy", "look", "unqueue"}
    BY <1>5 DEF AcquireForBackup, Inventory, Publish, CreateFails, End, Advance
  <2>2. PairedAt(a)'
    BY <2>1 DEF PairedAt
  <2>3. QED
    BY <1>1, <2>2 DEF PairInv
<1>6. QED
  BY <1>2, <1>3, <1>4, <1>5 DEF Create

\* No step of anyone else does harm to the files of a copy.
LEMMA PairStep ==
    ASSUME BackupInv, WALInv, FreshInv, PairInv, [BackupNext]_allVars
    PROVE  PairInv'
<1> USE RestoreSwapAssumption, BackupAssumption
<1> USE DEF BackupInv, BackupTypeOK, TypeOK, HolderInv, Holding, Location, Swapping, Running, Callers,
            Locked, Copying, Names, files, commands, txVars, stage
<1> DEFINE Beside ==
      \A a \in Callers :
        /\ step'[a] = step[a] \/ step'[a] \notin Copying
        /\ step'[a] = step[a] /\ step[a] \in Copying =>
              /\ UNCHANGED stage
              /\ data'["db"] = data["db"]
              /\ committed > 0 => committed' = committed
<1>1. Beside => PairInv'
  <2> HIDE DEF Copying, stage, BackupInv
  <2>1. ASSUME Beside, NEW a \in Callers PROVE PairedAt(a)'
    BY <2>1, PairKept
  <2>2. QED
    BY <2>1 DEF PairInv
<1>2. ASSUME NEW p \in Servers, RestorePending(p) PROVE Beside
  BY <1>2, SwapBesideCopies
<1>3. ASSUME NEW p \in Servers, Serve(p) PROVE Beside
  <2>1. step' = [step EXCEPT ![p] = "look"] /\ UNCHANGED stage
    BY <1>3 DEF Serve, OpenDatabase, Exit, Forget
  <2>2. CASE lock # None
    BY <1>3, <2>1, <2>2 DEF Serve, OpenDatabase, Exit
  <2>3. CASE lock = None
    BY <2>1, <2>3 DEF CallerOK
  <2>4. QED
    BY <2>2, <2>3
<1>4. ASSUME NEW p \in Servers, Commit(p) PROVE Beside
  <2>1. lock = p /\ pc[p] # "open" /\ step' = step
    BY <1>4 DEF Commit
  <2>2. QED
    BY <2>1, NobodyCopies
<1>5. ASSUME NEW p \in Servers, PrepareFromSnapshot(p) PROVE Beside
  <2>1. UNCHANGED backupVars /\ data' = data
    BY <1>5 DEF PrepareFromSnapshot, Prepare, PrepareBegin, PrepareCandidate, PrepareFail, WriteState
  <2>2. QED
    BY <2>1 DEF backupVars
<1>6. ASSUME NEW p \in Servers, StopServing(p) PROVE Beside
  <2>1. lock = p /\ pc[p] # "open" /\ step' = [step EXCEPT ![p] = "look"]
    BY <1>6 DEF StopServing, Stop, Exit, Forget
  <2>2. QED
    BY <2>1, NobodyCopies
<1>7. ASSUME NEW p \in Servers, CrashServer(p) PROVE Beside
  <2>1. /\ step' = [step EXCEPT ![p] = "look"] /\ UNCHANGED <<data, committed>>
        /\ (lock = p /\ step[p] \in Locked) \/ UNCHANGED stage
    BY <1>7 DEF CrashServer, Crash, Exit, Forget
  <2>2. \A a \in Callers : step[a] \in Copying => lock = a
    BY DEF CallerOK
  <2>3. step'[p] = "look" /\ "look" \notin Copying
    BY <2>1
  <2>4. QED
    BY <2>1, <2>2, <2>3
<1>8. ASSUME NEW p \in Servers, Queue(p) \/ LookForRequest(p) PROVE Beside
  BY <1>8 DEF Queue, LookForRequest, vars
<1>9. ASSUME NEW p \in Servers, Unqueue(p) PROVE Beside
  <2>1. step[p] = "unqueue" /\ UNCHANGED <<data, committed, stage>>
    BY <1>9 DEF Unqueue, Exit, Forget, vars
  <2>2. step' = [step EXCEPT ![p] = "start"] \/ step' = [step EXCEPT ![p] = "look"]
    BY <1>9 DEF Unqueue, Exit, Forget
  <2>3. QED
    BY <2>1, <2>2
<1>10. ASSUME Check PROVE Beside
  <2>1. lock \in {None, "check"} /\ step' = step
    BY <1>10 DEF Check, CheckStart, CheckEnd
  <2>2. \A a \in Callers : step[a] \notin Locked
    BY <2>1 DEF CallerOK
  <2>3. QED
    BY <2>1, <2>2
<1>11. ASSUME CommandOpens PROVE Beside
  <2>1. /\ data' = [data EXCEPT !["db"] = Opened(data)] /\ committed' = Found
        /\ UNCHANGED <<step, stage>>
    BY <1>11 DEF CommandOpens, BackupOpen
  <2>2. \A a \in Callers : step[a] \in Copying => data["db"] # None
    BY DEF CopyInv, StagedAt
  <2>3. data["db"] # None => data'["db"] = data["db"] /\ committed' = committed
    BY <2>1 DEF Opened, Found, Files
  <2>4. QED
    BY <2>1, <2>2, <2>3
<1>12. ASSUME CommandAccesses PROVE Beside
  <2>1. data'["db"] = data["db"] /\ UNCHANGED <<step, stage>>
    BY <1>12 DEF CommandAccesses, BackupAccess, Files
  <2>2. committed > 0 => committed' = committed
    BY <1>12 DEF CommandAccesses, Migrated
  <2>3. QED
    BY <2>1, <2>2
<1>13. ASSUME CommandCloses PROVE Beside
  BY <1>13 DEF CommandCloses, BackupClose, Files
<1>14. ASSUME CommandKilled PROVE Beside
  BY <1>14 DEF CommandKilled, CommandDies, backupVars
<1>15. ASSUME CommandLocates \/ CommandRefused PROVE Beside
  BY <1>15 DEF CommandLocates, CommandRefused, vars, backupVars
<1>16. ASSUME NEW a \in Callers, Create(a) PROVE PairInv'
  <2> HIDE DEF BackupInv, Callers
  <2>1. QED
    BY <1>16, PairCreates
<1>17. ASSUME UNCHANGED allVars PROVE Beside
  BY <1>17 DEF allVars, vars, backupVars
<1> HIDE DEF BackupInv, Beside
<1>18. QED
  BY <1>1, <1>2, <1>3, <1>4, <1>5, <1>6, <1>7, <1>8, <1>9, <1>10, <1>11, <1>12, <1>13, <1>14, <1>15, <1>16, <1>17
     DEF BackupNext

\* Every published snapshot is the state the database has at that instant.
LEMMA BackupStepRefines ==
    ASSUME BackupInv, PairInv, [BackupNext]_allVars
    PROVE  [Store!Next]_<<IF data["db"] = None THEN None ELSE [gen |-> data["db"], tx |-> committed], snapshots>>
<1> DEFINE Current == IF data["db"] = None THEN None ELSE [gen |-> data["db"], tx |-> committed]
<1>1. ASSUME UNCHANGED snapshots PROVE [Store!Next]_<<Current, snapshots>>
  BY <1>1 DEF Store!Next, Store!Change
<1>2. ASSUME NEW a \in Callers, Publish(a) PROVE Store!Take(target[a]) /\ target[a] \in Snaps
  <2>1. step[a] = "publish" /\ snapshots[target[a]] = None /\ UNCHANGED <<data, committed>>
        /\ snapshots' = [snapshots EXCEPT ![target[a]] = copied["db"]]
    BY <1>2 DEF Publish, End, files, txVars
  <2>2. StagedAt(a) /\ CallerOK(a) /\ PairedAt(a)
    BY DEF BackupInv, BackupTypeOK, CopyInv, PairInv
  <2>3. copied["db"] = [gen |-> data["db"], tx |-> committed] /\ data["db"] # None /\ target[a] \in Snaps
    BY <2>1, <2>2 DEF StagedAt, PairedAt, Copying, CallerOK, Locked
  <2>4. [gen |-> data["db"], tx |-> committed] # None
    <3>1. [gen |-> data["db"], tx |-> committed] \in Content
      BY <2>3 DEF BackupInv, BackupTypeOK, TypeOK, Files, Names, Content
    <3>2. QED
      BY <3>1, BackupAssumption
  <2>5. QED
    BY <2>1, <2>3, <2>4 DEF Store!Take
<1>3. ASSUME NEW a \in Callers, Create(a) PROVE [Store!Next]_<<Current, snapshots>>
  <2>1. CASE Publish(a)
    BY <1>2, <2>1 DEF Store!Next
  <2>2. CASE ~Publish(a)
    BY <1>1, <1>3, <2>2
       DEF Create, AcquireForBackup, Inventory, CopyBegin, CopyEnd, CopyDone, Validate, CreateFails
  <2>3. QED
    BY <2>1, <2>2
<1>4. ASSUME NEW p \in Servers,
             RestorePending(p) \/ Serve(p) \/ Commit(p) \/ PrepareFromSnapshot(p) \/ StopServing(p)
             \/ CrashServer(p) \/ Queue(p) \/ LookForRequest(p) \/ Unqueue(p)
      PROVE  UNCHANGED snapshots
  BY <1>4 DEF RestorePending, Serve, Commit, PrepareFromSnapshot, backupVars, StopServing,
              CrashServer, Queue, LookForRequest, Unqueue
<1>5. ASSUME Check \/ CommandOpens \/ CommandAccesses \/ CommandCloses \/ CommandKilled
             \/ CommandLocates \/ CommandRefused \/ UNCHANGED allVars
      PROVE  UNCHANGED snapshots
  BY <1>5 DEF Check, CommandOpens, CommandAccesses, CommandCloses, CommandKilled, CommandLocates,
              CommandRefused, backupVars, allVars
<1>6. QED
  BY <1>1, <1>3, <1>4, <1>5 DEF BackupNext

\* Backup implements SnapshotStore: a snapshot is taken in one instant, of
\* the state with all committed transactions, and never changes.  The `backup`
\* command may have the database open across any steps of a copy; across a
\* move of the swap it may not, which the code does not ensure.
THEOREM BackupRefinesSnapshotStore ==
    ASSUME Alone, ~OpenDuringSwap
    PROVE  BackupSpec => SnapshotsAreAtomic
<1>1. BackupInit => Store!Init /\ FreshInv /\ PairInv
  BY RestoreSwapAssumption
     DEF BackupInit, Init, Store!Init, FreshInv, PairInv, PairedAt, Names, Callers
<1>2. BackupInv /\ BackupInv' /\ ReaderInv /\ WALInv /\ FreshInv /\ [BackupNext]_allVars => FreshInv'
  BY FreshStep
<1>3. BackupInv /\ WALInv /\ FreshInv /\ PairInv /\ [BackupNext]_allVars => PairInv'
  BY PairStep
<1>4. BackupInv /\ PairInv /\ [BackupNext]_allVars
         => [Store!Next]_<<IF data["db"] = None THEN None ELSE [gen |-> data["db"], tx |-> committed], snapshots>>
  BY BackupStepRefines
<1>5. QED
  BY <1>1, <1>2, <1>3, <1>4, WALsBesideBackups, PTL DEF BackupSpec, SnapshotsAreAtomic, Store!Spec
=============================================================================
