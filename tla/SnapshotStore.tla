--------------------------- MODULE SnapshotStore ---------------------------
(***************************************************************************)
(* What a backup promises (docs/BACKUP.md): the database goes through      *)
(* states, a snapshot is taken in one instant of the state the database is *)
(* in at that instant, and a snapshot that exists never changes.           *)
(***************************************************************************)
CONSTANTS Snaps, None

VARIABLES
    current,   \* the committed state of the database, None when it has none
    snapshots  \* name -> the state it preserves, or None

Init == snapshots = [n \in Snaps |-> None]

\* Transactions, migrations and restores.
Change ==
    /\ current' # current
    /\ UNCHANGED snapshots

Take(n) ==
    /\ snapshots[n] = None
    /\ current # None
    /\ snapshots' = [snapshots EXCEPT ![n] = current]
    /\ UNCHANGED current

Next == Change \/ \E n \in Snaps : Take(n)

Spec == Init /\ [][Next]_<<current, snapshots>>
=============================================================================
