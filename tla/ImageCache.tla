----------------------------- MODULE ImageCache -----------------------------
(***************************************************************************)
(* The cache of derived images (internal/imagecache.Service) for one       *)
(* canonical key: a row of image_cache, the file it refers to, and the     *)
(* flight that makes concurrent misses share one transformation.  A        *)
(* request looks at the cache once before it joins a flight and, when it   *)
(* leads one, once more inside it; an unusable entry is invalidated, row   *)
(* first, by whoever finds it.                                             *)
(*                                                                         *)
(* Abstractions: keys do not interact, so there is one; the image bytes    *)
(* are good or damaged; a call that takes the request's context, or talks  *)
(* to the database or the disk, may always fail.                           *)
(***************************************************************************)
EXTENDS Naturals, FiniteSets

CONSTANTS
    Requests,   \* the requests for the key being served at the same time
    None,       \* no file, no flight, no reason
    MaxDamage,  \* bound: how often the cached file is damaged or deleted
    MayCrash    \* may the process die?

ASSUME ImageCacheAssumption ==
    /\ None \notin Requests \cup {"good", "damaged", "crash", "unremoved"}
    /\ MaxDamage \in Nat
    /\ MayCrash \in BOOLEAN

VARIABLES
    row,      \* is there a row for the key?
    file,     \* the file of the key: good, damaged, or None
    flight,   \* the request that leads the flight of the key, or None
    pc,       \* request -> its next step
    damage,   \* how often the file was damaged
    left      \* why the file has no row, if the code let go of it: a crash, or
              \* a removal that failed; None otherwise (history)

vars == <<row, file, flight, pc, damage, left>>

Steps == {"idle", "load", "read", "deleteRow", "deleteFile", "join", "wait",
          "transform", "publish", "insert", "rollback", "land"}

\* The steps only the leader of the flight takes.
LeaderSteps == {"transform", "publish", "insert", "rollback", "land"}

\* Every variable has its type, a reason is that of the present file, the
\* leader of the flight is inside its operation, and nobody waits for a flight
\* that is gone.
TypeOK ==
    /\ row \in BOOLEAN
    /\ file \in {None, "good", "damaged"}
    /\ flight \in Requests \cup {None}
    /\ pc \in [Requests -> Steps]
    /\ damage \in 0..MaxDamage
    /\ left \in {None, "crash", "unremoved"}
    /\ left # None => file # None /\ ~row
    /\ flight # None => pc[flight] \in LeaderSteps \cup {"load", "read", "deleteRow", "deleteFile"}
    /\ \A r \in Requests : pc[r] = "wait" => flight # None

Init ==
    /\ row = FALSE
    /\ file = None
    /\ flight = None
    /\ pc = [r \in Requests |-> "idle"]
    /\ damage = 0
    /\ left = None

Goto(r, step) == pc' = [pc EXCEPT ![r] = step]

Leads(r) == flight = r

\* A usable entry was found, or a call failed: a leader hands the outcome to
\* its flight, anybody else answers.
Return(r) == Goto(r, IF Leads(r) THEN "land" ELSE "idle")

\* RemoveFile takes the file; not finding it is no error.
Removed ==
    /\ file' = None
    /\ left' = None

\* RemoveFile fails: a file without a row stays, and nobody comes back for it.
Unremoved ==
    /\ file' = file
    /\ left' = IF file # None /\ ~row THEN "unremoved" ELSE left

\* The cache has no entry: a leader creates it, anybody else joins the flight.
Miss(r) == Goto(r, IF Leads(r) THEN "transform" ELSE "join")

-----------------------------------------------------------------------------
(* load: look the key up, read its file, invalidate an unusable entry      *)

Start(r) ==
    /\ pc[r] = "idle"
    /\ Goto(r, "load")
    /\ UNCHANGED <<row, file, flight, damage, left>>

LoadRow(r) ==
    /\ pc[r] = "load"
    /\ \/ row /\ Goto(r, "read")
       \/ ~row /\ Miss(r)
       \/ Return(r)
    /\ UNCHANGED <<row, file, flight, damage, left>>

\* A missing or damaged file makes the entry unusable.
ReadFile(r) ==
    /\ pc[r] = "read"
    /\ \/ file = "good" /\ Return(r)
       \/ file # "good" /\ Goto(r, "deleteRow")
       \/ Return(r)
    /\ UNCHANGED <<row, file, flight, damage, left>>

\* invalidate deletes whatever row the key has by now...
InvalidateRow(r) ==
    /\ pc[r] = "deleteRow"
    /\ \/ row' = FALSE /\ Goto(r, "deleteFile")
       \/ row' = row /\ Return(r)
    /\ UNCHANGED <<file, flight, damage, left>>

\* Mutant: the file of a stale entry is kept.
InvalidateFileKeeps(r) ==
    /\ pc[r] = "deleteFile"
    /\ Miss(r)
    /\ UNCHANGED <<row, file, flight, damage, left>>

\* ...and whatever file is at its path, which may fail when the row is gone.
InvalidateFile(r) ==
    /\ pc[r] = "deleteFile"
    /\ \/ Removed /\ Miss(r)
       \/ Unremoved /\ Return(r)
    /\ UNCHANGED <<row, flight, damage>>

-----------------------------------------------------------------------------
(* do: one flight for the key                                              *)

\* Mutant: a request does not look for the flight of another.
JoinAlways(r) ==
    /\ pc[r] = "join"
    /\ flight' = r
    /\ Goto(r, "load")
    /\ UNCHANGED <<row, file, damage, left>>

\* Lead a new flight, or wait for the one that is there.
Join(r) ==
    /\ pc[r] = "join"
    /\ \/ flight = None /\ flight' = r /\ Goto(r, "load")
       \/ flight # None /\ Goto(r, "wait") /\ UNCHANGED flight
    /\ UNCHANGED <<row, file, damage, left>>

\* The client of a waiting request went away.
GiveUp(r) ==
    /\ pc[r] = "wait"
    /\ Goto(r, "idle")
    /\ UNCHANGED <<row, file, flight, damage, left>>

\* Mutant: the flight is deleted but its channel is not closed.
LandSilently(r) ==
    /\ pc[r] = "land"
    /\ flight' = None
    /\ Goto(r, "idle")
    /\ UNCHANGED <<row, file, damage, left>>

\* The flight ends: its requests get the outcome, image or error.
Land(r) ==
    /\ pc[r] = "land"
    /\ flight' = None
    /\ pc' = [q \in Requests |-> IF q = r \/ pc[q] = "wait" THEN "idle" ELSE pc[q]]
    /\ UNCHANGED <<row, file, damage, left>>

-----------------------------------------------------------------------------
(* create, by the leader                                                   *)

Transform(r) ==
    /\ pc[r] = "transform"
    /\ \/ Goto(r, "publish")
       \/ Goto(r, "land")
    /\ UNCHANGED <<row, file, flight, damage, left>>

\* WriteAtomic never replaces an existing file.
Publish(r) ==
    /\ pc[r] = "publish"
    /\ \/ file = None /\ file' = "good" /\ Goto(r, "insert")
       \/ file' = file /\ Goto(r, "land")
    /\ UNCHANGED <<row, flight, damage, left>>

\* The row is unique; a conflict is one more failure.
InsertRow(r) ==
    /\ pc[r] = "insert"
    /\ \/ ~row /\ row' = TRUE /\ left' = None /\ Goto(r, "land")
       \/ UNCHANGED <<row, left>> /\ Goto(r, "rollback")
    /\ UNCHANGED <<file, flight, damage>>

\* The file of the failed insert goes, or stays if its removal fails too.
Rollback(r) ==
    /\ pc[r] = "rollback"
    /\ Removed \/ Unremoved
    /\ Goto(r, "land")
    /\ UNCHANGED <<row, flight, damage>>

-----------------------------------------------------------------------------
\* The disk or an operator damages or deletes the file of an entry.
Damage ==
    /\ damage < MaxDamage
    /\ row
    /\ file = "good"
    /\ file' \in {None, "damaged"}
    /\ damage' = damage + 1
    /\ UNCHANGED <<row, flight, pc, left>>

Crash ==
    /\ MayCrash
    /\ pc' = [r \in Requests |-> "idle"]
    /\ flight' = None
    /\ left' = IF file # None /\ ~row THEN "crash" ELSE left
    /\ UNCHANGED <<row, file, damage>>

Step(r) ==
    \/ LoadRow(r)
    \/ ReadFile(r)
    \/ InvalidateRow(r)
    \/ InvalidateFile(r)
    \/ Join(r)
    \/ Land(r)
    \/ Transform(r)
    \/ Publish(r)
    \/ InsertRow(r)
    \/ Rollback(r)

Next ==
    \/ \E r \in Requests : Start(r) \/ Step(r) \/ GiveUp(r)
    \/ Damage
    \/ Crash

Spec == Init /\ [][Next]_vars

\* Goroutines are scheduled; clients need not come and need not give up.
FairSpec == Spec /\ \A r \in Requests : WF_vars(Step(r))

-----------------------------------------------------------------------------
(* Properties                                                              *)

\* "Deduplicate concurrent requests for the same missing derivative so only
\* one transformation is performed" (docs/ARCHITECTURE.md): whoever is past
\* the miss leads the flight, so no two requests create the entry.
OneTransformation ==
    \A r \in Requests : pc[r] \in LeaderSteps => flight = r

\* A file without a row belongs to the leader that is about to insert its row
\* or to remove it, or to a request that is about to delete it, unless a crash
\* or a removal that failed left it: nothing else lets go of it.  This is what
\* keeps the key usable: with such a file in place every later transformation
\* fails, for WriteAtomic never replaces it.
LooseFileHasOwner ==
    file # None /\ ~row =>
        \/ left # None
        \/ \E r \in Requests : pc[r] \in {"insert", "rollback", "deleteFile"}

\* Every request is answered, however the leader it waits for ends.
EveryRequestAnswered ==
    \A r \in Requests : pc[r] # "idle" ~> pc[r] = "idle"

=============================================================================
