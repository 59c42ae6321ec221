------------------------------ MODULE Recorder ------------------------------
(***************************************************************************)
(* The audit recorders (internal/imageaccess and internal/hfsdownload, the *)
(* same code twice): request goroutines hand events to a bounded channel   *)
(* without ever blocking, one worker writes them to the database, and      *)
(* Close drains the channel within a deadline when the server stops.       *)
(*                                                                         *)
(* Abstractions: each event is recorded by a goroutine of its own; the     *)
(* closed flag and the closed channel change together under the mutex and  *)
(* are one variable; a goroutine at "send" holds the read lock.            *)
(***************************************************************************)
EXTENDS Naturals, Sequences, FiniteSets

CONSTANTS
    Events,    \* the events requests record
    None,      \* no event
    Capacity   \* of the channel

ASSUME RecorderAssumption ==
    /\ None \notin Events
    /\ Capacity \in Nat \ {0}

VARIABLES
    pc,         \* event -> where its Record call is, or how it was answered
    events,     \* the channel
    closed,     \* the flag, and the channel
    closer,     \* the Close call of app.Run
    cancelled,  \* is the worker's context cancelled?
    worker,     \* where the worker is
    current,    \* the event it took
    accepted,   \* the events accepted, in order (history)
    attempted,  \* the events handed to the database, in order (history)
    panicked    \* did a goroutine send on the closed channel?

recorderVars == <<pc, events, closed, closer, cancelled, worker, current, accepted, attempted, panicked>>

\* The event the worker has taken and not yet handed over.
InHand == IF current = None THEN <<>> ELSE <<current>>

\* Every variable has its type, and the worker's step agrees with its hand.
RecorderTypeOK ==
    /\ pc \in [Events -> {"new", "send", "accepted", "dropped"}]
    /\ events \in Seq(Events)
    /\ Len(events) <= Capacity
    /\ closed \in BOOLEAN
    /\ closer \in {"open", "waiting", "drained", "late"}
    /\ cancelled \in BOOLEAN
    /\ worker \in {"receive", "check", "persist", "done"}
    /\ current \in Events \cup {None}
    /\ worker \in {"check", "persist"} => current # None
    /\ worker = "receive" => current = None
    /\ accepted \in Seq(Events)
    /\ attempted \in Seq(Events)
    /\ panicked \in BOOLEAN

RecorderInit ==
    /\ pc = [e \in Events |-> "new"]
    /\ events = <<>>
    /\ closed = FALSE
    /\ closer = "open"
    /\ cancelled = FALSE
    /\ worker = "receive"
    /\ current = None
    /\ accepted = <<>>
    /\ attempted = <<>>
    /\ panicked = FALSE

Answer(e, result) == pc' = [pc EXCEPT ![e] = result]

-----------------------------------------------------------------------------
(* Record                                                                  *)

\* A field is missing or too long.
RecordInvalid(e) ==
    /\ pc[e] = "new"
    /\ Answer(e, "dropped")
    /\ UNCHANGED <<events, closed, closer, cancelled, worker, current, accepted, attempted, panicked>>

\* The read lock is taken; a closed recorder drops the event.
RecordEnter(e) ==
    /\ pc[e] = "new"
    /\ Answer(e, IF closed THEN "dropped" ELSE "send")
    /\ UNCHANGED <<events, closed, closer, cancelled, worker, current, accepted, attempted, panicked>>

\* Mutant: a full channel gives up its oldest event.
RecordSendEvicts(e) ==
    /\ pc[e] = "send"
    /\ events' = Append(IF Len(events) < Capacity THEN events ELSE Tail(events), e)
    /\ accepted' = Append(accepted, e)
    /\ Answer(e, "accepted")
    /\ UNCHANGED <<closed, closer, cancelled, worker, current, attempted, panicked>>

\* select with a default: a full channel drops the event.  Sending on a closed
\* channel panics.
RecordSend(e) ==
    /\ pc[e] = "send"
    /\ panicked' = (panicked \/ closed)
    /\ \/ /\ Len(events) < Capacity
          /\ events' = Append(events, e)
          /\ accepted' = Append(accepted, e)
          /\ Answer(e, "accepted")
       \/ /\ Len(events) = Capacity
          /\ Answer(e, "dropped")
          /\ UNCHANGED <<events, accepted>>
    /\ UNCHANGED <<closed, closer, cancelled, worker, current, attempted>>

-----------------------------------------------------------------------------
(* Close                                                                   *)

\* Mutant: the channel is closed without the mutex.
CloseStartUnlocked ==
    /\ closer = "open"
    /\ closed' = TRUE
    /\ closer' = "waiting"
    /\ UNCHANGED <<pc, events, cancelled, worker, current, accepted, attempted, panicked>>

\* The write lock waits for every Record call inside.
CloseStart ==
    /\ closer = "open"
    /\ \A e \in Events : pc[e] # "send"
    /\ closed' = TRUE
    /\ closer' = "waiting"
    /\ UNCHANGED <<pc, events, cancelled, worker, current, accepted, attempted, panicked>>

CloseDrained ==
    /\ closer = "waiting"
    /\ worker = "done"
    /\ closer' = "drained"
    /\ cancelled' = TRUE
    /\ UNCHANGED <<pc, events, closed, worker, current, accepted, attempted, panicked>>

\* The drain deadline.
CloseLate ==
    /\ closer = "waiting"
    /\ closer' = "late"
    /\ cancelled' = TRUE
    /\ UNCHANGED <<pc, events, closed, worker, current, accepted, attempted, panicked>>

-----------------------------------------------------------------------------
(* run                                                                     *)

WorkerReceive ==
    /\ worker = "receive"
    /\ events # <<>>
    /\ current' = Head(events)
    /\ events' = Tail(events)
    /\ worker' = "check"
    /\ UNCHANGED <<pc, closed, closer, cancelled, accepted, attempted, panicked>>

\* Mutant: the worker leaves as soon as the recorder is closed.
WorkerEndsEarly ==
    /\ worker = "receive"
    /\ closed
    /\ worker' = "done"
    /\ UNCHANGED <<pc, events, closed, closer, cancelled, current, accepted, attempted, panicked>>

\* The channel is closed and empty.
WorkerEnds ==
    /\ worker = "receive"
    /\ closed
    /\ events = <<>>
    /\ worker' = "done"
    /\ UNCHANGED <<pc, events, closed, closer, cancelled, current, accepted, attempted, panicked>>

\* A cancelled context ends the worker with the event in hand.
WorkerCheck ==
    /\ worker = "check"
    /\ worker' = IF cancelled THEN "done" ELSE "persist"
    /\ UNCHANGED <<pc, events, closed, closer, cancelled, current, accepted, attempted, panicked>>

\* persist returns within the write timeout, with or without an error.
WorkerPersist ==
    /\ worker = "persist"
    /\ attempted' = Append(attempted, current)
    /\ current' = None
    /\ worker' = "receive"
    /\ UNCHANGED <<pc, events, closed, closer, cancelled, accepted, panicked>>

Record(e) == RecordInvalid(e) \/ RecordEnter(e) \/ RecordSend(e)

Close == CloseStart \/ CloseDrained \/ CloseLate

Worker == WorkerReceive \/ WorkerEnds \/ WorkerCheck \/ WorkerPersist

RecorderNext ==
    \/ \E e \in Events : Record(e)
    \/ Close
    \/ Worker

RecorderSpec == RecorderInit /\ [][RecorderNext]_recorderVars

-----------------------------------------------------------------------------
(* Properties                                                              *)

\* No goroutine ever sends on the closed channel, however a Record call and
\* Close overlap: the process does not panic while it stops.
NoSendOnClosed == ~panicked

\* Events are handed to the database in the order they were accepted, once
\* each: what is not there yet is in the worker's hand or in the channel.
AcceptedInOrder == accepted = attempted \o InHand \o events

\* "Graceful shutdown drains accepted events within a fixed deadline"
\* (docs/ARCHITECTURE.md): a Close that reports success left nothing behind.
DrainedIsComplete == closer = "drained" => attempted = accepted

=============================================================================
