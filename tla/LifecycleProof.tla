--------------------------- MODULE LifecycleProof ---------------------------
(***************************************************************************)
(* Proofs about Recorder and Lifecycle, for any number of events,          *)
(* lifetimes, jobs and snapshots and any capacity.  The mutex of a recorder*)
(* makes closing and sending exclude each other; its accepted events are   *)
(* always the attempted ones, the one in the worker's hand and the channel;*)
(* a worker that ended without being cancelled left nothing.  It keeps     *)
(* this invariant in every lifetime, because a step of the serve loop is   *)
(* one of the recorder, leaves it alone, or replaces it by a new one.      *)
(* A promised snapshot is in the hands of one                              *)
(* party at a time: the request that promises it, the request file, or the *)
(* start that makes it.  The candidate of a restore holds the credential   *)
(* in force as long as no password is changed while it is prepared.        *)
(***************************************************************************)
EXTENDS Lifecycle, SequenceTheorems, FiniteSetTheorems, TLAPS

-----------------------------------------------------------------------------
(* One recorder                                                            *)

\* Nobody is inside Record once the recorder is closed.
Exclusion ==
    /\ closed => \A e \in Events : pc[e] # "send"
    /\ closer # "open" => closed

\* Why the worker ended, and what Close may conclude.
Ended ==
    /\ cancelled => closer \in {"drained", "late"}
    /\ worker = "done" => cancelled \/ (closed /\ events = <<>> /\ current = None)
    /\ closer = "drained" => worker = "done"

RecorderInv == RecorderTypeOK /\ Exclusion /\ Ended /\ NoSendOnClosed /\ AcceptedInOrder /\ DrainedIsComplete

LEMMA RecorderInvInit == RecorderInit => RecorderInv
<1> SUFFICES ASSUME RecorderInit PROVE RecorderInv
  OBVIOUS
<1>1. RecorderTypeOK
  <2>1. closed \in BOOLEAN /\ cancelled \in BOOLEAN /\ panicked \in BOOLEAN
    BY Zenon DEF RecorderInit
  <2> QED BY <2>1, RecorderAssumption DEF RecorderInit, RecorderTypeOK
<1>2. Exclusion /\ Ended /\ NoSendOnClosed /\ DrainedIsComplete
  BY DEF RecorderInit, Exclusion, Ended, NoSendOnClosed, DrainedIsComplete
<1>3. AcceptedInOrder
  BY DEF RecorderInit, AcceptedInOrder, InHand
<1> QED BY <1>1, <1>2, <1>3 DEF RecorderInv

LEMMA InHandType == RecorderTypeOK => InHand \in Seq(Events)
  BY DEF RecorderTypeOK, InHand

\* An event that is accepted goes to the end of what is to be written.
LEMMA SendKeepsOrder ==
  ASSUME RecorderTypeOK, AcceptedInOrder, NEW e \in Events
  PROVE  Append(accepted, e) = attempted \o InHand \o Append(events, e)
<1> DEFINE before == attempted \o InHand
<1>1. before \in Seq(Events) /\ events \in Seq(Events) /\ <<e>> \in Seq(Events)
  BY InHandType DEF RecorderTypeOK
<1>2. Append(accepted, e) = accepted \o <<e>> /\ Append(events, e) = events \o <<e>>
  BY AppendIsConcat DEF RecorderTypeOK
<1>3. (before \o events) \o <<e>> = before \o (events \o <<e>>)
  <2> HIDE DEF before
  <2> QED BY <1>1, ConcatAssociative
<1> QED BY <1>2, <1>3 DEF AcceptedInOrder

\* Taking an event from the channel, and handing it over, moves it forward.
LEMMA WorkerKeepsOrder ==
  ASSUME RecorderInv, WorkerReceive \/ WorkerPersist
  PROVE  AcceptedInOrder'
<1>1. CASE WorkerReceive
  <2>1. /\ current = None /\ events # <<>> /\ events \in Seq(Events)
        /\ current' = Head(events) /\ events' = Tail(events)
        /\ accepted' = accepted /\ attempted' = attempted
    BY <1>1 DEF WorkerReceive, RecorderInv, RecorderTypeOK
  <2>2. /\ Head(events) \in Events /\ Tail(events) \in Seq(Events)
        /\ events = <<Head(events)>> \o Tail(events)
    BY <2>1
  <2>3. InHand = <<>> /\ InHand' = <<Head(events)>>
    BY <2>1, <2>2, RecorderAssumption DEF InHand
  <2>4. attempted \in Seq(Events) /\ attempted \o <<>> = attempted
    BY DEF RecorderInv, RecorderTypeOK
  <2>5. attempted \o (<<Head(events)>> \o Tail(events)) = (attempted \o <<Head(events)>>) \o Tail(events)
    BY <2>2, <2>4, ConcatAssociative
  <2>6. accepted = attempted \o events
    BY <2>3, <2>4 DEF RecorderInv, AcceptedInOrder
  <2> QED BY <2>1, <2>2, <2>3, <2>5, <2>6 DEF AcceptedInOrder
<1>2. CASE WorkerPersist
  <2>1. /\ current \in Events /\ current # None /\ current' = None
        /\ attempted' = Append(attempted, current) /\ events' = events /\ accepted' = accepted
    BY <1>2 DEF WorkerPersist, RecorderInv, RecorderTypeOK
  <2>2. InHand = <<current>> /\ InHand' = <<>>
    BY <2>1 DEF InHand
  <2>3. attempted \o <<current>> = Append(attempted, current) /\ Append(attempted, current) \in Seq(Events)
    BY <2>1, AppendIsConcat DEF RecorderInv, RecorderTypeOK
  <2>4. Append(attempted, current) \o <<>> = Append(attempted, current)
    BY <2>3
  <2> QED BY <2>1, <2>2, <2>3, <2>4 DEF AcceptedInOrder, RecorderInv
<1> QED BY <1>1, <1>2

LEMMA RecorderInvNext == RecorderInv /\ [RecorderNext]_recorderVars => RecorderInv'
<1> SUFFICES ASSUME RecorderInv, [RecorderNext]_recorderVars PROVE RecorderInv'
  OBVIOUS
<1> USE RecorderAssumption DEF RecorderInv
<1>1. ASSUME NEW e \in Events, RecordInvalid(e) \/ RecordEnter(e) PROVE RecorderInv'
  <2>1. RecorderTypeOK'
    BY <1>1 DEF RecordInvalid, RecordEnter, Answer, RecorderTypeOK
  <2>2. Exclusion' /\ Ended' /\ NoSendOnClosed' /\ DrainedIsComplete'
    BY <1>1 DEF RecordInvalid, RecordEnter, Answer, RecorderTypeOK, Exclusion, Ended, NoSendOnClosed,
                DrainedIsComplete
  <2>3. AcceptedInOrder'
    BY <1>1 DEF RecordInvalid, RecordEnter, AcceptedInOrder, InHand
  <2> QED BY <2>1, <2>2, <2>3
<1>2. ASSUME NEW e \in Events, RecordSend(e) PROVE RecorderInv'
  <2>1. ~closed
    BY <1>2 DEF RecordSend, Exclusion
  <2>2. NoSendOnClosed'
    BY <1>2, <2>1 DEF RecordSend, NoSendOnClosed
  <2>3. Exclusion' /\ DrainedIsComplete'
    BY <1>2, <2>1 DEF RecordSend, Answer, RecorderTypeOK, Exclusion, DrainedIsComplete
  <2>4. Ended'
    BY <1>2, <2>1 DEF RecordSend, RecorderTypeOK, Ended, Exclusion
  <2>5. RecorderTypeOK'
    <3>1. panicked' \in BOOLEAN
      BY <1>2 DEF RecordSend
    <3>2. events' \in Seq(Events) /\ Len(events') <= Capacity /\ accepted' \in Seq(Events)
      <4>1. events \in Seq(Events) /\ accepted \in Seq(Events) /\ Len(events) <= Capacity
        BY DEF RecorderTypeOK
      <4>2. Len(Append(events, e)) = Len(events) + 1 /\ Len(events) \in Nat
        BY <4>1, AppendProperties
      <4>3. Append(events, e) \in Seq(Events) /\ Append(accepted, e) \in Seq(Events)
        BY <4>1, AppendProperties
      <4>4. CASE Len(events) < Capacity
        <5>1. events' = Append(events, e) /\ accepted' = Append(accepted, e)
          BY <1>2, <4>4 DEF RecordSend
        <5>2. Len(events) + 1 <= Capacity
          BY <4>2, <4>4
        <5> QED BY <4>2, <4>3, <5>1, <5>2
      <4>5. CASE Len(events) = Capacity
        BY <1>2, <4>1, <4>5 DEF RecordSend
      <4> QED BY <1>2, <4>4, <4>5 DEF RecordSend
    <3> QED BY <1>2, <3>1, <3>2 DEF RecordSend, Answer, RecorderTypeOK
  <2>6. AcceptedInOrder'
    BY <1>2, SendKeepsOrder DEF RecordSend, AcceptedInOrder, InHand
  <2> QED BY <2>2, <2>3, <2>4, <2>5, <2>6
<1>3. CASE Close
  <2>1. RecorderTypeOK'
    BY <1>3 DEF Close, CloseStart, CloseDrained, CloseLate, RecorderTypeOK
  <2>2. Exclusion' /\ Ended' /\ NoSendOnClosed'
    BY <1>3 DEF Close, CloseStart, CloseDrained, CloseLate, RecorderTypeOK, Exclusion, Ended, NoSendOnClosed
  <2>3. AcceptedInOrder'
    BY <1>3 DEF Close, CloseStart, CloseDrained, CloseLate, AcceptedInOrder, InHand
  <2>4. DrainedIsComplete'
    <3>1. CASE CloseDrained
      <4>1. events = <<>> /\ InHand = <<>>
        BY <3>1 DEF CloseDrained, Ended, InHand
      <4>2. attempted \o <<>> \o <<>> = attempted
        BY DEF RecorderTypeOK
      <4> QED BY <3>1, <4>1, <4>2 DEF CloseDrained, AcceptedInOrder, DrainedIsComplete
    <3>2. CASE CloseStart \/ CloseLate
      BY <3>2 DEF CloseStart, CloseLate, DrainedIsComplete
    <3> QED BY <1>3, <3>1, <3>2 DEF Close
  <2> QED BY <2>1, <2>2, <2>3, <2>4
<1>4. CASE Worker
  <2>1. RecorderTypeOK'
    <3>1. CASE WorkerReceive
      <4>1. events \in Seq(Events) /\ events # <<>>
        BY <3>1 DEF WorkerReceive, RecorderTypeOK
      <4>2. /\ Head(events) \in Events /\ Tail(events) \in Seq(Events)
            /\ Len(Tail(events)) = Len(events) - 1 /\ Len(events) \in Nat
        BY <4>1, HeadTailProperties
      <4> QED BY <3>1, <4>2 DEF WorkerReceive, RecorderTypeOK
    <3>2. CASE WorkerPersist
      <4>1. Append(attempted, current) \in Seq(Events)
        BY <3>2, AppendProperties DEF WorkerPersist, RecorderTypeOK
      <4> QED BY <3>2, <4>1 DEF WorkerPersist, RecorderTypeOK
    <3>3. CASE WorkerEnds \/ WorkerCheck
      BY <3>3 DEF WorkerEnds, WorkerCheck, RecorderTypeOK
    <3> QED BY <1>4, <3>1, <3>2, <3>3 DEF Worker
  <2>2. Exclusion' /\ NoSendOnClosed' /\ DrainedIsComplete'
    BY <1>4 DEF Worker, WorkerReceive, WorkerEnds, WorkerCheck, WorkerPersist, Exclusion,
                Ended, NoSendOnClosed, DrainedIsComplete
  <2>5. Ended'
    BY <1>4 DEF Worker, WorkerReceive, WorkerEnds, WorkerCheck, WorkerPersist, RecorderTypeOK, Ended
  <2>3. CASE WorkerReceive \/ WorkerPersist
    BY <2>1, <2>2, <2>5, <2>3, WorkerKeepsOrder
  <2>4. CASE WorkerEnds \/ WorkerCheck
    BY <2>1, <2>2, <2>5, <2>4 DEF WorkerEnds, WorkerCheck, AcceptedInOrder, InHand
  <2> QED BY <1>4, <2>3, <2>4 DEF Worker
<1>5. CASE UNCHANGED recorderVars
  BY <1>5 DEF recorderVars, RecorderTypeOK, Exclusion, Ended, NoSendOnClosed, AcceptedInOrder, InHand,
              DrainedIsComplete
<1> QED BY <1>1, <1>2, <1>3, <1>4, <1>5 DEF RecorderNext, Record

LEMMA RecorderInvariance == RecorderSpec => []RecorderInv
  BY RecorderInvInit, RecorderInvNext, PTL DEF RecorderSpec

\* The types, and the bound of the channel.
THEOREM RecorderTypeCorrect == RecorderSpec => []RecorderTypeOK
<1>1. RecorderInv => RecorderTypeOK
  BY DEF RecorderInv
<1> QED BY <1>1, RecorderInvariance, PTL

\* However many Record calls overlap Close, none sends on the closed channel.
THEOREM NoPanic == RecorderSpec => []NoSendOnClosed
<1>1. RecorderInv => NoSendOnClosed
  BY DEF RecorderInv
<1> QED BY <1>1, RecorderInvariance, PTL

\* No accepted event is displaced, taken twice or overtaken on its way from the
\* channel to the worker.
THEOREM OrderKept == RecorderSpec => []AcceptedInOrder
<1>1. RecorderInv => AcceptedInOrder
  BY DEF RecorderInv
<1> QED BY <1>1, RecorderInvariance, PTL

\* A Close that returns without an error has written every accepted event.
THEOREM DrainComplete == RecorderSpec => []DrainedIsComplete
<1>1. RecorderInv => DrainedIsComplete
  BY DEF RecorderInv
<1> QED BY <1>1, RecorderInvariance, PTL

-----------------------------------------------------------------------------
(* The recorder of every lifetime                                          *)

LEMMA FreshRecorder == Fresh => RecorderInit'
  BY DEF Fresh, RecorderInit

\* What a step does to the recorder.
LEMMA RecorderStep == Next => [RecorderNext]_recorderVars \/ RecorderInit'
<1> SUFFICES ASSUME Next PROVE [RecorderNext]_recorderVars \/ RecorderInit'
  OBVIOUS
<1>1. CASE Main
  <2>1. CASE CloseRecorder
    BY <2>1 DEF CloseRecorder, RecorderNext
  <2>2. CASE CloseDatabase
    BY <2>2, FreshRecorder DEF CloseDatabase, Die
  <2>3. CASE ApplyRestore \/ ApplyBackup \/ Unqueue \/ Start
    BY <2>3 DEF ApplyRestore, ApplyBackup, Unqueue, Start
  <2>4. CASE StopForRestart \/ Shutdown \/ StopSchedule \/ ScheduleStopped
    BY <2>4 DEF StopForRestart, Stop, Shutdown, StopSchedule, ScheduleStopped
  <2> QED BY <1>1, <2>1, <2>2, <2>3, <2>4 DEF Main
<1>2. ASSUME NEW e \in Events, Visit(e) \/ VisitRecords(e) \/ VisitEnds(e)
      PROVE  [RecorderNext]_recorderVars
  BY <1>2 DEF Visit, VisitRecords, VisitEnds, RecorderNext
<1>3. CASE RecorderWorks
  BY <1>3 DEF RecorderWorks, RecorderNext
<1>4. CASE (\E j \in Jobs : SyncNow(j)) \/ SchedulerWorks
  BY <1>4 DEF SyncNow, SchedulerWorks
<1>5. CASE Administer
  BY <1>5 DEF Administer, BackupBegin, QueueCreate, QueueWrite, RestoreBegin, RestoreRead, RestoreMark,
              Accept, RestartAfterBackup, PasswordBegin, PasswordUpdate, RestartAfterChange
<1>6. CASE StopForSignal \/ Relaunch
  BY <1>6 DEF StopForSignal, Stop, Relaunch
<1>7. CASE Crash
  BY <1>7, FreshRecorder DEF Crash, Die
<1> QED BY <1>1, <1>2, <1>3, <1>4, <1>5, <1>6, <1>7 DEF Next

LEMMA RecorderInitInvNext == RecorderInit' => RecorderInv'
<1> SUFFICES ASSUME RecorderInit' PROVE RecorderInv'
  OBVIOUS
<1>1. RecorderTypeOK'
  <2>1. (closed \in BOOLEAN /\ cancelled \in BOOLEAN /\ panicked \in BOOLEAN)'
    BY Zenon DEF RecorderInit
  <2> QED BY <2>1, RecorderAssumption DEF RecorderInit, RecorderTypeOK
<1>2. Exclusion' /\ Ended' /\ NoSendOnClosed' /\ DrainedIsComplete'
  BY DEF RecorderInit, Exclusion, Ended, NoSendOnClosed, DrainedIsComplete
<1>3. AcceptedInOrder'
  BY DEF RecorderInit, AcceptedInOrder, InHand
<1> QED BY <1>1, <1>2, <1>3 DEF RecorderInv

LEMMA RecorderInLifetimes == Spec => []RecorderInv
<1>1. Init => RecorderInv
  BY RecorderInvInit DEF Init
<1>2. RecorderInv /\ [Next]_vars => RecorderInv'
  <2>1. UNCHANGED vars => UNCHANGED recorderVars
    BY DEF vars
  <2> QED BY <2>1, RecorderStep, RecorderInvNext, RecorderInitInvNext
<1> QED BY <1>1, <1>2, PTL DEF Spec

\* In every lifetime, however its requests overlap its shutdown, no handler
\* sends on the closed channel of a recorder.
THEOREM LifetimesNeverPanic == Spec => []NoSendOnClosed
<1>1. RecorderInv => NoSendOnClosed
  BY DEF RecorderInv
<1> QED BY <1>1, RecorderInLifetimes, PTL

\* In every lifetime the worker takes the accepted events in their order, each
\* once, and none overtakes or displaces another.  Those that are still in the
\* channel when a drain is late, or whose write fails, never reach the table.
THEOREM LifetimesKeepOrder == Spec => []AcceptedInOrder
<1>1. RecorderInv => AcceptedInOrder
  BY DEF RecorderInv
<1> QED BY <1>1, RecorderInLifetimes, PTL

\* No shutdown reports a drained recorder before every event it accepted in
\* this lifetime was handed to the database.
THEOREM LifetimesDrain == Spec => []DrainedIsComplete
<1>1. RecorderInv => DrainedIsComplete
  BY DEF RecorderInv
<1> QED BY <1>1, RecorderInLifetimes, PTL

-----------------------------------------------------------------------------
(* The scheduler                                                           *)

\* Only the one call that has not returned has loops that are not over.
OneActive ==
    /\ \A r, q \in Runs : run[r] = "active" /\ run[q] = "active" => r = q
    /\ \A r \in Runs, j \in Jobs : loop[r][j] \in {"select", "execute"} => run[r] = "active"

SchedulerInv == SchedulerTypeOK /\ OneActive /\ RequestIsKept

LEMMA SchedulerInvInit == SchedulerInit => SchedulerInv
<1> SUFFICES ASSUME SchedulerInit PROVE SchedulerInv
  OBVIOUS
<1>1. running \in BOOLEAN
  BY Zenon DEF SchedulerInit
<1> QED BY <1>1 DEF SchedulerInit, SchedulerInv, SchedulerTypeOK, OneActive, RequestIsKept

LEMMA SchedulerInvInitNext == SchedulerInit' => SchedulerInv'
<1> SUFFICES ASSUME SchedulerInit' PROVE SchedulerInv'
  OBVIOUS
<1>1. (running \in BOOLEAN)'
  BY Zenon DEF SchedulerInit
<1> QED BY <1>1 DEF SchedulerInit, SchedulerInv, SchedulerTypeOK, OneActive, RequestIsKept

LEMMA LoopKeepsInv ==
  ASSUME SchedulerInv, NEW r \in Runs, NEW j \in Jobs, Loop(r, j)
  PROVE  SchedulerInv'
<1>1. /\ loop[r][j] \in {"select", "execute"} /\ UNCHANGED <<running, run, stopped>>
      /\ trigger' \subseteq trigger /\ unserved' \subseteq unserved
      /\ \E s \in {"execute", "ended", "select"} : loop' = [loop EXCEPT ![r][j] = s]
  BY DEF Loop, LoopTick, LoopTrigger, LoopDone, JobReturns, Execute
<1>2. run[r] = "active"
  BY <1>1 DEF SchedulerInv, OneActive
<1>3. running' \in BOOLEAN /\ (running' <=> \E q \in Runs : run'[q] = "active")
  <2>1. running \in BOOLEAN /\ (running <=> \E q \in Runs : run[q] = "active")
    BY DEF SchedulerInv, SchedulerTypeOK
  <2> QED BY <1>1, <2>1, Zenon
<1>4. \A q \in Runs, k \in Jobs : loop'[q][k] # loop[q][k] => q = r
  BY <1>1 DEF SchedulerInv, SchedulerTypeOK
<1>5. SchedulerTypeOK' /\ OneActive'
  BY <1>1, <1>2, <1>3, <1>4 DEF SchedulerInv, SchedulerTypeOK, OneActive
<1>6. RequestIsKept'
  BY DEF SchedulerInv, RequestIsKept, Loop, LoopTick, LoopTrigger, LoopDone, JobReturns, Execute
<1> QED BY <1>5, <1>6 DEF SchedulerInv

LEMMA SchedulerInvNext == SchedulerInv /\ [SchedulerNext]_schedulerVars => SchedulerInv'
<1> SUFFICES ASSUME SchedulerInv, [SchedulerNext]_schedulerVars PROVE SchedulerInv'
  OBVIOUS
<1>1. ASSUME NEW j \in Jobs, Trigger(j) PROVE SchedulerInv'
  BY <1>1 DEF Trigger, SchedulerInv, SchedulerTypeOK, OneActive, RequestIsKept
<1>2. ASSUME NEW r \in Runs, RunStart(r) PROVE SchedulerInv'
  <2>1. /\ run[r] = "new" /\ \A q \in Runs : run[q] # "active"
        /\ running' /\ run' = [run EXCEPT ![r] = "active"] /\ UNCHANGED <<stopped, trigger, unserved>>
        /\ loop' = [loop EXCEPT ![r] = [j \in Jobs |-> "select"]]
    BY <1>2, Zenon DEF RunStart, SchedulerInv, SchedulerTypeOK
  <2>2. running' \in BOOLEAN
    BY <1>2, Zenon DEF RunStart
  <2>3. \A q \in Runs, k \in Jobs : loop'[q][k] = IF q = r THEN "select" ELSE loop[q][k]
    BY <2>1 DEF SchedulerInv, SchedulerTypeOK
  <2>4. \A q \in Runs : run'[q] = IF q = r THEN "active" ELSE run[q]
    BY <2>1 DEF SchedulerInv, SchedulerTypeOK
  <2>5. loop' \in [Runs -> [Jobs -> {"off", "select", "execute", "ended"}]]
    BY <2>1 DEF SchedulerInv, SchedulerTypeOK
  <2>6. run' \in [Runs -> {"new", "active", "refused", "returned"}]
    BY <2>1 DEF SchedulerInv, SchedulerTypeOK
  <2> QED BY <2>1, <2>2, <2>3, <2>4, <2>5, <2>6
          DEF SchedulerInv, SchedulerTypeOK, OneActive, RequestIsKept
<1>3. ASSUME NEW r \in Runs, RunRefused(r) \/ Cancel(r) PROVE SchedulerInv'
  <2>1. CASE RunRefused(r)
    BY <2>1 DEF RunRefused, SchedulerInv, SchedulerTypeOK, OneActive, RequestIsKept
  <2>2. CASE Cancel(r)
    BY <2>2 DEF Cancel, SchedulerInv, SchedulerTypeOK, OneActive, RequestIsKept
  <2> QED BY <1>3, <2>1, <2>2
<1>4. ASSUME NEW r \in Runs, RunReturn(r) PROVE SchedulerInv'
  <2>1. /\ run[r] = "active" /\ \A j \in Jobs : loop[r][j] = "ended"
        /\ run' = [run EXCEPT ![r] = "returned"] /\ ~running'
        /\ UNCHANGED <<stopped, loop, trigger, unserved>>
    BY <1>4, Zenon DEF RunReturn
  <2>2. running' \in BOOLEAN
    BY <1>4, Zenon DEF RunReturn
  <2>3. \A q \in Runs : run'[q] # "active"
    BY <2>1 DEF SchedulerInv, SchedulerTypeOK, OneActive
  <2> QED BY <2>1, <2>2, <2>3 DEF SchedulerInv, SchedulerTypeOK, OneActive, RequestIsKept
<1>5. CASE UNCHANGED schedulerVars
  BY <1>5 DEF schedulerVars, SchedulerInv, SchedulerTypeOK, OneActive, RequestIsKept
<1> QED BY <1>1, <1>2, <1>3, <1>4, <1>5, LoopKeepsInv DEF SchedulerNext

LEMMA SchedulerInvariance == SchedulerSpec => []SchedulerInv
  BY SchedulerInvInit, SchedulerInvNext, PTL DEF SchedulerSpec

LEMMA ActiveRunsAlone == SchedulerInv => NoOverlap
  BY DEF SchedulerInv, OneActive, NoOverlap

\* However often Run is called, and whatever tick, trigger and stop coincide,
\* no job runs twice at the same time.
THEOREM JobsRunAlone == SchedulerSpec => []NoOverlap
  BY SchedulerInvariance, ActiveRunsAlone, PTL

-----------------------------------------------------------------------------
(* The types                                                               *)

LEMMA LivesType == Cardinality(Runs) \in Nat \ {0} /\ Lives = Runs
  BY LifecycleAssumption, FS_CardinalityType, FS_EmptySet DEF Lives

\* Only a lifetime that another may follow is asked for a restart, and a
\* change of the password that has begun has room for its number.
AppInv ==
    /\ AppTypeOK
    /\ ready \/ restarting \/ admin # "idle" \/ change # "idle" => life + 1 \in Lives
    /\ phase = "exited" => ~ready /\ ~restarting /\ admin = "idle" /\ change = "idle"
    /\ change = "update" => promised < MaxChanges

LEMMA AppInvInit == Init => AppInv
<1> SUFFICES ASSUME Init PROVE AppInv
  OBVIOUS
<1>1. restarting \in BOOLEAN /\ overdue \in BOOLEAN /\ ready \in BOOLEAN /\ active \in BOOLEAN
  BY Zenon DEF Init, NewLifetime
<1>2. ~ready /\ ~restarting /\ ~active
  BY Zenon DEF Init, NewLifetime
<1> QED BY <1>1, <1>2, LivesType, LifecycleAssumption
        DEF Init, NewLifetime, AppInv, AppTypeOK, Off, Lives

LEMMA AppInvNext == AppInv /\ [Next]_vars => AppInv'
<1> SUFFICES ASSUME AppInv, [Next]_vars PROVE AppInv'
  OBVIOUS
<1> USE LifecycleAssumption, LivesType DEF AppInv, AppTypeOK, Off, Closing
<1>1. CASE ApplyRestore
  BY <1>1 DEF ApplyRestore, adminVars, historyVars
<1>2. CASE ApplyBackup
  BY <1>2 DEF ApplyBackup, adminVars
<1>3. CASE Unqueue \/ Start
  BY <1>3 DEF Unqueue, Start, adminVars, historyVars, diskVars
<1>4. CASE StopForRestart
  <2>1. /\ phase' = "shutdown" /\ restarting' \in BOOLEAN /\ ready /\ ready' \in BOOLEAN /\ ~ready'
        /\ UNCHANGED <<life, overdue, inflight, adminVars, diskVars, historyVars>>
    BY <1>4, Zenon DEF StopForRestart, Stop
  <2> QED BY <2>1 DEF adminVars, diskVars, historyVars
<1>21. CASE StopForSignal
  <2>1. /\ phase' = "shutdown" /\ restarting' \in BOOLEAN /\ ~restarting' /\ ready' = ready
        /\ UNCHANGED <<life, overdue, inflight, adminVars, diskVars, historyVars>>
    BY <1>21, Zenon DEF StopForSignal, Stop
  <2> QED BY <2>1 DEF adminVars, diskVars, historyVars
<1>5. CASE Shutdown
  <2>1. /\ phase' = "scheduler" /\ UNCHANGED <<life, ready, inflight, adminVars, diskVars, historyVars>>
    BY <1>5 DEF Shutdown
  <2>2. CASE UNCHANGED <<restarting, overdue>>
    BY <2>1, <2>2 DEF adminVars, diskVars, historyVars
  <2>3. CASE restarting' = FALSE /\ overdue' = TRUE
    <3>1. restarting' \in BOOLEAN /\ ~restarting' /\ overdue' \in BOOLEAN
      BY <2>3, Zenon
    <3> QED BY <2>1, <3>1 DEF adminVars, diskVars, historyVars
  <2> QED BY <1>5, <2>2, <2>3 DEF Shutdown
<1>6. CASE ScheduleStopped
  BY <1>6 DEF ScheduleStopped, adminVars, diskVars, historyVars
<1>7. CASE StopSchedule
  BY <1>7 DEF StopSchedule, appVars, adminVars, diskVars, historyVars
<1>8. CASE CloseRecorder
  <2>1. phase' \in {"recorder", "database"}
    BY <1>8 DEF CloseRecorder
  <2> QED BY <2>1, <1>8 DEF CloseRecorder, adminVars, diskVars, historyVars
<1>9. CASE CloseDatabase \/ Crash
  <2>1. Fresh /\ phase' \in Off /\ life' \in Lives
    BY <1>9 DEF CloseDatabase, Crash, Die
  <2>2. /\ ready' \in BOOLEAN /\ restarting' \in BOOLEAN /\ overdue' \in BOOLEAN /\ active' \in BOOLEAN
        /\ ~ready' /\ ~restarting'
    BY <2>1, Zenon DEF Fresh
  <2>3. UNCHANGED <<diskVars, accepted202, failed, promised>> /\ crashes' \in 0..MaxCrashes
    BY <1>9 DEF CloseDatabase, Crash, historyVars
  <2> QED BY <2>1, <2>2, <2>3 DEF Fresh, diskVars
<1>22. CASE Relaunch
  BY <1>22 DEF Relaunch, Lives, adminVars, diskVars, historyVars
<1>10. ASSUME NEW e \in Events, Visit(e) \/ VisitRecords(e) \/ VisitEnds(e) PROVE AppInv'
  BY <1>10 DEF Visit, VisitRecords, VisitEnds, appVars, adminVars, diskVars, historyVars
<1>11. CASE RecorderWorks \/ SchedulerWorks \/ \E j \in Jobs : SyncNow(j)
  BY <1>11 DEF RecorderWorks, SchedulerWorks, SyncNow, appVars, adminVars, diskVars, historyVars
<1>12. CASE BackupBegin
  BY <1>12 DEF BackupBegin, Receiving, Serving, Lives, appVars, diskVars, historyVars
<1>13. CASE QueueCreate \/ QueueWrite
  <2>1. /\ active' \in BOOLEAN /\ request' \in Backups \cup {Torn, None}
        /\ \/ admin' = "idle" /\ chosen' = None
           \/ admin' \in {"write", "accept"} /\ active' = active /\ chosen' = chosen /\ admin \in {"queue", "write"}
    BY <1>13 DEF QueueCreate, QueueWrite, Release
  <2> QED BY <1>13, <2>1 DEF QueueCreate, QueueWrite, appVars, historyVars
<1>14. CASE RestoreBegin
  BY <1>14 DEF RestoreBegin, Receiving, Serving, Lives, appVars, diskVars, historyVars
<1>15. CASE RestoreRead \/ RestoreMark
  <2>1. /\ active' \in BOOLEAN
        /\ \/ admin' = "idle" /\ chosen' = None
           \/ admin' \in {"mark", "accept"} /\ active' = active /\ chosen' = chosen /\ admin \in {"read", "mark"}
    BY <1>15 DEF RestoreRead, RestoreMark, Release
  <2> QED BY <1>15, <2>1 DEF RestoreRead, RestoreMark, appVars, diskVars, historyVars
<1>16. CASE Accept
  BY <1>16 DEF Accept, appVars, diskVars, historyVars
<1>17. CASE RestartAfterBackup \/ RestartAfterChange
  <2>1. CASE RestartAfterBackup
    BY <2>1 DEF RestartAfterBackup, diskVars, historyVars
  <2>2. CASE RestartAfterChange
    BY <2>2 DEF RestartAfterChange, diskVars, historyVars
  <2> QED BY <1>17, <2>1, <2>2
<1>18. CASE PasswordBegin
  BY <1>18 DEF PasswordBegin, Receiving, Serving, Lives, appVars, diskVars, historyVars
<1>19. CASE PasswordUpdate
  BY <1>19 DEF PasswordUpdate, appVars
<1>20. CASE UNCHANGED vars
  BY <1>20 DEF vars, appVars, adminVars, diskVars, historyVars
<1> QED BY <1>1, <1>2, <1>3, <1>4, <1>5, <1>6, <1>7, <1>8, <1>9, <1>10, <1>11, <1>12, <1>13,
           <1>14, <1>15, <1>16, <1>17, <1>18, <1>19, <1>20, <1>21, <1>22
        DEF Next, Main, Administer

\* The scheduler of a lifetime has loops only while the lifetime serves or is
\* being shut down.
ScheduleInv ==
    /\ SchedulerInv
    /\ \A r \in Runs : run[r] = "active" => r = life /\ phase \in {"serving", "shutdown", "scheduler"}

LEMMA ScheduleInvInit == Init => ScheduleInv
<1> SUFFICES ASSUME Init PROVE ScheduleInv
  OBVIOUS
<1>1. SchedulerInit
  BY DEF Init
<1> QED BY <1>1, SchedulerInvInit DEF ScheduleInv, SchedulerInit

\* A step of the serve loop is a step of the scheduler, or leaves it alone, or
\* replaces it when no loop is left, or ends the process.
LEMMA ScheduleInvNext == AppInv /\ ScheduleInv /\ [Next]_vars => ScheduleInv'
<1> SUFFICES ASSUME AppInv, ScheduleInv, [Next]_vars PROVE ScheduleInv'
  OBVIOUS
<1> USE DEF ScheduleInv
<1>1. ASSUME UNCHANGED schedulerVars, UNCHANGED life,
             phase' = phase \/ phase' \in {"serving", "shutdown", "scheduler"}
      PROVE  ScheduleInv'
  BY <1>1, SchedulerInvNext DEF schedulerVars
<1>2. ASSUME UNCHANGED schedulerVars, \A r \in Runs : run[r] # "active" PROVE ScheduleInv'
  BY <1>2, SchedulerInvNext DEF schedulerVars
<1>3. CASE ApplyRestore \/ ApplyBackup \/ Unqueue
  BY <1>2, <1>3 DEF ApplyRestore, ApplyBackup, Unqueue
<1>4. CASE Start
  <2>1. RunStart(life) /\ life' = life /\ phase' = "serving" /\ life \in Runs
    BY <1>4, LivesType DEF Start, AppInv, AppTypeOK
  <2> QED BY <2>1, SchedulerInvNext DEF SchedulerNext, RunStart, SchedulerInv, SchedulerTypeOK
<1>5. CASE StopForRestart \/ StopForSignal \/ Shutdown
  BY <1>1, <1>5 DEF StopForRestart, StopForSignal, Stop, Shutdown
<1>6. CASE StopSchedule
  <2>1. /\ run[life] = "active" /\ phase = "scheduler" /\ Cancel(life) /\ life \in Runs
        /\ UNCHANGED <<appVars, run>>
    BY <1>6, LivesType DEF StopSchedule, Cancel, AppInv, AppTypeOK
  <2> QED BY <2>1, SchedulerInvNext DEF SchedulerNext, appVars
<1>7. CASE ScheduleStopped
  BY <1>2, <1>7 DEF ScheduleStopped
<1>8. CASE CloseRecorder
  BY <1>2, <1>8 DEF CloseRecorder
<1>9. CASE Crash \/ (CloseDatabase /\ Die)
  <2>1. SchedulerInit'
    BY <1>9 DEF Crash, Die, Fresh, SchedulerInit
  <2>2. SchedulerInv'
    BY <2>1, SchedulerInvInitNext
  <2> QED BY <2>1, <2>2 DEF SchedulerInit
<1>10. CASE CloseDatabase /\ Fresh /\ UNCHANGED <<run, stopped, loop>>
  <2>1. \A r \in Runs : run[r] # "active"
    BY <1>10 DEF CloseDatabase
  <2>2. running' \in BOOLEAN /\ ~running' /\ trigger' = {} /\ unserved' = {}
    BY <1>10, Zenon DEF Fresh
  <2> QED BY <1>10, <2>1, <2>2 DEF SchedulerInv, SchedulerTypeOK, OneActive, RequestIsKept
<1>11. CASE Relaunch
  BY <1>2, <1>11 DEF Relaunch
<1>12. ASSUME NEW e \in Events, Visit(e) \/ VisitRecords(e) \/ VisitEnds(e) PROVE ScheduleInv'
  BY <1>1, <1>12 DEF Visit, VisitRecords, VisitEnds, appVars
<1>13. CASE RecorderWorks
  BY <1>1, <1>13 DEF RecorderWorks, appVars
<1>14. ASSUME NEW j \in Jobs, SyncNow(j) PROVE ScheduleInv'
  BY <1>14, SchedulerInvNext DEF SyncNow, SchedulerNext, Trigger, appVars
<1>15. CASE SchedulerWorks
  <2>1. SchedulerNext /\ UNCHANGED appVars /\ \A r \in Runs : run'[r] = "active" => run[r] = "active"
    <3>1. ASSUME NEW r \in Runs, RunReturn(r) PROVE \A q \in Runs : run'[q] = "active" => run[q] = "active"
      BY <3>1 DEF RunReturn, SchedulerInv, SchedulerTypeOK
    <3>2. ASSUME NEW r \in Runs, NEW j \in Jobs, Loop(r, j) PROVE run' = run
      BY <3>2 DEF Loop, LoopTick, LoopTrigger, LoopDone, JobReturns
    <3>3. SchedulerNext /\ UNCHANGED appVars
      BY <1>15, Zenon DEF SchedulerWorks, SchedulerNext
    <3> QED BY <1>15, <3>1, <3>2, <3>3 DEF SchedulerWorks
  <2> QED BY <2>1, SchedulerInvNext DEF appVars
<1>16. CASE Administer
  BY <1>1, <1>16 DEF Administer, BackupBegin, QueueCreate, QueueWrite, RestoreBegin, RestoreRead, RestoreMark,
              Accept, RestartAfterBackup, PasswordBegin, PasswordUpdate, RestartAfterChange, appVars
<1>17. CASE UNCHANGED vars
  BY <1>1, <1>17 DEF vars, appVars
<1> QED BY <1>3, <1>4, <1>5, <1>6, <1>7, <1>8, <1>9, <1>10, <1>11, <1>12, <1>13, <1>14,
           <1>15, <1>16, <1>17
        DEF Next, Main, CloseDatabase

LEMMA ScheduleInvariance == Spec => [](AppInv /\ ScheduleInv)
  BY AppInvInit, AppInvNext, ScheduleInvInit, ScheduleInvNext, PTL DEF Spec

\* No job runs twice at once, in one lifetime or in two.
THEOREM LifetimesJobsRunAlone == Spec => []NoOverlap
<1>1. AppInv /\ ScheduleInv => NoOverlap
  BY ActiveRunsAlone DEF ScheduleInv
<1> QED BY <1>1, ScheduleInvariance, PTL

\* A job that was asked for in this lifetime, and has not started since, still
\* has its request, however the request fell into a run of the job.
THEOREM LifetimesKeepRequests == Spec => []RequestIsKept
<1>1. AppInv /\ ScheduleInv => RequestIsKept
  BY DEF ScheduleInv, SchedulerInv
<1> QED BY <1>1, ScheduleInvariance, PTL

\* The types of the composition: the bound of the channel, one lifetime after
\* the other, and the token held by every administrator request.
THEOREM LifecycleTypeCorrect == Spec => []TypeOK
<1>1. RecorderInv /\ AppInv /\ ScheduleInv => TypeOK
  BY DEF RecorderInv, AppInv, ScheduleInv, SchedulerInv, TypeOK
<1> QED BY <1>1, RecorderInLifetimes, ScheduleInvariance, PTL

-----------------------------------------------------------------------------
(* The order of the shutdown                                               *)

\* Nobody begins a request once the server is being shut down, and the
\* database is closed after Close has returned.
ClosingInv ==
    /\ phase = "database" => closer \in {"drained", "late"}
    /\ phase \in Off => NoRequests
    /\ phase \in {"scheduler", "recorder", "database"} => NoRequests \/ (overdue /\ ~restarting)

LEMMA ClosingInvInit == Init => ClosingInv
  BY DEF Init, NewLifetime, ClosingInv, NoRequests

LEMMA ClosingInvNext == ClosingInv /\ [Next]_vars => ClosingInv'
<1> SUFFICES ASSUME ClosingInv, [Next]_vars PROVE ClosingInv'
  OBVIOUS
<1> USE DEF ClosingInv, NoRequests, Off
<1>1. CASE ApplyRestore \/ ApplyBackup \/ Unqueue \/ Start
  BY <1>1 DEF ApplyRestore, ApplyBackup, Unqueue, Start, adminVars
<1>2. CASE StopForRestart \/ StopForSignal
  <2>1. phase' = "shutdown"
    BY <1>2 DEF StopForRestart, StopForSignal, Stop
  <2> QED BY <2>1
<1>3. CASE Shutdown
  <2>1. phase' = "scheduler" /\ UNCHANGED <<inflight, adminVars>>
    BY <1>3 DEF Shutdown
  <2>2. NoRequests \/ (overdue' /\ ~restarting')
    BY <1>3, Zenon DEF Shutdown
  <2> QED BY <2>1, <2>2 DEF adminVars
<1>4. CASE StopSchedule \/ ScheduleStopped
  BY <1>4 DEF StopSchedule, ScheduleStopped, appVars, adminVars
<1>5. CASE CloseRecorder
  <2>1. /\ phase = "recorder" /\ phase' \in {"recorder", "database"}
        /\ phase' = "database" => closer' \in {"drained", "late"}
        /\ UNCHANGED <<inflight, adminVars, overdue, restarting>>
    BY <1>5 DEF CloseRecorder, Close, CloseStart, CloseDrained, CloseLate
  <2> QED BY <2>1 DEF adminVars
<1>6. CASE CloseDatabase \/ Crash
  <2>1. Fresh /\ phase' \in Off
    BY <1>6 DEF CloseDatabase, Crash, Die
  <2> QED BY <2>1 DEF Fresh
<1>7. CASE Relaunch
  BY <1>7 DEF Relaunch, adminVars
<1>8. ASSUME NEW e \in Events, Visit(e) PROVE ClosingInv'
  BY <1>8 DEF Visit, Receiving, Serving
<1>9. ASSUME NEW e \in Events, VisitRecords(e) PROVE ClosingInv'
  <2>1. closer' = closer /\ UNCHANGED <<appVars, adminVars>>
    BY <1>9 DEF VisitRecords, Record, RecordInvalid, RecordEnter, RecordSend
  <2> QED BY <2>1 DEF appVars, adminVars
<1>10. ASSUME NEW e \in Events, VisitEnds(e) PROVE ClosingInv'
  BY <1>10 DEF VisitEnds, recorderVars, adminVars
<1>11. CASE RecorderWorks
  <2>1. closer' = closer /\ UNCHANGED <<appVars, adminVars>>
    BY <1>11 DEF RecorderWorks, Worker, WorkerReceive, WorkerEnds, WorkerCheck, WorkerPersist
  <2> QED BY <2>1 DEF appVars, adminVars
<1>12. CASE SchedulerWorks \/ \E j \in Jobs : SyncNow(j)
  BY <1>12 DEF SchedulerWorks, SyncNow, recorderVars, appVars, adminVars
<1>13. CASE BackupBegin \/ RestoreBegin \/ PasswordBegin
  BY <1>13 DEF BackupBegin, RestoreBegin, PasswordBegin, Receiving, Serving, appVars
<1>14. CASE QueueCreate \/ QueueWrite \/ RestoreRead \/ RestoreMark \/ Accept
  BY <1>14 DEF QueueCreate, QueueWrite, RestoreRead, RestoreMark, Accept, recorderVars, appVars
<1>15. CASE RestartAfterBackup \/ PasswordUpdate \/ RestartAfterChange
  BY <1>15 DEF RestartAfterBackup, PasswordUpdate, RestartAfterChange, recorderVars, appVars
<1>16. CASE UNCHANGED vars
  BY <1>16 DEF vars, recorderVars, appVars, adminVars
<1> QED BY <1>1, <1>2, <1>3, <1>4, <1>5, <1>6, <1>7, <1>8, <1>9, <1>10, <1>11, <1>12, <1>13,
           <1>14, <1>15, <1>16
        DEF Next, Main, Administer

\* Whoever uses the database is gone when it is closed: every job has ended,
\* the recorder has written what it accepted or its deadline has passed, and a
\* request that is left belongs to a process that ends.
THEOREM DatabaseOutlivesItsUsers == Spec => []DatabaseClosesLast
<1>1. RecorderInv /\ AppInv /\ ScheduleInv /\ ClosingInv => DatabaseClosesLast
  <2> SUFFICES ASSUME RecorderInv, ScheduleInv, ClosingInv,
                      phase \in {"database", "restore", "backup", "unqueue", "start"}
               PROVE  /\ \A r \in Runs, j \in Jobs : loop[r][j] \notin {"select", "execute"}
                      /\ phase = "database" =>
                            closer = "late" \/ (worker = "done" /\ attempted = accepted)
                      /\ NoRequests \/ (phase = "database" /\ overdue /\ ~restarting)
    BY DEF DatabaseClosesLast
  <2>1. \A r \in Runs, j \in Jobs : loop[r][j] \notin {"select", "execute"}
    BY DEF ScheduleInv, SchedulerInv, OneActive
  <2>2. closer = "drained" => worker = "done" /\ attempted = accepted
    BY DEF RecorderInv, Ended, DrainedIsComplete
  <2> QED BY <2>1, <2>2 DEF ClosingInv, Off
<1> QED BY <1>1, ClosingInvInit, ClosingInvNext, RecorderInLifetimes, ScheduleInvariance, PTL DEF Spec

-----------------------------------------------------------------------------
(* Promised snapshots                                                      *)

\* An administrator request is inside a lifetime, and holds its token.
AdminInside ==
    /\ admin \in {"idle", "queue", "write", "read", "mark", "accept", "ready"}
    /\ admin # "idle" => active /\ phase \notin Off

\* Between its creation and the promise the request file belongs to the
\* request that created it, and an installed one has been settled.
QueueInv ==
    /\ admin \in {"idle", "read", "mark"} => chosen = None
    /\ chosen \in Backups \cup {None} /\ accepted202 \subseteq Backups
    /\ admin = "write" => request = Torn
    /\ admin = "accept" /\ chosen # None => request = chosen
    /\ phase = "unqueue" /\ request \in Backups => request \in snapshots \cup failed

BackupInv == AdminInside /\ QueueInv /\ PromisedBackupSettled

LEMMA BackupInvInit == Init => BackupInv
  BY DEF Init, NewLifetime, BackupInv, AdminInside, QueueInv, PromisedBackupSettled

LEMMA BackupInvNext == BackupInv /\ [Next]_vars => BackupInv'
<1> SUFFICES ASSUME BackupInv, [Next]_vars PROVE BackupInv'
  OBVIOUS
<1> USE LifecycleAssumption DEF BackupInv, AdminInside, QueueInv, PromisedBackupSettled, Off
<1>1. CASE ApplyRestore \/ Start
  BY <1>1 DEF ApplyRestore, Start, adminVars, historyVars, diskVars
<1>2. CASE ApplyBackup
  BY <1>2 DEF ApplyBackup, adminVars
<1>3. CASE Unqueue
  BY <1>3 DEF Unqueue, adminVars, historyVars
<1>4. CASE StopForRestart \/ StopForSignal
  <2>1. phase' = "shutdown" /\ UNCHANGED <<adminVars, diskVars, historyVars>>
    BY <1>4, Zenon DEF StopForRestart, StopForSignal, Stop
  <2> QED BY <2>1 DEF adminVars, diskVars, historyVars
<1>14. CASE Shutdown \/ ScheduleStopped
  BY <1>14 DEF Shutdown, ScheduleStopped, adminVars, diskVars, historyVars
<1>15. CASE StopSchedule
  BY <1>15 DEF StopSchedule, appVars, adminVars, diskVars, historyVars
<1>16. CASE CloseRecorder
  <2>1. phase' \in {"recorder", "database"} /\ UNCHANGED <<adminVars, diskVars, historyVars>>
    BY <1>16 DEF CloseRecorder
  <2> QED BY <2>1, <1>16 DEF CloseRecorder, adminVars, diskVars, historyVars
<1>5. CASE CloseDatabase \/ Crash
  BY <1>5 DEF CloseDatabase, Crash, Die, Fresh, diskVars, historyVars
<1>6. CASE Relaunch
  BY <1>6 DEF Relaunch, adminVars, diskVars, historyVars
<1>7. ASSUME NEW e \in Events, Visit(e) \/ VisitRecords(e) \/ VisitEnds(e) PROVE BackupInv'
  BY <1>7 DEF Visit, VisitRecords, VisitEnds, appVars, adminVars, diskVars, historyVars
<1>8. CASE RecorderWorks \/ SchedulerWorks \/ \E j \in Jobs : SyncNow(j)
  BY <1>8 DEF RecorderWorks, SchedulerWorks, SyncNow, appVars, adminVars, diskVars, historyVars
<1>9. CASE BackupBegin \/ QueueCreate \/ QueueWrite
  BY <1>9 DEF BackupBegin, QueueCreate, QueueWrite, Release, Receiving, Serving, appVars, diskVars, historyVars
<1>10. CASE RestoreBegin
  <2>1. /\ phase = "serving" /\ ~active /\ active' /\ admin' = "read"
        /\ UNCHANGED <<appVars, chosen, diskVars, historyVars>>
    BY <1>10, Zenon DEF RestoreBegin, Receiving, Serving
  <2> QED BY <2>1 DEF appVars, diskVars, historyVars
<1>17. CASE RestoreRead \/ RestoreMark
  BY <1>17 DEF RestoreRead, RestoreMark, Release, appVars, diskVars, historyVars
<1>11. CASE Accept \/ RestartAfterBackup
  BY <1>11 DEF Accept, RestartAfterBackup, appVars, diskVars, historyVars
<1>12. CASE PasswordBegin \/ PasswordUpdate \/ RestartAfterChange
  BY <1>12 DEF PasswordBegin, PasswordUpdate, RestartAfterChange, appVars, diskVars, historyVars
<1>13. CASE UNCHANGED vars
  BY <1>13 DEF vars, appVars, adminVars, diskVars, historyVars
<1> QED BY <1>1, <1>2, <1>3, <1>4, <1>5, <1>6, <1>7, <1>8, <1>9, <1>10, <1>11, <1>12, <1>13,
           <1>14, <1>15, <1>16, <1>17
        DEF Next, Main, Administer

\* A snapshot promised with 202 exists, has been recorded as failed, or its
\* request is on the disk for the next start, whatever crashes come.
THEOREM PromisesAreKept == Spec => []PromisedBackupSettled
<1>1. BackupInv => PromisedBackupSettled
  BY DEF BackupInv
<1> QED BY <1>1, BackupInvInit, BackupInvNext, PTL DEF Spec

-----------------------------------------------------------------------------
(* The credential of the administrator                                     *)

\* No candidate is recorded while one is prepared or a password is changed,
\* the prepared one has the credential in force, and a restore is installed
\* before the lifetime that could prepare another.
CredentialInv ==
    /\ AdminInside
    /\ CredentialRetained
    /\ change = "update" => marker = None /\ admin \notin {"read", "mark"}
    /\ change # "idle" => phase \notin Off
    /\ admin \in {"queue", "write", "read", "mark"} => marker = None
    /\ admin = "mark" => candidate = credential
    /\ ~active /\ phase \notin {"exited", "restore"} => marker = None

LEMMA CredentialInvInit == Init => CredentialInv
  BY DEF Init, NewLifetime, CredentialInv, AdminInside, CredentialRetained

LEMMA CredentialInvNext ==
  ASSUME ~PasswordDuringRestore, CredentialInv, [Next]_vars
  PROVE  CredentialInv'
<1> USE LifecycleAssumption DEF CredentialInv, AdminInside, CredentialRetained, Off
<1>1. CASE ApplyRestore
  BY <1>1 DEF ApplyRestore, adminVars, historyVars
<1>2. CASE ApplyBackup \/ Unqueue \/ Start
  BY <1>2 DEF ApplyBackup, Unqueue, Start, adminVars, historyVars, diskVars
<1>3. CASE StopForRestart \/ StopForSignal
  <2>1. phase = "serving" /\ phase' = "shutdown" /\ UNCHANGED <<adminVars, diskVars, historyVars>>
    BY <1>3, Zenon DEF StopForRestart, StopForSignal, Stop, Serving
  <2> QED BY <2>1 DEF adminVars, diskVars, historyVars
<1>4. CASE Shutdown \/ ScheduleStopped
  BY <1>4 DEF Shutdown, ScheduleStopped, adminVars, diskVars, historyVars
<1>5. CASE StopSchedule
  BY <1>5 DEF StopSchedule, appVars, adminVars, diskVars, historyVars
<1>6. CASE CloseRecorder
  <2>1. phase' \in {"recorder", "database"} /\ UNCHANGED <<adminVars, diskVars, historyVars>>
    BY <1>6 DEF CloseRecorder
  <2> QED BY <2>1, <1>6 DEF CloseRecorder, adminVars, diskVars, historyVars
<1>7. CASE CloseDatabase \/ Crash
  BY <1>7 DEF CloseDatabase, Crash, Die, Fresh, diskVars, historyVars
<1>8. CASE Relaunch
  BY <1>8 DEF Relaunch, adminVars, diskVars, historyVars
<1>9. ASSUME NEW e \in Events, Visit(e) \/ VisitRecords(e) \/ VisitEnds(e) PROVE CredentialInv'
  BY <1>9 DEF Visit, VisitRecords, VisitEnds, appVars, adminVars, diskVars, historyVars
<1>10. CASE RecorderWorks \/ SchedulerWorks \/ \E j \in Jobs : SyncNow(j)
  BY <1>10 DEF RecorderWorks, SchedulerWorks, SyncNow, appVars, adminVars, diskVars, historyVars
<1>11. CASE BackupBegin \/ QueueCreate \/ QueueWrite
  BY <1>11 DEF BackupBegin, QueueCreate, QueueWrite, Release, Receiving, Serving, appVars, diskVars, historyVars
<1>12. CASE RestoreBegin
  <2>1. /\ phase = "serving" /\ ~active /\ active' /\ admin' = "read" /\ change # "update"
        /\ UNCHANGED <<appVars, candidate, change, diskVars, historyVars>>
    BY <1>12, Zenon DEF RestoreBegin, Receiving, Serving
  <2> QED BY <2>1 DEF appVars, diskVars, historyVars
<1>18. CASE RestoreRead
  BY <1>18 DEF RestoreRead, Release, appVars, diskVars, historyVars
<1>13. CASE RestoreMark
  BY <1>13 DEF RestoreMark, Release, appVars, historyVars
<1>14. CASE Accept \/ RestartAfterBackup
  BY <1>14 DEF Accept, RestartAfterBackup, appVars, diskVars, historyVars
<1>15. CASE PasswordBegin \/ RestartAfterChange
  BY <1>15 DEF PasswordBegin, RestartAfterChange, Receiving, Serving, appVars, diskVars, historyVars
<1>16. CASE PasswordUpdate
  BY <1>16 DEF PasswordUpdate, appVars
<1>17. CASE UNCHANGED vars
  BY <1>17 DEF vars, appVars, adminVars, diskVars, historyVars
<1> QED BY <1>1, <1>2, <1>3, <1>4, <1>5, <1>6, <1>7, <1>8, <1>9, <1>10, <1>11, <1>12, <1>13, <1>14,
           <1>15, <1>16, <1>17, <1>18
        DEF Next, Main, Administer

\* Unless a password is changed while a restore is prepared, the next lifetime
\* accepts the password of the last change that was acknowledged.
THEOREM CredentialSurvivesRestore ==
  ASSUME ~PasswordDuringRestore
  PROVE  Spec => []CredentialRetained
<1>1. CredentialInv /\ [Next]_vars => CredentialInv'
  BY CredentialInvNext
<1>2. CredentialInv => CredentialRetained
  BY DEF CredentialInv
<1> QED BY <1>1, <1>2, CredentialInvInit, PTL DEF Spec

=============================================================================
