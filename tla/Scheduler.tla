----------------------------- MODULE Scheduler -----------------------------
(***************************************************************************)
(* The in-process job scheduler (internal/scheduler): Run starts one loop  *)
(* per job and returns when its context is cancelled and all of them have  *)
(* ended; a job runs at every tick of its ticker and whenever it is        *)
(* triggered, a trigger being a channel of capacity one.                   *)
(*                                                                         *)
(* Abstractions: a tick may come at any time; what a job does is not       *)
(* modelled, only that it starts, and returns, as a cancelled job must.    *)
(***************************************************************************)
EXTENDS Naturals, FiniteSets

CONSTANTS
    Jobs,      \* the scheduled jobs
    Enabled,   \* those with a ticker
    Runs       \* the calls of Run

ASSUME SchedulerAssumption == Enabled \subseteq Jobs

VARIABLES
    running,    \* the flag under the mutex
    run,        \* call of Run -> its state
    stopped,    \* the calls whose context is cancelled
    loop,       \* call of Run and job -> where its runJob is
    trigger,    \* the jobs with a request in their channel
    unserved    \* the jobs asked for since they last started (history)

schedulerVars == <<running, run, stopped, loop, trigger, unserved>>

\* Every variable has its type, and the flag is set exactly while a call has
\* loops.
SchedulerTypeOK ==
    /\ running \in BOOLEAN
    /\ run \in [Runs -> {"new", "active", "refused", "returned"}]
    /\ stopped \subseteq Runs
    /\ loop \in [Runs -> [Jobs -> {"off", "select", "execute", "ended"}]]
    /\ trigger \subseteq Jobs
    /\ unserved \subseteq Jobs
    /\ running <=> \E r \in Runs : run[r] = "active"
    /\ \A r \in Runs, j \in Jobs : loop[r][j] # "off" => run[r] \in {"active", "returned"}

SchedulerInit ==
    /\ running = FALSE
    /\ run = [r \in Runs |-> "new"]
    /\ stopped = {}
    /\ loop = [r \in Runs |-> [j \in Jobs |-> "off"]]
    /\ trigger = {}
    /\ unserved = {}

\* Trigger: a request that finds one in the channel is coalesced with it.
Trigger(j) ==
    /\ trigger' = trigger \cup {j}
    /\ unserved' = unserved \cup {j}
    /\ UNCHANGED <<running, run, stopped, loop>>

\* Run starts a loop for every job.
RunStart(r) ==
    /\ run[r] = "new"
    /\ ~running
    /\ running' = TRUE
    /\ run' = [run EXCEPT ![r] = "active"]
    /\ loop' = [loop EXCEPT ![r] = [j \in Jobs |-> "select"]]
    /\ UNCHANGED <<stopped, trigger, unserved>>

\* A second call, while the first has not returned, gets ErrRunning.
RunRefused(r) ==
    /\ run[r] = "new"
    /\ running
    /\ run' = [run EXCEPT ![r] = "refused"]
    /\ UNCHANGED <<running, stopped, loop, trigger, unserved>>

\* Mutant: Run does not wait for the jobs that are still running.
RunReturnEarly(r) ==
    /\ run[r] = "active"
    /\ r \in stopped
    /\ run' = [run EXCEPT ![r] = "returned"]
    /\ running' = FALSE
    /\ UNCHANGED <<stopped, loop, trigger, unserved>>

\* workers.Wait, then the deferred reset of the flag.
RunReturn(r) ==
    /\ run[r] = "active"
    /\ \A j \in Jobs : loop[r][j] = "ended"
    /\ run' = [run EXCEPT ![r] = "returned"]
    /\ running' = FALSE
    /\ UNCHANGED <<stopped, loop, trigger, unserved>>

Cancel(r) ==
    /\ run[r] = "active"
    /\ stopped' = stopped \cup {r}
    /\ UNCHANGED <<running, run, loop, trigger, unserved>>

-----------------------------------------------------------------------------
(* runJob: one select                                                      *)

Execute(r, j) ==
    /\ loop[r][j] = "select"
    /\ loop' = [loop EXCEPT ![r][j] = "execute"]
    /\ unserved' = unserved \ {j}

LoopTick(r, j) ==
    /\ j \in Enabled
    /\ Execute(r, j)
    /\ UNCHANGED <<running, run, stopped, trigger>>

\* The request leaves the channel before the job starts.
LoopTrigger(r, j) ==
    /\ j \in trigger
    /\ trigger' = trigger \ {j}
    /\ Execute(r, j)
    /\ UNCHANGED <<running, run, stopped>>

LoopDone(r, j) ==
    /\ loop[r][j] = "select"
    /\ r \in stopped
    /\ loop' = [loop EXCEPT ![r][j] = "ended"]
    /\ UNCHANGED <<running, run, stopped, trigger, unserved>>

\* Mutant: requests that came while the job ran are taken for served.
JobReturnsDrained(r, j) ==
    /\ loop[r][j] = "execute"
    /\ loop' = [loop EXCEPT ![r][j] = "select"]
    /\ trigger' = trigger \ {j}
    /\ UNCHANGED <<running, run, stopped, unserved>>

JobReturns(r, j) ==
    /\ loop[r][j] = "execute"
    /\ loop' = [loop EXCEPT ![r][j] = "select"]
    /\ UNCHANGED <<running, run, stopped, trigger, unserved>>

Loop(r, j) ==
    \/ LoopTick(r, j)
    \/ LoopTrigger(r, j)
    \/ LoopDone(r, j)
    \/ JobReturns(r, j)

SchedulerNext ==
    \/ \E j \in Jobs : Trigger(j)
    \/ \E r \in Runs : RunStart(r) \/ RunRefused(r) \/ RunReturn(r) \/ Cancel(r)
    \/ \E r \in Runs, j \in Jobs : Loop(r, j)

SchedulerSpec == SchedulerInit /\ [][SchedulerNext]_schedulerVars

-----------------------------------------------------------------------------
(* Properties                                                              *)

\* A job never runs twice at the same time, whoever calls Run and however
\* triggers, ticks and a stop fall together.
NoOverlap ==
    \A j \in Jobs, r, q \in Runs :
        loop[r][j] = "execute" /\ loop[q][j] = "execute" => r = q

\* "additional requests are safely coalesced" (scheduler.go): a job that was
\* asked for, and has not started since, still has a request in its channel,
\* one that arrived while the job was running included.
RequestIsKept == unserved \subseteq trigger

=============================================================================
