-------------------------------- MODULE Login --------------------------------
(***************************************************************************)
(* Sessions composed with what stands in front of a login (internal/auth): *)
(* the failure counts per remote source, the slots for password checks,    *)
(* which a password change takes as well, and the duration of remembered   *)
(* sessions, which the admin API keeps in the table and in memory.         *)
(*                                                                         *)
(* The source is admitted under the mutex, the slot is taken and the       *)
(* password compared outside it, and the failure is counted under it       *)
(* again: attempts of one source overtake each other in between.           *)
(*                                                                         *)
(* Abstractions: the five-minute window of a source ends at any moment; a  *)
(* duration is a number of days out of a small set; a request the limiter  *)
(* refuses changes nothing and is left out.                                *)
(***************************************************************************)
EXTENDS Sessions

CONSTANTS
    Sources,        \* the remote addresses logins come from
    MaxFailures,    \* DefaultMaxLoginFailures
    MaxSources,     \* DefaultMaxLoginSources
    MaxChecks,      \* DefaultMaxConcurrentLogins
    Days,           \* the remembered-login durations an administrator sets
    OverlapPolicy   \* may two changes of the duration be in flight at once?

ASSUME LoginAssumption ==
    /\ IsFiniteSet(Handlers)
    /\ IsFiniteSet(Sources)
    /\ {MaxFailures, MaxSources, MaxChecks} \subseteq Nat \ {0}
    /\ Days # {}
    /\ OverlapPolicy \in BOOLEAN

VARIABLES
    failures,   \* source -> loginFailures[source].count, 0 when it has no entry
    slots,      \* the number of elements in loginSlots
    phase,      \* handler -> what it does in front of, or around, a session step
    from,       \* handler -> the source of its login, or None
    remember,   \* Authenticator.rememberDuration
    stored,     \* admin_settings.remember_duration_days
    wanted,     \* handler -> the duration it is about to put into memory, or None
    restarting  \* a restart is asked for after the settings were saved

limiterVars == <<failures, slots, phase, from>>
policyVars == <<remember, stored, wanted, restarting>>
loginVars == <<vars, limiterVars, policyVars>>

\* A login is admitted, checks the password, and keeps its slot while the
\* session is created; a password change verifies and then changes.
Phases == {"none", "admitted", "checking", "creating", "verifying", "verified", "applying"}

LoginTypeOK ==
    /\ failures \in [Sources -> Nat]
    /\ slots \in 0..MaxChecks
    /\ phase \in [Handlers -> Phases]
    /\ from \in [Handlers -> Sources \cup {None}]
    /\ \A h \in Handlers : phase[h] \in {"admitted", "checking"} => from[h] \in Sources
    /\ \A h \in Handlers : phase[h] = "creating" <=> pc[h] \in {"persist", "insert"}
    /\ \A h \in Handlers : phase[h] \notin {"none", "creating"} => pc[h] = "idle"
    /\ {remember, stored} \subseteq Days
    /\ wanted \in [Handlers -> Days \cup {None}]
    /\ \A h \in Handlers : phase[h] = "applying" => wanted[h] \in Days
    /\ restarting \in BOOLEAN

LoginInit ==
    /\ Init
    /\ failures = [s \in Sources |-> 0]
    /\ slots = 0
    /\ phase = [h \in Handlers |-> "none"]
    /\ from = [h \in Handlers |-> None]
    /\ remember \in Days
    /\ stored = remember
    /\ wanted = [h \in Handlers |-> None]
    /\ restarting = FALSE

\* A handler that is free to take a request.
Free(h) == pc[h] = "idle" /\ phase[h] = "none"

Tracked == {s \in Sources : failures[s] > 0}

Enter(h, p) == phase' = [phase EXCEPT ![h] = p]

TakeSlot == slots < MaxChecks /\ slots' = slots + 1
ReleaseSlot == slots' = slots - 1

\* Mutant: only the room for new sources is looked at.
BlockedWhenFull(s) == s \notin Tracked /\ Cardinality(Tracked) >= MaxSources

\* loginBlocked: too many failures, or no room to count the first one.
Blocked(s) ==
    IF s \in Tracked THEN failures[s] >= MaxFailures
    ELSE Cardinality(Tracked) >= MaxSources

\* Mutant: the failure is counted whatever the number of sources by now.
CountedAlways(s) == [failures EXCEPT ![s] = @ + 1]

\* recordLoginFailure looks at the room again: other sources may have come.
Counted(s) ==
    IF s \notin Tracked /\ Cardinality(Tracked) >= MaxSources THEN failures
    ELSE [failures EXCEPT ![s] = @ + 1]

-----------------------------------------------------------------------------
(* A login in front of createSession.                                      *)

LoginAdmit(h) ==
    /\ Free(h)
    /\ \E s \in Sources :
          /\ ~Blocked(s)
          /\ from' = [from EXCEPT ![h] = s]
    /\ Enter(h, "admitted")
    /\ UNCHANGED <<vars, failures, slots, policyVars>>

LoginTakeSlot(h) ==
    /\ phase[h] = "admitted"
    /\ TakeSlot
    /\ Enter(h, "checking")
    /\ UNCHANGED <<vars, failures, from, policyVars>>

Leave(h) ==
    /\ Enter(h, "none")
    /\ from' = [from EXCEPT ![h] = None]

\* Every slot is taken: the attempt is refused, and not counted.
LoginBusy(h) ==
    /\ phase[h] = "admitted"
    /\ slots = MaxChecks
    /\ Leave(h)
    /\ UNCHANGED <<vars, failures, slots, policyVars>>

\* The user name or the password is wrong.
LoginWrong(h) ==
    /\ phase[h] = "checking"
    /\ failures' = Counted(from[h])
    /\ ReleaseSlot
    /\ Leave(h)
    /\ UNCHANGED <<vars, policyVars>>

\* Both are right: the failures of the source are forgotten.
LoginRight(h) ==
    /\ phase[h] = "checking"
    /\ LoginStart(h)
    /\ failures' = [failures EXCEPT ![from[h]] = 0]
    /\ from' = [from EXCEPT ![h] = None]
    /\ Enter(h, "creating")
    /\ UNCHANGED <<slots, policyVars>>

LoginPersists(h) == LoginPersist(h) /\ UNCHANGED <<limiterVars, policyVars>>

\* Mutant: a login that cannot store its session keeps its slot.
LoginEndsKeepingSlot(h) ==
    /\ \/ LoginInsert(h) /\ ReleaseSlot
       \/ LoginPersistFails(h) /\ UNCHANGED slots
    /\ Enter(h, "none")
    /\ UNCHANGED <<failures, from, policyVars>>

\* The session is created, or cannot be: the deferred release runs.
LoginEnds(h) ==
    /\ LoginInsert(h) \/ LoginPersistFails(h)
    /\ ReleaseSlot
    /\ Enter(h, "none")
    /\ UNCHANGED <<failures, from, policyVars>>

WindowEnds(s) ==
    /\ s \in Tracked
    /\ failures' = [failures EXCEPT ![s] = 0]
    /\ UNCHANGED <<vars, slots, phase, from, policyVars>>

-----------------------------------------------------------------------------
(* The password change around ChangePassword: VerifyPassword takes a slot  *)
(* and gives it back before anything is stored.                            *)

Verify(h) ==
    /\ Free(h)
    /\ TakeSlot
    /\ Enter(h, "verifying")
    /\ UNCHANGED <<vars, failures, from, policyVars>>

\* The current password is right, or wrong: that is not counted.
Verified(h) ==
    /\ phase[h] = "verifying"
    /\ ReleaseSlot
    /\ \E p \in {"verified", "none"} : Enter(h, p)
    /\ UNCHANGED <<vars, failures, from, policyVars>>

\* The new verifier is stored; a failure to store it is answered.
Change(h) ==
    /\ phase[h] = "verified"
    /\ ChangePassword(h) \/ UNCHANGED vars
    /\ Enter(h, "none")
    /\ UNCHANGED <<failures, slots, from, policyVars>>

-----------------------------------------------------------------------------
(* The duration of remembered sessions.                                    *)

\* NewAdminSessionPolicyHandler stores the duration ...
PolicyStore(h) ==
    /\ Free(h)
    /\ OverlapPolicy \/ \A g \in Handlers : phase[g] # "applying"
    /\ stored' \in Days
    /\ wanted' = [wanted EXCEPT ![h] = stored']
    /\ Enter(h, "applying")
    /\ UNCHANGED <<vars, failures, slots, from, remember, restarting>>

\* ... and then puts it into memory.
PolicyApply(h) ==
    /\ phase[h] = "applying"
    /\ remember' = wanted[h]
    /\ wanted' = [wanted EXCEPT ![h] = None]
    /\ Enter(h, "none")
    /\ UNCHANGED <<vars, failures, slots, from, stored, restarting>>

\* NewApplicationSettingsHandler stores every setting, the duration among
\* them, and asks for a restart.
SettingsSave(h) ==
    /\ Free(h)
    /\ stored' \in Days
    /\ restarting' = TRUE
    /\ UNCHANGED <<vars, limiterVars, remember, wanted>>

-----------------------------------------------------------------------------

\* The other requests of Sessions.
SessionRequest(h) ==
    /\ phase[h] = "none"
    /\ \/ AuthenticateLookup(h) \/ AuthenticateGet(h) \/ AuthenticateCache(h)
       \/ LogoutMemory(h) \/ LogoutStore(h) \/ LogoutStoreFails(h)
       \/ RevokeAllSessions(h)
    /\ UNCHANGED <<limiterVars, policyVars>>

\* Mutant: a new lifetime goes on with the duration of the last one.
LoginRestartStale ==
    /\ Restart
    /\ failures' = [s \in Sources |-> 0]
    /\ slots' = 0
    /\ phase' = [h \in Handlers |-> "none"]
    /\ from' = [h \in Handlers |-> None]
    /\ wanted' = [h \in Handlers |-> None]
    /\ restarting' = FALSE
    /\ UNCHANGED <<remember, stored>>

\* loadAuthenticator: a new authenticator has no failures and free slots, and
\* reads the duration from the table.
LoginRestart ==
    /\ Restart
    /\ failures' = [s \in Sources |-> 0]
    /\ slots' = 0
    /\ phase' = [h \in Handlers |-> "none"]
    /\ from' = [h \in Handlers |-> None]
    /\ remember' = stored
    /\ wanted' = [h \in Handlers |-> None]
    /\ restarting' = FALSE
    /\ UNCHANGED stored

LoginExpire(k) == Expire(k) /\ UNCHANGED <<limiterVars, policyVars>>

LoginNext ==
    \/ \E h \in Handlers :
          \/ LoginAdmit(h) \/ LoginTakeSlot(h) \/ LoginBusy(h) \/ LoginWrong(h)
          \/ LoginRight(h) \/ LoginPersists(h) \/ LoginEnds(h)
          \/ Verify(h) \/ Verified(h) \/ Change(h)
          \/ PolicyStore(h) \/ PolicyApply(h) \/ SettingsSave(h)
          \/ SessionRequest(h)
    \/ \E s \in Sources : WindowEnds(s)
    \/ LoginRestart
    \/ \E k \in Tokens : LoginExpire(k)

LoginSpec == LoginInit /\ [][LoginNext]_loginVars

-----------------------------------------------------------------------------
(* Properties.                                                             *)

InFlight(s) == {h \in Handlers : phase[h] \in {"admitted", "checking"} /\ from[h] = s}

\* Attempts that were admitted side by side are all counted, so a source gets
\* more than MaxFailures wrong passwords, but never more than one extra per
\* request beside the one that fills the count; and no more sources are
\* tracked than there is room for, though all of them may be admitted at once.
LimiterBounded ==
    /\ \A s \in Sources :
          failures[s] + Cardinality(InFlight(s)) <= MaxFailures - 1 + Cardinality(Handlers)
    /\ Cardinality(Tracked) <= MaxSources

\* Every slot in use belongs to a request that is checking a password or
\* creating its session: no way out of a login or a password change keeps
\* one, which would shut everybody out until the next restart.
SlotsAccounted ==
    slots = Cardinality({h \in Handlers : phase[h] \in {"checking", "creating", "verifying"}})

\* When no change of the duration is under way, the duration new logins get is
\* the one the table holds and the settings page shows.
PolicyAgrees ==
    ~restarting /\ (\A h \in Handlers : phase[h] # "applying") => remember = stored
=============================================================================
