----------------------------- MODULE LoginProof -----------------------------
(***************************************************************************)
(* Proofs about Sessions and Login for any handlers, tokens, sources and   *)
(* limits: the credential binding, the removal of rows by a logout, and,   *)
(* when a cookie is not in use while it is logged out, the finality of a   *)
(* logout.  Login implements Sessions, so these theorems hold of it; the   *)
(* failure counts and the tracked sources are bounded; the slots in use    *)
(* are those of requests that hold one.                                    *)
(***************************************************************************)
EXTENDS Login, FiniteSetTheorems, TLAPS

-----------------------------------------------------------------------------
(* Sessions                                                                *)

\* The token of a login in flight is not known to any client, is bound to the
\* running verifier, and belongs to one login only.
LoginInv ==
    /\ \A h \in Handlers : pc[h] \in {"persist", "insert"} =>
          tok[h] \notin issued /\ bound[tok[h]] = verifier
    /\ \A g, h \in Handlers :
          pc[g] \in {"persist", "insert"} /\ pc[h] \in {"persist", "insert"} /\ g # h
              => tok[g] # tok[h]

\* Every other token in use has been issued, under a verifier.
TokenInv ==
    /\ sessions \subseteq issued
    /\ \A k \in issued : bound[k] # None
    /\ \A h \in Handlers : pc[h] \in {"get", "cache", "delete"} => tok[h] \in issued

\* What is in the map, or about to be put there, was checked against the
\* running verifier.
VerifierInv ==
    /\ SessionsMatchVerifier
    /\ \A h \in Handlers : pc[h] = "cache" => bound[tok[h]] = verifier

IInv == TypeOK /\ LoginInv /\ TokenInv /\ VerifierInv /\ LogoutClearsRow

\* Without overlap no request can bring a token back after its logout.
FinalInv ==
    /\ \A k \in loggedOut : k \notin sessions
    /\ \A h \in Handlers : pc[h] = "cache" => tok[h] \notin loggedOut
    /\ \A h \in Handlers : pc[h] = "delete" =>
          /\ tok[h] \notin sessions
          /\ \A g \in Handlers : pc[g] \in {"get", "cache"} => tok[g] # tok[h]

-----------------------------------------------------------------------------
(* The lemma about eviction: nothing but the new session is added.         *)

LEMMA InsertedSubset ==
    ASSUME NEW M, NEW k, NEW M1, Inserted(M, k, M1)
    PROVE  M1 \subseteq M \cup {k}
  BY DEF Inserted

\* Inserting into a set within the limit stays within the limit.
LEMMA InsertedBounded ==
    ASSUME NEW M, NEW k, NEW M1, IsFiniteSet(M), MaxSessions \in Nat \ {0},
           Cardinality(M) <= MaxSessions, Inserted(M, k, M1)
    PROVE  Cardinality(M1) <= MaxSessions
<1>1. CASE Cardinality(M) >= MaxSessions
  <2>1. PICK old \in M : M1 = (M \ {old}) \cup {k}
    BY <1>1 DEF Inserted
  <2>2. /\ IsFiniteSet(M \ {old})
        /\ Cardinality(M \ {old}) = Cardinality(M) - 1
        /\ Cardinality(M) \in Nat
    BY <2>1, FS_RemoveElement, FS_CardinalityType
  <2>3. Cardinality(M1) = Cardinality(M \ {old}) \/ Cardinality(M1) = Cardinality(M \ {old}) + 1
    BY <2>1, <2>2, FS_AddElement
  <2>4. QED
    BY <2>2, <2>3
<1>2. CASE ~(Cardinality(M) >= MaxSessions)
  <2>1. M1 = M \cup {k}
    BY <1>2 DEF Inserted
  <2>2. Cardinality(M) \in Nat
    BY FS_CardinalityType
  <2>3. Cardinality(M1) = Cardinality(M) \/ Cardinality(M1) = Cardinality(M) + 1
    BY <2>1, FS_AddElement
  <2>4. QED
    BY <1>2, <2>2, <2>3
<1>3. QED
  BY <1>1, <1>2

-----------------------------------------------------------------------------
(* The inductive invariant.                                                *)

LEMMA InitInductive == Init => IInv
  BY SessionsAssumption
     DEF Init, IInv, TypeOK, LoginInv, TokenInv, VerifierInv, LogoutClearsRow,
         SessionsMatchVerifier, Credential

\* Every step of every handler, and a restart, preserves the invariant.
LEMMA StepInductive == ASSUME IInv, [Next]_vars PROVE IInv'
<1> USE SessionsAssumption
    DEF IInv, TypeOK, LoginInv, TokenInv, VerifierInv, LogoutClearsRow,
        SessionsMatchVerifier, Credential
<1>1. ASSUME NEW h \in Handlers, LoginStart(h) PROVE IInv'
  BY <1>1 DEF LoginStart, Goto, Live
<1>2. ASSUME NEW h \in Handlers, LoginPersist(h) PROVE IInv'
  BY <1>2 DEF LoginPersist, PersistRow, Goto, Persisted
<1>3. ASSUME NEW h \in Handlers, LoginPersistFails(h) PROVE IInv'
  BY <1>3 DEF LoginPersistFails, Finish
<1>4. ASSUME NEW h \in Handlers, LoginInsert(h) PROVE IInv'
  <2>1. sessions' \subseteq Live \cup {tok[h]}
    BY <1>4, InsertedSubset DEF LoginInsert
  <2>2. QED
    BY <1>4, <2>1 DEF LoginInsert, Finish, Live
<1>5. ASSUME NEW h \in Handlers, AuthenticateLookup(h) PROVE IInv'
  BY <1>5 DEF AuthenticateLookup, Goto, Live
<1>6. ASSUME NEW h \in Handlers, AuthenticateGet(h) PROVE IInv'
  BY <1>6 DEF AuthenticateGet, Goto, Finish
<1>7. ASSUME NEW h \in Handlers, AuthenticateCache(h) PROVE IInv'
  <2>1. sessions' \subseteq sessions \cup {tok[h]}
    BY <1>7, InsertedSubset DEF AuthenticateCache
  <2>2. QED
    BY <1>7, <2>1 DEF AuthenticateCache, Finish
<1>8. ASSUME NEW h \in Handlers, LogoutMemory(h) PROVE IInv'
  BY <1>8 DEF LogoutMemory, Goto
<1>9. ASSUME NEW h \in Handlers, LogoutStore(h) PROVE IInv'
  BY <1>9 DEF LogoutStore, Finish
<1>10. ASSUME NEW h \in Handlers, ChangePassword(h) PROVE IInv'
  BY <1>10 DEF ChangePassword, Goto
<1>11. ASSUME NEW h \in Handlers, RevokeAllSessions(h) PROVE IInv'
  BY <1>11 DEF RevokeAllSessions, Finish
<1>12. CASE Restart
  BY <1>12 DEF Restart
<1>13. ASSUME NEW k \in Tokens, Expire(k) PROVE IInv'
  BY <1>13 DEF Expire
<1>14. CASE UNCHANGED vars
  BY <1>14 DEF vars
<1>15. ASSUME NEW h \in Handlers, LogoutStoreFails(h) PROVE IInv'
  BY <1>15 DEF LogoutStoreFails, Finish
<1>16. QED
  BY <1>1, <1>2, <1>3, <1>4, <1>5, <1>6, <1>7, <1>8, <1>9, <1>10, <1>11, <1>12, <1>13, <1>14, <1>15
     DEF Next

LEMMA Invariance == Spec => []IInv
  BY InitInductive, StepInductive, PTL DEF Spec

\* Type correctness: a row is always bound to the verifier its login was
\* checked against.
THEOREM TypeCorrect == Spec => []TypeOK
<1>1. IInv => TypeOK
  BY DEF IInv
<1>2. QED
  BY <1>1, Invariance, PTL

\* No session of an earlier credential is ever active.
THEOREM VerifierMatches == Spec => []SessionsMatchVerifier
<1>1. IInv => SessionsMatchVerifier
  BY DEF IInv, VerifierInv
<1>2. QED
  BY <1>1, Invariance, PTL

\* A logout whose deletion reached the table removes the row for good, whatever
\* runs beside it.  One whose deletion failed is answered alike and keeps it.
THEOREM LogoutRemovesRow == Spec => []LogoutClearsRow
<1>1. IInv => LogoutClearsRow
  BY DEF IInv
<1>2. QED
  BY <1>1, Invariance, PTL

-----------------------------------------------------------------------------
(* The finality of a logout.                                               *)

LEMMA StepFinal ==
    ASSUME ~OverlapLogout, IInv, FinalInv, [Next]_vars
    PROVE  FinalInv'
<1> USE SessionsAssumption
    DEF FinalInv, IInv, TypeOK, LoginInv, TokenInv, LogoutClearsRow, Credential
<1>1. ASSUME NEW h \in Handlers, LoginStart(h) PROVE FinalInv'
  BY <1>1 DEF LoginStart, Goto, Live
<1>2. ASSUME NEW h \in Handlers, LoginPersist(h) PROVE FinalInv'
  BY <1>2 DEF LoginPersist, PersistRow, Goto, Persisted
<1>3. ASSUME NEW h \in Handlers, LoginPersistFails(h) PROVE FinalInv'
  BY <1>3 DEF LoginPersistFails, Finish
<1>4. ASSUME NEW h \in Handlers, LoginInsert(h) PROVE FinalInv'
  <2>1. sessions' \subseteq Live \cup {tok[h]}
    BY <1>4, InsertedSubset DEF LoginInsert
  <2>2. QED
    BY <1>4, <2>1 DEF LoginInsert, Finish, Live
<1>5. ASSUME NEW h \in Handlers, AuthenticateLookup(h) PROVE FinalInv'
  BY <1>5 DEF AuthenticateLookup, Goto, Live
<1>6. ASSUME NEW h \in Handlers, AuthenticateGet(h) PROVE FinalInv'
  BY <1>6 DEF AuthenticateGet, Goto, Finish
<1>7. ASSUME NEW h \in Handlers, AuthenticateCache(h) PROVE FinalInv'
  <2>1. sessions' \subseteq sessions \cup {tok[h]}
    BY <1>7, InsertedSubset DEF AuthenticateCache
  <2>2. QED
    BY <1>7, <2>1 DEF AuthenticateCache, Finish
<1>8. ASSUME NEW h \in Handlers, LogoutMemory(h) PROVE FinalInv'
  BY <1>8 DEF LogoutMemory, Goto
<1>9. ASSUME NEW h \in Handlers, LogoutStore(h) PROVE FinalInv'
  BY <1>9 DEF LogoutStore, Finish
<1>10. ASSUME NEW h \in Handlers, ChangePassword(h) PROVE FinalInv'
  BY <1>10 DEF ChangePassword, Goto
<1>11. ASSUME NEW h \in Handlers, RevokeAllSessions(h) PROVE FinalInv'
  BY <1>11 DEF RevokeAllSessions, Finish
<1>12. CASE Restart
  BY <1>12 DEF Restart
<1>13. ASSUME NEW k \in Tokens, Expire(k) PROVE FinalInv'
  BY <1>13 DEF Expire
<1>14. CASE UNCHANGED vars
  BY <1>14 DEF vars
<1>15. ASSUME NEW h \in Handlers, LogoutStoreFails(h) PROVE FinalInv'
  BY <1>15 DEF LogoutStoreFails, Finish
<1>16. QED
  BY <1>1, <1>2, <1>3, <1>4, <1>5, <1>6, <1>7, <1>8, <1>9, <1>10, <1>11, <1>12, <1>13, <1>14, <1>15
     DEF Next

\* When no request with the same cookie is in flight during a logout, the
\* logged-out token is neither in memory nor in the table ever after.
THEOREM LogoutFinality == ASSUME ~OverlapLogout PROVE Spec => []LogoutIsFinal
<1>1. Init => FinalInv
  BY DEF Init, FinalInv
<1>2. IInv /\ FinalInv /\ [Next]_vars => FinalInv'
  BY StepFinal
<1>3. IInv /\ FinalInv => LogoutIsFinal
  BY DEF IInv, FinalInv, LogoutClearsRow, LogoutIsFinal
<1>4. QED
  BY <1>1, <1>2, <1>3, Invariance, PTL DEF Spec
-----------------------------------------------------------------------------
(* The bound on sessions and rows.                                         *)

LEMMA StepBounded ==
    ASSUME TypeOK, TypeOK', SessionsBounded, [Next]_vars
    PROVE  SessionsBounded'
<1> USE SessionsAssumption DEF SessionsBounded
<1>1. IsFiniteSet(sessions) /\ IsFiniteSet(Persisted) /\ IsFiniteSet(Live)
  BY FS_Subset DEF TypeOK, Persisted, Live
<1>2. ASSUME sessions' \subseteq sessions, Persisted' \subseteq Persisted
      PROVE  SessionsBounded'
  <2>1. /\ Cardinality(sessions') <= Cardinality(sessions)
        /\ Cardinality(Persisted') <= Cardinality(Persisted)
    BY <1>1, <1>2, FS_Subset
  <2>2. /\ IsFiniteSet(sessions') /\ IsFiniteSet(Persisted')
    BY <1>1, <1>2, FS_Subset
  <2>3. QED
    BY <1>1, <2>1, <2>2, FS_CardinalityType
<1>3. ASSUME NEW h \in Handlers, LoginPersist(h) PROVE SessionsBounded'
  <2>1. PICK after \in SUBSET ((Persisted \ expired) \cup {tok[h]}) :
           /\ Inserted(Persisted \ expired, tok[h], after)
           /\ rows' = [r \in Tokens |-> IF r = tok[h] THEN verifier
                                        ELSE IF r \in after THEN rows[r] ELSE None]
    BY <1>3 DEF LoginPersist, PersistRow
  <2>2. Persisted' \subseteq after
    <3>1. tok[h] \in after
      BY <2>1 DEF Inserted
    <3>2. QED
      BY <2>1, <3>1 DEF Persisted, TypeOK
  <2>3. IsFiniteSet(Persisted \ expired) /\ Cardinality(Persisted \ expired) <= MaxSessions
    <3>1. IsFiniteSet(Persisted \ expired) /\ Cardinality(Persisted \ expired) <= Cardinality(Persisted)
      BY <1>1, FS_Subset
    <3>2. QED
      BY <1>1, <3>1, FS_CardinalityType
  <2>4. IsFiniteSet(after) /\ Cardinality(after) <= MaxSessions
    <3>1. after \subseteq Tokens
      BY <1>3, <2>1 DEF TypeOK, Persisted, LoginPersist, PersistRow
    <3>2. QED
      BY <2>1, <2>3, <3>1, InsertedBounded, FS_Subset
  <2>5. IsFiniteSet(Persisted') /\ Cardinality(Persisted') <= Cardinality(after)
    BY <2>2, <2>4, FS_Subset
  <2>6. sessions' = sessions
    BY <1>3 DEF LoginPersist, PersistRow
  <2>7. QED
    BY <2>4, <2>5, <2>6, FS_CardinalityType
<1>4. ASSUME NEW h \in Handlers, LoginInsert(h) PROVE SessionsBounded'
  <2>1. Cardinality(Live) <= MaxSessions
    <3>1. Cardinality(Live) <= Cardinality(sessions)
      BY <1>1, FS_Subset DEF Live
    <3>2. QED
      BY <1>1, <3>1, FS_CardinalityType
  <2>2. Cardinality(sessions') <= MaxSessions
    BY <1>1, <1>4, <2>1, InsertedBounded DEF LoginInsert
  <2>3. Persisted' = Persisted
    BY <1>4 DEF LoginInsert, Persisted
  <2>4. QED
    BY <2>2, <2>3
<1>5. ASSUME NEW h \in Handlers, AuthenticateCache(h) PROVE SessionsBounded'
  <2>1. Cardinality(sessions') <= MaxSessions
    BY <1>1, <1>5, InsertedBounded DEF AuthenticateCache
  <2>2. Persisted' = Persisted
    BY <1>5 DEF AuthenticateCache, Persisted
  <2>3. QED
    BY <2>1, <2>2
<1>6. ASSUME NEW h \in Handlers,
             \/ LoginStart(h) \/ LoginPersistFails(h) \/ AuthenticateLookup(h)
             \/ AuthenticateGet(h) \/ LogoutMemory(h) \/ LogoutStore(h)
             \/ LogoutStoreFails(h) \/ ChangePassword(h) \/ RevokeAllSessions(h)
      PROVE  SessionsBounded'
  <2>1. sessions' \subseteq sessions /\ Persisted' \subseteq Persisted
    BY <1>6 DEF TypeOK, LoginStart, LoginPersistFails, AuthenticateLookup, AuthenticateGet,
                LogoutMemory, LogoutStore, LogoutStoreFails, ChangePassword, RevokeAllSessions, Live, Persisted
  <2>2. QED
    BY <1>2, <2>1
<1>7. ASSUME Restart \/ (\E k \in Tokens : Expire(k)) \/ UNCHANGED vars PROVE SessionsBounded'
  <2>1. sessions' \subseteq sessions /\ Persisted' \subseteq Persisted
    BY <1>7 DEF Restart, Expire, vars, Persisted
  <2>2. QED
    BY <1>2, <2>1
<1>8. QED
  BY <1>3, <1>4, <1>5, <1>6, <1>7 DEF Next

\* Neither the map nor the table outgrows the session limit, although a login
\* fills them in two separate critical sections.
THEOREM BoundedSessions == Spec => []SessionsBounded
<1>1. Init => SessionsBounded
  BY SessionsAssumption, FS_EmptySet DEF Init, SessionsBounded, Persisted
<1>2. TypeOK /\ TypeOK' /\ SessionsBounded /\ [Next]_vars => SessionsBounded'
  BY StepBounded
<1>3. QED
  BY <1>1, <1>2, TypeCorrect, PTL DEF Spec

-----------------------------------------------------------------------------
(* Login                                                                   *)

\* Every step of Login is a step of Sessions or leaves its state alone.
LEMMA LoginStepIsSessionStep == LoginNext \/ UNCHANGED loginVars => [Next]_vars
<1> USE DEF limiterVars, policyVars, loginVars
<1>1. ASSUME NEW h \in Handlers,
             \/ LoginRight(h) \/ LoginPersists(h) \/ LoginEnds(h) \/ Change(h) \/ SessionRequest(h)
      PROVE  [Next]_vars
  BY <1>1 DEF LoginRight, LoginPersists, LoginEnds, Change, SessionRequest, Next
<1>2. ASSUME NEW h \in Handlers,
             \/ LoginAdmit(h) \/ LoginTakeSlot(h) \/ LoginBusy(h) \/ LoginWrong(h)
             \/ Verify(h) \/ Verified(h) \/ PolicyStore(h) \/ PolicyApply(h) \/ SettingsSave(h)
      PROVE  UNCHANGED vars
  BY <1>2 DEF LoginAdmit, LoginTakeSlot, LoginBusy, LoginWrong, Verify, Verified, PolicyStore,
              PolicyApply, SettingsSave
<1>3. ASSUME NEW s \in Sources, WindowEnds(s) PROVE UNCHANGED vars
  BY <1>3 DEF WindowEnds
<1>4. CASE LoginRestart
  BY <1>4 DEF LoginRestart, Next
<1>5. ASSUME NEW k \in Tokens, LoginExpire(k) PROVE [Next]_vars
  BY <1>5 DEF LoginExpire, Next
<1>6. QED
  BY <1>1, <1>2, <1>3, <1>4, <1>5 DEF LoginNext

\* The composed specification implements Sessions.
THEOREM LoginRefinesSessions == LoginSpec => Spec
<1>1. LoginInit => Init
  BY DEF LoginInit
<1>2. [LoginNext]_loginVars => [Next]_vars
  BY LoginStepIsSessionStep
<1>3. QED
  BY <1>1, <1>2, PTL DEF LoginSpec, Spec

\* What is proved of the sessions holds behind the limiter too.
THEOREM SessionsBehindLogin ==
    LoginSpec => [](TypeOK /\ LogoutClearsRow /\ SessionsMatchVerifier /\ SessionsBounded)
  BY LoginRefinesSessions, TypeCorrect, LogoutRemovesRow, VerifierMatches, BoundedSessions, PTL

-----------------------------------------------------------------------------
(* Slots.                                                                  *)

Holding == {"checking", "creating", "verifying"}
Holders == {h \in Handlers : phase[h] \in Holding}

\* The slots in use follow the set of holders as one request comes or goes.
LEMMA HoldersMove ==
    ASSUME IsFiniteSet(Handlers), phase \in [Handlers -> Phases],
           slots = Cardinality(Holders),
           NEW h \in Handlers, NEW p \in Phases, phase' = [phase EXCEPT ![h] = p]
    PROVE  /\ phase[h] \notin Holding /\ p \in Holding => slots + 1 = Cardinality(Holders')
           /\ phase[h] \in Holding /\ p \notin Holding =>
                 slots \in Nat \ {0} /\ slots - 1 = Cardinality(Holders')
           /\ (phase[h] \in Holding <=> p \in Holding) => slots = Cardinality(Holders')
<1>1. IsFiniteSet(Holders) /\ slots \in Nat
  BY FS_Subset, FS_CardinalityType DEF Holders
<1>2. CASE phase[h] \notin Holding /\ p \in Holding
  <2>1. Holders' = Holders \cup {h} /\ h \notin Holders
    BY <1>2 DEF Holders
  <2>2. QED
    BY <1>1, <1>2, <2>1, FS_AddElement
<1>3. CASE phase[h] \in Holding /\ p \notin Holding
  <2>1. Holders' = Holders \ {h} /\ h \in Holders
    BY <1>3 DEF Holders
  <2>2. Cardinality(Holders') = Cardinality(Holders) - 1 /\ Cardinality(Holders') \in Nat
    BY <1>1, <2>1, FS_RemoveElement, FS_CardinalityType
  <2>3. QED
    BY <1>1, <1>3, <2>2
<1>4. CASE phase[h] \in Holding <=> p \in Holding
  <2>1. Holders' = Holders
    BY <1>4 DEF Holders
  <2>2. QED
    BY <1>4, <2>1
<1>5. QED
  BY <1>2, <1>3, <1>4

SlotInv == TypeOK /\ LoginTypeOK /\ SlotsAccounted

LEMMA SlotInitial == LoginInit => SlotInv
<1> SUFFICES ASSUME LoginInit PROVE SlotInv
  OBVIOUS
<1>1. TypeOK
  BY InitInductive DEF LoginInit, IInv
<1>2. LoginTypeOK
  <2>1. 0 \in 0..MaxChecks
    BY LoginAssumption
  <2>2. QED
    BY <2>1 DEF LoginInit, Init, LoginTypeOK, Phases
<1>3. {h \in Handlers : phase[h] \in {"checking", "creating", "verifying"}} = {}
  BY DEF LoginInit
<1>4. QED
  BY <1>1, <1>2, <1>3, FS_EmptySet DEF SlotInv, SlotsAccounted, LoginInit

LEMMA SlotStep == ASSUME SlotInv, TypeOK', [LoginNext]_loginVars PROVE SlotInv'
<1> USE LoginAssumption DEF limiterVars, policyVars
<1>0. /\ TypeOK /\ LoginTypeOK
      /\ slots = Cardinality(Holders) /\ slots \in Nat /\ slots <= MaxChecks
      /\ IsFiniteSet(Handlers) /\ MaxChecks \in Nat \ {0}
      /\ phase \in [Handlers -> Phases]
  BY DEF SlotInv, SlotsAccounted, Holders, Holding, LoginTypeOK
<1>1. ASSUME NEW h \in Handlers,
             NEW p \in Phases, phase' = [phase EXCEPT ![h] = p],
             \/ phase[h] \notin Holding /\ p \in Holding /\ TakeSlot
             \/ phase[h] \in Holding /\ p \notin Holding /\ ReleaseSlot
             \/ (phase[h] \in Holding <=> p \in Holding) /\ UNCHANGED slots
      PROVE  SlotsAccounted' /\ slots' \in 0..MaxChecks
  <2>1. /\ phase[h] \notin Holding /\ p \in Holding => slots + 1 = Cardinality(Holders')
        /\ phase[h] \in Holding /\ p \notin Holding =>
              slots \in Nat \ {0} /\ slots - 1 = Cardinality(Holders')
        /\ (phase[h] \in Holding <=> p \in Holding) => slots = Cardinality(Holders')
    BY <1>0, <1>1, HoldersMove
  <2>2. slots' = Cardinality(Holders')
    BY <1>1, <2>1 DEF TakeSlot, ReleaseSlot
  <2>3. slots' \in 0..MaxChecks
    BY <1>0, <1>1, <2>1 DEF TakeSlot, ReleaseSlot
  <2>4. QED
    BY <2>2, <2>3 DEF SlotsAccounted, Holders, Holding
<1>2. ASSUME UNCHANGED <<slots, phase>> PROVE SlotsAccounted' /\ slots' \in 0..MaxChecks
  BY <1>0, <1>2 DEF SlotInv, SlotsAccounted
<1> USE DEF LoginTypeOK, TypeOK, Phases, Enter, Leave, Holding
<1>3. ASSUME NEW h \in Handlers, LoginAdmit(h) PROVE SlotInv'
  <2>1. SlotsAccounted' /\ slots' \in 0..MaxChecks
    BY <1>0, <1>1, <1>3 DEF LoginAdmit, Free
  <2>2. QED
    BY <1>0, <1>3, <2>1 DEF LoginAdmit, Free, SlotInv, vars
<1>4. ASSUME NEW h \in Handlers, LoginTakeSlot(h) PROVE SlotInv'
  <2>1. SlotsAccounted' /\ slots' \in 0..MaxChecks
    BY <1>0, <1>1, <1>4 DEF LoginTakeSlot
  <2>2. QED
    BY <1>0, <1>4, <2>1 DEF LoginTakeSlot, SlotInv, vars
<1>5. ASSUME NEW h \in Handlers, LoginBusy(h) PROVE SlotInv'
  <2>1. SlotsAccounted' /\ slots' \in 0..MaxChecks
    BY <1>0, <1>1, <1>5 DEF LoginBusy
  <2>2. QED
    BY <1>0, <1>5, <2>1 DEF LoginBusy, SlotInv, vars
<1>6. ASSUME NEW h \in Handlers, LoginWrong(h) PROVE SlotInv'
  <2>1. SlotsAccounted' /\ slots' \in 0..MaxChecks
    BY <1>0, <1>1, <1>6 DEF LoginWrong
  <2>2. failures' \in [Sources -> Nat]
    BY <1>0, <1>6 DEF LoginWrong, Counted
  <2>3. QED
    BY <1>0, <1>6, <2>1, <2>2 DEF LoginWrong, SlotInv, vars
<1>7. ASSUME NEW h \in Handlers, LoginRight(h) PROVE SlotInv'
  <2>1. SlotsAccounted' /\ slots' \in 0..MaxChecks
    BY <1>0, <1>1, <1>7 DEF LoginRight
  <2>2. QED
    BY <1>0, <1>7, <2>1 DEF LoginRight, LoginStart, Goto, SlotInv
<1>8. ASSUME NEW h \in Handlers, LoginPersists(h) PROVE SlotInv'
  BY <1>0, <1>2, <1>8 DEF LoginPersists, LoginPersist, PersistRow, Goto, SlotInv
<1>9. ASSUME NEW h \in Handlers, LoginEnds(h) PROVE SlotInv'
  <2>1. SlotsAccounted' /\ slots' \in 0..MaxChecks
    BY <1>0, <1>1, <1>9 DEF LoginEnds, LoginInsert, LoginPersistFails
  <2>2. QED
    BY <1>0, <1>9, <2>1 DEF LoginEnds, LoginInsert, LoginPersistFails, Finish, SlotInv
<1>10. ASSUME NEW h \in Handlers, Verify(h) PROVE SlotInv'
  <2>1. SlotsAccounted' /\ slots' \in 0..MaxChecks
    BY <1>0, <1>1, <1>10 DEF Verify, Free
  <2>2. QED
    BY <1>0, <1>10, <2>1 DEF Verify, Free, SlotInv, vars
<1>11. ASSUME NEW h \in Handlers, Verified(h) PROVE SlotInv'
  <2>1. SlotsAccounted' /\ slots' \in 0..MaxChecks
    BY <1>0, <1>1, <1>11 DEF Verified
  <2>2. QED
    BY <1>0, <1>11, <2>1 DEF Verified, SlotInv, vars
<1>12. ASSUME NEW h \in Handlers, Change(h) PROVE SlotInv'
  <2>1. SlotsAccounted' /\ slots' \in 0..MaxChecks
    BY <1>0, <1>1, <1>12 DEF Change
  <2>2. QED
    BY <1>0, <1>12, <2>1 DEF Change, ChangePassword, Goto, SlotInv, vars
<1>13. ASSUME NEW h \in Handlers, PolicyStore(h) PROVE SlotInv'
  <2>1. SlotsAccounted' /\ slots' \in 0..MaxChecks
    BY <1>0, <1>1, <1>13 DEF PolicyStore, Free
  <2>2. QED
    BY <1>0, <1>13, <2>1 DEF PolicyStore, Free, SlotInv, vars
<1>14. ASSUME NEW h \in Handlers, PolicyApply(h) PROVE SlotInv'
  <2>1. SlotsAccounted' /\ slots' \in 0..MaxChecks
    BY <1>0, <1>1, <1>14 DEF PolicyApply
  <2>2. QED
    BY <1>0, <1>14, <2>1 DEF PolicyApply, SlotInv, vars
<1>15. ASSUME NEW h \in Handlers, SettingsSave(h) PROVE SlotInv'
  BY <1>0, <1>2, <1>15 DEF SettingsSave, SlotInv, vars
<1>16. ASSUME NEW h \in Handlers, SessionRequest(h) PROVE SlotInv'
  BY <1>0, <1>2, <1>16
     DEF SessionRequest, AuthenticateLookup, AuthenticateGet, AuthenticateCache, LogoutMemory,
         LogoutStore, LogoutStoreFails, RevokeAllSessions, Goto, Finish, SlotInv
<1>17. ASSUME NEW s \in Sources, WindowEnds(s) PROVE SlotInv'
  BY <1>0, <1>2, <1>17 DEF WindowEnds, SlotInv, vars
<1>18. CASE LoginRestart
  <2>1. Holders' = {}
    BY <1>18 DEF LoginRestart, Holders
  <2>2. SlotsAccounted'
    BY <1>18, <2>1, FS_EmptySet DEF LoginRestart, SlotsAccounted, Holders
  <2>3. 0 \in 0..MaxChecks
    BY <1>0
  <2>4. LoginTypeOK'
    BY <1>0, <1>18, <2>3 DEF LoginRestart, Restart
  <2>5. QED
    BY <2>2, <2>4 DEF SlotInv
<1>19. ASSUME NEW k \in Tokens, LoginExpire(k) PROVE SlotInv'
  BY <1>0, <1>2, <1>19 DEF LoginExpire, Expire, SlotInv
<1>20. CASE UNCHANGED loginVars
  BY <1>0, <1>2, <1>20 DEF loginVars, vars, SlotInv
<1>21. QED
  BY <1>3, <1>4, <1>5, <1>6, <1>7, <1>8, <1>9, <1>10, <1>11, <1>12, <1>13, <1>14, <1>15, <1>16,
     <1>17, <1>18, <1>19, <1>20 DEF LoginNext

LEMMA SlotInvariance == LoginSpec => []SlotInv
<1>1. SlotInv /\ TypeOK' /\ [LoginNext]_loginVars => SlotInv'
  BY SlotStep
<1>2. QED
  BY <1>1, SlotInitial, SessionsBehindLogin, PTL DEF LoginSpec

\* Type correctness of what stands in front of a login.
THEOREM LoginTypeCorrect == LoginSpec => []LoginTypeOK
<1>1. SlotInv => LoginTypeOK
  BY DEF SlotInv
<1>2. QED
  BY <1>1, SlotInvariance, PTL

\* No way out of a login or a password change keeps its slot.
THEOREM NoSlotIsLost == LoginSpec => []SlotsAccounted
<1>1. SlotInv => SlotsAccounted
  BY DEF SlotInv
<1>2. QED
  BY <1>1, SlotInvariance, PTL

-----------------------------------------------------------------------------
(* Failure counts.                                                         *)

\* A request that arrives from s, or leaves, moves the number in flight by one.
LEMMA InFlightMoves ==
    ASSUME IsFiniteSet(Handlers), NEW s \in Sources, NEW h \in Handlers
    PROVE  /\ Cardinality(InFlight(s)) \in Nat /\ Cardinality(InFlight(s)') \in Nat
           /\ Cardinality(Handlers) \in Nat
           /\ Cardinality(InFlight(s)') <= Cardinality(Handlers)
           /\ InFlight(s)' \subseteq InFlight(s) =>
                 Cardinality(InFlight(s)') <= Cardinality(InFlight(s))
           /\ h \in InFlight(s) /\ InFlight(s)' = InFlight(s) \ {h} =>
                 Cardinality(InFlight(s)') + 1 = Cardinality(InFlight(s))
<1>1. InFlight(s) \subseteq Handlers /\ InFlight(s)' \subseteq Handlers
  BY DEF InFlight
<1>2. IsFiniteSet(InFlight(s)) /\ IsFiniteSet(InFlight(s)')
  BY <1>1, FS_Subset
<1>3. /\ Cardinality(InFlight(s)) \in Nat /\ Cardinality(InFlight(s)') \in Nat
      /\ Cardinality(Handlers) \in Nat
  BY <1>2, FS_CardinalityType
<1>4. Cardinality(InFlight(s)') <= Cardinality(Handlers)
  BY <1>1, FS_Subset
<1>5. ASSUME InFlight(s)' \subseteq InFlight(s)
      PROVE  Cardinality(InFlight(s)') <= Cardinality(InFlight(s))
  BY <1>2, <1>5, FS_Subset
<1>6. ASSUME h \in InFlight(s), InFlight(s)' = InFlight(s) \ {h}
      PROVE  Cardinality(InFlight(s)') + 1 = Cardinality(InFlight(s))
  BY <1>2, <1>3, <1>6, FS_RemoveElement
<1>7. QED
  BY <1>3, <1>4, <1>5, <1>6

\* The count of s and the attempts in flight together stay within the bound.
Within(s) == failures[s] + Cardinality(InFlight(s)) <= MaxFailures - 1 + Cardinality(Handlers)

\* A step that adds neither failures nor attempts of s.
LEMMA WithinShrinks ==
    ASSUME LoginTypeOK, LoginTypeOK', NEW s \in Sources, Within(s),
           failures'[s] <= failures[s], InFlight(s)' \subseteq InFlight(s)
    PROVE  Within(s)'
<1>1. /\ Cardinality(InFlight(s)) \in Nat /\ Cardinality(InFlight(s)') \in Nat
      /\ Cardinality(Handlers) \in Nat
      /\ Cardinality(InFlight(s)') <= Cardinality(InFlight(s))
  <2>1. InFlight(s) \subseteq Handlers /\ InFlight(s)' \subseteq Handlers
    BY DEF InFlight
  <2>2. IsFiniteSet(InFlight(s)) /\ IsFiniteSet(InFlight(s)')
    BY <2>1, LoginAssumption, FS_Subset
  <2>3. QED
    BY <2>2, LoginAssumption, FS_Subset, FS_CardinalityType
<1>2. failures[s] \in Nat /\ failures'[s] \in Nat /\ MaxFailures \in Nat
  BY LoginAssumption DEF LoginTypeOK
<1>3. QED
  BY <1>1, <1>2 DEF Within

\* A first failure of a new source is counted only where there is room.
LEMMA TrackedBounded ==
    ASSUME LoginTypeOK, Cardinality(Tracked) <= MaxSources, NEW s \in Sources,
           failures' = Counted(s)
    PROVE  Cardinality(Tracked') <= MaxSources
<1> USE LoginAssumption
<1>1. IsFiniteSet(Tracked) /\ Cardinality(Tracked) \in Nat /\ MaxSources \in Nat
  BY FS_Subset, FS_CardinalityType DEF Tracked
<1>2. CASE s \notin Tracked /\ Cardinality(Tracked) >= MaxSources
  BY <1>2 DEF Counted, Tracked
<1>3. CASE s \in Tracked
  <2>1. Tracked' = Tracked
    BY <1>3 DEF Counted, Tracked, LoginTypeOK
  <2>2. QED
    BY <2>1
<1>4. CASE s \notin Tracked /\ ~(Cardinality(Tracked) >= MaxSources)
  <2>1. Tracked' = Tracked \cup {s}
    BY <1>4 DEF Counted, Tracked, LoginTypeOK
  <2>2. Cardinality(Tracked') = Cardinality(Tracked) + 1
    BY <1>1, <1>4, <2>1, FS_AddElement
  <2>3. QED
    BY <1>1, <1>4, <2>2
<1>5. QED
  BY <1>2, <1>3, <1>4

LEMMA LimiterStep ==
    ASSUME LoginTypeOK, LoginTypeOK', LimiterBounded, [LoginNext]_loginVars
    PROVE  LimiterBounded'
<1> USE LoginAssumption DEF limiterVars, policyVars
<1>0. /\ \A s \in Sources : Within(s)
      /\ Cardinality(Tracked) <= MaxSources
      /\ IsFiniteSet(Tracked)
      /\ IsFiniteSet(Handlers)
      /\ failures \in [Sources -> Nat]
      /\ phase \in [Handlers -> Phases]
      /\ from \in [Handlers -> Sources \cup {None}]
      /\ {MaxFailures, MaxSources} \subseteq Nat
  BY FS_Subset DEF LimiterBounded, Within, Tracked, LoginTypeOK
<1>1. ASSUME \A s \in Sources : Within(s)', Cardinality(Tracked') <= MaxSources
      PROVE  LimiterBounded'
  BY <1>1 DEF LimiterBounded, Within
\* Most steps only end attempts and forget failures.
<1>2. ASSUME \A s \in Sources :
                failures'[s] <= failures[s] /\ InFlight(s)' \subseteq InFlight(s)
      PROVE  LimiterBounded'
  <2>1. Tracked' \subseteq Tracked
    BY <1>0, <1>2 DEF Tracked, LoginTypeOK
  <2>2. Cardinality(Tracked') <= MaxSources
    <3>1. Cardinality(Tracked') <= Cardinality(Tracked) /\ IsFiniteSet(Tracked')
      BY <1>0, <2>1, FS_Subset
    <3>2. Cardinality(Tracked') \in Nat /\ Cardinality(Tracked) \in Nat
      BY <1>0, <3>1, FS_CardinalityType
    <3>3. QED
      BY <1>0, <3>1, <3>2
  <2>3. \A s \in Sources : Within(s)'
    BY <1>0, <1>2, WithinShrinks
  <2>4. QED
    BY <1>1, <2>2, <2>3
<1>3. ASSUME NEW h \in Handlers, LoginAdmit(h) PROVE LimiterBounded'
  <2>1. PICK s \in Sources : ~Blocked(s) /\ from' = [from EXCEPT ![h] = s]
    BY <1>3 DEF LoginAdmit
  <2>2. failures' = failures /\ Tracked' = Tracked
    BY <1>3 DEF LoginAdmit, Tracked
  <2>3. failures[s] <= MaxFailures - 1
    BY <1>0, <2>1 DEF Blocked, Tracked
  <2>4. Within(s)'
    <3>1. /\ Cardinality(InFlight(s)') \in Nat /\ Cardinality(Handlers) \in Nat
          /\ Cardinality(InFlight(s)') <= Cardinality(Handlers)
      BY <1>0, InFlightMoves
    <3>2. failures[s] + Cardinality(InFlight(s)') <= MaxFailures - 1 + Cardinality(Handlers)
      BY <1>0, <2>3, <3>1
    <3>3. QED
      BY <2>2, <3>2 DEF Within
  <2>5. ASSUME NEW r \in Sources \ {s} PROVE Within(r)'
    <3>1. InFlight(r)' \subseteq InFlight(r)
      BY <1>0, <1>3, <2>1, <2>5 DEF InFlight, LoginAdmit, Enter, Free
    <3>2. failures'[r] <= failures[r]
      BY <1>0, <2>2
    <3>3. QED
      BY <1>0, <3>1, <3>2, WithinShrinks
  <2>6. QED
    BY <1>0, <1>1, <2>2, <2>4, <2>5
<1>4. ASSUME NEW h \in Handlers, LoginWrong(h) PROVE LimiterBounded'
  <2>0. PICK s \in Sources : s = from[h]
    BY <1>4 DEF LoginWrong, LoginTypeOK
  <2>1. /\ failures' = Counted(s)
        /\ phase' = [phase EXCEPT ![h] = "none"]
        /\ from' = [from EXCEPT ![h] = None]
        /\ phase[h] = "checking"
    BY <1>4, <2>0 DEF LoginWrong, Leave, Enter
  <2>2. Cardinality(Tracked') <= MaxSources
    BY <1>0, <2>1, TrackedBounded
  <2>3. \A r \in Sources \ {s} : failures'[r] = failures[r] /\ InFlight(r)' \subseteq InFlight(r)
    BY <1>0, <2>1 DEF Counted, InFlight
  <2>4. ASSUME NEW r \in Sources \ {s} PROVE Within(r)'
    <3>1. failures'[r] <= failures[r] /\ InFlight(r)' \subseteq InFlight(r)
      BY <1>0, <2>3
    <3>2. QED
      BY <1>0, <3>1, WithinShrinks
  <2>5. Within(s)'
    <3>1. h \in InFlight(s) /\ InFlight(s)' = InFlight(s) \ {h}
      BY <1>0, <2>0, <2>1 DEF InFlight
    <3>2. failures'[s] <= failures[s] + 1 /\ failures'[s] \in Nat /\ failures[s] \in Nat
      BY <1>0, <2>1 DEF Counted
    <3>3. /\ Cardinality(InFlight(s)) \in Nat /\ Cardinality(InFlight(s)') \in Nat
          /\ Cardinality(Handlers) \in Nat
          /\ Cardinality(InFlight(s)') + 1 = Cardinality(InFlight(s))
      BY <1>0, <2>1, <3>1, InFlightMoves
    <3>4. failures[s] + Cardinality(InFlight(s)) <= MaxFailures - 1 + Cardinality(Handlers)
      BY <1>0, <2>1 DEF Within
    <3>5. failures'[s] + Cardinality(InFlight(s)') <= MaxFailures - 1 + Cardinality(Handlers)
      BY <1>0, <3>2, <3>3, <3>4
    <3>6. QED
      BY <3>5 DEF Within
  <2>6. QED
    BY <1>1, <2>1, <2>2, <2>4, <2>5
<1>5. ASSUME NEW h \in Handlers,
             \/ LoginTakeSlot(h) \/ LoginBusy(h) \/ LoginRight(h) \/ LoginPersists(h) \/ LoginEnds(h)
             \/ Verify(h) \/ Verified(h) \/ Change(h) \/ PolicyStore(h) \/ PolicyApply(h)
             \/ SettingsSave(h) \/ SessionRequest(h)
      PROVE  LimiterBounded'
  <2>1. \A s \in Sources : failures'[s] <= failures[s]
    BY <1>0, <1>5
       DEF LoginTakeSlot, LoginBusy, LoginRight, LoginPersists, LoginEnds, Verify, Verified, Change,
           PolicyStore, PolicyApply, SettingsSave, SessionRequest, LoginTypeOK
  <2>2. \A s \in Sources : InFlight(s)' \subseteq InFlight(s)
    BY <1>0, <1>5
       DEF LoginTakeSlot, LoginBusy, LoginRight, LoginPersists, LoginEnds, Verify, Verified, Change,
           PolicyStore, PolicyApply, SettingsSave, SessionRequest, Leave, Enter, Free, InFlight
  <2>3. QED
    BY <1>2, <2>1, <2>2
<1>6. ASSUME NEW r \in Sources, WindowEnds(r) PROVE LimiterBounded'
  BY <1>0, <1>2, <1>6 DEF WindowEnds, InFlight
<1>7. CASE LoginRestart
  BY <1>0, <1>2, <1>7 DEF LoginRestart, InFlight
<1>8. ASSUME NEW k \in Tokens, LoginExpire(k) PROVE LimiterBounded'
  BY <1>0, <1>2, <1>8 DEF LoginExpire, InFlight
<1>9. CASE UNCHANGED loginVars
  BY <1>0, <1>2, <1>9 DEF loginVars, InFlight
<1>10. QED
  BY <1>3, <1>4, <1>5, <1>6, <1>7, <1>8, <1>9 DEF LoginNext

\* A source is allowed at most MaxFailures - 1 wrong passwords more than there
\* are requests at once, and the table of sources stays within its limit.
THEOREM LimiterHolds == LoginSpec => []LimiterBounded
<1>1. LoginInit => LimiterBounded
  <2> SUFFICES ASSUME LoginInit PROVE LimiterBounded
    OBVIOUS
  <2>1. Tracked = {} /\ \A s \in Sources : InFlight(s) = {}
    BY DEF LoginInit, Tracked, InFlight
  <2>2. Cardinality(Handlers) \in Nat /\ Cardinality({}) = 0
    BY LoginAssumption, FS_CardinalityType, FS_EmptySet
  <2>3. MaxFailures \in Nat \ {0} /\ MaxSources \in Nat
    BY LoginAssumption
  <2>4. \A s \in Sources : failures[s] = 0
    BY DEF LoginInit
  <2>5. \A s \in Sources :
           failures[s] + Cardinality(InFlight(s)) <= MaxFailures - 1 + Cardinality(Handlers)
    <3>1. TAKE s \in Sources
    <3>2. failures[s] = 0 /\ Cardinality(InFlight(s)) = 0
      BY <2>1, <2>2, <2>4
    <3>3. 0 + 0 <= MaxFailures - 1 + Cardinality(Handlers)
      BY <2>2, <2>3
    <3>4. QED
      BY <3>2, <3>3
  <2>6. QED
    BY <2>1, <2>2, <2>3, <2>5 DEF LimiterBounded
<1>2. LoginTypeOK /\ LoginTypeOK' /\ LimiterBounded /\ [LoginNext]_loginVars => LimiterBounded'
  BY LimiterStep
<1>3. QED
  BY <1>1, <1>2, LoginTypeCorrect, PTL DEF LoginSpec

-----------------------------------------------------------------------------
(* The duration of remembered sessions.                                    *)

\* One change at a time, and it puts into memory what it has stored.
PolicyInv ==
    /\ \A g, h \in Handlers : phase[g] = "applying" /\ phase[h] = "applying" => g = h
    /\ ~restarting => \A h \in Handlers : phase[h] = "applying" => wanted[h] = stored
    /\ PolicyAgrees

LEMMA PolicyStep ==
    ASSUME ~OverlapPolicy, LoginTypeOK, PolicyInv, [LoginNext]_loginVars
    PROVE  PolicyInv'
<1> USE DEF PolicyInv, PolicyAgrees, LoginTypeOK, limiterVars, policyVars, Enter
<1>1. ASSUME NEW h \in Handlers,
             \/ LoginAdmit(h) \/ LoginTakeSlot(h) \/ LoginBusy(h) \/ LoginWrong(h) \/ LoginRight(h)
             \/ Verify(h) \/ Verified(h)
      PROVE  PolicyInv'
  BY <1>1 DEF LoginAdmit, LoginTakeSlot, LoginBusy, LoginWrong, LoginRight, Verify, Verified,
              Leave, Free
<1>2. ASSUME NEW h \in Handlers, LoginPersists(h) \/ LoginEnds(h) \/ Change(h) \/ SessionRequest(h)
      PROVE  PolicyInv'
  <2>1. LoginEnds(h) => phase[h] = "creating"
    BY DEF LoginEnds, LoginInsert, LoginPersistFails
  <2>2. QED
    BY <1>2, <2>1 DEF LoginPersists, LoginEnds, Change, SessionRequest
<1>3. ASSUME NEW h \in Handlers, PolicyStore(h) PROVE PolicyInv'
  BY <1>3 DEF PolicyStore, Free
<1>4. ASSUME NEW h \in Handlers, PolicyApply(h) PROVE PolicyInv'
  BY <1>4 DEF PolicyApply
<1>5. ASSUME NEW h \in Handlers, SettingsSave(h) PROVE PolicyInv'
  BY <1>5 DEF SettingsSave
<1>6. ASSUME NEW s \in Sources, WindowEnds(s) PROVE PolicyInv'
  BY <1>6 DEF WindowEnds
<1>7. CASE LoginRestart
  BY <1>7 DEF LoginRestart
<1>8. ASSUME NEW k \in Tokens, LoginExpire(k) PROVE PolicyInv'
  BY <1>8 DEF LoginExpire
<1>9. CASE UNCHANGED loginVars
  BY <1>9 DEF loginVars
<1>10. QED
  BY <1>1, <1>2, <1>3, <1>4, <1>5, <1>6, <1>7, <1>8, <1>9 DEF LoginNext

\* Memory and table agree on the duration whenever no change is under way,
\* provided the administrator makes one change at a time.
THEOREM PolicyHolds == ASSUME ~OverlapPolicy PROVE LoginSpec => []PolicyAgrees
<1>1. LoginInit => PolicyInv
  BY DEF LoginInit, PolicyInv, PolicyAgrees
<1>2. LoginTypeOK /\ PolicyInv /\ [LoginNext]_loginVars => PolicyInv'
  BY PolicyStep
<1>3. PolicyInv => PolicyAgrees
  BY DEF PolicyInv
<1>4. QED
  BY <1>1, <1>2, <1>3, LoginTypeCorrect, PTL DEF LoginSpec

=============================================================================
