------------------------------ MODULE Sessions ------------------------------
(***************************************************************************)
(* Administrator sessions (internal/auth, internal/repository, and the     *)
(* password change of internal/httpapi): a map in memory under a mutex, in *)
(* front of the admin_sessions table.  Login, authentication and logout    *)
(* release the mutex around every database call, so their steps interleave *)
(* with each other, with a password change and with a restart.             *)
(*                                                                         *)
(* Abstractions: a token and its digest are one model value, and the 256   *)
(* random bits never repeat; a credential verifier is a number that grows  *)
(* with every change; time is the set of sessions whose expiry has passed; *)
(* the oldest session, the one evicted, may be any session.                *)
(***************************************************************************)
EXTENDS Naturals, FiniteSets

CONSTANTS
    Handlers,      \* requests the server handles at the same time
    Tokens,        \* the tokens logins may draw
    None,          \* no token, no row
    MaxSessions,   \* DefaultMaxSessions, for the map and for the table
    MaxChanges,    \* bound: how many times the credential changes
    OverlapLogout  \* may a cookie be in use while it is logged out?

ASSUME SessionsAssumption ==
    /\ MaxChanges \in Nat
    /\ None \notin Tokens \cup 0..MaxChanges
    /\ IsFiniteSet(Tokens)
    /\ MaxSessions \in Nat \ {0}
    /\ OverlapLogout \in BOOLEAN

VARIABLES
    sessions,   \* the tokens in Authenticator.sessions
    rows,       \* token -> the credential key of its admin_sessions row, or None
    credential, \* the current verifier (table or configuration)
    verifier,   \* the verifier the running authenticator was created with
    expired,    \* the tokens whose session has expired
    issued,     \* the tokens clients have received in a cookie
    bound,      \* token -> the verifier its login was checked against (history)
    loggedOut,  \* the tokens whose logout reached the table (history)
    pc,         \* handler -> the step it is about to take
    tok         \* handler -> the token it works with

vars == <<sessions, rows, credential, verifier, expired, issued, bound, loggedOut, pc, tok>>

Credential == 0..MaxChanges

\* Every variable has its type, and a row carries the verifier its login was
\* checked against, however late it is written.
TypeOK ==
    /\ sessions \subseteq Tokens
    /\ rows \in [Tokens -> Credential \cup {None}]
    /\ \A k \in Tokens : rows[k] \in {bound[k], None}
    /\ credential \in Credential
    /\ verifier \in Credential
    /\ expired \subseteq Tokens
    /\ issued \subseteq Tokens
    /\ bound \in [Tokens -> Credential \cup {None}]
    /\ loggedOut \subseteq issued
    /\ pc \in [Handlers -> {"idle", "persist", "insert", "get", "cache", "delete", "revokeAll"}]
    /\ tok \in [Handlers -> Tokens \cup {None}]
    /\ \A h \in Handlers : pc[h] \notin {"idle", "revokeAll"} => tok[h] \in Tokens

Init ==
    /\ sessions = {}
    /\ rows = [k \in Tokens |-> None]
    /\ credential = 0
    /\ verifier = 0
    /\ expired = {}
    /\ issued = {}
    /\ bound = [k \in Tokens |-> None]
    /\ loggedOut = {}
    /\ pc = [h \in Handlers |-> "idle"]
    /\ tok = [h \in Handlers |-> None]

Persisted == {k \in Tokens : rows[k] # None}

\* cleanSessionsLocked
Live == sessions \ expired

Goto(h, step) == pc' = [pc EXCEPT ![h] = step]

Finish(h) ==
    /\ pc' = [pc EXCEPT ![h] = "idle"]
    /\ tok' = [tok EXCEPT ![h] = None]

\* Insert k into the map M, evicting one session when the map is full.
Inserted(M, k, M1) ==
    IF Cardinality(M) >= MaxSessions
    THEN \E old \in M : M1 = (M \ {old}) \cup {k}
    ELSE M1 = M \cup {k}

-----------------------------------------------------------------------------
(* Login: loginWithPersistence and createSession.                          *)

\* The password matches the running verifier; a token is drawn and is not in
\* the map.  A remembered session is persisted first.
LoginStart(h) ==
    /\ pc[h] = "idle"
    /\ \E k \in {k \in Tokens : bound[k] = None}, step \in {"persist", "insert"} :
          /\ bound' = [bound EXCEPT ![k] = verifier]
          /\ tok' = [tok EXCEPT ![h] = k]
          /\ Goto(h, step)
    /\ sessions' = Live
    /\ UNCHANGED <<rows, credential, verifier, expired, issued, loggedOut>>

\* AdminSessionRepository.Create, one transaction: expired rows go, one row
\* is evicted when the table is full, the new row is inserted.
PersistRow(h, key) ==
    LET k == tok[h]
        kept == Persisted \ expired IN
    /\ pc[h] = "persist"
    /\ \E after \in SUBSET (kept \cup {k}) :
          /\ Inserted(kept, k, after)
          /\ rows' = [r \in Tokens |-> IF r = k THEN key
                                       ELSE IF r \in after THEN rows[r]
                                       ELSE None]
    /\ Goto(h, "insert")
    /\ UNCHANGED <<sessions, credential, verifier, expired, issued, bound, loggedOut, tok>>

LoginPersist(h) == PersistRow(h, verifier)

\* The transaction fails: no cookie is set.
LoginPersistFails(h) ==
    /\ pc[h] = "persist"
    /\ Finish(h)
    /\ UNCHANGED <<sessions, rows, credential, verifier, expired, issued, bound, loggedOut>>

\* Mutant: the map is grown without eviction.
LoginInsertUnbounded(h) ==
    /\ pc[h] = "insert"
    /\ sessions' = Live \cup {tok[h]}
    /\ issued' = issued \cup {tok[h]}
    /\ Finish(h)
    /\ UNCHANGED <<rows, credential, verifier, expired, bound, loggedOut>>

LoginInsert(h) ==
    /\ pc[h] = "insert"
    /\ Inserted(Live, tok[h], sessions')
    /\ issued' = issued \cup {tok[h]}
    /\ Finish(h)
    /\ UNCHANGED <<rows, credential, verifier, expired, bound, loggedOut>>

-----------------------------------------------------------------------------
(* authenticateRequest                                                     *)

\* The map is consulted under the mutex; a miss goes on to the table.
AuthenticateLookup(h) ==
    /\ pc[h] = "idle"
    /\ sessions' = Live
    /\ \E k \in issued :
          /\ OverlapLogout \/ \A g \in Handlers : pc[g] = "delete" => tok[g] # k
          /\ IF k \in Live
             THEN UNCHANGED <<pc, tok>>
             ELSE Goto(h, "get") /\ tok' = [tok EXCEPT ![h] = k]
    /\ UNCHANGED <<rows, credential, verifier, expired, issued, bound, loggedOut>>

\* Mutant: the row is found by its token alone.
AuthenticateGetAnyCredential(h) ==
    LET k == tok[h] IN
    /\ pc[h] = "get"
    /\ IF rows[k] # None /\ k \notin expired
       THEN Goto(h, "cache") /\ UNCHANGED <<rows, tok>>
       ELSE Finish(h) /\ UNCHANGED rows
    /\ UNCHANGED <<sessions, credential, verifier, expired, issued, bound, loggedOut>>

\* AdminSessionRepository.Get: the row must carry the running verifier; an
\* expired row is deleted.
AuthenticateGet(h) ==
    LET k == tok[h] IN
    /\ pc[h] = "get"
    /\ \/ /\ rows[k] = verifier
          /\ k \notin expired
          /\ Goto(h, "cache")
          /\ UNCHANGED <<rows, tok>>
       \/ /\ rows[k] = verifier
          /\ k \in expired
          /\ rows' = [rows EXCEPT ![k] = None]
          /\ Finish(h)
       \/ /\ rows[k] # verifier
          /\ Finish(h)
          /\ UNCHANGED rows
    /\ UNCHANGED <<sessions, credential, verifier, expired, issued, bound, loggedOut>>

\* The result of the lookup is put in the map, with no second look at the
\* table.
AuthenticateCache(h) ==
    /\ pc[h] = "cache"
    /\ Inserted(sessions, tok[h], sessions')
    /\ Finish(h)
    /\ UNCHANGED <<rows, credential, verifier, expired, issued, bound, loggedOut>>

-----------------------------------------------------------------------------
(* revokeRequest                                                           *)

LogoutMemory(h) ==
    /\ pc[h] = "idle"
    /\ \E k \in issued :
          /\ OverlapLogout \/ \A g \in Handlers : tok[g] # k
          /\ sessions' = sessions \ {k}
          /\ tok' = [tok EXCEPT ![h] = k]
    /\ Goto(h, "delete")
    /\ UNCHANGED <<rows, credential, verifier, expired, issued, bound, loggedOut>>

\* Mutant: a logout leaves the remembered session in the table.
LogoutStoreKeepsRow(h) ==
    /\ pc[h] = "delete"
    /\ loggedOut' = loggedOut \cup {tok[h]}
    /\ Finish(h)
    /\ UNCHANGED <<sessions, rows, credential, verifier, expired, issued, bound>>

LogoutStore(h) ==
    /\ pc[h] = "delete"
    /\ rows' = [rows EXCEPT ![tok[h]] = None]
    /\ loggedOut' = loggedOut \cup {tok[h]}
    /\ Finish(h)
    /\ UNCHANGED <<sessions, credential, verifier, expired, issued, bound>>

\* The row cannot be deleted: that is logged, and the logout is answered all
\* the same.
LogoutStoreFails(h) ==
    /\ pc[h] = "delete"
    /\ Finish(h)
    /\ UNCHANGED <<sessions, rows, credential, verifier, expired, issued, bound, loggedOut>>

-----------------------------------------------------------------------------
(* Password change and restart.                                            *)

\* UpdatePassword: one transaction stores the verifier and empties the table.
ChangePassword(h) ==
    /\ pc[h] = "idle"
    /\ credential < MaxChanges
    /\ credential' = credential + 1
    /\ rows' = [k \in Tokens |-> None]
    /\ Goto(h, "revokeAll")
    /\ UNCHANGED <<sessions, verifier, expired, issued, bound, loggedOut, tok>>

\* RevokeAllSessions; the handler then asks for a restart.
RevokeAllSessions(h) ==
    /\ pc[h] = "revokeAll"
    /\ sessions' = {}
    /\ Finish(h)
    /\ UNCHANGED <<rows, credential, verifier, expired, issued, bound, loggedOut>>

\* The lifecycle restarts, or the process crashes and is started again: the
\* map and every request in flight are lost, the rows stay.  A credential that
\* comes from the configuration may have been rotated meanwhile.
Restart ==
    /\ sessions' = {}
    /\ credential' \in {credential, credential + 1} \cap Credential
    /\ verifier' = credential'
    /\ pc' = [h \in Handlers |-> "idle"]
    /\ tok' = [h \in Handlers |-> None]
    /\ UNCHANGED <<rows, expired, issued, bound, loggedOut>>

Expire(k) ==
    /\ k \in issued \ expired
    /\ expired' = expired \cup {k}
    /\ UNCHANGED <<sessions, rows, credential, verifier, issued, bound, loggedOut, pc, tok>>

Next ==
    \/ \E h \in Handlers :
          \/ LoginStart(h) \/ LoginPersist(h) \/ LoginPersistFails(h) \/ LoginInsert(h)
          \/ AuthenticateLookup(h) \/ AuthenticateGet(h) \/ AuthenticateCache(h)
          \/ LogoutMemory(h) \/ LogoutStore(h) \/ LogoutStoreFails(h)
          \/ ChangePassword(h) \/ RevokeAllSessions(h)
    \/ Restart
    \/ \E k \in Tokens : Expire(k)

Spec == Init /\ [][Next]_vars

-----------------------------------------------------------------------------
(* Properties.                                                             *)

\* Logout removes the token from memory and from the table: once it has
\* reached both, no replay of the cookie and no restart brings the session back.
LogoutIsFinal == \A k \in loggedOut : k \notin sessions /\ rows[k] = None

\* Even when the cookie was in use during its logout, once the logout has
\* reached the table its row is gone for good: at the latest the next restart
\* ends the session.  A logout whose deletion fails is answered like the others
\* but does not count as one here.
LogoutClearsRow == \A k \in loggedOut : rows[k] = None

\* Every active session was authenticated by the verifier the server runs
\* with: rows that a login writes behind a password change, or that survive a
\* rotation of the configured password, never become sessions again.
SessionsMatchVerifier == \A k \in sessions : bound[k] = verifier

\* At most MaxSessions sessions are kept in memory and at most as many rows,
\* although nothing holds the mutex between the two insertions of a login.
SessionsBounded ==
    /\ Cardinality(sessions) <= MaxSessions
    /\ Cardinality(Persisted) <= MaxSessions
=============================================================================
