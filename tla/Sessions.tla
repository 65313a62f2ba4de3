------------------------------ MODULE Sessions ------------------------------
(***************************************************************************)
(* Refresh-token sessions: AuthService (Login, Refresh, Logout,            *)
(* ChangePassword, ResetPassword) over the refresh_tokens and users tables *)
(* and the Redis marker "refresh:<hash>".  Every handler is a request that *)
(* performs one store call per step, so the steps of concurrent requests   *)
(* interleave as the goroutines of the server and of its replicas do.      *)
(*                                                                         *)
(* Reads that neither change state nor decide anything (FindByID of a user *)
(* row, which no code deletes; the organization of the JWT claims; signing *)
(* the JWT) are part of the step that follows them: a failing one is Fail. *)
(* Users are accounts with a verified e-mail address.                      *)
(*                                                                         *)
(* An operator marked "Faulty" is a plausible bug in the one after it; it  *)
(* serves to test the properties, and no specification uses it.            *)
(***************************************************************************)
EXTENDS Naturals

CONSTANTS
    Users, Tokens, Requests,
    NoUser, NoToken,
    MaxPassword,    \* bound: no password change starts at this version
    Faults          \* may store calls fail, requests be cut short and keys be lost?

ASSUME NoUserAssumption == NoUser \notin Users
ASSUME NoTokenAssumption == NoToken \notin Tokens
ASSUME MaxPasswordAssumption == MaxPassword \in Nat
ASSUME FaultsAssumption == Faults \in BOOLEAN

VARIABLES
    owner,      \* refresh_tokens.user_id; NoUser: no such row
    revoked,    \* the rows with revoked = TRUE
    expired,    \* the rows whose expires_at has passed
    marker,     \* Redis "refresh:<hash>": "none", "user" (its owner's id) or "revoked"
    delivered,  \* the tokens some client received
    password,   \* users.password_hash, as a version: every change writes a new one
    req,        \* the state of every request
    \* History, read by the properties alone:
    parent,     \* parent[t]: the token whose rotation inserted t
    auth,       \* auth[t]: the login that t's chain of rotations began with
    born,       \* born[t]: the value of cut when t was inserted
    cut,        \* cut[u]: how many password changes have revoked u's sessions
    lapsed      \* the users with a password change that never came to revoke

db == <<owner, revoked, expired, password>>
history == <<parent, auth, born, cut, lapsed>>
vars == <<db, marker, delivered, req, history>>

-----------------------------------------------------------------------------
\* The login behind a session: the password version that was compared, and
\* the number of revoking password changes at that moment.
Logins == [pw : Nat, cut : Nat]
NoLogin == [pw |-> 0, cut |-> 0]
CurrentLogin(u) == [pw |-> password[u], cut |-> cut[u]]

\* Where a request is: the store call it makes next.
RefreshPCs == {"find", "findOwner", "invalidate"}
RotatePCs == {"revoke", "mark"}
IssuePCs == {"insert", "cache", "reply"}
PasswordPCs == {"update", "revokeAll"}
PCs == {"idle"} \union RefreshPCs \union RotatePCs \union IssuePCs \union PasswordPCs

\* rotate: it is a Refresh; user: whose row it read; tok: the presented token;
\* new: the token it inserted.
RequestStates ==
    [rotate : BOOLEAN, pc : PCs, user : Users \union {NoUser},
     tok : Tokens \union {NoToken}, new : Tokens \union {NoToken}, login : Logins]
Idle == [rotate |-> FALSE, pc |-> "idle", user |-> NoUser,
         tok |-> NoToken, new |-> NoToken, login |-> NoLogin]

TypeOK ==
    /\ owner \in [Tokens -> Users \union {NoUser}]
    /\ revoked \subseteq Tokens
    /\ expired \subseteq Tokens
    /\ marker \in [Tokens -> {"none", "user", "revoked"}]
    /\ delivered \subseteq Tokens
    /\ password \in [Users -> Nat]
    /\ req \in [Requests -> RequestStates]
    /\ parent \in [Tokens -> Tokens \union {NoToken}]
    /\ auth \in [Tokens -> Logins]
    /\ born \in [Tokens -> Nat]
    /\ cut \in [Users -> Nat]
    /\ lapsed \subseteq Users

Init ==
    /\ owner = [t \in Tokens |-> NoUser]
    /\ revoked = {}
    /\ expired = {}
    /\ marker = [t \in Tokens |-> "none"]
    /\ delivered = {}
    /\ password = [u \in Users |-> 0]
    /\ req = [r \in Requests |-> Idle]
    /\ parent = [t \in Tokens |-> NoToken]
    /\ auth = [t \in Tokens |-> NoLogin]
    /\ born = [t \in Tokens |-> 0]
    /\ cut = [u \in Users |-> 0]
    /\ lapsed = {}

-----------------------------------------------------------------------------
\* The queries of user_repo.go.
Unused == {t \in Tokens : owner[t] = NoUser}
OwnedBy(u) == {t \in Tokens : owner[t] = u}
Live(t) == owner[t] # NoUser /\ t \notin revoked /\ t \notin expired

At(r, pc) == req[r].pc = pc
Become(r, state) == req' = [req EXCEPT ![r] = state]
Goto(r, pc) == Become(r, [req[r] EXCEPT !.pc = pc])
Finish(r) == Become(r, Idle)

\* Faulty: only the rows whose marker says "user".
RevokeAllCached(u) == revoked' = revoked \union {t \in OwnedBy(u) : marker[t] = "user"}

\* RevokeAllRefreshTokens: one UPDATE over the rows of u, expired ones included.
RevokeAllRefreshTokens(u) == revoked' = revoked \union OwnedBy(u)

-----------------------------------------------------------------------------
\* Login reads the user row and compares the password with the hash it read;
\* a wrong password ends the request there and changes nothing.
Login(r, u) ==
    /\ At(r, "idle")
    /\ Become(r, [Idle EXCEPT !.pc = "insert", !.user = u, !.login = CurrentLogin(u)])
    /\ UNCHANGED <<db, marker, delivered, history>>

\* Refresh(token) asks Redis for the marker first.  The client presents a
\* token it was given, at any later time.
RefreshGet(r, t) ==
    /\ At(r, "idle")
    /\ t \in delivered
    /\ Become(r, [Idle EXCEPT !.rotate = TRUE, !.tok = t,
                              !.pc = IF marker[t] = "revoked" THEN "findOwner" ELSE "find"])
    /\ UNCHANGED <<db, marker, delivered, history>>

\* Faulty: goes on to the marker and does not revoke the row.
MarkBeforeRevoke(r) ==
    /\ At(r, "find")
    /\ LET t == req[r].tok IN
         IF Live(t)
         THEN Become(r, [req[r] EXCEPT !.pc = "mark", !.user = owner[t], !.login = auth[t]])
         ELSE Goto(r, "findOwner")
    /\ UNCHANGED <<db, marker, delivered, history>>

\* FindRefreshToken: the row, if it is neither revoked nor expired.
RefreshFind(r) ==
    /\ At(r, "find")
    /\ LET t == req[r].tok IN
         IF Live(t)
         THEN Become(r, [req[r] EXCEPT !.pc = "revoke", !.user = owner[t], !.login = auth[t]])
         ELSE Goto(r, "findOwner")
    /\ UNCHANGED <<db, marker, delivered, history>>

\* Faulty: looks the owner up among live rows.
FindOwnerLiveOnly(r) ==
    /\ At(r, "findOwner")
    /\ IF Live(req[r].tok)
       THEN Become(r, [req[r] EXCEPT !.pc = "invalidate", !.user = owner[req[r].tok]])
       ELSE Finish(r)
    /\ UNCHANGED <<db, marker, delivered, history>>

\* invalidateFamilyFromHash: FindRefreshTokenByHash, whatever the row's state.
FindOwner(r) ==
    /\ At(r, "findOwner")
    /\ Become(r, [req[r] EXCEPT !.pc = "invalidate", !.user = owner[req[r].tok]])
    /\ UNCHANGED <<db, marker, delivered, history>>

\* invalidateFamilyFromHash: every session of the owner ends, and so does the
\* request, with an error.
InvalidateFamily(r) ==
    /\ At(r, "invalidate")
    /\ RevokeAllRefreshTokens(req[r].user)
    /\ Finish(r)
    /\ UNCHANGED <<owner, expired, password, marker, delivered, history>>

\* Logout(token): a token that is not live needs no logout.
LogoutFind(r, t) ==
    /\ At(r, "idle")
    /\ t \in delivered
    /\ Live(t)
    /\ Become(r, [Idle EXCEPT !.pc = "revoke", !.tok = t])
    /\ UNCHANGED <<db, marker, delivered, history>>

-----------------------------------------------------------------------------
\* Faulty: does not revoke the row.
RevokeNothing(r) ==
    /\ At(r, "revoke")
    /\ Goto(r, "mark")
    /\ UNCHANGED <<db, marker, delivered, history>>

\* RevokeRefreshToken (Refresh and Logout): an UPDATE by id that does not ask
\* whether the row was still unrevoked.
RevokeRefreshToken(r) ==
    /\ At(r, "revoke")
    /\ revoked' = revoked \union {req[r].tok}
    /\ Goto(r, "mark")
    /\ UNCHANGED <<owner, expired, password, marker, delivered, history>>

\* cache.Set(key, "revoked"): its error is ignored.
MarkRevoked(r) ==
    /\ At(r, "mark")
    /\ \/ marker' = [marker EXCEPT ![req[r].tok] = "revoked"]
       \/ Faults /\ marker' = marker
    /\ IF req[r].rotate THEN Goto(r, "insert") ELSE Finish(r)
    /\ UNCHANGED <<db, delivered, history>>

\* issueTokens: CreateRefreshToken inserts a row for a token nobody has seen.
Insert(r, t) ==
    /\ owner' = [owner EXCEPT ![t] = req[r].user]
    /\ parent' = [parent EXCEPT ![t] = req[r].tok]
    /\ auth' = [auth EXCEPT ![t] = req[r].login]
    /\ born' = [born EXCEPT ![t] = cut[req[r].user]]
    /\ Become(r, [req[r] EXCEPT !.pc = "cache", !.new = t])
    /\ UNCHANGED <<revoked, expired, password, marker, cut, lapsed>>

\* Faulty: sends the token out before it is cached.
ReplyBeforeCache(r) ==
    /\ At(r, "insert")
    /\ \E t \in Unused : Insert(r, t) /\ delivered' = delivered \union {t}

CreateRefreshToken(r) ==
    /\ At(r, "insert")
    /\ \E t \in Unused : Insert(r, t)
    /\ UNCHANGED delivered

\* cache.Set(key, u.ID): its error is ignored too.
CacheRefreshToken(r) ==
    /\ At(r, "cache")
    /\ \/ marker' = [marker EXCEPT ![req[r].new] = "user"]
       \/ Faults /\ marker' = marker
    /\ Goto(r, "reply")
    /\ UNCHANGED <<db, delivered, history>>

\* The handler sets the cookie: from here on a client can present the token.
Reply(r) ==
    /\ At(r, "reply")
    /\ delivered' = delivered \union {req[r].new}
    /\ Finish(r)
    /\ UNCHANGED <<db, marker, history>>

-----------------------------------------------------------------------------
\* ChangePassword compares the current password with the row FindByID read;
\* ResetPassword finds the row by the reset token of a link that was mailed.
FindForPassword(r, u) ==
    /\ At(r, "idle")
    /\ password[u] < MaxPassword
    /\ Become(r, [Idle EXCEPT !.pc = "update", !.user = u])
    /\ UNCHANGED <<db, marker, delivered, history>>

\* UpdatePassword writes the new hash.
UpdatePassword(r) ==
    /\ At(r, "update")
    /\ password' = [password EXCEPT ![req[r].user] = @ + 1]
    /\ Goto(r, "revokeAll")
    /\ UNCHANGED <<owner, revoked, expired, marker, delivered, history>>

\* The sessions of the user end, and with them the request.
RevokeAfterPasswordChange(r) ==
    /\ At(r, "revokeAll")
    /\ RevokeAllRefreshTokens(req[r].user)
    /\ cut' = [cut EXCEPT ![req[r].user] = @ + 1]
    /\ Finish(r)
    /\ UNCHANGED <<owner, expired, password, marker, delivered, parent, auth, born, lapsed>>

-----------------------------------------------------------------------------
\* A store call fails, the client goes away or the server crashes: the rest of
\* the request does not happen.  A ChangePassword whose revocation fails ends
\* the same way, although it reports success.  The bound on Tokens is reached
\* here as well, by a request that finds none to issue.
Fail(r) ==
    /\ Faults \/ (At(r, "insert") /\ Unused = {})
    /\ ~At(r, "idle")
    /\ lapsed' = IF At(r, "revokeAll") THEN lapsed \union {req[r].user} ELSE lapsed
    /\ Finish(r)
    /\ UNCHANGED <<db, marker, delivered, parent, auth, born, cut>>

\* Thirty days pass.  Every query that looks at expires_at skips revoked rows
\* anyway, so that only a row that is not revoked need expire.
Expire(t) ==
    /\ Live(t)
    /\ expired' = expired \union {t}
    /\ UNCHANGED <<owner, revoked, password, marker, delivered, req, history>>

\* Redis drops a key: its TTL ran out, it was evicted or lost in a restart.
Evict(t) ==
    /\ Faults
    /\ marker' = [marker EXCEPT ![t] = "none"]
    /\ UNCHANGED <<db, delivered, req, history>>

Start(r) ==
    \/ \E u \in Users : Login(r, u) \/ FindForPassword(r, u)
    \/ \E t \in Tokens : RefreshGet(r, t) \/ LogoutFind(r, t)

Step(r) ==
    \/ RefreshFind(r) \/ FindOwner(r) \/ InvalidateFamily(r)
    \/ RevokeRefreshToken(r) \/ MarkRevoked(r)
    \/ CreateRefreshToken(r) \/ CacheRefreshToken(r) \/ Reply(r)
    \/ UpdatePassword(r) \/ RevokeAfterPasswordChange(r)

Environment ==
    \E t \in Tokens : Expire(t) \/ Evict(t)

Next ==
    \/ \E r \in Requests : Start(r) \/ Step(r) \/ Fail(r)
    \/ Environment

Spec == Init /\ [][Next]_vars

\* A goroutine that serves a request keeps running until it returns; nothing
\* forces a client to call, a store to fail or a key to be evicted.
FairSpec == Spec /\ \A r \in Requests : WF_vars(Step(r))

-----------------------------------------------------------------------------
(* Properties *)

\* The Redis marker never says more than the database: a token marked as
\* revoked is revoked.  Refresh answers "all sessions revoked" on the marker
\* alone, before it reads the row.
MarkerSound == \A t \in Tokens : marker[t] = "revoked" => t \in revoked

\* A revocation marker is never overwritten by the marker of a fresh token,
\* although issueTokens and Refresh write the same key without a condition.
MarkerPersists == [][\A t \in Tokens : marker[t] = "revoked" => marker'[t] # "user"]_vars

\* Every step of the service is a step of the ledger: a token is issued once,
\* to one user, a rotation replaces a token that is already dead by one for the
\* same user, and what is dead stays dead.
Ledger == INSTANCE SessionLedger WITH holder <- owner, dead <- revoked
ImplementsLedger == Ledger!Spec

\* No password change of u is between its UPDATE and its revocation, and none
\* was cut short there.
Settled(u) ==
    /\ u \notin lapsed
    /\ \A r \in Requests : req[r].user = u => ~At(r, "revokeAll")
Stale(t) == Live(t) /\ auth[t].pw < password[owner[t]]

\* A session begun with an old password outlives a password change only if its
\* issuing raced with it: the login came before the revocation and the token
\* was inserted after it.  Whatever is in the table at the revocation ends, and
\* whoever logs in after it has used the new password.
StaleOnlyIfRaced ==
    \A t \in Tokens : Stale(t) /\ Settled(owner[t]) =>
        LET u == owner[t] IN auth[t].cut < cut[u] /\ born[t] = cut[u]

\* "Revoke all existing sessions so stolen tokens can't be reused": when no
\* password change is under way, every live session began with the current
\* password.
SessionsEndWithPassword == \A t \in Tokens : Stale(t) => ~Settled(owner[t])

\* A token that was rotated is never accepted again: no request finds it live
\* once its successor is inserted.  Only requests that had found it before can
\* still insert another successor.
RotatedIsNeverAccepted ==
    [][\A r \in Requests, t \in Tokens :
        At(r, "find") /\ At(r, "revoke")' => parent[t] # req[r].tok]_vars

\* "If a previously revoked token is presented, all sessions for the owning
\* user are invalidated": every token its owner holds when Refresh looks at the
\* revoked one ends, when no store call fails.
Presents(r, s) ==
    req[r].tok = s /\ s \in revoked /\ (At(r, "find") \/ At(r, "findOwner"))
ReuseEndsSessions ==
    \A r \in Requests, s, t \in Tokens :
        Presents(r, s) /\ owner[t] = owner[s] ~> t \in revoked
=============================================================================
