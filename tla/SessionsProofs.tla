--------------------------- MODULE SessionsProofs ---------------------------
(***************************************************************************)
(* Proofs about Sessions, for any sets of users, tokens and requests, any  *)
(* number of password changes, with and without faults.                    *)
(***************************************************************************)
EXTENDS Sessions, TLAPS

USE NoUserAssumption, NoTokenAssumption, MaxPasswordAssumption, FaultsAssumption

-----------------------------------------------------------------------------
(* The inductive invariant: what a request knows at each of its steps. *)

\* A presented token was handed out before; from MarkRevoked on it is revoked,
\* and a rotation issues its successor to its owner.
TokenKnown(r) ==
    /\ req[r].tok # NoToken => req[r].tok \in delivered
    /\ req[r].pc \in RefreshPCs \union RotatePCs => req[r].tok # NoToken
    /\ req[r].pc = "mark" => req[r].tok \in revoked
    /\ req[r].pc \in RotatePCs /\ req[r].rotate => req[r].user = owner[req[r].tok]
    /\ req[r].pc \in IssuePCs /\ req[r].tok # NoToken =>
         req[r].tok \in revoked /\ req[r].user = owner[req[r].tok]

UserKnown(r) ==
    req[r].pc \in {"invalidate"} \union IssuePCs \union PasswordPCs => req[r].user \in Users

\* Between its insertion and the reply the new token is the request's secret.
NewIsSecret(r) ==
    req[r].pc \in {"cache", "reply"} =>
        /\ req[r].new \in Tokens
        /\ owner[req[r].new] # NoUser
        /\ req[r].new \notin delivered

NewIsOwn ==
    \A r, s \in Requests :
        req[r].pc \in {"cache", "reply"} /\ req[s].pc \in {"cache", "reply"}
            /\ req[r].new = req[s].new => r = s

DeliveredIssued == \A t \in delivered : owner[t] # NoUser
MarkedDelivered == \A t \in Tokens : marker[t] = "revoked" => t \in revoked /\ t \in delivered

IInv ==
    /\ TypeOK
    /\ \A r \in Requests : TokenKnown(r)
    /\ \A r \in Requests : UserKnown(r)
    /\ \A r \in Requests : NewIsSecret(r)
    /\ NewIsOwn
    /\ DeliveredIssued
    /\ MarkedDelivered

-----------------------------------------------------------------------------
(* Updates of a request's record that keep its type. *)

LEMMA BecomeTyped ==
    ASSUME req \in [Requests -> RequestStates], NEW r \in Requests,
           NEW state \in RequestStates, Become(r, state)
    PROVE  /\ req' \in [Requests -> RequestStates]
           /\ req'[r] = state
           /\ \A s \in Requests \ {r} : req'[s] = req[s]
  BY DEF Become

LEMMA GotoTyped ==
    ASSUME req \in [Requests -> RequestStates], NEW r \in Requests, NEW pc \in PCs, Goto(r, pc)
    PROVE  /\ req' \in [Requests -> RequestStates]
           /\ req'[r] = [req[r] EXCEPT !.pc = pc]
           /\ \A s \in Requests \ {r} : req'[s] = req[s]
<1>1. [req[r] EXCEPT !.pc = pc] \in RequestStates
  BY DEF RequestStates
<1>2. QED BY <1>1, BecomeTyped DEF Goto

LEMMA IInvInit == Init => IInv
  BY DEF Init, IInv, TypeOK, TokenKnown, UserKnown, NewIsSecret, NewIsOwn,
         DeliveredIssued, MarkedDelivered, RequestStates, Idle, NoLogin, Logins,
         PCs, RefreshPCs, RotatePCs, IssuePCs, PasswordPCs

LEMMA IInvStep == IInv /\ [Next]_vars => IInv'
<1> SUFFICES ASSUME IInv, [Next]_vars PROVE IInv'
  OBVIOUS
<1> USE DEF IInv, TypeOK, RequestStates, Idle, NoLogin, Logins,
            PCs, RefreshPCs, RotatePCs, IssuePCs, PasswordPCs,
            At, Goto, Become, Finish, Live, Unused, OwnedBy, vars, db, history
<1>1. ASSUME NEW r \in Requests, NEW u \in Users, Login(r, u) PROVE IInv'
  <2>1. TypeOK'
    BY <1>1 DEF Login, CurrentLogin, TokenKnown, UserKnown, NewIsSecret, DeliveredIssued
  <2>2. \A s \in Requests : TokenKnown(s)'
    BY <1>1 DEF Login, CurrentLogin, TokenKnown, DeliveredIssued
  <2>3. \A s \in Requests : UserKnown(s)'
    BY <1>1 DEF Login, CurrentLogin, UserKnown
  <2>4. \A s \in Requests : NewIsSecret(s)'
    BY <1>1 DEF Login, CurrentLogin, NewIsSecret, NewIsOwn, DeliveredIssued, TokenKnown
  <2>5. NewIsOwn'
    BY <1>1 DEF Login, CurrentLogin, NewIsOwn, NewIsSecret
  <2>6. DeliveredIssued'
    BY <1>1 DEF Login, CurrentLogin, DeliveredIssued, NewIsSecret
  <2>7. MarkedDelivered'
    BY <1>1 DEF Login, CurrentLogin, MarkedDelivered, TokenKnown, DeliveredIssued, NewIsSecret
  <2>8. QED BY <2>1, <2>2, <2>3, <2>4, <2>5, <2>6, <2>7 DEF IInv
<1>2. ASSUME NEW r \in Requests, NEW u \in Users, FindForPassword(r, u) PROVE IInv'
  <2>1. TypeOK'
    BY <1>2 DEF FindForPassword, TokenKnown, UserKnown, NewIsSecret, DeliveredIssued
  <2>2. \A s \in Requests : TokenKnown(s)'
    BY <1>2 DEF FindForPassword, TokenKnown, DeliveredIssued
  <2>3. \A s \in Requests : UserKnown(s)'
    BY <1>2 DEF FindForPassword, UserKnown
  <2>4. \A s \in Requests : NewIsSecret(s)'
    BY <1>2 DEF FindForPassword, NewIsSecret, NewIsOwn, DeliveredIssued, TokenKnown
  <2>5. NewIsOwn'
    BY <1>2 DEF FindForPassword, NewIsOwn, NewIsSecret
  <2>6. DeliveredIssued'
    BY <1>2 DEF FindForPassword, DeliveredIssued, NewIsSecret
  <2>7. MarkedDelivered'
    BY <1>2 DEF FindForPassword, MarkedDelivered, TokenKnown, DeliveredIssued, NewIsSecret
  <2>8. QED BY <2>1, <2>2, <2>3, <2>4, <2>5, <2>6, <2>7 DEF IInv
<1>3. ASSUME NEW r \in Requests, NEW t \in Tokens, RefreshGet(r, t) PROVE IInv'
  <2>1. TypeOK'
    BY <1>3 DEF RefreshGet, TokenKnown, UserKnown, NewIsSecret, DeliveredIssued
  <2>2. \A s \in Requests : TokenKnown(s)'
    BY <1>3 DEF RefreshGet, TokenKnown, DeliveredIssued
  <2>3. \A s \in Requests : UserKnown(s)'
    BY <1>3 DEF RefreshGet, UserKnown
  <2>4. \A s \in Requests : NewIsSecret(s)'
    BY <1>3 DEF RefreshGet, NewIsSecret, NewIsOwn, DeliveredIssued, TokenKnown
  <2>5. NewIsOwn'
    BY <1>3 DEF RefreshGet, NewIsOwn, NewIsSecret
  <2>6. DeliveredIssued'
    BY <1>3 DEF RefreshGet, DeliveredIssued, NewIsSecret
  <2>7. MarkedDelivered'
    BY <1>3 DEF RefreshGet, MarkedDelivered, TokenKnown, DeliveredIssued, NewIsSecret
  <2>8. QED BY <2>1, <2>2, <2>3, <2>4, <2>5, <2>6, <2>7 DEF IInv
<1>4. ASSUME NEW r \in Requests, NEW t \in Tokens, LogoutFind(r, t) PROVE IInv'
  <2>1. TypeOK'
    BY <1>4 DEF LogoutFind, TokenKnown, UserKnown, NewIsSecret, DeliveredIssued
  <2>2. \A s \in Requests : TokenKnown(s)'
    BY <1>4 DEF LogoutFind, TokenKnown, DeliveredIssued
  <2>3. \A s \in Requests : UserKnown(s)'
    BY <1>4 DEF LogoutFind, UserKnown
  <2>4. \A s \in Requests : NewIsSecret(s)'
    BY <1>4 DEF LogoutFind, NewIsSecret, NewIsOwn, DeliveredIssued, TokenKnown
  <2>5. NewIsOwn'
    BY <1>4 DEF LogoutFind, NewIsOwn, NewIsSecret
  <2>6. DeliveredIssued'
    BY <1>4 DEF LogoutFind, DeliveredIssued, NewIsSecret
  <2>7. MarkedDelivered'
    BY <1>4 DEF LogoutFind, MarkedDelivered, TokenKnown, DeliveredIssued, NewIsSecret
  <2>8. QED BY <2>1, <2>2, <2>3, <2>4, <2>5, <2>6, <2>7 DEF IInv
<1>5. ASSUME NEW r \in Requests, RefreshFind(r) PROVE IInv'
  <2>1. CASE Live(req[r].tok)
    <3> DEFINE t == req[r].tok
               state == [req[r] EXCEPT !.pc = "revoke", !.user = owner[t], !.login = auth[t]]
    <3>0. t \in Tokens /\ owner[t] \in Users /\ auth[t] \in Logins
      BY <1>5, <2>1 DEF RefreshFind, TokenKnown
    <3>1. state \in RequestStates /\ Become(r, state)
      <4>1. req[r] \in RequestStates
        OBVIOUS
      <4>2. state \in RequestStates
        BY <3>0, <4>1
      <4>3. Become(r, state)
        BY <1>5, <2>1 DEF RefreshFind
      <4>4. QED BY <4>2, <4>3
    <3>2. /\ req' \in [Requests -> RequestStates]
          /\ req'[r] = state
          /\ \A s \in Requests \ {r} : req'[s] = req[s]
      BY <3>1, BecomeTyped
    <3>3. TypeOK'
      BY <1>5, <2>1, <3>1, <3>2 DEF RefreshFind
    <3>4. \A s \in Requests : TokenKnown(s)'
      BY <1>5, <2>1, <3>1, <3>2 DEF RefreshFind, TokenKnown, DeliveredIssued
    <3>5. \A s \in Requests : UserKnown(s)'
      BY <1>5, <2>1, <3>1, <3>2 DEF RefreshFind, UserKnown
    <3>6. \A s \in Requests : NewIsSecret(s)'
      BY <1>5, <2>1, <3>1, <3>2 DEF RefreshFind, NewIsSecret, NewIsOwn, DeliveredIssued, TokenKnown
    <3>7. NewIsOwn'
      BY <1>5, <2>1, <3>1, <3>2 DEF RefreshFind, NewIsOwn, NewIsSecret
    <3>8. DeliveredIssued'
      BY <1>5, <2>1, <3>1, <3>2 DEF RefreshFind, DeliveredIssued, NewIsSecret
    <3>9. MarkedDelivered'
      BY <1>5, <2>1, <3>1, <3>2 DEF RefreshFind, MarkedDelivered, TokenKnown, DeliveredIssued, NewIsSecret
    <3>10. QED BY <3>3, <3>4, <3>5, <3>6, <3>7, <3>8, <3>9 DEF IInv
  <2>2. CASE ~Live(req[r].tok)
    <3>1. Goto(r, "findOwner")
      BY <1>5, <2>2 DEF RefreshFind
    <3>2. /\ req' \in [Requests -> RequestStates]
          /\ req'[r] = [req[r] EXCEPT !.pc = "findOwner"]
          /\ \A s \in Requests \ {r} : req'[s] = req[s]
      BY <3>1, GotoTyped
    <3>3. TypeOK'
      BY <1>5, <2>2, <3>2 DEF RefreshFind
    <3>4. \A s \in Requests : TokenKnown(s)'
      BY <1>5, <2>2, <3>2 DEF RefreshFind, TokenKnown, DeliveredIssued
    <3>5. \A s \in Requests : UserKnown(s)'
      BY <1>5, <2>2, <3>2 DEF RefreshFind, UserKnown
    <3>6. \A s \in Requests : NewIsSecret(s)'
      BY <1>5, <2>2, <3>2 DEF RefreshFind, NewIsSecret, NewIsOwn, DeliveredIssued, TokenKnown
    <3>7. NewIsOwn'
      BY <3>2 DEF NewIsOwn
    <3>8. DeliveredIssued'
      BY <1>5, <2>2, <3>2 DEF RefreshFind, DeliveredIssued, NewIsSecret
    <3>9. MarkedDelivered'
      BY <1>5, <2>2, <3>2 DEF RefreshFind, MarkedDelivered, TokenKnown, DeliveredIssued, NewIsSecret
    <3>10. QED BY <3>3, <3>4, <3>5, <3>6, <3>7, <3>8, <3>9 DEF IInv
  <2>3. QED BY <2>1, <2>2
<1>6. ASSUME NEW r \in Requests, FindOwner(r) PROVE IInv'
  <2> DEFINE state == [req[r] EXCEPT !.pc = "invalidate", !.user = owner[req[r].tok]]
  <2>0. req[r].tok \in Tokens /\ owner[req[r].tok] \in Users
    BY <1>6 DEF FindOwner, TokenKnown, DeliveredIssued
  <2>1. state \in RequestStates /\ Become(r, state)
    <3>1. req[r] \in RequestStates
      OBVIOUS
    <3>2. state \in RequestStates
      BY <2>0, <3>1
    <3>3. QED BY <1>6, <3>2 DEF FindOwner
  <2>2. /\ req' \in [Requests -> RequestStates]
        /\ req'[r] = state
        /\ \A s \in Requests \ {r} : req'[s] = req[s]
    BY <2>1, BecomeTyped
  <2>3. TypeOK'
    BY <1>6, <2>1, <2>2 DEF FindOwner
  <2>4. \A s \in Requests : TokenKnown(s)'
    BY <1>6, <2>1, <2>2 DEF FindOwner, TokenKnown, DeliveredIssued
  <2>5. \A s \in Requests : UserKnown(s)'
    BY <1>6, <2>0, <2>2 DEF FindOwner, UserKnown
  <2>6. \A s \in Requests : NewIsSecret(s)'
    BY <1>6, <2>1, <2>2 DEF FindOwner, NewIsSecret, NewIsOwn, DeliveredIssued, TokenKnown
  <2>7. NewIsOwn'
    BY <1>6, <2>1, <2>2 DEF FindOwner, NewIsOwn, NewIsSecret
  <2>8. DeliveredIssued'
    BY <1>6, <2>1, <2>2 DEF FindOwner, DeliveredIssued, NewIsSecret
  <2>9. MarkedDelivered'
    BY <1>6, <2>1, <2>2 DEF FindOwner, MarkedDelivered, TokenKnown, DeliveredIssued, NewIsSecret
  <2>10. QED BY <2>3, <2>4, <2>5, <2>6, <2>7, <2>8, <2>9 DEF IInv
<1>7. ASSUME NEW r \in Requests, InvalidateFamily(r) PROVE IInv'
  <2>1. TypeOK'
    BY <1>7 DEF InvalidateFamily, RevokeAllRefreshTokens, TokenKnown, UserKnown, NewIsSecret, DeliveredIssued
  <2>2. \A s \in Requests : TokenKnown(s)'
    BY <1>7 DEF InvalidateFamily, RevokeAllRefreshTokens, TokenKnown, DeliveredIssued
  <2>3. \A s \in Requests : UserKnown(s)'
    BY <1>7 DEF InvalidateFamily, RevokeAllRefreshTokens, UserKnown
  <2>4. \A s \in Requests : NewIsSecret(s)'
    BY <1>7 DEF InvalidateFamily, RevokeAllRefreshTokens, NewIsSecret, NewIsOwn, DeliveredIssued, TokenKnown
  <2>5. NewIsOwn'
    BY <1>7 DEF InvalidateFamily, RevokeAllRefreshTokens, NewIsOwn, NewIsSecret
  <2>6. DeliveredIssued'
    BY <1>7 DEF InvalidateFamily, RevokeAllRefreshTokens, DeliveredIssued, NewIsSecret
  <2>7. MarkedDelivered'
    BY <1>7 DEF InvalidateFamily, RevokeAllRefreshTokens, MarkedDelivered, TokenKnown, DeliveredIssued, NewIsSecret
  <2>8. QED BY <2>1, <2>2, <2>3, <2>4, <2>5, <2>6, <2>7 DEF IInv
<1>8. ASSUME NEW r \in Requests, RevokeRefreshToken(r) PROVE IInv'
  <2>1. /\ req' \in [Requests -> RequestStates]
        /\ req'[r] = [req[r] EXCEPT !.pc = "mark"]
        /\ \A s \in Requests \ {r} : req'[s] = req[s]
    BY <1>8, GotoTyped DEF RevokeRefreshToken
  <2>2. TypeOK'
    BY <1>8, <2>1 DEF RevokeRefreshToken, TokenKnown
  <2>3. \A s \in Requests : TokenKnown(s)'
    BY <1>8, <2>1 DEF RevokeRefreshToken, TokenKnown, DeliveredIssued
  <2>4. \A s \in Requests : UserKnown(s)'
    BY <1>8, <2>1 DEF RevokeRefreshToken, UserKnown
  <2>5. \A s \in Requests : NewIsSecret(s)'
    BY <1>8, <2>1 DEF RevokeRefreshToken, NewIsSecret, NewIsOwn, DeliveredIssued, TokenKnown
  <2>6. NewIsOwn'
    BY <1>8, <2>1 DEF RevokeRefreshToken, NewIsOwn, NewIsSecret
  <2>7. DeliveredIssued'
    BY <1>8, <2>1 DEF RevokeRefreshToken, DeliveredIssued, NewIsSecret
  <2>8. MarkedDelivered'
    BY <1>8, <2>1 DEF RevokeRefreshToken, MarkedDelivered, TokenKnown, DeliveredIssued, NewIsSecret
  <2>9. QED BY <2>2, <2>3, <2>4, <2>5, <2>6, <2>7, <2>8 DEF IInv
<1>9. ASSUME NEW r \in Requests, MarkRevoked(r) PROVE IInv'
  <2>1. CASE req[r].rotate
    <3>1. /\ req' \in [Requests -> RequestStates]
          /\ req'[r] = [req[r] EXCEPT !.pc = "insert"]
          /\ \A s \in Requests \ {r} : req'[s] = req[s]
      BY <1>9, <2>1, GotoTyped DEF MarkRevoked
    <3>2. TypeOK'
      BY <1>9, <2>1, <3>1 DEF MarkRevoked
    <3>3. \A s \in Requests : TokenKnown(s)'
      BY <1>9, <2>1, <3>1 DEF MarkRevoked, TokenKnown, DeliveredIssued
    <3>4. \A s \in Requests : UserKnown(s)'
      BY <1>9, <2>1, <3>1 DEF MarkRevoked, UserKnown, TokenKnown, DeliveredIssued
    <3>5. \A s \in Requests : NewIsSecret(s)'
      BY <1>9, <2>1, <3>1 DEF MarkRevoked, NewIsSecret, NewIsOwn, DeliveredIssued, TokenKnown
    <3>6. NewIsOwn'
      BY <3>1 DEF NewIsOwn
    <3>7. DeliveredIssued'
      BY <1>9, <2>1, <3>1 DEF MarkRevoked, DeliveredIssued, NewIsSecret
    <3>8. MarkedDelivered'
      BY <1>9, <2>1, <3>1 DEF MarkRevoked, MarkedDelivered, TokenKnown, DeliveredIssued, NewIsSecret
    <3>9. QED BY <3>2, <3>3, <3>4, <3>5, <3>6, <3>7, <3>8 DEF IInv
  <2>2. CASE ~req[r].rotate
    <3>1. Finish(r)
      BY <1>9, <2>2 DEF MarkRevoked
    <3>2. TypeOK'
      BY <1>9, <2>2, <3>1 DEF MarkRevoked
    <3>3. \A s \in Requests : TokenKnown(s)'
      BY <1>9, <2>2, <3>1 DEF MarkRevoked, TokenKnown, DeliveredIssued
    <3>4. \A s \in Requests : UserKnown(s)'
      BY <1>9, <2>2, <3>1 DEF MarkRevoked, UserKnown
    <3>5. \A s \in Requests : NewIsSecret(s)'
      BY <1>9, <2>2, <3>1 DEF MarkRevoked, NewIsSecret, NewIsOwn, DeliveredIssued, TokenKnown
    <3>6. NewIsOwn'
      BY <1>9, <2>2, <3>1 DEF MarkRevoked, NewIsOwn, NewIsSecret
    <3>7. DeliveredIssued'
      BY <1>9, <2>2, <3>1 DEF MarkRevoked, DeliveredIssued, NewIsSecret
    <3>8. MarkedDelivered'
      BY <1>9, <2>2, <3>1 DEF MarkRevoked, MarkedDelivered, TokenKnown, DeliveredIssued, NewIsSecret
    <3>9. QED BY <3>2, <3>3, <3>4, <3>5, <3>6, <3>7, <3>8 DEF IInv
  <2>3. QED BY <2>1, <2>2
<1>10. ASSUME NEW r \in Requests, CreateRefreshToken(r) PROVE IInv'
  <2>1. PICK t \in Unused : Insert(r, t)
    BY <1>10 DEF CreateRefreshToken
  <2> DEFINE state == [req[r] EXCEPT !.pc = "cache", !.new = t]
  <2>2. state \in RequestStates /\ Become(r, state)
    <3>1. t \in Tokens /\ req[r] \in RequestStates
      BY <2>1
    <3>2. state \in RequestStates
      BY <3>1
    <3>3. QED BY <2>1, <3>2 DEF Insert
  <2>3. /\ req' \in [Requests -> RequestStates]
        /\ req'[r] = state
        /\ \A s \in Requests \ {r} : req'[s] = req[s]
    BY <2>2, BecomeTyped
  <2>4. TypeOK'
    BY <1>10, <2>1, <2>3 DEF CreateRefreshToken, Insert, UserKnown, TokenKnown
  <2>5. \A s \in Requests : TokenKnown(s)'
    BY <1>10, <2>1, <2>3 DEF CreateRefreshToken, Insert, TokenKnown, DeliveredIssued
  <2>6. \A s \in Requests : UserKnown(s)'
    BY <1>10, <2>1, <2>3 DEF CreateRefreshToken, Insert, UserKnown
  <2>7. \A s \in Requests : NewIsSecret(s)'
    <3>1. t \notin delivered /\ owner'[t] # NoUser
      BY <1>10, <2>1 DEF CreateRefreshToken, Insert, DeliveredIssued, UserKnown
    <3>2. ASSUME NEW s \in Requests, s # r PROVE NewIsSecret(s)'
      BY <1>10, <2>1, <2>3, <3>1, <3>2 DEF CreateRefreshToken, Insert, NewIsSecret, UserKnown
    <3>3. NewIsSecret(r)'
      BY <1>10, <2>1, <2>3, <3>1 DEF CreateRefreshToken, NewIsSecret
    <3>4. QED BY <3>2, <3>3
  <2>8. NewIsOwn'
    BY <1>10, <2>1, <2>3 DEF CreateRefreshToken, Insert, NewIsOwn, NewIsSecret
  <2>9. DeliveredIssued'
    BY <1>10, <2>1, <2>3 DEF CreateRefreshToken, Insert, DeliveredIssued, NewIsSecret
  <2>10. MarkedDelivered'
    BY <1>10, <2>1, <2>3 DEF CreateRefreshToken, Insert, MarkedDelivered, TokenKnown, DeliveredIssued, NewIsSecret
  <2>11. QED BY <2>4, <2>5, <2>6, <2>7, <2>8, <2>9, <2>10 DEF IInv
<1>11. ASSUME NEW r \in Requests, CacheRefreshToken(r) PROVE IInv'
  <2>1. /\ req' \in [Requests -> RequestStates]
        /\ req'[r] = [req[r] EXCEPT !.pc = "reply"]
        /\ \A s \in Requests \ {r} : req'[s] = req[s]
    BY <1>11, GotoTyped DEF CacheRefreshToken
  <2>2. TypeOK'
    BY <1>11, <2>1 DEF CacheRefreshToken
  <2>3. \A s \in Requests : TokenKnown(s)'
    BY <1>11, <2>1 DEF CacheRefreshToken, TokenKnown, DeliveredIssued
  <2>4. \A s \in Requests : UserKnown(s)'
    BY <1>11, <2>1 DEF CacheRefreshToken, UserKnown
  <2>5. \A s \in Requests : NewIsSecret(s)'
    BY <1>11, <2>1 DEF CacheRefreshToken, NewIsSecret, NewIsOwn, DeliveredIssued, TokenKnown
  <2>6. NewIsOwn'
    BY <1>11, <2>1 DEF CacheRefreshToken, NewIsOwn, NewIsSecret
  <2>7. DeliveredIssued'
    BY <1>11, <2>1 DEF CacheRefreshToken, DeliveredIssued, NewIsSecret
  <2>8. MarkedDelivered'
    BY <1>11, <2>1 DEF CacheRefreshToken, MarkedDelivered, TokenKnown, DeliveredIssued, NewIsSecret
  <2>9. QED BY <2>2, <2>3, <2>4, <2>5, <2>6, <2>7, <2>8 DEF IInv
<1>12. ASSUME NEW r \in Requests, Reply(r) PROVE IInv'
  <2>1. TypeOK'
    BY <1>12 DEF Reply, TokenKnown, UserKnown, NewIsSecret, DeliveredIssued
  <2>2. \A s \in Requests : TokenKnown(s)'
    BY <1>12 DEF Reply, TokenKnown, DeliveredIssued
  <2>3. \A s \in Requests : UserKnown(s)'
    BY <1>12 DEF Reply, UserKnown
  <2>4. \A s \in Requests : NewIsSecret(s)'
    BY <1>12 DEF Reply, NewIsSecret, NewIsOwn, DeliveredIssued, TokenKnown
  <2>5. NewIsOwn'
    BY <1>12 DEF Reply, NewIsOwn, NewIsSecret
  <2>6. DeliveredIssued'
    BY <1>12 DEF Reply, DeliveredIssued, NewIsSecret
  <2>7. MarkedDelivered'
    BY <1>12 DEF Reply, MarkedDelivered, TokenKnown, DeliveredIssued, NewIsSecret
  <2>8. QED BY <2>1, <2>2, <2>3, <2>4, <2>5, <2>6, <2>7 DEF IInv
<1>13. ASSUME NEW r \in Requests, UpdatePassword(r) PROVE IInv'
  <2>1. /\ req' \in [Requests -> RequestStates]
        /\ req'[r] = [req[r] EXCEPT !.pc = "revokeAll"]
        /\ \A s \in Requests \ {r} : req'[s] = req[s]
    BY <1>13, GotoTyped DEF UpdatePassword
  <2>2. TypeOK'
    BY <1>13, <2>1 DEF UpdatePassword, UserKnown
  <2>3. \A s \in Requests : TokenKnown(s)'
    BY <1>13, <2>1 DEF UpdatePassword, TokenKnown, DeliveredIssued
  <2>4. \A s \in Requests : UserKnown(s)'
    BY <1>13, <2>1 DEF UpdatePassword, UserKnown
  <2>5. \A s \in Requests : NewIsSecret(s)'
    BY <1>13, <2>1 DEF UpdatePassword, NewIsSecret, NewIsOwn, DeliveredIssued, TokenKnown
  <2>6. NewIsOwn'
    BY <1>13, <2>1 DEF UpdatePassword, NewIsOwn, NewIsSecret
  <2>7. DeliveredIssued'
    BY <1>13, <2>1 DEF UpdatePassword, DeliveredIssued, NewIsSecret
  <2>8. MarkedDelivered'
    BY <1>13, <2>1 DEF UpdatePassword, MarkedDelivered, TokenKnown, DeliveredIssued, NewIsSecret
  <2>9. QED BY <2>2, <2>3, <2>4, <2>5, <2>6, <2>7, <2>8 DEF IInv
<1>14. ASSUME NEW r \in Requests, RevokeAfterPasswordChange(r) PROVE IInv'
  <2>1. TypeOK'
    BY <1>14 DEF RevokeAfterPasswordChange, RevokeAllRefreshTokens, TokenKnown, UserKnown, NewIsSecret, DeliveredIssued
  <2>2. \A s \in Requests : TokenKnown(s)'
    BY <1>14 DEF RevokeAfterPasswordChange, RevokeAllRefreshTokens, TokenKnown, DeliveredIssued
  <2>3. \A s \in Requests : UserKnown(s)'
    BY <1>14 DEF RevokeAfterPasswordChange, RevokeAllRefreshTokens, UserKnown
  <2>4. \A s \in Requests : NewIsSecret(s)'
    BY <1>14 DEF RevokeAfterPasswordChange, RevokeAllRefreshTokens, NewIsSecret, NewIsOwn, DeliveredIssued, TokenKnown
  <2>5. NewIsOwn'
    BY <1>14 DEF RevokeAfterPasswordChange, RevokeAllRefreshTokens, NewIsOwn, NewIsSecret
  <2>6. DeliveredIssued'
    BY <1>14 DEF RevokeAfterPasswordChange, RevokeAllRefreshTokens, DeliveredIssued, NewIsSecret
  <2>7. MarkedDelivered'
    BY <1>14 DEF RevokeAfterPasswordChange, RevokeAllRefreshTokens, MarkedDelivered, TokenKnown, DeliveredIssued, NewIsSecret
  <2>8. QED BY <2>1, <2>2, <2>3, <2>4, <2>5, <2>6, <2>7 DEF IInv
<1>15. ASSUME NEW r \in Requests, Fail(r) PROVE IInv'
  <2>1. TypeOK'
    BY <1>15 DEF Fail, TokenKnown, UserKnown, NewIsSecret, DeliveredIssued
  <2>2. \A s \in Requests : TokenKnown(s)'
    BY <1>15 DEF Fail, TokenKnown, DeliveredIssued
  <2>3. \A s \in Requests : UserKnown(s)'
    BY <1>15 DEF Fail, UserKnown
  <2>4. \A s \in Requests : NewIsSecret(s)'
    BY <1>15 DEF Fail, NewIsSecret, NewIsOwn, DeliveredIssued, TokenKnown
  <2>5. NewIsOwn'
    BY <1>15 DEF Fail, NewIsOwn, NewIsSecret
  <2>6. DeliveredIssued'
    BY <1>15 DEF Fail, DeliveredIssued, NewIsSecret
  <2>7. MarkedDelivered'
    BY <1>15 DEF Fail, MarkedDelivered, TokenKnown, DeliveredIssued, NewIsSecret
  <2>8. QED BY <2>1, <2>2, <2>3, <2>4, <2>5, <2>6, <2>7 DEF IInv
<1>16. ASSUME NEW t \in Tokens, Expire(t) PROVE IInv'
  <2>1. TypeOK'
    BY <1>16 DEF Expire, TokenKnown, UserKnown, NewIsSecret, DeliveredIssued
  <2>2. \A s \in Requests : TokenKnown(s)'
    BY <1>16 DEF Expire, TokenKnown, DeliveredIssued
  <2>3. \A s \in Requests : UserKnown(s)'
    BY <1>16 DEF Expire, UserKnown
  <2>4. \A s \in Requests : NewIsSecret(s)'
    BY <1>16 DEF Expire, NewIsSecret, NewIsOwn, DeliveredIssued, TokenKnown
  <2>5. NewIsOwn'
    BY <1>16 DEF Expire, NewIsOwn, NewIsSecret
  <2>6. DeliveredIssued'
    BY <1>16 DEF Expire, DeliveredIssued, NewIsSecret
  <2>7. MarkedDelivered'
    BY <1>16 DEF Expire, MarkedDelivered, TokenKnown, DeliveredIssued, NewIsSecret
  <2>8. QED BY <2>1, <2>2, <2>3, <2>4, <2>5, <2>6, <2>7 DEF IInv
<1>17. ASSUME NEW t \in Tokens, Evict(t) PROVE IInv'
  <2>1. TypeOK'
    BY <1>17 DEF Evict, TokenKnown, UserKnown, NewIsSecret, DeliveredIssued
  <2>2. \A s \in Requests : TokenKnown(s)'
    BY <1>17 DEF Evict, TokenKnown, DeliveredIssued
  <2>3. \A s \in Requests : UserKnown(s)'
    BY <1>17 DEF Evict, UserKnown
  <2>4. \A s \in Requests : NewIsSecret(s)'
    BY <1>17 DEF Evict, NewIsSecret, NewIsOwn, DeliveredIssued, TokenKnown
  <2>5. NewIsOwn'
    BY <1>17 DEF Evict, NewIsOwn, NewIsSecret
  <2>6. DeliveredIssued'
    BY <1>17 DEF Evict, DeliveredIssued, NewIsSecret
  <2>7. MarkedDelivered'
    BY <1>17 DEF Evict, MarkedDelivered, TokenKnown, DeliveredIssued, NewIsSecret
  <2>8. QED BY <2>1, <2>2, <2>3, <2>4, <2>5, <2>6, <2>7 DEF IInv
<1>18. CASE UNCHANGED vars
  BY <1>18 DEF TokenKnown, UserKnown, NewIsSecret, NewIsOwn, DeliveredIssued, MarkedDelivered
<1>19. QED
  BY <1>1, <1>2, <1>3, <1>4, <1>5, <1>6, <1>7, <1>8, <1>9, <1>10, <1>11, <1>12, <1>13, <1>14, <1>15, <1>16, <1>17, <1>18 DEF Next, Start, Step, Environment

-----------------------------------------------------------------------------
(* What follows from it. *)

LEMMA Invariance == Spec => []IInv
  BY IInvInit, IInvStep, PTL DEF Spec

\* No request touches a row, a marker or a user it has not got: every variable
\* stays in its type, whatever the interleaving and the faults.
THEOREM TypeCorrect == Spec => []TypeOK
<1>1. IInv => TypeOK
  BY DEF IInv
<1>2. QED BY <1>1, Invariance, PTL

\* The revocation markers in Redis agree with the database at every moment, so
\* that Refresh may answer from the marker alone.
THEOREM MarkersAreSound == Spec => []MarkerSound
<1>1. IInv => MarkerSound
  BY DEF IInv, MarkedDelivered, MarkerSound
<1>2. QED BY <1>1, Invariance, PTL

\* issueTokens never puts the marker of a live token over that of a revoked
\* one: the token it writes for has not left the server.
THEOREM MarkersPersist == Spec => MarkerPersists
<1> DEFINE Persist == \A t \in Tokens : marker[t] = "revoked" => marker'[t] # "user"
<1>1. IInv /\ [Next]_vars => [Persist]_vars
  <2> SUFFICES ASSUME IInv, Next, NEW t \in Tokens, marker[t] = "revoked"
               PROVE  marker'[t] # "user"
    BY DEF vars
  <2>1. \/ marker' = marker
        \/ \E r \in Requests : MarkRevoked(r) \/ CacheRefreshToken(r)
        \/ \E s \in Tokens : Evict(s)
    BY DEF Next, Start, Step, Environment, Login, FindForPassword, RefreshGet, LogoutFind,
           RefreshFind, FindOwner, InvalidateFamily, RevokeRefreshToken, CreateRefreshToken,
           Insert, Reply, UpdatePassword, RevokeAfterPasswordChange, Fail, Expire
  <2>2. ASSUME NEW r \in Requests, CacheRefreshToken(r) PROVE marker'[t] # "user"
    <3>1. req[r].new # t
      BY <2>2 DEF CacheRefreshToken, At, IInv, NewIsSecret, MarkedDelivered
    <3>2. QED BY <2>2, <3>1 DEF CacheRefreshToken, IInv, TypeOK
  <2>3. ASSUME NEW r \in Requests, MarkRevoked(r) PROVE marker'[t] # "user"
    BY <2>3 DEF MarkRevoked, IInv, TypeOK
  <2>4. ASSUME NEW s \in Tokens, Evict(s) PROVE marker'[t] # "user"
    BY <2>4 DEF Evict, IInv, TypeOK
  <2>5. QED BY <2>1, <2>2, <2>3, <2>4
<1>2. QED BY <1>1, Invariance, PTL DEF Spec, MarkerPersists

-----------------------------------------------------------------------------
(* Rotation *)

\* A token that has a successor is revoked.
ParentsDead == \A t \in Tokens : parent[t] # NoToken => parent[t] \in revoked

LEMMA ParentsStep == IInv /\ ParentsDead /\ [Next]_vars => ParentsDead'
<1> SUFFICES ASSUME IInv, ParentsDead, [Next]_vars PROVE ParentsDead'
  OBVIOUS
<1>1. CASE UNCHANGED <<parent, revoked>>
  BY <1>1 DEF ParentsDead
<1>2. ASSUME NEW r \in Requests, InvalidateFamily(r) \/ RevokeAfterPasswordChange(r)
      PROVE  ParentsDead'
  BY <1>2 DEF InvalidateFamily, RevokeAfterPasswordChange, RevokeAllRefreshTokens, history, ParentsDead
<1>3. ASSUME NEW r \in Requests, RevokeRefreshToken(r) PROVE ParentsDead'
  BY <1>3 DEF RevokeRefreshToken, history, ParentsDead
<1>4. ASSUME NEW r \in Requests, CreateRefreshToken(r) PROVE ParentsDead'
  <2>1. req[r].tok # NoToken => req[r].tok \in revoked
    BY <1>4 DEF CreateRefreshToken, At, IInv, TokenKnown, IssuePCs
  <2>2. PICK t \in Tokens : Insert(r, t)
    BY <1>4 DEF CreateRefreshToken, Unused
  <2>3. parent' = [parent EXCEPT ![t] = req[r].tok] /\ revoked' = revoked
    BY <2>2 DEF Insert
  <2>4. QED BY <2>1, <2>3 DEF ParentsDead, IInv, TypeOK
<1>5. \/ UNCHANGED <<parent, revoked>>
      \/ \E r \in Requests :
           \/ InvalidateFamily(r) \/ RevokeAfterPasswordChange(r)
           \/ RevokeRefreshToken(r) \/ CreateRefreshToken(r)
  BY DEF Next, Start, Step, Environment, Login, FindForPassword, RefreshGet, LogoutFind, RefreshFind,
         FindOwner, MarkRevoked, CacheRefreshToken, Reply, UpdatePassword, Fail, Expire, Evict,
         vars, db, history
<1>6. QED BY <1>1, <1>2, <1>3, <1>4, <1>5

\* A step of a request changes the state of that request alone.
LEMMA OwnRequestOnly ==
  ASSUME NEW r \in Requests, Start(r) \/ Step(r) \/ Fail(r)
  PROVE  \E state : Become(r, state)
<1>1. CASE Start(r)
  BY <1>1 DEF Start, Login, FindForPassword, RefreshGet, LogoutFind
<1>2. CASE RefreshFind(r) \/ FindOwner(r)
  BY <1>2 DEF RefreshFind, FindOwner, Goto, Finish
<1>3. CASE InvalidateFamily(r) \/ RevokeRefreshToken(r) \/ MarkRevoked(r)
  BY <1>3 DEF InvalidateFamily, RevokeRefreshToken, MarkRevoked, Goto, Finish
<1>4. CASE CreateRefreshToken(r) \/ CacheRefreshToken(r) \/ Reply(r)
  BY <1>4 DEF CreateRefreshToken, Insert, CacheRefreshToken, Reply, Goto, Finish
<1>5. CASE UpdatePassword(r) \/ RevokeAfterPasswordChange(r) \/ Fail(r)
  BY <1>5 DEF UpdatePassword, RevokeAfterPasswordChange, Fail, Goto, Finish
<1>6. QED BY <1>1, <1>2, <1>3, <1>4, <1>5 DEF Step

\* A rotation never forks afterwards: once a token has a successor, no Refresh
\* finds it in the table any more, on any replica.
THEOREM RotatedStaysDead == Spec => RotatedIsNeverAccepted
<1> DEFINE Never == \A r \in Requests, t \in Tokens :
                      At(r, "find") /\ At(r, "revoke")' => parent[t] # req[r].tok
<1>1. Init => ParentsDead
  BY DEF Init, ParentsDead
<1>2. IInv /\ ParentsDead /\ [Next]_vars => [Never]_vars
  <2> SUFFICES ASSUME IInv, ParentsDead, Next, NEW r \in Requests, NEW t \in Tokens,
                      At(r, "find"), At(r, "revoke")'
               PROVE  parent[t] # req[r].tok
    BY DEF vars
  <2>1. RefreshFind(r)
    <3>1. req'[r] # req[r]
      BY DEF At
    <3>2. PICK s \in Requests : Start(s) \/ Step(s) \/ Fail(s)
      BY <3>1 DEF Next, Environment, Expire, Evict
    <3>3. s = r
      BY <3>1, <3>2, OwnRequestOnly DEF Become, IInv, TypeOK
    <3>4. ~Fail(r)
      BY DEF Fail, Finish, Become, Idle, At, IInv, TypeOK
    <3>5. ~Start(r)
      BY DEF Start, Login, FindForPassword, RefreshGet, LogoutFind, At
    <3>6. Step(r) => RefreshFind(r)
      BY DEF Step, FindOwner, InvalidateFamily, RevokeRefreshToken, MarkRevoked, CreateRefreshToken,
             CacheRefreshToken, Reply, UpdatePassword, RevokeAfterPasswordChange, At
    <3>7. QED BY <3>2, <3>3, <3>4, <3>5, <3>6
  <2>2. Live(req[r].tok)
    <3>1. ~Live(req[r].tok) => req' = [req EXCEPT ![r] = [req[r] EXCEPT !.pc = "findOwner"]]
      BY <2>1 DEF RefreshFind, Goto, Become
    <3>2. req[r] \in RequestStates
      BY DEF IInv, TypeOK
    <3>3. QED BY <3>1, <3>2 DEF At, IInv, TypeOK, RequestStates
  <2>3. req[r].tok # NoToken
    BY DEF At, IInv, TokenKnown, RefreshPCs
  <2>4. QED BY <2>2, <2>3 DEF Live, ParentsDead
<1>3. QED BY <1>1, <1>2, Invariance, ParentsStep, PTL DEF Spec, RotatedIsNeverAccepted

-----------------------------------------------------------------------------
(* Refinement *)

\* Whatever the requests interleave, what they do to the table is what the
\* ledger allows: tokens are issued once, rotated only when dead and for their
\* owner, retired one by one or all those of a user, and never revived.
THEOREM Refinement == Spec => ImplementsLedger
<1>1. Init => Ledger!Init
  BY DEF Init, Ledger!Init
<1>2. IInv /\ [Next]_vars => [Ledger!Next]_(Ledger!vars)
  <2> SUFFICES ASSUME IInv, [Next]_vars PROVE Ledger!Next \/ UNCHANGED Ledger!vars
    OBVIOUS
  <2>1. ASSUME NEW r \in Requests, CreateRefreshToken(r) PROVE Ledger!Next
    <3>1. PICK t \in Unused : Insert(r, t)
      BY <2>1 DEF CreateRefreshToken
    <3>2. t \in Tokens /\ owner[t] = NoUser
      BY DEF Unused
    <3>3. /\ req[r].user \in Users
          /\ req[r].tok \in Tokens \union {NoToken}
          /\ req[r].tok # NoToken => req[r].tok \in revoked /\ req[r].user = owner[req[r].tok]
      BY <2>1 DEF CreateRefreshToken, At, IInv, TypeOK, RequestStates, TokenKnown, UserKnown, IssuePCs
    <3>4. CASE req[r].tok = NoToken
      <4>1. Ledger!Issue(t, req[r].user)
        BY <3>1, <3>2, <3>4 DEF Insert, Ledger!Issue
      <4>2. QED BY <3>2, <3>3, <4>1 DEF Ledger!Next
    <3>5. CASE req[r].tok # NoToken
      <4>1. Ledger!Rotate(t, req[r].tok)
        BY <3>1, <3>2, <3>3, <3>5 DEF Insert, Ledger!Rotate
      <4>2. QED BY <3>2, <3>3, <3>5, <4>1 DEF Ledger!Next
    <3>6. QED BY <3>4, <3>5
  <2>2. ASSUME NEW r \in Requests, RevokeRefreshToken(r) PROVE Ledger!Next
    <3>1. req[r].tok \in Tokens /\ owner[req[r].tok] # NoUser
      BY <2>2 DEF RevokeRefreshToken, At, IInv, TypeOK, RequestStates, TokenKnown, RotatePCs,
                  DeliveredIssued
    <3>2. Ledger!Retire(req[r].tok)
      BY <2>2, <3>1 DEF RevokeRefreshToken, history, Ledger!Retire
    <3>3. QED BY <3>1, <3>2 DEF Ledger!Next
  <2>3. ASSUME NEW r \in Requests, InvalidateFamily(r) \/ RevokeAfterPasswordChange(r)
        PROVE  Ledger!Next
    <3>1. req[r].user \in Users
      BY <2>3 DEF InvalidateFamily, RevokeAfterPasswordChange, At, IInv, UserKnown, PasswordPCs
    <3>2. Ledger!RetireAll(req[r].user)
      BY <2>3 DEF InvalidateFamily, RevokeAfterPasswordChange, RevokeAllRefreshTokens,
                  OwnedBy, history, Ledger!RetireAll, Ledger!HeldBy
    <3>3. QED BY <3>1, <3>2 DEF Ledger!Next
  <2>4. CASE UNCHANGED <<owner, revoked, parent>>
    BY <2>4 DEF Ledger!vars
  <2>5. \/ UNCHANGED <<owner, revoked, parent>>
        \/ \E r \in Requests : \/ CreateRefreshToken(r) \/ RevokeRefreshToken(r)
                               \/ InvalidateFamily(r) \/ RevokeAfterPasswordChange(r)
    BY DEF Next, Start, Step, Environment, vars, db, history, Login, FindForPassword, RefreshGet,
           LogoutFind, RefreshFind, FindOwner, MarkRevoked, CacheRefreshToken, Reply,
           UpdatePassword, Fail, Expire, Evict
  <2>6. QED BY <2>1, <2>2, <2>3, <2>4, <2>5
<1>3. QED BY <1>1, <1>2, Invariance, PTL DEF Spec, ImplementsLedger, Ledger!Spec

\* A row of refresh_tokens belongs to one user for good, it is never revived,
\* and its rotation keeps the user.
SessionsAreFinal ==
    /\ \A t \in Tokens : owner[t] # NoUser => owner'[t] = owner[t] /\ parent'[t] = parent[t]
    /\ revoked \subseteq revoked'
    /\ \A t \in Tokens :
         owner[t] = NoUser /\ owner'[t] # NoUser /\ parent'[t] # NoToken =>
             owner'[t] = owner[parent'[t]] /\ parent'[t] \in revoked

\* No interleaving of logins, refreshes, logouts and password changes gives a
\* session to another user or brings one back: a consequence of the ledger.
THEOREM SessionsNeverChangeHands == Spec => [][SessionsAreFinal]_vars
<1>1. TypeOK /\ [Ledger!Next]_(Ledger!vars) => [SessionsAreFinal]_vars
  <2> SUFFICES ASSUME TypeOK, [Ledger!Next]_(Ledger!vars) PROVE SessionsAreFinal
    OBVIOUS
  <2> USE NoTokenAssumption DEF TypeOK, SessionsAreFinal
  <2>1. ASSUME NEW t \in Tokens, NEW u \in Users, Ledger!Issue(t, u) PROVE SessionsAreFinal
    BY <2>1 DEF Ledger!Issue
  <2>2. ASSUME NEW t \in Tokens, NEW p \in Tokens, Ledger!Rotate(t, p) PROVE SessionsAreFinal
    BY <2>2 DEF Ledger!Rotate
  <2>3. ASSUME NEW t \in Tokens, Ledger!Retire(t) PROVE SessionsAreFinal
    BY <2>3 DEF Ledger!Retire
  <2>4. ASSUME NEW u \in Users, Ledger!RetireAll(u) PROVE SessionsAreFinal
    BY <2>4 DEF Ledger!RetireAll
  <2>5. CASE UNCHANGED Ledger!vars
    BY <2>5 DEF Ledger!vars
  <2>6. QED BY <2>1, <2>2, <2>3, <2>4, <2>5 DEF Ledger!Next
<1>2. QED BY <1>1, Refinement, TypeCorrect, PTL DEF ImplementsLedger, Ledger!Spec

-----------------------------------------------------------------------------
(* Sessions and password changes *)

\* A session that is not revoked was inserted after the last revocation.
BornNow == \A t \in Tokens : owner[t] # NoUser /\ t \notin revoked => born[t] = cut[owner[t]]

\* A login that no revocation has followed compared the current password,
\* unless a change has written a new one and not revoked yet.
LoginOK(login, u) ==
    /\ login.cut <= cut[u]
    /\ login.cut = cut[u] /\ Settled(u) => login.pw = password[u]

TokenLogins == \A t \in Tokens : owner[t] # NoUser => LoginOK(auth[t], owner[t])
RequestLogin(r) ==
    req[r].pc \in RotatePCs \union IssuePCs /\ req[r].user \in Users =>
        LoginOK(req[r].login, req[r].user)

PInv == BornNow /\ TokenLogins /\ \A r \in Requests : RequestLogin(r)

\* A step that moves neither the counters of u nor makes it settled keeps its
\* logins as they are.
LEMMA LoginKept ==
    ASSUME NEW u \in Users, NEW login \in Logins, LoginOK(login, u),
           cut'[u] = cut[u], password'[u] = password[u], Settled(u)' => Settled(u)
    PROVE  LoginOK(login, u)'
  BY DEF LoginOK

\* Only the request itself changes its record.
LEMMA OwnStep ==
    ASSUME IInv, Next, NEW r \in Requests, req'[r] # req[r]
    PROVE  Start(r) \/ Step(r) \/ Fail(r)
<1>1. ASSUME NEW q \in Requests, Start(q) \/ Step(q) \/ Fail(q) PROVE q = r
  <2>1. \E state : req' = [req EXCEPT ![q] = state]
    BY <1>1 DEF Start, Step, Become, Goto, Finish, Login, FindForPassword, RefreshGet, LogoutFind,
           RefreshFind, FindOwner, InvalidateFamily, RevokeRefreshToken, MarkRevoked,
           CreateRefreshToken, Insert, CacheRefreshToken, Reply, UpdatePassword,
           RevokeAfterPasswordChange, Fail
  <2>2. QED BY <2>1 DEF IInv, TypeOK
<1>2. ~Environment
  BY DEF Environment, Expire, Evict
<1>3. QED BY <1>1, <1>2 DEF Next

\* A user becomes settled only through the revocation of the change itself.
LEMMA SettledStep ==
    ASSUME IInv, Next, NEW u \in Users, Settled(u)', ~Settled(u)
    PROVE  \E r \in Requests : RevokeAfterPasswordChange(r) /\ req[r].user = u
<1> USE DEF IInv, TypeOK, Settled, At
<1>1. lapsed \subseteq lapsed' /\ u \notin lapsed
  BY DEF Next, Start, Step, Environment, db, history, Login, FindForPassword, RefreshGet,
         LogoutFind, RefreshFind, FindOwner, InvalidateFamily, RevokeRefreshToken, MarkRevoked,
         CreateRefreshToken, Insert, CacheRefreshToken, Reply, UpdatePassword,
         RevokeAfterPasswordChange, Fail, Expire, Evict
<1>2. PICK r \in Requests : req[r].user = u /\ req[r].pc = "revokeAll"
  BY <1>1
<1>3. req'[r] # req[r]
  BY <1>2
<1>4. Start(r) \/ Step(r) \/ Fail(r)
  BY <1>3, OwnStep
<1>5. ~Start(r)
  BY <1>2 DEF Start, Login, FindForPassword, RefreshGet, LogoutFind
<1>6. Step(r) => RevokeAfterPasswordChange(r)
  BY <1>2 DEF Step, RefreshFind, FindOwner, InvalidateFamily, RevokeRefreshToken, MarkRevoked,
         CreateRefreshToken, CacheRefreshToken, Reply, UpdatePassword
<1>7. ~Fail(r)
  BY <1>1, <1>2 DEF Fail
<1>8. QED BY <1>2, <1>4, <1>5, <1>6, <1>7

\* What each step does to the counters behind a login.
LEMMA CountersStep ==
    ASSUME IInv, Next, NEW u \in Users, NEW login \in Logins, LoginOK(login, u)
    PROVE  LoginOK(login, u)'
<1> USE DEF IInv, TypeOK, At
<1>1. CASE cut'[u] = cut[u] /\ password'[u] = password[u]
  <2>1. CASE \E r \in Requests : RevokeAfterPasswordChange(r) /\ req[r].user = u
    BY <1>1, <2>1 DEF RevokeAfterPasswordChange
  <2>2. CASE Settled(u)' => Settled(u)
    BY <1>1, <2>2, LoginKept
  <2>3. QED BY <2>1, <2>2, SettledStep
<1>2. ASSUME NEW r \in Requests, RevokeAfterPasswordChange(r), req[r].user = u
      PROVE  LoginOK(login, u)'
  <2>1. cut'[u] = cut[u] + 1
    BY <1>2 DEF RevokeAfterPasswordChange
  <2>2. QED BY <2>1 DEF LoginOK, Logins
<1>3. ASSUME NEW r \in Requests, UpdatePassword(r), req[r].user = u
      PROVE  LoginOK(login, u)'
  <2>1. req'[r].pc = "revokeAll" /\ req'[r].user = u
    BY <1>3 DEF UpdatePassword, Goto, Become, RequestStates
  <2>2. ~Settled(u)' /\ cut' = cut
    BY <1>3, <2>1 DEF UpdatePassword, Settled, history
  <2>3. QED BY <2>2 DEF LoginOK
<1>4. QED
  <2>1. \/ cut' = cut /\ password' = password
        \/ \E r \in Requests : RevokeAfterPasswordChange(r) \/ UpdatePassword(r)
    BY DEF Next, Start, Step, Environment, db, history, Login, FindForPassword, RefreshGet,
         LogoutFind, RefreshFind, FindOwner, InvalidateFamily, RevokeRefreshToken, MarkRevoked,
         CreateRefreshToken, Insert, CacheRefreshToken, Reply, Fail, Expire, Evict
  <2>2. ASSUME NEW r \in Requests, RevokeAfterPasswordChange(r) \/ UpdatePassword(r), req[r].user # u
        PROVE  cut'[u] = cut[u] /\ password'[u] = password[u]
    BY <2>2 DEF RevokeAfterPasswordChange, UpdatePassword, db, history
  <2>3. QED BY <1>1, <1>2, <1>3, <2>1, <2>2

LEMMA BornNowStep == IInv /\ BornNow /\ [Next]_vars => BornNow'
<1> SUFFICES ASSUME IInv, BornNow, [Next]_vars, NEW t \in Tokens,
                    owner'[t] # NoUser, t \notin revoked'
             PROVE  born'[t] = cut'[owner'[t]]
  BY DEF BornNow
<1> USE DEF IInv, TypeOK, At
<1>1. ASSUME NEW r \in Requests, RevokeAfterPasswordChange(r) PROVE born'[t] = cut'[owner'[t]]
  BY <1>1 DEF RevokeAfterPasswordChange, RevokeAllRefreshTokens, OwnedBy, BornNow
<1>2. ASSUME NEW r \in Requests, CreateRefreshToken(r) PROVE born'[t] = cut'[owner'[t]]
  BY <1>2 DEF CreateRefreshToken, Insert, Unused, BornNow, UserKnown, IssuePCs
<1>3. CASE UNCHANGED <<owner, born, cut>> /\ revoked \subseteq revoked'
  BY <1>3 DEF BornNow
<1>4. QED
  BY <1>1, <1>2, <1>3
     DEF Next, Start, Step, Environment, vars, db, history, Login, FindForPassword, RefreshGet,
         LogoutFind, RefreshFind, FindOwner, InvalidateFamily, RevokeAllRefreshTokens,
         RevokeRefreshToken, MarkRevoked, CacheRefreshToken, Reply, UpdatePassword, Fail,
         Expire, Evict

\* A token has its login since it was inserted, by a request that carried it.
LEMMA TokenOrigin ==
    ASSUME IInv, Next, NEW t \in Tokens, owner'[t] # NoUser
    PROVE  \/ owner[t] # NoUser /\ owner'[t] = owner[t] /\ auth'[t] = auth[t]
           \/ \E r \in Requests :
                /\ req[r].pc \in IssuePCs /\ req[r].user \in Users /\ req[r].login \in Logins
                /\ owner'[t] = req[r].user /\ auth'[t] = req[r].login
<1> USE DEF IInv, TypeOK, At
<1>1. ASSUME NEW r \in Requests, NEW s \in Unused, At(r, "insert"), Insert(r, s)
      PROVE  \/ owner[t] # NoUser /\ owner'[t] = owner[t] /\ auth'[t] = auth[t]
             \/ /\ req[r].pc \in IssuePCs /\ req[r].user \in Users /\ req[r].login \in Logins
                /\ owner'[t] = req[r].user /\ auth'[t] = req[r].login
  <2>1. req[r].pc \in IssuePCs /\ req[r].user \in Users /\ req[r].login \in Logins
    BY <1>1 DEF UserKnown, IssuePCs, RequestStates
  <2>2. CASE t = s
    BY <1>1, <2>1, <2>2 DEF Insert
  <2>3. CASE t # s
    BY <1>1, <2>3 DEF Insert
  <2>4. QED BY <2>2, <2>3
<1>2. CASE UNCHANGED <<owner, auth>>
  BY <1>2
<1>3. QED
  BY <1>1, <1>2
     DEF Next, Start, Step, Environment, db, history, Login, FindForPassword, RefreshGet,
         LogoutFind, RefreshFind, FindOwner, InvalidateFamily, RevokeRefreshToken,
         MarkRevoked, CreateRefreshToken, CacheRefreshToken, Reply, UpdatePassword,
         RevokeAfterPasswordChange, Fail, Expire, Evict

\* A request on its way to issue a token carries a login of its own, or that of
\* the live token which was presented to it.
Issuing(r) == req[r].pc \in RotatePCs \union IssuePCs /\ req[r].user \in Users

LEMMA RequestOrigin ==
    ASSUME IInv, Next, NEW r \in Requests, Issuing(r)'
    PROVE  \/ Issuing(r) /\ req'[r].login = req[r].login /\ req'[r].user = req[r].user
           \/ req'[r].login = CurrentLogin(req'[r].user)
           \/ \E t \in Tokens : Live(t) /\ req'[r].login = auth[t] /\ req'[r].user = owner[t]
<1> USE DEF IInv, TypeOK, At
<1>0. req'[r].pc \in RotatePCs \union IssuePCs /\ req'[r].user \in Users
  BY DEF Issuing
<1>1. CASE /\ req[r].pc \in RotatePCs \union IssuePCs
           /\ req'[r].login = req[r].login /\ req'[r].user = req[r].user
  BY <1>0, <1>1 DEF Issuing
<1>2. ASSUME NEW u \in Users, Login(r, u) PROVE req'[r].login = CurrentLogin(req'[r].user)
  BY <1>2 DEF Login, Become, Idle, RequestStates
<1>3. CASE RefreshFind(r) /\ Live(req[r].tok)
  <2> DEFINE t == req[r].tok
  <2>1. t \in Tokens
    BY <1>3 DEF RefreshFind, TokenKnown, RefreshPCs, Live, RequestStates
  <2>2. req'[r].login = auth[t] /\ req'[r].user = owner[t]
    <3>1. req'[r] = [req[r] EXCEPT !.pc = "revoke", !.user = owner[t], !.login = auth[t]]
      BY <1>3 DEF RefreshFind, Become
    <3>2. req[r] \in RequestStates
      OBVIOUS
    <3>3. QED BY <3>1, <3>2 DEF RequestStates
  <2>3. QED BY <1>3, <2>1, <2>2
<1>4. ASSUME Step(r), ~RefreshFind(r)
      PROVE  /\ req[r].pc \in RotatePCs \union IssuePCs
             /\ req'[r].login = req[r].login /\ req'[r].user = req[r].user
  <2> USE DEF Become, Goto, Finish, Idle, RotatePCs, IssuePCs, RequestStates
  <2>1. req[r] \in RequestStates
    OBVIOUS
  <2>2. CASE RevokeRefreshToken(r) \/ MarkRevoked(r)
    BY <1>0, <2>1, <2>2 DEF RevokeRefreshToken, MarkRevoked
  <2>3. ASSUME NEW t \in Tokens, Insert(r, t), At(r, "insert")
        PROVE  /\ req[r].pc \in RotatePCs \union IssuePCs
               /\ req'[r].login = req[r].login /\ req'[r].user = req[r].user
    BY <2>1, <2>3 DEF Insert
  <2>4. CASE CacheRefreshToken(r)
    BY <2>1, <2>4 DEF CacheRefreshToken
  <2>5. ~(Reply(r) \/ InvalidateFamily(r) \/ RevokeAfterPasswordChange(r))
    BY <1>0 DEF Reply, InvalidateFamily, RevokeAfterPasswordChange
  <2>6. ~FindOwner(r)
    <3> SUFFICES ASSUME FindOwner(r) PROVE FALSE
      OBVIOUS
    <3>1. req'[r] = [req[r] EXCEPT !.pc = "invalidate", !.user = owner[req[r].tok]]
      BY DEF FindOwner
    <3>2. req'[r].pc = "invalidate"
      BY <2>1, <3>1
    <3>3. QED BY <1>0, <3>2
  <2>7. ~UpdatePassword(r)
    BY <1>0, <2>1 DEF UpdatePassword
  <2>8. QED BY <1>4, <2>2, <2>3, <2>4, <2>5, <2>6, <2>7 DEF Step, CreateRefreshToken, Unused
<1>5. ~(RefreshFind(r) /\ ~Live(req[r].tok))
  BY <1>0 DEF RefreshFind, Goto, Become, RotatePCs, IssuePCs, RequestStates
<1>6. ASSUME Start(r), \A u \in Users : ~Login(r, u) PROVE FALSE
  <2> USE DEF Become, Idle, RotatePCs, IssuePCs
  <2>1. ASSUME NEW u \in Users, FindForPassword(r, u) PROVE FALSE
    BY <1>0, <2>1 DEF FindForPassword
  <2>2. ASSUME NEW t \in Tokens, RefreshGet(r, t) PROVE FALSE
    BY <1>0, <2>2 DEF RefreshGet
  <2>3. ASSUME NEW t \in Tokens, LogoutFind(r, t) PROVE FALSE
    BY <1>0, <2>3 DEF LogoutFind
  <2>4. QED BY <1>6, <2>1, <2>2, <2>3 DEF Start
<1>7. ~Fail(r)
  BY <1>0 DEF Fail, Finish, Become, Idle, RotatePCs, IssuePCs
<1>8. CASE req'[r] = req[r]
  BY <1>0, <1>1, <1>8
<1>9. QED BY <1>1, <1>2, <1>3, <1>4, <1>5, <1>6, <1>7, <1>8, OwnStep

\* Whoever carries a login after a step had it from one that was right before.
LEMMA LoginsStep == IInv /\ PInv /\ Next => TokenLogins' /\ \A r \in Requests : RequestLogin(r)'
<1> SUFFICES ASSUME IInv, PInv, Next PROVE TokenLogins' /\ \A r \in Requests : RequestLogin(r)'
  OBVIOUS
<1> USE DEF IInv, TypeOK, PInv
<1>1. ASSUME NEW t \in Tokens, owner'[t] # NoUser PROVE LoginOK(auth[t], owner[t])'
  <2>1. PICK login \in Logins, u \in Users :
          login = auth'[t] /\ u = owner'[t] /\ LoginOK(login, u)
    BY <1>1, TokenOrigin DEF TokenLogins, RequestLogin
  <2>2. LoginOK(login, u)'
    BY <2>1, CountersStep
  <2>3. QED BY <2>1, <2>2 DEF LoginOK, Settled
<1>2. ASSUME NEW r \in Requests, Issuing(r)' PROVE LoginOK(req[r].login, req[r].user)'
  <2>1. PICK login \in Logins, u \in Users :
          login = req'[r].login /\ u = req'[r].user /\ LoginOK(login, u)
    <3>1. \A u \in Users : CurrentLogin(u) \in Logins /\ LoginOK(CurrentLogin(u), u)
      BY DEF CurrentLogin, Logins, LoginOK
    <3>2. \A t \in Tokens : Live(t) => auth[t] \in Logins /\ LoginOK(auth[t], owner[t])
      BY DEF TokenLogins, Live
    <3>3. Issuing(r) => req[r].login \in Logins /\ LoginOK(req[r].login, req[r].user)
      BY DEF Issuing, RequestLogin, RequestStates
    <3>4. req'[r].user \in Users
      BY <1>2 DEF Issuing
    <3>5. QED BY <1>2, <3>1, <3>2, <3>3, <3>4, RequestOrigin
  <2>2. LoginOK(login, u)'
    BY <2>1, CountersStep
  <2>3. QED BY <2>1, <2>2 DEF LoginOK, Settled
<1>3. QED BY <1>1, <1>2 DEF TokenLogins, RequestLogin, Issuing

\* A session older than its user's password is the trace of a race, or of a
\* change that failed to revoke: revocation leaves none behind, and no login
\* after it is stale.
THEOREM PasswordChangesEndSessions == Spec => []StaleOnlyIfRaced
<1>1. Init => PInv
  BY DEF Init, PInv, BornNow, TokenLogins, RequestLogin, Idle, RotatePCs, IssuePCs
<1>2. IInv /\ PInv /\ [Next]_vars => PInv'
  <2>1. IInv /\ PInv /\ UNCHANGED vars => PInv'
    BY DEF PInv, BornNow, TokenLogins, RequestLogin, LoginOK, Settled, At, vars, db, history
  <2>2. QED BY <2>1, BornNowStep, LoginsStep DEF PInv
<1>3. IInv /\ PInv => StaleOnlyIfRaced
  <2> SUFFICES ASSUME IInv, PInv, NEW t \in Tokens, Stale(t), Settled(owner[t])
               PROVE  auth[t].cut < cut[owner[t]] /\ born[t] = cut[owner[t]]
    BY DEF StaleOnlyIfRaced
  <2>1. owner[t] \in Users /\ t \notin revoked /\ auth[t] \in Logins
    BY DEF Stale, Live, IInv, TypeOK
  <2>2. LoginOK(auth[t], owner[t]) /\ born[t] = cut[owner[t]]
    BY <2>1 DEF PInv, TokenLogins, BornNow
  <2>3. auth[t].cut # cut[owner[t]]
    BY <2>1, <2>2 DEF LoginOK, Stale, IInv, TypeOK, Logins
  <2>4. auth[t].cut <= cut[owner[t]] /\ auth[t].cut \in Nat /\ cut[owner[t]] \in Nat
    BY <2>1, <2>2 DEF LoginOK, IInv, TypeOK, Logins
  <2>5. QED BY <2>2, <2>3, <2>4
<1>4. QED BY <1>1, <1>2, <1>3, Invariance, PTL DEF Spec

-----------------------------------------------------------------------------
(* When the comment of ChangePassword, that existing sessions are revoked,   *)
(* does hold.                                                                *)

\* No session of the user is being issued at the moment of a revocation.
RevocationsUnraced ==
    [][\A r, s \in Requests :
        RevokeAfterPasswordChange(r) => ~(Issuing(s) /\ req[s].user = req[r].user)]_vars

\* Then every login that counts is later than the last revocation.
LoginsCurrent ==
    /\ \A t \in Tokens : owner[t] # NoUser /\ t \notin revoked => auth[t].cut = cut[owner[t]]
    /\ \A r \in Requests : Issuing(r) => req[r].login.cut = cut[req[r].user]

LEMMA LoginsCurrentStep ==
    ASSUME IInv, LoginsCurrent, Next,
           \A r, s \in Requests :
             RevokeAfterPasswordChange(r) => ~(Issuing(s) /\ req[s].user = req[r].user)
    PROVE  LoginsCurrent'
<1> USE DEF IInv, TypeOK, At
<1>1. ASSUME NEW r \in Requests, RevokeAfterPasswordChange(r) PROVE LoginsCurrent'
  <2>1. PICK u \in Users : /\ u = req[r].user /\ revoked' = revoked \union OwnedBy(u)
                           /\ cut' = [cut EXCEPT ![u] = @ + 1]
                           /\ UNCHANGED <<owner, auth>>
    BY <1>1 DEF RevokeAfterPasswordChange, RevokeAllRefreshTokens, UserKnown, PasswordPCs
  <2>2. ASSUME NEW t \in Tokens, owner'[t] # NoUser, t \notin revoked'
        PROVE  auth'[t].cut = cut'[owner'[t]]
    BY <2>1, <2>2 DEF LoginsCurrent, OwnedBy
  <2>3. ASSUME NEW s \in Requests, Issuing(s)' PROVE req'[s].login.cut = cut'[req'[s].user]
    <3>1. s # r
      BY <1>1, <2>3 DEF RevokeAfterPasswordChange, Finish, Become, Idle, Issuing, RotatePCs, IssuePCs
    <3>2. req'[s] = req[s] /\ Issuing(s)
      BY <1>1, <2>3, <3>1 DEF RevokeAfterPasswordChange, Finish, Become, Issuing
    <3>3. req[s].user \in Users /\ req[s].user # u
      BY <1>1, <2>1, <3>2 DEF Issuing
    <3>4. QED BY <2>1, <3>2, <3>3 DEF LoginsCurrent
  <2>4. QED BY <2>2, <2>3 DEF LoginsCurrent
<1>2. ASSUME cut' = cut, revoked \subseteq revoked' PROVE LoginsCurrent'
  <2>1. ASSUME NEW t \in Tokens, owner'[t] # NoUser, t \notin revoked'
        PROVE  auth'[t].cut = cut'[owner'[t]]
    BY <1>2, <2>1, TokenOrigin DEF LoginsCurrent, Issuing
  <2>2. ASSUME NEW r \in Requests, Issuing(r)' PROVE req'[r].login.cut = cut'[req'[r].user]
    <3>1. CASE req'[r].login = CurrentLogin(req'[r].user)
      BY <1>2, <3>1 DEF CurrentLogin
    <3>2. CASE Issuing(r) /\ req'[r].login = req[r].login /\ req'[r].user = req[r].user
      BY <1>2, <3>2 DEF LoginsCurrent
    <3>3. CASE \E t \in Tokens : Live(t) /\ req'[r].login = auth[t] /\ req'[r].user = owner[t]
      BY <1>2, <3>3 DEF LoginsCurrent, Live
    <3>4. QED BY <2>2, <3>1, <3>2, <3>3, RequestOrigin
  <2>3. QED BY <2>1, <2>2 DEF LoginsCurrent
<1>3. QED
  BY <1>1, <1>2
     DEF Next, Start, Step, Environment, db, history, Login, FindForPassword, RefreshGet,
         LogoutFind, RefreshFind, FindOwner, InvalidateFamily, RevokeAllRefreshTokens,
         RevokeRefreshToken, MarkRevoked, CreateRefreshToken, Insert, CacheRefreshToken, Reply,
         UpdatePassword, Fail, Expire, Evict

\* An issuing that spans the revocation is the only way for an old login to
\* survive: were none under way then, every live session of a settled user
\* would have begun with the current password, whatever else interleaves.
THEOREM UnracedRevocationsEndSessions ==
    Spec /\ RevocationsUnraced => []SessionsEndWithPassword
<1> DEFINE Unraced == \A r, s \in Requests :
             RevokeAfterPasswordChange(r) => ~(Issuing(s) /\ req[s].user = req[r].user)
<1>1. Init => LoginsCurrent
  BY DEF Init, LoginsCurrent, Issuing, Idle, RotatePCs, IssuePCs
<1>2. IInv /\ LoginsCurrent /\ [Next]_vars /\ [Unraced]_vars => LoginsCurrent'
  <2>1. LoginsCurrent /\ UNCHANGED vars => LoginsCurrent'
    BY DEF LoginsCurrent, Issuing, vars, db, history
  <2>2. QED BY <2>1, LoginsCurrentStep
<1>3. IInv /\ LoginsCurrent /\ StaleOnlyIfRaced => SessionsEndWithPassword
  <2> SUFFICES ASSUME IInv, LoginsCurrent, StaleOnlyIfRaced,
                      NEW t \in Tokens, Stale(t), Settled(owner[t])
               PROVE  FALSE
    BY DEF SessionsEndWithPassword
  <2>1. owner[t] \in Users /\ auth[t].cut = cut[owner[t]] /\ cut[owner[t]] \in Nat
    BY DEF Stale, Live, LoginsCurrent, IInv, TypeOK
  <2>2. auth[t].cut < cut[owner[t]]
    BY DEF StaleOnlyIfRaced
  <2>3. QED BY <2>1, <2>2
<1>4. QED
  BY <1>1, <1>2, <1>3, Invariance, PasswordChangesEndSessions, PTL DEF Spec, RevocationsUnraced

\* In particular with one request at a time, faults included.
THEOREM SequentialSessionsEnd ==
    ASSUME \A r, s \in Requests : r = s
    PROVE  Spec => []SessionsEndWithPassword
<1>1. \A r, s \in Requests :
        RevokeAfterPasswordChange(r) => ~(Issuing(s) /\ req[s].user = req[r].user)
  <2> SUFFICES ASSUME NEW r \in Requests, RevokeAfterPasswordChange(r) PROVE ~Issuing(r)
    OBVIOUS
  <2>1. QED BY DEF RevokeAfterPasswordChange, At, Issuing, RotatePCs, IssuePCs
<1>2. QED BY <1>1, UnracedRevocationsEndSessions, PTL DEF RevocationsUnraced
=============================================================================
