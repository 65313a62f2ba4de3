--------------------------- MODULE AccountTokens ---------------------------
(***************************************************************************)
(* The links of AuthService: the verification token and the password-reset *)
(* token of a users row, which Signup, ResendVerification and              *)
(* ForgotPassword write and mail, and VerifyEmail and ResetPassword look   *)
(* up and use.  A link is used in two steps, a SELECT by token and, after  *)
(* hashing a password, an UPDATE by user id that asks about no token.      *)
(*                                                                         *)
(* Both columns have the same life, so that one set of actions is written  *)
(* for the two kinds of link.  What ResetPassword does to sessions is in   *)
(* module Sessions, the organization that Signup creates in Organizations. *)
(*                                                                         *)
(* An operator marked "Faulty" is a plausible bug in the one after it; it  *)
(* serves to test the properties, and no specification uses it.            *)
(***************************************************************************)
EXTENDS Naturals

CONSTANTS
    Users, Tokens, Requests,
    NoUser, NoToken,
    Faults          \* may store calls and mails fail, and requests be cut short?

ASSUME NoUserAssumption == NoUser \notin Users
ASSUME NoTokenAssumption == NoToken \notin Tokens
ASSUME FaultsAssumption == Faults \in BOOLEAN

Kinds == {"verify", "reset"}

VARIABLES
    account,    \* users rows: "none", "unverified" or "verified"
    token,      \* token[k][u]: the column email_verify_token or password_reset_token
    expired,    \* the tokens whose expires_at has passed
    received,   \* the tokens that reached their user by mail
    req,        \* the state of every request
    \* History, read by the properties alone:
    owner,      \* owner[t]: for whom t was generated; NoUser: nobody has seen it
    mail,       \* mail[k][u]: the token of the last such mail that u received
    used,       \* the tokens that were used, or given up by a password change
    blurred     \* blurred[k]: the users with a lost mail of kind k, or one that raced
                \* with another request about the same link

vars == <<account, token, expired, received, req, owner, mail, used, blurred>>

\* Where a request is: about to write a fresh token, to mail it, or to use one.
PCs == {"idle", "set", "send", "use"}
RequestStates ==
    [pc : PCs, kind : Kinds, user : Users \union {NoUser}, tok : Tokens \union {NoToken}]
Idle == [pc |-> "idle", kind |-> "verify", user |-> NoUser, tok |-> NoToken]

TypeOK ==
    /\ account \in [Users -> {"none", "unverified", "verified"}]
    /\ token \in [Kinds -> [Users -> Tokens \union {NoToken}]]
    /\ expired \subseteq Tokens
    /\ received \subseteq Tokens
    /\ req \in [Requests -> RequestStates]
    /\ owner \in [Tokens -> Users \union {NoUser}]
    /\ mail \in [Kinds -> [Users -> Tokens \union {NoToken}]]
    /\ used \subseteq Tokens
    /\ blurred \in [Kinds -> SUBSET Users]

NoTokens == [k \in Kinds |-> [u \in Users |-> NoToken]]
Init ==
    /\ account = [u \in Users |-> "none"]
    /\ token = NoTokens
    /\ expired = {}
    /\ received = {}
    /\ req = [r \in Requests |-> Idle]
    /\ owner = [t \in Tokens |-> NoUser]
    /\ mail = NoTokens
    /\ used = {}
    /\ blurred = [k \in Kinds |-> {}]

-----------------------------------------------------------------------------
At(r, pc) == req[r].pc = pc
Become(r, state) == req' = [req EXCEPT ![r] = state]
Finish(r) == Become(r, Idle)
Fresh == {t \in Tokens : owner[t] = NoUser}

\* Whether another request is about the same link.
Rivals(k, u) == {s \in Requests : ~At(s, "idle") /\ req[s].kind = k /\ req[s].user = u}
Contested(r) == Rivals(req[r].kind, req[r].user) # {r}
Blur(k, u) == blurred' = [blurred EXCEPT ![k] = @ \union {u}]
BlurIfContested(r) ==
    IF Contested(r) THEN Blur(req[r].kind, req[r].user) ELSE UNCHANGED blurred

\* The query behind a link: the row that holds the token, if it has not expired.
HeldBy(k, u, t) == token[k][u] = t /\ t \notin expired

\* Signup: CreateWithOrg inserts the row together with its first token.
Signup(r, u, t) ==
    /\ At(r, "idle")
    /\ account[u] = "none"
    /\ t \in Fresh
    /\ account' = [account EXCEPT ![u] = "unverified"]
    /\ token' = [token EXCEPT !["verify"][u] = t]
    /\ owner' = [owner EXCEPT ![t] = u]
    /\ Become(r, [pc |-> "send", kind |-> "verify", user |-> u, tok |-> t])
    /\ UNCHANGED <<expired, received, mail, used, blurred>>

\* ResendVerification and ForgotPassword look for the address; without an
\* account, or when it is verified already, they succeed silently.
StartResend(r, u) ==
    /\ At(r, "idle")
    /\ account[u] = "unverified"
    /\ Become(r, [pc |-> "set", kind |-> "verify", user |-> u, tok |-> NoToken])
    /\ UNCHANGED <<account, token, expired, received, owner, mail, used, blurred>>

StartForgot(r, u) ==
    /\ At(r, "idle")
    /\ account[u] # "none"
    /\ Become(r, [pc |-> "set", kind |-> "reset", user |-> u, tok |-> NoToken])
    /\ UNCHANGED <<account, token, expired, received, owner, mail, used, blurred>>

\* Faulty: the row keeps the token it has.
KeepOldToken(r) ==
    /\ At(r, "set")
    /\ \E t \in Fresh :
        /\ owner' = [owner EXCEPT ![t] = req[r].user]
        /\ Become(r, [req[r] EXCEPT !.pc = "send", !.tok = t])
    /\ blurred' = [blurred EXCEPT ![req[r].kind] =
                     IF Contested(r) THEN @ \union {req[r].user} ELSE @ \ {req[r].user}]
    /\ UNCHANGED <<account, token, expired, received, mail, used>>

\* SetEmailVerifyToken and SetPasswordResetToken replace the token.
SetToken(r) ==
    /\ At(r, "set")
    /\ \E t \in Fresh :
        /\ owner' = [owner EXCEPT ![t] = req[r].user]
        /\ token' = [token EXCEPT ![req[r].kind][req[r].user] = t]
        /\ Become(r, [req[r] EXCEPT !.pc = "send", !.tok = t])
    /\ blurred' = [blurred EXCEPT ![req[r].kind] =
                     IF Contested(r) THEN @ \union {req[r].user} ELSE @ \ {req[r].user}]
    /\ UNCHANGED <<account, expired, received, mail, used>>

\* The mail is sent; nobody looks whether its token is still the current one.
SendMail(r) ==
    /\ At(r, "send")
    /\ received' = received \union {req[r].tok}
    /\ mail' = [mail EXCEPT ![req[r].kind][req[r].user] = req[r].tok]
    /\ BlurIfContested(r)
    /\ Finish(r)
    /\ UNCHANGED <<account, token, expired, owner, used>>

\* VerifyEmail and ResetPassword find the user by the token of a mail.
StartUse(r, k, u, t) ==
    /\ At(r, "idle")
    /\ t \in received
    /\ HeldBy(k, u, t)
    /\ Become(r, [pc |-> "use", kind |-> k, user |-> u, tok |-> t])
    /\ UNCHANGED <<account, token, expired, received, owner, mail, used, blurred>>

\* Faulty: the token stays in the row.
UseAndKeep(r) ==
    /\ At(r, "use")
    /\ account' = [account EXCEPT ![req[r].user] = IF req[r].kind = "verify" THEN "verified" ELSE @]
    /\ used' = used \union {req[r].tok}
    /\ BlurIfContested(r)
    /\ Finish(r)
    /\ UNCHANGED <<token, expired, received, owner, mail>>

\* MarkEmailVerified or UpdatePassword, by user id: the row's token goes,
\* whichever it is by now.
Use(r) ==
    /\ At(r, "use")
    /\ account' = [account EXCEPT ![req[r].user] = IF req[r].kind = "verify" THEN "verified" ELSE @]
    /\ token' = [token EXCEPT ![req[r].kind][req[r].user] = NoToken]
    /\ used' = used \union {req[r].tok}
    /\ BlurIfContested(r)
    /\ Finish(r)
    /\ UNCHANGED <<expired, received, owner, mail>>

\* ChangePassword, of a user who has logged in, clears the reset token as well.
ChangePassword(u) ==
    /\ account[u] = "verified"
    /\ token["reset"][u] # NoToken
    /\ used' = used \union {token["reset"][u]}
    /\ token' = [token EXCEPT !["reset"][u] = NoToken]
    /\ IF Rivals("reset", u) # {} THEN Blur("reset", u) ELSE UNCHANGED blurred
    /\ UNCHANGED <<account, expired, received, req, owner, mail>>

\* An hour passes, or a day.
Expire(t) ==
    /\ owner[t] # NoUser
    /\ expired' = expired \union {t}
    /\ UNCHANGED <<account, token, received, req, owner, mail, used, blurred>>

\* A store call or the mail server fails, the client goes away or the server
\* crashes; the mail may have gone out nevertheless.  The bound on Tokens is
\* reached here as well.
Fail(r) ==
    /\ Faults \/ (At(r, "set") /\ Fresh = {})
    /\ ~At(r, "idle")
    /\ \/ At(r, "send") /\ received' = received \union {req[r].tok}
       \/ UNCHANGED received
    /\ Blur(req[r].kind, req[r].user)
    /\ Finish(r)
    /\ UNCHANGED <<account, token, expired, owner, mail, used>>

Next ==
    \/ \E r \in Requests, u \in Users : StartResend(r, u) \/ StartForgot(r, u)
    \/ \E r \in Requests, u \in Users, t \in Tokens :
        Signup(r, u, t) \/ \E k \in Kinds : StartUse(r, k, u, t)
    \/ \E r \in Requests : SetToken(r) \/ SendMail(r) \/ Use(r) \/ Fail(r)
    \/ \E u \in Users : ChangePassword(u)
    \/ \E t \in Tokens : Expire(t)

Spec == Init /\ [][Next]_vars

-----------------------------------------------------------------------------
(* Properties *)

\* A link works once: after its UPDATE, or after the password was changed in
\* another way, no request finds it any more.  Only requests that had found it
\* before can still use it again.
UsedIsNeverFound ==
    [][\A r \in Requests : At(r, "idle") /\ At(r, "use")' => req[r]'.tok \notin used]_vars

\* The link of the last mail works until it is used, unless a mail was lost or
\* two requests about that link raced: then the newest mail may carry a token
\* that was replaced, or an older link may take the new token with it.
LastMailWorks ==
    \A k \in Kinds, u \in Users :
        \/ mail[k][u] \in used \union {NoToken, token[k][u]}
        \/ Rivals(k, u) # {} \/ u \in blurred[k]
=============================================================================
