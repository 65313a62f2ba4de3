--------------------------- MODULE SessionLedger ---------------------------
(***************************************************************************)
(* What the session store promises its callers, with no request, cache or  *)
(* password in sight: every refresh token is issued once and to one user,  *)
(* a dead token never lives again, a token is replaced by another one only *)
(* after it died and only for the same user, and tokens die either one at  *)
(* a time or all those of one user at once.                                *)
(***************************************************************************)
CONSTANTS Users, Tokens, NoUser, NoToken

VARIABLES
    holder,     \* holder[t]: the user t was issued to, NoUser before that
    dead,       \* the tokens that no longer open a session
    parent      \* parent[t]: the token t replaced, NoToken after a login

vars == <<holder, dead, parent>>

HeldBy(u) == {t \in Tokens : holder[t] = u}

Init ==
    /\ holder = [t \in Tokens |-> NoUser]
    /\ dead = {}
    /\ parent = [t \in Tokens |-> NoToken]

\* A login gives u a new token.
Issue(t, u) ==
    /\ holder[t] = NoUser
    /\ holder' = [holder EXCEPT ![t] = u]
    /\ parent' = [parent EXCEPT ![t] = NoToken]
    /\ UNCHANGED dead

\* A refresh replaces the dead token p by t, for the user p belonged to.
Rotate(t, p) ==
    /\ holder[t] = NoUser
    /\ holder[p] # NoUser
    /\ p \in dead
    /\ holder' = [holder EXCEPT ![t] = holder[p]]
    /\ parent' = [parent EXCEPT ![t] = p]
    /\ UNCHANGED dead

\* A refresh or a logout ends one token.
Retire(t) ==
    /\ holder[t] # NoUser
    /\ dead' = dead \union {t}
    /\ UNCHANGED <<holder, parent>>

\* A password change, or reuse of a token, ends all the tokens of a user.
RetireAll(u) ==
    /\ dead' = dead \union HeldBy(u)
    /\ UNCHANGED <<holder, parent>>

Next ==
    \/ \E t \in Tokens, u \in Users : Issue(t, u)
    \/ \E t, p \in Tokens : Rotate(t, p)
    \/ \E t \in Tokens : Retire(t)
    \/ \E u \in Users : RetireAll(u)

Spec == Init /\ [][Next]_vars
=============================================================================
