---------------------------- MODULE RateLimiter ----------------------------
(***************************************************************************)
(* middleware.RateLimiter and cache.Client.Incr: a fixed-window counter in *)
(* Redis for one path and one client address; other keys are disjoint.     *)
(* Incr sends INCR and EXPIRE NX in one pipeline, which is not a           *)
(* transaction: Redis executes the two commands one after the other, other *)
(* connections may come in between, and a broken connection may leave the  *)
(* second one out.  The client library sends a pipeline again when its     *)
(* connection broke, so that one request may be counted more than once.    *)
(* What Redis still executes of a broken pipeline, it executes before the  *)
(* next one.  Time is discrete: a window lasts Window ticks.               *)
(*                                                                         *)
(* An operator marked "Faulty" is a plausible bug in the one after it; it  *)
(* serves to test the properties, and no specification uses it.            *)
(***************************************************************************)
EXTENDS Naturals, FiniteSets

CONSTANTS
    Requests,       \* each stands for one HTTP request
    Limit, Window,
    MaxRetries,     \* how often go-redis sends a broken pipeline again (3 by default)
    Faults          \* may the connection to Redis break, and Redis lose the key?

ASSUME LimitAssumption == Limit \in Nat /\ Window \in Nat \ {0}
ASSUME RetriesAssumption == MaxRetries \in Nat
ASSUME FaultsAssumption == Faults \in BOOLEAN

NoTTL == Window + 1

VARIABLES
    count,      \* the counter; 0: the key does not exist
    ttl,        \* the ticks it has left, or NoTTL
    pc,         \* where each request is
    try,        \* try[r]: how often its pipeline was sent again
    seen,       \* seen[r]: what its last INCR returned
    \* History, read by the properties alone:
    window,     \* <<r, n>>: the n-th try of r was counted since the key was created
    mishap      \* has the key lost its EXPIRE to a broken connection?

vars == <<count, ttl, pc, try, seen, window, mishap>>

PCs == {"new", "incr", "expire", "decide", "admitted", "rejected", "failedOpen"}

TypeOK ==
    /\ count \in Nat
    /\ ttl \in 1..NoTTL
    /\ pc \in [Requests -> PCs]
    /\ try \in [Requests -> 0..MaxRetries]
    /\ seen \in [Requests -> Nat]
    /\ window \subseteq Requests \X (0..MaxRetries)
    /\ mishap \in BOOLEAN

Init ==
    /\ count = 0
    /\ ttl = NoTTL
    /\ pc = [r \in Requests |-> "new"]
    /\ try = [r \in Requests |-> 0]
    /\ seen = [r \in Requests |-> 0]
    /\ window = {}
    /\ mishap = FALSE

Goto(r, l) == pc' = [pc EXCEPT ![r] = l]

-----------------------------------------------------------------------------
Arrive(r) ==
    /\ pc[r] = "new"
    /\ Goto(r, "incr")
    /\ UNCHANGED <<count, ttl, try, seen, window, mishap>>

\* INCR creates the key, without a TTL, or counts on.
Incr(r) ==
    /\ pc[r] = "incr"
    /\ count' = count + 1
    /\ seen' = [seen EXCEPT ![r] = count + 1]
    /\ window' = window \union {<<r, try[r]>>}
    /\ Goto(r, "expire")
    /\ UNCHANGED <<ttl, try, mishap>>

\* Faulty: EXPIRE without NX.
ExpireAlways(r) ==
    /\ pc[r] = "expire"
    /\ count > 0
    /\ ttl' = Window
    /\ mishap' = FALSE
    /\ Goto(r, "decide")
    /\ UNCHANGED <<count, try, seen, window>>

\* Faulty: INCR alone.
SkipExpire(r) ==
    /\ pc[r] = "expire"
    /\ Goto(r, "decide")
    /\ UNCHANGED <<count, ttl, try, seen, window, mishap>>

\* EXPIRE NX sets the TTL of a key that has none.
ExpireNX(r) ==
    /\ pc[r] = "expire"
    /\ IF count > 0 /\ ttl = NoTTL THEN ttl' = Window /\ mishap' = FALSE
                                   ELSE UNCHANGED <<ttl, mishap>>
    /\ Goto(r, "decide")
    /\ UNCHANGED <<count, try, seen, window>>

\* Faulty: one more is let in.
AdmitOneMore(r) ==
    /\ pc[r] = "decide"
    /\ Goto(r, IF seen[r] > Limit + 1 THEN "rejected" ELSE "admitted")
    /\ UNCHANGED <<count, ttl, try, seen, window, mishap>>

\* Faulty: the limit itself is refused.
RejectAtLimit(r) ==
    /\ pc[r] = "decide"
    /\ Goto(r, IF seen[r] >= Limit THEN "rejected" ELSE "admitted")
    /\ UNCHANGED <<count, ttl, try, seen, window, mishap>>

\* The handler runs, or the answer is 429.
Decide(r) ==
    /\ pc[r] = "decide"
    /\ Goto(r, IF seen[r] > Limit THEN "rejected" ELSE "admitted")
    /\ UNCHANGED <<count, ttl, try, seen, window, mishap>>

\* The connection breaks before INCR, between the commands or before the reply.
Break(r) ==
    /\ Faults
    /\ pc[r] \in {"incr", "expire", "decide"}
    /\ mishap' = (mishap \/ (pc[r] = "expire" /\ ttl = NoTTL /\ count > 0))
    /\ UNCHANGED <<count, ttl, seen, window>>

\* go-redis sends the whole pipeline again, whether it was executed or not ...
Resend(r) ==
    /\ Break(r)
    /\ try[r] < MaxRetries
    /\ try' = [try EXCEPT ![r] = @ + 1]
    /\ Goto(r, "incr")

\* ... or gives up, at once if the client has left: Incr returns an error and
\* the request is let through.
FailOpen(r) ==
    /\ Break(r)
    /\ Goto(r, "failedOpen")
    /\ UNCHANGED try

-----------------------------------------------------------------------------
RemoveKey == count' = 0 /\ ttl' = NoTTL /\ window' = {} /\ mishap' = FALSE

\* A tick passes for a key with a TTL.
Tick ==
    /\ ttl # NoTTL
    /\ IF ttl = 1 THEN RemoveKey ELSE ttl' = ttl - 1 /\ UNCHANGED <<count, window, mishap>>
    /\ UNCHANGED <<pc, try, seen>>

\* Redis restarts or evicts the key.
LoseKey ==
    /\ Faults
    /\ count > 0
    /\ RemoveKey
    /\ UNCHANGED <<pc, try, seen>>

Step(r) == Incr(r) \/ ExpireNX(r) \/ Decide(r) \/ Resend(r) \/ FailOpen(r)

Next ==
    \/ \E r \in Requests : Arrive(r) \/ Step(r)
    \/ Tick \/ LoseKey

Spec == Init /\ [][Next]_vars

\* A request that has arrived is served, and time passes.
FairSpec == Spec /\ \A r \in Requests : WF_vars(Step(r)) /\ WF_vars(Tick)

-----------------------------------------------------------------------------
(* Properties *)

\* The requests whose answer came from this window.
Answered(r) == <<r, try[r]>> \in window
Counted == {w[1] : w \in window}

\* Of the requests counted in one window at most Limit are let through by the
\* counter, however their commands interleave and whichever are sent again.
LimitHolds == Cardinality({r \in Requests : Answered(r) /\ pc[r] = "admitted"}) <= Limit

\* Nobody is turned away by fewer requests than the limit allows, unless one of
\* them was sent again and counted twice, and then the limit shrinks by the
\* number of tries at most.
RejectedIsDeserved ==
    \A r \in Requests : Answered(r) /\ pc[r] = "rejected" =>
        /\ Cardinality(Counted) > Limit \/ \E w \in window : w[2] > 0
        /\ Cardinality(Counted) * (MaxRetries + 1) > Limit

\* "This prevents the window from being extended on every request": a running
\* window only gets shorter, whoever repeats EXPIRE and when.
WindowNeverExtended ==
    [][count > 0 /\ ttl # NoTTL /\ count' > 0 => ttl' <= ttl]_vars

\* A client that is being rejected is let in again some time: every window
\* ends, unless its EXPIRE was lost and nobody repeats it.
WindowsEnd == count > 0 ~> count = 0 \/ (ttl = NoTTL /\ mishap)
=============================================================================
