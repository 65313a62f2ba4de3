--------------------------- MODULE ExpiryNotifier ---------------------------
(***************************************************************************)
(* cron.ExpiryNotifier: every server replica runs the same daily job over  *)
(* all organizations, and the Redis key expiry-notified:<org>:<date> keeps *)
(* all but one of them from mailing the admins of an organization.  The    *)
(* date is the UTC date at the start of the run.  A replica's first run is *)
(* at the next midnight KST, the others 24 hours after the last one ended. *)
(*                                                                         *)
(* The order in which run goes through organizations and admins is left    *)
(* open.  The contracts, the members and the mail server are the           *)
(* environment: o is in due when ListExpiringContracts finds contracts of  *)
(* o.  Other requests change both at any time; the organizations stay.     *)
(*                                                                         *)
(* An operator marked "Faulty" is a plausible bug in the one after it; it  *)
(* serves to test the properties, and no specification uses it.            *)
(***************************************************************************)
EXTENDS Naturals

CONSTANTS
    Replicas, Orgs, Users, NoOrg,
    MaxDay,         \* bound: the last day; no run begins on it
    Faults          \* may calls fail or never return, and replicas restart?

ASSUME NoOrgAssumption == NoOrg \notin Orgs
ASSUME MaxDayAssumption == MaxDay \in Nat
ASSUME FaultsAssumption == Faults \in BOOLEAN

VARIABLES
    day,        \* the UTC date
    keys,       \* the dedup keys <<organization, date>> in Redis
    due,        \* the organizations with contracts about to expire
    admins,     \* admins[o]: the admins of o
    job,        \* the state of every replica's run
    last,       \* last[r]: the date of r's last run; its next one is on a later date
    \* History, read by the properties alone:
    mails,      \* mails[o][d][u]: how many alerts of o and date d u got, up to two
    asked,      \* <<o, d, list>>: a run of date d read list as the admins of o
    unguarded,  \* <<o, d>>: SetNX failed for o and date d, or Redis lost the key
    hit         \* <<o, d>>: another fault hit a replica's alert of o and date d

world == <<due, admins>>
history == <<mails, asked, unguarded, hit>>
vars == <<day, keys, world, job, last, history>>

Dates == 0..MaxDay
\* pc: the call that comes next; todo: organizations not handled yet; org: the
\* one at hand; to: its admins that have not been mailed yet.
\* A hung run waits for a call that never returns.
PCs == {"idle", "contracts", "dedup", "admins", "send", "hung"}
JobStates ==
    [pc : PCs, today : Dates, todo : SUBSET Orgs, org : Orgs \union {NoOrg}, to : SUBSET Users]
Idle == [pc |-> "idle", today |-> 0, todo |-> {}, org |-> NoOrg, to |-> {}]

TypeOK ==
    /\ day \in Dates
    /\ keys \subseteq Orgs \X Dates
    /\ due \subseteq Orgs
    /\ admins \in [Orgs -> SUBSET Users]
    /\ job \in [Replicas -> JobStates]
    /\ last \in [Replicas -> Dates]
    /\ mails \in [Orgs -> [Dates -> [Users -> 0..2]]]
    /\ asked \subseteq Orgs \X Dates \X SUBSET Users
    /\ unguarded \subseteq Orgs \X Dates
    /\ hit \subseteq Orgs \X Dates

Init ==
    /\ day = 0
    /\ keys = {}
    /\ due \in SUBSET Orgs
    /\ admins \in [Orgs -> SUBSET Users]
    /\ job = [r \in Replicas |-> Idle]
    /\ last = [r \in Replicas |-> 0]
    /\ mails = [o \in Orgs |-> [d \in Dates |-> [u \in Users |-> 0]]]
    /\ asked = {}
    /\ unguarded = {}
    /\ hit = {}

-----------------------------------------------------------------------------
At(r, pc) == job[r].pc = pc
Become(r, state) == job' = [job EXCEPT ![r] = state]
Alert(r) == <<job[r].org, job[r].today>>
Running(r) == ~At(r, "idle") /\ ~At(r, "hung")
\* The alerts left undone when r's run breaks off.
Undone(r) ==
    IF Running(r) THEN ((job[r].todo \union {job[r].org}) \ {NoOrg}) \X {job[r].today} ELSE {}
\* continue: the loop goes on with the organizations in todo.
Continue(r) == Become(r, [job[r] EXCEPT !.pc = "contracts", !.org = NoOrg, !.to = {}])

\* The timer fires; run lists all organizations.
Start(r) ==
    /\ At(r, "idle")
    /\ last[r] < day
    /\ day < MaxDay
    /\ Become(r, [pc |-> "contracts", today |-> day, todo |-> Orgs, org |-> NoOrg, to |-> {}])
    /\ UNCHANGED <<day, keys, world, last, history>>

\* The list cannot be read: run returns, and the timer is reset all the same.
StartFails(r) ==
    /\ Faults
    /\ At(r, "idle")
    /\ last[r] < day
    /\ day < MaxDay
    /\ last' = [last EXCEPT ![r] = day]
    /\ UNCHANGED <<day, keys, world, job, history>>

\* ListExpiringContracts of the next organization.
ListContracts(r) ==
    /\ At(r, "contracts")
    /\ \E o \in job[r].todo :
         LET rest == job[r].todo \ {o} IN
         IF o \in due
         THEN Become(r, [job[r] EXCEPT !.pc = "dedup", !.org = o, !.todo = rest])
         ELSE Become(r, [job[r] EXCEPT !.todo = rest])
    /\ UNCHANGED <<day, keys, world, last, history>>

ListContractsFails(r) ==
    /\ Faults
    /\ At(r, "contracts")
    /\ \E o \in job[r].todo :
        /\ Become(r, [job[r] EXCEPT !.todo = @ \ {o}])
        /\ hit' = hit \union {<<o, job[r].today>>}
    /\ UNCHANGED <<day, keys, world, last, mails, asked, unguarded>>

\* Faulty: the key is written, and nobody asks whether it was there.
SetAnyway(r) ==
    /\ At(r, "dedup")
    /\ keys' = keys \union {Alert(r)}
    /\ Become(r, [job[r] EXCEPT !.pc = "admins"])
    /\ UNCHANGED <<day, world, last, history>>

\* SetNX of the dedup key: whoever creates it sends the alert.
Dedup(r) ==
    /\ At(r, "dedup")
    /\ keys' = keys \union {Alert(r)}
    /\ IF Alert(r) \in keys THEN Continue(r) ELSE Become(r, [job[r] EXCEPT !.pc = "admins"])
    /\ UNCHANGED <<day, world, last, history>>

\* Faulty: an error counts as an alert already sent.
SkipOnError(r) ==
    /\ Faults
    /\ At(r, "dedup")
    /\ keys' \in {keys, keys \union {Alert(r)}}
    /\ unguarded' = unguarded \union {Alert(r)}
    /\ Continue(r)
    /\ UNCHANGED <<day, world, last, mails, asked, hit>>

\* It fails, with or without effect: "attempt to send anyway".
DedupFails(r) ==
    /\ Faults
    /\ At(r, "dedup")
    /\ keys' \in {keys, keys \union {Alert(r)}}
    /\ unguarded' = unguarded \union {Alert(r)}
    /\ Become(r, [job[r] EXCEPT !.pc = "admins"])
    /\ UNCHANGED <<day, world, last, mails, asked, hit>>

\* The reply of a SetNX that wrote the key is lost; go-redis sends it again and
\* finds the key: "already sent today".
DedupResent(r) ==
    /\ Faults
    /\ At(r, "dedup")
    /\ Alert(r) \notin keys
    /\ keys' = keys \union {Alert(r)}
    /\ hit' = hit \union {Alert(r)}
    /\ Continue(r)
    /\ UNCHANGED <<day, world, last, mails, asked, unguarded>>

\* ListOrgAdmins; an organization without admins is skipped, its key in place.
ListAdmins(r) ==
    /\ At(r, "admins")
    /\ IF admins[job[r].org] = {}
       THEN Continue(r)
       ELSE Become(r, [job[r] EXCEPT !.pc = "send", !.to = admins[job[r].org]])
    /\ asked' = asked \union {<<job[r].org, job[r].today, admins[job[r].org]>>}
    /\ UNCHANGED <<day, keys, world, last, mails, unguarded, hit>>

ListAdminsFails(r) ==
    /\ Faults
    /\ At(r, "admins")
    /\ Continue(r)
    /\ hit' = hit \union {Alert(r)}
    /\ UNCHANGED <<day, keys, world, last, mails, asked, unguarded>>

Sent(r, u) ==
    IF job[r].to = {u} THEN Continue(r) ELSE Become(r, [job[r] EXCEPT !.to = @ \ {u}])

\* Faulty: the alert is over with its first mail.
SendFirst(r) ==
    /\ At(r, "send")
    /\ \E u \in job[r].to :
        /\ mails' = [mails EXCEPT ![job[r].org][job[r].today][u] = IF @ = 2 THEN 2 ELSE @ + 1]
        /\ Continue(r)
    /\ UNCHANGED <<day, keys, world, last, asked, unguarded, hit>>

\* SendExpiryAlertEmail to one admin after the other.
Send(r) ==
    /\ At(r, "send")
    /\ \E u \in job[r].to :
        /\ mails' = [mails EXCEPT ![job[r].org][job[r].today][u] = IF @ = 2 THEN 2 ELSE @ + 1]
        /\ Sent(r, u)
    /\ UNCHANGED <<day, keys, world, last, asked, unguarded, hit>>

\* A failed mail is logged and not repeated.
SendFails(r) ==
    /\ Faults
    /\ At(r, "send")
    /\ \E u \in job[r].to : Sent(r, u)
    /\ hit' = hit \union {Alert(r)}
    /\ UNCHANGED <<day, keys, world, last, mails, asked, unguarded>>

\* A call of the run never returns: smtp.SendMail has no deadline.
Hang(r) ==
    /\ Faults
    /\ Running(r)
    /\ hit' = hit \union Undone(r)
    /\ Become(r, [pc |-> "hung", today |-> job[r].today, todo |-> {}, org |-> NoOrg, to |-> {}])
    /\ UNCHANGED <<day, keys, world, last, mails, asked, unguarded>>

\* The run is over: timer.Reset(24 hours), counted from now.
Finish(r) ==
    /\ At(r, "contracts")
    /\ job[r].todo = {}
    /\ Become(r, Idle)
    /\ last' = [last EXCEPT ![r] = day]
    /\ UNCHANGED <<day, keys, world, history>>

\* The replica restarts.  Its next midnight KST is today or tomorrow, by UTC;
\* tomorrow if it is past the start of today's run.
RanToday(r) == last[r] = day \/ (~At(r, "idle") /\ job[r].today = day)
Restart(r) ==
    /\ Faults
    /\ hit' = hit \union Undone(r)
    /\ Become(r, Idle)
    /\ \E d \in Dates :
        /\ d = day \/ (d = day - 1 /\ ~RanToday(r))
        /\ last' = [last EXCEPT ![r] = d]
    /\ UNCHANGED <<day, keys, world, mails, asked, unguarded>>

\* Members are appointed, demoted and removed, contracts uploaded and deleted.
Reorganize ==
    /\ \E o \in Orgs :
        \/ \E members \in SUBSET Users : admins' = [admins EXCEPT ![o] = members] /\ UNCHANGED due
        \/ due' \in {due \union {o}, due \ {o}} /\ UNCHANGED admins
    /\ UNCHANGED <<day, keys, job, last, history>>

\* Midnight UTC.
NextDay ==
    /\ day < MaxDay
    /\ day' = day + 1
    /\ UNCHANGED <<keys, world, job, last, history>>

\* A key lives for 25 hours, longer than the runs of its date last; LoseKey is
\* for a run that lasts longer than its key.
ExpireKey ==
    /\ \E k \in keys :
        /\ k[2] < day
        /\ \A r \in Replicas : Running(r) => job[r].today # k[2]
        /\ keys' = keys \ {k}
    /\ UNCHANGED <<day, world, job, last, history>>

\* Redis evicts a key or restarts, or the key's time is up before the run is.
LoseKey ==
    /\ Faults
    /\ \E k \in keys : keys' = keys \ {k} /\ unguarded' = unguarded \union {k}
    /\ UNCHANGED <<day, world, job, last, mails, asked, hit>>

Step(r) ==
    \/ ListContracts(r) \/ ListContractsFails(r) \/ Dedup(r) \/ DedupFails(r)
    \/ DedupResent(r) \/ ListAdmins(r) \/ ListAdminsFails(r) \/ Send(r) \/ SendFails(r) \/ Finish(r)

Next ==
    \/ \E r \in Replicas : Start(r) \/ StartFails(r) \/ Step(r) \/ Hang(r) \/ Restart(r)
    \/ Reorganize \/ NextDay \/ ExpireKey \/ LoseKey

Spec == Init /\ [][Next]_vars

\* A run that has started goes on until it ends or hangs.
FairSpec == Spec /\ \A r \in Replicas : WF_vars(Step(r))

-----------------------------------------------------------------------------
(* Properties *)

\* "Only send once per org per calendar day": no admin gets a second alert for
\* the same organization and date, over replicas, restarts and failed mails,
\* unless the dedup key itself failed.
OncePerDate ==
    \A o \in Orgs, d \in Dates, u \in Users : mails[o][d][u] > 1 => <<o, d>> \in unguarded

\* Whether some replica is sending the alert behind a key.
Alerting(o, d) ==
    \E r \in Replicas :
        (At(r, "admins") \/ At(r, "send")) /\ job[r].org = o /\ job[r].today = d

\* Whether every admin on some list that a run of date d read was mailed.
ListIsTold(o, d) ==
    \E list \in SUBSET Users : <<o, d, list>> \in asked /\ \A u \in list : mails[o][d][u] > 0

\* A dedup key, which makes every replica skip the organization, stands for an
\* alert that is on its way, was hit by a fault, or has reached every admin on
\* the list that a run read under it.  That list may be empty: its key silences
\* whoever becomes an admin later that day.
KeyMeansAlert ==
    \A k \in keys : Alerting(k[1], k[2]) \/ k \in hit \/ ListIsTold(k[1], k[2])

\* Once a run is to come to an organization with expiring contracts, every admin
\* is told that day, by this replica or another one, unless a fault hits the
\* alert, the contracts are gone first, or a run reads the admins while the
\* user is none.
AlertsAreSent ==
    \A r \in Replicas, o \in Orgs, d \in Dates, u \in Users :
        /\ o \in due /\ u \in admins[o]
        /\ At(r, "contracts") /\ job[r].today = d /\ o \in job[r].todo
        ~> \/ mails[o][d][u] > 0
           \/ <<o, d>> \in hit
           \/ o \notin due \/ u \notin admins[o]
           \/ \E list \in SUBSET Users : <<o, d, list>> \in asked /\ u \notin list
=============================================================================
