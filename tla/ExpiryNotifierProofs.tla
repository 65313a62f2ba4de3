------------------------ MODULE ExpiryNotifierProofs ------------------------
(***************************************************************************)
(* Proofs about ExpiryNotifier, for any number of replicas, organizations, *)
(* admins and days, and members that come and go at any time.              *)
(***************************************************************************)
EXTENDS ExpiryNotifier, TLAPS

USE NoOrgAssumption, MaxDayAssumption, FaultsAssumption

\* Replica r is sending the alert of o for date d.
Alerts(r, o, d) == job[r].pc \in {"admins", "send"} /\ job[r].org = o /\ job[r].today = d

\* Some run of date d has read list as the admins of o, or any list.
Read(o, d, list) == <<o, d, list>> \in asked
IsAsked(o, d) == \E list \in SUBSET Users : Read(o, d, list)

\* A replica is at an organization in the middle of the loop alone, and mails
\* people on a list it has read.
JobSound(r) ==
    /\ job[r].org # NoOrg <=> job[r].pc \in {"dedup", "admins", "send"}
    /\ job[r].pc = "send" =>
         \E list \in SUBSET Users : Read(job[r].org, job[r].today, list) /\ job[r].to \subseteq list

\* u is still to be mailed.
IsDue(o, d, u) ==
    \E r \in Replicas :
        job[r].pc = "send" /\ job[r].org = o /\ job[r].today = d /\ u \in job[r].to

\* Everyone on a list has been or will be mailed, unless a fault hit the alert;
\* nobody else is mailed.
ListSound(o, d) ==
    /\ <<o, d>> \in hit
       \/ \A list \in SUBSET Users : Read(o, d, list) =>
            \A u \in list : mails[o][d][u] > 0 \/ IsDue(o, d, u)
    /\ \A u \in Users : mails[o][d][u] > 0 =>
         \E list \in SUBSET Users : Read(o, d, list) /\ u \in list

\* As long as the dedup key of an alert is trustworthy, one replica at most
\* sends the alert, with the key in place, to one list and to admins it has not
\* told before; without the key there was no list and no mail, or the day is
\* over for every replica.
Once(o, d) ==
    <<o, d>> \notin unguarded =>
        /\ \A r \in Replicas : Alerts(r, o, d) => <<o, d>> \in keys
        /\ \A r, s \in Replicas : Alerts(r, o, d) /\ Alerts(s, o, d) => r = s
        /\ \A r \in Replicas, u \in Users :
             Alerts(r, o, d) /\ (job[r].pc = "send" => u \in job[r].to) => mails[o][d][u] = 0
        /\ \A r \in Replicas : Alerts(r, o, d) /\ job[r].pc = "admins" => ~IsAsked(o, d)
        /\ \A list, other \in SUBSET Users : Read(o, d, list) /\ Read(o, d, other) => list = other
        /\ \A u \in Users : mails[o][d][u] <= 1
        /\ \/ <<o, d>> \in keys
           \/ ~IsAsked(o, d) /\ \A u \in Users : mails[o][d][u] = 0
           \/ d < day /\ \A r \in Replicas : Running(r) => job[r].today # d

\* KeyMeansAlert, for one key and without what ListSound adds.
KeySound(o, d) ==
    <<o, d>> \in keys => (\E r \in Replicas : Alerts(r, o, d)) \/ <<o, d>> \in hit \/ IsAsked(o, d)

AlertSound(o, d) == Once(o, d) /\ ListSound(o, d) /\ KeySound(o, d)

IInv ==
    /\ TypeOK
    /\ \A r \in Replicas : JobSound(r)
    /\ \A o \in Orgs, d \in Dates : AlertSound(o, d)

LEMMA IInvInit == Init => IInv
<1> SUFFICES ASSUME Init PROVE IInv
  OBVIOUS
<1>1. TypeOK
  BY DEF Init, TypeOK, JobStates, PCs, Idle, Dates
<1>2. \A r \in Replicas : JobSound(r)
  BY DEF Init, JobSound, Idle
<1>3. ASSUME NEW o \in Orgs, NEW d \in Dates PROVE AlertSound(o, d)
  <2>1. (\A u \in Users : mails[o][d][u] = 0) /\ ~IsAsked(o, d)
    BY DEF Init, IsAsked, Read
  <2>2. \A r \in Replicas : ~Alerts(r, o, d)
    BY DEF Init, Alerts, Idle
  <2>3. Once(o, d)
    BY <2>1, <2>2 DEF Once, IsAsked
  <2>4. ListSound(o, d)
    BY <2>1 DEF ListSound, IsAsked
  <2>5. KeySound(o, d)
    BY DEF Init, KeySound
  <2>6. QED BY <2>3, <2>4, <2>5 DEF AlertSound
<1>4. QED BY <1>1, <1>2, <1>3 DEF IInv

-----------------------------------------------------------------------------
\* What Become does.
LEMMA BecomeEffect ==
    ASSUME TypeOK, NEW r \in Replicas, NEW state \in JobStates, Become(r, state)
    PROVE  /\ job' \in [Replicas -> JobStates] /\ job'[r] = state
           /\ \A s \in Replicas \ {r} : job'[s] = job[s]
BY DEF TypeOK, Become

\* A step of replica r that begins no alert, reads no list and sends no mail.
LEMMA Moves ==
    ASSUME IInv, TypeOK', NEW r \in Replicas,
           \A s \in Replicas \ {r} : job'[s] = job[s],
           UNCHANGED <<day, mails, asked, unguarded>>,
           hit \subseteq hit', keys \subseteq keys', keys' \ keys \subseteq hit',
           job'[r].pc \in {"admins", "send"} =>
               /\ job'[r].pc = job[r].pc
               /\ job'[r].org = job[r].org /\ job'[r].today = job[r].today
               /\ job'[r].to \subseteq job[r].to,
           Running(r)' => (Running(r) /\ job'[r].today = job[r].today) \/ job'[r].today = day,
           job[r].pc \in {"admins", "send"} => job'[r] = job[r] \/ Alert(r) \in hit',
           job'[r].org # NoOrg <=> job'[r].pc \in {"dedup", "admins", "send"}
    PROVE  IInv'
<1>0. \A o \in Orgs, d \in Dates, list \in SUBSET Users : Read(o, d, list)' <=> Read(o, d, list)
  BY DEF Read
<1>1. ASSUME NEW s \in Replicas PROVE JobSound(s)'
  <2>1. CASE s = r
    <3>1. CASE job'[r].pc # "send"
      BY <2>1, <3>1 DEF JobSound
    <3>2. CASE job'[r].pc = "send"
      BY <2>1, <3>2 DEF IInv, JobSound, Read
    <3>3. QED BY <3>1, <3>2
  <2>2. CASE s # r
    BY <2>2 DEF IInv, JobSound, Read
  <2>3. QED BY <2>1, <2>2
<1>2. ASSUME NEW o \in Orgs, NEW d \in Dates PROVE Once(o, d)'
  <2> SUFFICES ASSUME <<o, d>> \notin unguarded' PROVE Once(o, d)'
    BY DEF Once
  <2>0. Once(o, d) /\ <<o, d>> \notin unguarded
    BY DEF IInv, AlertSound
  <2>1. \A s \in Replicas : Alerts(s, o, d)' => Alerts(s, o, d) /\ job'[s].pc = job[s].pc
    BY DEF Alerts
  <2>2. \A s \in Replicas, u \in Users :
          Alerts(s, o, d)' /\ (job'[s].pc = "send" => u \in job'[s].to) =>
          (job[s].pc = "send" => u \in job[s].to)
    BY DEF Alerts
  <2>3. d < day /\ (\A s \in Replicas : Running(s) => job[s].today # d) =>
        \A s \in Replicas : Running(s)' => job'[s].today # d
    <3> SUFFICES ASSUME d < day, \A s \in Replicas : Running(s) => job[s].today # d,
                        NEW s \in Replicas, Running(s)'
                 PROVE  job'[s].today # d
      OBVIOUS
    <3>1. day # d
      BY DEF IInv, TypeOK, Dates
    <3>2. CASE s = r
      BY <3>1, <3>2
    <3>3. CASE s # r
      BY <3>3 DEF Running, At
    <3>4. QED BY <3>2, <3>3
  <2>4. \A s \in Replicas, u \in Users :
          Alerts(s, o, d)' /\ (job'[s].pc = "send" => u \in job'[s].to) => mails[o][d][u] = 0
    BY <2>0, <2>1, <2>2 DEF Once
  <2>5. (\A s \in Replicas : Alerts(s, o, d)' => <<o, d>> \in keys')
        /\ (\A s, t \in Replicas : Alerts(s, o, d)' /\ Alerts(t, o, d)' => s = t)
        /\ (\A s \in Replicas : Alerts(s, o, d)' /\ job'[s].pc = "admins" => ~IsAsked(o, d))
    BY <2>0, <2>1 DEF Once
  <2>6. (\A u \in Users : mails[o][d][u] <= 1)
        /\ (\/ <<o, d>> \in keys'
            \/ ~IsAsked(o, d) /\ \A u \in Users : mails[o][d][u] = 0
            \/ d < day /\ \A s \in Replicas : Running(s)' => job'[s].today # d)
    BY <2>0, <2>3 DEF Once
  <2>7. IsAsked(o, d)' <=> IsAsked(o, d)
    BY <1>0 DEF IsAsked
  <2>8. \A list, other \in SUBSET Users : Read(o, d, list)' /\ Read(o, d, other)' => list = other
    BY <1>0, <2>0 DEF Once
  <2>9. QED BY <2>4, <2>5, <2>6, <2>7, <2>8 DEF Once
<1>3. ASSUME NEW o \in Orgs, NEW d \in Dates PROVE ListSound(o, d)' /\ KeySound(o, d)'
  <2>0. ListSound(o, d) /\ KeySound(o, d)
    BY DEF IInv, AlertSound
  <2>1. \/ <<o, d>> \in hit'
        \/ \A s \in Replicas : job[s].pc \in {"admins", "send"} /\ job[s].org = o /\ job[s].today = d
                                 => job'[s] = job[s]
    BY DEF Alert
  <2>2. <<o, d>> \in hit' \/ \A u \in Users : IsDue(o, d, u) => IsDue(o, d, u)'
    BY <2>1 DEF IsDue
  <2>3. ListSound(o, d)'
    <3>1. CASE <<o, d>> \in hit'
      BY <1>0, <2>0, <3>1 DEF ListSound
    <3>2. CASE <<o, d>> \notin hit'
      BY <1>0, <2>0, <2>2, <3>2 DEF ListSound
    <3>3. QED BY <3>1, <3>2
  <2>4. KeySound(o, d)'
    <3>1. IsAsked(o, d) => IsAsked(o, d)'
      BY <1>0 DEF IsAsked
    <3>2. <<o, d>> \in hit' \/ \A s \in Replicas : Alerts(s, o, d) => Alerts(s, o, d)'
      BY <2>1 DEF Alerts
    <3>3. QED BY <2>0, <3>1, <3>2 DEF KeySound
  <2>5. QED BY <2>3, <2>4
<1>4. QED BY <1>1, <1>2, <1>3 DEF IInv, AlertSound

\* The replica goes on with the next organization.
LEMMA ContinueEffect ==
    ASSUME TypeOK, NEW r \in Replicas, Continue(r)
    PROVE  /\ job' \in [Replicas -> JobStates]
           /\ job'[r].pc = "contracts" /\ job'[r].today = job[r].today
           /\ job'[r].todo = job[r].todo /\ job'[r].org = NoOrg
           /\ \A s \in Replicas \ {r} : job'[s] = job[s]
BY DEF TypeOK, Continue, Become, JobStates, PCs

\* The replica begins an alert, whose key it has put there or failed to.
LEMMA Begins ==
    ASSUME IInv, TypeOK', NEW r \in Replicas, At(r, "dedup"),
           Become(r, [job[r] EXCEPT !.pc = "admins"]),
           UNCHANGED <<day, mails, asked, hit>>,
           unguarded \subseteq unguarded',
           \/ Alert(r) \in unguarded' /\ keys' \in {keys, keys \union {Alert(r)}}
           \/ Alert(r) \notin keys /\ keys' = keys \union {Alert(r)}
    PROVE  IInv'
<1>0. \A o \in Orgs, d \in Dates, list \in SUBSET Users : Read(o, d, list)' <=> Read(o, d, list)
  BY DEF Read
<1>1. /\ job'[r].pc = "admins" /\ job'[r].org = job[r].org /\ job'[r].today = job[r].today
      /\ \A s \in Replicas \ {r} : job'[s] = job[s]
      /\ job[r].pc = "dedup"
  BY DEF IInv, TypeOK, Become, JobStates, At
<1>2. ASSUME NEW s \in Replicas PROVE JobSound(s)'
  BY <1>1 DEF IInv, JobSound, Read
<1>3. ASSUME NEW o \in Orgs, NEW d \in Dates PROVE Once(o, d)'
  <2> SUFFICES ASSUME <<o, d>> \notin unguarded' PROVE Once(o, d)'
    BY DEF Once
  <2>0. Once(o, d) /\ <<o, d>> \notin unguarded /\ (IsAsked(o, d)' <=> IsAsked(o, d))
    BY <1>0 DEF IInv, AlertSound, IsAsked
  <2>1. \A list, other \in SUBSET Users : Read(o, d, list)' /\ Read(o, d, other)' => list = other
    BY <1>0, <2>0 DEF Once
  <2>2. CASE <<o, d>> = Alert(r)
    <3>1. <<o, d>> \notin keys /\ <<o, d>> \in keys' /\ o = job[r].org /\ d = job[r].today
      BY <2>2 DEF Alert
    <3>2. \A s \in Replicas : Alerts(s, o, d)' => s = r
      BY <1>1, <2>0, <3>1 DEF Once, Alerts
    <3>3. (\A u \in Users : mails[o][d][u] = 0) /\ ~IsAsked(o, d)
      <4>1. Running(r) /\ job[r].today = d
        BY <1>1, <3>1 DEF Running, At
      <4>2. QED BY <2>0, <3>1, <4>1 DEF Once
    <3>4. QED BY <2>0, <2>1, <3>1, <3>2, <3>3 DEF Once
  <2>3. CASE <<o, d>> # Alert(r)
    <3>1. ~(job[r].org = o /\ job[r].today = d)
      BY <2>3 DEF Alert
    <3>2. \A s \in Replicas : Alerts(s, o, d)' => Alerts(s, o, d) /\ job'[s] = job[s]
      BY <1>1, <3>1 DEF Alerts
    <3>3. <<o, d>> \in keys' <=> <<o, d>> \in keys
      BY <2>3
    <3>4. (\A s \in Replicas : Running(s) => job[s].today # d) =>
          \A s \in Replicas : Running(s)' => job'[s].today # d
      BY <1>1 DEF Running, At
    <3>5. QED BY <2>0, <2>1, <3>2, <3>3, <3>4 DEF Once
  <2>4. QED BY <2>2, <2>3
<1>4. ASSUME NEW o \in Orgs, NEW d \in Dates PROVE ListSound(o, d)' /\ KeySound(o, d)'
  <2>0. ListSound(o, d) /\ KeySound(o, d) /\ (IsAsked(o, d)' <=> IsAsked(o, d))
    BY <1>0 DEF IInv, AlertSound, IsAsked
  <2>1. \A u \in Users : IsDue(o, d, u) => IsDue(o, d, u)'
    BY <1>1 DEF IsDue
  <2>2. ListSound(o, d)'
    BY <1>0, <2>0, <2>1 DEF ListSound
  <2>3. \A s \in Replicas : Alerts(s, o, d) => Alerts(s, o, d)'
    BY <1>1 DEF Alerts
  <2>4. <<o, d>> \in keys' => <<o, d>> \in keys \/ Alerts(r, o, d)'
    BY <1>1 DEF Alerts, Alert
  <2>5. KeySound(o, d)'
    BY <2>0, <2>3, <2>4 DEF KeySound
  <2>6. QED BY <2>2, <2>5
<1>5. QED BY <1>2, <1>3, <1>4 DEF IInv, AlertSound

\* The replica reads the admins it is to mail.
LEMMA Asks == ASSUME IInv, NEW r \in Replicas, ListAdmins(r) PROVE IInv'
<1>0. TypeOK /\ JobSound(r) /\ job[r].pc = "admins" /\ job[r] \in JobStates
  BY DEF IInv, ListAdmins, At, TypeOK
<1>1. job[r].org \in Orgs /\ job[r].today \in Dates
  BY <1>0 DEF JobSound, JobStates
<1>2. PICK o \in Orgs, d \in Dates, list \in SUBSET Users :
        o = job[r].org /\ d = job[r].today /\ list = admins[job[r].org]
  BY <1>0, <1>1 DEF TypeOK
<1>3. /\ asked' = asked \union {<<o, d, list>>}
      /\ UNCHANGED <<day, keys, due, admins, last, mails, unguarded, hit>>
  BY <1>2 DEF ListAdmins, world
<1>4. /\ job' \in [Replicas -> JobStates]
      /\ job'[r].today = d
      /\ \/ list = {} /\ job'[r].pc = "contracts" /\ job'[r].org = NoOrg
         \/ job'[r].pc = "send" /\ job'[r].org = o /\ job'[r].to = list
      /\ \A s \in Replicas \ {r} : job'[s] = job[s]
  <2>1. CASE list = {}
    BY <1>0, <1>2, <2>1, ContinueEffect DEF ListAdmins
  <2>2. CASE list # {}
    <3>1. Become(r, [job[r] EXCEPT !.pc = "send", !.to = list])
      BY <1>2, <2>2 DEF ListAdmins
    <3>2. QED BY <1>0, <1>2, <3>1 DEF Become, TypeOK, JobStates, PCs
  <2>3. QED BY <2>1, <2>2
<1>5. TypeOK'
  <2>1. asked' \subseteq Orgs \X Dates \X SUBSET Users
    BY <1>0, <1>3 DEF TypeOK
  <2>2. QED BY <1>0, <1>3, <1>4, <2>1 DEF TypeOK
<1>6. /\ Read(o, d, list)'
      /\ \A p \in Orgs, e \in Dates, other \in SUBSET Users :
           /\ Read(p, e, other) => Read(p, e, other)'
           /\ Read(p, e, other)' => Read(p, e, other) \/ <<p, e, other>> = <<o, d, list>>
  BY <1>3 DEF Read
<1>7. ASSUME NEW s \in Replicas PROVE JobSound(s)'
  <2>1. CASE s = r
    BY <1>4, <1>6, <2>1 DEF JobSound
  <2>2. CASE s # r
    <3>1. JobSound(s) /\ job'[s] = job[s]
      BY <1>4, <2>2 DEF IInv
    <3>2. QED BY <1>3, <3>1 DEF JobSound, Read
  <2>3. QED BY <2>1, <2>2
<1>8. ASSUME NEW p \in Orgs, NEW e \in Dates PROVE Once(p, e)'
  <2> SUFFICES ASSUME <<p, e>> \notin unguarded PROVE Once(p, e)'
    BY <1>3 DEF Once
  <2>0. Once(p, e)
    BY DEF IInv, AlertSound
  <2>1. \A s \in Replicas : Alerts(s, p, e)' => Alerts(s, p, e)
    BY <1>0, <1>2, <1>4 DEF Alerts
  <2>2. (\A s \in Replicas : Running(s) => job[s].today # e) =>
        \A s \in Replicas : Running(s)' => job'[s].today # e
    BY <1>0, <1>2, <1>4 DEF Running, At
  <2>3. CASE <<p, e>> = <<o, d>>
    <3>1. Alerts(r, p, e)
      BY <1>0, <1>2, <2>3 DEF Alerts
    <3>2. /\ <<p, e>> \in keys /\ \A s \in Replicas : Alerts(s, p, e) => s = r
          /\ ~IsAsked(p, e) /\ \A u \in Users : mails[p][e][u] = 0
      BY <1>0, <2>0, <3>1 DEF Once
    <3>3. \A other \in SUBSET Users : Read(p, e, other)' => other = list
      BY <1>6, <3>2 DEF IsAsked
    <3>4. \A s \in Replicas : Alerts(s, p, e)' => s = r /\ job'[s].pc # "admins"
      BY <1>4, <2>1, <3>2
    <3>5. QED BY <1>3, <3>2, <3>3, <3>4 DEF Once
  <2>4. CASE <<p, e>> # <<o, d>>
    <3>1. \A s \in Replicas : Alerts(s, p, e)' => job'[s] = job[s]
      BY <1>2, <1>4, <2>1, <2>4 DEF Alerts
    <3>2. \A other \in SUBSET Users : Read(p, e, other)' <=> Read(p, e, other)
      BY <1>6, <2>4
    <3>3. IsAsked(p, e)' <=> IsAsked(p, e)
      BY <3>2 DEF IsAsked
    <3>4. QED BY <1>3, <2>0, <2>1, <2>2, <3>1, <3>2, <3>3 DEF Once
  <2>5. QED BY <2>3, <2>4
<1>9. ASSUME NEW p \in Orgs, NEW e \in Dates PROVE ListSound(p, e)' /\ KeySound(p, e)'
  <2>0. ListSound(p, e) /\ KeySound(p, e)
    BY DEF IInv, AlertSound
  <2>1. \A u \in Users : IsDue(p, e, u) => IsDue(p, e, u)'
    BY <1>0, <1>4 DEF IsDue
  <2>2. ASSUME <<p, e>> \notin hit, NEW other \in SUBSET Users, Read(p, e, other)', NEW u \in other
        PROVE  mails[p][e][u] > 0 \/ IsDue(p, e, u)'
    <3>1. CASE Read(p, e, other)
      BY <2>0, <2>1, <2>2, <3>1 DEF ListSound
    <3>2. CASE <<p, e, other>> = <<o, d, list>>
      BY <1>4, <2>2, <3>2 DEF IsDue
    <3>3. QED BY <1>6, <2>2, <3>1, <3>2
  <2>3. ListSound(p, e)'
    BY <1>3, <1>6, <2>0, <2>2 DEF ListSound
  <2>4. KeySound(p, e)'
    <3>1. CASE <<p, e>> = <<o, d>>
      BY <1>6, <3>1 DEF KeySound, IsAsked
    <3>2. CASE <<p, e>> # <<o, d>>
      <4>1. \A s \in Replicas : Alerts(s, p, e) => Alerts(s, p, e)'
        BY <1>2, <1>4, <3>2 DEF Alerts
      <4>2. IsAsked(p, e) => IsAsked(p, e)'
        BY <1>6 DEF IsAsked
      <4>3. QED BY <1>3, <2>0, <4>1, <4>2 DEF KeySound
    <3>3. QED BY <3>1, <3>2
  <2>5. QED BY <2>3, <2>4
<1>10. QED BY <1>5, <1>7, <1>8, <1>9 DEF IInv, AlertSound

\* One mail more.
MailSent(o, d, u) == mails' = [mails EXCEPT ![o][d][u] = IF @ = 2 THEN 2 ELSE @ + 1]
LEMMA MailEffect ==
    ASSUME TypeOK, NEW o \in Orgs, NEW d \in Dates, NEW u \in Users,
           MailSent(o, d, u)
    PROVE  /\ mails' \in [Orgs -> [Dates -> [Users -> 0..2]]]
           /\ mails'[o][d][u] > 0
           /\ mails[o][d][u] = 0 => mails'[o][d][u] = 1
           /\ \A p \in Orgs, e \in Dates, v \in Users :
                /\ mails'[p][e][v] >= mails[p][e][v]
                /\ <<p, e, v>> # <<o, d, u>> => mails'[p][e][v] = mails[p][e][v]
<1> DEFINE more == IF mails[o][d][u] = 2 THEN 2 ELSE mails[o][d][u] + 1
<1>1. mails[o][d][u] \in 0..2 /\ more \in 1..2 /\ more >= mails[o][d][u]
  BY DEF TypeOK
<1>2. mails' = [mails EXCEPT ![o] = [mails[o] EXCEPT ![d] = [mails[o][d] EXCEPT ![u] = more]]]
  BY DEF MailSent
<1>3. mails[o][d][u] = 0 => more = 1
  OBVIOUS
<1> HIDE DEF more
<1>4. [mails[o][d] EXCEPT ![u] = more] \in [Users -> 0..2]
  BY <1>1 DEF TypeOK
<1>5. [mails[o] EXCEPT ![d] = [mails[o][d] EXCEPT ![u] = more]] \in [Dates -> [Users -> 0..2]]
  BY <1>4 DEF TypeOK
<1>6. mails' \in [Orgs -> [Dates -> [Users -> 0..2]]]
  BY <1>2, <1>5 DEF TypeOK
<1>7. mails'[o][d][u] = more
  BY <1>2 DEF TypeOK
<1>8. \A p \in Orgs, e \in Dates, v \in Users :
        <<p, e, v>> # <<o, d, u>> => mails'[p][e][v] = mails[p][e][v]
  BY <1>2 DEF TypeOK
<1>9. \A p \in Orgs, e \in Dates, v \in Users : mails'[p][e][v] >= mails[p][e][v]
  <2> SUFFICES ASSUME NEW p \in Orgs, NEW e \in Dates, NEW v \in Users
               PROVE  mails'[p][e][v] >= mails[p][e][v]
    OBVIOUS
  <2>1. mails[p][e][v] \in 0..2
    BY DEF TypeOK
  <2>2. CASE <<p, e, v>> = <<o, d, u>>
    BY <1>1, <1>7, <2>2
  <2>3. CASE <<p, e, v>> # <<o, d, u>>
    BY <1>8, <2>1, <2>3
  <2>4. QED BY <2>2, <2>3
<1>10. QED BY <1>1, <1>3, <1>6, <1>7, <1>8, <1>9

LEMMA SentEffect ==
    ASSUME TypeOK, NEW r \in Replicas, NEW u \in job[r].to, At(r, "send"), Sent(r, u)
    PROVE  /\ job' \in [Replicas -> JobStates]
           /\ job'[r].today = job[r].today
           /\ \/ job'[r].pc = "contracts" /\ job'[r].org = NoOrg /\ job[r].to = {u}
              \/ job'[r].pc = "send" /\ job'[r].org = job[r].org /\ job'[r].to = job[r].to \ {u}
           /\ \A s \in Replicas \ {r} : job'[s] = job[s]
<1>1. CASE job[r].to = {u}
  BY <1>1, ContinueEffect DEF Sent
<1>2. CASE job[r].to # {u}
  <2>1. Become(r, [job[r] EXCEPT !.to = @ \ {u}])
    BY <1>2 DEF Sent
  <2>2. job[r] \in JobStates /\ [job[r] EXCEPT !.to = @ \ {u}] \in JobStates
    BY DEF TypeOK, JobStates
  <2>3. /\ job' \in [Replicas -> JobStates] /\ job'[r] = [job[r] EXCEPT !.to = @ \ {u}]
        /\ \A s \in Replicas \ {r} : job'[s] = job[s]
    BY <2>1, <2>2, BecomeEffect
  <2>4. QED BY <2>2, <2>3 DEF JobStates, At
<1>3. QED BY <1>1, <1>2

-----------------------------------------------------------------------------

-----------------------------------------------------------------------------
\* What the mail to u does when replica r sends the alert of o for date d.
Delivers(r, o, d, u) ==
    /\ job[r].pc = "send" /\ Alert(r) = <<o, d>> /\ job[r].org = o /\ job[r].today = d
    /\ u \in job[r].to
    /\ mails' \in [Orgs -> [Dates -> [Users -> 0..2]]]
    /\ mails'[o][d][u] > 0
    /\ mails[o][d][u] = 0 => mails'[o][d][u] = 1
    /\ \A p \in Orgs, e \in Dates, v \in Users :
         <<p, e, v>> # <<o, d, u>> => mails'[p][e][v] = mails[p][e][v]
    /\ \A p \in Orgs, e \in Dates, v \in Users : mails[p][e][v] > 0 => mails'[p][e][v] > 0
    /\ job' \in [Replicas -> JobStates]
    /\ job'[r].today = d
    /\ \/ job'[r].pc = "contracts" /\ job'[r].org = NoOrg /\ job[r].to = {u}
       \/ job'[r].pc = "send" /\ job'[r].org = o /\ job'[r].to = job[r].to \ {u}
    /\ \A s \in Replicas \ {r} : job'[s] = job[s]

LEMMA SendEffect ==
    ASSUME IInv, NEW r \in Replicas, Send(r)
    PROVE  \E o \in Orgs, d \in Dates, u \in Users : Delivers(r, o, d, u)
<1>0. TypeOK /\ JobSound(r) /\ job[r].pc = "send"
  BY DEF IInv, Send, At
<1>1. job[r].org \in Orgs /\ job[r].today \in Dates
  BY <1>0 DEF JobSound, TypeOK, JobStates
<1>2. PICK o \in Orgs, d \in Dates : o = job[r].org /\ d = job[r].today
  BY <1>1
<1>3. o \in Orgs /\ d \in Dates /\ Alert(r) = <<o, d>> /\ o = job[r].org /\ d = job[r].today
  BY <1>2 DEF Alert
<1>4. PICK u \in job[r].to : MailSent(o, d, u) /\ Sent(r, u)
  BY <1>3 DEF Send, MailSent
<1>5. u \in Users
  BY <1>0 DEF TypeOK, JobStates
<1>7. /\ mails' \in [Orgs -> [Dates -> [Users -> 0..2]]]
      /\ mails'[o][d][u] > 0
      /\ mails[o][d][u] = 0 => mails'[o][d][u] = 1
      /\ \A p \in Orgs, e \in Dates, v \in Users :
           /\ mails'[p][e][v] >= mails[p][e][v]
           /\ <<p, e, v>> # <<o, d, u>> => mails'[p][e][v] = mails[p][e][v]
  BY <1>0, <1>3, <1>4, <1>5, MailEffect
<1>8. /\ job' \in [Replicas -> JobStates]
      /\ job'[r].today = d
      /\ \/ job'[r].pc = "contracts" /\ job'[r].org = NoOrg /\ job[r].to = {u}
         \/ job'[r].pc = "send" /\ job'[r].org = o /\ job'[r].to = job[r].to \ {u}
      /\ \A s \in Replicas \ {r} : job'[s] = job[s]
  BY <1>0, <1>3, <1>4, SentEffect DEF At
\* The admins already told stay told, here and everywhere.
<1>10. \A p \in Orgs, e \in Dates, v \in Users : mails[p][e][v] > 0 => mails'[p][e][v] > 0
  <2> SUFFICES ASSUME NEW p \in Orgs, NEW e \in Dates, NEW v \in Users, mails[p][e][v] > 0
               PROVE  mails'[p][e][v] > 0
    OBVIOUS
  <2>1. mails[p][e][v] \in 0..2 /\ mails'[p][e][v] \in 0..2
    BY <1>0, <1>7 DEF TypeOK
  <2>2. mails'[p][e][v] >= mails[p][e][v]
    BY <1>7
  <2>3. QED BY <2>1, <2>2
<1>12. Delivers(r, o, d, u)
  BY ONLY <1>0, <1>3, <1>4, <1>7, <1>8, <1>10, Zenon DEF Delivers
<1>13. QED BY <1>5, <1>12

LEMMA SendKeeps == ASSUME IInv, NEW r \in Replicas, Send(r) PROVE IInv'
<1>0. TypeOK /\ JobSound(r)
  BY DEF IInv
<1>1. PICK o \in Orgs, d \in Dates, u \in Users : Delivers(r, o, d, u)
  BY SendEffect
<1>3. /\ job[r].pc = "send" /\ Alert(r) = <<o, d>> /\ o = job[r].org /\ d = job[r].today
      /\ u \in job[r].to
  BY <1>0, <1>1 DEF Delivers
<1>6. UNCHANGED <<day, keys, due, admins, last, asked, unguarded, hit>>
  BY DEF Send, world
<1>7. /\ mails' \in [Orgs -> [Dates -> [Users -> 0..2]]]
      /\ mails'[o][d][u] > 0
      /\ mails[o][d][u] = 0 => mails'[o][d][u] = 1
      /\ \A p \in Orgs, e \in Dates, v \in Users :
           <<p, e, v>> # <<o, d, u>> => mails'[p][e][v] = mails[p][e][v]
  BY <1>1 DEF Delivers
<1>8. /\ job' \in [Replicas -> JobStates]
      /\ job'[r].today = d
      /\ \/ job'[r].pc = "contracts" /\ job'[r].org = NoOrg /\ job[r].to = {u}
         \/ job'[r].pc = "send" /\ job'[r].org = o /\ job'[r].to = job[r].to \ {u}
      /\ \A s \in Replicas \ {r} : job'[s] = job[s]
  BY <1>1 DEF Delivers
<1>9. TypeOK'
  BY <1>0, <1>6, <1>7, <1>8 DEF TypeOK
<1>10. \A p \in Orgs, e \in Dates, v \in Users : mails[p][e][v] > 0 => mails'[p][e][v] > 0
  BY <1>1 DEF Delivers
<1>11. \A p \in Orgs, e \in Dates, list \in SUBSET Users : Read(p, e, list)' <=> Read(p, e, list)
  BY <1>6 DEF Read
<1>12. ASSUME NEW s \in Replicas PROVE JobSound(s)'
  <2>1. CASE s = r
    <3>1. PICK list \in SUBSET Users : Read(o, d, list) /\ job[r].to \subseteq list
      BY <1>0, <1>3 DEF JobSound
    <3>2. QED BY <1>0, <1>3, <1>8, <1>11, <2>1, <3>1 DEF JobSound
  <2>2. CASE s # r
    BY <1>6, <1>8, <2>2 DEF IInv, JobSound, Read
  <2>3. QED BY <2>1, <2>2
<1>13. ASSUME NEW p \in Orgs, NEW e \in Dates PROVE Once(p, e)'
  <2> SUFFICES ASSUME <<p, e>> \notin unguarded PROVE Once(p, e)'
    BY <1>6 DEF Once
  <2>0. Once(p, e) /\ (IsAsked(p, e)' <=> IsAsked(p, e))
    BY <1>11 DEF IInv, AlertSound, IsAsked
  <2>1. \A s \in Replicas : Alerts(s, p, e)' => Alerts(s, p, e) /\ job'[s].pc = job[s].pc
    BY <1>0, <1>3, <1>8 DEF Alerts
  <2>2. \A s \in Replicas : Running(s)' <=> Running(s)
    BY <1>3, <1>8 DEF Running, At
  <2>3. \A s \in Replicas : job'[s].today = job[s].today
    BY <1>3, <1>8
  <2>4. \A list, other \in SUBSET Users : Read(p, e, list)' /\ Read(p, e, other)' => list = other
    BY <1>11, <2>0 DEF Once
  <2>5. CASE <<p, e>> = <<o, d>>
    <3>1. Alerts(r, p, e)
      BY <1>0, <1>3, <2>5 DEF Alerts
    <3>2. <<p, e>> \in keys /\ \A s \in Replicas : Alerts(s, p, e) => s = r
      BY <2>0, <3>1 DEF Once
    <3>3. mails[o][d][u] = 0 /\ mails'[o][d][u] = 1
      BY <1>0, <1>3, <1>7, <2>0, <2>5, <3>1 DEF Once
    <3>4. \A v \in Users : mails'[p][e][v] <= 1
      <4> SUFFICES ASSUME NEW v \in Users PROVE mails'[p][e][v] <= 1
        OBVIOUS
      <4>1. CASE v = u
        BY <2>5, <3>3, <4>1
      <4>2. CASE v # u
        BY <1>7, <2>0, <4>2 DEF Once
      <4>3. QED BY <4>1, <4>2
    <3>5. ASSUME NEW s \in Replicas, NEW v \in Users, Alerts(s, p, e)',
                 job'[s].pc = "send" => v \in job'[s].to
          PROVE  mails'[p][e][v] = 0
      <4>1. s = r
        BY <2>1, <3>2, <3>5
      <4>2. job'[r].pc = "send" /\ v \in job[r].to \ {u}
        BY <1>8, <3>5, <4>1 DEF Alerts
      <4>3. mails[p][e][v] = 0
        BY <2>0, <3>1, <4>2 DEF Once
      <4>4. QED BY <1>7, <4>2, <4>3
    <3>6. \A s \in Replicas : Alerts(s, p, e)' => s = r /\ job'[s].pc # "admins"
      BY <1>3, <2>1, <3>2
    <3>7. QED BY <1>6, <2>4, <3>2, <3>4, <3>5, <3>6 DEF Once
  <2>6. CASE <<p, e>> # <<o, d>>
    <3>1. \A v \in Users : mails'[p][e][v] = mails[p][e][v]
      BY <1>7, <2>6
    <3>2. \A s \in Replicas : Alerts(s, p, e)' => job'[s] = job[s]
      BY <1>3, <1>8, <2>6 DEF Alerts
    <3>3. QED BY <1>6, <2>0, <2>1, <2>2, <2>3, <2>4, <3>1, <3>2 DEF Once
  <2>7. QED BY <2>5, <2>6
<1>14. ASSUME NEW p \in Orgs, NEW e \in Dates PROVE ListSound(p, e)' /\ KeySound(p, e)'
  <2>0. ListSound(p, e) /\ KeySound(p, e)
    BY DEF IInv, AlertSound
  <2>1. ASSUME NEW v \in Users, mails[p][e][v] > 0 \/ IsDue(p, e, v)
        PROVE  mails'[p][e][v] > 0 \/ IsDue(p, e, v)'
    <3>1. CASE mails[p][e][v] > 0
      BY <1>10, <3>1
    <3>2. ASSUME NEW s \in Replicas, job[s].pc = "send", job[s].org = p, job[s].today = e,
                 v \in job[s].to
          PROVE  mails'[p][e][v] > 0 \/ IsDue(p, e, v)'
      <4>1. CASE s # r
        BY <1>8, <3>2, <4>1 DEF IsDue
      <4>2. CASE s = r /\ v = u
        BY <1>3, <1>7, <3>2, <4>2
      <4>3. CASE s = r /\ v # u
        BY <1>3, <1>8, <3>2, <4>3 DEF IsDue
      <4>4. QED BY <4>1, <4>2, <4>3
    <3>3. QED BY <2>1, <3>1, <3>2 DEF IsDue
  <2>2. ASSUME NEW v \in Users, mails'[p][e][v] > 0
        PROVE  \E list \in SUBSET Users : Read(p, e, list) /\ v \in list
    <3>1. CASE <<p, e, v>> = <<o, d, u>>
      BY <1>0, <1>3, <3>1 DEF JobSound
    <3>2. CASE <<p, e, v>> # <<o, d, u>>
      <4>1. mails[p][e][v] > 0
        BY <1>7, <2>2, <3>2
      <4>2. QED BY <2>0, <4>1 DEF ListSound
    <3>3. QED BY <3>1, <3>2
  <2>3. ListSound(p, e)'
    <3>1. <<p, e>> \in hit'
          \/ \A list \in SUBSET Users : Read(p, e, list)' =>
               \A v \in list : mails'[p][e][v] > 0 \/ IsDue(p, e, v)'
      BY <1>6, <1>11, <2>0, <2>1 DEF ListSound
    <3>2. \A v \in Users : mails'[p][e][v] > 0 =>
            \E list \in SUBSET Users : Read(p, e, list)' /\ v \in list
      BY <1>11, <2>2
    <3>3. QED BY <3>1, <3>2 DEF ListSound
  <2>4. KeySound(p, e)'
    <3>1. IsAsked(p, e) => IsAsked(p, e)'
      BY <1>11 DEF IsAsked
    <3>2. CASE <<p, e>> = <<o, d>>
      <4>1. IsAsked(p, e)
        BY <1>0, <1>3, <3>2 DEF JobSound, IsAsked
      <4>2. QED BY <3>1, <4>1 DEF KeySound
    <3>3. CASE <<p, e>> # <<o, d>>
      <4>1. \A s \in Replicas : Alerts(s, p, e) => Alerts(s, p, e)'
        BY <1>3, <1>8, <3>3 DEF Alerts
      <4>2. QED BY <1>6, <2>0, <3>1, <4>1 DEF KeySound
    <3>4. QED BY <3>2, <3>3
  <2>5. QED BY <2>3, <2>4
<1>15. QED BY <1>9, <1>12, <1>13, <1>14 DEF IInv, AlertSound

LEMMA IInvStep == IInv /\ [Next]_vars => IInv'
<1> SUFFICES ASSUME IInv, [Next]_vars PROVE IInv'
  OBVIOUS
<1>0. TypeOK
  BY DEF IInv
<1> USE DEF world, history
<1>1. ASSUME NEW r \in Replicas, Start(r) PROVE IInv'
  <2>1. job[r].pc = "idle" /\ UNCHANGED <<day, keys, due, admins, last, mails, asked, unguarded, hit>>
    BY <1>1 DEF Start, At
  <2>2. /\ job' \in [Replicas -> JobStates]
        /\ job'[r].pc = "contracts" /\ job'[r].today = day /\ job'[r].org = NoOrg
        /\ \A s \in Replicas \ {r} : job'[s] = job[s]
    BY <1>0, <1>1 DEF Start, Become, TypeOK, JobStates, PCs
  <2>3. TypeOK'
    BY <1>0, <2>1, <2>2 DEF TypeOK
  <2>4. QED BY <2>1, <2>2, <2>3, Moves
<1>2. ASSUME NEW r \in Replicas, StartFails(r) PROVE IInv'
  <2>1. job[r].pc = "idle" /\ UNCHANGED <<day, keys, due, admins, job, mails, asked, unguarded, hit>>
    BY <1>2 DEF StartFails, At
  <2>2. last' \in [Replicas -> Dates]
    BY <1>0, <1>2 DEF StartFails, TypeOK
  <2>3. TypeOK'
    BY <1>0, <2>1, <2>2 DEF TypeOK
  <2>4. ~Running(r)' /\ job'[r].org = NoOrg
    BY <2>1 DEF IInv, JobSound, Running, At
  <2>5. QED BY <2>1, <2>3, <2>4, Moves
<1>3. ASSUME NEW r \in Replicas, ListContracts(r) \/ ListContractsFails(r) PROVE IInv'
  <2>1. /\ job[r].pc = "contracts" /\ job[r].org = NoOrg
        /\ UNCHANGED <<day, keys, due, admins, last, mails, asked, unguarded>> /\ hit \subseteq hit'
    BY <1>3 DEF ListContracts, ListContractsFails, At, IInv, JobSound
  <2>2. /\ job' \in [Replicas -> JobStates] /\ job'[r].today = job[r].today
        /\ \/ job'[r].pc = "contracts" /\ job'[r].org = NoOrg
           \/ job'[r].pc = "dedup" /\ job'[r].org # NoOrg
        /\ \A s \in Replicas \ {r} : job'[s] = job[s]
    <3>1. PICK o \in job[r].todo :
            \/ Become(r, [job[r] EXCEPT !.pc = "dedup", !.org = o, !.todo = job[r].todo \ {o}])
            \/ Become(r, [job[r] EXCEPT !.todo = job[r].todo \ {o}])
      <4>1. CASE ListContracts(r)
        BY <4>1 DEF ListContracts
      <4>2. CASE ListContractsFails(r)
        BY <4>2 DEF ListContractsFails
      <4>3. QED BY <1>3, <4>1, <4>2
    <3>2. o \in Orgs /\ job[r].todo \ {o} \in SUBSET Orgs /\ job[r] \in JobStates
      BY <1>0 DEF TypeOK, JobStates
    <3>3. CASE Become(r, [job[r] EXCEPT !.pc = "dedup", !.org = o, !.todo = job[r].todo \ {o}])
      BY <1>0, <3>2, <3>3 DEF Become, TypeOK, JobStates, PCs
    <3>4. CASE Become(r, [job[r] EXCEPT !.todo = job[r].todo \ {o}])
      BY <1>0, <2>1, <3>2, <3>4 DEF Become, TypeOK, JobStates
    <3>5. QED BY <3>1, <3>3, <3>4
  <2>3. hit' \subseteq Orgs \X Dates
    <3>1. CASE ListContracts(r)
      BY <1>0, <3>1 DEF ListContracts, TypeOK
    <3>2. CASE ListContractsFails(r)
      BY <1>0, <3>2 DEF ListContractsFails, TypeOK, JobStates
    <3>3. QED BY <1>3, <3>1, <3>2
  <2>4. TypeOK'
    BY <1>0, <2>1, <2>2, <2>3 DEF TypeOK
  <2>5. Running(r)
    BY <2>1 DEF Running, At
  <2>6. QED BY <2>1, <2>2, <2>4, <2>5, Moves
<1>4. ASSUME NEW r \in Replicas, Dedup(r) \/ DedupFails(r) \/ DedupResent(r) PROVE IInv'
  <2>1. /\ job[r].pc = "dedup" /\ At(r, "dedup") /\ Alert(r) \in Orgs \X Dates /\ Running(r)
        /\ UNCHANGED <<day, due, admins, last, mails, asked>>
    BY <1>0, <1>4
       DEF Dedup, DedupFails, DedupResent, At, Running, Alert, IInv, JobSound, TypeOK, JobStates
  <2>2. CASE DedupResent(r) \/ (Dedup(r) /\ Alert(r) \in keys)
    <3>1. /\ Continue(r) /\ UNCHANGED unguarded
          /\ hit \subseteq hit' /\ hit' \subseteq hit \union {Alert(r)}
          /\ keys \subseteq keys' /\ keys' \subseteq keys \union {Alert(r)}
          /\ keys' \ keys \subseteq hit'
      BY <2>2 DEF Dedup, DedupResent
    <3>2. /\ job' \in [Replicas -> JobStates]
          /\ job'[r].pc = "contracts" /\ job'[r].today = job[r].today /\ job'[r].org = NoOrg
          /\ \A s \in Replicas \ {r} : job'[s] = job[s]
      BY <1>0, <3>1, ContinueEffect
    <3>3. TypeOK'
      BY <1>0, <2>1, <3>1, <3>2 DEF TypeOK
    <3>4. QED BY <2>1, <3>1, <3>2, <3>3, Moves
  <2>3. CASE DedupFails(r) \/ (Dedup(r) /\ Alert(r) \notin keys)
    <3>1. /\ Become(r, [job[r] EXCEPT !.pc = "admins"]) /\ UNCHANGED hit
          /\ unguarded \subseteq unguarded' /\ unguarded' \subseteq unguarded \union {Alert(r)}
          /\ \/ Alert(r) \in unguarded' /\ keys' \in {keys, keys \union {Alert(r)}}
             \/ Alert(r) \notin keys /\ keys' = keys \union {Alert(r)}
      BY <2>3 DEF Dedup, DedupFails
    <3>2. job' \in [Replicas -> JobStates]
      <4>1. job[r] \in JobStates /\ "admins" \in PCs
        BY <1>0 DEF TypeOK, PCs
      <4>2. [job[r] EXCEPT !.pc = "admins"] \in JobStates
        BY <4>1 DEF JobStates
      <4>3. QED BY <1>0, <3>1, <4>2, BecomeEffect
    <3>3. TypeOK'
      BY <1>0, <2>1, <3>1, <3>2 DEF TypeOK
    <3>4. QED BY <2>1, <3>1, <3>3, Begins
  <2>4. QED BY <1>4, <2>2, <2>3
<1>5. ASSUME NEW r \in Replicas, ListAdmins(r) PROVE IInv'
  BY <1>5, Asks
<1>6. ASSUME NEW r \in Replicas, Send(r) PROVE IInv'
  BY <1>6, SendKeeps
<1>7. ASSUME NEW r \in Replicas, ListAdminsFails(r) \/ SendFails(r) PROVE IInv'
  <2>1. /\ job[r].pc \in {"admins", "send"} /\ job[r].org \in Orgs /\ Alert(r) \in Orgs \X Dates
        /\ Running(r)
        /\ UNCHANGED <<day, keys, due, admins, last, mails, asked, unguarded>>
        /\ hit' = hit \union {Alert(r)}
    BY <1>0, <1>7
       DEF ListAdminsFails, SendFails, At, Running, Alert, IInv, JobSound, TypeOK, JobStates
  <2>2. /\ job' \in [Replicas -> JobStates]
        /\ job'[r].today = job[r].today
        /\ \/ job'[r].pc = "contracts" /\ job'[r].org = NoOrg
           \/ /\ job'[r].pc = "send" /\ job[r].pc = "send"
              /\ job'[r].org = job[r].org /\ job'[r].to \subseteq job[r].to
        /\ \A s \in Replicas \ {r} : job'[s] = job[s]
    <3>1. CASE ListAdminsFails(r)
      BY <1>0, <3>1, ContinueEffect DEF ListAdminsFails
    <3>2. CASE SendFails(r)
      <4>1. PICK u \in job[r].to : Sent(r, u)
        BY <3>2 DEF SendFails
      <4>2. QED BY <1>0, <3>2, <4>1, SentEffect DEF SendFails, At
    <3>3. QED BY <1>7, <3>1, <3>2
  <2>3. TypeOK'
    BY <1>0, <2>1, <2>2 DEF TypeOK
  <2>4. job'[r].pc = "send" => job'[r].org # NoOrg
    BY <2>1, <2>2
  <2>5. QED BY <2>1, <2>2, <2>3, <2>4, Moves
<1>8. ASSUME NEW r \in Replicas, Finish(r) \/ Restart(r) \/ Hang(r) PROVE IInv'
  <2>1. /\ UNCHANGED <<day, keys, due, admins, mails, asked, unguarded>>
        /\ last' \in [Replicas -> Dates]
    BY <1>0, <1>8 DEF Finish, Restart, Hang, TypeOK
  <2>2. /\ job' \in [Replicas -> JobStates] /\ job'[r].pc \in {"idle", "hung"}
        /\ job'[r].org = NoOrg
        /\ \A s \in Replicas \ {r} : job'[s] = job[s]
    <3>1. PICK pc \in {"idle", "hung"}, today \in Dates :
            Become(r, [pc |-> pc, today |-> today, todo |-> {}, org |-> NoOrg, to |-> {}])
      <4>1. job[r].today \in Dates /\ 0 \in Dates
        BY <1>0 DEF TypeOK, JobStates, Dates
      <4>2. CASE Finish(r) \/ Restart(r)
        BY <4>1, <4>2 DEF Finish, Restart, Idle
      <4>3. CASE Hang(r)
        BY <4>1, <4>3 DEF Hang
      <4>4. QED BY <1>8, <4>2, <4>3
    <3>2. [pc |-> pc, today |-> today, todo |-> {}, org |-> NoOrg, to |-> {}] \in JobStates
      BY DEF JobStates, PCs
    <3>3. QED BY <1>0, <3>1, <3>2, BecomeEffect
  <2>3. Undone(r) \subseteq Orgs \X Dates
    BY <1>0 DEF Undone, TypeOK, JobStates
  <2>4. hit \subseteq hit' /\ hit' \subseteq Orgs \X Dates
    BY <1>0, <1>8, <2>3 DEF Finish, Restart, Hang, TypeOK
  <2>5. job[r].pc \in {"admins", "send"} => Alert(r) \in hit'
    <3> SUFFICES ASSUME job[r].pc \in {"admins", "send"} PROVE Alert(r) \in hit'
      OBVIOUS
    <3>1. Alert(r) \in Undone(r)
      BY DEF IInv, JobSound, Undone, Running, At, Alert
    <3>2. QED BY <1>8, <3>1 DEF Finish, Restart, Hang, At
  <2>6. TypeOK' /\ ~Running(r)'
    BY <1>0, <2>1, <2>2, <2>4 DEF TypeOK, Running, At
  <2>7. QED BY <2>1, <2>2, <2>4, <2>5, <2>6, Moves
<1>9. CASE Reorganize \/ UNCHANGED vars
  <2>1. UNCHANGED <<day, keys, job, last, mails, asked, unguarded, hit>>
    BY <1>9 DEF Reorganize, vars
  <2>2. due' \subseteq Orgs /\ admins' \in [Orgs -> SUBSET Users]
    BY <1>0, <1>9 DEF Reorganize, TypeOK, vars
  <2>3. TypeOK' /\ \A r \in Replicas : JobSound(r)'
    BY <1>0, <2>1, <2>2 DEF IInv, TypeOK, JobSound, Read
  <2>4. ASSUME NEW o \in Orgs, NEW d \in Dates PROVE AlertSound(o, d)'
    <3>1. AlertSound(o, d)
      BY DEF IInv
    <3>2. Once(o, d)'
      BY <2>1, <3>1 DEF AlertSound, Once, Alerts, IsAsked, Read, Running, At
    <3>3. ListSound(o, d)'
      BY <2>1, <3>1 DEF AlertSound, ListSound, IsDue, Read
    <3>4. KeySound(o, d)'
      BY <2>1, <3>1 DEF AlertSound, KeySound, Alerts, IsAsked, Read
    <3>5. QED BY <3>2, <3>3, <3>4 DEF AlertSound
  <2>5. QED BY <2>3, <2>4 DEF IInv
<1>10. CASE NextDay
  <2>1. /\ day' = day + 1 /\ day' \in Dates /\ day \in Dates
        /\ UNCHANGED <<keys, due, admins, job, last, mails, asked, unguarded, hit>>
    BY <1>0, <1>10 DEF NextDay, TypeOK, Dates
  <2>2. TypeOK' /\ \A r \in Replicas : JobSound(r)'
    BY <1>0, <2>1 DEF IInv, TypeOK, JobSound, Read
  <2>3. ASSUME NEW o \in Orgs, NEW d \in Dates PROVE AlertSound(o, d)'
    <3>1. AlertSound(o, d) /\ (d < day => d < day')
      BY <2>1 DEF IInv, Dates
    <3>2. Once(o, d)'
      BY <2>1, <3>1 DEF AlertSound, Once, Alerts, IsAsked, Read, Running, At
    <3>3. ListSound(o, d)' /\ KeySound(o, d)'
      BY <2>1, <3>1 DEF AlertSound, ListSound, KeySound, Alerts, IsDue, IsAsked, Read
    <3>4. QED BY <3>2, <3>3 DEF AlertSound
  <2>4. QED BY <2>2, <2>3 DEF IInv
<1>11. CASE ExpireKey \/ LoseKey
  <2>1. PICK k \in keys :
          /\ keys' = keys \ {k} /\ unguarded \subseteq unguarded'
          /\ \/ k \in unguarded'
             \/ k[2] < day /\ \A r \in Replicas : Running(r) => job[r].today # k[2]
    BY <1>11 DEF ExpireKey, LoseKey
  <2>2. /\ UNCHANGED <<day, due, admins, job, last, mails, asked, hit>>
        /\ unguarded' \subseteq Orgs \X Dates
    BY <1>0, <1>11 DEF ExpireKey, LoseKey, TypeOK
  <2>3. TypeOK' /\ \A r \in Replicas : JobSound(r)'
    BY <1>0, <2>1, <2>2 DEF IInv, TypeOK, JobSound, Read
  <2>4. ASSUME NEW o \in Orgs, NEW d \in Dates, <<o, d>> \notin unguarded' PROVE Once(o, d)'
    <3>0. Once(o, d) /\ <<o, d>> \notin unguarded
      BY <2>1, <2>4 DEF IInv, AlertSound
    <3>1. CASE k = <<o, d>>
      <4>1. d < day /\ \A r \in Replicas : Running(r) => job[r].today # d
        BY <2>1, <2>4, <3>1
      <4>2. \A r \in Replicas : ~Alerts(r, o, d)
        BY <4>1 DEF Alerts, Running, At
      <4>3. QED BY <2>2, <3>0, <4>1, <4>2 DEF Once, Alerts, Read, Running, At
    <3>2. CASE k # <<o, d>>
      BY <2>1, <2>2, <3>0, <3>2 DEF Once, Alerts, IsAsked, Read, Running, At
    <3>3. QED BY <3>1, <3>2
  <2>5. ASSUME NEW o \in Orgs, NEW d \in Dates PROVE ListSound(o, d)' /\ KeySound(o, d)'
    <3>1. ListSound(o, d) /\ KeySound(o, d)
      BY DEF IInv, AlertSound
    <3>2. ListSound(o, d)'
      BY <2>2, <3>1 DEF ListSound, IsDue, Read
    <3>3. KeySound(o, d)'
      BY <2>1, <2>2, <3>1 DEF KeySound, Alerts, IsAsked, Read
    <3>4. QED BY <3>2, <3>3
  <2>6. \A o \in Orgs, d \in Dates : Once(o, d)'
    BY <2>4 DEF Once
  <2>7. QED BY <2>3, <2>5, <2>6 DEF IInv, AlertSound
<1>12. QED
  BY <1>1, <1>2, <1>3, <1>4, <1>5, <1>6, <1>7, <1>8, <1>9, <1>10, <1>11 DEF Next, Step

LEMMA Invariance == Spec => []IInv
BY IInvInit, IInvStep, PTL DEF Spec

-----------------------------------------------------------------------------
\* Every variable of the notifier stays in its type.
THEOREM NotifierTypeCorrect == Spec => []TypeOK
BY Invariance, PTL DEF IInv

\* No admin is alerted twice for an organization and a date whose dedup key
\* held, on any number of replicas, whoever is appointed or removed meanwhile.
THEOREM AlertedOnce == Spec => []OncePerDate
<1>1. IInv => OncePerDate
  <2> SUFFICES ASSUME IInv, NEW o \in Orgs, NEW d \in Dates, NEW u \in Users,
                      mails[o][d][u] > 1, <<o, d>> \notin unguarded
               PROVE  FALSE
    BY DEF OncePerDate
  <2>1. mails[o][d][u] <= 1 /\ mails[o][d][u] \in 0..2
    BY DEF IInv, AlertSound, Once, TypeOK
  <2>2. QED BY <2>1
<1>2. QED BY <1>1, Invariance, PTL

-----------------------------------------------------------------------------
\* The alert of o for date d has been begun, or hit by a fault.
Handled(o, d) == (\E r \in Replicas : Alerts(r, o, d)) \/ <<o, d>> \in hit \/ IsAsked(o, d)

\* It is under way, was hit by a fault, or all of some list have been mailed.
Covered(o, d) == Alerting(o, d) \/ <<o, d>> \in hit \/ ListIsTold(o, d)

LEMMA HandledIsCovered ==
    IInv => \A o \in Orgs, d \in Dates : Handled(o, d) <=> Covered(o, d)
<1> SUFFICES ASSUME IInv, NEW o \in Orgs, NEW d \in Dates PROVE Handled(o, d) <=> Covered(o, d)
  OBVIOUS
<1>1. Alerting(o, d) <=> \E r \in Replicas : Alerts(r, o, d)
  BY DEF Alerting, Alerts, At
<1>2. ListIsTold(o, d) => IsAsked(o, d)
  BY DEF ListIsTold, IsAsked, Read
<1>3. ASSUME IsAsked(o, d) PROVE Covered(o, d)
  <2>1. PICK list \in SUBSET Users : Read(o, d, list)
    BY <1>3 DEF IsAsked
  <2>2. <<o, d>> \in hit \/ \A u \in list : mails[o][d][u] > 0 \/ IsDue(o, d, u)
    BY <2>1 DEF IInv, AlertSound, ListSound
  <2>3. \A u \in list : IsDue(o, d, u) => Alerting(o, d)
    BY DEF IsDue, Alerting, At
  <2>4. QED BY <2>1, <2>2, <2>3 DEF Covered, ListIsTold, Read
<1>4. QED BY <1>1, <1>2, <1>3 DEF Handled, Covered

\* A dedup key silences an organization only while its alert is under way, after
\* a fault, or when everyone on the list read under it has been mailed.
THEOREM KeysMeanAlerts == Spec => []KeyMeansAlert
<1>1. IInv => KeyMeansAlert
  <2> SUFFICES ASSUME IInv, NEW k \in keys
               PROVE  Alerting(k[1], k[2]) \/ k \in hit \/ ListIsTold(k[1], k[2])
    BY DEF KeyMeansAlert
  <2>1. k[1] \in Orgs /\ k[2] \in Dates /\ k = <<k[1], k[2]>>
    BY DEF IInv, TypeOK
  <2>2. Handled(k[1], k[2])
    BY <2>1 DEF IInv, AlertSound, KeySound, Handled
  <2>3. QED BY <2>1, <2>2, HandledIsCovered DEF Covered
<1>2. QED BY <1>1, Invariance, PTL

-----------------------------------------------------------------------------
\* Replica r goes on from organization o, at which it was on a run of date d.
Leaves(r, o, d) == job[r].org = o /\ job[r].today = d /\ job'[r].org # o

\* A run that has found contracts leaves no organization with its alert neither
\* under way, nor told to all of a list, nor hit by a fault.
LeavesNobodyOut == \A r \in Replicas, o \in Orgs, d \in Dates : Leaves(r, o, d) => Covered(o, d)'

\* That stays so, whatever others do later.
StaysCovered == \A o \in Orgs, d \in Dates : Covered(o, d) => Covered(o, d)'

\* Only its own steps change the run of a replica.
LEMMA OwnStepOnly ==
    ASSUME IInv, [Next]_vars, NEW r \in Replicas, job'[r] # job[r]
    PROVE  Start(r) \/ StartFails(r) \/ Step(r) \/ Hang(r) \/ Restart(r)
<1>0. TypeOK
  BY DEF IInv
<1>1. PICK s \in Replicas : Start(s) \/ StartFails(s) \/ Step(s) \/ Hang(s) \/ Restart(s)
  BY DEF Next, Reorganize, NextDay, ExpireKey, LoseKey, vars
<1>2. s = r
  <2>1. CASE Send(s)
    <3>1. PICK p \in Orgs, e \in Dates, u \in Users : Delivers(s, p, e, u)
      BY <2>1, SendEffect
    <3>2. QED BY <3>1 DEF Delivers
  <2>2. CASE ~Send(s)
    BY <1>0, <1>1, <2>2
       DEF Start, StartFails, Step, Hang, Restart, ListContracts, ListContractsFails, Dedup,
           DedupFails, DedupResent, ListAdmins, ListAdminsFails, SendFails, Finish, Sent,
           Continue, Become, TypeOK
  <2>3. QED BY <2>1, <2>2
<1>3. QED BY <1>1, <1>2

LEMMA HistoryGrows == [Next]_vars => hit \subseteq hit' /\ asked \subseteq asked'
BY DEF Next, Start, StartFails, Step, Hang, Restart, ListContracts, ListContractsFails, Dedup,
       DedupFails, DedupResent, ListAdmins, ListAdminsFails, Send, SendFails, Finish, Reorganize,
       NextDay, ExpireKey, LoseKey, history, vars

\* How a replica's step leaves the alert it is at.
LEMMA Departure ==
    ASSUME IInv, [Next]_vars, NEW r \in Replicas, NEW o \in Orgs, NEW d \in Dates,
           job[r].org = o, job[r].today = d, job'[r] # job[r]
    PROVE  Handled(o, d)' \/ (job[r].pc = "dedup" /\ <<o, d>> \in keys)
<1>0. /\ TypeOK /\ JobSound(r) /\ <<o, d>> = Alert(r) /\ job[r] \in JobStates
      /\ job[r].pc \in {"dedup", "admins", "send"}
  BY DEF IInv, TypeOK, Alert, JobSound
<1>1. Start(r) \/ StartFails(r) \/ Step(r) \/ Hang(r) \/ Restart(r)
  BY OwnStepOnly
<1>2. CASE Dedup(r) \/ DedupFails(r) \/ DedupResent(r)
  <2>1. \/ job[r].pc = "dedup" /\ <<o, d>> \in keys
        \/ <<o, d>> \in hit'
        \/ Become(r, [job[r] EXCEPT !.pc = "admins"])
    BY <1>0, <1>2 DEF Dedup, DedupFails, DedupResent, At
  <2>2. CASE Become(r, [job[r] EXCEPT !.pc = "admins"])
    <3>1. job'[r].pc = "admins" /\ job'[r].org = o /\ job'[r].today = d
      BY <1>0, <2>2 DEF Become, TypeOK, JobStates
    <3>2. QED BY <3>1 DEF Handled, Alerts
  <2>3. QED BY <2>1, <2>2 DEF Handled
<1>3. CASE ListAdmins(r)
  <2>1. PICK list \in SUBSET Users : list = admins[job[r].org]
    BY <1>0 DEF TypeOK
  <2>2. <<o, d, list>> \in asked'
    BY <1>3, <2>1 DEF ListAdmins
  <2>3. QED BY <2>2 DEF Handled, IsAsked, Read
<1>4. CASE Send(r)
  <2>1. PICK list \in SUBSET Users : Read(o, d, list)
    BY <1>0, <1>4 DEF Send, At, JobSound
  <2>2. Read(o, d, list)'
    BY <2>1, HistoryGrows DEF Read
  <2>3. QED BY <2>2 DEF Handled, IsAsked
<1>5. CASE ListAdminsFails(r) \/ SendFails(r)
  BY <1>0, <1>5 DEF ListAdminsFails, SendFails, Handled
<1>6. CASE Hang(r) \/ Restart(r)
  <2>1. <<o, d>> \in Undone(r)
    BY <1>0 DEF Undone, Running, At, Alert
  <2>2. QED BY <1>6, <2>1 DEF Hang, Restart, Handled
<1>7. QED
  BY <1>0, <1>1, <1>2, <1>3, <1>4, <1>5, <1>6
     DEF Step, Start, StartFails, ListContracts, ListContractsFails, Finish, At

LEMMA HandledStays ==
    ASSUME IInv, [Next]_vars, NEW o \in Orgs, NEW d \in Dates, Handled(o, d)
    PROVE  Handled(o, d)'
<1>1. ASSUME NEW r \in Replicas, Alerts(r, o, d) PROVE Handled(o, d)'
  <2>1. CASE job'[r] = job[r]
    BY <1>1, <2>1 DEF Alerts, Handled
  <2>2. CASE job'[r] # job[r]
    BY <1>1, <2>2, Departure DEF Alerts
  <2>3. QED BY <2>1, <2>2
<1>2. CASE <<o, d>> \in hit \/ IsAsked(o, d)
  BY <1>2, HistoryGrows DEF Handled, IsAsked, Read
<1>3. QED BY <1>1, <1>2 DEF Handled

LEMMA LeavingIsHandled ==
    ASSUME IInv, [Next]_vars, NEW r \in Replicas, NEW o \in Orgs, NEW d \in Dates, Leaves(r, o, d)
    PROVE  Handled(o, d)'
<1>1. CASE <<o, d>> \in keys
  <2>1. Handled(o, d)
    BY <1>1 DEF IInv, AlertSound, KeySound, Handled
  <2>2. QED BY <2>1, HandledStays
<1>2. CASE <<o, d>> \notin keys
  BY <1>2, Departure DEF Leaves
<1>3. QED BY <1>1, <1>2

HandledMeansCovered == \A o \in Orgs, d \in Dates : Handled(o, d) <=> Covered(o, d)

\* The safety behind AlertsAreSent: whenever a run goes on from an organization
\* with expiring contracts, the alert of that date is under way somewhere, has
\* reached everyone on a list of its admins, or was hit by a fault; and it stays
\* so.  No interleaving of replicas and of changes among the members, with the
\* keys trustworthy or not, leaves an organization to a replica that skips it.
THEOREM RunsLeaveNobodyOut == Spec => [][LeavesNobodyOut /\ StaysCovered]_vars
<1>1. IInv => HandledMeansCovered
  BY HandledIsCovered DEF HandledMeansCovered
<1>2. IInv /\ HandledMeansCovered /\ HandledMeansCovered' /\ [Next]_vars
        => LeavesNobodyOut /\ StaysCovered
  <2> SUFFICES ASSUME IInv, HandledMeansCovered, HandledMeansCovered', [Next]_vars
               PROVE  LeavesNobodyOut /\ StaysCovered
    OBVIOUS
  <2>1. LeavesNobodyOut
    BY LeavingIsHandled DEF LeavesNobodyOut, HandledMeansCovered
  <2>2. StaysCovered
    BY HandledStays DEF StaysCovered, HandledMeansCovered
  <2>3. QED BY <2>1, <2>2
<1>3. QED BY <1>1, <1>2, Invariance, PTL DEF Spec

\* One list is read at most; nobody is mailed twice; and when nobody is being
\* mailed any more, exactly those on the list have been mailed.
MailedOnce ==
    \A o \in Orgs, d \in Dates :
        /\ \A u \in Users : mails[o][d][u] <= 1
        /\ \A list, other \in SUBSET Users : Read(o, d, list) /\ Read(o, d, other) => list = other
        /\ \A list \in SUBSET Users : Read(o, d, list) /\ ~Alerting(o, d) =>
             \A u \in Users : mails[o][d][u] = IF u \in list THEN 1 ELSE 0
        /\ <<o, d>> \in keys => Alerting(o, d) \/ IsAsked(o, d)

\* Without faults the admins of an organization are read by one run of a date at
\* most, on any number of replicas, and whoever is on that list is mailed exactly
\* once and nobody else.  Who becomes an admin after that is not mailed.
THEOREM FaultFreeExactlyOnce == ASSUME ~Faults PROVE Spec => []MailedOnce
<1> DEFINE Clean == hit = {} /\ unguarded = {}
<1>1. Init => Clean
  BY DEF Init
<1>2. Clean /\ [Next]_vars => Clean'
  BY DEF Next, Start, StartFails, Step, Hang, Restart, ListContracts, ListContractsFails, Dedup,
      DedupFails, DedupResent, ListAdmins, ListAdminsFails, Send, SendFails, Finish, Reorganize,
      NextDay, ExpireKey, LoseKey, history, vars
<1>3. IInv /\ Clean => MailedOnce
  <2> SUFFICES ASSUME IInv, Clean, NEW o \in Orgs, NEW d \in Dates
               PROVE  /\ \A u \in Users : mails[o][d][u] <= 1
                      /\ \A list, other \in SUBSET Users :
                           Read(o, d, list) /\ Read(o, d, other) => list = other
                      /\ \A list \in SUBSET Users : Read(o, d, list) /\ ~Alerting(o, d) =>
                           \A u \in Users : mails[o][d][u] = IF u \in list THEN 1 ELSE 0
                      /\ <<o, d>> \in keys => Alerting(o, d) \/ IsAsked(o, d)
    BY DEF MailedOnce
  <2>1. Once(o, d) /\ ListSound(o, d) /\ KeySound(o, d)
    BY DEF IInv, AlertSound
  <2>2. \A u \in Users : mails[o][d][u] <= 1
    BY <2>1 DEF Once
  <2>3. \A list, other \in SUBSET Users : Read(o, d, list) /\ Read(o, d, other) => list = other
    BY <2>1 DEF Once
  <2>4. ASSUME NEW list \in SUBSET Users, Read(o, d, list), ~Alerting(o, d), NEW u \in Users
        PROVE  mails[o][d][u] = IF u \in list THEN 1 ELSE 0
    <3>1. mails[o][d][u] \in 0..2 /\ mails[o][d][u] <= 1
      BY <2>2 DEF IInv, TypeOK
    <3>2. ~IsDue(o, d, u)
      BY <2>4 DEF IsDue, Alerting, At
    <3>3. u \in list => mails[o][d][u] > 0
      BY <2>1, <2>4, <3>2 DEF ListSound
    <3>4. mails[o][d][u] > 0 => u \in list
      BY <2>1, <2>3, <2>4 DEF ListSound
    <3>5. QED BY <3>1, <3>3, <3>4
  <2>5. <<o, d>> \in keys => Alerting(o, d) \/ IsAsked(o, d)
    BY <2>1 DEF KeySound, Alerts, Alerting, At
  <2>6. QED BY <2>2, <2>3, <2>4, <2>5
<1>4. QED BY <1>1, <1>2, <1>3, Invariance, PTL DEF Spec
=============================================================================
