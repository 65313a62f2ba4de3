------------------------- MODULE RateLimiterProofs -------------------------
(***************************************************************************)
(* Proofs about RateLimiter, for any limit, window and number of requests. *)
(***************************************************************************)
EXTENDS RateLimiter, FiniteSetTheorems, TLAPS

USE LimitAssumption, RetriesAssumption, FaultsAssumption

\* The requests answered from a window got different numbers from INCR, none of
\* them above the counter; a try is counted before it is decided upon, and once.
NumbersSound ==
    /\ \A r \in Requests : Answered(r) => seen[r] \in 1..count /\ pc[r] \notin {"new", "incr"}
    /\ \A r, s \in Requests : Answered(r) /\ Answered(s) /\ seen[r] = seen[s] => r = s
    /\ \A w \in window : w[2] <= try[w[1]]

\* The counter lets in the numbers up to the limit.
AdmittedSound == \A r \in Requests : pc[r] = "admitted" => seen[r] <= Limit

IInv == TypeOK /\ NumbersSound /\ AdmittedSound

LEMMA NoTTLValue == NoTTL \in Nat /\ Window \in 1..NoTTL /\ NoTTL \in 1..NoTTL
BY DEF NoTTL

LEMMA IInvInit == Init => IInv
<1> SUFFICES ASSUME Init PROVE IInv
  OBVIOUS
<1>1. TypeOK
  <2>1. 0 \in 0..MaxRetries
    OBVIOUS
  <2>2. try \in [Requests -> 0..MaxRetries]
    BY <2>1 DEF Init
  <2>3. QED BY <2>2, NoTTLValue DEF Init, TypeOK, PCs
<1>2. NumbersSound /\ AdmittedSound
  BY DEF Init, NumbersSound, AdmittedSound, Answered
<1>3. QED BY <1>1, <1>2 DEF IInv

\* A step that counts nobody and admits nobody.
LEMMA QuietStep ==
    ASSUME IInv, NEW r \in Requests, NEW l \in PCs,
           l \notin {"new", "incr"} \/ ~Answered(r), l = "admitted" => seen[r] <= Limit,
           Goto(r, l), UNCHANGED <<count, try, seen, window>>
    PROVE  pc' \in [Requests -> PCs] /\ NumbersSound' /\ AdmittedSound'
<1> USE DEF IInv, TypeOK, Goto
<1>1. pc' \in [Requests -> PCs]
  OBVIOUS
<1>2. NumbersSound'
  BY DEF NumbersSound, Answered
<1>3. AdmittedSound'
  BY DEF AdmittedSound
<1>4. QED BY <1>1, <1>2, <1>3

LEMMA KeyRemoved ==
    ASSUME IInv, RemoveKey, UNCHANGED <<pc, try, seen>>
    PROVE  IInv'
<1>1. TypeOK'
  BY NoTTLValue DEF IInv, TypeOK, RemoveKey
<1>2. NumbersSound' /\ AdmittedSound'
  BY DEF IInv, RemoveKey, NumbersSound, AdmittedSound, Answered
<1>3. QED BY <1>1, <1>2 DEF IInv

LEMMA IInvStep == IInv /\ [Next]_vars => IInv'
<1> SUFFICES ASSUME IInv, [Next]_vars PROVE IInv'
  OBVIOUS
<1>0. TypeOK /\ NumbersSound
  BY DEF IInv
<1>1. ASSUME NEW r \in Requests, Arrive(r) PROVE IInv'
  <2>1. ~Answered(r)
    BY <1>0, <1>1 DEF Arrive, NumbersSound
  <2>2. pc' \in [Requests -> PCs] /\ NumbersSound' /\ AdmittedSound'
    BY <1>1, <2>1, QuietStep DEF Arrive, PCs
  <2>3. QED BY <1>0, <1>1, <2>2 DEF Arrive, IInv, TypeOK
<1>2. ASSUME NEW r \in Requests, Incr(r) PROVE IInv'
  <2>1. TypeOK'
    BY <1>0, <1>2 DEF Incr, Goto, TypeOK, PCs
  <2>2. \A s \in Requests : pc'[s] = (IF s = r THEN "expire" ELSE pc[s])
                         /\ seen'[s] = (IF s = r THEN count + 1 ELSE seen[s])
    BY <1>0, <1>2 DEF Incr, Goto, TypeOK
  <2>3. \A s \in Requests \ {r} : Answered(s)' <=> Answered(s)
    BY <1>2 DEF Incr, Answered
  <2>5. NumbersSound'
    <3>1. \A s \in Requests : Answered(s)' => seen'[s] \in 1..count' /\ pc'[s] \notin {"new", "incr"}
      BY <1>0, <1>2, <2>2, <2>3 DEF Incr, NumbersSound, TypeOK
    <3>2. \A s \in Requests \ {r} : Answered(s)' => seen'[s] # seen'[r]
      BY <1>0, <1>2, <2>2, <2>3 DEF NumbersSound, TypeOK
    <3>3. \A s, u \in Requests : Answered(s)' /\ Answered(u)' /\ seen'[s] = seen'[u] => s = u
      BY <1>0, <2>2, <2>3, <3>2 DEF NumbersSound
    <3>4. \A w \in window' : w[2] <= try'[w[1]]
      BY <1>0, <1>2 DEF Incr, NumbersSound, TypeOK
    <3>5. QED BY <3>1, <3>3, <3>4 DEF NumbersSound
  <2>4. AdmittedSound'
    BY <1>0, <1>2 DEF Incr, Goto, AdmittedSound, IInv, TypeOK
  <2>6. QED BY <2>1, <2>4, <2>5 DEF IInv
<1>3. ASSUME NEW r \in Requests, ExpireNX(r) PROVE IInv'
  <2>1. pc' \in [Requests -> PCs] /\ NumbersSound' /\ AdmittedSound'
    BY <1>3, QuietStep DEF ExpireNX, PCs
  <2>2. ttl' \in 1..NoTTL /\ mishap' \in BOOLEAN
    <3>1. CASE count > 0 /\ ttl = NoTTL
      BY <1>3, <3>1, NoTTLValue DEF ExpireNX
    <3>2. CASE ~(count > 0 /\ ttl = NoTTL)
      BY <1>0, <1>3, <3>2 DEF ExpireNX, TypeOK
    <3>3. QED BY <3>1, <3>2
  <2>3. QED BY <1>0, <1>3, <2>1, <2>2 DEF ExpireNX, IInv, TypeOK
<1>4. ASSUME NEW r \in Requests, Decide(r) PROVE IInv'
  <2>1. pc' \in [Requests -> PCs] /\ NumbersSound' /\ AdmittedSound'
    <3>1. CASE seen[r] > Limit
      BY <1>4, <3>1, QuietStep DEF Decide, PCs
    <3>2. CASE ~(seen[r] > Limit)
      <4>1. seen[r] <= Limit
        BY <1>0, <3>2 DEF TypeOK
      <4>2. QED BY <1>4, <3>2, <4>1, QuietStep DEF Decide, PCs
    <3>3. QED BY <3>1, <3>2
  <2>2. QED BY <1>0, <1>4, <2>1 DEF Decide, IInv, TypeOK
<1>5. ASSUME NEW r \in Requests, FailOpen(r) PROVE IInv'
  <2>1. pc' \in [Requests -> PCs] /\ NumbersSound' /\ AdmittedSound'
    BY <1>5, QuietStep DEF FailOpen, Break, PCs
  <2>2. mishap' \in BOOLEAN
    BY <1>0, <1>5 DEF FailOpen, Break, TypeOK
  <2>3. QED BY <1>0, <1>5, <2>1, <2>2 DEF FailOpen, Break, IInv, TypeOK
<1>10. ASSUME NEW r \in Requests, Resend(r) PROVE IInv'
  <2>1. TypeOK'
    <3>1. mishap' \in BOOLEAN /\ try[r] + 1 \in 0..MaxRetries
      BY <1>0, <1>10 DEF Resend, Break, TypeOK
    <3>2. QED BY <1>0, <1>10, <3>1 DEF Resend, Break, Goto, TypeOK, PCs
  <2>2. ~Answered(r)' /\ \A s \in Requests \ {r} : Answered(s)' <=> Answered(s)
    BY <1>0, <1>10 DEF Resend, Break, Answered, NumbersSound, TypeOK
  <2>3. \A s \in Requests \ {r} : pc'[s] = pc[s]
    BY <1>0, <1>10 DEF Resend, Goto, TypeOK
  <2>4. \A w \in window' : w[2] <= try'[w[1]]
    BY <1>0, <1>10 DEF Resend, Break, NumbersSound, TypeOK
  <2>5. NumbersSound'
    BY <1>0, <1>10, <2>2, <2>3, <2>4 DEF Resend, Break, NumbersSound
  <2>6. AdmittedSound'
    BY <1>0, <1>10 DEF Resend, Break, Goto, AdmittedSound, IInv, TypeOK
  <2>7. QED BY <2>1, <2>5, <2>6 DEF IInv
<1>6. CASE Tick
  <2>1. CASE ttl = 1
    BY <1>6, <2>1, KeyRemoved DEF Tick
  <2>2. CASE ttl # 1
    <3>1. ttl' \in 1..NoTTL
      BY <1>0, <1>6, <2>2, NoTTLValue DEF Tick, TypeOK
    <3>2. QED BY <1>6, <2>2, <3>1 DEF Tick, IInv, TypeOK, NumbersSound, AdmittedSound, Answered
  <2>3. QED BY <2>1, <2>2
<1>7. CASE LoseKey
  BY <1>7, KeyRemoved DEF LoseKey
<1>8. CASE UNCHANGED vars
  BY <1>8 DEF vars, IInv, TypeOK, NumbersSound, AdmittedSound, Answered
<1>9. QED
  BY <1>1, <1>2, <1>3, <1>4, <1>5, <1>6, <1>7, <1>8, <1>10 DEF Next, Step

LEMMA Invariance == Spec => []IInv
BY IInvInit, IInvStep, PTL DEF Spec

-----------------------------------------------------------------------------
\* Every variable of the rate limiter stays in its type.
THEOREM LimiterTypeCorrect == Spec => []TypeOK
BY Invariance, PTL DEF IInv

\* The requests that one window lets in have different numbers from 1 to Limit,
\* and so there are at most Limit of them.
THEOREM LimitIsKept == Spec => []LimitHolds
<1>1. IInv => LimitHolds
  <2> SUFFICES ASSUME IInv PROVE LimitHolds
    OBVIOUS
  <2> DEFINE A == {r \in Requests : Answered(r) /\ pc[r] = "admitted"}
             number == [r \in A |-> seen[r]]
  <2>1. number \in Injection(A, 1..Limit)
    BY DEF IInv, TypeOK, NumbersSound, AdmittedSound, Injection, IsInjective
  <2>2. IsFiniteSet(1..Limit) /\ Cardinality(1..Limit) = Limit
    BY FS_Interval
  <2>3. Cardinality(A) <= Limit
    BY <2>1, <2>2, FS_Injection
  <2>4. QED BY <2>3 DEF LimitHolds
<1>2. QED BY <1>1, Invariance, PTL

\* A running window only gets shorter.
THEOREM WindowsOnlyShorten == Spec => WindowNeverExtended
<1>1. IInv /\ [Next]_vars => [count > 0 /\ ttl # NoTTL /\ count' > 0 => ttl' <= ttl]_vars
  <2> SUFFICES ASSUME IInv, [Next]_vars, count > 0, ttl # NoTTL, count' > 0
               PROVE  ttl' <= ttl
    OBVIOUS
  <2>1. ASSUME NEW r \in Requests, Arrive(r) \/ Step(r) PROVE ttl' <= ttl
    BY <2>1 DEF Arrive, Step, Incr, ExpireNX, Decide, Resend, FailOpen, Break, IInv, TypeOK, NoTTL
  <2>2. CASE Tick \/ LoseKey \/ UNCHANGED vars
    BY <2>2 DEF Tick, LoseKey, RemoveKey, vars, IInv, TypeOK, NoTTL
  <2>3. QED BY <2>1, <2>2 DEF Next
<1>2. QED BY <1>1, Invariance, PTL DEF Spec, WindowNeverExtended

-----------------------------------------------------------------------------
\* The counter is the number of tries of the window, and a key that has no
\* TTL is about to get one or has lost it to a broken connection.
CounterSound ==
    /\ IsFiniteSet(window) /\ count = Cardinality(window)
    /\ count > 0 /\ ttl = NoTTL => mishap \/ \E r \in Requests : pc[r] = "expire"

\* Who was turned away has seen a number above the limit.
RejectedSound == \A r \in Requests : pc[r] = "rejected" => seen[r] > Limit

CInv == IInv /\ CounterSound /\ RejectedSound

LEMMA CInvInit == Init => CInv
<1> SUFFICES ASSUME Init PROVE CInv
  OBVIOUS
<1>1. CounterSound /\ RejectedSound
  BY FS_EmptySet DEF Init, CounterSound, RejectedSound
<1>2. QED BY <1>1, IInvInit DEF CInv

LEMMA KeyGone ==
    ASSUME CInv, RemoveKey, UNCHANGED <<pc, try, seen>>
    PROVE  (CounterSound /\ RejectedSound)'
BY FS_EmptySet DEF CInv, RemoveKey, CounterSound, RejectedSound

LEMMA CInvStep == CInv /\ [Next]_vars => CInv'
<1> SUFFICES ASSUME CInv, [Next]_vars PROVE (CounterSound /\ RejectedSound)'
  BY IInvStep DEF CInv
<1> USE DEF CounterSound, RejectedSound, Goto
<1>0. TypeOK /\ NumbersSound /\ CounterSound /\ RejectedSound
  BY DEF CInv, IInv
<1>1. ASSUME NEW r \in Requests, Arrive(r) PROVE (CounterSound /\ RejectedSound)'
  BY <1>0, <1>1 DEF Arrive, TypeOK
<1>2. ASSUME NEW r \in Requests, Incr(r) PROVE (CounterSound /\ RejectedSound)'
  <2>1. <<r, try[r]>> \notin window
    BY <1>0, <1>2 DEF Incr, NumbersSound, Answered
  <2>2. IsFiniteSet(window') /\ count' = Cardinality(window')
    BY <1>0, <1>2, <2>1, FS_AddElement DEF Incr
  <2>3. pc'[r] = "expire" /\ \A s \in Requests \ {r} : pc'[s] = pc[s] /\ seen'[s] = seen[s]
    BY <1>0, <1>2 DEF Incr, TypeOK
  <2>4. QED BY <1>0, <2>2, <2>3
<1>3. ASSUME NEW r \in Requests, ExpireNX(r) PROVE (CounterSound /\ RejectedSound)'
  <2>1. CASE count > 0 /\ ttl = NoTTL
    <3>1. ttl' # NoTTL
      BY <1>3, <2>1 DEF ExpireNX, NoTTL
    <3>2. QED BY <1>0, <1>3, <3>1 DEF ExpireNX, TypeOK
  <2>2. CASE ~(count > 0 /\ ttl = NoTTL)
    BY <1>0, <1>3, <2>2 DEF ExpireNX, TypeOK
  <2>3. QED BY <2>1, <2>2
<1>4. ASSUME NEW r \in Requests, Decide(r) PROVE (CounterSound /\ RejectedSound)'
  BY <1>0, <1>4 DEF Decide, TypeOK
<1>5. ASSUME NEW r \in Requests, FailOpen(r) PROVE (CounterSound /\ RejectedSound)'
  BY <1>0, <1>5 DEF FailOpen, Break, TypeOK
<1>10. ASSUME NEW r \in Requests, Resend(r) PROVE (CounterSound /\ RejectedSound)'
  BY <1>0, <1>10 DEF Resend, Break, TypeOK
<1>6. CASE Tick
  <2>1. CASE ttl = 1
    BY <1>6, <2>1, KeyGone DEF Tick
  <2>2. CASE ttl # 1
    <3>1. ttl' # NoTTL
      BY <1>0, <1>6, <2>2 DEF Tick, TypeOK, NoTTL
    <3>2. QED BY <1>0, <1>6, <2>2, <3>1 DEF Tick
  <2>3. QED BY <2>1, <2>2
<1>7. CASE LoseKey
  BY <1>7, KeyGone DEF LoseKey
<1>8. CASE UNCHANGED vars
  BY <1>0, <1>8 DEF vars
<1>9. QED
  BY <1>1, <1>2, <1>3, <1>4, <1>5, <1>6, <1>7, <1>8, <1>10 DEF Next, Step

LEMMA CounterInvariance == Spec => []CInv
BY CInvInit, CInvStep, PTL DEF Spec

\* A 429 is never given early: as long as the window of a rejected request
\* lasts, more than Limit tries have been counted in it, each request with
\* MaxRetries + 1 of them at most, and with one if its connection never broke.
THEOREM RejectionsAreDeserved == Spec => []RejectedIsDeserved
<1>1. CInv => RejectedIsDeserved
  <2> SUFFICES ASSUME CInv, NEW r \in Requests, Answered(r), pc[r] = "rejected"
               PROVE  /\ Cardinality(Counted) > Limit \/ \E w \in window : w[2] > 0
                      /\ Cardinality(Counted) * (MaxRetries + 1) > Limit
    BY DEF RejectedIsDeserved
  <2>1. window \subseteq Requests \X (0..MaxRetries) /\ IsFiniteSet(window)
    BY DEF CInv, IInv, TypeOK, CounterSound
  <2>2. Cardinality(window) \in Nat /\ Cardinality(window) > Limit
    BY DEF CInv, IInv, TypeOK, NumbersSound, CounterSound, RejectedSound
  <2>3. IsFiniteSet(Counted)
    <3> DEFINE first == [w \in window |-> w[1]]
    <3>1. first \in Surjection(window, Counted)
      BY DEF Counted, Surjection
    <3>2. QED BY <2>1, <3>1, FS_Surjection
  <2>4. Cardinality(Counted) \in Nat
    BY <2>3, FS_CardinalityType
  <2>5. ASSUME \A w \in window : ~(w[2] > 0) PROVE Cardinality(Counted) > Limit
    <3> DEFINE first == [w \in window |-> w[1]]
    <3>1. first \in Injection(window, Counted)
      BY <2>1, <2>5 DEF Counted, Injection, IsInjective
    <3>2. Cardinality(window) <= Cardinality(Counted)
      BY <2>3, <3>1, FS_Injection
    <3>3. QED BY <2>2, <2>4, <3>2
  <2>6. Cardinality(Counted) * (MaxRetries + 1) > Limit
    <3> DEFINE tries == Counted \X (0..MaxRetries)
    <3>1. IsFiniteSet(0..MaxRetries) /\ Cardinality(0..MaxRetries) = MaxRetries + 1
      BY FS_Interval
    <3>2. IsFiniteSet(tries) /\ Cardinality(tries) = Cardinality(Counted) * (MaxRetries + 1)
      BY <2>3, <3>1, FS_Product
    <3>3. window \subseteq tries
      BY <2>1 DEF Counted
    <3>4. Cardinality(window) <= Cardinality(tries)
      BY <3>2, <3>3, FS_Subset
    <3>5. Cardinality(tries) \in Nat
      BY <3>2, FS_CardinalityType
    <3>6. QED BY <2>2, <3>2, <3>4, <3>5
  <2>7. QED BY <2>5, <2>6
<1>2. QED BY <1>1, CounterInvariance, PTL

\* The state in which WindowsEnd waits for the client's next request rather
\* than for the clock.
Endless == count > 0 /\ ttl = NoTTL /\ ~\E r \in Requests : pc[r] = "expire"

\* A counter without a TTL that nobody is about to set is the trace of a
\* connection that broke between the two commands; without faults there is none.
THEOREM EndlessWindowsAreMishaps == Spec => [](Endless => Faults /\ mishap)
<1> DEFINE OnlyByFault == mishap => Faults
<1>1. Init => OnlyByFault
  BY DEF Init
<1>2. OnlyByFault /\ [Next]_vars => OnlyByFault'
  BY DEF Next, Step, Arrive, Incr, ExpireNX, Decide, Resend, FailOpen, Break, Tick, LoseKey, RemoveKey, vars
<1>3. CInv /\ OnlyByFault => (Endless => Faults /\ mishap)
  BY DEF CInv, CounterSound, Endless
<1>4. QED BY <1>1, <1>2, <1>3, CounterInvariance, PTL DEF Spec
=============================================================================
