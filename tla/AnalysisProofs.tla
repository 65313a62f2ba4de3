--------------------------- MODULE AnalysisProofs ---------------------------
(***************************************************************************)
(* Proofs about AnalysisRequests and about AnalysisReview, which composes  *)
(* it with overrides and evidence, for any number of requests, overrides   *)
(* and retrievals.                                                         *)
(***************************************************************************)
EXTENDS AnalysisReview, FiniteSetTheorems, TLAPS

USE FreeAssumption, FaultsAssumption, NoOverrideAssumption, NoAnalysisAssumption
    DEF Broker!Sent, Broker!Stored

(* The requests *)

LEMMA TypeInit == Init => TypeOK
<1> SUFFICES ASSUME Init PROVE TypeOK
  OBVIOUS
<1>1. message \in [Requests -> Broker!Statuses]
  BY DEF Init, Broker!Init, Broker!Statuses
<1>2. QED BY <1>1 DEF Init, TypeOK, PCs, Answers, RowStates

LEMMA TypeStep == TypeOK /\ [Next]_vars => TypeOK'
<1> SUFFICES ASSUME TypeOK, [Next]_vars PROVE TypeOK'
  OBVIOUS
<1> USE DEF TypeOK, PCs, Critical, Answers, RowStates, Goto, Leave, Return, InCritical
<1>1. ASSUME NEW r \in Requests, Step(r) PROVE TypeOK'
  <2>1. CASE Find(r)
    BY <2>1 DEF Find
  <2>2. CASE AcquireLock(r)
    BY <2>2 DEF AcquireLock
  <2>3. CASE AcquireFails(r)
    BY <2>3 DEF AcquireFails
  <2>4. CASE Insert(r)
    BY <2>4 DEF Insert
  <2>5. CASE InsertFails(r)
    BY <2>5 DEF InsertFails
  <2>6. CASE Publish(r)
    BY <2>6 DEF Publish, Broker!Send, Broker!Statuses
  <2>7. CASE PublishFails(r)
    BY <2>7 DEF PublishFails, Broker!Refuse, Broker!Statuses
  <2>8. CASE Undo(r)
    BY <2>8 DEF Undo, Delete
  <2>9. CASE Release(r)
    BY <2>9 DEF Release, Delete
  <2>10. QED BY <1>1, <2>1, <2>2, <2>3, <2>4, <2>5, <2>6, <2>7, <2>8, <2>9 DEF Step
<1>2. ASSUME NEW r \in Requests, Arrive(r) \/ DeleteTwice(r) \/ Cancel(r) \/ Crash(r)
      PROVE  TypeOK'
  BY <1>2 DEF Arrive, DeleteTwice, LoseLock, Cancel, Crash
<1>7. ASSUME NEW r \in Requests, Work(r) \/ Redrive(r) PROVE TypeOK'
  BY <1>7 DEF Work, Redrive, Broker!DeadLetter, Broker!Redrive, Broker!Statuses
<1>3. CASE ExpireLock \/ DeleteContract
  BY <1>3 DEF ExpireLock, LoseLock, DeleteContract
<1>4. CASE BrokerStep
  BY <1>4 DEF BrokerStep, Broker!Store, Broker!Lose, Broker!Statuses
<1>5. CASE UNCHANGED vars
  BY <1>5 DEF vars
<1>6. QED BY <1>1, <1>2, <1>3, <1>4, <1>5, <1>7 DEF Next

\* What a request does to the critical section and to the history of its keys.
LEMMA GotoEffect ==
    ASSUME TypeOK, NEW r \in Requests, NEW l, Goto(r, l)
    PROVE  /\ pc'[r] = l /\ \A s \in Requests \ {r} : pc'[s] = pc[s]
           /\ InCritical' = IF l \in Critical THEN InCritical \union {r} ELSE InCritical \ {r}
BY DEF Goto, TypeOK, InCritical

LEMMA LeaveEffect ==
    ASSUME TypeOK, NEW r \in Requests, Leave(r)
    PROVE  /\ InCritical' = InCritical \ {r}
           /\ \A s \in Requests : pc'[s] = IF s = r THEN "returned" ELSE pc[s]
           /\ early' = early \/ (early' = {} /\ InCritical' = {})
<1>1. InCritical' = InCritical \ {r}
  BY GotoEffect DEF Leave, Critical
<1>2. \A s \in Requests : pc'[s] = IF s = r THEN "returned" ELSE pc[s]
  BY GotoEffect DEF Leave
<1>3. QED BY <1>1, <1>2 DEF Leave

\* The requests that are past SetNX, have not unlocked and do not have the key.
Keyless == {r \in InCritical : lock # r}

\* There is one of them for every key that went too early, at most; a key that
\* has gone does not come back.
KeysSound ==
    /\ IsFiniteSet(early) /\ IsFiniteSet(Keyless)
    /\ Cardinality(Keyless) <= Cardinality(early)
    /\ \A r \in early : lock # r /\ pc[r] \in Critical \union {"returned"}

IInv == TypeOK /\ KeysSound /\ LockLeaksOnlyByFault

\* A step after which no more requests lack their key, and none got it back.
LEMMA NoMoreKeyless ==
    ASSUME TypeOK, KeysSound, IsFiniteSet(Keyless'),
           Cardinality(Keyless') <= Cardinality(Keyless),
           early' = early \/ (early' = {} /\ Keyless' = {}),
           \A r \in early : lock' # r /\ pc'[r] \in Critical \union {"returned"}
    PROVE  KeysSound'
<1>1. CASE early' = early
  <2>1. /\ Cardinality(Keyless') \in Nat /\ Cardinality(Keyless) \in Nat
        /\ Cardinality(early) \in Nat
    BY FS_CardinalityType DEF KeysSound
  <2>2. QED BY <1>1, <2>1 DEF KeysSound
<1>2. CASE early' = {} /\ Keyless' = {}
  BY <1>2, FS_EmptySet DEF KeysSound
<1>3. QED BY <1>1, <1>2

LEMMA FewerKeyless ==
    ASSUME TypeOK, KeysSound, Keyless' \subseteq Keyless,
           early' = early \/ (early' = {} /\ Keyless' = {}),
           \A r \in early : lock' # r /\ pc'[r] \in Critical \union {"returned"}
    PROVE  KeysSound'
<1>1. IsFiniteSet(Keyless') /\ Cardinality(Keyless') <= Cardinality(Keyless)
  BY FS_Subset DEF KeysSound
<1>2. QED BY <1>1, NoMoreKeyless

\* A key that goes takes one request into Keyless and one into early: its owner,
\* who was in neither.
LEMMA LostKey ==
    ASSUME TypeOK, KeysSound, lock # Free, LoseLock, UNCHANGED pc
    PROVE  KeysSound'
<1>1. InCritical' = InCritical /\ Free \notin InCritical
  BY DEF InCritical
<1>2. \A r \in early' : lock' # r /\ pc'[r] \in Critical \union {"returned"}
  BY DEF KeysSound, LoseLock, TypeOK, InCritical
<1>3. CASE lock \in InCritical
  <2>1. early' = early \union {lock} /\ Keyless' = Keyless \union {lock}
    BY <1>1, <1>3 DEF LoseLock, Keyless
  <2>2. lock \notin early /\ lock \notin Keyless
    BY DEF KeysSound, Keyless
  <2>3. /\ IsFiniteSet(early') /\ Cardinality(early') = Cardinality(early) + 1
        /\ IsFiniteSet(Keyless') /\ Cardinality(Keyless') = Cardinality(Keyless) + 1
    BY <2>1, <2>2, FS_AddElement DEF KeysSound
  <2>4. Cardinality(early) \in Nat /\ Cardinality(Keyless) \in Nat
    BY FS_CardinalityType DEF KeysSound
  <2>5. Cardinality(Keyless') <= Cardinality(early')
    BY <2>3, <2>4 DEF KeysSound
  <2>6. QED BY <1>2, <2>3, <2>5 DEF KeysSound
<1>4. CASE lock \notin InCritical
  <2>1. early' = early /\ Keyless' = Keyless
    BY <1>1, <1>4 DEF LoseLock, Keyless
  <2>2. QED BY <1>2, <2>1 DEF KeysSound
<1>5. QED BY <1>3, <1>4

\* Whoever deletes a key that is not its own takes the place of its owner.
LEMMA KeyDeleted ==
    ASSUME TypeOK, KeysSound, NEW r \in InCritical, Leave(r), lock' = Free
    PROVE  KeysSound'
<1>1. /\ InCritical' = InCritical \ {r} /\ r \in Requests
      /\ \A s \in Requests : pc'[s] = IF s = r THEN "returned" ELSE pc[s]
      /\ early' = early \/ (early' = {} /\ InCritical' = {})
  BY LeaveEffect DEF InCritical
<1>2. Keyless' = InCritical \ {r}
  BY <1>1 DEF Keyless, InCritical
<1>3. \A s \in early : lock' # s /\ pc'[s] \in Critical \union {"returned"}
  BY <1>1 DEF KeysSound, TypeOK
<1>4. CASE lock = r
  <2>1. Keyless' \subseteq Keyless
    BY <1>2, <1>4 DEF Keyless
  <2>2. QED BY <1>1, <1>2, <1>3, <2>1, FewerKeyless
<1>5. CASE lock # r
  <2> DEFINE others == Keyless \ {r}
  <2>1. r \in Keyless /\ IsFiniteSet(Keyless)
    BY <1>5 DEF Keyless, KeysSound
  <2>2. IsFiniteSet(others) /\ Cardinality(others) = Cardinality(Keyless) - 1
    BY <2>1, FS_RemoveElement
  <2>3. /\ IsFiniteSet(others \union {lock})
        /\ Cardinality(others \union {lock}) \in {Cardinality(others), Cardinality(others) + 1}
    BY <2>2, FS_AddElement
  <2>4. Keyless' \subseteq others \union {lock}
    BY <1>2 DEF Keyless
  <2>5. IsFiniteSet(Keyless') /\ Cardinality(Keyless') <= Cardinality(others \union {lock})
    BY <2>3, <2>4, FS_Subset
  <2>6. /\ Cardinality(Keyless') \in Nat /\ Cardinality(Keyless) \in Nat
        /\ Cardinality(others) \in Nat
    BY <2>1, <2>2, <2>5, FS_CardinalityType
  <2>7. Cardinality(Keyless') <= Cardinality(Keyless)
    BY <2>2, <2>3, <2>5, <2>6
  <2>8. QED BY <1>1, <1>2, <1>3, <2>5, <2>7, NoMoreKeyless
<1>6. QED BY <1>4, <1>5

LEMMA KeysStep == TypeOK /\ KeysSound /\ [Next]_vars => KeysSound'
<1> SUFFICES ASSUME TypeOK, KeysSound, [Next]_vars PROVE KeysSound'
  OBVIOUS
<1>1. ASSUME NEW r \in Requests, Leave(r), UNCHANGED lock PROVE KeysSound'
  <2>1. /\ InCritical' = InCritical \ {r}
        /\ \A s \in Requests : pc'[s] = IF s = r THEN "returned" ELSE pc[s]
        /\ early' = early \/ (early' = {} /\ InCritical' = {})
    BY <1>1, LeaveEffect
  <2>2. Keyless' = Keyless \ {r} /\ (InCritical' = {} => Keyless' = {})
    BY <1>1, <2>1 DEF Keyless
  <2>3. QED BY <1>1, <2>1, <2>2, FewerKeyless DEF KeysSound, TypeOK
<1>2. ASSUME NEW r \in Requests, NEW l, Goto(r, l), UNCHANGED <<lock, early>>,
             \/ pc[r] \in Critical /\ l \in Critical
             \/ pc[r] \notin Critical \union {"returned"} /\ l \notin Critical
      PROVE  KeysSound'
  <2>1. /\ pc'[r] = l /\ \A s \in Requests \ {r} : pc'[s] = pc[s]
        /\ InCritical' = InCritical
    BY <1>2, GotoEffect DEF InCritical
  <2>2. Keyless' = Keyless
    BY <1>2, <2>1 DEF Keyless
  <2>3. QED BY <1>2, <2>1, <2>2, FewerKeyless DEF KeysSound, TypeOK
<1>3. ASSUME NEW r \in Requests, pc[r] = "lock", lock = Free, lock' = r,
             \/ Goto(r, "insert") /\ UNCHANGED early
             \/ Leave(r)
      PROVE  KeysSound'
  <2>1. /\ InCritical' \subseteq InCritical \union {r}
        /\ \A s \in Requests \ {r} : pc'[s] = pc[s]
        /\ early' = early \/ (early' = {} /\ InCritical' = {})
    BY <1>3, GotoEffect, LeaveEffect DEF Critical
  <2>2. Keyless' \subseteq Keyless /\ (InCritical' = {} => Keyless' = {})
    BY <1>3, <2>1 DEF Keyless, InCritical
  <2>3. r \notin early
    BY <1>3 DEF KeysSound, Critical
  <2>4. QED BY <1>3, <2>1, <2>2, <2>3, FewerKeyless DEF KeysSound, TypeOK
<1>4. ASSUME NEW r \in Requests, Step(r) PROVE KeysSound'
  <2>1. CASE Find(r)
    BY <1>1, <1>2, <2>1 DEF Find, Return, Critical
  <2>2. CASE AcquireLock(r)
    BY <1>1, <1>3, <2>2 DEF AcquireLock, Return
  <2>3. CASE AcquireFails(r)
    BY <1>1, <1>3, <2>3 DEF AcquireFails, Return
  <2>4. CASE Insert(r) \/ InsertFails(r) \/ Publish(r) \/ PublishFails(r)
    <3>1. /\ pc[r] \in Critical /\ UNCHANGED <<lock, early>>
          /\ \E l \in Critical : Goto(r, l)
      BY <2>4 DEF Insert, InsertFails, Publish, PublishFails, Critical
    <3>2. QED BY <1>2, <3>1
  <2>5. CASE Undo(r) \/ Release(r)
    <3>1. r \in InCritical /\ Leave(r) /\ (lock' = Free \/ UNCHANGED lock)
      BY <2>5 DEF Undo, Release, Delete, Return, InCritical, Critical
    <3>2. QED BY <1>1, <3>1, KeyDeleted
  <2>6. QED BY <1>4, <2>1, <2>2, <2>3, <2>4, <2>5 DEF Step
<1>5. ASSUME NEW r \in Requests, Arrive(r) PROVE KeysSound'
  BY <1>2, <1>5 DEF Arrive, Critical
<1>6. ASSUME NEW r \in Requests, Crash(r) PROVE KeysSound'
  BY <1>1, <1>6 DEF Crash
<1>7. ASSUME ExpireLock \/ \E r \in Requests : DeleteTwice(r) PROVE KeysSound'
  BY <1>7, LostKey DEF ExpireLock, DeleteTwice
<1>8. ASSUME UNCHANGED <<lock, pc, early>> PROVE KeysSound'
  BY <1>8 DEF KeysSound, Keyless, InCritical
<1>9. CASE DeleteContract \/ BrokerStep \/ UNCHANGED vars
  BY <1>8, <1>9 DEF DeleteContract, BrokerStep, vars
<1>10. ASSUME NEW r \in Requests, Cancel(r) \/ Work(r) \/ Redrive(r) PROVE KeysSound'
  BY <1>8, <1>10 DEF Cancel, Work, Redrive
<1>11. QED BY <1>4, <1>5, <1>6, <1>7, <1>9, <1>10 DEF Next

\* A request that leaves its key behind has met a fault.
LEMMA LeakStep == TypeOK /\ LockLeaksOnlyByFault /\ [Next]_vars => LockLeaksOnlyByFault'
<1> SUFFICES ASSUME TypeOK, LockLeaksOnlyByFault, [Next]_vars PROVE LockLeaksOnlyByFault'
  OBVIOUS
<1> USE DEF TypeOK, LockLeaksOnlyByFault, InCritical, Critical, Goto, Leave, Return
<1>1. ASSUME NEW r \in Requests, Step(r) PROVE LockLeaksOnlyByFault'
  <2>1. CASE Find(r)
    BY <2>1 DEF Find
  <2>2. CASE AcquireLock(r)
    BY <2>2 DEF AcquireLock
  <2>3. CASE AcquireFails(r)
    BY <2>3 DEF AcquireFails
  <2>4. CASE Insert(r) \/ InsertFails(r)
    BY <2>4 DEF Insert, InsertFails
  <2>5. CASE Publish(r) \/ PublishFails(r)
    BY <2>5 DEF Publish, PublishFails
  <2>6. CASE Undo(r) \/ Release(r)
    BY <2>6 DEF Undo, Release, Delete
  <2>7. QED BY <1>1, <2>1, <2>2, <2>3, <2>4, <2>5, <2>6 DEF Step
<1>2. ASSUME NEW r \in Requests, Arrive(r) \/ DeleteTwice(r) \/ Cancel(r) \/ Work(r) \/ Redrive(r)
      PROVE  LockLeaksOnlyByFault'
  BY <1>2 DEF Arrive, DeleteTwice, LoseLock, Cancel, Work, Redrive
<1>3. ASSUME NEW r \in Requests, Crash(r) PROVE LockLeaksOnlyByFault'
  BY <1>3 DEF Crash
<1>4. CASE ExpireLock \/ DeleteContract \/ BrokerStep
  BY <1>4 DEF ExpireLock, LoseLock, DeleteContract, BrokerStep
<1>5. CASE UNCHANGED vars
  BY <1>5 DEF vars
<1>6. QED BY <1>1, <1>2, <1>3, <1>4, <1>5 DEF Next

LEMMA Invariance == Spec => []IInv
<1>1. Init => IInv
  <2> SUFFICES ASSUME Init PROVE IInv
    OBVIOUS
  <2>1. early = {} /\ Keyless = {} /\ LockLeaksOnlyByFault
    BY DEF Init, Keyless, LockLeaksOnlyByFault, InCritical, Critical
  <2>2. KeysSound
    BY <2>1, FS_EmptySet DEF KeysSound
  <2>3. QED BY <2>1, <2>2, TypeInit DEF IInv
<1>2. IInv /\ [Next]_vars => IInv'
  BY TypeStep, KeysStep, LeakStep DEF IInv
<1>3. QED BY <1>1, <1>2, PTL DEF Spec

\* The rows, keys and messages stay in their types; a row never has a status
\* the schema does not list.
THEOREM RequestsTypeCorrect == Spec => []TypeOK
<1>1. IInv => TypeOK
  BY DEF IInv
<1>2. QED BY <1>1, Invariance, PTL

\* Two requests are never between their SetNX and their Delete as long as no key
\* goes before its owner is through, and every key that does lets in one more at
\* most: owners that delete the keys of others do not add to it.
THEOREM LockExcludes == Spec => []OneInFlight
<1>1. IInv => OneInFlight
  <2> SUFFICES ASSUME IInv PROVE Cardinality(InCritical) <= 1 + Cardinality(early)
    BY DEF OneInFlight
  <2>1. IsFiniteSet(Keyless) /\ IsFiniteSet(early) /\ Cardinality(Keyless) <= Cardinality(early)
    BY DEF IInv, KeysSound
  <2>2. /\ IsFiniteSet(Keyless \union {lock})
        /\ Cardinality(Keyless \union {lock}) \in {Cardinality(Keyless), Cardinality(Keyless) + 1}
    BY <2>1, FS_AddElement
  <2>3. InCritical \subseteq Keyless \union {lock}
    BY DEF Keyless
  <2>4. IsFiniteSet(InCritical) /\ Cardinality(InCritical) <= Cardinality(Keyless \union {lock})
    BY <2>2, <2>3, FS_Subset
  <2>5. /\ Cardinality(Keyless) \in Nat /\ Cardinality(early) \in Nat
        /\ Cardinality(InCritical) \in Nat
    BY <2>1, <2>4, FS_CardinalityType
  <2>6. QED BY <2>1, <2>2, <2>4, <2>5
<1>2. QED BY <1>1, Invariance, PTL

\* A key without a request behind it is the trace of a fault of that request:
\* a fault-free CreateAnalysis always unlocks, however long it takes.
THEOREM LockIsReleased == Spec => []LockLeaksOnlyByFault
<1>1. IInv => LockLeaksOnlyByFault
  BY DEF IInv
<1>2. QED BY <1>1, Invariance, PTL
-----------------------------------------------------------------------------
\* How far a request has come decides what may exist of its analysis: before
\* Publish there is no message, an error leaves none, and a row left without
\* one has a fault behind it.
RowSound(r) ==
    /\ pc[r] # "returned" => answer[r] = "none"
    /\ pc[r] \in {"new", "find", "lock", "insert"} => row[r] = "none" /\ message[r] = "unsent"
    /\ pc[r] = "publish" => message[r] = "unsent"
    /\ pc[r] = "release" \/ answer[r] = "accepted" => Broker!Sent(r)
    /\ pc[r] = "undo" \/ answer[r] \in {"conflict", "error"} =>
         message[r] \in {"unsent", "refused"} /\ (row[r] = "pending" => r \in broken)
    /\ pc[r] = "returned" /\ answer[r] = "none" => r \in broken
    /\ row[r] \in {"running", "completed", "failed"} => Broker!Stored(r)
    /\ row[r] = "pending" => message[r] # "dead"

RowsSound == TypeOK /\ \A r \in Requests : RowSound(r)

LEMMA RowsInit == Init => RowsSound
BY TypeInit DEF Init, Broker!Init, RowsSound, RowSound

\* A request touches its own row, message and answer alone.
LEMMA RowsStep == RowsSound /\ [Next]_vars => RowsSound'
<1> SUFFICES ASSUME RowsSound, [Next]_vars PROVE RowsSound'
  OBVIOUS
<1>1. TypeOK /\ TypeOK'
  BY TypeStep DEF RowsSound
<1>2. SUFFICES ASSUME NEW s \in Requests PROVE RowSound(s)'
  BY <1>1 DEF RowsSound
<1>3. RowSound(s)
  BY DEF RowsSound
<1> USE DEF RowSound, TypeOK
<1>4. ASSUME NEW r \in Requests, Step(r) PROVE RowSound(s)'
  <2> USE <1>1, <1>3 DEF Goto, Leave, Return
  <2>1. CASE Find(r) \/ AcquireLock(r) \/ AcquireFails(r)
    BY <2>1 DEF Find, AcquireLock, AcquireFails
  <2>2. CASE Insert(r) \/ InsertFails(r)
    BY <2>2 DEF Insert, InsertFails
  <2>3. CASE Publish(r)
    BY <2>3 DEF Publish, Broker!Send
  <2>4. CASE PublishFails(r)
    BY <2>4 DEF PublishFails, Broker!Refuse
  <2>5. CASE Undo(r) \/ Release(r)
    BY <2>5 DEF Undo, Release, Delete, Answers
  <2>6. QED BY <1>4, <2>1, <2>2, <2>3, <2>4, <2>5 DEF Step
<1>5. ASSUME NEW r \in Requests, Arrive(r) \/ DeleteTwice(r) \/ Cancel(r) \/ Crash(r)
      PROVE  RowSound(s)'
  BY <1>1, <1>3, <1>5 DEF Arrive, DeleteTwice, Cancel, Crash, Leave, Critical, Goto, Answers
<1>6. ASSUME NEW r \in Requests, Work(r) \/ Redrive(r) PROVE RowSound(s)'
  BY <1>1, <1>3, <1>6 DEF Work, Redrive, Broker!DeadLetter, Broker!Redrive
<1>7. CASE ExpireLock \/ DeleteContract
  BY <1>1, <1>3, <1>7 DEF ExpireLock, DeleteContract
<1>8. CASE BrokerStep
  BY <1>1, <1>3, <1>8 DEF BrokerStep, Broker!Store, Broker!Lose
<1>9. CASE UNCHANGED vars
  BY <1>3, <1>9 DEF vars
<1>10. QED BY <1>4, <1>5, <1>6, <1>7, <1>8, <1>9 DEF Next

LEMMA RowsInvariance == Spec => []RowsSound
BY RowsInit, RowsStep, PTL DEF Spec

\* A row that waits without a message is that of a request under way, or of
\* one that was told of an error or died, or its message was lost.
THEOREM WaitingRowsAreExplained == Spec => []PendingIsExplained
<1>1. RowsSound => PendingIsExplained
  BY DEF RowsSound, RowSound, PendingIsExplained, TypeOK, PCs, Critical, Answers, Broker!Statuses
<1>2. QED BY <1>1, RowsInvariance, PTL

\* No worker runs an analysis whose client was told to ask again.
THEOREM ErrorsAreNotRun == Spec => []RunsOnlyEnqueued
<1>1. RowsSound => RunsOnlyEnqueued
  BY DEF RowsSound, RowSound, RunsOnlyEnqueued
<1>2. QED BY <1>1, RowsInvariance, PTL

\* A request that got past its insert has a row until the contract is deleted;
\* without the contract there are no rows.
RowStands(r) ==
    /\ pc[r] \in {"publish", "release"} \/ answer[r] = "accepted" => row[r] # "none" \/ ~contract
    /\ row[r] # "none" => contract

RowsStand == RowsSound /\ \A r \in Requests : RowStands(r)

LEMMA RowsStandStep == RowsStand /\ [Next]_vars => RowsStand'
<1> SUFFICES ASSUME RowsStand, [Next]_vars, NEW s \in Requests PROVE RowStands(s)'
  BY RowsStep DEF RowsStand
<1>1. TypeOK /\ RowSound(s) /\ RowStands(s)
  BY DEF RowsStand, RowsSound
<1> USE DEF RowStands, TypeOK, Goto, Leave, Return
<1>2. ASSUME NEW r \in Requests, Step(r) PROVE RowStands(s)'
  <2>1. CASE Find(r) \/ AcquireLock(r) \/ AcquireFails(r)
    BY <1>1, <2>1 DEF Find, AcquireLock, AcquireFails
  <2>2. CASE Insert(r)
    BY <1>1, <2>2 DEF Insert
  <2>3. CASE InsertFails(r)
    BY <1>1, <2>3 DEF InsertFails, RowSound
  <2>4. CASE Publish(r) \/ PublishFails(r)
    BY <1>1, <2>4 DEF Publish, PublishFails
  <2>5. CASE Undo(r) \/ Release(r)
    BY <1>1, <2>5 DEF Undo, Release, Delete
  <2>6. QED BY <1>2, <2>1, <2>2, <2>3, <2>4, <2>5 DEF Step
<1>3. ASSUME NEW r \in Requests, Arrive(r) \/ DeleteTwice(r) \/ Cancel(r) \/ Crash(r)
      PROVE  RowStands(s)'
  BY <1>1, <1>3 DEF Arrive, DeleteTwice, Cancel, Crash
<1>4. ASSUME NEW r \in Requests, Work(r) \/ Redrive(r) PROVE RowStands(s)'
  BY <1>1, <1>4 DEF Work, Redrive
<1>5. CASE ExpireLock \/ DeleteContract \/ BrokerStep
  BY <1>1, <1>5 DEF ExpireLock, DeleteContract, BrokerStep
<1>6. CASE UNCHANGED vars
  BY <1>1, <1>6 DEF vars
<1>7. QED BY <1>2, <1>3, <1>4, <1>5, <1>6 DEF Next

\* "Accepted" means what it says: the message was written to the broker, and
\* the row is there until the contract is deleted, which no insert survives.
AcceptedIsStored ==
    \A r \in Requests : answer[r] = "accepted" =>
        /\ Broker!Sent(r)
        /\ row[r] # "none" <=> contract

\* Whatever fails or races with the request, it is not told "accepted" for an
\* analysis that has no row or no message.
THEOREM AcceptedAnalysesAreStored == Spec => []AcceptedIsStored
<1>1. Init => RowsStand
  BY RowsInit DEF Init, RowsStand, RowStands
<1>2. RowsStand => AcceptedIsStored
  BY DEF RowsStand, RowsSound, RowSound, RowStands, AcceptedIsStored
<1>3. QED BY <1>1, <1>2, RowsStandStep, PTL DEF Spec

-----------------------------------------------------------------------------
(* Overrides and evidence *)

\* What a step of the review leaves alone in the requests, and the other way
\* round: the composition is a behaviour of AnalysisRequests.
THEOREM ReviewKeepsRequests == ReviewSpec => Spec
<1>1. ReviewInit => Init
  BY DEF ReviewInit
<1>2. [ReviewNext]_reviewVars => [Next]_vars
  <2> SUFFICES ASSUME [ReviewNext]_reviewVars PROVE [Next]_vars
    OBVIOUS
  <2>1. CASE RequestNext
    BY <2>1 DEF RequestNext, Next
  <2>2. CASE DeleteAll
    BY <2>2 DEF DeleteAll, Next
  <2>3. ASSUME NEW r \in Requests, NEW c \in Calls, Checked(c, r) PROVE [Next]_vars
    BY <2>3 DEF Checked
  <2>4. ASSUME NEW o \in Overrides, Override(o) PROVE [Next]_vars
    BY <2>4 DEF Override, InsertOverride, CommitOverride, OverrideFails
  <2>5. ASSUME NEW e \in Retrievals, Retrieve(e) \/ EvidenceBroker(e) \/ Gather(e) \/ RedriveEvidence(e)
        PROVE  [Next]_vars
    BY <2>5 DEF Retrieve, PublishRetrieval, PublishRetrievalFails, EvidenceBroker, Gather,
        RedriveEvidence
  <2>6. CASE UNCHANGED reviewVars
    BY <2>6 DEF reviewVars
  <2>7. QED BY <2>1, <2>2, <2>3, <2>4, <2>5, <2>6 DEF ReviewNext, CheckOverride,
        CheckEvidence, Calls
<1>3. QED BY <1>1, <1>2, PTL DEF ReviewSpec, Spec

-----------------------------------------------------------------------------
LEMMA ReviewTypeInit == ReviewInit => ReviewTypeOK
<1> SUFFICES ASSUME ReviewInit PROVE ReviewTypeOK
  OBVIOUS
<1>1. TypeOK
  BY TypeInit DEF ReviewInit
<1>2. evidence \in [Retrievals -> EvidenceQueue!Statuses]
  BY DEF ReviewInit, EvidenceQueue!Init, EvidenceQueue!Statuses
<1>3. QED BY <1>1, <1>2 DEF ReviewInit, ReviewTypeOK, CallPCs

LEMMA ReviewTypeStep == ReviewTypeOK /\ [ReviewNext]_reviewVars => ReviewTypeOK'
<1> SUFFICES ASSUME ReviewTypeOK, [ReviewNext]_reviewVars PROVE ReviewTypeOK'
  OBVIOUS
<1>1. TypeOK /\ (UNCHANGED vars => TypeOK') /\ (Next => TypeOK')
  BY TypeStep DEF ReviewTypeOK
<1> USE DEF ReviewTypeOK, CallPCs, Calls, Become
<1>2. CASE RequestNext /\ UNCHANGED review
  <2>1. TypeOK'
    BY <1>1, <1>2 DEF RequestNext, Next
  <2>2. QED BY <1>2, <2>1 DEF review
<1>3. CASE DeleteAll
  <2>1. TypeOK'
    BY <1>1, <1>3 DEF DeleteAll, Next
  <2>2. QED BY <1>3, <2>1 DEF DeleteAll
<1>4. ASSUME NEW r \in Requests, NEW c \in Calls, Checked(c, r) PROVE ReviewTypeOK'
  BY <1>1, <1>4 DEF Checked
<1>5. ASSUME NEW o \in Overrides, InsertOverride(o) PROVE ReviewTypeOK'
  <2>1. overlapped' \subseteq Overrides
    BY <1>5 DEF InsertOverride, InTransaction
  <2>2. begun' \in Seq(Overrides)
    BY <1>5 DEF InsertOverride
  <2>3. QED BY <1>1, <1>5, <2>1, <2>2 DEF InsertOverride
<1>6. ASSUME NEW o \in Overrides, CommitOverride(o) PROVE ReviewTypeOK'
  BY <1>1, <1>6 DEF CommitOverride
<1>7. ASSUME NEW o \in Overrides, OverrideFails(o) PROVE ReviewTypeOK'
  BY <1>1, <1>7 DEF OverrideFails
<1>8. ASSUME NEW e \in Retrievals, Retrieve(e) PROVE ReviewTypeOK'
  <2>1. TypeOK'
    BY <1>1, <1>8 DEF Retrieve, PublishRetrieval, PublishRetrievalFails
  <2>2. evidence' \in [Retrievals -> EvidenceQueue!Statuses]
    BY <1>8 DEF Retrieve, PublishRetrieval, PublishRetrievalFails,
                EvidenceQueue!Send, EvidenceQueue!Refuse, EvidenceQueue!Statuses
  <2>3. call' \in [Calls -> [pc : CallPCs, of : Requests \union {NoAnalysis}]]
    <3>1. Become(e, "retrieving") \/ Become(e, "error")
      BY <1>8, Zenon DEF Retrieve, PublishRetrieval, PublishRetrievalFails
    <3>2. /\ call \in [Calls -> [pc : CallPCs, of : Requests \union {NoAnalysis}]]
          /\ e \in Calls /\ "retrieving" \in CallPCs /\ "error" \in CallPCs
      BY DEF ReviewTypeOK
    <3>3. CASE Become(e, "retrieving")
      BY ONLY <3>2, <3>3 DEF Become
    <3>4. CASE Become(e, "error")
      BY ONLY <3>2, <3>4 DEF Become
    <3>5. QED BY ONLY <3>1, <3>3, <3>4
  <2>4. QED BY <1>8, <2>1, <2>2, <2>3 DEF Retrieve, PublishRetrieval, PublishRetrievalFails
<1>9. ASSUME NEW e \in Retrievals, EvidenceBroker(e) \/ Gather(e) \/ RedriveEvidence(e)
      PROVE  ReviewTypeOK'
  BY <1>1, <1>9 DEF EvidenceBroker, Gather, RedriveEvidence, EvidenceQueue!Store,
                    EvidenceQueue!Lose, EvidenceQueue!DeadLetter, EvidenceQueue!Redrive,
                    EvidenceQueue!Statuses
<1>10. CASE UNCHANGED reviewVars
  BY <1>1, <1>10 DEF reviewVars, review
<1>11. QED
  BY <1>2, <1>3, <1>4, <1>5, <1>6, <1>7, <1>8, <1>9, <1>10 DEF ReviewNext, Override,
      CheckOverride, CheckEvidence, Calls

-----------------------------------------------------------------------------
\* Where the overrides of the tables come from.
Admitted ==
    /\ \A c \in Calls : call[c].pc # "new" => call[c].of \in Requests
    /\ \A o \in recorded : call[o].pc = "created"

\* Nobody begins twice, and a row's override has begun.
BegunOnce ==
    /\ \A i, j \in DOMAIN begun : begun[i] = begun[j] => i = j
    /\ \A i \in DOMAIN begun : call[begun[i]].pc \notin {"new", "checked"}

\* An override that began while another one of its clause was under way has
\* met it.
MetWhileOpen ==
    \A r \in Requests : \A p \in InTransaction(r), o \in InTransaction(r) \union RecordedOf(r) :
        Newer(o, p) => {o, p} \subseteq overlapped

ReviewInv ==
    /\ ReviewTypeOK
    /\ Admitted
    /\ ShownIsRecorded
    /\ BegunOnce
    /\ MetWhileOpen
    /\ NewestIsShown

LEMMA OverrideInit == ReviewInit => ReviewInv
<1> SUFFICES ASSUME ReviewInit PROVE ReviewInv
  OBVIOUS
<1>1. ReviewTypeOK
  BY ReviewTypeInit
<1>2. Admitted /\ ShownIsRecorded /\ BegunOnce /\ MetWhileOpen /\ NewestIsShown
  BY DEF ReviewInit, Admitted, ShownIsRecorded, BegunOnce, MetWhileOpen, NewestIsShown,
         RecordedOf, InTransaction, Newer, Calls
<1>3. QED BY <1>1, <1>2 DEF ReviewInv

\* A step that touches neither the rows nor the open transactions keeps what
\* the invariant says of them.
LEMMA TablesKept ==
    ASSUME ReviewInv, UNCHANGED <<shown, recorded, begun, overlapped>>,
           \A o \in Overrides : call'[o] = call[o] \/ call'[o].pc \notin {"new", "inserted"},
           \A o \in recorded : call'[o] = call[o],
           \A o \in Overrides : call[o].pc \notin {"new", "checked"} =>
               call'[o].pc \notin {"new", "checked"}
    PROVE  (ShownIsRecorded /\ BegunOnce /\ MetWhileOpen /\ NewestIsShown)'
<1> USE DEF ReviewInv, ReviewTypeOK
<1>1. \A r \in Requests : RecordedOf(r)' = RecordedOf(r)
  BY DEF RecordedOf
<1>2. \A r \in Requests : InTransaction(r)' \subseteq InTransaction(r)
  BY DEF InTransaction
<1>3. \A o, p : Newer(o, p)' = Newer(o, p)
  BY DEF Newer
<1>4. (ShownIsRecorded /\ NewestIsShown)'
  BY <1>1, <1>3 DEF ShownIsRecorded, NewestIsShown
<1>5. MetWhileOpen'
  BY <1>1, <1>2, <1>3 DEF MetWhileOpen
<1>6. BegunOnce'
  <2>1. \A i \in DOMAIN begun : begun[i] \in Overrides
    OBVIOUS
  <2>2. QED BY <2>1 DEF BegunOnce
<1>7. QED BY <1>4, <1>5, <1>6

LEMMA OverrideStep == ReviewInv /\ [ReviewNext]_reviewVars => ReviewInv'
<1> SUFFICES ASSUME ReviewInv, [ReviewNext]_reviewVars PROVE ReviewInv'
  OBVIOUS
<1> USE DEF ReviewInv, ReviewTypeOK, Calls, CallPCs, Become
<1>0. ReviewTypeOK'
  BY ReviewTypeStep
<1>1. CASE (RequestNext /\ UNCHANGED review) \/ UNCHANGED reviewVars
  <2>1. UNCHANGED review
    BY <1>1 DEF reviewVars
  <2>2. Admitted'
    BY <2>1 DEF Admitted, review
  <2>3. QED BY <1>0, <2>1, <2>2, TablesKept DEF review
<1>2. CASE DeleteAll
  <2>1. \A r \in Requests : InTransaction(r)' = {} /\ RecordedOf(r)' = {}
    BY <1>2 DEF DeleteAll, Locked, InTransaction, RecordedOf
  <2>2. begun' = <<>> /\ DOMAIN begun' = {}
    BY <1>2 DEF DeleteAll
  <2>3. Admitted'
    BY <1>2 DEF DeleteAll, Admitted
  <2>4. ShownIsRecorded'
    BY <1>2, <2>1 DEF DeleteAll, ShownIsRecorded
  <2>5. (BegunOnce /\ MetWhileOpen /\ NewestIsShown)'
    BY <2>1, <2>2 DEF BegunOnce, MetWhileOpen, NewestIsShown
  <2>6. QED BY <1>0, <2>3, <2>4, <2>5
<1>3. ASSUME NEW r \in Requests, NEW c \in Calls, Checked(c, r) PROVE ReviewInv'
  <2>1. Admitted'
    BY <1>3 DEF Checked, Admitted
  <2>2. QED BY <1>0, <1>3, <2>1, TablesKept DEF Checked, Admitted
<1>4. ASSUME NEW o \in Overrides, OverrideFails(o) PROVE ReviewInv'
  <2>1. Admitted'
    BY <1>4 DEF OverrideFails, Admitted
  <2>2. QED BY <1>0, <1>4, <2>1, TablesKept DEF OverrideFails, Admitted
<1>5. ASSUME NEW e \in Retrievals, Retrieve(e) PROVE ReviewInv'
  <2>1. /\ call[e].pc = "checked" /\ (Become(e, "retrieving") \/ Become(e, "error"))
        /\ UNCHANGED <<shown, recorded, begun, overlapped>>
    BY <1>5, Zenon DEF Retrieve, PublishRetrieval, PublishRetrievalFails
  <2>2. /\ call'[e].of = call[e].of /\ call'[e].pc \in {"retrieving", "error"}
        /\ \A c \in Calls \ {e} : call'[c] = call[c]
    BY <2>1 DEF Become, ReviewTypeOK, Calls
  <2>3. Admitted'
    BY <2>1, <2>2 DEF Admitted, Calls, ReviewTypeOK
  <2>4. QED BY <1>0, <2>1, <2>2, <2>3, TablesKept DEF Admitted, Calls
<1>6. ASSUME NEW e \in Retrievals, EvidenceBroker(e) \/ Gather(e) \/ RedriveEvidence(e)
      PROVE  ReviewInv'
  <2>1. Admitted'
    BY <1>6 DEF EvidenceBroker, Gather, RedriveEvidence, Admitted
  <2>2. QED BY <1>0, <1>6, <2>1, TablesKept DEF EvidenceBroker, Gather, RedriveEvidence
<1>7. ASSUME NEW o \in Overrides, InsertOverride(o) PROVE ReviewInv'
  <2> DEFINE n == Len(begun) + 1
  <2>1. call[o].pc = "checked" /\ call[o].of \in Requests
    BY <1>7 DEF InsertOverride, Admitted
  <2>2. /\ DOMAIN begun' = DOMAIN begun \union {n}
        /\ begun'[n] = o /\ n \notin DOMAIN begun
        /\ \A i \in DOMAIN begun : begun'[i] = begun[i] /\ begun[i] \in Overrides
        /\ \A i \in DOMAIN begun : i \in Nat /\ i < n
    BY <1>7 DEF InsertOverride
  <2>3. \A i \in DOMAIN begun : begun[i] # o
    BY <2>1 DEF BegunOnce
  <2>4. \A r \in Requests : RecordedOf(r)' = RecordedOf(r)
    BY <1>7 DEF InsertOverride, RecordedOf, Admitted
  <2>5. \A r \in Requests, p \in Overrides \ {o} :
            p \in InTransaction(r)' <=> p \in InTransaction(r)
    BY <1>7 DEF InsertOverride, InTransaction
  <2>6. \A x, p \in Overrides : Newer(x, p)' => (Newer(x, p) \/ x = o) /\ p # o
    BY <2>2, <2>3, SMTT(30) DEF Newer
  <2>7. overlapped \subseteq overlapped'
    BY <1>7 DEF InsertOverride
  <2>8. \A r \in Requests : \A p \in InTransaction(r) :
            r = call[o].of => {o, p} \subseteq overlapped'
    BY <1>7 DEF InsertOverride
  <2>9. \A r \in Requests : o \notin RecordedOf(r) /\ (o \in InTransaction(r)' => r = call[o].of)
    BY <1>7, <2>1 DEF InsertOverride, RecordedOf, Admitted, InTransaction
  <2>10. Admitted'
    BY <1>7 DEF InsertOverride, Admitted
  <2>11. ShownIsRecorded'
    BY <1>7, <2>4 DEF InsertOverride, ShownIsRecorded
  <2>12. BegunOnce'
    <3>1. \A i \in DOMAIN begun : call'[begun[i]].pc \notin {"new", "checked"}
      BY <1>7, <2>2, <2>3 DEF InsertOverride, BegunOnce
    <3>2. call'[o].pc = "inserted"
      BY <1>7 DEF InsertOverride
    <3>3. QED BY <2>2, <2>3, <3>1, <3>2 DEF BegunOnce
  <2>13. MetWhileOpen'
    <3> SUFFICES ASSUME NEW r \in Requests, NEW p \in InTransaction(r)',
                        NEW x \in InTransaction(r)' \union RecordedOf(r)', Newer(x, p)'
                 PROVE  {x, p} \subseteq overlapped'
      BY DEF MetWhileOpen
    <3>1. x \in Overrides /\ p \in Overrides
      BY <1>7 DEF InTransaction, RecordedOf, InsertOverride
    <3>2. p # o /\ p \in InTransaction(r) /\ (Newer(x, p) \/ x = o)
      BY <2>5, <2>6, <3>1
    <3>3. CASE x = o
      BY <2>4, <2>8, <2>9, <3>2, <3>3
    <3>4. CASE x # o
      BY <2>4, <2>5, <2>7, <3>1, <3>2, <3>4 DEF MetWhileOpen
    <3>5. QED BY <3>3, <3>4
  <2>14. NewestIsShown'
    <3> SUFFICES ASSUME NEW r \in Requests, NEW x \in RecordedOf(r)', Newer(x, shown[r])'
                 PROVE  {x, shown[r]} \subseteq overlapped'
      BY <1>7 DEF NewestIsShown, InsertOverride
    <3>1. x \in RecordedOf(r) /\ x # o /\ shown[r] \in Overrides
      BY <2>4, <2>9 DEF ShownIsRecorded, RecordedOf
    <3>2. Newer(x, shown[r])
      BY <1>7, <2>6, <3>1 DEF RecordedOf, InsertOverride, Newer
    <3>3. QED BY <2>7, <3>1, <3>2 DEF NewestIsShown
  <2>15. QED BY <1>0, <2>10, <2>11, <2>12, <2>13, <2>14
<1>8. ASSUME NEW o \in Overrides, CommitOverride(o) PROVE ReviewInv'
  <2>1. PICK a \in Requests :
            call[o].pc = "inserted" /\ call[o].of = a /\ o \in InTransaction(a)
    BY <1>8 DEF CommitOverride, Admitted, InTransaction
  <2>2. RecordedOf(a)' = RecordedOf(a) \union {o}
    BY <1>8, <2>1 DEF CommitOverride, RecordedOf, Admitted
  <2>3. \A r \in Requests \ {a} : RecordedOf(r)' = RecordedOf(r) /\ shown'[r] = shown[r]
    BY <1>8, <2>1 DEF CommitOverride, RecordedOf, Admitted
  <2>4. \A r \in Requests : InTransaction(r)' \subseteq InTransaction(r)
    BY <1>8 DEF CommitOverride, InTransaction
  <2>5. \A x, p : Newer(x, p)' = Newer(x, p)
    BY <1>8 DEF CommitOverride, Newer
  <2>6. shown'[a] = o /\ overlapped' = overlapped
    BY <1>8, <2>1 DEF CommitOverride
  <2>7. Admitted'
    BY <1>8 DEF CommitOverride, Admitted
  <2>8. ShownIsRecorded'
    BY <2>2, <2>3, <2>6 DEF ShownIsRecorded
  <2>9. BegunOnce'
    <3>1. \A i \in DOMAIN begun : begun[i] \in Overrides
      OBVIOUS
    <3>2. QED BY <1>8, <3>1 DEF CommitOverride, BegunOnce
  <2>10. MetWhileOpen'
    <3> SUFFICES ASSUME NEW r \in Requests, NEW p \in InTransaction(r)',
                        NEW x \in InTransaction(r)' \union RecordedOf(r)', Newer(x, p)'
                 PROVE  {x, p} \subseteq overlapped'
      BY DEF MetWhileOpen
    <3>1. p \in InTransaction(r) /\ x \in InTransaction(r) \union RecordedOf(r)
      BY <2>1, <2>2, <2>3, <2>4
    <3>2. QED BY <2>5, <2>6, <3>1 DEF MetWhileOpen
  <2>11. NewestIsShown'
    <3>1. \A x \in RecordedOf(a)' : Newer(x, o) => {x, o} \subseteq overlapped
      BY <2>1, <2>2 DEF MetWhileOpen
    <3>2. QED BY <2>3, <2>5, <2>6, <3>1 DEF NewestIsShown
  <2>12. QED BY <1>0, <2>7, <2>8, <2>9, <2>10, <2>11
<1>9. QED
  BY <1>1, <1>2, <1>3, <1>4, <1>5, <1>6, <1>7, <1>8 DEF ReviewNext, Override,
      CheckOverride, CheckEvidence, Calls

LEMMA ReviewInvariance == ReviewSpec => []ReviewInv
  BY OverrideInit, OverrideStep, PTL DEF ReviewSpec

\* Rows, messages and calls stay in their types.
THEOREM ReviewTypeCorrect == ReviewSpec => []ReviewTypeOK
<1>1. ReviewInv => ReviewTypeOK
  BY DEF ReviewInv
<1>2. QED BY <1>1, ReviewInvariance, PTL

\* The two writes of an override are seen together or not at all, however
\* overrides, failures and the deletion interleave.
THEOREM OverridesAreAtomic == ReviewSpec => []ShownIsRecorded
<1>1. ReviewInv => ShownIsRecorded
  BY DEF ReviewInv
<1>2. QED BY <1>1, ReviewInvariance, PTL

\* Overrides that do not overlap leave the newest level on show.
THEOREM LastOverrideWins == ReviewSpec => []NewestIsShown
<1>1. ReviewInv => NewestIsShown
  BY DEF ReviewInv
<1>2. QED BY <1>1, ReviewInvariance, PTL

\* What is proved of the requests alone holds in the composition.
THEOREM ReviewIsExclusive == ReviewSpec => []OneInFlight
  BY ReviewKeepsRequests, LockExcludes, PTL
=============================================================================
