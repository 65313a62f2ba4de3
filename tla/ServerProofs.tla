---------------------------- MODULE ServerProofs ----------------------------
(***************************************************************************)
(* Proofs about QueueClient and about Server, for any number of concurrent *)
(* Publish calls, of requests and of faults.  The client comes first, on   *)
(* its own; what is proved of it carries over, since a step of the server  *)
(* that touches the client is a step of the client, the exit apart.        *)
(***************************************************************************)
EXTENDS Server, TLAPS

USE NobodyAssumption, MaxFaultsAssumption, AuditFaultsAssumption

\* A message on the wire was written by a call that returned, and not stored.
WireSound ==
    /\ \A m \in wire : pc[m] = "ok" /\ queued[m] = 0
    /\ \A m \in Messages : queued[m] = 1 => pc[m] = "ok"

\* The fields are replaced together; the channel does not outlive its connection.
LinkSound == channel = "open" => conn = "open"

\* What a call has lost so far.  A reconnect by somebody else shows that the
\* connection this call had found open is gone.
LossesNoted ==
    \A m \in Messages \ struck :
        /\ m \in retry => losses[m] >= 1
        /\ pc[m] = "publish" /\ (conn = "closed" \/ mu # Nobody) =>
             losses[m] >= IF m \in retry THEN 2 ELSE 1
        /\ pc[m] = "failed" => m \in refused \/ losses[m] >= 2

IInv ==
    /\ TypeOK
    /\ MutexHeldToReconnect
    /\ WireSound
    /\ LinkSound
    /\ LossesNoted

LEMMA IInvInit == Init => IInv
<1> SUFFICES ASSUME Init PROVE IInv
  OBVIOUS
<1>1. TypeOK
  <2>1. queued \in [Messages -> 0..1] /\ losses \in [Messages -> Nat]
    BY DEF Init
  <2>2. QED BY <2>1 DEF Init, TypeOK
<1>2. MutexHeldToReconnect
  BY DEF Init, MutexHeldToReconnect, Reconnecting
<1>3. WireSound /\ LinkSound
  BY DEF Init, WireSound, LinkSound
<1>4. LossesNoted
  BY DEF Init, LossesNoted
<1>5. QED BY <1>1, <1>2, <1>3, <1>4 DEF IInv

LEMMA IInvStep == IInv /\ [Next]_vars => IInv'
<1> SUFFICES ASSUME IInv, [Next]_vars PROVE IInv'
  OBVIOUS
<1> USE DEF IInv, TypeOK, Reconnecting, Attempting, Returned, InCall, Goto, vars, link
<1>1. ASSUME NEW m \in Messages, Call(m) PROVE IInv'
  <2>1. TypeOK'
    BY <1>1 DEF Call, WireSound
  <2>2. MutexHeldToReconnect'
    BY <1>1 DEF Call, MutexHeldToReconnect
  <2>3. WireSound'
    BY <1>1 DEF Call, WireSound
  <2>4. LinkSound'
    BY <1>1 DEF Call, LinkSound
  <2>5. LossesNoted'
    BY <1>1 DEF Call, LossesNoted, LinkSound, MutexHeldToReconnect
  <2>6. QED BY <2>1, <2>2, <2>3, <2>4, <2>5
<1>2. ASSUME NEW m \in Messages, EnsureConnected(m) PROVE IInv'
  <2>1. TypeOK'
    BY <1>2 DEF EnsureConnected, WireSound
  <2>2. MutexHeldToReconnect'
    BY <1>2 DEF EnsureConnected, MutexHeldToReconnect
  <2>3. WireSound'
    BY <1>2 DEF EnsureConnected, WireSound
  <2>4. LinkSound'
    BY <1>2 DEF EnsureConnected, LinkSound
  <2>5. LossesNoted'
    BY <1>2 DEF EnsureConnected, LossesNoted, LinkSound, MutexHeldToReconnect
  <2>6. QED BY <2>1, <2>2, <2>3, <2>4, <2>5
<1>3. ASSUME NEW m \in Messages, Dial(m) PROVE IInv'
  <2>1. TypeOK'
    BY <1>3 DEF Dial, WireSound
  <2>2. MutexHeldToReconnect'
    BY <1>3 DEF Dial, MutexHeldToReconnect
  <2>3. WireSound'
    BY <1>3 DEF Dial, WireSound
  <2>4. LinkSound'
    BY <1>3 DEF Dial, LinkSound
  <2>5. LossesNoted'
    BY <1>3 DEF Dial, LossesNoted, LinkSound, MutexHeldToReconnect
  <2>6. QED BY <2>1, <2>2, <2>3, <2>4, <2>5
<1>4. ASSUME NEW m \in Messages, OpenChannel(m) PROVE IInv'
  <2>1. TypeOK'
    BY <1>4 DEF OpenChannel, WireSound
  <2>2. MutexHeldToReconnect'
    BY <1>4 DEF OpenChannel, MutexHeldToReconnect
  <2>3. WireSound'
    BY <1>4 DEF OpenChannel, WireSound
  <2>4. LinkSound'
    BY <1>4 DEF OpenChannel, LinkSound
  <2>5. LossesNoted'
    BY <1>4 DEF OpenChannel, LossesNoted, LinkSound, MutexHeldToReconnect
  <2>6. QED BY <2>1, <2>2, <2>3, <2>4, <2>5
<1>5. ASSUME NEW m \in Messages, Declare(m) PROVE IInv'
  <2>1. TypeOK'
    BY <1>5 DEF Declare, WireSound
  <2>2. MutexHeldToReconnect'
    BY <1>5 DEF Declare, MutexHeldToReconnect
  <2>3. WireSound'
    BY <1>5 DEF Declare, WireSound
  <2>4. LinkSound'
    BY <1>5 DEF Declare, LinkSound
  <2>5. LossesNoted'
    BY <1>5 DEF Declare, LossesNoted, LinkSound, MutexHeldToReconnect
  <2>6. QED BY <2>1, <2>2, <2>3, <2>4, <2>5
<1>6. ASSUME NEW m \in Messages, ConnectFails(m) PROVE IInv'
  <2>1. TypeOK'
    BY <1>6 DEF ConnectFails, WireSound
  <2>2. MutexHeldToReconnect'
    BY <1>6 DEF ConnectFails, MutexHeldToReconnect
  <2>3. WireSound'
    BY <1>6 DEF ConnectFails, WireSound
  <2>4. LinkSound'
    BY <1>6 DEF ConnectFails, LinkSound
  <2>5. LossesNoted'
    BY <1>6 DEF ConnectFails, LossesNoted, LinkSound, MutexHeldToReconnect
  <2>6. QED BY <2>1, <2>2, <2>3, <2>4, <2>5
<1>7. ASSUME NEW m \in Messages, Publish(m) PROVE IInv'
  <2>1. TypeOK'
    BY <1>7 DEF Publish, WireSound
  <2>2. MutexHeldToReconnect'
    BY <1>7 DEF Publish, MutexHeldToReconnect
  <2>3. WireSound'
    BY <1>7 DEF Publish, WireSound
  <2>4. LinkSound'
    BY <1>7 DEF Publish, LinkSound
  <2>5. LossesNoted'
    BY <1>7 DEF Publish, LossesNoted, LinkSound, MutexHeldToReconnect
  <2>6. QED BY <2>1, <2>2, <2>3, <2>4, <2>5
<1>8. ASSUME NEW m \in Messages, PublishFails(m) PROVE IInv'
  <2>1. TypeOK'
    BY <1>8 DEF PublishFails, AnotherAttempt, WireSound
  <2>2. MutexHeldToReconnect'
    BY <1>8 DEF PublishFails, AnotherAttempt, MutexHeldToReconnect
  <2>3. WireSound'
    BY <1>8 DEF PublishFails, AnotherAttempt, WireSound
  <2>4. LinkSound'
    BY <1>8 DEF PublishFails, AnotherAttempt, LinkSound
  <2>5. LossesNoted'
    BY <1>8 DEF PublishFails, AnotherAttempt, LossesNoted, LinkSound, MutexHeldToReconnect
  <2>6. QED BY <2>1, <2>2, <2>3, <2>4, <2>5
<1>9. ASSUME NEW m \in Messages, Store(m) PROVE IInv'
  <2>1. TypeOK'
    BY <1>9 DEF Store, WireSound
  <2>2. MutexHeldToReconnect'
    BY <1>9 DEF Store, MutexHeldToReconnect
  <2>3. WireSound'
    BY <1>9 DEF Store, WireSound
  <2>4. LinkSound'
    BY <1>9 DEF Store, LinkSound
  <2>5. LossesNoted'
    BY <1>9 DEF Store, LossesNoted, LinkSound, MutexHeldToReconnect
  <2>6. QED BY <2>1, <2>2, <2>3, <2>4, <2>5
<1>10. CASE LoseConnection
  <2>1. TypeOK'
    BY <1>10 DEF LoseConnection, NoteLoss, WireSound
  <2>2. MutexHeldToReconnect'
    BY <1>10 DEF LoseConnection, NoteLoss, MutexHeldToReconnect
  <2>3. WireSound'
    BY <1>10 DEF LoseConnection, NoteLoss, WireSound
  <2>4. LinkSound'
    BY <1>10 DEF LoseConnection, NoteLoss, LinkSound
  <2>5. LossesNoted'
    BY <1>10 DEF LoseConnection, NoteLoss, LossesNoted, LinkSound, MutexHeldToReconnect
  <2>6. QED BY <2>1, <2>2, <2>3, <2>4, <2>5
<1>11. CASE LoseChannel
  <2>1. TypeOK'
    BY <1>11 DEF LoseChannel, NoteLoss, WireSound
  <2>2. MutexHeldToReconnect'
    BY <1>11 DEF LoseChannel, NoteLoss, MutexHeldToReconnect
  <2>3. WireSound'
    BY <1>11 DEF LoseChannel, NoteLoss, WireSound
  <2>4. LinkSound'
    BY <1>11 DEF LoseChannel, NoteLoss, LinkSound
  <2>5. LossesNoted'
    BY <1>11 DEF LoseChannel, NoteLoss, LossesNoted, LinkSound, MutexHeldToReconnect
  <2>6. QED BY <2>1, <2>2, <2>3, <2>4, <2>5
<1>12. CASE Close
  <2>1. TypeOK'
    BY <1>12 DEF Close, NoteLoss, WireSound
  <2>2. MutexHeldToReconnect'
    BY <1>12 DEF Close, NoteLoss, MutexHeldToReconnect
  <2>3. WireSound'
    BY <1>12 DEF Close, NoteLoss, WireSound
  <2>4. LinkSound'
    BY <1>12 DEF Close, NoteLoss, LinkSound
  <2>5. LossesNoted'
    BY <1>12 DEF Close, NoteLoss, LossesNoted, LinkSound, MutexHeldToReconnect
  <2>6. QED BY <2>1, <2>2, <2>3, <2>4, <2>5
<1>13. CASE UNCHANGED vars
  BY <1>13 DEF MutexHeldToReconnect, WireSound, LinkSound, LossesNoted
<1>14. QED
  BY <1>1, <1>2, <1>3, <1>4, <1>5, <1>6, <1>7, <1>8, <1>9, <1>10, <1>11, <1>12, <1>13 DEF Next, Step

LEMMA Invariance == Spec => []IInv
  BY IInvInit, IInvStep, PTL DEF Spec

\* The mutex is held exactly while its holder reconnects, and no message is
\* stored twice (TypeOK bounds the copies by one).
THEOREM ClientTypeCorrect == Spec => [](TypeOK /\ MutexHeldToReconnect)
<1>1. IInv => TypeOK /\ MutexHeldToReconnect
  BY DEF IInv
<1>2. QED BY <1>1, Invariance, PTL

\* The one retry makes Publish survive the loss of one connection, however the
\* calls interleave; a channel closed on an open connection is the exception.
THEOREM FailuresAreExplained == Spec => []FailureIsExplained
<1>1. IInv => FailureIsExplained
  BY DEF IInv, LossesNoted, FailureIsExplained
<1>2. QED BY <1>1, Invariance, PTL

\* The broker never closes the channel alone.
ChannelsLast == [][~LoseChannel]_vars

\* Then the fields are up or down together, and no call is struck.
LinkWhole == channel = conn /\ struck = {}

\* "If the channel is closed it reconnects once and retries" holds of channels
\* that are closed together with their connection: a channel closed alone is
\* the only fault that one retry does not survive.
THEOREM RetrySurvivesConnectionLoss == Spec /\ ChannelsLast => []RetrySurvivesOneLoss
<1>1. Init => LinkWhole
  BY DEF Init, LinkWhole
<1>2. IInv /\ LinkWhole /\ [Next]_vars /\ [~LoseChannel]_vars => LinkWhole'
  BY DEF LinkWhole, LinkSound, IInv, Next, Step, Call, EnsureConnected, Dial, OpenChannel, Declare,
     ConnectFails, Publish, PublishFails, Store, LoseConnection, LoseChannel, Close, vars, link
<1>3. LinkWhole /\ FailureIsExplained => RetrySurvivesOneLoss
  BY DEF LinkWhole, FailureIsExplained, RetrySurvivesOneLoss
<1>4. QED BY <1>1, <1>2, <1>3, Invariance, FailuresAreExplained, PTL DEF Spec, ChannelsLast

-----------------------------------------------------------------------------
LEMMA QueueInit == Init => Queue!Init
BY DEF Init, Queue!Init, Status

\* Every step of the client is a step of an at-most-once queue.
LEMMA QueueStep == IInv /\ [Next]_vars => [Queue!Next]_Status
<1> SUFFICES ASSUME IInv, [Next]_vars PROVE Queue!Next \/ Status' = Status
  OBVIOUS
<1> USE DEF IInv, TypeOK, WireSound, MutexHeldToReconnect, Reconnecting, Attempting, Returned,
            Goto, link
<1>0. /\ Status = [m \in Messages |-> Status[m]]
      /\ Status' = [m \in Messages |-> Status'[m]]
  BY DEF Status
<1>1. ASSUME NEW m \in Messages, Publish(m) PROVE Queue!Next
  <2>1. Queue!Send(m)
    <3>1. Status[m] = "unsent" /\ Status'[m] = "transit"
      BY <1>1 DEF Publish, Status
    <3>2. \A x \in Messages \ {m} : Status'[x] = Status[x]
      BY <1>1 DEF Publish, Status
    <3>3. Status' = [Status EXCEPT ![m] = "transit"]
      BY <3>1, <3>2, <1>0
    <3>4. QED BY <3>1, <3>3 DEF Queue!Send
  <2>2. QED BY <2>1 DEF Queue!Next
<1>2. ASSUME NEW m \in Messages, PublishFails(m) \/ ConnectFails(m)
      PROVE  Queue!Next \/ Status' = Status
  <2>1. CASE pc'[m] = "failed"
    <3>1. Queue!Refuse(m)
      <4>1. Status[m] = "unsent" /\ Status'[m] = "refused"
        BY <1>2, <2>1 DEF PublishFails, AnotherAttempt, ConnectFails, Status
      <4>2. \A x \in Messages \ {m} : Status'[x] = Status[x]
        BY <1>2, <2>1 DEF PublishFails, AnotherAttempt, ConnectFails, Status
      <4>3. Status' = [Status EXCEPT ![m] = "refused"]
        BY <4>1, <4>2, <1>0
      <4>4. QED BY <4>1, <4>3 DEF Queue!Refuse
    <3>2. QED BY <3>1 DEF Queue!Next
  <2>2. CASE pc'[m] # "failed"
    BY <1>2, <2>2 DEF PublishFails, AnotherAttempt, ConnectFails, Status
  <2>3. QED BY <2>1, <2>2
<1>3. ASSUME NEW m \in Messages, Store(m) PROVE Queue!Next
  <2>1. Queue!Store({m})
    BY <1>3 DEF Store, Status, Queue!Store
  <2>2. QED BY <2>1 DEF Queue!Next
<1>4. CASE LoseConnection \/ LoseChannel
  <2>1. Queue!Lose(wire)
    BY <1>4 DEF LoseConnection, LoseChannel, Status, Queue!Lose
  <2>2. QED BY <2>1 DEF Queue!Next
<1>5. CASE Close
  <2>1. Queue!Store(wire)
    BY <1>5 DEF Close, Status, Queue!Store
  <2>2. QED BY <2>1 DEF Queue!Next
<1>6. ASSUME NEW m \in Messages,
             Call(m) \/ EnsureConnected(m) \/ Dial(m) \/ OpenChannel(m) \/ Declare(m)
      PROVE  Status' = Status
  BY <1>6 DEF Call, EnsureConnected, Dial, OpenChannel, Declare, Status
<1>7. CASE UNCHANGED vars
  BY <1>7 DEF vars, Status
<1>8. QED BY <1>1, <1>2, <1>3, <1>4, <1>5, <1>6, <1>7 DEF Next, Step

\* What Publish does to a message is what an at-most-once queue may do to it.
THEOREM PublishIsAtMostOnce == Spec => ImplementsQueue
BY QueueInit, QueueStep, Invariance, PTL DEF Spec, ImplementsQueue, Queue!Spec

-----------------------------------------------------------------------------
\* The steps of the server, seen from the client.
LEMMA ClientSteps ==
    ASSUME [ServerNext]_serverVars
    PROVE  [Next]_vars \/ End
<1>1. ASSUME NEW m \in Messages, Accept(m) \/ PublishStep(m) PROVE [Next]_vars
  BY <1>1 DEF Accept, PublishStep, Next
<1>2. ASSUME NEW m \in Messages, Answer(m) \/ Write(m) PROVE [Next]_vars
  BY <1>2 DEF Answer, Write, WriteAudit, WriteAuditFails
<1>3. CASE Signal \/ Drained \/ DrainTimesOut \/ ClosePool
  BY <1>3 DEF Signal, Drained, DrainTimesOut, ClosePool
<1>4. CASE CloseQueue
  BY <1>4 DEF CloseQueue, Next
<1>5. CASE Broker
  BY <1>5 DEF Broker, Next
<1>6. CASE Exit \/ Crash
  BY <1>6 DEF Exit, Crash
<1>7. CASE UNCHANGED serverVars
  BY <1>7 DEF serverVars
<1>8. QED
  BY <1>1, <1>2, <1>3, <1>4, <1>5, <1>6, <1>7 DEF ServerNext, Serve, Stop

LEMMA EndKeepsClient == IInv /\ End => IInv'
<1> SUFFICES ASSUME IInv, End PROVE IInv'
  OBVIOUS
<1> USE DEF IInv, End, link
<1>1. TypeOK'
  BY DEF TypeOK
<1>2. MutexHeldToReconnect'
  BY DEF MutexHeldToReconnect
<1>3. WireSound'
  BY DEF WireSound
<1>4. (LinkSound /\ LossesNoted)'
  BY DEF LinkSound, LossesNoted
<1>5. QED BY <1>1, <1>2, <1>3, <1>4

-----------------------------------------------------------------------------
ProcessTypeOK ==
    /\ phase \in Phases
    /\ answered \subseteq Messages
    /\ audit \in [Messages -> {"none", "writing", "stored", "missing"}]
    /\ pool \in BOOLEAN
    /\ overran \in BOOLEAN
    /\ crashed \in BOOLEAN
    /\ rejected \subseteq Messages

\* A handler answers after its Publish has returned.
AnswersReturned == \A m \in answered : pc[m] \in Returned

\* Main closes the pool before it returns.
PoolFollowsMain == phase = "poolClosed" => ~pool

\* A run without faults in which no request outlives the shutdown.
Orderly == faults = 0 /\ ~crashed /\ ~overran

\* In such a run no request is left when the drain is over, the broker has all
\* messages when the queue client is closed, and none is lost.
NothingLost ==
    Orderly =>
        /\ phase \notin {"serving", "draining"} => Active = {}
        /\ phase \in {"queueClosed", "poolClosed", "exited"} => wire = {}
        /\ \A m \in Messages : pc[m] = "ok" => m \in wire \/ queued[m] = 1

ServerInv ==
    /\ IInv
    /\ ProcessTypeOK
    /\ AnswersReturned
    /\ PoolFollowsMain
    /\ AuditLossIsExplained
    /\ NothingLost

LEMMA ServerInvInit == ServerInit => ServerInv
<1> SUFFICES ASSUME ServerInit PROVE ServerInv
  OBVIOUS
<1>1. IInv
  BY IInvInit DEF ServerInit
<1>2. ProcessTypeOK
  BY DEF ServerInit, ProcessTypeOK, Phases
<1>3. AnswersReturned /\ PoolFollowsMain /\ AuditLossIsExplained /\ NothingLost
  BY DEF ServerInit, Init, AnswersReturned, PoolFollowsMain, AuditLossIsExplained,
         NothingLost, Active
<1>4. QED BY <1>1, <1>2, <1>3 DEF ServerInv

\* The client's calls that a step may make, and what they do to the messages.
LEMMA PublishStepEffect ==
    ASSUME IInv, NEW m \in Messages, Step(m)
    PROVE  /\ pc[m] \in Attempting /\ \A x \in Messages \ {m} : pc'[x] = pc[x]
           /\ pc'[m] # "new"
           /\ queued' = queued /\ faults' = faults /\ wire \subseteq wire'
           /\ pc'[m] = "ok" => m \in wire'
BY DEF IInv, TypeOK, Step, EnsureConnected, Dial, OpenChannel, Declare, ConnectFails, Publish,
       PublishFails, AnotherAttempt, Goto, Attempting, Reconnecting, link

LEMMA ServerInvStep == ServerInv /\ [ServerNext]_serverVars => ServerInv'
<1> SUFFICES ASSUME ServerInv, [ServerNext]_serverVars PROVE ServerInv'
  OBVIOUS
<1>0. IInv'
  BY ClientSteps, EndKeepsClient, IInvStep DEF ServerInv
<1>t. /\ pc \in [Messages -> {"new"} \union Attempting \union Returned]
      /\ pc' \in [Messages -> {"new"} \union Attempting \union Returned]
      /\ queued \in [Messages -> 0..1] /\ wire \subseteq Messages
      /\ faults \in Nat
  BY <1>0 DEF ServerInv, IInv, TypeOK
<1> USE DEF ProcessTypeOK, Phases, process, requests, Alive
<1>1. ASSUME NEW m \in Messages, Accept(m) PROVE ServerInv'
  <2>1. pc[m] = "new" /\ pc' = [pc EXCEPT ![m] = "ensure"]
    BY <1>1 DEF Accept, Call, Goto
  <2>2. UNCHANGED <<wire, queued, faults, process, requests>> /\ phase = "serving"
    BY <1>1 DEF Accept, Call
  <2>3. (ProcessTypeOK /\ PoolFollowsMain /\ AuditLossIsExplained)'
    BY <2>2 DEF ServerInv, PoolFollowsMain, AuditLossIsExplained
  <2>4. AnswersReturned'
    BY <2>1, <2>2, <1>t DEF ServerInv, AnswersReturned, Returned
  <2>5. NothingLost'
    BY <2>1, <2>2, <1>t DEF ServerInv, NothingLost, Orderly
  <2>6. QED BY <1>0, <2>3, <2>4, <2>5 DEF ServerInv
<1>2. ASSUME NEW m \in Messages, PublishStep(m) PROVE ServerInv'
  <2>1. Step(m) /\ UNCHANGED <<process, requests>>
    BY <1>2 DEF PublishStep
  <2>2. /\ pc[m] \in Attempting /\ \A x \in Messages \ {m} : pc'[x] = pc[x]
        /\ pc'[m] # "new"
        /\ queued' = queued /\ faults' = faults /\ wire \subseteq wire'
        /\ pc'[m] = "ok" => m \in wire'
    BY <2>1, PublishStepEffect DEF ServerInv
  <2>3. m \in Active
    BY <2>2 DEF ServerInv, AnswersReturned, Active, Attempting, Reconnecting, Returned
  <2>4. (ProcessTypeOK /\ PoolFollowsMain /\ AuditLossIsExplained)'
    BY <2>1 DEF ServerInv, PoolFollowsMain, AuditLossIsExplained
  <2>5. AnswersReturned'
    BY <2>1, <2>2, <2>3 DEF ServerInv, AnswersReturned, Active
  <2>6. NothingLost'
    BY <2>1, <2>2, <2>3 DEF ServerInv, NothingLost, Orderly
  <2>7. QED BY <1>0, <2>4, <2>5, <2>6 DEF ServerInv
<1>3. ASSUME NEW m \in Messages, Answer(m) PROVE ServerInv'
  <2>1. UNCHANGED <<pc, wire, queued, faults, process, rejected>> /\ pc[m] \in Returned
    BY <1>3 DEF Answer, vars
  <2>2. answered' = answered \union {m}
    BY <1>3 DEF Answer
  <2>3. audit' = [audit EXCEPT ![m] = IF pc[m] = "ok" THEN "writing" ELSE @]
    BY <1>3 DEF Answer
  <2>4. (ProcessTypeOK /\ PoolFollowsMain)'
    BY <2>1, <2>2, <2>3 DEF ServerInv, PoolFollowsMain
  <2>5. AuditLossIsExplained'
    <3>1. \A x \in Messages : audit'[x] = "missing" => audit[x] = "missing"
      BY <2>3 DEF ServerInv
    <3>2. QED BY <2>1, <3>1 DEF ServerInv, AuditLossIsExplained
  <2>6. AnswersReturned'
    BY <2>1, <2>2 DEF ServerInv, AnswersReturned
  <2>7. NothingLost'
    BY <2>1, <2>2 DEF ServerInv, NothingLost, Orderly, Active
  <2>8. QED BY <1>0, <2>4, <2>5, <2>6, <2>7 DEF ServerInv
<1>4. ASSUME NEW m \in Messages, Write(m) PROVE ServerInv'
  <2>1. UNCHANGED <<pc, wire, queued, faults, process, answered>>
    BY <1>4 DEF Write, WriteAudit, WriteAuditFails, vars
  <2>2. (ProcessTypeOK /\ PoolFollowsMain)'
    BY <1>4, <2>1 DEF ServerInv, Write, WriteAudit, WriteAuditFails, PoolFollowsMain
  <2>3. AuditLossIsExplained'
    BY <1>4, <2>1 DEF ServerInv, Write, WriteAudit, WriteAuditFails, AuditLossIsExplained
  <2>4. AnswersReturned' /\ NothingLost'
    BY <2>1 DEF ServerInv, AnswersReturned, NothingLost, Orderly, Active
  <2>5. QED BY <1>0, <2>2, <2>3, <2>4 DEF ServerInv
<1>5. CASE Signal \/ Drained \/ DrainTimesOut \/ ClosePool
  <2>1. UNCHANGED <<pc, wire, queued, faults, crashed, requests>>
    BY <1>5 DEF Signal, Drained, DrainTimesOut, ClosePool, vars
  <2>2. phase' \in Phases /\ overran' \in BOOLEAN /\ pool' \in BOOLEAN /\ (~pool => ~pool')
    <3>1. CASE Signal \/ Drained
      BY <3>1 DEF ServerInv, Signal, Drained
    <3>2. CASE DrainTimesOut
      BY <3>2 DEF ServerInv, DrainTimesOut
    <3>3. CASE ClosePool
      BY <3>3 DEF ServerInv, ClosePool
    <3>4. QED BY <1>5, <3>1, <3>2, <3>3
  <2>3. phase' = "poolClosed" => ~pool'
    BY <1>5 DEF Signal, Drained, DrainTimesOut, ClosePool
  <2>4. (ProcessTypeOK /\ PoolFollowsMain /\ AuditLossIsExplained)'
    BY <2>1, <2>2, <2>3 DEF ServerInv, PoolFollowsMain, AuditLossIsExplained
  <2>5. AnswersReturned'
    BY <2>1 DEF ServerInv, AnswersReturned
  <2>6. NothingLost'
    BY <1>5, <2>1 DEF ServerInv, Signal, Drained, DrainTimesOut, ClosePool, NothingLost,
                      Orderly, Active
  <2>7. QED BY <1>0, <2>4, <2>5, <2>6 DEF ServerInv
<1>6. CASE CloseQueue
  <2>1. /\ phase = "drained" /\ phase' = "queueClosed"
        /\ UNCHANGED <<pc, faults, pool, overran, crashed, requests>>
        /\ queued' = [m \in Messages |-> IF m \in wire THEN queued[m] + 1 ELSE queued[m]]
        /\ wire' = {}
    BY <1>6 DEF CloseQueue, Close
  <2>2. (ProcessTypeOK /\ PoolFollowsMain /\ AuditLossIsExplained /\ AnswersReturned)'
    BY <2>1 DEF ServerInv, PoolFollowsMain, AuditLossIsExplained, AnswersReturned
  <2>3. \A m \in wire : queued[m] = 0
    BY DEF ServerInv, IInv, WireSound
  <2>4. NothingLost'
    BY <2>1, <2>3, <1>t DEF ServerInv, NothingLost, Orderly, Active
  <2>5. QED BY <1>0, <2>2, <2>4 DEF ServerInv
<1>7. CASE Exit \/ Crash
  <2>1. End /\ (phase = "poolClosed" \/ crashed')
    BY <1>7 DEF Exit, Crash
  <2>2. /\ phase' = "exited" /\ wire' \subseteq wire
        /\ UNCHANGED <<pc, queued, faults, pool, overran, answered, rejected>>
    BY <2>1 DEF End
  <2>3. /\ crashed' \in BOOLEAN
        /\ crashed' = crashed \/ crashed'
    BY <1>7 DEF ServerInv, Exit, Crash
  <2>4. audit' \in [Messages -> {"none", "writing", "stored", "missing"}]
    BY <2>1 DEF ServerInv, End
  <2>5. (ProcessTypeOK /\ PoolFollowsMain)'
    BY <2>2, <2>3, <2>4 DEF ServerInv, PoolFollowsMain
  <2>6. AuditLossIsExplained'
    <3>1. CASE crashed'
      BY <3>1 DEF AuditLossIsExplained
    <3>2. CASE ~crashed'
      <4>1. ~pool'
        BY <2>1, <2>2, <3>2 DEF ServerInv, PoolFollowsMain
      <4>2. QED BY <4>1 DEF AuditLossIsExplained
    <3>3. QED BY <3>1, <3>2
  <2>7. AnswersReturned'
    BY <2>2 DEF ServerInv, AnswersReturned
  <2>8. NothingLost'
    <3>1. CASE ~crashed'
      <4>1. phase = "poolClosed" /\ crashed' = crashed
        BY <1>7, <2>1, <3>1 DEF Exit, Crash
      <4>2. QED BY <2>2, <4>1 DEF ServerInv, NothingLost, Orderly, Active
    <3>2. QED BY <3>1 DEF NothingLost, Orderly
  <2>9. QED BY <1>0, <2>5, <2>6, <2>7, <2>8 DEF ServerInv
<1>8. CASE Broker
  <2>1. UNCHANGED <<pc, process, requests>>
    BY <1>8 DEF Broker, Store, LoseConnection, LoseChannel
  <2>2. (ProcessTypeOK /\ PoolFollowsMain /\ AuditLossIsExplained /\ AnswersReturned)'
    BY <2>1 DEF ServerInv, PoolFollowsMain, AuditLossIsExplained, AnswersReturned
  <2>3. NothingLost'
    <3>1. ASSUME NEW m \in Messages, Store(m) PROVE NothingLost'
      <4>1. /\ wire' = wire \ {m} /\ faults' = faults /\ queued[m] = 0 /\ m \in wire
            /\ queued' = [queued EXCEPT ![m] = @ + 1]
        BY <3>1 DEF Store, ServerInv, IInv, WireSound
      <4>2. QED BY <2>1, <4>1, <1>t DEF ServerInv, NothingLost, Orderly, Active
    <3>2. CASE LoseConnection \/ LoseChannel
      <4>1. faults' # 0
        BY <3>2, <1>t DEF LoseConnection, LoseChannel
      <4>2. QED BY <4>1 DEF NothingLost, Orderly
    <3>3. QED BY <1>8, <3>1, <3>2 DEF Broker
  <2>4. QED BY <1>0, <2>2, <2>3 DEF ServerInv
<1>9. CASE UNCHANGED serverVars
  BY <1>0, <1>9 DEF serverVars, vars, ServerInv, PoolFollowsMain, AuditLossIsExplained,
                    AnswersReturned, NothingLost, Orderly, Active
<1>10. QED
  BY <1>1, <1>2, <1>3, <1>4, <1>5, <1>6, <1>7, <1>8, <1>9 DEF ServerNext, Serve, Stop

LEMMA ServerInvariance == ServerSpec => []ServerInv
BY ServerInvInit, ServerInvStep, PTL DEF ServerSpec

-----------------------------------------------------------------------------
\* Every variable of the server and of its queue client stays in its type.
THEOREM ServerTypeCorrect == ServerSpec => []ServerTypeOK
<1>1. ServerInv => ServerTypeOK
  BY DEF ServerInv, IInv, ProcessTypeOK, ServerTypeOK
<1>2. QED BY <1>1, ServerInvariance, PTL

\* A failed Publish is explained in the whole server too, the calls that run
\* while main closes the client included.
THEOREM ServerFailuresAreExplained == ServerSpec => []FailureIsExplained
<1>1. ServerInv => FailureIsExplained
  BY DEF ServerInv, IInv, LossesNoted, FailureIsExplained
<1>2. QED BY <1>1, ServerInvariance, PTL

\* A shutdown that drains in time loses no message that a client was told of.
THEOREM DrainLosesNothing == ServerSpec => []LostOnlyByFault
<1>1. ServerInv => LostOnlyByFault
  BY DEF ServerInv, IInv, TypeOK, NothingLost, Orderly, LostOnlyByFault, Status
<1>2. QED BY <1>1, ServerInvariance, PTL

\* An audit event gets lost to the database, the shutdown or a crash only.
THEOREM AuditLossesAreExplained == ServerSpec => []AuditLossIsExplained
<1>1. ServerInv => AuditLossIsExplained
  BY DEF ServerInv
<1>2. QED BY <1>1, ServerInvariance, PTL

\* The messages of a server are an at-most-once queue, across its exit as well.
THEOREM ServerIsAtMostOnce == ServerSpec => ImplementsQueue
<1>1. ServerInit => Queue!Init
  BY QueueInit DEF ServerInit
<1>2. ServerInv /\ [ServerNext]_serverVars => [Queue!Next]_Status
  <2> SUFFICES ASSUME ServerInv, End PROVE Queue!Next
    BY ClientSteps, QueueStep DEF ServerInv
  <2> DEFINE L == wire \ wire'
  <2>1. /\ L \in SUBSET Messages /\ L \subseteq wire /\ wire' = wire \ L
        /\ UNCHANGED <<pc, queued>>
    BY DEF ServerInv, IInv, TypeOK, End
  <2>2. \A m \in wire : pc[m] = "ok" /\ queued[m] = 0
    BY DEF ServerInv, IInv, WireSound
  <2> HIDE DEF L
  <2>3. \A m \in L : Status[m] = "transit"
    BY <2>1, <2>2 DEF Status
  <2>4. Status' = [m \in Messages |-> IF m \in L THEN "lost" ELSE Status[m]]
    BY <2>1, <2>2 DEF Status
  <2>5. Queue!Lose(L)
    BY <2>3, <2>4 DEF Queue!Lose
  <2>6. QED BY <2>1, <2>5 DEF Queue!Next
<1>3. QED BY <1>1, <1>2, ServerInvariance, PTL DEF ServerSpec, ImplementsQueue, Queue!Spec
=============================================================================
