-------------------------- MODULE AnalysisRequests --------------------------
(***************************************************************************)
(* AnalysisService.CreateAnalysis for one contract: the Redis key          *)
(* analysis:lock:<contract>, the risk_analyses rows and the messages of    *)
(* analysis.jobs.  A request makes one call per step; keys and rows of     *)
(* other contracts are disjoint.  Publish is taken as what QueueClient is  *)
(* shown to implement, an at-most-once queue.  The AI worker and the       *)
(* deletion of the contract are the environment.                           *)
(*                                                                         *)
(* An operator marked "Faulty" is a plausible bug in the one after it; it  *)
(* serves to test the properties, and no specification uses it.            *)
(***************************************************************************)
EXTENDS Naturals, FiniteSets

CONSTANTS
    Requests, Free,
    Faults          \* may store calls fail, clients leave and servers crash?

ASSUME FreeAssumption == Free \notin Requests
ASSUME FaultsAssumption == Faults \in BOOLEAN

VARIABLES
    contract,   \* does the contracts row exist?
    lock,       \* the key: Free, or the request whose SetNX created it
    row,        \* row[r]: risk_analyses.status of the row r inserts, or "none"
    message,    \* message[r]: the AnalysisMessage of r, as AtMostOnceQueue has it
    pc,         \* where each request is
    gone,       \* those under way whose client left: their context is cancelled
    answer,     \* answer[r]: what CreateAnalysis returned
    \* History, read by the properties alone:
    broken,     \* the requests with a fault on their way: a call failed, the client left
    early       \* those whose key expired, or was deleted by a DEL that was sent
                \* twice, while they needed it; empty again when nobody does

vars == <<contract, lock, row, message, pc, gone, answer, broken, early>>

Broker == INSTANCE AtMostOnceQueue WITH Messages <- Requests, status <- message

Critical == {"insert", "publish", "undo", "release"}
PCs == {"new", "find", "lock", "returned"} \union Critical
Answers == {"none", "accepted", "conflict", "error"}
RowStates == {"none", "pending", "running", "completed", "failed"}

TypeOK ==
    /\ contract \in BOOLEAN
    /\ lock \in Requests \union {Free}
    /\ row \in [Requests -> RowStates]
    /\ message \in [Requests -> Broker!Statuses]
    /\ pc \in [Requests -> PCs]
    /\ gone \subseteq Requests
    /\ answer \in [Requests -> Answers]
    /\ broken \subseteq Requests
    /\ early \subseteq Requests

Init ==
    /\ contract = TRUE
    /\ lock = Free
    /\ row = [r \in Requests |-> "none"]
    /\ Broker!Init
    /\ pc = [r \in Requests |-> "new"]
    /\ gone = {}
    /\ answer = [r \in Requests |-> "none"]
    /\ broken = {}
    /\ early = {}

Goto(r, l) == pc' = [pc EXCEPT ![r] = l]
InCritical == {r \in Requests : pc[r] \in Critical}
Leave(r) ==
    /\ Goto(r, "returned")
    /\ gone' = gone \ {r}
    /\ early' = IF InCritical \subseteq {r} THEN {} ELSE early
Return(r, a) == Leave(r) /\ answer' = [answer EXCEPT ![r] = a]

-----------------------------------------------------------------------------
\* POST /contracts/{id}/risk-analyses arrives.
Arrive(r) ==
    /\ pc[r] = "new"
    /\ Goto(r, "find")
    /\ UNCHANGED <<contract, lock, row, message, gone, answer, broken, early>>

\* FindContractByID and IsOrgMember: a missing contract or a stranger is
\* refused here.
Find(r) ==
    /\ pc[r] = "find"
    /\ \/ contract /\ Goto(r, "lock") /\ UNCHANGED <<gone, answer, early>>
       \/ Return(r, "error")
    /\ UNCHANGED <<contract, lock, row, message, broken>>

\* Faulty: Set for SetNX.
LockAnyway(r) ==
    /\ pc[r] = "lock"
    /\ lock' = r
    /\ Goto(r, "insert")
    /\ UNCHANGED <<contract, row, message, gone, answer, broken, early>>

\* SetNX: the key is created if there is none, otherwise a conflict.
AcquireLock(r) ==
    /\ pc[r] = "lock"
    /\ IF lock = Free
       THEN lock' = r /\ Goto(r, "insert") /\ UNCHANGED <<gone, answer, early>>
       ELSE /\ Return(r, "conflict")
            /\ UNCHANGED lock
    /\ UNCHANGED <<contract, row, message, broken>>

\* The connection breaks: SetNX returns an error, whether or not Redis created
\* the key, or go-redis sends it again, to find the key that it just created.
AcquireFails(r) ==
    /\ Faults
    /\ pc[r] = "lock"
    /\ \/ lock = Free /\ lock' = r /\ Return(r, "error")
       \/ lock = Free /\ lock' = r /\ Return(r, "conflict")
       \/ Return(r, "error") /\ UNCHANGED lock
    /\ broken' = broken \union {r}
    /\ UNCHANGED <<contract, row, message>>

\* CreateAnalysis inserts the pending row, which references the contract.
Insert(r) ==
    /\ pc[r] = "insert"
    /\ contract
    /\ r \notin gone
    /\ row' = [row EXCEPT ![r] = "pending"]
    /\ Goto(r, "publish")
    /\ UNCHANGED <<contract, lock, message, gone, answer, broken, early>>

\* The insert returns an error: the contract was deleted meanwhile, the client
\* left, or the database failed, possibly after it committed the row.
InsertFails(r) ==
    /\ pc[r] = "insert"
    /\ \/ /\ ~contract \/ r \in gone
          /\ UNCHANGED <<row, broken>>
       \/ /\ Faults
          /\ row' \in {row, [row EXCEPT ![r] = IF contract THEN "pending" ELSE "none"]}
          /\ broken' = broken \union {r}
    /\ Goto(r, "undo")
    /\ UNCHANGED <<contract, lock, message, gone, answer, early>>

\* Faulty: returns without unlocking.
PublishOnly(r) ==
    /\ pc[r] = "publish"
    /\ Broker!Send(r)
    /\ Return(r, "accepted")
    /\ UNCHANGED <<contract, lock, row, broken>>

\* Publish does not look at the context; its failure leaves the row pending.
Publish(r) ==
    /\ pc[r] = "publish"
    /\ Broker!Send(r)
    /\ Goto(r, "release")
    /\ UNCHANGED <<contract, lock, row, gone, answer, broken, early>>

\* Faulty: the error of Publish is ignored.
AcceptAnyway(r) ==
    /\ Faults
    /\ pc[r] = "publish"
    /\ Broker!Refuse(r)
    /\ Goto(r, "release")
    /\ UNCHANGED <<contract, lock, row, gone, answer, broken, early>>

\* Faulty: an error for a message that was written.
SendAndFail(r) ==
    /\ Faults
    /\ pc[r] = "publish"
    /\ Broker!Send(r)
    /\ Goto(r, "undo")
    /\ broken' = broken \union {r}
    /\ UNCHANGED <<contract, lock, row, gone, answer, early>>

PublishFails(r) ==
    /\ Faults
    /\ pc[r] = "publish"
    /\ Broker!Refuse(r)
    /\ Goto(r, "undo")
    /\ broken' = broken \union {r}
    /\ UNCHANGED <<contract, lock, row, gone, answer, early>>

\* cache.Delete(lockKey): it does not ask whose key it is, its error is
\* ignored, and it fails when the client has left.
Delete(r) ==
    \/ r \notin gone /\ lock' = Free /\ UNCHANGED broken
    \/ (r \in gone \/ Faults) /\ broken' = broken \union {r} /\ UNCHANGED lock

\* After a failure: unlock and return the error.
Undo(r) ==
    /\ pc[r] = "undo"
    /\ Delete(r)
    /\ Return(r, "error")
    /\ UNCHANGED <<contract, row, message>>

\* After the enqueue: unlock and return the analysis.
Release(r) ==
    /\ pc[r] = "release"
    /\ Delete(r)
    /\ Return(r, "accepted")
    /\ UNCHANGED <<contract, row, message>>

LoseLock == lock' = Free /\ early' = early \union ({lock} \intersect InCritical)

\* The connection breaks and go-redis sends the DEL a second time: the first one
\* was executed, and the second one finds whatever key there is by then.
DeleteTwice(r) ==
    /\ Faults
    /\ pc[r] \in {"undo", "release"}
    /\ r \notin gone
    /\ lock # Free
    /\ LoseLock
    /\ UNCHANGED <<contract, row, message, pc, gone, answer, broken>>

-----------------------------------------------------------------------------
\* The client goes away: r.Context() is cancelled.
Cancel(r) ==
    /\ Faults
    /\ pc[r] \in Critical
    /\ r \notin gone
    /\ gone' = gone \union {r}
    /\ UNCHANGED <<contract, lock, row, message, pc, answer, broken, early>>

\* The server stops in the middle of the request.
Crash(r) ==
    /\ Faults
    /\ pc[r] \notin {"new", "returned"}
    /\ broken' = broken \union {r}
    /\ Leave(r)
    /\ UNCHANGED <<contract, lock, row, message, answer>>

\* Faulty: the key never expires.
KeyWithoutTTL == FALSE /\ UNCHANGED vars

\* Redis drops the key after ten minutes, even of a request that still needs it.
ExpireLock ==
    /\ lock # Free
    /\ LoseLock
    /\ UNCHANGED <<contract, row, message, pc, gone, answer, broken>>

\* DeleteContract: the rows go with the contract, the messages stay.
DeleteContract ==
    /\ contract
    /\ contract' = FALSE
    /\ row' = [r \in Requests |-> "none"]
    /\ UNCHANGED <<lock, message, pc, gone, answer, broken, early>>

\* RabbitMQ stores or loses what was published.
BrokerStep ==
    /\ \E r \in Requests : Broker!Store({r}) \/ (Faults /\ Broker!Lose({r}))
    /\ UNCHANGED <<contract, lock, row, pc, gone, answer, broken, early>>

\* The AI worker takes a message from the queue and works on its row; the
\* message of a failed analysis is dead-lettered.
Work(r) ==
    /\ message[r] = "queued"
    /\ \/ /\ row[r] \in {"pending", "failed"}
          /\ row' = [row EXCEPT ![r] = "running"] /\ UNCHANGED message
       \/ /\ row[r] = "running"
          /\ row' = [row EXCEPT ![r] = "completed"] /\ UNCHANGED message
       \/ /\ row[r] = "running"
          /\ row' = [row EXCEPT ![r] = "failed"] /\ Broker!DeadLetter(r)
    /\ UNCHANGED <<contract, lock, pc, gone, answer, broken, early>>

\* A failed analysis is sent again.
Redrive(r) ==
    /\ Broker!Redrive(r)
    /\ UNCHANGED <<contract, lock, row, pc, gone, answer, broken, early>>

Step(r) ==
    \/ Find(r) \/ AcquireLock(r) \/ AcquireFails(r)
    \/ Insert(r) \/ InsertFails(r) \/ Publish(r) \/ PublishFails(r)
    \/ Undo(r) \/ Release(r)

Next ==
    \/ \E r \in Requests :
        Arrive(r) \/ Step(r) \/ DeleteTwice(r) \/ Cancel(r) \/ Crash(r) \/ Work(r) \/ Redrive(r)
    \/ ExpireLock \/ DeleteContract \/ BrokerStep

Spec == Init /\ [][Next]_vars

-----------------------------------------------------------------------------
(* Properties *)

\* "The lock only needed to prevent duplicate in-flight requests": two requests
\* do not create an analysis of the same contract at the same time.  A key that
\* goes too early lets in one more, and no more than that, although its owner
\* then deletes the key of another one, and that one the next.
OneInFlight == Cardinality(InCritical) <= 1 + Cardinality(early)

\* The key outlives its request only after a fault of that request: without
\* one, "analysis already running" is only answered while another is under way.
LockLeaksOnlyByFault == lock # Free /\ lock \notin InCritical => lock \in broken

\* A row that waits for a worker without a message to bring it one is under
\* way, or its request returned an error or died, or the broker lost the
\* message: an accepted analysis always had its message written.
PendingIsExplained ==
    \A r \in Requests : row[r] = "pending" /\ message[r] \notin {"transit", "queued"} =>
        \/ pc[r] = "publish"
        \/ message[r] = "lost"
        \/ r \in broken /\ answer[r] # "accepted"

\* A worker never runs an analysis whose request was answered with a conflict
\* or an error: the client may ask again without a second run.
RunsOnlyEnqueued ==
    \A r \in Requests : row[r] \in {"running", "completed", "failed"} =>
        answer[r] \notin {"conflict", "error"} /\ Broker!Stored(r)

\* Whatever fails, the contract can be analysed again some time.
LockEventuallyFree == []<>(lock = Free)

\* An accepted analysis is worked on, unless the message is lost or the
\* contract deleted.
AcceptedIsAnalysed ==
    \A r \in Requests : answer[r] = "accepted" ~>
        row[r] \in {"completed", "failed"} \/ message[r] = "lost" \/ ~contract
=============================================================================
