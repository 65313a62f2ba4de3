--------------------------- MODULE AnalysisReview ---------------------------
(***************************************************************************)
(* What becomes of an analysis: the AI worker writes its clause results,   *)
(* members override the risk level of a clause (AnalysisService.           *)
(* CreateOverride), others ask for its evidence to be retrieved again      *)
(* (EvidenceService.RetrieveEvidence), and the deletion of the contract    *)
(* takes all of it along.  Composed with the requests that create the      *)
(* analyses.                                                               *)
(*                                                                         *)
(* Every analysis has one clause result with one evidence set.  A risk     *)
(* level is known by the override that chose it.  An override is one       *)
(* transaction: its INSERT holds a share lock on the clause result, so     *)
(* that a deletion waits for it, and its UPDATE is visible at the commit.  *)
(*                                                                         *)
(* An operator marked "Faulty" is a plausible bug in the one after it; it  *)
(* serves to test the properties, and no specification uses it.            *)
(***************************************************************************)
EXTENDS AnalysisRequests, Sequences

CONSTANTS
    Overrides,      \* the calls that may be POST /risk-analyses/{id}/overrides
    Retrievals,     \* the calls that may be POST /evidence-sets/{id}/retrieve
    NoOverride, NoAnalysis

ASSUME NoOverrideAssumption == NoOverride \notin Overrides
ASSUME NoAnalysisAssumption == NoAnalysis \notin Requests

VARIABLES
    shown,      \* shown[a]: the override in overridden_risk_level of a's clause
    recorded,   \* the risk_overrides rows
    call,       \* call[o]: where each override or retrieval is, and its analysis
    evidence,   \* evidence[e]: the message of retrieval e, as AtMostOnceQueue has it
    \* History, read by the properties alone:
    begun,      \* the overrides in the order of their NOW(): the begin of the transaction
    overlapped, \* the overrides whose transaction ran beside another one
    gathered    \* the retrievals the worker has worked on

review == <<shown, recorded, call, evidence, begun, overlapped, gathered>>
reviewVars == <<vars, review>>

EvidenceQueue == INSTANCE AtMostOnceQueue WITH Messages <- Retrievals, status <- evidence

Calls == Overrides \union Retrievals
CallPCs == {"new", "checked", "inserted", "created", "retrieving", "error"}

ReviewTypeOK ==
    /\ TypeOK
    /\ shown \in [Requests -> Overrides \union {NoOverride}]
    /\ recorded \subseteq Overrides
    /\ call \in [Calls -> [pc : CallPCs, of : Requests \union {NoAnalysis}]]
    /\ evidence \in [Retrievals -> EvidenceQueue!Statuses]
    /\ begun \in Seq(Overrides)
    /\ overlapped \subseteq Overrides
    /\ gathered \subseteq Retrievals

ReviewInit ==
    /\ Init
    /\ shown = [r \in Requests |-> NoOverride]
    /\ recorded = {}
    /\ call = [c \in Calls |-> [pc |-> "new", of |-> NoAnalysis]]
    /\ EvidenceQueue!Init
    /\ begun = <<>>
    /\ overlapped = {}
    /\ gathered = {}

\* The analyses with a clause result: the worker writes it before it reports
\* the analysis as completed, and it goes with the analysis.
Results == {r \in Requests : row[r] = "completed"}

Become(c, pcOf) == call' = [call EXCEPT ![c].pc = pcOf]
InTransaction(r) == {o \in Overrides : call[o] = [pc |-> "inserted", of |-> r]}
Locked == \E r \in Requests : InTransaction(r) # {}

-----------------------------------------------------------------------------
\* The caller is a member and the clause result exists; what is missing ends
\* the call here.
Checked(c, r) ==
    /\ call[c].pc = "new"
    /\ r \in Results
    /\ call' = [call EXCEPT ![c] = [pc |-> "checked", of |-> r]]
    /\ UNCHANGED <<vars, shown, recorded, evidence, begun, overlapped, gathered>>

\* CreateOverride reads the analysis, the contract, the membership and the
\* clause result; checkEvidenceSetAccess goes the other way, from the set.
CheckOverride(o, r) == Checked(o, r)
CheckEvidence(e, r) == Checked(e, r)

\* Faulty: the row is inserted outside of the transaction.
InsertAtOnce(o) ==
    /\ call[o].pc = "checked"
    /\ LET r == call[o].of IN
         /\ r \in Results
         /\ overlapped' = IF InTransaction(r) = {} THEN overlapped
                          ELSE overlapped \union InTransaction(r) \union {o}
    /\ begun' = Append(begun, o)
    /\ recorded' = recorded \union {o}
    /\ Become(o, "inserted")
    /\ UNCHANGED <<vars, shown, evidence, gathered>>

\* CreateRiskOverride begins its transaction and inserts the row, which
\* references the clause result.
InsertOverride(o) ==
    /\ call[o].pc = "checked"
    /\ LET r == call[o].of IN
         /\ r \in Results
         /\ overlapped' = IF InTransaction(r) = {} THEN overlapped
                          ELSE overlapped \union InTransaction(r) \union {o}
    /\ begun' = Append(begun, o)
    /\ Become(o, "inserted")
    /\ UNCHANGED <<vars, shown, recorded, evidence, gathered>>

\* Faulty: keeps the level of an earlier override.
CommitFirst(o) ==
    /\ call[o].pc = "inserted"
    /\ recorded' = recorded \union {o}
    /\ shown' = [shown EXCEPT ![call[o].of] = IF @ = NoOverride THEN o ELSE @]
    /\ Become(o, "created")
    /\ UNCHANGED <<vars, evidence, begun, overlapped, gathered>>

\* The UPDATE of the clause result, whatever override it shows, and the commit.
CommitOverride(o) ==
    /\ call[o].pc = "inserted"
    /\ recorded' = recorded \union {o}
    /\ shown' = [shown EXCEPT ![call[o].of] = o]
    /\ Become(o, "created")
    /\ UNCHANGED <<vars, evidence, begun, overlapped, gathered>>

\* The transaction fails and is rolled back: the clause result is gone, the
\* database refuses, the client left or the server stopped.
OverrideFails(o) ==
    /\ \/ call[o].pc = "checked" /\ (call[o].of \notin Results \/ Faults)
       \/ call[o].pc = "inserted" /\ Faults
    /\ Become(o, "error")
    /\ UNCHANGED <<vars, shown, recorded, evidence, begun, overlapped, gathered>>

-----------------------------------------------------------------------------
\* RetrieveEvidence publishes to analysis.jobs and answers "retrieving".
PublishRetrieval(e) ==
    /\ call[e].pc = "checked"
    /\ EvidenceQueue!Send(e)
    /\ Become(e, "retrieving")
    /\ UNCHANGED <<vars, shown, recorded, begun, overlapped, gathered>>

\* Faulty: answers although Publish failed.
RetrievingAnyway(e) ==
    /\ Faults
    /\ call[e].pc = "checked"
    /\ EvidenceQueue!Refuse(e)
    /\ Become(e, "retrieving")
    /\ UNCHANGED <<vars, shown, recorded, begun, overlapped, gathered>>

PublishRetrievalFails(e) ==
    /\ Faults
    /\ call[e].pc = "checked"
    /\ EvidenceQueue!Refuse(e)
    /\ Become(e, "error")
    /\ UNCHANGED <<vars, shown, recorded, begun, overlapped, gathered>>

\* RabbitMQ stores or loses the message; the worker takes it from the queue
\* that the analyses use and rewrites the evidence set, if it still exists, or
\* fails and the message is dead-lettered, and perhaps sent again.
EvidenceBroker(e) ==
    /\ EvidenceQueue!Store({e}) \/ (Faults /\ EvidenceQueue!Lose({e}))
    /\ UNCHANGED <<vars, shown, recorded, call, begun, overlapped, gathered>>
Gather(e) ==
    /\ evidence[e] = "queued"
    /\ call[e].of \in Results
    /\ gathered' = gathered \union {e}
    /\ EvidenceQueue!DeadLetter(e) \/ UNCHANGED evidence
    /\ UNCHANGED <<vars, shown, recorded, call, begun, overlapped>>
RedriveEvidence(e) ==
    /\ EvidenceQueue!Redrive(e)
    /\ UNCHANGED <<vars, shown, recorded, call, begun, overlapped, gathered>>

\* DeleteContract cascades to the clause results, the evidence sets and the
\* overrides; it waits for the transactions that lock a clause result.
DeleteAll ==
    /\ ~Locked
    /\ DeleteContract
    /\ shown' = [r \in Requests |-> NoOverride]
    /\ recorded' = {}
    /\ begun' = <<>>
    /\ overlapped' = {}
    /\ UNCHANGED <<call, evidence, gathered>>

Override(o) == InsertOverride(o) \/ CommitOverride(o) \/ OverrideFails(o)
Retrieve(e) == PublishRetrieval(e) \/ PublishRetrievalFails(e)

RequestNext ==
    \/ \E r \in Requests :
        Arrive(r) \/ Step(r) \/ DeleteTwice(r) \/ Cancel(r) \/ Crash(r) \/ Work(r) \/ Redrive(r)
    \/ ExpireLock \/ BrokerStep

ReviewNext ==
    \/ RequestNext /\ UNCHANGED review
    \/ DeleteAll
    \/ \E o \in Overrides : Override(o) \/ \E r \in Requests : CheckOverride(o, r)
    \/ \E e \in Retrievals : \/ \E r \in Requests : CheckEvidence(e, r)
                            \/ Retrieve(e) \/ EvidenceBroker(e) \/ Gather(e)
                            \/ RedriveEvidence(e)

ReviewSpec == ReviewInit /\ [][ReviewNext]_reviewVars

\* As in AnalysisRequests: calls run until they return, the broker stores what
\* it got, and the worker serves its queue.
FairReviewSpec ==
    /\ ReviewSpec
    /\ \A r \in Requests : WF_reviewVars(Step(r) /\ UNCHANGED review)
                        /\ WF_reviewVars(Work(r) /\ UNCHANGED review)
    /\ WF_reviewVars(ExpireLock /\ UNCHANGED review)
    /\ WF_reviewVars(BrokerStep /\ UNCHANGED review)
    /\ \A e \in Retrievals : WF_reviewVars(EvidenceBroker(e)) /\ WF_reviewVars(Gather(e))

-----------------------------------------------------------------------------
(* Properties *)

RecordedOf(r) == {o \in recorded : call[o].of = r}
Newer(o, p) == \E i, j \in DOMAIN begun : i < j /\ begun[i] = p /\ begun[j] = o

\* The level that a clause shows comes from one of its risk_overrides rows, and
\* a clause with such rows shows one of them: the row and the level are written
\* together or not at all, and go together with the contract.
ShownIsRecorded ==
    \A r \in Requests :
        IF RecordedOf(r) = {} THEN shown[r] = NoOverride ELSE shown[r] \in RecordedOf(r)

\* The level shown is that of the newest row by created_at, unless the
\* transactions of the two overrides ran side by side: then the last commit
\* decides, and an older row may stay on show for good.
NewestIsShown ==
    \A r \in Requests : \A o \in RecordedOf(r) :
        Newer(o, shown[r]) => {o, shown[r]} \subseteq overlapped

\* A retrieval that was answered with "retrieving" comes to the worker, unless
\* the broker loses its message or the contract is deleted.
RetrievalIsServed ==
    \A e \in Retrievals : call[e].pc = "retrieving" ~>
        e \in gathered \/ evidence[e] = "lost" \/ ~contract
=============================================================================
