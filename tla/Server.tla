------------------------------- MODULE Server -------------------------------
(***************************************************************************)
(* The life of one server process (main.go) around its queue client:       *)
(* requests whose handler publishes a message and then leaves an audit     *)
(* event to a goroutine of its own, and the shutdown: a signal, the        *)
(* draining of requests for at most thirty seconds, the deferred Close     *)
(* calls in their reverse order, and the exit that ends every goroutine    *)
(* still running.                                                          *)
(*                                                                         *)
(* A message of QueueClient stands for the request that publishes it.  The *)
(* process starts connected (main ends the process otherwise) and serving. *)
(*                                                                         *)
(* An operator marked "Faulty" is a plausible bug in the one after it; it  *)
(* serves to test the properties, and no specification uses it.            *)
(***************************************************************************)
EXTENDS QueueClient

CONSTANTS
    AuditFaults     \* may the database refuse an audit event?

ASSUME AuditFaultsAssumption == AuditFaults \in BOOLEAN

VARIABLES
    phase,      \* where main is
    answered,   \* the requests whose handler has returned
    audit,      \* audit[m]: the event of m's request: "none", "writing", "stored", "missing"
    pool,       \* is the database pool open?
    \* History, read by the properties alone:
    overran,    \* Shutdown gave up on a request after thirty seconds
    crashed,    \* the process was killed or ended by log.Fatalf
    rejected    \* the requests whose audit event the database refused

process == <<phase, pool, overran, crashed>>
requests == <<answered, audit, rejected>>
serverVars == <<vars, process, requests>>

Phases == {"serving", "draining", "drained", "queueClosed", "poolClosed", "exited"}

ServerTypeOK ==
    /\ TypeOK
    /\ phase \in Phases
    /\ answered \subseteq Messages
    /\ audit \in [Messages -> {"none", "writing", "stored", "missing"}]
    /\ pool \in BOOLEAN
    /\ overran \in BOOLEAN
    /\ crashed \in BOOLEAN
    /\ rejected \subseteq Messages

ServerInit ==
    /\ Init
    /\ phase = "serving"
    /\ answered = {}
    /\ audit = [m \in Messages |-> "none"]
    /\ pool = TRUE
    /\ overran = FALSE
    /\ crashed = FALSE
    /\ rejected = {}

Alive == phase # "exited"
Active == {m \in Messages : pc[m] # "new" /\ m \notin answered}

-----------------------------------------------------------------------------
\* A request arrives at the listener, which Shutdown closes first.
Accept(m) ==
    /\ phase = "serving"
    /\ Call(m)
    /\ UNCHANGED <<process, requests>>

\* The goroutine of a request takes the next step of its Publish.
PublishStep(m) ==
    /\ Alive
    /\ Step(m)
    /\ UNCHANGED <<process, requests>>

\* The handler returns: on success it starts the goroutine of its audit event
\* (logAuditEvent) and answers, on failure it answers with the error.
Answer(m) ==
    /\ Alive
    /\ m \in Active
    /\ pc[m] \in Returned
    /\ answered' = answered \union {m}
    /\ audit' = [audit EXCEPT ![m] = IF pc[m] = "ok" THEN "writing" ELSE @]
    /\ UNCHANGED <<vars, process, rejected>>

\* Faulty: inserts with the context of the request, which ends with the answer.
WriteInRequestContext(m) ==
    /\ Alive
    /\ audit[m] = "writing"
    /\ audit' = [audit EXCEPT ![m] = IF m \in answered THEN "missing" ELSE "stored"]
    /\ UNCHANGED <<vars, process, answered, rejected>>

\* CreateAuditEvent inserts the row.
WriteAudit(m) ==
    /\ Alive
    /\ audit[m] = "writing"
    /\ pool
    /\ audit' = [audit EXCEPT ![m] = "stored"]
    /\ UNCHANGED <<vars, process, answered, rejected>>

\* The INSERT fails, because the database refuses it or main has closed the
\* pool: nobody looks at the error.
WriteAuditFails(m) ==
    /\ Alive
    /\ audit[m] = "writing"
    /\ \/ ~pool /\ UNCHANGED rejected
       \/ AuditFaults /\ rejected' = rejected \union {m}
    /\ audit' = [audit EXCEPT ![m] = "missing"]
    /\ UNCHANGED <<vars, process, answered>>

-----------------------------------------------------------------------------
\* SIGTERM: main wakes up and calls Shutdown, which closes the listener.
Signal ==
    /\ phase = "serving"
    /\ phase' = "draining"
    /\ UNCHANGED <<vars, pool, overran, crashed, requests>>

\* Faulty: without waiting for the requests.
StopServing ==
    /\ phase = "draining"
    /\ phase' = "drained"
    /\ UNCHANGED <<vars, pool, overran, crashed, requests>>

\* Shutdown returns once no request is active; it knows nothing of the
\* goroutines that write audit events.
Drained ==
    /\ phase = "draining"
    /\ Active = {}
    /\ phase' = "drained"
    /\ UNCHANGED <<vars, pool, overran, crashed, requests>>

\* Shutdown gives up after thirty seconds; main only logs that.
DrainTimesOut ==
    /\ phase = "draining"
    /\ Active # {}
    /\ phase' = "drained"
    /\ overran' = TRUE
    /\ UNCHANGED <<vars, pool, crashed, requests>>

\* The deferred calls, last in first out: queueClient.Close ...
CloseQueue ==
    /\ phase = "drained"
    /\ Close
    /\ phase' = "queueClosed"
    /\ UNCHANGED <<pool, overran, crashed, requests>>

\* ... then cacheClient.Close and db.Close.
ClosePool ==
    /\ phase = "queueClosed"
    /\ phase' = "poolClosed"
    /\ pool' = FALSE
    /\ UNCHANGED <<vars, overran, crashed, requests>>

\* The process ends and its goroutines with it: an INSERT under way is
\* committed or not, if the pool is open, and the messages in transit are
\* stored or not.
End ==
    /\ phase' = "exited"
    /\ \E committed \in SUBSET {m \in Messages : pool} :
         audit' = [m \in Messages |->
                     IF audit[m] # "writing" THEN audit[m]
                     ELSE IF m \in committed THEN "stored" ELSE "missing"]
    /\ wire' \in SUBSET wire
    /\ UNCHANGED <<link, mu, pc, retry, queued, faults, closing, losses, refused, struck,
                   pool, overran, answered, rejected>>

Exit ==
    /\ phase = "poolClosed"
    /\ End
    /\ UNCHANGED crashed

\* log.Fatalf when the listener breaks, or the process is killed: no deferred
\* call runs.
Crash ==
    /\ Alive
    /\ End
    /\ crashed' = TRUE

\* The broker and the network go on without the process.
Broker ==
    /\ \/ \E m \in Messages : Store(m)
       \/ Alive /\ (LoseConnection \/ LoseChannel)
    /\ UNCHANGED <<process, requests>>

Serve(m) == PublishStep(m) \/ Answer(m)
Write(m) == WriteAudit(m) \/ WriteAuditFails(m)
Stop == Drained \/ DrainTimesOut \/ CloseQueue \/ ClosePool \/ Exit

ServerNext ==
    \/ \E m \in Messages : Accept(m) \/ Serve(m) \/ Write(m)
    \/ Signal \/ Stop \/ Crash \/ Broker

ServerSpec == ServerInit /\ [][ServerNext]_serverVars

\* A handler runs until it returns, since the broker answers or refuses every
\* request of a reconnect, and main runs to its end once it got a signal;
\* nothing forces a signal, a fault or a crash.
FairServerSpec ==
    /\ ServerSpec
    /\ \A m \in Messages : WF_serverVars(Serve(m))
    /\ WF_serverVars(Stop)

-----------------------------------------------------------------------------
(* Properties *)

\* A request is told of success for a message the broker never stored only if
\* the link was lost or the process killed before the broker stored it, or if
\* the request outlived the thirty seconds of the shutdown.  A shutdown that
\* drains loses no message, whenever the signal comes.
LostOnlyByFault ==
    \A m \in Messages : Status[m] = "lost" => faults > 0 \/ crashed \/ overran

\* "Use context.Background() so the write is not cancelled when the HTTP request
\* context is done": an event of an answered request is missing only if the
\* database refused it or the server stopped before it was written.
AuditLossIsExplained ==
    \A m \in Messages : audit[m] = "missing" => m \in rejected \/ ~pool \/ crashed

\* A request that was accepted is answered, through reconnects and a shutdown,
\* unless the process ends first.
RequestsEnd == \A m \in Messages : m \in Active ~> m \in answered \/ phase = "exited"

\* A signal ends the process, whatever the requests and the broker do: no call
\* keeps the mutex from Close for ever.
SignalEnds == phase = "draining" ~> phase = "exited"
=============================================================================
