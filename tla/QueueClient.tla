---------------------------- MODULE QueueClient ----------------------------
(***************************************************************************)
(* queue.Client (rabbitmq.go): one AMQP connection and one channel on it,  *)
(* shared under a mutex by all the goroutines that call Publish.  The      *)
(* client reconnects lazily, when a Publish finds the connection closed,   *)
(* and repeats a failed publish once.  Messages are not confirmed by the   *)
(* broker: a written message is in transit until the broker stores it, and *)
(* is lost with its connection or channel.                                 *)
(*                                                                         *)
(* A message stands for the goroutine whose Publish call carries it.  The  *)
(* write and the unlock that follows it are one step: no other call can    *)
(* get in between, and a fault during the write is a failed write.         *)
(*                                                                         *)
(* An operator marked "Faulty" is a plausible bug in the one after it; it  *)
(* serves to test the properties, and no specification uses it.            *)
(***************************************************************************)
EXTENDS Naturals

CONSTANTS
    Messages, Nobody,
    MaxFaults       \* bound: faults of the connection or the channel in a run

ASSUME NobodyAssumption == Nobody \notin Messages
ASSUME MaxFaultsAssumption == MaxFaults \in Nat

VARIABLES
    conn,       \* c.conn: "open" or "closed"
    channel,    \* c.channel, which is never nil after NewClient
    mu,         \* who holds c.mu across a reconnect
    pc,         \* where each Publish call is
    retry,      \* the calls that are past their first attempt
    wire,       \* messages written to the open channel and not stored yet
    queued,     \* messages the broker stored, with the number of copies
    faults,     \* how many faults there were
    closing,    \* main has returned and deferred Close has run
    \* History, read by the properties alone:
    losses,     \* losses[m]: connections and channels lost during m's call
    refused,    \* the calls whose own reconnect the broker refused
    struck      \* the calls that found the channel closed on an open connection

link == <<conn, channel>>
vars == <<link, mu, pc, retry, wire, queued, faults, closing, losses, refused, struck>>

Reconnecting == {"dial", "openChannel", "declare"}
Attempting == {"ensure", "publish"} \union Reconnecting
Returned == {"ok", "failed"}

TypeOK ==
    /\ conn \in {"open", "closed"}
    /\ channel \in {"open", "closed"}
    /\ mu \in Messages \union {Nobody}
    /\ pc \in [Messages -> {"new"} \union Attempting \union Returned]
    /\ retry \subseteq Messages
    /\ wire \subseteq Messages
    /\ queued \in [Messages -> 0..1]
    /\ faults \in Nat
    /\ closing \in BOOLEAN
    /\ losses \in [Messages -> Nat]
    /\ refused \subseteq Messages
    /\ struck \subseteq Messages

\* NewClient has connected.
Init ==
    /\ conn = "open"
    /\ channel = "open"
    /\ mu = Nobody
    /\ pc = [m \in Messages |-> "new"]
    /\ retry = {}
    /\ wire = {}
    /\ queued = [m \in Messages |-> 0]
    /\ faults = 0
    /\ closing = FALSE
    /\ losses = [m \in Messages |-> 0]
    /\ refused = {}
    /\ struck = {}

Goto(m, l) == pc' = [pc EXCEPT ![m] = l]
InCall(m) == pc[m] \in Attempting
NoteLoss == losses' = [m \in Messages |-> IF InCall(m) THEN losses[m] + 1 ELSE losses[m]]

-----------------------------------------------------------------------------
\* A handler calls Publish; the payload always marshals.
Call(m) ==
    /\ pc[m] = "new"
    /\ Goto(m, "ensure")
    /\ UNCHANGED <<link, mu, retry, wire, queued, faults, closing, losses, refused, struck>>

\* ensureConnected: an open connection is enough, whatever became of the
\* channel; otherwise reconnect with the mutex held.
EnsureConnected(m) ==
    /\ pc[m] = "ensure"
    /\ mu = Nobody
    /\ IF conn = "open"
       THEN Goto(m, "publish") /\ UNCHANGED mu
       ELSE Goto(m, "dial") /\ mu' = m
    /\ UNCHANGED <<link, retry, wire, queued, faults, closing, losses, refused, struck>>

\* connect, first step: amqp.Dial.
Dial(m) ==
    /\ pc[m] = "dial"
    /\ Goto(m, "openChannel")
    /\ UNCHANGED <<link, mu, retry, wire, queued, faults, closing, losses, refused, struck>>

\* Second step: conn.Channel(); only then are the fields replaced.
OpenChannel(m) ==
    /\ pc[m] = "openChannel"
    /\ conn' = "open"
    /\ channel' = "open"
    /\ Goto(m, "declare")
    /\ UNCHANGED <<mu, retry, wire, queued, faults, closing, losses, refused, struck>>

\* Last step: the four queues are declared on the new channel.
Declare(m) ==
    /\ pc[m] = "declare"
    /\ channel = "open"
    /\ mu' = Nobody
    /\ Goto(m, "publish")
    /\ UNCHANGED <<link, retry, wire, queued, faults, closing, losses, refused, struck>>

\* Faulty: returns without unlocking.
KeepLockOnFailure(m) ==
    /\ pc[m] \in Reconnecting
    /\ conn' = "closed" /\ channel' = "closed"
    /\ Goto(m, "failed")
    /\ refused' = refused \union {m}
    /\ UNCHANGED <<mu, retry, wire, queued, faults, closing, losses, struck>>

\* connect fails at one of its steps: a refused dial or channel leaves the
\* fields alone, a failed declaration closes the connection it has put there.
\* Publish gives up, even on its first attempt.
ConnectFails(m) ==
    /\ pc[m] \in Reconnecting
    /\ IF pc[m] = "declare"
       THEN conn' = "closed" /\ channel' = "closed"
       ELSE UNCHANGED link
    /\ mu' = Nobody
    /\ Goto(m, "failed")
    /\ refused' = refused \union {m}
    /\ UNCHANGED <<retry, wire, queued, faults, closing, losses, struck>>

\* After a failed attempt: the first time, Publish goes back to
\* ensureConnected; the second time it gives up.
AnotherAttempt(m) ==
    IF m \in retry
    THEN Goto(m, "failed") /\ UNCHANGED retry
    ELSE Goto(m, "ensure") /\ retry' = retry \union {m}

\* Faulty: tries again after a success.
PublishTwice(m) ==
    /\ pc[m] = "publish"
    /\ mu = Nobody
    /\ channel = "open"
    /\ wire' = wire \union {m}
    /\ IF m \in retry THEN Goto(m, "ok") /\ UNCHANGED retry ELSE AnotherAttempt(m)
    /\ UNCHANGED <<link, mu, queued, faults, closing, losses, refused, struck>>

\* PublishWithContext returns nil: the frames are written.
Publish(m) ==
    /\ pc[m] = "publish"
    /\ mu = Nobody
    /\ channel = "open"
    /\ wire' = wire \union {m}
    /\ Goto(m, "ok")
    /\ UNCHANGED <<link, mu, retry, queued, faults, closing, losses, refused, struck>>

\* Faulty: does not retry.
PublishFailsAtOnce(m) ==
    /\ pc[m] = "publish"
    /\ mu = Nobody
    /\ channel = "closed"
    /\ Goto(m, "failed")
    /\ UNCHANGED <<link, mu, retry, wire, queued, faults, closing, losses, refused, struck>>

\* It returns an error: the channel was closed.
PublishFails(m) ==
    /\ pc[m] = "publish"
    /\ mu = Nobody
    /\ channel = "closed"
    /\ AnotherAttempt(m)
    /\ struck' = IF conn = "open" THEN struck \union {m} ELSE struck
    /\ UNCHANGED <<link, mu, wire, queued, faults, closing, losses, refused>>

-----------------------------------------------------------------------------
\* The broker stores a message that reached it.
Store(m) ==
    /\ m \in wire
    /\ wire' = wire \ {m}
    /\ queued' = [queued EXCEPT ![m] = @ + 1]
    /\ UNCHANGED <<link, mu, pc, retry, faults, closing, losses, refused, struck>>

\* The connection breaks (network, broker restart, a failed write) and takes
\* its channel and everything in transit with it.
LoseConnection ==
    /\ faults < MaxFaults
    /\ conn = "open"
    /\ conn' = "closed"
    /\ channel' = "closed"
    /\ wire' = {}
    /\ faults' = faults + 1
    /\ NoteLoss
    /\ UNCHANGED <<mu, pc, retry, queued, closing, refused, struck>>

\* The broker closes the channel alone, as it does on a channel error.
LoseChannel ==
    /\ faults < MaxFaults
    /\ channel = "open"
    /\ channel' = "closed"
    /\ wire' = {}
    /\ faults' = faults + 1
    /\ NoteLoss
    /\ UNCHANGED <<conn, mu, pc, retry, queued, closing, refused, struck>>

\* Close, deferred by main: both closing handshakes wait for the broker, which
\* has read by then what was written.  Calls that outlive the shutdown's
\* timeout may still be running.
Close ==
    /\ ~closing
    /\ mu = Nobody
    /\ conn' = "closed"
    /\ channel' = "closed"
    /\ queued' = [m \in Messages |-> IF m \in wire THEN queued[m] + 1 ELSE queued[m]]
    /\ wire' = {}
    /\ closing' = TRUE
    /\ NoteLoss
    /\ UNCHANGED <<mu, pc, retry, faults, refused, struck>>

Step(m) ==
    \/ EnsureConnected(m)
    \/ Dial(m) \/ OpenChannel(m) \/ Declare(m) \/ ConnectFails(m)
    \/ Publish(m) \/ PublishFails(m)

Next ==
    \/ \E m \in Messages : Call(m) \/ Step(m) \/ Store(m)
    \/ LoseConnection \/ LoseChannel \/ Close

Spec == Init /\ [][Next]_vars

-----------------------------------------------------------------------------
(* Properties *)

\* The mutex is held exactly by the call that reconnects: every way out of
\* ensureConnected lets go of it.
MutexHeldToReconnect == \A m \in Messages : mu = m <=> pc[m] \in Reconnecting

\* A Publish fails only if the broker refused its own reconnect, if two
\* connections were lost under it, or if it met a closed channel on an open
\* connection, which ensureConnected takes for a working one.
FailureIsExplained ==
    \A m \in Messages : pc[m] = "failed" => m \in refused \union struck \/ losses[m] >= 2

\* "If the channel is closed it reconnects once and retries": a Publish fails
\* only if the broker refused its own reconnect, or if a connection or channel
\* was lost under it twice.
RetrySurvivesOneLoss ==
    \A m \in Messages : pc[m] = "failed" => m \in refused \/ losses[m] >= 2

\* Publish is an at-most-once queue: no copy of a message whose Publish failed,
\* one copy at most of the others, whatever the retries and reconnects.
Status == [m \in Messages |->
    CASE queued[m] > 1 -> "duplicated"
      [] queued[m] = 1 -> "queued"
      [] queued[m] = 0 /\ m \in wire -> "transit"
      [] queued[m] = 0 /\ m \notin wire /\ pc[m] = "ok" -> "lost"
      [] queued[m] = 0 /\ m \notin wire /\ pc[m] = "failed" -> "refused"
      [] OTHER -> "unsent"]
Queue == INSTANCE AtMostOnceQueue WITH status <- Status
ImplementsQueue == Queue!Spec

=============================================================================
