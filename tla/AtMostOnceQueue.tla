-------------------------- MODULE AtMostOnceQueue --------------------------
(***************************************************************************)
(* What Publish promises the services that call it: a message whose        *)
(* Publish returned an error is never queued; one whose Publish returned   *)
(* nil is on its way, is stored once at most, and may still be lost.  The  *)
(* consumer may refuse a stored message: declareQueue has the broker put   *)
(* it into the dead-letter queue, from where it can be sent again.         *)
(***************************************************************************)
CONSTANT Messages

VARIABLE status     \* status[m]: how far m has come

Statuses == {"unsent", "refused", "transit", "queued", "dead", "lost"}

Init == status = [m \in Messages |-> "unsent"]

\* Publish returns an error.
Refuse(m) == status[m] = "unsent" /\ status' = [status EXCEPT ![m] = "refused"]

\* Publish returns nil.
Send(m) == status[m] = "unsent" /\ status' = [status EXCEPT ![m] = "transit"]

\* The broker stores some of what is on its way.
Store(S) ==
    /\ \A m \in S : status[m] = "transit"
    /\ status' = [m \in Messages |-> IF m \in S THEN "queued" ELSE status[m]]

\* A connection takes down some of what it carries.
Lose(S) ==
    /\ \A m \in S : status[m] = "transit"
    /\ status' = [m \in Messages |-> IF m \in S THEN "lost" ELSE status[m]]

\* The consumer rejects a message.
DeadLetter(m) == status[m] = "queued" /\ status' = [status EXCEPT ![m] = "dead"]

\* An operator returns it to its queue.
Redrive(m) == status[m] = "dead" /\ status' = [status EXCEPT ![m] = "queued"]

\* What has been stored, in the queue or beside it.
Stored(m) == status[m] \in {"queued", "dead"}
\* What Publish returned nil for.
Sent(m) == Stored(m) \/ status[m] \in {"transit", "lost"}

Next ==
    \/ \E m \in Messages : Refuse(m) \/ Send(m) \/ DeadLetter(m) \/ Redrive(m)
    \/ \E S \in SUBSET Messages : Store(S) \/ Lose(S)

Spec == Init /\ [][Next]_status
=============================================================================
