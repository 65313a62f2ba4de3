------------------------- MODULE ContractLifecycle -------------------------
(***************************************************************************)
(* What a list of contracts shows over time, with no request, file, job or *)
(* message in sight: a contract appears once, is processed again only      *)
(* after it failed, stays ready once it is, and is gone for good when it   *)
(* has been deleted.                                                       *)
(***************************************************************************)
CONSTANT Contracts

VARIABLE stage      \* stage[c]: its status while it is listed

Listed == {"uploaded", "processing", "ready", "failed"}
Stages == {"absent", "gone"} \union Listed

Init == stage = [c \in Contracts |-> "absent"]

Advance(c, from, to) ==
    /\ stage[c] \in from
    /\ \E s \in to : stage' = [stage EXCEPT ![c] = s]

Create(c) == Advance(c, {"absent"}, {"uploaded"})

\* The upload fails before there is a contract: none will come of it.
Abandon(c) == Advance(c, {"absent"}, {"gone"})

\* The ingestion worker; a retry is a failed job's return from the dead-letter
\* queue.
Begin(c) == Advance(c, {"uploaded"}, {"processing"})
Retry(c) == Advance(c, {"failed"}, {"processing"})
End(c) == Advance(c, {"processing"}, {"ready", "failed"})

Delete(c) == Advance(c, Listed, {"gone"})

Next ==
    \E c \in Contracts :
        Create(c) \/ Abandon(c) \/ Begin(c) \/ Retry(c) \/ End(c) \/ Delete(c)

Spec == Init /\ [][Next]_stage
=============================================================================
