---------------------------- MODULE LaunchLedger ----------------------------
(***************************************************************************)
(* What the collection queue promises about launches, and all that the     *)
(* corpus store relies on when it admits work for a request: a request has *)
(* a launch epoch, the launch is live or over, a launch that is over never *)
(* becomes live again, and a new launch always carries a larger epoch.     *)
(* CollectionRequests implements this module; CorpusJobs uses it.          *)
(***************************************************************************)
EXTENDS Naturals

CONSTANTS
    Request,   \* rows of openlegal.collection_request
    LastEpoch  \* bound on launches of one request

VARIABLES
    epoch,     \* epoch[r]: launched_at of r's latest launch, 0 before the first
    live       \* live[r]: status launching/running and lease_until in the future

ledger == <<epoch, live>>

Init ==
    /\ epoch = [r \in Request |-> 0]
    /\ live = [r \in Request |-> FALSE]

\* claim_collection_request_with_policy: the next launch of a request.
Launch(r) ==
    /\ ~live[r]
    /\ \E e \in (epoch[r] + 1)..LastEpoch : epoch' = [epoch EXCEPT ![r] = e]
    /\ live' = [live EXCEPT ![r] = TRUE]

\* Settlement, a failed Job, or the lapse of leases (the clock ends several).
End(rs) ==
    /\ rs # {}
    /\ \A r \in rs : live[r]
    /\ live' = [r \in Request |-> live[r] /\ r \notin rs]
    /\ UNCHANGED epoch

\* prune_collection_requests: a deleted request is never launched again.
Forget(rs) ==
    /\ rs # {}
    /\ \A r \in rs : ~live[r]
    /\ epoch' = [r \in Request |-> IF r \in rs THEN LastEpoch ELSE epoch[r]]
    /\ UNCHANGED live

Next ==
    \/ \E r \in Request : Launch(r)
    \/ \E rs \in SUBSET Request : End(rs) \/ Forget(rs)

Spec == Init /\ [][Next]_ledger
=============================================================================
