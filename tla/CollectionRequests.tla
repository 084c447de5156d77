------------------------- MODULE CollectionRequests -------------------------
(***************************************************************************)
(* The durable queue of collection requests, the scheduler that launches   *)
(* one Kubernetes Job per claimed request, and the request Pods that run    *)
(* and settle a launch.                                                    *)
(*                                                                         *)
(* Times are kept as what is left of them: a field f with "f > now" in the *)
(* SQL is f > 0 here, "f <= now" is f <= 0 and "f < now" is f < 0, and     *)
(* Tick lowers every field by one until it is over (-1).                   *)
(***************************************************************************)
EXTENDS Integers, FiniteSets, FiniteSetsExt

CONSTANTS
    Keys,         \* canonical request identities
    ObjectKeys,   \* the keys whose target is one object (the others: searches)
    Schedulers,   \* scheduler processes
    MaxRows,      \* bound on requests ever recorded
    MaxLaunches,  \* bound on launches of all requests
    MaxWork,      \* bound on requests and launches together
    MaxActive,    \* launching and running requests admitted (16)
    MaxQueued,    \* unsettled requests admitted (128)
    OpTime,       \* operation_timeout_secs
    Grace,        \* recovery margin after the operation deadline (900 s)
    Retention,    \* life of a row and of an explicit receipt (86400 s)
    Cooldown,     \* 3600 s
    SeenFor,      \* 30 s
    MaxTrouble    \* bound on crashes, lost acknowledgements and heartbeats

ASSUME CollectionAssumption ==
    /\ ObjectKeys \subseteq Keys
    /\ {MaxRows, MaxLaunches, MaxWork, MaxActive, MaxQueued, OpTime, Grace,
        Retention, Cooldown} \subseteq Nat \ {0}
    /\ {SeenFor, MaxTrouble} \subseteq Nat

VARIABLES
    rows,     \* openlegal.collection_request, by id; None when absent
    nextId,   \* ids come from uuidv7: increasing, never reused
    seen,     \* corpus_control.collection_scheduler_seen_at
    jobs,     \* Kubernetes Jobs, by launch
    pods,     \* the Pod of each Job
    sched,    \* scheduler processes
    launched, \* launches so far (only bounds the instance)
    trouble   \* faults still allowed

vars == <<rows, nextId, seen, jobs, pods, sched, launched, trouble>>

Ids == 1..MaxRows
Epochs == 1..MaxLaunches
Launches == Ids \X Epochs
NoRow == [status |-> "absent"]
NoTime == -2              \* SQL NULL in a time column
Active == {"launching", "running"}
Terminal == {"done", "skipped", "failed"}
Unsettled == Active \cup {"queued", "deferred"}
\* Settlement reasons, by what request_collection_shared tells apart: NULL,
\* already_fresh and no_matches, every other one.
Reasons == {"none", "fresh", "other"}

Present(r) == rows[r] # NoRow
Is(r, s) == Present(r) /\ rows[r].status \in s
Live(r) == Is(r, Active) /\ rows[r].lease > 0
LiveAt(r, e) == Live(r) /\ rows[r].epoch = e

\* The collection_change trigger stamps completed_at on entering a terminal state.
Settled(row, status, reason, lease) ==
    [row EXCEPT !.status = status, !.reason = reason, !.lease = lease,
                !.payload = (status = "deferred") /\ @,
                !.done = IF status \in Terminal THEN Cooldown ELSE @]

------------------------------------------------------------------------------
(* Requests: request_collection_shared, one transaction under the control   *)
(* row's lock. The answers that record nothing (an authoritative fresh or    *)
(* withdrawn HEAD, a joined demand, a retained receipt, a cancelled caller)  *)
(* are not steps.                                                           *)

JoinableLaunchable(k) ==
    {r \in Ids : Is(r, {"queued", "deferred"}) /\ rows[r].key = k /\ rows[r].left > 0}

Joinable(k) ==
    {r \in Ids : /\ Is(r, Unsettled) /\ rows[r].key = k
                 /\ (rows[r].left > 0 \/ rows[r].status \in Active)}

Successful(row) ==
    \/ row.status = "done" /\ row.reason = "none"
    \/ row.status = "skipped" /\ row.reason = "fresh"

\* A recent terminal receipt answers instead of new work.
Retained(k, demand) ==
    LET old == {r \in Ids : /\ Is(r, Terminal) /\ rows[r].key = k
                            /\ IF demand THEN rows[r].left > 0 ELSE rows[r].explicit > 0}
        latest == CHOOSE r \in old : \A q \in old :
                      \/ demand /\ rows[q].done < rows[r].done
                      \/ (demand => rows[q].done = rows[r].done) /\ q <= r
        row == rows[latest]
    IN  /\ old # {}
        /\ IF demand
             THEN row.done > 0 /\ ~(Successful(row) /\ k \in ObjectKeys)
             ELSE (row.status = "done" /\ row.reason = "none") \/ row.done > 0

ExplicitUntil(r) == IF rows[r].explicit = NoTime THEN Retention ELSE rows[r].explicit
KeptUntilBefore(r) == rows[r].left
KeptUntil(r) == Max({rows[r].left, ExplicitUntil(r)})

\* An explicit request joins the active one and keeps its receipt for a day.
JoinExplicit(k) ==
    /\ Joinable(k) # {}
    /\ LET r == Max(Joinable(k))
       IN  rows' = [rows EXCEPT ![r].explicit = ExplicitUntil(r), ![r].left = KeptUntil(r)]
    /\ UNCHANGED <<nextId, seen, jobs, pods, sched, launched, trouble>>

RecordRequest(k, demand) ==
    /\ nextId <= MaxRows /\ nextId + launched <= MaxWork
    /\ Joinable(k) = {}
    /\ ~Retained(k, demand)
    /\ seen >= 0
    /\ Cardinality({r \in Ids : Is(r, Unsettled)}) < MaxQueued
    /\ rows' = [rows EXCEPT ![nextId] =
          [key |-> k, status |-> "queued", reason |-> "none", payload |-> TRUE,
           left |-> Retention, explicit |-> IF demand THEN NoTime ELSE Retention,
           lease |-> NoTime, epoch |-> 0, job |-> 0, done |-> NoTime]]
    /\ nextId' = nextId + 1
    /\ UNCHANGED <<seen, jobs, pods, sched, launched, trouble>>

\* prune_collection_requests, from the serving runtime's maintenance.
Prune ==
    LET dead == {r \in Ids : Present(r) /\ rows[r].left < 0 /\ rows[r].status \notin Active}
    IN  /\ dead # {}
        /\ rows' = [r \in Ids |-> IF r \in dead THEN NoRow ELSE rows[r]]
        /\ UNCHANGED <<nextId, seen, jobs, pods, sched, launched, trouble>>

------------------------------------------------------------------------------
(* The scheduler: run_collection_scheduler.                                *)

Idle == [pc |-> "reap", todo |-> {}, at |-> <<0, 0>>]
Goto(s, pc) == sched' = [sched EXCEPT ![s].pc = pc]

Heartbeat(s) ==
    /\ sched[s].pc # "down"
    /\ seen < SeenFor
    /\ seen' = SeenFor
    /\ UNCHANGED <<rows, nextId, jobs, pods, sched, launched, trouble>>

LapsedRunning(r) == Is(r, {"running"}) /\ rows[r].lease < 0
Lapsed(r) == Is(r, Active) /\ rows[r].lease < 0
\* reap_stale_collection_requests
Reap(s) ==
    /\ sched[s].pc = "reap"
    /\ rows' = [r \in Ids |-> IF Lapsed(r)
                              THEN Settled(rows[r], "failed", "other", NoTime)
                              ELSE rows[r]]
    /\ Goto(s, "list")
    /\ UNCHANGED <<nextId, seen, jobs, pods, launched, trouble>>

\* unsettled_collection_launches: the snapshot carries each launch's epoch.
ListUnsettled(s) ==
    /\ sched[s].pc = "list"
    /\ sched' = [sched EXCEPT ![s].todo = {<<r, rows[r].epoch>> : r \in {q \in Ids : Is(q, Active)}},
                              ![s].pc = "get"]
    /\ UNCHANGED <<rows, nextId, seen, jobs, pods, launched, trouble>>

\* kubectl get: a timeout or an unreadable answer proves nothing.
GetJob(s, l) ==
    /\ sched[s].pc = "get"
    /\ l \in sched[s].todo
    /\ \/ sched' = [sched EXCEPT ![s].todo = @ \ {l}]
       \/ /\ jobs[l] = "failed"
          /\ sched' = [sched EXCEPT ![s].todo = @ \ {l}, ![s].at = l, ![s].pc = "fail"]
    /\ UNCHANGED <<rows, nextId, seen, jobs, pods, launched, trouble>>

FinishedLaunch(r, e) ==
    /\ Is(r, Active)
    /\ rows[r].epoch = e
    /\ \/ rows[r].status = "running" /\ rows[r].job = e
       \/ rows[r].status = "launching" /\ rows[r].job = 0

\* fail_finished_collection_launch
FailFinished(s) ==
    LET r == sched[s].at[1]
        e == sched[s].at[2]
    IN  /\ sched[s].pc = "fail"
        /\ rows' = IF FinishedLaunch(r, e)
                   THEN [rows EXCEPT ![r] = Settled(@, "failed", "other", NoTime)]
                   ELSE rows
        /\ sched' = [sched EXCEPT ![s].pc = "get", ![s].at = <<0, 0>>]
        /\ UNCHANGED <<nextId, seen, jobs, pods, launched, trouble>>

SameEpoch(e) == IF e = 0 THEN 1 ELSE e
\* launched_at=GREATEST(now,launched_at+1): larger than every earlier launch's.
NextEpoch(e) == e + 1

Claimable == {r \in Ids : /\ Present(r) /\ rows[r].left > 0
                          /\ \/ rows[r].status = "queued"
                             \/ rows[r].status = "deferred" /\ rows[r].lease <= 0}

\* claim_collection_request_with_policy, while the provider is not held. The
\* scheduler's death after the commit is Crash.
Claim(s) ==
    /\ sched[s].pc = "get" /\ sched[s].todo = {}
    /\ Cardinality({r \in Ids : Is(r, Active)}) < MaxActive
    /\ Claimable # {}
    /\ launched < MaxLaunches /\ nextId + launched <= MaxWork
    /\ launched' = launched + 1
    /\ LET r == Min(Claimable)
           e == NextEpoch(rows[r].epoch)
       IN  /\ rows[r].payload
           /\ rows' = [rows EXCEPT ![r].status = "launching", ![r].job = 0, ![r].epoch = e,
                                   ![r].lease = OpTime + Grace]
           /\ sched' = [sched EXCEPT ![s].pc = "create", ![s].at = <<r, e>>]
    /\ UNCHANGED <<nextId, seen, jobs, pods, trouble>>

\* dispatch_storage_result: SQL contention that outlasts its retries, or nothing
\* to claim (the queue is empty or full, the provider held), ends the cycle only.
Yield(s) ==
    /\ sched[s].pc \in {"get", "fail", "mark"}
    /\ sched' = [sched EXCEPT ![s] = Idle]
    /\ UNCHANGED <<rows, nextId, seen, jobs, pods, launched, trouble>>

\* create_and_mark_launch: create exactly once. When the outcome of kubectl is
\* uncertain the scheduler ends and the claim stays fenced by its lease.
CreateJob(s) ==
    /\ sched[s].pc = "create"
    /\ \/ /\ jobs' = [jobs EXCEPT ![sched[s].at] = "active"]
          /\ Goto(s, "mark")
          /\ UNCHANGED trouble
       \/ /\ trouble > 0 /\ trouble' = trouble - 1
          /\ jobs' \in {jobs, [jobs EXCEPT ![sched[s].at] = "active"]}
          /\ sched' = [sched EXCEPT ![s] = [Idle EXCEPT !.pc = "down"]]
    /\ UNCHANGED <<rows, nextId, seen, pods, launched>>

\* mark_collection_launch_running.
MarkRunning(s) ==
    LET r == sched[s].at[1]
        e == sched[s].at[2]
        known == /\ Present(r) /\ rows[r].epoch = e
                 /\ \/ rows[r].status \in Terminal \cup {"deferred"}
                    \/ rows[r].status = "running" /\ rows[r].job = e
    IN  /\ sched[s].pc = "mark"
        /\ \/ /\ LiveAt(r, e) /\ rows[r].status = "launching"
              /\ rows' = [rows EXCEPT ![r].status = "running", ![r].job = e]
              /\ sched' = [sched EXCEPT ![s] = Idle]
           \/ /\ ~(LiveAt(r, e) /\ rows[r].status = "launching")
              /\ sched' = [sched EXCEPT ![s] = IF known THEN Idle ELSE [Idle EXCEPT !.pc = "down"]]
              /\ UNCHANGED rows
        /\ UNCHANGED <<nextId, seen, jobs, pods, launched, trouble>>

Crash(s) ==
    /\ sched[s].pc # "down"
    /\ trouble > 0 /\ trouble' = trouble - 1
    /\ sched' = [sched EXCEPT ![s] = [Idle EXCEPT !.pc = "down"]]
    /\ UNCHANGED <<rows, nextId, seen, jobs, pods, launched>>

Restart(s) ==
    /\ sched[s].pc = "down"
    /\ sched' = [sched EXCEPT ![s] = Idle]
    /\ UNCHANGED <<rows, nextId, seen, jobs, pods, launched, trouble>>

------------------------------------------------------------------------------
(* The request Pod: --collection-job ID@EPOCH.                             *)

\* load_collection_launch_for_epoch; without its launch the Pod fails.
PodStart(l) ==
    /\ jobs[l] = "active" /\ pods[l] = "none"
    /\ IF LiveAt(l[1], l[2])
         THEN pods' = [pods EXCEPT ![l] = "work"] /\ UNCHANGED jobs
         ELSE pods' = [pods EXCEPT ![l] = "over"] /\ jobs' = [jobs EXCEPT ![l] = "failed"]
    /\ UNCHANGED <<rows, nextId, seen, sched, launched, trouble>>

\* What the pages and items of a request came to.
Summaries == [published : BOOLEAN, failed : BOOLEAN, incomplete : BOOLEAN,
              skips : SUBSET {"fresh", "other"}]

\* ExplicitCollectionSummary::settlement
Settlement(sum) ==
    IF sum.published
      THEN <<"done", IF sum.failed \/ sum.incomplete THEN "other" ELSE "none">>
    ELSE IF sum.failed THEN <<"skipped", "other">>
    ELSE IF sum.incomplete THEN <<"failed", "other">>
    ELSE <<"skipped", IF sum.skips \subseteq {"fresh"} THEN "fresh" ELSE "other">>

\* execute_collection_request: a summary, or the error that ended collect_explicit
\* (the provider's admission, the source, anything else), and what it settles to.
Outcomes ==
    {Settlement(sum) : sum \in Summaries}
      \cup {<<"deferred", "other">>, <<"skipped", "other">>, <<"failed", "other">>}

Waits(status) == IF status = "deferred" THEN 0..1 ELSE {NoTime}

MaySettleRequest(r, e) == Live(r)
\* settle_collection_launch_with_fingerprint's WHERE clause.
MaySettle(r, e) == LiveAt(r, e)

\* collect_explicit ends (its items are CorpusJobs' subject) and the Pod settles
\* its launch; a deferral may be due at once. The acknowledgement is PodExit.
PodSettle(l) ==
    /\ pods[l] = "work"
    /\ IF MaySettle(l[1], l[2])
         THEN \E out \in Outcomes : \E wait \in Waits(out[1]) :
                 rows' = [rows EXCEPT ![l[1]] = Settled(@, out[1], out[2], wait)]
         ELSE UNCHANGED rows
    /\ pods' = [pods EXCEPT ![l] = "ack"]
    /\ UNCHANGED <<nextId, seen, jobs, sched, launched, trouble>>

PodExit(l) ==
    /\ pods[l] = "ack"
    /\ pods' = [pods EXCEPT ![l] = "over"]
    /\ \E end \in {"complete", "failed"} : jobs' = [jobs EXCEPT ![l] = end]
    /\ UNCHANGED <<rows, nextId, seen, sched, launched, trouble>>

\* The operation deadline drops the execution wherever it is, even between the
\* commit of its settlement and the acknowledgement, and settles again.
DeadlineOver(l) == LiveAt(l[1], l[2]) => rows[l[1]].lease <= Grace

PodDeadline(l) ==
    /\ pods[l] \in {"work", "ack"}
    /\ DeadlineOver(l)
    /\ rows' = IF MaySettle(l[1], l[2])
               THEN [rows EXCEPT ![l[1]] = Settled(@, "failed", "other", NoTime)]
               ELSE rows
    /\ pods' = [pods EXCEPT ![l] = "ack"]
    /\ UNCHANGED <<nextId, seen, jobs, sched, launched, trouble>>

\* The Pod dies: the Job starts another Pod, or has failed (also at
\* activeDeadlineSeconds, which lies between the deadline and the lease's end).
PodDies(l) ==
    /\ pods[l] \notin {"none", "over"}
    /\ trouble > 0 /\ trouble' = trouble - 1
    /\ \/ pods' = [pods EXCEPT ![l] = "none"] /\ UNCHANGED jobs
       \/ pods' = [pods EXCEPT ![l] = "over"] /\ jobs' = [jobs EXCEPT ![l] = "failed"]
    /\ UNCHANGED <<rows, nextId, seen, sched, launched>>

------------------------------------------------------------------------------

Less(t) == IF t >= 0 THEN t - 1 ELSE t

Tick ==
    /\ rows' = [r \in Ids |-> IF Present(r)
          THEN [rows[r] EXCEPT !.left = Less(@), !.explicit = Less(@),
                               !.lease = Less(@), !.done = Less(@)]
          ELSE NoRow]
    /\ seen' = Less(seen)
    /\ UNCHANGED <<nextId, jobs, pods, sched, launched, trouble>>

Init ==
    /\ rows = [r \in Ids |-> NoRow]
    /\ nextId = 1
    /\ seen = -1
    /\ jobs = [l \in Launches |-> "none"]
    /\ pods = [l \in Launches |-> "none"]
    /\ sched = [s \in Schedulers |-> Idle]
    /\ launched = 0
    /\ trouble = MaxTrouble

SchedulerNext(s) ==
    \/ Heartbeat(s) \/ Reap(s) \/ ListUnsettled(s) \/ FailFinished(s) \/ Claim(s) \/ Yield(s)
    \/ CreateJob(s) \/ MarkRunning(s) \/ Crash(s) \/ Restart(s)
    \/ \E l \in Launches : GetJob(s, l)

PodNext(l) ==
    \/ PodStart(l) \/ PodSettle(l) \/ PodExit(l)
    \/ PodDeadline(l) \/ PodDies(l)

Next ==
    \/ \E k \in Keys : JoinExplicit(k)
    \/ \E k \in Keys, demand \in BOOLEAN : RecordRequest(k, demand)
    \/ Prune
    \/ \E s \in Schedulers : SchedulerNext(s)
    \/ \E l \in Launches : PodNext(l)
    \/ Tick

Spec == Init /\ [][Next]_vars

\* The clock runs; the serving runtime prunes hourly; the scheduler's loop goes
\* on, is restarted by its Deployment, and not every kubectl answer or claim
\* attempt is lost. Nothing is asked of Pods: they may hang until their leases lapse.
FairSpec ==
    /\ Spec
    /\ WF_vars(Tick)
    /\ WF_vars(Prune)
    /\ \A s \in Schedulers :
          /\ WF_vars(Reap(s) \/ ListUnsettled(s) \/ (\E l \in Launches : GetJob(s, l))
                     \/ FailFinished(s) \/ Yield(s) \/ CreateJob(s) \/ MarkRunning(s))
          /\ WF_vars(Restart(s))

------------------------------------------------------------------------------
(* Properties.                                                             *)

Times == {NoTime, -1} \cup 0..Max({OpTime + Grace, Retention, Cooldown})

\* Every column holds a value the schema allows.
TypeOK ==
    /\ \A r \in Ids : Present(r) =>
          /\ r < nextId
          /\ rows[r] \in [key : Keys, status : Unsettled \cup Terminal, reason : Reasons,
                          payload : BOOLEAN, left : Times, explicit : Times, lease : Times,
                          epoch : 0..launched, job : 0..launched, done : Times]
          /\ rows[r].status \in Active \cup {"deferred"} <=> rows[r].lease # NoTime
    /\ nextId \in 1..(MaxRows + 1)
    /\ seen \in -1..SeenFor
    /\ \A l \in Launches : jobs[l] \in {"none", "active", "complete", "failed"}
    /\ launched \in 0..MaxLaunches /\ trouble \in 0..MaxTrouble

\* request_collection_shared: both origins share one request per canonical key.
\* Whatever deferrals, expiries and joins happened in between, no two requests
\* of a key can be collecting, or become claimable, at once.
OneActivePerKey ==
    \A q, r \in Ids :
        /\ Is(q, Unsettled) /\ Is(r, Unsettled) /\ rows[q].key = rows[r].key
        /\ (rows[q].left > 0 \/ rows[q].status \in Active)
        /\ (rows[r].left > 0 \/ rows[r].status \in Active)
        => q = r

\* The collection queue as a ledger of launches: a deleted row has none left.
Ledger == INSTANCE LaunchLedger WITH
    Request <- Ids, LastEpoch <- MaxLaunches,
    epoch <- [r \in Ids |-> IF Present(r) THEN rows[r].epoch
                            ELSE IF r < nextId THEN MaxLaunches ELSE 0],
    live <- [r \in Ids |-> Live(r)]

\* Refinement: a launch that is over stays over, and a new one has a larger epoch,
\* so an epoch and a live lease together identify one run of one Pod.
IsLedger == Ledger!Spec

\* A live launch is ended by the clock, by its own failed Job or by the settlement
\* of its own Pod; never by the Job or the Pod of another launch of the request.
LaunchEndsByItsOwn ==
    [][\A l \in Launches : LiveAt(l[1], l[2]) /\ ~Live(l[1])' =>
          \/ rows'[l[1]] = [rows[l[1]] EXCEPT !.left = Less(@), !.explicit = Less(@),
                                               !.lease = Less(@), !.done = Less(@)]
          \/ jobs[l] = "failed"
          \/ pods'[l] # pods[l]]_vars

\* An explicit request's receipt stays addressable for its whole retention,
\* although maintenance deletes rows and the row may have been a demand's.
ReceiptKept ==
    [][\A r \in Ids : Present(r) /\ rows[r].explicit > 0 => Present(r)']_vars

\* Every request settles or expires: neither a lost launch acknowledgement, a
\* dead scheduler nor a Pod that never answers keeps its key occupied forever.
EveryRequestEnds ==
    \A r \in Ids : Is(r, Unsettled) ~> ~Is(r, Unsettled)
=============================================================================
