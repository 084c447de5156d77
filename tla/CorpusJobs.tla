----------------------------- MODULE CorpusJobs -----------------------------
(***************************************************************************)
(* The detail jobs of one corpus object: enqueue, claim, execution by the  *)
(* continuous worker or by the Pods of explicit collection requests, the   *)
(* publication of a capture with its evidence, and maintenance.            *)
(*                                                                         *)
(* Time is what has lapsed: a job is "running" while its lease is in the   *)
(* future and "lapsed" once it is not, and a launch of a request lapses at *)
(* its recovery_at, which is also the end of its lease. The requests       *)
(* themselves are the launch ledger that CollectionRequests implements.    *)
(***************************************************************************)
EXTENDS Naturals, FiniteSets

CONSTANTS
    Revs,         \* revisions of the object
    Background,   \* slots of the continuous worker
    Request,      \* collection requests that name the object
    LastEpoch,    \* bound on launches of one request
    MaxAttempts,  \* max_job_attempts
    MaxVersion,   \* bound on versions of the object
    MaxBlobs,     \* bound on publications
    MaxEvents,    \* bound on inventory changes, lapses, failures and crashes together
    None

ASSUME JobsAssumption ==
    /\ {LastEpoch, MaxAttempts, MaxVersion, MaxBlobs} \subseteq Nat \ {0}
    /\ MaxEvents \in Nat
    /\ None \notin Revs \cup Request \cup Background \cup (Request \X (1..LastEpoch))
    /\ Background \cap (Request \X (1..LastEpoch)) = {}

VARIABLES
    obj,      \* corpus_object
    jobs,     \* corpus_job, by revision
    gaps,     \* revisions with an unresolved provider_collection_gap
    due,      \* gaps whose retry_at has passed
    store,    \* blobs: staging rows, captures, deletion intents, files
    workers,  \* executions, by worker slot or launch
    epoch, live, lapsed,  \* collection requests, and launches past recovery_at
    since, charged,       \* history: the version at which a job was last queued
                          \* afresh, and the claims since then that reserved a
                          \* provider request
    events

requests == <<epoch, live, lapsed>>
history == <<since, charged>>
vars == <<obj, jobs, gaps, due, store, workers, epoch, live, lapsed, since, charged, events>>

Ledger == INSTANCE LaunchLedger

Launches == Request \X (1..LastEpoch)
Workers == Background \cup Launches
Blobs == 1..MaxBlobs
NoJob == [status |-> "absent"]
Busy == {"running", "lapsed"}            \* status='running' in the table
Queued == Busy \cup {"pending"}

Is(rev, s) == jobs[rev] # NoJob /\ jobs[rev].status \in s
LiveLaunch(l) == live[l[1]] /\ epoch[l[1]] = l[2]

Idle == [pc |-> "idle", rev |-> None, version |-> 0, attempts |-> 0, head |-> FALSE,
         reserved |-> FALSE, blob |-> 0, prev |-> 0]

\* The continuous worker takes the next job; a Pod has the object once in its list.
Ended(w) == IF w \in Background THEN Idle ELSE [Idle EXCEPT !.pc = "done"]

Init ==
    /\ obj = [version |-> 0, desired |-> None, pending |-> FALSE, conflict |-> FALSE, head |-> 0]
    /\ jobs = [rev \in Revs |-> NoJob]
    /\ gaps = {} /\ due = {}
    /\ store = [next |-> 1, staged |-> {}, stale |-> {}, deletions |-> {}, files |-> {},
                captures |-> {}]
    /\ workers = [w \in Workers |-> Idle]
    /\ Ledger!Init /\ lapsed = {}
    /\ since = [rev \in Revs |-> 0] /\ charged = [rev \in Revs |-> {}]
    /\ events = MaxEvents

\* Captures are <<blob, revision, complete, latest_capture of its revision once>>.
CaptureOf(b) == CHOOSE c \in store.captures : c[1] = b
LatestOf(rev) ==
    LET bs == {c[1] : c \in {d \in store.captures : d[2] = rev /\ d[4]}}
    IN  IF bs = {} THEN 0 ELSE CHOOSE b \in bs : \A d \in bs : d <= b

------------------------------------------------------------------------------
(* enqueue_job_with_owner.                                                 *)

Happens == events > 0 /\ events' = events - 1

Bumped(v) == v + 1

HeadChanged(rev, head, mark) ==
    head /\ (obj.desired # rev \/ (mark /\ ~obj.pending))

VersionAfter(rev, head, mark) ==
    IF HeadChanged(rev, head, mark) THEN Bumped(obj.version) ELSE obj.version

ObjAfter(rev, head, mark) ==
    IF head THEN [obj EXCEPT !.desired = rev, !.pending = @ \/ mark,
                             !.version = VersionAfter(rev, head, mark)]
            ELSE obj

\* A new HEAD observation supersedes the other revisions' HEAD jobs.
Supersede(rev, head) ==
    [q \in Revs |-> IF head /\ q # rev /\ Is(q, Queued) /\ jobs[q].head
                    THEN [jobs[q] EXCEPT !.status = "failed"] ELSE jobs[q]]

\* "until" is the launch whose recovery_at is stored, "aged" that 8100 s passed.
NewJob(version, head, origin, owner, until) ==
    [status |-> "pending", head |-> head, version |-> version, attempts |-> 0,
     category |-> "none", origin |-> origin, owner |-> owner, until |-> until, aged |-> FALSE]

\* "launch" is None or the launch the job is enqueued for. The 128 places of the
\* queue are shared with every other object: there may be one or not.
Enqueue(rev, head, mark, launch) ==
    LET version == VersionAfter(rev, head, mark)
        others == Supersede(rev, head)
        origin == launch # None
        owner == IF origin THEN launch[1] ELSE None
    IN  /\ ~(head /\ obj.conflict)
        /\ version <= MaxVersion
        /\ obj' = ObjAfter(rev, head, mark)
        /\ \/ /\ Is(rev, Queued) /\ head /\ ~jobs[rev].head
              /\ jobs' = [others EXCEPT ![rev] =
                    NewJob(version, TRUE, origin \/ jobs[rev].owner # None,
                           jobs[rev].owner, jobs[rev].until)]
              /\ since' = [since EXCEPT ![rev] = version]
              /\ charged' = [charged EXCEPT ![rev] = {}]
           \/ /\ Is(rev, Queued) /\ (jobs[rev].head \/ ~head)
              /\ jobs' = others
              /\ UNCHANGED history
           \/ /\ ~Is(rev, Queued)        \* the queue is full
              /\ jobs' = others
              /\ UNCHANGED history
           \/ /\ ~Is(rev, Queued)
              /\ jobs' = [others EXCEPT ![rev] = NewJob(version, head, origin, owner, launch)]
              /\ since' = [since EXCEPT ![rev] = version]
              /\ charged' = [charged EXCEPT ![rev] = {}]

\* refresh: the inventory lists a revision; mark_head_pending for a HEAD that was
\* missing or of another revision when it was read.
Refresh(rev, head, mark) ==
    /\ mark => head
    /\ head => mark \/ \E c \in store.captures : c[2] = rev
    /\ Enqueue(rev, head, mark, None)
    /\ Happens
    /\ UNCHANGED <<gaps, due, store, workers, requests>>

\* quarantine_current_inventory_object: two candidates for the current revision.
Quarantine ==
    /\ ~obj.conflict
    /\ obj.version < MaxVersion
    /\ obj' = [obj EXCEPT !.version = @ + 1, !.conflict = TRUE, !.pending = TRUE, !.desired = None]
    /\ jobs' = [q \in Revs |-> IF Is(q, Queued) /\ jobs[q].head
                               THEN [jobs[q] EXCEPT !.status = "failed"] ELSE jobs[q]]
    /\ Happens
    /\ UNCHANGED <<gaps, due, store, workers, requests, history>>

\* The audited operator release of a quarantined object.
ReleaseHold ==
    /\ obj.conflict
    /\ obj.version < MaxVersion
    /\ obj' = [obj EXCEPT !.version = @ + 1, !.conflict = FALSE, !.pending = TRUE, !.desired = None]
    /\ Happens
    /\ UNCHANGED <<jobs, gaps, due, store, workers, requests, history>>

------------------------------------------------------------------------------
(* Claims.                                                                 *)

OtherRunningIgnored(rev) == FALSE

OtherRunning(rev) == \E q \in Revs \ {rev} : Is(q, {"running"})

Free(rev) ==
    /\ Is(rev, {"pending", "lapsed"})
    /\ ~OtherRunning(rev)

Claimable(rev) ==
    /\ Free(rev)
    /\ jobs[rev].head => ~obj.conflict /\ rev = obj.desired
    /\ jobs[rev].attempts < MaxAttempts

\* claim_job_inner's update, and the claim its caller keeps.
ClaimBy(w, rev) ==
    /\ Claimable(rev)
    /\ obj.version < MaxVersion
    /\ obj' = [obj EXCEPT !.version = @ + 1]
    /\ jobs' = [jobs EXCEPT ![rev].status = "running", ![rev].attempts = @ + 1,
                            ![rev].version = obj.version + 1, ![rev].category = "none"]
    /\ workers' = [workers EXCEPT ![w] = [Idle EXCEPT !.pc = "call", !.rev = rev,
                      !.version = obj.version + 1, !.attempts = jobs[rev].attempts + 1,
                      !.head = jobs[rev].head]]
    /\ UNCHANGED <<gaps, due, store, requests, history, events>>

UnownedOrQueued(rev) == jobs[rev].owner = None \/ jobs[rev].status = "pending"

Unowned(rev) == jobs[rev].owner = None /\ ~jobs[rev].origin

ClaimBackground(w, rev) ==
    /\ w \in Background /\ workers[w].pc = "idle"
    /\ Is(rev, Queued) /\ Unowned(rev)
    /\ ClaimBy(w, rev)

------------------------------------------------------------------------------
(* The request Pod: collect_explicit_item.                                 *)

BudgetWait(rev) ==
    /\ Is(rev, Busy) /\ jobs[rev].head /\ jobs[rev].category = "budget_wait"
    /\ jobs[rev].version = obj.version
    /\ obj.pending /\ ~obj.conflict /\ obj.desired = rev
    /\ Unowned(rev) /\ jobs[rev].attempts < MaxAttempts

\* state and background_budget_wait_available; a pending object with nothing to
\* adopt, and a fresh or superseded HEAD, end the item.
PodObserve(l, rev) ==
    /\ workers[l].pc = "idle" /\ LiveLaunch(l)
    /\ ~obj.conflict
    /\ obj.pending => BudgetWait(rev)
    /\ workers' = [workers EXCEPT ![l] = [Idle EXCEPT !.rev = rev, !.version = obj.version,
                      !.pc = IF obj.pending THEN "wait" ELSE "enqueue"]]
    /\ UNCHANGED <<obj, jobs, gaps, due, store, requests, history, events>>

PodEnds(l) == workers' = [workers EXCEPT ![l] = Ended(l)]

\* enqueue_job_for_collection_request, fenced by the launch and the version read.
PodEnqueue(l) ==
    LET rev == workers[l].rev
        joins == Is(rev, Queued) /\ jobs[rev].head /\ ~jobs[rev].origin
    IN  /\ workers[l].pc = "enqueue"
        /\ \/ /\ LiveLaunch(l) /\ obj.version = workers[l].version
              /\ Enqueue(rev, TRUE, FALSE, l)
              /\ IF joins \/ jobs'[rev] = NoJob \/ jobs'[rev].status \notin Queued
                   THEN PodEnds(l)
                   ELSE workers' = [workers EXCEPT ![l].pc = "adopt"]
           \/ /\ ~(LiveLaunch(l) /\ obj.version = workers[l].version /\ ~obj.conflict)
              /\ PodEnds(l)
              /\ UNCHANGED <<obj, jobs, history>>
        /\ UNCHANGED <<gaps, due, store, requests, events>>

\* adopt_background_budget_wait: the version is advanced, the attempts kept.
PodAdoptWait(l) ==
    LET rev == workers[l].rev
    IN  /\ workers[l].pc = "wait"
        /\ \/ /\ obj.version = workers[l].version /\ BudgetWait(rev) /\ ~OtherRunning(rev)
              /\ LiveLaunch(l)
              /\ obj.version < MaxVersion
              /\ obj' = [obj EXCEPT !.version = Bumped(@)]
              /\ jobs' = [jobs EXCEPT ![rev] = [@ EXCEPT !.status = "pending",
                    !.version = Bumped(obj.version), !.category = "none", !.origin = TRUE,
                    !.owner = l[1], !.until = l]]
              /\ workers' = [workers EXCEPT ![l].pc = "adopt"]
           \/ /\ ~(/\ obj.version = workers[l].version /\ BudgetWait(rev)
                   /\ ~OtherRunning(rev) /\ LiveLaunch(l))
              /\ PodEnds(l)
              /\ UNCHANGED <<obj, jobs>>
        /\ UNCHANGED <<gaps, due, store, requests, history, events>>

\* Past the stored recovery instant, or 8100 s old when there is none.
Recovered(rev) == IF jobs[rev].until = None THEN jobs[rev].aged ELSE jobs[rev].until \in lapsed
OwnerDead(rev) == jobs[rev].owner # None => ~live[jobs[rev].owner]

\* adopt_explicit_job: joining work never renews its recovery instant.
Adoptable(rev, r) ==
    /\ Free(rev) /\ live[r]
    /\ \/ jobs[rev].owner = r
       \/ jobs[rev].owner = None /\ (jobs[rev].until = None \/ Recovered(rev))
       \/ jobs[rev].owner # None /\ Recovered(rev) /\ OwnerDead(rev)

PodAdopt(l) ==
    LET rev == workers[l].rev
    IN  /\ workers[l].pc = "adopt"
        /\ IF Is(rev, Queued) /\ Adoptable(rev, l[1])
             THEN /\ jobs' = [jobs EXCEPT ![rev] = [@ EXCEPT !.owner = l[1], !.origin = TRUE,
                                 !.until = IF jobs[rev].owner = l[1] THEN jobs[rev].until ELSE l]]
                  /\ workers' = [workers EXCEPT ![l].pc = "claim"]
             ELSE PodEnds(l) /\ UNCHANGED jobs
        /\ UNCHANGED <<obj, gaps, due, store, requests, history, events>>

\* claim_explicit_job_for_request
ClaimExplicit(l) ==
    LET rev == workers[l].rev
    IN  /\ workers[l].pc = "claim"
        /\ Is(rev, Queued) /\ jobs[rev].owner = l[1] /\ jobs[rev].origin /\ live[l[1]]
        /\ ClaimBy(l, rev)

\* release_unclaimed_explicit_job_for_request, after a claim that got nothing: the
\* provider was held, or the job could not be claimed and may be claimable again by now.
ReleaseUnclaimed(l) ==
    LET rev == workers[l].rev
    IN  /\ workers[l].pc = "claim"
        /\ jobs' = IF Is(rev, {"pending"}) /\ jobs[rev].owner = l[1]
                   THEN [jobs EXCEPT ![rev] = [@ EXCEPT !.origin = FALSE, !.owner = None,
                                                       !.until = None, !.aged = FALSE]]
                   ELSE jobs
        /\ PodEnds(l)
        /\ UNCHANGED <<obj, gaps, due, store, requests, history, events>>

------------------------------------------------------------------------------
(* An execution: process_jobs and the second half of collect_explicit_item. *)

\* The provider's admission reserves a request for this execution.
Reserve(w) ==
    /\ workers[w].pc = "call" /\ ~workers[w].reserved
    /\ workers' = [workers EXCEPT ![w].reserved = TRUE]
    /\ charged' = IF workers[w].version > since[workers[w].rev]
                  THEN [charged EXCEPT ![workers[w].rev] = @ \cup {workers[w].version}]
                  ELSE charged
    /\ UNCHANGED <<obj, jobs, gaps, due, store, requests, since, events>>

\* Every settlement names the claim it settles.
OwnsRunning(c) == Is(c.rev, Busy)

Owns(c) ==
    /\ Is(c.rev, Busy)
    /\ jobs[c.rev].version = c.version
    /\ jobs[c.rev].attempts = c.attempts

\* One UPDATE of the claimed job; a claim that is no longer owned changes nothing.
Settle(w, new) ==
    /\ jobs' = IF Owns(workers[w]) THEN [jobs EXCEPT ![workers[w].rev] = new] ELSE jobs
    /\ workers' = [workers EXCEPT ![w] = Ended(w)]
    /\ Happens
    /\ UNCHANGED <<obj, store, requests, history>>

Claimed(w) == jobs[workers[w].rev]

\* fail_claim. Only the continuous worker retries; behind the reservation of a stage
\* it does so for Capacity, and leaves the claim to its lease on other errors.
FailClaim(w, retry) ==
    /\ workers[w].pc \in {"call", "put", "commit", "fail"}
    /\ retry => w \in Background /\ workers[w].pc # "fail"
    /\ workers[w].pc \in {"put", "commit"} => retry = (w \in Background)
    /\ Settle(w, [Claimed(w) EXCEPT !.status =
                     IF retry /\ workers[w].attempts < MaxAttempts THEN "pending" ELSE "failed"])
    /\ UNCHANGED <<gaps, due>>

\* skip_claim: a classified source failure leaves a gap to retry in an hour.
SkipClaim(w) ==
    /\ workers[w].pc = "call" /\ workers[w].reserved
    /\ Settle(w, [Claimed(w) EXCEPT !.status = "failed"])
    /\ gaps' = IF Owns(workers[w]) THEN gaps \cup {workers[w].rev} ELSE gaps
    /\ due' = IF Owns(workers[w]) THEN due \ {workers[w].rev} ELSE due

\* release_admission_wait: no reservation, no attempt spent.
ReleaseAdmissionWait(w) ==
    /\ workers[w].pc = "call" /\ ~workers[w].reserved
    /\ Settle(w, [Claimed(w) EXCEPT !.status = "pending", !.attempts = @ - 1])
    /\ UNCHANGED <<gaps, due>>

\* defer_budget_claim_with_fingerprint
DeferBudget(w) ==
    LET spent == workers[w].reserved
    IN  /\ workers[w].pc = "call" /\ w \in Background
        /\ Settle(w, IF spent /\ workers[w].attempts >= MaxAttempts
                     THEN [Claimed(w) EXCEPT !.status = "failed"]
                     ELSE [Claimed(w) EXCEPT !.status = "running", !.category = "budget_wait",
                                             !.attempts = IF spent THEN @ ELSE @ - 1])
        /\ UNCHANGED <<gaps, due>>

\* release_detail_contention after a reservation: defer_storage_claim.
DeferStorage(w) ==
    /\ workers[w].pc \in {"call", "put", "commit"} /\ workers[w].reserved
    /\ jobs' = IF /\ Owns(workers[w]) /\ Claimed(w).status = "running"
                  /\ Claimed(w).category = "none" /\ Claimed(w).version = obj.version
               THEN [jobs EXCEPT ![workers[w].rev] =
                       IF @.attempts >= MaxAttempts THEN [@ EXCEPT !.status = "failed"]
                                                    ELSE [@ EXCEPT !.category = "cooldown"]]
               ELSE jobs
    /\ workers' = [workers EXCEPT ![w] = Ended(w)]
    /\ Happens
    /\ UNCHANGED <<obj, gaps, due, store, requests, history>>

------------------------------------------------------------------------------
(* publish.                                                                *)

\* The previous capture is read, then the evidence is reserved in staging.
PublishStage(w) ==
    /\ workers[w].pc = "call" /\ workers[w].reserved
    /\ store.next <= MaxBlobs
    /\ store' = [store EXCEPT !.next = @ + 1, !.staged = @ \cup {store.next}]
    /\ workers' = [workers EXCEPT ![w].pc = "put", ![w].blob = store.next,
          ![w].prev = IF workers[w].head THEN obj.head ELSE LatestOf(workers[w].rev)]
    /\ UNCHANGED <<obj, jobs, gaps, due, requests, history, events>>

PublishPut(w) ==
    /\ workers[w].pc = "put"
    /\ store' = [store EXCEPT !.files = @ \cup {workers[w].blob}]
    /\ workers' = [workers EXCEPT ![w].pc = "commit"]
    /\ UNCHANGED <<obj, jobs, gaps, due, requests, history, events>>

\* The commit's fences: the job, the object's version and the staging rows.
Authorized(c) ==
    /\ Is(c.rev, {"running"}) /\ jobs[c.rev].category = "none"
    /\ jobs[c.rev].version = obj.version /\ jobs[c.rev].head = c.head

StagedOnce(c) == TRUE

Staged(c) == c.blob \in store.staged

MayCommit(c) ==
    /\ ~(c.head /\ obj.conflict)
    /\ Authorized(c)
    /\ obj.version = c.version
    /\ Staged(c)

PublishConflict(w) ==
    /\ workers[w].pc = "commit"
    /\ ~MayCommit(workers[w])
    /\ workers' = [workers EXCEPT ![w].pc = "fail"]
    /\ UNCHANGED <<obj, jobs, gaps, due, store, requests, history, events>>

\* An incomplete observation never replaces a complete HEAD.
PreserveNothing(c, complete) == FALSE

PreserveHead(c, complete) ==
    c.head /\ ~complete /\ c.prev # 0 /\ CaptureOf(c.prev)[3]

\* update_published_detail_gap and the job's completion end both branches.
PublishEnds(w, complete) ==
    LET rev == workers[w].rev
    IN  /\ jobs' = [jobs EXCEPT ![rev].status = "done"]
        /\ gaps' = IF complete THEN gaps \ {rev} ELSE gaps \cup {rev}
        /\ due' = due \ {rev}
        /\ workers' = [workers EXCEPT ![w] = Ended(w)]
        /\ UNCHANGED <<requests, history, events>>

\* The same bytes again: the previous capture is revalidated, the new copy dropped.
PublishSame(w) ==
    LET c == workers[w]
    IN  /\ c.pc = "commit" /\ MayCommit(c)
        /\ c.prev # 0 /\ c.prev = (IF c.head THEN obj.head ELSE LatestOf(c.rev))
        /\ CaptureOf(c.prev)[2] = c.rev
        /\ obj.version < MaxVersion
        /\ obj' = IF c.head /\ CaptureOf(c.prev)[3]
                  THEN [obj EXCEPT !.pending = FALSE, !.version = @ + 1, !.desired = c.rev]
                  ELSE obj
        /\ store' = [store EXCEPT !.staged = @ \ {c.blob}, !.stale = @ \ {c.blob},
                                  !.deletions = @ \cup {c.blob}]
        /\ PublishEnds(w, CaptureOf(c.prev)[3])

PublishCapture(w, complete) ==
    LET c == workers[w]
        kept == PreserveHead(c, complete)
        installs == c.head /\ ~kept
        keptRevision == kept /\ CaptureOf(c.prev)[2] = c.rev
    IN  /\ c.pc = "commit" /\ MayCommit(c)
        /\ obj.version < MaxVersion
        /\ obj' = [obj EXCEPT !.version = @ + 1,
                              !.head = IF installs THEN c.blob ELSE @,
                              !.pending = @ /\ ~(installs \/ keptRevision),
                              !.desired = IF installs THEN c.rev ELSE @]
        /\ store' = [store EXCEPT !.staged = @ \ {c.blob}, !.stale = @ \ {c.blob},
                                  !.captures = @ \cup {<<c.blob, c.rev, complete, ~keptRevision>>}]
        /\ PublishEnds(w, complete)

------------------------------------------------------------------------------
(* maintain, requeue_due_details, the clock and crashes.                   *)

Unreferenced(b) == \A c \in store.captures : c[1] # b

\* Jobs out of attempts fail; stages older than an hour become deletion intents.
Maintain ==
    LET exhausted == {q \in Revs : Is(q, {"pending", "lapsed"}) /\ jobs[q].attempts >= MaxAttempts}
    IN  /\ exhausted # {} \/ store.stale # {}
        /\ jobs' = [q \in Revs |-> IF q \in exhausted THEN [jobs[q] EXCEPT !.status = "failed"]
                                                     ELSE jobs[q]]
        /\ store' = [store EXCEPT !.staged = @ \ store.stale, !.stale = {},
                                  !.deletions = @ \cup store.stale]
        /\ UNCHANGED <<obj, gaps, due, workers, requests, history, events>>

Unlink(b) ==
    /\ b \in store.deletions /\ Unreferenced(b)
    /\ \/ b \in store.files /\ store' = [store EXCEPT !.files = @ \ {b}]
       \/ b \notin store.files /\ store' = [store EXCEPT !.deletions = @ \ {b}]
    /\ UNCHANGED <<obj, jobs, gaps, due, workers, requests, history, events>>

\* Explicit jobs past their recovery return to the continuous worker, then failed
\* and done jobs with a due gap are queued again.
StrandedUnclaimed(rev) ==
    /\ Is(rev, {"pending"}) /\ jobs[rev].origin /\ ~OtherRunning(rev)
    /\ Recovered(rev) /\ OwnerDead(rev)

Stranded(rev) ==
    /\ Is(rev, {"pending", "lapsed"}) /\ jobs[rev].origin /\ ~OtherRunning(rev)
    /\ Recovered(rev) /\ OwnerDead(rev)

Retriable(rev) ==
    /\ rev \in due /\ Is(rev, {"failed", "done"})
    /\ jobs[rev].head => obj.desired = rev
    /\ jobs[rev].origin => Recovered(rev)
    /\ jobs[rev].owner # None => Recovered(rev) /\ OwnerDead(rev)

RequeueDue ==
    LET stranded == {q \in Revs : Stranded(q)}
    IN  \E again \in SUBSET {q \in Revs : Retriable(q)} :
          /\ stranded \cup again # {}
          /\ jobs' = [q \in Revs |->
                IF q \in again THEN NewJob(jobs[q].version, jobs[q].head, FALSE, None, None)
                ELSE IF q \in stranded
                  THEN [jobs[q] EXCEPT !.origin = FALSE, !.owner = None, !.until = None,
                                       !.aged = FALSE]
                ELSE jobs[q]]
          /\ due' = due \ again
          /\ since' = [q \in Revs |-> IF q \in again THEN obj.version ELSE since[q]]
          /\ charged' = [q \in Revs |-> IF q \in again THEN {} ELSE charged[q]]
          /\ UNCHANGED <<obj, gaps, store, workers, requests, events>>

\* A lease, a recovery instant, a stage or a gap's retry_at passes.
LapseClaim(rev) ==
    /\ Is(rev, {"running"})
    /\ jobs' = [jobs EXCEPT ![rev].status = "lapsed"]
    /\ UNCHANGED <<obj, gaps, due, store, workers, requests, history, events>>

LapseLaunch(l) ==
    /\ l[2] <= epoch[l[1]] /\ l \notin lapsed
    /\ lapsed' = lapsed \cup {l}
    /\ IF LiveLaunch(l) THEN Ledger!End({l[1]}) ELSE UNCHANGED <<epoch, live>>
    /\ UNCHANGED <<obj, jobs, gaps, due, store, workers, history, events>>

Age(rev) ==
    /\ jobs[rev] # NoJob /\ jobs[rev].origin /\ jobs[rev].until = None /\ ~jobs[rev].aged
    /\ jobs' = [jobs EXCEPT ![rev].aged = TRUE]
    /\ UNCHANGED <<obj, gaps, due, store, workers, requests, history, events>>

GapDue(rev) ==
    /\ rev \in gaps \ due
    /\ due' = due \cup {rev}
    /\ Happens
    /\ UNCHANGED <<obj, jobs, gaps, store, workers, requests, history>>

StageStale(b) ==
    /\ b \in store.staged \ store.stale
    /\ store' = [store EXCEPT !.stale = @ \cup {b}]
    /\ Happens
    /\ UNCHANGED <<obj, jobs, gaps, due, workers, requests, history>>

\* The queue launches and ends requests, as the ledger allows.
RequestStep ==
    /\ \E r \in Request : Ledger!Launch(r) \/ Ledger!End({r})
    /\ UNCHANGED <<obj, jobs, gaps, due, store, workers, lapsed, history, events>>

Crash(w) ==
    /\ workers[w].pc \notin {"idle", "done"}
    /\ Happens
    /\ workers' = [workers EXCEPT ![w] = Ended(w)]
    /\ UNCHANGED <<obj, jobs, gaps, due, store, requests, history>>

PodNext(l) ==
    \/ \E rev \in Revs : PodObserve(l, rev)
    \/ PodEnqueue(l) \/ PodAdoptWait(l) \/ PodAdopt(l) \/ ClaimExplicit(l) \/ ReleaseUnclaimed(l)

ExecuteNext(w) ==
    \/ Reserve(w) \/ SkipClaim(w) \/ ReleaseAdmissionWait(w) \/ DeferBudget(w) \/ DeferStorage(w)
    \/ \E retry \in BOOLEAN : FailClaim(w, retry)
    \/ PublishStage(w) \/ PublishPut(w) \/ PublishConflict(w) \/ PublishSame(w)
    \/ \E complete \in BOOLEAN : PublishCapture(w, complete)
    \/ Crash(w)

Next ==
    \/ \E rev \in Revs, head, mark \in BOOLEAN : Refresh(rev, head, mark)
    \/ Quarantine \/ ReleaseHold
    \/ \E w \in Background, rev \in Revs : ClaimBackground(w, rev)
    \/ \E l \in Launches : PodNext(l) \/ LapseLaunch(l)
    \/ \E w \in Workers : ExecuteNext(w)
    \/ Maintain \/ RequeueDue
    \/ \E b \in Blobs : Unlink(b) \/ StageStale(b)
    \/ \E rev \in Revs : LapseClaim(rev) \/ Age(rev) \/ GapDue(rev)
    \/ RequestStep

Spec == Init /\ [][Next]_vars

\* Time passes, and the clone loop calls requeue_due_details on every round.
FairSpec ==
    /\ Spec
    /\ WF_vars(RequeueDue)
    /\ \A rev \in Revs : WF_vars(LapseClaim(rev)) /\ WF_vars(Age(rev))
    /\ \A l \in Launches : WF_vars(LapseLaunch(l))

------------------------------------------------------------------------------
(* Properties.                                                             *)

JobType == [status : Queued \cup {"done", "failed"}, head : BOOLEAN, version : 0..MaxVersion,
            attempts : 0..MaxAttempts, category : {"none", "budget_wait", "cooldown"},
            origin : BOOLEAN, owner : Request \cup {None}, until : Launches \cup {None},
            aged : BOOLEAN]

\* Type invariant: attempts never leaves 0..max_job_attempts, a job is never owned
\* without being marked explicit, and stale stages are stages.
TypeOK ==
    /\ obj \in [version : 0..MaxVersion, desired : Revs \cup {None}, pending : BOOLEAN,
                conflict : BOOLEAN, head : 0..MaxBlobs]
    /\ \A rev \in Revs : jobs[rev] # NoJob =>
          /\ jobs[rev] \in JobType
          /\ jobs[rev].owner # None => jobs[rev].origin /\ jobs[rev].until # None
    /\ due \subseteq gaps /\ gaps \subseteq Revs
    /\ store.stale \subseteq store.staged
    /\ \A w \in Workers : workers[w].version \in 0..MaxVersion

\* At most one job of an object executes under a valid lease, whatever is
\* requeued, adopted, superseded or reclaimed while a slow worker still runs. (A
\* late deferral can re-arm its lapsed job beside it, but only as a budget wait.)
Executing(rev) == Is(rev, {"running"}) /\ jobs[rev].category = "none"

OneExecution ==
    \A p, q \in Revs : Executing(p) /\ Executing(q) => p = q

\* Every execution that reserved a provider request stays charged: no late or
\* repeated refund, requeue or adoption gives such an attempt back, so a job
\* never calls the provider in more than max_job_attempts executions.
ChargesKept ==
    \A rev \in Revs : jobs[rev] # NoJob => Cardinality(charged[rev]) <= jobs[rev].attempts

\* HEAD moves only to the revision the inventory last asked for, never while the
\* inventory is ambiguous, and never from a complete capture of a revision to an
\* incomplete one; a worker whose claim was superseded cannot move it.
HeadFollowsInventory ==
    [][obj'.head # obj.head =>
          LET new == CHOOSE c \in store'.captures : c[1] = obj'.head
          IN  /\ new[2] = obj.desired /\ ~obj.conflict
              /\ obj.head # 0 /\ CaptureOf(obj.head)[3] => new[3]]_vars

\* A publication slower than the collection of its stage does not commit: the
\* evidence of every capture is on disk.
CaptureEvidence ==
    \A c \in store.captures : c[1] \in store.files

\* While its request is live, a queued explicit job belongs to it: the continuous
\* worker does not execute it, and neither a recovery, a requeue, an enqueue nor
\* another request takes it away.
OwnerKept ==
    [][\A rev \in Revs :
          LET owner == jobs[rev].owner
              taken == \/ jobs'[rev].owner # owner
                       \/ ~Executing(rev) /\ Executing(rev)'
          IN  Is(rev, Queued) /\ owner # None /\ live[owner] /\ Is(rev, Queued)' /\ taken
                => \E l \in Launches : l[1] = owner /\ workers'[l] # workers[l]]_vars

\* No job stays reserved for a request Pod that is gone: it settles, finds a live
\* owner or returns to the continuous worker.
NotStranded ==
    \A rev \in Revs :
        Is(rev, {"pending", "lapsed"}) /\ jobs[rev].origin
          ~> \/ ~Is(rev, {"pending", "lapsed"}) \/ ~jobs[rev].origin
             \/ jobs[rev].owner # None /\ live[jobs[rev].owner]
=============================================================================
