# openlegal4everyoneMCP: TLA+ models and proofs

A verification development for the Rust workspace in `src/` (an MCP server that
captures, stores and serves legal documents). The modules are translated from the
code; the line ranges are in `PROJECT.json` under `map`.

## 1. The system

Paths are relative to `src/`. "Hard" names what makes a component difficult to test.

| Component | State it keeps | Operations | Hard | Correct when |
|---|---|---|---|---|
| **Durable snapshot cache** `crates/adapters/src/postgres.rs`, `postgres/{data,publication,maintenance}.rs` | availability state, epoch and recovery epoch (process); `cache_query/head/snapshot`, `blob_object`, `blob_deletion`, the `cache_storage` lock row (PostgreSQL); blob files | `lookup`, `publish`, `maintain`, `health`, `close`, opening | transactions, process state and files each have their own atomicity; lost COMMIT answers; blocking file jobs that outlive their caller | evidence of a committed capture is never lost, an eviction always moves the epoch, a race is never called corruption, a lost dependency is recovered from |
| **Retrieval service** `crates/application/src/service.rs`, `service/persistent.rs`, `crates/adapters/src/cache.rs` | L1 cache, flights per key, waiter counts, generation, storage epochs, shutdown token | `retrieve`, the owned job of a flight, one- and five-second tasks, `shutdown` | coalesced callers joining and leaving, obsolete generations, panics, deadlines, stale store results | every call answered, counts exact, no obsolete result published, shutdown joins everything |
| Provider pacing (in `service.rs`) | daily budget, token bucket, cooldown | `reserve_daily`, `acquire_rate`, retry loop | day rollover while waiting, retries against the deadline | budget never exceeded |
| **Filesystem blob store** `crates/adapters/src/blob.rs`, `blob/filesystem.rs` | permits, active jobs, failure epoch, health flight; staging files, directory tree | put, get, confirm, delete, enumerate, health, close | cancelled and late jobs keep running, probes shared by callers that leave, link/unlink races | no recovery beside a job of an earlier failure; files atomic, durable, content-addressed |
| **Mirrored blob store** `crates/adapters/src/blob/mirrored.rs` | aggregate health and generation, active count, health flight, two filesystem stores | both-leg writes, primary lookups, single-flight recovery, close | one leg failing, timeouts, late writers, recovery of aggregate and legs waiting for each other | a permit outlives both jobs; no recovery while a late writer may run |
| **Replication fence, runtime guard** `replication.rs`, `runtime_guard.rs`, `storage_binding.rs` | a directory with one locked record per strict process; the fence's failure generation | acquire, scan, check, poison, release | unclean ends at any step, concurrent scans, late blocking tasks | no start after an unclean end, no unconfirmed commit trusted |
| **law.go.kr admission** `law_go_kr/admission.rs`, `postgres/{request_budget,provider_admin}.rs`, `migrations/0023*.sql` | shared budget row, reservation rows with session locks, tickets with leases | reserve, settle, pause, suspend, configure, recover | lost acknowledgements, dead owners, midnight, several processes | one budget and one limit of requests in flight for all processes; an unanswered request is never forgotten |
| law.go.kr adapter `law_go_kr.rs`, `law_go_kr/{catalog,supplements}.rs` | the process-local suspension flag | fetch, settle, parse | one call's verdict meets another call's request | every response settles its own reservation |
| **Legal corpus** `corpus.rs`, `corpus/*.rs` | objects with a version, detail jobs, gaps, captures, HEAD, staged evidence | refresh, enqueue, claim, adopt, publish, defer, requeue, maintain; activate | lapsed claims settled late, two kinds of workers, supersession | one execution per object, attempts never refunded twice, HEAD follows the inventory, evidence on disk |
| **Collection requests**, supplement jobs `corpus/collection_requests.rs`, `corpus/supplement_jobs.rs` | queue rows with status, lease and launch epoch | request, claim, mark running, settle, reap | workers of an earlier launch, stale leases | each launch settled once, by its own worker |
| **Collection scheduler**, request Pods `apps/server/src/{main,corpus_runtime}.rs`, `collection_scheduler_*.rs` | the launch at hand, Kubernetes Jobs | heartbeat, reap, claim, create, mark, settle | lost answers of kubectl, Pods that die or hang | no request forgotten |
| Document jobs `document_jobs.rs`, `apps/document-worker` | Kubernetes jobs | create, poll, delete | lost answers | at most one job per document |
| **Search index** `search_index.rs`, `corpus_search.rs`, `corpus/{runtime_lease,citation}.rs`, `apps/server/src/corpus_runtime.rs` | the outbox and its fence `index_ack`, search sessions and citation leases (PostgreSQL); index directories with a generation; the runtime lease; snapshots of sessions (process) | apply, acknowledge, rebuild, search, continue, withdraw | a crash between index commit and acknowledgement, a lease lost unnoticed, a withdrawal between snapshot and pin | an index is its prefix of the outbox, what is acknowledged can be served, a withdrawal is final |
| Text diff `text_diff*` | paging sessions | diff, page | bounded work | pages are consistent |
| Citations, database views, legal references, normalisation | none | pure functions | numeric and parsing edges | agree with a reference definition |
| MCP endpoint `apps/server/src/{endpoint,http,webtransport,framing,rate_limit,handler,registry}.rs` | sessions, rate buckets | accept, frame, dispatch | partial frames, shutdown | frames reassembled, limits kept |
| Widget, plugins, deployment, scripts | none relevant | user interface and operations | | |

**Interaction.** The endpoint calls `RetrievalService::retrieve`. The service coalesces
calls of a key into one flight whose job looks the key up in the `PersistentStore`,
otherwise paces a provider request and publishes the result with the revision observed by
the lookup. The store answers with an epoch; the service promotes a result to L1 only
under an unchanged epoch. The store writes evidence through the blob port, before the
transaction that makes it visible. The service's tasks call `health()` every 5 s and
`maintain()` every 60 s.

Collection is a second pipeline. A caller's demand becomes a row of the request queue; the
scheduler claims it under a new launch epoch and creates a Kubernetes Job, whose Pod works
through detail jobs of the corpus beside the continuous worker and settles its launch. Both
kinds of workers reserve every provider request in the shared admission row. Strict processes
of both pipelines hold a record in the guard directory, and no commit counts as durable
before the fence has looked at that directory and at the standby.

Every publication and withdrawal also appends an event to the corpus outbox. The serving
process, which holds the runtime lease, applies the events one by one to its index directory
and acknowledges each; searches read snapshots of that index and pin them in PostgreSQL, where
a withdrawal invalidates them. An operator can rebuild an index offline, under the same lease.

The hazards, each at its line, are in `PROJECT.json`.

## 2. Modules

| Module | Models |
|---|---|
| `PostgresStore` | the durable snapshot cache: availability machine, tables, files, callers, keeper, process |
| `MCPostgresStore` | symmetry for TLC |
| `PostgresStore_proofs` | type correctness, row lock, evidence, epoch fence, no false corruption |
| `RetrievalService` | the service, with the store as the port it sees |
| `MCRetrievalService` | the configurations TLC explores, with and without a store |
| `RetrievalService_proofs` | type correctness, flights and waiters, final shutdown, fenced promotion, advancing cache, isolated cancellation; and the admission's exact charges, bounded admission, kept evidence |
| `FsBlobStore` | admission, deadlines, health and close of the filesystem blob store |
| `FsBlobStore_proofs` | type correctness, drained recovery, truthful health, final close |
| `MirroredBlobStore` | the aggregate over two such stores, with the protocol of each leg |
| `MirroredBlobStore_proofs` | type correctness, permits held until both jobs end, drained recovery |
| `LaunchLedger` | abstract: what the request queue promises about launches |
| `CollectionRequests` | the request queue, the scheduler and the request Pods; refines `LaunchLedger` |
| `CollectionRequests_proofs` | type correctness, one active request per key, kept receipts, launches ended by their own, the refinement |
| `CorpusJobs` | the detail jobs and captures of one object, over `LaunchLedger` |
| `CorpusJobs_proofs` | type correctness, one execution, kept charges, evidence, HEAD, owners |
| `ProviderAdmission` | admission of provider requests across processes |
| `MCProviderAdmission` | the plans (calls and events) TLC explores |
| `RuntimeGuard` | the guard directory, the durability fence and the transactions waiting for it |
| `RuntimeGuard_proofs` | type correctness, start fence, truthful records, confirmed checks |
| `MCRuntimeGuard` | symmetry for TLC |
| `CorpusSearch` | the outbox, index directories, serving process, rebuild and searches |
| `CorpusSearch_proofs` | type correctness, durable acknowledgements, indexes replay the outbox, final withdrawals |
| `MCCorpusSearch` | the three budgets TLC explores |

`CollectionRequests` and `CorpusJobs` meet in `LaunchLedger`: the first is proved to
implement it (`IsLedger`, with `epoch` and `live` read off the rows), the second takes the
ledger's steps as its environment. So `CorpusJobs` relies only on what the queue provides: a
launch that is over stays over, and a new one has a larger epoch.

### PostgresStore

*State.* `st`, `epoch`, `recEpoch`, `uncertain` are the fields of `Inner`; `db` is the
committed content of the five tables; `tx` is what the transaction holding the
`cache_storage` row lock has rewritten, `lock` its holder. `files` are the blob files by
digest and generation; `late` the filesystem jobs whose caller has gone. `op` holds one
operation per caller (a lookup, optionally followed by a publication), `keeper` the holder
of the maintenance mutex, so `maintain()` or `health()`.

*Granularity.* Each statement outside a transaction is a step (READ COMMITTED: it sees the
last committed tables). A mutating transaction takes the row lock first, so its statements
are one step on `tx` between the lock and the COMMIT; the barrier, the authorisation
callback, the adapter's own gate, the COMMIT, its answer, the drop of the barrier and the
read of the epoch are separate steps, because other actors run between them. Each file
operation is one step.

*Failures.* A statement fails or misses its deadline (`Fault`, `KeeperFault`); the answer to
a COMMIT is lost and the server settles the transaction later (`CommitLost`,
`GhostSettles`); a put or unlink runs after its caller left (`LateIO`); the process is
closed or dies and another opens the same database (`Close`, `Restart`); evidence vanishes
from the root (`LoseFile`, only where `Damage`). The short transactions of `reserve_blob`,
`cleanup_queue` and `enumerate_orphans` settle a lost COMMIT at once (`ReserveCommitLost`,
`QueueCommitLost`): only holders of the row lock could see the difference.

*Abstractions.* Payloads are their digest; validation time orders nothing but heads, whose
mutual eviction order is left open; the row-count, byte and per-query limits are two
numbers; capacity refusals (128 staged files, 4096 queued deletions, page sizes of 128) are
`Abandon`. The delay until the rollback of a dropped connection is not modelled.
`list`, `get` and the gauges only read; `prune` runs on a stopped server.

### RetrievalService

*State.* `conf` is fixed at the start: whether the service has a `PersistentStore`, which keys
are asked for, and the bounds that go with it. The fields of `State` (`cache`, `flights`,
`waiters`, `generation`, `stopping`, the two storage epochs), the tokens, `failed`, the
provider's permits, the jobs by generation, the `retrieve()` calls, and `store`: status,
epochs, and head and revision per key, with the barrier protocol of `PostgresStore` seen from
outside.

*Granularity.* Each section under the state mutex is one step; a job's storage calls are
split where the store's own state can move in between (the epoch and the rows of a lookup,
begin, authorise, commit, drop of the barrier, epoch of the accepted result). `maintain()` is
three steps: it raises its barrier (`StoreTrim`), commits the eviction (`StoreTrimmed`) and
opens the barrier (`StoreOpened`); it holds the maintenance mutex throughout, so the recovery
of `health()` (`StoreRecovers`) waits for it.

*A COMMIT without an answer* is three steps, of a publication and of `maintain()` alike. The
error unwinds and drops the barrier, so the store is READY in a new epoch and may be read
(`JobCommitLost`, `StoreTrimLost`; under a durability fence it is uncertain instead); the
server applies the COMMIT or rolls it back (`JobSettled`, `StoreSettled`); `own()` or
`maintain()` records the failure (`JobRecord`, `StoreRecorded`). In between a job is
`"unsettled"` and then at `"record"`, and the keys of a `maintain()` are in `store.lost` and
then in `store.owed`. A COMMIT that the server decides after the failure is recorded is not
told apart from one decided just before: the store is then recovering, nothing is promoted
from it, and recovery waits for the capacity row that the COMMIT holds (`RowFree`).

*Abstractions.* `refresh()` returns evidence validated now, a transient or a final error;
pacing and retries are a later module. The victim of the L1 cache's LRU is any entry. The
answers a call can get are reduced to a value, a stale value, `Cancelled` and the other
errors; "none" is a caller that left. The several atomic loads of `sync_epoch` are one
step; the synchronisation at the end of `resolve_persistent` is followed at once by the one
in `publish` and is left to it. `MaintenanceTick` is the whole body of the one-second task.
`list_snapshots` and `get_snapshot` read only.

### FsBlobStore

*State.* `healthy`, `closed`, `epoch` are the flags and `failure_epoch` of `Shared`. A `job`
runs, has dropped its permit and is about to be counted out (`"leave"`), or has panicked
with its supervisor still to see it (`"joined"`); `at` is the epoch it was admitted in,
`late` says that its supervisor has given up. `flight` is the coordinator of a health
flight, `probe` the job of the probe slot, which can outlive its flight. `drained` records
that `close()` has returned `Ok`.

*Granularity.* A section under the admission mutex is one step. Dropping the permit and
`Finished::drop` are two steps for an ordinary job and one for the probe; clearing the
flight and publishing its outcome are one step.

*Abstractions.* What a job does to files is left out. A refused job changes nothing, so a
refusal is no step. `Callers` bounds the callers of `health()` as `HEALTH_WAITERS` does. A
mutex poisoned by a panic is not modelled: no section under it can panic.

### MirroredBlobStore

*State.* `healthy`, `closed`, `generation` as above for the aggregate. `op` has, per
operation and for the probe, the phase of its task, the phase of its deadline watcher, and
whether its token has fired (`cut`); `left` are the legs `physical_drain` still waits for.
`leg` is the job an operation has on a leg: its physical life (`phys`) and the answer the
aggregate has seen (`ans`) are separate, because a cancelled or late job runs on. `root` is
the health, shutdown and failure epoch of each leg, `read` a lookup, which runs on the
primary without an aggregate permit. `torn` is a history variable: the probe has read
`healthy` while a `failure()` was between its two stores.

*Granularity.* `failure()` is two steps, `Locked` in between; everything else under the
admission mutex is one step that needs `~Locked`. The probe's five loads are one step each
and take no lock, as in the code. `health()` of a leg is two steps, joined with the leg's
drainage check and its return.

*Abstractions.* Answers are `ok`, `soft` (Cancelled, Busy, InvalidInput, Shutdown: `failure()`
ignores these), `down` and `corrupt`. A leg's flight that outlives an aggregate probe and is
joined by the next one is not modelled, nor is a panic of an operation's task, which
`catch_unwind` turns into an error.

### LaunchLedger and CollectionRequests

*State.* `rows` are the rows of `collection_request`, `seen` the scheduler's heartbeat in
`corpus_control`, `jobs` and `pods` the Kubernetes Jobs and their Pods by launch
(request and epoch), `sched` where each scheduler is in its cycle. Times are what is left of
them; `Tick` lowers them all.

*Granularity.* One SQL transaction is one step; the scheduler's listing, each `kubectl get`,
the claim, the creation of the Job and the running mark are steps of their own, and so are
the Pod's start, its settlement and its exit.

*Failures.* The answer of `kubectl create` is lost with or without a Job; a scheduler dies
anywhere and is restarted; a Pod dies, is replaced by its Job, or hangs beyond its lease; the
operation deadline fires even between the commit of a settlement and its acknowledgement.

*Abstractions.* A `--collection-job` without an epoch, which loads whatever launch is current
(`main.rs:425`), is left out: every Pod knows the epoch of its launch. A target is its
canonical key. The answers that record nothing are no steps. Settlement reasons are the three
classes that later requests tell apart. What a Pod collects is the nondeterministic summary
that it settles (`Outcomes`).

### CorpusJobs

*State.* `obj` is the row of one `corpus_object`, `jobs` its `corpus_job` rows by revision,
`gaps` and `due` its `provider_collection_gap` rows, `store` the staging rows, captures,
deletion intents and files, `workers` the executions of the continuous worker and of the
launches, `epoch` and `live` the ledger. `since` and `charged` are history: the claims since a
job was last queued afresh that reserved a provider request.

*Granularity.* One SQL transaction is one step. Between claim, reservation, staging, file
and commit of an execution anything else may run: its lease may lapse, another worker may
take the job over, and the late worker still settles or publishes.

*Abstractions.* Objects do not interact except through the 128 places of the queue, so one
object suffices and a place may or may not be free. Time is what has lapsed. Provider
admission is the step `Reserve`. The index outbox written with a capture and withdrawal are in
`CorpusSearch`; activation and the API without launch fences that tests use are left out.

*A late deferral* (`defer_budget_claim`) of a job that has lapsed but was not taken over makes
it running again beside another running job of the object. It is then a budget wait and no
execution, which is what `OneExecution` speaks of.

### ProviderAdmission

*State.* The budget row (`used`, `limit`, `inflight`, `next`, `last`, `suspended`, `legacy`,
`hold`), the reservation rows (`row`), the session advisory locks (`lock`), the tickets, and
per call where it is; `stopped` is the flag `operator_suspended` of each process's client,
`landing` the call whose suspension was abandoned with its COMMIT sent.

*Granularity.* Every transaction locks the budget row first, so each is one step; sending,
settling, releasing the lock and parsing are separate.

*Failures.* A reservation's acknowledgement is lost; a guard is dropped at any point of its
life (`Drop`), or its process dies (`Crash`); the server ends such a session later
(`SessionEnds`). The session of the lock can also break under a guard that is still in use
(`SessionBreaks`): a request on the wire goes on (`"severed"`), its settlement fails on the
broken session and the row stays (`SeveredEnds`), but a suspension runs on another
connection of the pool and deletes the row (`Suspend`). A suspension whose caller
is gone may land late; until the server has decided it, it holds the budget row and no other
transaction begins (`LateSuspension`, `BudgetFree`). A settlement (`complete`, `settle`)
cannot land late in this sense: it runs on the session of the lock, which lasts until the
server has applied it, so a lost acknowledgement is `Complete` or `Pause` and then `Drop`.
A recovery forgets the row of a severed request that may still be on the wire; the code
relies there on the operator, who attests that every writer has stopped.

*Abstractions.* `today` says whether `utc_day` is the current day; `next` distinguishes a due
slot, a wait a caller sits out, and one it refuses (over 30 s); the spacing between requests is
one such wait, whatever interval is configured. A receipt a live scheduler is
about to launch counts as a ticket, as in `demand_waiting`. Left out: pilot windows, the
canary, the caller's local cap and spacing, the check of the launch in `reserve`
(`LaunchLedger`), the audit record of an uncertainty, and the jobs that `configure` wakes.

*Evidence.* The comment of `live_owner_count` (`law_go_kr/admission.rs:400`) takes a free slot
lock as proof that a request has lost its owner and says "never erase or retry this evidence".
A lock session that breaks under a request frees the lock while the owner lives, and if the
answer is a rejection the owner's suspension erases the row (`:372`). `EvidenceKept` says that
this, at once or late, and an operator's recovery are the only ways, and that admission is then
stopped by `operator_suspended` in the same transaction, so it stays closed either way.

*The process-local flag.* `pause_provider_requests` raises `operator_suspended` for as long as
it writes a pause (429 or 503). If another call of the process fails in that window,
`settle_fetch` skips its settlement (`law_go_kr.rs:693`, `FailStopped`): the row stays, and
every process is refused until an operator recovers it. That is safe (`EvidenceKept`), but a
throttled response beside a failed one is enough to stop collection. A process left with the
flag set also keeps opening and dropping foreground tickets, each of which delays the
collector; `NeitherStarves` excepts it.

### RuntimeGuard

*State.* `proc` is each strict process with its logical key and the flags `poisoned` and
`closing` of `Shared`; `file` its record and who holds the record's flock; `readers` and
`writer` the directory lock; `check` the calls of `DurabilityFence::check`, each for a health
probe or for a transaction that has sent its COMMIT. History: `unclean` are the processes
that died or were marked uncertain, by a release too, and whose record cannot become
`closed_clean` any more; `before` those that called `acquire()` after one was.

*Granularity.* The scan of a check is one step per record and two where it takes the flock:
it shares the directory lock with other scans. A scan under the exclusive lock is one step: the
states it looks for can appear but not disappear meanwhile. The writes of a
record are separate from its creation and its sync, so a crash finds it torn.

*Failures.* A crash at any point (the kernel drops the locks, the record stays); an error or
deadline of `acquire`, of a check, of a receipt, of `release_clean`; a caller that goes away
while its scan runs on as a blocking job.

*Abstractions.* The replication receipt (prefix, flush position, same session) is one step
that succeeds or fails. The limits of 128 waiters, 4 scans, 512 records and 16 starts, and the
validation of the directory's identity, are left out. The end of a scan and its caller's
second look at the flags are one step.

*Probing.* The module comment (`runtime_guard.rs:5-6`) says that the directory lock
"serializes bounded scans" and that unclean evidence "blocks every peer". The scan of a
check takes that lock shared, and tells an owned record by failing to get its flock. While
one check holds the flock of a dead process's record to read it, another check takes the
record for owned. The first one fails; the second can pass, if both its scans are masked in
this way. `ConfirmedUnlessProbed` shows that this is the only way, and `StartsAlone` that no
process is *started* on such an answer. Two more consequences of the protocol: an `acquire`
that misses its two seconds after creating its record leaves unclean evidence that blocks
everybody until an operator has audited it, and the write that restores an active record
in a late release ignores its result (`ReleaseSync`), so its outcome is left open.

*A late release.* The deadline of `release_clean()` marks the process uncertain while its
blocking task writes the record. The task looks at the flag behind the write and behind the
sync (`runtime_guard.rs:685`, `:693`) and takes `closed_clean` back. `CleanIsDrained` says what
this achieves: a release that succeeds was never marked, and the record of a marked process
says `closed_clean` only while it is still to be taken back (`"rsync"`), if the mark came after
the last look (`"rlate"`), or if the sync or the write that takes it back failed or the process
died before it (`"spoiled"`, `"dead"`). In these cases `release_clean()` returns an error, the
scans and commits of the process are over all the same, and later starts are admitted.

### CorpusSearch

*State.* `outbox` is `corpus_outbox` (a publication's event has the sequence of its capture),
`ack` the fence `index_ack`, `pins` the rows of `corpus_session` that `check_session` would
accept and a session still uses, `leases` the objects with a citation lease. `dirs` is what each
index directory holds durably: a generation, the flag `complete` and the documents, committed
together. `holder` has the advisory lock of the runtime lease. `server` is the serving process
with its `PendingIndexAck`, `rebuild` the offline rebuild, `sessions` the sessions that have a
cursor, `calls` the searches. `left` is the rest of the budget the behaviour started with.

*Granularity.* A transaction is one step, and so is an index commit (`snapshot()` takes the
writer lock under which commit and reload happen). The serving loop is acknowledgement, lease
check, application; the rebuild checks its lease once per batch. A search is snapshot, pin,
check and scan, recheck, resolution, lease renewal, final check; it may fail between any two.

*Failures.* Either process dies anywhere; the connection behind the lease breaks and its owner
notices at its next check; the rebuild is refused when an event arrived or its lease is gone,
and its directory stays incomplete; the acknowledgement of a process that lost its lease
conflicts and ends it.

*Abstractions.* A capture is its object, revision and HEAD flag; whether a capture becomes HEAD
is decided in `CorpusJobs` and open here. A query matches any of the snapshot's objects
(`Matches`). The limits (32 sessions, 4096 cursors, 128 pins, 2048 leases, 1000 documents) are
failures that may happen. The flags of a page (`corpus_complete`, `index_lag`, notices) only
report. `withdraw` is an operation of the store that no handler calls yet; `removed` events were
written by earlier versions only, so `remove_capture` is left out. A
`CitationLease::renew` without a session, the health probe of the
recovery policy and an index directory torn during its creation, which is refused as corrupt,
are left out.

*What safety rests on.* Not on the lease: it can be gone while a commit or an acknowledgement of
its former owner is under way. `AckDurable` holds because `index_ack` only grows, a rebuild
acknowledges only what it has durably completed, and opening refuses a generation behind it.

*What `WithdrawalFinal` covers.* A page that is not citable was last checked against withdrawals
when its scan had ended; a withdrawal of an object that is not among its hits may commit between
that check and the answer, as in the code. A citable page is checked once more.

## 3. Runs

All limits below are the smallest at which the interesting cases occur: a global limit of
one capture makes every publication of a second key evict; two digests let a digest be
retired, reserved again and shared; two callers and the keeper suffice for the races, which
are between two actors about one row or file.

| Run | Instance | Shows |
|---|---|---|
| `store_race` | durability fence, 2 keys, 2 digests, 2 callers, 3 operations, no faults (3.4M states) | concurrent publications, lookups and trims never lose evidence or overlap |
| `store_faults` | `FairSpec`, 1 key, 1 digest, 1 caller, 2 operations, 1 fault, 1 expiry, 1 stop, files may vanish (425k) | the epoch fence survives any failing statement, lost COMMIT answer, late file job, close and restart; recovery outwaits unsettled commits; without damage nothing looks like corruption; the store reopens and files without a row are unlinked |
| `store_confirm` | durability fence, no damage | *violation*: a race is reported as corruption (finding 1) |
| `service` | `FairSpec`, 2 calls, 2 flights, 1 panic; without a store 2 keys and 1 tick, with 2 provider permits, or with 1 and a shutdown at any time; with a store 1 key, 1 fault, lost COMMIT or deadline and 1 retention run (307k) | waiter counts are exact and every waiter has one owner, also while a flight stays registered until its job has drained; no evicted capture stays in L1 under the current epoch, no older entry replaces a newer; barriers and departures cancel nobody else; shutdown is final; every call is answered |
| `blob` | `FairSpec`, 1 job at a time, 2 health callers, 3 faults, 1 cancelled caller, close | a store that admits work has outlived the jobs of every earlier epoch; the store admits work again |
| `mirror` | `FairSpec`, 1 operation, 1 health caller, 1 fault, 1 further lookup, cancellation or close | recovery outwaits every operation and lookup of an earlier generation, unless `torn`; aggregate and legs recover; every permit comes back |
| `mirror_torn` | 1 operation, 1 fault | *violation*: recovery beside a late operation (finding 2) |
| `collection` | `FairSpec`, 1 object, 2 requests and 2 launches (3 together), 1 scheduler, 1 death or lost answer (180k) | one active request per key; the queue implements `LaunchLedger`; a launch is ended by its own Pod, its failed Job or its lease; receipts are kept; every request ends |
| `jobs` | `FairSpec`, 1 object with 2 revisions, a continuous worker, a request Pod, 2 attempts, 2 publications, 2 events (696k) | one execution at a time, no attempt given back that was used, evidence of every capture on disk, HEAD follows the inventory, owners kept, nothing stranded |
| `admission` | `AdmissionFairSpec`, 2 slots; 2 continuous calls and an on-demand call without events, or 2 calls, of both modes or of one process, with 2 events (321k) | the counters say what was sent; a request that lost its session blocks admission until it is recovered or has suspended admission itself; requests in flight are bounded; neither mode starves |
| `guard` | 3 processes, 2 keys, 2 checks, 2 faults (2.2M) | no start after an unclean end or beside a holder of the key; closed_clean is truthful, up to the late releases above; a confirmed check overlooks an unclean end only while another scan probes it |
| `search` | `FairSpec`, 2 directories, 2 calls of 1 session; 3 events about 2 revisions of 1 object with 2 faults, 2 events and 1 search with 1 fault, or 3 events about 2 objects and 1 search (419k) | every index is exactly its prefix of the outbox; an acknowledged event is in a complete index; no page and no citation lease survives a withdrawal; every event is acknowledged |

In `search` a fault is a crash, a broken lease or a rebuild. Three events give a HEAD, its
replacement by another revision and its return or withdrawal; two faults give a rebuild beside a
serving process that lost its lease; two calls of one session give a cursor that continues while
another call releases it.

In `jobs` an event is a change of the inventory, a retry falling due, a failure or a
crash; lapses of leases are free. Two attempts and two revisions are needed for a job to be
taken over and superseded, one launch for a job to be adopted and stranded. In `collection`
one object suffices, since keys meet only in the limits, and two rows and two launches give
each of the two races: an old launch against a relaunch, and an old row against a new one. In
`guard` the third process is the one that starts after, or checks beside, two that fail.
The smallest limit per mode in `admission` (1) makes every mode meet its limit and midnight;
two events give a session that breaks under a rejection whose caller then goes away, and two
calls of one process the one whose flag stops the other's settlement. The configurations of
`service` and the plans of `admission` spread these cases over the initial states, because
together they are more than TLC can check liveness for in reasonable time. The instance with a
store reaches the window of a lost COMMIT in which an evicted capture is promoted: without the
exception for it (`"record"`, `store.owed` in `Evicting`) `PromotionFence` is violated there.

Three faults in `blob` allow a late job, a late probe of its recovery and a failure between
the probe and its caller's return; one ordinary job suffices, since jobs meet only in the
count of active jobs, and the theorems of section 4 cover any number. One fault suffices for
the mirrored store: a timeout on one leg fails that leg's epoch and the aggregate, and a
timeout of the whole operation the aggregate alone.

Deadlock is checked in `collection`, where the clock and the scheduler never stop. Elsewhere
the bounds on operations, faults, ticks and generations or `close()` make every instance
stop, and the program itself may be idle; that operations, legs and recovery of the blob
stores do not wait for each other for ever is `Readmits` and `PermitsReturn`.

**Bounds.** Store: `MaxRuns` (lookups), `MaxFaults`, `MaxAge` (captures past retention),
`MaxStops`. Service: `MaxGen` (flights), `MaxPanics` and, per configuration, `MaxClock`,
`MaxFaults` and `MaxEvictions`. `MaxFlights`, `MaxWaiters`, `MaxWaitersPerKey`, `Permits`,
`CacheCap`, `Fresh`, `Retention` stand for the code's constants. Blob stores: `MaxFaults`,
`MaxLeaves` (cancelled health callers), `MaxLoad` (operations admitted), `MaxExtras` (lookups,
cancellations and closes together); `Slots` stands for `JOBS`. Collection: `MaxRows`,
`MaxLaunches`, `MaxWork` (both together), `MaxTrouble`; `LastEpoch`, `MaxVersion`, `MaxBlobs`,
`MaxEvents` for the jobs, `MaxEvents` and `Plans` (calls and events of a behaviour) for the
admission, `MaxFaults` for the guard, `MaxOutbox` and `Budgets` for the search; the other
constants stand for the code's. Keys, digests, callers, processes and checks are only compared,
so permuting them is sound; runs with liveness use no symmetry.

**Fairness.** Weak fairness of an operation's own steps (the runtime polls ready tasks, and
every storage call has a deadline), of the maintenance and recovery steps (the intervals
keep firing), of the server settling an abandoned transaction (`GhostSettles`, `JobSettled`,
`StoreSettled`), of file jobs in the blocking
pool, and of shutdown once its token has fired. No fairness for callers arriving or
leaving, for faults, or for the host ending the service. `MaintainStep` and `RecoverStep`
are only weakly fair: both take the same mutex, and neither stays enabled for ever
without being taken.

For the blob stores: kernel calls return, spawned tasks are polled, and the owner keeps
calling `health()` (the service does, every 5 s). The drain of a mirrored operation is
strongly fair. `physical_drain` returns only when it looks while no job runs on the leg; it
looks after every job that ends, and health calls are seconds apart, so one of its looks
falls between two of them. With weak fairness TLC finds the schedule in which every look
meets the next probe. For the same reason the load is bounded: unbroken lookups on the
primary can hold up a cancelled operation until its watcher times out.

For collection: the clock runs, the scheduler's loop goes on and its Deployment restarts it,
not every answer of kubectl is lost, the clone loop calls `requeue_due_details` on every
round, and pruning runs hourly. Nothing is assumed of Pods. For the admission: a call that
has started goes on (HTTP requests have a 30 s timeout and are settled), waiters of a mode
poll, so one of them reserves when one can, pauses and leases end, and the server decides a
suspension it was sent. Nothing is assumed of
operators, of new calls, of faults or of which waiter wins. `guard` states safety only.
For the search: the runtime loop and a rebuild go on, and a serving process that ended is
started again on a directory that it accepts (its supervisor restarts it; after a rebuild the
operator configures the new directory). Nothing is assumed of searches.

**Findings.**
1. `publication.rs:114`: under a durability fence the second look at a file has no check of
   the row behind it, so an eviction in between becomes a sticky integrity block.
2. `blob/mirrored.rs:371`: the probe reads `generation` and `healthy` without the mutex under
   which `failure()` writes them. Between the two writes it sees the new generation still
   healthy, skips the drainage check, and its caller reopens the aggregate while the
   operation that timed out still runs. `DrainedUnlessTorn` shows that this is the only way
   around the check; `FsBlobStore` checks under its mutex and `RecoveryDrained` holds there.

**What the epoch fences do not cover.** `LookupEpochFence` excepts captures whose eviction is
still in progress (`Unsettled`), and both it and `PromotionFence` speak of looked-up captures
only, because the code fences no more: after a lost COMMIT `publish_inner` drops its barrier,
and the state is READY, before `own()` records the failure (`publication.rs:245`); and the
epoch of an accepted result is read last, so it can already include the eviction of that
result (`publication.rs:257`).

`PromotionFence` excepts keys whose eviction has committed and is still owed an epoch
(`Evicting`), in two windows. The first is that of a lost COMMIT: the barrier is open and the
failure not recorded, the server applies the COMMIT, and a lookup that read the evicted head
just before is promoted under the current epoch. Its entry outlives the eviction until the
record moves both epochs; from then on the property covers it again, however late the server
decided. In the second window the eviction has committed and its barrier is still to be opened.
A barrier does not know its owner: `EvictionBarrier::drop` moves whatever
`MAINTAINING` it finds to `READY`. Suppose a publication has committed, the store fails and
recovers, and `maintain()` raises a barrier of its own; the drop of the publication's barrier
then opens that one early. A lookup in between is promoted under an epoch that the eviction
moves only when `maintain()` opens its barrier in turn. The proof of the invariant without the
exception failed at this step, and TLC produced the behaviour on an instance with room for it.

## 4. Proofs

Assumption: `StoreAssumption` (limits positive, `"free"`, `"ghost"`, `"keeper"` are no
callers). The theorems hold for any sets of keys, digests and callers, any limits and any
number of runs, faults and stops, because they never use the bounds.

- `TypeCorrect`: `Spec => []TypeOK`, one lemma per action.
- `LockHeld`, `PublicationSerialized`: `LockInv` says that the row lock is held by a
  publication from its checks to its COMMIT with the observed revision current. It is
  inductive with `TypeOK`: every action that changes `db.rev` needs the lock, or `"free"`.
- `EvidenceInvariant` (as long as the blob root is `Undamaged`), `EvidenceNeverLost`,
  `DeletionsAreDead` (for `~Damage`).
  `EvidencePresent` is not inductive: a transaction in `tx` will replace `db`, a keeper that
  has chosen a location will unlink it, and an abandoned job may still do so. `EvidenceInv`
  therefore says
  - `Sound(db)` and `Sound(tx)`: every capture's row is complete and its file present,
    complete rows have files, generations were handed out by `nextGen`, and no queued
    location has a row;
  - a publication that has read or written its file still has it as long as the row names
    that generation (`LocOK`);
  - what the keeper is about to unlink, and every orphaned unlink, has no row (`KeeperOK`,
    `PhysicalOK`). A generation is never handed out twice, so it never gets one again.
- `FenceHolds`, and from it `ResultsAreFenced` and `RecoveryOutwaitsCommits`. `FenceInv` says
  what each actor owes to the current epoch: a capture that a lookup has found is retained
  while the query's revision is the one it saw, and present or being evicted while the epoch
  is (`Looked`); whoever evicts holds the barrier until the outcome of its COMMIT is known
  (`Barred`, `KeeperBarred`); the open transaction removes no more than its owner has
  announced (`TxInv`); and a COMMIT in doubt belongs to an operation that has still to record
  its failure, or else the store cannot reopen before the keeper has seen the row lock free
  (`GhostInv`).
- `CorruptionNeedsDamage`, `RacesAreNotCorruption`, for a store without a durability fence
  (`~Strict`): in the strict mode the statement is false (finding 1). `CalmInv` says that the
  state is not `corrupt`, that a row or file which an operation found missing has in fact been
  replaced or retired, so that its next look at the tables explains it (`BlobOK`), and that the
  keeper's queue names no live file (`CleanOK`).

These invariants, and those of the other modules below, were model-checked on small instances
like those of the runs before they were proved.

For `RetrievalService` (`ServiceAssumption`: finitely many keys and calls, positive limits,
`Fresh <= Retention`; any set of configurations, generations, panics, faults, evictions and
ticks), every safety and action property its run checks. None of them is inductive alone; the
invariants build on each other:

- `TypeCorrect`, `FlightsAlwaysSound`, `ShutdownIsFinal` rest on `ServiceInv`: `Typed`,
  `PermitsBalance` (free permits and jobs that hold one add up) and `FlightInv`. The last says
  that generations are handed out once (`GensFresh`), that a flight is registered under the key
  its job was spawned for (`KeysMatch`), that a call which has been told its outcome belongs to
  no flight any more (`ToldOnce`), that both waiter counts are the cardinality of the calls
  still pending (`Counted`), and what `shutdown()` has already drained at each of its
  stages (`StopOrder`, `Drained`). An admission that reaps a panic, and so stops the service,
  leaves the flight it has just counted itself into without a job and without a call
  (`OrphanOf`). `TypeOK` needs this too: that a waiter count does not underflow is not a matter
  of types.
- `PromotionsFenced`: `StoreInv` adds that with a store a key has one running job at a time
  (`OneRunning`), that no capture is dated in the future, and that what a job carries from its
  lookup to its promotion is retained, or in `Evicting`, as long as the epoch it remembers is the
  store's (`JobSound`, `CacheInv`). A COMMIT that is applied late puts its
  keys into `Evicting`, and only the record, which moves the epoch, takes them out.
- `CacheAdvances` (`[][A]_vars`): `MonoInv` says that the store's head, if there is one, is at
  least as recent as the cache, and that what a job is about to put in is at least as recent as
  what is there, unless its flight is no longer its own, in which case `publish` puts in
  nothing.
- `CancellationStaysOwn` (`[][A]_vars`): `CancelInv` gives every fired token an excuse: the
  service stops, the store's recovery counter has passed the one noted when the call was
  admitted, the job missed its deadline and will publish a storage error rather than
  `Cancelled`, or the call has its outcome already. A flight whose token has fired
  cannot be joined (`FlightSound`), so no later call inherits it.

For `FsBlobStore` (`BlobAssumption`: bounds are natural, `Slots` positive; any jobs and
callers):

- `TypeCorrect`, `CloseIsFinal`: inductive with `TypeOK`.
- `RecoveryIsDrained`: `RecoveryDrained` is not inductive, since a probe, its flight or a
  waiter may reopen the store long after the check. `DrainInv` adds that whoever carries a
  successful recovery result for the current epoch carries a proof that is still good: every
  active job was admitted in this epoch. `failed()` ends every such proof by moving the
  epoch, and while the store is unhealthy no job is admitted.
- `HealthIsTruthful` (`[][A]_vars`): `StandingInv` says that a successful result of a probe
  that was not recovering, in the current epoch of an open store, implies `healthy`.

For `MirroredBlobStore` (`MirrorAssumption`):

- `MirrorTypeCorrect`.
- `PermitIsHeld`: `PermitInv` says that a leg's running job belongs to an operation whose
  task has not ended, that a leg that answered `ok` runs nothing, and that a draining task
  has jobs only on the legs in `left`. So `FinishOk` finds
  no job, and the last `DrainLeg` leaves none.
- `RecoveryIsDrained`: `RecoveryInv` says which generations a flight and its callers remember
  and that only the end of the awaited probe makes a flight good (`FlightInv`); and, as long as
  the probe has not met a half-done `failure()` (`~torn`), that whatever the probe has loaded so
  far, and what the flight and the callers conclude from it, is still true in its generation
  (`DrainInv`). The hypothesis `~torn` is necessary: `mirror_torn` shows the other case.

For `CollectionRequests` (`CollectionAssumption`: positive limits and durations; any keys,
schedulers, requests and launches):

- `TypeCorrect`, `OneActive`, `ReceiptsKept` and `LaunchesEndByTheirOwn` rest on
  `CollectionInv`: the columns of a row agree (`RowsOK`: only a claimed row has a lease, and a row
  lives at least as long as its explicit receipt), a launch has at most one Job, made for an
  epoch its row has reached, and a Pod that has settled has ended it (`JobsOK`), a claimed
  launch is created by one scheduler, and the Job a scheduler is about to report failed stays
  failed (`CreateOK`). `LaunchEndsByItsOwn` is not about rows alone: between the listing and the
  report of a failed Job its request may be claimed and launched again.
- `QueueIsLedger`: `Spec => IsLedger`. `RowStep` is what any step does to one row; every
  action is one, and every `RowStep` is a launch, an end, a deletion or a stutter of
  `LaunchLedger`. A deleted request has `LastEpoch` in the ledger, since its id never returns.

For `CorpusJobs` (`JobsAssumption`: positive limits, `None` is nobody's name, no launch is a
background slot; any revisions, workers, requests, attempts and versions):

- `JobsInductive`: the invariant `JobsInv` is `StateOK` (types and what an owner implies) with
  - `VersionInv`, `ClaimInv`: nothing knows a version still to come, so the version that a
    claim stamps on the object identifies the claim, and a settlement that names it reaches no
    other;
  - `ChargeInv`: the claims since a job was last queued afresh that reserved a request, *and
    those that still may* (`Owed`), are no more than its attempts. `ChargesKept` alone is not
    inductive: a lapsed claim that has not reserved yet can do so after its job was taken over.
    A refund takes the refunded claim out of `Owed`, a reservation moves it into `charged`;
  - `CurrentInv`: a HEAD claim of the object's current version works on the revision the
    inventory asked for, and its `prev` is the current HEAD, because whatever changes one of
    them moves the version;
  - `StageInv`: a stage is neither queued for deletion nor captured, and a publication past
    its put has its file while it has its stage.
- `OneExecutes`, `ChargesAreKept`, `EvidenceOnDisk`, `TypeCorrect` follow from it.
- `HeadFollows` (`[][A]_vars`): only a publication moves HEAD; `MayCommit` compares versions, so
  `CurrentInv` applies, and the blob of the new capture is a stage, so no older capture has it.
- `OwnersKept` (`[][A]_vars`): per action, a queued job of a live request leaves the queue, keeps
  its owner without starting to execute, or the step is one of the owner's Pods.

For `CorpusSearch` (`SearchAssumption`: a positive batch, `None` is no name; any objects,
revisions, directories, sessions and calls):

- `AcksAreDurable`: `IndexInv` says that the serving index is complete and contains what the
  process is about to acknowledge (`ServerOK`), and that a rebuild works on an index nobody can
  serve until it is complete up to its target (`RebuildOK`). It does not mention the lease.
- `IndexesReplay`: `DocsInv` adds that only withdrawals follow an object's withdrawal and that
  a document is of the capture it names; then applying one event to the replay of a prefix is
  the replay of the next prefix.
- `TypeCorrect`, `WithdrawalsAreFinal`: `SearchInv` says that nothing was withdrawn after a
  session's snapshot while its pin stands, that a new session belongs to one call until it is
  pinned, and that nothing had been withdrawn when a session was last checked.

For `ProviderAdmission` (`AdmissionAssumption`: positive limits and slots, finitely many calls,
any plans; the last section of `RetrievalService_proofs`):

- `AdmissionInductive`, `AdmissionTypeCorrect`: `AdmissionInv` is `AdmissionTypeOK`,
  `ChargedToday` and `WireFenced`, which says that a call that may be on the wire with a live
  session has a row and holds the lock of its slot, that a call that waits or has settled has
  no row, and that a suspension still to land is of a request that is over.
- `ChargeExact`: `ChargedToday` is inductive with the types.
- `AdmissionBounded`: a reservation counts rows, and by `WireFenced` whoever is on the wire or
  unanswered has one; the cardinalities are compared with `FiniteSetTheorems`. Its
  slot is free, and an owner of the same slot would be abandoned, which `Refused` excludes.
- `EvidenceSurvives`: a settlement removes the row of a call that holds its slot's lock
  (`WireFenced`), so never an unanswered one; a suspension, at once or late, removes the row of
  its own call only and sets `operator_suspended`; and a reservation is refused while a row is
  abandoned.

For `RuntimeGuard` (`GuardAssumption`: `NoOne` and `Owner` are names of nobody, a natural number
of faults; any processes, keys and checks):

- `GuardInductive`: the invariant `IInv` has nine parts. `DirInv` says who has the directory
  lock, `FileInv` what the place of a process says about its record and that a flock a check
  holds is the one its scan is probing, `UncleanInv` that an unclean process leaves a record
  that is not `closed_clean` and has lost its own flock, `BeforeInv` that whoever called
  `acquire()` behind it gets no further, `KeyInv` that keys are exclusive, `DrainInv` and
  `CommitInv` which scans and commits can still be under way when a release has begun, and
  `SeenInv` that what was unclean when a check began is still to be scanned or was masked.
- `GuardStartsAlone`: under the exclusive lock no scan holds a flock (`FileInv`, `DirInv`), so
  the record of an unclean process is free and refuses the start; a holder of the same key has
  an active record, which is either locked (the key is taken) or free (refused).
- `GuardCleanIsDrained` follows from `UncleanInv`, `CommitInv` and `DrainInv`, which also says
  at which places of a release the flag `poisoned` can meet a `closed_clean` record,
  `GuardConfirmed` from `SeenInv`.

*Only model-checked:* all liveness (fairness and `ENABLED` are beyond the prover), such as
`CallsAnswered` of the service. The strict mode's `NoFalseCorruption` is false. No definition
is recursive: the prover has no induction over data, so "the latest capture" or "the replay of
a prefix" are stated by `CHOOSE` and by quantifiers over positions, and minima and maxima are
taken from the well-foundedness of the naturals. *Only proved:* the type invariants and
`DeletionQueueDead`, `HealthTruthful`, `CloseFinal` of `FsBlobStore` and `PermitHeld`, which no
run repeats.

## 5. Plan

1. The rest of the corpus: activation; supplement jobs, which repeat the claims of `CorpusJobs`
   without owners; the composition of `CorpusJobs` and `CorpusSearch` over one outbox.
2. The files behind `FsBlobStore` (`blob/filesystem.rs`: staging, link, directory sync, unlink)
   and an abstract blob port that one root and two roots refine.
3. `ProviderPacing` of the retrieval service (daily budget, token bucket, cooldown).
4. Document jobs, text-diff paging, framing and rate limiting of the endpoint.

## 6. Not modelled

Most of the source is data conversion: the parsers of `law_go_kr.rs`, `catalog.rs` and
`supplements.rs`, `kr_legal_reference.rs` and the other normalisers, the tokeniser, ranking,
`legal_analysis.rs`, `legal_reference.rs` and `config.rs` map text to text, keep no state that
two actors share, and are held to examples by the repository's tests; abstracted to what a
state machine can tell apart they vanish. A large part of each file is its own unit tests.
The models are therefore of the parts that keep state: storage, service, collection,
admission, the guard and the search index.

Of these, the following is left out: the read-only queries; `revalidate`; supplement jobs
and document jobs; the event stream of collection; the endpoint's sessions; the text-diff
sessions; `storage_binding.rs`, which compares identities once at startup; pilot windows and
the canary of the admission; the offline commands (`prune`, audits, clone progress). The
vendored document engine is third-party. Widget, plugins, deployment files and scripts keep
no state of the running system. Migrations are modelled by the tables they create, and the
recovery function of migration 0023 by `Recover` of `ProviderAdmission`.
