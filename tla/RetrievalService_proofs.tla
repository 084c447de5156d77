------------------------ MODULE RetrievalService_proofs ------------------------
(***************************************************************************)
(* The retrieval service, for any keys, calls, configurations and limits:  *)
(* its flights, waiters, jobs and permits always add up, shutdown is       *)
(* final, evidence from the store enters the L1 cache only under the epoch *)
(* it was read with, the cache never goes back to older evidence, and a    *)
(* call is cancelled only by itself, by shutdown or by a loss of the store.*)
(*                                                                         *)
(* Three invariants carry this. ServiceInv relates flights, calls and jobs *)
(* and stands alone. On top of it StoreInv relates cache and jobs to the   *)
(* store's heads and epochs, MonoInv their validation times, and CancelInv *)
(* the tokens that have fired to the recovery counter.                     *)
(*                                                                         *)
(* The last section proves what the admission of provider requests keeps,  *)
(* for any calls, slots and limits: a request on the wire has its row and  *)
(* its session lock, so the evidence of an unanswered request survives     *)
(* everything but an operator's recovery, the number of requests on the    *)
(* wire respects max_in_flight, and the counters of the day are exact.     *)
(***************************************************************************)
EXTENDS RetrievalService, ProviderAdmission, FiniteSetTheorems, TLAPS

----------------------------------------------------------------------------
(* The invariants. *)

\* Jobs that hold one of the provider's permits.
Holders == {g \in Generations : job[g].pc = "fetch" \/ (~Persistent /\ job[g].pc = "publish")}

\* Where the job of a service without a store can be.
MemoryPCs == {"unused", "fetch", "publish", "panicked", "done"}

\* No permit is lost or handed out twice.
PermitsBalance == permits >= 0 /\ permits + Cardinality(Holders) = Permits

\* A job that has not been reaped.
Live == Running \union {"panicked"}

\* The calls that still wait for an outcome.
PendingAll == {c \in Clients : client[c].pc = "waiting" /\ client[c].got.tag = "none"}

\* Generations are handed out once.
GensFresh ==
  /\ \A k \in Keys : flights[k].gen <= generation
  /\ \A k, l \in Keys : flights[k].gen # 0 /\ flights[k].gen = flights[l].gen => k = l
  /\ \A g \in Generations : job[g].pc # "unused" => g <= generation
  /\ \A c \in Clients : client[c].pc = "waiting" => client[c].gen \in 1..generation

\* A flight is registered under the key its job was spawned for.
KeysMatch ==
  \A k \in Keys, g \in Generations :
    flights[k].gen = g /\ job[g].pc \in Live => job[g].key = k

\* A call that has its outcome belongs to no flight any more, so nobody tells it another.
ToldOnce ==
  \A c \in Clients : client[c].pc = "waiting" /\ client[c].got.tag # "none" =>
    \A k \in Keys : flights[k].gen # client[c].gen

\* A running job is the owner of its key's flight; without a store it may also be one that
\* the last waiter has left behind.
JobOwned ==
  \A g \in Generations : job[g].pc \in Running =>
    \/ stopping \/ flights[job[g].key].gen = g
    \/ ~Persistent /\ g \in cancelled

\* A key without a flight counts no waiters.
NoGhosts == \A k \in Keys : flights[k].gen = 0 => flights[k] = NoFlight

\* Every flight has its job, unless the service has ended.
FlightOwned ==
  \A k \in Keys : flights[k].gen # 0 => job[flights[k].gen].pc \in Live \/ shut

\* Whoever waits for an outcome waits for the flight of its key.
WaitersRegistered ==
  \A c \in Clients : client[c].pc = "waiting" /\ client[c].got.tag = "none" =>
    flights[client[c].key].gen = client[c].gen

\* The flight that an admission which reaped a panic leaves behind.
OrphanOf(k) == /\ stopping /\ job[flights[k].gen].pc = "unused" /\ flights[k].waiters = 1
               /\ Pending(k, flights[k].gen) = {}

\* The two counts of waiters are exact.
Counted ==
  /\ waiters = Cardinality(PendingAll)
  /\ \A k \in Keys : flights[k].gen # 0 =>
       flights[k].waiters = Cardinality(Pending(k, flights[k].gen)) \/ OrphanOf(k)

\* A job that is about to publish has something to publish.
ResultReady == \A g \in Generations : job[g].pc = "publish" => job[g].res.tag # "none"

\* The service's token fires before the state says that it stops.
StopOrder ==
  /\ stopping => shut
  /\ stage # "running" => stopping

\* What shutdown() has emptied stays empty, and what it took out of the JoinSet is all there is.
Drained ==
  /\ stage # "running" => cache = Empty /\ \A k \in Keys : flights[k] = NoFlight
  /\ stage \in {"close", "join", "done"} => \A g \in Generations : job[g].pc \in Running => g \in taken
  /\ stage = "done" => \A g \in Generations : job[g].pc \notin Running

FlightInv ==
  /\ GensFresh /\ KeysMatch /\ ToldOnce /\ JobOwned /\ FlightOwned /\ WaitersRegistered
  /\ NoGhosts /\ Counted /\ ResultReady /\ StopOrder /\ Drained

----------------------------------------------------------------------------
\* With a store a key has one running job at a time, also while the service stops.
OneRunning ==
  Persistent => \A g, h \in Generations :
    g # h /\ job[g].pc \in Running /\ job[h].pc \in Running => job[g].key # job[h].key

\* One maintain() runs at a time, and has something to evict or something evicted, with
\* its barrier up or with the answer to its COMMIT lost.
TrimAlone ==
  /\ store.trim # {} => store.gone = {} /\ store.lost = {} /\ store.owed = {}
  /\ store.gone # {} => store.lost = {} /\ store.owed = {}
  /\ store.lost # {} => store.owed = {}

\* No capture is dated later than now.
HeadsPast == \A k \in Keys : store.head[k].at <= now

Publishing == {"begin", "authorize", "commit", "unsettled"}
Captured   == {"begin", "authorize", "commit", "unsettled", "drop", "accept"}

\* The states of a job whose evictions are done and have yet to move the epoch.
Dropping == {"drop", "record"}

\* What PromotionFence asks of evidence read under an epoch.
Fenced(ep, k, v) ==
  v.lookup /\ ep = store.epoch /\ store.st = "ready" => store.head[k].at >= v.at \/ k \in Evicting

\* Epochs and times a job carries are not in the future; a publication is at least
\* as recent as the head it replaces; what it captured is no lookup; what it looked
\* up is fenced until the service has taken it over.
JobSound(g) ==
  /\ job[g].lep <= store.epoch /\ job[g].res.ep <= store.epoch
  /\ job[g].value.at <= now /\ job[g].res.value.at <= now
  /\ job[g].pc \in Publishing => store.head[job[g].key].at <= job[g].value.at
  /\ job[g].pc \in Captured => ~job[g].value.lookup
  /\ job[g].pc \in {"found", "settle"} => Fenced(job[g].lep, job[g].key, job[g].value)
  /\ job[g].pc = "publish" /\ job[g].res.tag = "ok" =>
       Fenced(job[g].res.ep, job[g].key, job[g].res.value)

CacheInv ==
  /\ svcEpoch <= store.epoch
  /\ \A k \in Keys : cache[k].at <= now
  /\ PromotionFence

StoreInv ==
  /\ OneRunning /\ TrimAlone /\ HeadsPast /\ CacheInv
  /\ \A g \in Generations : JobSound(g)

----------------------------------------------------------------------------
\* The store's head of a key is at least as recent as the cached evidence.
HeadLeads == Persistent => \A k \in Keys : store.head[k] = NoEntry \/ cache[k].at <= store.head[k].at

Stored(k, v) == store.head[k] = NoEntry \/ v.at <= store.head[k].at

\* What a job is about to put into the cache is at least as recent as what is there,
\* unless the flight is no longer its own, and not more recent than the store's head.
MonoJob(g) ==
  /\ job[g].pc \in {"found", "begin", "authorize", "commit", "unsettled", "drop", "accept", "settle"} =>
       cache[job[g].key].at <= job[g].value.at
  /\ job[g].pc \in {"found", "drop", "accept", "settle"} => Stored(job[g].key, job[g].value)
  /\ job[g].pc = "publish" /\ job[g].res.tag = "ok" /\ flights[job[g].key].gen = g =>
       cache[job[g].key].at <= job[g].res.value.at
  /\ Persistent /\ job[g].pc = "publish" /\ job[g].res.tag = "ok" =>
       Stored(job[g].key, job[g].res.value)

MonoInv == HeadLeads /\ \A g \in Generations : MonoJob(g)

----------------------------------------------------------------------------
\* The service has stopped, or the store has lost a dependency since c was admitted, or
\* is uncertain, when it answers nobody any more.
Lost(c) == shut \/ store.rec > client[c].rec \/ store.st = "uncertain"

Usual == {"ready", "maintaining"}

\* The states of a persistent job that has noted the store's recovery counter.
Started == Running \ {"start", "publish"}

\* Why the token of the flight that c waits for may have fired.
Excused(c) ==
  \/ Lost(c)
  \/ Persistent /\ job[client[c].gen].late /\ job[client[c].gen].pc # "publish"
  \/ job[client[c].gen].pc = "publish" /\ job[client[c].gen].res.tag \in {"storage", "corrupt"}

\* A call that has not been told anything yet.
PendingSound(c) ==
  /\ client[c].gen \in cancelled => Excused(c)
  /\ job[client[c].gen].pc = "publish" /\ job[client[c].gen].res.tag = "cancelled" => Lost(c)
  /\ Persistent /\ job[client[c].gen].pc \in Started => client[c].rec <= job[client[c].gen].rec

CallSound(c) ==
  client[c].pc = "waiting" =>
    /\ client[c].rec <= svcRec
    /\ store.st \in Usual \/ Lost(c)
    /\ client[c].got.tag = "cancelled" => Lost(c)
    /\ client[c].got.tag = "none" => PendingSound(c)

\* Nobody can join the flight of k any more.
Unjoinable(k) == \/ shut \/ flights[k].gen \in cancelled \/ store.rec > svcRec
                 \/ store.st = "uncertain"

FlightSound(k) ==
  flights[k].gen # 0 =>
    /\ store.st \in Usual \/ Unjoinable(k)
    /\ flights[k].waiters = 0 => flights[k].gen \in cancelled
    /\ job[flights[k].gen].pc = "publish" /\ job[flights[k].gen].res.tag = "cancelled" => Unjoinable(k)
    /\ Persistent /\ job[flights[k].gen].pc \in Started /\ flights[k].gen \notin cancelled
         => svcRec <= job[flights[k].gen].rec

CancelInv ==
  /\ svcRec <= store.rec
  /\ \A g \in Generations : job[g].rec <= store.rec
  /\ ~Persistent => store = NoStore
  /\ \A g \in cancelled : g <= generation
  /\ \A c \in Clients : CallSound(c)
  /\ \A k \in Keys : FlightSound(k)

----------------------------------------------------------------------------
(* Typing. *)

\* Everything but the bounds that depend on the accounting of waiters and permits.
Caches  == [Keys -> Entries]
Flights == [Keys -> [gen : 0..MaxGen, waiters : Int]]
Stages  == {"running", "take", "close", "join", "done"}

CountsTyped ==
  /\ now \in 0..MaxClock /\ waiters \in Int /\ generation \in 0..MaxGen
  /\ svcEpoch \in Nat /\ svcRec \in Nat /\ permits \in Int
  /\ panics \in Nat /\ faults \in Nat /\ evictions \in Nat
FlagsTyped == stopping \in BOOLEAN /\ shut \in BOOLEAN /\ failed \in BOOLEAN
SetsTyped ==
  /\ conf \in Configurations /\ cancelled \subseteq Generations /\ taken \subseteq Generations
  /\ stage \in Stages

\* A call that waits names a flight.
WaitsForFlight == \A c \in Clients : client[c].pc = "waiting" => client[c].gen # 0

\* Without a store a job only fetches and publishes.
MemoryJobs == ~Persistent => \A g \in Generations : job[g].pc \in MemoryPCs

Typed ==
  /\ CountsTyped /\ FlagsTyped /\ SetsTyped
  /\ cache \in Caches /\ flights \in Flights
  /\ job \in [Generations -> JobRecords] /\ client \in [Clients -> ClientRecords]
  /\ store \in StoreRecords /\ WaitsForFlight /\ MemoryJobs

\* What a configuration is.
LEMMA ConfTypes ==
  ASSUME conf \in Configurations
  PROVE  /\ Persistent \in BOOLEAN /\ MaxClock \in Nat /\ Permits \in Nat \ {0}
         /\ MaxFaults \in Nat /\ MaxEvictions \in Nat /\ conf.requested \subseteq Keys
  BY ServiceAssumption DEF Persistent, MaxClock, Permits, MaxFaults, MaxEvictions

\* The sets that depend on the configuration do not change with the state.
LEMMA ConfSets ==
  ASSUME conf' = conf
  PROVE  /\ Entries' = Entries /\ Outcomes' = Outcomes /\ Caches' = Caches
         /\ JobRecords' = JobRecords /\ ClientRecords' = ClientRecords
         /\ StoreRecords' = StoreRecords /\ Persistent' = Persistent
         /\ Permits' = Permits /\ MaxClock' = MaxClock
<1>1. MaxClock' = MaxClock /\ Permits' = Permits /\ Persistent' = Persistent
  BY DEF MaxClock, Permits, Persistent
<1>2. Entries' = Entries
  BY <1>1 DEF Entries
<1>3. Outcomes' = Outcomes
  BY <1>2 DEF Outcomes
<1>4. QED
  BY <1>1, <1>2, <1>3 DEF Caches, JobRecords, ClientRecords, StoreRecords

LEMMA RestingTypes ==
  ASSUME MaxClock \in Nat
  PROVE  /\ NoEntry \in Entries /\ Empty \in Caches /\ NoOutcome \in Outcomes
         /\ NoJob \in JobRecords /\ NoClient \in ClientRecords /\ NoStore \in StoreRecords
         /\ NoFlight \in [gen : 0..MaxGen, waiters : Nat]
         /\ \A e \in Errors : Err(e) \in Outcomes
<1>1. NoEntry \in Entries
  BY DEF NoEntry, Entries
<1>2. Empty \in Caches
  BY <1>1 DEF Empty, Caches
<1>3. NoOutcome \in Outcomes /\ \A e \in Errors : Err(e) \in Outcomes
  BY <1>1 DEF NoOutcome, Outcomes, Outcome, Err, Tags
<1>4. (CHOOSE k \in Keys : TRUE) \in Keys
  BY ServiceAssumption
<1>5. NoJob \in JobRecords
  BY <1>1, <1>3, <1>4 DEF NoJob, JobRecords, JobPCs
<1>6. NoClient \in ClientRecords
  BY <1>3, <1>4, ServiceAssumption DEF NoClient, ClientRecords
<1>7. NoStore \in StoreRecords
  BY <1>1, <1>2 DEF NoStore, StoreRecords, StoreStates, Caches
<1>8. NoFlight \in [gen : 0..MaxGen, waiters : Nat]
  BY ServiceAssumption DEF NoFlight
<1>9. QED
  BY <1>1, <1>2, <1>3, <1>5, <1>6, <1>7, <1>8

LEMMA SyncTypes ==
  ASSUME Typed
  PROVE  /\ SyncCache \in Caches
         /\ \A c \in Caches : Expire(c) \in Caches
         /\ \A c \in Caches, k \in Keys, v \in Entries : CachePublish(c, k, v) \subseteq Caches
         /\ SyncCancels \subseteq Generations
         /\ store.epoch \in Nat /\ store.rec \in Nat
<1>1. NoEntry \in Entries /\ Empty \in Caches
  BY ConfTypes, RestingTypes DEF Typed, SetsTyped
<1>2. SyncCache \in Caches
  BY <1>1 DEF Typed, SyncCache
<1>3. \A c \in Caches : Expire(c) \in Caches
  BY <1>1 DEF Expire, Caches
<1>4. \A c \in Caches, k \in Keys, v \in Entries : CachePublish(c, k, v) \subseteq Caches
  BY <1>1 DEF CachePublish, Caches
<1>5. SyncCancels \subseteq Generations
  <2>1. \A k \in Keys : flights[k].gen \in 0..MaxGen
    BY DEF Typed, Flights
  <2>2. QED
    BY <2>1, ServiceAssumption DEF SyncCancels, Generations
<1>6. store.epoch \in Nat /\ store.rec \in Nat
  BY DEF Typed, StoreRecords
<1>7. QED
  BY <1>2, <1>3, <1>4, <1>5, <1>6
\* What a failing storage status is reported as.
LEMMA StorageErrors ==
  ASSUME StorageError # "none"
  PROVE  StorageError \in {"busy", "corrupt", "storage"}
  BY DEF StorageError

LEMMA ErrTypes ==
  ASSUME Typed, NEW e \in Errors
  PROVE  Err(e) \in Outcomes /\ Err(e).tag = e /\ Err(e).tag # "none" /\ Err(e).value = NoEntry /\ Err(e).ep = 0
<1>1. Err(e) \in Outcomes
  BY ConfTypes, RestingTypes DEF Typed, SetsTyped
<1>2. QED
  BY <1>1 DEF Err, Outcome, Errors

----------------------------------------------------------------------------
(* The steps a job takes by itself. *)

\* Every step of a job but a promotion and its publication.
WorkStep(g) ==
  \/ MemoryRefresh(g) \/ JobStart(g) \/ JobLookup(g) \/ JobRows(g) \/ JobUnusable(g)
  \/ JobAdmit(g) \/ JobRefresh(g) \/ JobBegin(g) \/ JobAuthorize(g) \/ JobCommit(g)
  \/ JobDrop(g) \/ JobAccept(g) \/ JobSettle(g) \/ JobCommitLost(g) \/ JobSettled(g)
  \/ JobRecord(g) \/ JobDeadline(g) \/ JobPanic(g) \/ JobStorageFault(g)

LEMMA WorkFrame ==
  ASSUME NEW g \in Generations, WorkStep(g)
  PROVE  /\ UNCHANGED <<conf, now, cache, flights, waiters, generation, stopping, svcEpoch, svcRec,
                        shut, failed, stage, taken, client>>
         /\ cancelled' = cancelled \/ cancelled' = cancelled \union {g}
<1> USE DEF clock, state, tokens, ending, budget
<1>1. CASE MemoryRefresh(g) \/ JobStart(g) \/ JobLookup(g) \/ JobRows(g) \/ JobUnusable(g)
  BY <1>1 DEF MemoryRefresh, JobStart, JobLookup, JobRows, JobUnusable
<1>2. CASE JobAdmit(g) \/ JobRefresh(g) \/ JobBegin(g) \/ JobAuthorize(g) \/ JobCommit(g)
  BY <1>2 DEF JobAdmit, JobRefresh, JobBegin, JobAuthorize, JobCommit
<1>3. CASE JobDrop(g) \/ JobAccept(g) \/ JobSettle(g) \/ JobCommitLost(g) \/ JobSettled(g) \/ JobRecord(g)
  BY <1>3 DEF JobDrop, JobAccept, JobSettle, JobCommitLost, JobSettled, JobRecord
<1>4. CASE JobDeadline(g) \/ JobPanic(g) \/ JobStorageFault(g)
  BY <1>4 DEF JobDeadline, JobPanic, JobStorageFault
<1>5. QED
  BY <1>1, <1>2, <1>3, <1>4 DEF WorkStep

\* The entry a provider's answer becomes.
LEMMA NowEntry ==
  ASSUME Typed
  PROVE  [at |-> now, id |-> 0, lookup |-> FALSE] \in Entries
<1>1. now \in 0..MaxClock /\ MaxClock \in Nat
  BY ConfTypes DEF Typed, CountsTyped, SetsTyped
<1>2. QED
  BY <1>1 DEF Entries

LEMMA JobFields ==
  ASSUME Typed, NEW g \in Generations
  PROVE  /\ job[g] \in JobRecords
         /\ job[g].pc \in JobPCs /\ job[g].key \in Keys /\ job[g].rec \in Nat /\ job[g].lep \in Nat
         /\ job[g].obs \in Nat /\ job[g].value \in Entries /\ job[g].evict \in SUBSET Keys
         /\ job[g].res \in Outcomes
         /\ job[g].value.at \in Int /\ job[g].value.lookup \in BOOLEAN
<1>1. job[g] \in JobRecords
  BY DEF Typed
<1>2. job[g].value \in Entries
  BY <1>1 DEF JobRecords
<1>3. job[g].value.at \in -1..MaxClock /\ job[g].value.lookup \in BOOLEAN
  BY <1>2 DEF Entries
<1>4. job[g].value.at \in Int
  BY <1>3, ConfTypes DEF Typed, SetsTyped
<1>5. QED
  BY <1>1, <1>3, <1>4 DEF JobRecords

LEMMA StoreFields ==
  ASSUME Typed
  PROVE  /\ store.st \in StoreStates /\ store.epoch \in Nat /\ store.rec \in Nat /\ store.next \in Nat
         /\ store.head \in [Keys -> Entries] /\ store.rev \in [Keys -> Nat]
         /\ store.trim \in SUBSET Keys /\ store.gone \in SUBSET Keys
         /\ store.lost \in SUBSET Keys /\ store.owed \in SUBSET Keys
         /\ \A k \in Keys : store.head[k].at \in Int
<1>1. /\ store.st \in StoreStates /\ store.epoch \in Nat /\ store.rec \in Nat /\ store.next \in Nat
      /\ store.head \in [Keys -> Entries] /\ store.rev \in [Keys -> Nat]
      /\ store.trim \in SUBSET Keys /\ store.gone \in SUBSET Keys
      /\ store.lost \in SUBSET Keys /\ store.owed \in SUBSET Keys
  BY DEF Typed, StoreRecords
<1>2. \A k \in Keys : store.head[k].at \in -1..MaxClock
  BY <1>1 DEF Entries
<1>3. \A k \in Keys : store.head[k].at \in Int
  BY <1>2, ConfTypes DEF Typed, SetsTyped
<1>4. QED
  BY <1>1, <1>3

\* Job g goes on as x.
Trans(g, x) == x \in JobRecords /\ job' = [job EXCEPT ![g] = x] /\ x.key = job[g].key

\* It ends with the result r, or with what resolve_persistent makes of it.
Finishes(g, x, r) ==
  /\ x.pc = "publish" /\ x.late = FALSE /\ x.lep = 0 /\ x.obs = 0 /\ x.rec = 0 /\ x.value = NoEntry
  /\ x.res.tag # "none"
  /\ x.res = r \/ (x.res = Err("cancelled") /\ TokenFired(g)) \/ x.res = Err("storage")
  /\ job[g].late => x.res = Err("storage")

LEMMA FinishTrans ==
  ASSUME Typed, NEW g \in Generations, NEW r \in Outcomes, r.tag # "none", Finish(g, r)
  PROVE  \E x : Trans(g, x) /\ Finishes(g, x, r)
<1>1. NoJob \in JobRecords
  BY ConfTypes, RestingTypes DEF Typed, SetsTyped
<1>2. PICK res \in Results(g, r) :
        job' = [job EXCEPT ![g] = [NoJob EXCEPT !.pc = "publish", !.key = job[g].key, !.res = res]]
  BY DEF Finish
<1>3. /\ res = r \/ (res = Err("cancelled") /\ TokenFired(g)) \/ res = Err("storage")
      /\ job[g].late => res = Err("storage")
  BY DEF Results
<1>4. Err("cancelled") \in Outcomes /\ Err("storage") \in Outcomes
  BY ErrTypes DEF Errors
<1>5. Err("cancelled").tag = "cancelled" /\ Err("storage").tag = "storage"
  BY DEF Err, Outcome
<1>6. res \in Outcomes /\ res.tag # "none"
  BY <1>3, <1>4, <1>5
<1>7. PICK x : x = [NoJob EXCEPT !.pc = "publish", !.key = job[g].key, !.res = res]
  OBVIOUS
<1>8. job[g].key \in Keys
  BY DEF Typed, JobRecords
<1>9. x \in JobRecords
  BY <1>1, <1>6, <1>7, <1>8 DEF JobRecords, JobPCs
<1>10. /\ x.pc = "publish" /\ x.late = FALSE /\ x.lep = 0 /\ x.obs = 0 /\ x.rec = 0
       /\ x.value = NoEntry /\ x.res = res /\ x.key = job[g].key
  BY <1>7 DEF NoJob
<1>11. Trans(g, x)
  BY <1>2, <1>7, <1>9, <1>10 DEF Trans
<1>12. Finishes(g, x, r)
  BY <1>3, <1>6, <1>10 DEF Finishes
<1>13. QED
  BY <1>11, <1>12

LEMMA ErrTrans ==
  ASSUME Typed, NEW g \in Generations, NEW e \in Errors, Finish(g, Err(e))
  PROVE  \E x : Trans(g, x) /\ Finishes(g, x, Err(e))
  BY ErrTypes, FinishTrans

\* The errors that come from the storage or from a limit.
Refusals == {"busy", "corrupt", "storage", "stale_only", "upstream", "rejected"}

LEMMA MemoryRefreshForm ==
  ASSUME Typed, NEW g \in Generations, MemoryRefresh(g)
  PROVE  /\ ~Persistent /\ job[g].pc = "fetch" /\ UNCHANGED <<store, permits, cancelled>>
         /\ \E x : /\ Trans(g, x) /\ x.pc = "publish" /\ x.res.tag # "none"
                  /\ x.rec = job[g].rec /\ x.lep = job[g].lep /\ x.obs = job[g].obs
                  /\ x.value = job[g].value /\ x.evict = job[g].evict /\ x.late = job[g].late
                  /\ \/ x.res = Err("cancelled") /\ TokenFired(g)
                     \/ x.res \in {Err("upstream"), Err("rejected")}
                     \/ x.res = Outcome("ok", [at |-> now, id |-> 0, lookup |-> FALSE], 0)
<1>1. /\ Err("cancelled") \in Outcomes /\ Err("upstream") \in Outcomes /\ Err("rejected") \in Outcomes
      /\ Err("cancelled").tag # "none" /\ Err("upstream").tag # "none" /\ Err("rejected").tag # "none"
  BY ErrTypes DEF Errors
<1>2. /\ Outcome("ok", [at |-> now, id |-> 0, lookup |-> FALSE], 0) \in Outcomes
      /\ Outcome("ok", [at |-> now, id |-> 0, lookup |-> FALSE], 0).tag = "ok"
  BY NowEntry DEF Outcome, Outcomes, Tags
<1>3. PICK r \in Outcomes :
        /\ r.tag # "none" /\ job' = [job EXCEPT ![g].pc = "publish", ![g].res = r]
        /\ \/ r = Err("cancelled") /\ TokenFired(g)
           \/ r \in {Err("upstream"), Err("rejected")}
           \/ r = Outcome("ok", [at |-> now, id |-> 0, lookup |-> FALSE], 0)
  BY <1>1, <1>2 DEF MemoryRefresh
<1>4. /\ ~Persistent /\ job[g].pc = "fetch" /\ UNCHANGED <<store, permits, cancelled>>
  BY DEF MemoryRefresh, tokens
<1>5. PICK x : x = [job[g] EXCEPT !.pc = "publish", !.res = r]
  OBVIOUS
<1>6. /\ x \in JobRecords /\ x.key = job[g].key /\ x.pc = "publish" /\ x.res = r
      /\ x.rec = job[g].rec /\ x.lep = job[g].lep /\ x.obs = job[g].obs
      /\ x.value = job[g].value /\ x.evict = job[g].evict /\ x.late = job[g].late
  BY <1>5, JobFields DEF JobRecords, JobPCs
<1>7. job' = [job EXCEPT ![g] = x]
  BY <1>3, <1>5 DEF Typed
<1>8. QED
  BY <1>3, <1>4, <1>6, <1>7 DEF Trans

LEMMA JobStartForm ==
  ASSUME Typed, NEW g \in Generations, JobStart(g)
  PROVE  /\ job[g].pc = "start" /\ UNCHANGED <<store, permits, cancelled>>
         /\ \E x : Trans(g, x) /\
              \/ Finishes(g, x, Err("cancelled")) /\ TokenFired(g)
              \/ /\ x.pc = "lookup" /\ x.rec = store.rec /\ x.lep = job[g].lep
                 /\ x.obs = job[g].obs /\ x.value = job[g].value /\ x.evict = job[g].evict
                 /\ x.late = job[g].late /\ x.res = job[g].res
<1>1. job[g].pc = "start" /\ UNCHANGED <<store, permits, cancelled>>
  BY DEF JobStart, tokens, Finish, JGoto
<1>2. CASE Finish(g, Err("cancelled")) /\ TokenFired(g)
  BY <1>1, <1>2, ErrTrans DEF Errors
<1>3. CASE job' = [job EXCEPT ![g].pc = "lookup", ![g].rec = store.rec]
  <2>1. PICK x : x = [job[g] EXCEPT !.pc = "lookup", !.rec = store.rec]
    OBVIOUS
  <2>2. /\ x \in JobRecords /\ x.key = job[g].key
        /\ x.pc = "lookup" /\ x.rec = store.rec /\ x.lep = job[g].lep /\ x.obs = job[g].obs
        /\ x.value = job[g].value /\ x.evict = job[g].evict /\ x.late = job[g].late
        /\ x.res = job[g].res
    BY <2>1, JobFields, StoreFields, NowEntry DEF JobRecords, JobPCs
  <2>3. job' = [job EXCEPT ![g] = x]
    BY <1>3, <2>1 DEF Typed
  <2>4. QED
    BY <2>2, <2>3, <1>1, <1>3 DEF Trans
<1>4. QED
  BY <1>1, <1>2, <1>3 DEF JobStart

LEMMA JobLookupForm ==
  ASSUME Typed, NEW g \in Generations, JobLookup(g)
  PROVE  /\ job[g].pc \in {"lookup", "relook"} /\ UNCHANGED <<store, permits, cancelled>>
         /\ \E x : Trans(g, x) /\
              \/ \E e \in {"busy", "corrupt", "storage"} : Finishes(g, x, Err(e))
              \/ Finishes(g, x, Err("cancelled")) /\ TokenFired(g)
              \/ /\ x.pc = "rows" /\ x.lep = store.epoch /\ x.rec = job[g].rec
                 /\ x.obs = job[g].obs /\ x.value = job[g].value /\ x.evict = job[g].evict
                 /\ x.late = job[g].late /\ x.res = job[g].res /\ StorageError = "none"
<1>1. job[g].pc \in {"lookup", "relook"} /\ UNCHANGED <<store, permits, cancelled>>
  BY DEF JobLookup, tokens, Finish, JGoto
<1>2. CASE StorageError # "none" /\ Finish(g, Err(StorageError))
  BY <1>1, <1>2, StorageErrors, ErrTrans DEF Errors
<1>3. CASE Finish(g, Err("cancelled")) /\ TokenFired(g)
  BY <1>1, <1>3, ErrTrans DEF Errors
<1>4. CASE job' = [job EXCEPT ![g].pc = "rows", ![g].lep = store.epoch, ![g].second = job[g].pc = "relook"] /\ StorageError = "none"
  <2>1. PICK x : x = [job[g] EXCEPT !.pc = "rows", !.lep = store.epoch, !.second = job[g].pc = "relook"]
    OBVIOUS
  <2>2. /\ x \in JobRecords /\ x.key = job[g].key
        /\ x.pc = "rows" /\ x.lep = store.epoch /\ x.rec = job[g].rec /\ x.obs = job[g].obs
        /\ x.value = job[g].value /\ x.evict = job[g].evict /\ x.late = job[g].late
        /\ x.res = job[g].res
    BY <2>1, JobFields, StoreFields, NowEntry, ZenonT(30) DEF JobRecords, JobPCs
  <2>3. job' = [job EXCEPT ![g] = x]
    BY <1>4, <2>1 DEF Typed
  <2>4. QED
    BY <2>2, <2>3, <1>1, <1>4 DEF Trans
<1>5. QED
  BY <1>1, <1>2, <1>3, <1>4 DEF JobLookup

LEMMA JobUnusableForm ==
  ASSUME Typed, NEW g \in Generations, JobUnusable(g)
  PROVE  /\ job[g].pc = "found" /\ UNCHANGED <<store, permits, cancelled>>
         /\ \E x : Trans(g, x) /\
              \/ Finishes(g, x, Err("cancelled")) /\ TokenFired(g)
              \/ /\ x.pc = "admit" /\ x.rec = job[g].rec /\ x.lep = job[g].lep
                 /\ x.obs = job[g].obs /\ x.value = job[g].value /\ x.evict = job[g].evict
                 /\ x.late = job[g].late /\ x.res = job[g].res
<1>1. job[g].pc = "found" /\ UNCHANGED <<store, permits, cancelled>>
  BY DEF JobUnusable, tokens, Finish, JGoto
<1>2. CASE Finish(g, Err("cancelled")) /\ TokenFired(g)
  BY <1>1, <1>2, ErrTrans DEF Errors
<1>3. CASE JGoto(g, "admit")
  <2>1. PICK x : x = [job[g] EXCEPT !.pc = "admit"]
    OBVIOUS
  <2>2. /\ x \in JobRecords /\ x.key = job[g].key
        /\ x.pc = "admit" /\ x.rec = job[g].rec /\ x.lep = job[g].lep /\ x.obs = job[g].obs
        /\ x.value = job[g].value /\ x.evict = job[g].evict /\ x.late = job[g].late
        /\ x.res = job[g].res
    BY <2>1, JobFields, StoreFields, NowEntry DEF JobRecords, JobPCs
  <2>3. job' = [job EXCEPT ![g] = x]
    BY <1>3, <2>1 DEF Typed, JGoto
  <2>4. QED
    BY <2>2, <2>3, <1>1, <1>3 DEF Trans
<1>4. QED
  BY <1>1, <1>2, <1>3 DEF JobUnusable

LEMMA JobAcceptForm ==
  ASSUME Typed, NEW g \in Generations, JobAccept(g)
  PROVE  /\ job[g].pc = "accept" /\ UNCHANGED <<store, permits, cancelled>>
         /\ \E x : Trans(g, x) /\
              \/ /\ x.pc = "settle" /\ x.lep = store.epoch /\ x.rec = job[g].rec
                 /\ x.obs = job[g].obs /\ x.value = job[g].value /\ x.evict = job[g].evict
                 /\ x.late = job[g].late /\ x.res = job[g].res
<1>1. job[g].pc = "accept" /\ UNCHANGED <<store, permits, cancelled>>
  BY DEF JobAccept, tokens, Finish, JGoto
<1>2. CASE job' = [job EXCEPT ![g].pc = "settle", ![g].lep = store.epoch]
  <2>1. PICK x : x = [job[g] EXCEPT !.pc = "settle", !.lep = store.epoch]
    OBVIOUS
  <2>2. /\ x \in JobRecords /\ x.key = job[g].key
        /\ x.pc = "settle" /\ x.lep = store.epoch /\ x.rec = job[g].rec /\ x.obs = job[g].obs
        /\ x.value = job[g].value /\ x.evict = job[g].evict /\ x.late = job[g].late
        /\ x.res = job[g].res
    BY <2>1, JobFields, StoreFields, NowEntry DEF JobRecords, JobPCs
  <2>3. job' = [job EXCEPT ![g] = x]
    BY <1>2, <2>1 DEF Typed
  <2>4. QED
    BY <2>2, <2>3, <1>1, <1>2 DEF Trans
<1>3. QED
  BY <1>1, <1>2 DEF JobAccept

LEMMA JobDropForm ==
  ASSUME Typed, NEW g \in Generations, JobDrop(g)
  PROVE  /\ job[g].pc = "drop" /\ UNCHANGED <<permits, cancelled>>
         /\ \E x : Trans(g, x) /\
              \/ /\ x.pc = "accept" /\ x.evict = {} /\ x.rec = job[g].rec /\ x.lep = job[g].lep
                 /\ x.obs = job[g].obs /\ x.value = job[g].value /\ x.late = job[g].late
                 /\ x.res = job[g].res
<1>1. job[g].pc = "drop" /\ UNCHANGED <<permits, cancelled>>
  BY DEF JobDrop, tokens, Finish, JGoto
<1>2. CASE job' = [job EXCEPT ![g].pc = "accept", ![g].evict = {}]
  <2>1. PICK x : x = [job[g] EXCEPT !.pc = "accept", !.evict = {}]
    OBVIOUS
  <2>2. /\ x \in JobRecords /\ x.key = job[g].key
        /\ x.pc = "accept" /\ x.evict = {} /\ x.rec = job[g].rec /\ x.lep = job[g].lep
        /\ x.obs = job[g].obs /\ x.value = job[g].value /\ x.late = job[g].late
        /\ x.res = job[g].res
    BY <2>1, JobFields, StoreFields, NowEntry DEF JobRecords, JobPCs
  <2>3. job' = [job EXCEPT ![g] = x]
    BY <1>2, <2>1 DEF Typed
  <2>4. QED
    BY <2>2, <2>3, <1>1, <1>2 DEF Trans
<1>3. QED
  BY <1>1, <1>2 DEF JobDrop

LEMMA JobPanicForm ==
  ASSUME Typed, NEW g \in Generations, JobPanic(g)
  PROVE  /\ job[g].pc = "fetch" /\ UNCHANGED <<store, cancelled>>
         /\ \E x : Trans(g, x) /\
              \/ /\ x.pc = "panicked" /\ x.rec = job[g].rec /\ x.lep = job[g].lep
                 /\ x.obs = job[g].obs /\ x.value = job[g].value /\ x.evict = job[g].evict
                 /\ x.late = job[g].late /\ x.res = job[g].res
<1>1. job[g].pc = "fetch" /\ UNCHANGED <<store, cancelled>>
  BY DEF JobPanic, tokens, Finish, JGoto
<1>2. CASE JGoto(g, "panicked")
  <2>1. PICK x : x = [job[g] EXCEPT !.pc = "panicked"]
    OBVIOUS
  <2>2. /\ x \in JobRecords /\ x.key = job[g].key
        /\ x.pc = "panicked" /\ x.rec = job[g].rec /\ x.lep = job[g].lep /\ x.obs = job[g].obs
        /\ x.value = job[g].value /\ x.evict = job[g].evict /\ x.late = job[g].late
        /\ x.res = job[g].res
    BY <2>1, JobFields, StoreFields, NowEntry DEF JobRecords, JobPCs
  <2>3. job' = [job EXCEPT ![g] = x]
    BY <1>2, <2>1 DEF Typed, JGoto
  <2>4. QED
    BY <2>2, <2>3, <1>1, <1>2 DEF Trans
<1>3. QED
  BY <1>1, <1>2 DEF JobPanic

LEMMA JobRowsForm ==
  ASSUME Typed, NEW g \in Generations, JobRows(g)
  PROVE  /\ job[g].pc = "rows" /\ UNCHANGED <<store, permits, cancelled>>
         /\ \E x : Trans(g, x) /\
              \/ Finishes(g, x, Err("busy"))
              \/ /\ x.pc \in {"admit", "settle", "found"}
                 /\ x.pc # "admit" => store.head[job[g].key] # NoEntry
                 /\ x.value = store.head[job[g].key] /\ x.obs = store.rev[job[g].key]
                 /\ x.rec = job[g].rec /\ x.lep = job[g].lep /\ x.evict = job[g].evict
                 /\ x.late = job[g].late /\ x.res = job[g].res
<1>1. job[g].pc = "rows" /\ UNCHANGED <<store, permits, cancelled>>
  BY DEF JobRows, tokens
<1>2. CASE Finish(g, Err("busy"))
  BY <1>1, <1>2, ErrTrans DEF Errors
<1>3. ASSUME NEW p \in {"admit", "settle", "found"}, p # "admit" => store.head[job[g].key] # NoEntry,
             job' = [job EXCEPT ![g].value = store.head[job[g].key],
                                ![g].obs = store.rev[job[g].key], ![g].pc = p]
      PROVE  \E x : /\ Trans(g, x) /\ x.pc \in {"admit", "settle", "found"}
                    /\ x.pc # "admit" => store.head[job[g].key] # NoEntry
                    /\ x.value = store.head[job[g].key] /\ x.obs = store.rev[job[g].key]
                    /\ x.rec = job[g].rec /\ x.lep = job[g].lep /\ x.evict = job[g].evict
                    /\ x.late = job[g].late /\ x.res = job[g].res
  <2>1. PICK x : x = [job[g] EXCEPT !.value = store.head[job[g].key],
                                    !.obs = store.rev[job[g].key], !.pc = p]
    OBVIOUS
  <2>2. /\ x \in JobRecords /\ x.key = job[g].key /\ x.pc = p
        /\ x.value = store.head[job[g].key] /\ x.obs = store.rev[job[g].key]
        /\ x.rec = job[g].rec /\ x.lep = job[g].lep /\ x.evict = job[g].evict
        /\ x.late = job[g].late /\ x.res = job[g].res
    BY <2>1, JobFields, StoreFields, ZenonT(30) DEF JobRecords, JobPCs
  <2>3. job' = [job EXCEPT ![g] = x]
    BY <1>3, <2>1 DEF Typed
  <2>4. QED
    BY <1>3, <2>2, <2>3 DEF Trans
<1>4. QED
  BY <1>1, <1>2, <1>3 DEF JobRows

LEMMA JobAdmitForm ==
  ASSUME Typed, NEW g \in Generations, JobAdmit(g)
  PROVE  /\ job[g].pc = "admit" /\ UNCHANGED <<store, cancelled>>
         /\ \E x : Trans(g, x) /\
              \/ Finishes(g, x, Err("cancelled")) /\ TokenFired(g) /\ permits' = permits
              \/ (\E e \in {"busy", "corrupt", "storage"} : Finishes(g, x, Err(e))) /\ permits' = permits
              \/ /\ x.pc = "fetch" /\ permits' = permits - 1
                 /\ x.rec = job[g].rec /\ x.lep = job[g].lep /\ x.obs = job[g].obs
                 /\ x.value = job[g].value /\ x.evict = job[g].evict /\ x.late = job[g].late
                 /\ x.res = job[g].res
<1>1. job[g].pc = "admit" /\ UNCHANGED <<store, cancelled>>
  BY DEF JobAdmit, tokens
<1>2. CASE TokenFired(g) \/ StorageError # "none" \/ permits = 0
  <2>1. /\ permits' = permits
        /\ \/ TokenFired(g) /\ Finish(g, Err("cancelled"))
           \/ StorageError # "none" /\ Finish(g, Err(StorageError))
           \/ Finish(g, Err("busy"))
    BY <1>2 DEF JobAdmit
  <2>2. QED
    BY <1>1, <2>1, StorageErrors, ErrTrans DEF Errors
<1>3. CASE JGoto(g, "fetch") /\ permits' = permits - 1
  <2>1. PICK x : x = [job[g] EXCEPT !.pc = "fetch"]
    OBVIOUS
  <2>2. /\ x \in JobRecords /\ x.key = job[g].key
        /\ x.pc = "fetch" /\ x.rec = job[g].rec /\ x.lep = job[g].lep /\ x.obs = job[g].obs
        /\ x.value = job[g].value /\ x.evict = job[g].evict /\ x.late = job[g].late
        /\ x.res = job[g].res
    BY <2>1, JobFields, StoreFields, NowEntry DEF JobRecords, JobPCs
  <2>3. job' = [job EXCEPT ![g] = x]
    BY <1>3, <2>1 DEF Typed, JGoto
  <2>4. QED
    BY <2>2, <2>3, <1>1, <1>3 DEF Trans
<1>4. QED
  BY <1>1, <1>2, <1>3 DEF JobAdmit

LEMMA JobRefreshForm ==
  ASSUME Typed, NEW g \in Generations, JobRefresh(g)
  PROVE  /\ Persistent /\ job[g].pc = "fetch" /\ permits' = permits + 1 /\ UNCHANGED <<store, cancelled>>
         /\ \E x : Trans(g, x) /\
              \/ Finishes(g, x, Err("cancelled")) /\ TokenFired(g)
              \/ \E e \in Refusals : Finishes(g, x, Err(e))
              \/ /\ x.pc = "begin" /\ x.value = [at |-> now, id |-> 0, lookup |-> FALSE]
                 /\ x.rec = job[g].rec /\ x.lep = job[g].lep /\ x.obs = job[g].obs
                 /\ x.evict = job[g].evict /\ x.late = job[g].late /\ x.res = job[g].res
<1>1. Persistent /\ job[g].pc = "fetch" /\ permits' = permits + 1 /\ UNCHANGED <<store, cancelled>>
  BY DEF JobRefresh, tokens
<1>2. CASE TokenFired(g) /\ Finish(g, Err("cancelled"))
  BY <1>1, <1>2, ErrTrans DEF Errors
<1>3. CASE \E e \in {"upstream", "rejected", "storage"} : Finish(g, Err(e))
  BY <1>1, <1>3, ErrTrans DEF Errors, Refusals
<1>4. CASE StorageError # "none" /\ Finish(g, Err(StorageError))
  BY <1>1, <1>4, StorageErrors, ErrTrans DEF Errors, Refusals
<1>5. CASE job' = [job EXCEPT ![g].pc = "begin", ![g].value = [at |-> now, id |-> 0, lookup |-> FALSE]]
  <2>1. PICK x : x = [job[g] EXCEPT !.pc = "begin", !.value = [at |-> now, id |-> 0, lookup |-> FALSE]]
    OBVIOUS
  <2>2. /\ x \in JobRecords /\ x.key = job[g].key
        /\ x.pc = "begin" /\ x.value = [at |-> now, id |-> 0, lookup |-> FALSE]
        /\ x.rec = job[g].rec /\ x.lep = job[g].lep /\ x.obs = job[g].obs
        /\ x.evict = job[g].evict /\ x.late = job[g].late /\ x.res = job[g].res
    BY <2>1, JobFields, StoreFields, NowEntry DEF JobRecords, JobPCs
  <2>3. job' = [job EXCEPT ![g] = x]
    BY <1>5, <2>1 DEF Typed
  <2>4. QED
    BY <2>2, <2>3, <1>1, <1>5 DEF Trans
<1>6. QED
  BY <1>1, <1>2, <1>3, <1>4, <1>5 DEF JobRefresh

LEMMA JobBeginForm ==
  ASSUME Typed, NEW g \in Generations, JobBegin(g)
  PROVE  /\ job[g].pc = "begin" /\ UNCHANGED <<permits, cancelled>>
         /\ \E x : Trans(g, x) /\
              \/ (\E e \in {"busy", "corrupt", "storage"} : Finishes(g, x, Err(e))) /\ store' = store
              \/ Finishes(g, x, Err("cancelled")) /\ StorageError = "none" /\ ~Authorize(g) /\ store' = store
              \/ /\ x.pc = "relook" /\ store' = store
                 /\ x.rec = job[g].rec /\ x.lep = job[g].lep /\ x.obs = job[g].obs
                 /\ x.value = job[g].value /\ x.evict = job[g].evict /\ x.late = job[g].late
                 /\ x.res = job[g].res
              \/ /\ x.pc = "authorize" /\ RowFree /\ store.rev[job[g].key] = job[g].obs
                 /\ StorageError = "none" /\ Authorize(g)
                 /\ store' = IF x.evict = {} THEN store ELSE Barrier(store)
                 /\ x.rec = job[g].rec /\ x.lep = job[g].lep /\ x.obs = job[g].obs
                 /\ x.value = job[g].value /\ x.late = job[g].late /\ x.res = job[g].res
<1>1. job[g].pc = "begin" /\ UNCHANGED <<permits, cancelled>>
  BY DEF JobBegin, tokens
<1>2. CASE StorageError # "none" /\ Finish(g, Err(StorageError)) /\ store' = store
  BY <1>1, <1>2, StorageErrors, ErrTrans DEF Errors
<1>3. CASE StorageError = "none" /\ ~Authorize(g) /\ Finish(g, Err("cancelled")) /\ store' = store
  BY <1>1, <1>3, ErrTrans DEF Errors
<1>4. CASE Finish(g, Err("busy")) /\ store' = store
  BY <1>1, <1>4, ErrTrans DEF Errors
<1>5. CASE JGoto(g, "relook") /\ store' = store
  <2>1. PICK x : x = [job[g] EXCEPT !.pc = "relook"]
    OBVIOUS
  <2>2. /\ x \in JobRecords /\ x.key = job[g].key
        /\ x.pc = "relook" /\ x.rec = job[g].rec /\ x.lep = job[g].lep /\ x.obs = job[g].obs
        /\ x.value = job[g].value /\ x.evict = job[g].evict /\ x.late = job[g].late
        /\ x.res = job[g].res
    BY <2>1, JobFields, StoreFields, NowEntry DEF JobRecords, JobPCs
  <2>3. job' = [job EXCEPT ![g] = x]
    BY <1>5, <2>1 DEF Typed, JGoto
  <2>4. QED
    BY <2>2, <2>3, <1>1, <1>5 DEF Trans
<1>6. ASSUME NEW E \in SUBSET Keys, RowFree, store.rev[job[g].key] = job[g].obs,
             StorageError = "none", Authorize(g),
             store' = IF E = {} THEN store ELSE Barrier(store),
             job' = [job EXCEPT ![g].pc = "authorize", ![g].evict = E]
      PROVE  \E x : /\ Trans(g, x) /\ x.pc = "authorize"
                    /\ store' = IF x.evict = {} THEN store ELSE Barrier(store)
                    /\ x.rec = job[g].rec /\ x.lep = job[g].lep /\ x.obs = job[g].obs
                    /\ x.value = job[g].value /\ x.late = job[g].late /\ x.res = job[g].res
  <2>1. PICK x : x = [job[g] EXCEPT !.pc = "authorize", !.evict = E]
    OBVIOUS
  <2>2. /\ x \in JobRecords /\ x.key = job[g].key
        /\ x.pc = "authorize" /\ x.evict = E /\ x.rec = job[g].rec /\ x.lep = job[g].lep
        /\ x.obs = job[g].obs /\ x.value = job[g].value /\ x.late = job[g].late
        /\ x.res = job[g].res
    BY <2>1, JobFields, StoreFields, NowEntry DEF JobRecords, JobPCs
  <2>3. job' = [job EXCEPT ![g] = x]
    BY <1>6, <2>1 DEF Typed
  <2>4. QED
    BY <2>2, <2>3, <1>1, <1>6 DEF Trans
<1>7. CASE /\ StorageError = "none" /\ Authorize(g) /\ store.rev[job[g].key] = job[g].obs /\ RowFree
           /\ \E E \in SUBSET {o \in Keys : o # job[g].key /\ store.head[o] # NoEntry} :
                /\ store' = IF E = {} THEN store ELSE Barrier(store)
                /\ job' = [job EXCEPT ![g].pc = "authorize", ![g].evict = E]
  <2>1. PICK E \in SUBSET Keys :
                /\ store' = IF E = {} THEN store ELSE Barrier(store)
                /\ job' = [job EXCEPT ![g].pc = "authorize", ![g].evict = E]
    BY <1>7
  <2>2. QED
    BY <1>1, <1>6, <1>7, <2>1
<1>8. QED
  BY <1>1, <1>2, <1>3, <1>4, <1>5, <1>7 DEF JobBegin

LEMMA JobAuthorizeForm ==
  ASSUME Typed, NEW g \in Generations, JobAuthorize(g)
  PROVE  /\ job[g].pc = "authorize" /\ UNCHANGED <<permits, cancelled>>
         /\ \E x : Trans(g, x) /\
              \/ /\ Finishes(g, x, Err("cancelled")) /\ ~Authorize(g)
                 /\ store' = IF job[g].evict = {} THEN store ELSE Unbarrier(store)
              \/ /\ x.pc = "commit" /\ store' = store /\ x.rec = job[g].rec /\ x.lep = job[g].lep
                 /\ x.obs = job[g].obs /\ x.value = job[g].value /\ x.evict = job[g].evict
                 /\ x.late = job[g].late /\ x.res = job[g].res
<1>1. job[g].pc = "authorize" /\ UNCHANGED <<permits, cancelled>>
  BY DEF JobAuthorize, tokens
<1>2. CASE ~Authorize(g)
  <2>1. Finish(g, Err("cancelled")) /\ store' = IF job[g].evict = {} THEN store ELSE Unbarrier(store)
    BY <1>2 DEF JobAuthorize
  <2>2. QED
    BY <1>1, <1>2, <2>1, ErrTrans DEF Errors
<1>3. CASE JGoto(g, "commit") /\ store' = store
  <2>1. PICK x : x = [job[g] EXCEPT !.pc = "commit"]
    OBVIOUS
  <2>2. /\ x \in JobRecords /\ x.key = job[g].key
        /\ x.pc = "commit" /\ x.rec = job[g].rec /\ x.lep = job[g].lep /\ x.obs = job[g].obs
        /\ x.value = job[g].value /\ x.evict = job[g].evict /\ x.late = job[g].late
        /\ x.res = job[g].res
    BY <2>1, JobFields, StoreFields, NowEntry DEF JobRecords, JobPCs
  <2>3. job' = [job EXCEPT ![g] = x]
    BY <1>3, <2>1 DEF Typed, JGoto
  <2>4. QED
    BY <2>2, <2>3, <1>1, <1>3 DEF Trans
<1>4. QED
  BY <1>1, <1>2, <1>3 DEF JobAuthorize

LEMMA JobCommitForm ==
  ASSUME Typed, NEW g \in Generations, JobCommit(g)
  PROVE  /\ job[g].pc = "commit" /\ store' = Committed(g) /\ UNCHANGED <<permits, cancelled>>
         /\ \E x : /\ Trans(g, x) /\ x.pc = "drop"
                  /\ x.value.at = job[g].value.at /\ x.value.lookup = job[g].value.lookup
                  /\ x.rec = job[g].rec /\ x.lep = job[g].lep /\ x.obs = job[g].obs
                  /\ x.evict = job[g].evict /\ x.late = job[g].late /\ x.res = job[g].res
<1>1. /\ job[g].pc = "commit" /\ store' = Committed(g) /\ UNCHANGED <<permits, cancelled>>
  BY DEF JobCommit, tokens
<1>2. PICK v : v = [job[g].value EXCEPT !.id = store.next + 1]
  OBVIOUS
<1>3. v \in Entries /\ v.at = job[g].value.at /\ v.lookup = job[g].value.lookup
  BY <1>2, JobFields, StoreFields DEF Entries
<1>4. PICK x : x = [job[g] EXCEPT !.pc = "drop", !.value = v]
  OBVIOUS
<1>5. /\ x \in JobRecords /\ x.key = job[g].key /\ x.pc = "drop" /\ x.value = v
      /\ x.rec = job[g].rec /\ x.lep = job[g].lep /\ x.obs = job[g].obs
      /\ x.evict = job[g].evict /\ x.late = job[g].late /\ x.res = job[g].res
  BY <1>3, <1>4, JobFields DEF JobRecords, JobPCs
<1>6. job' = [job EXCEPT ![g] = x]
  BY <1>2, <1>4 DEF Typed, JobCommit
<1>7. QED
  BY <1>1, <1>3, <1>5, <1>6 DEF Trans

LEMMA JobSettleForm ==
  ASSUME Typed, NEW g \in Generations, JobSettle(g)
  PROVE  /\ job[g].pc = "settle" /\ UNCHANGED <<store, permits, cancelled>>
         /\ \E x : Trans(g, x) /\
              \/ Finishes(g, x, Err("cancelled")) /\ TokenFired(g)
              \/ \E e \in Refusals : Finishes(g, x, Err(e))
              \/ Finishes(g, x, Outcome("ok", job[g].value, job[g].lep))
<1>1. job[g].pc = "settle" /\ UNCHANGED <<store, permits, cancelled>>
  BY DEF JobSettle, tokens
<1>2. CASE TokenFired(g) /\ Finish(g, Err("cancelled"))
  BY <1>1, <1>2, ErrTrans DEF Errors
<1>3. CASE \E e \in {"storage", "stale_only"} : Finish(g, Err(e))
  BY <1>1, <1>3, ErrTrans DEF Errors, Refusals
<1>4. CASE Finish(g, Outcome("ok", job[g].value, job[g].lep))
  <2>1. /\ Outcome("ok", job[g].value, job[g].lep) \in Outcomes
        /\ Outcome("ok", job[g].value, job[g].lep).tag # "none"
    BY JobFields DEF Outcome, Outcomes, Tags
  <2>2. QED
    BY <1>1, <1>4, <2>1, FinishTrans
<1>5. QED
  BY <1>1, <1>2, <1>3, <1>4 DEF JobSettle

LEMMA JobDeadlineForm ==
  ASSUME Typed, NEW g \in Generations, JobDeadline(g)
  PROVE  /\ Persistent /\ job[g].pc \in Running \ {"publish"} /\ UNCHANGED <<store, permits>>
         /\ cancelled' = cancelled \union {g}
         /\ \E x : /\ Trans(g, x) /\ x.pc = job[g].pc /\ x.late = TRUE
                  /\ x.rec = job[g].rec /\ x.lep = job[g].lep /\ x.obs = job[g].obs
                  /\ x.value = job[g].value /\ x.evict = job[g].evict /\ x.res = job[g].res
<1>1. /\ Persistent /\ job[g].pc \in Running \ {"publish"} /\ UNCHANGED <<store, permits>>
      /\ cancelled' = cancelled \union {g}
  BY DEF JobDeadline
<1>2. PICK x : x = [job[g] EXCEPT !.late = TRUE]
  OBVIOUS
<1>3. /\ x \in JobRecords /\ x.key = job[g].key /\ x.pc = job[g].pc
      /\ x.rec = job[g].rec /\ x.lep = job[g].lep /\ x.obs = job[g].obs
      /\ x.value = job[g].value /\ x.evict = job[g].evict /\ x.res = job[g].res
  BY <1>2, JobFields DEF JobRecords
<1>4. x.late = TRUE
  BY <1>2, JobFields DEF JobRecords
<1>5. job' = [job EXCEPT ![g] = x]
  BY <1>2 DEF Typed, JobDeadline
<1>6. QED
  BY <1>1, <1>3, <1>4, <1>5 DEF Trans

LEMMA JobStorageFaultForm ==
  ASSUME Typed, NEW g \in Generations, JobStorageFault(g)
  PROVE  /\ job[g].pc = "rows" /\ UNCHANGED <<permits, cancelled>>
         /\ \E x : Trans(g, x) /\ \E e \in Refusals : Finishes(g, x, Err(e))
         /\ \E to \in {"recovering", "blocked"} : store' = Recorded(store, to)
<1>1. job[g].pc = "rows" /\ UNCHANGED <<permits, cancelled>>
  BY DEF JobStorageFault, tokens
<1>2. \E e \in {"storage", "corrupt"} : Finish(g, Err(e))
  BY DEF JobStorageFault
<1>3. \E x : Trans(g, x) /\ \E e \in Refusals : Finishes(g, x, Err(e))
  BY <1>2, ErrTrans DEF Errors, Refusals
<1>4. \E to \in {"recovering", "blocked"} : store' = Recorded(store, to)
  BY DEF JobStorageFault
<1>5. QED
  BY <1>1, <1>3, <1>4

\* Job g goes on as x, which differs from it in its place alone.
Stays(g, x) ==
  /\ Trans(g, x) /\ x.rec = job[g].rec /\ x.lep = job[g].lep /\ x.obs = job[g].obs
  /\ x.value = job[g].value /\ x.evict = job[g].evict /\ x.late = job[g].late
  /\ x.res = job[g].res

LEMMA GotoTrans ==
  ASSUME Typed, NEW g \in Generations, NEW p \in JobPCs, JGoto(g, p)
  PROVE  \E x : Stays(g, x) /\ x.pc = p
<1>1. PICK x : x = [job[g] EXCEPT !.pc = p]
  OBVIOUS
<1>2. /\ x \in JobRecords /\ x.key = job[g].key /\ x.pc = p
      /\ x.rec = job[g].rec /\ x.lep = job[g].lep /\ x.obs = job[g].obs
      /\ x.value = job[g].value /\ x.evict = job[g].evict /\ x.late = job[g].late
      /\ x.res = job[g].res
  BY <1>1, JobFields DEF JobRecords
<1>3. job' = [job EXCEPT ![g] = x]
  BY <1>1 DEF Typed, JGoto
<1>4. QED
  BY <1>2, <1>3 DEF Trans, Stays

LEMMA JobCommitLostForm ==
  ASSUME Typed, NEW g \in Generations, JobCommitLost(g)
  PROVE  /\ job[g].pc \in {"commit", "drop"} /\ UNCHANGED <<permits, cancelled>>
         /\ store' \in Unwound(job[g].evict)
         /\ \E x : /\ Stays(g, x)
                   /\ job[g].pc = "commit" => x.pc = "unsettled"
                   /\ job[g].pc = "drop" => x.pc = "record"
<1>1. /\ job[g].pc \in {"commit", "drop"} /\ UNCHANGED <<permits, cancelled>>
      /\ store' \in Unwound(job[g].evict)
  BY DEF JobCommitLost, tokens
<1>2. PICK p \in {"unsettled", "record"} :
        /\ JGoto(g, p)
        /\ job[g].pc = "commit" => p = "unsettled"
        /\ job[g].pc = "drop" => p = "record"
  BY DEF JobCommitLost
<1>3. p \in JobPCs
  BY DEF JobPCs
<1>4. QED
  BY <1>1, <1>2, <1>3, GotoTrans

LEMMA JobSettledForm ==
  ASSUME Typed, NEW g \in Generations, JobSettled(g)
  PROVE  /\ job[g].pc = "unsettled" /\ UNCHANGED <<permits, cancelled>>
         /\ store' = store \/ store' = Committed(g)
         /\ \E x : Stays(g, x) /\ x.pc = "record"
<1>1. /\ job[g].pc = "unsettled" /\ UNCHANGED <<permits, cancelled>>
      /\ store' = store \/ store' = Committed(g)
  BY DEF JobSettled, tokens
<1>2. JGoto(g, "record") /\ "record" \in JobPCs
  BY DEF JobSettled, JobPCs
<1>3. QED
  BY <1>1, <1>2, GotoTrans

LEMMA JobRecordForm ==
  ASSUME Typed, NEW g \in Generations, JobRecord(g)
  PROVE  /\ job[g].pc = "record" /\ UNCHANGED <<permits, cancelled>>
         /\ store' = Recorded(store, "recovering")
         /\ \E x : Trans(g, x) /\ Finishes(g, x, Err("storage"))
<1>1. /\ job[g].pc = "record" /\ UNCHANGED <<permits, cancelled>>
      /\ store' = Recorded(store, "recovering") /\ Finish(g, Err("storage"))
  BY DEF JobRecord, tokens
<1>2. QED
  BY <1>1, ErrTrans DEF Errors

LEMMA JobPromoteForm ==
  ASSUME Typed, NEW g \in Generations, JobPromote(g)
  PROVE  /\ job[g].pc = "found" /\ ~TokenFired(g) /\ SyncEpochs /\ cancelled' = cancelled \union SyncCancels
         /\ UNCHANGED <<conf, now, flights, waiters, generation, stopping, shut, failed, stage, taken,
                        permits, client, store, panics, faults, evictions>>
         /\ \E x : Trans(g, x) /\
              \/ Finishes(g, x, Err("storage")) /\ cache' = SyncCache
              \/ /\ Finishes(g, x, Err("cancelled")) /\ cache' = SyncCache
                 /\ Promotable(g) /\ (stopping \/ ~Wanted(g) \/ g \in SyncCancels)
              \/ /\ Promotable(g) /\ ~stopping /\ Wanted(g)
                 /\ cache' \in CachePublish(SyncCache, job[g].key, job[g].value)
                 /\ \/ Finishes(g, x, Outcome("ok", job[g].value, job[g].lep))
                    \/ /\ x.pc = "admit" /\ x.rec = job[g].rec /\ x.lep = job[g].lep
                       /\ x.obs = job[g].obs /\ x.value = job[g].value /\ x.evict = job[g].evict
                       /\ x.late = job[g].late /\ x.res = job[g].res
<1>1. /\ job[g].pc = "found" /\ ~TokenFired(g) /\ SyncEpochs /\ cancelled' = cancelled \union SyncCancels
      /\ UNCHANGED <<conf, now, flights, waiters, generation, stopping, shut, failed, stage, taken,
                     permits, client, store, panics, faults, evictions>>
  BY DEF JobPromote, clock, ending, budget
<1>2. CASE ~Promotable(g)
  BY <1>1, <1>2, ErrTrans DEF JobPromote, Errors
<1>3. CASE Promotable(g) /\ (stopping \/ ~Wanted(g) \/ g \in SyncCancels)
  BY <1>1, <1>3, ErrTrans DEF JobPromote, Errors
<1>4. CASE Promotable(g) /\ ~(stopping \/ ~Wanted(g) \/ g \in SyncCancels)
  <2>1. cache' \in CachePublish(SyncCache, job[g].key, job[g].value)
    BY <1>4 DEF JobPromote
  <2>2. CASE Finish(g, Outcome("ok", job[g].value, job[g].lep))
    <3>1. /\ Outcome("ok", job[g].value, job[g].lep) \in Outcomes
          /\ Outcome("ok", job[g].value, job[g].lep).tag # "none"
      BY JobFields DEF Outcome, Outcomes, Tags
    <3>2. QED
      BY <1>1, <1>4, <2>1, <2>2, <3>1, FinishTrans
  <2>3. CASE JGoto(g, "admit")
    <3>1. PICK x : x = [job[g] EXCEPT !.pc = "admit"]
      OBVIOUS
    <3>2. /\ x \in JobRecords /\ x.key = job[g].key
          /\ x.pc = "admit" /\ x.rec = job[g].rec /\ x.lep = job[g].lep /\ x.obs = job[g].obs
          /\ x.value = job[g].value /\ x.evict = job[g].evict /\ x.late = job[g].late
          /\ x.res = job[g].res
      BY <3>1, JobFields, StoreFields, NowEntry DEF JobRecords, JobPCs
    <3>3. job' = [job EXCEPT ![g] = x]
      BY <2>3, <3>1 DEF Typed, JGoto
    <3>4. QED
      BY <3>2, <3>3, <1>1, <1>4, <2>1, <2>3 DEF Trans
  <2>4. QED
    BY <1>4, <2>2, <2>3 DEF JobPromote
<1>5. QED
  BY <1>2, <1>3, <1>4

----------------------------------------------------------------------------
(* The storage port. *)

LEMMA BarrierFields ==
  ASSUME NEW s \in StoreRecords
  PROVE  /\ Barrier(s) \in StoreRecords
         /\ Barrier(s).st = "maintaining" /\ Barrier(s).epoch = s.epoch + 1 /\ Barrier(s).rec = s.rec
         /\ Barrier(s).next = s.next /\ Barrier(s).head = s.head /\ Barrier(s).rev = s.rev
         /\ Barrier(s).trim = s.trim /\ Barrier(s).gone = s.gone
         /\ Barrier(s).lost = s.lost /\ Barrier(s).owed = s.owed
<1>1. PICK ep \in Nat : ep = s.epoch + 1
  BY DEF StoreRecords
<1>2. s.rec \in Nat /\ "maintaining" \in StoreStates
  BY DEF StoreRecords, StoreStates
<1>3. Barrier(s) = [s EXCEPT !.st = "maintaining", !.epoch = ep, !.rec = s.rec]
  BY <1>1 DEF Barrier, StoreRecords
<1>4. PICK x : x = [s EXCEPT !.st = "maintaining", !.epoch = ep, !.rec = s.rec]
  OBVIOUS
<1>5. /\ x \in StoreRecords /\ x.st = "maintaining" /\ x.epoch = ep /\ x.rec = s.rec
      /\ x.next = s.next /\ x.head = s.head /\ x.rev = s.rev /\ x.trim = s.trim /\ x.gone = s.gone
      /\ x.lost = s.lost /\ x.owed = s.owed
  BY <1>2, <1>4 DEF StoreRecords
<1>6. QED
  BY <1>1, <1>3, <1>4, <1>5

LEMMA UnbarrierFields ==
  ASSUME NEW s \in StoreRecords
  PROVE  /\ Unbarrier(s) \in StoreRecords
         /\ Unbarrier(s).st = (IF s.st = "maintaining" THEN "ready" ELSE s.st)
         /\ Unbarrier(s).epoch = s.epoch + 1 /\ Unbarrier(s).rec = s.rec
         /\ Unbarrier(s).next = s.next /\ Unbarrier(s).head = s.head /\ Unbarrier(s).rev = s.rev
         /\ Unbarrier(s).trim = s.trim /\ Unbarrier(s).gone = s.gone
         /\ Unbarrier(s).lost = s.lost /\ Unbarrier(s).owed = s.owed
<1>1. PICK ep \in Nat : ep = s.epoch + 1
  BY DEF StoreRecords
<1>2. PICK st \in StoreStates : st = IF s.st = "maintaining" THEN "ready" ELSE s.st
  BY DEF StoreRecords, StoreStates
<1>3. s.rec \in Nat
  BY DEF StoreRecords
<1>4. Unbarrier(s) = [s EXCEPT !.st = st, !.epoch = ep, !.rec = s.rec]
  BY <1>1, <1>2 DEF Unbarrier, StoreRecords
<1>5. PICK x : x = [s EXCEPT !.st = st, !.epoch = ep, !.rec = s.rec]
  OBVIOUS
<1>6. /\ x \in StoreRecords /\ x.st = st /\ x.epoch = ep /\ x.rec = s.rec
      /\ x.next = s.next /\ x.head = s.head /\ x.rev = s.rev /\ x.trim = s.trim /\ x.gone = s.gone
      /\ x.lost = s.lost /\ x.owed = s.owed
  BY <1>3, <1>5 DEF StoreRecords
<1>7. QED
  BY <1>1, <1>2, <1>4, <1>5, <1>6

LEMMA RecordedFields ==
  ASSUME NEW s \in StoreRecords, NEW to \in {"recovering", "blocked", "uncertain"}
  PROVE  /\ Recorded(s, to) \in StoreRecords
         /\ s.st \in {"closed", "blocked"} => Recorded(s, to) = s
         /\ s.st \notin {"closed", "blocked"} =>
              /\ Recorded(s, to).st \in {"recovering", "blocked", "uncertain"}
              /\ Recorded(s, to).epoch = s.epoch + 1 /\ Recorded(s, to).rec = s.rec + 1
              /\ s.st = "uncertain" => Recorded(s, to).st = "uncertain"
         /\ Recorded(s, to).next = s.next /\ Recorded(s, to).head = s.head
         /\ Recorded(s, to).rev = s.rev /\ Recorded(s, to).trim = s.trim /\ Recorded(s, to).gone = s.gone
         /\ Recorded(s, to).lost = s.lost /\ Recorded(s, to).owed = s.owed
<1>1. CASE s.st \in {"closed", "blocked"}
  BY <1>1 DEF Recorded
<1>2. CASE s.st \notin {"closed", "blocked"}
  <2>1. PICK ep \in Nat : ep = s.epoch + 1
    BY DEF StoreRecords
  <2>2. PICK rec \in Nat : rec = s.rec + 1
    BY DEF StoreRecords
  <2>3. PICK st \in {"recovering", "blocked", "uncertain"} : st = IF s.st = "uncertain" THEN s.st ELSE to
    OBVIOUS
  <2>4. st \in StoreStates
    BY DEF StoreStates
  <2>5. Recorded(s, to) = [s EXCEPT !.st = st, !.epoch = ep, !.rec = rec]
    BY <1>2, <2>1, <2>2, <2>3 DEF Recorded, StoreRecords
  <2>6. PICK x : x = [s EXCEPT !.st = st, !.epoch = ep, !.rec = rec]
    OBVIOUS
  <2>7. /\ x \in StoreRecords /\ x.st = st /\ x.epoch = ep /\ x.rec = rec
        /\ x.next = s.next /\ x.head = s.head /\ x.rev = s.rev /\ x.trim = s.trim /\ x.gone = s.gone
        /\ x.lost = s.lost /\ x.owed = s.owed
    BY <2>4, <2>6 DEF StoreRecords
  <2>8. QED
    BY <1>2, <2>1, <2>2, <2>3, <2>5, <2>6, <2>7
<1>3. QED
  BY <1>1, <1>2

LEMMA UnwoundFields ==
  ASSUME NEW E \in SUBSET Keys, store \in StoreRecords, NEW s \in Unwound(E)
  PROVE  /\ s \in StoreRecords /\ s.epoch = (IF E = {} THEN store.epoch ELSE store.epoch + 1)
         /\ s.st \in {"uncertain", store.st} \/ (s.st = "ready" /\ store.st = "maintaining")
         /\ store.st = "uncertain" => s.st = "uncertain"
         /\ s.rec = store.rec /\ s.next = store.next /\ s.head = store.head /\ s.rev = store.rev
         /\ s.trim = store.trim /\ s.gone = store.gone
         /\ s.lost = store.lost /\ s.owed = store.owed
         /\ s.st = "ready" /\ E = {} => store.st = "ready"
<1>1. PICK u : u = IF E = {} THEN store ELSE Unbarrier(store)
  OBVIOUS
<1>2. /\ u \in StoreRecords /\ u.epoch = (IF E = {} THEN store.epoch ELSE store.epoch + 1)
      /\ u.st = store.st \/ (u.st = "ready" /\ store.st = "maintaining" /\ E # {})
      /\ u.rec = store.rec /\ u.next = store.next /\ u.head = store.head /\ u.rev = store.rev
      /\ u.trim = store.trim /\ u.gone = store.gone
      /\ u.lost = store.lost /\ u.owed = store.owed
  <2>1. CASE E = {}
    BY <1>1, <2>1
  <2>2. CASE E # {}
    <3>1. u = Unbarrier(store)
      BY <1>1, <2>2
    <3>2. QED
      BY <2>2, <3>1, UnbarrierFields
  <2>3. QED
    BY <2>1, <2>2
<1>3. s = u \/ s = [u EXCEPT !.st = "uncertain"]
  BY <1>1 DEF Unwound
<1>4. CASE s = u
  BY <1>2, <1>4
<1>5. CASE s = [u EXCEPT !.st = "uncertain"]
  <2>1. /\ s \in StoreRecords /\ s.st = "uncertain" /\ s.epoch = u.epoch
        /\ s.rec = u.rec /\ s.next = u.next /\ s.head = u.head /\ s.rev = u.rev
        /\ s.trim = u.trim /\ s.gone = u.gone /\ s.lost = u.lost /\ s.owed = u.owed
    BY <1>2, <1>5 DEF StoreRecords, StoreStates
  <2>2. QED
    BY <1>2, <2>1
<1>6. QED
  BY <1>3, <1>4, <1>5

LEMMA EvictFields ==
  ASSUME MaxClock \in Nat, NEW s \in StoreRecords, NEW E \in SUBSET Keys
  PROVE  /\ Evict(s, E) \in StoreRecords
         /\ Evict(s, E).st = s.st /\ Evict(s, E).epoch = s.epoch /\ Evict(s, E).rec = s.rec
         /\ Evict(s, E).next = s.next /\ Evict(s, E).trim = s.trim /\ Evict(s, E).gone = s.gone
         /\ Evict(s, E).lost = s.lost /\ Evict(s, E).owed = s.owed
         /\ \A k \in Keys : Evict(s, E).head[k] = IF k \in E THEN NoEntry ELSE s.head[k]
         /\ \A k \in Keys : Evict(s, E).rev[k] = IF k \in E THEN 0 ELSE s.rev[k]
<1>1. NoEntry \in Entries
  BY RestingTypes
<1>2. PICK h : h = [k \in Keys |-> IF k \in E THEN NoEntry ELSE s.head[k]]
  OBVIOUS
<1>3. PICK r : r = [k \in Keys |-> IF k \in E THEN 0 ELSE s.rev[k]]
  OBVIOUS
<1>4. s.head \in [Keys -> Entries] /\ s.rev \in [Keys -> Nat]
  BY DEF StoreRecords
<1>5. h \in [Keys -> Entries] /\ r \in [Keys -> Nat]
  BY <1>1, <1>2, <1>3, <1>4
<1>6. Evict(s, E) = [s EXCEPT !.head = h, !.rev = r]
  BY <1>2, <1>3 DEF Evict, StoreRecords
<1>7. Evict(s, E) \in StoreRecords
  BY <1>5, <1>6 DEF StoreRecords
<1>8. /\ Evict(s, E).st = s.st /\ Evict(s, E).epoch = s.epoch /\ Evict(s, E).rec = s.rec
      /\ Evict(s, E).next = s.next /\ Evict(s, E).trim = s.trim /\ Evict(s, E).gone = s.gone
      /\ Evict(s, E).lost = s.lost /\ Evict(s, E).owed = s.owed
      /\ Evict(s, E).head = h /\ Evict(s, E).rev = r
  BY <1>6 DEF StoreRecords
<1>9. QED
  BY <1>2, <1>3, <1>7, <1>8

LEMMA CommittedFields ==
  ASSUME Typed, NEW g \in Generations
  PROVE  /\ Committed(g) \in StoreRecords
         /\ Committed(g).st = store.st /\ Committed(g).epoch = store.epoch /\ Committed(g).rec = store.rec
         /\ Committed(g).next = store.next + 1 /\ Committed(g).trim = store.trim
         /\ Committed(g).gone = store.gone
         /\ Committed(g).lost = store.lost /\ Committed(g).owed = store.owed
         /\ Committed(g).head[job[g].key] = [at |-> job[g].value.at, id |-> store.next + 1, lookup |-> TRUE]
         /\ Committed(g).rev[job[g].key] = store.next + 1
         /\ \A k \in Keys \ {job[g].key} :
              /\ Committed(g).head[k] = IF k \in job[g].evict THEN NoEntry ELSE store.head[k]
              /\ Committed(g).rev[k] = IF k \in job[g].evict THEN 0 ELSE store.rev[k]
<1>1. MaxClock \in Nat /\ store \in StoreRecords /\ job[g].evict \in SUBSET Keys /\ job[g].key \in Keys
  BY ConfTypes, JobFields DEF Typed, SetsTyped
<1>2. PICK s : s = Evict(store, job[g].evict)
  OBVIOUS
<1>3. PICK v : v = [at |-> job[g].value.at, id |-> store.next + 1, lookup |-> TRUE]
  OBVIOUS
<1>4. job[g].value.at \in -1..MaxClock /\ store.next \in Nat
  <2>1. job[g].value \in Entries /\ store.next \in Nat
    BY JobFields, StoreFields
  <2>2. QED
    BY <2>1 DEF Entries
<1>5. v \in Entries
  BY <1>3, <1>4 DEF Entries
<1>6. /\ s \in StoreRecords /\ s.st = store.st /\ s.epoch = store.epoch /\ s.rec = store.rec
      /\ s.next = store.next /\ s.trim = store.trim /\ s.gone = store.gone
      /\ s.lost = store.lost /\ s.owed = store.owed
      /\ \A k \in Keys : s.head[k] = IF k \in job[g].evict THEN NoEntry ELSE store.head[k]
      /\ \A k \in Keys : s.rev[k] = IF k \in job[g].evict THEN 0 ELSE store.rev[k]
  BY <1>1, <1>2, EvictFields
<1>7. PICK hd : hd = [s.head EXCEPT ![job[g].key] = v]
  OBVIOUS
<1>8. PICK rv : rv = [s.rev EXCEPT ![job[g].key] = store.next + 1]
  OBVIOUS
<1>9. s.head \in [Keys -> Entries] /\ s.rev \in [Keys -> Nat] /\ s.next \in Nat
  BY <1>6 DEF StoreRecords
<1>10. PICK n \in Nat : n = store.next + 1
  BY <1>4
<1>10a. hd \in [Keys -> Entries]
  BY <1>5, <1>7, <1>9
<1>10b. rv \in [Keys -> Nat]
  BY <1>10, <1>8, <1>9
<1>11. Committed(g) = [s EXCEPT !.next = n, !.rev = rv, !.head = hd]
  BY <1>2, <1>3, <1>6, <1>7, <1>8, <1>10 DEF Committed, StoreRecords
<1>12. Committed(g) \in StoreRecords
  BY <1>6, <1>10, <1>10a, <1>10b, <1>11 DEF StoreRecords
<1>13. /\ Committed(g).st = store.st /\ Committed(g).epoch = store.epoch /\ Committed(g).rec = store.rec
       /\ Committed(g).next = store.next + 1 /\ Committed(g).trim = store.trim
       /\ Committed(g).gone = store.gone
       /\ Committed(g).lost = store.lost /\ Committed(g).owed = store.owed /\ Committed(g).head = hd /\ Committed(g).rev = rv
  BY <1>6, <1>10, <1>11 DEF StoreRecords
<1>14. hd[job[g].key] = v /\ \A k \in Keys \ {job[g].key} : hd[k] = s.head[k]
  BY <1>1, <1>7, <1>9
<1>15. rv[job[g].key] = store.next + 1 /\ \A k \in Keys \ {job[g].key} : rv[k] = s.rev[k]
  BY <1>1, <1>8, <1>9
<1>16. QED
  BY <1>3, <1>6, <1>12, <1>13, <1>14, <1>15

----------------------------------------------------------------------------
(* Calls. *)

LEMMA CallFields ==
  ASSUME Typed, NEW c \in Clients
  PROVE  /\ client[c] \in ClientRecords
         /\ client[c].pc \in {"idle", "waiting"} /\ client[c].key \in Keys /\ client[c].gen \in 0..MaxGen
         /\ client[c].rec \in Nat /\ client[c].got \in Outcomes /\ client[c].got.tag \in Tags
         /\ client[c].pc = "waiting" => client[c].gen \in Generations
<1>1. client[c] \in ClientRecords
  BY DEF Typed
<1>2. client[c].got \in Outcomes /\ client[c].gen \in 0..MaxGen
  BY <1>1 DEF ClientRecords
<1>3. client[c].got.tag \in Tags
  BY <1>2 DEF Outcomes
<1>4. client[c].pc = "waiting" => client[c].gen \in Generations
  BY <1>2, ServiceAssumption DEF Typed, WaitsForFlight, Generations
<1>5. QED
  BY <1>1, <1>2, <1>3, <1>4 DEF ClientRecords

LEMMA FlightFields ==
  ASSUME Typed, NEW k \in Keys
  PROVE  /\ flights[k] \in [gen : 0..MaxGen, waiters : Int]
         /\ flights[k].gen \in 0..MaxGen /\ flights[k].waiters \in Int
         /\ flights[k].gen \in Int /\ generation \in 0..MaxGen /\ generation \in Int
         /\ flights[k].gen # 0 => flights[k].gen \in Generations
  BY ServiceAssumption DEF Typed, Flights, CountsTyped, Generations

LEMMA AnswerForm ==
  ASSUME Typed, NEW c \in Clients, NEW tag, Answer(c, tag)
  PROVE  \E x \in ClientRecords : /\ client' = [client EXCEPT ![c] = x] /\ x.pc = "idle"
                                  /\ x.res = "cancelled" => tag = "cancelled"
<1>1. NoClient \in ClientRecords
  BY ConfTypes, RestingTypes DEF Typed, SetsTyped
<1>2. PICK r \in {"none", "ok", "stale", "cancelled", "failed"} :
        r = IF tag \in {"none", "ok", "stale", "cancelled"} THEN tag ELSE "failed"
  OBVIOUS
<1>3. PICK x : x = [NoClient EXCEPT !.res = r]
  OBVIOUS
<1>4. x \in ClientRecords /\ x.res = r
  BY <1>1, <1>3 DEF ClientRecords
<1>5. x.pc = "idle"
  BY <1>3 DEF NoClient
<1>6. client' = [client EXCEPT ![c] = x]
  BY <1>2, <1>3 DEF Answer
<1>7. r = "cancelled" => tag = "cancelled"
  BY <1>2
<1>8. QED
  BY <1>4, <1>5, <1>6, <1>7

LEMMA WaitForm ==
  ASSUME Typed, NEW c \in Clients, NEW k \in Keys, NEW g \in Generations, NEW stale \in BOOLEAN,
         Wait(c, k, g, stale)
  PROVE  \E x \in ClientRecords : /\ client' = [client EXCEPT ![c] = x] /\ x.pc = "waiting"
                                  /\ x.key = k /\ x.gen = g /\ x.rec = store.rec /\ x.got.tag = "none"
<1>1. NoClient \in ClientRecords
  BY ConfTypes, RestingTypes DEF Typed, SetsTyped
<1>2. PICK x : x = [NoClient EXCEPT !.pc = "waiting", !.key = k, !.gen = g,
                                    !.allowStale = stale, !.rec = store.rec]
  OBVIOUS
<1>3. store.rec \in Nat /\ g \in 0..MaxGen
  BY StoreFields, ServiceAssumption DEF Generations
<1>4. x \in ClientRecords
  BY <1>1, <1>2, <1>3 DEF ClientRecords
<1>5. x.pc = "waiting" /\ x.key = k /\ x.gen = g /\ x.rec = store.rec /\ x.got = NoOutcome
  BY <1>2 DEF NoClient
<1>6. client' = [client EXCEPT ![c] = x]
  BY <1>2 DEF Wait
<1>7. NoOutcome.tag = "none"
  BY DEF NoOutcome, Outcome
<1>8. QED
  BY <1>4, <1>5, <1>6, <1>7

LEMMA TellForm ==
  ASSUME Typed, NEW G, NEW o \in Outcomes
  PROVE  /\ Tell(G, o) \in [Clients -> ClientRecords]
         /\ \A c \in Clients :
              IF client[c].pc = "waiting" /\ client[c].gen \in G
              THEN /\ Tell(G, o)[c].pc = client[c].pc /\ Tell(G, o)[c].key = client[c].key
                   /\ Tell(G, o)[c].gen = client[c].gen /\ Tell(G, o)[c].rec = client[c].rec
                   /\ Tell(G, o)[c].got = o /\ Tell(G, o)[c].res = client[c].res
              ELSE Tell(G, o)[c] = client[c]
<1>1. ASSUME NEW c \in Clients
      PROVE  /\ [client[c] EXCEPT !.got = o] \in ClientRecords
             /\ [client[c] EXCEPT !.got = o].pc = client[c].pc
             /\ [client[c] EXCEPT !.got = o].key = client[c].key
             /\ [client[c] EXCEPT !.got = o].gen = client[c].gen
             /\ [client[c] EXCEPT !.got = o].rec = client[c].rec
             /\ [client[c] EXCEPT !.got = o].got = o
             /\ [client[c] EXCEPT !.got = o].res = client[c].res
  BY CallFields DEF ClientRecords
<1>2. \A c \in Clients : client[c] \in ClientRecords
  BY CallFields
<1>3. \A c \in Clients : Tell(G, o)[c] = IF client[c].pc = "waiting" /\ client[c].gen \in G
                                         THEN [client[c] EXCEPT !.got = o] ELSE client[c]
  BY DEF Tell
<1>4. Tell(G, o) \in [Clients -> ClientRecords]
  BY <1>1, <1>2 DEF Tell
<1>5. QED
  BY <1>1, <1>3, <1>4

\* How a waiter that still belongs to its flight leaves it.
Leaves(c, y) ==
  LET f == flights[client[c].key] IN
  /\ y \in [gen : 0..MaxGen, waiters : Int] /\ flights' = [flights EXCEPT ![client[c].key] = y]
  /\ waiters' = waiters - 1
  /\ \/ y.gen = f.gen /\ y.waiters = f.waiters - 1 /\ (f.waiters = 1 => Persistent)
     \/ y = NoFlight /\ f.waiters = 1 /\ ~Persistent

LEMMA DropForm ==
  ASSUME Typed, NEW c \in Clients, client[c].pc = "waiting", NEW F \in SUBSET Generations,
         WaiterDrop(c, F)
  PROVE  /\ flights' \in Flights /\ waiters' \in Int /\ cancelled' \subseteq Generations
         /\ \/ /\ ~Holds(c) /\ flights' = flights /\ waiters' = waiters
               /\ cancelled' = cancelled \union F
            \/ /\ Holds(c) /\ \E y : Leaves(c, y)
               /\ cancelled' = cancelled \union F \union LastOf(c)
<1>1. /\ client[c].key \in Keys /\ client[c].gen \in Generations
      /\ cancelled \subseteq Generations /\ flights \in Flights /\ waiters \in Int
  BY CallFields DEF Typed, SetsTyped, CountsTyped
<1>2. CASE ~Holds(c)
  BY <1>1, <1>2 DEF WaiterDrop
<1>3. CASE Holds(c)
  <2>1. PICK f \in [gen : 0..MaxGen, waiters : Int] : f = flights[client[c].key]
    BY <1>1, FlightFields
  <2>2. PICK y : y = Remaining(f)
    OBVIOUS
  <2>3. /\ waiters' = waiters - 1 /\ flights' = [flights EXCEPT ![client[c].key] = y]
        /\ cancelled' = cancelled \union F \union LastOf(c)
    BY <1>3, <2>1, <2>2 DEF WaiterDrop
  <2>4. NoFlight \in [gen : 0..MaxGen, waiters : Int]
    BY ServiceAssumption DEF NoFlight
  <2>5. CASE f.waiters = 1 /\ ~Persistent
    <3>1. y = NoFlight
      BY <2>2, <2>5 DEF Remaining
    <3>2. Leaves(c, y)
      BY <2>1, <2>3, <2>4, <2>5, <3>1 DEF Leaves
    <3>3. QED
      BY <1>1, <1>3, <2>3, <2>4, <3>1, <3>2 DEF Flights, LastOf
  <2>6. CASE ~(f.waiters = 1 /\ ~Persistent)
    <3>1. PICK n \in Int : n = f.waiters - 1
      BY <2>1
    <3>2. y = [f EXCEPT !.waiters = n]
      BY <2>1, <2>2, <2>6, <3>1 DEF Remaining
    <3>3. y \in [gen : 0..MaxGen, waiters : Int] /\ y.gen = f.gen /\ y.waiters = n
      BY <2>1, <3>1, <3>2
    <3>4. Leaves(c, y)
      BY <2>1, <2>3, <2>6, <3>1, <3>3 DEF Leaves
    <3>5. QED
      BY <1>1, <1>3, <2>3, <3>3, <3>4 DEF Flights, LastOf
  <2>7. QED
    BY <2>5, <2>6
<1>4. QED
  BY <1>2, <1>3

----------------------------------------------------------------------------
(* What the steps of calls, of the store and of the service are. *)

\* A section that has synchronised the epochs, and perhaps swept the cache.
Synced == /\ SyncEpochs /\ cancelled' = cancelled \union SyncCancels
          /\ cache' \in {SyncCache, Expire(SyncCache)}

\* A call that ends without having waited.
RefusedOrHit(c) == RetrieveShutdown(c) \/ \E k \in conf.requested : RetrieveRefused(c, k) \/ RetrieveHit(c, k)

LEMMA RefusedOrHitForm ==
  ASSUME Typed, NEW c \in Clients, RefusedOrHit(c)
  PROVE  /\ client[c].pc = "idle"
         /\ \E x \in ClientRecords : client' = [client EXCEPT ![c] = x] /\ x.pc = "idle"
         /\ UNCHANGED <<conf, now, flights, waiters, generation, stopping, shut, failed, stage, taken,
                        permits, job, store, panics, faults, evictions>>
         /\ \/ Synced /\ ~stopping /\ ~shut
            \/ UNCHANGED <<cache, svcEpoch, svcRec, cancelled>>
<1> USE DEF clock, state, tokens, ending, budget
<1>1. CASE RetrieveShutdown(c)
  <2>1. \E x \in ClientRecords : client' = [client EXCEPT ![c] = x] /\ x.pc = "idle"
    BY <1>1, AnswerForm DEF RetrieveShutdown
  <2>2. QED
    BY <1>1, <2>1 DEF RetrieveShutdown
<1>2. ASSUME NEW k \in conf.requested, RetrieveRefused(c, k)
      PROVE  /\ client[c].pc = "idle"
             /\ \E x \in ClientRecords : client' = [client EXCEPT ![c] = x] /\ x.pc = "idle"
             /\ UNCHANGED <<conf, now, flights, waiters, generation, stopping, shut, failed, stage, taken,
                            permits, job, store, panics, faults, evictions>>
             /\ Synced /\ ~stopping /\ ~shut
  <2>1. Answer(c, StorageError) \/ Answer(c, "busy")
    BY <1>2 DEF RetrieveRefused
  <2>2. \E x \in ClientRecords : client' = [client EXCEPT ![c] = x] /\ x.pc = "idle"
    BY <2>1, AnswerForm
  <2>3. cache' \in {SyncCache, Expire(SyncCache)}
    BY <1>2 DEF RetrieveRefused
  <2>4. QED
    BY <1>2, <2>2, <2>3 DEF RetrieveRefused, Admitting, Synced
<1>3. ASSUME NEW k \in conf.requested, RetrieveHit(c, k)
      PROVE  /\ client[c].pc = "idle"
             /\ \E x \in ClientRecords : client' = [client EXCEPT ![c] = x] /\ x.pc = "idle"
             /\ UNCHANGED <<conf, now, flights, waiters, generation, stopping, shut, failed, stage, taken,
                            permits, job, store, panics, faults, evictions>>
             /\ Synced /\ ~stopping /\ ~shut
  <2>1. \E x \in ClientRecords : client' = [client EXCEPT ![c] = x] /\ x.pc = "idle"
    BY <1>3, AnswerForm DEF RetrieveHit
  <2>2. QED
    BY <1>3, <2>1 DEF RetrieveHit, Admitting, Synced
<1>4. QED
  BY <1>1, <1>2, <1>3 DEF RefusedOrHit

LEMMA JoinForm ==
  ASSUME Typed, NEW c \in Clients, NEW k \in Keys, NEW stale \in BOOLEAN, RetrieveJoin(c, k, stale)
  PROVE  /\ client[c].pc = "idle" /\ ~stopping /\ ~shut /\ Synced /\ StorageError = "none"
         /\ flights[k].gen \in Generations /\ flights[k].gen \notin cancelled'
         /\ UNCHANGED <<conf, now, generation, stopping, shut, failed, stage, taken, permits, job, store,
                        panics, faults, evictions>>
         /\ waiters' = waiters + 1
         /\ \E y \in [gen : 0..MaxGen, waiters : Int] :
              /\ flights' = [flights EXCEPT ![k] = y]
              /\ y.gen = flights[k].gen /\ y.waiters = flights[k].waiters + 1
         /\ \E x \in ClientRecords :
              /\ client' = [client EXCEPT ![c] = x] /\ x.pc = "waiting"
              /\ x.key = k /\ x.gen = flights[k].gen /\ x.rec = store.rec /\ x.got.tag = "none"
<1>1. /\ client[c].pc = "idle" /\ ~stopping /\ ~shut /\ Synced /\ StorageError = "none"
      /\ flights[k].gen # 0 /\ flights[k].gen \notin cancelled' /\ waiters' = waiters + 1
  BY DEF RetrieveJoin, Admitting, Synced
<1>2. UNCHANGED <<conf, now, generation, stopping, shut, failed, stage, taken, permits, job, store,
                  panics, faults, evictions>>
  BY DEF RetrieveJoin, clock, ending, budget
<1>3. flights[k].gen \in Generations
  BY <1>1, FlightFields
<1>4. PICK n \in Int : n = flights[k].waiters + 1
  BY FlightFields
<1>5. PICK y : y = [flights[k] EXCEPT !.waiters = n]
  OBVIOUS
<1>6. y \in [gen : 0..MaxGen, waiters : Int] /\ y.gen = flights[k].gen /\ y.waiters = n
  BY <1>4, <1>5, FlightFields
<1>7. flights' = [flights EXCEPT ![k] = y]
  BY <1>4, <1>5, FlightFields DEF RetrieveJoin
<1>8. \E x \in ClientRecords :
              /\ client' = [client EXCEPT ![c] = x] /\ x.pc = "waiting"
              /\ x.key = k /\ x.gen = flights[k].gen /\ x.rec = store.rec /\ x.got.tag = "none"
  BY <1>3, WaitForm DEF RetrieveJoin
<1>9. QED
  BY <1>1, <1>2, <1>3, <1>4, <1>6, <1>7, <1>8

\* Admission that spawns a job, and admission that reaps a panic.
Spawns(c, k) ==
  /\ UNCHANGED <<stopping, shut, failed>> /\ waiters' = waiters + 1
  /\ \A h \in Generations : job[h].pc # "panicked"
  /\ permits' = IF Persistent THEN permits ELSE permits - 1
  /\ \E j \in JobRecords :
       /\ job' = [job EXCEPT ![generation + 1] = j]
       /\ j.pc = (IF Persistent THEN "start" ELSE "fetch") /\ j.key = k
       /\ j.rec = 0 /\ j.lep = 0 /\ j.obs = 0 /\ j.value = NoEntry /\ j.res = NoOutcome /\ j.evict = {}
       /\ j.late = FALSE
  /\ \E x \in ClientRecords :
       /\ client' = [client EXCEPT ![c] = x] /\ x.pc = "waiting"
       /\ x.key = k /\ x.gen = generation + 1 /\ x.rec = store.rec /\ x.got.tag = "none"

Reaps(c) ==
  /\ failed' = TRUE /\ shut' = TRUE /\ stopping' = TRUE /\ UNCHANGED <<waiters, permits>>
  /\ \E h \in Generations : /\ job[h].pc = "panicked"
                            /\ \E j \in JobRecords : /\ job' = [job EXCEPT ![h] = j]
                                                     /\ j.pc = "done" /\ j.key = job[h].key
                                                     /\ j.rec = job[h].rec /\ j.lep = job[h].lep
                                                     /\ j.obs = job[h].obs /\ j.value = job[h].value
                                                     /\ j.res = job[h].res /\ j.late = job[h].late
  /\ \E x \in ClientRecords : client' = [client EXCEPT ![c] = x] /\ x.pc = "idle"

LEMMA StartForm ==
  ASSUME Typed, NEW c \in Clients, NEW k \in Keys, NEW stale \in BOOLEAN, RetrieveStart(c, k, stale)
  PROVE  /\ client[c].pc = "idle" /\ ~stopping /\ ~shut /\ Synced /\ StorageError = "none"
         /\ flights[k].gen = 0 /\ generation + 1 \in Generations /\ generation' = generation + 1
         /\ flights' = [flights EXCEPT ![k] = [gen |-> generation + 1, waiters |-> 1]]
         /\ UNCHANGED <<conf, now, stage, taken, store, panics, faults, evictions>>
         /\ Spawns(c, k) \/ Reaps(c)
<1>1. /\ client[c].pc = "idle" /\ ~stopping /\ ~shut /\ Synced /\ StorageError = "none"
      /\ flights[k].gen = 0 /\ generation < MaxGen /\ generation' = generation + 1
      /\ flights' = [flights EXCEPT ![k] = [gen |-> generation + 1, waiters |-> 1]]
  BY DEF RetrieveStart, Admitting, Synced
<1>2. UNCHANGED <<conf, now, stage, taken, store, panics, faults, evictions>>
  BY DEF RetrieveStart, clock, ending, budget
<1>3. generation + 1 \in Generations
  BY <1>1, ServiceAssumption DEF Typed, CountsTyped, Generations
<1>4. CASE /\ \A h \in Generations : job[h].pc # "panicked"
           /\ permits' = IF Persistent THEN permits ELSE permits - 1
           /\ job' = [job EXCEPT ![generation + 1] =
                        [NoJob EXCEPT !.pc = IF Persistent THEN "start" ELSE "fetch", !.key = k]]
           /\ waiters' = waiters + 1
           /\ Wait(c, k, generation + 1, stale)
           /\ UNCHANGED <<stopping, shut, failed>>
  <2>1. PICK p \in {"start", "fetch"} : p = IF Persistent THEN "start" ELSE "fetch"
    OBVIOUS
  <2>2. NoJob \in JobRecords
    BY ConfTypes, RestingTypes DEF Typed, SetsTyped
  <2>3. PICK j : j = [NoJob EXCEPT !.pc = p, !.key = k]
    OBVIOUS
  <2>4. j \in JobRecords
    BY <2>2, <2>3 DEF JobRecords, JobPCs
  <2>5. j.pc = p /\ j.key = k /\ j.rec = 0 /\ j.lep = 0 /\ j.obs = 0 /\ j.value = NoEntry /\ j.res = NoOutcome /\ j.evict = {}
    BY <2>3 DEF NoJob
  <2>6. j.late = FALSE
    BY <2>3 DEF NoJob
  <2>7. job' = [job EXCEPT ![generation + 1] = j]
    BY <1>4, <2>1, <2>3
  <2>8. \E x \in ClientRecords :
       /\ client' = [client EXCEPT ![c] = x] /\ x.pc = "waiting"
       /\ x.key = k /\ x.gen = generation + 1 /\ x.rec = store.rec /\ x.got.tag = "none"
    BY <1>3, <1>4, WaitForm
  <2>9. Spawns(c, k)
    BY <1>4, <2>1, <2>4, <2>5, <2>6, <2>7, <2>8 DEF Spawns
  <2>10. QED
    BY <1>1, <1>2, <1>3, <2>9
<1>5. CASE \E h \in Generations :
             /\ job[h].pc = "panicked"
             /\ job' = [job EXCEPT ![h].pc = "done"]
             /\ failed' = TRUE /\ shut' = TRUE /\ stopping' = TRUE
             /\ Answer(c, "internal")
             /\ UNCHANGED <<waiters, permits>>
  <2>1. PICK h \in Generations :
             /\ job[h].pc = "panicked"
             /\ job' = [job EXCEPT ![h].pc = "done"]
             /\ failed' = TRUE /\ shut' = TRUE /\ stopping' = TRUE
             /\ Answer(c, "internal")
             /\ UNCHANGED <<waiters, permits>>
    BY <1>5
  <2>2. PICK j : j = [job[h] EXCEPT !.pc = "done"]
    OBVIOUS
  <2>3. /\ j \in JobRecords /\ j.pc = "done" /\ j.key = job[h].key
        /\ j.rec = job[h].rec /\ j.lep = job[h].lep
        /\ j.obs = job[h].obs /\ j.value = job[h].value
        /\ j.res = job[h].res /\ j.late = job[h].late
    BY <2>2, JobFields DEF JobRecords, JobPCs
  <2>4. job' = [job EXCEPT ![h] = j]
    BY <2>1, <2>2 DEF Typed
  <2>5. \E x \in ClientRecords : client' = [client EXCEPT ![c] = x] /\ x.pc = "idle"
    BY <2>1, AnswerForm
  <2>6. Reaps(c)
    BY <2>1, <2>3, <2>4, <2>5 DEF Reaps
  <2>7. QED
    BY <1>1, <1>2, <1>3, <2>6
<1>6. QED
  BY <1>4, <1>5 DEF RetrieveStart

\* A call that has waited and goes.
CallEnds(c) == ClientLeaves(c) \/ ClientStep(c)

\* What the drop of its waiter did, with or without a synchronised section before it.
DropsWaiter(c) ==
  \/ WaiterDrop(c, {}) /\ UNCHANGED <<svcEpoch, svcRec, cache>>
  \/ /\ WaiterDrop(c, SyncCancels) /\ SyncEpochs /\ cache' \in {SyncCache, Expire(SyncCache)}
     /\ ~shut

LEMMA CallEndsForm ==
  ASSUME Typed, NEW c \in Clients, CallEnds(c)
  PROVE  /\ client[c].pc = "waiting" /\ DropsWaiter(c)
         /\ \E x \in ClientRecords :
              /\ client' = [client EXCEPT ![c] = x] /\ x.pc = "idle"
              /\ x.res = "cancelled" =>
                   client[c].got.tag = "cancelled" /\ ~shut /\ StorageError = "none"
         /\ UNCHANGED <<conf, now, generation, stopping, shut, failed, stage, taken, permits, job, store,
                        panics, faults, evictions>>
<1> USE DEF clock, ending, budget
<1> DEFINE Ends == \E x \in ClientRecords :
              /\ client' = [client EXCEPT ![c] = x] /\ x.pc = "idle"
              /\ x.res = "cancelled" =>
                   client[c].got.tag = "cancelled" /\ ~shut /\ StorageError = "none"
           Rest == UNCHANGED <<conf, now, generation, stopping, shut, failed, stage, taken, permits, job,
                               store, panics, faults, evictions>>
<1>1. ASSUME ClientLeaves(c)
      PROVE  client[c].pc = "waiting" /\ DropsWaiter(c) /\ Ends /\ Rest
  <2>1. client[c].pc = "waiting" /\ DropsWaiter(c) /\ Rest
    BY <1>1 DEF ClientLeaves, DropsWaiter
  <2>2. Answer(c, "none") \/ Answer(c, "shutdown")
    BY <1>1 DEF ClientLeaves
  <2>3. Ends
    BY <2>2, AnswerForm
  <2>4. QED
    BY <2>1, <2>3
<1>2. ASSUME ClientAnswered(c)
      PROVE  client[c].pc = "waiting" /\ DropsWaiter(c) /\ Ends /\ Rest
  <2>1. client[c].pc = "waiting" /\ ~shut /\ client[c].got.tag # "none" /\ Rest
    BY <1>2 DEF ClientAnswered, Decided
  <2>2. DropsWaiter(c)
    <3>1. CASE StorageError = "none" /\ client[c].got.tag = "ok" /\ Persistent
      BY <1>2, <2>1, <3>1 DEF ClientAnswered, DropsWaiter
    <3>2. CASE ~(StorageError = "none" /\ client[c].got.tag = "ok" /\ Persistent)
      BY <1>2, <2>1, <3>2 DEF ClientAnswered, DropsWaiter
    <3>3. QED
      BY <3>1, <3>2
  <2>3. PICK tag : /\ Answer(c, tag)
                   /\ \/ tag \in {StorageError, "storage", "ok", "stale_only"} /\ (tag = StorageError => StorageError # "none")
                      \/ tag = client[c].got.tag /\ StorageError = "none"
    BY <1>2 DEF ClientAnswered
  <2>4. tag = "cancelled" => client[c].got.tag = "cancelled" /\ StorageError = "none"
    BY <2>3, StorageErrors
  <2>5. Ends
    BY <2>1, <2>3, <2>4, AnswerForm
  <2>6. QED
    BY <2>1, <2>2, <2>5
<1>3. ASSUME ClientFallback(c)
      PROVE  client[c].pc = "waiting" /\ DropsWaiter(c) /\ Ends /\ Rest
  <2>1. client[c].pc = "waiting" /\ ~shut /\ Rest
    BY <1>3 DEF ClientFallback, Decided
  <2>2. DropsWaiter(c)
    BY <1>3, <2>1 DEF ClientFallback, DropsWaiter
  <2>3. PICK tag \in {"ok", "stale", "upstream", "stale_only"} : Answer(c, tag)
    <3>1. CASE client[c].allowStale
      <4>1. Answer(c, IF IsFresh(cache'[client[c].key]) THEN "ok"
                      ELSE IF Usable(cache'[client[c].key]) THEN "stale" ELSE "upstream")
        BY <1>3, <3>1 DEF ClientFallback
      <4>2. QED
        BY <4>1
    <3>2. CASE ~client[c].allowStale
      BY <1>3, <3>2 DEF ClientFallback
    <3>3. QED
      BY <3>1, <3>2
  <2>4. Ends
    BY <2>3, AnswerForm
  <2>5. QED
    BY <2>1, <2>2, <2>4
<1>4. QED
  BY <1>1, <1>2, <1>3 DEF CallEnds, ClientStep

\* What the publication of a job tells the waiters of its flight.
TellsFlight(g, told) ==
  LET k == job[g].key
      r == job[g].res
      dead == shut \/ stopping \/ g \in cancelled \union SyncCancels
  IN
  /\ told \in Outcomes /\ (told.tag = "none" => r.tag = "none")
  /\ flights[k].gen = g /\ waiters' = waiters - flights[k].waiters
  /\ flights' = [flights EXCEPT ![k] = NoFlight] /\ client' = Tell({g}, told)
  /\ told.tag # "ok" => cache' = SyncCache
  /\ told.tag = "ok" => /\ told = r /\ ~dead /\ cache' \in CachePublish(Expire(SyncCache), k, told.value)
                        /\ Persistent => r.ep = store.epoch /\ StorageError = "none"
  /\ told.tag = "cancelled" => \/ ~dead /\ r.tag = "cancelled"
                               \/ dead /\ r.tag \notin {"storage", "corrupt"} /\ StorageError = "none"

LEMMA JobPublishForm ==
  ASSUME Typed, NEW g \in Generations, JobPublish(g)
  PROVE  /\ job[g].pc = "publish" /\ SyncEpochs /\ cancelled' = cancelled \union SyncCancels
         /\ permits' = IF Persistent THEN permits ELSE permits + 1
         /\ UNCHANGED <<conf, now, generation, stopping, shut, failed, stage, taken, store,
                        panics, faults, evictions>>
         /\ \E j \in JobRecords :
              /\ job' = [job EXCEPT ![g] = j] /\ j.pc = "done" /\ j.rec = 0 /\ j.lep = 0 /\ j.obs = 0
              /\ j.value = NoEntry /\ j.res = NoOutcome /\ j.late = FALSE
         /\ \/ cache' = SyncCache /\ flights[job[g].key].gen # g /\ UNCHANGED <<flights, waiters, client>>
            \/ \E told : TellsFlight(g, told)
<1>1. /\ job[g].pc = "publish" /\ SyncEpochs /\ cancelled' = cancelled \union SyncCancels
      /\ permits' = IF Persistent THEN permits ELSE permits + 1
      /\ UNCHANGED <<conf, now, generation, stopping, shut, failed, stage, taken, store,
                     panics, faults, evictions>>
      /\ job' = [job EXCEPT ![g] = [NoJob EXCEPT !.pc = "done"]]
  BY DEF JobPublish, clock, ending, budget
<1>2. NoJob \in JobRecords
  BY ConfTypes, RestingTypes DEF Typed, SetsTyped
<1>3. PICK j : j = [NoJob EXCEPT !.pc = "done"]
  OBVIOUS
<1>4. j \in JobRecords
  BY <1>2, <1>3 DEF JobRecords, JobPCs
<1>5. j.pc = "done" /\ j.rec = 0 /\ j.lep = 0 /\ j.obs = 0 /\ j.value = NoEntry /\ j.res = NoOutcome
  BY <1>3 DEF NoJob
<1>6. j.late = FALSE
  BY <1>3 DEF NoJob
<1>7. job' = [job EXCEPT ![g] = j]
  BY <1>1, <1>3
<1>8. CASE ~Answers(g)
  <2>1. cache' = SyncCache /\ flights[job[g].key].gen # g /\ UNCHANGED <<flights, waiters, client>>
    BY <1>8 DEF JobPublish, Answers
  <2>2. QED
    BY <1>1, <1>4, <1>5, <1>6, <1>7, <2>1
<1>9. CASE Answers(g)
  <2>1. flights[job[g].key].gen = g
    BY <1>9 DEF Answers
  <2>2. PICK dead \in BOOLEAN : dead <=> shut \/ stopping \/ g \in cancelled \union SyncCancels
    OBVIOUS
  <2>3. PICK fenced \in BOOLEAN : fenced <=> Persistent /\ job[g].res.tag = "ok" /\
                                       (job[g].res.ep # store.epoch \/ StorageError # "none")
    OBVIOUS
  <2>4. PICK told : told = IF dead
              THEN IF job[g].res.tag \in {"storage", "corrupt"} THEN job[g].res
                   ELSE Err(IF StorageError # "none" THEN StorageError ELSE "cancelled")
              ELSE IF fenced THEN Err("storage") ELSE job[g].res
    OBVIOUS
  <2>5. /\ cache' \in (IF told.tag = "ok" THEN CachePublish(Expire(SyncCache), job[g].key, told.value)
                       ELSE {SyncCache})
        /\ waiters' = waiters - flights[job[g].key].waiters
        /\ flights' = [flights EXCEPT ![job[g].key] = NoFlight]
        /\ client' = Tell({g}, told)
    BY <1>9, <2>1, <2>2, <2>3, <2>4 DEF JobPublish
  <2>6. job[g].res \in Outcomes
    BY JobFields
  <2>7. CASE dead /\ job[g].res.tag \notin {"storage", "corrupt"}
    <3>1. PICK e \in {"busy", "corrupt", "storage", "cancelled"} :
            e = (IF StorageError # "none" THEN StorageError ELSE "cancelled")
      BY StorageErrors
    <3>2. told = Err(e) /\ (e = "cancelled" => StorageError = "none")
      BY <2>4, <2>7, <3>1, StorageErrors
    <3>3. told \in Outcomes /\ told.tag = e
      BY <3>2, ErrTypes DEF Errors
    <3>4. TellsFlight(g, told)
      BY <2>1, <2>2, <2>5, <2>7, <3>2, <3>3 DEF TellsFlight
    <3>5. QED
      BY <1>1, <1>4, <1>5, <1>6, <1>7, <3>4
  <2>8. CASE dead /\ job[g].res.tag \in {"storage", "corrupt"}
    <3>1. told = job[g].res
      BY <2>4, <2>8
    <3>2. TellsFlight(g, told)
      BY <2>1, <2>2, <2>5, <2>6, <2>8, <3>1 DEF TellsFlight
    <3>3. QED
      BY <1>1, <1>4, <1>5, <1>6, <1>7, <3>2
  <2>9. CASE ~dead /\ fenced
    <3>1. told = Err("storage")
      BY <2>4, <2>9
    <3>2. told \in Outcomes /\ told.tag = "storage"
      BY <3>1, ErrTypes DEF Errors
    <3>3. TellsFlight(g, told)
      BY <2>1, <2>2, <2>5, <2>9, <3>2 DEF TellsFlight
    <3>4. QED
      BY <1>1, <1>4, <1>5, <1>6, <1>7, <3>3
  <2>10. CASE ~dead /\ ~fenced
    <3>1. told = job[g].res
      BY <2>4, <2>10
    <3>2. told.tag = "ok" /\ Persistent => job[g].res.ep = store.epoch /\ StorageError = "none"
      BY <2>3, <2>10, <3>1
    <3>3. TellsFlight(g, told)
      BY <2>1, <2>2, <2>5, <2>6, <2>10, <3>1, <3>2 DEF TellsFlight
    <3>4. QED
      BY <1>1, <1>4, <1>5, <1>6, <1>7, <3>3
  <2>11. QED
    BY <2>7, <2>8, <2>9, <2>10
<1>10. QED
  BY <1>8, <1>9

StoreMoves ==
  \/ StoreTrim \/ StoreTrimmed \/ StoreOpened \/ StoreFails \/ StoreRecovers
  \/ StoreTrimLost \/ StoreSettled \/ StoreRecorded

LEMMA StoreMovesFrame ==
  ASSUME StoreMoves
  PROVE  UNCHANGED <<conf, now, cache, flights, waiters, generation, stopping, svcEpoch, svcRec, shut,
                     cancelled, failed, stage, taken, permits, job, client, panics>>
  BY DEF StoreMoves, StoreTrim, StoreTrimmed, StoreOpened, StoreFails, StoreRecovers,
         StoreTrimLost, StoreSettled, StoreRecorded, clock, state, tokens, ending, budget

LEMMA StoreTrimForm ==
  ASSUME Typed, StoreTrim
  PROVE  /\ store' \in StoreRecords /\ Persistent /\ store.st = "ready" /\ RowFree /\ MaintainFree
         /\ store'.st = "maintaining" /\ store'.epoch = store.epoch + 1 /\ store'.rec = store.rec
         /\ store'.next = store.next /\ store'.head = store.head /\ store'.rev = store.rev
         /\ store'.gone = store.gone
         /\ store'.lost = store.lost /\ store'.owed = store.owed /\ store'.trim # {}
<1>1. /\ Persistent /\ store.st = "ready" /\ RowFree /\ MaintainFree /\ store \in StoreRecords
  BY DEF StoreTrim, Typed
<1>2. PICK k \in Keys : store' = [Barrier(store) EXCEPT !.trim = {k}]
  BY DEF StoreTrim
<1>3. PICK s \in StoreRecords : s = Barrier(store)
  BY <1>1, BarrierFields
<1>4. /\ s.st = "maintaining" /\ s.epoch = store.epoch + 1 /\ s.rec = store.rec /\ s.next = store.next
      /\ s.head = store.head /\ s.rev = store.rev /\ s.trim = store.trim /\ s.gone = store.gone
      /\ s.lost = store.lost /\ s.owed = store.owed
  BY <1>1, <1>3, BarrierFields
<1>5. PICK t \in SUBSET Keys : t = {k}
  OBVIOUS
<1>6. PICK x : x = [s EXCEPT !.trim = t]
  OBVIOUS
<1>7. /\ x \in StoreRecords /\ x.st = s.st /\ x.epoch = s.epoch /\ x.rec = s.rec /\ x.next = s.next
      /\ x.head = s.head /\ x.rev = s.rev /\ x.trim = t /\ x.gone = s.gone
      /\ x.lost = s.lost /\ x.owed = s.owed
  BY <1>6 DEF StoreRecords
<1>8. QED
  BY <1>1, <1>2, <1>3, <1>4, <1>5, <1>6, <1>7

LEMMA StoreTrimmedForm ==
  ASSUME Typed, StoreTrimmed
  PROVE  /\ store' \in StoreRecords /\ store.trim # {}
         /\ store'.st = store.st /\ store'.epoch = store.epoch /\ store'.rec = store.rec
         /\ store'.next = store.next /\ store'.trim = {} /\ store'.gone = store.trim
         /\ store'.lost = store.lost /\ store'.owed = store.owed
         /\ \A k \in Keys : store'.head[k] = IF k \in store.trim THEN NoEntry ELSE store.head[k]
         /\ \A k \in Keys : store'.rev[k] = IF k \in store.trim THEN 0 ELSE store.rev[k]
<1>1. /\ store \in StoreRecords /\ store.trim \in SUBSET Keys /\ MaxClock \in Nat
      /\ store.trim # {}
  BY ConfTypes, StoreFields DEF StoreTrimmed, Typed, SetsTyped
<1>2. PICK s \in StoreRecords : s = Evict(store, store.trim)
  BY <1>1, EvictFields
<1>3. /\ s.st = store.st /\ s.epoch = store.epoch /\ s.rec = store.rec /\ s.next = store.next
      /\ s.lost = store.lost /\ s.owed = store.owed
      /\ \A k \in Keys : s.head[k] = IF k \in store.trim THEN NoEntry ELSE store.head[k]
      /\ \A k \in Keys : s.rev[k] = IF k \in store.trim THEN 0 ELSE store.rev[k]
  BY <1>1, <1>2, EvictFields
<1>4. PICK t \in SUBSET Keys : t = store.trim
  BY <1>1
<1>5. PICK x : x = [s EXCEPT !.trim = {}, !.gone = t]
  OBVIOUS
<1>6. /\ x \in StoreRecords /\ x.st = s.st /\ x.epoch = s.epoch /\ x.rec = s.rec /\ x.next = s.next
      /\ x.head = s.head /\ x.rev = s.rev /\ x.trim = {} /\ x.gone = t
      /\ x.lost = s.lost /\ x.owed = s.owed
  BY <1>5 DEF StoreRecords
<1>7. store' = x
  BY <1>2, <1>4, <1>5 DEF StoreTrimmed
<1>8. QED
  BY <1>1, <1>3, <1>4, <1>6, <1>7

LEMMA StoreOpenedForm ==
  ASSUME Typed, StoreOpened
  PROVE  /\ store' \in StoreRecords /\ store.gone # {}
         /\ store'.st = (IF store.st = "maintaining" THEN "ready" ELSE store.st)
         /\ store'.epoch = store.epoch + 1 /\ store'.rec = store.rec /\ store'.next = store.next
         /\ store'.head = store.head /\ store'.rev = store.rev /\ store'.trim = store.trim
         /\ store'.gone = {} /\ store'.lost = store.lost /\ store'.owed = store.owed
<1>1. /\ store \in StoreRecords /\ store.gone # {}
  BY DEF StoreOpened, Typed
<1>2. PICK s \in StoreRecords : s = Unbarrier(store)
  BY <1>1, UnbarrierFields
<1>3. /\ s.st = (IF store.st = "maintaining" THEN "ready" ELSE store.st)
      /\ s.epoch = store.epoch + 1 /\ s.rec = store.rec /\ s.next = store.next
      /\ s.head = store.head /\ s.rev = store.rev /\ s.trim = store.trim
      /\ s.lost = store.lost /\ s.owed = store.owed
  BY <1>1, <1>2, UnbarrierFields
<1>4. PICK x : x = [s EXCEPT !.gone = {}]
  OBVIOUS
<1>5. /\ x \in StoreRecords /\ x.st = s.st /\ x.epoch = s.epoch /\ x.rec = s.rec /\ x.next = s.next
      /\ x.head = s.head /\ x.rev = s.rev /\ x.trim = s.trim /\ x.gone = {}
      /\ x.lost = s.lost /\ x.owed = s.owed
  BY <1>4 DEF StoreRecords
<1>6. store' = x
  BY <1>2, <1>4 DEF StoreOpened
<1>7. QED
  BY <1>1, <1>3, <1>5, <1>6

LEMMA StoreTrimLostForm ==
  ASSUME Typed, StoreTrimLost
  PROVE  /\ store' \in StoreRecords /\ store.trim \union store.gone # {}
         /\ store'.epoch = store.epoch + 1 /\ store'.rec = store.rec /\ store'.next = store.next
         /\ store'.st \in {"uncertain", store.st} \/ (store'.st = "ready" /\ store.st = "maintaining")
         /\ store.st = "uncertain" => store'.st = "uncertain"
         /\ store'.head = store.head /\ store'.rev = store.rev /\ store'.trim = {} /\ store'.gone = {}
         /\ store'.lost = store.trim /\ store'.owed = store.gone
<1>1. PICK E \in SUBSET Keys : E = store.trim \union store.gone
  BY StoreFields
<1>2. store \in StoreRecords /\ E # {} /\ store.trim \in SUBSET Keys /\ store.gone \in SUBSET Keys
  BY <1>1, StoreFields DEF StoreTrimLost, Typed
<1>3. PICK s \in Unwound(E) :
        store' = [s EXCEPT !.trim = {}, !.gone = {}, !.lost = store.trim, !.owed = store.gone]
  BY <1>1 DEF StoreTrimLost
<1>4. /\ s \in StoreRecords /\ s.epoch = store.epoch + 1
      /\ s.st \in {"uncertain", store.st} \/ (s.st = "ready" /\ store.st = "maintaining")
      /\ store.st = "uncertain" => s.st = "uncertain"
      /\ s.rec = store.rec /\ s.next = store.next /\ s.head = store.head /\ s.rev = store.rev
  BY <1>2, UnwoundFields
<1>5. PICK a \in SUBSET Keys, b \in SUBSET Keys : a = store.trim /\ b = store.gone
  BY <1>2
<1>6. PICK x : x = [s EXCEPT !.trim = {}, !.gone = {}, !.lost = a, !.owed = b]
  OBVIOUS
<1>7. /\ x \in StoreRecords /\ x.st = s.st /\ x.epoch = s.epoch /\ x.rec = s.rec /\ x.next = s.next
      /\ x.head = s.head /\ x.rev = s.rev /\ x.trim = {} /\ x.gone = {} /\ x.lost = a /\ x.owed = b
  BY <1>4, <1>6 DEF StoreRecords
<1>8. store' = x
  BY <1>3, <1>5, <1>6
<1>9. QED
  BY <1>1, <1>2, <1>4, <1>5, <1>7, <1>8

LEMMA StoreSettledForm ==
  ASSUME Typed, StoreSettled
  PROVE  /\ store' \in StoreRecords /\ store.lost # {}
         /\ store'.st = store.st /\ store'.epoch = store.epoch /\ store'.rec = store.rec
         /\ store'.next = store.next /\ store'.trim = store.trim /\ store'.gone = store.gone
         /\ store'.lost = {} /\ store'.owed = store.lost
         /\ \A k \in Keys : store'.head[k] = store.head[k] \/ (k \in store.lost /\ store'.head[k] = NoEntry)
<1>1. /\ store \in StoreRecords /\ store.lost \in SUBSET Keys /\ MaxClock \in Nat /\ store.lost # {}
  BY ConfTypes, StoreFields DEF StoreSettled, Typed, SetsTyped
<1>2. PICK s \in {store, Evict(store, store.lost)} :
        store' = [s EXCEPT !.lost = {}, !.owed = store.lost]
  BY DEF StoreSettled
<1>3. /\ s \in StoreRecords /\ s.st = store.st /\ s.epoch = store.epoch /\ s.rec = store.rec
      /\ s.next = store.next /\ s.trim = store.trim /\ s.gone = store.gone
      /\ \A k \in Keys : s.head[k] = store.head[k] \/ (k \in store.lost /\ s.head[k] = NoEntry)
  <2>1. CASE s = store
    BY <1>1, <2>1
  <2>2. CASE s = Evict(store, store.lost)
    BY <1>1, <2>2, EvictFields
  <2>3. QED
    BY <1>2, <2>1, <2>2
<1>4. PICK a \in SUBSET Keys : a = store.lost
  BY <1>1
<1>5. PICK x : x = [s EXCEPT !.lost = {}, !.owed = a]
  OBVIOUS
<1>6. /\ x \in StoreRecords /\ x.st = s.st /\ x.epoch = s.epoch /\ x.rec = s.rec /\ x.next = s.next
      /\ x.head = s.head /\ x.rev = s.rev /\ x.trim = s.trim /\ x.gone = s.gone /\ x.lost = {} /\ x.owed = a
  BY <1>3, <1>5 DEF StoreRecords
<1>7. store' = x
  BY <1>2, <1>4, <1>5
<1>8. QED
  BY <1>1, <1>3, <1>4, <1>6, <1>7

LEMMA StoreRecordedForm ==
  ASSUME Typed, StoreRecorded
  PROVE  /\ store' \in StoreRecords /\ store.owed # {}
         /\ store.st \in {"closed", "blocked"} =>
              store'.st = store.st /\ store'.epoch = store.epoch /\ store'.rec = store.rec
         /\ store.st \notin {"closed", "blocked"} =>
              /\ store'.st \in {"recovering", "blocked", "uncertain"}
              /\ store'.epoch = store.epoch + 1 /\ store'.rec = store.rec + 1
              /\ store.st = "uncertain" => store'.st = "uncertain"
         /\ store'.next = store.next /\ store'.head = store.head /\ store'.rev = store.rev
         /\ store'.trim = store.trim /\ store'.gone = store.gone
         /\ store'.lost = store.lost /\ store'.owed = {}
<1>1. store \in StoreRecords /\ store.owed # {}
  BY DEF StoreRecorded, Typed
<1>2. PICK s \in StoreRecords : s = Recorded(store, "recovering")
  BY <1>1, RecordedFields
<1>3. /\ store.st \in {"closed", "blocked"} =>
           s.st = store.st /\ s.epoch = store.epoch /\ s.rec = store.rec
      /\ store.st \notin {"closed", "blocked"} =>
           /\ s.st \in {"recovering", "blocked", "uncertain"}
           /\ s.epoch = store.epoch + 1 /\ s.rec = store.rec + 1
           /\ store.st = "uncertain" => s.st = "uncertain"
      /\ s.next = store.next /\ s.head = store.head /\ s.rev = store.rev
      /\ s.trim = store.trim /\ s.gone = store.gone /\ s.lost = store.lost
  BY <1>1, <1>2, RecordedFields
<1>4. PICK x : x = [s EXCEPT !.owed = {}]
  OBVIOUS
<1>5. /\ x \in StoreRecords /\ x.st = s.st /\ x.epoch = s.epoch /\ x.rec = s.rec /\ x.next = s.next
      /\ x.head = s.head /\ x.rev = s.rev /\ x.trim = s.trim /\ x.gone = s.gone /\ x.lost = s.lost
      /\ x.owed = {}
  BY <1>4 DEF StoreRecords
<1>6. store' = x
  BY <1>2, <1>4 DEF StoreRecorded
<1>7. QED
  BY <1>1, <1>3, <1>5, <1>6

LEMMA StoreFailsForm ==
  ASSUME Typed, StoreFails
  PROVE  /\ store' \in StoreRecords /\ Persistent /\ store.st # "uncertain"
         /\ store'.st \in {"recovering", "blocked", "uncertain"}
         /\ store'.epoch = store.epoch + 1 /\ store'.rec = store.rec + 1 /\ store'.next = store.next
         /\ store'.head = store.head /\ store'.rev = store.rev /\ store'.trim = store.trim
         /\ store'.gone = store.gone
         /\ store'.lost = store.lost /\ store'.owed = store.owed
<1>1. store \in StoreRecords /\ Persistent /\ store.st \notin {"closed", "blocked", "uncertain"}
      /\ store' = Recorded(store, "recovering")
  BY DEF StoreFails, Typed
<1>2. QED
  BY <1>1, RecordedFields

LEMMA StoreRecoversForm ==
  ASSUME Typed, StoreRecovers
  PROVE  /\ store' \in StoreRecords /\ store.st = "recovering" /\ RowFree /\ MaintainFree
         /\ store'.st = "ready" /\ store'.epoch = store.epoch + 1 /\ store'.rec = store.rec
         /\ store'.next = store.next /\ store'.head = store.head /\ store'.rev = store.rev
         /\ store'.trim = store.trim /\ store'.gone = store.gone
         /\ store'.lost = store.lost /\ store'.owed = store.owed
<1>1. store \in StoreRecords /\ store.st = "recovering" /\ RowFree /\ MaintainFree
  BY DEF StoreRecovers, Typed
<1>2. PICK ep \in Nat : ep = store.epoch + 1
  BY StoreFields
<1>3. PICK x : x = [store EXCEPT !.st = "ready", !.epoch = ep]
  OBVIOUS
<1>4. /\ x \in StoreRecords /\ x.st = "ready" /\ x.epoch = ep /\ x.rec = store.rec
      /\ x.next = store.next /\ x.head = store.head /\ x.rev = store.rev /\ x.trim = store.trim
      /\ x.gone = store.gone
      /\ x.lost = store.lost /\ x.owed = store.owed
  BY <1>1, <1>3 DEF StoreRecords, StoreStates
<1>5. store' = x
  BY <1>1, <1>2, <1>3 DEF StoreRecovers, StoreRecords
<1>6. QED
  BY <1>1, <1>2, <1>4, <1>5

LEMMA ShutdownCloseForm ==
  ASSUME Typed, ShutdownClose
  PROVE  /\ store' \in StoreRecords /\ stage = "close" /\ stage' = "join"
         /\ UNCHANGED <<conf, now, cache, flights, waiters, generation, stopping, svcEpoch, svcRec, shut,
                        cancelled, failed, taken, permits, job, client, panics, faults, evictions>>
         /\ \/ store' = store
            \/ /\ Persistent /\ store'.st \in {"uncertain", "closed"} /\ store'.epoch = store.epoch + 1
               /\ store.st = "uncertain" => store'.st = "uncertain"
               /\ store'.rec = store.rec /\ store'.next = store.next /\ store'.head = store.head
               /\ store'.rev = store.rev /\ store'.trim = store.trim /\ store'.gone = store.gone
               /\ store'.lost = store.lost /\ store'.owed = store.owed
<1>1. /\ stage = "close" /\ stage' = "join" /\ store \in StoreRecords
      /\ UNCHANGED <<conf, now, cache, flights, waiters, generation, stopping, svcEpoch, svcRec, shut,
                     cancelled, failed, taken, permits, job, client, panics, faults, evictions>>
  BY DEF ShutdownClose, Typed, clock, state, tokens, budget
<1>2. CASE ~Persistent
  BY <1>1, <1>2 DEF ShutdownClose
<1>3. CASE Persistent
  <2>1. PICK ep \in Nat : ep = store.epoch + 1
    BY StoreFields
  <2>2. PICK st \in {"uncertain", "closed"} : st = IF store.st = "uncertain" THEN store.st ELSE "closed"
    OBVIOUS
  <2>3. PICK x : x = [store EXCEPT !.st = st, !.epoch = ep]
    OBVIOUS
  <2>4. /\ x \in StoreRecords /\ x.st = st /\ x.epoch = ep /\ x.rec = store.rec
        /\ x.next = store.next /\ x.head = store.head /\ x.rev = store.rev /\ x.trim = store.trim
        /\ x.gone = store.gone
        /\ x.lost = store.lost /\ x.owed = store.owed
    BY <1>1, <2>3 DEF StoreRecords, StoreStates
  <2>5. store' = x
    BY <1>1, <1>3, <2>1, <2>2, <2>3 DEF ShutdownClose, StoreRecords
  <2>6. QED
    BY <1>1, <1>3, <2>1, <2>2, <2>4, <2>5
<1>4. QED
  BY <1>2, <1>3

\* The two periodic tasks: jobs that had panicked are reaped, nothing else of a job changes.
Ticks == MaintenanceTick \/ HealthTick

Reaped(j, x) == /\ x.key = j.key /\ x.rec = j.rec /\ x.lep = j.lep /\ x.obs = j.obs /\ x.value = j.value
                /\ x.res = j.res /\ x.late = j.late /\ x.evict = j.evict
                /\ j.pc = "panicked" /\ x.pc = "done"

LEMMA TicksForm ==
  ASSUME Typed, Ticks
  PROVE  /\ ~shut /\ Synced /\ shut' \in BOOLEAN /\ failed' \in BOOLEAN
         /\ UNCHANGED <<conf, now, flights, waiters, generation, stopping, stage, taken, permits, client,
                        store, panics, faults, evictions>>
         /\ job' \in [Generations -> JobRecords]
         /\ \A g \in Generations : job'[g] = job[g] \/ (Reaped(job[g], job'[g]) /\ shut')
<1>1. CASE MaintenanceTick
  <2>1. /\ ~shut /\ Synced
        /\ UNCHANGED <<conf, now, flights, waiters, generation, stopping, stage, taken, permits, client,
                       store, panics, faults, evictions>>
    BY <1>1 DEF MaintenanceTick, Synced, clock, ending, budget
  <2>2. shut' = (Panicked # {}) /\ failed' \in BOOLEAN
    BY <1>1 DEF MaintenanceTick, Fatal, Typed, FlagsTyped
  <2>3. ASSUME NEW g \in Generations, job[g].pc = "panicked"
        PROVE  /\ [job[g] EXCEPT !.pc = "done"] \in JobRecords
               /\ Reaped(job[g], [job[g] EXCEPT !.pc = "done"])
    <3>1. PICK x : x = [job[g] EXCEPT !.pc = "done"]
      OBVIOUS
    <3>2. /\ x \in JobRecords /\ x.pc = "done" /\ x.key = job[g].key /\ x.rec = job[g].rec
          /\ x.lep = job[g].lep /\ x.obs = job[g].obs /\ x.value = job[g].value /\ x.res = job[g].res
          /\ x.late = job[g].late /\ x.evict = job[g].evict
      BY <3>1, JobFields DEF JobRecords, JobPCs
    <3>3. QED
      BY <2>3, <3>1, <3>2 DEF Reaped
  <2>4. \A g \in Generations : g \in Panicked <=> job[g].pc = "panicked"
    BY DEF Panicked
  <2>5. job' = [g \in Generations |-> IF g \in Panicked THEN [job[g] EXCEPT !.pc = "done"] ELSE job[g]]
    BY <1>1 DEF MaintenanceTick
  <2>6. \A g \in Generations : job'[g] \in JobRecords /\ (job'[g] = job[g] \/ (Reaped(job[g], job'[g]) /\ Panicked # {}))
    BY <2>3, <2>4, <2>5, JobFields
  <2>7. job' \in [Generations -> JobRecords]
    BY <2>5, <2>6
  <2>8. QED
    BY <2>1, <2>2, <2>6, <2>7
<1>2. CASE HealthTick
  <2>1. /\ ~shut /\ Synced /\ UNCHANGED job
        /\ UNCHANGED <<conf, now, flights, waiters, generation, stopping, stage, taken, permits, client,
                       store, panics, faults, evictions>>
    BY <1>2 DEF HealthTick, Synced, clock, ending, budget
  <2>2. shut' \in BOOLEAN /\ failed' \in BOOLEAN
    BY <1>2 DEF HealthTick, Fatal, Typed, FlagsTyped
  <2>3. QED
    BY <2>1, <2>2 DEF Typed
<1>3. QED
  BY <1>1, <1>2 DEF Ticks

LEMMA ShutdownBeginForm ==
  ASSUME Typed, ShutdownBegin
  PROVE  /\ stage = "running" /\ stage' = "take" /\ stopping' = TRUE /\ shut' = TRUE
         /\ flights' = [k \in Keys |-> NoFlight] /\ waiters' = 0 /\ cache' = Empty
         /\ UNCHANGED <<conf, now, generation, svcEpoch, svcRec, failed, taken, permits, job, store,
                        panics, faults, evictions>>
         /\ \E live \in SUBSET Generations :
              /\ live = {flights[k].gen : k \in Keys} \ {0} /\ cancelled' = cancelled \union live
              /\ client' = Tell(live, Err("shutdown"))
         /\ Err("shutdown") \in Outcomes /\ Err("shutdown").tag = "shutdown"
<1>1. /\ stage = "running" /\ stage' = "take" /\ stopping' = TRUE /\ shut' = TRUE
      /\ flights' = [k \in Keys |-> NoFlight] /\ waiters' = 0 /\ cache' = Empty
      /\ UNCHANGED <<conf, now, generation, svcEpoch, svcRec, failed, taken, permits, job, store,
                     panics, faults, evictions>>
  BY DEF ShutdownBegin, clock, budget
<1>2. PICK live : live = {flights[k].gen : k \in Keys} \ {0}
  OBVIOUS
<1>3. live \in SUBSET Generations
  BY <1>2, FlightFields
<1>4. cancelled' = cancelled \union live /\ client' = Tell(live, Err("shutdown"))
  BY <1>2 DEF ShutdownBegin
<1>5. Err("shutdown") \in Outcomes /\ Err("shutdown").tag = "shutdown"
  BY ErrTypes DEF Errors
<1>6. QED
  BY <1>1, <1>2, <1>3, <1>4, <1>5

HoldsPermit(p) == p = "fetch" \/ (~Persistent /\ p = "publish")

\* How a step of a job from one place to another moves the provider's permits.
PermitMoves(p, q) ==
  \/ (HoldsPermit(p) <=> HoldsPermit(q)) /\ permits' = permits
  \/ HoldsPermit(p) /\ ~HoldsPermit(q) /\ permits' = permits + 1
  \/ ~HoldsPermit(p) /\ HoldsPermit(q) /\ permits' = permits - 1

\* What every step of a job has in common.
Works(g, x) ==
  /\ Trans(g, x) /\ job[g].pc \in Running \ {"publish"} /\ x.pc \in Live
  /\ x.pc = "publish" => x.res.tag # "none"
  /\ ~Persistent => x.pc \in MemoryPCs
  /\ PermitMoves(job[g].pc, x.pc)

LEMMA PersistentJob ==
  ASSUME Typed, NEW g \in Generations, job[g].pc \notin MemoryPCs
  PROVE  Persistent
  BY DEF Typed, MemoryJobs

LEMMA FinishWorks ==
  ASSUME Typed, NEW g \in Generations, NEW x, NEW r, Trans(g, x), Finishes(g, x, r),
         job[g].pc \in Running \ {"publish"}, Persistent,
         permits' = IF job[g].pc = "fetch" THEN permits + 1 ELSE permits
  PROVE  Works(g, x)
  BY DEF Works, Finishes, PermitMoves, HoldsPermit, Live, Running, JobPCs

LEMMA WorkForm1 ==
  ASSUME Typed, NEW g \in Generations,
         MemoryRefresh(g) \/ JobStart(g) \/ JobLookup(g) \/ JobUnusable(g) \/ JobAccept(g)
         \/ JobRows(g) \/ JobSettle(g) \/ JobPanic(g) \/ JobDeadline(g)
  PROVE  store' \in StoreRecords /\ \E x : Works(g, x)
<1> USE DEF Live, Running, JobPCs, MemoryPCs
<1>0. store \in StoreRecords
  BY DEF Typed
<1>1. CASE MemoryRefresh(g)
  BY <1>0, <1>1, MemoryRefreshForm DEF Works, PermitMoves, HoldsPermit
<1>2. CASE JobStart(g)
  <2>1. job[g].pc = "start" /\ Persistent /\ permits' = permits /\ store' = store
    BY <1>2, JobStartForm, PersistentJob
  <2>2. PICK x : Trans(g, x) /\ (Finishes(g, x, Err("cancelled")) \/ x.pc = "lookup")
    BY <1>2, JobStartForm
  <2>3. Works(g, x)
    BY <2>1, <2>2, FinishWorks DEF Works, PermitMoves, HoldsPermit
  <2>4. QED
    BY <1>0, <2>1, <2>3
<1>3. CASE JobLookup(g)
  <2>1. job[g].pc \in {"lookup", "relook"} /\ Persistent /\ permits' = permits /\ store' = store
    BY <1>3, JobLookupForm, PersistentJob
  <2>2. PICK x : Trans(g, x) /\ ((\E e : Finishes(g, x, Err(e))) \/ x.pc = "rows")
    BY <1>3, JobLookupForm
  <2>3. Works(g, x)
    BY <2>1, <2>2, FinishWorks DEF Works, PermitMoves, HoldsPermit
  <2>4. QED
    BY <1>0, <2>1, <2>3
<1>4. CASE JobUnusable(g)
  <2>1. job[g].pc = "found" /\ Persistent /\ permits' = permits /\ store' = store
    BY <1>4, JobUnusableForm, PersistentJob
  <2>2. PICK x : Trans(g, x) /\ (Finishes(g, x, Err("cancelled")) \/ x.pc = "admit")
    BY <1>4, JobUnusableForm
  <2>3. Works(g, x)
    BY <2>1, <2>2, FinishWorks DEF Works, PermitMoves, HoldsPermit
  <2>4. QED
    BY <1>0, <2>1, <2>3
<1>5. CASE JobAccept(g)
  <2>1. job[g].pc = "accept" /\ Persistent /\ permits' = permits /\ store' = store
    BY <1>5, JobAcceptForm, PersistentJob
  <2>2. PICK x : Trans(g, x) /\ x.pc = "settle"
    BY <1>5, JobAcceptForm
  <2>3. Works(g, x)
    BY <2>1, <2>2 DEF Works, PermitMoves, HoldsPermit
  <2>4. QED
    BY <1>0, <2>1, <2>3
<1>6. CASE JobRows(g)
  <2>1. job[g].pc = "rows" /\ Persistent /\ permits' = permits /\ store' = store
    BY <1>6, JobRowsForm, PersistentJob
  <2>2. PICK x : Trans(g, x) /\ (Finishes(g, x, Err("busy")) \/ x.pc \in {"admit", "settle", "found"})
    BY <1>6, JobRowsForm
  <2>3. Works(g, x)
    BY <2>1, <2>2, FinishWorks DEF Works, PermitMoves, HoldsPermit
  <2>4. QED
    BY <1>0, <2>1, <2>3
<1>7. CASE JobSettle(g)
  <2>1. job[g].pc = "settle" /\ Persistent /\ permits' = permits /\ store' = store
    BY <1>7, JobSettleForm, PersistentJob
  <2>2. PICK x : Trans(g, x) /\ \E r : Finishes(g, x, r)
    BY <1>7, JobSettleForm
  <2>3. Works(g, x)
    BY <2>1, <2>2, FinishWorks
  <2>4. QED
    BY <1>0, <2>1, <2>3
<1>8. CASE JobPanic(g)
  <2>1. job[g].pc = "fetch" /\ permits' = permits + 1 /\ store' = store
    BY <1>8, JobPanicForm DEF JobPanic
  <2>2. PICK x : Trans(g, x) /\ x.pc = "panicked"
    BY <1>8, JobPanicForm
  <2>3. Works(g, x)
    BY <2>1, <2>2 DEF Works, PermitMoves, HoldsPermit
  <2>4. QED
    BY <1>0, <2>1, <2>3
<1>9. CASE JobDeadline(g)
  <2>1. Persistent /\ job[g].pc \in Running \ {"publish"} /\ permits' = permits /\ store' = store
    BY <1>9, JobDeadlineForm
  <2>2. PICK x : Trans(g, x) /\ x.pc = job[g].pc
    BY <1>9, JobDeadlineForm
  <2>3. Works(g, x)
    BY <2>1, <2>2 DEF Works, PermitMoves, HoldsPermit
  <2>4. QED
    BY <1>0, <2>1, <2>3
<1>10. QED
  BY <1>1, <1>2, <1>3, <1>4, <1>5, <1>6, <1>7, <1>8, <1>9

LEMMA WorkForm2 ==
  ASSUME Typed, NEW g \in Generations,
         JobAdmit(g) \/ JobRefresh(g) \/ JobBegin(g) \/ JobAuthorize(g) \/ JobCommit(g) \/ JobDrop(g)
         \/ JobStorageFault(g) \/ JobCommitLost(g) \/ JobSettled(g) \/ JobRecord(g)
  PROVE  store' \in StoreRecords /\ \E x : Works(g, x)
<1> USE DEF Live, Running, JobPCs, MemoryPCs
<1>0. store \in StoreRecords
  BY DEF Typed
<1>a. Barrier(store) \in StoreRecords /\ Unbarrier(store) \in StoreRecords
  BY <1>0, BarrierFields, UnbarrierFields
<1>1. CASE JobAdmit(g)
  <2>1. job[g].pc = "admit" /\ Persistent /\ store' = store
    BY <1>1, JobAdmitForm, PersistentJob
  <2>2. PICK x : Trans(g, x) /\ \/ (\E e : Finishes(g, x, Err(e))) /\ permits' = permits
                                \/ x.pc = "fetch" /\ permits' = permits - 1
    BY <1>1, JobAdmitForm
  <2>3. Works(g, x)
    BY <2>1, <2>2, FinishWorks DEF Works, PermitMoves, HoldsPermit
  <2>4. QED
    BY <1>0, <2>1, <2>3
<1>2. CASE JobRefresh(g)
  <2>1. job[g].pc = "fetch" /\ Persistent /\ store' = store /\ permits' = permits + 1
    BY <1>2, JobRefreshForm
  <2>2. PICK x : Trans(g, x) /\ ((\E e : Finishes(g, x, Err(e))) \/ x.pc = "begin")
    BY <1>2, JobRefreshForm
  <2>3. Works(g, x)
    BY <2>1, <2>2, FinishWorks DEF Works, PermitMoves, HoldsPermit
  <2>4. QED
    BY <1>0, <2>1, <2>3
<1>3. CASE JobBegin(g)
  <2>1. job[g].pc = "begin" /\ Persistent /\ permits' = permits
    BY <1>3, JobBeginForm, PersistentJob
  <2>2. PICK x : /\ Trans(g, x) /\ ((\E e : Finishes(g, x, Err(e))) \/ x.pc \in {"relook", "authorize"})
                 /\ store' = store \/ store' = Barrier(store)
    BY <1>3, JobBeginForm
  <2>3. Works(g, x)
    BY <2>1, <2>2, FinishWorks DEF Works, PermitMoves, HoldsPermit
  <2>4. QED
    BY <1>0, <1>a, <2>2, <2>3
<1>4. CASE JobAuthorize(g)
  <2>1. job[g].pc = "authorize" /\ Persistent /\ permits' = permits
    BY <1>4, JobAuthorizeForm, PersistentJob
  <2>2. PICK x : /\ Trans(g, x) /\ ((\E e : Finishes(g, x, Err(e))) \/ x.pc = "commit")
                 /\ store' = store \/ store' = Unbarrier(store)
    BY <1>4, JobAuthorizeForm
  <2>3. Works(g, x)
    BY <2>1, <2>2, FinishWorks DEF Works, PermitMoves, HoldsPermit
  <2>4. QED
    BY <1>0, <1>a, <2>2, <2>3
<1>5. CASE JobCommit(g)
  <2>1. job[g].pc = "commit" /\ Persistent /\ permits' = permits /\ store' = Committed(g)
    BY <1>5, JobCommitForm, PersistentJob
  <2>2. PICK x : Trans(g, x) /\ x.pc = "drop"
    BY <1>5, JobCommitForm
  <2>3. Works(g, x)
    BY <2>1, <2>2 DEF Works, PermitMoves, HoldsPermit
  <2>4. QED
    BY <2>1, <2>3, CommittedFields
<1>6. CASE JobDrop(g)
  <2>1. /\ job[g].pc = "drop" /\ Persistent /\ permits' = permits
        /\ store' = store \/ store' = Unbarrier(store)
    BY <1>6, JobDropForm, PersistentJob DEF JobDrop
  <2>2. PICK x : Trans(g, x) /\ x.pc = "accept"
    BY <1>6, JobDropForm
  <2>3. Works(g, x)
    BY <2>1, <2>2 DEF Works, PermitMoves, HoldsPermit
  <2>4. QED
    BY <1>0, <1>a, <2>1, <2>3
<1>7. CASE JobStorageFault(g)
  <2>1. job[g].pc = "rows" /\ Persistent /\ permits' = permits
    BY <1>7, JobStorageFaultForm, PersistentJob
  <2>2. PICK x : Trans(g, x) /\ \E e : Finishes(g, x, Err(e))
    BY <1>7, JobStorageFaultForm
  <2>3. Works(g, x)
    BY <2>1, <2>2, FinishWorks
  <2>4. PICK to \in {"recovering", "blocked", "uncertain"} : store' = Recorded(store, to)
    BY <1>7, JobStorageFaultForm
  <2>5. QED
    BY <1>0, <2>3, <2>4, RecordedFields
<1>8. CASE JobCommitLost(g)
  <2>1. job[g].pc \in {"commit", "drop"} /\ Persistent /\ permits' = permits
    BY <1>8, JobCommitLostForm, PersistentJob
  <2>2. PICK x : /\ Stays(g, x)
                 /\ job[g].pc = "commit" => x.pc = "unsettled"
                 /\ job[g].pc = "drop" => x.pc = "record"
    BY <1>8, JobCommitLostForm
  <2>3. Works(g, x)
    BY <2>1, <2>2 DEF Stays, Works, PermitMoves, HoldsPermit
  <2>4. store' \in Unwound(job[g].evict) /\ job[g].evict \in SUBSET Keys
    BY <1>8, JobCommitLostForm, JobFields
  <2>5. QED
    BY <1>0, <2>3, <2>4, UnwoundFields
<1>9. CASE JobSettled(g)
  <2>1. job[g].pc = "unsettled" /\ Persistent /\ permits' = permits
    BY <1>9, JobSettledForm, PersistentJob
  <2>2. PICK x : Trans(g, x) /\ x.pc = "record"
    BY <1>9, JobSettledForm DEF Stays
  <2>3. Works(g, x)
    BY <2>1, <2>2 DEF Works, PermitMoves, HoldsPermit
  <2>4. QED
    BY <1>0, <1>9, <2>3, JobSettledForm, CommittedFields
<1>10. CASE JobRecord(g)
  <2>1. job[g].pc = "record" /\ Persistent /\ permits' = permits
    BY <1>10, JobRecordForm, PersistentJob
  <2>2. PICK x : Trans(g, x) /\ Finishes(g, x, Err("storage"))
    BY <1>10, JobRecordForm
  <2>3. Works(g, x)
    BY <2>1, <2>2, FinishWorks
  <2>4. store' = Recorded(store, "recovering")
    BY <1>10, JobRecordForm
  <2>5. QED
    BY <1>0, <2>3, <2>4, RecordedFields
<1>11. QED
  BY <1>1, <1>2, <1>3, <1>4, <1>5, <1>6, <1>7, <1>8, <1>9, <1>10

LEMMA WorkForm ==
  ASSUME Typed, NEW g \in Generations, WorkStep(g)
  PROVE  store' \in StoreRecords /\ \E x : Works(g, x)
  BY WorkForm1, WorkForm2 DEF WorkStep

LEMMA PromoteWorks ==
  ASSUME Typed, NEW g \in Generations, JobPromote(g)
  PROVE  \E x : Works(g, x)
<1> USE DEF Live, Running, JobPCs, MemoryPCs
<1>1. job[g].pc = "found" /\ Persistent /\ permits' = permits
  BY JobPromoteForm, PersistentJob
<1>2. PICK x : Trans(g, x) /\ ((\E r : Finishes(g, x, r)) \/ x.pc = "admit")
  BY JobPromoteForm
<1>3. Works(g, x)
  BY <1>1, <1>2, FinishWorks DEF Works, PermitMoves, HoldsPermit
<1>4. QED
  BY <1>3

----------------------------------------------------------------------------
(* Every step keeps the types. *)

\* What is typed of the next state, piece by piece.
LEMMA TypedAgain ==
  ASSUME Typed, conf' = conf, now' \in 0..MaxClock, waiters' \in Int, generation' \in 0..MaxGen,
         svcEpoch' \in Nat, svcRec' \in Nat, permits' \in Int,
         panics' \in Nat, faults' \in Nat, evictions' \in Nat,
         stopping' \in BOOLEAN, shut' \in BOOLEAN, failed' \in BOOLEAN,
         cancelled' \subseteq Generations, taken' \subseteq Generations, stage' \in Stages,
         cache' \in Caches, flights' \in Flights, job' \in [Generations -> JobRecords],
         client' \in [Clients -> ClientRecords], store' \in StoreRecords,
         WaitsForFlight', MemoryJobs'
  PROVE  Typed'
<1>1. CountsTyped'
  BY ConfSets DEF CountsTyped
<1>2. FlagsTyped'
  BY DEF FlagsTyped
<1>3. SetsTyped'
  BY DEF SetsTyped, Typed
<1>4. QED
  BY <1>1, <1>2, <1>3, ConfSets DEF Typed, Flights

LEMMA SyncedTypes ==
  ASSUME Typed, Synced
  PROVE  /\ svcEpoch' \in Nat /\ svcRec' \in Nat /\ cancelled' \subseteq Generations /\ cache' \in Caches
  BY SyncTypes DEF Synced, SyncEpochs, Typed, SetsTyped

LEMMA CountTypes ==
  ASSUME Typed
  PROVE  /\ now \in 0..MaxClock /\ waiters \in Int /\ generation \in 0..MaxGen
         /\ svcEpoch \in Nat /\ svcRec \in Nat /\ permits \in Int
         /\ panics \in Nat /\ faults \in Nat /\ evictions \in Nat
         /\ stopping \in BOOLEAN /\ shut \in BOOLEAN /\ failed \in BOOLEAN
         /\ cancelled \subseteq Generations /\ taken \subseteq Generations /\ stage \in Stages
         /\ cache \in Caches /\ flights \in Flights /\ job \in [Generations -> JobRecords]
         /\ client \in [Clients -> ClientRecords] /\ store \in StoreRecords
         /\ WaitsForFlight /\ MemoryJobs /\ conf \in Configurations
  BY DEF Typed, CountsTyped, FlagsTyped, SetsTyped

LEMMA OneCallTypes ==
  ASSUME Typed, NEW c \in Clients, NEW x \in ClientRecords, client' = [client EXCEPT ![c] = x],
         x.pc = "waiting" => x.gen # 0
  PROVE  client' \in [Clients -> ClientRecords] /\ WaitsForFlight'
  BY DEF Typed, WaitsForFlight

LEMMA SameJobs ==
  ASSUME Typed, conf' = conf, job' = job
  PROVE  MemoryJobs'
  BY ConfSets, CountTypes DEF MemoryJobs

LEMMA OneJobTypes ==
  ASSUME Typed, conf' = conf, NEW g \in Generations, NEW x \in JobRecords, job' = [job EXCEPT ![g] = x],
         ~Persistent => x.pc \in MemoryPCs
  PROVE  job' \in [Generations -> JobRecords] /\ MemoryJobs'
  BY ConfSets DEF Typed, MemoryJobs

LEMMA RefusedOrHitTyped ==
  ASSUME Typed, NEW c \in Clients, RefusedOrHit(c)
  PROVE  Typed'
<1>1. /\ UNCHANGED <<conf, now, flights, waiters, generation, stopping, shut, failed, stage, taken,
                     permits, job, store, panics, faults, evictions>>
      /\ Synced \/ UNCHANGED <<cache, svcEpoch, svcRec, cancelled>>
  BY RefusedOrHitForm
<1>2. client' \in [Clients -> ClientRecords] /\ WaitsForFlight'
  BY RefusedOrHitForm, OneCallTypes
<1>3. svcEpoch' \in Nat /\ svcRec' \in Nat /\ cancelled' \subseteq Generations /\ cache' \in Caches
  BY <1>1, SyncedTypes, CountTypes
<1>4. QED
  BY <1>1, <1>2, <1>3, CountTypes, SameJobs, TypedAgain

LEMMA JoinTyped ==
  ASSUME Typed, NEW c \in Clients, NEW k \in Keys, NEW stale \in BOOLEAN, RetrieveJoin(c, k, stale)
  PROVE  Typed'
<1>1. /\ UNCHANGED <<conf, now, generation, stopping, shut, failed, stage, taken, permits, job, store,
                     panics, faults, evictions>>
      /\ Synced /\ waiters' = waiters + 1 /\ flights[k].gen \in Generations
  BY JoinForm
<1>2. client' \in [Clients -> ClientRecords] /\ WaitsForFlight'
  BY JoinForm, OneCallTypes, FlightFields, ServiceAssumption DEF Generations
<1>3. svcEpoch' \in Nat /\ svcRec' \in Nat /\ cancelled' \subseteq Generations /\ cache' \in Caches
  BY <1>1, SyncedTypes
<1>4. flights' \in Flights
  BY JoinForm, CountTypes DEF Flights
<1>5. waiters' \in Int
  BY <1>1, CountTypes
<1>6. QED
  BY <1>1, <1>2, <1>3, <1>4, <1>5, CountTypes, SameJobs, TypedAgain

LEMMA StartTyped ==
  ASSUME Typed, NEW c \in Clients, NEW k \in Keys, NEW stale \in BOOLEAN, RetrieveStart(c, k, stale)
  PROVE  Typed'
<1>1. /\ UNCHANGED <<conf, now, stage, taken, store, panics, faults, evictions>>
      /\ Synced /\ flights[k].gen = 0 /\ generation + 1 \in Generations /\ generation' = generation + 1
      /\ flights' = [flights EXCEPT ![k] = [gen |-> generation + 1, waiters |-> 1]]
      /\ Spawns(c, k) \/ Reaps(c)
  BY StartForm
<1>2. generation' \in 0..MaxGen /\ generation + 1 # 0
  BY <1>1, CountTypes, ServiceAssumption DEF Generations
<1>3. svcEpoch' \in Nat /\ svcRec' \in Nat /\ cancelled' \subseteq Generations /\ cache' \in Caches
  BY <1>1, SyncedTypes
<1>4. PICK y \in [gen : 0..MaxGen, waiters : Int] : y = [gen |-> generation + 1, waiters |-> 1]
  <2>1. PICK n \in 0..MaxGen : n = generation + 1
    BY <1>1, <1>2
  <2>2. [gen |-> n, waiters |-> 1] \in [gen : 0..MaxGen, waiters : Int]
    OBVIOUS
  <2>3. QED
    BY <2>1, <2>2
<1>5. flights' \in Flights
  BY <1>1, <1>4, CountTypes DEF Flights
<1>6. CASE Spawns(c, k)
  <2>1. client' \in [Clients -> ClientRecords] /\ WaitsForFlight'
    BY <1>2, <1>6, OneCallTypes DEF Spawns
  <2>2. job' \in [Generations -> JobRecords] /\ MemoryJobs'
    BY <1>1, <1>6, OneJobTypes DEF Spawns, MemoryPCs
  <2>3. waiters' \in Int /\ permits' \in Int /\ UNCHANGED <<stopping, shut, failed>>
    BY <1>6, CountTypes DEF Spawns
  <2>4. QED
    BY <1>1, <1>2, <1>3, <1>5, <2>1, <2>2, <2>3, CountTypes, TypedAgain
<1>7. CASE Reaps(c)
  <2>1. client' \in [Clients -> ClientRecords] /\ WaitsForFlight'
    BY <1>7, OneCallTypes DEF Reaps
  <2>2. job' \in [Generations -> JobRecords] /\ MemoryJobs'
    BY <1>1, <1>7, OneJobTypes DEF Reaps, MemoryPCs
  <2>3. waiters' \in Int /\ permits' \in Int /\ stopping' = TRUE /\ shut' = TRUE /\ failed' = TRUE
    BY <1>7, CountTypes DEF Reaps
  <2>4. QED
    BY <1>1, <1>2, <1>3, <1>5, <2>1, <2>2, <2>3, CountTypes, TypedAgain
<1>8. QED
  BY <1>1, <1>6, <1>7

LEMMA CallEndsTyped ==
  ASSUME Typed, NEW c \in Clients, CallEnds(c)
  PROVE  Typed'
<1>1. /\ UNCHANGED <<conf, now, generation, stopping, shut, failed, stage, taken, permits, job, store,
                     panics, faults, evictions>>
      /\ client[c].pc = "waiting" /\ DropsWaiter(c)
  BY CallEndsForm
<1>2. client' \in [Clients -> ClientRecords] /\ WaitsForFlight'
  BY CallEndsForm, OneCallTypes
<1>3. SyncCancels \in SUBSET Generations
  BY SyncTypes
<1>4. flights' \in Flights /\ waiters' \in Int /\ cancelled' \subseteq Generations
  BY <1>1, <1>3, DropForm DEF DropsWaiter
<1>5. svcEpoch' \in Nat /\ svcRec' \in Nat /\ cache' \in Caches
  BY <1>1, SyncTypes, CountTypes DEF DropsWaiter, SyncEpochs
<1>6. QED
  BY <1>1, <1>2, <1>4, <1>5, CountTypes, SameJobs, TypedAgain

LEMMA WorkTyped ==
  ASSUME Typed, NEW g \in Generations, WorkStep(g)
  PROVE  Typed'
<1>1. /\ UNCHANGED <<conf, now, cache, flights, waiters, generation, stopping, svcEpoch, svcRec,
                     shut, failed, stage, taken, client>>
      /\ cancelled' = cancelled \/ cancelled' = cancelled \union {g}
  BY WorkFrame
<1>2. PICK x : Works(g, x)
  BY WorkForm
<1>3. job' \in [Generations -> JobRecords] /\ MemoryJobs'
  BY <1>1, <1>2, OneJobTypes DEF Works, Trans
<1>4. permits' \in Int
  BY <1>2, CountTypes DEF Works, PermitMoves
<1>5. store' \in StoreRecords
  BY WorkForm
<1>6. panics' \in Nat /\ faults' \in Nat /\ evictions' \in Nat
  <2>1. \A E \in SUBSET Keys : Cardinality(E) \in Nat
    BY ServiceAssumption, FS_Subset, FS_CardinalityType
  <2>2. CASE JobBegin(g)
    <3>1. panics' = panics /\ faults' = faults
          /\ (evictions' = evictions \/ \E E \in SUBSET Keys : evictions' = evictions + Cardinality(E))
      BY <2>2 DEF JobBegin
    <3>2. QED
      BY <2>1, <3>1, CountTypes
  <2>3. CASE JobDeadline(g) \/ JobPanic(g) \/ JobStorageFault(g) \/ JobCommitLost(g)
    BY <2>3, CountTypes DEF JobDeadline, JobPanic, JobStorageFault, JobCommitLost
  <2>4. CASE MemoryRefresh(g) \/ JobStart(g) \/ JobLookup(g) \/ JobRows(g) \/ JobUnusable(g)
    BY <2>4, CountTypes DEF MemoryRefresh, JobStart, JobLookup, JobRows, JobUnusable, budget
  <2>5. CASE JobAdmit(g) \/ JobRefresh(g) \/ JobAuthorize(g) \/ JobCommit(g)
    BY <2>5, CountTypes DEF JobAdmit, JobRefresh, JobAuthorize, JobCommit, budget
  <2>6. CASE JobDrop(g) \/ JobAccept(g) \/ JobSettle(g) \/ JobSettled(g) \/ JobRecord(g)
    BY <2>6, CountTypes DEF JobDrop, JobAccept, JobSettle, JobSettled, JobRecord, budget
  <2>7. QED
    BY <2>2, <2>3, <2>4, <2>5, <2>6 DEF WorkStep
<1>7. WaitsForFlight'
  BY <1>1, CountTypes DEF WaitsForFlight
<1>8. cancelled' \subseteq Generations
  BY <1>1, CountTypes
<1>9. QED
  BY <1>1, <1>3, <1>4, <1>5, <1>6, <1>7, <1>8, CountTypes, TypedAgain

LEMMA PromoteTyped ==
  ASSUME Typed, NEW g \in Generations, JobPromote(g)
  PROVE  Typed'
<1>1. /\ SyncEpochs /\ cancelled' = cancelled \union SyncCancels
      /\ UNCHANGED <<conf, now, flights, waiters, generation, stopping, shut, failed, stage, taken,
                     permits, client, store, panics, faults, evictions>>
      /\ cache' = SyncCache \/ cache' \in CachePublish(SyncCache, job[g].key, job[g].value)
  BY JobPromoteForm
<1>2. PICK x : Works(g, x)
  BY PromoteWorks
<1>3. job' \in [Generations -> JobRecords] /\ MemoryJobs'
  BY <1>1, <1>2, OneJobTypes DEF Works, Trans
<1>4. svcEpoch' \in Nat /\ svcRec' \in Nat /\ cancelled' \subseteq Generations /\ cache' \in Caches
  BY <1>1, SyncTypes, JobFields, CountTypes DEF SyncEpochs
<1>5. WaitsForFlight'
  BY <1>1, CountTypes DEF WaitsForFlight
<1>6. QED
  BY <1>1, <1>3, <1>4, <1>5, CountTypes, TypedAgain

LEMMA PublishTyped ==
  ASSUME Typed, NEW g \in Generations, JobPublish(g)
  PROVE  Typed'
<1>1. /\ SyncEpochs /\ cancelled' = cancelled \union SyncCancels
      /\ permits' = (IF Persistent THEN permits ELSE permits + 1)
      /\ UNCHANGED <<conf, now, generation, stopping, shut, failed, stage, taken, store,
                     panics, faults, evictions>>
  BY JobPublishForm
<1>2. job' \in [Generations -> JobRecords] /\ MemoryJobs'
  BY <1>1, JobPublishForm, OneJobTypes DEF MemoryPCs
<1>3. svcEpoch' \in Nat /\ svcRec' \in Nat /\ cancelled' \subseteq Generations
  BY <1>1, SyncTypes, CountTypes DEF SyncEpochs
<1>4. permits' \in Int /\ job[g].key \in Keys
  BY <1>1, CountTypes, JobFields
<1>5. CASE cache' = SyncCache /\ UNCHANGED <<flights, waiters, client>>
  <2>1. WaitsForFlight' /\ cache' \in Caches
    BY <1>5, CountTypes, SyncTypes DEF WaitsForFlight
  <2>2. QED
    BY <1>1, <1>2, <1>3, <1>4, <1>5, <2>1, CountTypes, TypedAgain
<1>6. ASSUME NEW told, TellsFlight(g, told)
      PROVE  Typed'
  <2>1. /\ told \in Outcomes /\ waiters' = waiters - flights[job[g].key].waiters
        /\ flights' = [flights EXCEPT ![job[g].key] = NoFlight] /\ client' = Tell({g}, told)
        /\ cache' = SyncCache \/ cache' \in CachePublish(Expire(SyncCache), job[g].key, told.value)
    BY <1>6 DEF TellsFlight
  <2>2. told.value \in Entries
    BY <2>1 DEF Outcomes
  <2>3. cache' \in Caches
    BY <1>4, <2>1, <2>2, SyncTypes
  <2>4. NoFlight \in [gen : 0..MaxGen, waiters : Int]
    BY ServiceAssumption DEF NoFlight
  <2>5. flights' \in Flights /\ waiters' \in Int
    BY <1>4, <2>1, <2>4, CountTypes, FlightFields DEF Flights
  <2>6. client' \in [Clients -> ClientRecords]
    BY <2>1, TellForm
  <2>7. WaitsForFlight'
    BY <2>1, TellForm, CountTypes DEF WaitsForFlight
  <2>8. QED
    BY <1>1, <1>2, <1>3, <1>4, <2>3, <2>5, <2>6, <2>7, CountTypes, TypedAgain
<1>7. QED
  BY <1>5, <1>6, JobPublishForm

LEMMA StoreMovesTyped ==
  ASSUME Typed, StoreMoves
  PROVE  Typed'
<1>1. UNCHANGED <<conf, now, cache, flights, waiters, generation, stopping, svcEpoch, svcRec, shut,
                  cancelled, failed, stage, taken, permits, job, client, panics>>
  BY StoreMovesFrame
<1>2. store' \in StoreRecords
  BY StoreTrimForm, StoreTrimmedForm, StoreOpenedForm, StoreFailsForm, StoreRecoversForm,
     StoreTrimLostForm, StoreSettledForm, StoreRecordedForm DEF StoreMoves
<1>3. faults' \in Nat /\ evictions' \in Nat
  <2>1. CASE StoreTrim \/ StoreTrimmed \/ StoreOpened \/ StoreFails \/ StoreRecovers
    BY <2>1, CountTypes DEF StoreTrim, StoreTrimmed, StoreOpened, StoreFails, StoreRecovers, budget
  <2>2. CASE StoreTrimLost
    BY <2>2, CountTypes DEF StoreTrimLost
  <2>3. CASE StoreSettled \/ StoreRecorded
    BY <2>3, CountTypes DEF StoreSettled, StoreRecorded, budget
  <2>4. QED
    BY <2>1, <2>2, <2>3 DEF StoreMoves
<1>4. WaitsForFlight'
  BY <1>1, CountTypes DEF WaitsForFlight
<1>5. QED
  BY <1>1, <1>2, <1>3, <1>4, CountTypes, SameJobs, TypedAgain

LEMMA TicksTyped ==
  ASSUME Typed, Ticks
  PROVE  Typed'
<1>1. /\ Synced /\ shut' \in BOOLEAN /\ failed' \in BOOLEAN
      /\ UNCHANGED <<conf, now, flights, waiters, generation, stopping, stage, taken, permits, client,
                     store, panics, faults, evictions>>
      /\ job' \in [Generations -> JobRecords]
      /\ \A g \in Generations : job'[g] = job[g] \/ Reaped(job[g], job'[g])
  BY TicksForm
<1>2. MemoryJobs'
  BY <1>1, CountTypes, ConfSets DEF MemoryJobs, Reaped, MemoryPCs
<1>3. WaitsForFlight'
  BY <1>1, CountTypes DEF WaitsForFlight
<1>4. svcEpoch' \in Nat /\ svcRec' \in Nat /\ cancelled' \subseteq Generations /\ cache' \in Caches
  BY <1>1, SyncedTypes
<1>5. QED
  BY <1>1, <1>2, <1>3, <1>4, CountTypes, TypedAgain

LEMMA ShutdownBeginTyped ==
  ASSUME Typed, ShutdownBegin
  PROVE  Typed'
<1>1. /\ stage' = "take" /\ stopping' = TRUE /\ shut' = TRUE
      /\ flights' = [k \in Keys |-> NoFlight] /\ waiters' = 0 /\ cache' = Empty
      /\ UNCHANGED <<conf, now, generation, svcEpoch, svcRec, failed, taken, permits, job, store,
                     panics, faults, evictions>>
      /\ Err("shutdown") \in Outcomes
  BY ShutdownBeginForm
<1>2. PICK live \in SUBSET Generations : cancelled' = cancelled \union live /\ client' = Tell(live, Err("shutdown"))
  BY ShutdownBeginForm
<1>3. client' \in [Clients -> ClientRecords]
  BY <1>1, <1>2, TellForm
<1>4. WaitsForFlight'
  BY <1>1, <1>2, TellForm, CountTypes DEF WaitsForFlight
<1>5. NoFlight \in [gen : 0..MaxGen, waiters : Int]
  BY ServiceAssumption DEF NoFlight
<1>6. flights' \in Flights /\ waiters' \in Int
  BY <1>1, <1>5 DEF Flights
<1>7. cache' \in Caches
  BY <1>1, ConfTypes, RestingTypes, CountTypes
<1>8. cancelled' \subseteq Generations
  BY <1>2, CountTypes
<1>9. stage' \in Stages
  BY <1>1 DEF Stages
<1>10. QED
  BY <1>1, <1>3, <1>4, <1>6, <1>7, <1>8, <1>9, CountTypes, SameJobs, TypedAgain

\* The rest of shutdown() and the clock.
Rests == ShutdownTake \/ ShutdownJoin \/ Tick

LEMMA RestsFrame ==
  ASSUME Rests
  PROVE  /\ UNCHANGED <<conf, cache, flights, waiters, generation, stopping, svcEpoch, svcRec, shut,
                        cancelled, permits, job, client, store, panics, faults, evictions>>
         /\ \/ /\ stage = "take" /\ stage' = "close" /\ now' = now /\ failed' = failed
               /\ taken' = {g \in Generations : job[g].pc \in Live}
            \/ /\ stage = "join" /\ stage' = "done" /\ now' = now /\ taken' = taken
               /\ \A g \in taken : job[g].pc \notin Running
            \/ now < MaxClock /\ now' = now + 1 /\ UNCHANGED <<stage, taken, failed>>
  BY DEF Rests, ShutdownTake, ShutdownJoin, Tick, clock, state, tokens, ending, budget, Live

LEMMA RestsTyped ==
  ASSUME Typed, Rests
  PROVE  Typed'
<1>1. UNCHANGED <<conf, cache, flights, waiters, generation, stopping, svcEpoch, svcRec, shut,
                  cancelled, permits, job, client, store, panics, faults, evictions>>
  BY RestsFrame
<1>2. now' \in 0..MaxClock
  BY RestsFrame, CountTypes, ConfTypes
<1>3. stage' \in Stages /\ taken' \subseteq Generations
  BY RestsFrame, CountTypes DEF Stages
<1>4. failed' \in BOOLEAN
  BY CountTypes DEF Rests, ShutdownTake, ShutdownJoin, Tick, tokens
<1>5. WaitsForFlight'
  BY <1>1, CountTypes DEF WaitsForFlight
<1>6. QED
  BY <1>1, <1>2, <1>3, <1>4, <1>5, CountTypes, SameJobs, TypedAgain

LEMMA CloseTyped ==
  ASSUME Typed, ShutdownClose
  PROVE  Typed'
<1>1. /\ store' \in StoreRecords /\ stage' \in Stages
      /\ UNCHANGED <<conf, now, cache, flights, waiters, generation, stopping, svcEpoch, svcRec, shut,
                     cancelled, failed, taken, permits, job, client, panics, faults, evictions>>
  BY ShutdownCloseForm DEF Stages
<1>2. WaitsForFlight'
  BY <1>1, CountTypes DEF WaitsForFlight
<1>3. QED
  BY <1>1, <1>2, CountTypes, SameJobs, TypedAgain

\* Every step is one of these.
LEMMA NextForms ==
  ASSUME Typed, Next
  PROVE  \/ \E c \in Clients : \/ RefusedOrHit(c) \/ CallEnds(c)
                               \/ \E k \in Keys, stale \in BOOLEAN :
                                    RetrieveJoin(c, k, stale) \/ RetrieveStart(c, k, stale)
         \/ \E g \in Generations : WorkStep(g) \/ JobPromote(g) \/ JobPublish(g)
         \/ StoreMoves \/ Ticks \/ ShutdownBegin \/ ShutdownClose \/ Rests
<1>1. conf.requested \subseteq Keys
  BY ConfTypes, CountTypes
<1>2. ASSUME NEW c \in Clients, Retrieve(c)
      PROVE  \/ RefusedOrHit(c)
             \/ \E k \in Keys, stale \in BOOLEAN : RetrieveJoin(c, k, stale) \/ RetrieveStart(c, k, stale)
  BY <1>1, <1>2 DEF Retrieve, RefusedOrHit
<1>3. ASSUME NEW g \in Generations,
             JobStep(g) \/ JobDeadline(g) \/ JobPanic(g) \/ JobStorageFault(g) \/ JobCommitLost(g)
      PROVE  WorkStep(g) \/ JobPromote(g) \/ JobPublish(g)
  BY <1>3 DEF JobStep, WorkStep
<1>4. QED
  BY <1>2, <1>3 DEF Next, CallEnds, StoreMoves, StoreMaintains, Ticks, Shutdown, Rests

LEMMA TypedStep ==
  ASSUME Typed, [Next]_vars
  PROVE  Typed'
<1>1. CASE Next
  <2>1. ASSUME NEW c \in Clients,
               \/ RefusedOrHit(c) \/ CallEnds(c)
               \/ \E k \in Keys, stale \in BOOLEAN : RetrieveJoin(c, k, stale) \/ RetrieveStart(c, k, stale)
        PROVE  Typed'
    BY <2>1, RefusedOrHitTyped, CallEndsTyped, JoinTyped, StartTyped
  <2>2. ASSUME NEW g \in Generations, WorkStep(g) \/ JobPromote(g) \/ JobPublish(g)
        PROVE  Typed'
    BY <2>2, WorkTyped, PromoteTyped, PublishTyped
  <2>3. CASE StoreMoves \/ Ticks \/ ShutdownBegin \/ ShutdownClose \/ Rests
    BY <2>3, StoreMovesTyped, TicksTyped, ShutdownBeginTyped, CloseTyped, RestsTyped
  <2>4. QED
    BY <1>1, <2>1, <2>2, <2>3, NextForms
<1>2. CASE UNCHANGED vars
  <2>1. UNCHANGED <<conf, now, cache, flights, waiters, generation, stopping, svcEpoch, svcRec,
                    shut, cancelled, failed, stage, taken, permits, job, client,
                    store, panics, faults, evictions>>
    BY <1>2 DEF vars
  <2>2. WaitsForFlight'
    BY <2>1, CountTypes DEF WaitsForFlight
  <2>3. QED
    BY <2>1, <2>2, CountTypes, SameJobs, TypedAgain
<1>3. QED
  BY <1>1, <1>2

LEMMA InitTyped ==
  ASSUME Init
  PROVE  Typed
<1>1. conf \in Configurations /\ MaxClock \in Nat /\ Permits \in Nat
  BY ConfTypes DEF Init
<1>2. /\ NoEntry \in Entries /\ Empty \in Caches /\ NoJob \in JobRecords /\ NoClient \in ClientRecords
      /\ NoStore \in StoreRecords /\ NoFlight \in [gen : 0..MaxGen, waiters : Nat]
  BY <1>1, RestingTypes
<1>3. CountsTyped
  BY <1>1, ServiceAssumption DEF Init, CountsTyped
<1>3a. FlagsTyped /\ SetsTyped
  BY <1>1 DEF Init, FlagsTyped, SetsTyped, Stages
<1>4. cache \in Caches /\ flights \in Flights /\ job \in [Generations -> JobRecords]
      /\ client \in [Clients -> ClientRecords] /\ store \in StoreRecords
  BY <1>2 DEF Init, Flights
<1>5. WaitsForFlight
  BY DEF Init, WaitsForFlight, NoClient
<1>6. MemoryJobs
  BY DEF Init, MemoryJobs, NoJob, MemoryPCs
<1>7. QED
  BY <1>3, <1>3a, <1>4, <1>5, <1>6 DEF Typed

----------------------------------------------------------------------------
(* Flights, waiters and owned jobs. *)

LEMMA PendingFinite ==
  /\ IsFiniteSet(PendingAll) /\ Cardinality(PendingAll) \in Nat
  /\ \A k \in Keys, g \in Generations :
       IsFiniteSet(Pending(k, g)) /\ Cardinality(Pending(k, g)) \in Nat
<1>1. PendingAll \subseteq Clients /\ \A k \in Keys, g \in Generations : Pending(k, g) \subseteq Clients
  BY DEF PendingAll, Pending
<1>2. QED
  BY <1>1, ServiceAssumption, FS_Subset, FS_CardinalityType

\* The calls that wait go on waiting as they do.
CallsKept ==
  \A c \in Clients : /\ client'[c].pc = "waiting" <=> client[c].pc = "waiting"
                     /\ client[c].pc = "waiting" => client'[c] = client[c]

\* Jobs go on, or have been reaped, and the service stops for it.
JobsKept ==
  \A g \in Generations :
    \/ job'[g] = job[g]
    \/ /\ job[g].pc \in Running \ {"publish"} /\ job'[g].pc \in Live /\ job'[g].key = job[g].key
       /\ job'[g].pc = "publish" => job'[g].res.tag # "none"
    \/ Reaped(job[g], job'[g]) /\ shut'

LEMMA KeptPending ==
  ASSUME CallsKept
  PROVE  /\ PendingAll' = PendingAll
         /\ \A k, g : Pending(k, g)' = Pending(k, g)
  BY DEF CallsKept, PendingAll, Pending

\* A step that leaves the flights as they are.
LEMMA FlightsKept ==
  ASSUME Typed, FlightInv, CallsKept, JobsKept, conf' = conf,
         UNCHANGED <<flights, waiters, generation, stopping>>,
         shut => shut', cancelled \subseteq cancelled', stage' # "running" => stage # "running", Drained'
  PROVE  FlightInv'
<1> USE DEF FlightInv
<1>1. Persistent' = Persistent
  BY ConfSets
<1>2. \A g \in Generations : /\ job[g].pc = "unused" => job'[g] = job[g]
                             /\ job'[g].pc # "unused" => job[g].pc # "unused"
                             /\ job'[g].pc \in Live => job[g].pc \in Live /\ job'[g].key = job[g].key
                             /\ job'[g].pc \in Running => job[g].pc \in Running /\ job'[g].key = job[g].key
                             /\ job[g].pc \in Live => job'[g].pc \in Live \/ shut'
  BY DEF JobsKept, Reaped, Live, Running, JobPCs
<1>3. GensFresh'
  BY <1>2 DEF GensFresh, CallsKept
<1>4. KeysMatch'
  BY <1>2 DEF KeysMatch
<1>5. ToldOnce' /\ WaitersRegistered'
  BY DEF ToldOnce, WaitersRegistered, CallsKept
<1>6. JobOwned'
  BY <1>1, <1>2, JobFields DEF JobOwned
<1>7. FlightOwned'
  BY <1>2, FlightFields DEF FlightOwned
<1>8. Counted'
  <2>1. \A k \in Keys : OrphanOf(k) /\ flights[k].gen # 0 => OrphanOf(k)'
    BY <1>2, KeptPending, FlightFields DEF OrphanOf
  <2>2. QED
    BY <2>1, KeptPending DEF Counted
<1>9. ResultReady'
  BY DEF ResultReady, JobsKept, Reaped, Live, Running
<1>10. StopOrder' /\ NoGhosts'
  BY DEF StopOrder, NoGhosts
<1>11. QED
  BY <1>3, <1>4, <1>5, <1>6, <1>7, <1>8, <1>9, <1>10

\* Nothing is left to drain that was not there.
LEMMA DrainedKept ==
  ASSUME Typed, FlightInv, JobsKept, stage' = stage, taken' = taken,
         stage # "running" => cache' = Empty /\ flights' = flights
  PROVE  Drained'
<1>1. \A g \in Generations : job'[g].pc \in Running => job[g].pc \in Running
  BY DEF JobsKept, Reaped, Live, Running, JobPCs
<1>2. QED
  BY <1>1 DEF FlightInv, Drained

LEMMA EmptySync ==
  ASSUME cache = Empty
  PROVE  SyncCache = Empty
  BY DEF SyncCache

LEMMA RefusedOrHitFlights ==
  ASSUME Typed, FlightInv, NEW c \in Clients, RefusedOrHit(c)
  PROVE  FlightInv'
<1>1. /\ client[c].pc = "idle"
      /\ UNCHANGED <<conf, now, flights, waiters, generation, stopping, shut, failed, stage, taken,
                     permits, job, store, panics, faults, evictions>>
      /\ (Synced /\ ~stopping) \/ UNCHANGED <<cache, svcEpoch, svcRec, cancelled>>
  BY RefusedOrHitForm
<1>2. CallsKept
  BY <1>1, RefusedOrHitForm, CountTypes DEF CallsKept
<1>3. JobsKept
  BY <1>1 DEF JobsKept
<1>4. cancelled \subseteq cancelled'
  BY <1>1 DEF Synced
<1>5. stage # "running" => cache' = Empty
  BY <1>1 DEF FlightInv, StopOrder, Drained
<1>6. QED
  BY <1>1, <1>2, <1>3, <1>4, <1>5, DrainedKept, FlightsKept

LEMMA WorkKept ==
  ASSUME Typed, NEW g \in Generations, NEW x, Works(g, x)
  PROVE  JobsKept
  BY CountTypes DEF JobsKept, Works, Trans

LEMMA WorkFlights ==
  ASSUME Typed, FlightInv, NEW g \in Generations, WorkStep(g)
  PROVE  FlightInv'
<1>1. /\ UNCHANGED <<conf, now, cache, flights, waiters, generation, stopping, svcEpoch, svcRec,
                     shut, failed, stage, taken, client>>
      /\ cancelled \subseteq cancelled'
  BY WorkFrame
<1>2. JobsKept
  BY WorkForm, WorkKept
<1>3. CallsKept
  BY <1>1 DEF CallsKept
<1>4. stage # "running" => cache' = Empty
  BY <1>1 DEF FlightInv, Drained
<1>5. QED
  BY <1>1, <1>2, <1>3, <1>4, DrainedKept, FlightsKept

LEMMA PromoteFlights ==
  ASSUME Typed, FlightInv, NEW g \in Generations, JobPromote(g)
  PROVE  FlightInv'
<1>1. /\ UNCHANGED <<conf, now, flights, waiters, generation, stopping, shut, failed, stage, taken, client>>
      /\ cancelled \subseteq cancelled'
      /\ stopping => cache' = SyncCache
  BY JobPromoteForm
<1>2. JobsKept
  BY PromoteWorks, WorkKept
<1>3. CallsKept
  BY <1>1 DEF CallsKept
<1>4. stage # "running" => cache' = Empty
  BY <1>1, EmptySync DEF FlightInv, Drained, StopOrder
<1>5. QED
  BY <1>1, <1>2, <1>3, <1>4, DrainedKept, FlightsKept

LEMMA StoreMovesFlights ==
  ASSUME Typed, FlightInv, StoreMoves
  PROVE  FlightInv'
<1>1. UNCHANGED <<conf, now, cache, flights, waiters, generation, stopping, svcEpoch, svcRec, shut,
                  cancelled, failed, stage, taken, permits, job, client, panics>>
  BY StoreMovesFrame
<1>2. JobsKept /\ CallsKept
  BY <1>1 DEF JobsKept, CallsKept
<1>3. stage # "running" => cache' = Empty
  BY <1>1 DEF FlightInv, Drained
<1>4. QED
  BY <1>1, <1>2, <1>3, DrainedKept, FlightsKept

LEMMA TicksFlights ==
  ASSUME Typed, FlightInv, Ticks
  PROVE  FlightInv'
<1>1. /\ ~shut /\ cancelled \subseteq cancelled'
      /\ UNCHANGED <<conf, now, flights, waiters, generation, stopping, stage, taken, permits, client,
                     store, panics, faults, evictions>>
      /\ \A g \in Generations : job'[g] = job[g] \/ (Reaped(job[g], job'[g]) /\ shut')
  BY TicksForm DEF Synced
<1>2. JobsKept /\ CallsKept
  BY <1>1 DEF JobsKept, CallsKept
<1>3. stage = "running"
  BY <1>1 DEF FlightInv, StopOrder
<1>4. QED
  BY <1>1, <1>2, <1>3, DrainedKept, FlightsKept

LEMMA CloseFlights ==
  ASSUME Typed, FlightInv, ShutdownClose
  PROVE  FlightInv'
<1>1. /\ stage = "close" /\ stage' = "join"
      /\ UNCHANGED <<conf, now, cache, flights, waiters, generation, stopping, svcEpoch, svcRec, shut,
                     cancelled, failed, taken, permits, job, client, panics, faults, evictions>>
  BY ShutdownCloseForm
<1>2. JobsKept /\ CallsKept
  BY <1>1 DEF JobsKept, CallsKept
<1>3. Drained'
  BY <1>1 DEF FlightInv, Drained
<1>4. QED
  BY <1>1, <1>2, <1>3, FlightsKept

LEMMA RestsFlights ==
  ASSUME Typed, FlightInv, Rests
  PROVE  FlightInv'
<1>1. UNCHANGED <<conf, cache, flights, waiters, generation, stopping, svcEpoch, svcRec, shut,
                  cancelled, permits, job, client, store, panics, faults, evictions>>
  BY RestsFrame
<1>2. JobsKept /\ CallsKept
  BY <1>1 DEF JobsKept, CallsKept
<1>3. Drained'
  BY <1>1, RestsFrame DEF FlightInv, Drained, Live
<1>4. stage' # "running" => stage # "running"
  BY RestsFrame
<1>5. QED
  BY <1>1, <1>2, <1>3, <1>4, FlightsKept

\* The counts of the next state, flight by flight.
LEMMA CountedAgain ==
  ASSUME waiters' = Cardinality(PendingAll'),
         \A l \in Keys : flights'[l].gen # 0 => flights'[l].gen \in Generations,
         \A l \in Keys, h \in Generations : flights'[l].gen = h =>
           flights'[l].waiters = Cardinality(Pending(l, h)') \/ OrphanOf(l)'
  PROVE  Counted'
<1>1. ASSUME NEW l \in Keys, flights'[l].gen # 0
      PROVE  (flights[l].waiters = Cardinality(Pending(l, flights[l].gen)) \/ OrphanOf(l))'
  <2>1. PICK h \in Generations : h = flights'[l].gen
    BY <1>1
  <2>2. Pending(l, h)' = Pending(l, flights[l].gen)'
    BY <2>1 DEF Pending
  <2>3. QED
    BY <2>1, <2>2
<1>2. QED
  BY <1>1 DEF Counted

LEMMA CountedFlight ==
  ASSUME Counted, NEW l \in Keys, NEW h \in Generations, flights[l].gen = h
  PROVE  flights[l].waiters = Cardinality(Pending(l, h)) \/ OrphanOf(l)
  BY ServiceAssumption DEF Counted, Generations

\* One more call waits, for flight g of key k.
LEMMA PendingJoins ==
  ASSUME Typed, NEW c \in Clients, client[c].pc = "idle", NEW x \in ClientRecords,
         client' = [client EXCEPT ![c] = x], x.pc = "waiting", x.got.tag = "none",
         NEW k \in Keys, NEW g \in Generations, x.key = k, x.gen = g
  PROVE  /\ Cardinality(PendingAll') = Cardinality(PendingAll) + 1
         /\ Cardinality(Pending(k, g)') = Cardinality(Pending(k, g)) + 1
         /\ \A l \in Keys, h \in Generations : l # k \/ h # g => Pending(l, h)' = Pending(l, h)
<1>1. \A d \in Clients : client'[d] = IF d = c THEN x ELSE client[d]
  BY CountTypes
<1>2. PendingAll' = PendingAll \union {c} /\ c \notin PendingAll
  BY <1>1 DEF PendingAll
<1>3. Pending(k, g)' = Pending(k, g) \union {c} /\ c \notin Pending(k, g)
  BY <1>1 DEF Pending
<1>4. \A l \in Keys, h \in Generations : l # k \/ h # g => Pending(l, h)' = Pending(l, h)
  BY <1>1 DEF Pending
<1>5. IsFiniteSet(PendingAll) /\ IsFiniteSet(Pending(k, g))
  BY PendingFinite
<1>6. Cardinality(PendingAll \union {c}) = Cardinality(PendingAll) + 1
  BY <1>2, <1>5, FS_AddElement
<1>7. Cardinality(Pending(k, g) \union {c}) = Cardinality(Pending(k, g)) + 1
  BY <1>3, <1>5, FS_AddElement
<1>8. QED
  BY <1>2, <1>3, <1>4, <1>6, <1>7

LEMMA JoinFlights ==
  ASSUME Typed, FlightInv, NEW c \in Clients, NEW k \in Keys, NEW stale \in BOOLEAN,
         RetrieveJoin(c, k, stale)
  PROVE  FlightInv'
<1> USE DEF FlightInv
<1>1. /\ client[c].pc = "idle" /\ ~stopping /\ ~shut /\ flights[k].gen \in Generations
      /\ UNCHANGED <<conf, now, generation, stopping, shut, failed, stage, taken, permits, job, store,
                     panics, faults, evictions>>
      /\ waiters' = waiters + 1 /\ cancelled \subseteq cancelled' /\ Persistent' = Persistent
  BY JoinForm, ConfSets DEF Synced
<1>2. PICK y \in [gen : 0..MaxGen, waiters : Int] :
              /\ flights' = [flights EXCEPT ![k] = y]
              /\ y.gen = flights[k].gen /\ y.waiters = flights[k].waiters + 1
  BY JoinForm
<1>3. PICK x \in ClientRecords :
              /\ client' = [client EXCEPT ![c] = x] /\ x.pc = "waiting"
              /\ x.key = k /\ x.gen = flights[k].gen /\ x.got.tag = "none"
  BY JoinForm
<1>4. \A d \in Clients : client'[d] = IF d = c THEN x ELSE client[d]
  BY <1>3, CountTypes
<1>5. \A l \in Keys : /\ flights'[l].gen = flights[l].gen
                      /\ l # k => flights'[l] = flights[l]
                      /\ l = k => flights'[l] = y
  BY <1>2, CountTypes DEF Flights
<1>6. stage = "running"
  BY <1>1 DEF StopOrder
<1>7. GensFresh'
  <2>1. flights[k].gen \in 1..generation
    BY <1>1, FlightFields, ServiceAssumption DEF GensFresh, Generations
  <2>2. QED
    BY <1>1, <1>3, <1>4, <1>5, <2>1 DEF GensFresh
<1>8. KeysMatch' /\ FlightOwned' /\ NoGhosts'
  BY <1>1, <1>2, <1>5, ServiceAssumption DEF KeysMatch, FlightOwned, NoGhosts, Generations
<1>9. ToldOnce'
  BY <1>3, <1>4, <1>5 DEF ToldOnce
<1>10. WaitersRegistered'
  BY <1>3, <1>4, <1>5, CallFields DEF WaitersRegistered
<1>11. JobOwned'
  BY <1>1, <1>5, JobFields DEF JobOwned
<1>12. Counted'
  <2>1. PICK n \in Generations : n = flights[k].gen
    BY <1>1
  <2>2. /\ Cardinality(PendingAll') = Cardinality(PendingAll) + 1
        /\ Cardinality(Pending(k, n)') = Cardinality(Pending(k, n)) + 1
        /\ \A l \in Keys, h \in Generations : l # k \/ h # n => Pending(l, h)' = Pending(l, h)
    <3>1. x.gen = n /\ x.key = k /\ x.pc = "waiting" /\ x.got.tag = "none" /\ client' = [client EXCEPT ![c] = x]
      BY <1>3, <2>1
    <3>2. client[c].pc = "idle"
      BY <1>1
    <3>3. QED
      BY <3>1, <3>2, PendingJoins, ZenonT(30)
  <2>3. waiters' = Cardinality(PendingAll')
    BY <1>1, <2>2 DEF Counted
  <2>4. \A l \in Keys : ~OrphanOf(l)
    BY <1>1 DEF OrphanOf
  <2>5. ASSUME NEW l \in Keys, NEW h \in Generations, flights'[l].gen = h
        PROVE  flights'[l].waiters = Cardinality(Pending(l, h)')
    <3>1. flights[l].waiters = Cardinality(Pending(l, h))
      BY <1>5, <2>4, <2>5, CountedFlight
    <3>2. CASE l = k
      BY <1>2, <1>5, <2>1, <2>2, <2>5, <3>1, <3>2
    <3>3. CASE l # k
      BY <1>5, <2>2, <3>1, <3>3
    <3>4. QED
      BY <3>2, <3>3
  <2>6. \A l \in Keys : flights'[l].gen # 0 => flights'[l].gen \in Generations
    BY <1>5, FlightFields
  <2>7. QED
    BY <2>3, <2>5, <2>6, CountedAgain
<1>13. ResultReady' /\ StopOrder' /\ Drained'
  BY <1>1, <1>6 DEF ResultReady, StopOrder, Drained
<1>14. QED
  BY <1>7, <1>8, <1>9, <1>10, <1>11, <1>12, <1>13

LEMMA StartFlights ==
  ASSUME Typed, FlightInv, NEW c \in Clients, NEW k \in Keys, NEW stale \in BOOLEAN,
         RetrieveStart(c, k, stale)
  PROVE  FlightInv'
<1> USE DEF FlightInv
<1>1. /\ client[c].pc = "idle" /\ ~stopping /\ ~shut /\ flights[k].gen = 0
      /\ generation + 1 \in Generations /\ generation' = generation + 1
      /\ UNCHANGED <<conf, now, stage, taken, store, panics, faults, evictions>>
      /\ cancelled \subseteq cancelled' /\ Persistent' = Persistent
      /\ flights' = [flights EXCEPT ![k] = [gen |-> generation + 1, waiters |-> 1]]
      /\ Spawns(c, k) \/ Reaps(c)
  BY StartForm, ConfSets DEF Synced
<1>2. PICK n \in Generations : n = generation + 1
  BY <1>1
<1>3. \A l \in Keys : flights'[l] = IF l = k THEN [gen |-> n, waiters |-> 1] ELSE flights[l]
  BY <1>1, <1>2, CountTypes DEF Flights
<1>4. flights'[k].gen = n /\ flights'[k].waiters = 1
  BY <1>3
<1>5. generation \in 0..MaxGen /\ n # 0 /\ n \in Int /\ n > generation
  BY <1>2, CountTypes, ServiceAssumption
<1>6. /\ \A l \in Keys : flights[l].gen # n
      /\ \A d \in Clients : client[d].pc = "waiting" => client[d].gen # n
      /\ job[n].pc = "unused"
      /\ \A g \in Generations : job[g].pc # "unused" => g # n /\ g <= n
      /\ \A l \in Keys : flights[l].gen <= n
      /\ \A d \in Clients : client[d].pc = "waiting" => client[d].gen \in 1..n
  BY <1>5, FlightFields, CallFields, ServiceAssumption DEF GensFresh, Generations
<1>7. stage = "running"
  BY <1>1 DEF StopOrder
<1>8. \A l \in Keys : ~OrphanOf(l)
  BY <1>1 DEF OrphanOf
<1>9. \A l, m \in Keys : flights'[l].gen # 0 /\ flights'[l].gen = flights'[m].gen => l = m
  BY <1>3, <1>4, <1>6 DEF GensFresh
<1>10. \A l \in Keys : flights'[l].gen <= generation'
  BY <1>1, <1>2, <1>3, <1>4, <1>5, <1>6
<1>11. \A g \in Generations : g # n /\ job[g].pc \in Running =>
         \/ job[g].key # k /\ flights[job[g].key].gen = g /\ flights'[job[g].key].gen = g
         \/ ~Persistent /\ g \in cancelled
  BY <1>1, <1>3, JobFields, ServiceAssumption DEF JobOwned, Generations
<1>11a. NoGhosts'
  BY <1>3, <1>4, <1>5 DEF NoGhosts
<1>12. CASE Spawns(c, k)
  <2>1. UNCHANGED <<stopping, shut>> /\ waiters' = waiters + 1
    BY <1>12 DEF Spawns
  <2>2. PICK j \in JobRecords : /\ job' = [job EXCEPT ![n] = j] /\ j.key = k
                                /\ j.pc = (IF Persistent THEN "start" ELSE "fetch")
    BY <1>2, <1>12 DEF Spawns
  <2>3. PICK x \in ClientRecords :
              /\ client' = [client EXCEPT ![c] = x] /\ x.pc = "waiting"
              /\ x.key = k /\ x.gen = n /\ x.got.tag = "none"
    BY <1>2, <1>12 DEF Spawns
  <2>4. \A d \in Clients : client'[d] = IF d = c THEN x ELSE client[d]
    BY <2>3, CountTypes
  <2>5. \A g \in Generations : job'[g] = IF g = n THEN j ELSE job[g]
    BY <2>2, CountTypes
  <2>6. j.pc \in Running /\ j.pc \in Live /\ j.pc # "publish" /\ j.pc # "unused"
    BY <2>2 DEF Live, Running, JobPCs
  <2>7. GensFresh'
    <3>1. \A g \in Generations : job'[g].pc # "unused" => g <= n
      BY <1>5, <1>6, <2>5
    <3>2. \A d \in Clients : client'[d].pc = "waiting" => client'[d].gen \in 1..generation'
      BY <1>1, <1>2, <1>5, <1>6, <2>3, <2>4
    <3>3. QED
      BY <1>1, <1>2, <1>9, <1>10, <3>1, <3>2 DEF GensFresh
  <2>8. KeysMatch'
    BY <1>3, <1>4, <1>6, <2>2, <2>5 DEF KeysMatch
  <2>9. ToldOnce'
    BY <1>3, <1>4, <1>6, <2>3, <2>4 DEF ToldOnce
  <2>10. WaitersRegistered'
    <3>1. \A d \in Clients : client[d].pc = "waiting" /\ client[d].got.tag = "none" =>
             client[d].key # k /\ flights'[client[d].key].gen = client[d].gen
      BY <1>1, <1>3, CallFields, ServiceAssumption DEF WaitersRegistered, Generations
    <3>2. QED
      BY <1>4, <2>3, <2>4, <3>1 DEF WaitersRegistered
  <2>11. JobOwned'
    <3>1. \A g \in Generations : job'[g].pc \in Running =>
            flights'[job'[g].key].gen = g \/ (~Persistent /\ g \in cancelled)
      BY <1>4, <1>11, <2>2, <2>5
    <3>2. QED
      BY <1>1, <3>1 DEF JobOwned
  <2>12. FlightOwned'
    <3>1. \A l \in Keys : flights'[l].gen # 0 => job'[flights'[l].gen].pc \in Live
      BY <1>1, <1>3, <1>4, <1>6, <2>5, <2>6, FlightFields DEF FlightOwned
    <3>2. QED
      BY <3>1 DEF FlightOwned
  <2>13. Counted'
    <3>1. /\ Cardinality(PendingAll') = Cardinality(PendingAll) + 1
          /\ Cardinality(Pending(k, n)') = Cardinality(Pending(k, n)) + 1
          /\ \A l \in Keys, h \in Generations : l # k \/ h # n => Pending(l, h)' = Pending(l, h)
      BY <1>1, <2>3, PendingJoins, ZenonT(30)
    <3>2. waiters' = Cardinality(PendingAll')
      BY <2>1, <3>1 DEF Counted
    <3>3. Pending(k, n) = {}
      BY <1>6 DEF Pending
    <3>4. Cardinality(Pending(k, n)') = 1
      BY <3>1, <3>3, FS_EmptySet
    <3>5. ASSUME NEW l \in Keys, NEW h \in Generations, flights'[l].gen = h
          PROVE  flights'[l].waiters = Cardinality(Pending(l, h)')
      <4>1. CASE l = k
        BY <1>4, <3>4, <3>5, <4>1
      <4>2. CASE l # k
        <5>1. flights'[l] = flights[l] /\ flights[l].gen = h
          BY <1>3, <3>5, <4>2
        <5>2. flights[l].waiters = Cardinality(Pending(l, h))
          BY <1>8, <5>1, CountedFlight
        <5>3. QED
          BY <3>1, <4>2, <5>1, <5>2
      <4>3. QED
        BY <4>1, <4>2
    <3>6. \A l \in Keys : flights'[l].gen # 0 => flights'[l].gen \in Generations
      BY <1>3, <1>4, FlightFields
    <3>7. QED
      BY <3>2, <3>5, <3>6, CountedAgain
  <2>14. ResultReady' /\ StopOrder' /\ Drained'
    BY <1>1, <1>7, <2>1, <2>5, <2>6 DEF ResultReady, StopOrder, Drained
  <2>15. QED
    BY <1>11a, <2>7, <2>8, <2>9, <2>10, <2>11, <2>12, <2>13, <2>14
<1>13. CASE Reaps(c)
  <2>1. shut' /\ stopping' /\ waiters' = waiters
    BY <1>13 DEF Reaps
  <2>2. PICK h \in Generations, j \in JobRecords :
          job[h].pc = "panicked" /\ job' = [job EXCEPT ![h] = j] /\ j.pc = "done"
    BY <1>13 DEF Reaps
  <2>3. \A g \in Generations : job'[g] = IF g = h THEN j ELSE job[g]
    BY <2>2, CountTypes
  <2>4. CallsKept
    BY <1>1, <1>13, CountTypes DEF Reaps, CallsKept
  <2>5. h # n /\ job'[n].pc = "unused"
    BY <1>6, <2>2, <2>3
  <2>6. GensFresh'
    <3>1. \A g \in Generations : job'[g].pc # "unused" => g <= generation'
      BY <1>1, <1>2, <1>6, <2>2, <2>3
    <3>2. \A d \in Clients : client'[d].pc = "waiting" => client'[d].gen \in 1..generation'
      BY <1>1, <1>2, <1>6, <2>4 DEF CallsKept
    <3>3. QED
      BY <1>9, <1>10, <3>1, <3>2 DEF GensFresh
  <2>7. KeysMatch'
    BY <1>3, <1>4, <2>2, <2>3, <2>5 DEF KeysMatch, Live, Running
  <2>8. ToldOnce'
    BY <1>3, <1>4, <1>6, <2>4 DEF ToldOnce, CallsKept
  <2>9. WaitersRegistered'
    <3>1. \A d \in Clients : client[d].pc = "waiting" /\ client[d].got.tag = "none" =>
             client[d].key # k /\ flights'[client[d].key].gen = client[d].gen
      BY <1>1, <1>3, CallFields, ServiceAssumption DEF WaitersRegistered, Generations
    <3>2. QED
      BY <2>4, <3>1 DEF WaitersRegistered, CallsKept
  <2>10. JobOwned' /\ FlightOwned'
    BY <2>1 DEF JobOwned, FlightOwned
  <2>11. Counted'
    <3>1. waiters' = Cardinality(PendingAll')
      BY <2>1, <2>4, KeptPending DEF Counted
    <3>2. Pending(k, n) = {}
      BY <1>6 DEF Pending
    <3>3. OrphanOf(k)'
      BY <1>4, <2>1, <2>4, <2>5, <3>2, KeptPending DEF OrphanOf
    <3>4. ASSUME NEW l \in Keys, NEW m \in Generations, flights'[l].gen = m
          PROVE  flights'[l].waiters = Cardinality(Pending(l, m)') \/ OrphanOf(l)'
      <4>1. CASE l = k
        BY <3>3, <4>1
      <4>2. CASE l # k
        <5>1. flights'[l] = flights[l] /\ flights[l].gen = m
          BY <1>3, <3>4, <4>2
        <5>2. flights[l].waiters = Cardinality(Pending(l, m))
          BY <1>8, <5>1, CountedFlight
        <5>3. QED
          BY <2>4, <5>1, <5>2, KeptPending
      <4>3. QED
        BY <4>1, <4>2
    <3>5. \A l \in Keys : flights'[l].gen # 0 => flights'[l].gen \in Generations
      BY <1>3, <1>4, FlightFields
    <3>6. QED
      BY <3>1, <3>4, <3>5, CountedAgain
  <2>12. ResultReady' /\ StopOrder' /\ Drained'
    BY <1>1, <1>7, <2>1, <2>2, <2>3 DEF ResultReady, StopOrder, Drained
  <2>13. QED
    BY <1>11a, <2>6, <2>7, <2>8, <2>9, <2>10, <2>11, <2>12
<1>14. QED
  BY <1>1, <1>12, <1>13

LEMMA CallEndsFlights ==
  ASSUME Typed, FlightInv, NEW c \in Clients, CallEnds(c)
  PROVE  FlightInv'
<1> USE DEF FlightInv
<1>1. /\ client[c].pc = "waiting" /\ DropsWaiter(c) /\ Persistent' = Persistent
      /\ UNCHANGED <<conf, now, generation, stopping, shut, failed, stage, taken, permits, job, store,
                     panics, faults, evictions>>
  BY CallEndsForm, ConfSets
<1>2. PICK x \in ClientRecords : client' = [client EXCEPT ![c] = x] /\ x.pc = "idle"
  BY CallEndsForm
<1>3. \A d \in Clients : client'[d] = IF d = c THEN x ELSE client[d]
  BY <1>2, CountTypes
<1>4. PICK k \in Keys, n \in Generations : k = client[c].key /\ n = client[c].gen
  BY <1>1, CallFields
<1>5. SyncCancels \in SUBSET Generations
  BY SyncTypes
<1>6. PICK F \in SUBSET Generations : WaiterDrop(c, F)
  BY <1>1, <1>5 DEF DropsWaiter
<1>7. \/ /\ ~Holds(c) /\ flights' = flights /\ waiters' = waiters /\ cancelled \subseteq cancelled'
      \/ /\ Holds(c) /\ \E y : Leaves(c, y)
         /\ cancelled' = cancelled \union F \union LastOf(c)
  BY <1>1, <1>6, DropForm
<1>8. stage # "running" => cache' = Empty /\ ~Holds(c)
  <2>1. CASE stage # "running"
    <3>1. shut /\ cache = Empty /\ \A l \in Keys : flights[l] = NoFlight
      BY <2>1 DEF StopOrder, Drained
    <3>2. cache' = Empty
      BY <1>1, <3>1 DEF DropsWaiter
    <3>3. ~Holds(c)
      BY <1>4, <3>1, ServiceAssumption DEF Holds, NoFlight, Generations
    <3>4. QED
      BY <3>2, <3>3
  <2>2. QED
    BY <2>1
<1>9. ResultReady' /\ StopOrder'
  BY <1>1 DEF ResultReady, StopOrder
<1>10. CASE ~Holds(c)
  <2>1. flights' = flights /\ waiters' = waiters /\ cancelled \subseteq cancelled'
    BY <1>7, <1>10
  <2>2. client[c].got.tag # "none"
    BY <1>1, <1>10 DEF WaitersRegistered, Holds
  <2>3. PendingAll' = PendingAll /\ \A l, h : Pending(l, h)' = Pending(l, h)
    BY <1>2, <1>3, <2>2 DEF PendingAll, Pending
  <2>4. GensFresh' /\ ToldOnce' /\ WaitersRegistered'
    BY <1>1, <1>2, <1>3, <2>1 DEF GensFresh, ToldOnce, WaitersRegistered
  <2>5. KeysMatch' /\ FlightOwned' /\ JobOwned' /\ NoGhosts'
    BY <1>1, <2>1 DEF KeysMatch, FlightOwned, JobOwned, NoGhosts
  <2>6. Counted'
    BY <1>1, <2>1, <2>3 DEF Counted, OrphanOf
  <2>7. Drained'
    BY <1>1, <1>8, <2>1 DEF Drained
  <2>8. QED
    BY <1>9, <2>4, <2>5, <2>6, <2>7
<1>11. CASE Holds(c)
  <2>1. PICK y : Leaves(c, y)
    BY <1>7, <1>11
  <2>2. cancelled' = cancelled \union F \union LastOf(c) /\ flights[k].gen = n
    BY <1>4, <1>7, <1>11 DEF Holds
  <2>3. /\ y \in [gen : 0..MaxGen, waiters : Int] /\ flights' = [flights EXCEPT ![k] = y]
        /\ waiters' = waiters - 1
        /\ \/ y.gen = n /\ y.waiters = flights[k].waiters - 1
           \/ y = NoFlight /\ flights[k].waiters = 1 /\ ~Persistent
    BY <1>4, <2>1, <2>2 DEF Leaves
  <2>4. \A l \in Keys : flights'[l] = IF l = k THEN y ELSE flights[l]
    BY <2>3, CountTypes DEF Flights
  <2>5. client[c].got.tag = "none"
    BY <1>1, <1>4, <2>2 DEF ToldOnce
  <2>6. c \in PendingAll /\ c \in Pending(k, n)
    BY <1>1, <1>4, <2>5 DEF PendingAll, Pending
  <2>7. PendingAll' = PendingAll \ {c} /\ Pending(k, n)' = Pending(k, n) \ {c}
    BY <1>2, <1>3 DEF PendingAll, Pending
  <2>8. \A l \in Keys, h \in Generations : l # k => Pending(l, h)' = Pending(l, h)
    BY <1>2, <1>3, <1>4 DEF Pending
  <2>9. flights[k].waiters = Cardinality(Pending(k, n))
    BY <2>2, <2>6, CountedFlight DEF OrphanOf
  <2>10. /\ Cardinality(PendingAll') = Cardinality(PendingAll) - 1
         /\ Cardinality(Pending(k, n)') = Cardinality(Pending(k, n)) - 1
    BY <2>6, <2>7, PendingFinite, FS_RemoveElement, ZenonT(30)
  <2>11. \A d \in Clients : /\ client[d].pc = "waiting" /\ client[d].got.tag = "none" /\ d # c
                            => client[d].key # k \/ y # NoFlight
    <3>1. SUFFICES ASSUME NEW d \in Clients, client[d].pc = "waiting", client[d].got.tag = "none",
                          d # c, client[d].key = k, y = NoFlight
                   PROVE  FALSE
      OBVIOUS
    <3>2. d \in Pending(k, n)
      BY <2>2, <3>1 DEF Pending, WaitersRegistered
    <3>3. NoFlight.gen # n
      BY ServiceAssumption DEF NoFlight, Generations
    <3>4. flights[k].waiters = 1
      BY <2>3, <3>1, <3>3
    <3>5. Cardinality(Pending(k, n) \ {c}) = 0
      BY <2>7, <2>9, <2>10, <3>4
    <3>6. IsFiniteSet(Pending(k, n) \ {c})
      BY PendingFinite, FS_RemoveElement
    <3>7. Pending(k, n) \ {c} = {}
      BY <3>5, <3>6, FS_EmptySet
    <3>8. QED
      BY <3>1, <3>2, <3>7
  <2>12. y.gen = n \/ (y.gen = 0 /\ y = NoFlight)
    BY <2>3 DEF NoFlight
  <2>13. GensFresh'
    <3>1. n <= generation /\ 0 <= generation
      BY <2>2, CountTypes, ServiceAssumption DEF GensFresh
    <3>2. \A l \in Keys : flights'[l].gen <= generation
      BY <2>4, <2>12, <3>1 DEF GensFresh
    <3>3. \A l, m \in Keys : flights'[l].gen # 0 /\ flights'[l].gen = flights'[m].gen => l = m
      BY <2>2, <2>4, <2>12 DEF GensFresh
    <3>4. QED
      BY <1>1, <1>2, <1>3, <3>2, <3>3 DEF GensFresh
  <2>14. KeysMatch'
    BY <1>1, <2>2, <2>4, <2>12, ServiceAssumption DEF KeysMatch, Generations
  <2>15. ToldOnce'
    <3>1. \A l \in Keys : flights'[l].gen = flights[l].gen \/ flights'[l].gen = 0
      BY <2>2, <2>4, <2>12
    <3>2. QED
      BY <1>2, <1>3, <3>1, CountTypes DEF ToldOnce, WaitsForFlight
  <2>16. WaitersRegistered'
    <3>1. ASSUME NEW d \in Clients, d # c, client[d].pc = "waiting", client[d].got.tag = "none"
          PROVE  flights'[client[d].key].gen = client[d].gen
      <4>1. flights[client[d].key].gen = client[d].gen /\ client[d].key \in Keys
        BY <3>1, CallFields DEF WaitersRegistered
      <4>2. QED
        BY <2>2, <2>4, <2>11, <2>12, <3>1, <4>1
    <3>2. QED
      BY <1>2, <1>3, <3>1 DEF WaitersRegistered
  <2>17. JobOwned'
    <3>1. ASSUME NEW g \in Generations, job[g].pc \in Running, ~stopping
          PROVE  flights'[job[g].key].gen = g \/ (~Persistent /\ g \in cancelled')
      <4>1. CASE ~Persistent /\ g \in cancelled
        BY <2>2, <4>1
      <4>2. CASE flights[job[g].key].gen = g /\ (job[g].key # k \/ y.gen = n)
        BY <2>2, <2>4, <4>2, JobFields
      <4>3. CASE flights[job[g].key].gen = g /\ job[g].key = k /\ y.gen # n
        <5>1. flights[k].waiters = 1 /\ ~Persistent /\ g = n
          BY <2>2, <2>3, <4>3
        <5>2. n \in LastOf(c)
          BY <1>4, <5>1 DEF LastOf
        <5>3. QED
          BY <2>2, <5>1, <5>2
      <4>4. QED
        BY <3>1, <4>1, <4>2, <4>3 DEF JobOwned
    <3>2. QED
      BY <1>1, <3>1 DEF JobOwned
  <2>18. FlightOwned'
    BY <1>1, <2>2, <2>4, <2>12 DEF FlightOwned
  <2>19. Counted'
    <3>1. waiters' = Cardinality(PendingAll')
      BY <2>3, <2>10, PendingFinite DEF Counted
    <3>2. ASSUME NEW l \in Keys, NEW h \in Generations, flights'[l].gen = h
          PROVE  flights'[l].waiters = Cardinality(Pending(l, h)') \/ OrphanOf(l)'
      <4>1. CASE l = k
        <5>1. h = n /\ y.waiters = flights[k].waiters - 1 /\ flights'[k] = y
          <6>1. flights'[k] = y /\ y.gen = h /\ h # 0 /\ n # 0
            BY <2>4, <3>2, <4>1, ServiceAssumption DEF Generations
          <6>2. NoFlight.gen = 0
            BY DEF NoFlight
          <6>3. h = n
            BY <2>12, <6>1
          <6>4. QED
            BY <2>3, <6>1, <6>2, <6>3
        <5>2. QED
          BY <2>9, <2>10, <4>1, <5>1
      <4>2. CASE l # k
        <5>1. flights'[l] = flights[l] /\ flights[l].gen = h
          BY <2>4, <3>2, <4>2
        <5>2. Pending(l, h)' = Pending(l, h)
          BY <2>8, <4>2
        <5>3. CASE OrphanOf(l)
          <6>1. Pending(l, flights[l].gen)' = Pending(l, h)'
            BY <5>1 DEF Pending
          <6>2. QED
            BY <1>1, <5>1, <5>2, <5>3, <6>1 DEF OrphanOf
        <5>4. QED
          BY <5>1, <5>2, <5>3, CountedFlight
      <4>3. QED
        BY <4>1, <4>2
    <3>3. \A l \in Keys : flights'[l].gen # 0 => flights'[l].gen \in Generations
      BY <2>4, <2>12, FlightFields
    <3>4. QED
      BY <3>1, <3>2, <3>3, CountedAgain
  <2>20. Drained' /\ NoGhosts'
    <3>1. n # 0
      BY ServiceAssumption DEF Generations
    <3>2. NoGhosts'
      BY <2>4, <2>12, <3>1 DEF NoGhosts
    <3>3. QED
      BY <1>1, <1>8, <1>11, <3>2 DEF Drained, StopOrder
  <2>21. QED
    BY <1>9, <2>13, <2>14, <2>15, <2>16, <2>17, <2>18, <2>19, <2>20
<1>12. QED
  BY <1>10, <1>11

LEMMA PublishFlights ==
  ASSUME Typed, FlightInv, NEW g \in Generations, JobPublish(g)
  PROVE  FlightInv'
<1> USE DEF FlightInv
<1>1. /\ job[g].pc = "publish" /\ cancelled \subseteq cancelled' /\ Persistent' = Persistent
      /\ UNCHANGED <<conf, now, generation, stopping, shut, failed, stage, taken, store,
                     panics, faults, evictions>>
  BY JobPublishForm, ConfSets
<1>2. PICK j \in JobRecords : job' = [job EXCEPT ![g] = j] /\ j.pc = "done"
  BY JobPublishForm
<1>3. \A h \in Generations : job'[h] = IF h = g THEN j ELSE job[h]
  BY <1>2, CountTypes
<1>4. PICK k \in Keys : k = job[g].key
  BY JobFields
<1>5. g # 0 /\ g \in Int /\ job[g].pc \in Live /\ job[g].pc \in Running
  BY <1>1, ServiceAssumption DEF Generations, Live, Running, JobPCs
<1>6. \A l \in Keys : flights[l].gen = g => l = k
  BY <1>4, <1>5 DEF KeysMatch
<1>7. \A h \in Generations : /\ job'[h].pc \in Running => job[h].pc \in Running /\ job'[h] = job[h] /\ h # g
                             /\ job'[h].pc \in Live => job'[h] = job[h]
                             /\ job'[h].pc # "unused" => job[h].pc # "unused"
                             /\ job'[h].pc = "publish" => job'[h] = job[h]
  BY <1>1, <1>2, <1>3 DEF Live, Running
<1>8. ResultReady' /\ StopOrder'
  BY <1>1, <1>7 DEF ResultReady, StopOrder
<1>9. CASE cache' = SyncCache /\ flights[job[g].key].gen # g /\ UNCHANGED <<flights, waiters, client>>
  <2>1. \A l \in Keys : flights[l].gen # g
    BY <1>4, <1>6, <1>9
  <2>2. \A l \in Keys : flights[l].gen # 0 => flights[l].gen \in Generations /\ job'[flights[l].gen] = job[flights[l].gen]
    BY <1>3, <2>1, FlightFields
  <2>3. GensFresh' /\ KeysMatch' /\ ToldOnce' /\ WaitersRegistered'
    BY <1>1, <1>7, <1>9 DEF GensFresh, KeysMatch, ToldOnce, WaitersRegistered
  <2>4. JobOwned'
    BY <1>1, <1>7, <1>9 DEF JobOwned
  <2>5. FlightOwned' /\ NoGhosts'
    BY <1>1, <1>9, <2>2 DEF FlightOwned, NoGhosts
  <2>6. Counted'
    <3>1. PendingAll' = PendingAll /\ \A l, h : Pending(l, h)' = Pending(l, h)
      BY <1>9 DEF PendingAll, Pending
    <3>2. QED
      BY <1>1, <1>9, <2>2, <3>1 DEF Counted, OrphanOf
  <2>7. Drained'
    BY <1>1, <1>7, <1>9, EmptySync DEF Drained
  <2>8. QED
    BY <1>8, <2>3, <2>4, <2>5, <2>6, <2>7
<1>10. ASSUME NEW told, TellsFlight(g, told)
       PROVE  FlightInv'
  <2>1. /\ told \in Outcomes /\ told.tag # "none" /\ flights[k].gen = g
        /\ waiters' = waiters - flights[k].waiters
        /\ flights' = [flights EXCEPT ![k] = NoFlight] /\ client' = Tell({g}, told)
    BY <1>1, <1>4, <1>10 DEF TellsFlight, ResultReady
  <2>2. \A l \in Keys : flights'[l] = IF l = k THEN NoFlight ELSE flights[l]
    BY <2>1, CountTypes DEF Flights
  <2>3. NoFlight.gen = 0
    BY DEF NoFlight
  <2>4. \A l \in Keys : flights'[l].gen = flights[l].gen \/ flights'[l].gen = 0
    BY <2>2, <2>3
  <2>5. \A l \in Keys : flights'[l].gen # g /\ (flights'[l].gen # 0 => l # k /\ flights'[l] = flights[l])
    BY <1>5, <1>6, <2>2, <2>3
  <2>6. \A c \in Clients : IF client[c].pc = "waiting" /\ client[c].gen = g
              THEN /\ client'[c].pc = client[c].pc /\ client'[c].key = client[c].key
                   /\ client'[c].gen = client[c].gen /\ client'[c].got = told
              ELSE client'[c] = client[c]
    BY <2>1, TellForm
  <2>7. GensFresh'
    <3>1. \A l \in Keys : flights'[l].gen <= generation
      BY <2>4, CountTypes DEF GensFresh
    <3>2. \A l, m \in Keys : flights'[l].gen # 0 /\ flights'[l].gen = flights'[m].gen => l = m
      BY <2>5 DEF GensFresh
    <3>3. \A c \in Clients : client'[c].pc = "waiting" => client'[c].gen \in 1..generation
      BY <2>6 DEF GensFresh
    <3>4. QED
      BY <1>1, <1>7, <3>1, <3>2, <3>3 DEF GensFresh
  <2>8. KeysMatch'
    BY <1>7, <2>4, ServiceAssumption DEF KeysMatch, Generations
  <2>9. ToldOnce'
    BY <2>4, <2>5, <2>6, CountTypes DEF ToldOnce, WaitsForFlight
  <2>10. WaitersRegistered'
    <3>1. ASSUME NEW c \in Clients, client'[c].pc = "waiting", client'[c].got.tag = "none"
          PROVE  flights'[client'[c].key].gen = client'[c].gen
      <4>1. client'[c] = client[c] /\ client[c].gen # g
        BY <2>1, <2>6, <3>1
      <4>2. flights[client[c].key].gen = client[c].gen /\ client[c].key \in Keys
        BY <3>1, <4>1, CallFields DEF WaitersRegistered
      <4>3. QED
        BY <2>1, <2>2, <4>1, <4>2
    <3>2. QED
      BY <3>1 DEF WaitersRegistered
  <2>11. JobOwned'
    <3>1. \A h \in Generations : h # g /\ flights[job[h].key].gen = h => flights'[job[h].key].gen = h
      BY <2>1, <2>2, JobFields
    <3>2. QED
      BY <1>1, <1>7, <3>1 DEF JobOwned
  <2>12. FlightOwned'
    <3>1. \A l \in Keys : flights'[l].gen # 0 =>
            /\ flights'[l].gen = flights[l].gen /\ flights[l].gen \in Generations
            /\ job'[flights[l].gen] = job[flights[l].gen]
      BY <1>3, <2>4, <2>5, FlightFields
    <3>2. QED
      BY <1>1, <3>1 DEF FlightOwned
  <2>12a. NoGhosts'
    BY <2>2 DEF NoGhosts
  <2>13. Counted'
    <3>1. PendingAll' = PendingAll \ Pending(k, g)
      <4>1. \A c \in Clients : client[c].pc = "waiting" /\ client[c].got.tag = "none" /\ client[c].gen = g
                               => client[c].key = k
        BY <1>6, CallFields DEF WaitersRegistered
      <4>2. \A c \in Clients : c \in PendingAll' <=> c \in PendingAll /\ client[c].gen # g
        BY <2>1, <2>6 DEF PendingAll
      <4>3. \A c \in Clients : c \in Pending(k, g) <=> c \in PendingAll /\ client[c].gen = g
        BY <4>1 DEF PendingAll, Pending
      <4>4. PendingAll \subseteq Clients /\ PendingAll' \subseteq Clients
        BY DEF PendingAll
      <4>5. QED
        BY <4>2, <4>3, <4>4
    <3>2. Pending(k, g) \subseteq PendingAll
      BY DEF PendingAll, Pending
    <3>3. Cardinality(PendingAll') = Cardinality(PendingAll) - Cardinality(Pending(k, g))
      <4>1. PendingAll \cap Pending(k, g) = Pending(k, g)
        BY <3>2
      <4>2. QED
        BY <3>1, <4>1, PendingFinite, FS_Difference, ZenonT(30)
    <3>4. flights[k].waiters = Cardinality(Pending(k, g))
      BY <1>1, <2>1, CountedFlight DEF OrphanOf
    <3>5. waiters' = Cardinality(PendingAll')
      BY <2>1, <3>3, <3>4 DEF Counted
    <3>6. ASSUME NEW l \in Keys, NEW h \in Generations, flights'[l].gen = h
          PROVE  flights'[l].waiters = Cardinality(Pending(l, h)') \/ OrphanOf(l)'
      <4>1. h # 0 /\ h # g /\ flights'[l] = flights[l] /\ flights[l].gen = h
        BY <2>5, <3>6, ServiceAssumption DEF Generations
      <4>2. Pending(l, h)' = Pending(l, h)
        BY <2>6, <4>1 DEF Pending
      <4>3. CASE OrphanOf(l)
        <5>1. Pending(l, flights[l].gen)' = Pending(l, h)'
          BY <4>1 DEF Pending
        <5>2. job'[h] = job[h]
          BY <1>3, <4>1
        <5>3. QED
          BY <1>1, <4>1, <4>2, <4>3, <5>1, <5>2 DEF OrphanOf
      <4>4. QED
        BY <4>1, <4>2, <4>3, CountedFlight
    <3>7. \A l \in Keys : flights'[l].gen # 0 => flights'[l].gen \in Generations
      BY <2>4, FlightFields
    <3>8. QED
      BY <3>5, <3>6, <3>7, CountedAgain
  <2>14. Drained'
    <3>1. stage = "running"
      BY <1>5, <2>1, <2>3 DEF Drained
    <3>2. QED
      BY <1>1, <3>1 DEF Drained
  <2>15. QED
    BY <1>8, <2>7, <2>8, <2>9, <2>10, <2>11, <2>12, <2>12a, <2>13, <2>14
<1>11. QED
  BY <1>9, <1>10, JobPublishForm

LEMMA ShutdownBeginFlights ==
  ASSUME Typed, FlightInv, ShutdownBegin
  PROVE  FlightInv'
<1> USE DEF FlightInv
<1>1. /\ stage = "running" /\ stage' = "take" /\ stopping' /\ shut'
      /\ flights' = [k \in Keys |-> NoFlight] /\ waiters' = 0 /\ cache' = Empty
      /\ UNCHANGED <<conf, now, generation, svcEpoch, svcRec, failed, taken, permits, job, store,
                     panics, faults, evictions>>
      /\ Err("shutdown") \in Outcomes /\ Err("shutdown").tag = "shutdown"
  BY ShutdownBeginForm
<1>2. PICK live \in SUBSET Generations :
         live = {flights[k].gen : k \in Keys} \ {0} /\ client' = Tell(live, Err("shutdown"))
  BY ShutdownBeginForm
<1>3. \A c \in Clients : IF client[c].pc = "waiting" /\ client[c].gen \in live
              THEN /\ client'[c].pc = client[c].pc /\ client'[c].key = client[c].key
                   /\ client'[c].gen = client[c].gen /\ client'[c].got.tag = "shutdown"
              ELSE client'[c] = client[c]
  BY <1>1, <1>2, TellForm
<1>4. \A k \in Keys : flights'[k] = NoFlight /\ flights'[k].gen = 0
  BY <1>1 DEF NoFlight
<1>5. \A c \in Clients : client'[c].pc = "waiting" => client'[c].got.tag # "none"
  BY <1>2, <1>3, CallFields, CountTypes DEF WaitersRegistered, WaitsForFlight
<1>6. PendingAll' = {}
  BY <1>5 DEF PendingAll
<1>7. GensFresh'
  <2>1. \A c \in Clients : client'[c].pc = "waiting" => client'[c].gen \in 1..generation
    BY <1>3 DEF GensFresh
  <2>2. 0 <= generation
    BY CountTypes, ServiceAssumption
  <2>3. QED
    BY <1>1, <1>4, <2>1, <2>2 DEF GensFresh
<1>8. ToldOnce'
  <2>1. \A c \in Clients : client'[c].pc = "waiting" => client'[c].gen # 0
    BY <1>3, CountTypes DEF WaitsForFlight
  <2>2. QED
    BY <1>4, <2>1 DEF ToldOnce
<1>9. KeysMatch' /\ FlightOwned' /\ WaitersRegistered' /\ JobOwned'
  BY <1>1, <1>4, <1>5, ServiceAssumption DEF KeysMatch, FlightOwned, WaitersRegistered, JobOwned, Generations
<1>10. Counted'
  BY <1>1, <1>4, <1>6, FS_EmptySet DEF Counted
<1>11. ResultReady' /\ StopOrder' /\ Drained' /\ NoGhosts'
  BY <1>1, <1>4 DEF ResultReady, StopOrder, Drained, NoGhosts
<1>12. QED
  BY <1>7, <1>8, <1>9, <1>10, <1>11

LEMMA FlightStep ==
  ASSUME Typed, FlightInv, [Next]_vars
  PROVE  FlightInv'
<1>1. CASE Next
  <2>1. ASSUME NEW c \in Clients,
               \/ RefusedOrHit(c) \/ CallEnds(c)
               \/ \E k \in Keys, stale \in BOOLEAN : RetrieveJoin(c, k, stale) \/ RetrieveStart(c, k, stale)
        PROVE  FlightInv'
    BY <2>1, RefusedOrHitFlights, CallEndsFlights, JoinFlights, StartFlights
  <2>2. ASSUME NEW g \in Generations, WorkStep(g) \/ JobPromote(g) \/ JobPublish(g)
        PROVE  FlightInv'
    BY <2>2, WorkFlights, PromoteFlights, PublishFlights
  <2>3. CASE StoreMoves \/ Ticks \/ ShutdownBegin \/ ShutdownClose \/ Rests
    BY <2>3, StoreMovesFlights, TicksFlights, ShutdownBeginFlights, CloseFlights, RestsFlights
  <2>4. QED
    BY <1>1, <2>1, <2>2, <2>3, NextForms
<1>2. CASE UNCHANGED vars
  <2>1. UNCHANGED <<conf, now, cache, flights, waiters, generation, stopping, svcEpoch, svcRec,
                    shut, cancelled, failed, stage, taken, permits, job, client,
                    store, panics, faults, evictions>>
    BY <1>2 DEF vars
  <2>2. JobsKept /\ CallsKept
    BY <2>1 DEF JobsKept, CallsKept
  <2>3. Drained'
    BY <2>1 DEF FlightInv, Drained
  <2>4. QED
    BY <2>1, <2>2, <2>3, FlightsKept
<1>3. QED
  BY <1>1, <1>2

LEMMA InitFlights ==
  ASSUME Init
  PROVE  FlightInv
<1>1. /\ \A k \in Keys : flights[k] = NoFlight /\ flights[k].gen = 0
      /\ \A g \in Generations : job[g].pc = "unused"
      /\ \A c \in Clients : client[c].pc = "idle"
      /\ waiters = 0 /\ generation = 0 /\ stopping = FALSE /\ stage = "running"
  BY DEF Init, NoFlight, NoJob, NoClient
<1>2. PendingAll = {}
  BY <1>1 DEF PendingAll
<1>3. GensFresh /\ KeysMatch /\ ToldOnce /\ JobOwned
  BY <1>1, ServiceAssumption DEF GensFresh, KeysMatch, ToldOnce, JobOwned, Live, Running, Generations
<1>4. FlightOwned /\ WaitersRegistered /\ ResultReady
  BY <1>1 DEF FlightOwned, WaitersRegistered, ResultReady
<1>5. Counted
  BY <1>1, <1>2, FS_EmptySet DEF Counted
<1>6. StopOrder /\ Drained /\ NoGhosts
  BY <1>1 DEF StopOrder, Drained, NoGhosts
<1>7. QED
  BY <1>3, <1>4, <1>5, <1>6 DEF FlightInv

----------------------------------------------------------------------------
(* The provider's permits. *)

LEMMA HoldersFinite == IsFiniteSet(Holders) /\ Cardinality(Holders) \in Nat
<1>1. Holders \subseteq Generations
  BY DEF Holders
<1>2. IsFiniteSet(Generations)
  BY ServiceAssumption, FS_Interval DEF Generations
<1>3. QED
  BY <1>1, <1>2, FS_Subset, FS_CardinalityType

LEMMA HolderIs ==
  ASSUME NEW g \in Generations
  PROVE  g \in Holders <=> HoldsPermit(job[g].pc)
  BY DEF Holders, HoldsPermit

\* One job moves, and the permits with it.
LEMMA PermitsMove ==
  ASSUME Typed, PermitsBalance, conf' = conf, NEW g \in Generations, NEW x \in JobRecords,
         job' = [job EXCEPT ![g] = x], PermitMoves(job[g].pc, x.pc)
  PROVE  permits' + Cardinality(Holders') = Permits'
<1>1. Persistent' = Persistent /\ Permits' = Permits /\ permits \in Int /\ Permits \in Int
  BY ConfSets, ConfTypes, CountTypes
<1>2. \A h \in Generations : job'[h] = IF h = g THEN x ELSE job[h]
  BY CountTypes
<1>3. \A h \in Generations : h \in Holders' <=> IF h = g THEN HoldsPermit(x.pc) ELSE h \in Holders
  BY <1>1, <1>2 DEF Holders, HoldsPermit
<1>4. Holders \subseteq Generations /\ Holders' \subseteq Generations
  BY DEF Holders
<1>5. permits + Cardinality(Holders) = Permits
  BY DEF PermitsBalance
<1>6. CASE (HoldsPermit(job[g].pc) <=> HoldsPermit(x.pc)) /\ permits' = permits
  <2>1. Holders' = Holders
    BY <1>3, <1>4, <1>6, HolderIs
  <2>2. QED
    BY <1>1, <1>5, <1>6, <2>1
<1>7. CASE HoldsPermit(job[g].pc) /\ ~HoldsPermit(x.pc) /\ permits' = permits + 1
  <2>1. Holders' = Holders \ {g} /\ g \in Holders
    BY <1>3, <1>4, <1>7, HolderIs
  <2>2. Cardinality(Holders') = Cardinality(Holders) - 1
    BY <2>1, HoldersFinite, FS_RemoveElement
  <2>3. QED
    BY <1>1, <1>5, <1>7, <2>2, HoldersFinite
<1>8. CASE ~HoldsPermit(job[g].pc) /\ HoldsPermit(x.pc) /\ permits' = permits - 1
  <2>1. Holders' = Holders \union {g} /\ g \notin Holders
    BY <1>3, <1>4, <1>8, HolderIs
  <2>2. Cardinality(Holders') = Cardinality(Holders) + 1
    BY <2>1, HoldersFinite, FS_AddElement
  <2>3. QED
    BY <1>1, <1>5, <1>8, <2>2, HoldersFinite
<1>9. QED
  BY <1>6, <1>7, <1>8 DEF PermitMoves

LEMMA PermitsKept ==
  ASSUME Typed, PermitsBalance, conf' = conf, permits' = permits,
         \A g \in Generations : job'[g].pc = job[g].pc \/ Reaped(job[g], job'[g])
  PROVE  permits' + Cardinality(Holders') = Permits'
<1>1. Persistent' = Persistent /\ Permits' = Permits
  BY ConfSets
<1>2. Holders' = Holders
  BY <1>1 DEF Holders, Reaped
<1>3. QED
  BY <1>1, <1>2 DEF PermitsBalance

LEMMA PermitsStep ==
  ASSUME Typed, PermitsBalance, FlightInv, [Next]_vars
  PROVE  permits' + Cardinality(Holders') = Permits'
<1>1. CASE Next
  <2>1. ASSUME NEW c \in Clients, RefusedOrHit(c) \/ CallEnds(c)
        PROVE  conf' = conf /\ permits' = permits /\ job' = job
    BY <2>1, RefusedOrHitForm, CallEndsForm
  <2>2. ASSUME NEW c \in Clients, NEW k \in Keys, NEW stale \in BOOLEAN, RetrieveJoin(c, k, stale)
        PROVE  conf' = conf /\ permits' = permits /\ job' = job
    BY <2>2, JoinForm
  <2>3. ASSUME NEW c \in Clients, NEW k \in Keys, NEW stale \in BOOLEAN, RetrieveStart(c, k, stale)
        PROVE  permits' + Cardinality(Holders') = Permits'
    <3>1. conf' = conf /\ generation + 1 \in Generations /\ (Spawns(c, k) \/ Reaps(c))
      BY <2>3, StartForm
    <3>2. CASE Spawns(c, k)
      <4>1. job[generation + 1].pc = "unused"
        BY <3>1, CountTypes, ServiceAssumption DEF FlightInv, GensFresh, Generations
      <4>2. PICK j \in JobRecords : /\ job' = [job EXCEPT ![generation + 1] = j]
                                    /\ j.pc = (IF Persistent THEN "start" ELSE "fetch")
        BY <3>2 DEF Spawns
      <4>3. permits' = IF Persistent THEN permits ELSE permits - 1
        BY <3>2 DEF Spawns
      <4>4. PermitMoves(job[generation + 1].pc, j.pc)
        BY <4>1, <4>2, <4>3 DEF PermitMoves, HoldsPermit
      <4>5. PICK n \in Generations : n = generation + 1
        BY <3>1
      <4>6. QED
        BY <3>1, <4>2, <4>4, <4>5, PermitsMove
    <3>3. CASE Reaps(c)
      <4>1. permits' = permits /\ \A g \in Generations : job'[g] = job[g] \/ (job[g].pc = "panicked" /\ job'[g].pc = "done")
        BY <3>3, CountTypes DEF Reaps
      <4>2. PICK h \in Generations, j \in JobRecords :
              job[h].pc = "panicked" /\ job' = [job EXCEPT ![h] = j] /\ j.pc = "done"
        BY <3>3 DEF Reaps
      <4>3. PermitMoves(job[h].pc, j.pc)
        BY <4>1, <4>2 DEF PermitMoves, HoldsPermit
      <4>4. QED
        BY <3>1, <4>2, <4>3, PermitsMove
    <3>4. QED
      BY <3>1, <3>2, <3>3
  <2>4. ASSUME NEW g \in Generations, WorkStep(g) \/ JobPromote(g)
        PROVE  permits' + Cardinality(Holders') = Permits'
    <3>1. conf' = conf
      BY <2>4, WorkFrame, JobPromoteForm
    <3>2. PICK x : Works(g, x)
      BY <2>4, WorkForm, PromoteWorks
    <3>3. QED
      BY <3>1, <3>2, PermitsMove DEF Works, Trans
  <2>5. ASSUME NEW g \in Generations, JobPublish(g)
        PROVE  permits' + Cardinality(Holders') = Permits'
    <3>1. conf' = conf /\ job[g].pc = "publish" /\ permits' = IF Persistent THEN permits ELSE permits + 1
      BY <2>5, JobPublishForm
    <3>2. PICK j \in JobRecords : job' = [job EXCEPT ![g] = j] /\ j.pc = "done"
      BY <2>5, JobPublishForm
    <3>3. PermitMoves(job[g].pc, j.pc)
      BY <3>1, <3>2 DEF PermitMoves, HoldsPermit
    <3>4. QED
      BY <3>1, <3>2, <3>3, PermitsMove
  <2>6. ASSUME StoreMoves \/ Ticks \/ ShutdownBegin \/ ShutdownClose \/ Rests
        PROVE  /\ conf' = conf /\ permits' = permits
               /\ \A g \in Generations : job'[g].pc = job[g].pc \/ Reaped(job[g], job'[g])
    BY <2>6, StoreMovesFrame, TicksForm, ShutdownBeginForm, ShutdownCloseForm, RestsFrame
  <2>7. QED
    BY <1>1, <2>1, <2>2, <2>3, <2>4, <2>5, <2>6, NextForms, PermitsKept
<1>2. CASE UNCHANGED vars
  BY <1>2, PermitsKept DEF vars
<1>3. QED
  BY <1>1, <1>2

\* Every step that takes a permit has found one.
LEMMA PermitsLeft ==
  ASSUME Typed, permits >= 0, [Next]_vars
  PROVE  permits' >= 0
<1>1. permits \in Int
  BY CountTypes
<1>2. CASE Next
  <2>1. ASSUME NEW c \in Clients, RefusedOrHit(c) \/ CallEnds(c)
        PROVE  permits' >= 0
    BY <1>1, <2>1, RefusedOrHitForm, CallEndsForm
  <2>2. ASSUME NEW c \in Clients, NEW k \in Keys, NEW stale \in BOOLEAN, RetrieveJoin(c, k, stale)
        PROVE  permits' >= 0
    BY <1>1, <2>2, JoinForm
  <2>3. ASSUME NEW c \in Clients, NEW k \in Keys, NEW stale \in BOOLEAN, RetrieveStart(c, k, stale)
        PROVE  permits' >= 0
    <3>1. /\ Persistent \/ permits > 0
          /\ permits' = (IF Persistent THEN permits ELSE permits - 1) \/ permits' = permits
      BY <2>3 DEF RetrieveStart
    <3>2. QED
      BY <1>1, <3>1
  <2>4. ASSUME NEW g \in Generations, WorkStep(g) \/ JobPromote(g) \/ JobPublish(g)
        PROVE  permits' >= 0
    <3>1. CASE JobAdmit(g)
      BY <1>1, <3>1 DEF JobAdmit
    <3>2. CASE JobRefresh(g) \/ JobPanic(g) \/ JobPublish(g)
      BY <1>1, <3>2 DEF JobRefresh, JobPanic, JobPublish
    <3>3. CASE MemoryRefresh(g) \/ JobStart(g) \/ JobLookup(g) \/ JobRows(g) \/ JobUnusable(g)
      BY <1>1, <3>3, MemoryRefreshForm, JobStartForm, JobLookupForm, JobRowsForm, JobUnusableForm
    <3>4. CASE JobBegin(g) \/ JobAuthorize(g) \/ JobCommit(g) \/ JobDrop(g) \/ JobAccept(g)
      BY <1>1, <3>4, JobBeginForm, JobAuthorizeForm, JobCommitForm, JobDropForm, JobAcceptForm
    <3>5. CASE JobSettle(g) \/ JobDeadline(g) \/ JobStorageFault(g) \/ JobPromote(g)
      BY <1>1, <3>5, JobSettleForm, JobDeadlineForm, JobStorageFaultForm, JobPromoteForm
    <3>5a. CASE JobCommitLost(g) \/ JobSettled(g) \/ JobRecord(g)
      BY <1>1, <3>5a, JobCommitLostForm, JobSettledForm, JobRecordForm
    <3>6. QED
      BY <2>4, <3>1, <3>2, <3>3, <3>4, <3>5, <3>5a DEF WorkStep
  <2>5. ASSUME StoreMoves \/ Ticks \/ ShutdownBegin \/ ShutdownClose \/ Rests
        PROVE  permits' >= 0
    BY <2>5, StoreMovesFrame, TicksForm, ShutdownBeginForm, ShutdownCloseForm, RestsFrame
  <2>6. QED
    BY <1>2, <2>1, <2>2, <2>3, <2>4, <2>5, NextForms
<1>3. CASE UNCHANGED vars
  BY <1>3 DEF vars
<1>4. QED
  BY <1>2, <1>3

LEMMA InitPermits ==
  ASSUME Init
  PROVE  PermitsBalance
<1>1. /\ permits = Permits /\ \A g \in Generations : job[g].pc = "unused"
  BY DEF Init, NoJob
<1>2. Holders = {}
  BY <1>1 DEF Holders
<1>3. Permits \in Nat
  BY ConfTypes DEF Init
<1>4. QED
  BY <1>1, <1>2, <1>3, FS_EmptySet DEF PermitsBalance

\* The inductive invariant of the service's own state.
ServiceInv == Typed /\ PermitsBalance /\ FlightInv

LEMMA ServiceStep ==
  ASSUME ServiceInv, [Next]_vars
  PROVE  ServiceInv'
  BY TypedStep, FlightStep, PermitsStep, PermitsLeft DEF ServiceInv, PermitsBalance

LEMMA AlwaysService == Spec => []ServiceInv
<1>1. Init => ServiceInv
  BY InitTyped, InitFlights, InitPermits DEF ServiceInv
<1>2. ServiceInv /\ [Next]_vars => ServiceInv'
  BY ServiceStep
<1>3. QED
  BY <1>1, <1>2, PTL DEF Spec

\* Every variable keeps its type, with the bounds that only the accounting gives:
\* State.waiters and the waiters of a flight never underflow (Waiter::drop, publish),
\* and Provider.active never has more permits than the provider was built with.
THEOREM TypeCorrect == Spec => []TypeOK
<1>1. ASSUME ServiceInv
      PROVE  TypeOK
  <2>1. Typed /\ Counted /\ NoGhosts /\ permits + Cardinality(Holders) = Permits /\ permits >= 0
    BY <1>1 DEF ServiceInv, FlightInv, PermitsBalance
  <2>2. waiters \in Nat
    BY <2>1, PendingFinite DEF Counted
  <2>3. \A k \in Keys : flights[k] \in [gen : 0..MaxGen, waiters : Nat]
    <3>1. SUFFICES ASSUME NEW k \in Keys
                   PROVE  flights[k] \in [gen : 0..MaxGen, waiters : Nat]
      OBVIOUS
    <3>2. CASE flights[k].gen = 0
      BY <2>1, <3>2, ConfTypes, CountTypes, RestingTypes DEF NoGhosts
    <3>3. CASE flights[k].gen # 0
      <4>1. PICK h \in Generations : h = flights[k].gen
        BY <2>1, <3>3, FlightFields
      <4>2. flights[k].waiters \in Nat
        BY <2>1, <4>1, CountedFlight, PendingFinite DEF OrphanOf
      <4>3. QED
        BY <2>1, <4>2, FlightFields
    <3>4. QED
      BY <3>2, <3>3
  <2>4. flights \in [Keys -> [gen : 0..MaxGen, waiters : Nat]]
    BY <2>1, <2>3, CountTypes DEF Flights
  <2>5. permits \in 0..Permits
    <3>1. permits \in Int /\ Permits \in Nat /\ Cardinality(Holders) \in Nat
      BY <2>1, HoldersFinite, CountTypes, ConfTypes
    <3>2. PICK n \in Nat : n = Cardinality(Holders)
      BY <3>1
    <3>3. PICK p \in Nat : p = Permits
      BY <3>1
    <3>4. permits \in Int /\ permits + n = p
      BY <2>1, <3>1, <3>2, <3>3
    <3>5. permits >= 0 /\ permits <= p
      BY <3>4, <2>1, CountTypes
    <3>6. QED
      BY <3>3, <3>4, <3>5
  <2>6. QED
    BY <2>1, <2>2, <2>4, <2>5, CountTypes DEF TypeOK, Caches, Stages
<1>2. QED
  BY <1>1, AlwaysService, PTL

\* The flights, the calls that wait for them and the owned jobs agree, through every
\* join, Waiter::drop, publish, panic and reap: both waiter counts are exact, nobody
\* waits for a flight without an owner, and a key has one owner.
THEOREM FlightsAlwaysSound == Spec => []FlightsSound
<1>1. ASSUME ServiceInv
      PROVE  FlightsSound
  <2>1. Typed /\ FlightInv
    BY <1>1 DEF ServiceInv
  <2>2. WaiterAccounting
    <3>1. PendingAll = UNION {Pending(k, g) : k \in Keys, g \in Generations}
      <4>1. \A c \in PendingAll : c \in Pending(client[c].key, client[c].gen) /\ client[c].key \in Keys
                                   /\ client[c].gen \in Generations
        BY <2>1, CallFields DEF PendingAll, Pending
      <4>2. \A k \in Keys, g \in Generations : Pending(k, g) \subseteq PendingAll
        BY DEF PendingAll, Pending
      <4>3. QED
        BY <4>1, <4>2
    <3>2. QED
      BY <2>1, <3>1 DEF WaiterAccounting, FlightInv, Counted, OrphanOf
  <2>3. WaiterHasOwner
    <3>1. SUFFICES ASSUME NEW c \in Clients, client[c].pc = "waiting", client[c].got.tag = "none"
                   PROVE  /\ flights[client[c].key].gen = client[c].gen
                          /\ job[client[c].gen].pc \in Running \union {"panicked"} \/ shut
      BY DEF WaiterHasOwner
    <3>2. flights[client[c].key].gen = client[c].gen /\ client[c].key \in Keys /\ client[c].gen # 0
      BY <2>1, <3>1, CallFields, CountTypes DEF FlightInv, WaitersRegistered, WaitsForFlight
    <3>3. QED
      BY <2>1, <3>2 DEF FlightInv, FlightOwned, Live
  <2>4. OneOwnerPerKey
    BY <2>1 DEF FlightInv, JobOwned, OneOwnerPerKey, TokenFired
  <2>5. QED
    BY <2>2, <2>3, <2>4 DEF FlightsSound
<1>2. QED
  BY <1>1, AlwaysService, PTL

\* Once shutdown() has emptied the state no late publish, promotion or retrieve()
\* refills it, and when it returns every job has ended.
THEOREM ShutdownIsFinal == Spec => []ShutdownFinal
<1>1. ASSUME ServiceInv
      PROVE  ShutdownFinal
  <2>1. FlightInv
    BY <1>1 DEF ServiceInv
  <2>2. ASSUME stage # "running"
        PROVE  waiters = 0
    <3>1. \A k \in Keys : flights[k].gen = 0
      BY <2>1, <2>2 DEF FlightInv, Drained, NoFlight
    <3>2. PendingAll = {}
      BY <1>1, <2>1, <3>1, CallFields, CountTypes
         DEF PendingAll, FlightInv, WaitersRegistered, WaitsForFlight, ServiceInv
    <3>3. QED
      BY <2>1, <3>2, FS_EmptySet DEF FlightInv, Counted
  <2>3. QED
    BY <2>1, <2>2 DEF ShutdownFinal, FlightInv, Drained
<1>2. QED
  BY <1>1, AlwaysService, PTL

----------------------------------------------------------------------------
(* Fences: evidence of a lookup, the epoch it was read under, and the store. *)

LEMMA EntryFields ==
  ASSUME Typed, NEW v \in Entries
  PROVE  v.at \in Int /\ v.at >= -1 /\ v.lookup \in BOOLEAN
<1>1. v.at \in -1..MaxClock /\ v.lookup \in BOOLEAN
  BY DEF Entries
<1>2. MaxClock \in Nat
  BY ConfTypes, CountTypes
<1>3. QED
  BY <1>1, <1>2

LEMMA NoEntryFields == NoEntry.at = -1 /\ NoEntry.lookup = FALSE
  BY DEF NoEntry

LEMMA NextStoreFields ==
  ASSUME Typed'
  PROVE  store'.epoch \in Nat /\ \A k \in Keys : store'.head[k].at \in Int /\ store'.head[k].at >= -1
<1>1. store' \in StoreRecords' /\ conf' \in Configurations
  BY DEF Typed, SetsTyped
<1>2. MaxClock' \in Nat
  BY <1>1, ServiceAssumption DEF MaxClock
<1>3. store'.epoch \in Nat /\ \A k \in Keys : store'.head[k] \in Entries'
  BY <1>1 DEF StoreRecords
<1>4. \A k \in Keys : store'.head[k].at \in -1..MaxClock'
  BY <1>3 DEF Entries
<1>5. QED
  BY <1>2, <1>3, <1>4

\* How a step may move the store without breaking a fence: the epoch moves, or the
\* store is not ready, or what leaves the heads is being evicted.
StoreSafe ==
  /\ store'.epoch \in Nat /\ store'.epoch >= store.epoch
  /\ \/ store'.epoch > store.epoch
     \/ store'.st # "ready"
     \/ /\ store.st = "ready" /\ Evicting \subseteq Evicting'
        /\ \A k \in Keys : store'.head[k].at >= store.head[k].at \/ k \in Evicting'

LEMMA FenceKept ==
  ASSUME Typed, Typed', StoreSafe, NEW ep \in Nat, ep <= store.epoch, NEW k \in Keys, NEW v \in Entries,
         Fenced(ep, k, v)
  PROVE  Fenced(ep, k, v)'
<1>1. SUFFICES ASSUME v.lookup, ep = store'.epoch, store'.st = "ready"
               PROVE  store'.head[k].at >= v.at \/ k \in Evicting'
  BY DEF Fenced
<1>2. store.epoch \in Nat /\ store.head[k].at \in Int /\ store'.head[k].at \in Int /\ v.at \in Int
  BY StoreFields, EntryFields, NextStoreFields
<1>3. ep = store.epoch /\ store.st = "ready" /\ Evicting \subseteq Evicting'
      /\ (store'.head[k].at >= store.head[k].at \/ k \in Evicting')
  BY <1>1, <1>2 DEF StoreSafe
<1>4. store.head[k].at >= v.at \/ k \in Evicting
  BY <1>1, <1>3 DEF Fenced
<1>5. QED
  BY <1>2, <1>3, <1>4

\* Evidence that is no lookup, and a lookup of the current head, are fenced.
LEMMA FenceOwn ==
  ASSUME NEW ep, NEW k, NEW v, v.lookup = FALSE
  PROVE  Fenced(ep, k, v) /\ Fenced(ep, k, v)'
  BY DEF Fenced

LEMMA FenceHead ==
  ASSUME Typed, NEW ep, NEW k \in Keys, NEW v, v = store.head[k]
  PROVE  Fenced(ep, k, v)
<1>1. store.head[k].at \in Int
  BY StoreFields
<1>2. QED
  BY <1>1 DEF Fenced

\* A job that the step leaves alone.
LEMMA OtherJobs ==
  ASSUME Typed, Typed', StoreSafe, NEW h \in Generations, JobSound(h), job'[h] = job[h],
         now' \in Int, now <= now',
         job[h].pc \in Publishing =>
           store'.head[job[h].key] \in {store.head[job[h].key], NoEntry}
  PROVE  JobSound(h)'
<1>1. /\ job[h].lep \in Nat /\ job[h].key \in Keys /\ job[h].value \in Entries
      /\ job[h].res \in Outcomes
  BY JobFields
<1>2. /\ job[h].res.ep \in Nat /\ job[h].res.value \in Entries
      /\ store.epoch \in Nat /\ now \in Int /\ store'.epoch \in Nat /\ store.epoch <= store'.epoch
  BY <1>1, StoreFields, CountTypes, ConfTypes DEF Outcomes, StoreSafe
<1>3. /\ job[h].value.at \in Int /\ job[h].value.at >= -1 /\ job[h].res.value.at \in Int
  BY <1>1, <1>2, EntryFields
<1>4. /\ job[h].lep <= store'.epoch /\ job[h].res.ep <= store'.epoch
      /\ job[h].value.at <= now' /\ job[h].res.value.at <= now'
  BY <1>1, <1>2, <1>3 DEF JobSound
<1>5. job[h].pc \in Publishing => store'.head[job[h].key].at <= job[h].value.at
  BY <1>1, <1>3, NoEntryFields, StoreFields DEF JobSound
<1>6. job[h].pc \in Captured => ~job[h].value.lookup
  BY DEF JobSound
<1>7. PICK e \in Nat, k \in Keys, v \in Entries : e = job[h].lep /\ k = job[h].key /\ v = job[h].value
  BY <1>1
<1>8. job[h].pc \in {"found", "settle"} => Fenced(e, k, v)'
  BY <1>2, <1>7, FenceKept DEF JobSound
<1>9. PICK r \in Nat, p \in Entries : r = job[h].res.ep /\ p = job[h].res.value
  BY <1>2
<1>10. job[h].pc = "publish" /\ job[h].res.tag = "ok" => Fenced(r, k, p)'
  BY <1>2, <1>7, <1>9, FenceKept DEF JobSound
<1>11. job'[h].lep = e /\ job'[h].key = k /\ job'[h].value = v /\ job'[h].res.ep = r /\ job'[h].res.value = p
  BY <1>7, <1>9
<1>12. /\ job'[h].pc \in {"found", "settle"} => Fenced(job[h].lep, job[h].key, job[h].value)'
       /\ job'[h].pc = "publish" /\ job'[h].res.tag = "ok" => Fenced(job[h].res.ep, job[h].key, job[h].res.value)'
  BY <1>8, <1>10, <1>11 DEF Fenced
<1>13. QED
  BY <1>4, <1>5, <1>6, <1>12 DEF JobSound

\* The job that moves, as x.
XSound(x) ==
  /\ x.lep <= store'.epoch /\ x.res.ep <= store'.epoch
  /\ x.value.at <= now' /\ x.res.value.at <= now'
  /\ x.pc \in Publishing => store'.head[x.key].at <= x.value.at
  /\ x.pc \in Captured => ~x.value.lookup
  /\ \A e, k, v : x.pc \in {"found", "settle"} /\ e = x.lep /\ k = x.key /\ v = x.value => Fenced(e, k, v)'
  /\ \A e, k, v : x.pc = "publish" /\ x.res.tag = "ok" /\ e = x.res.ep /\ k = x.key /\ v = x.res.value =>
       Fenced(e, k, v)'

LEMMA OwnJob ==
  ASSUME NEW g \in Generations, NEW x, job'[g] = x, XSound(x)
  PROVE  JobSound(g)'
<1>1. /\ job'[g].pc \in {"found", "settle"} => Fenced(job[g].lep, job[g].key, job[g].value)'
      /\ job'[g].pc = "publish" /\ job'[g].res.tag = "ok" => Fenced(job[g].res.ep, job[g].key, job[g].res.value)'
  BY DEF XSound, Fenced
<1>2. QED
  BY <1>1 DEF JobSound, XSound

\* A head stays or goes, or is the one job g commits.
HeadMoves(g, k) ==
  \/ store'.head[k] \in {store.head[k], NoEntry}
  \/ k = job[g].key /\ job[g].pc \in {"commit", "unsettled"} /\ store'.head[k].at = job[g].value.at

LEMMA HeadStays ==
  ASSUME NEW g, NEW k, store'.head[k] \in {store.head[k], NoEntry}
  PROVE  HeadMoves(g, k)
  BY DEF HeadMoves

\* What a step of job g to x owes the store's invariant.
WorkSafe(g, x) ==
  /\ Trans(g, x) /\ StoreSafe /\ HeadsPast' /\ TrimAlone' /\ XSound(x)
  /\ x.pc \in Running => job[g].pc \in Running
  /\ \A k \in Keys : HeadMoves(g, k)

\* What a job is evicting comes and goes only with its transaction.
SameDrop(g, x) == /\ x.pc \in Dropping <=> job[g].pc \in Dropping
                  /\ x.pc \in Dropping => x.evict = job[g].evict

LEMMA EvictingMember ==
  ASSUME NEW k
  PROVE  k \in Evicting <=> \/ k \in store.gone \/ k \in store.owed
                           \/ \E h \in Generations : job[h].pc \in Dropping /\ k \in job[h].evict
  BY DEF Evicting, Dropping

LEMMA EvictingMemberNext ==
  ASSUME NEW k
  PROVE  k \in Evicting' <=> \/ k \in store'.gone \/ k \in store'.owed
                            \/ \E h \in Generations : job'[h].pc \in Dropping /\ k \in job'[h].evict
  BY DEF Evicting, Dropping

LEMMA SameEvicting ==
  ASSUME Typed, NEW g \in Generations, NEW x, job' = [job EXCEPT ![g] = x], SameDrop(g, x),
         store'.gone = store.gone, store'.owed = store.owed
  PROVE  Evicting' = Evicting
<1>1. \A h \in Generations : job'[h] = IF h = g THEN x ELSE job[h]
  BY CountTypes
<1>2. \A h \in Generations : /\ job'[h].pc \in Dropping <=> job[h].pc \in Dropping
                             /\ job[h].pc \in Dropping => job'[h].evict = job[h].evict
  BY <1>1 DEF SameDrop
<1>3. \A k : k \in Evicting' <=> k \in Evicting
  BY <1>2, EvictingMember, EvictingMemberNext
<1>4. QED
  BY <1>3

LEMMA SameStore ==
  ASSUME Typed, StoreInv, NEW g \in Generations, NEW x, Trans(g, x), SameDrop(g, x), store' = store, now' = now
  PROVE  /\ StoreSafe /\ HeadsPast' /\ TrimAlone' /\ Evicting' = Evicting
         /\ \A k \in Keys : store'.head[k] \in {store.head[k], NoEntry}
<1>1. Evicting' = Evicting
  BY SameEvicting DEF Trans
<1>2. StoreSafe
  BY <1>1, StoreFields DEF StoreSafe
<1>3. QED
  BY <1>1, <1>2 DEF StoreInv, HeadsPast, TrimAlone

\* A job that ends with an error, whatever the step did to the store.
LEMMA ErrSound ==
  ASSUME Typed, Typed', now' = now, NEW g \in Generations, NEW x, NEW e \in Errors, Trans(g, x),
         Finishes(g, x, Err(e))
  PROVE  XSound(x)
<1>1. \A d \in Errors : Err(d).tag # "ok" /\ Err(d).ep = 0 /\ Err(d).value = NoEntry
  BY ErrTypes DEF Errors
<1>2. \E d \in Errors : x.res = Err(d)
  BY DEF Finishes, Errors
<1>3. x.res.tag # "ok" /\ x.res.ep = 0 /\ x.res.value = NoEntry
  BY <1>1, <1>2
<1>4. x.lep = 0 /\ x.value = NoEntry /\ x.pc = "publish"
  BY DEF Finishes
<1>5. store'.epoch \in Nat /\ now \in Nat
  BY NextStoreFields, CountTypes, ConfTypes
<1>6. 0 <= store'.epoch /\ -1 <= now'
  BY <1>5
<1>7. QED
  BY <1>3, <1>4, <1>6, NoEntryFields DEF XSound, Publishing, Captured

\* A job that ends with the evidence it holds.
LEMMA ValueSound ==
  ASSUME Typed, Typed', now' = now, StoreSafe, NEW g \in Generations, JobSound(g), NEW x, Trans(g, x),
         job[g].pc \in {"found", "settle"}, Finishes(g, x, Outcome("ok", job[g].value, job[g].lep))
  PROVE  XSound(x)
<1>1. \/ x.res = Outcome("ok", job[g].value, job[g].lep)
      \/ \E d \in {"storage", "cancelled"} : x.res = Err(d)
  BY DEF Finishes
<1>2. CASE x.res = Outcome("ok", job[g].value, job[g].lep)
  <2>1. x.res.ep = job[g].lep /\ x.res.value = job[g].value /\ x.lep = 0 /\ x.value = NoEntry /\ x.pc = "publish"
    BY <1>2 DEF Outcome, Finishes
  <2>2. PICK e \in Nat, k \in Keys, v \in Entries : e = job[g].lep /\ k = job[g].key /\ v = job[g].value
    BY JobFields
  <2>3. e <= store.epoch /\ v.at <= now /\ Fenced(e, k, v)
    BY <2>2 DEF JobSound
  <2>4. Fenced(e, k, v)'
    BY <2>3, FenceKept
  <2>5. store.epoch \in Nat /\ store'.epoch \in Nat /\ store.epoch <= store'.epoch /\ now \in Nat
    BY StoreFields, CountTypes, ConfTypes DEF StoreSafe
  <2>6. e <= store'.epoch /\ 0 <= store'.epoch /\ -1 <= now' /\ v.at <= now'
    BY <2>3, <2>5
  <2>7. x.key = k
    BY <2>2 DEF Trans
  <2>8. QED
    BY <2>1, <2>2, <2>4, <2>6, <2>7, NoEntryFields DEF XSound, Publishing, Captured
<1>3. ASSUME NEW d \in {"storage", "cancelled"}, x.res = Err(d)
      PROVE  XSound(x)
  <2>1. Finishes(g, x, Err(d)) /\ d \in Errors
    BY <1>3 DEF Finishes, Errors
  <2>2. QED
    BY <2>1, ErrSound
<1>4. QED
  BY <1>1, <1>2, <1>3

\* A job that goes on without new evidence, to a place that promises nothing new.
LEMMA IdleSound ==
  ASSUME Typed, Typed', now' = now, StoreSafe, NEW g \in Generations, JobSound(g), NEW x, Trans(g, x),
         x.value = job[g].value, x.res = job[g].res, x.lep \in Nat, x.lep <= store'.epoch,
         x.pc \notin {"found", "settle", "publish", "begin", "authorize", "commit", "unsettled", "drop", "accept"}
  PROVE  XSound(x)
<1>1. /\ job[g].res.ep \in Nat /\ store.epoch \in Nat /\ store'.epoch \in Nat /\ store.epoch <= store'.epoch
  BY JobFields, StoreFields DEF StoreSafe, Outcomes
<1>2. job[g].res.ep <= store'.epoch /\ job[g].value.at <= now' /\ job[g].res.value.at <= now'
  BY <1>1 DEF JobSound
<1>3. QED
  BY <1>2 DEF XSound, Publishing, Captured

LEMMA MemoryRefreshSafe ==
  ASSUME Typed, Typed', StoreInv, NEW g \in Generations, MemoryRefresh(g)
  PROVE  \E x : WorkSafe(g, x)
<1>1. job[g].pc = "fetch" /\ store' = store /\ now' = now
  BY MemoryRefreshForm, WorkFrame DEF WorkStep
<1>2. PICK x : /\ Trans(g, x) /\ x.pc = "publish" /\ x.lep = job[g].lep /\ x.value = job[g].value
               /\ \/ \E e \in {"cancelled", "upstream", "rejected"} : x.res = Err(e)
                  \/ x.res = Outcome("ok", [at |-> now, id |-> 0, lookup |-> FALSE], 0)
  <2>1. PICK x : /\ Trans(g, x) /\ x.pc = "publish" /\ x.lep = job[g].lep /\ x.value = job[g].value
                 /\ \/ x.res = Err("cancelled")
                    \/ x.res \in {Err("upstream"), Err("rejected")}
                    \/ x.res = Outcome("ok", [at |-> now, id |-> 0, lookup |-> FALSE], 0)
    BY MemoryRefreshForm, ZenonT(30)
  <2>2. \/ \E e \in {"cancelled", "upstream", "rejected"} : x.res = Err(e)
        \/ x.res = Outcome("ok", [at |-> now, id |-> 0, lookup |-> FALSE], 0)
    BY <2>1
  <2>3. QED
    BY <2>1, <2>2
<1>3. SameDrop(g, x)
  BY <1>1, <1>2 DEF SameDrop, Dropping
<1>4. /\ StoreSafe /\ HeadsPast' /\ TrimAlone' /\ \A k \in Keys : store'.head[k] \in {store.head[k], NoEntry}
  BY <1>1, <1>2, <1>3, SameStore
<1>5. x.res.ep = 0 /\ x.res.value.at <= now /\ x.res.value.lookup = FALSE
  <2>1. now \in Nat
    BY CountTypes, ConfTypes
  <2>2. CASE \E e \in {"cancelled", "upstream", "rejected"} : x.res = Err(e)
    <3>1. x.res.ep = 0 /\ x.res.value = NoEntry
      BY <2>2, ErrTypes DEF Errors
    <3>2. QED
      BY <2>1, <3>1, NoEntryFields
  <2>3. CASE x.res = Outcome("ok", [at |-> now, id |-> 0, lookup |-> FALSE], 0)
    BY <2>1, <2>3 DEF Outcome
  <2>4. QED
    BY <1>2, <2>2, <2>3
<1>6. /\ job[g].lep <= store.epoch /\ job[g].value.at <= now /\ store.epoch \in Nat
  BY StoreFields DEF StoreInv, JobSound
<1>7. \A e, k, v : v = x.res.value => Fenced(e, k, v)'
  BY <1>5, FenceOwn
<1>8. XSound(x)
  BY <1>1, <1>2, <1>5, <1>6, <1>7 DEF XSound, Publishing, Captured
<1>9. QED
  BY <1>1, <1>2, <1>4, <1>8, HeadStays DEF WorkSafe, Running, JobPCs

\* The steps that leave the store alone.
LEMMA QuietSafe ==
  ASSUME Typed, Typed', StoreInv, NEW g \in Generations, NEW x, Trans(g, x), store' = store, now' = now,
         SameDrop(g, x), StoreSafe => XSound(x), x.pc \in Running => job[g].pc \in Running
  PROVE  WorkSafe(g, x)
<1>1. /\ StoreSafe /\ HeadsPast' /\ TrimAlone' /\ \A k \in Keys : store'.head[k] \in {store.head[k], NoEntry}
  BY SameStore
<1>2. QED
  BY <1>1, HeadStays DEF WorkSafe

LEMMA QuietErr ==
  ASSUME Typed, Typed', StoreInv, NEW g \in Generations, NEW x, NEW e \in Errors, Trans(g, x),
         store' = store, now' = now, job[g].pc \in Running \ Dropping, Finishes(g, x, Err(e))
  PROVE  WorkSafe(g, x)
<1>1. XSound(x)
  BY ErrSound
<1>2. SameDrop(g, x)
  BY DEF SameDrop, Dropping, Finishes
<1>3. QED
  BY <1>1, <1>2, QuietSafe

LEMMA QuietIdle ==
  ASSUME Typed, Typed', StoreInv, NEW g \in Generations, NEW x, Trans(g, x),
         store' = store, now' = now, job[g].pc \in Running \ Dropping,
         x.value = job[g].value, x.res = job[g].res, x.lep \in {job[g].lep, store.epoch},
         x.pc \notin Dropping \union {"found", "settle", "publish", "begin", "authorize", "commit", "unsettled",
                               "accept"}
  PROVE  WorkSafe(g, x)
<1>1. SameDrop(g, x)
  BY DEF SameDrop, Dropping
<1>2. /\ JobSound(g) /\ store.epoch \in Nat /\ job[g].lep \in Nat /\ job[g].lep <= store.epoch
  BY StoreFields, JobFields DEF StoreInv, JobSound
<1>3. x.lep \in Nat /\ x.lep <= store'.epoch
  BY <1>2
<1>4. StoreSafe => XSound(x)
  BY <1>2, <1>3, IdleSound DEF Dropping
<1>5. QED
  BY <1>1, <1>4, QuietSafe

LEMMA StartLookupSafe ==
  ASSUME Typed, Typed', StoreInv, NEW g \in Generations,
         JobStart(g) \/ JobLookup(g) \/ JobUnusable(g) \/ JobAdmit(g) \/ JobPanic(g)
  PROVE  \E x : WorkSafe(g, x)
<1> USE DEF Errors, Running, JobPCs, Dropping
<1>1. now' = now
  BY WorkFrame DEF WorkStep
<1>2. CASE JobStart(g)
  <2>1. job[g].pc = "start" /\ store' = store
    BY <1>2, JobStartForm
  <2>2. PICK x : Trans(g, x) /\
              \/ Finishes(g, x, Err("cancelled"))
              \/ x.pc = "lookup" /\ x.lep = job[g].lep /\ x.value = job[g].value /\ x.res = job[g].res
    BY <1>2, JobStartForm
  <2>3. WorkSafe(g, x)
    BY <1>1, <2>1, <2>2, QuietErr, QuietIdle
  <2>4. QED
    BY <2>3
<1>3. CASE JobLookup(g)
  <2>1. job[g].pc \in {"lookup", "relook"} /\ store' = store
    BY <1>3, JobLookupForm
  <2>2. PICK x : Trans(g, x) /\
              \/ \E e \in {"busy", "corrupt", "storage", "cancelled"} : Finishes(g, x, Err(e))
              \/ x.pc = "rows" /\ x.lep = store.epoch /\ x.value = job[g].value /\ x.res = job[g].res
    BY <1>3, JobLookupForm
  <2>3. WorkSafe(g, x)
    BY <1>1, <2>1, <2>2, QuietErr, QuietIdle
  <2>4. QED
    BY <2>3
<1>4. CASE JobUnusable(g)
  <2>1. job[g].pc = "found" /\ store' = store
    BY <1>4, JobUnusableForm
  <2>2. PICK x : Trans(g, x) /\
              \/ Finishes(g, x, Err("cancelled"))
              \/ x.pc = "admit" /\ x.lep = job[g].lep /\ x.value = job[g].value /\ x.res = job[g].res
    BY <1>4, JobUnusableForm
  <2>3. WorkSafe(g, x)
    BY <1>1, <2>1, <2>2, QuietErr, QuietIdle
  <2>4. QED
    BY <2>3
<1>5. CASE JobAdmit(g)
  <2>1. job[g].pc = "admit" /\ store' = store
    BY <1>5, JobAdmitForm
  <2>2. PICK x : Trans(g, x) /\
              \/ \E e \in {"busy", "corrupt", "storage", "cancelled"} : Finishes(g, x, Err(e))
              \/ x.pc = "fetch" /\ x.lep = job[g].lep /\ x.value = job[g].value /\ x.res = job[g].res
    BY <1>5, JobAdmitForm
  <2>3. WorkSafe(g, x)
    BY <1>1, <2>1, <2>2, QuietErr, QuietIdle
  <2>4. QED
    BY <2>3
<1>6. CASE JobPanic(g)
  <2>1. job[g].pc = "fetch" /\ store' = store
    BY <1>6, JobPanicForm
  <2>2. PICK x : Trans(g, x) /\ x.pc = "panicked" /\ x.lep = job[g].lep /\ x.value = job[g].value /\ x.res = job[g].res
    BY <1>6, JobPanicForm
  <2>3. WorkSafe(g, x)
    BY <1>1, <2>1, <2>2, QuietIdle
  <2>4. QED
    BY <2>3
<1>7. QED
  BY <1>2, <1>3, <1>4, <1>5, <1>6

LEMMA RowsSafe ==
  ASSUME Typed, Typed', StoreInv, NEW g \in Generations, JobRows(g)
  PROVE  \E x : WorkSafe(g, x)
<1>1. now' = now /\ job[g].pc = "rows" /\ store' = store
  BY WorkFrame, JobRowsForm DEF WorkStep
<1>2. PICK x : Trans(g, x) /\
              \/ Finishes(g, x, Err("busy"))
              \/ /\ x.pc \in {"admit", "settle", "found"} /\ x.value = store.head[job[g].key]
                 /\ x.lep = job[g].lep /\ x.res = job[g].res
  BY JobRowsForm
<1>3. CASE Finishes(g, x, Err("busy"))
  BY <1>1, <1>2, <1>3, QuietErr DEF Errors, Running, JobPCs, Dropping
<1>4. CASE /\ x.pc \in {"admit", "settle", "found"} /\ x.value = store.head[job[g].key]
           /\ x.lep = job[g].lep /\ x.res = job[g].res
  <2>1. PICK e \in Nat, k \in Keys, v \in Entries : e = job[g].lep /\ k = job[g].key /\ v = store.head[k]
    BY JobFields, StoreFields
  <2>2. Fenced(e, k, v)
    BY <2>1, FenceHead
  <2>3. SameDrop(g, x)
    BY <1>1, <1>4 DEF SameDrop, Dropping
  <2>4. Evicting' = Evicting
    BY <1>1, <1>2, <2>3, SameStore
  <2>5. Fenced(e, k, v)'
    BY <1>1, <2>2, <2>4 DEF Fenced
  <2>6. v.at <= now /\ job[g].lep <= store.epoch /\ job[g].res.ep <= store.epoch /\ job[g].res.value.at <= now
    BY <2>1 DEF StoreInv, HeadsPast, JobSound
  <2>7. XSound(x)
    BY <1>1, <1>2, <1>4, <2>1, <2>5, <2>6 DEF XSound, Publishing, Captured, Trans
  <2>8. QED
    BY <1>1, <1>2, <2>3, <2>7, QuietSafe DEF Running, JobPCs
<1>5. QED
  BY <1>2, <1>3, <1>4

LEMMA RefreshSafe ==
  ASSUME Typed, Typed', StoreInv, NEW g \in Generations, JobRefresh(g)
  PROVE  \E x : WorkSafe(g, x)
<1>1. now' = now /\ job[g].pc = "fetch" /\ store' = store
  BY WorkFrame, JobRefreshForm DEF WorkStep
<1>2. PICK x : Trans(g, x) /\
              \/ \E e \in Errors : Finishes(g, x, Err(e))
              \/ /\ x.pc = "begin" /\ x.value = [at |-> now, id |-> 0, lookup |-> FALSE]
                 /\ x.lep = job[g].lep /\ x.res = job[g].res
  BY JobRefreshForm DEF Refusals, Errors
<1>3. CASE \E e \in Errors : Finishes(g, x, Err(e))
  BY <1>1, <1>2, <1>3, QuietErr DEF Running, JobPCs, Dropping
<1>4. CASE /\ x.pc = "begin" /\ x.value = [at |-> now, id |-> 0, lookup |-> FALSE]
           /\ x.lep = job[g].lep /\ x.res = job[g].res
  <2>1. x.value.at = now /\ x.value.lookup = FALSE
    BY <1>4
  <2>2. /\ store.head[job[g].key].at <= now /\ now \in Nat
        /\ job[g].lep <= store.epoch /\ job[g].res.ep <= store.epoch /\ job[g].res.value.at <= now
    BY JobFields, CountTypes, ConfTypes DEF StoreInv, HeadsPast, JobSound
  <2>3. XSound(x)
    BY <1>1, <1>2, <1>4, <2>1, <2>2 DEF XSound, Publishing, Captured, Trans
  <2>4. SameDrop(g, x)
    BY <1>1, <1>4 DEF SameDrop, Dropping
  <2>5. QED
    BY <1>1, <1>2, <2>3, <2>4, QuietSafe DEF Running, JobPCs
<1>5. QED
  BY <1>2, <1>3, <1>4

LEMMA SettleSafe ==
  ASSUME Typed, Typed', StoreInv, NEW g \in Generations, JobAccept(g) \/ JobSettle(g)
  PROVE  \E x : WorkSafe(g, x)
<1>1. now' = now /\ store' = store /\ JobSound(g)
  BY WorkFrame, JobAcceptForm, JobSettleForm DEF WorkStep, StoreInv
<1>2. CASE JobAccept(g)
  <2>1. PICK x : Trans(g, x) /\ x.pc = "settle" /\ x.lep = store.epoch /\ x.value = job[g].value /\ x.res = job[g].res
    BY <1>2, JobAcceptForm
  <2>2. job[g].pc = "accept" /\ x.value.lookup = FALSE /\ store.epoch \in Nat
    BY <1>1, <1>2, <2>1, JobAcceptForm, JobFields, StoreFields DEF JobSound, Captured
  <2>3. \A e, k, v : v = x.value => Fenced(e, k, v)'
    BY <2>2, FenceOwn
  <2>4. XSound(x)
    BY <1>1, <2>1, <2>2, <2>3 DEF XSound, Publishing, Captured, JobSound
  <2>5. QED
    BY <1>1, <2>1, <2>2, <2>4, QuietSafe DEF SameDrop, Dropping, Running, JobPCs
<1>3. CASE JobSettle(g)
  <2>1. PICK x : Trans(g, x) /\
              \/ \E e \in Errors : Finishes(g, x, Err(e))
              \/ Finishes(g, x, Outcome("ok", job[g].value, job[g].lep))
    BY <1>3, JobSettleForm DEF Refusals, Errors
  <2>2. job[g].pc = "settle"
    BY <1>3, JobSettleForm
  <2>3. CASE \E e \in Errors : Finishes(g, x, Err(e))
    BY <1>1, <2>1, <2>2, <2>3, QuietErr DEF Running, JobPCs, Dropping
  <2>4. CASE Finishes(g, x, Outcome("ok", job[g].value, job[g].lep))
    <3>1. SameDrop(g, x)
      BY <2>2, <2>4 DEF SameDrop, Dropping, Finishes
    <3>2. StoreSafe => XSound(x)
      BY <1>1, <2>1, <2>2, <2>4, ValueSound
    <3>3. QED
      BY <1>1, <2>1, <2>2, <3>1, <3>2, QuietSafe DEF Running, JobPCs
  <2>5. QED
    BY <2>1, <2>3, <2>4
<1>4. QED
  BY <1>2, <1>3

LEMMA DeadlineSafe ==
  ASSUME Typed, Typed', StoreInv, NEW g \in Generations, JobDeadline(g)
  PROVE  \E x : WorkSafe(g, x)
<1>1. now' = now /\ store' = store /\ JobSound(g) /\ job[g].pc \in Running
  BY WorkFrame, JobDeadlineForm DEF WorkStep, StoreInv
<1>2. PICK x : /\ Trans(g, x) /\ x.pc = job[g].pc /\ x.lep = job[g].lep /\ x.value = job[g].value
               /\ x.evict = job[g].evict /\ x.res = job[g].res
  BY JobDeadlineForm
<1>3. SameDrop(g, x)
  BY <1>2 DEF SameDrop, Dropping
<1>4. Evicting' = Evicting
  BY <1>1, <1>2, <1>3, SameStore
<1>5. x.key = job[g].key
  BY <1>2 DEF Trans
<1>6. \A e, k, v : Fenced(e, k, v) => Fenced(e, k, v)'
  BY <1>1, <1>4 DEF Fenced
<1>7. XSound(x)
  BY <1>1, <1>2, <1>5, <1>6 DEF XSound, JobSound
<1>8. QED
  BY <1>1, <1>2, <1>3, <1>7, QuietSafe

\* A step that raises or opens a barrier moves the epoch and nothing else.
LEMMA MovedSafe ==
  ASSUME Typed, StoreInv, now' = now, store'.epoch = store.epoch + 1, store'.head = store.head,
         store'.trim = store.trim, store'.gone = store.gone, store'.lost = store.lost,
         store'.owed = store.owed
  PROVE  /\ StoreSafe /\ HeadsPast' /\ TrimAlone'
         /\ \A k \in Keys : store'.head[k] \in {store.head[k], NoEntry}
<1>1. store.epoch \in Nat
  BY StoreFields
<1>2. store'.epoch \in Nat /\ store'.epoch > store.epoch /\ store'.epoch >= store.epoch
  BY <1>1
<1>3. QED
  BY <1>2 DEF StoreSafe, StoreInv, HeadsPast, TrimAlone

\* A job on its way to the commit.
LEMMA CaptureSound ==
  ASSUME Typed, now' = now, StoreSafe, store'.head = store.head, NEW g \in Generations, JobSound(g), NEW x,
         Trans(g, x), x.value = job[g].value, x.res = job[g].res, x.lep = job[g].lep,
         job[g].pc \in {"begin", "authorize", "commit"}, x.pc \in {"authorize", "commit", "unsettled"}
  PROVE  XSound(x)
<1>1. /\ job[g].res.ep \in Nat /\ job[g].lep \in Nat /\ store.epoch \in Nat /\ store'.epoch \in Nat
      /\ store.epoch <= store'.epoch
  BY JobFields, StoreFields DEF StoreSafe, Outcomes
<1>2. job[g].res.ep <= store'.epoch /\ job[g].lep <= store'.epoch
  BY <1>1 DEF JobSound
<1>3. QED
  BY <1>2 DEF XSound, JobSound, Publishing, Captured, Trans

LEMMA BeginSafe ==
  ASSUME Typed, Typed', StoreInv, NEW g \in Generations, JobBegin(g)
  PROVE  \E x : WorkSafe(g, x)
<1>1. now' = now /\ JobSound(g) /\ job[g].pc = "begin" /\ job[g].pc \in Running \ Dropping
  BY WorkFrame, JobBeginForm DEF WorkStep, StoreInv, Running, JobPCs, Dropping
<1>2. PICK x : Trans(g, x) /\
              \/ (\E e \in {"busy", "corrupt", "storage", "cancelled"} : Finishes(g, x, Err(e))) /\ store' = store
              \/ /\ x.pc = "relook" /\ store' = store /\ x.lep = job[g].lep /\ x.value = job[g].value
                 /\ x.res = job[g].res
              \/ /\ x.pc = "authorize" /\ store' = (IF x.evict = {} THEN store ELSE Barrier(store))
                 /\ x.lep = job[g].lep /\ x.value = job[g].value /\ x.res = job[g].res
  BY JobBeginForm
<1>3. CASE (\E e \in {"busy", "corrupt", "storage", "cancelled"} : Finishes(g, x, Err(e))) /\ store' = store
  BY <1>1, <1>2, <1>3, QuietErr DEF Errors
<1>4. CASE /\ x.pc = "relook" /\ store' = store /\ x.lep = job[g].lep /\ x.value = job[g].value
           /\ x.res = job[g].res
  BY <1>1, <1>2, <1>4, QuietIdle DEF Dropping
<1>5. CASE /\ x.pc = "authorize" /\ store' = (IF x.evict = {} THEN store ELSE Barrier(store))
           /\ x.lep = job[g].lep /\ x.value = job[g].value /\ x.res = job[g].res
  <2>1. SameDrop(g, x)
    BY <1>1, <1>5 DEF SameDrop, Dropping
  <2>2. store'.head = store.head
    BY <1>5, BarrierFields, CountTypes
  <2>3. StoreSafe => XSound(x)
    BY <1>1, <1>2, <1>5, <2>2, CaptureSound
  <2>4. CASE x.evict = {}
    <3>1. store' = store
      BY <1>5, <2>4
    <3>2. QED
      BY <1>1, <1>2, <2>1, <2>3, <3>1, QuietSafe
  <2>5. CASE x.evict # {}
    <3>1. /\ store'.epoch = store.epoch + 1 /\ store'.head = store.head /\ store'.trim = store.trim
          /\ store'.gone = store.gone
          /\ store'.lost = store.lost /\ store'.owed = store.owed
      BY <1>5, <2>5, BarrierFields, CountTypes
    <3>2. /\ StoreSafe /\ HeadsPast' /\ TrimAlone'
          /\ \A k \in Keys : store'.head[k] \in {store.head[k], NoEntry}
      BY <1>1, <3>1, MovedSafe
    <3>3. QED
      BY <1>1, <1>2, <2>3, <3>2, HeadStays DEF WorkSafe
  <2>6. QED
    BY <2>4, <2>5
<1>6. QED
  BY <1>2, <1>3, <1>4, <1>5

LEMMA AuthorizeSafe ==
  ASSUME Typed, Typed', StoreInv, NEW g \in Generations, JobAuthorize(g)
  PROVE  \E x : WorkSafe(g, x)
<1>1. now' = now /\ JobSound(g) /\ job[g].pc = "authorize" /\ job[g].pc \in Running \ Dropping
  BY WorkFrame, JobAuthorizeForm DEF WorkStep, StoreInv, Running, JobPCs, Dropping
<1>2. PICK x : Trans(g, x) /\
              \/ /\ Finishes(g, x, Err("cancelled"))
                 /\ store' = (IF job[g].evict = {} THEN store ELSE Unbarrier(store))
              \/ /\ x.pc = "commit" /\ store' = store /\ x.lep = job[g].lep /\ x.value = job[g].value
                 /\ x.res = job[g].res
  BY JobAuthorizeForm
<1>3. CASE Finishes(g, x, Err("cancelled")) /\ store' = store
  BY <1>1, <1>2, <1>3, QuietErr DEF Errors
<1>4. CASE Finishes(g, x, Err("cancelled")) /\ store' = Unbarrier(store)
  <2>1. /\ store'.epoch = store.epoch + 1 /\ store'.head = store.head /\ store'.trim = store.trim
        /\ store'.gone = store.gone
        /\ store'.lost = store.lost /\ store'.owed = store.owed
    BY <1>4, UnbarrierFields, CountTypes
  <2>2. /\ StoreSafe /\ HeadsPast' /\ TrimAlone'
        /\ \A k \in Keys : store'.head[k] \in {store.head[k], NoEntry}
    BY <1>1, <2>1, MovedSafe
  <2>3. XSound(x)
    BY <1>1, <1>2, <1>4, ErrSound DEF Errors
  <2>4. QED
    BY <1>1, <1>2, <2>2, <2>3, HeadStays DEF WorkSafe
<1>5. CASE /\ x.pc = "commit" /\ store' = store /\ x.lep = job[g].lep /\ x.value = job[g].value
           /\ x.res = job[g].res
  <2>1. SameDrop(g, x)
    BY <1>1, <1>5 DEF SameDrop, Dropping
  <2>2. StoreSafe => XSound(x)
    BY <1>1, <1>2, <1>5, CaptureSound
  <2>3. QED
    BY <1>1, <1>2, <1>5, <2>1, <2>2, QuietSafe
<1>6. QED
  BY <1>2, <1>3, <1>4, <1>5

\* The heads a commit leaves.
LEMMA CommitHeads ==
  ASSUME Typed, StoreInv, NEW g \in Generations, now' = now, store'.head = Committed(g).head
  PROVE  /\ HeadsPast' /\ store'.head[job[g].key].at = job[g].value.at
         /\ \A k \in Keys : k # job[g].key => store'.head[k] = IF k \in job[g].evict THEN NoEntry ELSE store.head[k]
<1>1. job[g].key \in Keys /\ job[g].value.at \in Int /\ job[g].value.at <= now /\ now \in Nat
  BY JobFields, CountTypes, ConfTypes DEF StoreInv, JobSound
<1>2. /\ store'.head[job[g].key].at = job[g].value.at
      /\ \A k \in Keys : k # job[g].key => store'.head[k] = IF k \in job[g].evict THEN NoEntry ELSE store.head[k]
  <2>1. store'.head[job[g].key] = [at |-> job[g].value.at, id |-> store.next + 1, lookup |-> TRUE]
    BY CommittedFields
  <2>2. store'.head[job[g].key].at = job[g].value.at
    BY <2>1
  <2>3. \A k \in Keys \ {job[g].key} : store'.head[k] = IF k \in job[g].evict THEN NoEntry ELSE store.head[k]
    BY CommittedFields, ZenonT(30)
  <2>4. QED
    BY <2>2, <2>3
<1>3. ASSUME NEW k \in Keys
      PROVE  store'.head[k].at <= now'
  <2>1. store.head[k].at <= now /\ -1 <= now
    BY <1>1 DEF StoreInv, HeadsPast
  <2>2. QED
    BY <1>1, <1>2, <2>1, NoEntryFields
<1>4. QED
  BY <1>2, <1>3 DEF HeadsPast

\* A COMMIT that the server applies, before its answer is lost or after.
LEMMA CommittingSafe ==
  ASSUME Typed, Typed', StoreInv, now' = now, NEW g \in Generations, NEW x, Trans(g, x),
         job[g].pc \in {"commit", "unsettled"}, store' = Committed(g), x.pc \in Dropping,
         x.value.at = job[g].value.at, x.value.lookup = job[g].value.lookup, x.lep = job[g].lep,
         x.evict = job[g].evict, x.res = job[g].res
  PROVE  WorkSafe(g, x)
<1>1. JobSound(g) /\ job[g].pc \in Running
  BY DEF StoreInv, Running, JobPCs
<1>3. /\ HeadsPast' /\ store'.head[job[g].key].at = job[g].value.at
      /\ \A k \in Keys : k # job[g].key => store'.head[k] = IF k \in job[g].evict THEN NoEntry ELSE store.head[k]
  BY CommitHeads
<1>4. /\ store'.epoch = store.epoch /\ store'.st = store.st /\ store'.gone = store.gone
      /\ store'.lost = store.lost /\ store'.owed = store.owed /\ store'.trim = store.trim
  BY CommittedFields
<1>5. \A h \in Generations : job'[h] = IF h = g THEN x ELSE job[h]
  BY CountTypes DEF Trans
<1>6. Evicting \subseteq Evicting' /\ job[g].evict \subseteq Evicting'
  <2>1. job[g].pc \notin Dropping
    BY DEF Dropping
  <2>2. QED
    BY <1>4, <1>5, <2>1, EvictingMember, EvictingMemberNext
<1>7. ASSUME NEW k \in Keys
      PROVE  store'.head[k].at >= store.head[k].at \/ k \in Evicting'
  <2>1. store.head[k].at \in Int /\ job[g].value.at \in Int
    BY StoreFields, JobFields
  <2>2. CASE k = job[g].key
    BY <1>1, <1>3, <2>1, <2>2 DEF JobSound, Publishing
  <2>3. CASE k # job[g].key
    BY <1>3, <1>6, <2>1, <2>3
  <2>4. QED
    BY <2>2, <2>3
<1>8. StoreSafe
  BY <1>4, <1>6, <1>7, StoreFields DEF StoreSafe
<1>9. XSound(x)
  BY <1>1, <1>4 DEF XSound, JobSound, Publishing, Captured, Dropping
<1>10. TrimAlone'
  BY <1>4 DEF StoreInv, TrimAlone
<1>11. \A k \in Keys : HeadMoves(g, k)
  BY <1>1, <1>3 DEF HeadMoves
<1>12. QED
  BY <1>1, <1>3, <1>8, <1>9, <1>10, <1>11 DEF WorkSafe

LEMMA CommitSafe ==
  ASSUME Typed, Typed', StoreInv, NEW g \in Generations, JobCommit(g)
  PROVE  \E x : WorkSafe(g, x)
<1>1. now' = now /\ job[g].pc = "commit" /\ store' = Committed(g)
  BY WorkFrame, JobCommitForm DEF WorkStep
<1>2. PICK x : /\ Trans(g, x) /\ x.pc = "drop" /\ x.value.at = job[g].value.at
               /\ x.value.lookup = job[g].value.lookup /\ x.lep = job[g].lep /\ x.evict = job[g].evict
               /\ x.res = job[g].res
  BY JobCommitForm
<1>3. QED
  BY <1>1, <1>2, CommittingSafe DEF Dropping

LEMMA CommitLostSafe ==
  ASSUME Typed, Typed', StoreInv, NEW g \in Generations, JobCommitLost(g)
  PROVE  \E x : WorkSafe(g, x)
<1>1. now' = now /\ JobSound(g) /\ job[g].pc \in {"commit", "drop"} /\ job[g].pc \in Running
  BY WorkFrame, JobCommitLostForm DEF WorkStep, StoreInv, Running, JobPCs
<1>2. PICK x : /\ Stays(g, x)
               /\ job[g].pc = "commit" => x.pc = "unsettled"
               /\ job[g].pc = "drop" => x.pc = "record"
  BY JobCommitLostForm
<1>3. Trans(g, x) /\ x.lep = job[g].lep /\ x.value = job[g].value /\ x.evict = job[g].evict /\ x.res = job[g].res
  BY <1>2 DEF Stays
<1>4. store \in StoreRecords /\ store' \in Unwound(job[g].evict) /\ job[g].evict \in SUBSET Keys
  BY CountTypes, JobCommitLostForm, JobFields
<1>5. /\ store'.epoch = (IF job[g].evict = {} THEN store.epoch ELSE store.epoch + 1)
      /\ store'.head = store.head /\ store'.trim = store.trim /\ store'.gone = store.gone
      /\ store'.lost = store.lost /\ store'.owed = store.owed
      /\ store'.st = "ready" /\ job[g].evict = {} => store.st = "ready"
  BY <1>4, UnwoundFields
<1>6. StoreSafe /\ HeadsPast' /\ TrimAlone' /\ \A k \in Keys : store'.head[k] \in {store.head[k], NoEntry}
  <2>1. CASE job[g].evict = {}
    <3>1. SameDrop(g, x)
      BY <1>1, <1>2, <1>3 DEF SameDrop, Dropping
    <3>2. Evicting' = Evicting
      BY <1>3, <1>5, <3>1, SameEvicting DEF Trans
    <3>3. StoreSafe
      BY <1>5, <2>1, <3>2, StoreFields DEF StoreSafe
    <3>4. QED
      BY <1>1, <1>5, <3>3 DEF StoreInv, HeadsPast, TrimAlone
  <2>2. CASE job[g].evict # {}
    BY <1>1, <1>5, <2>2, MovedSafe
  <2>3. QED
    BY <2>1, <2>2
<1>7. XSound(x)
  <2>1. CASE job[g].pc = "commit"
    BY <1>1, <1>2, <1>3, <1>5, <1>6, <2>1, CaptureSound
  <2>2. CASE job[g].pc = "drop"
    <3>1. job[g].lep \in Nat /\ job[g].lep <= store.epoch /\ store.epoch \in Nat
      BY <1>1, JobFields, StoreFields DEF JobSound
    <3>2. x.lep \in Nat /\ x.lep <= store'.epoch
      BY <1>3, <1>5, <3>1
    <3>3. QED
      BY <1>1, <1>2, <1>3, <1>6, <2>2, <3>2, IdleSound
  <2>3. QED
    BY <1>1, <2>1, <2>2
<1>8. QED
  BY <1>1, <1>3, <1>6, <1>7, HeadStays DEF WorkSafe

LEMMA SettledSafe ==
  ASSUME Typed, Typed', StoreInv, NEW g \in Generations, JobSettled(g)
  PROVE  \E x : WorkSafe(g, x)
<1>1. now' = now /\ JobSound(g) /\ job[g].pc = "unsettled" /\ job[g].pc \in Running
  BY WorkFrame, JobSettledForm DEF WorkStep, StoreInv, Running, JobPCs
<1>2. PICK x : Stays(g, x) /\ x.pc = "record"
  BY JobSettledForm
<1>3. Trans(g, x) /\ x.lep = job[g].lep /\ x.value = job[g].value /\ x.evict = job[g].evict /\ x.res = job[g].res
  BY <1>2 DEF Stays
<1>4. CASE store' = Committed(g)
  BY <1>1, <1>2, <1>3, <1>4, CommittingSafe DEF Dropping
<1>5. CASE store' = store
  <2>1. \A h \in Generations : job'[h] = IF h = g THEN x ELSE job[h]
    BY <1>3, CountTypes DEF Trans
  <2>2. job[g].pc \notin Dropping
    BY <1>1 DEF Dropping
  <2>3. Evicting \subseteq Evicting'
    BY <1>5, <2>1, <2>2, EvictingMember, EvictingMemberNext
  <2>4. StoreSafe
    BY <1>5, <2>3, StoreFields DEF StoreSafe
  <2>5. HeadsPast' /\ TrimAlone' /\ \A k \in Keys : store'.head[k] \in {store.head[k], NoEntry}
    BY <1>1, <1>5 DEF StoreInv, HeadsPast, TrimAlone
  <2>6. x.lep \in Nat /\ x.lep <= store'.epoch
    BY <1>1, <1>3, <1>5, JobFields DEF JobSound
  <2>7. XSound(x)
    BY <1>1, <1>2, <1>3, <2>4, <2>6, IdleSound
  <2>8. QED
    BY <1>1, <1>3, <2>4, <2>5, <2>7, HeadStays DEF WorkSafe
<1>6. QED
  BY <1>4, <1>5, JobSettledForm

LEMMA DropSafe ==
  ASSUME Typed, Typed', StoreInv, NEW g \in Generations, JobDrop(g)
  PROVE  \E x : WorkSafe(g, x)
<1>1. now' = now /\ JobSound(g) /\ job[g].pc = "drop" /\ job[g].pc \in Running
  BY WorkFrame, JobDropForm DEF WorkStep, StoreInv, Running, JobPCs
<1>2. PICK x : /\ Trans(g, x) /\ x.pc = "accept" /\ x.evict = {} /\ x.lep = job[g].lep /\ x.value = job[g].value
               /\ x.res = job[g].res
  BY JobDropForm
<1>3. store' = IF job[g].evict = {} THEN store ELSE Unbarrier(store)
  BY DEF JobDrop
<1>4. StoreSafe /\ HeadsPast' /\ TrimAlone' /\ \A k \in Keys : store'.head[k] \in {store.head[k], NoEntry}
  <2>1. CASE job[g].evict = {}
    <3>1. store' = store
      BY <1>3, <2>1
    <3>2. \A h \in Generations : job'[h] = IF h = g THEN x ELSE job[h]
      BY <1>2, CountTypes DEF Trans
    <3>4. Evicting \subseteq Evicting'
      BY <2>1, <3>1, <3>2, EvictingMember, EvictingMemberNext
    <3>5. StoreSafe
      BY <3>1, <3>4, StoreFields DEF StoreSafe
    <3>6. QED
      BY <1>1, <3>1, <3>5 DEF StoreInv, HeadsPast, TrimAlone
  <2>2. CASE job[g].evict # {}
    <3>1. /\ store'.epoch = store.epoch + 1 /\ store'.head = store.head /\ store'.trim = store.trim
          /\ store'.gone = store.gone
          /\ store'.lost = store.lost /\ store'.owed = store.owed
      BY <1>3, <2>2, UnbarrierFields, CountTypes
    <3>2. QED
      BY <1>1, <3>1, MovedSafe
  <2>3. QED
    BY <2>1, <2>2
<1>5. /\ job[g].lep \in Nat /\ job[g].res.ep \in Nat /\ store.epoch \in Nat /\ store'.epoch \in Nat
      /\ store.epoch <= store'.epoch
  BY <1>4, JobFields, StoreFields DEF StoreSafe, Outcomes
<1>6. job[g].lep <= store'.epoch /\ job[g].res.ep <= store'.epoch
  BY <1>1, <1>5 DEF JobSound
<1>7. XSound(x)
  BY <1>1, <1>2, <1>6 DEF XSound, JobSound, Publishing, Captured
<1>8. QED
  BY <1>1, <1>2, <1>4, <1>7, HeadStays DEF WorkSafe

\* A failure that is recorded moves the epoch, or the store is closed or blocked.
LEMMA RecordedSafe ==
  ASSUME Typed, Typed', StoreInv, now' = now, NEW g \in Generations, NEW x, NEW e \in Errors,
         Trans(g, x), Finishes(g, x, Err(e)), job[g].pc \in Running,
         NEW to \in {"recovering", "blocked"}, store' = Recorded(store, to)
  PROVE  WorkSafe(g, x)
<1>1. XSound(x)
  BY ErrSound
<1>2. store \in StoreRecords /\ store.epoch \in Nat
  BY CountTypes, StoreFields
<1>3. /\ store'.head = store.head /\ store'.trim = store.trim /\ store'.gone = store.gone
      /\ store'.lost = store.lost /\ store'.owed = store.owed
  BY <1>2, RecordedFields
<1>4. store'.st # "ready" /\ store'.epoch \in Nat /\ store'.epoch >= store.epoch
  <2>1. CASE store.st \in {"closed", "blocked"}
    BY <1>2, <2>1, RecordedFields
  <2>2. CASE store.st \notin {"closed", "blocked"}
    <3>1. store'.st \in {"recovering", "blocked", "uncertain"} /\ store'.epoch = store.epoch + 1
      BY <1>2, <2>2, RecordedFields
    <3>2. QED
      BY <1>2, <3>1
  <2>3. QED
    BY <2>1, <2>2
<1>5. StoreSafe /\ TrimAlone' /\ HeadsPast'
  BY <1>3, <1>4 DEF StoreSafe, TrimAlone, StoreInv, HeadsPast
<1>6. \A k \in Keys : HeadMoves(g, k)
  BY <1>3, HeadStays
<1>7. QED
  BY <1>1, <1>5, <1>6 DEF WorkSafe

LEMMA FaultSafe ==
  ASSUME Typed, Typed', StoreInv, NEW g \in Generations, JobStorageFault(g) \/ JobRecord(g)
  PROVE  \E x : WorkSafe(g, x)
<1>1. now' = now /\ job[g].pc \in Running
  BY WorkFrame, JobStorageFaultForm, JobRecordForm DEF WorkStep, Running, JobPCs
<1>2. PICK x : Trans(g, x) /\ \E e \in Errors : Finishes(g, x, Err(e))
  BY JobStorageFaultForm, JobRecordForm DEF Refusals, Errors
<1>3. PICK to \in {"recovering", "blocked"} : store' = Recorded(store, to)
  BY JobStorageFaultForm, JobRecordForm
<1>4. QED
  BY <1>1, <1>2, <1>3, RecordedSafe

LEMMA WorkIsSafe ==
  ASSUME Typed, Typed', StoreInv, NEW g \in Generations, WorkStep(g)
  PROVE  \E x : WorkSafe(g, x)
  BY MemoryRefreshSafe, StartLookupSafe, RowsSafe, RefreshSafe, SettleSafe, DeadlineSafe, BeginSafe,
     AuthorizeSafe, CommitSafe, CommitLostSafe, SettledSafe, DropSafe, FaultSafe DEF WorkStep

\* The fence of the cache, entry by entry.
LEMMA PromotionIs ==
  PromotionFence <=> \A k \in Keys : Persistent => Fenced(svcEpoch, k, cache[k])
  BY DEF PromotionFence, Fenced

LEMMA PromotionAgain ==
  ASSUME \A k \in Keys : \A v, e : Persistent' /\ v = cache'[k] /\ e = svcEpoch' => Fenced(e, k, v)'
  PROVE  PromotionFence'
  BY DEF PromotionFence, Fenced

LEMMA CacheEntries ==
  ASSUME Typed, NEW k \in Keys
  PROVE  cache[k] \in Entries /\ cache[k].at \in Int /\ store.epoch \in Nat /\ svcEpoch \in Nat /\ now \in Nat
  BY CountTypes, EntryFields, StoreFields, ConfTypes DEF Caches

\* A step that leaves the cache alone.
LEMMA SameCache ==
  ASSUME Typed, Typed', StoreSafe, CacheInv, conf' = conf, cache' = cache, svcEpoch' = svcEpoch,
         now' \in Int, now <= now'
  PROVE  CacheInv'
<1>1. Persistent' = Persistent
  BY ConfSets
<1>2. ASSUME NEW k \in Keys
      PROVE  /\ cache'[k].at <= now'
             /\ \A v, e : Persistent' /\ v = cache'[k] /\ e = svcEpoch' => Fenced(e, k, v)'
  <2>1. /\ cache[k] \in Entries /\ cache[k].at \in Int /\ svcEpoch \in Nat /\ now \in Nat
        /\ svcEpoch <= store.epoch /\ cache[k].at <= now
    BY CacheEntries DEF CacheInv
  <2>2. cache'[k].at <= now'
    BY <2>1
  <2>3. PICK e \in Nat, v \in Entries : e = svcEpoch /\ v = cache[k]
    BY <2>1
  <2>4. Persistent => Fenced(e, k, v)
    BY <2>3, PromotionIs DEF CacheInv
  <2>5. Persistent => Fenced(e, k, v)'
    BY <2>1, <2>3, <2>4, FenceKept
  <2>6. QED
    BY <1>1, <2>2, <2>3, <2>5
<1>3. svcEpoch' <= store'.epoch
  <2>1. svcEpoch \in Nat /\ store.epoch \in Nat /\ svcEpoch <= store.epoch
    BY CountTypes, StoreFields DEF CacheInv
  <2>2. QED
    BY <2>1 DEF StoreSafe
<1>4. QED
  BY <1>2, <1>3, PromotionAgain DEF CacheInv

\* No two jobs of a key run, if every job that runs has run before.
LEMMA SameRunning ==
  ASSUME OneRunning, conf' = conf,
         \A h \in Generations : job'[h].pc \in Running => job[h].pc \in Running /\ job'[h].key = job[h].key
  PROVE  OneRunning'
  BY ConfSets DEF OneRunning

LEMMA WorkStore ==
  ASSUME Typed, Typed', StoreInv, NEW g \in Generations, WorkStep(g)
  PROVE  StoreInv'
<1>1. PICK x : WorkSafe(g, x)
  BY WorkIsSafe
<1>2. conf' = conf /\ cache' = cache /\ svcEpoch' = svcEpoch /\ now' = now /\ now \in Int /\ now <= now
  BY WorkFrame, CountTypes, ConfTypes
<1>3. \A h \in Generations : job'[h] = IF h = g THEN x ELSE job[h]
  BY <1>1, CountTypes DEF WorkSafe, Trans
<1>4. OneRunning'
  BY <1>1, <1>2, <1>3, SameRunning DEF WorkSafe, Trans, StoreInv
<1>5. CacheInv'
  BY <1>1, <1>2, SameCache DEF WorkSafe, StoreInv
<1>6. ASSUME NEW h \in Generations, h # g
      PROVE  JobSound(h)'
  <2>1. job'[h] = job[h] /\ JobSound(h) /\ job[h].key \in Keys
    BY <1>3, <1>6, JobFields DEF StoreInv
  <2>2. job[h].pc \in Publishing => store'.head[job[h].key] \in {store.head[job[h].key], NoEntry}
    <3>1. ASSUME job[h].pc \in Publishing, job[g].pc \in {"commit", "unsettled"}
          PROVE  job[h].key # job[g].key
      BY <1>6, <3>1, PersistentJob DEF StoreInv, OneRunning, Publishing, Running, JobPCs, MemoryPCs
    <3>2. QED
      BY <1>1, <2>1, <3>1 DEF WorkSafe, HeadMoves
  <2>3. QED
    BY <1>1, <1>2, <2>1, <2>2, OtherJobs DEF WorkSafe
<1>7. JobSound(g)'
  BY <1>1, <1>3, OwnJob DEF WorkSafe
<1>8. QED
  BY <1>1, <1>4, <1>5, <1>6, <1>7 DEF WorkSafe, StoreInv

\* An entry the cache may hold under the store's current epoch.
Good(k, v) == v.at <= now /\ (Persistent => Fenced(store.epoch, k, v))

LEMMA NoEntryGood ==
  ASSUME Typed, NEW k
  PROVE  Good(k, NoEntry)
<1>1. now \in Nat
  BY CountTypes, ConfTypes
<1>2. -1 <= now
  BY <1>1
<1>3. QED
  BY <1>2, NoEntryFields DEF Good, Fenced

LEMMA SyncGood ==
  ASSUME Typed, CacheInv, NEW k \in Keys
  PROVE  Good(k, SyncCache[k]) /\ Good(k, Expire(SyncCache)[k])
<1>1. Good(k, SyncCache[k])
  <2>1. CASE store.rec # svcRec \/ store.epoch # svcEpoch \/ store.st # "ready"
    <3>1. SyncCache[k] = NoEntry
      BY <2>1 DEF SyncCache, Empty
    <3>2. QED
      BY <3>1, NoEntryGood
  <2>2. CASE store.epoch = svcEpoch /\ SyncCache = cache
    <3>1. cache[k].at <= now /\ (Persistent => Fenced(svcEpoch, k, cache[k]))
      BY PromotionIs DEF CacheInv
    <3>2. QED
      BY <2>2, <3>1 DEF Good
  <2>3. QED
    BY <2>1, <2>2 DEF SyncCache
<1>2. Expire(SyncCache)[k] = NoEntry \/ Expire(SyncCache)[k] = SyncCache[k]
  BY DEF Expire
<1>3. QED
  BY <1>1, <1>2, NoEntryGood

LEMMA CachePublishIs ==
  ASSUME NEW d, NEW k \in Keys, NEW v, NEW y \in CachePublish(d, k, v), NEW o \in Keys
  PROVE  y[o] = NoEntry \/ (o # k /\ y[o] = d[o]) \/ (o = k /\ y[o] = v)
  BY DEF CachePublish

\* The cache after a step under the state mutex that leaves the store alone.
LEMMA CacheAgain ==
  ASSUME Typed, conf' = conf, store' = store, now' = now, Evicting' = Evicting, svcEpoch' = store.epoch,
         \A k \in Keys : Good(k, cache'[k])
  PROVE  CacheInv'
<1>1. Persistent' = Persistent
  BY ConfSets
<1>2. \A e, k, v : Fenced(e, k, v) => Fenced(e, k, v)'
  BY DEF Fenced
<1>3. \A k \in Keys : cache'[k].at <= now'
  BY DEF Good
<1>4. \A k \in Keys : \A v, e : Persistent' /\ v = cache'[k] /\ e = svcEpoch' => Fenced(e, k, v)'
  BY <1>1, <1>2 DEF Good
<1>5. svcEpoch' <= store'.epoch
  BY StoreFields
<1>6. QED
  BY <1>3, <1>4, <1>5, PromotionAgain DEF CacheInv

\* What such a step owes the store's invariant.
LEMMA StayStore ==
  ASSUME Typed, Typed', StoreInv, conf' = conf, store' = store, now' = now, Evicting' = Evicting,
         OneRunning', CacheInv', \A h \in Generations : job'[h] = job[h] \/ XSound(job'[h])
  PROVE  StoreInv'
<1>1. StoreSafe
  BY StoreFields DEF StoreSafe
<1>2. now \in Int /\ now <= now
  BY CountTypes, ConfTypes
<1>3. HeadsPast' /\ TrimAlone'
  BY DEF StoreInv, HeadsPast, TrimAlone
<1>4. ASSUME NEW h \in Generations
      PROVE  JobSound(h)'
  <2>1. CASE job'[h] = job[h]
    BY <1>1, <1>2, <2>1, OtherJobs DEF StoreInv
  <2>2. CASE XSound(job'[h])
    BY <2>2, OwnJob
  <2>3. QED
    BY <2>1, <2>2
<1>5. QED
  BY <1>3, <1>4 DEF StoreInv

\* A job that ends, or has been reaped.
LEMMA EndedSound ==
  ASSUME Typed, Typed', now' = now, store' = store, NEW x, x.pc \in {"start", "fetch", "done"},
         x.lep <= store.epoch, x.res.ep <= store.epoch, x.value.at <= now, x.res.value.at <= now
  PROVE  XSound(x)
  BY DEF XSound, Publishing, Captured

LEMMA RestingSound ==
  ASSUME Typed, Typed', now' = now, store' = store, NEW x, x.pc \in {"start", "fetch", "done"},
         x.lep = 0, x.value = NoEntry, x.res = NoOutcome
  PROVE  XSound(x)
<1>1. x.res.ep = 0 /\ x.res.value = NoEntry
  BY DEF NoOutcome, Outcome
<1>2. store.epoch \in Nat /\ now \in Nat
  BY StoreFields, CountTypes, ConfTypes
<1>3. 0 <= store.epoch /\ -1 <= now
  BY <1>2
<1>4. QED
  BY <1>1, <1>3, NoEntryFields, EndedSound

\* A synchronised section that leaves the jobs alone.
LEMMA SyncedStore ==
  ASSUME Typed, Typed', StoreInv, conf' = conf, store' = store, now' = now, job' = job,
         \/ svcEpoch' = store.epoch /\ cache' \in {SyncCache, Expire(SyncCache)}
         \/ svcEpoch' = svcEpoch /\ cache' = cache
  PROVE  StoreInv'
<1>1. Evicting' = Evicting
  BY DEF Evicting
<1>2. OneRunning'
  BY SameRunning DEF StoreInv
<1>3. CacheInv'
  <2>1. CASE svcEpoch' = store.epoch /\ cache' \in {SyncCache, Expire(SyncCache)}
    <3>1. \A k \in Keys : Good(k, cache'[k])
      BY <2>1, SyncGood DEF StoreInv
    <3>2. QED
      BY <1>1, <2>1, <3>1, CacheAgain
  <2>2. CASE svcEpoch' = svcEpoch /\ cache' = cache
    <3>1. StoreSafe
      BY <1>1, StoreFields DEF StoreSafe
    <3>2. now \in Int /\ now <= now
      BY CountTypes, ConfTypes
    <3>3. QED
      BY <2>2, <3>1, <3>2, SameCache DEF StoreInv
  <2>3. QED
    BY <2>1, <2>2
<1>4. QED
  BY <1>1, <1>2, <1>3, StayStore

LEMMA CallsStore ==
  ASSUME Typed, Typed', StoreInv, NEW c \in Clients, RefusedOrHit(c) \/ CallEnds(c)
  PROVE  StoreInv'
<1>1. conf' = conf /\ store' = store /\ now' = now /\ job' = job
  BY RefusedOrHitForm, CallEndsForm
<1>2. CASE RefusedOrHit(c)
  BY <1>1, <1>2, RefusedOrHitForm, SyncedStore DEF Synced, SyncEpochs
<1>3. CASE CallEnds(c)
  <2>1. DropsWaiter(c)
    BY <1>3, CallEndsForm
  <2>2. QED
    BY <1>1, <2>1, SyncedStore DEF DropsWaiter, SyncEpochs
<1>4. QED
  BY <1>2, <1>3

LEMMA JoinStore ==
  ASSUME Typed, Typed', StoreInv, NEW c \in Clients, NEW k \in Keys, NEW stale \in BOOLEAN,
         RetrieveJoin(c, k, stale)
  PROVE  StoreInv'
<1>1. conf' = conf /\ store' = store /\ now' = now /\ job' = job /\ Synced
  BY JoinForm
<1>2. QED
  BY <1>1, SyncedStore DEF Synced, SyncEpochs

LEMMA StartStore ==
  ASSUME Typed, Typed', FlightInv, StoreInv, NEW c \in Clients, NEW k \in Keys, NEW stale \in BOOLEAN,
         RetrieveStart(c, k, stale)
  PROVE  StoreInv'
<1>1. /\ conf' = conf /\ store' = store /\ now' = now /\ Synced /\ generation + 1 \in Generations
      /\ flights[k].gen = 0 /\ ~stopping /\ (Spawns(c, k) \/ Reaps(c))
  BY StartForm
<1>2. \A l \in Keys : Good(l, cache'[l])
  BY <1>1, SyncGood DEF Synced, StoreInv
<1>3. svcEpoch' = store.epoch
  BY <1>1 DEF Synced, SyncEpochs
<1>4. CASE Spawns(c, k)
  <2>1. PICK n \in Generations : n = generation + 1
    BY <1>1
  <2>2. PICK j \in JobRecords :
           /\ job' = [job EXCEPT ![n] = j]
           /\ j.pc = (IF Persistent THEN "start" ELSE "fetch") /\ j.key = k
           /\ j.lep = 0 /\ j.value = NoEntry /\ j.res = NoOutcome
    BY <1>4, <2>1 DEF Spawns
  <2>3. job[n].pc = "unused"
    BY <2>1, CountTypes, ServiceAssumption, SMTT(30) DEF FlightInv, GensFresh, Generations
  <2>4. SameDrop(n, j)
    BY <2>2, <2>3 DEF SameDrop, Dropping
  <2>5. Evicting' = Evicting
    BY <1>1, <2>2, <2>4, SameEvicting
  <2>6. \A h \in Generations : job'[h] = IF h = n THEN j ELSE job[h]
    BY <2>2, CountTypes
  <2>7. XSound(j)
    BY <1>1, <2>2, RestingSound
  <2>8. ASSUME NEW h \in Generations, job[h].pc \in Running, job[h].key = k, Persistent
        PROVE  FALSE
    BY <1>1, <2>8, ServiceAssumption DEF FlightInv, JobOwned, Generations
  <2>9. OneRunning'
    <3>1. Persistent' = Persistent
      BY <1>1, ConfSets
    <3>2. QED
      BY <2>2, <2>6, <2>8, <3>1 DEF StoreInv, OneRunning
  <2>10. CacheInv'
    BY <1>1, <1>2, <1>3, <2>5, CacheAgain
  <2>11. QED
    BY <1>1, <2>5, <2>6, <2>7, <2>9, <2>10, StayStore
<1>5. CASE Reaps(c)
  <2>1. PICK n \in Generations, j \in JobRecords :
           /\ job[n].pc = "panicked" /\ job' = [job EXCEPT ![n] = j] /\ j.pc = "done"
           /\ j.lep = job[n].lep /\ j.value = job[n].value /\ j.res = job[n].res
    BY <1>5 DEF Reaps
  <2>2. SameDrop(n, j)
    BY <2>1 DEF SameDrop, Dropping
  <2>3. Evicting' = Evicting
    BY <1>1, <2>1, <2>2, SameEvicting
  <2>4. \A h \in Generations : job'[h] = IF h = n THEN j ELSE job[h]
    BY <2>1, CountTypes
  <2>5. XSound(j)
    BY <1>1, <2>1, EndedSound DEF StoreInv, JobSound
  <2>6. OneRunning'
    BY <1>1, <2>1, <2>4, SameRunning DEF StoreInv, Running
  <2>7. CacheInv'
    BY <1>1, <1>2, <1>3, <2>3, CacheAgain
  <2>8. QED
    BY <1>1, <2>3, <2>4, <2>5, <2>6, <2>7, StayStore
<1>6. QED
  BY <1>1, <1>4, <1>5

LEMMA TicksStore ==
  ASSUME Typed, Typed', StoreInv, Ticks
  PROVE  StoreInv'
<1>1. /\ conf' = conf /\ store' = store /\ now' = now /\ Synced
      /\ \A h \in Generations : job'[h] = job[h] \/ Reaped(job[h], job'[h])
  BY TicksForm
<1>2. svcEpoch' = store.epoch /\ \A l \in Keys : Good(l, cache'[l])
  BY <1>1, SyncGood DEF Synced, SyncEpochs, StoreInv
<1>3. \A h \in Generations : /\ job'[h].pc \in Dropping <=> job[h].pc \in Dropping
                             /\ job[h].pc \in Dropping => job'[h].evict = job[h].evict
  BY <1>1 DEF Reaped, Dropping
<1>4. \A k : k \in Evicting' <=> k \in Evicting
  BY <1>1, <1>3, EvictingMember, EvictingMemberNext
<1>6. Evicting' = Evicting
  BY <1>4
<1>7. OneRunning'
  BY <1>1, SameRunning DEF StoreInv, Reaped, Running
<1>8. ASSUME NEW h \in Generations, Reaped(job[h], job'[h])
      PROVE  XSound(job'[h])
  <2>1. /\ job'[h].pc = "done" /\ job'[h].lep = job[h].lep /\ job'[h].value = job[h].value
        /\ job'[h].res = job[h].res
    BY <1>8 DEF Reaped
  <2>2. JobSound(h)
    BY DEF StoreInv
  <2>3. PICK x : x = job'[h]
    OBVIOUS
  <2>4. XSound(x)
    BY <1>1, <2>1, <2>2, <2>3, EndedSound DEF JobSound
  <2>5. QED
    BY <2>3, <2>4
<1>9. CacheInv'
  BY <1>1, <1>2, <1>6, CacheAgain
<1>10. QED
  BY <1>1, <1>6, <1>7, <1>8, <1>9, StayStore

LEMMA PromoteStore ==
  ASSUME Typed, Typed', StoreInv, NEW g \in Generations, JobPromote(g)
  PROVE  StoreInv'
<1>1. /\ job[g].pc = "found" /\ conf' = conf /\ store' = store /\ now' = now /\ svcEpoch' = store.epoch
  BY JobPromoteForm DEF SyncEpochs
<1>2. PICK x : Trans(g, x) /\
              \/ (\E e \in {"storage", "cancelled"} : Finishes(g, x, Err(e))) /\ cache' = SyncCache
              \/ /\ Promotable(g) /\ cache' \in CachePublish(SyncCache, job[g].key, job[g].value)
                 /\ \/ Finishes(g, x, Outcome("ok", job[g].value, job[g].lep))
                    \/ x.pc = "admit" /\ x.lep = job[g].lep /\ x.value = job[g].value /\ x.res = job[g].res
  BY JobPromoteForm
<1>3. JobSound(g) /\ job[g].key \in Keys /\ job[g].lep \in Nat
  BY JobFields DEF StoreInv
<1>4. SameDrop(g, x)
  BY <1>1, <1>2 DEF SameDrop, Dropping, Finishes
<1>5. Evicting' = Evicting
  BY <1>1, <1>2, <1>4, SameEvicting DEF Trans
<1>6. StoreSafe
  BY <1>1, <1>5, StoreFields DEF StoreSafe
<1>7. XSound(x)
  <2>1. ASSUME NEW e \in {"storage", "cancelled"}, Finishes(g, x, Err(e))
        PROVE  XSound(x)
    BY <1>1, <1>2, <2>1, ErrSound DEF Errors
  <2>2. CASE Finishes(g, x, Outcome("ok", job[g].value, job[g].lep))
    BY <1>1, <1>2, <1>3, <1>6, <2>2, ValueSound
  <2>3. CASE x.pc = "admit" /\ x.lep = job[g].lep /\ x.value = job[g].value /\ x.res = job[g].res
    BY <1>1, <1>2, <1>3, <1>6, <2>3, IdleSound DEF JobSound
  <2>4. QED
    BY <1>2, <2>1, <2>2, <2>3
<1>8. \A k \in Keys : Good(k, cache'[k])
  <2>1. CASE cache' = SyncCache
    BY <2>1, SyncGood DEF StoreInv
  <2>2. CASE Promotable(g) /\ cache' \in CachePublish(SyncCache, job[g].key, job[g].value)
    <3>1. Good(job[g].key, job[g].value)
      BY <1>1, <1>3, <2>2 DEF Good, JobSound, Promotable
    <3>2. QED
      BY <1>3, <2>2, <3>1, CachePublishIs, SyncGood, NoEntryGood DEF StoreInv
  <2>3. QED
    BY <1>2, <2>1, <2>2
<1>9. \A h \in Generations : job'[h] = IF h = g THEN x ELSE job[h]
  BY <1>2, CountTypes DEF Trans
<1>10. OneRunning'
  BY <1>1, <1>2, <1>9, SameRunning DEF StoreInv, Trans, Running, JobPCs
<1>11. CacheInv'
  BY <1>1, <1>5, <1>8, CacheAgain
<1>12. QED
  BY <1>1, <1>5, <1>7, <1>9, <1>10, <1>11, StayStore

LEMMA PublishStore ==
  ASSUME Typed, Typed', StoreInv, NEW g \in Generations, JobPublish(g)
  PROVE  StoreInv'
<1>1. /\ job[g].pc = "publish" /\ conf' = conf /\ store' = store /\ now' = now /\ svcEpoch' = store.epoch
  BY JobPublishForm DEF SyncEpochs
<1>2. PICK j \in JobRecords : /\ job' = [job EXCEPT ![g] = j] /\ j.pc = "done" /\ j.lep = 0
                              /\ j.value = NoEntry /\ j.res = NoOutcome
  BY JobPublishForm
<1>3. JobSound(g) /\ job[g].key \in Keys
  BY JobFields DEF StoreInv
<1>4. SameDrop(g, j)
  BY <1>1, <1>2 DEF SameDrop, Dropping
<1>5. Evicting' = Evicting
  BY <1>1, <1>2, <1>4, SameEvicting
<1>6. XSound(j)
  BY <1>1, <1>2, RestingSound
<1>7. \A k \in Keys : Good(k, cache'[k])
  <2>1. CASE cache' = SyncCache
    BY <2>1, SyncGood DEF StoreInv
  <2>2. ASSUME NEW told, TellsFlight(g, told), told.tag = "ok"
        PROVE  \A k \in Keys : Good(k, cache'[k])
    <3>1. /\ told = job[g].res /\ cache' \in CachePublish(Expire(SyncCache), job[g].key, told.value)
          /\ Persistent => job[g].res.ep = store.epoch
      BY <2>2 DEF TellsFlight
    <3>2. Good(job[g].key, told.value)
      BY <1>1, <1>3, <2>2, <3>1 DEF Good, JobSound
    <3>3. QED
      BY <1>3, <3>1, <3>2, CachePublishIs, SyncGood, NoEntryGood DEF StoreInv
  <2>3. ASSUME NEW told, TellsFlight(g, told), told.tag # "ok"
        PROVE  cache' = SyncCache
    BY <2>3 DEF TellsFlight
  <2>4. QED
    BY <2>1, <2>2, <2>3, JobPublishForm
<1>8. \A h \in Generations : job'[h] = IF h = g THEN j ELSE job[h]
  BY <1>2, CountTypes
<1>9. OneRunning'
  BY <1>1, <1>2, <1>8, SameRunning DEF StoreInv, Running
<1>10. CacheInv'
  BY <1>1, <1>5, <1>7, CacheAgain
<1>11. QED
  BY <1>1, <1>5, <1>6, <1>8, <1>9, <1>10, StayStore

\* A step of the store or of the clock.
LEMMA MovesStore ==
  ASSUME Typed, Typed', StoreInv, StoreSafe, HeadsPast', TrimAlone', conf' = conf, cache' = cache,
         svcEpoch' = svcEpoch, job' = job, now' \in Int, now <= now',
         \A k \in Keys : store'.head[k] \in {store.head[k], NoEntry}
  PROVE  StoreInv'
<1>1. OneRunning'
  BY SameRunning DEF StoreInv
<1>2. CacheInv'
  BY SameCache DEF StoreInv
<1>3. ASSUME NEW h \in Generations
      PROVE  JobSound(h)'
  BY OtherJobs, JobFields DEF StoreInv
<1>4. QED
  BY <1>1, <1>2, <1>3 DEF StoreInv

LEMMA StoreMovesStore ==
  ASSUME Typed, Typed', StoreInv, StoreMoves
  PROVE  StoreInv'
<1>1. /\ conf' = conf /\ cache' = cache /\ svcEpoch' = svcEpoch /\ job' = job /\ now' = now
      /\ now' \in Int /\ now <= now'
  BY StoreMovesFrame, CountTypes, ConfTypes
<1>2. store.epoch \in Nat /\ TrimAlone /\ (\A k \in Keys : store.head[k].at <= now)
      /\ (\A k \in Keys : store.head[k].at \in Int) /\ -1 <= now
  BY <1>1, StoreFields, CountTypes, ConfTypes DEF StoreInv, HeadsPast
<1>3. CASE StoreTrim
  <2>1. /\ store'.epoch = store.epoch + 1 /\ store'.head = store.head /\ store'.gone = {}
        /\ store'.lost = {} /\ store'.owed = {}
    BY <1>3, StoreTrimForm DEF RowFree, MaintainFree
  <2>2. StoreSafe /\ HeadsPast' /\ TrimAlone'
    BY <1>1, <1>2, <2>1 DEF StoreSafe, HeadsPast, TrimAlone
  <2>3. QED
    BY <1>1, <2>1, <2>2, MovesStore
<1>4. CASE StoreTrimmed
  <2>1. /\ store'.epoch = store.epoch /\ store'.st = store.st /\ store'.trim = {} /\ store'.gone = store.trim
        /\ store.trim # {} /\ store'.lost = store.lost /\ store'.owed = store.owed
        /\ \A k \in Keys : store'.head[k] = IF k \in store.trim THEN NoEntry ELSE store.head[k]
    BY <1>4, StoreTrimmedForm
  <2>2. Evicting' = store.trim \union Evicting
    <3>1. store.gone = {}
      BY <1>2, <2>1 DEF TrimAlone
    <3>2. QED
      BY <1>1, <2>1, <3>1 DEF Evicting
  <2>3. \A k \in Keys : store'.head[k].at >= store.head[k].at \/ k \in Evicting'
    BY <1>2, <2>1, <2>2
  <2>4. StoreSafe
    BY <1>2, <2>1, <2>2, <2>3 DEF StoreSafe
  <2>5. HeadsPast' /\ TrimAlone'
    BY <1>1, <1>2, <2>1, NoEntryFields DEF HeadsPast, TrimAlone
  <2>6. QED
    BY <1>1, <2>1, <2>4, <2>5, MovesStore
<1>5. CASE StoreOpened
  <2>1. /\ store'.epoch = store.epoch + 1 /\ store'.head = store.head /\ store'.gone = {}
        /\ store'.trim = store.trim /\ store'.lost = store.lost /\ store'.owed = store.owed
    BY <1>5, StoreOpenedForm
  <2>2. StoreSafe /\ HeadsPast' /\ TrimAlone'
    BY <1>1, <1>2, <2>1 DEF StoreSafe, HeadsPast, TrimAlone
  <2>3. QED
    BY <1>1, <2>1, <2>2, MovesStore
<1>6. CASE StoreFails \/ StoreRecovers
  <2>1. /\ store'.epoch = store.epoch + 1 /\ store'.head = store.head /\ store'.gone = store.gone
        /\ store'.lost = store.lost /\ store'.owed = store.owed
        /\ store'.trim = store.trim
    BY <1>6, StoreFailsForm, StoreRecoversForm
  <2>2. StoreSafe /\ HeadsPast' /\ TrimAlone' /\ \A k \in Keys : store'.head[k] \in {store.head[k], NoEntry}
    BY <1>1, <2>1, MovedSafe
  <2>3. QED
    BY <1>1, <2>2, MovesStore
<1>7. CASE StoreTrimLost
  <2>1. /\ store'.epoch = store.epoch + 1 /\ store'.head = store.head /\ store'.trim = {} /\ store'.gone = {}
        /\ store'.lost = store.trim /\ store'.owed = store.gone
    BY <1>7, StoreTrimLostForm
  <2>2. StoreSafe /\ HeadsPast' /\ TrimAlone'
    BY <1>1, <1>2, <2>1 DEF StoreSafe, HeadsPast, TrimAlone
  <2>3. QED
    BY <1>1, <2>1, <2>2, MovesStore
<1>8. CASE StoreSettled
  <2>1. /\ store'.epoch = store.epoch /\ store'.st = store.st /\ store'.trim = store.trim
        /\ store'.gone = store.gone /\ store'.lost = {} /\ store'.owed = store.lost /\ store.lost # {}
        /\ \A k \in Keys : store'.head[k] = store.head[k] \/ (k \in store.lost /\ store'.head[k] = NoEntry)
    BY <1>8, StoreSettledForm
  <2>2. store.trim = {} /\ store.gone = {} /\ store.owed = {}
    BY <1>2, <2>1 DEF TrimAlone
  <2>3. Evicting' = store.lost \union Evicting
    BY <1>1, <2>1, <2>2 DEF Evicting
  <2>4. \A k \in Keys : store'.head[k].at >= store.head[k].at \/ k \in Evicting'
    BY <1>2, <2>1, <2>3
  <2>5. StoreSafe
    BY <1>2, <2>1, <2>3, <2>4 DEF StoreSafe
  <2>6. HeadsPast' /\ TrimAlone'
    BY <1>1, <1>2, <2>1, <2>2, NoEntryFields DEF HeadsPast, TrimAlone
  <2>7. QED
    BY <1>1, <2>1, <2>5, <2>6, MovesStore
<1>9. CASE StoreRecorded
  <2>1. /\ store'.head = store.head /\ store'.trim = store.trim /\ store'.gone = store.gone
        /\ store'.lost = store.lost /\ store'.owed = {}
    BY <1>9, StoreRecordedForm
  <2>2. store'.st # "ready" /\ store'.epoch \in Nat /\ store'.epoch >= store.epoch
    BY <1>2, <1>9, StoreRecordedForm
  <2>3. StoreSafe /\ HeadsPast' /\ TrimAlone'
    BY <1>1, <1>2, <2>1, <2>2 DEF StoreSafe, HeadsPast, TrimAlone
  <2>4. QED
    BY <1>1, <2>1, <2>3, MovesStore
<1>10. QED
  BY <1>3, <1>4, <1>5, <1>6, <1>7, <1>8, <1>9 DEF StoreMoves

LEMMA CloseStore ==
  ASSUME Typed, Typed', StoreInv, ShutdownClose \/ Rests
  PROVE  StoreInv'
<1>1. /\ conf' = conf /\ cache' = cache /\ svcEpoch' = svcEpoch /\ job' = job
      /\ store' = store \/ (now' = now /\ store'.epoch = store.epoch + 1 /\ store'.head = store.head
                            /\ store'.trim = store.trim /\ store'.gone = store.gone
                            /\ store'.lost = store.lost /\ store'.owed = store.owed)
      /\ now' = now \/ now' = now + 1
  BY ShutdownCloseForm, RestsFrame
<1>2. now \in Nat
  BY CountTypes, ConfTypes
<1>3. now' \in Int /\ now <= now'
  BY <1>1, <1>2
<1>4. CASE store' = store
  <2>1. Evicting' = Evicting
    BY <1>1, <1>4 DEF Evicting
  <2>2. StoreSafe
    BY <1>4, <2>1, StoreFields DEF StoreSafe
  <2>3. HeadsPast' /\ TrimAlone'
    BY <1>2, <1>3, <1>4, StoreFields DEF StoreInv, HeadsPast, TrimAlone
  <2>4. QED
    BY <1>1, <1>3, <1>4, <2>2, <2>3, MovesStore
<1>5. CASE /\ now' = now /\ store'.epoch = store.epoch + 1 /\ store'.head = store.head
           /\ store'.trim = store.trim /\ store'.gone = store.gone
           /\ store'.lost = store.lost /\ store'.owed = store.owed
  <2>1. StoreSafe /\ HeadsPast' /\ TrimAlone' /\ \A k \in Keys : store'.head[k] \in {store.head[k], NoEntry}
    BY <1>5, MovedSafe
  <2>2. QED
    BY <1>1, <1>3, <2>1, MovesStore
<1>6. QED
  BY <1>1, <1>4, <1>5

LEMMA ShutdownBeginStore ==
  ASSUME Typed, Typed', StoreInv, ShutdownBegin
  PROVE  StoreInv'
<1>1. conf' = conf /\ cache' = Empty /\ svcEpoch' = svcEpoch /\ job' = job /\ now' = now /\ store' = store
  BY ShutdownBeginForm
<1>2. Evicting' = Evicting
  BY <1>1 DEF Evicting
<1>3. OneRunning'
  BY <1>1, SameRunning DEF StoreInv
<1>4. \A k \in Keys : cache'[k] = NoEntry
  BY <1>1 DEF Empty
<1>5. CacheInv'
  <2>1. now \in Nat
    BY CountTypes, ConfTypes
  <2>2. -1 <= now
    BY <2>1
  <2>3. PromotionFence'
    BY <1>4, FenceOwn, NoEntryFields, PromotionAgain
  <2>4. QED
    BY <1>1, <1>4, <2>2, <2>3, NoEntryFields DEF CacheInv, StoreInv
<1>6. QED
  BY <1>1, <1>2, <1>3, <1>5, StayStore

LEMMA StoreStep ==
  ASSUME ServiceInv, StoreInv, [Next]_vars
  PROVE  StoreInv'
<1>1. Typed /\ Typed' /\ FlightInv
  BY TypedStep DEF ServiceInv
<1>2. CASE Next
  BY <1>1, <1>2, NextForms, CallsStore, JoinStore, StartStore, WorkStore, PromoteStore, PublishStore,
     StoreMovesStore, TicksStore, ShutdownBeginStore, CloseStore
<1>3. CASE UNCHANGED vars
  <2>1. conf' = conf /\ cache' = cache /\ svcEpoch' = svcEpoch /\ job' = job /\ now' = now /\ store' = store
    BY <1>3 DEF vars
  <2>2. QED
    BY <1>1, <2>1, SyncedStore
<1>4. QED
  BY <1>2, <1>3

LEMMA InitStore ==
  ASSUME Init
  PROVE  StoreInv
<1>1. Typed
  BY InitTyped
<1>2. /\ now = 0 /\ cache = Empty /\ svcEpoch = 0 /\ store.epoch = 0 /\ store.head = Empty
      /\ store.trim = {} /\ store.gone = {} /\ store.lost = {} /\ store.owed = {}
  BY DEF Init, NoStore
<1>3. \A h \in Generations : job[h].pc = "unused" /\ job[h].lep = 0 /\ job[h].value = NoEntry /\ job[h].res = NoOutcome
  BY DEF Init, NoJob
<1>4. NoOutcome.ep = 0 /\ NoOutcome.value = NoEntry
  BY DEF NoOutcome, Outcome
<1>5. \A k \in Keys : cache[k].at = -1 /\ store.head[k].at = -1 /\ cache[k].lookup = FALSE
  BY <1>2, NoEntryFields DEF Empty
<1>6. \A h \in Generations : JobSound(h)
  BY <1>2, <1>3, <1>4, NoEntryFields DEF JobSound, Publishing, Captured
<1>7. OneRunning /\ TrimAlone /\ HeadsPast
  BY <1>2, <1>3, <1>5 DEF OneRunning, TrimAlone, HeadsPast, Running
<1>8. CacheInv
  BY <1>2, <1>5 DEF CacheInv, PromotionFence
<1>9. QED
  BY <1>6, <1>7, <1>8 DEF StoreInv

LEMMA AlwaysStore == Spec => [](ServiceInv /\ StoreInv)
<1>1. Init => StoreInv
  BY InitStore
<1>2. ServiceInv /\ StoreInv /\ [Next]_vars => StoreInv'
  BY StoreStep
<1>3. QED
  BY <1>1, <1>2, AlwaysService, PTL DEF Spec

\* promote_persistent and publish put a looked-up capture into the L1 cache only under
\* the epoch its lookup began with: while that is the store's epoch, the store retains
\* a capture as recent, or its eviction has yet to open its barrier or, when the answer
\* to the COMMIT was lost and the barrier opened without it, to be recorded as failed.
THEOREM PromotionsFenced == Spec => []PromotionFence
<1>1. StoreInv => PromotionFence
  BY DEF StoreInv, CacheInv
<1>2. QED
  BY <1>1, AlwaysStore, PTL

----------------------------------------------------------------------------
(* Evidence in the cache only gets more recent. *)

Carrying == {"found", "begin", "authorize", "commit", "unsettled", "drop", "accept", "settle"}

\* The job that moves, as x, against the cache and the heads after the step.
XMono(g, x) ==
  /\ x.pc \in Carrying => cache'[x.key].at <= x.value.at
  /\ x.pc \in {"found", "drop", "accept", "settle"} =>
       store'.head[x.key] = NoEntry \/ x.value.at <= store'.head[x.key].at
  /\ x.pc = "publish" /\ x.res.tag = "ok" /\ flights'[x.key].gen = g => cache'[x.key].at <= x.res.value.at
  /\ Persistent /\ x.pc = "publish" /\ x.res.tag = "ok" =>
       store'.head[x.key] = NoEntry \/ x.res.value.at <= store'.head[x.key].at

LEMMA OwnMono ==
  ASSUME conf' = conf, NEW g \in Generations, NEW x, job'[g] = x, XMono(g, x)
  PROVE  MonoJob(g)'
<1>1. Persistent' = Persistent
  BY ConfSets
<1>2. QED
  BY <1>1 DEF XMono, MonoJob, Stored, Carrying

\* A job that the step leaves alone.
LEMMA OtherMono ==
  ASSUME Typed, Typed', conf' = conf, NEW h \in Generations, MonoJob(h), job'[h] = job[h],
         job[h].pc \in Running => store'.head[job[h].key] \in {store.head[job[h].key], NoEntry},
         job[h].pc \in Running => \/ cache'[job[h].key] \in {cache[job[h].key], NoEntry}
                                  \/ job[h].pc = "publish" /\ flights'[job[h].key].gen # h,
         job[h].pc \in Running /\ flights'[job[h].key].gen = h => flights[job[h].key].gen = h
  PROVE  MonoJob(h)'
<1>1. Persistent' = Persistent
  BY ConfSets
<1>2. PICK k \in Keys : k = job[h].key
  BY JobFields
<1>3. /\ job[h].value.at \in Int /\ job[h].value.at >= -1
  BY JobFields, EntryFields
<1>4. job[h].res.value.at \in Int /\ job[h].res.value.at >= -1
  <2>1. job[h].res.value \in Entries
    BY JobFields DEF Outcomes
  <2>2. QED
    BY <2>1, EntryFields
<1>5. cache[k].at \in Int /\ store.head[k].at \in Int
  BY CacheEntries, StoreFields
<1>6. job[h].pc \in Carrying => cache'[k].at <= job[h].value.at
  <2>1. SUFFICES ASSUME job[h].pc \in Carrying
                 PROVE  cache'[k].at <= job[h].value.at
    OBVIOUS
  <2>2. cache[k].at <= job[h].value.at /\ cache'[k] \in {cache[k], NoEntry}
    BY <1>2, <2>1 DEF MonoJob, Carrying, Running, JobPCs
  <2>3. QED
    BY <1>3, <1>5, <2>2, NoEntryFields
<1>7. job[h].pc \in {"found", "drop", "accept", "settle"} =>
        store'.head[k] = NoEntry \/ job[h].value.at <= store'.head[k].at
  BY <1>2 DEF MonoJob, Stored, Running, JobPCs
<1>8. job[h].pc = "publish" /\ job[h].res.tag = "ok" /\ flights'[k].gen = h => cache'[k].at <= job[h].res.value.at
  <2>1. SUFFICES ASSUME job[h].pc = "publish", job[h].res.tag = "ok", flights'[k].gen = h
                 PROVE  cache'[k].at <= job[h].res.value.at
    OBVIOUS
  <2>2. cache[k].at <= job[h].res.value.at /\ cache'[k] \in {cache[k], NoEntry}
    BY <1>2, <2>1 DEF MonoJob, Running, JobPCs
  <2>3. QED
    BY <1>4, <1>5, <2>2, NoEntryFields
<1>9. Persistent /\ job[h].pc = "publish" /\ job[h].res.tag = "ok" =>
        store'.head[k] = NoEntry \/ job[h].res.value.at <= store'.head[k].at
  BY <1>2 DEF MonoJob, Stored, Running, JobPCs
<1>10. PICK x : x = job[h]
  OBVIOUS
<1>11. XMono(h, x)
  BY <1>2, <1>6, <1>7, <1>8, <1>9, <1>10 DEF XMono
<1>12. QED
  BY <1>10, <1>11, OwnMono

\* A step that leaves the cache and the flights alone, or only empties them.
LEMMA HeadLeadsKept ==
  ASSUME Typed, Typed', HeadLeads, conf' = conf,
         \A k \in Keys : cache'[k] \in {cache[k], NoEntry} /\ store'.head[k] \in {store.head[k], NoEntry}
  PROVE  HeadLeads'
<1>1. Persistent' = Persistent
  BY ConfSets
<1>2. ASSUME NEW k \in Keys, Persistent, store'.head[k] # NoEntry
      PROVE  cache'[k].at <= store'.head[k].at
  <2>1. store'.head[k] = store.head[k] /\ cache[k].at <= store.head[k].at
    BY <1>2 DEF HeadLeads
  <2>2. cache[k].at \in Int /\ store'.head[k].at \in Int /\ store'.head[k].at >= -1
    BY CacheEntries, NextStoreFields
  <2>3. QED
    BY <2>1, <2>2, NoEntryFields
<1>3. QED
  BY <1>1, <1>2 DEF HeadLeads

LEMMA SyncFalls ==
  ASSUME NEW k \in Keys
  PROVE  SyncCache[k] \in {cache[k], NoEntry} /\ Expire(SyncCache)[k] \in {cache[k], NoEntry}
<1>1. SyncCache[k] \in {cache[k], NoEntry}
  BY DEF SyncCache, Empty
<1>2. Expire(SyncCache)[k] = NoEntry \/ Expire(SyncCache)[k] = SyncCache[k]
  BY DEF Expire
<1>3. QED
  BY <1>1, <1>2

\* Evidence that a job finishes with.
LEMMA ErrMono ==
  ASSUME Typed, NEW g, NEW x, NEW e \in Errors, Finishes(g, x, Err(e))
  PROVE  XMono(g, x)
<1>1. \A d \in Errors : Err(d).tag # "ok"
  BY ErrTypes DEF Errors
<1>2. \E d \in Errors : x.res = Err(d)
  BY DEF Finishes, Errors
<1>3. x.res.tag # "ok" /\ x.pc = "publish"
  BY <1>1, <1>2 DEF Finishes
<1>4. QED
  BY <1>3 DEF XMono, Carrying

LEMMA ValueMono ==
  ASSUME Typed, NEW g \in Generations, NEW x, Trans(g, x),
         Finishes(g, x, Outcome("ok", job[g].value, job[g].lep)),
         cache'[job[g].key].at <= job[g].value.at,
         store'.head[job[g].key] = NoEntry \/ job[g].value.at <= store'.head[job[g].key].at
  PROVE  XMono(g, x)
<1>1. \A d \in Errors : Err(d).tag # "ok"
  BY ErrTypes DEF Errors
<1>2. \/ x.res = Outcome("ok", job[g].value, job[g].lep)
      \/ \E d \in Errors : x.res = Err(d)
  BY DEF Finishes, Errors
<1>3. x.res.tag = "ok" => x.res.value = job[g].value
  BY <1>1, <1>2 DEF Outcome
<1>4. x.pc = "publish" /\ x.key = job[g].key
  BY DEF Finishes, Trans
<1>5. QED
  BY <1>3, <1>4 DEF XMono, Carrying

\* A job that goes on with the same evidence.
LEMMA KeepMono ==
  ASSUME Typed, NEW g \in Generations, MonoJob(g), NEW x, Trans(g, x), cache' = cache, store'.head = store.head,
         x.value = job[g].value,
         x.pc \in Carrying => job[g].pc \in Carrying,
         x.pc \in {"found", "drop", "accept", "settle"} => job[g].pc \in {"found", "drop", "accept", "settle"},
         x.pc # "publish"
  PROVE  XMono(g, x)
<1>1. x.key = job[g].key
  BY DEF Trans
<1>2. QED
  BY <1>1 DEF XMono, MonoJob, Stored, Carrying

Mono(g) == \E x : Trans(g, x) /\ XMono(g, x)

LEMMA QuietMono ==
  ASSUME Typed, Typed', StoreInv, MonoInv, NEW g \in Generations,
         JobStart(g) \/ JobLookup(g) \/ JobUnusable(g) \/ JobAdmit(g) \/ JobPanic(g) \/ JobDeadline(g)
  PROVE  Mono(g)
<1> USE DEF Errors
<1>1. cache' = cache /\ store' = store /\ store'.head = store.head /\ MonoJob(g)
  BY WorkFrame, JobStartForm, JobLookupForm, JobUnusableForm, JobAdmitForm, JobPanicForm, JobDeadlineForm
     DEF WorkStep, MonoInv
<1>2. CASE JobStart(g)
  <2>1. PICK x : Trans(g, x) /\ (Finishes(g, x, Err("cancelled")) \/ (x.pc = "lookup" /\ x.value = job[g].value))
    BY <1>2, JobStartForm
  <2>2. XMono(g, x)
    BY <1>1, <2>1, ErrMono, KeepMono DEF Carrying
  <2>3. QED
    BY <2>1, <2>2 DEF Mono
<1>3. CASE JobLookup(g)
  <2>1. PICK x : Trans(g, x) /\ ((\E e \in {"busy", "corrupt", "storage", "cancelled"} : Finishes(g, x, Err(e)))
                                 \/ (x.pc = "rows" /\ x.value = job[g].value))
    BY <1>3, JobLookupForm
  <2>2. XMono(g, x)
    BY <1>1, <2>1, ErrMono, KeepMono DEF Carrying
  <2>3. QED
    BY <2>1, <2>2 DEF Mono
<1>4. CASE JobUnusable(g)
  <2>1. PICK x : Trans(g, x) /\ (Finishes(g, x, Err("cancelled")) \/ (x.pc = "admit" /\ x.value = job[g].value))
    BY <1>4, JobUnusableForm
  <2>2. XMono(g, x)
    BY <1>1, <2>1, ErrMono, KeepMono DEF Carrying
  <2>3. QED
    BY <2>1, <2>2 DEF Mono
<1>5. CASE JobAdmit(g)
  <2>1. PICK x : Trans(g, x) /\ ((\E e \in {"busy", "corrupt", "storage", "cancelled"} : Finishes(g, x, Err(e)))
                                 \/ (x.pc = "fetch" /\ x.value = job[g].value))
    BY <1>5, JobAdmitForm
  <2>2. XMono(g, x)
    BY <1>1, <2>1, ErrMono, KeepMono DEF Carrying
  <2>3. QED
    BY <2>1, <2>2 DEF Mono
<1>6. CASE JobPanic(g)
  <2>1. PICK x : Trans(g, x) /\ x.pc = "panicked" /\ x.value = job[g].value
    BY <1>6, JobPanicForm
  <2>2. XMono(g, x)
    BY <1>1, <2>1, KeepMono DEF Carrying
  <2>3. QED
    BY <2>1, <2>2 DEF Mono
<1>7. CASE JobDeadline(g)
  <2>1. PICK x : Trans(g, x) /\ x.pc = job[g].pc /\ x.value = job[g].value
    BY <1>7, JobDeadlineForm
  <2>2. job[g].pc # "publish"
    BY <1>7, JobDeadlineForm
  <2>3. XMono(g, x)
    BY <1>1, <2>1, <2>2, KeepMono
  <2>4. QED
    BY <2>1, <2>3 DEF Mono
<1>8. QED
  BY <1>2, <1>3, <1>4, <1>5, <1>6, <1>7

LEMMA CaptureMono ==
  ASSUME Typed, Typed', StoreInv, MonoInv, NEW g \in Generations,
         \/ JobBegin(g) \/ JobAuthorize(g) \/ JobDrop(g) \/ JobAccept(g) \/ JobStorageFault(g)
         \/ JobCommitLost(g) \/ JobSettled(g) \/ JobRecord(g)
  PROVE  Mono(g)
<1> USE DEF Errors
<1>1. cache' = cache /\ MonoJob(g) /\ store \in StoreRecords
  BY WorkFrame, CountTypes DEF WorkStep, MonoInv
<1>2. CASE JobBegin(g)
  <2>1. PICK x : Trans(g, x) /\
          \/ \E e \in {"busy", "corrupt", "storage", "cancelled"} : Finishes(g, x, Err(e))
          \/ x.pc = "relook" /\ store' = store /\ x.value = job[g].value
          \/ x.pc = "authorize" /\ store' = (IF x.evict = {} THEN store ELSE Barrier(store)) /\ x.value = job[g].value
    BY <1>2, JobBeginForm
  <2>2. job[g].pc = "begin"
    BY <1>2, JobBeginForm
  <2>3. x.pc = "authorize" => store'.head = store.head
    BY <1>1, <2>1, BarrierFields DEF Finishes
  <2>4. XMono(g, x)
    BY <1>1, <2>1, <2>2, <2>3, ErrMono, KeepMono DEF Carrying
  <2>5. QED
    BY <2>1, <2>4 DEF Mono
<1>3. CASE JobAuthorize(g)
  <2>1. PICK x : Trans(g, x) /\
          \/ Finishes(g, x, Err("cancelled"))
          \/ x.pc = "commit" /\ store' = store /\ x.value = job[g].value
    BY <1>3, JobAuthorizeForm
  <2>2. job[g].pc = "authorize"
    BY <1>3, JobAuthorizeForm
  <2>3. XMono(g, x)
    BY <1>1, <2>1, <2>2, ErrMono, KeepMono DEF Carrying
  <2>4. QED
    BY <2>1, <2>3 DEF Mono
<1>4. CASE JobDrop(g)
  <2>1. PICK x : Trans(g, x) /\ x.pc = "accept" /\ x.value = job[g].value
    BY <1>4, JobDropForm
  <2>2. job[g].pc = "drop" /\ store' = IF job[g].evict = {} THEN store ELSE Unbarrier(store)
    BY <1>4 DEF JobDrop
  <2>3. store'.head = store.head
    BY <1>1, <2>2, UnbarrierFields
  <2>4. XMono(g, x)
    BY <1>1, <2>1, <2>2, <2>3, KeepMono DEF Carrying
  <2>5. QED
    BY <2>1, <2>4 DEF Mono
<1>5. CASE JobAccept(g)
  <2>1. PICK x : Trans(g, x) /\ x.pc = "settle" /\ x.value = job[g].value
    BY <1>5, JobAcceptForm
  <2>2. job[g].pc = "accept" /\ store' = store
    BY <1>5, JobAcceptForm
  <2>3. XMono(g, x)
    BY <1>1, <2>1, <2>2, KeepMono DEF Carrying
  <2>4. QED
    BY <2>1, <2>3 DEF Mono
<1>6. CASE JobStorageFault(g)
  <2>1. PICK x : Trans(g, x) /\ \E e \in Refusals : Finishes(g, x, Err(e))
    BY <1>6, JobStorageFaultForm
  <2>2. QED
    BY <2>1, ErrMono DEF Mono, Refusals
<1>7. CASE JobCommitLost(g)
  <2>1. PICK x : /\ Stays(g, x)
                 /\ job[g].pc = "commit" => x.pc = "unsettled"
                 /\ job[g].pc = "drop" => x.pc = "record"
    BY <1>7, JobCommitLostForm
  <2>2. job[g].pc \in {"commit", "drop"} /\ store' \in Unwound(job[g].evict)
    BY <1>7, JobCommitLostForm
  <2>3. store'.head = store.head
    <3>1. PICK E \in SUBSET Keys : E = job[g].evict
      BY JobFields
    <3>2. QED
      BY <1>1, <2>2, <3>1, UnwoundFields
  <2>4. Trans(g, x) /\ x.value = job[g].value
    BY <2>1 DEF Stays
  <2>5. XMono(g, x)
    BY <1>1, <2>1, <2>2, <2>3, <2>4, KeepMono DEF Carrying
  <2>6. QED
    BY <2>4, <2>5 DEF Mono
<1>8. CASE JobSettled(g)
  <2>1. PICK x : Stays(g, x) /\ x.pc = "record"
    BY <1>8, JobSettledForm
  <2>2. XMono(g, x)
    BY <2>1 DEF XMono, Carrying
  <2>3. QED
    BY <2>1, <2>2 DEF Mono, Stays
<1>9. CASE JobRecord(g)
  <2>1. PICK x : Trans(g, x) /\ Finishes(g, x, Err("storage"))
    BY <1>9, JobRecordForm
  <2>2. QED
    BY <2>1, ErrMono DEF Mono
<1>10. QED
  BY <1>2, <1>3, <1>4, <1>5, <1>6, <1>7, <1>8, <1>9

LEMMA RowsMono ==
  ASSUME Typed, Typed', StoreInv, MonoInv, NEW g \in Generations, JobRows(g)
  PROVE  Mono(g)
<1>1. cache' = cache /\ store' = store /\ Persistent /\ job[g].key \in Keys
  BY WorkFrame, JobRowsForm, PersistentJob, JobFields DEF WorkStep, MemoryPCs
<1>2. PICK x : Trans(g, x) /\
              \/ Finishes(g, x, Err("busy"))
              \/ /\ x.pc \in {"admit", "settle", "found"} /\ x.value = store.head[job[g].key]
                 /\ x.pc # "admit" => store.head[job[g].key] # NoEntry
  BY JobRowsForm
<1>3. XMono(g, x)
  <2>1. CASE Finishes(g, x, Err("busy"))
    BY <2>1, ErrMono DEF Errors
  <2>2. CASE /\ x.pc \in {"admit", "settle", "found"} /\ x.value = store.head[job[g].key]
             /\ x.pc # "admit" => store.head[job[g].key] # NoEntry
    <3>1. x.key = job[g].key /\ store.head[job[g].key].at \in Int
      BY <1>1, <1>2, StoreFields DEF Trans
    <3>2. x.pc # "admit" => cache[x.key].at <= x.value.at
      BY <1>1, <2>2, <3>1 DEF MonoInv, HeadLeads
    <3>3. x.value.at <= store'.head[x.key].at
      BY <1>1, <2>2, <3>1
    <3>4. QED
      BY <1>1, <2>2, <3>2, <3>3 DEF XMono, Carrying
  <2>3. QED
    BY <1>2, <2>1, <2>2
<1>4. QED
  BY <1>2, <1>3 DEF Mono

LEMMA RefreshMono ==
  ASSUME Typed, Typed', StoreInv, MonoInv, NEW g \in Generations, JobRefresh(g) \/ MemoryRefresh(g)
  PROVE  Mono(g)
<1>1. cache' = cache /\ job[g].key \in Keys /\ cache[job[g].key].at <= now
  BY WorkFrame, JobFields DEF WorkStep, StoreInv, CacheInv
<1>2. CASE JobRefresh(g)
  <2>1. PICK x : Trans(g, x) /\
              \/ \E e \in Errors : Finishes(g, x, Err(e))
              \/ x.pc = "begin" /\ x.value = [at |-> now, id |-> 0, lookup |-> FALSE]
    BY <1>2, JobRefreshForm DEF Refusals, Errors
  <2>2. XMono(g, x)
    <3>1. CASE \E e \in Errors : Finishes(g, x, Err(e))
      BY <3>1, ErrMono
    <3>2. CASE x.pc = "begin" /\ x.value = [at |-> now, id |-> 0, lookup |-> FALSE]
      <4>1. x.value.at = now /\ x.key = job[g].key
        BY <2>1, <3>2 DEF Trans
      <4>2. QED
        BY <1>1, <3>2, <4>1 DEF XMono, Carrying
    <3>3. QED
      BY <2>1, <3>1, <3>2
  <2>3. QED
    BY <2>1, <2>2 DEF Mono
<1>3. CASE MemoryRefresh(g)
  <2>1. ~Persistent
    BY <1>3, MemoryRefreshForm
  <2>2. PICK x : /\ Trans(g, x) /\ x.pc = "publish"
                 /\ \/ x.res = Err("cancelled")
                    \/ x.res \in {Err("upstream"), Err("rejected")}
                    \/ x.res = Outcome("ok", [at |-> now, id |-> 0, lookup |-> FALSE], 0)
    BY <1>3, MemoryRefreshForm, ZenonT(30)
  <2>3. \A d \in Errors : Err(d).tag # "ok"
    BY ErrTypes DEF Errors
  <2>4. x.res.tag = "ok" => x.res = Outcome("ok", [at |-> now, id |-> 0, lookup |-> FALSE], 0)
    BY <2>2, <2>3 DEF Errors
  <2>5. x.res.tag = "ok" => x.res.value.at = now
    BY <2>4 DEF Outcome
  <2>6. x.key = job[g].key
    BY <2>2 DEF Trans
  <2>7. XMono(g, x)
    BY <1>1, <2>1, <2>2, <2>5, <2>6 DEF XMono, Carrying
  <2>8. QED
    BY <2>2, <2>7 DEF Mono
<1>4. QED
  BY <1>2, <1>3

LEMMA CommitMono ==
  ASSUME Typed, Typed', StoreInv, MonoInv, NEW g \in Generations, JobCommit(g) \/ JobSettle(g)
  PROVE  Mono(g)
<1>1. cache' = cache /\ job[g].key \in Keys /\ MonoJob(g) /\ now' = now
  BY WorkFrame, JobFields DEF WorkStep, MonoInv
<1>2. CASE JobCommit(g)
  <2>1. PICK x : /\ Trans(g, x) /\ x.pc = "drop" /\ x.value.at = job[g].value.at
    BY <1>2, JobCommitForm
  <2>2. job[g].pc = "commit" /\ store' = Committed(g)
    BY <1>2, JobCommitForm
  <2>3. store'.head[job[g].key].at = job[g].value.at
    BY <1>1, <2>2, CommitHeads
  <2>4. cache[job[g].key].at <= job[g].value.at /\ job[g].value.at \in Int /\ x.key = job[g].key
    BY <1>1, <2>1, <2>2, JobFields DEF MonoJob, Trans
  <2>5. XMono(g, x)
    BY <1>1, <2>1, <2>3, <2>4 DEF XMono, Carrying
  <2>6. QED
    BY <2>1, <2>5 DEF Mono
<1>3. CASE JobSettle(g)
  <2>1. PICK x : Trans(g, x) /\
              \/ \E e \in Errors : Finishes(g, x, Err(e))
              \/ Finishes(g, x, Outcome("ok", job[g].value, job[g].lep))
    BY <1>3, JobSettleForm DEF Refusals, Errors
  <2>2. job[g].pc = "settle" /\ store' = store
    BY <1>3, JobSettleForm
  <2>3. XMono(g, x)
    BY <1>1, <2>1, <2>2, ErrMono, ValueMono DEF MonoJob, Stored
  <2>4. QED
    BY <2>1, <2>3 DEF Mono
<1>4. QED
  BY <1>2, <1>3

LEMMA WorkIsMono ==
  ASSUME Typed, Typed', StoreInv, MonoInv, NEW g \in Generations, WorkStep(g)
  PROVE  Mono(g)
  BY QuietMono, CaptureMono, RowsMono, RefreshMono, CommitMono DEF WorkStep

LEMMA WorkMono ==
  ASSUME Typed, Typed', StoreInv, MonoInv, NEW g \in Generations, WorkStep(g)
  PROVE  MonoInv'
<1>1. PICK x : WorkSafe(g, x)
  BY WorkIsSafe
<1>2. XMono(g, x)
  <2>1. PICK y : Trans(g, y) /\ XMono(g, y)
    BY WorkIsMono DEF Mono
  <2>2. job'[g] = x /\ job'[g] = y
    BY <1>1, <2>1, CountTypes DEF WorkSafe, Trans
  <2>3. QED
    BY <2>1, <2>2
<1>3. conf' = conf /\ cache' = cache /\ flights' = flights
  BY WorkFrame
<1>4. \A h \in Generations : job'[h] = IF h = g THEN x ELSE job[h]
  BY <1>1, CountTypes DEF WorkSafe, Trans
<1>5. HeadLeads'
  <2>1. Persistent' = Persistent
    BY <1>3, ConfSets
  <2>2. ASSUME NEW k \in Keys, Persistent
        PROVE  store'.head[k] = NoEntry \/ cache'[k].at <= store'.head[k].at
    <3>1. HeadMoves(g, k)
      BY <1>1 DEF WorkSafe
    <3>2. CASE store'.head[k] \in {store.head[k], NoEntry}
      BY <1>3, <2>2, <3>2 DEF MonoInv, HeadLeads
    <3>3. CASE k = job[g].key /\ job[g].pc \in {"commit", "unsettled"} /\ store'.head[k].at = job[g].value.at
      BY <1>3, <3>3 DEF MonoInv, MonoJob
    <3>4. QED
      BY <3>1, <3>2, <3>3 DEF HeadMoves
  <2>3. QED
    BY <2>1, <2>2 DEF HeadLeads
<1>6. ASSUME NEW h \in Generations, h # g
      PROVE  MonoJob(h)'
  <2>1. job'[h] = job[h] /\ MonoJob(h) /\ job[h].key \in Keys
    BY <1>4, <1>6, JobFields DEF MonoInv
  <2>2. job[h].pc \in Running => store'.head[job[h].key] \in {store.head[job[h].key], NoEntry}
    <3>1. ASSUME job[h].pc \in Running, job[g].pc \in {"commit", "unsettled"}
          PROVE  job[h].key # job[g].key
      BY <1>6, <3>1, PersistentJob DEF StoreInv, OneRunning, Running, JobPCs, MemoryPCs
    <3>2. QED
      BY <1>1, <2>1, <3>1 DEF WorkSafe, HeadMoves
  <2>3. QED
    BY <1>3, <2>1, <2>2, OtherMono
<1>7. MonoJob(g)'
  BY <1>2, <1>3, <1>4, OwnMono
<1>8. QED
  BY <1>5, <1>6, <1>7 DEF MonoInv

\* A step that puts nothing into the cache.
LEMMA StayMono ==
  ASSUME Typed, Typed', MonoInv, conf' = conf,
         \A k \in Keys : cache'[k] \in {cache[k], NoEntry} /\ store'.head[k] \in {store.head[k], NoEntry},
         \A h \in Generations : job'[h] = job[h] \/ job'[h].pc \in {"start", "fetch", "done"},
         \A k \in Keys, h \in Generations :
           job[h].pc \in Running /\ flights'[k].gen = h => flights[k].gen = h
  PROVE  MonoInv'
<1>1. HeadLeads'
  BY HeadLeadsKept DEF MonoInv
<1>2. ASSUME NEW h \in Generations
      PROVE  MonoJob(h)'
  <2>1. CASE job'[h] = job[h]
    BY <2>1, JobFields, OtherMono DEF MonoInv
  <2>2. CASE job'[h].pc \in {"start", "fetch", "done"}
    BY <2>2 DEF MonoJob
  <2>3. QED
    BY <2>1, <2>2
<1>3. QED
  BY <1>1, <1>2 DEF MonoInv

LEMMA SyncStays ==
  ASSUME cache' \in {SyncCache, Expire(SyncCache)} \/ cache' = cache \/ cache' = Empty
  PROVE  \A k \in Keys : cache'[k] \in {cache[k], NoEntry}
  BY SyncFalls DEF Empty

LEMMA CallsMono ==
  ASSUME Typed, Typed', MonoInv, NEW c \in Clients, RefusedOrHit(c) \/ CallEnds(c)
  PROVE  MonoInv'
<1>1. conf' = conf /\ store' = store /\ job' = job
  BY RefusedOrHitForm, CallEndsForm
<1>2. CASE RefusedOrHit(c)
  <2>1. flights' = flights /\ (cache' \in {SyncCache, Expire(SyncCache)} \/ cache' = cache)
    BY <1>2, RefusedOrHitForm DEF Synced
  <2>2. QED
    BY <1>1, <2>1, SyncStays, StayMono
<1>3. CASE CallEnds(c)
  <2>1. /\ DropsWaiter(c) /\ client[c].pc = "waiting"
    BY <1>3, CallEndsForm
  <2>2. cache' \in {SyncCache, Expire(SyncCache)} \/ cache' = cache
    BY <2>1 DEF DropsWaiter
  <2>3. PICK F \in SUBSET Generations : WaiterDrop(c, F)
    BY <2>1, SyncTypes DEF DropsWaiter
  <2>4. \A k \in Keys, h \in Generations : flights'[k].gen = h => flights[k].gen = h
    <3>1. CASE flights' = flights
      BY <3>1
    <3>2. ASSUME NEW y, Leaves(c, y)
          PROVE  \A k \in Keys, h \in Generations : flights'[k].gen = h => flights[k].gen = h
      <4>1. y.gen = 0 \/ y.gen = flights[client[c].key].gen
        BY <3>2 DEF Leaves, NoFlight
      <4>2. \A k \in Keys : flights'[k] = IF k = client[c].key THEN y ELSE flights[k]
        BY <3>2, CountTypes DEF Leaves, Flights
      <4>3. \A h \in Generations : h # 0
        BY ServiceAssumption DEF Generations
      <4>4. QED
        BY <4>1, <4>2, <4>3
    <3>3. QED
      BY <2>1, <2>3, <3>1, <3>2, DropForm
  <2>5. QED
    BY <1>1, <2>2, <2>4, SyncStays, StayMono
<1>4. QED
  BY <1>2, <1>3

LEMMA JoinMono ==
  ASSUME Typed, Typed', MonoInv, NEW c \in Clients, NEW k \in Keys, NEW stale \in BOOLEAN,
         RetrieveJoin(c, k, stale)
  PROVE  MonoInv'
<1>1. conf' = conf /\ store' = store /\ job' = job /\ Synced
  BY JoinForm
<1>2. PICK y : flights' = [flights EXCEPT ![k] = y] /\ y.gen = flights[k].gen
  BY JoinForm
<1>3. \A l \in Keys : flights'[l].gen = flights[l].gen
  BY <1>2, CountTypes DEF Flights
<1>4. QED
  BY <1>1, <1>3, SyncStays, StayMono DEF Synced

LEMMA StartMono ==
  ASSUME Typed, Typed', FlightInv, MonoInv, NEW c \in Clients, NEW k \in Keys, NEW stale \in BOOLEAN,
         RetrieveStart(c, k, stale)
  PROVE  MonoInv'
<1>1. /\ conf' = conf /\ store' = store /\ Synced /\ generation + 1 \in Generations
      /\ flights' = [flights EXCEPT ![k] = [gen |-> generation + 1, waiters |-> 1]]
      /\ (Spawns(c, k) \/ Reaps(c))
  BY StartForm
<1>2. PICK n \in Generations : n = generation + 1
  BY <1>1
<1>3. job[n].pc = "unused"
  BY <1>2, CountTypes, ServiceAssumption, SMTT(30) DEF FlightInv, GensFresh, Generations
<1>4. \A l \in Keys : flights'[l].gen = IF l = k THEN n ELSE flights[l].gen
  BY <1>1, <1>2, CountTypes DEF Flights
<1>5. \A l \in Keys, h \in Generations :
           job[h].pc \in Running /\ flights'[l].gen = h => flights[l].gen = h
  BY <1>3, <1>4 DEF Running
<1>6. \A h \in Generations : job'[h] = job[h] \/ job'[h].pc \in {"start", "fetch", "done"}
  <2>1. PICK h \in Generations, j \in JobRecords : job' = [job EXCEPT ![h] = j] /\ j.pc \in {"start", "fetch", "done"}
    BY <1>1 DEF Spawns, Reaps
  <2>2. QED
    BY <2>1, CountTypes
<1>7. QED
  BY <1>1, <1>5, <1>6, SyncStays, StayMono DEF Synced

LEMMA TasksMono ==
  ASSUME Typed, Typed', MonoInv, Ticks \/ ShutdownBegin \/ ShutdownClose \/ Rests
  PROVE  MonoInv'
<1>1. /\ conf' = conf
      /\ store'.head = store.head
      /\ cache' \in {SyncCache, Expire(SyncCache)} \/ cache' = cache \/ cache' = Empty
      /\ \A h \in Generations : job'[h] = job[h] \/ job'[h].pc = "done"
  BY TicksForm, ShutdownBeginForm, ShutdownCloseForm, RestsFrame DEF Synced, Reaped
<1>2. flights' = flights \/ flights' = [k \in Keys |-> NoFlight]
  BY TicksForm, ShutdownBeginForm, ShutdownCloseForm, RestsFrame
<1>3. \A k \in Keys, h \in Generations : flights'[k].gen = h => flights[k].gen = h
  BY <1>2, ServiceAssumption DEF NoFlight, Generations
<1>4. QED
  BY <1>1, <1>3, SyncStays, StayMono

LEMMA StoreMovesMono ==
  ASSUME Typed, Typed', MonoInv, StoreMoves
  PROVE  MonoInv'
<1>1. conf' = conf /\ cache' = cache /\ job' = job /\ flights' = flights
  BY StoreMovesFrame
<1>2. \A k \in Keys : store'.head[k] \in {store.head[k], NoEntry}
  BY StoreTrimForm, StoreTrimmedForm, StoreOpenedForm, StoreFailsForm, StoreRecoversForm,
     StoreTrimLostForm, StoreSettledForm, StoreRecordedForm DEF StoreMoves
<1>3. QED
  BY <1>1, <1>2, StayMono

\* No entry of the cache gives way to evidence validated earlier.
Advances == \A k \in Keys : cache'[k] # NoEntry => cache'[k].at >= cache[k].at

\* The jobs that a promotion or a publication by g leaves alone.
LEMMA PutMono ==
  ASSUME Typed, Typed', StoreInv, MonoInv, NEW g \in Generations, conf' = conf, store' = store,
         job[g].pc \in Running,
         \A o \in Keys : o # job[g].key => cache'[o] \in {cache[o], NoEntry},
         \A o \in Keys, h \in Generations : flights'[o].gen = h => flights[o].gen = h,
         Persistent \/ flights'[job[g].key].gen = 0,
         NEW d \in Generations, d # g, job'[d] = job[d]
  PROVE  MonoJob(d)'
<1>1. MonoJob(d) /\ job[d].key \in Keys /\ job[g].key \in Keys
  BY JobFields DEF MonoInv
<1>2. flights'[job[d].key].gen = d => flights[job[d].key].gen = d
  BY <1>1
<1>3. CASE job[d].key # job[g].key
  BY <1>1, <1>2, <1>3, OtherMono
<1>4. CASE job[d].key = job[g].key /\ Persistent
  <2>1. job[d].pc \notin Running
    BY <1>4 DEF StoreInv, OneRunning
  <2>2. QED
    BY <1>1, <1>2, <2>1, OtherMono
<1>5. CASE job[d].key = job[g].key /\ ~Persistent
  <2>1. job[d].pc \in MemoryPCs
    BY <1>5 DEF Typed, MemoryJobs
  <2>2. flights'[job[d].key].gen # d
    BY <1>5, ServiceAssumption DEF Generations
  <2>3. CASE job[d].pc = "publish"
    BY <1>1, <2>2, <2>3, OtherMono
  <2>4. CASE job[d].pc # "publish"
    BY <2>1, <2>4 DEF MonoJob, MemoryPCs
  <2>5. QED
    BY <2>3, <2>4
<1>6. QED
  BY <1>3, <1>4, <1>5

\* What g puts into the cache is at least as recent as what it replaces and not more
\* recent than the store's head.
LEMMA PutLeads ==
  ASSUME Typed, Typed', MonoInv, NEW v \in Entries, NEW k \in Keys, conf' = conf, store' = store,
         cache[k].at <= v.at, Persistent => Stored(k, v),
         \A o \in Keys : cache'[o] \in {cache[o], NoEntry} \/ (o = k /\ cache'[o] = v)
  PROVE  HeadLeads' /\ Advances
<1>1. Persistent' = Persistent
  BY ConfSets
<1>2. \A o \in Keys : cache[o].at \in Int /\ store.head[o].at \in Int /\ store.head[o].at >= -1
  BY CacheEntries, StoreFields, NextStoreFields
<1>3. v.at \in Int
  BY EntryFields
<1>4. ASSUME NEW o \in Keys, Persistent
      PROVE  store'.head[o] = NoEntry \/ cache'[o].at <= store'.head[o].at
  <2>1. store.head[o] = NoEntry \/ cache[o].at <= store.head[o].at
    BY <1>4 DEF MonoInv, HeadLeads
  <2>2. CASE cache'[o] \in {cache[o], NoEntry}
    BY <1>2, <2>1, <2>2, NoEntryFields
  <2>3. CASE o = k /\ cache'[o] = v
    BY <1>4, <2>3 DEF Stored
  <2>4. QED
    BY <2>2, <2>3
<1>5. HeadLeads'
  BY <1>1, <1>4 DEF HeadLeads
<1>6. ASSUME NEW o \in Keys, cache'[o] # NoEntry
      PROVE  cache'[o].at >= cache[o].at
  BY <1>2, <1>3, <1>6
<1>7. QED
  BY <1>5, <1>6 DEF Advances

LEMMA PromoteMono ==
  ASSUME Typed, Typed', StoreInv, MonoInv, NEW g \in Generations, JobPromote(g)
  PROVE  MonoInv' /\ Advances
<1>1. job[g].pc = "found" /\ conf' = conf /\ store' = store /\ flights' = flights
  BY JobPromoteForm
<1>2. PICK x : Trans(g, x) /\
              \/ (\E e \in {"storage", "cancelled"} : Finishes(g, x, Err(e))) /\ cache' = SyncCache
              \/ /\ cache' \in CachePublish(SyncCache, job[g].key, job[g].value)
                 /\ \/ Finishes(g, x, Outcome("ok", job[g].value, job[g].lep))
                    \/ x.pc = "admit"
  BY JobPromoteForm
<1>3. MonoJob(g) /\ job[g].key \in Keys /\ job[g].value \in Entries
  BY JobFields DEF MonoInv
<1>4. cache[job[g].key].at <= job[g].value.at /\ Stored(job[g].key, job[g].value)
  BY <1>1, <1>3 DEF MonoJob
<1>5. \A o \in Keys : cache'[o] \in {cache[o], NoEntry} \/ (o = job[g].key /\ cache'[o] = job[g].value)
  BY <1>2, <1>3, CachePublishIs, SyncFalls
<1>6. HeadLeads' /\ Advances
  BY <1>1, <1>3, <1>4, <1>5, PutLeads
<1>7. cache'[job[g].key].at <= job[g].value.at
  <2>1. cache[job[g].key].at \in Int /\ job[g].value.at \in Int /\ job[g].value.at >= -1
    BY <1>3, CacheEntries, EntryFields
  <2>2. QED
    BY <1>3, <1>4, <1>5, <2>1, NoEntryFields
<1>8. XMono(g, x)
  <2>1. ASSUME NEW e \in {"storage", "cancelled"}, Finishes(g, x, Err(e))
        PROVE  XMono(g, x)
    BY <2>1, ErrMono DEF Errors
  <2>2. CASE Finishes(g, x, Outcome("ok", job[g].value, job[g].lep))
    <3>1. store'.head[job[g].key] = NoEntry \/ job[g].value.at <= store'.head[job[g].key].at
      BY <1>1, <1>4 DEF Stored
    <3>2. QED
      BY <1>2, <1>7, <2>2, <3>1, ValueMono
  <2>3. CASE x.pc = "admit"
    BY <2>3 DEF XMono, Carrying
  <2>4. QED
    BY <1>2, <2>1, <2>2, <2>3
<1>9. \A h \in Generations : job'[h] = IF h = g THEN x ELSE job[h]
  BY <1>2, CountTypes DEF Trans
<1>10. MonoJob(g)'
  BY <1>1, <1>8, <1>9, OwnMono
<1>11. job[g].pc \in Running /\ Persistent
  BY <1>1, PersistentJob DEF Running, JobPCs, MemoryPCs
<1>12. ASSUME NEW h \in Generations, h # g
       PROVE  MonoJob(h)'
  BY <1>1, <1>5, <1>9, <1>11, <1>12, PutMono
<1>13. QED
  BY <1>6, <1>10, <1>12 DEF MonoInv

LEMMA PublishMono ==
  ASSUME Typed, Typed', StoreInv, MonoInv, NEW g \in Generations, JobPublish(g)
  PROVE  MonoInv' /\ Advances
<1>1. job[g].pc = "publish" /\ conf' = conf /\ store' = store
  BY JobPublishForm
<1>2. PICK j \in JobRecords : job' = [job EXCEPT ![g] = j] /\ j.pc = "done"
  BY JobPublishForm
<1>3. MonoJob(g) /\ job[g].key \in Keys /\ job[g].res.value \in Entries
  BY JobFields DEF MonoInv, Outcomes
<1>4. \A h \in Generations : job'[h] = IF h = g THEN j ELSE job[h]
  BY <1>2, CountTypes
<1>5. \A h \in Generations : h # 0
  BY ServiceAssumption DEF Generations
<1>6. CASE cache' = SyncCache /\ flights' = flights
  <2>1. \A k \in Keys : cache'[k] \in {cache[k], NoEntry} /\ store'.head[k] \in {store.head[k], NoEntry}
    BY <1>1, <1>6, SyncFalls
  <2>2. MonoInv'
    BY <1>1, <1>2, <1>4, <1>6, <2>1, StayMono
  <2>3. Advances
    BY <2>1, CacheEntries DEF Advances
  <2>4. QED
    BY <2>2, <2>3
<1>7. ASSUME NEW told, TellsFlight(g, told)
      PROVE  MonoInv' /\ Advances
  <2>1. flights[job[g].key].gen = g /\ flights' = [flights EXCEPT ![job[g].key] = NoFlight]
    BY <1>7 DEF TellsFlight
  <2>2. \A o \in Keys : flights'[o] = IF o = job[g].key THEN NoFlight ELSE flights[o]
    BY <2>1, CountTypes DEF Flights
  <2>3. NoFlight.gen = 0
    BY DEF NoFlight
  <2>4. \A o \in Keys, h \in Generations : flights'[o].gen = h => flights[o].gen = h
    BY <1>5, <2>2, <2>3
  <2>5. CASE told.tag # "ok"
    <3>1. cache' = SyncCache
      BY <1>7, <2>5 DEF TellsFlight
    <3>2. \A k \in Keys : cache'[k] \in {cache[k], NoEntry} /\ store'.head[k] \in {store.head[k], NoEntry}
      BY <1>1, <3>1, SyncFalls
    <3>3. MonoInv'
      BY <1>1, <1>2, <1>4, <2>4, <3>2, StayMono
    <3>4. Advances
      BY <3>2, CacheEntries DEF Advances
    <3>5. QED
      BY <3>3, <3>4
  <2>6. CASE told.tag = "ok"
    <3>1. told = job[g].res /\ cache' \in CachePublish(Expire(SyncCache), job[g].key, told.value)
      BY <1>7, <2>6 DEF TellsFlight
    <3>2. /\ cache[job[g].key].at <= job[g].res.value.at
          /\ Persistent => Stored(job[g].key, job[g].res.value)
      BY <1>1, <1>3, <2>1, <2>6, <3>1 DEF MonoJob
    <3>3. \A o \in Keys : cache'[o] \in {cache[o], NoEntry} \/ (o = job[g].key /\ cache'[o] = job[g].res.value)
      BY <1>3, <3>1, CachePublishIs, SyncFalls
    <3>4. HeadLeads' /\ Advances
      BY <1>1, <1>3, <3>2, <3>3, PutLeads
    <3>5. job[g].pc \in Running
      BY <1>1 DEF Running, JobPCs
    <3>6. flights'[job[g].key].gen = 0
      BY <1>3, <2>2, <2>3
    <3>7. ASSUME NEW h \in Generations, h # g
          PROVE  MonoJob(h)'
      BY <1>1, <1>4, <2>4, <3>3, <3>5, <3>6, <3>7, PutMono
    <3>8. MonoJob(g)'
      BY <1>2, <1>4 DEF MonoJob
    <3>9. QED
      BY <3>4, <3>7, <3>8 DEF MonoInv
  <2>7. QED
    BY <2>5, <2>6
<1>8. QED
  BY <1>6, <1>7, JobPublishForm

LEMMA MonoStep ==
  ASSUME ServiceInv, StoreInv, MonoInv, [Next]_vars
  PROVE  MonoInv'
<1>1. Typed /\ Typed' /\ FlightInv
  BY TypedStep DEF ServiceInv
<1>2. CASE Next
  BY <1>1, <1>2, NextForms, CallsMono, JoinMono, StartMono, WorkMono, PromoteMono, PublishMono,
     StoreMovesMono, TasksMono
<1>3. CASE UNCHANGED vars
  <2>1. conf' = conf /\ cache' = cache /\ job' = job /\ flights' = flights /\ store' = store
    BY <1>3 DEF vars
  <2>2. QED
    BY <1>1, <2>1, StayMono
<1>4. QED
  BY <1>2, <1>3

LEMMA InitMono ==
  ASSUME Init
  PROVE  MonoInv
<1>1. Typed
  BY InitTyped
<1>2. store.head = Empty /\ \A h \in Generations : job[h].pc = "unused"
  BY DEF Init, NoStore, NoJob
<1>3. \A k \in Keys : store.head[k] = NoEntry
  BY <1>2 DEF Empty
<1>4. QED
  BY <1>2, <1>3 DEF MonoInv, HeadLeads, MonoJob

LEMMA AlwaysMono == Spec => [](ServiceInv /\ StoreInv /\ MonoInv)
<1>1. Init => MonoInv
  BY InitMono
<1>2. ServiceInv /\ StoreInv /\ MonoInv /\ [Next]_vars => MonoInv'
  BY MonoStep
<1>3. QED
  BY <1>1, <1>2, AlwaysStore, PTL DEF Spec

LEMMA AdvancesStep ==
  ASSUME ServiceInv, StoreInv, MonoInv, Next
  PROVE  Advances
<1>1. Typed /\ Typed'
  BY TypedStep DEF ServiceInv
<1>2. ASSUME \A k \in Keys : cache'[k] \in {cache[k], NoEntry}
      PROVE  Advances
  BY <1>1, <1>2, CacheEntries DEF Advances
<1>3. ASSUME NEW c \in Clients, \/ RefusedOrHit(c) \/ CallEnds(c)
                                \/ \E k \in Keys, stale \in BOOLEAN :
                                     RetrieveJoin(c, k, stale) \/ RetrieveStart(c, k, stale)
      PROVE  Advances
  BY <1>1, <1>2, <1>3, SyncStays, RefusedOrHitForm, CallEndsForm, JoinForm, StartForm DEF Synced, DropsWaiter
<1>4. ASSUME NEW g \in Generations, WorkStep(g)
      PROVE  Advances
  BY <1>1, <1>2, <1>4, WorkFrame
<1>5. ASSUME NEW g \in Generations, JobPromote(g) \/ JobPublish(g)
      PROVE  Advances
  BY <1>1, <1>5, PromoteMono, PublishMono
<1>6. CASE StoreMoves
  BY <1>1, <1>2, <1>6, StoreMovesFrame
<1>7. CASE Ticks \/ ShutdownBegin \/ ShutdownClose \/ Rests
  BY <1>1, <1>2, <1>7, SyncStays, TicksForm, ShutdownBeginForm, ShutdownCloseForm, RestsFrame DEF Synced
<1>8. QED
  BY <1>1, <1>3, <1>4, <1>5, <1>6, <1>7, NextForms

\* No publish and no promotion, of whatever generation, puts evidence into the L1 cache
\* that was validated before what is there.
THEOREM CacheAdvances == Spec => CacheMonotone
<1>1. ServiceInv /\ StoreInv /\ MonoInv /\ [Next]_vars
        => [\A k \in Keys : cache'[k] # NoEntry => cache'[k].at >= cache[k].at]_vars
  BY AdvancesStep DEF Advances
<1>2. QED
  BY <1>1, AlwaysMono, PTL DEF Spec, CacheMonotone

----------------------------------------------------------------------------
(* Cancellation stays with the calls that asked for it. *)

\* What every step does to the counters and to the tokens.
Steady ==
  /\ conf' = conf /\ (shut => shut') /\ cancelled \subseteq cancelled'
  /\ store.rec <= store'.rec
  /\ \/ store'.st \in Usual \/ store.st \notin Usual \/ store'.rec > store.rec \/ shut'
     \/ store'.st = "uncertain"
  /\ store.st = "uncertain" => store'.st = "uncertain"
  /\ ~Persistent => store' = store
  /\ \/ svcRec' = svcRec
     \/ svcRec' = store.rec /\ store' = store /\ SyncCancels \subseteq cancelled'

LEMMA Counters ==
  ASSUME Typed, Typed', CancelInv, Steady
  PROVE  /\ store.rec \in Nat /\ svcRec \in Nat /\ store'.rec \in Nat /\ svcRec' \in Nat
         /\ svcRec <= svcRec' /\ svcRec <= store.rec /\ svcRec' <= store'.rec /\ Persistent' = Persistent
<1>1. store.rec \in Nat /\ svcRec \in Nat /\ store'.rec \in Nat /\ svcRec' \in Nat
  <2>1. store.rec \in Nat /\ svcRec \in Nat
    BY StoreFields, CountTypes
  <2>2. store' \in StoreRecords' /\ svcRec' \in Nat
    BY DEF Typed, CountsTyped
  <2>3. store'.rec \in Nat
    BY <2>2 DEF StoreRecords
  <2>4. QED
    BY <2>1, <2>2, <2>3
<1>2. Persistent' = Persistent
  BY ConfSets DEF Steady
<1>3. QED
  BY <1>1, <1>2 DEF Steady, CancelInv

LEMMA LostStays ==
  ASSUME Typed, Typed', CancelInv, Steady, NEW c \in Clients, client'[c].rec = client[c].rec, Lost(c)
  PROVE  Lost(c)'
<1>1. client[c].rec \in Nat
  BY CallFields
<1>2. QED
  BY <1>1, Counters DEF Lost, Steady

\* Synchronising the epochs fires a token only for a loss.
LEMMA SyncLost ==
  ASSUME Typed, CancelInv, NEW c \in Clients, client[c].pc = "waiting", SyncCancels # {}
  PROVE  Lost(c)
<1>1. client[c].rec \in Nat /\ store.rec \in Nat /\ svcRec \in Nat
  BY CallFields, StoreFields, CountTypes
<1>2. store.rec # svcRec \/ store.st \notin Usual
  BY DEF SyncCancels, Usual
<1>3. CallSound(c) /\ svcRec <= store.rec
  BY DEF CancelInv
<1>4. client[c].rec <= svcRec /\ (store.st \in Usual \/ Lost(c))
  BY <1>3 DEF CallSound
<1>5. CASE store.rec # svcRec
  BY <1>1, <1>3, <1>4, <1>5 DEF Lost
<1>6. QED
  BY <1>2, <1>4, <1>5

\* A call that goes on waiting.
LEMMA CallAgain ==
  ASSUME Typed, Typed', CancelInv, Steady, NEW c \in Clients,
         client'[c].pc = "waiting" => client[c].pc = "waiting" /\ client'[c].rec = client[c].rec,
         client'[c].pc = "waiting" /\ client'[c].got.tag = "cancelled" =>
           client[c].got.tag = "cancelled" \/ Lost(c),
         client'[c].pc = "waiting" /\ client'[c].got.tag = "none" => PendingSound(c)'
  PROVE  CallSound(c)'
<1>1. SUFFICES ASSUME client'[c].pc = "waiting"
               PROVE  /\ client'[c].rec <= svcRec'
                      /\ store'.st \in Usual \/ Lost(c)'
                      /\ client'[c].got.tag = "cancelled" => Lost(c)'
                      /\ client'[c].got.tag = "none" => PendingSound(c)'
  BY DEF CallSound, Usual
<1>2. client[c].pc = "waiting" /\ client'[c].rec = client[c].rec /\ CallSound(c)
  BY <1>1 DEF CancelInv
<1>3. /\ client[c].rec <= svcRec /\ (store.st \in Usual \/ Lost(c))
      /\ client[c].got.tag = "cancelled" => Lost(c)
  BY <1>2 DEF CallSound
<1>4. client[c].rec \in Nat /\ store.rec \in Nat /\ svcRec \in Nat /\ store'.rec \in Nat /\ svcRec' \in Nat
      /\ svcRec <= svcRec' /\ svcRec <= store.rec
  BY CallFields, Counters
<1>5. client'[c].rec <= svcRec'
  BY <1>2, <1>3, <1>4
<1>6. store'.st \in Usual \/ Lost(c)'
  <2>1. CASE store.st \notin Usual
    BY <1>2, <1>3, <2>1, LostStays
  <2>2. CASE store'.rec > store.rec
    BY <1>2, <1>3, <1>4, <2>2 DEF Lost
  <2>3. CASE shut' \/ store'.st = "uncertain"
    BY <2>3 DEF Lost
  <2>4. QED
    BY <2>1, <2>2, <2>3 DEF Steady
<1>7. client'[c].got.tag = "cancelled" => Lost(c)'
  BY <1>1, <1>2, <1>3, LostStays
<1>8. QED
  BY <1>1, <1>5, <1>6, <1>7

\* Its job stays as it is, or has been reaped, which stops the service.
LEMMA PendingAgain ==
  ASSUME Typed, Typed', CancelInv, Steady, NEW c \in Clients, client[c].pc = "waiting",
         client'[c] = client[c], client[c].got.tag = "none",
         client[c].gen \in cancelled' => client[c].gen \in cancelled \/ SyncCancels # {} \/ Lost(c)',
         \/ job'[client[c].gen] = job[client[c].gen]
         \/ shut' /\ job'[client[c].gen].pc = "done"
  PROVE  PendingSound(c)'
<1>1. PendingSound(c)
  BY DEF CancelInv, CallSound
<1>2. Persistent' = Persistent
  BY Counters
<1>3. Lost(c) => Lost(c)'
  BY LostStays
<1>4. CASE job'[client[c].gen] = job[client[c].gen]
  <2>1. client[c].gen \in cancelled' => Excused(c)'
    <3>1. CASE client[c].gen \in cancelled
      <4>1. Excused(c)
        BY <1>1, <3>1 DEF PendingSound
      <4>2. QED
        BY <1>2, <1>3, <1>4, <4>1 DEF Excused
    <3>2. CASE SyncCancels # {}
      BY <1>3, <3>2, SyncLost DEF Excused
    <3>3. QED
      BY <3>1, <3>2 DEF Excused
  <2>2. job'[client[c].gen].pc = "publish" /\ job'[client[c].gen].res.tag = "cancelled" => Lost(c)'
    BY <1>1, <1>3, <1>4 DEF PendingSound
  <2>3. Persistent' /\ job'[client[c].gen].pc \in Started => client'[c].rec <= job'[client[c].gen].rec
    BY <1>1, <1>2, <1>4 DEF PendingSound
  <2>4. QED
    BY <2>1, <2>2, <2>3 DEF PendingSound, Started, Running, JobPCs
<1>5. CASE shut' /\ job'[client[c].gen].pc = "done"
  BY <1>5 DEF PendingSound, Excused, Lost, Started, Running, JobPCs
<1>6. QED
  BY <1>4, <1>5

LEMMA UnjoinableStays ==
  ASSUME Typed, Typed', CancelInv, Steady, NEW k \in Keys, flights[k].gen # 0,
         flights'[k].gen = flights[k].gen, Unjoinable(k)
  PROVE  Unjoinable(k)'
<1>1. CASE shut \/ flights[k].gen \in cancelled
  BY <1>1 DEF Steady, Unjoinable
<1>2. CASE store.rec > svcRec
  <2>1. store.rec # svcRec
    BY <1>2, Counters
  <2>2. flights[k].gen \in SyncCancels
    BY <2>1 DEF SyncCancels
  <2>3. QED
    BY <1>2, <2>2, Counters DEF Steady, Unjoinable
<1>3. CASE store.st = "uncertain"
  BY <1>3 DEF Steady, Unjoinable
<1>4. QED
  BY <1>1, <1>2, <1>3 DEF Unjoinable

\* The job of the flight of k has moved and the flight is still in order.
Landing(k) ==
  /\ job'[flights[k].gen].pc = "publish" /\ job'[flights[k].gen].res.tag = "cancelled" => Unjoinable(k)'
  /\ Persistent' /\ job'[flights[k].gen].pc \in Started /\ flights[k].gen \notin cancelled'
       => svcRec' <= job'[flights[k].gen].rec

\* A flight that stays.
LEMMA FlightAgain ==
  ASSUME Typed, Typed', CancelInv, Steady, NEW k \in Keys,
         flights'[k].gen # 0 => /\ flights'[k].gen = flights[k].gen
                                /\ flights'[k].waiters = 0 =>
                                     flights[k].waiters = 0 \/ flights[k].gen \in cancelled'
                                /\ \/ job'[flights[k].gen] = job[flights[k].gen]
                                   \/ job'[flights[k].gen].pc = "done"
                                   \/ Landing(k)
  PROVE  FlightSound(k)'
<1>1. SUFFICES ASSUME flights'[k].gen # 0
               PROVE  /\ store'.st \in Usual \/ Unjoinable(k)'
                      /\ flights'[k].waiters = 0 => flights'[k].gen \in cancelled'
                      /\ job'[flights'[k].gen].pc = "publish" /\ job'[flights'[k].gen].res.tag = "cancelled"
                           => Unjoinable(k)'
                      /\ Persistent' /\ job'[flights'[k].gen].pc \in Started /\ flights'[k].gen \notin cancelled'
                           => svcRec' <= job'[flights'[k].gen].rec
  BY DEF FlightSound, Usual, Started, Running, JobPCs
<1>2. PICK g \in Generations : g = flights[k].gen
  BY <1>1, FlightFields
<1>3. flights'[k].gen = g /\ flights[k].gen = g /\ g # 0 /\ FlightSound(k)
  BY <1>1, <1>2 DEF CancelInv
<1>4. /\ store.st \in Usual \/ Unjoinable(k)
      /\ flights[k].waiters = 0 => g \in cancelled
      /\ job[g].pc = "publish" /\ job[g].res.tag = "cancelled" => Unjoinable(k)
      /\ Persistent /\ job[g].pc \in Started /\ g \notin cancelled => svcRec <= job[g].rec
  BY <1>3 DEF FlightSound
<1>5. Unjoinable(k) => Unjoinable(k)'
  BY <1>3, UnjoinableStays
<1>6. store'.st \in Usual \/ Unjoinable(k)'
  <2>1. CASE store'.rec > store.rec
    BY <2>1, Counters DEF Steady, Unjoinable
  <2>2. QED
    BY <1>4, <1>5, <2>1 DEF Steady, Unjoinable
<1>7. flights'[k].waiters = 0 => g \in cancelled'
  BY <1>1, <1>3, <1>4 DEF Steady
<1>8. CASE job'[g].pc = "done"
  BY <1>3, <1>6, <1>7, <1>8 DEF Started, Running, JobPCs
<1>9. CASE job'[g] = job[g]
  <2>1. ASSUME Persistent', job'[g].pc \in Started, g \notin cancelled'
        PROVE  svcRec' <= job'[g].rec
    <3>1. svcRec <= job[g].rec
      BY <1>4, <1>9, <2>1, Counters DEF Steady
    <3>2. CASE svcRec' = svcRec
      BY <1>9, <3>1, <3>2
    <3>3. CASE svcRec' = store.rec /\ SyncCancels \subseteq cancelled'
      <4>1. g \notin SyncCancels
        BY <2>1, <3>3
      <4>2. store.rec = svcRec
        BY <1>3, <4>1 DEF SyncCancels
      <4>3. QED
        BY <1>9, <3>1, <3>3, <4>2
    <3>4. QED
      BY <3>2, <3>3 DEF Steady
  <2>2. QED
    BY <1>3, <1>4, <1>5, <1>6, <1>7, <1>9, <2>1
<1>10. CASE Landing(k)
  BY <1>3, <1>6, <1>7, <1>10 DEF Landing
<1>11. QED
  BY <1>1, <1>2, <1>8, <1>9, <1>10

LEMMA CancelAgain ==
  ASSUME Typed, Typed', CancelInv, Steady,
         \A h \in Generations : job'[h].rec = job[h].rec \/ job'[h].rec <= store'.rec,
         \A h \in cancelled' : h \in cancelled \/ h <= generation,
         generation' \in {generation, generation + 1},
         \A c \in Clients : CallSound(c)', \A k \in Keys : FlightSound(k)'
  PROVE  CancelInv'
<1>1. svcRec' <= store'.rec /\ Persistent' = Persistent /\ store.rec \in Nat /\ store'.rec \in Nat
  BY Counters
<1>2. \A h \in Generations : job'[h].rec <= store'.rec
  <2>1. SUFFICES ASSUME NEW h \in Generations
                 PROVE  job'[h].rec <= store'.rec
    OBVIOUS
  <2>2. job[h].rec <= store.rec /\ job[h].rec \in Nat /\ store.rec <= store'.rec
    BY JobFields DEF CancelInv, Steady
  <2>3. QED
    BY <1>1, <2>2
<1>3. ~Persistent' => store' = NoStore
  BY <1>1 DEF Steady, CancelInv
<1>4. \A h \in cancelled' : h <= generation'
  <2>1. SUFFICES ASSUME NEW h \in cancelled'
                 PROVE  h <= generation'
    OBVIOUS
  <2>2. h \in Generations
    BY DEF Typed, SetsTyped
  <2>3. h \in Int /\ generation \in Int
    BY <2>2, CountTypes, ServiceAssumption DEF Generations
  <2>4. h <= generation
    BY DEF CancelInv
  <2>5. QED
    BY <2>3, <2>4
<1>5. QED
  BY <1>1, <1>2, <1>3, <1>4 DEF CancelInv, NoStore, Empty

LEMMA SyncSteady ==
  ASSUME Typed, CancelInv, conf' = conf, store' = store, shut => shut', SyncEpochs,
         cancelled \union SyncCancels \subseteq cancelled'
  PROVE  Steady
<1>1. store.rec \in Nat
  BY StoreFields
<1>2. QED
  BY <1>1 DEF Steady, SyncEpochs, CancelInv

LEMMA SyncFired ==
  ASSUME Typed, FlightInv, NEW h \in SyncCancels
  PROVE  h <= generation /\ SyncCancels # {}
<1>1. PICK k \in Keys : h = flights[k].gen
  BY DEF SyncCancels
<1>2. QED
  BY <1>1 DEF FlightInv, GensFresh

\* A step that admits nobody, moves no job and drops no waiter.
LEMMA StayCancel ==
  ASSUME Typed, Typed', FlightInv, CancelInv, Steady, generation' = generation,
         cancelled' \subseteq cancelled \union SyncCancels,
         \A h \in Generations : job'[h] = job[h] \/ (Reaped(job[h], job'[h]) /\ shut'),
         \A c \in Clients : client'[c].pc = "waiting" => client'[c] = client[c],
         \A k \in Keys : flights'[k] = flights[k]
  PROVE  CancelInv'
<1>1. ASSUME NEW c \in Clients
      PROVE  CallSound(c)'
  <2>1. ASSUME client'[c].pc = "waiting", client'[c].got.tag = "none"
        PROVE  PendingSound(c)'
    <3>1. client'[c] = client[c] /\ client[c].pc = "waiting" /\ client[c].got.tag = "none"
      BY <2>1
    <3>2. client[c].gen \in Generations
      BY <3>1, CallFields
    <3>3. client[c].gen \in cancelled' => client[c].gen \in cancelled \/ SyncCancels # {}
      OBVIOUS
    <3>4. \/ job'[client[c].gen] = job[client[c].gen]
          \/ shut' /\ job'[client[c].gen].pc = "done"
      BY <3>2 DEF Reaped
    <3>5. QED
      BY <3>1, <3>3, <3>4, PendingAgain
  <2>2. QED
    BY <2>1, CallAgain
<1>2. ASSUME NEW k \in Keys
      PROVE  FlightSound(k)'
  <2>1. flights[k].gen # 0 => flights[k].gen \in Generations
    BY FlightFields
  <2>2. QED
    BY <2>1, FlightAgain DEF Reaped
<1>3. \A h \in cancelled' : h \in cancelled \/ h <= generation
  BY SyncFired
<1>4. \A h \in Generations : job'[h].rec = job[h].rec \/ job'[h].rec <= store'.rec
  BY DEF Reaped
<1>5. QED
  BY <1>1, <1>2, <1>3, <1>4, CancelAgain

LEMMA RefusedCancel ==
  ASSUME Typed, Typed', FlightInv, CancelInv, NEW c \in Clients, RefusedOrHit(c)
  PROVE  CancelInv'
<1>1. /\ conf' = conf /\ flights' = flights /\ generation' = generation /\ shut' = shut /\ job' = job
      /\ store' = store
  BY RefusedOrHitForm
<1>2. PICK x \in ClientRecords : client' = [client EXCEPT ![c] = x] /\ x.pc = "idle"
  BY RefusedOrHitForm
<1>3. \A d \in Clients : client'[d].pc = "waiting" => client'[d] = client[d]
  BY <1>2, CountTypes
<1>4. Steady /\ cancelled' \subseteq cancelled \union SyncCancels
  <2>1. CASE Synced
    BY <1>1, <2>1, SyncSteady DEF Synced
  <2>2. CASE UNCHANGED <<cache, svcEpoch, svcRec, cancelled>>
    <3>1. store.rec \in Nat
      BY StoreFields
    <3>2. QED
      BY <1>1, <2>2, <3>1 DEF Steady, CancelInv
  <2>3. QED
    BY <2>1, <2>2, RefusedOrHitForm
<1>5. QED
  BY <1>1, <1>3, <1>4, StayCancel

LEMMA TicksCancel ==
  ASSUME Typed, Typed', FlightInv, CancelInv, Ticks
  PROVE  CancelInv'
<1>1. /\ ~shut /\ Synced /\ conf' = conf /\ flights' = flights /\ generation' = generation
      /\ client' = client /\ store' = store
      /\ \A g \in Generations : job'[g] = job[g] \/ (Reaped(job[g], job'[g]) /\ shut')
  BY TicksForm
<1>2. Steady /\ cancelled' \subseteq cancelled \union SyncCancels
  BY <1>1, SyncSteady DEF Synced
<1>3. QED
  BY <1>1, <1>2, StayCancel

\* Steps of the store, of the end of the service and of time.
LEMMA RestsCancel ==
  ASSUME Typed, Typed', FlightInv, CancelInv, StoreMoves \/ ShutdownClose \/ Rests
  PROVE  CancelInv'
<1>1. /\ conf' = conf /\ flights' = flights /\ generation' = generation /\ shut' = shut /\ job' = job
      /\ client' = client /\ svcRec' = svcRec /\ cancelled' = cancelled
  BY StoreMovesFrame, ShutdownCloseForm, RestsFrame
<1>2. store.rec \in Nat
  BY StoreFields
<1>3. Steady
  <2>1. CASE store' = store
    BY <1>1, <1>2, <2>1 DEF Steady, CancelInv
  <2>2. CASE StoreMoves
    <3>1. Persistent
      <4>1. SUFFICES ASSUME ~Persistent
                     PROVE  FALSE
        OBVIOUS
      <4>2. /\ store.st = "ready" /\ store.trim = {} /\ store.gone = {} /\ store.lost = {}
            /\ store.owed = {}
        BY <4>1 DEF CancelInv, NoStore
      <4>3. QED
        BY <2>2, <4>1, <4>2, StoreTrimForm, StoreTrimmedForm, StoreOpenedForm, StoreFailsForm,
           StoreRecoversForm, StoreTrimLostForm, StoreSettledForm, StoreRecordedForm DEF StoreMoves
    <3>2. /\ \/ store'.st \in Usual \union {"uncertain", store.st} /\ store'.rec = store.rec
             \/ store'.rec = store.rec + 1
          /\ store.st = "uncertain" => store'.st = "uncertain"
      BY <2>2, StoreTrimForm, StoreTrimmedForm, StoreOpenedForm, StoreFailsForm, StoreRecoversForm,
         StoreTrimLostForm, StoreSettledForm, StoreRecordedForm DEF StoreMoves, Usual
    <3>3. QED
      BY <1>1, <1>2, <3>1, <3>2 DEF Steady
  <2>3. CASE ShutdownClose /\ store' # store
    <3>1. /\ Persistent /\ store'.rec = store.rec /\ stage = "close"
          /\ store.st = "uncertain" => store'.st = "uncertain"
      BY <2>3, ShutdownCloseForm
    <3>2. shut
      BY <3>1 DEF FlightInv, StopOrder
    <3>3. QED
      BY <1>1, <1>2, <3>1, <3>2 DEF Steady
  <2>4. QED
    BY <2>1, <2>2, <2>3, RestsFrame
<1>4. QED
  BY <1>1, <1>3, StayCancel

LEMMA ShutdownBeginCancel ==
  ASSUME Typed, Typed', FlightInv, CancelInv, ShutdownBegin
  PROVE  CancelInv'
<1>1. /\ conf' = conf /\ generation' = generation /\ shut' = TRUE /\ job' = job /\ store' = store
      /\ svcRec' = svcRec /\ \A k \in Keys : flights'[k] = NoFlight
  BY ShutdownBeginForm
<1>2. PICK live \in SUBSET Generations :
              /\ live = {flights[k].gen : k \in Keys} \ {0} /\ cancelled' = cancelled \union live
              /\ client' = Tell(live, Err("shutdown"))
  BY ShutdownBeginForm
<1>3. Err("shutdown") \in Outcomes /\ Err("shutdown").tag = "shutdown"
  BY ShutdownBeginForm
<1>4. store.rec \in Nat
  BY StoreFields
<1>5. Steady
  BY <1>1, <1>2, <1>4 DEF Steady, CancelInv
<1>6. \A h \in live : h <= generation
  BY <1>2 DEF FlightInv, GensFresh
<1>7. ASSUME NEW c \in Clients
      PROVE  CallSound(c)'
  <2>1. CASE client[c].pc = "waiting" /\ client[c].gen \in live
    <3>1. /\ client'[c].rec = client[c].rec /\ client'[c].got.tag = "shutdown"
      BY <1>2, <1>3, <2>1, TellForm
    <3>2. QED
      BY <1>5, <2>1, <3>1, CallAgain
  <2>2. CASE ~(client[c].pc = "waiting" /\ client[c].gen \in live)
    <3>1. client'[c] = client[c]
      BY <1>2, <1>3, <2>2, TellForm
    <3>2. ASSUME client'[c].pc = "waiting", client'[c].got.tag = "none"
          PROVE  PendingSound(c)'
      <4>1. Lost(c)'
        BY <1>1 DEF Lost
      <4>2. QED
        BY <1>1, <1>5, <3>1, <3>2, <4>1, PendingAgain
    <3>3. QED
      BY <1>5, <3>1, <3>2, CallAgain
  <2>3. QED
    BY <2>1, <2>2
<1>8. ASSUME NEW k \in Keys
      PROVE  FlightSound(k)'
  BY <1>1 DEF FlightSound, NoFlight
<1>9. QED
  BY <1>1, <1>2, <1>5, <1>6, <1>7, <1>8, CancelAgain

\* The waiters that a flight counts.
LEMMA FlightWaited ==
  ASSUME Typed, FlightInv, NEW k \in Keys, flights[k].gen # 0
  PROVE  /\ flights[k].waiters \in Nat
         /\ \A c \in Pending(k, flights[k].gen) : flights[k].waiters > 0
<1>1. PICK h \in Generations : h = flights[k].gen
  BY FlightFields
<1>2. flights[k].waiters = Cardinality(Pending(k, h)) \/ OrphanOf(k)
  BY <1>1, CountedFlight DEF FlightInv
<1>3. IsFiniteSet(Pending(k, h)) /\ Cardinality(Pending(k, h)) \in Nat
  BY PendingFinite
<1>4. CASE OrphanOf(k)
  BY <1>4 DEF OrphanOf
<1>5. CASE flights[k].waiters = Cardinality(Pending(k, h))
  <2>1. Pending(k, h) # {} => Cardinality(Pending(k, h)) # 0
    BY <1>3, FS_EmptySet
  <2>2. QED
    BY <1>1, <1>3, <1>5, <2>1
<1>6. QED
  BY <1>2, <1>4, <1>5

LEMMA WaitsInFlight ==
  ASSUME Typed, FlightInv, NEW c \in Clients, client[c].pc = "waiting", client[c].got.tag = "none"
  PROVE  /\ client[c].key \in Keys /\ client[c].gen \in Generations /\ client[c].gen # 0
         /\ client[c].gen <= generation
         /\ flights[client[c].key].gen = client[c].gen /\ c \in Pending(client[c].key, client[c].gen)
         /\ flights[client[c].key].waiters > 0
<1>1. client[c].key \in Keys /\ client[c].gen \in Generations /\ client[c].gen # 0
      /\ client[c].gen <= generation
  BY CallFields, CountTypes DEF FlightInv, GensFresh, WaitsForFlight
<1>2. flights[client[c].key].gen = client[c].gen
  BY DEF FlightInv, WaitersRegistered
<1>3. c \in Pending(client[c].key, client[c].gen)
  BY DEF Pending
<1>4. QED
  BY <1>1, <1>2, <1>3, FlightWaited

\* Whoever is the last to leave a flight leaves nobody behind.
LEMMA LastWaiter ==
  ASSUME Typed, FlightInv, NEW c \in Clients, client[c].pc = "waiting", Holds(c),
         flights[client[c].key].waiters = 1,
         NEW d \in Clients, client[d].pc = "waiting", client[d].got.tag = "none",
         client[d].gen = client[c].gen
  PROVE  d = c
<1>1. client[c].key \in Keys /\ flights[client[c].key].gen = client[c].gen
  BY CallFields DEF Holds
<1>2. client[c].got.tag = "none"
  BY <1>1 DEF FlightInv, ToldOnce
<1>3. /\ client[d].key \in Keys /\ flights[client[d].key].gen = client[d].gen /\ client[d].gen # 0
      /\ client[d].gen \in Generations
  BY WaitsInFlight
<1>4. client[d].key = client[c].key
  BY <1>1, <1>3 DEF FlightInv, GensFresh
<1>5. PICK k \in Keys, h \in Generations : k = client[c].key /\ h = client[c].gen
  BY <1>1, <1>3
<1>6. c \in Pending(k, h) /\ d \in Pending(k, h)
  BY <1>2, <1>4, <1>5 DEF Pending
<1>7. Cardinality(Pending(k, h)) = 1
  BY <1>1, <1>5, <1>6, CountedFlight DEF FlightInv, OrphanOf
<1>8. \E x : Pending(k, h) = {x}
  BY <1>7, PendingFinite, FS_Singleton
<1>9. QED
  BY <1>6, <1>8

LEMMA CallEndsCancel ==
  ASSUME Typed, Typed', FlightInv, CancelInv, NEW c \in Clients, CallEnds(c)
  PROVE  CancelInv'
<1>1. /\ conf' = conf /\ generation' = generation /\ shut' = shut /\ job' = job /\ store' = store
      /\ client[c].pc = "waiting" /\ DropsWaiter(c)
  BY CallEndsForm
<1>2. PICK x \in ClientRecords : client' = [client EXCEPT ![c] = x] /\ x.pc = "idle"
  BY CallEndsForm
<1>3. PICK F \in SUBSET Generations :
        /\ WaiterDrop(c, F)
        /\ \/ F = {} /\ svcRec' = svcRec
           \/ F = SyncCancels /\ SyncEpochs
  BY <1>1, SyncTypes DEF DropsWaiter
<1>4. \A d \in Clients : client'[d] = IF d = c THEN x ELSE client[d]
  BY <1>2, CountTypes
<1>5. /\ cancelled \union F \subseteq cancelled'
      /\ \A h \in cancelled' : h \in cancelled \/ h \in F \/ (Holds(c) /\ h \in LastOf(c))
  BY <1>1, <1>3, DropForm
<1>6. Steady
  <2>1. CASE F = {} /\ svcRec' = svcRec
    <3>1. store.rec \in Nat
      BY StoreFields
    <3>2. QED
      BY <1>1, <1>5, <2>1, <3>1 DEF Steady, CancelInv
  <2>2. CASE F = SyncCancels /\ SyncEpochs
    BY <1>1, <1>5, <2>2, SyncSteady
  <2>3. QED
    BY <1>3, <2>1, <2>2
<1>7. client[c].gen \in Generations /\ client[c].gen <= generation /\ client[c].key \in Keys
  BY <1>1, CallFields, CountTypes DEF FlightInv, GensFresh
<1>8. \A h \in cancelled' : h \in cancelled \/ h <= generation
  BY <1>3, <1>5, <1>7, SyncFired DEF LastOf
<1>9. ASSUME NEW d \in Clients
      PROVE  CallSound(d)'
  <2>1. ASSUME client'[d].pc = "waiting", client'[d].got.tag = "none"
        PROVE  PendingSound(d)'
    <3>1. d # c /\ client'[d] = client[d] /\ client[d].pc = "waiting" /\ client[d].got.tag = "none"
      BY <1>2, <1>4, <2>1
    <3>2. client[d].gen \in cancelled' => client[d].gen \in cancelled \/ SyncCancels # {}
      <4>1. ASSUME Holds(c), client[d].gen \in LastOf(c)
            PROVE  FALSE
        BY <1>1, <3>1, <4>1, LastWaiter DEF LastOf
      <4>2. QED
        BY <1>3, <1>5, <4>1
    <3>3. QED
      BY <1>1, <1>6, <3>1, <3>2, PendingAgain
  <2>2. client'[d].pc = "waiting" => client'[d] = client[d]
    BY <1>2, <1>4
  <2>3. QED
    BY <1>6, <2>1, <2>2, CallAgain
<1>10. ASSUME NEW k \in Keys
       PROVE  FlightSound(k)'
  <2>1. CASE flights' = flights
    BY <1>1, <1>6, <2>1, FlightAgain
  <2>2. ASSUME NEW y, Leaves(c, y), Holds(c), LastOf(c) \subseteq cancelled'
        PROVE  FlightSound(k)'
    <3>1. flights'[k] = IF k = client[c].key THEN y ELSE flights[k]
      BY <2>2, CountTypes DEF Leaves, Flights
    <3>2. CASE k = client[c].key
      <4>1. ASSUME flights'[k].gen # 0
            PROVE  /\ flights'[k].gen = flights[k].gen
                   /\ flights'[k].waiters = 0 => flights[k].gen \in cancelled'
        <5>1. y.gen = flights[k].gen /\ y.waiters = flights[k].waiters - 1
          BY <2>2, <3>1, <3>2, <4>1 DEF Leaves, NoFlight
        <5>2. y.waiters = 0 => flights[k].waiters = 1
          BY <5>1, FlightFields
        <5>3. flights[k].waiters = 1 => flights[k].gen \in cancelled'
          BY <2>2, <3>2 DEF LastOf, Holds
        <5>4. QED
          BY <3>1, <3>2, <5>1, <5>2, <5>3
      <4>2. QED
        BY <1>1, <1>6, <4>1, FlightAgain
    <3>3. CASE k # client[c].key
      BY <1>1, <1>6, <3>1, <3>3, FlightAgain
    <3>4. QED
      BY <3>2, <3>3
  <2>3. QED
    BY <1>1, <1>3, <2>1, <2>2, DropForm
<1>11. QED
  BY <1>1, <1>6, <1>8, <1>9, <1>10, CancelAgain

\* A call that is admitted finds the store usual.
LEMMA AdmittedUsual ==
  ASSUME CancelInv, StorageError = "none"
  PROVE  store.st \in Usual
  BY DEF CancelInv, StorageError, Usual, NoStore

LEMMA JoinCancel ==
  ASSUME Typed, Typed', FlightInv, CancelInv, NEW c \in Clients, NEW k \in Keys, NEW stale \in BOOLEAN,
         RetrieveJoin(c, k, stale)
  PROVE  CancelInv'
<1>1. /\ conf' = conf /\ generation' = generation /\ shut' = shut /\ job' = job /\ store' = store
      /\ Synced /\ ~shut /\ StorageError = "none"
  BY JoinForm
<1>2. PICK g \in Generations : g = flights[k].gen /\ g \notin cancelled'
  BY JoinForm
<1>3. PICK y \in [gen : 0..MaxGen, waiters : Int] :
              /\ flights' = [flights EXCEPT ![k] = y]
              /\ y.gen = g /\ y.waiters = flights[k].waiters + 1
  BY <1>2, JoinForm
<1>4. PICK x \in ClientRecords :
              /\ client' = [client EXCEPT ![c] = x] /\ x.pc = "waiting"
              /\ x.key = k /\ x.gen = g /\ x.rec = store.rec /\ x.got.tag = "none"
  BY <1>2, JoinForm
<1>5. \A d \in Clients : client'[d] = IF d = c THEN x ELSE client[d]
  BY <1>4, CountTypes
<1>6. \A l \in Keys : flights'[l] = IF l = k THEN y ELSE flights[l]
  BY <1>3, CountTypes DEF Flights
<1>7. Steady /\ cancelled' = cancelled \union SyncCancels /\ svcRec' = store.rec
  BY <1>1, SyncSteady DEF Synced, SyncEpochs
<1>8. g # 0 /\ flights[k].gen = g
  BY <1>2, ServiceAssumption DEF Generations
<1>9. store.rec = svcRec
  <2>1. g \notin SyncCancels
    BY <1>2, <1>7
  <2>2. QED
    BY <1>8, <2>1 DEF SyncCancels
<1>10. CallSound(c)'
  <2>1. FlightSound(k)
    BY DEF CancelInv
  <2>2. ~Unjoinable(k)
    <3>1. ~(store.rec > svcRec)
      BY <1>9, StoreFields
    <3>2. store.st # "uncertain"
      BY <1>1, AdmittedUsual DEF Usual
    <3>3. QED
      BY <1>1, <1>2, <1>7, <3>1, <3>2 DEF Unjoinable
  <2>3. ~(job[g].pc = "publish" /\ job[g].res.tag = "cancelled")
    BY <1>8, <2>1, <2>2 DEF FlightSound
  <2>4. Persistent /\ job[g].pc \in Started => store.rec <= job[g].rec
    BY <1>2, <1>7, <1>8, <1>9, <2>1 DEF FlightSound
  <2>5. client'[c].gen = g /\ client'[c].rec = store.rec /\ client'[c].got.tag = "none"
    BY <1>4, <1>5
  <2>6. PendingSound(c)'
    BY <1>1, <1>2, <2>3, <2>4, <2>5, ConfSets DEF PendingSound, Started, Running, JobPCs
  <2>7. store'.st \in Usual /\ store'.rec \in Nat /\ svcRec' = store'.rec
    BY <1>1, <1>7, AdmittedUsual, StoreFields
  <2>8. QED
    BY <1>1, <2>5, <2>6, <2>7 DEF CallSound, Usual
<1>11. ASSUME NEW d \in Clients, d # c
       PROVE  CallSound(d)'
  <2>1. client'[d] = client[d]
    BY <1>5, <1>11
  <2>2. ASSUME client'[d].pc = "waiting", client'[d].got.tag = "none"
        PROVE  PendingSound(d)'
    BY <1>1, <1>7, <2>1, <2>2, PendingAgain
  <2>3. QED
    BY <1>7, <2>1, <2>2, CallAgain
<1>12. ASSUME NEW l \in Keys
       PROVE  FlightSound(l)'
  <2>1. CASE l # k
    BY <1>1, <1>6, <1>7, <2>1, FlightAgain
  <2>2. CASE l = k
    <3>1. flights[k].waiters \in Nat
      BY <1>8, FlightWaited
    <3>2. y.waiters # 0
      BY <1>3, <3>1
    <3>3. QED
      BY <1>1, <1>3, <1>6, <1>7, <1>8, <2>2, <3>2, FlightAgain
  <2>3. QED
    BY <2>1, <2>2
<1>13. \A h \in cancelled' : h \in cancelled \/ h <= generation
  BY <1>7, SyncFired
<1>14. QED
  BY <1>1, <1>7, <1>10, <1>11, <1>12, <1>13, CancelAgain

LEMMA StartCancel ==
  ASSUME Typed, Typed', FlightInv, CancelInv, NEW c \in Clients, NEW k \in Keys, NEW stale \in BOOLEAN,
         RetrieveStart(c, k, stale)
  PROVE  CancelInv'
<1>1. /\ conf' = conf /\ store' = store /\ Synced /\ ~shut /\ StorageError = "none"
      /\ generation + 1 \in Generations /\ generation' = generation + 1
      /\ flights' = [flights EXCEPT ![k] = [gen |-> generation + 1, waiters |-> 1]]
      /\ (Spawns(c, k) \/ Reaps(c))
  BY StartForm
<1>2. PICK n \in Generations : n = generation + 1
  BY <1>1
<1>3. \A l \in Keys : flights'[l] = IF l = k THEN [gen |-> n, waiters |-> 1] ELSE flights[l]
  BY <1>1, <1>2, CountTypes DEF Flights
<1>4. /\ Steady /\ cancelled' = cancelled \union SyncCancels /\ svcRec' = store.rec
  BY <1>1, SyncSteady DEF Synced, SyncEpochs
<1>5. \A h \in cancelled' : h <= generation
  BY <1>4, SyncFired DEF CancelInv
<1>6. ~(n <= generation) /\ n # 0
  BY <1>2, CountTypes, ServiceAssumption, SMTT(30) DEF Generations
<1>7. job[n].pc = "unused" /\ n \notin cancelled'
  BY <1>5, <1>6 DEF FlightInv, GensFresh
<1>8. \A l \in Keys : flights[l].gen # n
  BY <1>6 DEF FlightInv, GensFresh
<1>9. PICK h \in Generations, j \in JobRecords, x \in ClientRecords :
        /\ job' = [job EXCEPT ![h] = j] /\ client' = [client EXCEPT ![c] = x]
        /\ \/ /\ h = n /\ shut' = shut /\ j.rec = 0 /\ j.pc = (IF Persistent THEN "start" ELSE "fetch")
              /\ x.gen = n /\ x.rec = store.rec /\ x.got.tag = "none"
           \/ shut' = TRUE /\ job[h].pc = "panicked" /\ j.pc = "done" /\ j.rec = job[h].rec /\ x.pc = "idle"
  BY <1>1, <1>2 DEF Spawns, Reaps
<1>10. \A d \in Clients : client'[d] = IF d = c THEN x ELSE client[d]
  BY <1>9, CountTypes
<1>11. \A g \in Generations : job'[g] = IF g = h THEN j ELSE job[g]
  BY <1>9, CountTypes
<1>12. store'.st \in Usual
  BY <1>1, AdmittedUsual
<1>13. job'[n].pc # "publish" /\ (Persistent' => job'[n].pc \notin Started)
  <2>1. Persistent' = Persistent
    BY <1>1, ConfSets
  <2>2. QED
    BY <1>7, <1>9, <1>11, <2>1 DEF Started, Running, JobPCs
<1>14. CallSound(c)'
  <2>1. CASE x.pc = "idle"
    BY <1>10, <2>1 DEF CallSound
  <2>2. CASE x.gen = n /\ x.rec = store.rec /\ x.got.tag = "none"
    <3>1. client'[c].gen = n /\ client'[c].rec = store.rec /\ client'[c].got.tag = "none"
      BY <1>10, <2>2
    <3>2. PendingSound(c)'
      BY <1>7, <1>13, <3>1 DEF PendingSound, Started, Running, JobPCs
    <3>3. store.rec \in Nat
      BY StoreFields
    <3>4. QED
      BY <1>4, <1>12, <3>1, <3>2, <3>3 DEF CallSound, Usual
  <2>3. QED
    BY <1>9, <2>1, <2>2
<1>15. ASSUME NEW d \in Clients, d # c
       PROVE  CallSound(d)'
  <2>1. client'[d] = client[d]
    BY <1>10, <1>15
  <2>2. ASSUME client'[d].pc = "waiting", client'[d].got.tag = "none"
        PROVE  PendingSound(d)'
    <3>1. client[d].pc = "waiting" /\ client[d].got.tag = "none"
      BY <2>1, <2>2
    <3>2. client[d].gen \in Generations /\ client[d].gen # n
      BY <1>6, <3>1, WaitsInFlight
    <3>3. \/ job'[client[d].gen] = job[client[d].gen]
          \/ shut' /\ job'[client[d].gen].pc = "done"
      BY <1>9, <1>11, <3>2
    <3>4. client[d].gen \in cancelled' => client[d].gen \in cancelled \/ SyncCancels # {}
      BY <1>4
    <3>5. QED
      BY <1>4, <2>1, <3>1, <3>3, <3>4, PendingAgain
  <2>3. QED
    BY <1>4, <2>1, <2>2, CallAgain
<1>16. ASSUME NEW l \in Keys
       PROVE  FlightSound(l)'
  <2>1. CASE l # k
    <3>1. flights'[l] = flights[l]
      BY <1>3, <2>1
    <3>2. flights[l].gen # 0 => \/ job'[flights[l].gen] = job[flights[l].gen]
                                \/ job'[flights[l].gen].pc = "done"
      BY <1>8, <1>9, <1>11, FlightFields
    <3>3. QED
      BY <1>4, <3>1, <3>2, FlightAgain
  <2>2. CASE l = k
    <3>1. flights'[l].gen = n /\ flights'[l].waiters = 1
      BY <1>3, <2>2
    <3>2. QED
      BY <1>12, <1>13, <3>1 DEF FlightSound, Usual, Started, Running, JobPCs
  <2>3. QED
    BY <2>1, <2>2
<1>17. \A g \in Generations : job'[g].rec = job[g].rec \/ job'[g].rec <= store'.rec
  <2>1. 0 <= store'.rec
    BY <1>1, StoreFields
  <2>2. QED
    BY <1>9, <1>11, <2>1
<1>18. QED
  BY <1>1, <1>4, <1>5, <1>14, <1>15, <1>16, <1>17, CancelAgain

\* Why a persistent job may refuse to go on although its token has not fired.
Reason(g) ==
  /\ Persistent /\ job[g].pc \in Started
  /\ \/ stopping \/ ~Wanted(g) \/ store.rec # job[g].rec \/ store.st \notin Usual
     \/ g \in SyncCancels /\ SyncCancels \subseteq cancelled'

Cause(g) == ~(Persistent /\ job[g].late) /\ (TokenFired(g) \/ Reason(g))

\* A step of job g, which goes on as x.
Turn(g, x) ==
  /\ job[g].pc \in Running \ {"publish"}
  /\ x.pc = "publish" /\ x.res.tag = "cancelled" => Cause(g)
  /\ x.pc = "publish" /\ Persistent /\ job[g].late => x.res.tag = "storage"
  /\ x.pc # "publish" /\ job[g].late => x.late
  /\ x.rec \in {0, job[g].rec, store.rec}
  /\ Persistent /\ x.pc \in Started => x.rec = store.rec \/ (x.rec = job[g].rec /\ job[g].pc \in Started)

LEMMA CauseLost ==
  ASSUME Typed, FlightInv, CancelInv, NEW g \in Generations, job[g].pc \in Running \ {"publish"}, Cause(g),
         NEW c \in Clients, client[c].pc = "waiting", client[c].got.tag = "none", client[c].gen = g
  PROVE  Lost(c)
<1>1. CallSound(c) /\ PendingSound(c)
  BY DEF CancelInv, CallSound
<1>2. /\ client[c].key \in Keys /\ flights[client[c].key].gen = g
      /\ flights[client[c].key].waiters > 0
  BY WaitsInFlight
<1>3. job[g].key = client[c].key
  BY <1>2 DEF FlightInv, KeysMatch, Live
<1>4. client[c].rec \in Nat /\ job[g].rec \in Nat /\ store.rec \in Nat /\ job[g].rec <= store.rec
  BY CallFields, JobFields, StoreFields DEF CancelInv
<1>5. CASE TokenFired(g)
  BY <1>1, <1>5 DEF TokenFired, PendingSound, Excused, Lost, Cause
<1>6. CASE stopping
  BY <1>6 DEF FlightInv, StopOrder, Lost
<1>7. CASE ~Wanted(g)
  BY <1>2, <1>3, <1>5, <1>7 DEF Wanted
<1>8. CASE Persistent /\ job[g].pc \in Started /\ store.rec # job[g].rec
  <2>1. client[c].rec <= job[g].rec
    BY <1>1, <1>8 DEF PendingSound
  <2>2. QED
    BY <1>4, <1>8, <2>1 DEF Lost
<1>9. CASE store.st \notin Usual
  BY <1>1, <1>9 DEF CallSound
<1>10. CASE g \in SyncCancels
  BY <1>10, SyncLost
<1>11. QED
  BY <1>5, <1>6, <1>7, <1>8, <1>9, <1>10 DEF Cause, Reason

LEMMA CauseFlight ==
  ASSUME Typed, FlightInv, CancelInv, NEW g \in Generations, job[g].pc \in Running \ {"publish"}, Cause(g),
         NEW k \in Keys, flights[k].gen = g
  PROVE  Unjoinable(k) \/ g \in cancelled'
<1>1. g # 0 /\ FlightSound(k)
  BY ServiceAssumption DEF CancelInv, Generations
<1>2. /\ store.st \in Usual \/ Unjoinable(k)
      /\ flights[k].waiters = 0 => g \in cancelled
      /\ Persistent /\ job[g].pc \in Started /\ g \notin cancelled => svcRec <= job[g].rec
  BY <1>1 DEF FlightSound
<1>3. job[g].key = k
  BY DEF FlightInv, KeysMatch, Live
<1>4. svcRec \in Nat /\ job[g].rec \in Nat /\ store.rec \in Nat /\ job[g].rec <= store.rec
  BY CountTypes, JobFields, StoreFields DEF CancelInv
<1>5. CASE TokenFired(g)
  BY <1>5 DEF TokenFired, Unjoinable
<1>6. CASE stopping
  BY <1>6 DEF FlightInv, StopOrder, Unjoinable
<1>7. CASE ~Wanted(g)
  <2>1. flights[k].waiters \in Nat
    BY <1>1, FlightWaited
  <2>2. CASE ~(flights[k].waiters > 0)
    BY <1>2, <2>1, <2>2 DEF Unjoinable
  <2>3. QED
    BY <1>3, <1>5, <1>7, <2>2 DEF Wanted
<1>8. CASE Persistent /\ job[g].pc \in Started /\ store.rec # job[g].rec
  BY <1>2, <1>4, <1>8 DEF Unjoinable
<1>9. CASE store.st \notin Usual
  BY <1>2, <1>9
<1>10. QED
  BY <1>5, <1>6, <1>7, <1>8, <1>9 DEF Cause, Reason

\* A job that moves takes nobody down with it.
LEMMA TurnCancel ==
  ASSUME Typed, Typed', FlightInv, CancelInv, Steady, NEW g \in Generations, NEW x, Trans(g, x), Turn(g, x),
         flights' = flights, client' = client, generation' = generation,
         \A h \in cancelled' : \/ h \in cancelled \/ h \in SyncCancels
                               \/ h = g /\ Persistent /\ x.late /\ x.pc # "publish"
  PROVE  CancelInv'
<1>1. \A h \in Generations : job'[h] = IF h = g THEN x ELSE job[h]
  BY CountTypes DEF Trans
<1>2. Persistent' = Persistent /\ svcRec \in Nat /\ store.rec \in Nat /\ svcRec <= store.rec
      /\ store.rec <= store'.rec /\ store'.rec \in Nat /\ svcRec' \in Nat
  BY Counters DEF Steady
<1>3. job[g].pc \in Running \ {"publish"}
  BY DEF Turn
<1>4. ASSUME NEW c \in Clients
      PROVE  CallSound(c)'
  <2>1. ASSUME client[c].pc = "waiting", client[c].got.tag = "none", client[c].gen # g
        PROVE  PendingSound(c)'
    <3>1. client[c].gen \in Generations
      BY <2>1, CallFields
    <3>2. job'[client[c].gen] = job[client[c].gen]
      BY <1>1, <2>1, <3>1
    <3>3. client[c].gen \in cancelled' => client[c].gen \in cancelled \/ SyncCancels # {}
      BY <2>1
    <3>4. QED
      BY <2>1, <3>2, <3>3, PendingAgain
  <2>2. ASSUME client[c].pc = "waiting", client[c].got.tag = "none", client[c].gen = g
        PROVE  PendingSound(c)'
    <3>1. PendingSound(c) /\ CallSound(c)
      BY <2>2 DEF CancelInv, CallSound
    <3>2. client'[c] = client[c] /\ job'[client[c].gen] = x
      BY <1>1, <2>2
    <3>3. Lost(c) => Lost(c)'
      BY <3>2, LostStays
    <3>4. g \in cancelled' => Excused(c)'
      <4>1. CASE g \in cancelled
        <5>1. Excused(c)
          BY <2>2, <3>1, <4>1 DEF PendingSound
        <5>2. CASE Lost(c)
          BY <3>3, <5>2 DEF Excused
        <5>3. CASE Persistent /\ job[g].late
          BY <1>2, <3>2, <5>3 DEF Turn, Excused
        <5>4. QED
          BY <1>3, <2>2, <5>1, <5>2, <5>3 DEF Excused
      <4>2. CASE g \in SyncCancels
        BY <2>2, <3>3, <4>2, SyncLost DEF Excused
      <4>3. CASE Persistent /\ x.late /\ x.pc # "publish"
        BY <1>2, <3>2, <4>3 DEF Excused
      <4>4. QED
        BY <4>1, <4>2, <4>3
    <3>5. x.pc = "publish" /\ x.res.tag = "cancelled" => Lost(c)'
      BY <1>3, <2>2, <3>3, CauseLost DEF Turn
    <3>6. Persistent' /\ x.pc \in Started => client[c].rec <= x.rec
      <4>1. client[c].rec \in Nat /\ client[c].rec <= svcRec
        BY <2>2, <3>1, CallFields DEF CallSound
      <4>2. client[c].rec <= store.rec
        BY <1>2, <4>1
      <4>3. Persistent /\ job[g].pc \in Started => client[c].rec <= job[g].rec
        BY <2>2, <3>1 DEF PendingSound
      <4>4. QED
        BY <1>2, <4>2, <4>3 DEF Turn
    <3>7. QED
      BY <2>2, <3>2, <3>4, <3>5, <3>6 DEF PendingSound, Started, Running, JobPCs
  <2>3. QED
    BY <2>1, <2>2, CallAgain
<1>5. ASSUME NEW k \in Keys
      PROVE  FlightSound(k)'
  <2>1. CASE flights[k].gen # g
    <3>1. flights[k].gen # 0 => job'[flights[k].gen] = job[flights[k].gen]
      BY <1>1, <2>1, FlightFields
    <3>2. QED
      BY <3>1, FlightAgain
  <2>2. CASE flights[k].gen = g
    <3>1. job'[flights[k].gen] = x /\ g # 0 /\ FlightSound(k)
      BY <1>1, <2>2, ServiceAssumption DEF CancelInv, Generations
    <3>2. x.pc = "publish" /\ x.res.tag = "cancelled" => Unjoinable(k)'
      <4>1. Unjoinable(k) => Unjoinable(k)'
        BY <2>2, <3>1, UnjoinableStays
      <4>2. g \in cancelled' => Unjoinable(k)'
        BY <2>2 DEF Unjoinable
      <4>3. QED
        BY <1>3, <2>2, <4>1, <4>2, CauseFlight DEF Turn
    <3>3. Persistent' /\ x.pc \in Started /\ g \notin cancelled' => svcRec' <= x.rec
      <4>1. SUFFICES ASSUME Persistent', x.pc \in Started, g \notin cancelled'
                     PROVE  svcRec' <= x.rec
        OBVIOUS
      <4>2. CASE x.rec = store.rec
        BY <1>2, <4>2 DEF Steady
      <4>3. CASE x.rec = job[g].rec /\ job[g].pc \in Started
        <5>1. svcRec <= job[g].rec
          BY <1>2, <2>2, <3>1, <4>1, <4>3 DEF FlightSound, Steady
        <5>2. CASE svcRec' = store.rec /\ SyncCancels \subseteq cancelled'
          <6>1. g \notin SyncCancels
            BY <4>1, <5>2
          <6>2. store.rec = svcRec
            BY <2>2, <3>1, <6>1 DEF SyncCancels
          <6>3. QED
            BY <4>3, <5>1, <5>2, <6>2
        <5>3. QED
          BY <4>3, <5>1, <5>2 DEF Steady
      <4>4. QED
        BY <1>2, <4>1, <4>2, <4>3 DEF Turn
    <3>4. Landing(k)
      BY <2>2, <3>1, <3>2, <3>3 DEF Landing
    <3>5. QED
      BY <3>4, FlightAgain
  <2>3. QED
    BY <2>1, <2>2
<1>6. \A h \in Generations : job'[h].rec = job[h].rec \/ job'[h].rec <= store'.rec
  <2>1. x.rec = job[g].rec \/ x.rec <= store'.rec
    BY <1>2 DEF Turn
  <2>2. QED
    BY <1>1, <2>1
<1>7. \A h \in cancelled' : h \in cancelled \/ h <= generation
  <2>1. g <= generation
    BY <1>3 DEF FlightInv, GensFresh, Running, JobPCs
  <2>2. QED
    BY <2>1, SyncFired
<1>8. QED
  BY <1>4, <1>5, <1>6, <1>7, CancelAgain

\* A job that ends.
LEMMA EndTurn ==
  ASSUME Typed, NEW g \in Generations, job[g].pc \in Running \ {"publish"}, NEW x, NEW r,
         Finishes(g, x, r), r.tag = "cancelled" => TokenFired(g) \/ Reason(g)
  PROVE  Turn(g, x)
<1>1. Err("storage").tag = "storage"
  BY ErrTypes DEF Errors
<1>2. /\ x.pc = "publish" /\ x.rec = 0
      /\ x.res = r \/ TokenFired(g) \/ x.res = Err("storage")
      /\ job[g].late => x.res = Err("storage")
  BY DEF Finishes
<1>3. job[g].late => x.res.tag = "storage"
  BY <1>1, <1>2
<1>4. x.res.tag = "cancelled" => Cause(g)
  BY <1>1, <1>2, <1>3 DEF Cause
<1>5. QED
  BY <1>2, <1>3, <1>4 DEF Turn, Started

LEMMA ErrTurn ==
  ASSUME Typed, NEW g \in Generations, job[g].pc \in Running \ {"publish"}, NEW x, NEW e \in Errors,
         Finishes(g, x, Err(e)), e = "cancelled" => TokenFired(g) \/ Reason(g)
  PROVE  Turn(g, x)
  BY ErrTypes, EndTurn

\* A job that goes on.
LEMMA GoTurn ==
  ASSUME NEW g \in Generations, job[g].pc \in Running \ {"publish"}, NEW x, x.pc # "publish",
         x.late = job[g].late, x.rec = job[g].rec, x.pc \in Started => job[g].pc \in Started
  PROVE  Turn(g, x)
  BY DEF Turn

\* Every state of a job but the first and the last.
LEMMA StartedPCs ==
  Started = {"lookup", "rows", "found", "admit", "fetch", "begin", "authorize", "commit", "unsettled",
             "record", "drop", "accept", "relook", "settle"}
  BY DEF Started, Running, JobPCs

LEMMA EarlyTurn ==
  ASSUME Typed, NEW g \in Generations,
         \/ MemoryRefresh(g) \/ JobStart(g) \/ JobLookup(g) \/ JobRows(g) \/ JobUnusable(g) \/ JobAdmit(g)
         \/ JobRefresh(g) \/ JobPanic(g)
  PROVE  \E x : Trans(g, x) /\ Turn(g, x)
<1>0. \A p \in Started \union {"start"} : p \in Running \ {"publish"}
  BY DEF Started, Running, JobPCs
<1>1. CASE MemoryRefresh(g)
  <2>1. PICK x : /\ Trans(g, x) /\ x.pc = "publish" /\ x.rec = job[g].rec
                 /\ \/ x.res = Err("cancelled") /\ TokenFired(g)
                    \/ x.res \in {Err("upstream"), Err("rejected")}
                    \/ x.res = Outcome("ok", [at |-> now, id |-> 0, lookup |-> FALSE], 0)
    BY <1>1, MemoryRefreshForm, ZenonT(30)
  <2>2. ~Persistent /\ job[g].pc \in Running \ {"publish"}
    BY <1>0, <1>1, MemoryRefreshForm, StartedPCs
  <2>3. Err("upstream").tag = "upstream" /\ Err("rejected").tag = "rejected"
    BY ErrTypes DEF Errors
  <2>4. Outcome("ok", [at |-> now, id |-> 0, lookup |-> FALSE], 0).tag = "ok"
    BY DEF Outcome
  <2>5. x.res.tag = "cancelled" => TokenFired(g)
    BY <2>1, <2>3, <2>4
  <2>6. QED
    BY <2>1, <2>2, <2>5 DEF Turn, Cause
<1>2. CASE JobStart(g)
  <2>1. PICK x : Trans(g, x) /\
              \/ Finishes(g, x, Err("cancelled")) /\ TokenFired(g)
              \/ x.pc = "lookup" /\ x.rec = store.rec /\ x.late = job[g].late
    BY <1>2, JobStartForm
  <2>2. job[g].pc \in Running \ {"publish"}
    BY <1>0, <1>2, JobStartForm
  <2>3. CASE Finishes(g, x, Err("cancelled")) /\ TokenFired(g)
    BY <2>1, <2>2, <2>3, ErrTurn DEF Errors
  <2>4. CASE x.pc = "lookup" /\ x.rec = store.rec /\ x.late = job[g].late
    BY <2>1, <2>2, <2>4 DEF Turn
  <2>5. QED
    BY <2>1, <2>3, <2>4
<1>3. CASE JobLookup(g)
  <2>1. PICK x : Trans(g, x) /\
              \/ \E e \in {"busy", "corrupt", "storage"} : Finishes(g, x, Err(e))
              \/ Finishes(g, x, Err("cancelled")) /\ TokenFired(g)
              \/ x.pc = "rows" /\ x.rec = job[g].rec /\ x.late = job[g].late
    BY <1>3, JobLookupForm
  <2>2. job[g].pc \in Running \ {"publish"} /\ job[g].pc \in Started
    BY <1>0, <1>3, JobLookupForm, StartedPCs
  <2>3. CASE \E e \in {"busy", "corrupt", "storage"} : Finishes(g, x, Err(e))
    BY <2>1, <2>2, <2>3, ErrTurn DEF Errors
  <2>4. CASE Finishes(g, x, Err("cancelled")) /\ TokenFired(g)
    BY <2>1, <2>2, <2>4, ErrTurn DEF Errors
  <2>5. CASE x.pc = "rows" /\ x.rec = job[g].rec /\ x.late = job[g].late
    BY <2>1, <2>2, <2>5, GoTurn
  <2>6. QED
    BY <2>1, <2>3, <2>4, <2>5
<1>4. CASE JobRows(g)
  <2>1. PICK x : Trans(g, x) /\
              \/ Finishes(g, x, Err("busy"))
              \/ x.pc \in {"admit", "settle", "found"} /\ x.rec = job[g].rec /\ x.late = job[g].late
    BY <1>4, JobRowsForm
  <2>2. job[g].pc \in Running \ {"publish"} /\ job[g].pc \in Started
    BY <1>0, <1>4, JobRowsForm, StartedPCs
  <2>3. CASE Finishes(g, x, Err("busy"))
    BY <2>1, <2>2, <2>3, ErrTurn DEF Errors
  <2>4. CASE x.pc \in {"admit", "settle", "found"} /\ x.rec = job[g].rec /\ x.late = job[g].late
    BY <2>1, <2>2, <2>4, GoTurn
  <2>5. QED
    BY <2>1, <2>3, <2>4
<1>5. CASE JobUnusable(g)
  <2>1. PICK x : Trans(g, x) /\
              \/ Finishes(g, x, Err("cancelled")) /\ TokenFired(g)
              \/ x.pc = "admit" /\ x.rec = job[g].rec /\ x.late = job[g].late
    BY <1>5, JobUnusableForm
  <2>2. job[g].pc \in Running \ {"publish"} /\ job[g].pc \in Started
    BY <1>0, <1>5, JobUnusableForm, StartedPCs
  <2>3. CASE Finishes(g, x, Err("cancelled")) /\ TokenFired(g)
    BY <2>1, <2>2, <2>3, ErrTurn DEF Errors
  <2>4. CASE x.pc = "admit" /\ x.rec = job[g].rec /\ x.late = job[g].late
    BY <2>1, <2>2, <2>4, GoTurn
  <2>5. QED
    BY <2>1, <2>3, <2>4
<1>6. CASE JobAdmit(g)
  <2>1. PICK x : Trans(g, x) /\
              \/ Finishes(g, x, Err("cancelled")) /\ TokenFired(g)
              \/ \E e \in {"busy", "corrupt", "storage"} : Finishes(g, x, Err(e))
              \/ x.pc = "fetch" /\ x.rec = job[g].rec /\ x.late = job[g].late
    BY <1>6, JobAdmitForm
  <2>2. job[g].pc \in Running \ {"publish"} /\ job[g].pc \in Started
    BY <1>0, <1>6, JobAdmitForm, StartedPCs
  <2>3. CASE Finishes(g, x, Err("cancelled")) /\ TokenFired(g)
    BY <2>1, <2>2, <2>3, ErrTurn DEF Errors
  <2>4. CASE \E e \in {"busy", "corrupt", "storage"} : Finishes(g, x, Err(e))
    BY <2>1, <2>2, <2>4, ErrTurn DEF Errors
  <2>5. CASE x.pc = "fetch" /\ x.rec = job[g].rec /\ x.late = job[g].late
    BY <2>1, <2>2, <2>5, GoTurn
  <2>6. QED
    BY <2>1, <2>3, <2>4, <2>5
<1>7. CASE JobRefresh(g)
  <2>1. PICK x : Trans(g, x) /\
              \/ Finishes(g, x, Err("cancelled")) /\ TokenFired(g)
              \/ \E e \in Refusals : Finishes(g, x, Err(e))
              \/ x.pc = "begin" /\ x.rec = job[g].rec /\ x.late = job[g].late
    BY <1>7, JobRefreshForm
  <2>2. job[g].pc \in Running \ {"publish"} /\ job[g].pc \in Started
    BY <1>0, <1>7, JobRefreshForm, StartedPCs
  <2>3. CASE Finishes(g, x, Err("cancelled")) /\ TokenFired(g)
    BY <2>1, <2>2, <2>3, ErrTurn DEF Errors
  <2>4. CASE \E e \in Refusals : Finishes(g, x, Err(e))
    BY <2>1, <2>2, <2>4, ErrTurn DEF Errors, Refusals
  <2>5. CASE x.pc = "begin" /\ x.rec = job[g].rec /\ x.late = job[g].late
    BY <2>1, <2>2, <2>5, GoTurn
  <2>6. QED
    BY <2>1, <2>3, <2>4, <2>5
<1>8. CASE JobPanic(g)
  <2>1. PICK x : Trans(g, x) /\ x.pc = "panicked" /\ x.rec = job[g].rec /\ x.late = job[g].late
    BY <1>8, JobPanicForm
  <2>2. job[g].pc \in Running \ {"publish"}
    BY <1>0, <1>8, JobPanicForm, StartedPCs
  <2>3. QED
    BY <2>1, <2>2, GoTurn, StartedPCs
<1>9. QED
  BY <1>1, <1>2, <1>3, <1>4, <1>5, <1>6, <1>7, <1>8

LEMMA LateTurn ==
  ASSUME Typed, NEW g \in Generations,
         \/ JobBegin(g) \/ JobAuthorize(g) \/ JobCommit(g) \/ JobDrop(g) \/ JobAccept(g) \/ JobSettle(g)
         \/ JobStorageFault(g) \/ JobCommitLost(g) \/ JobSettled(g) \/ JobRecord(g)
  PROVE  \E x : Trans(g, x) /\ Turn(g, x)
<1>0. \A p \in Started : p \in Running \ {"publish"}
  BY DEF Started, Running, JobPCs
<1>1. CASE JobBegin(g)
  <2>1. PICK x : Trans(g, x) /\
              \/ \E e \in {"busy", "corrupt", "storage"} : Finishes(g, x, Err(e))
              \/ Finishes(g, x, Err("cancelled")) /\ ~Authorize(g)
              \/ x.pc \in {"relook", "authorize"} /\ x.rec = job[g].rec /\ x.late = job[g].late
    BY <1>1, JobBeginForm
  <2>2. job[g].pc \in Running \ {"publish"} /\ job[g].pc \in Started /\ Persistent
    BY <1>0, <1>1, JobBeginForm, StartedPCs, PersistentJob DEF MemoryPCs
  <2>3. CASE \E e \in {"busy", "corrupt", "storage"} : Finishes(g, x, Err(e))
    BY <2>1, <2>2, <2>3, ErrTurn DEF Errors
  <2>4. CASE Finishes(g, x, Err("cancelled")) /\ ~Authorize(g)
    BY <2>1, <2>2, <2>4, ErrTurn DEF Errors, Reason, Authorize, Usual
  <2>5. CASE x.pc \in {"relook", "authorize"} /\ x.rec = job[g].rec /\ x.late = job[g].late
    BY <2>1, <2>2, <2>5, GoTurn
  <2>6. QED
    BY <2>1, <2>3, <2>4, <2>5
<1>2. CASE JobAuthorize(g)
  <2>1. PICK x : Trans(g, x) /\
              \/ Finishes(g, x, Err("cancelled")) /\ ~Authorize(g)
              \/ x.pc = "commit" /\ x.rec = job[g].rec /\ x.late = job[g].late
    BY <1>2, JobAuthorizeForm
  <2>2. job[g].pc \in Running \ {"publish"} /\ job[g].pc \in Started /\ Persistent
    BY <1>0, <1>2, JobAuthorizeForm, StartedPCs, PersistentJob DEF MemoryPCs
  <2>3. CASE Finishes(g, x, Err("cancelled")) /\ ~Authorize(g)
    BY <2>1, <2>2, <2>3, ErrTurn DEF Errors, Reason, Authorize, Usual
  <2>4. CASE x.pc = "commit" /\ x.rec = job[g].rec /\ x.late = job[g].late
    BY <2>1, <2>2, <2>4, GoTurn
  <2>5. QED
    BY <2>1, <2>3, <2>4
<1>3. CASE JobCommit(g) \/ JobDrop(g) \/ JobAccept(g)
  <2>1. PICK x : /\ Trans(g, x) /\ x.pc \in {"drop", "accept", "settle"} /\ x.rec = job[g].rec
                 /\ x.late = job[g].late
    BY <1>3, JobCommitForm, JobDropForm, JobAcceptForm
  <2>2. job[g].pc \in Running \ {"publish"} /\ job[g].pc \in Started
    BY <1>0, <1>3, JobCommitForm, JobDropForm, JobAcceptForm, StartedPCs
  <2>3. QED
    BY <2>1, <2>2, GoTurn
<1>4. CASE JobSettle(g)
  <2>1. PICK x : Trans(g, x) /\
              \/ Finishes(g, x, Err("cancelled")) /\ TokenFired(g)
              \/ \E e \in Refusals : Finishes(g, x, Err(e))
              \/ Finishes(g, x, Outcome("ok", job[g].value, job[g].lep))
    BY <1>4, JobSettleForm
  <2>2. job[g].pc \in Running \ {"publish"}
    BY <1>0, <1>4, JobSettleForm, StartedPCs
  <2>3. CASE Finishes(g, x, Err("cancelled")) /\ TokenFired(g)
    BY <2>1, <2>2, <2>3, ErrTurn DEF Errors
  <2>4. CASE \E e \in Refusals : Finishes(g, x, Err(e))
    BY <2>1, <2>2, <2>4, ErrTurn DEF Errors, Refusals
  <2>5. CASE Finishes(g, x, Outcome("ok", job[g].value, job[g].lep))
    <3>1. Outcome("ok", job[g].value, job[g].lep).tag = "ok"
      BY DEF Outcome
    <3>2. QED
      BY <2>1, <2>2, <2>5, <3>1, EndTurn
  <2>6. QED
    BY <2>1, <2>3, <2>4, <2>5
<1>5. CASE JobStorageFault(g)
  <2>1. PICK x : Trans(g, x) /\ \E e \in Refusals : Finishes(g, x, Err(e))
    BY <1>5, JobStorageFaultForm
  <2>2. job[g].pc \in Running \ {"publish"}
    BY <1>0, <1>5, JobStorageFaultForm, StartedPCs
  <2>3. QED
    BY <2>1, <2>2, ErrTurn DEF Errors, Refusals
<1>6. CASE JobCommitLost(g) \/ JobSettled(g)
  <2>1. PICK x : Stays(g, x) /\ x.pc \in {"unsettled", "record"}
    BY <1>6, JobCommitLostForm, JobSettledForm
  <2>2. job[g].pc \in Running \ {"publish"} /\ job[g].pc \in Started
    BY <1>0, <1>6, JobCommitLostForm, JobSettledForm, StartedPCs
  <2>3. Trans(g, x) /\ x.rec = job[g].rec /\ x.late = job[g].late
    BY <2>1 DEF Stays
  <2>4. QED
    BY <2>1, <2>2, <2>3, GoTurn
<1>7. CASE JobRecord(g)
  <2>1. PICK x : Trans(g, x) /\ Finishes(g, x, Err("storage"))
    BY <1>7, JobRecordForm
  <2>2. job[g].pc \in Running \ {"publish"}
    BY <1>0, <1>7, JobRecordForm, StartedPCs
  <2>3. QED
    BY <2>1, <2>2, ErrTurn DEF Errors
<1>8. QED
  BY <1>1, <1>2, <1>3, <1>4, <1>5, <1>6, <1>7

\* What the storage operations of a job do to the store, as far as calls are concerned.
StoreSteady(s, t) ==
  /\ s.rec <= t.rec
  /\ t.st \in Usual \/ s.st \notin Usual \/ t.rec > s.rec \/ t.st = "uncertain"
  /\ s.st = "uncertain" => t.st = "uncertain"

LEMMA UnbarrierSteady ==
  ASSUME NEW s \in StoreRecords
  PROVE  /\ Unbarrier(s) \in StoreRecords /\ Unbarrier(s).rec = s.rec
         /\ Unbarrier(s).st \in Usual <=> s.st \in Usual
         /\ s.st = "uncertain" => Unbarrier(s).st = "uncertain"
  BY UnbarrierFields DEF Usual

LEMMA RecordedSteady ==
  ASSUME NEW s \in StoreRecords, NEW to \in {"recovering", "blocked", "uncertain"}
  PROVE  StoreSteady(s, Recorded(s, to))
<1>1. s.rec \in Nat
  BY DEF StoreRecords
<1>2. CASE s.st \in {"closed", "blocked"}
  BY <1>1, <1>2, RecordedFields DEF StoreSteady, Usual
<1>3. CASE s.st \notin {"closed", "blocked"}
  BY <1>1, <1>3, RecordedFields DEF StoreSteady
<1>4. QED
  BY <1>2, <1>3

LEMMA FaultSteady ==
  ASSUME Typed, NEW g \in Generations,
         JobStorageFault(g) \/ JobCommitLost(g) \/ JobSettled(g) \/ JobRecord(g)
  PROVE  StoreSteady(store, store')
<1>1. store \in StoreRecords /\ store.rec \in Nat
  BY StoreFields DEF Typed
<1>2. CASE JobStorageFault(g) \/ JobRecord(g)
  <2>1. PICK to \in {"recovering", "blocked"} : store' = Recorded(store, to)
    BY <1>2, JobStorageFaultForm, JobRecordForm
  <2>2. QED
    BY <1>1, <2>1, RecordedSteady
<1>3. CASE JobCommitLost(g)
  <2>1. PICK E \in SUBSET Keys : E = job[g].evict
    BY JobFields
  <2>2. store' \in Unwound(E)
    BY <1>3, <2>1, JobCommitLostForm
  <2>3. /\ store'.rec = store.rec
        /\ store'.st \in {"uncertain", store.st} \/ (store'.st = "ready" /\ store.st = "maintaining")
        /\ store.st = "uncertain" => store'.st = "uncertain"
    BY <1>1, <2>2, UnwoundFields
  <2>4. QED
    BY <1>1, <2>3 DEF StoreSteady, Usual
<1>4. CASE JobSettled(g)
  <2>1. store' = store \/ store' = Committed(g)
    BY <1>4, JobSettledForm
  <2>2. Committed(g).rec = store.rec /\ Committed(g).st = store.st
    BY CommittedFields
  <2>3. QED
    BY <1>1, <2>1, <2>2 DEF StoreSteady
<1>5. QED
  BY <1>2, <1>3, <1>4

LEMMA WorkStoreSteady ==
  ASSUME Typed, NEW g \in Generations, WorkStep(g)
  PROVE  store' = store \/ (Persistent /\ StoreSteady(store, store'))
<1>0. store \in StoreRecords /\ store.rec \in Nat
  BY StoreFields DEF Typed
<1>1. CASE MemoryRefresh(g) \/ JobStart(g) \/ JobLookup(g) \/ JobRows(g) \/ JobUnusable(g) \/ JobAdmit(g)
  BY <1>1, MemoryRefreshForm, JobStartForm, JobLookupForm, JobRowsForm, JobUnusableForm, JobAdmitForm
<1>2. CASE JobRefresh(g) \/ JobAccept(g) \/ JobSettle(g) \/ JobDeadline(g) \/ JobPanic(g)
  BY <1>2, JobRefreshForm, JobAcceptForm, JobSettleForm, JobDeadlineForm, JobPanicForm
<1>3. CASE JobBegin(g)
  <2>1. store' = store \/ (store' = Barrier(store) /\ StorageError = "none")
    BY <1>3, JobBeginForm
  <2>2. Persistent
    BY <1>3, JobBeginForm, PersistentJob DEF MemoryPCs
  <2>3. StorageError = "none" => store.st # "uncertain"
    BY <2>2 DEF StorageError
  <2>4. QED
    BY <1>0, <2>1, <2>2, <2>3, BarrierFields DEF StoreSteady, Usual
<1>4. CASE JobAuthorize(g) \/ JobDrop(g)
  <2>1. store' = store \/ store' = Unbarrier(store)
    BY <1>4, JobAuthorizeForm DEF JobDrop
  <2>2. Persistent
    BY <1>4, JobAuthorizeForm, JobDropForm, PersistentJob DEF MemoryPCs
  <2>3. QED
    BY <1>0, <2>1, <2>2, UnbarrierSteady DEF StoreSteady
<1>5. CASE JobCommit(g)
  <2>1. store' = Committed(g) /\ Persistent
    BY <1>5, JobCommitForm, PersistentJob DEF MemoryPCs
  <2>2. Committed(g).st = store.st /\ Committed(g).rec = store.rec
    BY CommittedFields
  <2>3. StoreSteady(store, store')
    BY <1>0, <2>1, <2>2 DEF StoreSteady
  <2>4. QED
    BY <2>1, <2>3
<1>6. CASE JobStorageFault(g) \/ JobCommitLost(g) \/ JobSettled(g) \/ JobRecord(g)
  <2>1. Persistent
    BY <1>6, JobStorageFaultForm, JobCommitLostForm, JobSettledForm, JobRecordForm, PersistentJob
       DEF MemoryPCs
  <2>2. QED
    BY <1>6, <2>1, FaultSteady
<1>7. QED
  BY <1>1, <1>2, <1>3, <1>4, <1>5, <1>6 DEF WorkStep

LEMMA WorkCancel ==
  ASSUME Typed, Typed', FlightInv, CancelInv, NEW g \in Generations, WorkStep(g)
  PROVE  CancelInv'
<1>1. /\ conf' = conf /\ flights' = flights /\ client' = client /\ generation' = generation
      /\ shut' = shut /\ svcRec' = svcRec /\ cancelled \subseteq cancelled'
  BY WorkFrame
<1>2. Steady
  <2>1. store.rec \in Nat
    BY StoreFields
  <2>2. CASE store' = store
    BY <1>1, <2>1, <2>2 DEF Steady, CancelInv
  <2>3. CASE Persistent /\ StoreSteady(store, store')
    BY <1>1, <2>1, <2>3 DEF Steady, StoreSteady
  <2>4. QED
    BY <2>2, <2>3, WorkStoreSteady
<1>3. CASE JobDeadline(g)
  <2>1. PICK x : Trans(g, x) /\ x.pc = job[g].pc /\ x.late = TRUE /\ x.rec = job[g].rec
    BY <1>3, JobDeadlineForm
  <2>2. Persistent /\ job[g].pc \in Running \ {"publish"} /\ cancelled' = cancelled \union {g}
    BY <1>3, JobDeadlineForm
  <2>3. Turn(g, x)
    BY <2>1, <2>2 DEF Turn
  <2>4. \A h \in cancelled' : \/ h \in cancelled \/ h \in SyncCancels
                              \/ h = g /\ Persistent /\ x.late /\ x.pc # "publish"
    BY <2>1, <2>2
  <2>5. QED
    BY <1>1, <1>2, <2>1, <2>3, <2>4, TurnCancel
<1>4. CASE ~JobDeadline(g)
  <2>1. cancelled' = cancelled
    BY <1>4, MemoryRefreshForm, JobStartForm, JobLookupForm, JobRowsForm, JobUnusableForm, JobAdmitForm,
       JobRefreshForm, JobAcceptForm, JobSettleForm, JobPanicForm, JobBeginForm, JobAuthorizeForm,
       JobDropForm, JobCommitForm, JobStorageFaultForm, JobCommitLostForm, JobSettledForm, JobRecordForm
       DEF WorkStep
  <2>2. PICK x : Trans(g, x) /\ Turn(g, x)
    BY <1>4, EarlyTurn, LateTurn DEF WorkStep
  <2>3. QED
    BY <1>1, <1>2, <2>1, <2>2, TurnCancel
<1>5. QED
  BY <1>3, <1>4

LEMMA PromoteCancel ==
  ASSUME Typed, Typed', FlightInv, CancelInv, NEW g \in Generations, JobPromote(g)
  PROVE  CancelInv'
<1>1. /\ job[g].pc = "found" /\ SyncEpochs /\ cancelled' = cancelled \union SyncCancels
      /\ conf' = conf /\ flights' = flights /\ client' = client /\ generation' = generation
      /\ shut' = shut /\ store' = store
  BY JobPromoteForm
<1>2. Steady
  BY <1>1, SyncSteady
<1>3. job[g].pc \in Running \ {"publish"} /\ job[g].pc \in Started /\ Persistent
  BY <1>1, StartedPCs, PersistentJob DEF MemoryPCs, Started
<1>4. PICK x : Trans(g, x) /\
              \/ Finishes(g, x, Err("storage"))
              \/ Finishes(g, x, Err("cancelled")) /\ (stopping \/ ~Wanted(g) \/ g \in SyncCancels)
              \/ Finishes(g, x, Outcome("ok", job[g].value, job[g].lep))
              \/ x.pc = "admit" /\ x.rec = job[g].rec /\ x.late = job[g].late
  BY JobPromoteForm
<1>5. Turn(g, x)
  <2>1. CASE Finishes(g, x, Err("storage"))
    BY <1>3, <2>1, ErrTurn DEF Errors
  <2>2. CASE Finishes(g, x, Err("cancelled")) /\ (stopping \/ ~Wanted(g) \/ g \in SyncCancels)
    <3>1. Reason(g)
      BY <1>1, <1>3, <2>2 DEF Reason
    <3>2. QED
      BY <1>3, <2>2, <3>1, ErrTurn DEF Errors
  <2>3. CASE Finishes(g, x, Outcome("ok", job[g].value, job[g].lep))
    <3>1. Outcome("ok", job[g].value, job[g].lep).tag = "ok"
      BY DEF Outcome
    <3>2. QED
      BY <1>3, <2>3, <3>1, EndTurn
  <2>4. CASE x.pc = "admit" /\ x.rec = job[g].rec /\ x.late = job[g].late
    BY <1>3, <2>4, GoTurn
  <2>5. QED
    BY <1>4, <2>1, <2>2, <2>3, <2>4
<1>6. QED
  BY <1>1, <1>2, <1>4, <1>5, TurnCancel

\* The outcome Cancelled is published to calls that have lost their dependency.
LEMMA ToldLost ==
  ASSUME Typed, FlightInv, CancelInv, NEW g \in Generations, job[g].pc = "publish", NEW told,
         TellsFlight(g, told), told.tag = "cancelled",
         NEW c \in Clients, client[c].pc = "waiting", client[c].gen = g
  PROVE  Lost(c)
<1>1. flights[job[g].key].gen = g /\ job[g].key \in Keys
  BY JobFields DEF TellsFlight
<1>2. client[c].got.tag = "none"
  BY <1>1 DEF FlightInv, ToldOnce
<1>3. PendingSound(c)
  BY <1>2 DEF CancelInv, CallSound
<1>4. CASE job[g].res.tag = "cancelled"
  BY <1>3, <1>4 DEF PendingSound
<1>5. CASE /\ shut \/ stopping \/ g \in cancelled \/ g \in SyncCancels
           /\ job[g].res.tag \notin {"storage", "corrupt"}
  <2>1. CASE shut \/ stopping
    BY <2>1 DEF Lost, FlightInv, StopOrder
  <2>2. CASE g \in SyncCancels
    BY <2>2, SyncLost
  <2>3. CASE g \in cancelled
    BY <1>3, <1>5, <2>3 DEF PendingSound, Excused
  <2>4. QED
    BY <1>5, <2>1, <2>2, <2>3
<1>6. QED
  BY <1>4, <1>5 DEF TellsFlight

LEMMA PublishCancel ==
  ASSUME Typed, Typed', FlightInv, CancelInv, NEW g \in Generations, JobPublish(g)
  PROVE  CancelInv'
<1>1. /\ job[g].pc = "publish" /\ SyncEpochs /\ cancelled' = cancelled \union SyncCancels
      /\ conf' = conf /\ generation' = generation /\ shut' = shut /\ store' = store
  BY JobPublishForm
<1>2. PICK j \in JobRecords : job' = [job EXCEPT ![g] = j] /\ j.pc = "done" /\ j.rec = 0
  BY JobPublishForm
<1>3. \A h \in Generations : job'[h] = IF h = g THEN j ELSE job[h]
  BY <1>2, CountTypes
<1>4. Steady
  BY <1>1, SyncSteady
<1>5. \A h \in cancelled' : h \in cancelled \/ h <= generation
  BY <1>1, SyncFired
<1>6. store'.rec \in Nat
  BY <1>1, StoreFields
<1>7. \A h \in Generations : job'[h].rec = job[h].rec \/ job'[h].rec <= store'.rec
  BY <1>2, <1>3, <1>6
<1>8. ASSUME NEW c \in Clients, client[c].pc = "waiting", client[c].got.tag = "none",
             client[c].gen # g, client'[c] = client[c]
      PROVE  PendingSound(c)'
  <2>1. job'[client[c].gen] = job[client[c].gen]
    BY <1>3, <1>8, CallFields
  <2>2. client[c].gen \in cancelled' => client[c].gen \in cancelled \/ SyncCancels # {}
    BY <1>1
  <2>3. QED
    BY <1>4, <1>8, <2>1, <2>2, PendingAgain
<1>9. ASSUME NEW k \in Keys, flights'[k] = flights[k] \/ flights'[k] = NoFlight
      PROVE  FlightSound(k)'
  <2>1. flights'[k].gen # 0 => flights'[k] = flights[k]
    BY <1>9 DEF NoFlight
  <2>2. flights[k].gen # 0 => job'[flights[k].gen] = job[flights[k].gen] \/ job'[flights[k].gen].pc = "done"
    BY <1>2, <1>3, FlightFields
  <2>3. QED
    BY <1>4, <2>1, <2>2, FlightAgain
<1>10. CASE flights[job[g].key].gen # g /\ UNCHANGED <<flights, waiters, client>>
  <2>1. ASSUME NEW c \in Clients
        PROVE  CallSound(c)'
    <3>1. ASSUME client[c].pc = "waiting", client[c].got.tag = "none"
          PROVE  client[c].gen # g
      <4>1. client[c].key \in Keys /\ flights[client[c].key].gen = client[c].gen
        BY <3>1, WaitsInFlight
      <4>2. g \in Generations /\ job[g].pc \in Live
        BY <1>1 DEF Live, Running, JobPCs
      <4>3. QED
        BY <1>10, <4>1, <4>2 DEF FlightInv, KeysMatch
    <3>2. QED
      BY <1>4, <1>8, <1>10, <3>1, CallAgain
  <2>2. \A k \in Keys : FlightSound(k)'
    BY <1>9, <1>10
  <2>3. QED
    BY <1>1, <1>4, <1>5, <1>7, <2>1, <2>2, CancelAgain
<1>11. ASSUME NEW told, TellsFlight(g, told)
       PROVE  CancelInv'
  <2>1. /\ told \in Outcomes /\ client' = Tell({g}, told) /\ job[g].key \in Keys
        /\ flights' = [flights EXCEPT ![job[g].key] = NoFlight]
    BY <1>11, JobFields DEF TellsFlight
  <2>2. told.tag # "none"
    BY <1>1, <1>11 DEF TellsFlight, FlightInv, ResultReady
  <2>3. ASSUME NEW c \in Clients
        PROVE  CallSound(c)'
    <3>1. CASE client[c].pc = "waiting" /\ client[c].gen = g
      <4>1. client'[c].pc = "waiting" /\ client'[c].rec = client[c].rec /\ client'[c].got = told
        BY <2>1, <3>1, TellForm
      <4>2. told.tag = "cancelled" => Lost(c)
        BY <1>1, <1>11, <3>1, ToldLost
      <4>3. QED
        BY <1>4, <2>2, <3>1, <4>1, <4>2, CallAgain
    <3>2. CASE ~(client[c].pc = "waiting" /\ client[c].gen = g)
      <4>1. client'[c] = client[c]
        BY <2>1, <3>2, TellForm
      <4>2. QED
        BY <1>4, <1>8, <3>2, <4>1, CallAgain
    <3>3. QED
      BY <3>1, <3>2
  <2>4. \A k \in Keys : flights'[k] = flights[k] \/ flights'[k] = NoFlight
    BY <2>1, CountTypes DEF Flights
  <2>5. \A k \in Keys : FlightSound(k)'
    BY <1>9, <2>4
  <2>6. QED
    BY <1>1, <1>4, <1>5, <1>7, <2>3, <2>5, CancelAgain
<1>12. QED
  BY <1>10, <1>11, JobPublishForm

LEMMA CancelStep ==
  ASSUME ServiceInv, CancelInv, [Next]_vars
  PROVE  CancelInv'
<1>1. Typed /\ Typed' /\ FlightInv
  BY TypedStep DEF ServiceInv
<1>2. CASE Next
  BY <1>1, <1>2, NextForms, RefusedCancel, CallEndsCancel, JoinCancel, StartCancel, WorkCancel,
     PromoteCancel, PublishCancel, TicksCancel, RestsCancel, ShutdownBeginCancel
<1>3. CASE UNCHANGED vars
  <2>1. /\ conf' = conf /\ job' = job /\ flights' = flights /\ store' = store /\ client' = client
        /\ generation' = generation /\ shut' = shut /\ cancelled' = cancelled /\ svcRec' = svcRec
    BY <1>3 DEF vars
  <2>2. store.rec \in Nat
    BY <1>1, StoreFields
  <2>3. Steady
    BY <2>1, <2>2 DEF Steady, CancelInv
  <2>4. QED
    BY <1>1, <2>1, <2>3, StayCancel
<1>4. QED
  BY <1>2, <1>3

LEMMA InitCancel ==
  ASSUME Init
  PROVE  CancelInv
<1>1. /\ svcRec = 0 /\ store.rec = 0 /\ store = NoStore /\ cancelled = {}
      /\ \A g \in Generations : job[g].rec = 0
  BY DEF Init, NoStore, NoJob
<1>2. \A c \in Clients : client[c].pc = "idle"
  BY DEF Init, NoClient
<1>3. \A k \in Keys : flights[k].gen = 0
  BY DEF Init, NoFlight
<1>4. QED
  BY <1>1, <1>2, <1>3 DEF CancelInv, CallSound, FlightSound, Usual

LEMMA AlwaysCancel == Spec => [](ServiceInv /\ CancelInv)
<1>1. Init => CancelInv
  BY InitCancel
<1>2. ServiceInv /\ CancelInv /\ [Next]_vars => CancelInv'
  BY CancelStep
<1>3. QED
  BY <1>1, <1>2, AlwaysService, PTL DEF Spec

\* Only its own return ends a call.
LEMMA CallEndsAlone ==
  ASSUME Typed, Next, NEW c \in Clients, client[c].pc = "waiting", client'[c].pc = "idle"
  PROVE  CallEnds(c)
<1>0. client \in [Clients -> ClientRecords]
  BY CountTypes
<1>1. ASSUME NEW d \in Clients, NEW x, client' = [client EXCEPT ![d] = x]
      PROVE  d = c
  BY <1>0, <1>1
<1>2. ASSUME NEW d \in Clients, CallEnds(d)
      PROVE  d = c
  BY <1>1, <1>2, CallEndsForm
<1>3. ASSUME NEW d \in Clients, RefusedOrHit(d)
      PROVE  FALSE
  BY <1>1, <1>3, RefusedOrHitForm
<1>4. ASSUME NEW d \in Clients, NEW k \in Keys, NEW stale \in BOOLEAN, RetrieveJoin(d, k, stale)
      PROVE  FALSE
  BY <1>1, <1>4, JoinForm
<1>5. ASSUME NEW d \in Clients, NEW k \in Keys, NEW stale \in BOOLEAN, RetrieveStart(d, k, stale)
      PROVE  FALSE
  <2>1. client[d].pc = "idle" /\ (Spawns(d, k) \/ Reaps(d))
    BY <1>5, StartForm
  <2>2. \E x \in ClientRecords : client' = [client EXCEPT ![d] = x]
    BY <2>1 DEF Spawns, Reaps
  <2>3. QED
    BY <1>1, <2>1, <2>2
<1>6. ASSUME NEW G, NEW o \in Outcomes, client' = Tell(G, o)
      PROVE  FALSE
  BY <1>6, TellForm
<1>7. ASSUME NEW g \in Generations, WorkStep(g) \/ JobPromote(g)
      PROVE  FALSE
  BY <1>7, WorkFrame, JobPromoteForm
<1>8. ASSUME NEW g \in Generations, JobPublish(g)
      PROVE  FALSE
  <2>1. client' = client \/ \E told : TellsFlight(g, told)
    BY <1>8, JobPublishForm
  <2>2. ASSUME NEW told, TellsFlight(g, told)
        PROVE  FALSE
    BY <1>6, <2>2 DEF TellsFlight
  <2>3. QED
    BY <2>1, <2>2
<1>9. ~ShutdownBegin
  BY <1>6, ShutdownBeginForm
<1>10. ~(StoreMoves \/ Ticks \/ ShutdownClose \/ Rests)
  BY StoreMovesFrame, TicksForm, ShutdownCloseForm, RestsFrame
<1>11. QED
  BY <1>2, <1>3, <1>4, <1>5, <1>7, <1>8, <1>9, <1>10, NextForms

LEMMA IsolatedStep ==
  ASSUME ServiceInv, CancelInv, Next, NEW c \in Clients, client[c].pc = "waiting",
         client'[c].pc = "idle", client'[c].res = "cancelled"
  PROVE  store.rec # client[c].rec
<1>1. Typed /\ CallEnds(c)
  BY CallEndsAlone DEF ServiceInv
<1>2. PICK x \in ClientRecords :
        /\ client' = [client EXCEPT ![c] = x]
        /\ x.res = "cancelled" =>
             client[c].got.tag = "cancelled" /\ ~shut /\ StorageError = "none"
  BY <1>1, CallEndsForm
<1>3. client'[c] = x
  BY <1>1, <1>2, CountTypes
<1>4. client[c].got.tag = "cancelled" /\ ~shut /\ store.st # "uncertain"
  BY <1>2, <1>3, AdmittedUsual DEF Usual
<1>5. store.rec > client[c].rec
  BY <1>4 DEF CancelInv, CallSound, Lost
<1>6. QED
  BY <1>1, <1>5, StoreFields, CallFields

\* retrieve() returns Cancelled to a call that did not ask for it only when the store has
\* lost a dependency since that call was admitted: not because other waiters left its
\* flight, another generation was cancelled, its job missed its deadline or retention ran.
THEOREM CancellationStaysOwn == Spec => CancellationIsolated
<1>1. ServiceInv /\ CancelInv /\ [Next]_vars
        => [\A c \in Clients :
              client[c].pc = "waiting" /\ client'[c].pc = "idle" /\ client'[c].res = "cancelled"
              => store.rec # client[c].rec]_vars
  BY IsolatedStep
<1>2. QED
  BY <1>1, AlwaysCancel, PTL DEF Spec, CancellationIsolated

----------------------------------------------------------------------------
(* Admission of provider requests. *)

\* What the rows and locks say about each call.  A call that is dispatching on a live
\* session has its row and holds its lock; one that has settled has no row; one whose
\* suspension is still to land has ended, and is not admitted again before it has.
WireFenced ==
    \A c \in Call :
        /\ pc[c] \in {"owned", "pausing"} => row[c] # 0 /\ lock[row[c]] = c
        /\ pc[c] \in {"ticketed", "waiting", "settled", "closing", "unpausing",
                      "stopping", "parsing"} => row[c] = 0
        /\ landing = c => pc[c] \in {"idle", "ticketed", "waiting", "lost"}

AdmissionInv == AdmissionTypeOK /\ WireFenced /\ ChargedToday

LEMMA CallFacts == \A c \in Call : ModeOf(c) \in Mode /\ c # None
BY AdmissionAssumption DEF Call, Mode, ModeOf

LEMMA AdmissionInitInv == AdmissionInit => AdmissionInv
<1> SUFFICES ASSUME AdmissionInit PROVE AdmissionInv
  OBVIOUS
<1>1. AdmissionTypeOK
  <2>1. /\ used \in [Mode -> Nat] /\ sent \in [Mode -> Nat]
        /\ inflight \in 1..Slots /\ row \in [Call -> 0..Slots]
        /\ next \in 0..2 /\ events \in 0..MaxEvents
    BY AdmissionAssumption DEF AdmissionInit
  <2>2. /\ ticket \in [Call -> BOOLEAN] /\ stopped \in [Mode -> BOOLEAN]
        /\ today \in BOOLEAN /\ suspended \in BOOLEAN
        /\ legacy \in BOOLEAN /\ hold \in BOOLEAN
    BY DEF AdmissionInit
  <2>3. /\ lock \in [1..Slots -> Call \cup {None}]
        /\ pc \in [Call -> PC] /\ landing \in Call \cup {None} /\ last \in Mode \cup {None}
        /\ limit \in [Mode -> Limits]
    BY DEF AdmissionInit, PC
  <2> QED BY <2>1, <2>2, <2>3 DEF AdmissionTypeOK
<1>2. WireFenced
  BY CallFacts DEF AdmissionInit, WireFenced
<1>3. ChargedToday
  BY DEF AdmissionInit, ChargedToday, Used
<1> QED BY <1>1, <1>2, <1>3 DEF AdmissionInv

LEMMA AdmissionTypeStep == AdmissionTypeOK /\ [AdmissionNext]_admissionVars => AdmissionTypeOK'
<1> SUFFICES ASSUME AdmissionTypeOK, [AdmissionNext]_admissionVars PROVE AdmissionTypeOK'
  OBVIOUS
<1> USE AdmissionAssumption, CallFacts
<1>1. ASSUME NEW c \in Call, OpenTicket(c) PROVE AdmissionTypeOK'
  BY <1>1 DEF OpenTicket, AdmissionTypeOK, PC, budgetRow
<1>2. ASSUME NEW c \in Call, Enter(c) PROVE AdmissionTypeOK'
  BY <1>2 DEF Enter, AdmissionTypeOK, PC, budgetRow
<1>3. ASSUME NEW c \in Call, Cancel(c) PROVE AdmissionTypeOK'
  BY <1>3 DEF Cancel, Leave, AdmissionTypeOK, PC, budgetRow
<1>4. ASSUME NEW c \in Call, Refuse(c) PROVE AdmissionTypeOK'
  BY <1>4 DEF Refuse, Leave, AdmissionTypeOK, PC, budgetRow
<1>5. ASSUME NEW c \in Call, NEW ok \in BOOLEAN, Complete(c, ok) PROVE AdmissionTypeOK'
  BY <1>5 DEF Complete, Forget, AdmissionTypeOK, PC, budgetRow
<1>6. ASSUME NEW c \in Call, FailStopped(c) PROVE AdmissionTypeOK'
  BY <1>6 DEF FailStopped, AdmissionTypeOK, PC, budgetRow
<1>7. ASSUME NEW c \in Call, Reject(c) PROVE AdmissionTypeOK'
  BY <1>7 DEF Reject, AdmissionTypeOK, PC, budgetRow
<1>8. ASSUME NEW c \in Call, Suspend(c) PROVE AdmissionTypeOK'
  BY <1>8 DEF Suspend, Forget, AdmissionTypeOK, PC, budgetRow
<1>9. ASSUME NEW c \in Call, Throttle(c) PROVE AdmissionTypeOK'
  BY <1>9 DEF Throttle, AdmissionTypeOK, PC, budgetRow
<1>10. ASSUME NEW c \in Call, NEW d \in 1..2, NEW b \in BOOLEAN, Pause(c, d, b) PROVE AdmissionTypeOK'
  BY <1>10 DEF Pause, Forget, AdmissionTypeOK, PC, budgetRow
<1>11. ASSUME NEW c \in Call, Release(c) PROVE AdmissionTypeOK'
  BY <1>11 DEF Release, Unlocked, AdmissionTypeOK, PC, budgetRow
<1>12. ASSUME NEW c \in Call, Parsed(c) PROVE AdmissionTypeOK'
  BY <1>12 DEF Parsed, AdmissionTypeOK, PC, budgetRow
<1>13. ASSUME NEW c \in Call, NEW inFlight \in BOOLEAN, Drop(c, inFlight) PROVE AdmissionTypeOK'
  BY <1>13 DEF Drop, Holding, AdmissionTypeOK, PC, budgetRow
<1>14. ASSUME NEW c \in Call, SessionEnds(c) PROVE AdmissionTypeOK'
  BY <1>14 DEF SessionEnds, Unlocked, AdmissionTypeOK, PC, budgetRow
<1>15. ASSUME NEW c \in Call, TicketExpires(c) PROVE AdmissionTypeOK'
  BY <1>15 DEF TicketExpires, AdmissionTypeOK, PC, budgetRow
<1>16. ASSUME NEW c \in Call, Receipt(c) PROVE AdmissionTypeOK'
  BY <1>16 DEF Receipt, AdmissionTypeOK, PC, budgetRow
<1>17. ASSUME NEW m \in Mode, Crash(m) PROVE AdmissionTypeOK'
  <2>1. pc' \in [Call -> PC]
    BY <1>17 DEF Crash, AdmissionTypeOK, PC
  <2>2. /\ stopped' \in [Mode -> BOOLEAN] /\ events' \in 0..MaxEvents
        /\ landing' \in Call \cup {None}
    BY <1>17 DEF Crash, CallsOf, AdmissionTypeOK
  <2> QED BY <1>17, <2>1, <2>2 DEF Crash, AdmissionTypeOK, budgetRow
<1>18. ASSUME Elapse PROVE AdmissionTypeOK'
  BY <1>18 DEF Elapse, AdmissionTypeOK, PC, budgetRow
<1>19. ASSUME Midnight PROVE AdmissionTypeOK'
  BY <1>19 DEF Midnight, AdmissionTypeOK, PC, budgetRow
<1>20. ASSUME NEW l \in [Mode -> Limits], NEW n \in 1..Slots, Configure(l, n) PROVE AdmissionTypeOK'
  BY <1>20 DEF Configure, AdmissionTypeOK, PC, budgetRow
<1>21. ASSUME NEW resume \in BOOLEAN, Recover(resume) PROVE AdmissionTypeOK'
  <2>1. row' \in [Call -> 0..Slots]
    BY <1>21 DEF Recover
  <2>2. legacy' \in BOOLEAN /\ hold' \in BOOLEAN
    BY <1>21 DEF Recover
  <2> QED BY <1>21, <2>1, <2>2 DEF Recover, AdmissionTypeOK
<1>22. ASSUME ClearSuspension PROVE AdmissionTypeOK'
  BY <1>22 DEF ClearSuspension, AdmissionTypeOK, PC, budgetRow
<1>23. ASSUME NEW c \in Call, NEW s \in 1..Slots, NEW acked \in BOOLEAN, Reserve(c, s, acked) PROVE AdmissionTypeOK'
  BY <1>23, SMTT(30) DEF Reserve, Charge, Used, AdmissionTypeOK, PC, budgetRow
<1>24. CASE UNCHANGED admissionVars
  BY <1>24 DEF admissionVars, budgetRow, AdmissionTypeOK
<1>25. ASSUME NEW c \in Call, NEW b \in BOOLEAN, SeveredEnds(c, b) PROVE AdmissionTypeOK'
  BY <1>25 DEF SeveredEnds, AdmissionTypeOK, PC, budgetRow
<1>26. ASSUME NEW c \in Call, SessionBreaks(c) PROVE AdmissionTypeOK'
  <2>1. pc' \in [Call -> PC]
    BY <1>26 DEF SessionBreaks, AdmissionTypeOK, PC
  <2>2. lock' \in [1..Slots -> Call \cup {None}] /\ events' \in 0..MaxEvents
    BY <1>26, SMTT(30) DEF SessionBreaks, Unlocked, AdmissionTypeOK
  <2> QED BY <1>26, <2>1, <2>2 DEF SessionBreaks, AdmissionTypeOK, budgetRow
<1>27. ASSUME NEW applied \in BOOLEAN, LateSuspension(applied) PROVE AdmissionTypeOK'
  BY <1>27 DEF LateSuspension, Forget, AdmissionTypeOK, PC, budgetRow
<1> QED
  BY <1>1, <1>2, <1>3, <1>4, <1>5, <1>6, <1>7, <1>8, <1>9, <1>10, <1>11, <1>12, <1>13, <1>14, <1>15, <1>16, <1>17, <1>18, <1>19, <1>20, <1>21, <1>22, <1>23, <1>24, <1>25, <1>26, <1>27 DEF AdmissionNext, Settle

LEMMA WireStep == AdmissionTypeOK /\ WireFenced /\ [AdmissionNext]_admissionVars => WireFenced'
<1> SUFFICES ASSUME AdmissionTypeOK, WireFenced, [AdmissionNext]_admissionVars PROVE WireFenced'
  OBVIOUS
<1> USE AdmissionAssumption, CallFacts
<1>1. ASSUME NEW c \in Call, OpenTicket(c) PROVE WireFenced'
  BY <1>1 DEF OpenTicket, AdmissionTypeOK, PC, WireFenced
<1>2. ASSUME NEW c \in Call, Enter(c) PROVE WireFenced'
  <2>1. row[c] = 0
    <3>1. CASE c \in OnDemand
      BY <1>2, <3>1 DEF Enter, WireFenced
    <3>2. CASE c \in Continuous
      BY <1>2, <3>2, Zenon DEF Enter
    <3> QED BY <3>1, <3>2 DEF Call
  <2> QED BY <1>2, <2>1 DEF Enter, AdmissionTypeOK, PC, WireFenced
<1>3. ASSUME NEW c \in Call, Cancel(c) PROVE WireFenced'
  BY <1>3 DEF Cancel, Leave, AdmissionTypeOK, PC, WireFenced
<1>4. ASSUME NEW c \in Call, Refuse(c) PROVE WireFenced'
  BY <1>4 DEF Refuse, Leave, AdmissionTypeOK, PC, WireFenced
<1>5. ASSUME NEW c \in Call, NEW ok \in BOOLEAN, Complete(c, ok) PROVE WireFenced'
  BY <1>5 DEF Complete, Forget, AdmissionTypeOK, PC, WireFenced
<1>6. ASSUME NEW c \in Call, FailStopped(c) PROVE WireFenced'
  BY <1>6 DEF FailStopped, AdmissionTypeOK, PC, WireFenced
<1>7. ASSUME NEW c \in Call, Reject(c) PROVE WireFenced'
  BY <1>7 DEF Reject, AdmissionTypeOK, PC, WireFenced
<1>8. ASSUME NEW c \in Call, Suspend(c) PROVE WireFenced'
  BY <1>8 DEF Suspend, Forget, AdmissionTypeOK, PC, WireFenced
<1>9. ASSUME NEW c \in Call, Throttle(c) PROVE WireFenced'
  BY <1>9 DEF Throttle, AdmissionTypeOK, PC, WireFenced
<1>10. ASSUME NEW c \in Call, NEW d \in 1..2, NEW b \in BOOLEAN, Pause(c, d, b) PROVE WireFenced'
  BY <1>10 DEF Pause, Forget, AdmissionTypeOK, PC, WireFenced
<1>11. ASSUME NEW c \in Call, Release(c) PROVE WireFenced'
  BY <1>11, SMTT(30) DEF Release, Unlocked, AdmissionTypeOK, PC, WireFenced
<1>12. ASSUME NEW c \in Call, Parsed(c) PROVE WireFenced'
  BY <1>12 DEF Parsed, AdmissionTypeOK, PC, WireFenced
<1>13. ASSUME NEW c \in Call, NEW inFlight \in BOOLEAN, Drop(c, inFlight) PROVE WireFenced'
  BY <1>13 DEF Drop, Holding, BudgetFree, AdmissionTypeOK, PC, WireFenced
<1>14. ASSUME NEW c \in Call, SessionEnds(c) PROVE WireFenced'
  BY <1>14 DEF SessionEnds, Unlocked, AdmissionTypeOK, PC, WireFenced
<1>15. ASSUME NEW c \in Call, TicketExpires(c) PROVE WireFenced'
  BY <1>15 DEF TicketExpires, AdmissionTypeOK, PC, WireFenced
<1>16. ASSUME NEW c \in Call, Receipt(c) PROVE WireFenced'
  BY <1>16 DEF Receipt, AdmissionTypeOK, PC, WireFenced
<1>17. ASSUME NEW m \in Mode, Crash(m) PROVE WireFenced'
  BY <1>17 DEF Crash, CallsOf, BudgetFree, AdmissionTypeOK, PC, WireFenced
<1>18. ASSUME Elapse PROVE WireFenced'
  BY <1>18 DEF Elapse, AdmissionTypeOK, PC, WireFenced
<1>19. ASSUME Midnight PROVE WireFenced'
  BY <1>19 DEF Midnight, AdmissionTypeOK, PC, WireFenced
<1>20. ASSUME NEW l \in [Mode -> Limits], NEW n \in 1..Slots, Configure(l, n) PROVE WireFenced'
  BY <1>20 DEF Configure, AdmissionTypeOK, PC, WireFenced
<1>21. ASSUME NEW resume \in BOOLEAN, Recover(resume) PROVE WireFenced'
  BY <1>21 DEF Recover, AdmissionTypeOK, PC, WireFenced
<1>22. ASSUME ClearSuspension PROVE WireFenced'
  BY <1>22 DEF ClearSuspension, AdmissionTypeOK, PC, WireFenced
<1>23. ASSUME NEW c \in Call, NEW s \in 1..Slots, NEW acked \in BOOLEAN, Reserve(c, s, acked) PROVE WireFenced'
  BY <1>23 DEF Reserve, FreeSlots, BudgetFree, AdmissionTypeOK, PC, WireFenced
<1>24. CASE UNCHANGED admissionVars
  BY <1>24 DEF admissionVars, budgetRow, WireFenced
<1>25. ASSUME NEW c \in Call, NEW b \in BOOLEAN, SeveredEnds(c, b) PROVE WireFenced'
  BY <1>25 DEF SeveredEnds, AdmissionTypeOK, PC, WireFenced
<1>26. ASSUME NEW c \in Call, SessionBreaks(c) PROVE WireFenced'
  <2>1. /\ row' = row /\ lock' = Unlocked(c)
        /\ pc' = [pc EXCEPT ![c] = CASE pc[c] = "owned"     -> "severed"
                                     [] pc[c] = "rejecting" -> "rejecting"
                                     [] OTHER               -> "idle"]
    BY <1>26 DEF SessionBreaks
  <2>2. pc'[c] \in {"severed", "rejecting", "idle"} /\ \A d \in Call \ {c} : pc'[d] = pc[d]
    BY <2>1 DEF AdmissionTypeOK
  <2>3. \A s \in 1..Slots : lock[s] # c => lock'[s] = lock[s]
    BY <2>1 DEF Unlocked
  <2>4. landing # c /\ landing' = landing
    BY <1>26 DEF SessionBreaks, Holding, WireFenced
  <2>5. \A d \in Call \ {c} : row[d] # 0 /\ lock[row[d]] = d => lock'[row[d]] = d
    BY <2>3 DEF AdmissionTypeOK
  <2> QED BY <2>1, <2>2, <2>4, <2>5 DEF WireFenced
<1>27. ASSUME NEW applied \in BOOLEAN, LateSuspension(applied) PROVE WireFenced'
  BY <1>27 DEF LateSuspension, Forget, AdmissionTypeOK, PC, WireFenced
<1> QED
  BY <1>1, <1>2, <1>3, <1>4, <1>5, <1>6, <1>7, <1>8, <1>9, <1>10, <1>11, <1>12, <1>13, <1>14, <1>15, <1>16, <1>17, <1>18, <1>19, <1>20, <1>21, <1>22, <1>23, <1>24, <1>25, <1>26, <1>27 DEF AdmissionNext, Settle

LEMMA ChargeStep == AdmissionTypeOK /\ ChargedToday /\ [AdmissionNext]_admissionVars => ChargedToday'
<1> SUFFICES ASSUME AdmissionTypeOK, ChargedToday, [AdmissionNext]_admissionVars PROVE ChargedToday'
  OBVIOUS
<1> USE CallFacts
<1>1. ASSUME NEW c \in Call, NEW s \in 1..Slots, NEW acked \in BOOLEAN, Reserve(c, s, acked)
      PROVE ChargedToday'
  BY <1>1 DEF Reserve, Charge, AdmissionTypeOK, ChargedToday, Used
<1>2. CASE Midnight
  BY <1>2 DEF Midnight, AdmissionTypeOK, ChargedToday, Used
<1>3. ASSUME UNCHANGED <<used, today, sent>> PROVE ChargedToday'
  BY <1>3 DEF ChargedToday, Used
<1>4. ASSUME NEW c \in Call, \/ OpenTicket(c) \/ Enter(c) \/ Cancel(c) \/ Refuse(c) \/ SessionEnds(c)
                            \/ TicketExpires(c) \/ Receipt(c) \/ Settle(c) \/ SessionBreaks(c)
                            \/ \E inFlight \in BOOLEAN : Drop(c, inFlight)
      PROVE UNCHANGED <<used, today, sent>>
  BY <1>4 DEF OpenTicket, Enter, Cancel, Refuse, Leave, SessionEnds, TicketExpires, Receipt, Settle, Complete,
              FailStopped, SeveredEnds, Reject, Suspend, Throttle, Pause, Release, Parsed, Drop,
              SessionBreaks, budgetRow
<1>5. ASSUME \/ \E m \in Mode : Crash(m)
             \/ Elapse \/ ClearSuspension
             \/ \E l \in [Mode -> Limits], n \in 1..Slots : Configure(l, n)
             \/ \E resume \in BOOLEAN : Recover(resume)
             \/ \E applied \in BOOLEAN : LateSuspension(applied)
             \/ UNCHANGED admissionVars
      PROVE UNCHANGED <<used, today, sent>>
  BY <1>5 DEF Crash, Elapse, ClearSuspension, Configure, Recover, LateSuspension, admissionVars, budgetRow
<1> QED
  BY <1>1, <1>2, <1>3, <1>4, <1>5 DEF AdmissionNext

----------------------------------------------------------------------------
\* The inductive invariant holds throughout.
THEOREM AdmissionInductive == AdmissionSpec => []AdmissionInv
<1>1. AdmissionInv /\ [AdmissionNext]_admissionVars => AdmissionInv'
  BY AdmissionTypeStep, WireStep, ChargeStep DEF AdmissionInv
<1> QED BY AdmissionInitInv, <1>1, PTL DEF AdmissionSpec

\* Every variable keeps its type: max_in_flight names a slot, a row a slot.
THEOREM AdmissionTypeCorrect == AdmissionSpec => []AdmissionTypeOK
<1>1. AdmissionInv => AdmissionTypeOK
  BY DEF AdmissionInv
<1> QED BY AdmissionInductive, <1>1, PTL

\* The counters of the budget row are exactly the requests sent this UTC day,
\* for any limits and any number of calls of both modes (reserve_locked).
THEOREM ChargeExact == AdmissionSpec => []ChargedToday
<1>1. AdmissionInv => ChargedToday
  BY DEF AdmissionInv
<1> QED BY AdmissionInductive, <1>1, PTL

\* Rows are created by reservations only.
LEMMA OnlyReserveInserts ==
    ASSUME AdmissionTypeOK, AdmissionNext, NEW c \in Call, row[c] = 0, row'[c] # 0
    PROVE  \E s \in 1..Slots, acked \in BOOLEAN : Reserve(c, s, acked)
<1>1. ASSUME NEW d \in Call, NEW s \in 1..Slots, NEW acked \in BOOLEAN, Reserve(d, s, acked)
      PROVE  c = d
  BY <1>1 DEF Reserve, AdmissionTypeOK
<1>2. ASSUME NEW d \in Call, \/ OpenTicket(d) \/ Enter(d) \/ Cancel(d) \/ Refuse(d) \/ SessionEnds(d)
                            \/ TicketExpires(d) \/ Receipt(d) \/ FailStopped(d) \/ Reject(d) \/ Throttle(d)
                            \/ Release(d) \/ Parsed(d) \/ SessionBreaks(d)
                            \/ \E b \in BOOLEAN : SeveredEnds(d, b)
                            \/ \E inFlight \in BOOLEAN : Drop(d, inFlight)
      PROVE FALSE
  BY <1>2 DEF OpenTicket, Enter, Cancel, Refuse, Leave, SessionEnds, TicketExpires, Receipt,
              FailStopped, Reject, Throttle, Release, Parsed, SessionBreaks, SeveredEnds, Drop
<1>3. ASSUME NEW d \in Call, \/ \E ok \in BOOLEAN : Complete(d, ok)
                            \/ Suspend(d)
                            \/ \E t \in 1..2, b \in BOOLEAN : Pause(d, t, b)
      PROVE FALSE
  BY <1>3 DEF Complete, Suspend, Pause, Forget, AdmissionTypeOK
<1>4. ASSUME \/ \E m \in Mode : Crash(m)
             \/ Elapse \/ Midnight \/ ClearSuspension
             \/ \E l \in [Mode -> Limits], n \in 1..Slots : Configure(l, n)
             \/ \E resume \in BOOLEAN : Recover(resume)
      PROVE FALSE
  BY <1>4 DEF Crash, Elapse, Midnight, ClearSuspension, Configure, Recover
<1>5. ASSUME NEW applied \in BOOLEAN, LateSuspension(applied) PROVE FALSE
  BY <1>5 DEF LateSuspension, Forget, AdmissionTypeOK
<1> QED BY <1>1, <1>2, <1>3, <1>4, <1>5 DEF AdmissionNext, Settle

\* A call that may be on the wire, or whose outcome is lost, has its row.
LEMMA WireOwned ==
    ASSUME WireFenced
    PROVE  OnWire \cup Unanswered \subseteq Owners
BY DEF WireFenced, OnWire, Unanswered, Owners

LEMMA OwnersFinite == IsFiniteSet(Owners)
<1>1. IsFiniteSet(Call)
  BY AdmissionAssumption, FS_Union DEF Call
<1> QED BY <1>1, FS_Subset DEF Owners

\* reserve_locked admits within max_in_flight, and into a slot of its own, for
\* any number of calls and slots and through any change of max_in_flight.
THEOREM AdmissionBounded == AdmissionSpec => InFlightBounded
<1>1. ASSUME AdmissionInv, [AdmissionNext]_admissionVars, NEW c \in Call, row[c] = 0, row'[c] # 0
      PROVE  /\ Cardinality(OnWire \cup Unanswered) < inflight
             /\ \A d \in Call \ {c} : row'[d] # row'[c]
  <2>1. AdmissionNext
    BY <1>1 DEF admissionVars
  <2>2. PICK s \in 1..Slots, acked \in BOOLEAN : Reserve(c, s, acked)
    BY <1>1, <2>1, OnlyReserveInserts DEF AdmissionInv
  <2>3. Cardinality(Owners) < inflight /\ Abandoned = {} /\ lock[s] = None
        /\ row' = [row EXCEPT ![c] = s]
    BY <2>2 DEF Reserve, Room, Refused, FreeSlots
  <2>4. Cardinality(OnWire \cup Unanswered) < inflight
    <3>1. OnWire \cup Unanswered \subseteq Owners
      BY <1>1, WireOwned DEF AdmissionInv
    <3>2. /\ IsFiniteSet(OnWire \cup Unanswered)
          /\ Cardinality(OnWire \cup Unanswered) <= Cardinality(Owners)
      BY <3>1, OwnersFinite, FS_Subset
    <3>3. Cardinality(OnWire \cup Unanswered) \in Nat /\ Cardinality(Owners) \in Nat
      BY <3>2, OwnersFinite, FS_CardinalityType
    <3>4. inflight \in Int
      BY <1>1, AdmissionAssumption DEF AdmissionInv, AdmissionTypeOK
    <3> QED BY <2>3, <3>2, <3>3, <3>4
  <2>5. ASSUME NEW d \in Call \ {c} PROVE row'[d] # row'[c]
    <3>1. row'[d] = row[d] /\ row'[c] = s
      BY <1>1, <2>3, <2>5 DEF AdmissionInv, AdmissionTypeOK
    <3>2. row[d] # s
      BY <2>3, <2>5, <2>2, AdmissionAssumption DEF Abandoned, Owners
    <3> QED BY <3>1, <3>2
  <2> QED BY <2>4, <2>5
<1>2. AdmissionInv /\ [AdmissionNext]_admissionVars =>
        [\A c \in Call : row[c] = 0 /\ row'[c] # 0 =>
           /\ Cardinality(OnWire \cup Unanswered) < inflight
           /\ \A d \in Call \ {c} : row'[d] # row'[c]]_admissionVars
  BY <1>1
<1> QED BY AdmissionInductive, <1>2, PTL DEF AdmissionSpec, InFlightBounded

\* The row of a call that no longer holds its own lock goes with this call's own
\* suspension only.
LEMMA UnansweredKept ==
    ASSUME AdmissionInv, AdmissionNext, ~(\E resume \in BOOLEAN : Recover(resume)),
           NEW u \in Unanswered, u \notin Unanswered'
    PROVE  suspended' /\ (pc[u] = "rejecting" \/ landing = u)
<1> DEFINE k == row[u]
<1>0. u \in Call /\ k \in 1..Slots /\ lock[k] = None /\ u # None
  BY AdmissionAssumption, CallFacts DEF Unanswered, AdmissionInv, AdmissionTypeOK
<1>1. pc[u] \notin {"owned", "pausing"}
  BY <1>0, CallFacts DEF AdmissionInv, WireFenced
<1>2. ~(row'[u] = k /\ lock'[k] = None)
  BY <1>0 DEF Unanswered
<1>3. ASSUME NEW d \in Call, NEW s \in 1..Slots, NEW acked \in BOOLEAN, Reserve(d, s, acked)
      PROVE  FALSE
  BY <1>3, <1>0 DEF Reserve, Refused, Abandoned, Owners
<1>4. ASSUME NEW d \in Call, \/ OpenTicket(d) \/ Enter(d) \/ Cancel(d) \/ Refuse(d)
                            \/ TicketExpires(d) \/ Receipt(d) \/ FailStopped(d) \/ Reject(d) \/ Throttle(d)
                            \/ Parsed(d) \/ (\E b \in BOOLEAN : SeveredEnds(d, b))
                            \/ \E inFlight \in BOOLEAN : Drop(d, inFlight)
      PROVE UNCHANGED <<row, lock>>
  BY <1>4 DEF OpenTicket, Enter, Cancel, Refuse, Leave, TicketExpires, Receipt,
              FailStopped, Reject, Throttle, Parsed, SeveredEnds, Drop
<1>5. ASSUME NEW d \in Call, SessionEnds(d) \/ SessionBreaks(d) \/ Release(d)
      PROVE row'[u] = k /\ lock'[k] = None
  BY <1>5, <1>0 DEF SessionEnds, SessionBreaks, Release, Unlocked
<1>6. ASSUME NEW d \in Call, \/ \E ok \in BOOLEAN : Complete(d, ok)
                            \/ \E t \in 1..2, b \in BOOLEAN : Pause(d, t, b)
      PROVE row'[u] = k /\ lock' = lock
  <2>1. pc[d] \in {"owned", "pausing"} /\ lock' = lock
    BY <1>6 DEF Complete, Pause
  <2>2. d # u
    BY <2>1, <1>1
  <2>3. row' = [row EXCEPT ![d] = 0]
    BY <1>6 DEF Complete, Pause, Forget
  <2> QED BY <2>1, <2>2, <2>3, <1>0 DEF AdmissionInv, AdmissionTypeOK
<1>7. ASSUME \/ \E m \in Mode : Crash(m)
             \/ Elapse \/ Midnight \/ ClearSuspension
             \/ \E l \in [Mode -> Limits], n \in 1..Slots : Configure(l, n)
      PROVE UNCHANGED <<row, lock>>
  BY <1>7 DEF Crash, Elapse, Midnight, ClearSuspension, Configure
<1>8. ASSUME NEW d \in Call, Suspend(d)
      PROVE  suspended' /\ pc[u] = "rejecting"
  <2>1. /\ pc[d] = "rejecting" /\ lock' = lock /\ suspended' = TRUE
        /\ row' = [row EXCEPT ![d] = 0]
    BY <1>8 DEF Suspend, Forget
  <2>2. d = u
    BY <2>1, <1>0, <1>2 DEF AdmissionInv, AdmissionTypeOK
  <2> QED BY <2>1, <2>2
<1>9. ASSUME NEW applied \in BOOLEAN, LateSuspension(applied)
      PROVE  suspended' /\ landing = u
  <2>1. /\ lock' = lock /\ suspended' = (suspended \/ applied)
        /\ row' = IF applied THEN [row EXCEPT ![landing] = 0] ELSE row
    BY <1>9 DEF LateSuspension, Forget
  <2>2. applied /\ landing = u
    BY <2>1, <1>0, <1>2 DEF AdmissionInv, AdmissionTypeOK
  <2> QED BY <2>1, <2>2
<1> QED BY <1>2, <1>3, <1>4, <1>5, <1>6, <1>7, <1>8, <1>9, <1>0 DEF AdmissionNext, Settle

\* The row of a request that has lost its lock blocks every reservation, and goes with
\* an operator's recovery or with the request's own suspension only: no other
\* settlement or suspension, restart, lost acknowledgement or configuration removes it.
THEOREM EvidenceSurvives == AdmissionSpec => EvidenceKept
<1>1. ASSUME AdmissionInv, AdmissionNext, Unanswered # {}, ~(\E resume \in BOOLEAN : Recover(resume))
      PROVE  /\ \A c \in Unanswered \ Unanswered' :
                   suspended' /\ (pc[c] = "rejecting" \/ landing = c)
             /\ \A c \in Call : row'[c] # 0 => row[c] # 0
  <2>1. \A c \in Unanswered \ Unanswered' :
          suspended' /\ (pc[c] = "rejecting" \/ landing = c)
    BY <1>1, UnansweredKept
  <2>2. ASSUME NEW c \in Call, row'[c] # 0, row[c] = 0 PROVE FALSE
    <3>1. PICK s \in 1..Slots, acked \in BOOLEAN : Reserve(c, s, acked)
      BY <1>1, <2>2, OnlyReserveInserts DEF AdmissionInv
    <3> QED BY <3>1, <1>1 DEF Reserve, Refused, Abandoned, Owners, Unanswered
  <2> QED BY <2>1, <2>2
<1>2. AdmissionInv /\ [AdmissionNext]_admissionVars =>
        [Unanswered # {} /\ ~(\E resume \in BOOLEAN : Recover(resume)) =>
           /\ \A c \in Unanswered \ Unanswered' :
                 suspended' /\ (pc[c] = "rejecting" \/ landing = c)
           /\ \A c \in Call : row'[c] # 0 => row[c] # 0]_admissionVars
  <2>1. CASE UNCHANGED admissionVars
    BY <2>1
  <2>2. CASE AdmissionNext
    BY <1>1, <2>2
  <2> QED BY <2>1, <2>2
<1> QED BY AdmissionInductive, <1>2, PTL DEF AdmissionSpec, EvidenceKept
=============================================================================
