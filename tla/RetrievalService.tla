--------------------------- MODULE RetrievalService ---------------------------
(***************************************************************************)
(* The retrieval service: crates/application/src/service.rs and            *)
(* service/persistent.rs, with the L1 cache of adapters/src/cache.rs.      *)
(*                                                                         *)
(* Every section under the state mutex is one step; everything a job or a  *)
(* client does between two such sections interleaves with all the others.  *)
(* A flight's job is named by its generation. A behaviour picks at its     *)
(* start how the service is built, with a PersistentStore or without, and  *)
(* how far that behaviour is explored. The store itself appears as the     *)
(* port the service sees (status, two epochs, one head per key), whose own *)
(* implementation is module PostgresStore.                                 *)
(***************************************************************************)
EXTENDS Integers, FiniteSets

CONSTANTS
  Keys,              \* cache keys
  Clients,           \* concurrent retrieve() calls
  Configurations,    \* how the service may be built, and the bounds that go with each
  MaxFlights,        \* MAX_IN_FLIGHT
  MaxWaiters,        \* MAX_WAITERS
  MaxWaitersPerKey,  \* MAX_WAITERS_PER_KEY
  CacheCap,          \* MAX_CACHE_ENTRIES
  Fresh,             \* FRESH_SECONDS
  Retention,         \* RETENTION_SECONDS
  MaxGen,            \* bound: flights started
  MaxPanics          \* bound: jobs that panic

ASSUME ServiceAssumption ==
  /\ Keys # {} /\ IsFiniteSet(Keys) /\ IsFiniteSet(Clients)
  /\ Configurations \subseteq
       [persistent : BOOLEAN, requested : SUBSET Keys, permits : Nat \ {0}, ticks : Nat,
        faults : Nat, evictions : Nat, stops : BOOLEAN]
  /\ MaxFlights \in Nat \ {0} /\ MaxWaiters \in Nat \ {0}
  /\ MaxWaitersPerKey \in Nat \ {0} /\ CacheCap \in Nat \ {0}
  /\ Fresh \in Nat \ {0} /\ Retention \in Nat /\ Fresh <= Retention
  /\ MaxGen \in Nat /\ MaxPanics \in Nat

VARIABLES
  conf,       \* the configuration of this behaviour, which never changes
  now,        \* the service clock, which never steps back
  cache,      \* State.cache
  flights,    \* State.flights: generation (0: none) and waiters of each key
  waiters,    \* State.waiters
  generation, \* State.generation
  stopping,   \* State.stopping
  svcEpoch,   \* State.storage_epoch
  svcRec,     \* State.storage_recovery_epoch
  shut,       \* the service's shutdown token
  cancelled,  \* generations whose own token has been cancelled
  failed,     \* RetrievalService.failed
  stage,      \* where shutdown() is
  taken,      \* the jobs shutdown() has taken out of the JoinSet
  permits,    \* free permits of Provider.active
  job,        \* the owned jobs, by generation
  client,     \* the retrieve() calls
  store,      \* the storage port
  panics, faults, evictions

clock   == <<conf, now>>
state   == <<cache, flights, waiters, generation, stopping, svcEpoch, svcRec>>
tokens  == <<shut, cancelled, failed>>
ending  == <<stage, taken>>
budget  == <<panics, faults, evictions>>
vars    == <<conf, now, cache, flights, waiters, generation, stopping, svcEpoch, svcRec,
             shut, cancelled, failed, stage, taken, permits, job, client,
             store, panics, faults, evictions>>

Persistent   == conf.persistent  \* the service has a PersistentStore
Permits      == conf.permits     \* the provider's semaphore
MaxClock     == conf.ticks       \* bound: clock ticks
MaxFaults    == conf.faults      \* bound: storage failures and jobs that miss their deadline
MaxEvictions == conf.evictions   \* bound: evictions in the store
HostStops    == conf.stops       \* the host may end the service at any time

Generations == 1..MaxGen

\* A payload is its validation time and, in persistent mode, its snapshot.
NoEntry  == [at |-> -1, id |-> 0, lookup |-> FALSE]
Entries  == [at : -1..MaxClock, id : Nat, lookup : BOOLEAN]
Empty    == [k \in Keys |-> NoEntry]
NoFlight == [gen |-> 0, waiters |-> 0]

\* RetrievalError, as far as the service tells errors apart; "upstream" stands for
\* the transient ones and "rejected" for every other answer of a provider.
Errors == {"cancelled", "shutdown", "internal", "busy", "upstream", "rejected",
           "storage", "corrupt", "stale_only"}
Tags   == {"none", "ok"} \union Errors

Outcome(tag, value, ep) == [tag |-> tag, value |-> value, ep |-> ep]
NoOutcome  == Outcome("none", NoEntry, 0)
Err(e)     == Outcome(e, NoEntry, 0)
Outcomes   == [tag : Tags, value : Entries, ep : Nat]

JobPCs == {"unused", "start", "lookup", "rows", "found", "admit", "fetch", "begin",
           "authorize", "commit", "unsettled", "record", "drop", "accept", "relook",
           "settle", "publish", "panicked", "done"}
Running == JobPCs \ {"unused", "panicked", "done"}

NoJob == [pc |-> "unused", key |-> CHOOSE k \in Keys : TRUE, rec |-> 0, lep |-> 0,
          obs |-> 0, value |-> NoEntry, second |-> FALSE, evict |-> {}, late |-> FALSE,
          res |-> NoOutcome]

\* PersistentStore: status(), epoch(), recovery_epoch(), the head of every key and
\* its mutation revision; next supplies snapshot identifiers and revisions. trim is
\* what a retention transaction of maintain() is about to evict, and gone what it has
\* evicted without having opened its barrier. When the answer to its COMMIT is lost the
\* barrier opens at once: lost is what the server may still evict, and owed what it has
\* evicted, or given up, before the failure is recorded.
StoreStates == {"ready", "maintaining", "recovering", "blocked", "uncertain", "closed"}
NoStore == [st |-> "ready", epoch |-> 0, rec |-> 0, next |-> 0, head |-> Empty,
            rev |-> [k \in Keys |-> 0], trim |-> {}, gone |-> {},
            lost |-> {}, owed |-> {}]

TokenFired(g) == shut \/ g \in cancelled

\* StorageStatus::error
StorageError ==
  CASE ~Persistent \/ store.st = "ready" -> "none"
    [] store.st = "maintaining" -> "busy"
    [] store.st = "blocked" -> "corrupt"
    [] OTHER -> "storage"

----------------------------------------------------------------------------
(* Sections of the state mutex. *)

\* sync_epoch: what becomes of the cache and of the flights' tokens. A retention
\* barrier empties the cache and cancels nobody.
SyncCache ==
  IF store.rec # svcRec \/ store.epoch # svcEpoch \/ store.st # "ready"
  THEN Empty ELSE cache
SyncCancelsMaintaining ==
  IF store.rec # svcRec \/ store.st # "ready"
  THEN {flights[k].gen : k \in Keys} \ {0} ELSE {}
SyncCancels ==
  IF store.rec # svcRec \/ store.st \notin {"ready", "maintaining"}
  THEN {flights[k].gen : k \in Keys} \ {0} ELSE {}
SyncEpochs == svcEpoch' = store.epoch /\ svcRec' = store.rec

\* expire
Expire(c) == [k \in Keys |-> IF c[k].at < now - Retention THEN NoEntry ELSE c[k]]

\* MemoryCache::publish. Which entry was touched least recently is left open.
CachePublish(c, k, v) ==
  LET others == {o \in Keys : o # k /\ c[o] # NoEntry}
      excess == {D \in SUBSET others :
                   Cardinality(others \ D) <= CacheCap - 1 /\
                   \A o \in D : Cardinality(others \ D) = CacheCap - 1}
  IN {[o \in Keys |-> IF o = k THEN v ELSE IF o \in D THEN NoEntry ELSE c[o]] : D \in excess}

IsFresh(v) == v.at >= 0 /\ now - v.at < Fresh
Usable(v)  == v.at >= 0 /\ now - v.at <= Retention

\* What becomes of a flight when one of its waiters goes. Without a store the last one
\* takes the flight along; with a store the flight stays until its job has drained.
RemainingDropped(f) == IF f.waiters = 1 THEN NoFlight ELSE [f EXCEPT !.waiters = @ - 1]
Remaining(f) == IF f.waiters = 1 /\ ~Persistent THEN NoFlight
                ELSE [f EXCEPT !.waiters = @ - 1]

\* The flight a waiter leaves, if it is still its own, and the token it fires.
Holds(c)       == flights[client[c].key].gen = client[c].gen
LastOf(c)      == IF flights[client[c].key].waiters = 1 THEN {client[c].gen} ELSE {}

\* Waiter::drop, in a step that has fired the tokens in fired as well.
WaiterDrop(c, fired) ==
  IF ~Holds(c)
  THEN cancelled' = cancelled \union fired /\ UNCHANGED <<flights, waiters>>
  ELSE /\ waiters' = waiters - 1
       /\ flights' = [flights EXCEPT ![client[c].key] = Remaining(@)]
       /\ cancelled' = cancelled \union fired \union LastOf(c)

----------------------------------------------------------------------------
(* retrieve(): admission. *)

\* got is what the call's receiver of the outcome channel holds; rec is kept only to
\* state properties. An answered call leaves room for the next one.
NoClient == [pc |-> "idle", key |-> CHOOSE k \in Keys : TRUE, gen |-> 0,
             allowStale |-> FALSE, rec |-> 0, got |-> NoOutcome, res |-> "none"]

\* The answers the properties tell apart: a value, Cancelled, and all other errors;
\* "none" when the caller has gone itself.
Answer(c, tag) ==
  client' = [client EXCEPT ![c] = [NoClient EXCEPT
               !.res = IF tag \in {"none", "ok", "stale", "cancelled"} THEN tag ELSE "failed"]]

AdmittingLate(c) == client[c].pc = "idle"
Admitting(c) == client[c].pc = "idle" /\ ~stopping /\ ~shut

RetrieveShutdown(c) ==
  /\ client[c].pc = "idle" /\ (stopping \/ shut)
  /\ Answer(c, "shutdown")
  /\ UNCHANGED <<clock, state, tokens, ending, permits, job, store, budget>>

\* Refusals, after the epochs have been synchronised: a storage error, or a
\* limit on waiters, flights or upstream concurrency.
RetrieveRefused(c, k) ==
  /\ Admitting(c)
  /\ SyncEpochs /\ cancelled' = cancelled \union SyncCancels
  /\ LET f == flights[k]
         swept == Expire(SyncCache)
     IN \/ /\ StorageError # "none"
           /\ cache' = SyncCache
           /\ Answer(c, StorageError)
        \/ /\ StorageError = "none" /\ ~IsFresh(swept[k])
           /\ \/ waiters >= MaxWaiters
              \/ f.gen # 0 /\ (f.gen \in cancelled' \/ f.waiters >= MaxWaitersPerKey)
              \/ f.gen = 0 /\ Cardinality({o \in Keys : flights[o].gen # 0}) >= MaxFlights
              \/ f.gen = 0 /\ ~Persistent /\ permits = 0
           /\ cache' = swept
           /\ Answer(c, "busy")
  /\ UNCHANGED <<clock, flights, waiters, generation, stopping, shut, failed,
                 ending, permits, job, store, budget>>

RetrieveHit(c, k) ==
  /\ Admitting(c) /\ StorageError = "none"
  /\ SyncEpochs /\ cancelled' = cancelled \union SyncCancels
  /\ cache' = Expire(SyncCache)
  /\ IsFresh(cache'[k])
  /\ Answer(c, "ok")
  /\ UNCHANGED <<clock, flights, waiters, generation, stopping, shut, failed,
                 ending, permits, job, store, budget>>

Wait(c, k, g, stale) ==
  client' = [client EXCEPT ![c] = [NoClient EXCEPT !.pc = "waiting", !.key = k, !.gen = g,
                                     !.allowStale = stale, !.rec = store.rec]]

RetrieveJoin(c, k, stale) ==
  /\ Admitting(c) /\ StorageError = "none"
  /\ SyncEpochs /\ cancelled' = cancelled \union SyncCancels
  /\ cache' = Expire(SyncCache)
  /\ ~IsFresh(cache'[k]) /\ waiters < MaxWaiters
  /\ flights[k].gen # 0 /\ flights[k].gen \notin cancelled'
  /\ flights[k].waiters < MaxWaitersPerKey
  /\ flights' = [flights EXCEPT ![k].waiters = @ + 1]
  /\ waiters' = waiters + 1
  /\ Wait(c, k, flights[k].gen, stale)
  /\ UNCHANGED <<clock, generation, stopping, shut, failed, ending, permits,
                 job, store, budget>>

\* A new flight and its job. Admission also reaps finished jobs; one that panicked
\* stops the service, and leaves the flight just inserted behind without a job.
RetrieveStart(c, k, stale) ==
  /\ Admitting(c) /\ StorageError = "none" /\ generation < MaxGen
  /\ SyncEpochs /\ cancelled' = cancelled \union SyncCancels
  /\ cache' = Expire(SyncCache)
  /\ ~IsFresh(cache'[k]) /\ waiters < MaxWaiters /\ flights[k].gen = 0
  /\ Cardinality({o \in Keys : flights[o].gen # 0}) < MaxFlights
  /\ Persistent \/ permits > 0
  /\ generation' = generation + 1
  /\ flights' = [flights EXCEPT ![k] = [gen |-> generation + 1, waiters |-> 1]]
  /\ \/ /\ \A h \in Generations : job[h].pc # "panicked"
        /\ permits' = IF Persistent THEN permits ELSE permits - 1
        /\ job' = [job EXCEPT ![generation + 1] =
                     [NoJob EXCEPT !.pc = IF Persistent THEN "start" ELSE "fetch", !.key = k]]
        /\ waiters' = waiters + 1
        /\ Wait(c, k, generation + 1, stale)
        /\ UNCHANGED <<stopping, shut, failed>>
     \/ \E h \in Generations :
          /\ job[h].pc = "panicked"
          /\ job' = [job EXCEPT ![h].pc = "done"]
          /\ failed' = TRUE /\ shut' = TRUE /\ stopping' = TRUE
          /\ Answer(c, "internal")
          /\ UNCHANGED <<waiters, permits>>
  /\ UNCHANGED <<clock, ending, store, budget>>

----------------------------------------------------------------------------
(* retrieve(): waiting and the final decision. *)

\* The caller's own token fires, or the service's.
ClientLeaves(c) ==
  /\ client[c].pc = "waiting"
  /\ Answer(c, "none") \/ (shut /\ Answer(c, "shutdown"))
  /\ WaiterDrop(c, {})
  /\ UNCHANGED <<clock, cache, generation, stopping, svcEpoch, svcRec, shut,
                 failed, ending, permits, job, store, budget>>

Decided(c) == client[c].pc = "waiting" /\ ~shut /\ client[c].got.tag # "none"

\* Every outcome but a transient error. A stored result is served only while the
\* store is healthy and its epoch is still the one the result was read under.
ClientAnswered(c) ==
  LET o == client[c].got
      fenced == StorageError = "none" /\ o.tag = "ok" /\ Persistent
  IN
  /\ Decided(c) /\ (StorageError # "none" \/ o.tag # "upstream")
  /\ IF fenced THEN SyncEpochs /\ cache' = SyncCache
               ELSE UNCHANGED <<svcEpoch, svcRec, cache>>
  /\ WaiterDrop(c, IF fenced THEN SyncCancels ELSE {})
  /\ Answer(c, IF StorageError # "none" THEN StorageError
               ELSE IF o.tag # "ok" THEN o.tag
               ELSE IF fenced /\ store.epoch # o.ep THEN "storage"
               ELSE IF IsFresh(o.value) THEN "ok" ELSE "stale_only")
  /\ UNCHANGED <<clock, generation, stopping, shut, failed, ending, permits,
                 job, store, budget>>

\* A transient error: whoever allowed stale data gets what the cache still holds.
ClientFallback(c) ==
  /\ Decided(c) /\ StorageError = "none" /\ client[c].got.tag = "upstream"
  /\ IF client[c].allowStale
     THEN /\ SyncEpochs /\ cache' = Expire(SyncCache)
          /\ WaiterDrop(c, SyncCancels)
          /\ LET v == cache'[client[c].key]
             IN Answer(c, IF IsFresh(v) THEN "ok" ELSE IF Usable(v) THEN "stale" ELSE "upstream")
     ELSE /\ Answer(c, "stale_only")
          /\ WaiterDrop(c, {})
          /\ UNCHANGED <<svcEpoch, svcRec, cache>>
  /\ UNCHANGED <<clock, generation, stopping, shut, failed, ending, permits,
                 job, store, budget>>

\* What the senders of these generations' channels publish to their waiters.
Tell(G, o) == [c \in Clients |-> IF client[c].pc = "waiting" /\ client[c].gen \in G
                                 THEN [client[c] EXCEPT !.got = o] ELSE client[c]]

----------------------------------------------------------------------------
(* The job of a flight. *)

\* refresh() as a whole: evidence validated now, or an error of either kind.
\* resolve_persistent reports Cancelled once its token has fired, whatever the
\* drained work returned, and StorageUnavailable once its deadline has passed.
Results(g, r) ==
  IF job[g].late THEN {Err("storage")}
  ELSE IF TokenFired(g) THEN {r, Err("cancelled")} ELSE {r}

Finish(g, r) ==
  \E res \in Results(g, r) :
    job' = [job EXCEPT ![g] = [NoJob EXCEPT !.pc = "publish", !.key = job[g].key, !.res = res]]

JGoto(g, pc) == job' = [job EXCEPT ![g].pc = pc]

\* The memory-only job: one refresh under a permit that it holds to its end.
MemoryRefresh(g) ==
  /\ ~Persistent /\ job[g].pc = "fetch"
  /\ \E r \in IF TokenFired(g) THEN {Err("cancelled")}
              ELSE {Outcome("ok", [at |-> now, id |-> 0, lookup |-> FALSE], 0),
                    Err("upstream"), Err("rejected")} :
       job' = [job EXCEPT ![g].pc = "publish", ![g].res = r]
  /\ UNCHANGED <<clock, state, tokens, ending, permits, client, store, budget>>

JobStart(g) ==
  /\ job[g].pc = "start"
  /\ IF TokenFired(g) THEN Finish(g, Err("cancelled"))
     ELSE job' = [job EXCEPT ![g].pc = "lookup", ![g].rec = store.rec]
  /\ UNCHANGED <<clock, state, tokens, ending, permits, client, store, budget>>

\* store.lookup: admission and the epoch first, the rows later.
JobLookup(g) ==
  /\ job[g].pc \in {"lookup", "relook"}
  /\ IF StorageError # "none" THEN Finish(g, Err(StorageError))
     ELSE IF TokenFired(g) THEN Finish(g, Err("cancelled"))
     ELSE job' = [job EXCEPT ![g].pc = "rows", ![g].lep = store.epoch,
                             ![g].second = job[g].pc = "relook"]
  /\ UNCHANGED <<clock, state, tokens, ending, permits, client, store, budget>>

\* A key without a head goes on to the provider, unless this is the lookup after a
\* lost publication, which gives up as Busy.
JobRows(g) ==
  LET v == store.head[job[g].key] IN
  /\ job[g].pc = "rows"
  /\ IF v = NoEntry /\ job[g].second THEN Finish(g, Err("busy"))
     ELSE job' = [job EXCEPT ![g].value = v, ![g].obs = store.rev[job[g].key],
                             ![g].pc = IF v = NoEntry THEN "admit"
                                       ELSE IF job[g].second THEN "settle" ELSE "found"]
  /\ UNCHANGED <<clock, state, tokens, ending, permits, client, store, budget>>

\* The flight is still this generation's, wanted and not cancelled.
Wanted(g) == LET f == flights[job[g].key]
             IN f.gen = g /\ f.waiters > 0 /\ ~TokenFired(g)

\* The epoch of the lookup is still the store's, and the store is healthy.
PromotableHealthy(g) == StorageError = "none"
Promotable(g) == StorageError = "none" /\ store.epoch = job[g].lep

\* promote_persistent: a retained value enters the cache under the epoch its lookup
\* started with, and also ends the job if it is fresh.
JobPromote(g) ==
  LET v == job[g].value IN
  /\ job[g].pc = "found" /\ ~TokenFired(g) /\ Usable(v)
  /\ SyncEpochs /\ cancelled' = cancelled \union SyncCancels
  /\ IF ~Promotable(g)
     THEN cache' = SyncCache /\ Finish(g, Err("storage"))
     ELSE IF stopping \/ ~Wanted(g) \/ g \in SyncCancels
     THEN cache' = SyncCache /\ Finish(g, Err("cancelled"))
     ELSE /\ cache' \in CachePublish(SyncCache, job[g].key, v)
          /\ IF IsFresh(v) THEN Finish(g, Outcome("ok", v, job[g].lep)) ELSE JGoto(g, "admit")
  /\ UNCHANGED <<clock, flights, waiters, generation, stopping, shut, failed,
                 ending, permits, client, store, budget>>

JobUnusable(g) ==
  /\ job[g].pc = "found"
  /\ IF TokenFired(g) THEN Finish(g, Err("cancelled"))
     ELSE ~Usable(job[g].value) /\ JGoto(g, "admit")
  /\ UNCHANGED <<clock, state, tokens, ending, permits, client, store, budget>>

JobAdmit(g) ==
  /\ job[g].pc = "admit"
  /\ IF TokenFired(g) \/ StorageError # "none" \/ permits = 0
     THEN /\ Finish(g, Err(IF TokenFired(g) THEN "cancelled"
                           ELSE IF StorageError # "none" THEN StorageError ELSE "busy"))
          /\ UNCHANGED permits
     ELSE JGoto(g, "fetch") /\ permits' = permits - 1
  /\ UNCHANGED <<clock, state, tokens, ending, client, store, budget>>

\* The refresh of a persistent flight; the permit is returned before the storage
\* is asked whether it is still the one the job started with.
JobRefresh(g) ==
  /\ Persistent /\ job[g].pc = "fetch"
  /\ permits' = permits + 1
  /\ \/ TokenFired(g) /\ Finish(g, Err("cancelled"))
     \/ /\ ~TokenFired(g)
        /\ \/ \E e \in {"upstream", "rejected"} : Finish(g, Err(e))
           \/ IF store.rec # job[g].rec THEN Finish(g, Err("storage"))
              ELSE IF StorageError # "none" THEN Finish(g, Err(StorageError))
              ELSE job' = [job EXCEPT ![g].pc = "begin",
                             ![g].value = [at |-> now, id |-> 0, lookup |-> FALSE]]
  /\ UNCHANGED <<clock, state, tokens, ending, client, store, budget>>

----------------------------------------------------------------------------
(* store.publish, as the port shows it. *)

\* The capacity row, which a transaction locks from its start until the server has
\* decided it, and the mutex that maintain() holds from end to end.
RowFree == /\ store.trim = {} /\ store.lost = {}
           /\ \A h \in Generations : job[h].pc \notin {"authorize", "commit", "unsettled"}
MaintainFree == store.gone = {} /\ store.owed = {}

\* The CommitAuthorization the service hands over.
Authorize(g) == /\ ~stopping /\ Wanted(g) /\ store.rec = job[g].rec
                /\ store.st \in {"ready", "maintaining"}

Barrier(s)   == [s EXCEPT !.st = "maintaining", !.epoch = @ + 1]
Unbarrier(s) == [s EXCEPT !.st = IF @ = "maintaining" THEN "ready" ELSE @, !.epoch = @ + 1]
Evict(s, E)  == [s EXCEPT !.head = [k \in Keys |-> IF k \in E THEN NoEntry ELSE @[k]],
                          !.rev  = [k \in Keys |-> IF k \in E THEN 0 ELSE @[k]]]

\* Admission, the comparison with the observation of the lookup, and the start of
\* the transaction, which may have to evict other keys behind a barrier.
JobBegin(g) ==
  LET k == job[g].key IN
  /\ job[g].pc = "begin"
  /\ \/ /\ StorageError # "none"
        /\ Finish(g, Err(StorageError)) /\ UNCHANGED <<store, evictions>>
     \/ /\ StorageError = "none" /\ ~Authorize(g)
        /\ Finish(g, Err("cancelled")) /\ UNCHANGED <<store, evictions>>
     \/ /\ StorageError = "none" /\ Authorize(g) /\ store.rev[k] # job[g].obs
        /\ JGoto(g, "relook") \/ Finish(g, Err("busy"))
        /\ UNCHANGED <<store, evictions>>
     \/ /\ StorageError = "none" /\ Authorize(g) /\ store.rev[k] = job[g].obs /\ RowFree
        /\ \E E \in SUBSET {o \in Keys : o # k /\ store.head[o] # NoEntry} :
             /\ evictions + Cardinality(E) <= MaxEvictions
             /\ evictions' = evictions + Cardinality(E)
             /\ store' = IF E = {} THEN store ELSE Barrier(store)
             /\ job' = [job EXCEPT ![g].pc = "authorize", ![g].evict = E]
  /\ UNCHANGED <<clock, state, tokens, ending, permits, client, panics, faults>>

\* Immediately before COMMIT; a refusal opens the barrier again.
JobAuthorize(g) ==
  /\ job[g].pc = "authorize"
  /\ IF Authorize(g) THEN JGoto(g, "commit") /\ UNCHANGED store
     ELSE /\ Finish(g, Err("cancelled"))
          /\ store' = IF job[g].evict = {} THEN store ELSE Unbarrier(store)
  /\ UNCHANGED <<clock, state, tokens, ending, permits, client, budget>>

Committed(g) ==
  [Evict(store, job[g].evict) EXCEPT
     !.next = @ + 1, !.rev[job[g].key] = store.next + 1,
     !.head[job[g].key] = [at |-> job[g].value.at, id |-> store.next + 1, lookup |-> TRUE]]

JobCommit(g) ==
  /\ job[g].pc = "commit"
  /\ store' = Committed(g)
  /\ job' = [job EXCEPT ![g].pc = "drop", ![g].value.id = store.next + 1]
  /\ UNCHANGED <<clock, state, tokens, ending, permits, client, budget>>

JobDrop(g) ==
  /\ job[g].pc = "drop"
  /\ store' = IF job[g].evict = {} THEN store ELSE Unbarrier(store)
  /\ job' = [job EXCEPT ![g].pc = "accept", ![g].evict = {}]
  /\ UNCHANGED <<clock, state, tokens, ending, permits, client, budget>>

JobAccept(g) ==
  /\ job[g].pc = "accept"
  /\ job' = [job EXCEPT ![g].pc = "settle", ![g].lep = store.epoch]
  /\ UNCHANGED <<clock, state, tokens, ending, permits, client, store, budget>>

\* What the service still asks of an accepted, or of the competing, publication.
JobSettle(g) ==
  /\ job[g].pc = "settle"
  /\ Finish(g, IF TokenFired(g) THEN Err("cancelled")
               ELSE IF store.rec # job[g].rec THEN Err("storage")
               ELSE IF ~IsFresh(job[g].value) THEN Err("stale_only")
               ELSE Outcome("ok", job[g].value, job[g].lep))
  /\ UNCHANGED <<clock, state, tokens, ending, permits, client, store, budget>>

----------------------------------------------------------------------------
(* The end of a job, and the ways it can go wrong. *)

AnswersAlways(g) == TRUE
\* The flight of the key is still this generation's.
Answers(g)       == flights[job[g].key].gen = g

\* RetrievalService::publish. Only the flight of this very generation is answered;
\* a cancelled one never with a value, and a value never under a moved epoch.
JobPublish(g) ==
  LET k == job[g].key
      r == job[g].res
      dead == shut \/ stopping \/ flights[k].gen \in cancelled \union SyncCancels
      fenced == Persistent /\ r.tag = "ok" /\
                (r.ep # store.epoch \/ StorageError # "none")
      told == IF dead
              THEN IF r.tag \in {"storage", "corrupt"} THEN r
                   ELSE Err(IF StorageError # "none" THEN StorageError ELSE "cancelled")
              ELSE IF fenced THEN Err("storage") ELSE r
  IN
  /\ job[g].pc = "publish"
  /\ SyncEpochs /\ cancelled' = cancelled \union SyncCancels
  /\ IF ~Answers(g)
     THEN cache' = SyncCache /\ UNCHANGED <<flights, waiters, client>>
     ELSE /\ cache' \in IF told.tag = "ok" THEN CachePublish(Expire(SyncCache), k, told.value)
                        ELSE {SyncCache}
          /\ waiters' = waiters - flights[k].waiters
          /\ flights' = [flights EXCEPT ![k] = NoFlight]
          /\ client' = Tell({flights[k].gen}, told)
  /\ job' = [job EXCEPT ![g] = [NoJob EXCEPT !.pc = "done"]]
  /\ permits' = IF Persistent THEN permits ELSE permits + 1
  /\ UNCHANGED <<clock, generation, stopping, shut, failed, ending, store, budget>>

\* The refresh timeout plus STORAGE_RESOLUTION_MARGIN_SECS of resolve_persistent.
JobDeadline(g) ==
  /\ faults < MaxFaults /\ faults' = faults + 1
  /\ Persistent /\ job[g].pc \in Running \ {"publish"} /\ ~TokenFired(g)
  /\ job' = [job EXCEPT ![g].late = TRUE]
  /\ cancelled' = cancelled \union {g}
  /\ UNCHANGED <<clock, state, shut, failed, ending, permits, client, store, panics,
                 evictions>>

JobPanic(g) ==
  /\ panics < MaxPanics /\ panics' = panics + 1
  /\ job[g].pc = "fetch"
  /\ JGoto(g, "panicked") /\ permits' = permits + 1
  /\ UNCHANGED <<clock, state, tokens, ending, client, store, faults, evictions>>

\* record() of the storage adapter. (A store that was closed or blocked before it became
\* uncertain keeps its epochs; it never serves again, so nobody can tell.)
Recorded(s, to) ==
  IF s.st \in {"closed", "blocked"} THEN s
  ELSE [s EXCEPT !.st = IF @ = "uncertain" THEN @ ELSE to, !.epoch = @ + 1, !.rec = @ + 1]

\* A storage operation of the job that only reads fails.
JobStorageFault(g) ==
  /\ faults < MaxFaults /\ faults' = faults + 1
  /\ job[g].pc = "rows"
  /\ \/ store' = Recorded(store, "recovering") /\ Finish(g, Err("storage"))
     \/ store' = Recorded(store, "blocked") /\ Finish(g, Err("corrupt"))
  /\ UNCHANGED <<clock, state, tokens, ending, permits, client, panics, evictions>>

\* The unwinding of a COMMIT without an answer: the transaction's drop leaves a store
\* under a durability fence uncertain, and the barrier's drop opens a barrier over E.
Unwound(E) ==
  LET s == IF E = {} THEN store ELSE Unbarrier(store)
  IN {s, [s EXCEPT !.st = "uncertain"]}

\* The answer to the job's COMMIT is lost, before the server has decided it or after.
JobCommitLost(g) ==
  /\ faults < MaxFaults /\ faults' = faults + 1
  /\ job[g].pc \in {"commit", "drop"}
  /\ store' \in Unwound(job[g].evict)
  /\ JGoto(g, IF job[g].pc = "commit" THEN "unsettled" ELSE "record")
  /\ UNCHANGED <<clock, state, tokens, ending, permits, client, panics, evictions>>

\* The server applies the COMMIT after all, or rolls it back. It may do so after the
\* failure is recorded too, which comes to the same as just before: the record moves
\* both epochs, and recovery waits for the row the COMMIT holds.
JobSettled(g) ==
  /\ job[g].pc = "unsettled"
  /\ store' \in {store, Committed(g)}
  /\ JGoto(g, "record")
  /\ UNCHANGED <<clock, state, tokens, ending, permits, client, budget>>

\* own() records the failure, which nobody has seen so far.
JobRecord(g) ==
  /\ job[g].pc = "record"
  /\ store' = Recorded(store, "recovering")
  /\ Finish(g, Err("storage"))
  /\ UNCHANGED <<clock, state, tokens, ending, permits, client, budget>>

----------------------------------------------------------------------------
(* The store's own life: retention, failing probes and recovery. *)

StoreTrim ==
  /\ Persistent /\ store.st = "ready" /\ RowFree /\ MaintainFree
  /\ \E k \in {o \in Keys : store.head[o] # NoEntry} :
       store' = [Barrier(store) EXCEPT !.trim = {k}]
  /\ evictions < MaxEvictions /\ evictions' = evictions + 1
  /\ UNCHANGED <<clock, state, tokens, ending, permits, job, client, panics, faults>>

StoreTrimmed ==
  /\ store.trim # {}
  /\ store' = [Evict(store, store.trim) EXCEPT !.trim = {}, !.gone = store.trim]
  /\ UNCHANGED <<clock, state, tokens, ending, permits, job, client, budget>>

StoreOpened ==
  /\ store.gone # {}
  /\ store' = [Unbarrier(store) EXCEPT !.gone = {}]
  /\ UNCHANGED <<clock, state, tokens, ending, permits, job, client, budget>>

StoreFails ==
  /\ Persistent /\ faults < MaxFaults /\ faults' = faults + 1
  /\ store.st \notin {"closed", "blocked", "uncertain"}
  /\ store' = Recorded(store, "recovering")
  /\ UNCHANGED <<clock, state, tokens, ending, permits, job, client, panics, evictions>>

\* The answer to the COMMIT of maintain() is lost, then decided and recorded as a job's.
StoreTrimLost ==
  /\ faults < MaxFaults /\ faults' = faults + 1
  /\ store.trim \union store.gone # {}
  /\ \E s \in Unwound(store.trim \union store.gone) :
       store' = [s EXCEPT !.trim = {}, !.gone = {}, !.lost = store.trim, !.owed = store.gone]
  /\ UNCHANGED <<clock, state, tokens, ending, permits, job, client, panics, evictions>>

StoreSettled ==
  /\ store.lost # {}
  /\ \E s \in {store, Evict(store, store.lost)} :
       store' = [s EXCEPT !.lost = {}, !.owed = store.lost]
  /\ UNCHANGED <<clock, state, tokens, ending, permits, job, client, budget>>

StoreRecorded ==
  /\ store.owed # {}
  /\ store' = [Recorded(store, "recovering") EXCEPT !.owed = {}]
  /\ UNCHANGED <<clock, state, tokens, ending, permits, job, client, budget>>

\* health() reopens the store under the mutex of maintain().
StoreRecovers ==
  /\ store.st = "recovering" /\ RowFree /\ MaintainFree
  /\ store' = [store EXCEPT !.st = "ready", !.epoch = @ + 1]
  /\ UNCHANGED <<clock, state, tokens, ending, permits, job, client, budget>>

----------------------------------------------------------------------------
(* The service's own tasks, shutdown and time. *)

Panicked == {g \in Generations : job[g].pc = "panicked"}

\* Whether what the one-second or the five-second task found ends the service.
FatalNever(found) == FALSE
Fatal(found) == found # {}

\* The one-second task: synchronise, sweep the cache, reap finished jobs.
MaintenanceTick ==
  /\ ~shut
  /\ SyncEpochs /\ cancelled' = cancelled \union SyncCancels
  /\ cache' = Expire(SyncCache)
  /\ job' = [g \in Generations |-> IF g \in Panicked THEN [job[g] EXCEPT !.pc = "done"]
                                   ELSE job[g]]
  /\ failed' = (failed \/ Panicked # {}) /\ shut' = Fatal(Panicked)
  /\ UNCHANGED <<clock, flights, waiters, generation, stopping, ending, permits,
                 client, store, budget>>

\* The five-second task, after store.health().
HealthTick ==
  /\ Persistent /\ ~shut
  /\ SyncEpochs /\ cancelled' = cancelled \union SyncCancels
  /\ cache' = SyncCache
  /\ failed' = (failed \/ store.st = "uncertain")
  /\ shut' = Fatal({store.st} \intersect {"uncertain"})
  /\ UNCHANGED <<clock, flights, waiters, generation, stopping, ending, permits,
                 job, client, store, budget>>

\* run() and shutdown(): the host or the service's own token ends the service.
ShutdownBegin ==
  LET live == {flights[k].gen : k \in Keys} \ {0} IN
  /\ stage = "running" /\ (HostStops \/ shut) /\ stage' = "take"
  /\ stopping' = TRUE /\ shut' = TRUE
  /\ cancelled' = cancelled \union live
  /\ client' = Tell(live, Err("shutdown"))
  /\ flights' = [k \in Keys |-> NoFlight] /\ waiters' = 0 /\ cache' = Empty
  /\ UNCHANGED <<clock, generation, svcEpoch, svcRec, failed, taken, permits, job, store,
                 budget>>

ShutdownTake ==
  /\ stage = "take" /\ stage' = "close"
  /\ taken' = {g \in Generations : job[g].pc \in Running \union {"panicked"}}
  /\ UNCHANGED <<clock, state, tokens, permits, job, client, store, budget>>

ShutdownClose ==
  /\ stage = "close" /\ stage' = "join"
  /\ store' = IF ~Persistent THEN store
              ELSE [store EXCEPT !.st = IF @ = "uncertain" THEN @ ELSE "closed",
                                 !.epoch = @ + 1]
  /\ UNCHANGED <<clock, state, tokens, taken, permits, job, client, budget>>

ShutdownJoin ==
  /\ stage = "join" /\ stage' = "done"
  /\ \A g \in taken : job[g].pc \notin Running
  /\ failed' = (failed \/ \E g \in taken : job[g].pc = "panicked")
  /\ UNCHANGED <<clock, state, shut, cancelled, taken, permits, job, client, store,
                 budget>>

Tick ==
  /\ now < MaxClock /\ now' = now + 1
  /\ UNCHANGED <<conf, state, tokens, ending, permits, job, client, store, budget>>

----------------------------------------------------------------------------
Init ==
  /\ conf \in Configurations /\ now = 0 /\ cache = Empty
  /\ flights = [k \in Keys |-> NoFlight] /\ waiters = 0 /\ generation = 0
  /\ stopping = FALSE /\ svcEpoch = 0 /\ svcRec = 0
  /\ shut = FALSE /\ cancelled = {} /\ failed = FALSE
  /\ stage = "running" /\ taken = {}
  /\ permits = Permits /\ job = [g \in Generations |-> NoJob]
  /\ client = [c \in Clients |-> NoClient]
  /\ store = NoStore
  /\ panics = 0 /\ faults = 0 /\ evictions = 0

Retrieve(c) ==
  \/ RetrieveShutdown(c)
  \/ \E k \in conf.requested :
       \/ RetrieveRefused(c, k) \/ RetrieveHit(c, k)
       \/ \E stale \in BOOLEAN : RetrieveJoin(c, k, stale) \/ RetrieveStart(c, k, stale)

ClientStep(c) == ClientAnswered(c) \/ ClientFallback(c)

JobStep(g) ==
  \/ MemoryRefresh(g) \/ JobStart(g) \/ JobLookup(g) \/ JobRows(g) \/ JobPromote(g)
  \/ JobUnusable(g) \/ JobAdmit(g) \/ JobRefresh(g) \/ JobBegin(g) \/ JobAuthorize(g)
  \/ JobCommit(g) \/ JobDrop(g) \/ JobAccept(g) \/ JobSettled(g) \/ JobRecord(g)
  \/ JobSettle(g) \/ JobPublish(g)

\* What a maintain() under way does next.
StoreMaintains == StoreTrimmed \/ StoreOpened \/ StoreSettled \/ StoreRecorded

Shutdown == ShutdownTake \/ ShutdownClose \/ ShutdownJoin

Next ==
  \/ \E c \in Clients : Retrieve(c) \/ ClientLeaves(c) \/ ClientStep(c)
  \/ \E g \in Generations : JobStep(g) \/ JobDeadline(g) \/ JobPanic(g) \/ JobStorageFault(g)
                            \/ JobCommitLost(g)
  \/ StoreTrim \/ StoreMaintains \/ StoreTrimLost \/ StoreFails \/ StoreRecovers
  \/ MaintenanceTick \/ HealthTick \/ ShutdownBegin \/ Shutdown \/ Tick

Spec == Init /\ [][Next]_vars

----------------------------------------------------------------------------
(* Properties. *)

JobRecords ==
  [pc : JobPCs, key : Keys, rec : Nat, lep : Nat, obs : Nat, value : Entries,
   second : BOOLEAN, evict : SUBSET Keys, late : BOOLEAN, res : Outcomes]
ClientRecords ==
  [pc : {"idle", "waiting"}, key : Keys, gen : 0..MaxGen, allowStale : BOOLEAN,
   rec : Nat, got : Outcomes, res : {"none", "ok", "stale", "cancelled", "failed"}]
StoreRecords ==
  [st : StoreStates, epoch : Nat, rec : Nat, next : Nat, head : [Keys -> Entries],
   rev : [Keys -> Nat], trim : SUBSET Keys, gone : SUBSET Keys, lost : SUBSET Keys,
   owed : SUBSET Keys]

\* Type invariant.
TypeOK ==
  /\ conf \in Configurations /\ now \in 0..MaxClock /\ cache \in [Keys -> Entries]
  /\ flights \in [Keys -> [gen : 0..MaxGen, waiters : Nat]]
  /\ waiters \in Nat /\ generation \in 0..MaxGen /\ stopping \in BOOLEAN
  /\ svcEpoch \in Nat /\ svcRec \in Nat
  /\ shut \in BOOLEAN /\ cancelled \subseteq Generations /\ failed \in BOOLEAN
  /\ stage \in {"running", "take", "close", "join", "done"} /\ taken \subseteq Generations
  /\ permits \in 0..Permits
  /\ job \in [Generations -> JobRecords]
  /\ client \in [Clients -> ClientRecords]
  /\ store \in StoreRecords
  /\ panics \in Nat /\ faults \in Nat /\ evictions \in Nat

\* The calls that still wait for an outcome of this generation of the key.
Pending(k, g) == {c \in Clients : /\ client[c].pc = "waiting" /\ client[c].got.tag = "none"
                                  /\ client[c].key = k /\ client[c].gen = g}

\* The two waiter counts, kept in different structures and decremented by drops, by
\* publications and by shutdown, are always the number of calls that wait: neither
\* underflows nor leaks admission capacity. (A service that stops because admission
\* reaped a panic leaves one flight with a waiter it never admitted.)
WaiterAccounting ==
  /\ waiters = Cardinality(UNION {Pending(k, g) : k \in Keys, g \in Generations})
  /\ ~stopping => \A k \in Keys : flights[k].gen # 0 =>
                    flights[k].waiters = Cardinality(Pending(k, flights[k].gen))

\* Nobody waits in vain: the flight a call waits for is still registered and its job
\* still runs, or has panicked and will be reaped, or the service stops, or the
\* outcome is there. Dropping a flight unanswered would surface as Internal.
WaiterHasOwner ==
  \A c \in Clients : client[c].pc = "waiting" =>
    LET g == client[c].gen
    IN \/ client[c].got.tag # "none"
       \/ /\ flights[client[c].key].gen = g
          /\ job[g].pc \in Running \union {"panicked"} \/ shut

\* Cancelled is a call's own doing: it reaches another call only after the store has
\* lost a dependency since that call was admitted, never because some other waiter
\* left, another generation was cancelled or retention ran.
CancellationIsolated ==
  [][\A c \in Clients :
       client[c].pc = "waiting" /\ client'[c].pc = "idle" /\ client'[c].res = "cancelled"
       => store.rec # client[c].rec]_vars

\* One representation of a key is fetched at a time; with a store, the work of an
\* abandoned flight has also drained before the key admits its replacement.
OneOwnerPerKey ==
  \A g, h \in Generations :
    /\ g # h /\ job[g].key = job[h].key
    /\ job[g].pc \in Running /\ job[h].pc \in Running
    => stopping \/ (~Persistent /\ (TokenFired(g) \/ TokenFired(h)))

\* Flights, waiters and owned jobs agree, through every join, drop, replacement,
\* panic and publication: each call that waits is counted once and has an owner,
\* and each key has one.
FlightsSound == WaiterAccounting /\ WaiterHasOwner /\ OneOwnerPerKey

\* Once shutdown has emptied the state no late job or racing call refills it, and
\* when it returns every job it owned has ended.
ShutdownFinal ==
  /\ stage # "running" => cache = Empty /\ waiters = 0 /\ \A k \in Keys : flights[k] = NoFlight
  /\ stage = "done" => \A g \in Generations : job[g].pc \notin Running

\* Keys that a publication or maintain() has evicted while its barrier is still up, or
\* may have evicted by a COMMIT whose loss opened the barrier and is not recorded yet.
\* (Dropping a barrier does not ask whose it is, so a store that failed and recovered
\* under one may be ready again before the eviction has moved the epoch.)
Evicting == store.gone \union store.owed \union
            UNION {job[g].evict : g \in {h \in Generations : job[h].pc \in {"drop", "record"}}}

\* L1 holds a looked-up capture under the store's current epoch only while the store
\* retains one of that key at least as recent, or its eviction is about to move the
\* epoch: every eviction that finished in between has moved it, however the lookup
\* and the promotion were interleaved with it. A COMMIT that the server applies late,
\* behind an open barrier, is covered from the moment its loss is recorded.
PromotionFence ==
  \A k \in Keys :
    /\ Persistent /\ cache[k].lookup
    /\ svcEpoch = store.epoch /\ store.st = "ready"
    => store.head[k].at >= cache[k].at \/ k \in Evicting

\* No publication or promotion replaces a cache entry by evidence validated earlier,
\* so an obsolete generation never overwrites a newer one.
CacheMonotone ==
  [][\A k \in Keys : cache'[k] # NoEntry => cache'[k].at >= cache[k].at]_vars

\* The runtime polls ready tasks, storage operations have deadlines of their own, the
\* one-second and five-second intervals keep firing, and shutdown() is driven by run().
Fairness ==
  /\ \A c \in Clients : WF_vars(ClientStep(c)) /\ WF_vars(shut /\ ClientLeaves(c))
  /\ \A g \in Generations : WF_vars(JobStep(g))
  /\ WF_vars(StoreMaintains) /\ WF_vars(StoreRecovers)
  /\ WF_vars(MaintenanceTick) /\ WF_vars(HealthTick)
  /\ WF_vars(shut /\ ShutdownBegin) /\ WF_vars(Shutdown)

FairSpec == Spec /\ Fairness

\* Every admitted call is answered, whatever panics, faults and shutdowns intervene.
CallsAnswered == \A c \in Clients : client[c].pc = "waiting" ~> client[c].pc = "idle"
=============================================================================
