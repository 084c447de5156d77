---------------------------- MODULE PostgresStore ----------------------------
(***************************************************************************)
(* The durable snapshot cache: crates/adapters/src/postgres.rs and its     *)
(* submodules data.rs, publication.rs and maintenance.rs.                  *)
(*                                                                         *)
(* Three pieces of state meet here and each has its own notion of atomic:  *)
(* the process-local availability machine (Inner.state and its epochs),    *)
(* the PostgreSQL tables (every mutation holds the cache_storage row lock, *)
(* every read is a separate READ COMMITTED statement), and the blob files, *)
(* which are read, written and unlinked outside any transaction.           *)
(*                                                                         *)
(* A caller in Callers is one task of the service that looks a key up and  *)
(* then publishes a candidate for it; the keeper is whoever holds the      *)
(* maintenance mutex, so either maintain() or health().                    *)
(***************************************************************************)
EXTENDS Integers, FiniteSets

CONSTANTS
  Keys,          \* persistent query identities
  Digests,       \* sha256 values of raw evidence
  Callers,       \* concurrent storage operations admitted by own()
  MaxSnapshots,  \* RetentionPolicy.max_snapshots (stands for all global limits)
  MaxPerQuery,   \* RetentionPolicy.max_snapshots_per_query
  Strict,        \* a DurabilityFence is configured (remote_apply replication)
  Damage,        \* the environment may remove evidence from the blob root
  MaxRuns,       \* bound: lookups started
  MaxFaults,     \* bound: database or filesystem failures and lost answers
  MaxAge,        \* bound: how many captures can pass the retention horizon
  MaxStops       \* bound: closes and process restarts

ASSUME StoreAssumption ==
  /\ MaxSnapshots \in Nat \ {0} /\ MaxPerQuery \in 1..MaxSnapshots
  /\ Strict \in BOOLEAN /\ Damage \in BOOLEAN
  /\ MaxRuns \in Nat /\ MaxFaults \in Nat /\ MaxAge \in Nat /\ MaxStops \in Nat
  /\ Keys # {} /\ Digests # {}
  /\ "free" \notin Callers /\ "ghost" \notin Callers /\ "keeper" \notin Callers

VARIABLES
  st,        \* Inner.state
  epoch,     \* Inner.epoch
  recEpoch,  \* Inner.recovery_epoch
  uncertain, \* Inner.strict_uncertain
  db,        \* the committed tables
  lock,      \* who holds the cache_storage row: "free", "ghost", a caller, "keeper"
  tx,        \* the tables as the transaction holding the lock has rewritten them
  mut,       \* supply of snapshot identifiers and query revisions
  nextGen,   \* supply of blob generations (uuidv7)
  horizon,   \* captures up to this identifier are past the retention period
  files,     \* blob files, by digest and generation
  late,      \* filesystem jobs whose caller has gone but which still run
  op,        \* the callers' operations
  keeper,    \* the holder of the maintenance mutex
  runs, faults, stops

vars == <<st, epoch, recEpoch, uncertain, db, lock, tx, mut, nextGen, horizon,
          files, late, op, keeper, runs, faults, stops>>
machine  == <<st, epoch, recEpoch, uncertain>>
tables   == <<db, lock, tx, mut, nextGen>>
physical == <<files, late>>
budget   == <<runs, faults, stops>>

States    == {"ready", "recovering", "corrupt", "maintaining", "closed"}
Locations == Digests \X Nat
Snapshots == [id : Nat \ {0}, key : Keys, dig : Digests]
NoBlob    == [gen |-> 0, ready |-> FALSE]

\* cache_snapshot, cache_head (0: none), cache_query.mutation_revision (0: no
\* such query; a revision is never reused, as query id and revision together
\* never are), blob_object and blob_deletion.
Tables == [snaps : SUBSET Snapshots,
           head  : [Keys -> Nat],
           rev   : [Keys -> Nat],
           blobs : [Digests -> [gen : Nat, ready : BOOLEAN]],
           queue : SUBSET Locations]

\* A freshly migrated database; also what tx holds while there is no transaction.
NoTables == [snaps |-> {}, head |-> [k \in Keys |-> 0], rev |-> [k \in Keys |-> 0],
             blobs |-> [d \in Digests |-> NoBlob], queue |-> {}]

CallerPCs == {"idle", "query", "head", "snapshot", "dangling", "blob", "missing",
              "found", "reserve", "read", "live", "confirm", "put", "begin", "trim",
              "authorize", "gate", "commit", "ack", "drop", "accept", "done", "undo",
              "record"}

KeeperPCs == {"idle", "clean", "unlink", "dequeue", "trim", "commit", "ack", "drop",
              "scan", "undo", "record", "fence", "reopen"}

Ids(S)      == {s.id : s \in S}
Expired(s)  == s.id <= horizon
Healthy     == st = "ready" /\ ~uncertain
Files(t)    == {<<d, t.blobs[d].gen>> : d \in {e \in Digests : t.blobs[e].gen # 0}}

----------------------------------------------------------------------------
(* The availability machine. *)

\* record(): an unavailable or corrupt result moves the machine unless it is
\* already closed or integrity-blocked.
Record(error) ==
  IF error = "none" \/ st \in {"closed", "corrupt"}
  THEN UNCHANGED <<st, epoch, recEpoch>>
  ELSE /\ epoch' = epoch + 1
       /\ recEpoch' = recEpoch + 1
       /\ st' = IF error = "corrupt" THEN "corrupt" ELSE "recovering"

\* EvictionBarrier::enter
BarrierEnter == st = "ready" /\ st' = "maintaining" /\ epoch' = epoch + 1

\* EvictionBarrier::drop; the compare-exchange does not know whose barrier it opens.
BarrierDrop(held) ==
  IF held
  THEN /\ epoch' = epoch + 1
       /\ st' = IF st = "maintaining" THEN "ready" ELSE st
  ELSE UNCHANGED <<st, epoch>>

----------------------------------------------------------------------------
(* Retention. *)

PerQuery(S, k) == Cardinality({s \in S : s.key = k})
Fits(S) == /\ Cardinality(S) <= MaxSnapshots
           /\ \A k \in Keys : PerQuery(S, k) <= MaxPerQuery

\* trim() takes captures one at a time: expired ones, then the oldest of a query
\* over its limit, then the oldest of all, always a capture that heads no query
\* before one that does. The order among heads (by validation time) is left open.
Trims(S, H, protected) ==
  LET isHead(s) == s.id = H[s.key]
      before(v, w) == /\ isHead(v) => isHead(w)
                      /\ ~isHead(w) => v.id < w.id
  IN {E \in SUBSET {s \in S : s.id # protected} :
        /\ \A s \in S : Expired(s) /\ s.id # protected => s \in E
        /\ Fits(S \ E)
        /\ \A v \in E : Expired(v) \/
             LET back == (S \ E) \union {v}
                 rivals == {w \in S \ E : w.id # protected}
             IN \/ /\ PerQuery(back, v.key) > MaxPerQuery
                   /\ \A w \in rivals : w.key = v.key => before(v, w)
                \/ /\ Cardinality(back) > MaxSnapshots
                   /\ \A w \in rivals : before(v, w)}

\* retire(): complete rows no remaining capture refers to lose their row.
UnreferencedBefore(B, kept) == {d \in Digests : B[d].ready /\ \A s \in db.snaps : s.dig # d}
Unreferenced(B, kept) == {d \in Digests : B[d].ready /\ \A s \in kept : s.dig # d}
RetiredPending(row) == [row EXCEPT !.ready = FALSE]
Retired(row) == NoBlob

\* The head row goes with its capture.
HeadAfter(h, E) == IF h \in Ids(E) THEN 0 ELSE h

\* What a transaction leaves behind that has made S the snapshots, H the heads
\* and B the blob rows, and then evicts E and retires the pending rows P.
AfterImage(S, H, B, E, P, touched) ==
  LET kept == S \ E
      gone == P \union Unreferenced(B, kept)
      changed == touched \union {e.key : e \in E}
  IN [snaps |-> kept,
      head  |-> [k \in Keys |-> HeadAfter(H[k], E)],
      rev   |-> [k \in Keys |->
                   IF k \notin changed THEN db.rev[k]
                   ELSE IF \E s \in kept : s.key = k THEN mut + 1 ELSE 0],
      blobs |-> [d \in Digests |-> IF d \in gone THEN Retired(B[d]) ELSE B[d]],
      queue |-> db.queue \union {<<d, B[d].gen>> : d \in gone}]

----------------------------------------------------------------------------
(* lookup: five statements and a file read, none of them under a lock. *)

Idle == [pc |-> "idle", key |-> CHOOSE k \in Keys : TRUE, pub |-> FALSE,
         dig |-> CHOOSE d \in Digests : TRUE, exp |-> 0, obs |-> 0, lep |-> 0,
         rec |-> 0, val |-> 0, loc |-> <<CHOOSE d \in Digests : TRUE, 0>>,
         start |-> 0, unch |-> FALSE, bar |-> FALSE, evict |-> {}, err |-> "none"]

Goto(p, pc) == op' = [op EXCEPT ![p].pc = pc]
\* An error leaves only the barrier and what it guards for the unwinding.
Fail(p, error) ==
  op' = [op EXCEPT ![p] = [Idle EXCEPT !.pc = "undo", !.err = error,
                                       !.bar = op[p].bar, !.evict = op[p].evict]]

LookupStart(p, k) ==
  /\ op[p].pc = "idle" /\ runs < MaxRuns
  /\ Healthy                                       \* own(): status().error()
  /\ runs' = runs + 1
  /\ op' = [op EXCEPT ![p] = [Idle EXCEPT !.pc = "query", !.key = k,
                                          !.rec = recEpoch, !.lep = epoch]]
  /\ UNCHANGED <<machine, tables, horizon, physical, keeper, faults, stops>>

LookupQuery(p) ==
  /\ op[p].pc = "query"
  /\ LET r == db.rev[op[p].key]
     IN op' = [op EXCEPT ![p].obs = r, ![p].val = 0,
                         ![p].pc = IF r = 0 THEN "found" ELSE "head"]
  /\ UNCHANGED <<machine, tables, horizon, physical, keeper, budget>>

LookupHead(p) ==
  /\ op[p].pc = "head"
  /\ LET h == db.head[op[p].key]
     IN op' = [op EXCEPT ![p].val = h, ![p].pc = IF h = 0 THEN "found" ELSE "snapshot"]
  /\ UNCHANGED <<machine, tables, horizon, physical, keeper, budget>>

\* read_snapshot: the snapshot joined with its blob row.
LookupSnapshot(p) ==
  /\ op[p].pc = "snapshot"
  /\ LET rows == {s \in db.snaps : s.id = op[p].val /\ ~Expired(s)}
     IN \/ /\ rows = {}
           /\ Goto(p, "dangling")
        \/ \E s \in rows :
             IF db.blobs[s.dig].ready
             THEN op' = [op EXCEPT ![p].pc = "blob",
                                   ![p].loc = <<s.dig, db.blobs[s.dig].gen>>]
             ELSE Fail(p, "corrupt")
  /\ UNCHANGED <<machine, tables, horizon, physical, keeper, budget>>

LookupDangling(p) ==
  /\ op[p].pc = "dangling"
  /\ IF op[p].val \in {db.head[k] : k \in Keys} \ Ids(db.snaps)
     THEN Fail(p, "corrupt")
     ELSE op' = [op EXCEPT ![p].val = 0, ![p].pc = "found"]
  /\ UNCHANGED <<machine, tables, horizon, physical, keeper, budget>>

LookupBlobStamps(p) ==
  /\ op[p].pc = "blob"
  /\ op' = [op EXCEPT ![p].lep = epoch,
                      ![p].pc = IF op[p].loc \in files THEN "found" ELSE "missing"]
  /\ UNCHANGED <<machine, tables, horizon, physical, keeper, budget>>

LookupBlob(p) ==
  /\ op[p].pc = "blob"
  /\ Goto(p, IF op[p].loc \in files THEN "found" ELSE "missing")
  /\ UNCHANGED <<machine, tables, horizon, physical, keeper, budget>>

\* Only bytes of a capture that is still retained are missed.
RetainedOnce(id) == TRUE
Retained(id) == \E s \in db.snaps : s.id = id /\ ~Expired(s)

LookupMissing(p) ==
  /\ op[p].pc = "missing"
  /\ IF Retained(op[p].val)
     THEN Fail(p, "corrupt")
     ELSE Goto(p, "dangling")
  /\ UNCHANGED <<machine, tables, horizon, physical, keeper, budget>>

----------------------------------------------------------------------------
(* publish: the lookup again, a blob reservation in a transaction of its    *)
(* own, the file, and the publishing transaction.                           *)

\* The service's commit authorization; that the flight is still wanted is the
\* service's business and appears here as Abandon.
Authorized(p) == recEpoch = op[p].rec /\ st \in {"ready", "maintaining"} /\ ~uncertain

PublishStart(p, d) ==
  /\ op[p].pc = "found" /\ ~op[p].pub
  /\ Healthy /\ Authorized(p)
  /\ op' = [op EXCEPT ![p].pc = "query", ![p].pub = TRUE, ![p].dig = d,
                      ![p].exp = op[p].obs, ![p].start = epoch, ![p].lep = epoch]
  /\ UNCHANGED <<machine, tables, horizon, physical, keeper, budget>>

\* The repeated lookup decides between Conflict and a candidate.
PublishCompare(p) ==
  /\ op[p].pc = "found" /\ op[p].pub
  /\ op' = IF op[p].obs # op[p].exp
           THEN [op EXCEPT ![p] = Idle]
           ELSE [op EXCEPT ![p].pc = "reserve", ![p].obs = 0, ![p].lep = 0,
                           ![p].unch = op[p].val # 0 /\ op[p].loc[1] = op[p].dig]
  /\ UNCHANGED <<machine, tables, horizon, physical, keeper, budget>>

\* The row of a digest that has one, or a new incomplete one.
Reservation(d) == IF db.blobs[d].gen # 0 THEN db.blobs[d]
                  ELSE [gen |-> nextGen, ready |-> FALSE]
Reserve(d) == /\ db' = [db EXCEPT !.blobs[d] = Reservation(d)]
              /\ nextGen' = IF db.blobs[d].gen # 0 THEN nextGen ELSE nextGen + 1

\* reserve_blob, a transaction of its own.
ReserveBlob(p) ==
  LET row == Reservation(op[p].dig) IN
  /\ op[p].pc = "reserve" /\ lock = "free"
  /\ Reserve(op[p].dig)
  /\ op' = [op EXCEPT ![p].loc = <<op[p].dig, row.gen>>,
                      ![p].pc = IF row.ready THEN "read" ELSE "put"]
  /\ UNCHANGED <<machine, lock, tx, mut, horizon, physical, keeper, budget>>

ReadReady(p) ==
  /\ op[p].pc = "read"
  /\ Goto(p, IF op[p].loc \notin files THEN "live"
             ELSE IF Strict THEN "confirm" ELSE "begin")
  /\ UNCHANGED <<machine, tables, horizon, physical, keeper, budget>>

\* Bytes are gone: a row that still names this generation makes that corruption.
CheckLive(p) ==
  /\ op[p].pc = "live"
  /\ IF op[p].loc \in Files(db) THEN Fail(p, "corrupt") ELSE Fail(p, "none")
  /\ UNCHANGED <<machine, tables, horizon, physical, keeper, budget>>

\* confirm_durable of a file that is not there is StorageCorrupt at once.
ConfirmDurable(p) ==
  /\ op[p].pc = "confirm"
  /\ IF op[p].loc \in files THEN Goto(p, "begin") ELSE Fail(p, "corrupt")
  /\ UNCHANGED <<machine, tables, horizon, physical, keeper, budget>>

PutIfAbsent(p) ==
  /\ op[p].pc = "put"
  /\ files' = files \union {op[p].loc}
  /\ Goto(p, "begin")
  /\ UNCHANGED <<machine, tables, horizon, late, keeper, budget>>

\* The query, the reserved generation and the epoch are still the observed ones.
UnmovedBlob(p) == op[p].loc \in Files(db) /\ epoch = op[p].start /\ Healthy
Unmoved(p) == /\ db.rev[op[p].key] = op[p].exp
              /\ op[p].loc \in Files(db)
              /\ epoch = op[p].start /\ Healthy

\* The row lock, then the checks that nothing has moved since the reservation.
PublishBegin(p) ==
  /\ op[p].pc = "begin" /\ lock = "free"
  /\ IF Unmoved(p)
     THEN lock' = p /\ Goto(p, "trim")
     ELSE UNCHANGED lock /\ Fail(p, "none")
  /\ UNCHANGED <<machine, db, tx, mut, nextGen, horizon, physical, keeper, budget>>

\* Install the snapshot, the head and the revision, then trim; the first eviction
\* needs the barrier, which a machine that is not ready refuses as Busy.
PublishTrim(p) ==
  /\ op[p].pc = "trim"
  /\ LET o == op[p]
         id == IF o.unch THEN o.val ELSE mut + 1
         S == IF o.unch THEN db.snaps
              ELSE db.snaps \union {[id |-> id, key |-> o.key, dig |-> o.dig]}
         H == [db.head EXCEPT ![o.key] = id]
         B == IF o.unch THEN db.blobs ELSE [db.blobs EXCEPT ![o.dig].ready = TRUE]
     IN \E E \in Trims(S, H, id) :
          IF E = {} \/ st = "ready"
          THEN /\ tx' = AfterImage(S, H, B, E, {}, {o.key})
               /\ IF E = {} THEN UNCHANGED <<st, epoch>> ELSE BarrierEnter
               /\ op' = [op EXCEPT ![p].pc = "authorize", ![p].val = id,
                                   ![p].bar = E # {}, ![p].evict = Ids(E)]
          ELSE Fail(p, "none") /\ UNCHANGED <<tx, st, epoch>>
  /\ UNCHANGED <<recEpoch, uncertain, db, lock, mut, nextGen, horizon, physical,
                 keeper, budget>>

PublishAuthorize(p) ==
  /\ op[p].pc = "authorize"
  /\ IF Authorized(p) THEN Goto(p, "gate") ELSE Fail(p, "none")
  /\ UNCHANGED <<machine, tables, horizon, physical, keeper, budget>>

\* The adapter's own look at its state, a separate read after the callback.
PublishGate(p) ==
  /\ op[p].pc = "gate"
  /\ IF st \in {"recovering", "corrupt", "closed"}
     THEN Fail(p, "unavailable") ELSE Goto(p, "commit")
  /\ UNCHANGED <<machine, tables, horizon, physical, keeper, budget>>

\* The server applies COMMIT and the row lock falls.
PublishCommit(p) ==
  /\ op[p].pc = "commit"
  /\ db' = tx /\ tx' = NoTables /\ mut' = mut + 1 /\ lock' = "free"
  /\ op' = [op EXCEPT ![p] = [Idle EXCEPT !.pc = "ack", !.val = op[p].val,
                                           !.bar = op[p].bar, !.evict = op[p].evict]]
  /\ UNCHANGED <<machine, nextGen, horizon, physical, keeper, budget>>

PublishAck(p) ==
  /\ op[p].pc = "ack"
  /\ Goto(p, "drop")
  /\ UNCHANGED <<machine, tables, horizon, physical, keeper, budget>>

PublishDrop(p) ==
  /\ op[p].pc = "drop"
  /\ BarrierDrop(op[p].bar)
  /\ op' = [op EXCEPT ![p].pc = "accept", ![p].bar = FALSE, ![p].evict = {}]
  /\ UNCHANGED <<recEpoch, uncertain, tables, horizon, physical, keeper, budget>>

\* Accepted(StoredResult{payload, epoch: self.epoch()})
PublishAccept(p) ==
  /\ op[p].pc = "accept"
  /\ op' = [op EXCEPT ![p].pc = "done", ![p].lep = epoch]
  /\ UNCHANGED <<machine, tables, horizon, physical, keeper, budget>>

\* A write that has reached the blocking pool outlives whoever waited for it.
LateAfter(p) ==
  IF op[p].pc = "put" THEN late \union {[io |-> "put", loc |-> op[p].loc]} ELSE late

\* The service has used the result, or no longer wants the operation: a
\* cancellation, a refused authorization, a capacity limit. Cancelling the wait
\* for a file operation does not stop the file operation.
Abandon(p) ==
  /\ \/ /\ op[p].pc \in {"found", "done"}
        /\ op' = [op EXCEPT ![p] = Idle]
     \/ /\ op[p].pc \in {"head", "reserve", "put", "begin", "trim", "authorize"}
        /\ Fail(p, "none")
  /\ late' = LateAfter(p)
  /\ UNCHANGED <<machine, tables, horizon, files, keeper, budget>>

\* Leaving publish_inner with an error drops the barrier before the transaction;
\* own() records the error afterwards.
Undo(p) ==
  /\ op[p].pc = "undo"
  /\ BarrierDrop(op[p].bar)
  /\ IF lock = p THEN lock' = "free" /\ tx' = NoTables ELSE UNCHANGED <<lock, tx>>
  /\ op' = [op EXCEPT ![p].pc = "record", ![p].bar = FALSE]
  /\ UNCHANGED <<recEpoch, uncertain, db, mut, nextGen, horizon, physical,
                 keeper, budget>>

RecordResult(p) ==
  /\ op[p].pc = "record"
  /\ Record(op[p].err)
  /\ op' = [op EXCEPT ![p] = Idle]
  /\ UNCHANGED <<uncertain, tables, horizon, physical, keeper, budget>>

----------------------------------------------------------------------------
(* Failures of the database, the filesystem and their answers. *)

InStatement == {"query", "head", "snapshot", "dangling", "blob", "missing",
                "reserve", "read", "live", "confirm", "put", "begin", "trim"}

\* A statement or file operation fails or the 20 s deadline of own() expires.
Fault(p) ==
  /\ faults < MaxFaults /\ faults' = faults + 1
  /\ op[p].pc \in InStatement
  /\ late' = LateAfter(p)
  /\ Fail(p, "unavailable")
  /\ UNCHANGED <<machine, tables, horizon, files, keeper, runs, stops>>

\* The answer to COMMIT is lost: the server still holds the transaction and will
\* decide on its own. In strict mode an applied commit can also miss its fence.
CommitLost(p) ==
  /\ faults < MaxFaults /\ faults' = faults + 1
  /\ \/ op[p].pc = "commit" /\ lock' = "ghost"
     \/ op[p].pc = "ack" /\ UNCHANGED lock
  /\ uncertain' = (uncertain \/ Strict)
  /\ Fail(p, "unavailable")
  /\ UNCHANGED <<st, epoch, recEpoch, db, tx, mut, nextGen, horizon, physical,
                 keeper, runs, stops>>

\* The answer to the reservation's COMMIT is lost. Nobody can tell when the server
\* settles that transaction, since only holders of the row lock would see it.
ReserveCommitLost(p) ==
  /\ faults < MaxFaults /\ faults' = faults + 1
  /\ op[p].pc = "reserve" /\ lock = "free"
  /\ Reserve(op[p].dig) \/ UNCHANGED <<db, nextGen>>
  /\ uncertain' = (uncertain \/ Strict)
  /\ Fail(p, "unavailable")
  /\ UNCHANGED <<st, epoch, recEpoch, lock, tx, mut, horizon, physical, keeper, runs, stops>>

\* The server settles the abandoned transaction one way or the other.
GhostSettles ==
  /\ lock = "ghost" /\ lock' = "free" /\ tx' = NoTables
  /\ \/ db' = tx /\ mut' = mut + 1
     \/ UNCHANGED <<db, mut>>
  /\ UNCHANGED <<machine, nextGen, horizon, physical, op, keeper, budget>>

\* A filesystem job outlives its caller and completes, or finds its token
\* cancelled first.
LateIO ==
  /\ \E j \in late :
       /\ late' = late \ {j}
       /\ files' \in {files, IF j.io = "put" THEN files \union {j.loc}
                             ELSE files \ {j.loc}}
  /\ UNCHANGED <<machine, tables, horizon, op, keeper, budget>>

\* Evidence disappears from the blob root behind the store's back.
LoseFile ==
  /\ Damage /\ faults < MaxFaults /\ faults' = faults + 1
  /\ \E x \in files : files' = files \ {x}
  /\ UNCHANGED <<machine, tables, horizon, late, op, keeper, runs, stops>>

\* Time passes and the oldest captures leave the retention period.
Age ==
  /\ horizon < MaxAge /\ horizon' = horizon + 1
  /\ UNCHANGED <<machine, tables, physical, op, keeper, budget>>

----------------------------------------------------------------------------
(* The keeper: maintain() and health() under the maintenance mutex. *)

IdleKeeper == [pc |-> "idle", again |-> FALSE, todo |-> {},
               loc |-> <<CHOOSE d \in Digests : TRUE, 0>>,
               bar |-> FALSE, evict |-> {}, gen |-> 0, err |-> "none"]

KGoto(pc) == keeper' = [keeper EXCEPT !.pc = pc]
KFail(error) ==
  keeper' = [IdleKeeper EXCEPT !.pc = "undo", !.err = error,
                               !.bar = keeper.bar, !.evict = keeper.evict]

MaintainStart ==
  /\ keeper.pc = "idle" /\ Healthy
  /\ keeper' = [IdleKeeper EXCEPT !.pc = "clean", !.todo = db.queue]
  /\ UNCHANGED <<machine, tables, horizon, physical, op, budget>>

\* cleanup_queue, one row of the page it has read: a queued key that is live
\* again would be corruption.
CleanNext ==
  /\ keeper.pc = "clean"
  /\ \/ /\ keeper.todo = {}
        /\ keeper' = IF keeper.again
                     THEN [keeper EXCEPT !.pc = "scan", !.todo = files]
                     ELSE [keeper EXCEPT !.pc = "trim"]
     \/ \E x \in keeper.todo :
          IF x \in Files(db)
          THEN KFail("corrupt")
          ELSE keeper' = [keeper EXCEPT !.pc = "unlink", !.loc = x]
  /\ UNCHANGED <<machine, tables, horizon, physical, op, budget>>

Unlink ==
  /\ keeper.pc = "unlink"
  /\ files' = files \ {keeper.loc}
  /\ KGoto("dequeue")
  /\ UNCHANGED <<machine, tables, horizon, late, op, budget>>

Dequeue ==
  /\ keeper.pc = "dequeue" /\ lock = "free"
  /\ db' = [db EXCEPT !.queue = @ \ {keeper.loc}]
  /\ keeper' = [keeper EXCEPT !.pc = "clean", !.todo = @ \ {keeper.loc},
                              !.loc = IdleKeeper.loc]
  /\ UNCHANGED <<machine, lock, tx, mut, nextGen, horizon, physical, op, budget>>

\* The retention transaction: trim without a protected capture, and retire
\* reservations that were never completed (any of them may be a minute old).
MaintainTrim ==
  /\ keeper.pc = "trim" /\ lock = "free"
  /\ \E E \in Trims(db.snaps, db.head, 0),
        P \in SUBSET {d \in Digests : db.blobs[d].gen # 0 /\ ~db.blobs[d].ready} :
       IF E = {} \/ st = "ready"
       THEN /\ tx' = AfterImage(db.snaps, db.head, db.blobs, E, P, {})
            /\ lock' = "keeper"
            /\ IF E = {} THEN UNCHANGED <<st, epoch>> ELSE BarrierEnter
            /\ keeper' = [keeper EXCEPT !.pc = "commit", !.bar = E # {}, !.evict = Ids(E)]
       ELSE KFail("none") /\ UNCHANGED <<tx, lock, st, epoch>>
  /\ UNCHANGED <<recEpoch, uncertain, db, mut, nextGen, horizon, physical, op, budget>>

MaintainCommit ==
  /\ keeper.pc = "commit"
  /\ db' = tx /\ tx' = NoTables /\ lock' = "free"
  /\ mut' = IF keeper.evict = {} THEN mut ELSE mut + 1
  /\ KGoto("ack")
  /\ UNCHANGED <<machine, nextGen, horizon, physical, op, budget>>

MaintainAck ==
  /\ keeper.pc = "ack"
  /\ KGoto("drop")
  /\ UNCHANGED <<machine, tables, horizon, physical, op, budget>>

MaintainDrop ==
  /\ keeper.pc = "drop"
  /\ BarrierDrop(keeper.bar)
  /\ keeper' = [keeper EXCEPT !.pc = "clean", !.again = TRUE, !.todo = db.queue,
                              !.bar = FALSE, !.evict = {}]
  /\ UNCHANGED <<recEpoch, uncertain, tables, horizon, physical, op, budget>>

OrphanNever(x) == FALSE
Orphan(x) == x \notin Files(db)

\* enumerate_orphans: each file of the page in a transaction of its own.
ScanNext ==
  /\ keeper.pc = "scan"
  /\ \/ /\ keeper.todo = {}
        /\ keeper' = IdleKeeper /\ UNCHANGED db
     \/ /\ lock = "free"
        /\ \E x \in keeper.todo :
             /\ keeper' = [keeper EXCEPT !.todo = @ \ {x}]
             /\ db' = IF Orphan(x) THEN [db EXCEPT !.queue = @ \union {x}] ELSE db
  /\ UNCHANGED <<machine, lock, tx, mut, nextGen, horizon, physical, op, budget>>

\* The same loss in the short transactions of cleanup_queue and enumerate_orphans.
QueueCommitLost ==
  /\ faults < MaxFaults /\ faults' = faults + 1
  /\ lock = "free"
  /\ \/ /\ keeper.pc = "dequeue"
        /\ db' \in {db, [db EXCEPT !.queue = @ \ {keeper.loc}]}
     \/ /\ keeper.pc = "scan"
        /\ \E x \in keeper.todo :
             db' \in {db, IF Orphan(x) THEN [db EXCEPT !.queue = @ \union {x}] ELSE db}
  /\ uncertain' = (uncertain \/ Strict)
  /\ KFail("unavailable")
  /\ UNCHANGED <<st, epoch, recEpoch, lock, tx, mut, nextGen, horizon, physical, op,
                 runs, stops>>

\* recover(): remember the failure generation, fence every earlier commit by
\* taking the row lock, and reopen if no newer failure was recorded meanwhile.
RecoverStart ==
  /\ keeper.pc = "idle" /\ st = "recovering" /\ ~uncertain
  /\ keeper' = [IdleKeeper EXCEPT !.pc = "fence", !.gen = recEpoch]
  /\ UNCHANGED <<machine, tables, horizon, physical, op, budget>>

RecoverFenceUnlocked ==
  /\ keeper.pc = "fence"
  /\ KGoto("reopen")
  /\ UNCHANGED <<machine, tables, horizon, physical, op, budget>>

RecoverFence ==
  /\ keeper.pc = "fence" /\ lock = "free"
  /\ KGoto("reopen")
  /\ UNCHANGED <<machine, tables, horizon, physical, op, budget>>

\* No newer failure was recorded since the recovery began.
NoNewerFailure == st = "recovering" /\ recEpoch = keeper.gen

RecoverReopenProbe ==
  /\ keeper.pc = "reopen"
  /\ keeper' = IdleKeeper
  /\ UNCHANGED <<machine, tables, horizon, physical, op, budget>>

RecoverReopen ==
  /\ keeper.pc = "reopen"
  /\ IF NoNewerFailure
     THEN /\ st' = "ready" /\ epoch' = epoch + 1
          /\ keeper' = IdleKeeper
     ELSE KFail("unavailable") /\ UNCHANGED <<st, epoch>>
  /\ UNCHANGED <<recEpoch, uncertain, tables, horizon, physical, op, budget>>

\* A statement, a file operation or a health probe of the keeper fails, or its
\* 5 s deadline expires; "idle" is a probe of a ready store.
KeeperFault ==
  /\ faults < MaxFaults /\ faults' = faults + 1
  /\ \/ keeper.pc = "idle" /\ st = "ready"
     \/ keeper.pc \in {"clean", "unlink", "dequeue", "trim", "scan", "fence", "reopen"}
  /\ late' = IF keeper.pc = "unlink"
             THEN late \union {[io |-> "unlink", loc |-> keeper.loc]} ELSE late
  /\ KFail("unavailable")
  /\ UNCHANGED <<machine, tables, horizon, files, op, runs, stops>>

KeeperCommitLost ==
  /\ faults < MaxFaults /\ faults' = faults + 1
  /\ \/ keeper.pc = "commit" /\ lock' = "ghost"
     \/ keeper.pc = "ack" /\ UNCHANGED lock
  /\ uncertain' = (uncertain \/ Strict)
  /\ KFail("unavailable")
  /\ UNCHANGED <<st, epoch, recEpoch, db, tx, mut, nextGen, horizon, physical, op,
                 runs, stops>>

KeeperUndo ==
  /\ keeper.pc = "undo"
  /\ BarrierDrop(keeper.bar)
  /\ keeper' = [keeper EXCEPT !.pc = "record", !.bar = FALSE]
  /\ UNCHANGED <<recEpoch, uncertain, tables, horizon, physical, op, budget>>

KeeperRecord ==
  /\ keeper.pc = "record"
  /\ Record(keeper.err)
  /\ keeper' = IdleKeeper
  /\ UNCHANGED <<uncertain, tables, horizon, physical, op, budget>>

----------------------------------------------------------------------------
(* The process. *)

Close ==
  /\ stops < MaxStops /\ stops' = stops + 1
  /\ st # "closed" /\ st' = "closed" /\ epoch' = epoch + 1
  /\ UNCHANGED <<recEpoch, uncertain, tables, horizon, physical, op, keeper, runs, faults>>

\* The process dies at any point and another opens the same database and root.
\* A COMMIT it had sent is the server's to settle, and opening waits for that
\* (check_accounting takes the row lock); its other work rolls back. Opening reads
\* the oldest capture and refuses to serve when its evidence is missing.
Restart ==
  LET sent == \/ lock = "ghost"
              \/ lock = "keeper" /\ keeper.pc = "commit"
              \/ \E p \in Callers : lock = p /\ op[p].pc = "commit"
  IN
  /\ stops < MaxStops /\ stops' = stops + 1
  /\ st' = "ready" /\ epoch' = 0 /\ recEpoch' = 0 /\ uncertain' = FALSE
  /\ \/ sent /\ db' = tx /\ mut' = mut + 1
     \/ UNCHANGED <<db, mut>>
  /\ \A s \in db'.snaps : \/ Expired(s) \/ \E r \in db'.snaps : r.id < s.id
                           \/ <<s.dig, db'.blobs[s.dig].gen>> \in files
  /\ lock' = "free" /\ tx' = NoTables
  /\ late' = {}
  /\ op' = [p \in Callers |-> Idle]
  /\ keeper' = IdleKeeper
  /\ UNCHANGED <<nextGen, horizon, files, runs, faults>>

Init ==
  /\ st = "ready" /\ epoch = 0 /\ recEpoch = 0 /\ uncertain = FALSE
  /\ db = NoTables /\ lock = "free" /\ tx = NoTables
  /\ mut = 0 /\ nextGen = 1 /\ horizon = 0
  /\ files = {} /\ late = {}
  /\ op = [p \in Callers |-> Idle]
  /\ keeper = IdleKeeper
  /\ runs = 0 /\ faults = 0 /\ stops = 0

CallerStep(p) ==
  \/ LookupQuery(p) \/ LookupHead(p) \/ LookupSnapshot(p) \/ LookupDangling(p)
  \/ LookupBlob(p) \/ LookupMissing(p)
  \/ \E d \in Digests : PublishStart(p, d)
  \/ PublishCompare(p) \/ ReserveBlob(p) \/ ReadReady(p) \/ CheckLive(p)
  \/ ConfirmDurable(p) \/ PutIfAbsent(p) \/ PublishBegin(p) \/ PublishTrim(p)
  \/ PublishAuthorize(p) \/ PublishGate(p) \/ PublishCommit(p) \/ PublishAck(p) \/ PublishDrop(p)
  \/ PublishAccept(p) \/ Undo(p) \/ RecordResult(p)

MaintainStep ==
  \/ MaintainStart \/ CleanNext \/ Unlink \/ Dequeue \/ MaintainTrim
  \/ MaintainCommit \/ MaintainAck \/ MaintainDrop \/ ScanNext

RecoverStep ==
  \/ RecoverStart \/ RecoverFence \/ RecoverReopen \/ KeeperUndo \/ KeeperRecord

Next ==
  \/ \E p \in Callers : \/ \E k \in Keys : LookupStart(p, k)
                        \/ CallerStep(p) \/ Abandon(p) \/ Fault(p) \/ CommitLost(p)
                        \/ ReserveCommitLost(p)
  \/ MaintainStep \/ RecoverStep \/ KeeperFault \/ KeeperCommitLost \/ QueueCommitLost
  \/ GhostSettles \/ LateIO \/ LoseFile \/ Age \/ Close \/ Restart

Spec == Init /\ [][Next]_vars

----------------------------------------------------------------------------
(* Properties. *)

Errors  == {"none", "unavailable", "corrupt"}
Operations ==
  [pc : CallerPCs, key : Keys, pub : BOOLEAN, dig : Digests, exp : Nat, obs : Nat,
   lep : Nat, rec : Nat, val : Nat, loc : Locations, start : Nat, unch : BOOLEAN,
   bar : BOOLEAN, evict : SUBSET Nat, err : Errors]
Keepers ==
  [pc : KeeperPCs, again : BOOLEAN, todo : SUBSET Locations, loc : Locations,
   bar : BOOLEAN, evict : SUBSET Nat, gen : Nat, err : Errors]

\* Type invariant.
MachineOK == st \in States /\ epoch \in Nat /\ recEpoch \in Nat /\ uncertain \in BOOLEAN
TablesOK  == /\ db \in Tables /\ tx \in Tables
             /\ lock \in {"free", "ghost", "keeper"} \union Callers
             /\ mut \in Nat /\ nextGen \in Nat \ {0} /\ horizon \in Nat
FilesOK   == /\ files \in SUBSET Locations
             /\ late \in SUBSET [io : {"put", "unlink"}, loc : Locations]
BoundsOK  == runs \in Nat /\ faults \in Nat /\ stops \in Nat
TypeOK    == /\ MachineOK /\ TablesOK /\ FilesOK /\ BoundsOK
             /\ op \in [Callers -> Operations] /\ keeper \in Keepers

\* The evidence of every committed snapshot is on disk: its blob row is complete
\* and the file of exactly that generation exists, whatever publications,
\* evictions, unlinks, late filesystem jobs, lost commits and restarts interleave.
EvidencePresent ==
  \A s \in db.snaps : /\ db.blobs[s.dig].ready
                      /\ <<s.dig, db.blobs[s.dig].gen>> \in files

\* A queued deletion never names a live blob generation, so cleanup_queue can
\* neither unlink evidence nor mistake a race for corruption.
DeletionQueueDead == db.queue \intersect Files(db) = {}

\* Between its checks and its COMMIT a publication is alone: nobody has moved
\* the query past the revision observed before the upstream request.
SerializedPublication ==
  \A p \in Callers : op[p].pc \in {"trim", "authorize", "gate", "commit"} =>
    lock = p /\ db.rev[op[p].key] = op[p].exp

\* Before anything has failed or been damaged, no interleaving of lookups,
\* publications, evictions and unlinks is taken for corruption, which would block
\* the store until an operator intervenes.
NoFalseCorruption == faults = 0 => st # "corrupt"

\* Captures whose eviction has been committed, or may yet be, by an operation
\* that has neither dropped its barrier nor recorded its failure.
Unsettled ==
  UNION ({op[p].evict : p \in Callers} \union {keeper.evict})

\* A lookup result that still carries the current epoch of a healthy store names
\* a capture that is retained or whose eviction is still in progress: its epoch
\* was read before its rows, and every finished eviction has moved the epoch.
LookupEpochFence ==
  \A p \in Callers :
    op[p].pc = "found" /\ op[p].val # 0 /\ op[p].lep = epoch /\ Healthy =>
      op[p].val \in Ids(db.snaps) \union Unsettled

\* A reopened store has outwaited every lost COMMIT: one that the server has not
\* settled belongs to an operation that is still about to record its failure.
RecoveryFencesCommits ==
  Healthy /\ lock = "ghost" =>
    \/ \E p \in Callers : op[p].pc \in {"undo", "record"} /\ op[p].err = "unavailable"
    \/ keeper.pc \in {"undo", "record"} /\ keeper.err = "unavailable"

\* The service's health task calls health() every 5 s and maintain() every 60 s,
\* PostgreSQL settles every transaction, and owned operations run to their end.
Fairness ==
  /\ \A p \in Callers : WF_vars(CallerStep(p))
  /\ WF_vars(MaintainStep) /\ WF_vars(RecoverStep)
  /\ WF_vars(GhostSettles) /\ WF_vars(LateIO)

FairSpec == Spec /\ Fairness

\* A store that lost a dependency serves again once the dependency is back, unless
\* evidence is damaged, a commit under the fence is in doubt or it is closed.
Reopens == st = "recovering" ~> st \in {"ready", "corrupt", "closed"} \/ uncertain

\* A file no blob row names is eventually unlinked, also when it appeared after
\* its reservation had been retired and its deletion carried out.
OrphansReclaimed ==
  \A x \in Digests \X (1..MaxRuns) :
    x \in files /\ x \notin Files(db)
      ~> x \notin files \/ st \in {"corrupt", "closed"} \/ uncertain
=============================================================================
