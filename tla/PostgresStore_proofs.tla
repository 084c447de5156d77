------------------------ MODULE PostgresStore_proofs ------------------------
(***************************************************************************)
(* What the durable cache guarantees, for every value of its constants:    *)
(* type correctness, the row lock, the evidence on disk, the epoch fence   *)
(* of readers and of recovery, and that no interleaving is mistaken for    *)
(* corruption.  Each part builds on the invariants of the parts before it. *)
(***************************************************************************)
EXTENDS PostgresStore, TLAPS

(***************************************************************************)
(* Type correctness: one lemma per group of steps.                         *)
(***************************************************************************)

\* The tables of a freshly migrated database, or of no transaction, are tables.
LEMMA NoTablesType == NoTables \in Tables
  BY DEF NoTables, Tables, NoBlob

\* An idle caller and an idle keeper are well formed.
LEMMA IdleType == Idle \in Operations /\ IdleKeeper \in Keepers
<1>1. (CHOOSE k \in Keys : TRUE) \in Keys
  BY StoreAssumption
<1>2. (CHOOSE d \in Digests : TRUE) \in Digests
  BY StoreAssumption
<1> QED
  BY <1>1, <1>2 DEF Idle, IdleKeeper, Operations, Keepers, CallerPCs, KeeperPCs, Locations, Errors

\* Leaving an operation with an error, before own() records it.
LEMMA FailType ==
  ASSUME TypeOK, NEW p \in Callers, NEW e \in Errors, Fail(p, e)
  PROVE  op' \in [Callers -> Operations]
  BY IdleType DEF TypeOK, Fail, Operations, CallerPCs, Errors

\* An operation that only moves on stays well formed.
LEMMA GotoType ==
  ASSUME TypeOK, NEW p \in Callers, NEW l \in CallerPCs, Goto(p, l)
  PROVE  op' \in [Callers -> Operations]
  BY DEF TypeOK, Goto, Operations, CallerPCs, Errors

\* An operation that moves on with the blob location it has read or reserved.
LEMMA LocateType ==
  ASSUME TypeOK, NEW p \in Callers, NEW c \in CallerPCs, NEW l \in Locations,
         op' = [op EXCEPT ![p].pc = c, ![p].loc = l]
  PROVE  op' \in [Callers -> Operations]
<1>1. [op[p] EXCEPT !.pc = c, !.loc = l] \in Operations
  BY DEF TypeOK, Operations
<1> QED
  BY <1>1 DEF TypeOK

\* Leaving maintain() or recover() with an error.
LEMMA KFailType ==
  ASSUME TypeOK, NEW e \in Errors, KFail(e)
  PROVE  keeper' \in Keepers
  BY IdleType DEF TypeOK, KFail, Keepers, KeeperPCs, Errors

\* What trim() and retire() leave in the transaction are tables.
LEMMA AfterImageType ==
  ASSUME TypeOK, NEW S \in SUBSET Snapshots, NEW H \in [Keys -> Nat],
         NEW B \in [Digests -> [gen : Nat, ready : BOOLEAN]],
         NEW E \in SUBSET S, NEW P \in SUBSET Digests, NEW T
  PROVE  AfterImage(S, H, B, E, P, T) \in Tables
<1> DEFINE kept == S \ E
           gone == P \union Unreferenced(B, kept)
           changed == T \union {e.key : e \in E}
           R == AfterImage(S, H, B, E, P, T)
<1>1. R.snaps \in SUBSET Snapshots
  BY DEF AfterImage
<1>2. [k \in Keys |-> HeadAfter(H[k], E)] \in [Keys -> Nat]
  BY DEF HeadAfter
<1>3. [k \in Keys |-> IF k \notin changed THEN db.rev[k]
                      ELSE IF \E s \in kept : s.key = k THEN mut + 1 ELSE 0] \in [Keys -> Nat]
  BY DEF TypeOK, TablesOK, Tables
<1>4. [d \in Digests |-> IF d \in gone THEN Retired(B[d]) ELSE B[d]]
        \in [Digests -> [gen : Nat, ready : BOOLEAN]]
  BY DEF Retired, NoBlob
<1>5. db.queue \union {<<d, B[d].gen>> : d \in gone} \in SUBSET Locations
  BY DEF TypeOK, TablesOK, Tables, Locations, Unreferenced
<1> QED
  BY <1>1, <1>2, <1>3, <1>4, <1>5 DEF AfterImage, Tables

\* record() keeps the availability machine well formed.
LEMMA RecordType ==
  ASSUME TypeOK, NEW e \in Errors, Record(e), UNCHANGED uncertain
  PROVE  MachineOK'
  BY DEF TypeOK, MachineOK, Record, States, Errors

\* So do entering and dropping the eviction barrier.
LEMMA BarrierType ==
  ASSUME TypeOK, UNCHANGED <<recEpoch, uncertain>>
  PROVE  /\ BarrierEnter => MachineOK'
         /\ \A h : BarrierDrop(h) => MachineOK'
  BY DEF TypeOK, MachineOK, BarrierEnter, BarrierDrop, States

\* The statements of lookup_inner and read_snapshot.
LEMMA LookupTypes ==
  ASSUME TypeOK, NEW p \in Callers,
         \/ LookupQuery(p) \/ LookupHead(p) \/ LookupSnapshot(p) \/ LookupDangling(p)
         \/ LookupBlob(p) \/ LookupMissing(p)
  PROVE  TypeOK'
<1>0. /\ {"dangling", "found", "missing"} \subseteq CallerPCs /\ "corrupt" \in Errors
      /\ op[p] \in Operations
  BY DEF CallerPCs, Errors, TypeOK
<1>1. op' \in [Callers -> Operations]
  <2>1. CASE LookupQuery(p)
    BY <2>1, SMTT(30) DEF LookupQuery, TypeOK, TablesOK, Tables, Operations, CallerPCs
  <2>2. CASE LookupHead(p)
    BY <2>2 DEF LookupHead, TypeOK, TablesOK, Tables, Operations, CallerPCs
  <2>3. CASE LookupSnapshot(p)
    <3>1. CASE Goto(p, "dangling")
      BY <3>1, <1>0, GotoType
    <3>2. CASE Fail(p, "corrupt")
      BY <3>2, <1>0, FailType
    <3>3. ASSUME NEW s \in db.snaps,
                 op' = [op EXCEPT ![p].pc = "blob", ![p].loc = <<s.dig, db.blobs[s.dig].gen>>]
          PROVE  op' \in [Callers -> Operations]
      <4>1. <<s.dig, db.blobs[s.dig].gen>> \in Locations
        BY DEF TypeOK, TablesOK, Tables, Snapshots, Locations
      <4>2. "blob" \in CallerPCs
        BY DEF CallerPCs
      <4> QED
        BY <3>3, <4>1, <4>2, LocateType
    <3> QED
      BY <2>3, <3>1, <3>2, <3>3 DEF LookupSnapshot
  <2>4. CASE LookupDangling(p)
    BY <2>4, <1>0, FailType DEF LookupDangling, TypeOK, Operations, CallerPCs
  <2>5. CASE LookupBlob(p)
    BY <2>5, <1>0, GotoType DEF LookupBlob
  <2>6. CASE LookupMissing(p)
    BY <2>6, <1>0, GotoType, FailType DEF LookupMissing
  <2> QED
    BY <2>1, <2>2, <2>3, <2>4, <2>5, <2>6
<1>2. UNCHANGED <<machine, tables, horizon, physical, keeper, budget>>
  BY DEF LookupQuery, LookupHead, LookupSnapshot, LookupDangling, LookupBlob, LookupMissing
<1> QED
  BY <1>1, <1>2 DEF TypeOK, MachineOK, TablesOK, FilesOK, BoundsOK, machine, tables, physical, budget

\* The steps of publish_inner that change neither tables nor files.
LEMMA PublishTypes ==
  ASSUME TypeOK, NEW p \in Callers,
         \/ \E d \in Digests : PublishStart(p, d)
         \/ PublishCompare(p) \/ ReadReady(p) \/ CheckLive(p) \/ ConfirmDurable(p)
         \/ PublishAuthorize(p) \/ PublishGate(p) \/ PublishAck(p) \/ PublishAccept(p)
  PROVE  TypeOK'
<1>0. /\ {"live", "confirm", "begin", "gate", "commit", "drop"} \subseteq CallerPCs
      /\ {"none", "unavailable", "corrupt"} \subseteq Errors
      /\ op[p] \in Operations /\ epoch \in Nat
  BY DEF CallerPCs, Errors, TypeOK, MachineOK
<1>1. op' \in [Callers -> Operations]
  <2>1. ASSUME NEW d \in Digests, PublishStart(p, d) PROVE op' \in [Callers -> Operations]
    <3>1. [op[p] EXCEPT !.pc = "query", !.pub = TRUE, !.dig = d, !.exp = op[p].obs,
                        !.start = epoch, !.lep = epoch] \in Operations
      BY <1>0 DEF Operations, CallerPCs
    <3> QED
      BY <2>1, <3>1 DEF TypeOK, PublishStart
  <2>2. CASE PublishCompare(p)
    <3>1. \A u \in BOOLEAN : [op[p] EXCEPT !.pc = "reserve", !.obs = 0, !.lep = 0, !.unch = u]
                               \in Operations
      BY <1>0 DEF Operations, CallerPCs
    <3>2. CASE op' = [op EXCEPT ![p] = Idle]
      BY <3>2, IdleType DEF TypeOK
    <3>3. CASE op' = [op EXCEPT ![p].pc = "reserve", ![p].obs = 0, ![p].lep = 0,
                                ![p].unch = op[p].val # 0 /\ op[p].loc[1] = op[p].dig]
      BY <3>1, <3>3 DEF TypeOK
    <3> QED
      BY <2>2, <3>2, <3>3 DEF PublishCompare
  <2>3. CASE ReadReady(p)
    BY <2>3, <1>0, GotoType DEF ReadReady
  <2>4. CASE CheckLive(p)
    BY <2>4, <1>0, FailType DEF CheckLive
  <2>5. CASE ConfirmDurable(p)
    BY <2>5, <1>0, GotoType, FailType DEF ConfirmDurable
  <2>6. CASE PublishAuthorize(p)
    BY <2>6, <1>0, GotoType, FailType DEF PublishAuthorize
  <2>7. CASE PublishGate(p)
    BY <2>7, <1>0, GotoType, FailType DEF PublishGate
  <2>8. CASE PublishAck(p)
    BY <2>8, <1>0, GotoType DEF PublishAck
  <2>9. CASE PublishAccept(p)
    <3>1. [op[p] EXCEPT !.pc = "done", !.lep = epoch] \in Operations
      BY <1>0 DEF Operations, CallerPCs
    <3> QED
      BY <2>9, <3>1 DEF TypeOK, PublishAccept
  <2> QED
    BY <2>1, <2>2, <2>3, <2>4, <2>5, <2>6, <2>7, <2>8, <2>9
<1>2. UNCHANGED <<machine, tables, horizon, physical, keeper, budget>>
  BY DEF PublishStart, PublishCompare, ReadReady, CheckLive, ConfirmDurable,
         PublishAuthorize, PublishGate, PublishAck, PublishAccept
<1> QED
  BY <1>1, <1>2 DEF TypeOK, MachineOK, TablesOK, FilesOK, BoundsOK, machine, tables, physical, budget

\* A reservation keeps the shape of the rows.
LEMMA ReserveType ==
  ASSUME TypeOK, NEW d \in Digests
  PROVE  /\ Reservation(d) \in [gen : Nat, ready : BOOLEAN]
         /\ Reserve(d) => db' \in Tables /\ nextGen' \in Nat \ {0}
<1>1. Reservation(d) \in [gen : Nat, ready : BOOLEAN]
  BY DEF Reservation, TypeOK, TablesOK, Tables
<1>2. ASSUME Reserve(d) PROVE db' \in Tables
  <2> HIDE DEF Reservation
  <2>1. db.blobs \in [Digests -> [gen : Nat, ready : BOOLEAN]] /\ db \in Tables
    BY DEF TypeOK, TablesOK, Tables
  <2>2. [db.blobs EXCEPT ![d] = Reservation(d)] \in [Digests -> [gen : Nat, ready : BOOLEAN]]
    BY <1>1, <2>1
  <2> QED
    BY <1>2, <2>1, <2>2 DEF Reserve, Tables
<1>3. Reserve(d) => nextGen' \in Nat \ {0}
  BY DEF Reserve, TypeOK, TablesOK
<1> QED
  BY <1>1, <1>2, <1>3

\* The steps of publish_inner that reserve, write, lock, commit or roll back.
LEMMA WriteTypes ==
  ASSUME TypeOK, NEW p \in Callers,
         ReserveBlob(p) \/ PutIfAbsent(p) \/ PublishBegin(p) \/ PublishCommit(p) \/ Undo(p)
  PROVE  TypeOK'
<1>0. /\ "begin" \in CallerPCs /\ "trim" \in CallerPCs /\ "none" \in Errors
      /\ op[p] \in Operations
  BY DEF CallerPCs, Errors, TypeOK
<1>1. CASE ReserveBlob(p)
  <2> DEFINE row == Reservation(op[p].dig)
  <2>0. op[p].dig \in Digests
    BY <1>0 DEF Operations
  <2>1. row \in [gen : Nat, ready : BOOLEAN]
    BY <2>0, ReserveType
  <2>2. db' \in Tables /\ nextGen' \in Nat \ {0}
    BY <1>1, <2>0, ReserveType DEF ReserveBlob
  <2>3. <<op[p].dig, row.gen>> \in Locations
    BY <2>0, <2>1 DEF Locations
  <2>4. "read" \in CallerPCs /\ "put" \in CallerPCs
    BY DEF CallerPCs
  <2>5. op' \in [Callers -> Operations]
    <3>1. CASE row.ready
      <4>1. op' = [op EXCEPT ![p].pc = "read", ![p].loc = <<op[p].dig, row.gen>>]
        BY <1>1, <3>1 DEF ReserveBlob
      <4> QED
        BY <2>3, <2>4, <4>1, LocateType
    <3>2. CASE ~row.ready
      <4>1. op' = [op EXCEPT ![p].pc = "put", ![p].loc = <<op[p].dig, row.gen>>]
        BY <1>1, <3>2 DEF ReserveBlob
      <4> QED
        BY <2>3, <2>4, <4>1, LocateType
    <3> QED
      BY <3>1, <3>2
  <2> QED
    BY <1>1, <2>2, <2>5 DEF ReserveBlob, TypeOK, MachineOK, TablesOK, FilesOK, BoundsOK, machine,
                            physical, budget
<1>2. CASE PutIfAbsent(p)
  <2>1. op' \in [Callers -> Operations]
    BY <1>0, <1>2, GotoType DEF PutIfAbsent
  <2>2. op[p].loc \in Locations
    BY <1>0 DEF Operations
  <2> QED
    BY <1>2, <2>1, <2>2 DEF PutIfAbsent, TypeOK, MachineOK, TablesOK, FilesOK, BoundsOK, machine,
                            tables, budget
<1>3. CASE PublishBegin(p)
  <2>1. op' \in [Callers -> Operations]
    BY <1>0, <1>3, GotoType, FailType DEF PublishBegin
  <2> QED
    BY <1>3, <2>1 DEF PublishBegin, TypeOK, MachineOK, TablesOK, FilesOK, BoundsOK, machine,
                      physical, budget
<1>4. CASE PublishCommit(p)
  <2>1. [Idle EXCEPT !.pc = "ack", !.val = op[p].val, !.bar = op[p].bar, !.evict = op[p].evict]
          \in Operations
    BY <1>0, IdleType DEF Operations, CallerPCs
  <2>2. op' \in [Callers -> Operations]
    BY <1>4, <2>1 DEF PublishCommit, TypeOK
  <2> QED
    BY <1>4, <2>2, NoTablesType DEF PublishCommit, TypeOK, MachineOK, TablesOK, FilesOK, BoundsOK,
                                    machine, physical, budget
<1>5. CASE Undo(p)
  <2>1. [op[p] EXCEPT !.pc = "record", !.bar = FALSE] \in Operations
    BY <1>0 DEF Operations, CallerPCs
  <2>2. op' \in [Callers -> Operations]
    BY <1>5, <2>1 DEF Undo, TypeOK
  <2>3. MachineOK'
    BY <1>5, BarrierType DEF Undo
  <2> QED
    BY <1>5, <2>2, <2>3, NoTablesType DEF Undo, TypeOK, TablesOK, FilesOK, BoundsOK, physical, budget
<1> QED
  BY <1>1, <1>2, <1>3, <1>4, <1>5

\* Installing the candidate and trimming around it.
LEMMA TrimTypes ==
  ASSUME TypeOK, NEW p \in Callers, PublishTrim(p)
  PROVE  TypeOK'
<1> DEFINE o == op[p]
           id == IF o.unch THEN o.val ELSE mut + 1
           S == IF o.unch THEN db.snaps
                ELSE db.snaps \union {[id |-> id, key |-> o.key, dig |-> o.dig]}
           H == [db.head EXCEPT ![o.key] = id]
           B == IF o.unch THEN db.blobs ELSE [db.blobs EXCEPT ![o.dig].ready = TRUE]
<1>0. o \in Operations /\ "none" \in Errors
  BY DEF TypeOK, Errors
<1>1. id \in Nat
  BY <1>0 DEF TypeOK, TablesOK, Operations
<1>2. S \in SUBSET Snapshots
  <2>1. mut + 1 \in Nat \ {0}
    BY DEF TypeOK, TablesOK
  <2> QED
    BY <1>0, <2>1 DEF TypeOK, TablesOK, Tables, Operations, Snapshots
<1>3. H \in [Keys -> Nat]
  BY <1>0, <1>1 DEF TypeOK, TablesOK, Tables, Operations
<1>4. B \in [Digests -> [gen : Nat, ready : BOOLEAN]]
  BY <1>0, ZenonT(40) DEF TypeOK, TablesOK, Tables, Operations
<1>5. PICK E \in Trims(S, H, id) :
          IF E = {} \/ st = "ready"
          THEN /\ tx' = AfterImage(S, H, B, E, {}, {o.key})
               /\ IF E = {} THEN UNCHANGED <<st, epoch>> ELSE BarrierEnter
               /\ op' = [op EXCEPT ![p].pc = "authorize", ![p].val = id,
                                   ![p].bar = E # {}, ![p].evict = Ids(E)]
          ELSE Fail(p, "none") /\ UNCHANGED <<tx, st, epoch>>
  BY DEF PublishTrim
<1>6. UNCHANGED <<recEpoch, uncertain, db, lock, mut, nextGen, horizon, physical, keeper, budget>>
  BY DEF PublishTrim
<1>7. E \in SUBSET S
  BY <1>5 DEF Trims
<1>8. CASE E = {} \/ st = "ready"
  <2>1. tx' \in Tables
    <3> HIDE DEF S, H, B, id
    <3>1. tx' = AfterImage(S, H, B, E, {}, {o.key})
      BY <1>5, <1>8
    <3> QED
      BY <1>2, <1>3, <1>4, <1>7, <3>1, AfterImageType
  <2>2. Ids(E) \in SUBSET Nat
    BY <1>2, <1>7 DEF Ids, Snapshots
  <2>3. [op[p] EXCEPT !.pc = "authorize", !.val = id, !.bar = (E # {}), !.evict = Ids(E)]
          \in Operations
    <3> HIDE DEF S, H, B, id
    <3> QED
      BY <1>0, <1>1, <2>2 DEF Operations, CallerPCs
  <2>4. op' \in [Callers -> Operations]
    <3> HIDE DEF S, H, B, id
    <3> QED
      BY <1>5, <1>8, <2>3 DEF TypeOK
  <2>5. MachineOK'
    <3> HIDE DEF S, H, B, id
    <3> QED
      BY <1>5, <1>6, <1>8, BarrierType DEF TypeOK, MachineOK
  <2> QED
    BY <1>6, <2>1, <2>4, <2>5 DEF TypeOK, TablesOK, FilesOK, BoundsOK, physical, budget
<1>9. CASE ~(E = {} \/ st = "ready")
  <2>1. op' \in [Callers -> Operations] /\ UNCHANGED <<tx, st, epoch>>
    <3> HIDE DEF S, H, B, id
    <3> QED
      BY <1>0, <1>5, <1>9, FailType
  <2> QED
    BY <1>6, <2>1 DEF TypeOK, MachineOK, TablesOK, FilesOK, BoundsOK, physical, budget
<1> QED
  BY <1>8, <1>9

\* Starting and ending an operation, and its failures.
LEMMA CallerEndTypes ==
  ASSUME TypeOK, NEW p \in Callers,
         \/ \E k \in Keys : LookupStart(p, k)
         \/ PublishDrop(p) \/ Abandon(p) \/ RecordResult(p) \/ Fault(p) \/ CommitLost(p)
         \/ ReserveCommitLost(p)
  PROVE  TypeOK'
<1>0. /\ "none" \in Errors /\ "unavailable" \in Errors
      /\ op[p] \in Operations /\ op[p].loc \in Locations /\ op[p].err \in Errors
  BY DEF Errors, TypeOK, Operations
<1>1. LateAfter(p) \in SUBSET [io : {"put", "unlink"}, loc : Locations]
  BY <1>0 DEF LateAfter, TypeOK, FilesOK
<1>2. ASSUME NEW k \in Keys, LookupStart(p, k) PROVE TypeOK'
  <2>1. [Idle EXCEPT !.pc = "query", !.key = k, !.rec = recEpoch, !.lep = epoch] \in Operations
    BY IdleType DEF TypeOK, MachineOK, Operations, CallerPCs
  <2>2. op' \in [Callers -> Operations]
    BY <1>2, <2>1 DEF LookupStart, TypeOK
  <2>3. /\ runs' = runs + 1
        /\ UNCHANGED <<machine, tables, horizon, physical, keeper, faults, stops>>
    BY <1>2 DEF LookupStart
  <2> QED
    BY <2>2, <2>3 DEF TypeOK, MachineOK, TablesOK, FilesOK, BoundsOK, machine, tables, physical
<1>3. CASE PublishDrop(p)
  <2>1. [op[p] EXCEPT !.pc = "accept", !.bar = FALSE, !.evict = {}] \in Operations
    BY <1>0 DEF Operations, CallerPCs
  <2>2. op' \in [Callers -> Operations]
    BY <1>3, <2>1 DEF PublishDrop, TypeOK
  <2>3. MachineOK'
    BY <1>3, BarrierType DEF PublishDrop
  <2> QED
    BY <1>3, <2>2, <2>3 DEF PublishDrop, TypeOK, TablesOK, FilesOK, BoundsOK, tables, physical,
                            budget
<1>4. CASE Abandon(p)
  <2>1. op' \in [Callers -> Operations]
    BY <1>0, <1>4, FailType, IdleType DEF Abandon, TypeOK
  <2> QED
    BY <1>1, <1>4, <2>1 DEF Abandon, TypeOK, MachineOK, TablesOK, FilesOK, BoundsOK, machine,
                            tables, budget
<1>5. CASE RecordResult(p)
  <2>1. op' \in [Callers -> Operations]
    BY <1>5, IdleType DEF RecordResult, TypeOK
  <2>2. MachineOK'
    BY <1>0, <1>5, RecordType DEF RecordResult
  <2> QED
    BY <1>5, <2>1, <2>2 DEF RecordResult, TypeOK, TablesOK, FilesOK, BoundsOK, tables, physical,
                            budget
<1>6. CASE Fault(p)
  <2>1. op' \in [Callers -> Operations]
    BY <1>0, <1>6, FailType DEF Fault
  <2> QED
    BY <1>1, <1>6, <2>1 DEF Fault, TypeOK, MachineOK, TablesOK, FilesOK, BoundsOK, machine, tables
<1>7. CASE CommitLost(p)
  <2>1. op' \in [Callers -> Operations]
    BY <1>0, <1>7, FailType DEF CommitLost
  <2> QED
    BY <1>7, <2>1, StoreAssumption DEF CommitLost, TypeOK, MachineOK, TablesOK, FilesOK, BoundsOK,
                                       physical
<1>8. CASE ReserveCommitLost(p)
  <2>1. op' \in [Callers -> Operations]
    BY <1>0, <1>8, FailType DEF ReserveCommitLost
  <2>2. db' \in Tables /\ nextGen' \in Nat \ {0}
    <3>1. CASE Reserve(op[p].dig)
      BY <1>0, <3>1, ReserveType DEF Operations
    <3>2. CASE UNCHANGED <<db, nextGen>>
      BY <3>2 DEF TypeOK, TablesOK
    <3> QED
      BY <1>8, <3>1, <3>2 DEF ReserveCommitLost
  <2> QED
    BY <1>8, <2>1, <2>2, StoreAssumption DEF ReserveCommitLost, TypeOK, MachineOK, TablesOK,
                                             FilesOK, BoundsOK, physical
<1> QED
  BY <1>2, <1>3, <1>4, <1>5, <1>6, <1>7, <1>8

\* The server settling a transaction, orphaned file jobs, close and restart.
LEMMA EnvironmentTypes ==
  ASSUME TypeOK, GhostSettles \/ LateIO \/ LoseFile \/ Age \/ Close \/ Restart
  PROVE  TypeOK'
<1>1. CASE GhostSettles
  BY <1>1, NoTablesType DEF GhostSettles, TypeOK, MachineOK, TablesOK, FilesOK, BoundsOK, machine,
                            physical, budget
<1>2. CASE LateIO
  BY <1>2 DEF LateIO, TypeOK, MachineOK, TablesOK, FilesOK, BoundsOK, machine, tables, budget
<1>3. CASE LoseFile
  BY <1>3 DEF LoseFile, TypeOK, MachineOK, TablesOK, FilesOK, BoundsOK, machine, tables
<1>4. CASE Age
  BY <1>4 DEF Age, TypeOK, MachineOK, TablesOK, FilesOK, BoundsOK, machine, tables, physical, budget
<1>5. CASE Close
  BY <1>5 DEF Close, TypeOK, MachineOK, TablesOK, FilesOK, BoundsOK, tables, physical, States
<1>6. CASE Restart
  <2>1. op' \in [Callers -> Operations] /\ keeper' \in Keepers
    BY <1>6, IdleType DEF Restart
  <2>2. MachineOK'
    <3>1. st' = "ready" /\ epoch' = 0 /\ recEpoch' = 0 /\ uncertain' = FALSE
      BY <1>6 DEF Restart
    <3> QED
      BY <3>1 DEF MachineOK, States
  <2>4. BoundsOK'
    <3>1. stops' = stops + 1 /\ UNCHANGED <<runs, faults>>
      BY <1>6 DEF Restart
    <3> QED
      BY <3>1 DEF TypeOK, BoundsOK
  <2>3. TablesOK' /\ FilesOK'
    BY <1>6, NoTablesType DEF Restart, TypeOK, TablesOK, FilesOK
  <2> QED
    BY <2>1, <2>2, <2>3, <2>4 DEF TypeOK
<1> QED
  BY <1>1, <1>2, <1>3, <1>4, <1>5, <1>6

\* The steps of maintain_inner.
LEMMA MaintainTypes ==
  ASSUME TypeOK, MaintainStep
  PROVE  TypeOK'
<1>0. keeper \in Keepers /\ IdleKeeper \in Keepers /\ keeper.loc \in Locations
      /\ db.queue \in SUBSET Locations /\ files \in SUBSET Locations
  BY IdleType DEF TypeOK, TablesOK, FilesOK, Tables, Keepers
<1>1. CASE MaintainStart
  <2>1. keeper' \in Keepers
    BY <1>0, <1>1 DEF MaintainStart, Keepers, KeeperPCs
  <2> QED
    BY <1>1, <2>1 DEF MaintainStart, TypeOK, MachineOK, TablesOK, FilesOK, BoundsOK, machine,
                      tables, physical, budget
<1>2. CASE CleanNext
  <2>1. keeper' \in Keepers
    <3>1. CASE KFail("corrupt")
      BY <3>1, KFailType DEF Errors
    <3>2. ASSUME NEW x \in keeper.todo, keeper' = [keeper EXCEPT !.pc = "unlink", !.loc = x]
          PROVE  keeper' \in Keepers
      <4>1. x \in Locations
        BY <1>0 DEF Keepers
      <4> QED
        BY <1>0, <3>2, <4>1 DEF Keepers, KeeperPCs
    <3>3. CASE keeper' = [keeper EXCEPT !.pc = "scan", !.todo = files]
      BY <1>0, <3>3 DEF Keepers, KeeperPCs
    <3>4. CASE keeper' = [keeper EXCEPT !.pc = "trim"]
      BY <1>0, <3>4 DEF Keepers, KeeperPCs
    <3> QED
      BY <1>2, <3>1, <3>2, <3>3, <3>4 DEF CleanNext
  <2> QED
    BY <1>2, <2>1 DEF CleanNext, TypeOK, MachineOK, TablesOK, FilesOK, BoundsOK, machine, tables,
                      physical, budget
<1>3. CASE Unlink
  <2>1. keeper' \in Keepers
    BY <1>0, <1>3 DEF Unlink, KGoto, Keepers, KeeperPCs
  <2> QED
    BY <1>3, <2>1 DEF Unlink, TypeOK, MachineOK, TablesOK, FilesOK, BoundsOK, machine, tables, budget
<1>4. CASE Dequeue
  <2>1. IdleKeeper.loc \in Locations
    BY <1>0 DEF Keepers
  <2>2. keeper' \in Keepers
    BY <1>0, <1>4, <2>1 DEF Dequeue, Keepers, KeeperPCs
  <2>3. db' \in Tables
    BY <1>4 DEF Dequeue, TypeOK, TablesOK, Tables
  <2> QED
    BY <1>4, <2>2, <2>3 DEF Dequeue, TypeOK, MachineOK, TablesOK, FilesOK, BoundsOK, machine,
                            physical, budget
<1>5. CASE MaintainTrim
  <2>1. PICK E \in Trims(db.snaps, db.head, 0),
             P \in SUBSET {d \in Digests : db.blobs[d].gen # 0 /\ ~db.blobs[d].ready} :
          IF E = {} \/ st = "ready"
          THEN /\ tx' = AfterImage(db.snaps, db.head, db.blobs, E, P, {})
               /\ lock' = "keeper"
               /\ IF E = {} THEN UNCHANGED <<st, epoch>> ELSE BarrierEnter
               /\ keeper' = [keeper EXCEPT !.pc = "commit", !.bar = E # {}, !.evict = Ids(E)]
          ELSE KFail("none") /\ UNCHANGED <<tx, lock, st, epoch>>
    BY <1>5 DEF MaintainTrim
  <2>2. UNCHANGED <<recEpoch, uncertain, db, mut, nextGen, horizon, physical, op, budget>>
    BY <1>5 DEF MaintainTrim
  <2>3. E \in SUBSET db.snaps
    BY DEF Trims
  <2>4. CASE E = {} \/ st = "ready"
    <3>1. tx' \in Tables
      <4>1. tx' = AfterImage(db.snaps, db.head, db.blobs, E, P, {})
        BY <2>1, <2>4
      <4>2. /\ db.snaps \in SUBSET Snapshots /\ db.head \in [Keys -> Nat]
            /\ db.blobs \in [Digests -> [gen : Nat, ready : BOOLEAN]] /\ P \in SUBSET Digests
        BY DEF TypeOK, TablesOK, Tables
      <4> QED
        BY <2>3, <4>1, <4>2, AfterImageType
    <3>2. Ids(E) \in SUBSET Nat
      BY <2>3 DEF Ids, Snapshots, TypeOK, TablesOK, Tables
    <3>3. keeper' \in Keepers
      <4>1. [keeper EXCEPT !.pc = "commit", !.bar = (E # {}), !.evict = Ids(E)] \in Keepers
        BY <1>0, <3>2 DEF Keepers, KeeperPCs
      <4> QED
        BY <2>1, <2>4, <4>1
    <3>4. MachineOK'
      BY <2>1, <2>2, <2>4, BarrierType DEF TypeOK, MachineOK
    <3>5. lock' = "keeper"
      BY <2>1, <2>4
    <3> QED
      BY <2>2, <3>1, <3>3, <3>4, <3>5 DEF TypeOK, TablesOK, FilesOK, BoundsOK, physical, budget
  <2>5. CASE ~(E = {} \/ st = "ready")
    <3>1. keeper' \in Keepers
      BY <2>1, <2>5, KFailType DEF Errors
    <3> QED
      BY <2>1, <2>2, <2>5, <3>1 DEF TypeOK, MachineOK, TablesOK, FilesOK, BoundsOK, physical, budget
  <2> QED
    BY <2>4, <2>5
<1>6. CASE MaintainCommit
  <2>1. keeper' \in Keepers
    BY <1>0, <1>6 DEF MaintainCommit, KGoto, Keepers, KeeperPCs
  <2> QED
    BY <1>6, <2>1, NoTablesType DEF MaintainCommit, TypeOK, MachineOK, TablesOK, FilesOK, BoundsOK,
                                    machine, physical, budget
<1>7. CASE MaintainAck
  <2>1. keeper' \in Keepers
    BY <1>0, <1>7 DEF MaintainAck, KGoto, Keepers, KeeperPCs
  <2> QED
    BY <1>7, <2>1 DEF MaintainAck, TypeOK, MachineOK, TablesOK, FilesOK, BoundsOK, machine, tables,
                      physical, budget
<1>8. CASE MaintainDrop
  <2>1. keeper' \in Keepers
    BY <1>0, <1>8 DEF MaintainDrop, Keepers, KeeperPCs
  <2>2. MachineOK'
    BY <1>8, BarrierType DEF MaintainDrop
  <2> QED
    BY <1>8, <2>1, <2>2 DEF MaintainDrop, TypeOK, TablesOK, FilesOK, BoundsOK, tables, physical,
                            budget
<1>9. CASE ScanNext
  <2>1. keeper' \in Keepers
    BY <1>0, <1>9 DEF ScanNext, Keepers, KeeperPCs
  <2>2. keeper.todo \in SUBSET Locations
    BY <1>0 DEF Keepers
  <2>3. db' \in Tables
    BY <1>9, <2>2 DEF ScanNext, TypeOK, TablesOK, Tables
  <2> QED
    BY <1>9, <2>1, <2>3 DEF ScanNext, TypeOK, MachineOK, TablesOK, FilesOK, BoundsOK, machine,
                            physical, budget
<1> QED
  BY <1>1, <1>2, <1>3, <1>4, <1>5, <1>6, <1>7, <1>8, <1>9 DEF MaintainStep

\* The steps of recover(), and the failures of the keeper.
LEMMA RecoverTypes ==
  ASSUME TypeOK, RecoverStep \/ KeeperFault \/ KeeperCommitLost \/ QueueCommitLost
  PROVE  TypeOK'
<1>0. /\ keeper \in Keepers /\ IdleKeeper \in Keepers /\ keeper.loc \in Locations
      /\ keeper.err \in Errors /\ "unavailable" \in Errors
  BY IdleType DEF TypeOK, Keepers, Errors
<1>1. CASE RecoverStart
  <2>1. keeper' \in Keepers
    BY <1>0, <1>1 DEF RecoverStart, TypeOK, MachineOK, Keepers, KeeperPCs
  <2> QED
    BY <1>1, <2>1 DEF RecoverStart, TypeOK, MachineOK, TablesOK, FilesOK, BoundsOK, machine, tables,
                      physical, budget
<1>2. CASE RecoverFence
  <2>1. keeper' \in Keepers
    BY <1>0, <1>2 DEF RecoverFence, KGoto, Keepers, KeeperPCs
  <2> QED
    BY <1>2, <2>1 DEF RecoverFence, TypeOK, MachineOK, TablesOK, FilesOK, BoundsOK, machine, tables,
                      physical, budget
<1>3. CASE RecoverReopen
  <2>1. keeper' \in Keepers
    BY <1>0, <1>3, KFailType DEF RecoverReopen
  <2> QED
    BY <1>3, <2>1 DEF RecoverReopen, TypeOK, MachineOK, TablesOK, FilesOK, BoundsOK, tables,
                      physical, budget, States
<1>4. CASE KeeperUndo
  <2>1. keeper' \in Keepers
    BY <1>0, <1>4 DEF KeeperUndo, Keepers, KeeperPCs
  <2>2. MachineOK'
    BY <1>4, BarrierType DEF KeeperUndo
  <2> QED
    BY <1>4, <2>1, <2>2 DEF KeeperUndo, TypeOK, TablesOK, FilesOK, BoundsOK, tables, physical, budget
<1>5. CASE KeeperRecord
  <2>1. MachineOK'
    BY <1>0, <1>5, RecordType DEF KeeperRecord
  <2> QED
    BY <1>0, <1>5, <2>1 DEF KeeperRecord, TypeOK, TablesOK, FilesOK, BoundsOK, tables, physical,
                            budget
<1>6. CASE KeeperFault
  <2>1. keeper' \in Keepers
    BY <1>0, <1>6, KFailType DEF KeeperFault
  <2> QED
    BY <1>0, <1>6, <2>1 DEF KeeperFault, TypeOK, MachineOK, TablesOK, FilesOK, BoundsOK, machine,
                            tables
<1>7. CASE KeeperCommitLost
  <2>1. keeper' \in Keepers
    BY <1>0, <1>7, KFailType DEF KeeperCommitLost
  <2> QED
    BY <1>7, <2>1, StoreAssumption DEF KeeperCommitLost, TypeOK, MachineOK, TablesOK, FilesOK,
                                       BoundsOK, physical
<1>8. CASE QueueCommitLost
  <2>1. keeper' \in Keepers
    BY <1>0, <1>8, KFailType DEF QueueCommitLost
  <2>2. keeper.todo \in SUBSET Locations
    BY <1>0 DEF Keepers
  <2>3. db' \in Tables
    BY <1>8, <2>2 DEF QueueCommitLost, TypeOK, TablesOK, Tables
  <2> QED
    BY <1>8, <2>1, <2>3, StoreAssumption DEF QueueCommitLost, TypeOK, MachineOK, TablesOK, FilesOK,
                                             BoundsOK, physical
<1> QED
  BY <1>1, <1>2, <1>3, <1>4, <1>5, <1>6, <1>7, <1>8 DEF RecoverStep

\* Every reachable state is well typed: the availability machine stays in its five
\* states and every committed or pending row keeps its shape.
THEOREM TypeCorrect == Spec => []TypeOK
<1>1. Init => TypeOK
  <2> SUFFICES ASSUME Init PROVE TypeOK
    OBVIOUS
  <2>1. MachineOK /\ BoundsOK /\ FilesOK
    BY DEF Init, MachineOK, BoundsOK, FilesOK, States
  <2>2. TablesOK
    BY NoTablesType DEF Init, TablesOK
  <2>3. op \in [Callers -> Operations] /\ keeper \in Keepers
    BY IdleType DEF Init
  <2> QED
    BY <2>1, <2>2, <2>3 DEF TypeOK
<1>2. TypeOK /\ [Next]_vars => TypeOK'
  <2> SUFFICES ASSUME TypeOK, [Next]_vars PROVE TypeOK'
    OBVIOUS
  <2>1. CASE UNCHANGED vars
    BY <2>1 DEF vars, TypeOK, MachineOK, TablesOK, FilesOK, BoundsOK
  <2>2. ASSUME NEW p \in Callers,
               \/ \E k \in Keys : LookupStart(p, k)
               \/ CallerStep(p) \/ Abandon(p) \/ Fault(p) \/ CommitLost(p)
               \/ ReserveCommitLost(p)
        PROVE  TypeOK'
    BY <2>2, LookupTypes, PublishTypes, WriteTypes, TrimTypes, CallerEndTypes DEF CallerStep
  <2> QED
    BY <2>1, <2>2, EnvironmentTypes, MaintainTypes, RecoverTypes DEF Next
<1> QED
  BY <1>1, <1>2, PTL DEF Spec

-----------------------------------------------------------------------------
(***************************************************************************)
(* Evidence is never lost while the blob root itself is not damaged: every *)
(* snapshot PostgreSQL has committed has its file on disk, no queued       *)
(* deletion names a live file, and publications of a query are serialized. *)
(* The first two need one inductive invariant, because what keeps a file   *)
(* is spread over the tables, the pending transaction, the operations in   *)
(* flight and the filesystem jobs nobody waits for any more.               *)
(***************************************************************************)

\* Blob generations are used once: nothing names one that is still to come.
Old(x) == x[2] < nextGen

\* A state the tables may be in: captures have complete blob rows, complete rows
\* have their file, queued deletions name no live row, and no row is newer than
\* the committed one (for the tables of a transaction that is still open).
Sound(t) ==
  /\ \A s \in t.snaps : t.blobs[s.dig].ready
  /\ \A d \in Digests : /\ t.blobs[d].ready => t.blobs[d].gen # 0 /\ <<d, t.blobs[d].gen>> \in files
                        /\ t.blobs[d].gen \in {0, db.blobs[d].gen}
                        /\ t.blobs[d].gen < nextGen
  /\ \A x \in t.queue : Old(x) /\ x \notin Files(t)

Held == {"trim", "authorize", "gate", "commit"}

\* The row lock is held from the checks of a publication to its COMMIT, and the
\* revision it observed stays current for as long.
LockOK(p, o) == o.pc \in Held => lock = p /\ db.rev[o.key] = o.exp

\* The file a publication has read or written outlives it until its transaction
\* decides whether the reservation is still the current one.
LocOK(o) ==
  /\ Old(o.loc)
  /\ o.pc \in {"read", "live", "confirm", "put", "begin", "trim"} => o.loc[1] = o.dig
  /\ o.pc \in {"begin", "trim"} /\ o.loc \in Files(db) => o.loc \in files
  /\ o.pc = "trim" => o.loc \in Files(db)

KeeperOK(k) ==
  /\ k.pc = "commit" => lock = "keeper"
  /\ k.pc = "unlink" => k.loc \notin Files(db)
  /\ Old(k.loc) /\ \A x \in k.todo : Old(x)

\* Unlinks nobody waits for any more name dead generations.
PhysicalOK ==
  /\ \A x \in files : Old(x)
  /\ \A j \in late : Old(j.loc) /\ (j.io = "unlink" => j.loc \notin Files(db))

LockInv == /\ \A p \in Callers : LockOK(p, op[p])
           /\ keeper.pc = "commit" => lock = "keeper"

EvidenceInv ==
  /\ Sound(db) /\ Sound(tx)
  /\ lock = "free" => tx = NoTables
  /\ \A p \in Callers : LocOK(op[p])
  /\ KeeperOK(keeper) /\ PhysicalOK

----------------------------------------------------------------------------
(* The row lock. *)

\* A step of one caller that leaves the lock, the keeper and the revisions alone.
LEMMA LockLocal ==
  ASSUME LockInv, NEW p \in Callers, LockOK(p, op[p])',
         \A q \in Callers \ {p} : op'[q] = op[q],
         UNCHANGED <<lock, keeper>>, db'.rev = db.rev
  PROVE  LockInv'
  BY DEF LockInv, LockOK

\* Caller steps without a transaction never enter the protected section.
LEMMA LockOutside ==
  ASSUME TypeOK, LockInv, NEW p \in Callers,
         \/ \E k \in Keys : LookupStart(p, k)
         \/ LookupQuery(p) \/ LookupHead(p) \/ LookupSnapshot(p) \/ LookupDangling(p)
         \/ LookupBlob(p) \/ LookupMissing(p)
         \/ \E d \in Digests : PublishStart(p, d)
         \/ PublishCompare(p) \/ ReserveBlob(p) \/ ReadReady(p) \/ CheckLive(p)
         \/ ConfirmDurable(p) \/ PutIfAbsent(p)
         \/ PublishAck(p) \/ PublishDrop(p) \/ PublishAccept(p)
         \/ Abandon(p) \/ RecordResult(p) \/ Fault(p) \/ ReserveCommitLost(p)
  PROVE  LockInv'
<1>0. op \in [Callers -> Operations] /\ op[p] \in Operations /\ Idle.pc = "idle"
  BY DEF TypeOK, Idle
<1>1. UNCHANGED <<lock, keeper>>
  BY DEF LookupStart, LookupQuery, LookupHead, LookupSnapshot, LookupDangling, LookupBlob,
         LookupMissing, PublishStart, PublishCompare, ReserveBlob, ReadReady, CheckLive,
         ConfirmDurable, PutIfAbsent, PublishAck, PublishDrop, PublishAccept, Abandon,
         RecordResult, Fault, ReserveCommitLost, tables
<1>2. db'.rev = db.rev
  <2>1. CASE ReserveBlob(p) \/ ReserveCommitLost(p)
    BY <2>1 DEF ReserveBlob, ReserveCommitLost, Reserve, TypeOK, TablesOK, Tables
  <2>2. CASE UNCHANGED db
    BY <2>2
  <2> QED
    BY <2>1, <2>2
       DEF LookupStart, LookupQuery, LookupHead, LookupSnapshot, LookupDangling, LookupBlob,
           LookupMissing, PublishStart, PublishCompare, ReadReady, CheckLive, ConfirmDurable,
           PutIfAbsent, PublishAck, PublishDrop, PublishAccept, Abandon, RecordResult, Fault, tables
<1>3. /\ \A q \in Callers \ {p} : op'[q] = op[q]
      /\ op'[p].pc \notin Held
  <2>1. ASSUME NEW e, Fail(p, e)
        PROVE  (\A q \in Callers \ {p} : op'[q] = op[q]) /\ op'[p].pc \notin Held
    BY <1>0, <2>1 DEF Fail, Held, Idle
  <2>2. ASSUME NEW c, c \notin Held, Goto(p, c)
        PROVE  (\A q \in Callers \ {p} : op'[q] = op[q]) /\ op'[p].pc \notin Held
    BY <1>0, <2>2 DEF Goto, Operations
  <2>3. CASE op' = [op EXCEPT ![p] = Idle]
    BY <1>0, <2>3 DEF Held
  <2>4. CASE \E k \in Keys : LookupStart(p, k)
    <3>1. PICK k \in Keys : LookupStart(p, k)
      BY <2>4
    <3>2. op' = [op EXCEPT ![p] = [Idle EXCEPT !.pc = "query", !.key = k, !.rec = recEpoch,
                                               !.lep = epoch]]
      BY <3>1 DEF LookupStart
    <3>3. [Idle EXCEPT !.pc = "query", !.key = k, !.rec = recEpoch, !.lep = epoch].pc = "query"
      BY DEF Idle
    <3> QED
      BY <1>0, <3>2, <3>3 DEF Held
  <2>5. CASE LookupQuery(p)
    BY <1>0, <2>5 DEF LookupQuery, Operations, Held
  <2>6. CASE LookupHead(p)
    BY <1>0, <2>6 DEF LookupHead, Operations, Held
  <2> DEFINE Relocated(c, l) == op' = [op EXCEPT ![p].pc = c, ![p].loc = l]
  <2>16. ASSUME NEW c, NEW l, c \notin Held, Relocated(c, l)
         PROVE  (\A q \in Callers \ {p} : op'[q] = op[q]) /\ op'[p].pc \notin Held
    BY <1>0, <2>16 DEF Operations
  <2>7. CASE LookupSnapshot(p)
    <3>1. \/ Goto(p, "dangling") \/ Fail(p, "corrupt")
          \/ \E s \in db.snaps : Relocated("blob", <<s.dig, db.blobs[s.dig].gen>>)
      BY <2>7 DEF LookupSnapshot
    <3> QED
      BY <2>1, <2>2, <2>16, <3>1 DEF Held
  <2>8. CASE LookupDangling(p)
    BY <1>0, <2>1, <2>8 DEF LookupDangling, Operations, Held
  <2>9. CASE LookupBlob(p) \/ LookupMissing(p) \/ ReadReady(p) \/ CheckLive(p)
             \/ ConfirmDurable(p) \/ PutIfAbsent(p) \/ PublishAck(p)
    BY <2>1, <2>2, <2>9 DEF LookupBlob, LookupMissing, ReadReady, CheckLive, ConfirmDurable,
                            PutIfAbsent, PublishAck, Held
  <2>10. CASE \E d \in Digests : PublishStart(p, d)
    <3>1. PICK d \in Digests : PublishStart(p, d)
      BY <2>10
    <3>2. [op[p] EXCEPT !.pc = "query", !.pub = TRUE, !.dig = d, !.exp = op[p].obs,
                        !.start = epoch, !.lep = epoch].pc = "query"
      BY <1>0 DEF Operations
    <3>3. op' = [op EXCEPT ![p] = [op[p] EXCEPT !.pc = "query", !.pub = TRUE, !.dig = d,
                                     !.exp = op[p].obs, !.start = epoch, !.lep = epoch]]
      BY <1>0, <3>1 DEF PublishStart
    <3> QED
      BY <1>0, <3>2, <3>3 DEF Held
  <2>11. CASE PublishCompare(p)
    BY <1>0, <2>3, <2>11 DEF PublishCompare, Operations, Held
  <2>12. CASE ReserveBlob(p)
    <3>1. \E l : Relocated("read", l) \/ Relocated("put", l)
      <4> DEFINE row == Reservation(op[p].dig)
      <4>1. op' = [op EXCEPT ![p].loc = <<op[p].dig, row.gen>>,
                             ![p].pc = IF row.ready THEN "read" ELSE "put"]
        BY <2>12 DEF ReserveBlob
      <4>2. op' = [op EXCEPT ![p].pc = IF row.ready THEN "read" ELSE "put",
                             ![p].loc = <<op[p].dig, row.gen>>]
        <5> HIDE DEF row
        <5> QED
          BY <1>0, <4>1 DEF Operations
      <4> HIDE DEF row
      <4>3. CASE row.ready
        BY <4>2, <4>3
      <4>4. CASE ~row.ready
        BY <4>2, <4>4
      <4> QED
        BY <4>3, <4>4
    <3> QED
      BY <2>16, <3>1 DEF Held
  <2>13. CASE PublishDrop(p)
    BY <1>0, <2>13 DEF PublishDrop, Operations, Held
  <2>14. CASE PublishAccept(p)
    BY <1>0, <2>14 DEF PublishAccept, Operations, Held
  <2>15. CASE Abandon(p) \/ RecordResult(p) \/ Fault(p) \/ ReserveCommitLost(p)
    BY <2>1, <2>3, <2>15 DEF Abandon, RecordResult, Fault, ReserveCommitLost
  <2> QED
    BY <2>4, <2>5, <2>6, <2>7, <2>8, <2>9, <2>10, <2>11, <2>12, <2>13, <2>14, <2>15
<1>4. LockOK(p, op[p])'
  BY <1>3 DEF LockOK
<1> QED
  BY <1>1, <1>2, <1>3, <1>4, LockLocal

\* Steps of the publishing transaction.
LEMMA LockInside ==
  ASSUME TypeOK, LockInv, NEW p \in Callers,
         \/ PublishBegin(p) \/ PublishTrim(p) \/ PublishAuthorize(p) \/ PublishGate(p)
         \/ PublishCommit(p) \/ Undo(p) \/ CommitLost(p)
  PROVE  LockInv'
<1>0. /\ op \in [Callers -> Operations] /\ op[p] \in Operations
      /\ p \notin {"free", "ghost", "keeper"}
      /\ LockOK(p, op[p]) /\ \A q \in Callers : op[q].pc \in Held => lock = q
  BY StoreAssumption DEF TypeOK, LockInv, LockOK
<1>1. ASSUME NEW e, Fail(p, e)
      PROVE  (\A q \in Callers \ {p} : op'[q] = op[q]) /\ op'[p].pc \notin Held
  BY <1>0, <1>1 DEF Fail, Held, Idle
<1>2. ASSUME NEW c, Goto(p, c)
      PROVE  /\ \A q \in Callers \ {p} : op'[q] = op[q]
             /\ op'[p].key = op[p].key /\ op'[p].exp = op[p].exp
  BY <1>0, <1>2 DEF Goto, Operations
<1>3. CASE PublishBegin(p)
  <2>1. UNCHANGED <<db, keeper>> /\ lock = "free" /\ keeper.pc # "commit"
    BY <1>0, <1>3 DEF PublishBegin, LockInv
  <2>2. \A q \in Callers : op[q].pc \notin Held
    BY <1>0, <2>1, StoreAssumption
  <2>3. CASE lock' = p /\ Goto(p, "trim") /\ Unmoved(p)
    BY <1>2, <2>1, <2>2, <2>3 DEF LockInv, LockOK, Unmoved
  <2>4. CASE UNCHANGED lock /\ Fail(p, "none")
    BY <1>1, <2>1, <2>2, <2>4 DEF LockInv, LockOK
  <2> QED
    BY <1>3, <2>3, <2>4 DEF PublishBegin
<1>4. CASE PublishTrim(p) \/ PublishAuthorize(p) \/ PublishGate(p)
  <2>1. UNCHANGED <<lock, keeper, db>> /\ op[p].pc \in Held
    BY <1>4 DEF PublishTrim, PublishAuthorize, PublishGate, tables, Held
  <2>2. /\ \A q \in Callers \ {p} : op'[q] = op[q]
        /\ \/ op'[p].pc \notin Held
           \/ op'[p].key = op[p].key /\ op'[p].exp = op[p].exp
    <3>1. CASE PublishTrim(p)
      <4>1. \/ Fail(p, "none")
            \/ \E v, E : op' = [op EXCEPT ![p].pc = "authorize", ![p].val = v,
                                          ![p].bar = E # {}, ![p].evict = Ids(E)]
        <5> DEFINE o == op[p]
                   id == IF o.unch THEN o.val ELSE mut + 1
                   S == IF o.unch THEN db.snaps
                        ELSE db.snaps \union {[id |-> id, key |-> o.key, dig |-> o.dig]}
                   H == [db.head EXCEPT ![o.key] = id]
        <5>1. \E E \in Trims(S, H, id) :
                \/ Fail(p, "none")
                \/ op' = [op EXCEPT ![p].pc = "authorize", ![p].val = id,
                                    ![p].bar = E # {}, ![p].evict = Ids(E)]
          BY <3>1 DEF PublishTrim
        <5> HIDE DEF S, H, id
        <5> QED
          BY <5>1
      <4>2. ASSUME NEW v, NEW E, op' = [op EXCEPT ![p].pc = "authorize", ![p].val = v,
                                                  ![p].bar = E # {}, ![p].evict = Ids(E)]
            PROVE  /\ \A q \in Callers \ {p} : op'[q] = op[q]
                   /\ op'[p].key = op[p].key /\ op'[p].exp = op[p].exp
        BY <1>0, <4>2 DEF Operations
      <4> QED
        BY <1>1, <4>1, <4>2
    <3>2. CASE PublishAuthorize(p) \/ PublishGate(p)
      BY <1>1, <1>2, <3>2 DEF PublishAuthorize, PublishGate
    <3> QED
      BY <1>4, <3>1, <3>2
  <2>3. LockOK(p, op[p])'
    BY <1>0, <2>1, <2>2 DEF LockOK
  <2> QED
    BY <2>1, <2>2, <2>3, LockLocal
<1>5. CASE PublishCommit(p)
  <2>1. lock = p /\ UNCHANGED keeper
    BY <1>0, <1>5 DEF PublishCommit, Held
  <2>2. /\ \A q \in Callers \ {p} : op'[q] = op[q] /\ op[q].pc \notin Held
        /\ op'[p].pc \notin Held
    BY <1>0, <1>5, <2>1 DEF PublishCommit, Held, Idle
  <2> QED
    BY <1>0, <2>1, <2>2 DEF LockInv, LockOK
<1>6. CASE Undo(p)
  <2>1. /\ \A q \in Callers \ {p} : op'[q] = op[q]
        /\ op'[p].pc \notin Held
    BY <1>0, <1>6 DEF Undo, Operations, Held
  <2>2. UNCHANGED <<db, keeper>> /\ (UNCHANGED lock \/ lock = p)
    BY <1>6 DEF Undo
  <2> QED
    BY <1>0, <2>1, <2>2 DEF LockInv, LockOK
<1>7. CASE CommitLost(p)
  <2>1. /\ \A q \in Callers \ {p} : op'[q] = op[q]
        /\ op'[p].pc \notin Held
    BY <1>1, <1>7 DEF CommitLost
  <2>2. UNCHANGED <<db, keeper>> /\ (UNCHANGED lock \/ lock = p)
    BY <1>0, <1>7 DEF CommitLost, Held
  <2> QED
    BY <1>0, <2>1, <2>2 DEF LockInv, LockOK
<1> QED
  BY <1>3, <1>4, <1>5, <1>6, <1>7

\* Steps of the keeper, the server, the filesystem and the process.
LEMMA LockElsewhere ==
  ASSUME TypeOK, LockInv,
         \/ MaintainStep \/ RecoverStep \/ KeeperFault \/ KeeperCommitLost \/ QueueCommitLost
         \/ GhostSettles \/ LateIO \/ LoseFile \/ Age \/ Close \/ Restart
  PROVE  LockInv'
<1>0. \A q \in Callers : q \notin {"free", "ghost", "keeper"}
  BY StoreAssumption
<1>1. keeper \in Keepers /\ IdleKeeper.pc = "idle"
  BY DEF TypeOK, IdleKeeper
<1>2. CASE Restart
  <2>1. \A p \in Callers : op'[p].pc \notin Held
    BY <1>2 DEF Restart, Idle, Held
  <2>2. keeper'.pc # "commit"
    BY <1>1, <1>2 DEF Restart
  <2> QED
    BY <2>1, <2>2 DEF LockInv, LockOK
<1>3. CASE GhostSettles
  <2>1. lock = "ghost" /\ UNCHANGED <<op, keeper>>
    BY <1>3 DEF GhostSettles
  <2> QED
    BY <1>0, <2>1 DEF LockInv, LockOK
<1>4. CASE LateIO \/ LoseFile \/ Age \/ Close
  <2>1. UNCHANGED <<lock, db, op, keeper>>
    BY <1>4 DEF LateIO, LoseFile, Age, Close, tables
  <2> QED
    BY <2>1 DEF LockInv, LockOK
<1>5. CASE MaintainTrim
  <2>1. lock = "free" /\ UNCHANGED <<op, db>>
    BY <1>5 DEF MaintainTrim
  <2>2. \/ lock' = "keeper"
        \/ UNCHANGED lock /\ keeper'.pc = "undo"
    BY <1>1, <1>5 DEF MaintainTrim, KFail, IdleKeeper
  <2> QED
    BY <1>0, <2>1, <2>2 DEF LockInv, LockOK
<1>6. CASE MaintainCommit \/ KeeperCommitLost
  <2>1. /\ UNCHANGED op
        /\ lock = "keeper" \/ UNCHANGED <<lock, db>>
        /\ keeper'.pc # "commit"
    BY <1>1, <1>6 DEF MaintainCommit, KeeperCommitLost, KGoto, KFail, LockInv, Keepers, IdleKeeper
  <2> QED
    BY <1>0, <2>1 DEF LockInv, LockOK
<1>7. CASE \/ MaintainStart \/ CleanNext \/ Unlink \/ Dequeue \/ MaintainAck \/ MaintainDrop
           \/ ScanNext \/ RecoverStep \/ KeeperFault \/ QueueCommitLost
  <2>1. UNCHANGED <<lock, op>> /\ db'.rev = db.rev
    BY <1>7 DEF MaintainStart, CleanNext, Unlink, Dequeue, MaintainAck, MaintainDrop, ScanNext,
                RecoverStep, RecoverStart, RecoverFence, RecoverReopen, KeeperUndo, KeeperRecord,
                KeeperFault, QueueCommitLost, tables, TypeOK, TablesOK, Tables
  <2>2. keeper'.pc # "commit"
    BY <1>1, <1>7
       DEF MaintainStart, CleanNext, Unlink, Dequeue, MaintainAck, MaintainDrop, ScanNext,
           RecoverStep, RecoverStart, RecoverFence, RecoverReopen, KeeperUndo, KeeperRecord,
           KeeperFault, QueueCommitLost, KGoto, KFail, IdleKeeper, Keepers
  <2> QED
    BY <2>1, <2>2 DEF LockInv, LockOK
<1> QED
  BY <1>2, <1>3, <1>4, <1>5, <1>6, <1>7 DEF MaintainStep

\* The row lock of cache_storage protects every publication from its checks to its
\* COMMIT, and the retention transaction of maintain_inner.
THEOREM LockHeld == Spec => []LockInv
<1>1. Init => LockInv
  BY DEF Init, LockInv, LockOK, Idle, IdleKeeper, Held
<1>2. TypeOK /\ LockInv /\ [Next]_vars => LockInv'
  <2> SUFFICES ASSUME TypeOK, LockInv, [Next]_vars PROVE LockInv'
    OBVIOUS
  <2>1. CASE UNCHANGED vars
    BY <2>1 DEF vars, LockInv, LockOK
  <2>2. ASSUME NEW p \in Callers,
               \/ \E k \in Keys : LookupStart(p, k)
               \/ CallerStep(p) \/ Abandon(p) \/ Fault(p) \/ CommitLost(p)
               \/ ReserveCommitLost(p)
        PROVE  LockInv'
    BY <2>2, LockOutside, LockInside DEF CallerStep
  <2> QED
    BY <2>1, <2>2, LockElsewhere DEF Next
<1> QED
  BY <1>1, <1>2, TypeCorrect, PTL DEF Spec

\* publish_inner is serialized per query: between the checks under the row lock and
\* the COMMIT nobody moves the query past the revision observed before the upstream
\* request, for any number of callers, faults and restarts.
THEOREM PublicationSerialized == Spec => []SerializedPublication
<1>1. LockInv => SerializedPublication
  BY DEF LockInv, LockOK, Held, SerializedPublication
<1> QED
  BY <1>1, LockHeld, PTL

----------------------------------------------------------------------------
(* Evidence. *)

Busy == {"read", "live", "confirm", "put", "begin", "trim"}

\* What a step of one actor's own bookkeeping leaves alone.
ground == <<db, tx, lock, nextGen, files, late>>

\* The empty tables are sound, whatever the files.
LEMMA NoTablesSound ==
  ASSUME TypeOK PROVE Sound(NoTables)
  BY DEF Sound, NoTables, NoBlob, Files, TypeOK, TablesOK

\* retire() and trim() keep the tables sound: what they drop from the rows they
\* queue, and what they queue has no row.
LEMMA AfterImageSound ==
  ASSUME TypeOK, Sound(db), NEW S, NEW H, NEW B \in [Digests -> [gen : Nat, ready : BOOLEAN]],
         NEW E, NEW P, NEW T,
         \A s \in S : B[s.dig].ready /\ s.dig \in Digests,
         \A d \in Digests : /\ B[d].gen = db.blobs[d].gen
                            /\ B[d].ready => B[d].gen # 0 /\ <<d, B[d].gen>> \in files,
         P \subseteq {d \in Digests : B[d].gen # 0 /\ ~B[d].ready}
  PROVE  Sound(AfterImage(S, H, B, E, P, T))
<1> DEFINE R == AfterImage(S, H, B, E, P, T)
           kept == S \ E
           gone == P \union Unreferenced(B, kept)
<1>1. /\ R.snaps = kept
      /\ R.queue = db.queue \union {<<d, B[d].gen>> : d \in gone}
      /\ \A d \in Digests : R.blobs[d] = IF d \in gone THEN NoBlob ELSE B[d]
  BY DEF AfterImage, Retired
<1>2. /\ gone \subseteq Digests
      /\ \A d \in gone : B[d].gen # 0
      /\ \A s \in kept : s.dig \notin gone
  BY DEF Unreferenced
<1> HIDE DEF R, gone
<1>3. \A s \in R.snaps : R.blobs[s.dig].ready
  BY <1>1, <1>2
<1>4. \A d \in Digests :
         /\ R.blobs[d].ready => R.blobs[d].gen # 0 /\ <<d, R.blobs[d].gen>> \in files
         /\ R.blobs[d].gen \in {0, db.blobs[d].gen}
         /\ R.blobs[d].gen < nextGen
  BY <1>1 DEF Sound, NoBlob, TypeOK, TablesOK
<1>5. \A x \in R.queue : Old(x) /\ x \notin Files(R)
  <2> SUFFICES ASSUME NEW x \in R.queue PROVE Old(x) /\ x \notin Files(R)
    OBVIOUS
  <2>1. CASE x \in db.queue
    BY <1>1, <1>4, <2>1 DEF Sound, Files
  <2>2. ASSUME NEW d \in gone, x = <<d, B[d].gen>> PROVE Old(x) /\ x \notin Files(R)
    BY <1>1, <1>2, <2>2 DEF Sound, Files, Old, NoBlob
  <2> QED
    BY <1>1, <2>1, <2>2
<1> QED
  BY <1>3, <1>4, <1>5 DEF Sound, R

\* A COMMIT turns the transaction's tables into the committed ones and brings no
\* blob row to life.
LEMMA InstallSound ==
  ASSUME TypeOK, EvidenceInv, db' = tx, tx' = NoTables, UNCHANGED <<nextGen, files>>
  PROVE  Sound(db)' /\ Sound(tx)' /\ Files(db)' \subseteq Files(db)
<1>1. Sound(db)'
  BY DEF EvidenceInv, Sound, Files, Old
<1>2. Sound(tx)'
  BY DEF Sound, NoTables, NoBlob, Files, Old, TypeOK, TablesOK
<1>3. Files(tx) \subseteq Files(db)
  BY DEF EvidenceInv, Sound, Files
<1> QED
  BY <1>1, <1>2, <1>3 DEF Files

\* Unlinking a dead generation leaves both views of the tables sound.
LEMMA UnlinkSound ==
  ASSUME TypeOK, EvidenceInv, NEW x, x \notin Files(db), files' = files \ {x},
         UNCHANGED <<db, tx, nextGen>>
  PROVE  /\ Sound(db)' /\ Sound(tx)'
         /\ \A y \in Files(db)' : y \in files => y \in files'
<1>1. \A d \in Digests : /\ db.blobs[d].gen # 0 => <<d, db.blobs[d].gen>> # x
                         /\ tx.blobs[d].gen # 0 => <<d, tx.blobs[d].gen>> # x
  BY DEF EvidenceInv, Sound, Files
<1>2. Sound(db)'
  BY <1>1 DEF EvidenceInv, Sound, Files, Old
<1>3. Sound(tx)'
  BY <1>1 DEF EvidenceInv, Sound, Files, Old
<1> QED
  BY <1>2, <1>3 DEF Files

\* A step of one caller that touches nothing outside its own operation.
LEMMA EvidenceLocal ==
  ASSUME EvidenceInv, NEW p \in Callers, LocOK(op[p])',
         \A q \in Callers \ {p} : op'[q] = op[q],
         UNCHANGED <<ground, keeper>>
  PROVE  EvidenceInv'
<1>1. Sound(db)' /\ Sound(tx)' /\ (lock = "free" => tx = NoTables)' /\ PhysicalOK'
  BY DEF EvidenceInv, ground, Sound, Files, Old, PhysicalOK
<1>2. KeeperOK(keeper)'
  BY DEF EvidenceInv, ground, KeeperOK, Files, Old
<1>3. \A q \in Callers \ {p} : LocOK(op[q])'
  BY DEF EvidenceInv, ground, LocOK, Files, Old
<1> QED
  BY <1>1, <1>2, <1>3 DEF EvidenceInv

\* A step of the keeper that touches nothing outside its own state.
LEMMA EvidenceKeeper ==
  ASSUME EvidenceInv, KeeperOK(keeper)', UNCHANGED <<ground, op>>
  PROVE  EvidenceInv'
<1>1. Sound(db)' /\ Sound(tx)' /\ (lock = "free" => tx = NoTables)' /\ PhysicalOK'
  BY DEF EvidenceInv, ground, Sound, Files, Old, PhysicalOK
<1>2. \A q \in Callers : LocOK(op[q])'
  BY DEF EvidenceInv, ground, LocOK, Files, Old
<1> QED
  BY <1>1, <1>2 DEF EvidenceInv

\* Outside a publication's file work only the age of the location matters.
LEMMA LocRest ==
  ASSUME TypeOK, EvidenceInv, NEW p \in Callers, UNCHANGED nextGen,
         op'[p].pc \notin Busy, op'[p].loc = op[p].loc \/ op'[p].loc = Idle.loc
  PROVE  LocOK(op[p])'
  BY DEF EvidenceInv, LocOK, Old, Busy, Idle, TypeOK, TablesOK

\* An error or the end of an operation forgets its location.
LEMMA Leaves ==
  ASSUME TypeOK, NEW p \in Callers,
         (\E e : Fail(p, e)) \/ op' = [op EXCEPT ![p] = Idle]
  PROVE  /\ \A q \in Callers \ {p} : op'[q] = op[q]
         /\ op'[p].pc \notin Busy \union Held /\ op'[p].loc = Idle.loc
<1>1. CASE op' = [op EXCEPT ![p] = Idle]
  BY <1>1 DEF TypeOK, Idle, Busy, Held
<1>2. ASSUME NEW e, Fail(p, e)
      PROVE  /\ \A q \in Callers \ {p} : op'[q] = op[q]
             /\ op'[p].pc \notin Busy \union Held /\ op'[p].loc = Idle.loc
  <2>1. [Idle EXCEPT !.pc = "undo", !.err = e, !.bar = op[p].bar, !.evict = op[p].evict].pc = "undo"
    BY DEF Idle
  <2>2. [Idle EXCEPT !.pc = "undo", !.err = e, !.bar = op[p].bar, !.evict = op[p].evict].loc = Idle.loc
    BY DEF Idle
  <2> QED
    BY <1>2, <2>1, <2>2 DEF Fail, TypeOK, Busy, Held
<1> QED
  BY <1>1, <1>2

\* A jump keeps the rest of the operation.
LEMMA Jumps ==
  ASSUME TypeOK, NEW p \in Callers, NEW c, Goto(p, c)
  PROVE  /\ \A q \in Callers \ {p} : op'[q] = op[q]
         /\ op'[p].pc = c /\ op'[p].loc = op[p].loc /\ op'[p].dig = op[p].dig
  BY DEF TypeOK, Goto, Operations

\* Lookup steps, and the publication steps that touch neither tables nor files.
LEMMA EvidenceQuiet ==
  ASSUME TypeOK, EvidenceInv, NEW p \in Callers,
         \/ \E k \in Keys : LookupStart(p, k)
         \/ LookupQuery(p) \/ LookupHead(p) \/ LookupSnapshot(p) \/ LookupDangling(p)
         \/ LookupBlob(p) \/ LookupMissing(p)
         \/ \E d \in Digests : PublishStart(p, d)
         \/ PublishCompare(p) \/ ReadReady(p) \/ CheckLive(p) \/ ConfirmDurable(p)
         \/ PublishAuthorize(p) \/ PublishGate(p)
         \/ PublishAck(p) \/ PublishDrop(p) \/ PublishAccept(p) \/ RecordResult(p)
  PROVE  EvidenceInv'
<1>0. op \in [Callers -> Operations] /\ op[p] \in Operations
  BY DEF TypeOK
<1>1. UNCHANGED <<ground, keeper>>
  BY DEF LookupStart, LookupQuery, LookupHead, LookupSnapshot, LookupDangling, LookupBlob,
         LookupMissing, PublishStart, PublishCompare, ReadReady, CheckLive, ConfirmDurable,
         PublishAuthorize, PublishGate, PublishAck, PublishDrop, PublishAccept, RecordResult,
         tables, physical, ground
<1>2. UNCHANGED <<db, files, nextGen>>
  BY <1>1 DEF ground
<1> DEFINE Stays == \A q \in Callers \ {p} : op'[q] = op[q]
<1>3. ASSUME (\E e : Fail(p, e)) \/ op' = [op EXCEPT ![p] = Idle] PROVE Stays /\ LocOK(op[p])'
  BY <1>2, <1>3, Leaves, LocRest
<1>4. ASSUME NEW c, c \notin Busy, Goto(p, c) PROVE Stays /\ LocOK(op[p])'
  BY <1>2, <1>4, Jumps, LocRest
<1>5. CASE \E k \in Keys : LookupStart(p, k)
  <2>1. PICK k \in Keys : LookupStart(p, k)
    BY <1>5
  <2> DEFINE n == [Idle EXCEPT !.pc = "query", !.key = k, !.rec = recEpoch, !.lep = epoch]
  <2>2. op' = [op EXCEPT ![p] = n]
    BY <2>1 DEF LookupStart
  <2>3. n.pc = "query" /\ n.loc = Idle.loc
    BY DEF Idle
  <2> HIDE DEF n
  <2> QED
    BY <1>0, <1>1, <1>2, <2>2, <2>3, LocRest, EvidenceLocal DEF Busy
<1>6. CASE LookupQuery(p) \/ LookupHead(p)
  <2>1. Stays /\ op'[p].loc = op[p].loc /\ op'[p].pc \notin Busy
    BY <1>0, <1>6 DEF LookupQuery, LookupHead, Operations, Busy
  <2> QED
    BY <1>1, <1>2, <2>1, LocRest, EvidenceLocal
<1>7. CASE LookupSnapshot(p)
  <2>1. \/ Goto(p, "dangling") \/ Fail(p, "corrupt")
        \/ \E s \in db.snaps : op' = [op EXCEPT ![p].pc = "blob",
                                                ![p].loc = <<s.dig, db.blobs[s.dig].gen>>]
    BY <1>7 DEF LookupSnapshot
  <2>2. ASSUME NEW s \in db.snaps,
               op' = [op EXCEPT ![p].pc = "blob", ![p].loc = <<s.dig, db.blobs[s.dig].gen>>]
        PROVE  Stays /\ LocOK(op[p])'
    <3>1. Stays /\ op'[p].pc = "blob" /\ op'[p].loc = <<s.dig, db.blobs[s.dig].gen>>
      BY <1>0, <2>2 DEF Operations
    <3>2. db.blobs[s.dig].gen < nextGen
      BY DEF EvidenceInv, Sound, TypeOK, TablesOK, Tables, Snapshots
    <3> QED
      BY <1>2, <3>1, <3>2 DEF LocOK, Old
  <2> QED
    BY <1>1, <1>3, <1>4, <2>1, <2>2, EvidenceLocal DEF Busy
<1>8. CASE LookupDangling(p)
  <2>1. CASE Fail(p, "corrupt")
    BY <1>1, <1>3, <2>1, EvidenceLocal
  <2>2. CASE op' = [op EXCEPT ![p].val = 0, ![p].pc = "found"]
    <3>1. Stays /\ op'[p].loc = op[p].loc /\ op'[p].pc \notin Busy
      BY <1>0, <2>2 DEF Operations, Busy
    <3> QED
      BY <1>1, <1>2, <3>1, LocRest, EvidenceLocal
  <2> QED
    BY <1>8, <2>1, <2>2 DEF LookupDangling
<1>9. CASE \/ LookupBlob(p) \/ LookupMissing(p) \/ CheckLive(p) \/ PublishAuthorize(p)
           \/ PublishGate(p) \/ PublishAck(p) \/ RecordResult(p)
  <2>1. \/ (\E e : Fail(p, e)) \/ op' = [op EXCEPT ![p] = Idle]
        \/ \E c \in {"found", "missing", "dangling", "gate", "commit", "drop"} : Goto(p, c)
    BY <1>9 DEF LookupBlob, LookupMissing, CheckLive, PublishAuthorize, PublishGate, PublishAck,
                RecordResult
  <2> QED
    BY <1>1, <1>3, <1>4, <2>1, EvidenceLocal DEF Busy
<1>10. CASE \E d \in Digests : PublishStart(p, d)
  <2>1. PICK d \in Digests : PublishStart(p, d)
    BY <1>10
  <2> DEFINE n == [op[p] EXCEPT !.pc = "query", !.pub = TRUE, !.dig = d, !.exp = op[p].obs,
                                !.start = epoch, !.lep = epoch]
  <2>2. op' = [op EXCEPT ![p] = n]
    BY <1>0, <2>1 DEF PublishStart
  <2>3. n.pc = "query" /\ n.loc = op[p].loc
    BY <1>0 DEF Operations
  <2> HIDE DEF n
  <2> QED
    BY <1>0, <1>1, <1>2, <2>2, <2>3, LocRest, EvidenceLocal DEF Busy
<1>11. CASE PublishCompare(p)
  <2>1. CASE op' = [op EXCEPT ![p] = Idle]
    BY <1>1, <1>3, <2>1, EvidenceLocal
  <2> DEFINE u == op[p].val # 0 /\ op[p].loc[1] = op[p].dig
             n == [op[p] EXCEPT !.pc = "reserve", !.obs = 0, !.lep = 0, !.unch = u]
  <2>2. CASE op' = [op EXCEPT ![p].pc = "reserve", ![p].obs = 0, ![p].lep = 0, ![p].unch = u]
    <3>1. op' = [op EXCEPT ![p] = n]
      BY <1>0, <2>2
    <3>2. n.pc = "reserve" /\ n.loc = op[p].loc
      BY <1>0 DEF Operations
    <3> HIDE DEF n
    <3> QED
      BY <1>0, <1>1, <1>2, <3>1, <3>2, LocRest, EvidenceLocal DEF Busy
  <2> QED
    BY <1>11, <2>1, <2>2 DEF PublishCompare
<1>12. CASE ReadReady(p) \/ ConfirmDurable(p)
  <2>1. \/ Fail(p, "corrupt")
        \/ Goto(p, "live") /\ op[p].pc = "read"
        \/ /\ op[p].loc \in files /\ op[p].pc \in {"read", "confirm"}
           /\ Goto(p, "confirm") \/ Goto(p, "begin")
    BY <1>12 DEF ReadReady, ConfirmDurable
  <2>2. ASSUME op[p].pc \in {"read", "confirm"}, NEW c \in {"live", "confirm", "begin"}, Goto(p, c),
               c = "begin" => op[p].loc \in files
        PROVE  Stays /\ LocOK(op[p])'
    BY <1>2, <2>2, Jumps DEF EvidenceInv, LocOK, Old
  <2> QED
    BY <1>1, <1>3, <2>1, <2>2, EvidenceLocal
<1>13. CASE PublishDrop(p) \/ PublishAccept(p)
  <2>1. Stays /\ op'[p].loc = op[p].loc /\ op'[p].pc \notin Busy
    BY <1>0, <1>13 DEF PublishDrop, PublishAccept, Operations, Busy
  <2> QED
    BY <1>1, <1>2, <2>1, LocRest, EvidenceLocal
<1> QED
  BY <1>5, <1>6, <1>7, <1>8, <1>9, <1>10, <1>11, <1>12, <1>13

\* A reservation gives a digest without a row a generation nothing has named yet.
LEMMA EvidenceReserve ==
  ASSUME TypeOK, EvidenceInv, NEW p \in Callers, NEW d \in Digests, Reserve(d),
         lock = "free", UNCHANGED <<lock, tx, files, late, keeper>>,
         \A q \in Callers \ {p} : op'[q] = op[q], LocOK(op[p])'
  PROVE  EvidenceInv'
<1>0. /\ op \in [Callers -> Operations] /\ tx = NoTables
      /\ nextGen \in Nat \ {0} /\ db \in Tables
  BY DEF TypeOK, TablesOK, EvidenceInv
<1>1. /\ db' = [db EXCEPT !.blobs[d] = Reservation(d)]
      /\ nextGen' = IF db.blobs[d].gen # 0 THEN nextGen ELSE nextGen + 1
  BY DEF Reserve
<1>3. \A e \in Digests : db.blobs[e] \in [gen : Nat, ready : BOOLEAN] /\ db.blobs[e].gen < nextGen
  BY <1>0 DEF EvidenceInv, Sound, Tables
<1>5. CASE db.blobs[d].gen # 0
  <2>1. db' = db /\ nextGen' = nextGen
    BY <1>0, <1>1, <1>5 DEF Reservation, Tables
  <2> QED
    BY <1>0, <2>1, EvidenceLocal DEF ground
<1>6. CASE db.blobs[d].gen = 0
  <2>1. /\ db'.snaps = db.snaps /\ db'.queue = db.queue /\ nextGen' = nextGen + 1
        /\ \A e \in Digests : db'.blobs[e] = IF e = d THEN [gen |-> nextGen, ready |-> FALSE]
                                             ELSE db.blobs[e]
    BY <1>0, <1>1, <1>6 DEF Reservation, Tables
  <2>2. Files(db)' = Files(db) \union {<<d, nextGen>>}
    BY <1>0, <1>6, <2>1 DEF Files
  <2>3. \A x : Old(x) => x # <<d, nextGen>>
    BY <1>0 DEF Old
  <2>4. \A x \in Locations : Old(x) => Old(x)'
    BY <1>0, <2>1 DEF Old, Locations
  <2>5. Sound(db)'
    <3>1. \A s \in db'.snaps : db'.blobs[s.dig].ready
      <4>1. \A s \in db.snaps : s.dig \in Digests /\ db.blobs[s.dig].ready
        BY <1>0 DEF EvidenceInv, Sound, Tables, Snapshots
      <4>2. \A s \in db.snaps : s.dig # d
        BY <1>0, <1>6, <4>1 DEF EvidenceInv, Sound
      <4> QED
        BY <2>1, <4>1, <4>2
    <3>2. \A e \in Digests :
             /\ db'.blobs[e].ready => db'.blobs[e].gen # 0 /\ <<e, db'.blobs[e].gen>> \in files'
             /\ db'.blobs[e].gen < nextGen'
      BY <1>0, <1>3, <2>1 DEF EvidenceInv, Sound
    <3>3. \A x \in db'.queue : Old(x)' /\ x \notin Files(db)'
      BY <1>0, <2>1, <2>2, <2>3, <2>4 DEF EvidenceInv, Sound, Tables
    <3> QED
      BY <3>1, <3>2, <3>3 DEF Sound, Files, Old
  <2>6. Sound(tx)'
    BY <1>0, <2>1 DEF Sound, NoTables, NoBlob, Files, Old
  <2>7. \A q \in Callers \ {p} : LocOK(op[q])'
    <3> SUFFICES ASSUME NEW q \in Callers \ {p} PROVE LocOK(op[q])'
      OBVIOUS
    <3>1. LocOK(op[q]) /\ op'[q] = op[q] /\ op[q].loc \in Locations
      BY <1>0 DEF EvidenceInv, Operations
    <3>2. Old(op[q].loc)' /\ (op[q].loc \in Files(db)' <=> op[q].loc \in Files(db))
      BY <2>2, <2>3, <2>4, <3>1 DEF LocOK, Old
    <3> QED
      BY <1>0, <3>1, <3>2 DEF LocOK, Old
  <2>8. KeeperOK(keeper)'
    <3>1. KeeperOK(keeper) /\ keeper.loc \in Locations /\ keeper.todo \subseteq Locations
      BY DEF EvidenceInv, TypeOK, Keepers
    <3>2. Old(keeper.loc)' /\ \A x \in keeper.todo : Old(x)'
      BY <1>0, <2>4, <3>1 DEF KeeperOK, Old
    <3> QED
      BY <1>0, <2>2, <2>3, <3>1, <3>2 DEF KeeperOK, Old
  <2>9. PhysicalOK'
    <3>1. PhysicalOK /\ files \subseteq Locations /\ \A j \in late : j.loc \in Locations
      BY DEF EvidenceInv, TypeOK, FilesOK
    <3>2. (\A x \in files : Old(x)') /\ (\A j \in late : Old(j.loc)')
      BY <2>4, <3>1 DEF PhysicalOK
    <3> QED
      BY <1>0, <2>2, <2>3, <3>1, <3>2 DEF PhysicalOK, Old
  <2> QED
    BY <1>0, <2>5, <2>6, <2>7, <2>8, <2>9 DEF EvidenceInv
<1> QED
  BY <1>5, <1>6

\* reserve_blob, whether or not the answer to its COMMIT arrives.
LEMMA EvidenceReserved ==
  ASSUME TypeOK, EvidenceInv, NEW p \in Callers, ReserveBlob(p) \/ ReserveCommitLost(p)
  PROVE  EvidenceInv'
<1> DEFINE d == op[p].dig
           row == Reservation(d)
<1>0. /\ op \in [Callers -> Operations] /\ op[p] \in Operations /\ d \in Digests
      /\ lock = "free" /\ UNCHANGED <<lock, tx, files, late, keeper>>
      /\ nextGen \in Nat \ {0} /\ row \in [gen : Nat, ready : BOOLEAN]
  BY ReserveType DEF TypeOK, TablesOK, ReserveBlob, ReserveCommitLost, Operations, physical
<1>1. CASE ReserveBlob(p)
  <2>1. /\ Reserve(d)
        /\ op' = [op EXCEPT ![p].loc = <<d, row.gen>>, ![p].pc = IF row.ready THEN "read" ELSE "put"]
    BY <1>1 DEF ReserveBlob
  <2>2. /\ \A q \in Callers \ {p} : op'[q] = op[q]
        /\ op'[p].loc = <<d, row.gen>> /\ op'[p].dig = d /\ op'[p].pc \in {"read", "put"}
    <3> HIDE DEF row
    <3> QED
      BY <1>0, <2>1 DEF Operations
  <2>3. row.gen < nextGen'
    <3>1. db.blobs[d].gen \in Nat /\ db.blobs[d].gen < nextGen
      BY <1>0 DEF EvidenceInv, Sound, TypeOK, TablesOK, Tables
    <3>2. nextGen' = IF db.blobs[d].gen # 0 THEN nextGen ELSE nextGen + 1
      BY <2>1 DEF Reserve
    <3>3. row.gen = IF db.blobs[d].gen # 0 THEN db.blobs[d].gen ELSE nextGen
      BY DEF Reservation
    <3> QED
      BY <1>0, <3>1, <3>2, <3>3
  <2>4. LocOK(op[p])'
    BY <2>2, <2>3 DEF LocOK, Old
  <2> QED
    BY <1>0, <2>1, <2>2, <2>4, EvidenceReserve
<1>2. CASE ReserveCommitLost(p)
  <2>1. /\ \A q \in Callers \ {p} : op'[q] = op[q]
        /\ op'[p].pc \notin Busy /\ op'[p].loc = Idle.loc
    BY <1>2, Leaves DEF ReserveCommitLost
  <2>2. nextGen' \in Nat \ {0}
    BY <1>0, <1>2, ReserveType DEF ReserveCommitLost
  <2>3. LocOK(op[p])'
    BY <2>1, <2>2 DEF LocOK, Old, Busy, Idle
  <2>4. CASE Reserve(d)
    BY <1>0, <2>1, <2>3, <2>4, EvidenceReserve
  <2>5. CASE UNCHANGED <<db, nextGen>>
    BY <1>0, <2>1, <2>3, <2>5, EvidenceLocal DEF ground
  <2> QED
    BY <1>2, <2>4, <2>5 DEF ReserveCommitLost
<1> QED
  BY <1>1, <1>2

\* The file, the publishing transaction and its outcome.
LEMMA EvidencePublish ==
  ASSUME TypeOK, LockInv, EvidenceInv, NEW p \in Callers,
         \/ PutIfAbsent(p) \/ PublishBegin(p) \/ PublishTrim(p) \/ PublishCommit(p)
         \/ Undo(p) \/ CommitLost(p) \/ Abandon(p) \/ Fault(p)
  PROVE  EvidenceInv'
<1>0. /\ op \in [Callers -> Operations] /\ op[p] \in Operations
      /\ p \notin {"free", "ghost", "keeper"} /\ nextGen \in Nat \ {0}
      /\ LocOK(op[p]) /\ op[p].loc \in Locations
  BY StoreAssumption DEF TypeOK, TablesOK, EvidenceInv, Operations
<1> DEFINE Stays == \A q \in Callers \ {p} : op'[q] = op[q]
<1>1. CASE PutIfAbsent(p)
  <2>1. /\ UNCHANGED <<db, tx, lock, nextGen, late, keeper>>
        /\ files' = files \union {op[p].loc} /\ Goto(p, "begin") /\ op[p].pc = "put"
    BY <1>1 DEF PutIfAbsent, tables
  <2>2. Stays /\ op'[p].pc = "begin" /\ op'[p].loc = op[p].loc /\ op'[p].dig = op[p].dig
    BY <2>1, Jumps
  <2>3. Sound(db)' /\ Sound(tx)'
    BY <2>1 DEF EvidenceInv, Sound, Files, Old
  <2>4. \A q \in Callers : LocOK(op[q])'
    <3>1. LocOK(op[p])'
      BY <1>0, <2>1, <2>2 DEF LocOK, Files, Old
    <3>2. \A q \in Callers \ {p} : LocOK(op[q])'
      BY <2>1, <2>2 DEF EvidenceInv, LocOK, Files, Old
    <3> QED
      BY <3>1, <3>2
  <2>5. KeeperOK(keeper)' /\ PhysicalOK'
    BY <1>0, <2>1 DEF EvidenceInv, KeeperOK, PhysicalOK, LocOK, Files, Old
  <2> QED
    BY <2>1, <2>3, <2>4, <2>5 DEF EvidenceInv
<1>2. CASE PublishBegin(p)
  <2>1. /\ UNCHANGED <<db, tx, nextGen, files, late, keeper>>
        /\ op[p].pc = "begin" /\ lock = "free" /\ tx = NoTables /\ keeper.pc # "commit"
    BY <1>2 DEF PublishBegin, physical, EvidenceInv, LockInv
  <2>2. Stays /\ LocOK(op[p])'
    <3>1. CASE Fail(p, "none")
      BY <2>1, <3>1, Leaves, LocRest
    <3>2. CASE Goto(p, "trim") /\ Unmoved(p)
      BY <1>0, <2>1, <3>2, Jumps DEF LocOK, Unmoved, Files, Old
    <3> QED
      BY <1>2, <3>1, <3>2 DEF PublishBegin
  <2>3. Sound(db)' /\ Sound(tx)' /\ PhysicalOK' /\ KeeperOK(keeper)'
    BY <2>1 DEF EvidenceInv, Sound, PhysicalOK, KeeperOK, Files, Old
  <2>4. \A q \in Callers \ {p} : LocOK(op[q])'
    BY <2>1, <2>2 DEF EvidenceInv, LocOK, Files, Old
  <2> QED
    BY <2>1, <2>2, <2>3, <2>4 DEF EvidenceInv
<1>3. CASE PublishTrim(p)
  <2> DEFINE o == op[p]
             id == IF o.unch THEN o.val ELSE mut + 1
             S == IF o.unch THEN db.snaps
                  ELSE db.snaps \union {[id |-> id, key |-> o.key, dig |-> o.dig]}
             H == [db.head EXCEPT ![o.key] = id]
             B == IF o.unch THEN db.blobs ELSE [db.blobs EXCEPT ![o.dig].ready = TRUE]
  <2>1. PICK E \in Trims(S, H, id) :
          IF E = {} \/ st = "ready"
          THEN /\ tx' = AfterImage(S, H, B, E, {}, {o.key})
               /\ IF E = {} THEN UNCHANGED <<st, epoch>> ELSE BarrierEnter
               /\ op' = [op EXCEPT ![p].pc = "authorize", ![p].val = id,
                                   ![p].bar = E # {}, ![p].evict = Ids(E)]
          ELSE Fail(p, "none") /\ UNCHANGED <<tx, st, epoch>>
    BY <1>3 DEF PublishTrim
  <2>2. /\ UNCHANGED <<db, lock, nextGen, files, late, keeper>>
        /\ o.pc = "trim" /\ lock = p /\ lock # "free" /\ db \in Tables
    BY <1>0, <1>3 DEF PublishTrim, physical, LockInv, LockOK, Held, TypeOK, TablesOK
  <2>3. /\ o.dig \in Digests /\ o.loc = <<o.dig, db.blobs[o.dig].gen>>
        /\ db.blobs[o.dig].gen # 0 /\ o.loc \in files
    <3>1. o.loc \in Files(db) /\ o.loc \in files /\ o.loc[1] = o.dig
      BY <1>0, <2>2 DEF LocOK
    <3> QED
      BY <1>0, <3>1 DEF Files, Operations
  <2>4. B \in [Digests -> [gen : Nat, ready : BOOLEAN]]
    BY <2>2, <2>3 DEF Tables
  <2>5. \A d \in Digests : /\ B[d].gen = db.blobs[d].gen
                           /\ B[d].ready => B[d].gen # 0 /\ <<d, B[d].gen>> \in files
    BY <2>2, <2>3 DEF Tables, EvidenceInv, Sound
  <2>6. \A s \in S : B[s.dig].ready /\ s.dig \in Digests
    <3>1. \A s \in db.snaps : s.dig \in Digests /\ db.blobs[s.dig].ready
      BY <2>2 DEF EvidenceInv, Sound, Tables, Snapshots
    <3>2. \A d \in Digests : (db.blobs[d].ready \/ (~o.unch /\ d = o.dig)) => B[d].ready
      BY <2>2, <2>3 DEF Tables
    <3>3. \A s \in S : s \in db.snaps \/ (~o.unch /\ s.dig = o.dig)
      OBVIOUS
    <3> HIDE DEF S, B
    <3> QED
      BY <2>3, <3>1, <3>2, <3>3
  <2> HIDE DEF S, H, B, id
  <2>7. CASE E = {} \/ st = "ready"
    <3>1. Sound(AfterImage(S, H, B, E, {}, {o.key}))
      BY <2>4, <2>5, <2>6, AfterImageSound DEF EvidenceInv
    <3>2. Sound(tx)'
      BY <2>1, <2>2, <2>7, <3>1, ZenonT(40) DEF Sound, Files, Old
    <3>3. Stays /\ op'[p].pc = "authorize" /\ op'[p].loc = op[p].loc
      <4> DEFINE n == [op[p] EXCEPT !.pc = "authorize", !.val = id, !.bar = E # {}, !.evict = Ids(E)]
      <4>1. op' = [op EXCEPT ![p] = n]
        BY <1>0, <2>1, <2>7
      <4>2. n.pc = "authorize" /\ n.loc = op[p].loc
        BY <1>0 DEF Operations
      <4> HIDE DEF n
      <4> QED
        BY <1>0, <4>1, <4>2
    <3>4. LocOK(op[p])'
      BY <2>2, <3>3, LocRest DEF Busy
    <3>5. \A q \in Callers \ {p} : LocOK(op[q])'
      BY <2>2, <3>3 DEF EvidenceInv, LocOK, Files, Old
    <3>6. Sound(db)' /\ PhysicalOK' /\ KeeperOK(keeper)'
      BY <2>2 DEF EvidenceInv, Sound, PhysicalOK, KeeperOK, Files, Old
    <3> QED
      BY <2>2, <3>2, <3>4, <3>5, <3>6 DEF EvidenceInv
  <2>8. CASE ~(E = {} \/ st = "ready")
    <3>1. Fail(p, "none") /\ UNCHANGED tx
      BY <2>1, <2>8
    <3> QED
      BY <2>2, <3>1, Leaves, LocRest, EvidenceLocal DEF ground
  <2> QED
    BY <2>7, <2>8
<1>4. CASE PublishCommit(p)
  <2>1. /\ db' = tx /\ tx' = NoTables /\ UNCHANGED <<nextGen, files, late, keeper>>
        /\ op[p].pc = "commit" /\ lock = p
    BY <1>4 DEF PublishCommit, physical, LockInv, LockOK, Held
  <2> DEFINE n == [Idle EXCEPT !.pc = "ack", !.val = op[p].val, !.bar = op[p].bar,
                               !.evict = op[p].evict]
  <2>2. op' = [op EXCEPT ![p] = n]
    BY <1>4 DEF PublishCommit
  <2>3. n.pc = "ack" /\ n.loc = Idle.loc
    BY DEF Idle
  <2>4. Stays /\ LocOK(op[p])'
    <3> HIDE DEF n
    <3> QED
      BY <1>0, <2>1, <2>2, <2>3, LocRest DEF Busy
  <2>5. Sound(db)' /\ Sound(tx)' /\ Files(db)' \subseteq Files(db)
    BY <2>1, InstallSound
  <2>6. \A q \in Callers \ {p} : op[q].pc # "trim"
    BY <2>1 DEF LockInv, LockOK, Held
  <2>7. \A q \in Callers \ {p} : LocOK(op[q])'
    BY <2>1, <2>4, <2>5, <2>6 DEF EvidenceInv, LocOK, Old
  <2>8. KeeperOK(keeper)' /\ PhysicalOK'
    <3>1. keeper.pc # "commit"
      BY <1>0, <2>1 DEF LockInv
    <3> QED
      BY <2>1, <2>5, <3>1 DEF EvidenceInv, KeeperOK, PhysicalOK, Old
  <2> QED
    BY <2>1, <2>4, <2>5, <2>7, <2>8 DEF EvidenceInv
<1>5. CASE Undo(p)
  <2>1. /\ UNCHANGED <<db, nextGen, files, late, keeper>>
        /\ \/ lock = p /\ lock' = "free" /\ tx' = NoTables
           \/ UNCHANGED <<lock, tx>>
    BY <1>5 DEF Undo, physical
  <2>2. Stays /\ op'[p].pc = "record" /\ op'[p].loc = op[p].loc
    BY <1>0, <1>5 DEF Undo, Operations
  <2>3. LocOK(op[p])'
    BY <2>1, <2>2, LocRest DEF Busy
  <2>4. CASE UNCHANGED <<lock, tx>>
    BY <2>1, <2>2, <2>3, <2>4, EvidenceLocal DEF ground
  <2>5. CASE lock = p /\ lock' = "free" /\ tx' = NoTables
    <3>1. Sound(tx)'
      BY <1>0, <2>1, <2>5 DEF Sound, NoTables, NoBlob, Files, Old
    <3>2. Sound(db)' /\ PhysicalOK'
      BY <2>1 DEF EvidenceInv, Sound, PhysicalOK, Files, Old
    <3>3. KeeperOK(keeper)'
      BY <1>0, <2>1, <2>5 DEF EvidenceInv, KeeperOK, LockInv, Files, Old
    <3>4. \A q \in Callers \ {p} : LocOK(op[q])'
      BY <2>1, <2>2 DEF EvidenceInv, LocOK, Files, Old
    <3> QED
      BY <2>3, <2>5, <3>1, <3>2, <3>3, <3>4 DEF EvidenceInv
  <2> QED
    BY <2>1, <2>4, <2>5
<1>6. CASE CommitLost(p)
  <2>1. /\ UNCHANGED <<db, tx, nextGen, files, late, keeper>> /\ Fail(p, "unavailable")
        /\ UNCHANGED lock \/ (lock' = "ghost" /\ lock = p)
    BY <1>6 DEF CommitLost, physical, LockInv, LockOK, Held
  <2>2. Stays /\ LocOK(op[p])'
    BY <2>1, Leaves, LocRest
  <2>3. Sound(db)' /\ Sound(tx)' /\ PhysicalOK'
    BY <2>1 DEF EvidenceInv, Sound, PhysicalOK, Files, Old
  <2>4. KeeperOK(keeper)'
    BY <1>0, <2>1 DEF EvidenceInv, KeeperOK, LockInv, Files, Old
  <2>5. \A q \in Callers \ {p} : LocOK(op[q])'
    BY <2>1, <2>2 DEF EvidenceInv, LocOK, Files, Old
  <2>6. (lock = "free" => tx = NoTables)'
    BY <2>1 DEF EvidenceInv
  <2> QED
    BY <2>2, <2>3, <2>4, <2>5, <2>6 DEF EvidenceInv
<1>7. CASE Abandon(p) \/ Fault(p)
  <2>1. /\ UNCHANGED <<db, tx, lock, nextGen, files, keeper>> /\ late' = LateAfter(p)
        /\ (\E e : Fail(p, e)) \/ op' = [op EXCEPT ![p] = Idle]
    BY <1>7 DEF Abandon, Fault, tables
  <2>2. Stays /\ LocOK(op[p])'
    BY <2>1, Leaves, LocRest
  <2>3. Sound(db)' /\ Sound(tx)' /\ KeeperOK(keeper)' /\ (lock = "free" => tx = NoTables)'
    BY <2>1 DEF EvidenceInv, Sound, KeeperOK, Files, Old
  <2>4. PhysicalOK'
    BY <1>0, <2>1 DEF EvidenceInv, PhysicalOK, LateAfter, LocOK, Files, Old
  <2>5. \A q \in Callers \ {p} : LocOK(op[q])'
    BY <2>1, <2>2 DEF EvidenceInv, LocOK, Files, Old
  <2> QED
    BY <2>2, <2>3, <2>4, <2>5 DEF EvidenceInv
<1> QED
  BY <1>1, <1>2, <1>3, <1>4, <1>5, <1>6, <1>7

\* The steps of maintain_inner and recover(), and their failures.
LEMMA EvidenceMaintain ==
  ASSUME TypeOK, LockInv, EvidenceInv,
         MaintainStep \/ RecoverStep \/ KeeperFault \/ KeeperCommitLost \/ QueueCommitLost
  PROVE  EvidenceInv'
<1>0. /\ keeper \in Keepers /\ KeeperOK(keeper) /\ nextGen \in Nat \ {0} /\ db \in Tables
      /\ Old(IdleKeeper.loc) /\ IdleKeeper.todo = {} /\ IdleKeeper.pc = "idle"
      /\ \A x \in db.queue \union files : Old(x)
  BY DEF TypeOK, TablesOK, EvidenceInv, Sound, PhysicalOK, IdleKeeper, Old
<1>1. ASSUME NEW e, KFail(e), UNCHANGED nextGen PROVE KeeperOK(keeper)'
  <2>1. keeper'.pc = "undo" /\ keeper'.loc = IdleKeeper.loc /\ keeper'.todo = {}
    BY <1>1 DEF KFail, IdleKeeper
  <2> QED
    BY <1>0, <1>1, <2>1 DEF KeeperOK, Old
<1>2. CASE \/ MaintainStart \/ CleanNext \/ MaintainAck \/ MaintainDrop
           \/ RecoverStart \/ RecoverFence \/ RecoverReopen \/ KeeperUndo \/ KeeperRecord
  <2>1. UNCHANGED <<ground, op>>
    BY <1>2 DEF MaintainStart, CleanNext, MaintainAck, MaintainDrop, RecoverStart, RecoverFence,
                RecoverReopen, KeeperUndo, KeeperRecord, tables, physical, ground
  <2>2. UNCHANGED <<db, nextGen, lock>>
    BY <2>1 DEF ground
  <2>3. ASSUME keeper'.pc \notin {"commit", "unlink"},
               keeper'.loc = keeper.loc \/ keeper'.loc = IdleKeeper.loc,
               \/ keeper'.todo = {} \/ keeper'.todo = keeper.todo
               \/ keeper'.todo = db.queue \/ keeper'.todo = files
        PROVE  KeeperOK(keeper)'
    BY <1>0, <2>2, <2>3 DEF KeeperOK, Old
  <2>4. CASE MaintainStart \/ RecoverStart \/ KeeperRecord
    BY <1>0, <2>1, <2>3, <2>4, EvidenceKeeper DEF MaintainStart, RecoverStart, KeeperRecord, IdleKeeper
  <2>5. CASE CleanNext
    <3>1. CASE KFail("corrupt")
      BY <1>1, <2>1, <2>2, <3>1, EvidenceKeeper
    <3>2. ASSUME NEW x \in keeper.todo, x \notin Files(db),
                 keeper' = [keeper EXCEPT !.pc = "unlink", !.loc = x]
          PROVE  KeeperOK(keeper)'
      <4>1. keeper'.pc = "unlink" /\ keeper'.loc = x /\ keeper'.todo = keeper.todo
        BY <1>0, <3>2 DEF Keepers
      <4> QED
        BY <1>0, <2>2, <3>2, <4>1 DEF KeeperOK, Files, Old
    <3>3. CASE keeper' = [keeper EXCEPT !.pc = "scan", !.todo = files]
      <4>1. keeper'.pc = "scan" /\ keeper'.loc = keeper.loc /\ keeper'.todo = files
        BY <1>0, <3>3 DEF Keepers
      <4> QED
        BY <2>1, <2>3, <4>1, EvidenceKeeper
    <3>4. CASE keeper' = [keeper EXCEPT !.pc = "trim"]
      <4>1. keeper'.pc = "trim" /\ keeper'.loc = keeper.loc /\ keeper'.todo = keeper.todo
        BY <1>0, <3>4 DEF Keepers
      <4> QED
        BY <2>1, <2>3, <4>1, EvidenceKeeper
    <3> QED
      BY <2>1, <2>5, <3>1, <3>2, <3>3, <3>4, EvidenceKeeper DEF CleanNext
  <2>6. CASE MaintainAck \/ RecoverFence \/ KeeperUndo \/ MaintainDrop
    <3>1. /\ keeper'.pc \in {"drop", "reopen", "record", "clean"} /\ keeper'.loc = keeper.loc
          /\ keeper'.todo = keeper.todo \/ keeper'.todo = db.queue
      BY <1>0, <2>6 DEF MaintainAck, RecoverFence, KeeperUndo, MaintainDrop, KGoto, Keepers
    <3> QED
      BY <2>1, <2>3, <3>1, EvidenceKeeper
  <2>7. CASE RecoverReopen
    <3>1. KeeperOK(keeper)'
      BY <1>0, <1>1, <2>2, <2>3, <2>7 DEF RecoverReopen
    <3> QED
      BY <2>1, <3>1, EvidenceKeeper
  <2> QED
    BY <1>2, <2>4, <2>5, <2>6, <2>7
<1>3. CASE Unlink
  <2>1. /\ UNCHANGED <<db, tx, lock, nextGen, late, op>> /\ files' = files \ {keeper.loc}
        /\ keeper.pc = "unlink" /\ keeper.loc \notin Files(db)
    BY <1>0, <1>3 DEF Unlink, tables, KeeperOK
  <2>2. /\ Sound(db)' /\ Sound(tx)'
        /\ \A y \in Files(db)' : y \in files => y \in files'
    BY <2>1, UnlinkSound
  <2>3. keeper'.pc = "dequeue" /\ keeper'.loc = keeper.loc /\ keeper'.todo = keeper.todo
    BY <1>0, <1>3 DEF Unlink, KGoto, Keepers
  <2>4. KeeperOK(keeper)' /\ PhysicalOK' /\ (lock = "free" => tx = NoTables)'
    BY <1>0, <2>1, <2>3 DEF EvidenceInv, KeeperOK, PhysicalOK, Files, Old
  <2>5. \A p \in Callers : LocOK(op[p])'
    <3>1. Files(db)' = Files(db)
      BY <2>1 DEF Files
    <3> QED
      BY <2>1, <2>2, <3>1 DEF EvidenceInv, LocOK, Old
  <2> QED
    BY <2>2, <2>4, <2>5 DEF EvidenceInv
<1>4. CASE Dequeue \/ ScanNext \/ QueueCommitLost
  <2>1. /\ UNCHANGED <<tx, lock, nextGen, files, late, op>>
        /\ UNCHANGED db \/ lock = "free"
        /\ db'.snaps = db.snaps /\ db'.blobs = db.blobs
        /\ \A x \in db'.queue : x \in db.queue \/ (x \in keeper.todo /\ x \notin Files(db))
    BY <1>0, <1>4 DEF Dequeue, ScanNext, QueueCommitLost, physical, Tables, Orphan
  <2>2. Files(db)' = Files(db) /\ \A x : Old(x)' <=> Old(x)
    BY <2>1 DEF Files, Old
  <2>3. Sound(db)'
    <3>1. \A x \in db'.queue : Old(x)' /\ x \notin Files(db)'
      BY <1>0, <2>1, <2>2 DEF EvidenceInv, Sound, KeeperOK
    <3>2. Sound(db)
      BY DEF EvidenceInv
    <3> QED
      BY <2>1, <3>1, <3>2 DEF Sound, Files, Old
  <2>4. Sound(tx)'
    BY <2>1 DEF EvidenceInv, Sound, Files, Old
  <2>5. KeeperOK(keeper)'
    <3>1. /\ keeper'.pc \notin {"commit", "unlink"}
          /\ keeper'.loc = keeper.loc \/ keeper'.loc = IdleKeeper.loc
          /\ keeper'.todo \subseteq keeper.todo
      <4>1. CASE Dequeue
        <5>1. keeper' = [keeper EXCEPT !.pc = "clean", !.todo = keeper.todo \ {keeper.loc},
                                       !.loc = IdleKeeper.loc]
          BY <4>1 DEF Dequeue
        <5>2. /\ keeper'.pc = "clean" /\ keeper'.loc = IdleKeeper.loc
              /\ keeper'.todo = keeper.todo \ {keeper.loc}
          BY <1>0, <5>1 DEF Keepers
        <5> QED
          BY <5>2
      <4>2. ASSUME ScanNext, NEW x, keeper' = [keeper EXCEPT !.todo = keeper.todo \ {x}]
            PROVE  /\ keeper'.pc = "scan" /\ keeper'.loc = keeper.loc
                   /\ keeper'.todo \subseteq keeper.todo
        BY <1>0, <4>2 DEF ScanNext, Keepers
      <4>3. CASE ScanNext /\ keeper' = IdleKeeper
        BY <1>0, <4>3
      <4>4. CASE QueueCommitLost
        BY <1>0, <4>4 DEF QueueCommitLost, KFail, IdleKeeper
      <4> QED
        BY <1>4, <4>1, <4>2, <4>3, <4>4 DEF ScanNext
    <3> QED
      BY <1>0, <2>1, <3>1 DEF KeeperOK, Old
  <2>6. PhysicalOK' /\ (lock = "free" => tx = NoTables)'
    BY <2>1, <2>2 DEF EvidenceInv, PhysicalOK, Old
  <2>7. \A p \in Callers : LocOK(op[p])'
    BY <2>1, <2>2 DEF EvidenceInv, LocOK, Old
  <2> QED
    BY <2>3, <2>4, <2>5, <2>6, <2>7 DEF EvidenceInv
<1>5. CASE MaintainTrim
  <2>1. PICK E \in Trims(db.snaps, db.head, 0),
             P \in SUBSET {d \in Digests : db.blobs[d].gen # 0 /\ ~db.blobs[d].ready} :
          IF E = {} \/ st = "ready"
          THEN /\ tx' = AfterImage(db.snaps, db.head, db.blobs, E, P, {})
               /\ lock' = "keeper"
               /\ IF E = {} THEN UNCHANGED <<st, epoch>> ELSE BarrierEnter
               /\ keeper' = [keeper EXCEPT !.pc = "commit", !.bar = E # {}, !.evict = Ids(E)]
          ELSE KFail("none") /\ UNCHANGED <<tx, lock, st, epoch>>
    BY <1>5 DEF MaintainTrim
  <2>2. UNCHANGED <<db, nextGen, files, late, op>>
    BY <1>5 DEF MaintainTrim, physical
  <2>3. CASE ~(E = {} \/ st = "ready")
    BY <1>1, <2>1, <2>2, <2>3, EvidenceKeeper DEF ground
  <2>4. CASE E = {} \/ st = "ready"
    <3>1. Sound(AfterImage(db.snaps, db.head, db.blobs, E, P, {}))
      <4>1. \A s \in db.snaps : db.blobs[s.dig].ready /\ s.dig \in Digests
        BY <1>0 DEF EvidenceInv, Sound, Tables, Snapshots
      <4>2. \A d \in Digests : db.blobs[d].ready =>
               db.blobs[d].gen # 0 /\ <<d, db.blobs[d].gen>> \in files
        BY DEF EvidenceInv, Sound
      <4>3. db.blobs \in [Digests -> [gen : Nat, ready : BOOLEAN]] /\ Sound(db)
        BY <1>0 DEF Tables, EvidenceInv
      <4> QED
        BY <4>1, <4>2, <4>3, AfterImageSound
    <3>2. tx' = AfterImage(db.snaps, db.head, db.blobs, E, P, {}) /\ lock' = "keeper"
      BY <2>1, <2>4
    <3>3. Sound(tx)'
      BY <2>2, <3>1, <3>2 DEF Sound, Files, Old
    <3>4. KeeperOK(keeper)'
      <4>1. keeper'.pc = "commit" /\ keeper'.loc = keeper.loc /\ keeper'.todo = keeper.todo
        BY <1>0, <2>1, <2>4 DEF Keepers
      <4> QED
        BY <1>0, <2>2, <3>2, <4>1 DEF KeeperOK, Old
    <3>5. Sound(db)' /\ PhysicalOK'
      BY <2>2 DEF EvidenceInv, Sound, PhysicalOK, Files, Old
    <3>6. \A p \in Callers : LocOK(op[p])'
      BY <2>2 DEF EvidenceInv, LocOK, Files, Old
    <3> QED
      BY <3>2, <3>3, <3>4, <3>5, <3>6 DEF EvidenceInv
  <2> QED
    BY <2>3, <2>4
<1>6. CASE MaintainCommit
  <2>1. /\ db' = tx /\ tx' = NoTables /\ UNCHANGED <<nextGen, files, late, op>>
        /\ lock = "keeper"
    BY <1>6 DEF MaintainCommit, physical, LockInv
  <2>2. keeper'.pc = "ack" /\ keeper'.loc = keeper.loc /\ keeper'.todo = keeper.todo
    BY <1>0, <1>6 DEF MaintainCommit, KGoto, Keepers
  <2>3. Sound(db)' /\ Sound(tx)' /\ Files(db)' \subseteq Files(db)
    BY <2>1, InstallSound
  <2>4. \A q \in Callers : op[q].pc # "trim"
    BY <2>1, StoreAssumption DEF LockInv, LockOK, Held
  <2>5. \A q \in Callers : LocOK(op[q])'
    BY <2>1, <2>3, <2>4 DEF EvidenceInv, LocOK, Old
  <2>6. KeeperOK(keeper)' /\ PhysicalOK'
    BY <1>0, <2>1, <2>2, <2>3 DEF EvidenceInv, KeeperOK, PhysicalOK, Old
  <2> QED
    BY <2>1, <2>3, <2>5, <2>6 DEF EvidenceInv
<1>7. CASE KeeperFault
  <2>1. /\ UNCHANGED <<db, tx, lock, nextGen, files, op>> /\ KFail("unavailable")
        /\ late' = IF keeper.pc = "unlink"
                   THEN late \union {[io |-> "unlink", loc |-> keeper.loc]} ELSE late
    BY <1>7 DEF KeeperFault, tables
  <2>2. KeeperOK(keeper)'
    BY <1>1, <2>1
  <2>3. PhysicalOK'
    BY <1>0, <2>1 DEF EvidenceInv, PhysicalOK, KeeperOK, Files, Old
  <2>4. Sound(db)' /\ Sound(tx)' /\ (lock = "free" => tx = NoTables)'
    BY <2>1 DEF EvidenceInv, Sound, Files, Old
  <2>5. \A p \in Callers : LocOK(op[p])'
    BY <2>1 DEF EvidenceInv, LocOK, Files, Old
  <2> QED
    BY <2>2, <2>3, <2>4, <2>5 DEF EvidenceInv
<1>8. CASE KeeperCommitLost
  <2>1. /\ UNCHANGED <<db, tx, nextGen, files, late, op>> /\ KFail("unavailable")
        /\ UNCHANGED lock \/ lock' = "ghost"
    BY <1>8 DEF KeeperCommitLost, physical
  <2>2. KeeperOK(keeper)'
    BY <1>1, <2>1
  <2>3. Sound(db)' /\ Sound(tx)' /\ PhysicalOK' /\ (lock = "free" => tx = NoTables)'
    BY <2>1 DEF EvidenceInv, Sound, PhysicalOK, Files, Old
  <2>4. \A p \in Callers : LocOK(op[p])'
    BY <2>1 DEF EvidenceInv, LocOK, Files, Old
  <2> QED
    BY <2>2, <2>3, <2>4 DEF EvidenceInv
<1> QED
  BY <1>2, <1>3, <1>4, <1>5, <1>6, <1>7, <1>8 DEF MaintainStep, RecoverStep

\* The server, the filesystem and the process.
LEMMA EvidenceEnvironment ==
  ASSUME TypeOK, LockInv, EvidenceInv,
         GhostSettles \/ LateIO \/ Age \/ Close \/ Restart
  PROVE  EvidenceInv'
<1>0. nextGen \in Nat \ {0} /\ \A q \in Callers : q \notin {"free", "ghost", "keeper"}
  BY StoreAssumption DEF TypeOK, TablesOK
<1>1. CASE GhostSettles
  <2>1. /\ tx' = NoTables /\ (db' = tx \/ db' = db) /\ lock = "ghost"
        /\ UNCHANGED <<nextGen, files, late, op, keeper>>
    BY <1>1 DEF GhostSettles, physical
  <2>2. Sound(db)' /\ Sound(tx)' /\ Files(db)' \subseteq Files(db)
    <3>1. CASE db' = tx
      BY <2>1, <3>1, InstallSound
    <3>2. CASE db' = db
      BY <1>0, <2>1, <3>2 DEF EvidenceInv, Sound, NoTables, NoBlob, Files, Old
    <3> QED
      BY <2>1, <3>1, <3>2
  <2>3. \A q \in Callers : op[q].pc # "trim"
    BY <1>0, <2>1 DEF LockInv, LockOK, Held
  <2>4. \A q \in Callers : LocOK(op[q])'
    BY <2>1, <2>2, <2>3 DEF EvidenceInv, LocOK, Old
  <2>5. keeper.pc # "commit"
    BY <2>1 DEF LockInv
  <2>6. KeeperOK(keeper)' /\ PhysicalOK'
    BY <2>1, <2>2, <2>5 DEF EvidenceInv, KeeperOK, PhysicalOK, Old
  <2> QED
    BY <2>1, <2>2, <2>4, <2>6 DEF EvidenceInv
<1>2. CASE LateIO
  <2>1. PICK j \in late : /\ late' = late \ {j}
                          /\ files' \in {files, IF j.io = "put" THEN files \union {j.loc}
                                                ELSE files \ {j.loc}}
    BY <1>2 DEF LateIO
  <2>2. UNCHANGED <<db, tx, lock, nextGen, op, keeper>>
    BY <1>2 DEF LateIO, tables
  <2>3. Old(j.loc) /\ (j.io = "put" \/ j.loc \notin Files(db))
    BY DEF EvidenceInv, PhysicalOK, TypeOK, FilesOK
  <2>4. /\ Sound(db)' /\ Sound(tx)'
        /\ \A y \in Files(db)' : y \in files => y \in files'
    <3>1. CASE files' = files \/ files' = files \union {j.loc}
      BY <2>2, <3>1 DEF EvidenceInv, Sound, Files, Old
    <3>2. CASE files' = files \ {j.loc} /\ j.loc \notin Files(db)
      BY <2>2, <3>2, UnlinkSound
    <3> QED
      BY <2>1, <2>3, <3>1, <3>2
  <2>5. PhysicalOK'
    BY <2>1, <2>2, <2>3 DEF EvidenceInv, PhysicalOK, Files, Old
  <2>6. KeeperOK(keeper)' /\ (lock = "free" => tx = NoTables)'
    BY <2>2 DEF EvidenceInv, KeeperOK, Files, Old
  <2>7. \A p \in Callers : LocOK(op[p])'
    <3>1. Files(db)' = Files(db)
      BY <2>2 DEF Files
    <3> QED
      BY <2>2, <2>4, <3>1 DEF EvidenceInv, LocOK, Old
  <2> QED
    BY <2>4, <2>5, <2>6, <2>7 DEF EvidenceInv
<1>3. CASE Age \/ Close
  <2>1. UNCHANGED <<ground, op, keeper>>
    BY <1>3 DEF Age, Close, tables, physical, ground
  <2>2. KeeperOK(keeper)'
    BY <2>1 DEF EvidenceInv, ground, KeeperOK, Files, Old
  <2> QED
    BY <2>1, <2>2, EvidenceKeeper
<1>4. CASE Restart
  <2>1. tx' = NoTables /\ (db' = tx \/ db' = db)
    BY <1>4 DEF Restart
  <2>2. UNCHANGED <<nextGen, files>> /\ late' = {} /\ keeper' = IdleKeeper
    BY <1>4 DEF Restart
  <2>3. op' = [p \in Callers |-> Idle]
    BY <1>4 DEF Restart
  <2>4. Sound(db)' /\ Sound(tx)'
    <3>1. CASE db' = tx
      BY <2>1, <2>2, <3>1, InstallSound
    <3>2. CASE db' = db
      BY <1>0, <2>1, <2>2, <3>2 DEF EvidenceInv, Sound, NoTables, NoBlob, Files, Old
    <3> QED
      BY <2>1, <3>1, <3>2
  <2>5. \A p \in Callers : LocOK(op[p])'
    BY <1>0, <2>2, <2>3 DEF LocOK, Old, Idle
  <2>6. KeeperOK(keeper)'
    BY <1>0, <2>2 DEF KeeperOK, Old, IdleKeeper
  <2>7. PhysicalOK'
    BY <2>2 DEF EvidenceInv, PhysicalOK, Old
  <2> QED
    BY <2>1, <2>4, <2>5, <2>6, <2>7 DEF EvidenceInv
<1> QED
  BY <1>1, <1>2, <1>3, <1>4

\* Only damage to the blob root can break the agreement.
LEMMA EvidenceStep ==
  ASSUME TypeOK, LockInv, EvidenceInv, [Next]_vars
  PROVE  EvidenceInv' \/ LoseFile
<1>1. CASE UNCHANGED vars
  <2>1. UNCHANGED <<ground, op, keeper>>
    BY <1>1 DEF vars, ground
  <2>2. KeeperOK(keeper)'
    BY <2>1 DEF EvidenceInv, ground, KeeperOK, Files, Old
  <2> QED
    BY <2>1, <2>2, EvidenceKeeper
<1>2. ASSUME NEW p \in Callers,
             \/ \E k \in Keys : LookupStart(p, k)
             \/ CallerStep(p) \/ Abandon(p) \/ Fault(p) \/ CommitLost(p)
             \/ ReserveCommitLost(p)
      PROVE  EvidenceInv'
  BY <1>2, EvidenceQuiet, EvidenceReserved, EvidencePublish DEF CallerStep
<1> QED
  BY <1>1, <1>2, EvidenceMaintain, EvidenceEnvironment DEF Next

\* Nobody has damaged the blob root: it is not to be damaged, or nothing has failed yet.
Undamaged == ~Damage \/ faults = 0

LEMMA FaultsGrow ==
  ASSUME [Next]_vars PROVE faults' \in {faults, faults + 1}
<1>1. ASSUME NEW p \in Callers,
             \/ \E k \in Keys : LookupStart(p, k)
             \/ CallerStep(p) \/ Abandon(p) \/ Fault(p) \/ CommitLost(p)
             \/ ReserveCommitLost(p)
      PROVE  faults' \in {faults, faults + 1}
  BY <1>1 DEF LookupStart, CallerStep, LookupQuery, LookupHead, LookupSnapshot, LookupDangling,
         LookupBlob, LookupMissing, PublishStart, PublishCompare, ReserveBlob, ReadReady,
         CheckLive, ConfirmDurable, PutIfAbsent, PublishBegin, PublishTrim, PublishAuthorize,
         PublishGate, PublishCommit, PublishAck, PublishDrop, PublishAccept, Undo,
         RecordResult, Abandon, Fault, CommitLost, ReserveCommitLost, budget
<1>2. CASE MaintainStep \/ RecoverStep \/ KeeperFault \/ KeeperCommitLost \/ QueueCommitLost
  <2>1. CASE KeeperFault \/ KeeperCommitLost \/ QueueCommitLost
    BY <2>1 DEF KeeperFault, KeeperCommitLost, QueueCommitLost
  <2>2. CASE RecoverStep
    BY <2>2 DEF RecoverStep, RecoverStart, RecoverFence, RecoverReopen, KeeperUndo,
           KeeperRecord, budget
  <2>3. CASE MaintainTrim
    BY <2>3 DEF MaintainTrim, budget
  <2>4. CASE MaintainStep /\ ~MaintainTrim
    <3>1. UNCHANGED budget
      BY <2>4 DEF MaintainStep, MaintainStart, CleanNext, Unlink, Dequeue, MaintainCommit,
             MaintainAck, MaintainDrop, ScanNext
    <3> QED
      BY <3>1 DEF budget
  <2> QED
    BY <1>2, <2>1, <2>2, <2>3, <2>4
<1>3. CASE \/ GhostSettles \/ LateIO \/ LoseFile \/ Age \/ Close \/ Restart
           \/ UNCHANGED vars
  BY <1>3 DEF GhostSettles, LateIO, LoseFile, Age, Close, Restart, vars, budget
<1> QED
  BY <1>1, <1>2, <1>3 DEF Next

\* The inductive invariant holds in every reachable state of a store whose blob root
\* nobody has damaged: rows, the open transaction, operations and orphaned file jobs agree.
THEOREM EvidenceInvariant == Spec => [](Undamaged => EvidenceInv)
<1>1. Init => EvidenceInv
  <2> SUFFICES ASSUME Init PROVE EvidenceInv
    OBVIOUS
  <2>1. Sound(db) /\ Sound(tx)
    BY DEF Init, Sound, NoTables, NoBlob, Files
  <2>2. \A p \in Callers : LocOK(op[p])
    BY DEF Init, LocOK, Old, Idle
  <2>3. KeeperOK(keeper) /\ PhysicalOK /\ tx = NoTables
    BY DEF Init, KeeperOK, PhysicalOK, Old, IdleKeeper
  <2> QED
    BY <2>1, <2>2, <2>3 DEF EvidenceInv
<1>2. ASSUME TypeOK, LockInv, Undamaged => EvidenceInv, [Next]_vars, Undamaged' PROVE EvidenceInv'
  <2>1. faults \in Nat /\ faults' \in {faults, faults + 1} /\ (LoseFile => faults' = faults + 1)
    BY <1>2, FaultsGrow DEF TypeOK, BoundsOK, LoseFile
  <2>2. Undamaged /\ ~LoseFile
    BY <1>2, <2>1 DEF Undamaged, LoseFile
  <2> QED
    BY <1>2, <2>2, EvidenceStep
<1> QED
  BY <1>1, <1>2, TypeCorrect, LockHeld, PTL DEF Spec

\* The evidence of every committed snapshot is on disk, whatever publish_inner,
\* maintain_inner, late filesystem jobs, lost COMMIT answers and restarts interleave.
THEOREM EvidenceNeverLost ==
  ASSUME ~Damage PROVE Spec => []EvidencePresent
<1>1. TypeOK /\ EvidenceInv => EvidencePresent
  BY DEF EvidenceInv, Sound, EvidencePresent, TypeOK, TablesOK, Tables, Snapshots
<1>2. Undamaged
  BY DEF Undamaged
<1> QED
  BY <1>1, <1>2, TypeCorrect, EvidenceInvariant, PTL

\* No row of blob_deletion names a live generation, so cleanup_queue never unlinks
\* evidence and never takes a race for corruption.
THEOREM DeletionsAreDead ==
  ASSUME ~Damage PROVE Spec => []DeletionQueueDead
<1>1. EvidenceInv => DeletionQueueDead
  BY DEF EvidenceInv, Sound, DeletionQueueDead
<1>2. Undamaged
  BY DEF Undamaged
<1> QED
  BY <1>1, <1>2, EvidenceInvariant, PTL

-----------------------------------------------------------------------------
(***************************************************************************)
(* What a reader may rely on: a lookup result of the current epoch names a *)
(* capture that is retained or still being evicted, a reopened store has   *)
(* outwaited every lost COMMIT, and no interleaving is mistaken for        *)
(* corruption.                                                             *)
(***************************************************************************)

Retains(t, k, v) == \E s \in t.snaps : s.id = v /\ s.key = k
Present(v)       == \E s \in db.snaps : s.id = v

\* A failed operation that has still to record its error.
Failing(o) == o.pc \in {"undo", "record"}

\* The captures an operation has evicted or may yet have evicted: a failure that is none
\* of the store's leaves before its COMMIT is sent.
Evicting(o) == IF Failing(o) /\ o.err = "none" THEN {} ELSE o.evict
Evicted(v)  == v \in Evicting(keeper) \/ \E p \in Callers : v \in Evicting(op[p])

InTx       == {"authorize", "gate", "commit"}
Seen       == {"snapshot", "dangling", "blob", "missing", "found"}
Publishing == {"reserve", "read", "live", "confirm", "put", "begin", "trim"}

HeadsOK(t)   == \A k \in Keys : t.head[k] # 0 => Retains(t, k, t.head[k])
UniqueIds(t) == \A s, r \in t.snaps : s.id = r.id => s = r

\* A head names a capture of its query; identifiers and revisions are used once.
DbOK == /\ HeadsOK(db) /\ UniqueIds(db)
        /\ \A s \in db.snaps : s.id <= mut
        /\ \A k \in Keys : db.rev[k] <= mut

\* The tables of a transaction that evicts E: it adds at most one capture, and a query
\* that loses one gets a new revision, or none.
TxOK(E) ==
  /\ HeadsOK(tx) /\ UniqueIds(tx)
  /\ \A s \in tx.snaps : s \in db.snaps \/ s.id = mut + 1
  /\ \A k \in Keys : tx.rev[k] \in {0, db.rev[k], mut + 1}
  /\ \A s \in db.snaps : s \in tx.snaps \/ (s.id \in E /\ tx.rev[s.key] \in {0, mut + 1})
  /\ \A v \in E : Present(v)
  /\ \A d \in Digests : db.blobs[d].ready /\ tx.blobs[d].gen # 0 => tx.blobs[d].ready

\* What a lookup has found, and a publication that repeats an unchanged capture relies
\* on: the head stays while the revision does, and an eviction moves the epoch.
Looked(o) ==
  /\ o.lep <= epoch
  /\ o.pc = "head" => o.obs # 0 /\ o.obs <= mut
  /\ o.pc \in Seen /\ o.val # 0 =>
       /\ o.obs # 0 /\ o.obs <= mut
       /\ db.rev[o.key] = o.obs => Retains(db, o.key, o.val)
       /\ o.lep = epoch /\ Healthy => Present(o.val) \/ Evicted(o.val)
  /\ o.pc \in Publishing /\ o.unch =>
       /\ o.exp # 0 /\ o.exp <= mut
       /\ db.rev[o.key] = o.exp => Retains(db, o.key, o.val)

\* An operation that evicts holds the barrier until its outcome is known.
Barred(o) ==
  /\ o.pc # "record" /\ ~o.bar => o.evict = {}
  /\ o.pc \notin InTx \union {"ack", "drop", "undo", "record"} => o.evict = {}

KeeperBarred(k) ==
  /\ k.pc # "record" /\ ~k.bar => k.evict = {}
  /\ k.pc \notin {"commit", "ack", "drop", "undo", "record"} => k.evict = {}
  /\ k.pc \in {"fence", "reopen"} => k.gen <= recEpoch

TxInv ==
  /\ \A p \in Callers : op[p].pc \in InTx => TxOK(op[p].evict)
  /\ keeper.pc = "commit" =>
       /\ TxOK(keeper.evict) /\ tx.snaps \subseteq db.snaps
       /\ keeper.evict = {} => tx.rev = db.rev

\* A COMMIT in doubt belongs to an operation that has still to record its failure, or the
\* store cannot reopen before the row lock has been seen free.
Lost(o, E) == Failing(o) /\ o.err = "unavailable" /\ o.evict = E
Blocked    == \/ st \in {"closed", "corrupt"}
              \/ st = "recovering" /\ (keeper.pc = "reopen" => keeper.gen # recEpoch)
GhostInv   ==
  lock = "ghost" =>
    \E E : TxOK(E) /\ (Lost(keeper, E) \/ (\E p \in Callers : Lost(op[p], E)) \/ Blocked)

FenceInv ==
  /\ DbOK /\ TxInv /\ GhostInv
  /\ \A p \in Callers : Looked(op[p]) /\ Barred(op[p])
  /\ KeeperBarred(keeper)

----------------------------------------------------------------------------
(* What every step but a restart owes to the lookups in flight. *)

Current == Healthy' /\ epoch' = epoch

Carries ==
  /\ epoch <= epoch' /\ mut <= mut'
  /\ Current => Healthy
  /\ Current => \A v \in Nat : Present(v) \/ Evicted(v) => Present(v)' \/ Evicted(v)'
  /\ \A k \in Keys : db'.rev[k] \in {0, db.rev[k]} \/ db'.rev[k] > mut
  /\ \A s \in db.snaps : s \in db'.snaps \/ db'.rev[s.key] = 0 \/ db'.rev[s.key] > mut

LEMMA LookedCarried ==
  ASSUME TypeOK, TypeOK', Carries, NEW o \in Operations, Looked(o)
  PROVE  Looked(o)'
<1>1. /\ epoch \in Nat /\ epoch' \in Nat /\ mut \in Nat /\ mut' \in Nat
      /\ o.lep \in Nat /\ o.obs \in Nat /\ o.exp \in Nat /\ o.val \in Nat /\ o.key \in Keys
      /\ o.lep <= epoch /\ epoch <= epoch' /\ mut <= mut'
      /\ \A k \in Keys : db.rev[k] \in Nat /\ db'.rev[k] \in Nat
  BY DEF TypeOK, MachineOK, TablesOK, Tables, Operations, Carries, Looked
<1>2. ASSUME NEW r \in Nat, r # 0, r <= mut, db'.rev[o.key] = r,
             db.rev[o.key] = r => Retains(db, o.key, o.val)
      PROVE  Retains(db', o.key, o.val)
  <2>1. db.rev[o.key] = r
    BY <1>1, <1>2 DEF Carries
  <2>2. PICK s \in db.snaps : s.id = o.val /\ s.key = o.key
    BY <1>2, <2>1 DEF Retains
  <2>3. s \in db'.snaps
    BY <1>1, <1>2, <2>2 DEF Carries
  <2>4. QED
    BY <2>2, <2>3 DEF Retains
<1>3. ASSUME o.pc \in Seen, o.val # 0
      PROVE  /\ o.obs # 0 /\ o.obs <= mut'
             /\ db'.rev[o.key] = o.obs => Retains(db', o.key, o.val)
             /\ o.lep = epoch' /\ Healthy' => Present(o.val)' \/ Evicted(o.val)'
  <2>1. /\ o.obs # 0 /\ o.obs <= mut
        /\ db.rev[o.key] = o.obs => Retains(db, o.key, o.val)
        /\ o.lep = epoch /\ Healthy => Present(o.val) \/ Evicted(o.val)
    BY <1>3 DEF Looked
  <2>2. o.obs <= mut' /\ (db'.rev[o.key] = o.obs => Retains(db', o.key, o.val))
    BY <1>1, <1>2, <2>1
  <2>3. o.lep = epoch' /\ Healthy' => Present(o.val)' \/ Evicted(o.val)'
    <3>1. o.lep = epoch' /\ Healthy' => Current /\ o.lep = epoch
      BY <1>1 DEF Current
    <3>2. Current => Healthy
      BY DEF Carries
    <3>3. Current => (Present(o.val) \/ Evicted(o.val) => Present(o.val)' \/ Evicted(o.val)')
      BY <1>1 DEF Carries
    <3>4. QED
      BY <2>1, <3>1, <3>2, <3>3
  <2>4. QED
    BY <2>1, <2>2, <2>3
<1>4. ASSUME o.pc \in Publishing, o.unch
      PROVE  /\ o.exp # 0 /\ o.exp <= mut'
             /\ db'.rev[o.key] = o.exp => Retains(db', o.key, o.val)
  BY <1>1, <1>2, <1>4 DEF Looked
<1>5. o.lep <= epoch' /\ (o.pc = "head" => o.obs # 0 /\ o.obs <= mut')
  BY <1>1 DEF Looked
<1>6. QED
  BY <1>3, <1>4, <1>5, Zenon DEF Looked, Retains

\* Steps that leave captures, heads and revisions alone.
LEMMA CarriesQuiet ==
  ASSUME TypeOK, TypeOK', FenceInv,
         db'.snaps = db.snaps, db'.rev = db.rev, db'.head = db.head, UNCHANGED mut,
         epoch <= epoch', Current => Healthy,
         Current => \A v \in Nat : Evicted(v) => Present(v) \/ Evicted(v)'
  PROVE  Carries /\ DbOK'
<1>1. \A v : Present(v)' <=> Present(v)
  BY DEF Present
<1>2. mut \in Nat
  BY DEF TypeOK, TablesOK
<1>3. Carries
  BY <1>1, <1>2 DEF Carries
<1>4. DbOK'
  BY DEF FenceInv, DbOK, HeadsOK, UniqueIds, Retains
<1>5. QED
  BY <1>3, <1>4

\* The tables a transaction leaves behind.
LEMMA TxInstalls ==
  ASSUME TypeOK, DbOK, NEW E, TxOK(E), db' = tx,
         mut' = mut + 1 \/ (mut' = mut /\ tx.snaps \subseteq db.snaps /\ tx.rev = db.rev)
  PROVE  DbOK'
<1>1. /\ mut \in Nat /\ \A k \in Keys : tx.rev[k] \in Nat /\ db.rev[k] \in Nat
      /\ \A s \in db.snaps \union tx.snaps : s.key \in Keys /\ s.id \in Nat
  BY DEF TypeOK, TablesOK, Tables, Snapshots
<1>2. /\ \A s \in tx.snaps : s \in db.snaps \/ s.id = mut + 1
      /\ \A k \in Keys : tx.rev[k] \in {0, db.rev[k], mut + 1}
      /\ HeadsOK(tx) /\ UniqueIds(tx)
  BY DEF TxOK
<1>3. /\ \A s \in db.snaps : s.id <= mut
      /\ \A k \in Keys : db.rev[k] <= mut
  BY DEF DbOK
<1>4. /\ \A s \in tx.snaps : s.id <= mut'
      /\ \A k \in Keys : tx.rev[k] <= mut'
  BY <1>1, <1>2, <1>3
<1>5. QED
  BY <1>2, <1>4 DEF DbOK, HeadsOK, UniqueIds, Retains

\* A COMMIT: what it evicts is known to be on its way out, or the store is not healthy.
LEMMA CarriesCommit ==
  ASSUME TypeOK, TypeOK', FenceInv, NEW E, TxOK(E), db' = tx,
         mut' = mut + 1 \/ (mut' = mut /\ tx.snaps \subseteq db.snaps /\ tx.rev = db.rev),
         epoch' = epoch, Current => Healthy,
         Current => \A v \in E : Evicted(v)',
         Current => \A v \in Nat : Evicted(v) => Evicted(v)'
  PROVE  Carries /\ DbOK'
<1>1. /\ mut \in Nat /\ \A k \in Keys : tx.rev[k] \in Nat /\ db.rev[k] \in Nat
      /\ \A s \in db.snaps \union tx.snaps : s.key \in Keys /\ s.id \in Nat
      /\ epoch \in Nat
  BY DEF TypeOK, TablesOK, MachineOK, Tables, Snapshots
<1>2. /\ \A s \in tx.snaps : s \in db.snaps \/ s.id = mut + 1
      /\ \A k \in Keys : tx.rev[k] \in {0, db.rev[k], mut + 1}
      /\ \A s \in db.snaps : s \in tx.snaps \/ (s.id \in E /\ tx.rev[s.key] \in {0, mut + 1})
      /\ HeadsOK(tx) /\ UniqueIds(tx)
  BY DEF TxOK
<1>3. \A v \in Nat : Present(v) => Present(v)' \/ v \in E
  BY <1>2 DEF Present
<1>4. Current => \A v \in Nat : Present(v) \/ Evicted(v) => Present(v)' \/ Evicted(v)'
  BY <1>3
<1>5. /\ \A k \in Keys : db'.rev[k] \in {0, db.rev[k]} \/ db'.rev[k] > mut
      /\ \A s \in db.snaps : s \in db'.snaps \/ db'.rev[s.key] = 0 \/ db'.rev[s.key] > mut
  BY <1>1, <1>2
<1>6. Carries
  BY <1>1, <1>4, <1>5 DEF Carries
<1>7. DbOK'
  BY TxInstalls DEF FenceInv
<1>8. QED
  BY <1>6, <1>7

\* What a transaction's after-image promises.
LEMMA AfterImageTx ==
  ASSUME TypeOK, DbOK, NEW S, NEW H, NEW B \in [Digests -> [gen : Nat, ready : BOOLEAN]],
         NEW E, NEW P, NEW T,
         S \subseteq Snapshots, E \subseteq S, E \subseteq db.snaps, db.snaps \subseteq S,
         \A s \in S : s \in db.snaps \/ s.id = mut + 1, UniqueIds([snaps |-> S]),
         \A k \in Keys : H[k] # 0 => \E s \in S : s.id = H[k] /\ s.key = k,
         \A d \in Digests : db.blobs[d].ready => B[d].ready,
         tx' = AfterImage(S, H, B, E, P, T), UNCHANGED <<db, mut>>
  PROVE  /\ TxOK(Ids(E))'
         /\ S = db.snaps => tx'.snaps \subseteq db.snaps
         /\ E = {} /\ T = {} => tx'.rev = db.rev
<1> DEFINE kept == S \ E
           gone == P \union Unreferenced(B, kept)
           changed == T \union {e.key : e \in E}
<1>1. /\ tx'.snaps = kept
      /\ tx'.head = [k \in Keys |-> HeadAfter(H[k], E)]
      /\ tx'.rev = [k \in Keys |-> IF k \notin changed THEN db.rev[k]
                                   ELSE IF \E s \in kept : s.key = k THEN mut + 1 ELSE 0]
      /\ tx'.blobs = [d \in Digests |-> IF d \in gone THEN Retired(B[d]) ELSE B[d]]
  BY DEF AfterImage
<1> HIDE DEF gone
<1>2. HeadsOK(tx)'
  <2> SUFFICES ASSUME NEW k \in Keys, tx'.head[k] # 0
               PROVE  \E s \in tx'.snaps : s.id = tx'.head[k] /\ s.key = k
    BY DEF HeadsOK, Retains
  <2>1. H[k] \notin Ids(E) /\ tx'.head[k] = H[k]
    BY <1>1 DEF HeadAfter
  <2>2. PICK s \in S : s.id = H[k] /\ s.key = k
    BY <2>1
  <2>3. s \notin E
    BY <2>1, <2>2 DEF Ids
  <2>4. QED
    BY <1>1, <2>1, <2>2, <2>3
<1>3. UniqueIds(tx)' /\ \A s \in tx'.snaps : s \in db'.snaps \/ s.id = mut' + 1
  BY <1>1 DEF UniqueIds
<1>4. \A k \in Keys : tx'.rev[k] \in {0, db'.rev[k], mut' + 1}
  BY <1>1
<1>5. ASSUME NEW s \in db.snaps, s \notin tx'.snaps
      PROVE  s.id \in Ids(E) /\ tx'.rev[s.key] \in {0, mut + 1}
  <2>1. s \in E /\ s.key \in Keys
    BY <1>1, <1>5 DEF Snapshots
  <2>2. s.key \in changed /\ s.id \in Ids(E)
    BY <2>1 DEF Ids
  <2>3. QED
    BY <1>1, <2>1, <2>2
<1>6. \A v \in Ids(E) : Present(v)'
  BY DEF Ids, Present
<1>7. \A d \in Digests : db'.blobs[d].ready /\ tx'.blobs[d].gen # 0 => tx'.blobs[d].ready
  <2>1. \A d \in Digests : tx'.blobs[d] = B[d] \/ tx'.blobs[d].gen = 0
    BY <1>1 DEF Retired, NoBlob
  <2>2. QED
    BY <2>1
<1>8. TxOK(Ids(E))'
  BY <1>2, <1>3, <1>4, <1>5, <1>6, <1>7 DEF TxOK
<1>9. S = db.snaps => tx'.snaps \subseteq db.snaps
  BY <1>1
<1>10. E = {} /\ T = {} => tx'.rev = db.rev
  BY <1>1 DEF TypeOK, TablesOK, Tables
<1>11. QED
  BY <1>8, <1>9, <1>10

----------------------------------------------------------------------------
(* The callers. *)

\* A transaction's tables keep what they promise while nothing under the lock moves.
LEMMA TxKept ==
  ASSUME NEW E, TxOK(E), UNCHANGED <<tx, mut>>,
         db'.snaps = db.snaps, db'.rev = db.rev, db'.blobs = db.blobs
  PROVE  TxOK(E)'
  BY DEF TxOK, HeadsOK, UniqueIds, Retains, Present

\* A step of one caller.
LEMMA FenceCaller ==
  ASSUME TypeOK, TypeOK', FenceInv, NEW p \in Callers,
         \A q \in Callers \ {p} : op'[q] = op[q], UNCHANGED keeper, recEpoch <= recEpoch',
         Carries, DbOK', TxInv', GhostInv', Looked(op[p])', Barred(op[p])'
  PROVE  FenceInv'
<1>1. ASSUME NEW q \in Callers \ {p} PROVE Looked(op[q])' /\ Barred(op[q])'
  <2>1. PICK o \in Operations : o = op[q]
    BY DEF TypeOK
  <2>2. Looked(o) /\ Barred(o)
    BY <2>1 DEF FenceInv
  <2>3. Looked(o)'
    BY <2>2, LookedCarried
  <2>4. op'[q] = o
    BY <2>1
  <2>5. Looked(op[q])'
    BY <2>3, <2>4 DEF Looked
  <2>6. QED
    BY <2>2, <2>4, <2>5 DEF Barred
<1>2. KeeperBarred(keeper)'
  BY DEF FenceInv, KeeperBarred, TypeOK, MachineOK, Keepers
<1>3. QED
  BY <1>1, <1>2 DEF FenceInv

\* A step of one caller that leaves the tables and the lock alone.
LEMMA SharedKept ==
  ASSUME FenceInv, NEW p \in Callers, \A q \in Callers \ {p} : op'[q] = op[q],
         UNCHANGED <<tx, mut, keeper>>,
         db'.snaps = db.snaps, db'.rev = db.rev, db'.blobs = db.blobs,
         lock' = "ghost" => lock = "ghost",
         op'[p].pc \in InTx => op[p].pc \in InTx /\ op'[p].evict = op[p].evict,
         Blocked => Blocked', \A E : Lost(op[p], E) => Lost(op'[p], E) \/ Blocked'
  PROVE  TxInv' /\ GhostInv'
<1>1. ASSUME NEW E, TxOK(E) PROVE TxOK(E)'
  BY <1>1, TxKept
<1>2. TxInv'
  <2>1. ASSUME NEW q \in Callers, op'[q].pc \in InTx PROVE TxOK(op[q].evict)'
    <3>1. PICK E : E = op[q].evict
      OBVIOUS
    <3>2. op[q].pc \in InTx /\ op'[q].evict = E
      BY <2>1, <3>1
    <3>3. TxOK(E)
      BY <3>1, <3>2 DEF FenceInv, TxInv
    <3>4. TxOK(E)'
      BY <1>1, <3>3
    <3>5. QED
      BY <3>2, <3>4
  <2>2. ASSUME keeper'.pc = "commit"
        PROVE  TxOK(keeper.evict)' /\ tx'.snaps \subseteq db'.snaps /\ (keeper'.evict = {} => tx'.rev = db'.rev)
    <3>1. PICK E : E = keeper.evict
      OBVIOUS
    <3>2. TxOK(E) /\ tx.snaps \subseteq db.snaps /\ (E = {} => tx.rev = db.rev)
      BY <2>2, <3>1 DEF FenceInv, TxInv
    <3>3. TxOK(E)'
      BY <1>1, <3>2
    <3>4. QED
      BY <3>1, <3>2, <3>3
  <2>3. QED
    BY <2>1, <2>2 DEF TxInv
<1>3. GhostInv'
  <2> SUFFICES ASSUME lock' = "ghost"
               PROVE  (\E E : TxOK(E) /\ (Lost(keeper, E) \/ (\E q \in Callers : Lost(op[q], E)) \/ Blocked))'
    BY DEF GhostInv
  <2>1. PICK E : TxOK(E) /\ (Lost(keeper, E) \/ (\E q \in Callers : Lost(op[q], E)) \/ Blocked)
    BY DEF FenceInv, GhostInv
  <2>2. TxOK(E)'
    BY <1>1, <2>1
  <2>3. Lost(keeper, E) => Lost(keeper', E)
    OBVIOUS
  <2>4. \A q \in Callers : Lost(op[q], E) => Lost(op'[q], E) \/ Blocked'
    OBVIOUS
  <2>5. QED
    BY <2>1, <2>2, <2>3, <2>4
<1>4. QED
  BY <1>2, <1>3

\* A step of one caller that leaves the machine and the tables alone.
LEMMA FenceLocal ==
  ASSUME TypeOK, TypeOK', LockInv, FenceInv, NEW p \in Callers,
         \A q \in Callers \ {p} : op'[q] = op[q],
         UNCHANGED <<st, epoch, recEpoch, uncertain, db, tx, mut, keeper>>,
         lock' = "ghost" => lock = "ghost", ~Failing(op[p]),
         \A v \in Evicting(op[p]) : v \in Evicting(op'[p]) \/ Present(v),
         op'[p].pc \in InTx => op[p].pc \in InTx /\ op'[p].evict = op[p].evict,
         Barred(op'[p]), Carries => Looked(op[p])'
  PROVE  FenceInv'
<1>1. Healthy' <=> Healthy
  BY DEF Healthy
<1>2. \A v \in Nat : Evicted(v) => Present(v) \/ Evicted(v)'
  BY DEF Evicted
<1>3. epoch <= epoch' /\ recEpoch <= recEpoch'
  BY DEF TypeOK, MachineOK
<1>4. Carries /\ DbOK'
  BY <1>1, <1>2, <1>3, CarriesQuiet DEF Current
<1>5. Blocked => Blocked'
  BY DEF Blocked
<1>6. \A E : ~Lost(op[p], E)
  BY DEF Lost
<1>7. TxInv' /\ GhostInv'
  BY <1>5, <1>6, SharedKept
<1>8. Looked(op[p])' /\ Barred(op[p])'
  BY <1>4
<1>9. QED
  BY <1>3, <1>4, <1>7, <1>8, FenceCaller

\* How the steps outside a publication's transaction move their operation.
Kept(o, n) == n.key = o.key /\ n.val = o.val /\ n.lep = o.lep

Moves(o, n) ==
  \/ n.pc \notin {"head"} \union Seen \union Publishing /\ n.lep \in {0, epoch, o.lep}
  \/ n.pc \in Seen /\ n.val = 0 /\ n.lep = o.lep
  \/ n.pc = "head" /\ n.obs # 0 /\ n.obs = db.rev[o.key] /\ n.lep = o.lep
  \/ /\ o.pc = "head" /\ n.pc = "snapshot" /\ n.obs = o.obs
     /\ n.val = db.head[n.key] /\ n.lep = o.lep
  \/ o.pc \in Seen /\ n.pc \in Seen /\ n.obs = o.obs /\ Kept(o, n)
  \/ /\ o.pc \in Seen /\ n.pc = "reserve" /\ n.lep = 0 /\ n.exp = o.obs
     /\ n.key = o.key /\ n.val = o.val /\ (n.unch => o.val # 0)
  \/ /\ o.pc \in Publishing /\ n.pc \in Publishing
     /\ n.exp = o.exp /\ n.unch = o.unch /\ Kept(o, n)

LEMMA MovesLooked ==
  ASSUME TypeOK, TypeOK', DbOK, NEW p \in Callers, Looked(op[p]), Carries,
         UNCHANGED <<mut, epoch>>, db'.snaps = db.snaps, db'.rev = db.rev, Moves(op[p], op'[p])
  PROVE  Looked(op[p])'
<1>1. PICK o \in Operations : o = op[p]
  BY DEF TypeOK
<1>2. PICK n \in Operations : n = op'[p]
  BY DEF TypeOK
<1>3. Looked(o) /\ Looked(o)' /\ Moves(o, n)
  BY <1>1, <1>2, LookedCarried
<1>4. /\ o.lep <= epoch /\ epoch \in Nat /\ o.lep \in Nat /\ n.lep \in Nat /\ o.key \in Keys /\ n.key \in Keys
      /\ \A k \in Keys : db.rev[k] <= mut
  BY <1>3 DEF Looked, DbOK, TypeOK, MachineOK, Operations
<1>5. n.lep <= epoch
  BY <1>3, <1>4 DEF Moves, Kept
<1>6. n.pc = "head" => n.obs # 0 /\ n.obs <= mut
  BY <1>3, <1>4 DEF Moves, Seen, Publishing
<1>7. ASSUME n.pc \in Seen, n.val # 0
      PROVE  /\ n.obs # 0 /\ n.obs <= mut
             /\ db'.rev[n.key] = n.obs => Retains(db', n.key, n.val)
             /\ n.lep = epoch' /\ Healthy' => Present(n.val)' \/ Evicted(n.val)'
  <2>1. CASE o.pc = "head" /\ n.obs = o.obs /\ n.val = db.head[n.key] /\ n.lep = o.lep
    <3>1. Retains(db, n.key, n.val)
      BY <1>4, <1>7, <2>1 DEF DbOK, HeadsOK
    <3>2. Retains(db', n.key, n.val) /\ Present(n.val)'
      BY <3>1 DEF Retains, Present
    <3>3. o.obs # 0 /\ o.obs <= mut
      BY <1>3, <2>1 DEF Looked
    <3>4. QED
      BY <2>1, <3>2, <3>3
  <2>2. CASE o.pc \in Seen /\ n.obs = o.obs /\ Kept(o, n)
    <3>1. /\ o.obs # 0 /\ o.obs <= mut'
          /\ db'.rev[o.key] = o.obs => Retains(db', o.key, o.val)
          /\ o.lep = epoch' /\ Healthy' => Present(o.val)' \/ Evicted(o.val)'
      <4>1. Looked(o)' /\ o.pc \in Seen /\ o.val # 0
        BY <1>3, <1>7, <2>2 DEF Kept
      <4>2. QED
        BY <4>1, Zenon DEF Looked, Retains
    <3>2. QED
      BY <2>2, <3>1 DEF Kept
  <2>3. QED
    BY <1>3, <1>7, <2>1, <2>2 DEF Moves, Seen, Publishing
<1>8. ASSUME n.pc \in Publishing, n.unch
      PROVE  /\ n.exp # 0 /\ n.exp <= mut
             /\ db'.rev[n.key] = n.exp => Retains(db', n.key, n.val)
  <2>1. CASE o.pc \in Seen /\ o.val # 0 /\ n.exp = o.obs /\ n.key = o.key /\ n.val = o.val
    BY <1>3, <2>1 DEF Looked, Retains
  <2>2. CASE o.pc \in Publishing /\ n.exp = o.exp /\ o.unch /\ Kept(o, n)
    BY <1>3, <2>2 DEF Looked, Retains, Kept
  <2>3. QED
    BY <1>3, <1>8, <2>1, <2>2 DEF Moves, Seen, Publishing
<1>9. Looked(n)'
  BY <1>5, <1>6, <1>7, <1>8, Zenon DEF Looked, Retains
<1>10. QED
  BY <1>2, <1>9 DEF Looked


\* The steps of a lookup, and those of a publication outside its transaction.
QuietStep(p) ==
  \/ \E k \in Keys : LookupStart(p, k)
  \/ LookupQuery(p) \/ LookupHead(p) \/ LookupSnapshot(p) \/ LookupDangling(p)
  \/ LookupBlob(p) \/ LookupMissing(p)
  \/ \E d \in Digests : PublishStart(p, d)
  \/ PublishCompare(p) \/ ReadReady(p) \/ CheckLive(p) \/ ConfirmDurable(p)
  \/ PutIfAbsent(p) \/ PublishBegin(p) \/ PublishAccept(p) \/ Fault(p)
  \/ Abandon(p) /\ op[p].pc \notin InTx

LEMMA QuietFrom ==
  ASSUME NEW p \in Callers, QuietStep(p)
  PROVE  op[p].pc \notin InTx \union {"ack", "drop", "undo", "record"}
  BY DEF QuietStep, LookupStart, LookupQuery, LookupHead, LookupSnapshot, LookupDangling,
         LookupBlob, LookupMissing, PublishStart, PublishCompare, ReadReady, CheckLive,
         ConfirmDurable, PutIfAbsent, PublishBegin, PublishAccept, Fault, Abandon, InTx,
         InStatement

LEMMA QuietMoves ==
  ASSUME TypeOK, NEW p \in Callers, QuietStep(p), op[p].evict = {}
  PROVE  /\ \A q \in Callers \ {p} : op'[q] = op[q]
         /\ op'[p].evict = {} /\ op'[p].pc \notin InTx
         /\ Moves(op[p], op'[p])
<1> DEFINE Result == /\ \A q \in Callers \ {p} : op'[q] = op[q]
                     /\ op'[p].evict = {} /\ op'[p].pc \notin InTx
                     /\ Moves(op[p], op'[p])
<1>1. op \in [Callers -> Operations] /\ op[p] \in Operations
  BY DEF TypeOK
<1>2. ASSUME NEW n, op' = [op EXCEPT ![p] = n], n.evict = {}, n.pc \notin InTx, Moves(op[p], n)
      PROVE  Result
  BY <1>1, <1>2
<1>3. ASSUME NEW e, Fail(p, e) PROVE Result
  <2> DEFINE n == [Idle EXCEPT !.pc = "undo", !.err = e, !.bar = op[p].bar, !.evict = op[p].evict]
  <2>1. op' = [op EXCEPT ![p] = n]
    BY <1>3 DEF Fail
  <2>2. n.pc = "undo" /\ n.lep = 0 /\ n.evict = op[p].evict
    BY DEF Idle
  <2> HIDE DEF n
  <2>3. Moves(op[p], n) /\ n.pc \notin InTx
    BY <2>2 DEF Moves, Seen, Publishing, InTx
  <2>4. QED
    BY <1>2, <2>1, <2>2, <2>3
<1>4. CASE op' = [op EXCEPT ![p] = Idle]
  <2>1. Idle.pc = "idle" /\ Idle.lep = 0 /\ Idle.evict = {}
    BY DEF Idle
  <2>2. Moves(op[p], Idle) /\ Idle.pc \notin InTx
    BY <2>1 DEF Moves, Seen, Publishing, InTx
  <2>3. QED
    BY <1>2, <1>4, <2>1, <2>2
<1>5. ASSUME NEW c, Goto(p, c),
             \/ op[p].pc \in Seen /\ c \in Seen
             \/ op[p].pc \in Publishing /\ c \in Publishing
      PROVE  Result
  <2> DEFINE n == [op[p] EXCEPT !.pc = c]
  <2>1. op' = [op EXCEPT ![p] = n]
    BY <1>1, <1>5 DEF Goto
  <2>2. /\ n.pc = c /\ n.evict = {} /\ n.obs = op[p].obs /\ Kept(op[p], n)
        /\ n.exp = op[p].exp /\ n.unch = op[p].unch
    BY <1>1 DEF Operations, Kept
  <2> HIDE DEF n
  <2>3. Moves(op[p], n) /\ n.pc \notin InTx
    BY <1>5, <2>2 DEF Moves, Seen, Publishing, InTx
  <2>4. QED
    BY <1>2, <2>1, <2>2, <2>3
<1>6. CASE \E k \in Keys : LookupStart(p, k)
  <2>1. PICK k \in Keys : LookupStart(p, k)
    BY <1>6
  <2> DEFINE n == [Idle EXCEPT !.pc = "query", !.key = k, !.rec = recEpoch, !.lep = epoch]
  <2>2. op' = [op EXCEPT ![p] = n]
    BY <2>1 DEF LookupStart
  <2>3. n.pc = "query" /\ n.lep = epoch /\ n.evict = {}
    BY DEF Idle
  <2> HIDE DEF n
  <2>4. Moves(op[p], n) /\ n.pc \notin InTx
    BY <2>3 DEF Moves, Seen, Publishing, InTx
  <2>5. QED
    BY <1>2, <2>2, <2>3, <2>4
<1>7. CASE LookupQuery(p)
  <2> DEFINE r == db.rev[op[p].key]
             n == [op[p] EXCEPT !.obs = r, !.val = 0, !.pc = IF r = 0 THEN "found" ELSE "head"]
  <2>1. op' = [op EXCEPT ![p] = n]
    BY <1>1, <1>7 DEF LookupQuery
  <2> HIDE DEF r
  <2>2. /\ n.obs = r /\ n.val = 0 /\ n.pc = (IF r = 0 THEN "found" ELSE "head")
        /\ n.lep = op[p].lep /\ n.evict = {}
    BY <1>1 DEF Operations
  <2> HIDE DEF n
  <2>3. Moves(op[p], n) /\ n.pc \notin InTx
    BY <2>2 DEF Moves, Seen, InTx, r
  <2>4. QED
    BY <1>2, <2>1, <2>2, <2>3
<1>8. CASE LookupHead(p)
  <2> DEFINE h == db.head[op[p].key]
             n == [op[p] EXCEPT !.val = h, !.pc = IF h = 0 THEN "found" ELSE "snapshot"]
  <2>1. op' = [op EXCEPT ![p] = n] /\ op[p].pc = "head"
    BY <1>1, <1>8 DEF LookupHead
  <2> HIDE DEF h
  <2>2. /\ n.val = h /\ n.pc = (IF h = 0 THEN "found" ELSE "snapshot")
        /\ n.lep = op[p].lep /\ n.obs = op[p].obs /\ n.key = op[p].key /\ n.evict = {}
    BY <1>1 DEF Operations
  <2> HIDE DEF n
  <2>3. Moves(op[p], n) /\ n.pc \notin InTx
    BY <2>1, <2>2 DEF Moves, Seen, InTx, h
  <2>4. QED
    BY <1>2, <2>1, <2>2, <2>3
<1>9. CASE LookupSnapshot(p)
  <2>1. op[p].pc = "snapshot"
    BY <1>9 DEF LookupSnapshot
  <2>2. \/ Goto(p, "dangling") \/ Fail(p, "corrupt")
        \/ \E l : op' = [op EXCEPT ![p].pc = "blob", ![p].loc = l]
    BY <1>9 DEF LookupSnapshot
  <2>3. ASSUME NEW l, op' = [op EXCEPT ![p].pc = "blob", ![p].loc = l] PROVE Result
    <3> DEFINE n == [op[p] EXCEPT !.pc = "blob", !.loc = l]
    <3>1. op' = [op EXCEPT ![p] = n]
      BY <1>1, <2>3
    <3>2. n.pc = "blob" /\ n.evict = {} /\ n.obs = op[p].obs /\ Kept(op[p], n)
      BY <1>1 DEF Operations, Kept
    <3> HIDE DEF n
    <3>3. Moves(op[p], n) /\ n.pc \notin InTx
      BY <2>1, <3>2 DEF Moves, Seen, InTx
    <3>4. QED
      BY <1>2, <3>1, <3>2, <3>3
  <2>4. QED
    BY <1>3, <1>5, <2>1, <2>2, <2>3 DEF Seen
<1>10. CASE LookupDangling(p)
  <2>1. CASE op' = [op EXCEPT ![p].val = 0, ![p].pc = "found"]
    <3> DEFINE n == [op[p] EXCEPT !.val = 0, !.pc = "found"]
    <3>1. op' = [op EXCEPT ![p] = n]
      BY <1>1, <2>1
    <3>2. n.pc = "found" /\ n.evict = {} /\ n.val = 0 /\ n.lep = op[p].lep
      BY <1>1 DEF Operations
    <3> HIDE DEF n
    <3>3. Moves(op[p], n) /\ n.pc \notin InTx
      BY <3>2 DEF Moves, Seen, InTx
    <3>4. QED
      BY <1>2, <3>1, <3>2, <3>3
  <2>2. QED
    BY <1>3, <1>10, <2>1 DEF LookupDangling
<1>11. CASE LookupBlob(p) \/ LookupMissing(p)
  BY <1>3, <1>5, <1>11 DEF LookupBlob, LookupMissing, Seen
<1>12. CASE \E d \in Digests : PublishStart(p, d)
  <2>1. PICK d \in Digests : PublishStart(p, d)
    BY <1>12
  <2> DEFINE n == [op[p] EXCEPT !.pc = "query", !.pub = TRUE, !.dig = d, !.exp = op[p].obs,
                                !.start = epoch, !.lep = epoch]
  <2>2. op' = [op EXCEPT ![p] = n]
    BY <1>1, <2>1 DEF PublishStart
  <2>3. n.pc = "query" /\ n.lep = epoch /\ n.evict = {}
    BY <1>1 DEF Operations
  <2> HIDE DEF n
  <2>4. Moves(op[p], n) /\ n.pc \notin InTx
    BY <2>3 DEF Moves, Seen, Publishing, InTx
  <2>5. QED
    BY <1>2, <2>2, <2>3, <2>4
<1>13. CASE PublishCompare(p)
  <2> DEFINE u == op[p].val # 0 /\ op[p].loc[1] = op[p].dig
             n == [op[p] EXCEPT !.pc = "reserve", !.obs = 0, !.lep = 0, !.unch = u]
  <2>1. CASE op[p].obs = op[p].exp
    <3>1. op' = [op EXCEPT ![p] = n] /\ op[p].pc = "found"
      BY <1>1, <1>13, <2>1 DEF PublishCompare
    <3>2. /\ n.pc = "reserve" /\ n.lep = 0 /\ n.evict = {} /\ n.exp = op[p].exp
          /\ n.key = op[p].key /\ n.val = op[p].val
      BY <1>1 DEF Operations
    <3>3. n.unch = u
      BY <1>1 DEF Operations
    <3> HIDE DEF n
    <3>4. Moves(op[p], n) /\ n.pc \notin InTx
      BY <2>1, <3>1, <3>2, <3>3 DEF Moves, Seen, InTx
    <3>5. QED
      BY <1>2, <3>1, <3>2, <3>4
  <2>2. QED
    BY <1>4, <1>13, <2>1 DEF PublishCompare
<1>14. CASE ReadReady(p) \/ CheckLive(p) \/ ConfirmDurable(p) \/ PutIfAbsent(p) \/ PublishBegin(p)
  <2>1. op[p].pc \in Publishing
    BY <1>14 DEF ReadReady, CheckLive, ConfirmDurable, PutIfAbsent, PublishBegin, Publishing
  <2>2. (\E e : Fail(p, e)) \/ \E c \in {"live", "confirm", "begin", "trim"} : Goto(p, c)
    BY <1>14 DEF ReadReady, CheckLive, ConfirmDurable, PutIfAbsent, PublishBegin
  <2>3. QED
    BY <1>3, <1>5, <2>1, <2>2 DEF Publishing
<1>15. CASE PublishAccept(p)
  <2> DEFINE n == [op[p] EXCEPT !.pc = "done", !.lep = epoch]
  <2>1. op' = [op EXCEPT ![p] = n]
    BY <1>1, <1>15 DEF PublishAccept
  <2>2. n.pc = "done" /\ n.lep = epoch /\ n.evict = {}
    BY <1>1 DEF Operations
  <2> HIDE DEF n
  <2>3. Moves(op[p], n) /\ n.pc \notin InTx
    BY <2>2 DEF Moves, Seen, Publishing, InTx
  <2>4. QED
    BY <1>2, <2>1, <2>2, <2>3
<1>16. CASE Fault(p) \/ Abandon(p)
  BY <1>3, <1>4, <1>16 DEF Fault, Abandon
<1>17. QED
  BY <1>6, <1>7, <1>8, <1>9, <1>10, <1>11, <1>12, <1>13, <1>14, <1>15, <1>16 DEF QuietStep

LEMMA FenceQuiet ==
  ASSUME TypeOK, TypeOK', LockInv, FenceInv, NEW p \in Callers, QuietStep(p)
  PROVE  FenceInv'
<1>1. op[p].pc \notin InTx \union {"ack", "drop", "undo", "record"}
  BY QuietFrom
<1>2. op[p].evict = {} /\ Looked(op[p]) /\ DbOK
  BY <1>1 DEF FenceInv, Barred
<1>3. /\ \A q \in Callers \ {p} : op'[q] = op[q]
      /\ op'[p].evict = {} /\ op'[p].pc \notin InTx
      /\ Moves(op[p], op'[p])
  BY <1>2, QuietMoves
<1>4. /\ UNCHANGED <<st, epoch, recEpoch, uncertain, db, tx, mut, keeper>>
      /\ lock' = "ghost" => lock = "ghost"
  BY StoreAssumption
     DEF QuietStep, LookupStart, LookupQuery, LookupHead, LookupSnapshot, LookupDangling,
         LookupBlob, LookupMissing, PublishStart, PublishCompare, ReadReady, CheckLive,
         ConfirmDurable, PutIfAbsent, PublishBegin, PublishAccept, Fault, Abandon, machine, tables
<1>5. Barred(op'[p]) /\ Evicting(op[p]) = {} /\ ~Failing(op[p])
  BY <1>1, <1>2, <1>3 DEF Barred, Evicting, Failing
<1>6. Carries => Looked(op[p])'
  BY <1>2, <1>3, <1>4, MovesLooked
<1>7. QED
  BY <1>3, <1>4, <1>5, <1>6, FenceLocal


\* An operation that is neither a lookup nor a publication before its transaction.
LEMMA RestLooked ==
  ASSUME NEW o, o.pc \notin {"head"} \union Seen \union Publishing, o.lep <= epoch'
  PROVE  Looked(o)'
<1>1. o.pc # "head" /\ o.pc \notin Seen /\ o.pc \notin Publishing
  OBVIOUS
<1>2. QED
  BY <1>1, Zenon DEF Looked

\* An error keeps what the barrier guards.
LEMMA FailMoves ==
  ASSUME TypeOK, TypeOK', NEW p \in Callers, NEW e, Fail(p, e), epoch <= epoch'
  PROVE  /\ \A q \in Callers \ {p} : op'[q] = op[q]
         /\ op'[p].pc = "undo" /\ op'[p].err = e
         /\ op'[p].evict = op[p].evict /\ op'[p].bar = op[p].bar
         /\ Looked(op[p])'
<1>1. PICK n : n = [Idle EXCEPT !.pc = "undo", !.err = e, !.bar = op[p].bar, !.evict = op[p].evict]
  OBVIOUS
<1>2. n.pc = "undo" /\ n.err = e /\ n.evict = op[p].evict /\ n.bar = op[p].bar /\ n.lep = 0
  BY <1>1 DEF Idle
<1>3. op'[p] = n /\ \A q \in Callers \ {p} : op'[q] = op[q]
  BY <1>1 DEF TypeOK, Fail
<1>4. Looked(n)'
  BY <1>2, RestLooked DEF TypeOK, MachineOK, Seen, Publishing
<1>5. Looked(op[p])'
  BY <1>3, <1>4
<1>6. QED
  BY <1>2, <1>3, <1>5

\* Nobody is inside a transaction while the row lock is free.
LEMMA FreeLock ==
  ASSUME LockInv', lock' = "free"
  PROVE  TxInv' /\ GhostInv'
<1>1. keeper'.pc # "commit" /\ \A p \in Callers : op'[p].pc \notin InTx
  BY StoreAssumption DEF LockInv, LockOK, Held, InTx
<1>2. QED
  BY <1>1 DEF TxInv, GhostInv

\* The steps of the publishing transaction that only move the operation.
LEMMA FenceTransit ==
  ASSUME TypeOK, TypeOK', LockInv, FenceInv, NEW p \in Callers,
         \/ PublishAuthorize(p) \/ PublishGate(p) \/ PublishAck(p)
         \/ Abandon(p) /\ op[p].pc \in InTx
  PROVE  FenceInv'
<1>1. op \in [Callers -> Operations] /\ op[p] \in Operations /\ epoch \in Nat
  BY DEF TypeOK, MachineOK
<1>2. UNCHANGED <<st, epoch, recEpoch, uncertain, db, tx, mut, keeper, lock>>
  BY DEF PublishAuthorize, PublishGate, PublishAck, Abandon, machine, tables
<1>3. op[p].pc \in InTx \union {"ack"} /\ Barred(op[p]) /\ Looked(op[p])
  BY DEF PublishAuthorize, PublishGate, PublishAck, InTx, FenceInv
<1>4. ~Failing(op[p]) /\ Evicting(op[p]) = op[p].evict /\ epoch <= epoch'
  BY <1>1, <1>2, <1>3 DEF Failing, Evicting, InTx
<1>5. op[p].pc \in InTx => \A v \in op[p].evict : Present(v)
  BY DEF FenceInv, TxInv, TxOK
<1>6. ASSUME NEW e, Fail(p, e), op[p].pc \in InTx PROVE FenceInv'
  <2>1. /\ \A q \in Callers \ {p} : op'[q] = op[q]
        /\ op'[p].pc = "undo" /\ op'[p].err = e
        /\ op'[p].evict = op[p].evict /\ op'[p].bar = op[p].bar
        /\ Looked(op[p])'
    BY <1>4, <1>6, FailMoves
  <2>2. Barred(op'[p]) /\ op'[p].pc \notin InTx
    BY <1>3, <1>6, <2>1 DEF Barred, InTx
  <2>3. QED
    BY <1>2, <1>4, <1>5, <1>6, <2>1, <2>2, FenceLocal
<1>7. ASSUME NEW c \in {"gate", "commit", "drop"}, Goto(p, c), c \in InTx => op[p].pc \in InTx
      PROVE  FenceInv'
  <2>1. PICK n : n = [op[p] EXCEPT !.pc = c]
    OBVIOUS
  <2>2. n.pc = c /\ n.evict = op[p].evict /\ n.bar = op[p].bar /\ n.lep = op[p].lep
    BY <1>1, <2>1 DEF Operations
  <2>3. op'[p] = n /\ \A q \in Callers \ {p} : op'[q] = op[q]
    BY <1>1, <1>7, <2>1 DEF Goto
  <2>4. Barred(op'[p])
    BY <1>3, <1>7, <2>2, <2>3 DEF Barred, InTx
  <2>5. Evicting(op'[p]) = op[p].evict
    BY <1>7, <2>2, <2>3 DEF Evicting, Failing
  <2>6. op[p].lep <= epoch
    BY <1>3 DEF Looked
  <2>7. Looked(n)'
    BY <1>2, <1>7, <2>2, <2>6, RestLooked DEF Seen, Publishing
  <2>8. Looked(op[p])'
    BY <2>3, <2>7
  <2>9. op'[p].pc \in InTx => op[p].pc \in InTx /\ op'[p].evict = op[p].evict
    BY <1>7, <2>2, <2>3
  <2>10. QED
    BY <1>2, <1>4, <2>3, <2>4, <2>5, <2>8, <2>9, FenceLocal
<1>8. QED
  BY <1>6, <1>7 DEF PublishAuthorize, PublishGate, PublishAck, Abandon, InTx

\* reserve_blob touches neither captures nor revisions, and needs the row lock.
LEMMA FenceReserve ==
  ASSUME TypeOK, TypeOK', LockInv, LockInv', FenceInv, NEW p \in Callers,
         ReserveBlob(p) \/ ReserveCommitLost(p)
  PROVE  FenceInv'
<1>1. op \in [Callers -> Operations] /\ op[p] \in Operations /\ db \in Tables /\ epoch \in Nat
  BY DEF TypeOK, TablesOK, MachineOK
<1>2. /\ db'.snaps = db.snaps /\ db'.rev = db.rev /\ db'.head = db.head
      /\ UNCHANGED <<st, epoch, recEpoch, mut, keeper>> /\ lock' = "free"
      /\ (uncertain' = uncertain) \/ (uncertain' = (uncertain \/ Strict))
      /\ op[p].pc = "reserve"
  BY <1>1 DEF ReserveBlob, ReserveCommitLost, Reserve, machine, Tables
<1>3. op[p].evict = {} /\ Looked(op[p]) /\ DbOK
  BY <1>2 DEF FenceInv, Barred, InTx
<1>4. /\ \A q \in Callers \ {p} : op'[q] = op[q]
      /\ op'[p].evict = {} /\ Moves(op[p], op'[p])
      /\ op'[p].pc \in {"read", "put", "undo"}
  <2>1. CASE ReserveBlob(p)
    <3> DEFINE row == Reservation(op[p].dig)
               loc == <<op[p].dig, row.gen>>
               c == IF row.ready THEN "read" ELSE "put"
               n == [op[p] EXCEPT !.loc = loc, !.pc = c]
    <3>1. op' = [op EXCEPT ![p] = n]
      BY <1>1, <2>1 DEF ReserveBlob
    <3>2. c \in {"read", "put"}
      OBVIOUS
    <3> HIDE DEF row, loc, c
    <3>3. /\ n.pc = c /\ n.evict = {} /\ Kept(op[p], n)
          /\ n.exp = op[p].exp /\ n.unch = op[p].unch
      BY <1>1, <1>3 DEF Operations, Kept
    <3> HIDE DEF n
    <3>4. Moves(op[p], n)
      BY <1>2, <3>2, <3>3 DEF Moves, Publishing
    <3>5. QED
      BY <1>1, <3>1, <3>2, <3>3, <3>4
  <2>2. CASE ReserveCommitLost(p)
    <3> DEFINE n == [Idle EXCEPT !.pc = "undo", !.err = "unavailable", !.bar = op[p].bar,
                                 !.evict = op[p].evict]
    <3>1. op' = [op EXCEPT ![p] = n]
      BY <2>2 DEF ReserveCommitLost, Fail
    <3>2. n.pc = "undo" /\ n.evict = {} /\ n.lep = 0
      BY <1>3 DEF Idle
    <3> HIDE DEF n
    <3>3. Moves(op[p], n)
      BY <3>2 DEF Moves, Seen, Publishing
    <3>4. QED
      BY <1>1, <3>1, <3>2, <3>3
  <2>3. QED
    BY <2>1, <2>2
<1>5. Barred(op'[p]) /\ Evicting(op[p]) = {}
  BY <1>2, <1>3, <1>4 DEF Barred, Evicting, Failing
<1>6. \A v \in Nat : Evicted(v) => Evicted(v)'
  BY <1>2, <1>4, <1>5 DEF Evicted
<1>7. Current => Healthy
  BY <1>2 DEF Current, Healthy
<1>8. Carries /\ DbOK'
  BY <1>1, <1>2, <1>6, <1>7, CarriesQuiet
<1>9. TxInv' /\ GhostInv'
  BY <1>2, FreeLock
<1>10. Looked(op[p])'
  BY <1>2, <1>3, <1>4, <1>8, MovesLooked
<1>11. recEpoch <= recEpoch' /\ Barred(op[p])'
  BY <1>2, <1>5 DEF TypeOK, MachineOK
<1>12. QED
  BY <1>2, <1>4, <1>8, <1>9, <1>10, <1>11, FenceCaller

\* Installing the capture and trimming, behind the barrier as soon as it evicts.
LEMMA FenceTrim ==
  ASSUME TypeOK, TypeOK', LockInv, FenceInv, NEW p \in Callers, PublishTrim(p)
  PROVE  FenceInv'
<1> DEFINE o == op[p]
           id == IF o.unch THEN o.val ELSE mut + 1
           new == [id |-> id, key |-> o.key, dig |-> o.dig]
           S == IF o.unch THEN db.snaps ELSE db.snaps \union {new}
           H == [db.head EXCEPT ![o.key] = id]
           B == IF o.unch THEN db.blobs ELSE [db.blobs EXCEPT ![o.dig].ready = TRUE]
<1>1. /\ op \in [Callers -> Operations] /\ o \in Operations /\ db \in Tables
      /\ epoch \in Nat /\ mut \in Nat /\ recEpoch \in Nat
      /\ p \notin {"free", "ghost", "keeper"}
      /\ o.key \in Keys /\ o.dig \in Digests /\ o.val \in Nat
  BY StoreAssumption DEF TypeOK, TablesOK, MachineOK, Operations
<1>2. PICK E \in Trims(S, H, id) :
        IF E = {} \/ st = "ready"
        THEN /\ tx' = AfterImage(S, H, B, E, {}, {o.key})
             /\ IF E = {} THEN UNCHANGED <<st, epoch>> ELSE BarrierEnter
             /\ op' = [op EXCEPT ![p].pc = "authorize", ![p].val = id,
                                 ![p].bar = E # {}, ![p].evict = Ids(E)]
        ELSE Fail(p, "none") /\ UNCHANGED <<tx, st, epoch>>
  BY DEF PublishTrim
<1>3. UNCHANGED <<recEpoch, uncertain, db, lock, mut, keeper>> /\ o.pc = "trim"
  BY DEF PublishTrim
<1>4. lock = p /\ db.rev[o.key] = o.exp
  BY <1>3 DEF LockInv, LockOK, Held
<1>5. keeper.pc # "commit" /\ \A q \in Callers \ {p} : op[q].pc \notin InTx
  BY <1>1, <1>4 DEF LockInv, LockOK, Held, InTx
<1>6. o.evict = {} /\ Looked(o) /\ Barred(o) /\ DbOK
  BY <1>3 DEF FenceInv, Barred, InTx
<1>7. CASE E = {} \/ st = "ready"
  <2>1. o.unch => Retains(db, o.key, o.val)
    BY <1>3, <1>4, <1>6 DEF Looked, Publishing
  <2>2. new \in Snapshots \/ o.unch
    BY <1>1 DEF Snapshots
  <2>3. S \subseteq Snapshots /\ db.snaps \subseteq S
    BY <1>1, <2>2 DEF Tables
  <2>4. \A s \in S : s \in db.snaps \/ (s = new /\ ~o.unch)
    OBVIOUS
  <2>5. ~o.unch => new.id = mut + 1 /\ id = mut + 1 /\ new.key = o.key /\ new \in S
    OBVIOUS
  <2>6. B \in [Digests -> [gen : Nat, ready : BOOLEAN]]
    BY <1>1 DEF Tables
  <2>7. \A d \in Digests : db.blobs[d].ready => B[d].ready
    BY <1>1 DEF Tables
  <2>8. \A k \in Keys : H[k] = IF k = o.key THEN id ELSE db.head[k]
    BY <1>1 DEF Tables
  <2>9. o.unch => id = o.val
    OBVIOUS
  <2>10. E \subseteq {s \in S : s.id # id}
    BY <1>2 DEF Trims
  <2> HIDE DEF o, S, H, B, id, new
  <2>11. \A s \in db.snaps : s.id <= mut
    BY <1>6 DEF DbOK
  <2>12. \A s \in db.snaps : s.id \in Nat
    BY <1>1 DEF Tables, Snapshots
  <2>13. UniqueIds([snaps |-> S])
    <3>1. \A s, r \in db.snaps : s.id = r.id => s = r
      BY <1>6 DEF DbOK, UniqueIds
    <3>2. QED
      BY <1>1, <2>4, <2>5, <2>11, <2>12, <3>1 DEF UniqueIds
  <2>14. \A k \in Keys : H[k] # 0 => \E s \in S : s.id = H[k] /\ s.key = k
    <3>1. ASSUME NEW k \in Keys, H[k] # 0 PROVE \E s \in S : s.id = H[k] /\ s.key = k
      <4>1. CASE k = o.key /\ o.unch
        BY <2>1, <2>3, <2>8, <2>9, <4>1 DEF Retains
      <4>2. CASE k = o.key /\ ~o.unch
        BY <2>5, <2>8, <4>2
      <4>3. CASE k # o.key
        <5>1. Retains(db, k, db.head[k])
          BY <1>6, <2>8, <3>1, <4>3 DEF DbOK, HeadsOK
        <5>2. QED
          BY <2>3, <2>8, <4>3, <5>1 DEF Retains
      <4>4. QED
        BY <4>1, <4>2, <4>3
    <3>2. QED
      BY <3>1
  <2>15. E \subseteq S /\ E \subseteq db.snaps
    BY <2>4, <2>5, <2>10
  <2>16. \A s \in S : s \in db.snaps \/ s.id = mut + 1
    BY <2>4, <2>5
  <2>17. tx' = AfterImage(S, H, B, E, {}, {o.key}) /\ UNCHANGED <<db, mut>>
    BY <1>2, <1>3, <1>7
  <2>18. TxOK(Ids(E))'
    BY <1>6, <2>3, <2>6, <2>7, <2>13, <2>14, <2>15, <2>16, <2>17, AfterImageTx
  <2>19. PICK n : n = [o EXCEPT !.pc = "authorize", !.val = id, !.bar = E # {}, !.evict = Ids(E)]
    OBVIOUS
  <2>20. n.pc = "authorize" /\ n.evict = Ids(E) /\ n.lep = o.lep /\ n.bar = (E # {})
    BY <1>1, <2>19 DEF Operations
  <2>21. op'[p] = n /\ \A q \in Callers \ {p} : op'[q] = op[q]
    BY <1>1, <1>2, <1>7, <2>19 DEF o
  <2>22. E = {} => Ids(E) = {}
    BY DEF Ids
  <2>23. Barred(n)
    BY <2>20, <2>22 DEF Barred, InTx
  <2>24. /\ epoch <= epoch' /\ (Current => Healthy)
    <3>1. CASE E = {}
      BY <1>1, <1>2, <1>3, <3>1 DEF Current, Healthy
    <3>2. CASE E # {}
      <4>1. BarrierEnter
        BY <1>2, <1>7, <3>2
      <4>2. QED
        BY <1>1, <4>1 DEF BarrierEnter, Current, Healthy
    <3>3. QED
      BY <3>1, <3>2
  <2>25. o.lep <= epoch'
    BY <1>1, <1>6, <2>24 DEF Looked, TypeOK, MachineOK, Operations
  <2>26. Looked(n)'
    BY <2>20, <2>25, RestLooked DEF Seen, Publishing
  <2>27. \A v \in Nat : Evicted(v) => Evicted(v)'
    BY <1>3, <1>6, <2>21 DEF Evicted, Evicting, o
  <2>28. Carries /\ DbOK'
    BY <1>3, <2>24, <2>27, CarriesQuiet
  <2>29. TxInv'
    <3>1. ASSUME NEW q \in Callers, op'[q].pc \in InTx PROVE TxOK(op[q].evict)'
      <4>1. q = p
        BY <1>5, <2>21, <3>1
      <4>2. PICK D : D = Ids(E)
        OBVIOUS
      <4>3. TxOK(D)'
        BY <2>18, <4>2
      <4>4. op'[q].evict = D
        BY <2>20, <2>21, <4>1, <4>2
      <4>5. QED
        BY <4>3, <4>4
    <3>2. keeper'.pc # "commit"
      BY <1>3, <1>5
    <3>3. QED
      BY <3>1, <3>2 DEF TxInv
  <2>30. GhostInv'
    BY <1>1, <1>3, <1>4 DEF GhostInv
  <2>31. recEpoch <= recEpoch' /\ Barred(op[p])' /\ Looked(op[p])'
    BY <1>1, <1>3, <2>21, <2>23, <2>26
  <2>32. QED
    BY <1>3, <2>21, <2>28, <2>29, <2>30, <2>31, FenceCaller
<1>8. CASE ~(E = {} \/ st = "ready")
  <2> HIDE DEF S, H, B, id
  <2>1. Fail(p, "none") /\ UNCHANGED <<tx, st, epoch>> /\ epoch <= epoch'
    BY <1>1, <1>2, <1>8
  <2>2. /\ \A q \in Callers \ {p} : op'[q] = op[q]
        /\ op'[p].pc = "undo" /\ op'[p].err = "none"
        /\ op'[p].evict = op[p].evict /\ op'[p].bar = op[p].bar
        /\ Looked(op[p])'
    BY <2>1, FailMoves
  <2>3. Barred(op'[p]) /\ op'[p].pc \notin InTx /\ Evicting(op[p]) = {} /\ ~Failing(op[p])
    BY <1>3, <1>6, <2>2 DEF Barred, InTx, Evicting, Failing
  <2>4. UNCHANGED <<st, epoch, recEpoch, uncertain, db, tx, mut, keeper, lock>>
    BY <1>3, <2>1
  <2>5. QED
    BY <2>2, <2>3, <2>4, FenceLocal
<1>9. QED
  BY <1>7, <1>8

\* COMMIT is applied and its answer arrives, or it is lost.
LEMMA FenceCommit ==
  ASSUME TypeOK, TypeOK', LockInv, LockInv', FenceInv, NEW p \in Callers,
         PublishCommit(p) \/ CommitLost(p)
  PROVE  FenceInv'
<1>1. /\ op \in [Callers -> Operations] /\ op[p] \in Operations
      /\ epoch \in Nat /\ recEpoch \in Nat /\ p \notin {"free", "ghost", "keeper"}
  BY StoreAssumption DEF TypeOK, MachineOK
<1>2. op[p].pc \in {"commit", "ack"} /\ UNCHANGED <<st, epoch, recEpoch, keeper>>
  BY DEF PublishCommit, CommitLost, machine
<1>3. Barred(op[p]) /\ Looked(op[p]) /\ Evicting(op[p]) = op[p].evict /\ ~Failing(op[p])
  BY <1>2 DEF FenceInv, Evicting, Failing
<1>4. PICK E : E = op[p].evict
  OBVIOUS
<1>5. op[p].pc = "commit" => TxOK(E)
  BY <1>4 DEF FenceInv, TxInv, InTx
<1>6. recEpoch <= recEpoch' /\ epoch <= epoch'
  BY <1>1, <1>2
<1>7. CASE PublishCommit(p)
  <2>1. PICK n : n = [Idle EXCEPT !.pc = "ack", !.val = op[p].val, !.bar = op[p].bar, !.evict = op[p].evict]
    OBVIOUS
  <2>2. n.pc = "ack" /\ n.bar = op[p].bar /\ n.evict = E /\ n.lep = 0
    BY <1>4, <2>1 DEF Idle
  <2>3. op'[p] = n /\ \A q \in Callers \ {p} : op'[q] = op[q]
    BY <1>1, <1>7, <2>1 DEF PublishCommit
  <2>4. /\ db' = tx /\ mut' = mut + 1 /\ UNCHANGED uncertain /\ lock' = "free"
        /\ op[p].pc = "commit"
    BY <1>7 DEF PublishCommit, machine
  <2>5. Barred(n)
    BY <1>3, <1>4, <2>2, <2>4 DEF Barred, InTx
  <2>6. Looked(n)'
    BY <1>1, <1>2, <2>2, RestLooked DEF Seen, Publishing
  <2>7. Evicting(op'[p]) = E
    BY <2>2, <2>3 DEF Evicting, Failing
  <2>8. \A v : Evicted(v) => Evicted(v)'
    BY <1>2, <1>3, <1>4, <2>3, <2>7 DEF Evicted
  <2>9. \A v \in E : Evicted(v)'
    BY <2>7 DEF Evicted
  <2>10. Current => Healthy
    BY <1>2, <2>4 DEF Current, Healthy
  <2>11. Carries /\ DbOK'
    BY <1>2, <1>5, <2>4, <2>8, <2>9, <2>10, CarriesCommit
  <2>12. TxInv' /\ GhostInv'
    BY <2>4, FreeLock
  <2>13. Looked(op[p])' /\ Barred(op[p])'
    BY <2>3, <2>5, <2>6
  <2>14. QED
    BY <1>2, <1>6, <2>3, <2>11, <2>12, <2>13, FenceCaller
<1>8. CASE CommitLost(p)
  <2>1. /\ Fail(p, "unavailable") /\ UNCHANGED <<db, tx, mut>>
        /\ uncertain' = (uncertain \/ Strict)
    BY <1>8 DEF CommitLost
  <2>2. /\ \A q \in Callers \ {p} : op'[q] = op[q]
        /\ op'[p].pc = "undo" /\ op'[p].err = "unavailable"
        /\ op'[p].evict = E /\ op'[p].bar = op[p].bar
        /\ Looked(op[p])'
    BY <1>4, <1>6, <2>1, FailMoves
  <2>3. Barred(op'[p])
    BY <1>2, <1>3, <1>4, <2>2 DEF Barred, InTx
  <2>4. Lost(op'[p], E) /\ Evicting(op'[p]) = E
    BY <2>2 DEF Lost, Failing, Evicting
  <2>5. \A v \in Nat : Evicted(v) => Evicted(v)'
    BY <1>2, <1>3, <1>4, <2>2, <2>4 DEF Evicted
  <2>6. Current => Healthy
    BY <1>2, <2>1 DEF Current, Healthy
  <2>7. Carries /\ DbOK'
    BY <1>6, <2>1, <2>5, <2>6, CarriesQuiet
  <2>8. TxInv' /\ GhostInv'
    <3>1. CASE op[p].pc = "ack" /\ UNCHANGED lock
      <4>1. op'[p].pc \notin InTx /\ (Blocked => Blocked') /\ (\A D : ~Lost(op[p], D))
        BY <1>2, <1>3, <2>2 DEF InTx, Blocked, Lost
      <4>2. QED
        BY <1>2, <2>1, <2>2, <3>1, <4>1, SharedKept
    <3>2. CASE op[p].pc = "commit" /\ lock' = "ghost"
      <4>1. TxOK(E)'
        BY <1>5, <2>1, <3>2, TxKept
      <4>2. GhostInv'
        BY <2>4, <4>1 DEF GhostInv
      <4>3. keeper'.pc # "commit" /\ \A q \in Callers : op'[q].pc \notin InTx
        BY <3>2, StoreAssumption DEF LockInv, LockOK, Held, InTx
      <4>4. TxInv'
        BY <4>3 DEF TxInv
      <4>5. QED
        BY <4>2, <4>4
    <3>3. QED
      BY <1>8, <3>1, <3>2 DEF CommitLost
  <2>9. Barred(op[p])'
    BY <2>3
  <2>10. QED
    BY <1>2, <1>6, <2>2, <2>7, <2>8, <2>9, FenceCaller
<1>9. QED
  BY <1>7, <1>8

\* Dropping a barrier that was held moves the epoch; no failure state is left by it.
LEMMA DropKept ==
  ASSUME TypeOK, NEW held \in BOOLEAN, BarrierDrop(held), UNCHANGED <<uncertain, recEpoch>>,
         keeper'.pc = "reopen" => keeper.pc = "reopen" /\ keeper'.gen = keeper.gen
  PROVE  /\ epoch <= epoch' /\ (held => ~Current) /\ (Current => Healthy)
         /\ Blocked => Blocked'
<1>1. epoch \in Nat
  BY DEF TypeOK, MachineOK
<1>2. CASE held
  BY <1>1, <1>2 DEF BarrierDrop, Current, Blocked
<1>3. CASE ~held
  BY <1>1, <1>3 DEF BarrierDrop, Current, Healthy, Blocked
<1>4. QED
  BY <1>2, <1>3

\* The publication ends: the barrier falls, the transaction rolls back, the error is recorded.
LEMMA FenceEnd ==
  ASSUME TypeOK, TypeOK', LockInv, LockInv', FenceInv, NEW p \in Callers,
         PublishDrop(p) \/ Undo(p)
  PROVE  FenceInv'
<1>1. /\ op \in [Callers -> Operations] /\ op[p] \in Operations /\ op[p].bar \in BOOLEAN
      /\ epoch \in Nat /\ recEpoch \in Nat
  BY DEF TypeOK, MachineOK, Operations
<1>2. /\ BarrierDrop(op[p].bar) /\ op[p].pc \in {"drop", "undo"}
      /\ UNCHANGED <<recEpoch, uncertain, db, mut, keeper>>
  BY DEF PublishDrop, Undo, tables
<1>3. Barred(op[p]) /\ Looked(op[p]) /\ op[p].lep <= epoch
  BY DEF FenceInv, Looked
<1>4. /\ epoch <= epoch' /\ (op[p].bar => ~Current) /\ (Current => Healthy)
      /\ Blocked => Blocked'
  BY <1>1, <1>2, DropKept
<1>5. ~op[p].bar => op[p].evict = {}
  BY <1>2, <1>3 DEF Barred
<1>6. PICK n : n = IF op[p].pc = "drop"
                   THEN [op[p] EXCEPT !.pc = "accept", !.bar = FALSE, !.evict = {}]
                   ELSE [op[p] EXCEPT !.pc = "record", !.bar = FALSE]
  OBVIOUS
<1>7. op'[p] = n /\ \A q \in Callers \ {p} : op'[q] = op[q]
  BY <1>1, <1>6 DEF PublishDrop, Undo
<1>8. /\ n.lep = op[p].lep
      /\ op[p].pc = "drop" => n.pc = "accept" /\ n.evict = {}
      /\ op[p].pc = "undo" => n.pc = "record" /\ n.evict = op[p].evict /\ n.err = op[p].err
  BY <1>1, <1>6 DEF Operations
<1>9. n.pc \in {"accept", "record"}
  BY <1>2, <1>8
<1>10. Barred(n)
  BY <1>2, <1>8, <1>9 DEF Barred, InTx
<1>11. Looked(n)'
  <2>1. op[p].lep \in Nat /\ epoch' \in Nat
    BY <1>1 DEF Operations, TypeOK, MachineOK
  <2>2. n.lep <= epoch'
    BY <1>1, <1>3, <1>4, <1>8, <2>1
  <2>3. QED
    BY <1>9, <2>2, RestLooked DEF Seen, Publishing
<1>12. ~op[p].bar => Evicting(op[p]) = {}
  BY <1>5 DEF Evicting
<1>13. Current => \A v \in Nat : Evicted(v) => Evicted(v)'
  BY <1>2, <1>4, <1>7, <1>12 DEF Evicted
<1>14. Carries /\ DbOK'
  BY <1>2, <1>4, <1>13, CarriesQuiet
<1>15. TxInv' /\ GhostInv'
  <2>1. CASE UNCHANGED <<lock, tx>>
    <3>1. \A E : Lost(op[p], E) => Lost(op'[p], E)
      BY <1>2, <1>7, <1>8 DEF Lost, Failing
    <3>2. op'[p].pc \notin InTx
      BY <1>7, <1>9 DEF InTx
    <3>3. QED
      BY <1>2, <1>4, <1>7, <2>1, <3>1, <3>2, SharedKept
  <2>2. CASE lock' = "free"
    BY <2>2, FreeLock
  <2>3. QED
    BY <2>1, <2>2 DEF PublishDrop, Undo, tables
<1>16. recEpoch <= recEpoch' /\ Looked(op[p])' /\ Barred(op[p])'
  BY <1>1, <1>2, <1>7, <1>10, <1>11
<1>17. QED
  BY <1>2, <1>7, <1>14, <1>15, <1>16, FenceCaller

\* An error that is the store's leaves it unavailable until a later recovery.
LEMMA RecordKept ==
  ASSUME TypeOK, NEW error, Record(error), UNCHANGED uncertain,
         keeper'.pc = "reopen" => keeper.pc = "reopen" /\ keeper'.gen = keeper.gen,
         KeeperBarred(keeper)
  PROVE  /\ epoch <= epoch' /\ recEpoch <= recEpoch' /\ (Current => Healthy)
         /\ Blocked => Blocked'
         /\ error # "none" => Blocked' /\ ~Current
<1>1. epoch \in Nat /\ recEpoch \in Nat /\ keeper.gen \in Nat
  BY DEF TypeOK, MachineOK, Keepers
<1>2. CASE error = "none" \/ st \in {"closed", "corrupt"}
  BY <1>1, <1>2 DEF Record, Current, Healthy, Blocked
<1>3. CASE ~(error = "none" \/ st \in {"closed", "corrupt"})
  <2>1. epoch' = epoch + 1 /\ recEpoch' = recEpoch + 1 /\ st' \in {"corrupt", "recovering"}
    BY <1>3 DEF Record
  <2>2. keeper'.pc = "reopen" => keeper'.gen # recEpoch'
    BY <1>1, <2>1 DEF KeeperBarred
  <2>3. QED
    BY <1>1, <2>1, <2>2 DEF Current, Blocked
<1>4. QED
  BY <1>2, <1>3

LEMMA FenceRecord ==
  ASSUME TypeOK, TypeOK', LockInv, FenceInv, NEW p \in Callers, RecordResult(p)
  PROVE  FenceInv'
<1>1. /\ op \in [Callers -> Operations] /\ op[p].pc = "record" /\ Record(op[p].err)
      /\ op' = [op EXCEPT ![p] = Idle] /\ UNCHANGED <<uncertain, db, lock, tx, mut, keeper>>
  BY DEF TypeOK, RecordResult, tables
<1>2. KeeperBarred(keeper)
  BY DEF FenceInv
<1>3. /\ epoch <= epoch' /\ recEpoch <= recEpoch' /\ (Current => Healthy)
      /\ Blocked => Blocked'
      /\ op[p].err # "none" => Blocked' /\ ~Current
  BY <1>1, <1>2, RecordKept
<1>4. /\ op'[p] = Idle /\ \A q \in Callers \ {p} : op'[q] = op[q]
      /\ Idle.pc = "idle" /\ Idle.evict = {} /\ Idle.lep = 0
  BY <1>1 DEF Idle
<1>5. Barred(Idle) /\ Idle.pc \notin InTx /\ 0 <= epoch'
  BY <1>4 DEF Barred, InTx, TypeOK, MachineOK
<1>6. Looked(Idle)'
  BY <1>4, <1>5, RestLooked DEF Seen, Publishing
<1>7. op[p].err = "none" => Evicting(op[p]) = {}
  BY <1>1 DEF Evicting, Failing
<1>8. Current => \A v \in Nat : Evicted(v) => Evicted(v)'
  BY <1>1, <1>3, <1>4, <1>7 DEF Evicted
<1>9. Carries /\ DbOK'
  BY <1>1, <1>3, <1>8, CarriesQuiet
<1>10. \A E : Lost(op[p], E) => Blocked'
  BY <1>3 DEF Lost
<1>11. TxInv' /\ GhostInv'
  BY <1>1, <1>3, <1>4, <1>5, <1>10, SharedKept
<1>12. Looked(op[p])' /\ Barred(op[p])'
  BY <1>4, <1>5, <1>6
<1>13. QED
  BY <1>1, <1>3, <1>4, <1>9, <1>11, <1>12, FenceCaller

----------------------------------------------------------------------------
(* The keeper and the environment. *)

\* A step that leaves the callers' operations alone.
LEMMA FenceOthers ==
  ASSUME TypeOK, TypeOK', FenceInv, UNCHANGED op, Carries, DbOK', TxInv', GhostInv',
         KeeperBarred(keeper)'
  PROVE  FenceInv'
<1>1. ASSUME NEW q \in Callers PROVE Looked(op[q])' /\ Barred(op[q])'
  <2>1. PICK o \in Operations : o = op[q]
    BY DEF TypeOK
  <2>2. Looked(o) /\ Barred(o)
    BY <2>1 DEF FenceInv
  <2>3. Looked(o)'
    BY <2>2, LookedCarried
  <2>4. op'[q] = o
    BY <2>1
  <2>5. Looked(op[q])'
    BY <2>3, <2>4 DEF Looked
  <2>6. QED
    BY <2>2, <2>4, <2>5 DEF Barred
<1>2. QED
  BY <1>1 DEF FenceInv

\* A step that also leaves what a transaction in doubt was to commit.
LEMMA GhostKept ==
  ASSUME FenceInv, UNCHANGED <<op, tx, mut>>,
         db'.snaps = db.snaps, db'.rev = db.rev, db'.blobs = db.blobs,
         lock' = "ghost" => lock = "ghost", Blocked => Blocked',
         \A E : Lost(keeper, E) => Lost(keeper', E) \/ Blocked'
  PROVE  GhostInv'
<1> SUFFICES ASSUME lock' = "ghost"
             PROVE  (\E E : TxOK(E) /\ (Lost(keeper, E) \/ (\E q \in Callers : Lost(op[q], E)) \/ Blocked))'
  BY DEF GhostInv
<1>1. PICK E : TxOK(E) /\ (Lost(keeper, E) \/ (\E q \in Callers : Lost(op[q], E)) \/ Blocked)
  BY DEF FenceInv, GhostInv
<1>2. TxOK(E)'
  BY <1>1, TxKept
<1>3. Lost(keeper, E) => Lost(keeper', E) \/ Blocked'
  OBVIOUS
<1>4. \A q \in Callers : Lost(op[q], E) => Lost(op'[q], E)
  OBVIOUS
<1>5. QED
  BY <1>1, <1>2, <1>3, <1>4

LEMMA CallersTxKept ==
  ASSUME FenceInv, UNCHANGED <<op, tx, mut>>,
         db'.snaps = db.snaps, db'.rev = db.rev, db'.blobs = db.blobs,
         keeper'.pc = "commit" => UNCHANGED keeper
  PROVE  TxInv'
<1>1. ASSUME NEW E, TxOK(E) PROVE TxOK(E)'
  BY <1>1, TxKept
<1>2. ASSUME NEW q \in Callers, op'[q].pc \in InTx PROVE TxOK(op[q].evict)'
  <2>1. PICK E : E = op[q].evict
    OBVIOUS
  <2>2. TxOK(E)
    BY <1>2, <2>1 DEF FenceInv, TxInv
  <2>3. TxOK(E)' /\ op'[q].evict = E
    BY <1>1, <2>1, <2>2
  <2>4. QED
    BY <2>3
<1>3. ASSUME keeper'.pc = "commit"
      PROVE  TxOK(keeper.evict)' /\ tx'.snaps \subseteq db'.snaps /\ (keeper'.evict = {} => tx'.rev = db'.rev)
  <2>1. PICK E : E = keeper.evict
    OBVIOUS
  <2>2. TxOK(E) /\ tx.snaps \subseteq db.snaps /\ (E = {} => tx.rev = db.rev)
    BY <1>3, <2>1 DEF FenceInv, TxInv
  <2>3. TxOK(E)' /\ keeper'.evict = E
    BY <1>1, <1>3, <2>1, <2>2
  <2>4. QED
    BY <2>2, <2>3
<1>4. QED
  BY <1>2, <1>3 DEF TxInv

\* A step of the keeper outside a transaction.
LEMMA KeeperKept ==
  ASSUME TypeOK, TypeOK', LockInv', FenceInv, UNCHANGED <<op, mut>>,
         db'.snaps = db.snaps, db'.rev = db.rev, db'.head = db.head,
         epoch <= epoch', Current => Healthy,
         Current => \A v \in Evicting(keeper) : Present(v) \/ v \in Evicting(keeper'),
         \/ lock' = "free"
         \/ /\ UNCHANGED tx /\ db'.blobs = db.blobs /\ keeper'.pc # "commit"
            /\ lock' = "ghost" => lock = "ghost"
            /\ Blocked => Blocked'
            /\ \A E : Lost(keeper, E) => Lost(keeper', E) \/ Blocked',
         KeeperBarred(keeper)'
  PROVE  FenceInv'
<1>1. Current => \A v \in Nat : Evicted(v) => Present(v) \/ Evicted(v)'
  BY DEF Evicted
<1>2. Carries /\ DbOK'
  BY <1>1, CarriesQuiet
<1>3. TxInv' /\ GhostInv'
  <2>1. CASE lock' = "free"
    BY <2>1, FreeLock
  <2>2. CASE /\ UNCHANGED tx /\ db'.blobs = db.blobs /\ keeper'.pc # "commit"
             /\ lock' = "ghost" => lock = "ghost"
             /\ Blocked => Blocked'
             /\ \A E : Lost(keeper, E) => Lost(keeper', E) \/ Blocked'
    BY <2>2, GhostKept, CallersTxKept
  <2>3. QED
    BY <2>1, <2>2
<1>4. QED
  BY <1>2, <1>3, FenceOthers

\* The keeper's steps outside its retention transaction.
KeeperQuiet ==
  \/ MaintainStart \/ CleanNext \/ Unlink \/ Dequeue \/ ScanNext \/ QueueCommitLost
  \/ RecoverStart \/ RecoverFence \/ RecoverReopen \/ KeeperFault

LEMMA KFailMoves ==
  ASSUME NEW e, KFail(e)
  PROVE  /\ keeper'.pc = "undo" /\ keeper'.err = e
         /\ keeper'.evict = keeper.evict /\ keeper'.bar = keeper.bar
<1>1. keeper' = [IdleKeeper EXCEPT !.pc = "undo", !.err = e, !.bar = keeper.bar, !.evict = keeper.evict]
  BY DEF KFail
<1>2. QED
  BY <1>1 DEF IdleKeeper

LEMMA KeeperQuietMoves ==
  ASSUME TypeOK, KeeperQuiet, keeper.evict = {}
  PROVE  /\ keeper'.evict = {} /\ keeper'.pc # "commit"
         /\ keeper'.pc = "fence" => keeper'.gen = recEpoch
         /\ keeper'.pc = "reopen" => keeper.pc = "fence" /\ lock = "free" /\ keeper'.gen = keeper.gen
<1> DEFINE Result == /\ keeper'.evict = {} /\ keeper'.pc # "commit"
                     /\ keeper'.pc = "fence" => keeper'.gen = recEpoch
                     /\ keeper'.pc = "reopen" => /\ keeper.pc = "fence" /\ lock = "free"
                                                 /\ keeper'.gen = keeper.gen
<1>1. keeper \in Keepers
  BY DEF TypeOK
<1>2. ASSUME NEW e, KFail(e) PROVE Result
  BY <1>2, KFailMoves
<1>3. CASE keeper' = IdleKeeper
  BY <1>3 DEF IdleKeeper
<1>4. CASE MaintainStart
  BY <1>4 DEF MaintainStart, IdleKeeper
<1>5. CASE CleanNext
  <2>1. CASE keeper' = [keeper EXCEPT !.pc = "scan", !.todo = files]
    BY <1>1, <2>1 DEF Keepers
  <2>2. CASE keeper' = [keeper EXCEPT !.pc = "trim"]
    BY <1>1, <2>2 DEF Keepers
  <2>3. ASSUME NEW x, keeper' = [keeper EXCEPT !.pc = "unlink", !.loc = x] PROVE Result
    BY <1>1, <2>3 DEF Keepers
  <2>4. QED
    BY <1>2, <1>5, <2>1, <2>2, <2>3 DEF CleanNext
<1>6. CASE Unlink
  BY <1>1, <1>6 DEF Unlink, KGoto, Keepers
<1>7. CASE Dequeue
  BY <1>1, <1>7 DEF Dequeue, Keepers
<1>8. CASE ScanNext
  <2>1. ASSUME NEW x, keeper' = [keeper EXCEPT !.todo = @ \ {x}], keeper.pc = "scan" PROVE Result
    BY <1>1, <2>1 DEF Keepers
  <2>2. QED
    BY <1>3, <1>8, <2>1 DEF ScanNext
<1>9. CASE RecoverStart
  BY <1>9 DEF RecoverStart, IdleKeeper
<1>10. CASE RecoverFence
  BY <1>1, <1>10 DEF RecoverFence, KGoto, Keepers
<1>11. CASE RecoverReopen \/ QueueCommitLost \/ KeeperFault
  BY <1>2, <1>3, <1>11 DEF RecoverReopen, QueueCommitLost, KeeperFault
<1>12. QED
  BY <1>4, <1>5, <1>6, <1>7, <1>8, <1>9, <1>10, <1>11 DEF KeeperQuiet

LEMMA FenceKeeperQuiet ==
  ASSUME TypeOK, TypeOK', LockInv', FenceInv, KeeperQuiet
  PROVE  FenceInv'
<1>1. /\ db \in Tables /\ keeper \in Keepers /\ epoch \in Nat /\ recEpoch \in Nat /\ keeper.gen \in Nat
  BY DEF TypeOK, TablesOK, MachineOK, Keepers
<1>2. keeper.pc \in {"idle", "clean", "unlink", "dequeue", "trim", "scan", "fence", "reopen"}
  BY DEF KeeperQuiet, MaintainStart, CleanNext, Unlink, Dequeue, ScanNext, QueueCommitLost,
         RecoverStart, RecoverFence, RecoverReopen, KeeperFault
<1>3. keeper.evict = {} /\ KeeperBarred(keeper) /\ ~Failing(keeper) /\ Evicting(keeper) = {}
  BY <1>2 DEF FenceInv, KeeperBarred, Failing, Evicting
<1>4. /\ keeper'.evict = {} /\ keeper'.pc # "commit"
      /\ keeper'.pc = "fence" => keeper'.gen = recEpoch
      /\ keeper'.pc = "reopen" => keeper.pc = "fence" /\ lock = "free" /\ keeper'.gen = keeper.gen
  BY <1>3, KeeperQuietMoves
<1>5. UNCHANGED <<op, mut, tx, lock, recEpoch>>
  BY DEF KeeperQuiet, MaintainStart, CleanNext, Unlink, Dequeue, ScanNext, QueueCommitLost,
         RecoverStart, RecoverFence, RecoverReopen, KeeperFault, machine, tables
<1>6. /\ db'.snaps = db.snaps /\ db'.rev = db.rev /\ db'.head = db.head /\ db'.blobs = db.blobs
  <2>1. db' = db \/ \E X : db' = [db EXCEPT !.queue = X]
    BY DEF KeeperQuiet, MaintainStart, CleanNext, Unlink, Dequeue, ScanNext, QueueCommitLost,
           RecoverStart, RecoverFence, RecoverReopen, KeeperFault, tables
  <2>2. QED
    BY <1>1, <2>1 DEF Tables
<1>7. \/ UNCHANGED <<st, epoch>> /\ (uncertain' = uncertain \/ uncertain' = (uncertain \/ Strict))
      \/ NoNewerFailure /\ epoch' = epoch + 1 /\ keeper.pc = "reopen"
  <2>1. CASE RecoverReopen
    BY <2>1 DEF RecoverReopen
  <2>2. CASE QueueCommitLost
    BY <2>2 DEF QueueCommitLost
  <2>3. CASE ~(RecoverReopen \/ QueueCommitLost)
    BY <2>3 DEF KeeperQuiet, MaintainStart, CleanNext, Unlink, Dequeue, ScanNext,
           RecoverStart, RecoverFence, KeeperFault, machine
  <2>4. QED
    BY <2>1, <2>2, <2>3
<1>8. epoch <= epoch' /\ (Current => Healthy)
  <2>1. CASE UNCHANGED <<st, epoch>> /\ uncertain' = uncertain
    BY <1>1, <2>1 DEF Current, Healthy
  <2>2. CASE UNCHANGED <<st, epoch>> /\ uncertain' = (uncertain \/ Strict)
    <3>1. epoch <= epoch'
      BY <1>1, <2>2
    <3>2. Current => Healthy
      BY <2>2 DEF Current, Healthy
    <3>3. QED
      BY <3>1, <3>2
  <2>3. CASE epoch' = epoch + 1
    BY <1>1, <2>3 DEF Current
  <2>4. QED
    BY <1>7, <2>1, <2>2, <2>3
<1>9. KeeperBarred(keeper)'
  BY <1>1, <1>3, <1>4, <1>5 DEF KeeperBarred
<1>10. \A E : ~Lost(keeper, E)
  BY <1>3 DEF Lost
<1>11. lock' = "free" \/ (Blocked => Blocked')
  <2>1. keeper'.pc # "reopen" \/ lock' = "free"
    BY <1>4, <1>5
  <2>2. Blocked => st' = st
    BY <1>7 DEF Blocked, NoNewerFailure
  <2>3. QED
    BY <2>1, <2>2 DEF Blocked
<1>12. QED
  BY <1>3, <1>4, <1>5, <1>6, <1>8, <1>9, <1>10, <1>11, KeeperKept

\* The retention transaction trims behind the barrier as well.
LEMMA FenceMaintainTrim ==
  ASSUME TypeOK, TypeOK', LockInv, LockInv', FenceInv, MaintainTrim
  PROVE  FenceInv'
<1>1. /\ db \in Tables /\ keeper \in Keepers /\ epoch \in Nat /\ recEpoch \in Nat
  BY DEF TypeOK, TablesOK, MachineOK
<1>2. PICK E \in Trims(db.snaps, db.head, 0),
           P \in SUBSET {d \in Digests : db.blobs[d].gen # 0 /\ ~db.blobs[d].ready} :
        IF E = {} \/ st = "ready"
        THEN /\ tx' = AfterImage(db.snaps, db.head, db.blobs, E, P, {})
             /\ lock' = "keeper"
             /\ IF E = {} THEN UNCHANGED <<st, epoch>> ELSE BarrierEnter
             /\ keeper' = [keeper EXCEPT !.pc = "commit", !.bar = E # {}, !.evict = Ids(E)]
        ELSE KFail("none") /\ UNCHANGED <<tx, lock, st, epoch>>
  BY DEF MaintainTrim
<1>3. /\ UNCHANGED <<recEpoch, uncertain, db, mut, op>> /\ keeper.pc = "trim" /\ lock = "free"
  BY DEF MaintainTrim
<1>4. keeper.evict = {} /\ KeeperBarred(keeper) /\ Evicting(keeper) = {} /\ DbOK
  BY <1>3 DEF FenceInv, KeeperBarred, Evicting, Failing
<1>5. \A q \in Callers : op[q].pc \notin InTx
  BY <1>3, StoreAssumption DEF LockInv, LockOK, Held, InTx
<1>6. CASE E = {} \/ st = "ready"
  <2>1. db.blobs \in [Digests -> [gen : Nat, ready : BOOLEAN]] /\ db.snaps \subseteq Snapshots
    BY <1>1 DEF Tables
  <2>2. E \subseteq db.snaps
    BY <1>2 DEF Trims
  <2>3. UniqueIds([snaps |-> db.snaps])
    BY <1>4 DEF DbOK, UniqueIds
  <2>4. \A k \in Keys : db.head[k] # 0 => \E s \in db.snaps : s.id = db.head[k] /\ s.key = k
    BY <1>4 DEF DbOK, HeadsOK, Retains
  <2>5. tx' = AfterImage(db.snaps, db.head, db.blobs, E, P, {}) /\ UNCHANGED <<db, mut>>
    BY <1>2, <1>3, <1>6
  <2>6. /\ TxOK(Ids(E))' /\ tx'.snaps \subseteq db.snaps
        /\ E = {} => tx'.rev = db.rev
    BY <1>4, <2>1, <2>2, <2>3, <2>4, <2>5, AfterImageTx
  <2>7. keeper'.pc = "commit" /\ keeper'.evict = Ids(E) /\ keeper'.bar = (E # {})
    BY <1>1, <1>2, <1>6 DEF Keepers
  <2>8. Ids(E) = {} <=> E = {}
    BY DEF Ids
  <2>9. epoch <= epoch' /\ (Current => Healthy)
    <3>1. CASE E = {}
      BY <1>1, <1>2, <1>3, <3>1 DEF Current, Healthy
    <3>2. CASE E # {}
      <4>1. BarrierEnter
        BY <1>2, <1>6, <3>2
      <4>2. QED
        BY <1>1, <4>1 DEF BarrierEnter, Current, Healthy
    <3>3. QED
      BY <3>1, <3>2
  <2>10. Carries /\ DbOK'
    <3>1. \A v \in Nat : Evicted(v) => Evicted(v)'
      BY <1>3, <1>4 DEF Evicted
    <3>2. QED
      BY <1>3, <2>9, <3>1, CarriesQuiet
  <2>11. TxInv'
    <3>1. PICK D : D = Ids(E)
      OBVIOUS
    <3>2. TxOK(D)' /\ keeper'.evict = D
      BY <2>6, <2>7, <3>1
    <3>3. TxOK(keeper.evict)'
      BY <3>2
    <3>4. tx'.snaps \subseteq db'.snaps /\ (keeper'.evict = {} => tx'.rev = db'.rev)
      BY <1>3, <2>6, <2>7, <2>8
    <3>5. QED
      BY <1>3, <1>5, <3>3, <3>4 DEF TxInv
  <2>12. GhostInv'
    BY <1>2, <1>6 DEF GhostInv
  <2>13. KeeperBarred(keeper)'
    BY <2>7, <2>8 DEF KeeperBarred
  <2>14. QED
    BY <1>3, <2>10, <2>11, <2>12, <2>13, FenceOthers
<1>7. CASE ~(E = {} \/ st = "ready")
  <2>1. KFail("none") /\ UNCHANGED <<st, epoch, lock>>
    BY <1>2, <1>7
  <2>2. keeper'.pc = "undo" /\ keeper'.evict = {} /\ keeper'.bar = keeper.bar
    BY <1>4, <2>1, KFailMoves
  <2>3. KeeperBarred(keeper)'
    BY <2>2 DEF KeeperBarred
  <2>4. epoch <= epoch' /\ (Current => Healthy) /\ lock' = "free"
    BY <1>1, <1>3, <2>1 DEF Current, Healthy
  <2>5. QED
    BY <1>3, <1>4, <2>3, <2>4, KeeperKept
<1>8. QED
  BY <1>6, <1>7

LEMMA FenceMaintainCommit ==
  ASSUME TypeOK, TypeOK', LockInv, LockInv', FenceInv, MaintainCommit \/ KeeperCommitLost
  PROVE  FenceInv'
<1>1. keeper \in Keepers /\ epoch \in Nat /\ recEpoch \in Nat
  BY DEF TypeOK, MachineOK
<1>2. keeper.pc \in {"commit", "ack"} /\ UNCHANGED <<st, epoch, recEpoch, op>>
  BY DEF MaintainCommit, KeeperCommitLost, machine
<1>3. KeeperBarred(keeper) /\ Evicting(keeper) = keeper.evict /\ ~Failing(keeper)
  BY <1>2 DEF FenceInv, Evicting, Failing
<1>4. PICK E : E = keeper.evict
  OBVIOUS
<1>5. keeper.pc = "commit" => TxOK(E) /\ tx.snaps \subseteq db.snaps /\ (E = {} => tx.rev = db.rev)
  BY <1>4 DEF FenceInv, TxInv
<1>6. CASE MaintainCommit
  <2>1. /\ db' = tx /\ mut' = (IF E = {} THEN mut ELSE mut + 1) /\ lock' = "free"
        /\ UNCHANGED uncertain /\ keeper.pc = "commit" /\ KGoto("ack")
    BY <1>4, <1>6 DEF MaintainCommit, machine
  <2>2. keeper'.pc = "ack" /\ keeper'.evict = E /\ keeper'.bar = keeper.bar
    BY <1>1, <1>4, <2>1 DEF KGoto, Keepers
  <2>3. Evicting(keeper') = E
    BY <2>2 DEF Evicting, Failing
  <2>4. (\A v : Evicted(v) => Evicted(v)') /\ (\A v \in E : Evicted(v)')
    BY <1>2, <1>3, <1>4, <2>3 DEF Evicted
  <2>5. Current => Healthy
    BY <1>2, <2>1 DEF Current, Healthy
  <2>6. mut' = mut + 1 \/ (mut' = mut /\ tx.snaps \subseteq db.snaps /\ tx.rev = db.rev)
    BY <1>5, <2>1
  <2>7. Carries /\ DbOK'
    BY <1>2, <1>5, <2>1, <2>4, <2>5, <2>6, CarriesCommit
  <2>8. TxInv' /\ GhostInv'
    BY <2>1, FreeLock
  <2>9. KeeperBarred(keeper)'
    BY <1>3, <1>4, <2>1, <2>2 DEF KeeperBarred
  <2>10. QED
    BY <1>2, <2>7, <2>8, <2>9, FenceOthers
<1>7. CASE KeeperCommitLost
  <2>1. KFail("unavailable") /\ UNCHANGED <<db, tx, mut>> /\ uncertain' = (uncertain \/ Strict)
    BY <1>7 DEF KeeperCommitLost
  <2>2. /\ keeper'.pc = "undo" /\ keeper'.err = "unavailable"
        /\ keeper'.evict = E /\ keeper'.bar = keeper.bar
    BY <1>4, <2>1, KFailMoves
  <2>3. Lost(keeper', E) /\ Evicting(keeper') = E
    BY <2>2 DEF Lost, Failing, Evicting
  <2>4. KeeperBarred(keeper)'
    BY <1>2, <1>3, <1>4, <2>2 DEF KeeperBarred
  <2>5. epoch <= epoch'
    BY <1>1, <1>2
  <2>6. Current => Healthy
    BY <1>2, <2>1 DEF Current, Healthy
  <2>7. CASE keeper.pc = "ack" /\ UNCHANGED lock
    <3>1. \A D : ~Lost(keeper, D)
      BY <1>3 DEF Lost
    <3>2. Blocked => Blocked'
      BY <1>2, <2>2 DEF Blocked
    <3>3. \A v \in Evicting(keeper) : v \in Evicting(keeper')
      BY <1>3, <1>4, <2>3
    <3>4. keeper'.pc # "commit"
      BY <2>2
    <3>5. QED
      BY <1>2, <2>1, <2>4, <2>5, <2>6, <2>7, <3>1, <3>2, <3>3, <3>4, KeeperKept
  <2>8. CASE keeper.pc = "commit" /\ lock' = "ghost"
    <3>1. TxOK(E)'
      BY <1>5, <2>1, <2>8, TxKept
    <3>2. GhostInv'
      BY <2>3, <3>1 DEF GhostInv
    <3>3. \A q \in Callers : op'[q].pc \notin InTx
      BY <2>8, StoreAssumption DEF LockInv, LockOK, Held, InTx
    <3>4. TxInv'
      BY <2>2, <3>3 DEF TxInv
    <3>5. \A v \in Nat : Evicted(v) => Evicted(v)'
      BY <1>2, <1>3, <1>4, <2>3 DEF Evicted
    <3>6. Carries /\ DbOK'
      BY <2>1, <2>5, <2>6, <3>5, CarriesQuiet
    <3>7. QED
      BY <1>2, <2>4, <3>2, <3>4, <3>6, FenceOthers
  <2>9. QED
    BY <1>7, <2>7, <2>8 DEF KeeperCommitLost
<1>8. QED
  BY <1>6, <1>7

LEMMA FenceMaintainEnd ==
  ASSUME TypeOK, TypeOK', LockInv', FenceInv,
         MaintainAck \/ MaintainDrop \/ KeeperUndo \/ KeeperRecord
  PROVE  FenceInv'
<1>1. /\ keeper \in Keepers /\ keeper.bar \in BOOLEAN /\ epoch \in Nat /\ recEpoch \in Nat
      /\ KeeperBarred(keeper)
  BY DEF TypeOK, MachineOK, Keepers, FenceInv
<1>2. UNCHANGED <<uncertain, op, db, tx, mut, lock>>
  BY DEF MaintainAck, MaintainDrop, KeeperUndo, KeeperRecord, machine, tables
<1>3. CASE MaintainAck
  <2>1. UNCHANGED <<st, epoch, recEpoch>> /\ keeper.pc = "ack" /\ KGoto("drop")
    BY <1>3 DEF MaintainAck, machine
  <2>2. keeper'.pc = "drop" /\ keeper'.evict = keeper.evict /\ keeper'.bar = keeper.bar
    BY <1>1, <2>1 DEF KGoto, Keepers
  <2>3. /\ KeeperBarred(keeper)' /\ Evicting(keeper') = Evicting(keeper)
        /\ \A E : ~Lost(keeper, E)
    BY <1>1, <2>1, <2>2 DEF KeeperBarred, Evicting, Failing, Lost
  <2>4. epoch <= epoch' /\ (Current => Healthy) /\ (Blocked => Blocked') /\ keeper'.pc # "commit"
    BY <1>1, <1>2, <2>1, <2>2 DEF Current, Healthy, Blocked
  <2>5. QED
    BY <1>2, <2>3, <2>4, KeeperKept
<1>4. CASE MaintainDrop \/ KeeperUndo
  <2>1. BarrierDrop(keeper.bar) /\ keeper.pc \in {"drop", "undo"} /\ UNCHANGED recEpoch
    BY <1>4 DEF MaintainDrop, KeeperUndo
  <2>2. /\ keeper.pc = "drop" => keeper'.pc = "clean" /\ keeper'.evict = {}
        /\ keeper.pc = "undo" => keeper'.pc = "record" /\ keeper'.evict = keeper.evict
                                 /\ keeper'.err = keeper.err
    <3>1. CASE MaintainDrop
      BY <1>1, <3>1 DEF MaintainDrop, Keepers
    <3>2. CASE KeeperUndo
      BY <1>1, <3>2 DEF KeeperUndo, Keepers
    <3>3. QED
      BY <1>4, <3>1, <3>2
  <2>3. keeper'.pc \in {"clean", "record"}
    BY <2>1, <2>2
  <2>4. /\ epoch <= epoch' /\ (keeper.bar => ~Current) /\ (Current => Healthy)
        /\ Blocked => Blocked'
    BY <1>1, <1>2, <2>1, <2>3, DropKept
  <2>5. KeeperBarred(keeper)'
    BY <2>1, <2>2, <2>3 DEF KeeperBarred
  <2>6. Current => Evicting(keeper) = {}
    BY <1>1, <2>1, <2>4 DEF KeeperBarred, Evicting
  <2>7. \A E : Lost(keeper, E) => Lost(keeper', E)
    BY <2>1, <2>2 DEF Lost, Failing
  <2>8. keeper'.pc # "commit"
    BY <2>3
  <2>9. QED
    BY <1>2, <2>4, <2>5, <2>6, <2>7, <2>8, KeeperKept
<1>5. CASE KeeperRecord
  <2>1. keeper.pc = "record" /\ Record(keeper.err) /\ keeper' = IdleKeeper
    BY <1>5 DEF KeeperRecord
  <2>2. keeper'.pc = "idle" /\ keeper'.evict = {}
    BY <2>1 DEF IdleKeeper
  <2>3. /\ epoch <= epoch' /\ recEpoch <= recEpoch' /\ (Current => Healthy)
        /\ Blocked => Blocked'
        /\ keeper.err # "none" => Blocked' /\ ~Current
    <3>1. keeper'.pc # "reopen"
      BY <2>2
    <3>2. QED
      BY <1>1, <1>2, <2>1, <3>1, RecordKept
  <2>4. KeeperBarred(keeper)'
    BY <2>2 DEF KeeperBarred
  <2>5. Current => Evicting(keeper) = {}
    BY <2>1, <2>3 DEF Evicting, Failing
  <2>6. \A E : Lost(keeper, E) => Blocked'
    BY <2>3 DEF Lost
  <2>7. keeper'.pc # "commit"
    BY <2>2
  <2>8. QED
    BY <1>2, <2>3, <2>4, <2>5, <2>6, <2>7, KeeperKept
<1>6. QED
  BY <1>3, <1>4, <1>5

LEMMA FenceEnvironment ==
  ASSUME TypeOK, TypeOK', LockInv, LockInv', FenceInv,
         \/ GhostSettles \/ LateIO \/ LoseFile \/ Age \/ Close \/ UNCHANGED vars
  PROVE  FenceInv'
<1>1. epoch \in Nat /\ recEpoch \in Nat /\ KeeperBarred(keeper) /\ UNCHANGED <<op, keeper, recEpoch, uncertain>>
  BY DEF TypeOK, MachineOK, FenceInv, GhostSettles, LateIO, LoseFile, Age, Close, vars, machine
<1>2. KeeperBarred(keeper)'
  BY <1>1 DEF KeeperBarred
<1>3. \A v : Evicted(v) => Evicted(v)'
  BY <1>1 DEF Evicted
<1>4. CASE GhostSettles
  <2>1. UNCHANGED <<st, epoch>> /\ lock = "ghost" /\ lock' = "free"
    BY <1>4 DEF GhostSettles, machine
  <2>2. TxInv' /\ GhostInv'
    BY <2>1, FreeLock
  <2>3. epoch <= epoch' /\ (Current => Healthy) /\ (Healthy' => ~Blocked)
    BY <1>1, <2>1 DEF Current, Healthy, Blocked
  <2>4. CASE UNCHANGED <<db, mut>>
    BY <1>1, <1>2, <1>3, <2>2, <2>3, <2>4, CarriesQuiet, FenceOthers
  <2>5. CASE db' = tx /\ mut' = mut + 1
    <3>1. PICK E : TxOK(E) /\ (Lost(keeper, E) \/ (\E q \in Callers : Lost(op[q], E)) \/ Blocked)
      BY <2>1 DEF FenceInv, GhostInv
    <3>2. Current => \A v \in E : Evicted(v)'
      <4>1. ASSUME Current, NEW v \in E PROVE Evicted(v)
        <5>1. Lost(keeper, E) \/ \E q \in Callers : Lost(op[q], E)
          BY <2>3, <3>1, <4>1 DEF Current
        <5>2. QED
          BY <4>1, <5>1 DEF Lost, Evicted, Evicting
      <4>2. QED
        BY <1>3, <4>1
    <3>3. Carries /\ DbOK'
      BY <1>3, <2>1, <2>3, <2>5, <3>1, <3>2, CarriesCommit
    <3>4. QED
      BY <1>1, <1>2, <2>2, <3>3, FenceOthers
  <2>6. QED
    BY <1>4, <2>4, <2>5 DEF GhostSettles
<1>5. CASE ~GhostSettles
  <2>1. UNCHANGED <<db, tx, mut, lock>>
    BY <1>5 DEF LateIO, LoseFile, Age, Close, vars, tables
  <2>2. UNCHANGED <<st, epoch>> \/ (st' = "closed" /\ epoch' = epoch + 1)
    BY <1>5 DEF LateIO, LoseFile, Age, Close, vars, machine
  <2>3. epoch <= epoch' /\ (Current => Healthy) /\ (Blocked => Blocked')
    BY <1>1, <2>2 DEF Current, Healthy, Blocked
  <2>4. Carries /\ DbOK'
    BY <1>3, <2>1, <2>3, CarriesQuiet
  <2>5. TxInv' /\ GhostInv'
    BY <1>1, <2>1, <2>3, GhostKept, CallersTxKept
  <2>6. QED
    BY <1>1, <1>2, <2>4, <2>5, FenceOthers
<1>6. QED
  BY <1>4, <1>5

\* A restart keeps the tables, or what a COMMIT that was sent has left of them.
LEMMA FenceRestart ==
  ASSUME TypeOK, TypeOK', LockInv, LockInv', FenceInv, Restart
  PROVE  FenceInv'
<1>1. DbOK'
  <2>1. CASE UNCHANGED <<db, mut>>
    BY <2>1 DEF FenceInv, DbOK, HeadsOK, UniqueIds, Retains
  <2>2. ASSUME db' = tx, mut' = mut + 1,
               \/ lock = "ghost"
               \/ lock = "keeper" /\ keeper.pc = "commit"
               \/ \E p \in Callers : lock = p /\ op[p].pc = "commit"
        PROVE  DbOK'
    <3>1. PICK E : TxOK(E)
      BY <2>2 DEF FenceInv, GhostInv, TxInv, InTx
    <3>2. QED
      BY <2>2, <3>1, TxInstalls DEF FenceInv
  <2>3. QED
    BY <2>1, <2>2 DEF Restart
<1>2. TxInv' /\ GhostInv'
  BY FreeLock DEF Restart
<1>3. Idle.pc = "idle" /\ Idle.evict = {} /\ Idle.lep = 0
  BY DEF Idle
<1>4. epoch' = 0 /\ op' = [p \in Callers |-> Idle] /\ keeper' = IdleKeeper
  BY DEF Restart
<1>5. Looked(Idle)' /\ Barred(Idle)
  <2>1. Looked(Idle)'
    BY <1>3, <1>4, RestLooked DEF Seen, Publishing
  <2>2. Barred(Idle)
    BY <1>3 DEF Barred, InTx
  <2>3. QED
    BY <2>1, <2>2
<1>6. ASSUME NEW p \in Callers PROVE Looked(op[p])' /\ Barred(op[p])'
  BY <1>4, <1>5
<1>7. KeeperBarred(keeper)'
  BY <1>4 DEF KeeperBarred, IdleKeeper
<1>8. QED
  BY <1>1, <1>2, <1>6, <1>7 DEF FenceInv

\* Every result of the current epoch can be relied on, and every COMMIT in doubt still
\* keeps the store from reopening.
THEOREM FenceHolds == Spec => []FenceInv
<1>1. ASSUME Init PROVE FenceInv
  <2>1. DbOK
    BY <1>1 DEF Init, NoTables, DbOK, HeadsOK, UniqueIds
  <2>2. Idle.pc = "idle" /\ Idle.evict = {} /\ Idle.lep = 0
    BY DEF Idle
  <2>3. Looked(Idle) /\ Barred(Idle)
    <3>1. Idle.pc # "head" /\ Idle.pc \notin Seen /\ Idle.pc \notin Publishing /\ Idle.lep <= epoch
      BY <1>1, <2>2 DEF Init, Seen, Publishing
    <3>2. Looked(Idle)
      BY <3>1, Zenon DEF Looked
    <3>3. Barred(Idle)
      BY <2>2 DEF Barred, InTx
    <3>4. QED
      BY <3>2, <3>3
  <2>4. \A p \in Callers : op[p] = Idle
    BY <1>1 DEF Init
  <2>5. keeper.pc = "idle" /\ keeper.evict = {} /\ lock = "free"
    BY <1>1 DEF Init, IdleKeeper
  <2>6. KeeperBarred(keeper)
    BY <2>5 DEF KeeperBarred
  <2>7. TxInv /\ GhostInv
    BY <2>2, <2>4, <2>5 DEF TxInv, GhostInv, InTx
  <2>8. QED
    BY <2>1, <2>3, <2>4, <2>6, <2>7 DEF FenceInv
<1>2. ASSUME TypeOK, TypeOK', LockInv, LockInv', FenceInv, [Next]_vars PROVE FenceInv'
  <2>1. ASSUME NEW p \in Callers,
               \/ \E k \in Keys : LookupStart(p, k)
               \/ CallerStep(p) \/ Abandon(p) \/ Fault(p) \/ CommitLost(p)
               \/ ReserveCommitLost(p)
        PROVE  FenceInv'
    <3>1. \/ QuietStep(p) \/ ReserveBlob(p) \/ ReserveCommitLost(p) \/ PublishTrim(p)
          \/ PublishAuthorize(p) \/ PublishGate(p) \/ PublishAck(p)
          \/ Abandon(p) /\ op[p].pc \in InTx
          \/ PublishCommit(p) \/ CommitLost(p) \/ PublishDrop(p) \/ Undo(p) \/ RecordResult(p)
      BY <2>1 DEF CallerStep, QuietStep
    <3>2. CASE QuietStep(p)
      BY <1>2, <3>2, FenceQuiet
    <3>3. CASE ReserveBlob(p) \/ ReserveCommitLost(p)
      BY <1>2, <3>3, FenceReserve
    <3>4. CASE PublishTrim(p)
      BY <1>2, <3>4, FenceTrim
    <3>5. CASE \/ PublishAuthorize(p) \/ PublishGate(p) \/ PublishAck(p)
               \/ Abandon(p) /\ op[p].pc \in InTx
      BY <1>2, <3>5, FenceTransit
    <3>6. CASE PublishCommit(p) \/ CommitLost(p)
      BY <1>2, <3>6, FenceCommit
    <3>7. CASE PublishDrop(p) \/ Undo(p)
      BY <1>2, <3>7, FenceEnd
    <3>8. CASE RecordResult(p)
      BY <1>2, <3>8, FenceRecord
    <3>9. QED
      BY <3>1, <3>2, <3>3, <3>4, <3>5, <3>6, <3>7, <3>8
  <2>2. CASE KeeperQuiet
    BY <1>2, <2>2, FenceKeeperQuiet
  <2>3. CASE MaintainTrim
    BY <1>2, <2>3, FenceMaintainTrim
  <2>4. CASE MaintainCommit \/ KeeperCommitLost
    BY <1>2, <2>4, FenceMaintainCommit
  <2>5. CASE MaintainAck \/ MaintainDrop \/ KeeperUndo \/ KeeperRecord
    BY <1>2, <2>5, FenceMaintainEnd
  <2>6. CASE GhostSettles \/ LateIO \/ LoseFile \/ Age \/ Close \/ UNCHANGED vars
    BY <1>2, <2>6, FenceEnvironment
  <2>7. CASE Restart
    BY <1>2, <2>7, FenceRestart
  <2>8. QED
    BY <1>2, <2>1, <2>2, <2>3, <2>4, <2>5, <2>6, <2>7
       DEF Next, MaintainStep, RecoverStep, KeeperQuiet
<1>3. QED
  BY <1>1, <1>2, TypeCorrect, LockHeld, PTL DEF Spec

\* A lookup result that still carries the current epoch of a healthy store names a
\* capture that is retained or whose eviction is still in progress, whatever
\* publications, maintenance, lost COMMITs and recoveries ran meanwhile.
THEOREM ResultsAreFenced == Spec => []LookupEpochFence
<1>1. FenceInv => LookupEpochFence
  <2> SUFFICES ASSUME FenceInv, NEW p \in Callers, op[p].pc = "found", op[p].val # 0,
                      op[p].lep = epoch, Healthy
               PROVE  op[p].val \in Ids(db.snaps) \union Unsettled
    BY DEF LookupEpochFence
  <2>1. Present(op[p].val) \/ Evicted(op[p].val)
    BY DEF FenceInv, Looked, Seen
  <2>2. Evicted(op[p].val) => op[p].val \in Unsettled
    BY DEF Evicted, Evicting, Unsettled
  <2>3. Present(op[p].val) => op[p].val \in Ids(db.snaps)
    BY DEF Present, Ids
  <2>4. QED
    BY <2>1, <2>2, <2>3
<1>2. QED
  BY <1>1, FenceHolds, PTL

\* A store that serves again has outwaited every lost COMMIT: one the server has not
\* settled belongs to an operation that is still about to record its failure.
THEOREM RecoveryOutwaitsCommits == Spec => []RecoveryFencesCommits
<1>1. FenceInv => RecoveryFencesCommits
  BY DEF FenceInv, GhostInv, Lost, Failing, Blocked, Healthy, RecoveryFencesCommits
<1>2. QED
  BY <1>1, FenceHolds, PTL

----------------------------------------------------------------------------
(* No interleaving is taken for corruption. *)

\* What a lookup or a reservation has located, as far as the checks for corruption
\* depend on it: the location is that of the capture's evidence for as long as the
\* capture is there, and only bytes of a capture or a reservation that is gone are missed.
BlobOK(o) ==
  /\ o.err # "corrupt" /\ o.pc # "confirm"
  /\ o.pc \in {"snapshot", "dangling", "blob", "missing"} => o.val # 0 /\ o.val <= mut
  /\ o.pc = "blob" => \A s \in db.snaps : s.id = o.val => o.loc = <<s.dig, db.blobs[s.dig].gen>>
  /\ o.pc = "missing" => ~Present(o.val)
  /\ o.pc = "read" /\ o.loc \in Files(db) => db.blobs[o.loc[1]].ready
  /\ o.pc = "live" => o.loc \notin Files(db)

\* cleanup_queue works on dead generations only.
CleanOK(k) ==
  /\ k.err # "corrupt"
  /\ k.pc \in {"clean", "unlink", "dequeue"} => k.todo \intersect Files(db) = {}

CalmInv == st # "corrupt" /\ (\A p \in Callers : BlobOK(op[p])) /\ CleanOK(keeper)

\* What a change of the tables owes to them: identifiers and generations are new ones.
Renews ==
  /\ mut <= mut'
  /\ \A s \in db'.snaps : s.id <= mut => s \in db.snaps /\ db'.blobs[s.dig].gen = db.blobs[s.dig].gen
  /\ \A x \in Files(db)' : Old(x) => x \in Files(db) /\ (db.blobs[x[1]].ready => db'.blobs[x[1]].ready)

LEMMA RenewsKept ==
  ASSUME TypeOK, UNCHANGED mut, db'.snaps = db.snaps, db'.blobs = db.blobs PROVE Renews
  BY DEF Renews, Files, TypeOK, TablesOK

LEMMA RenewsReserve ==
  ASSUME TypeOK, EvidenceInv, NEW d \in Digests, Reserve(d), UNCHANGED mut
  PROVE  Renews
<1>1. db \in Tables /\ nextGen \in Nat /\ mut \in Nat
  BY DEF TypeOK, TablesOK
<1>2. db'.snaps = db.snaps /\ db'.blobs = [db.blobs EXCEPT ![d] = Reservation(d)]
  BY <1>1 DEF Reserve, Tables
<1>3. \A s \in db.snaps : s.dig \in Digests /\ db.blobs[s.dig].gen # 0
  BY <1>1 DEF EvidenceInv, Sound, Tables, Snapshots
<1>4. \A e \in Digests : db'.blobs[e] = db.blobs[e] \/ (db.blobs[e].gen = 0 /\ db'.blobs[e].gen = nextGen)
  BY <1>1, <1>2 DEF Reservation, Tables
<1>5. \A s \in db'.snaps : s \in db.snaps /\ db'.blobs[s.dig].gen = db.blobs[s.dig].gen
  BY <1>2, <1>3, <1>4
<1>6. ASSUME NEW x \in Files(db)', Old(x)
      PROVE  x \in Files(db) /\ (db.blobs[x[1]].ready => db'.blobs[x[1]].ready)
  <2>1. PICK e \in Digests : x = <<e, db'.blobs[e].gen>> /\ db'.blobs[e].gen # 0
    BY DEF Files
  <2>2. db'.blobs[e] = db.blobs[e]
    BY <1>1, <1>4, <1>6, <2>1 DEF Old
  <2>3. QED
    BY <2>1, <2>2 DEF Files
<1>7. QED
  BY <1>1, <1>5, <1>6 DEF Renews

LEMMA RenewsCommit ==
  ASSUME TypeOK, EvidenceInv, NEW E, TxOK(E), db' = tx, mut' \in {mut, mut + 1}
  PROVE  Renews
<1>1. /\ db \in Tables /\ tx \in Tables /\ mut \in Nat
      /\ \A s \in tx.snaps : s.id \in Nat /\ s.dig \in Digests
  BY DEF TypeOK, TablesOK, Tables, Snapshots
<1>2. \A d \in Digests : tx.blobs[d].gen \in {0, db.blobs[d].gen}
  BY DEF EvidenceInv, Sound
<1>3. \A s \in tx.snaps : tx.blobs[s.dig].gen # 0
  BY <1>1 DEF EvidenceInv, Sound
<1>4. \A s \in db'.snaps : s.id <= mut => s \in db.snaps /\ db'.blobs[s.dig].gen = db.blobs[s.dig].gen
  BY <1>1, <1>2, <1>3 DEF TxOK
<1>5. ASSUME NEW x \in Files(db)'
      PROVE  x \in Files(db) /\ (db.blobs[x[1]].ready => db'.blobs[x[1]].ready)
  <2>1. PICK e \in Digests : x = <<e, tx.blobs[e].gen>> /\ tx.blobs[e].gen # 0
    BY DEF Files
  <2>2. tx.blobs[e].gen = db.blobs[e].gen /\ (db.blobs[e].ready => tx.blobs[e].ready)
    BY <1>2, <2>1 DEF TxOK
  <2>3. QED
    BY <2>1, <2>2 DEF Files
<1>6. QED
  BY <1>1, <1>4, <1>5 DEF Renews

LEMMA BlobCarried ==
  ASSUME TypeOK, TypeOK', Renews, NEW o \in Operations, BlobOK(o), Old(o.loc)
  PROVE  BlobOK(o)'
<1>1. mut \in Nat /\ mut' \in Nat /\ o.val \in Nat /\ mut <= mut'
      /\ \A s \in db'.snaps : s.id \in Nat
  BY DEF TypeOK, TablesOK, Tables, Snapshots, Operations, Renews
<1>2. o.err # "corrupt" /\ o.pc # "confirm"
  BY DEF BlobOK
<1>3. o.pc \in {"snapshot", "dangling", "blob", "missing"} => o.val # 0 /\ o.val <= mut /\ o.val <= mut'
  BY <1>1 DEF BlobOK
<1>4. o.pc = "blob" => \A s \in db'.snaps : s.id = o.val => o.loc = <<s.dig, db'.blobs[s.dig].gen>>
  BY <1>3 DEF BlobOK, Renews
<1>5. o.pc = "missing" => ~Present(o.val)'
  BY <1>3 DEF BlobOK, Renews, Present
<1>6. o.pc = "read" /\ o.loc \in Files(db)' => db'.blobs[o.loc[1]].ready
  BY DEF BlobOK, Renews
<1>7. o.pc = "live" => o.loc \notin Files(db)'
  BY DEF BlobOK, Renews
<1>8. QED
  BY <1>2, <1>3, <1>4, <1>5, <1>6, <1>7, Zenon DEF BlobOK, Files

LEMMA CleanCarried ==
  ASSUME Renews, NEW k, CleanOK(k), \A x \in k.todo : Old(x)
  PROVE  CleanOK(k)'
<1>1. k.err # "corrupt"
  BY DEF CleanOK
<1>2. k.pc \in {"clean", "unlink", "dequeue"} => k.todo \intersect Files(db)' = {}
  BY DEF CleanOK, Renews
<1>3. QED
  BY <1>1, <1>2, Zenon DEF CleanOK

\* A step of one caller, and one of the keeper or the environment.
LEMMA CalmCaller ==
  ASSUME TypeOK, TypeOK', EvidenceInv, CalmInv, NEW p \in Callers, Renews,
         \A q \in Callers \ {p} : op'[q] = op[q], UNCHANGED keeper,
         BlobOK(op[p])', st' # "corrupt"
  PROVE  CalmInv'
<1>1. ASSUME NEW q \in Callers \ {p} PROVE BlobOK(op[q])'
  <2>1. PICK o \in Operations : o = op[q]
    BY DEF TypeOK
  <2>2. BlobOK(o) /\ Old(o.loc)
    BY <2>1 DEF CalmInv, EvidenceInv, LocOK
  <2>3. BlobOK(o)'
    BY <2>2, BlobCarried
  <2>4. op'[q] = o
    BY <2>1
  <2>5. QED
    BY <2>3, <2>4
<1>2. CleanOK(keeper)'
  <2>1. PICK k : k = keeper
    OBVIOUS
  <2>2. CleanOK(k) /\ \A x \in k.todo : Old(x)
    BY <2>1 DEF CalmInv, EvidenceInv, KeeperOK
  <2>3. CleanOK(k)'
    BY <2>2, CleanCarried
  <2>4. keeper' = k
    BY <2>1
  <2>5. QED
    BY <2>3, <2>4
<1>3. QED
  BY <1>1, <1>2 DEF CalmInv

LEMMA CalmOthers ==
  ASSUME TypeOK, TypeOK', EvidenceInv, CalmInv, Renews, UNCHANGED op,
         CleanOK(keeper)', st' # "corrupt"
  PROVE  CalmInv'
<1>1. ASSUME NEW q \in Callers PROVE BlobOK(op[q])'
  <2>1. PICK o \in Operations : o = op[q]
    BY DEF TypeOK
  <2>2. BlobOK(o) /\ Old(o.loc)
    BY <2>1 DEF CalmInv, EvidenceInv, LocOK
  <2>3. BlobOK(o)'
    BY <2>2, BlobCarried
  <2>4. op'[q] = o
    BY <2>1
  <2>5. QED
    BY <2>3, <2>4
<1>2. QED
  BY <1>1 DEF CalmInv

\* An operation that has located nothing.
Located == {"snapshot", "dangling", "blob", "missing", "read", "live", "confirm"}

LEMMA BlobRest ==
  ASSUME NEW n, n.err # "corrupt", n.pc \notin Located
  PROVE  BlobOK(n) /\ BlobOK(n)'
<1>1. /\ n.pc # "confirm" /\ n.pc # "blob" /\ n.pc # "missing" /\ n.pc # "read" /\ n.pc # "live"
      /\ n.pc \notin {"snapshot", "dangling", "blob", "missing"}
  BY DEF Located
<1>2. QED
  BY <1>1, Zenon DEF BlobOK

LEMMA BlobSame ==
  ASSUME UNCHANGED <<db, mut>>, NEW n, BlobOK(n) PROVE BlobOK(n)'
  BY DEF BlobOK, Present, Files

LEMMA CalmFail ==
  ASSUME TypeOK, NEW p \in Callers, NEW e, Fail(p, e), e # "corrupt"
  PROVE  BlobOK(op'[p]) /\ BlobOK(op[p])'
<1>1. PICK n : n = [Idle EXCEPT !.pc = "undo", !.err = e, !.bar = op[p].bar, !.evict = op[p].evict]
  OBVIOUS
<1>2. n.pc = "undo" /\ n.err = e
  BY <1>1 DEF Idle
<1>3. op'[p] = n
  BY <1>1 DEF TypeOK, Fail
<1>4. BlobOK(n) /\ BlobOK(n)'
  BY <1>2, BlobRest DEF Located
<1>5. QED
  BY <1>3, <1>4

LEMMA CalmMoves ==
  ASSUME TypeOK, EvidenceInv, DbOK, ~Strict, NEW p \in Callers, BlobOK(op[p]), QuietStep(p)
  PROVE  BlobOK(op'[p])
<1>1. /\ op \in [Callers -> Operations] /\ op[p] \in Operations /\ db \in Tables
      /\ op[p].key \in Keys /\ op[p].loc \in Locations /\ op[p].err # "corrupt"
      /\ Sound(db)
  BY DEF TypeOK, TablesOK, Operations, BlobOK, EvidenceInv
<1>2. ASSUME NEW e, Fail(p, e), e # "corrupt" PROVE BlobOK(op'[p])
  BY <1>2, CalmFail
<1>3. ASSUME NEW n, op' = [op EXCEPT ![p] = n], n.err # "corrupt", n.pc \notin Located
      PROVE  BlobOK(op'[p])
  <2>1. op'[p] = n
    BY <1>1, <1>3
  <2>2. QED
    BY <1>3, <2>1, BlobRest
<1>4. CASE op' = [op EXCEPT ![p] = Idle]
  BY <1>3, <1>4 DEF Idle, Located
<1>5. ASSUME NEW c, Goto(p, c) PROVE /\ op'[p].pc = c /\ op'[p].err = op[p].err
                                     /\ op'[p].val = op[p].val /\ op'[p].loc = op[p].loc
  <2>1. op'[p] = [op[p] EXCEPT !.pc = c]
    BY <1>1, <1>5 DEF Goto
  <2>2. QED
    BY <1>1, <2>1 DEF Operations
<1>6. ASSUME NEW c, Goto(p, c), c \notin Located PROVE BlobOK(op'[p])
  BY <1>1, <1>5, <1>6, BlobRest
<1>7. CASE \E k \in Keys : LookupStart(p, k)
  <2>1. PICK k \in Keys : LookupStart(p, k)
    BY <1>7
  <2> DEFINE n == [Idle EXCEPT !.pc = "query", !.key = k, !.rec = recEpoch, !.lep = epoch]
  <2>2. op' = [op EXCEPT ![p] = n]
    BY <2>1 DEF LookupStart
  <2>3. n.pc = "query" /\ n.err = "none"
    BY DEF Idle
  <2> HIDE DEF n
  <2>4. QED
    BY <1>3, <2>2, <2>3 DEF Located
<1>8. CASE LookupQuery(p)
  <2> DEFINE r == db.rev[op[p].key]
             n == [op[p] EXCEPT !.obs = r, !.val = 0, !.pc = IF r = 0 THEN "found" ELSE "head"]
  <2>1. op' = [op EXCEPT ![p] = n]
    BY <1>1, <1>8 DEF LookupQuery
  <2> HIDE DEF r
  <2>2. n.pc \in {"found", "head"} /\ n.err = op[p].err
    BY <1>1 DEF Operations
  <2> HIDE DEF n
  <2>3. QED
    BY <1>1, <1>3, <2>1, <2>2 DEF Located
<1>9. CASE LookupHead(p)
  <2> DEFINE h == db.head[op[p].key]
             n == [op[p] EXCEPT !.val = h, !.pc = IF h = 0 THEN "found" ELSE "snapshot"]
  <2>1. op'[p] = n
    BY <1>1, <1>9 DEF LookupHead
  <2>2. h # 0 => h <= mut
    <3>1. h # 0 => Retains(db, op[p].key, h)
      BY <1>1 DEF DbOK, HeadsOK
    <3>2. QED
      BY <3>1 DEF DbOK, Retains
  <2> HIDE DEF h
  <2>3. n.val = h /\ n.pc = (IF h = 0 THEN "found" ELSE "snapshot") /\ n.err = op[p].err
    BY <1>1 DEF Operations
  <2> HIDE DEF n
  <2>4. BlobOK(n)
    BY <1>1, <2>2, <2>3 DEF BlobOK
  <2>5. QED
    BY <2>1, <2>4
<1>10. CASE LookupSnapshot(p)
  <2>1. op[p].pc = "snapshot" /\ op[p].val # 0 /\ op[p].val <= mut
    BY <1>10 DEF LookupSnapshot, BlobOK
  <2>2. CASE Goto(p, "dangling")
    <3>1. op'[p].pc = "dangling" /\ op'[p].err = op[p].err /\ op'[p].val = op[p].val
      BY <1>5, <2>2
    <3>2. QED
      BY <1>1, <2>1, <3>1 DEF BlobOK
  <2>3. ASSUME NEW s \in db.snaps, s.id = op[p].val,
               IF db.blobs[s.dig].ready
               THEN op' = [op EXCEPT ![p].pc = "blob", ![p].loc = <<s.dig, db.blobs[s.dig].gen>>]
               ELSE Fail(p, "corrupt")
        PROVE  BlobOK(op'[p])
    <3>1. db.blobs[s.dig].ready
      BY <1>1 DEF Sound
    <3>2. PICK l : l = <<s.dig, db.blobs[s.dig].gen>>
      OBVIOUS
    <3>3. op'[p] = [op[p] EXCEPT !.pc = "blob", !.loc = l]
      BY <1>1, <2>3, <3>1, <3>2
    <3>4. op'[p].pc = "blob" /\ op'[p].loc = l /\ op'[p].val = op[p].val /\ op'[p].err = op[p].err
      BY <1>1, <3>3 DEF Operations
    <3>5. \A r \in db.snaps : r.id = op[p].val => l = <<r.dig, db.blobs[r.dig].gen>>
      BY <2>3, <3>2 DEF DbOK, UniqueIds
    <3>6. QED
      BY <1>1, <2>1, <3>4, <3>5 DEF BlobOK
  <2>4. QED
    BY <1>10, <2>2, <2>3 DEF LookupSnapshot
<1>11. CASE LookupDangling(p)
  <2>1. op[p].pc = "dangling" /\ op[p].val # 0
    BY <1>11 DEF LookupDangling, BlobOK
  <2>2. op[p].val \notin {db.head[k] : k \in Keys} \ Ids(db.snaps)
    BY <2>1 DEF DbOK, HeadsOK, Retains, Ids
  <2>3. op' = [op EXCEPT ![p].val = 0, ![p].pc = "found"]
    BY <1>11, <2>2 DEF LookupDangling
  <2>4. op'[p] = [op[p] EXCEPT !.val = 0, !.pc = "found"]
    BY <1>1, <2>3
  <2>5. op'[p].pc = "found" /\ op'[p].err = op[p].err
    BY <1>1, <2>4 DEF Operations
  <2>6. QED
    BY <1>1, <2>5, BlobRest DEF Located
<1>12. CASE LookupBlob(p)
  <2>1. op[p].pc = "blob" /\ Goto(p, IF op[p].loc \in files THEN "found" ELSE "missing")
    BY <1>12 DEF LookupBlob
  <2>2. CASE op[p].loc \in files
    BY <1>6, <2>1, <2>2 DEF Located
  <2>3. CASE op[p].loc \notin files
    <3>1. op'[p].pc = "missing" /\ op'[p].err = op[p].err /\ op'[p].val = op[p].val
      BY <1>5, <2>1, <2>3
    <3>2. \A s \in db.snaps : <<s.dig, db.blobs[s.dig].gen>> \in files
      BY <1>1 DEF Sound, Tables, Snapshots
    <3>3. ~Present(op[p].val)
      BY <2>1, <2>3, <3>2 DEF BlobOK, Present
    <3>4. op[p].val # 0 /\ op[p].val <= mut
      BY <2>1 DEF BlobOK
    <3>5. QED
      BY <1>1, <3>1, <3>3, <3>4 DEF BlobOK
  <2>4. QED
    BY <2>2, <2>3
<1>13. CASE LookupMissing(p)
  <2>1. op[p].pc = "missing" /\ op[p].val # 0 /\ op[p].val <= mut /\ ~Present(op[p].val)
    BY <1>13 DEF LookupMissing, BlobOK
  <2>2. Goto(p, "dangling")
    BY <1>13, <2>1 DEF LookupMissing, Retained, Present
  <2>3. op'[p].pc = "dangling" /\ op'[p].err = op[p].err /\ op'[p].val = op[p].val
    BY <1>5, <2>2
  <2>4. QED
    BY <1>1, <2>1, <2>3 DEF BlobOK
<1>14. CASE \E d \in Digests : PublishStart(p, d)
  <2>1. PICK d \in Digests : PublishStart(p, d)
    BY <1>14
  <2> DEFINE n == [op[p] EXCEPT !.pc = "query", !.pub = TRUE, !.dig = d, !.exp = op[p].obs,
                                !.start = epoch, !.lep = epoch]
  <2>2. op' = [op EXCEPT ![p] = n]
    BY <1>1, <2>1 DEF PublishStart
  <2>3. n.pc = "query" /\ n.err = op[p].err
    BY <1>1 DEF Operations
  <2> HIDE DEF n
  <2>4. QED
    BY <1>1, <1>3, <2>2, <2>3 DEF Located
<1>15. CASE PublishCompare(p)
  <2> DEFINE u == op[p].val # 0 /\ op[p].loc[1] = op[p].dig
             n == [op[p] EXCEPT !.pc = "reserve", !.obs = 0, !.lep = 0, !.unch = u]
  <2>1. op' = [op EXCEPT ![p] = Idle] \/ op' = [op EXCEPT ![p] = n]
    BY <1>1, <1>15 DEF PublishCompare
  <2> HIDE DEF u
  <2>2. n.pc = "reserve" /\ n.err = op[p].err
    BY <1>1 DEF Operations
  <2> HIDE DEF n
  <2>3. QED
    BY <1>1, <1>3, <1>4, <2>1, <2>2 DEF Located
<1>16. CASE ReadReady(p)
  <2>1. op[p].pc = "read" /\ Goto(p, IF op[p].loc \notin files THEN "live" ELSE "begin")
    BY <1>16 DEF ReadReady
  <2>2. CASE op[p].loc \in files
    BY <1>6, <2>1, <2>2 DEF Located
  <2>3. CASE op[p].loc \notin files
    <3>1. op'[p].pc = "live" /\ op'[p].err = op[p].err /\ op'[p].loc = op[p].loc
      BY <1>5, <2>1, <2>3
    <3>2. op[p].loc \notin Files(db)
      <4>1. SUFFICES ASSUME op[p].loc \in Files(db) PROVE FALSE
        OBVIOUS
      <4>2. PICK d \in Digests : op[p].loc = <<d, db.blobs[d].gen>>
        BY <4>1 DEF Files
      <4>3. db.blobs[d].ready
        BY <2>1, <4>1, <4>2 DEF BlobOK
      <4>4. QED
        BY <1>1, <2>3, <4>2, <4>3 DEF Sound
    <3>3. QED
      BY <1>1, <3>1, <3>2 DEF BlobOK
  <2>4. QED
    BY <2>2, <2>3
<1>17. CASE CheckLive(p)
  <2>1. op[p].loc \notin Files(db)
    BY <1>17 DEF CheckLive, BlobOK
  <2>2. QED
    BY <1>2, <1>17, <2>1 DEF CheckLive
<1>18. CASE ConfirmDurable(p)
  BY <1>18 DEF ConfirmDurable, BlobOK
<1>19. CASE PutIfAbsent(p) \/ PublishBegin(p)
  BY <1>2, <1>6, <1>19 DEF PutIfAbsent, PublishBegin, Located
<1>20. CASE PublishAccept(p)
  <2> DEFINE n == [op[p] EXCEPT !.pc = "done", !.lep = epoch]
  <2>1. op' = [op EXCEPT ![p] = n]
    BY <1>1, <1>20 DEF PublishAccept
  <2>2. n.pc = "done" /\ n.err = op[p].err
    BY <1>1 DEF Operations
  <2> HIDE DEF n
  <2>3. QED
    BY <1>1, <1>3, <2>1, <2>2 DEF Located
<1>21. CASE Fault(p) \/ Abandon(p)
  BY <1>2, <1>4, <1>21 DEF Fault, Abandon
<1>22. QED
  BY <1>7, <1>8, <1>9, <1>10, <1>11, <1>12, <1>13, <1>14, <1>15, <1>16, <1>17, <1>18,
     <1>19, <1>20, <1>21 DEF QuietStep

LEMMA CalmQuiet ==
  ASSUME TypeOK, TypeOK', EvidenceInv, FenceInv, CalmInv, ~Strict, NEW p \in Callers, QuietStep(p)
  PROVE  CalmInv'
<1>1. BlobOK(op[p]) /\ DbOK /\ st # "corrupt"
  BY DEF CalmInv, FenceInv
<1>2. op[p].evict = {}
  BY QuietFrom DEF FenceInv, Barred
<1>3. \A q \in Callers \ {p} : op'[q] = op[q]
  BY <1>2, QuietMoves
<1>4. UNCHANGED <<st, db, mut, keeper>>
  BY DEF QuietStep, LookupStart, LookupQuery, LookupHead, LookupSnapshot, LookupDangling,
         LookupBlob, LookupMissing, PublishStart, PublishCompare, ReadReady, CheckLive,
         ConfirmDurable, PutIfAbsent, PublishBegin, PublishAccept, Fault, Abandon, machine, tables
<1>5. PICK n : n = op'[p]
  OBVIOUS
<1>6. BlobOK(n)
  BY <1>1, <1>5, CalmMoves
<1>7. BlobOK(n)'
  BY <1>4, <1>6, BlobSame
<1>8. BlobOK(op[p])'
  BY <1>5, <1>7
<1>9. Renews
  BY <1>4, RenewsKept
<1>10. QED
  BY <1>1, <1>3, <1>4, <1>8, <1>9, CalmCaller

LEMMA CalmReserve ==
  ASSUME TypeOK, TypeOK', EvidenceInv, CalmInv, NEW p \in Callers,
         ReserveBlob(p) \/ ReserveCommitLost(p)
  PROVE  CalmInv'
<1>1. /\ op \in [Callers -> Operations] /\ op[p] \in Operations /\ db \in Tables
      /\ op[p].dig \in Digests /\ BlobOK(op[p]) /\ op[p].err # "corrupt" /\ st # "corrupt"
  BY DEF TypeOK, TablesOK, Operations, CalmInv, BlobOK
<1>2. UNCHANGED <<st, mut, keeper>>
  BY DEF ReserveBlob, ReserveCommitLost, machine
<1>3. Renews
  <2>1. CASE Reserve(op[p].dig)
    BY <1>1, <1>2, <2>1, RenewsReserve
  <2>2. CASE UNCHANGED db
    BY <1>2, <2>2, RenewsKept
  <2>3. QED
    BY <2>1, <2>2 DEF ReserveBlob, ReserveCommitLost
<1>4. CASE ReserveCommitLost(p)
  <2>1. Fail(p, "unavailable")
    BY <1>4 DEF ReserveCommitLost
  <2>2. BlobOK(op[p])' /\ \A q \in Callers \ {p} : op'[q] = op[q]
    BY <1>1, <2>1, CalmFail DEF Fail
  <2>3. QED
    BY <1>1, <1>2, <1>3, <2>2, CalmCaller
<1>5. CASE ReserveBlob(p)
  <2>1. PICK row : row = Reservation(op[p].dig)
    OBVIOUS
  <2>2. PICK l : l = <<op[p].dig, row.gen>>
    OBVIOUS
  <2>3. PICK c : c = IF row.ready THEN "read" ELSE "put"
    OBVIOUS
  <2>4. op' = [op EXCEPT ![p].loc = l, ![p].pc = c]
    BY <1>5, <2>1, <2>2, <2>3 DEF ReserveBlob
  <2>5. PICK n : n = [op[p] EXCEPT !.loc = l, !.pc = c]
    OBVIOUS
  <2>6. op'[p] = n /\ \A q \in Callers \ {p} : op'[q] = op[q]
    BY <1>1, <2>4, <2>5
  <2>7. n.pc = c /\ n.loc = l /\ n.err = op[p].err
    BY <1>1, <2>5 DEF Operations
  <2>8. db'.blobs[op[p].dig] = row
    BY <1>1, <1>5, <2>1 DEF ReserveBlob, Reserve, Tables
  <2>9. c = "read" => db'.blobs[n.loc[1]].ready
    BY <2>2, <2>3, <2>7, <2>8
  <2>10. c \in {"read", "put"}
    BY <2>3
  <2>11. BlobOK(n)'
    <3>1. n.err # "corrupt" /\ n.pc \in {"read", "put"} /\ (n.pc = "read" => db'.blobs[n.loc[1]].ready)
      BY <1>1, <2>7, <2>9, <2>10
    <3>2. /\ n.pc # "confirm" /\ n.pc # "blob" /\ n.pc # "missing" /\ n.pc # "live"
          /\ n.pc \notin {"snapshot", "dangling", "blob", "missing"}
      BY <3>1
    <3>3. QED
      BY <3>1, <3>2, Zenon DEF BlobOK
  <2>12. BlobOK(op[p])'
    BY <2>6, <2>11
  <2>13. QED
    BY <1>1, <1>2, <1>3, <2>6, <2>12, CalmCaller
<1>6. QED
  BY <1>4, <1>5

\* The publishing transaction and what follows it locate nothing.
LEMMA CalmPublish ==
  ASSUME TypeOK, TypeOK', EvidenceInv, FenceInv, CalmInv, NEW p \in Callers,
         \/ PublishTrim(p) \/ PublishAuthorize(p) \/ PublishGate(p) \/ PublishAck(p)
         \/ Abandon(p) /\ op[p].pc \in InTx
         \/ PublishCommit(p) \/ CommitLost(p) \/ PublishDrop(p) \/ Undo(p) \/ RecordResult(p)
  PROVE  CalmInv'
<1>1. /\ op \in [Callers -> Operations] /\ op[p] \in Operations
      /\ BlobOK(op[p]) /\ op[p].err # "corrupt" /\ st # "corrupt"
  BY DEF TypeOK, CalmInv, BlobOK
<1> DEFINE Rests == (\A q \in Callers \ {p} : op'[q] = op[q]) /\ BlobOK(op[p])'
<1>2. ASSUME NEW n, op' = [op EXCEPT ![p] = n], n.err # "corrupt", n.pc \notin Located
      PROVE  Rests
  <2>1. BlobOK(n)'
    BY <1>2, BlobRest
  <2>2. op'[p] = n /\ \A q \in Callers \ {p} : op'[q] = op[q]
    BY <1>1, <1>2
  <2>3. BlobOK(op[p])'
    BY <2>1, <2>2
  <2>4. QED
    BY <2>2, <2>3
<1>3. ASSUME NEW e \in {"none", "unavailable"}, Fail(p, e) PROVE Rests
  <2>1. \A q \in Callers \ {p} : op'[q] = op[q]
    BY <1>1, <1>3 DEF Fail
  <2>2. BlobOK(op[p])'
    BY <1>3, CalmFail
  <2>3. QED
    BY <2>1, <2>2
<1>4. ASSUME NEW c \in {"gate", "commit", "drop"}, Goto(p, c) PROVE Rests
  <2>1. PICK n : n = [op[p] EXCEPT !.pc = c]
    OBVIOUS
  <2>2. op' = [op EXCEPT ![p] = n] /\ n.pc = c /\ n.err = op[p].err
    BY <1>1, <1>4, <2>1 DEF Goto, Operations
  <2>3. QED
    BY <1>1, <1>2, <1>4, <2>2 DEF Located
<1>5. Rests
  <2>1. CASE PublishTrim(p)
    <3> DEFINE o == op[p]
               id == IF o.unch THEN o.val ELSE mut + 1
               S == IF o.unch THEN db.snaps
                    ELSE db.snaps \union {[id |-> id, key |-> o.key, dig |-> o.dig]}
               H == [db.head EXCEPT ![o.key] = id]
               B == IF o.unch THEN db.blobs ELSE [db.blobs EXCEPT ![o.dig].ready = TRUE]
    <3>1. PICK D \in Trims(S, H, id) :
            IF D = {} \/ st = "ready"
            THEN /\ tx' = AfterImage(S, H, B, D, {}, {o.key})
                 /\ IF D = {} THEN UNCHANGED <<st, epoch>> ELSE BarrierEnter
                 /\ op' = [op EXCEPT ![p].pc = "authorize", ![p].val = id,
                                     ![p].bar = D # {}, ![p].evict = Ids(D)]
            ELSE Fail(p, "none") /\ UNCHANGED <<tx, st, epoch>>
      BY <2>1 DEF PublishTrim
    <3> HIDE DEF o, id, S, H, B
    <3>2. ASSUME NEW i, NEW b, NEW E,
                 op' = [op EXCEPT ![p].pc = "authorize", ![p].val = i, ![p].bar = b, ![p].evict = E]
          PROVE  Rests
      <4>1. PICK n : n = [op[p] EXCEPT !.pc = "authorize", !.val = i, !.bar = b, !.evict = E]
        OBVIOUS
      <4>2. op' = [op EXCEPT ![p] = n]
        BY <1>1, <3>2, <4>1
      <4>3. n.pc = "authorize" /\ n.err = op[p].err
        BY <1>1, <4>1 DEF Operations
      <4>4. QED
        BY <1>1, <1>2, <4>2, <4>3 DEF Located
    <3>3. QED
      BY <1>3, <3>1, <3>2
  <2>2. CASE PublishAuthorize(p) \/ PublishGate(p) \/ PublishAck(p) \/ CommitLost(p)
    BY <1>3, <1>4, <2>2 DEF PublishAuthorize, PublishGate, PublishAck, CommitLost
  <2>3. CASE Abandon(p) /\ op[p].pc \in InTx
    BY <1>3, <2>3 DEF Abandon, InTx
  <2>4. CASE PublishCommit(p)
    <3>1. PICK n : n = [Idle EXCEPT !.pc = "ack", !.val = op[p].val, !.bar = op[p].bar, !.evict = op[p].evict]
      OBVIOUS
    <3>2. n.pc = "ack" /\ n.err = "none"
      BY <3>1 DEF Idle
    <3>3. op' = [op EXCEPT ![p] = n]
      BY <2>4, <3>1 DEF PublishCommit
    <3>4. QED
      BY <1>2, <3>2, <3>3 DEF Located
  <2>5. CASE PublishDrop(p)
    <3>1. PICK n : n = [op[p] EXCEPT !.pc = "accept", !.bar = FALSE, !.evict = {}]
      OBVIOUS
    <3>2. n.pc = "accept" /\ n.err = op[p].err
      BY <1>1, <3>1 DEF Operations
    <3>3. op' = [op EXCEPT ![p] = n]
      BY <1>1, <2>5, <3>1 DEF PublishDrop
    <3>4. QED
      BY <1>1, <1>2, <3>2, <3>3 DEF Located
  <2>6. CASE Undo(p)
    <3>1. PICK n : n = [op[p] EXCEPT !.pc = "record", !.bar = FALSE]
      OBVIOUS
    <3>2. n.pc = "record" /\ n.err = op[p].err
      BY <1>1, <3>1 DEF Operations
    <3>3. op' = [op EXCEPT ![p] = n]
      BY <1>1, <2>6, <3>1 DEF Undo
    <3>4. QED
      BY <1>1, <1>2, <3>2, <3>3 DEF Located
  <2>7. CASE RecordResult(p)
    BY <1>2, <2>7 DEF RecordResult, Idle, Located
  <2>8. QED
    BY <2>1, <2>2, <2>3, <2>4, <2>5, <2>6, <2>7
<1>6. Renews
  <2>1. CASE PublishCommit(p)
    <3>1. PICK E : TxOK(E)
      BY <2>1 DEF PublishCommit, FenceInv, TxInv, InTx
    <3>2. db' = tx /\ mut' \in {mut, mut + 1}
      BY <2>1 DEF PublishCommit
    <3>3. QED
      BY <3>1, <3>2, RenewsCommit
  <2>2. CASE ~PublishCommit(p)
    <3>1. UNCHANGED <<db, mut>>
      BY <2>2 DEF PublishTrim, PublishAuthorize, PublishGate, PublishAck, Abandon, CommitLost,
             PublishDrop, Undo, RecordResult, tables
    <3>2. QED
      BY <3>1, RenewsKept
  <2>3. QED
    BY <2>1, <2>2
<1>7. UNCHANGED keeper
  BY DEF PublishTrim, PublishAuthorize, PublishGate, PublishAck, Abandon, PublishCommit,
         CommitLost, PublishDrop, Undo, RecordResult
<1>8. st' # "corrupt"
  BY <1>1 DEF PublishTrim, PublishAuthorize, PublishGate, PublishAck, Abandon, PublishCommit,
         CommitLost, PublishDrop, Undo, RecordResult, machine, BarrierEnter, BarrierDrop, Record
<1>9. QED
  BY <1>5, <1>6, <1>7, <1>8, CalmCaller

LEMMA CalmKeeper ==
  ASSUME TypeOK, TypeOK', EvidenceInv, FenceInv, CalmInv,
         MaintainStep \/ RecoverStep \/ KeeperFault \/ KeeperCommitLost \/ QueueCommitLost
  PROVE  CalmInv'
<1>1. /\ keeper \in Keepers /\ keeper.todo \in SUBSET Locations /\ db \in Tables
      /\ CleanOK(keeper) /\ keeper.err # "corrupt" /\ st # "corrupt"
      /\ KeeperOK(keeper) /\ Sound(db)
  BY DEF TypeOK, TablesOK, Keepers, CalmInv, CleanOK, EvidenceInv
<1>2. CASE MaintainCommit
  <2>1. PICK E : TxOK(E)
    BY <1>2 DEF MaintainCommit, FenceInv, TxInv
  <2>2. db' = tx /\ mut' \in {mut, mut + 1} /\ UNCHANGED <<st, op>>
    BY <1>2 DEF MaintainCommit, machine
  <2>3. Renews
    BY <2>1, <2>2, RenewsCommit
  <2>4. keeper'.pc = "ack" /\ keeper'.err = keeper.err
    BY <1>1, <1>2 DEF MaintainCommit, KGoto, Keepers
  <2>5. CleanOK(keeper)'
    BY <1>1, <2>4 DEF CleanOK
  <2>6. QED
    BY <1>1, <2>2, <2>3, <2>5, CalmOthers
<1>3. CASE ~MaintainCommit
  <2>1. db' = db \/ \E X : db' = [db EXCEPT !.queue = X]
    <3>1. CASE MaintainStep
      BY <1>3, <3>1 DEF MaintainStep, MaintainStart, CleanNext, Unlink, Dequeue, MaintainTrim,
             MaintainAck, MaintainDrop, ScanNext, tables
    <3>2. CASE RecoverStep \/ KeeperFault \/ KeeperCommitLost
      BY <3>2 DEF RecoverStep, RecoverStart, RecoverFence, RecoverReopen, KeeperUndo,
             KeeperRecord, KeeperFault, KeeperCommitLost, tables
    <3>3. CASE QueueCommitLost
      BY <3>3 DEF QueueCommitLost
    <3>4. QED
      BY <3>1, <3>2, <3>3
  <2>2. db'.snaps = db.snaps /\ db'.blobs = db.blobs
    BY <1>1, <2>1 DEF Tables
  <2>3. UNCHANGED <<mut, op>>
    BY <1>3 DEF MaintainStep, RecoverStep, MaintainStart, CleanNext, Unlink, Dequeue, MaintainTrim,
           MaintainAck, MaintainDrop, ScanNext, RecoverStart, RecoverFence, RecoverReopen,
           KeeperUndo, KeeperRecord, KeeperFault, KeeperCommitLost, QueueCommitLost, tables
  <2>4. Renews /\ Files(db)' = Files(db)
    BY <2>2, <2>3, RenewsKept DEF Files
  <2>5. st' # "corrupt"
    BY <1>1, <1>3 DEF MaintainStep, RecoverStep, MaintainStart, CleanNext, Unlink, Dequeue, MaintainTrim,
           MaintainAck, MaintainDrop, ScanNext, RecoverStart, RecoverFence, RecoverReopen,
           KeeperUndo, KeeperRecord, KeeperFault, KeeperCommitLost, QueueCommitLost, machine,
           BarrierEnter, BarrierDrop, Record
  <2> DEFINE Clean == /\ keeper'.err # "corrupt"
                      /\ keeper'.pc \in {"clean", "unlink", "dequeue"} =>
                           keeper'.todo \intersect Files(db) = {}
  <2>6. Clean
    <3>1. ASSUME NEW e, e # "corrupt", KFail(e) PROVE Clean
      BY <3>1, KFailMoves
    <3>2. CASE keeper' = IdleKeeper
      BY <3>2 DEF IdleKeeper
    <3>3. db.queue \intersect Files(db) = {}
      BY <1>1 DEF Sound
    <3>4. keeper.pc \in {"clean", "unlink", "dequeue"} => keeper.todo \intersect Files(db) = {}
      BY <1>1 DEF CleanOK
    <3>5. CASE MaintainStart
      BY <3>3, <3>5 DEF MaintainStart, IdleKeeper
    <3>6. CASE CleanNext
      <4>1. keeper.pc = "clean" /\ \A x \in keeper.todo : x \notin Files(db)
        BY <3>4, <3>6 DEF CleanNext
      <4>2. CASE keeper' = [keeper EXCEPT !.pc = "scan", !.todo = files]
        BY <1>1, <4>2 DEF Keepers
      <4>3. CASE keeper' = [keeper EXCEPT !.pc = "trim"]
        BY <1>1, <4>3 DEF Keepers
      <4>4. ASSUME NEW x, keeper' = [keeper EXCEPT !.pc = "unlink", !.loc = x] PROVE Clean
        BY <1>1, <3>4, <4>1, <4>4 DEF Keepers
      <4>5. QED
        BY <3>6, <4>1, <4>2, <4>3, <4>4 DEF CleanNext
    <3>7. CASE Unlink
      BY <1>1, <3>4, <3>7 DEF Unlink, KGoto, Keepers
    <3>8. CASE Dequeue
      <4>1. keeper'.todo = keeper.todo \ {keeper.loc} /\ keeper'.err = keeper.err /\ keeper.pc = "dequeue"
        BY <1>1, <3>8 DEF Dequeue, Keepers
      <4>2. QED
        BY <1>1, <3>4, <4>1
    <3>9. CASE MaintainTrim
      <4>1. PICK E, P :
              IF E = {} \/ st = "ready"
              THEN /\ tx' = AfterImage(db.snaps, db.head, db.blobs, E, P, {})
                   /\ lock' = "keeper"
                   /\ IF E = {} THEN UNCHANGED <<st, epoch>> ELSE BarrierEnter
                   /\ keeper' = [keeper EXCEPT !.pc = "commit", !.bar = E # {}, !.evict = Ids(E)]
              ELSE KFail("none") /\ UNCHANGED <<tx, lock, st, epoch>>
        BY <3>9 DEF MaintainTrim
      <4>2. CASE E = {} \/ st = "ready"
        BY <1>1, <4>1, <4>2 DEF Keepers
      <4>3. CASE ~(E = {} \/ st = "ready")
        BY <3>1, <4>1, <4>3
      <4>4. QED
        BY <4>2, <4>3
    <3>10. CASE MaintainAck
      BY <1>1, <3>10 DEF MaintainAck, KGoto, Keepers
    <3>11. CASE MaintainDrop
      BY <1>1, <3>3, <3>11 DEF MaintainDrop, Keepers
    <3>12. CASE ScanNext
      <4>1. ASSUME NEW x, keeper' = [keeper EXCEPT !.todo = @ \ {x}], keeper.pc = "scan" PROVE Clean
        BY <1>1, <4>1 DEF Keepers
      <4>2. QED
        BY <3>2, <3>12, <4>1 DEF ScanNext
    <3>13. CASE RecoverStart
      BY <3>13 DEF RecoverStart, IdleKeeper
    <3>14. CASE RecoverFence
      BY <1>1, <3>14 DEF RecoverFence, KGoto, Keepers
    <3>15. CASE KeeperUndo
      BY <1>1, <3>15 DEF KeeperUndo, Keepers
    <3>16. CASE RecoverReopen \/ KeeperRecord \/ KeeperFault \/ KeeperCommitLost \/ QueueCommitLost
      BY <3>1, <3>2, <3>16
         DEF RecoverReopen, KeeperRecord, KeeperFault, KeeperCommitLost, QueueCommitLost
    <3>17. QED
      BY <1>3, <3>5, <3>6, <3>7, <3>8, <3>9, <3>10, <3>11, <3>12, <3>13, <3>14, <3>15, <3>16
         DEF MaintainStep, RecoverStep
  <2>7. CleanOK(keeper)'
    BY <2>4, <2>6 DEF CleanOK
  <2>8. QED
    BY <2>3, <2>4, <2>5, <2>7, CalmOthers
<1>4. QED
  BY <1>2, <1>3

LEMMA CalmEnvironment ==
  ASSUME TypeOK, TypeOK', EvidenceInv, FenceInv, CalmInv,
         \/ GhostSettles \/ LateIO \/ LoseFile \/ Age \/ Close \/ Restart \/ UNCHANGED vars
  PROVE  CalmInv'
<1>1. st # "corrupt" /\ CleanOK(keeper) /\ \A x \in keeper.todo : Old(x)
  BY DEF CalmInv, EvidenceInv, KeeperOK
<1>2. CASE Restart
  <2>1. Idle.err # "corrupt" /\ Idle.pc \notin Located
    BY DEF Idle, Located
  <2>2. BlobOK(Idle)'
    BY <2>1, BlobRest
  <2>3. st' # "corrupt" /\ op' = [p \in Callers |-> Idle] /\ keeper' = IdleKeeper
    BY <1>2 DEF Restart
  <2>4. \A p \in Callers : BlobOK(op[p])'
    BY <2>2, <2>3
  <2>5. keeper'.err = "none" /\ keeper'.pc = "idle"
    BY <2>3 DEF IdleKeeper
  <2>6. CleanOK(keeper)'
    BY <2>5 DEF CleanOK
  <2>7. QED
    BY <2>3, <2>4, <2>6 DEF CalmInv
<1>3. CASE ~Restart
  <2>1. UNCHANGED <<op, keeper>> /\ st' # "corrupt"
    BY <1>1, <1>3 DEF GhostSettles, LateIO, LoseFile, Age, Close, vars, machine
  <2>2. Renews
    <3>1. CASE UNCHANGED <<db, mut>>
      BY <3>1, RenewsKept
    <3>2. CASE GhostSettles /\ db' = tx /\ mut' = mut + 1
      <4>1. PICK E : TxOK(E)
        BY <3>2 DEF GhostSettles, FenceInv, GhostInv
      <4>2. QED
        BY <3>2, <4>1, RenewsCommit
    <3>3. QED
      BY <1>3, <3>1, <3>2 DEF GhostSettles, LateIO, LoseFile, Age, Close, vars, tables
  <2>3. CleanOK(keeper)'
    <3>1. PICK k : k = keeper
      OBVIOUS
    <3>2. CleanOK(k)'
      BY <1>1, <2>2, <3>1, CleanCarried
    <3>3. keeper' = k
      BY <2>1, <3>1
    <3>4. QED
      BY <3>2, <3>3
  <2>4. QED
    BY <2>1, <2>2, <2>3, CalmOthers
<1>4. QED
  BY <1>2, <1>3

\* Without the strict mode's second look at a file that is already confirmed, only damage
\* to the blob root is taken for corruption: no interleaving of lookups, publications,
\* evictions, unlinks, lost answers and restarts is.
THEOREM CorruptionNeedsDamage ==
  ASSUME ~Strict PROVE Spec => [](Undamaged => CalmInv)
<1>1. ASSUME Init PROVE CalmInv
  <2>1. Idle.err # "corrupt" /\ Idle.pc \notin Located
    BY DEF Idle, Located
  <2>2. BlobOK(Idle)
    BY <2>1, BlobRest
  <2>3. st = "ready" /\ op = [p \in Callers |-> Idle] /\ keeper.err = "none" /\ keeper.pc = "idle"
    BY <1>1 DEF Init, IdleKeeper
  <2>4. CleanOK(keeper)
    BY <2>3 DEF CleanOK
  <2>5. \A p \in Callers : BlobOK(op[p])
    BY <2>2, <2>3
  <2>6. QED
    BY <2>3, <2>4, <2>5 DEF CalmInv
<1>2. ASSUME TypeOK, TypeOK', FenceInv, Undamaged => EvidenceInv, Undamaged => CalmInv,
             [Next]_vars, Undamaged'
      PROVE  CalmInv'
  <2>1. faults \in Nat /\ faults' \in {faults, faults + 1}
    BY <1>2, FaultsGrow DEF TypeOK, BoundsOK
  <2>2. Undamaged
    BY <1>2, <2>1 DEF Undamaged
  <2>3. EvidenceInv /\ CalmInv
    BY <1>2, <2>2
  <2>4. ASSUME NEW p \in Callers,
               \/ \E k \in Keys : LookupStart(p, k)
               \/ CallerStep(p) \/ Abandon(p) \/ Fault(p) \/ CommitLost(p)
               \/ ReserveCommitLost(p)
        PROVE  CalmInv'
    <3>1. \/ QuietStep(p) \/ ReserveBlob(p) \/ ReserveCommitLost(p)
          \/ PublishTrim(p) \/ PublishAuthorize(p) \/ PublishGate(p) \/ PublishAck(p)
          \/ Abandon(p) /\ op[p].pc \in InTx
          \/ PublishCommit(p) \/ CommitLost(p) \/ PublishDrop(p) \/ Undo(p) \/ RecordResult(p)
      BY <2>4 DEF CallerStep, QuietStep
    <3>2. CASE QuietStep(p)
      BY <1>2, <2>3, <3>2, CalmQuiet
    <3>3. CASE ReserveBlob(p) \/ ReserveCommitLost(p)
      BY <1>2, <2>3, <3>3, CalmReserve
    <3>4. CASE ~(QuietStep(p) \/ ReserveBlob(p) \/ ReserveCommitLost(p))
      BY <1>2, <2>3, <3>1, <3>4, CalmPublish
    <3>5. QED
      BY <3>2, <3>3, <3>4
  <2>5. CASE MaintainStep \/ RecoverStep \/ KeeperFault \/ KeeperCommitLost \/ QueueCommitLost
    BY <1>2, <2>3, <2>5, CalmKeeper
  <2>6. CASE \/ GhostSettles \/ LateIO \/ LoseFile \/ Age \/ Close \/ Restart \/ UNCHANGED vars
    BY <1>2, <2>3, <2>6, CalmEnvironment
  <2>7. QED
    BY <1>2, <2>4, <2>5, <2>6 DEF Next
<1>3. QED
  BY <1>1, <1>2, TypeCorrect, FenceHolds, EvidenceInvariant, PTL DEF Spec

\* Before anything has failed, no interleaving is taken for corruption, which would block
\* the store until an operator intervenes.
THEOREM RacesAreNotCorruption ==
  ASSUME ~Strict PROVE Spec => []NoFalseCorruption
<1>1. (Undamaged => CalmInv) => NoFalseCorruption
  BY DEF Undamaged, CalmInv, NoFalseCorruption
<1>2. QED
  BY <1>1, CorruptionNeedsDamage, PTL

=============================================================================
