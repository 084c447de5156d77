------------------------- MODULE CorpusJobs_proofs -------------------------
(***************************************************************************)
(* The detail jobs of an object, for any revisions, workers, requests,     *)
(* limits and bounds: one execution at a time, no refund of an attempt     *)
(* that reserved a provider request, evidence behind every capture, a HEAD *)
(* that follows the inventory, and explicit jobs kept by their requests.   *)
(***************************************************************************)
EXTENDS CorpusJobs, FiniteSetTheorems, WellFoundedInduction, TLAPS

Claiming == {"call", "fail", "put", "commit"}    \* an execution holds its claim
Preparing == {"enqueue", "wait", "adopt", "claim"}

Object == [version : 0..MaxVersion, desired : Revs \cup {None}, pending : BOOLEAN,
           conflict : BOOLEAN, head : 0..MaxBlobs]
Store == [next : 1..(MaxBlobs + 1), staged : SUBSET Blobs, stale : SUBSET Blobs,
          deletions : SUBSET Blobs, files : SUBSET Blobs,
          captures : SUBSET (Blobs \X Revs \X BOOLEAN \X BOOLEAN)]
Execution == [pc : {"idle", "done"} \cup Claiming \cup Preparing, rev : Revs \cup {None},
              version : 0..MaxVersion, attempts : 0..MaxAttempts, head : BOOLEAN,
              reserved : BOOLEAN, blob : 0..MaxBlobs, prev : 0..MaxBlobs]

\* An execution that is under way names a revision, a claim is an attempt, and a
\* publication has a blob.
WorkerOK(c) ==
    /\ c.pc \in Claiming \cup Preparing => c.rev \in Revs
    /\ c.pc \in Claiming => c.attempts > 0
    /\ c.pc \in {"put", "commit"} => c.blob \in Blobs

OwnerOK(j) == j # NoJob /\ j.owner # None => j.origin /\ j.until # None

StateOK ==
    /\ obj \in Object
    /\ jobs \in [Revs -> JobType \cup {NoJob}]
    /\ \A rev \in Revs : OwnerOK(jobs[rev])
    /\ due \subseteq gaps /\ gaps \subseteq Revs
    /\ store \in Store /\ store.stale \subseteq store.staged
    /\ workers \in [Workers -> Execution]
    /\ \A w \in Workers : WorkerOK(workers[w])
    /\ epoch \in [Request -> Nat] /\ live \in [Request -> BOOLEAN] /\ lapsed \subseteq Launches
    /\ since \in [Revs -> 0..MaxVersion]
    /\ charged \in [Revs -> SUBSET (1..MaxVersion)]
    /\ events \in Nat

\* Nothing knows a version of the object that is still to come.
VersionInv ==
    /\ \A rev \in Revs : /\ jobs[rev] # NoJob => jobs[rev].version <= obj.version
                         /\ since[rev] <= obj.version
                         /\ \A v \in charged[rev] : v <= obj.version
    /\ \A w \in Workers : workers[w].version <= obj.version

\* A version identifies one claim, and a claim that has reserved nothing is not charged.
ClaimInv ==
    /\ \A u, w \in Workers :
          workers[u].pc \in Claiming /\ workers[w].pc \in Claiming
            /\ workers[u].version = workers[w].version => u = w
    /\ \A w \in Workers : workers[w].pc \in Claiming /\ ~workers[w].reserved =>
          \A rev \in Revs : workers[w].version \notin charged[rev]
    /\ \A rev \in Revs : Is(rev, Busy) => since[rev] < jobs[rev].version

\* The claims since a job was queued afresh that reserved a request or still may.
Unspent(w, rev) ==
    /\ workers[w].pc \in Claiming /\ ~workers[w].reserved
    /\ workers[w].rev = rev /\ since[rev] < workers[w].version
Owed(rev) ==
    charged[rev] \cup {v \in 1..MaxVersion :
                          \E w \in Workers : Unspent(w, rev) /\ workers[w].version = v}

ChargeInv ==
    \A rev \in Revs : jobs[rev] # NoJob => Cardinality(Owed(rev)) <= jobs[rev].attempts

\* A claim of the object's current version works on the HEAD that the inventory asked for.
CurrentOK(c) ==
    c.pc \in Claiming /\ c.head /\ c.version = obj.version =>
        /\ c.rev = obj.desired /\ ~obj.conflict
        /\ c.pc \in {"put", "commit"} => c.prev = obj.head
CurrentInv == \A w \in Workers : CurrentOK(workers[w])

\* A publication past its put has its file for as long as its stage is kept; a stage is
\* neither a deletion nor a capture.
BlobOK(c) ==
    /\ c.blob < store.next
    /\ c.pc = "commit" /\ c.blob \in store.staged => c.blob \in store.files
StageInv ==
    /\ \A b \in store.staged \cup store.deletions : b < store.next
    /\ store.staged \cap store.deletions = {}
    /\ \A c \in store.captures : c[1] < store.next /\ c[1] \notin store.staged
    /\ \A w \in Workers : BlobOK(workers[w])
    /\ CaptureEvidence

ClaimsInv == VersionInv /\ ClaimInv /\ ChargeInv /\ CurrentInv /\ OneExecution

JobsInv == StateOK /\ ClaimsInv /\ StageInv

------------------------------------------------------------------------------
(* Types of the operators.                                                 *)

\* A set of blobs that is not empty has a largest one.
LEMMA LargestBlob ==
  ASSUME NEW S \in SUBSET Blobs, S # {}
  PROVE  \E b \in S : \A d \in S : d <= b
<1> DEFINE T == {MaxBlobs - b : b \in S}
<1>1. MaxBlobs \in Nat
  BY JobsAssumption
<1>2. T \subseteq Nat /\ T # {}
  <2>1. \A b \in S : MaxBlobs - b \in Nat
    BY <1>1 DEF Blobs
  <2>2. PICK b : b \in S
    OBVIOUS
  <2>3. T # {}
    BY <2>2
  <2> QED BY <2>1, <2>3
<1>3. IsWellFoundedOn(OpToRel(<, Nat), Nat)
  BY NatLessThanWellFounded
<1>4. PICK x \in T : \A y \in T : ~(<<y, x>> \in OpToRel(<, Nat))
  <2> HIDE DEF T
  <2> QED BY <1>2, <1>3, WFMin
<1>5. PICK b \in S : x = MaxBlobs - b
  BY <1>4
<1>6. \A y \in T : ~(y < x)
  <2> TAKE y \in T
  <2>1. ~(<<y, x>> \in {ss \in Nat \X Nat : ss[1] < ss[2]})
    BY <1>4 DEF OpToRel
  <2>2. x \in Nat /\ y \in Nat
    BY <1>2
  <2> QED BY <2>1, <2>2
<1>7. \A d \in S : d <= b
  <2> TAKE d \in S
  <2>1. ~(MaxBlobs - d < MaxBlobs - b)
    BY <1>5, <1>6
  <2> QED BY <2>1, <1>1 DEF Blobs
<1> QED BY <1>7

\* The latest capture of a revision is a blob, or 0.
LEMMA LatestType ==
  ASSUME StateOK, NEW rev
  PROVE  LatestOf(rev) \in 0..MaxBlobs
<1> DEFINE bs == {c[1] : c \in {d \in store.captures : d[2] = rev /\ d[4]}}
<1>1. bs \subseteq Blobs
  BY DEF StateOK, Store
<1>2. Blobs \subseteq 0..MaxBlobs
  BY JobsAssumption DEF Blobs
<1>3. CASE bs = {}
  BY <1>3, JobsAssumption DEF LatestOf
<1>4. CASE bs # {}
  <2>1. \E b \in bs : \A d \in bs : d <= b
    <3> HIDE DEF bs
    <3> QED BY <1>1, <1>4, LargestBlob
  <2>2. (CHOOSE b \in bs : \A d \in bs : d <= b) \in bs
    <3> HIDE DEF bs
    <3> QED BY <2>1
  <2> QED BY <2>2, <1>1, <1>2, <1>4 DEF LatestOf
<1> QED BY <1>3, <1>4

\* A worker that has ended is well formed and has no claim.
LEMMA EndedType ==
  ASSUME NEW w
  PROVE  /\ Ended(w) \in Execution /\ WorkerOK(Ended(w))
         /\ Ended(w).pc \in {"idle", "done"} /\ Ended(w).blob = 0 /\ Ended(w).version = 0
<1>1. Idle \in Execution /\ [Idle EXCEPT !.pc = "done"] \in Execution
  <2>1. 0 \in 0..MaxVersion /\ 0 \in 0..MaxAttempts /\ 0 \in 0..MaxBlobs
    BY JobsAssumption
  <2> QED BY <2>1 DEF Idle, Execution
<1>2. Ended(w) = Idle \/ Ended(w) = [Idle EXCEPT !.pc = "done"]
  BY DEF Ended
<1>3. Ended(w).pc \in {"idle", "done"} /\ Ended(w).blob = 0 /\ Ended(w).version = 0
  BY <1>2 DEF Idle
<1>4. WorkerOK(Ended(w))
  BY <1>3 DEF WorkerOK, Claiming, Preparing
<1> QED BY <1>1, <1>2, <1>3, <1>4

\* A job queued afresh is a job.
LEMMA NewJobType ==
  ASSUME NEW v \in 0..MaxVersion, NEW h \in BOOLEAN, NEW o \in BOOLEAN,
         NEW r \in Request \cup {None}, NEW u \in Launches \cup {None}
  PROVE  /\ NewJob(v, h, o, r, u) \in JobType /\ NewJob(v, h, o, r, u) # NoJob
         /\ NewJob(v, h, o, r, u).status = "pending" /\ NewJob(v, h, o, r, u).version = v
         /\ NewJob(v, h, o, r, u).attempts = 0 /\ NewJob(v, h, o, r, u).category = "none"
         /\ NewJob(v, h, o, r, u).owner = r /\ NewJob(v, h, o, r, u).origin = o
         /\ NewJob(v, h, o, r, u).until = u /\ NewJob(v, h, o, r, u).head = h
  BY JobsAssumption DEF NewJob, JobType, NoJob, Queued, Busy

\* A row of the table is no absent job.
LEMMA JobIsPresent == \A j \in JobType : j # NoJob
  BY DEF JobType, NoJob, Queued, Busy

------------------------------------------------------------------------------
(* What all steps but a claim, a reservation and a refund do.              *)

\* The object's version moves with its desired revision, its conflict and its HEAD.
Grows ==
    /\ obj.version <= obj'.version
    /\ obj'.version = obj.version =>
          obj'.desired = obj.desired /\ obj'.conflict = obj.conflict /\ obj'.head = obj.head

\* A job queued afresh: nothing is charged, and every claim so far is older.
Freshly(q) ==
    /\ jobs'[q] \in JobType /\ jobs'[q].status = "pending"
    /\ jobs'[q].version <= obj'.version
    /\ since'[q] = obj'.version /\ charged'[q] = {}

\* A job that keeps its claim while it runs; and one that also keeps its attempts.
Moves(q) ==
    /\ since'[q] = since[q] /\ charged'[q] = charged[q]
    /\ \/ jobs'[q] = jobs[q]
       \/ /\ jobs[q] \in JobType /\ jobs'[q] \in JobType
          /\ jobs'[q].version <= obj'.version
          /\ jobs'[q].status \in Busy =>
                jobs[q].status \in Busy /\ jobs'[q].version = jobs[q].version
          /\ jobs'[q].status = "running" /\ jobs'[q].category = "none" =>
                jobs[q].status = "running" /\ jobs[q].category = "none"
Keeps(q) == Moves(q) /\ (jobs'[q] = jobs[q] \/ jobs'[q].attempts = jobs[q].attempts)

\* A worker that claims nothing new.
Carries(w) ==
    /\ workers'[w].version <= obj'.version
    /\ workers'[w].pc \in Claiming =>
          /\ workers[w].pc \in Claiming
          /\ workers'[w].rev = workers[w].rev /\ workers'[w].version = workers[w].version
          /\ workers'[w].head = workers[w].head /\ workers'[w].reserved = workers[w].reserved
          /\ workers'[w].pc \in {"put", "commit"} =>
                \/ workers[w].pc \in {"put", "commit"} /\ workers'[w].prev = workers[w].prev
                \/ workers[w].head => workers'[w].prev = obj.head

Quiet ==
    /\ Grows
    /\ \A w \in Workers : Carries(w)
    /\ \A q \in Revs : Freshly(q) \/ Moves(q)
Calm == Quiet /\ \A q \in Revs : Freshly(q) \/ Keeps(q)

\* A worker that keeps its blob or has none.
Stays(w) ==
    /\ workers'[w].blob \in {0, workers[w].blob}
    /\ workers'[w].pc = "commit" => workers[w].pc = "commit"

\* The claims, the charges and the current HEAD survive such a step.
LEMMA QuietVersions ==
  ASSUME StateOK, StateOK', VersionInv, Quiet
  PROVE  VersionInv'
<1>1. obj.version \in Nat /\ obj'.version \in Nat /\ obj.version <= obj'.version
  BY JobsAssumption DEF StateOK, Object, Quiet, Grows
<1>2. \A w \in Workers : workers'[w].version <= obj'.version
  BY DEF Quiet, Carries
<1>3. ASSUME NEW q \in Revs
      PROVE  /\ jobs'[q] # NoJob => jobs'[q].version <= obj'.version
             /\ since'[q] <= obj'.version
             /\ \A v \in charged'[q] : v <= obj'.version
  <2>1. CASE Freshly(q)
    BY <2>1, <1>1 DEF Freshly
  <2>2. CASE Moves(q)
    <3>1. since'[q] <= obj'.version
      BY <2>2, <1>1, JobsAssumption DEF Moves, VersionInv, StateOK
    <3>2. \A v \in charged'[q] : v <= obj'.version
      BY <2>2, <1>1, JobsAssumption DEF Moves, VersionInv, StateOK
    <3>3. jobs'[q] # NoJob => jobs'[q].version <= obj'.version
      <4>1. CASE jobs'[q] = jobs[q]
        <5>1. jobs[q] # NoJob => jobs[q].version \in Nat
          BY JobsAssumption DEF StateOK, JobType
        <5> QED BY <4>1, <5>1, <1>1 DEF VersionInv
      <4> QED BY <2>2, <4>1 DEF Moves
    <3> QED BY <3>1, <3>2, <3>3
  <2> QED BY <2>1, <2>2 DEF Quiet
<1> QED BY <1>2, <1>3 DEF VersionInv

LEMMA QuietClaims ==
  ASSUME StateOK, StateOK', VersionInv, ClaimInv, Quiet
  PROVE  ClaimInv'
<1>1. ASSUME NEW u \in Workers, NEW w \in Workers,
             workers'[u].pc \in Claiming, workers'[w].pc \in Claiming,
             workers'[u].version = workers'[w].version
      PROVE  u = w
  BY <1>1 DEF Quiet, Carries, ClaimInv
<1>2. ASSUME NEW w \in Workers, workers'[w].pc \in Claiming, ~workers'[w].reserved,
             NEW q \in Revs
      PROVE  workers'[w].version \notin charged'[q]
  <2>1. workers[w].pc \in Claiming /\ ~workers[w].reserved
        /\ workers'[w].version = workers[w].version
    BY <1>2 DEF Quiet, Carries
  <2>2. workers[w].version \notin charged[q]
    BY <2>1 DEF ClaimInv
  <2>3. charged'[q] = {} \/ charged'[q] = charged[q]
    BY DEF Quiet, Freshly, Moves
  <2> QED BY <2>1, <2>2, <2>3
<1>3. ASSUME NEW q \in Revs, Is(q, Busy)'
      PROVE  since'[q] < jobs'[q].version
  <2>1. jobs'[q] # NoJob /\ jobs'[q].status \in Busy
    BY <1>3 DEF Is
  <2>2. Moves(q)
    BY <2>1 DEF Quiet, Freshly, Busy
  <2>3. jobs[q] # NoJob /\ jobs[q].status \in Busy /\ jobs'[q].version = jobs[q].version
    BY <2>1, <2>2, JobIsPresent DEF Moves
  <2>4. since[q] < jobs[q].version
    BY <2>3 DEF ClaimInv, Is
  <2> QED BY <2>2, <2>3, <2>4 DEF Moves
<1> QED BY <1>1, <1>2, <1>3 DEF ClaimInv

LEMMA QuietCurrent ==
  ASSUME StateOK, StateOK', VersionInv, CurrentInv, Quiet
  PROVE  CurrentInv'
<1> SUFFICES ASSUME NEW w \in Workers,
                    workers'[w].pc \in Claiming, workers'[w].head,
                    workers'[w].version = obj'.version
             PROVE  /\ workers'[w].rev = obj'.desired /\ ~obj'.conflict
                    /\ workers'[w].pc \in {"put", "commit"} => workers'[w].prev = obj'.head
  BY DEF CurrentInv, CurrentOK
<1>1. Carries(w) /\ Grows
  BY DEF Quiet
<1>2. workers[w].version <= obj.version /\ workers'[w].version = workers[w].version
  BY <1>1 DEF VersionInv, Carries
<1>3. obj'.version = obj.version
  <2>1. obj.version \in Nat /\ obj'.version \in Nat
    BY JobsAssumption DEF StateOK, Object
  <2>2. obj'.version <= obj.version
    BY <1>2
  <2>3. obj.version <= obj'.version
    BY <1>1 DEF Grows
  <2> QED BY <2>1, <2>2, <2>3
<1>4. obj'.desired = obj.desired /\ obj'.conflict = obj.conflict /\ obj'.head = obj.head
  BY <1>1, <1>3 DEF Grows
<1>5. workers[w].pc \in Claiming /\ workers[w].head /\ workers[w].version = obj.version
      /\ workers'[w].rev = workers[w].rev
  BY <1>1, <1>2, <1>3 DEF Carries
<1>6. CurrentOK(workers[w])
  BY DEF CurrentInv
<1>7. workers'[w].rev = obj'.desired /\ ~obj'.conflict
  BY <1>4, <1>5, <1>6 DEF CurrentOK
<1>8. workers'[w].pc \in {"put", "commit"} => workers'[w].prev = obj'.head
  BY <1>1, <1>4, <1>5, <1>6 DEF CurrentOK, Carries
<1> QED BY <1>7, <1>8

LEMMA QuietExecution ==
  ASSUME StateOK, StateOK', OneExecution, Quiet
  PROVE  OneExecution'
<1>1. ASSUME NEW q \in Revs, Executing(q)'
      PROVE  Executing(q)
  <2>1. jobs'[q] # NoJob /\ jobs'[q].status = "running" /\ jobs'[q].category = "none"
    BY <1>1 DEF Executing, Is
  <2>2. Moves(q)
    BY <2>1 DEF Quiet, Freshly
  <2>3. jobs[q] # NoJob /\ jobs[q].status = "running" /\ jobs[q].category = "none"
    BY <2>1, <2>2, JobIsPresent DEF Moves
  <2> QED BY <2>3 DEF Executing, Is
<1> QED BY <1>1 DEF OneExecution

\* Sets of versions are finite.
LEMMA OwedFinite ==
  ASSUME StateOK, NEW q \in Revs
  PROVE  Owed(q) \in SUBSET (1..MaxVersion) /\ IsFiniteSet(Owed(q))
<1>1. Owed(q) \in SUBSET (1..MaxVersion)
  BY DEF Owed, StateOK
<1>2. IsFiniteSet(1..MaxVersion)
  BY FS_Interval, JobsAssumption
<1> QED BY <1>1, <1>2, FS_Subset

\* Owing fewer claims costs no more attempts.
LEMMA OwedLess ==
  ASSUME StateOK, NEW q \in Revs, NEW S, S \subseteq Owed(q)
  PROVE  /\ Cardinality(S) <= Cardinality(Owed(q))
         /\ Cardinality(S) \in Nat /\ Cardinality(Owed(q)) \in Nat
  BY OwedFinite, FS_Subset, FS_CardinalityType

LEMMA CalmCharges ==
  ASSUME StateOK, StateOK', VersionInv, VersionInv', ChargeInv, Calm
  PROVE  ChargeInv'
<1> SUFFICES ASSUME NEW q \in Revs, jobs'[q] # NoJob
             PROVE  Cardinality(Owed(q)') <= jobs'[q].attempts
  BY DEF ChargeInv
<1>1. jobs'[q].attempts \in Nat
  BY JobsAssumption DEF StateOK, JobType
<1>2. CASE Freshly(q)
  <2>1. \A w \in Workers : ~Unspent(w, q)'
    <3> SUFFICES ASSUME NEW w \in Workers
                 PROVE  ~(since'[q] < workers'[w].version)
      BY DEF Unspent
    <3>1. workers'[w].version <= obj'.version
      BY DEF VersionInv
    <3>2. since'[q] = obj'.version
      BY <1>2 DEF Freshly
    <3>3. workers'[w].version \in Nat /\ obj'.version \in Nat
      BY JobsAssumption DEF StateOK, Object, Execution
    <3> QED BY <3>1, <3>2, <3>3
  <2>2. Owed(q)' = {}
    BY <1>2, <2>1 DEF Owed, Freshly
  <2> QED BY <2>2, <1>1, FS_EmptySet
<1>3. CASE Keeps(q)
  <2>1. ASSUME NEW w \in Workers, Unspent(w, q)'
        PROVE  Unspent(w, q) /\ workers'[w].version = workers[w].version
    <3>1. Carries(w)
      BY DEF Calm, Quiet
    <3> QED BY <1>3, <2>1, <3>1 DEF Unspent, Carries, Keeps, Moves
  <2>2. Owed(q)' \subseteq Owed(q)
    BY <1>3, <2>1 DEF Owed, Keeps, Moves
  <2>3. jobs[q] # NoJob /\ jobs'[q].attempts = jobs[q].attempts
    BY <1>3, JobIsPresent DEF Keeps, Moves
  <2>4. Cardinality(Owed(q)) <= jobs[q].attempts
    BY <2>3 DEF ChargeInv
  <2>5. /\ Cardinality(Owed(q)') <= Cardinality(Owed(q))
        /\ Cardinality(Owed(q)') \in Nat /\ Cardinality(Owed(q)) \in Nat
    BY <2>2, OwedLess
  <2> QED BY <1>1, <2>3, <2>4, <2>5
<1> QED BY <1>2, <1>3 DEF Calm, Quiet, Keeps

\* A calm step keeps what is known of the claims.
LEMMA CalmStep ==
  ASSUME StateOK, StateOK', ClaimsInv, Calm
  PROVE  ClaimsInv'
<1>1. VersionInv'
  BY QuietVersions DEF ClaimsInv, Calm
<1>2. ClaimInv' /\ CurrentInv' /\ OneExecution'
  BY QuietClaims, QuietCurrent, QuietExecution DEF ClaimsInv, Calm
<1>3. ChargeInv'
  BY <1>1, CalmCharges DEF ClaimsInv
<1> QED BY <1>1, <1>2, <1>3 DEF ClaimsInv

\* The evidence survives a step that leaves the store alone.
LEMMA StageStays ==
  ASSUME StateOK, StageInv, UNCHANGED store, \A w \in Workers : Stays(w)
  PROVE  StageInv'
<1>1. ASSUME NEW w \in Workers
      PROVE  BlobOK(workers[w])'
  <2>1. BlobOK(workers[w]) /\ Stays(w)
    BY DEF StageInv
  <2>2. store.next > 0 /\ 0 \notin store.staged
    BY DEF StateOK, Store, Blobs
  <2> QED BY <2>1, <2>2 DEF BlobOK, Stays
<1>2. CaptureEvidence'
  BY DEF StageInv, CaptureEvidence
<1> QED BY <1>1, <1>2 DEF StageInv

------------------------------------------------------------------------------
(* The parts that steps are made of.                                       *)

\* A step that leaves the object alone grows.
LEMMA GrowsSame ==
  ASSUME StateOK, UNCHANGED obj
  PROVE  Grows
  BY JobsAssumption DEF Grows, StateOK, Object

\* Workers that do nothing.
LEMMA WorkersSame ==
  ASSUME StateOK, StateOK', VersionInv, Grows, UNCHANGED workers
  PROVE  \A u \in Workers : Carries(u) /\ Stays(u)
<1> TAKE u \in Workers
<1>1. obj.version \in Nat /\ obj'.version \in Nat /\ workers[u].version \in Nat
  BY JobsAssumption DEF StateOK, Object, Execution
<1>2. workers[u].version <= obj.version /\ obj.version <= obj'.version
  BY DEF VersionInv, Grows
<1> QED BY <1>1, <1>2 DEF Carries, Stays

\* One worker moves on outside its claim, the others do nothing.
LEMMA WorkerMoves ==
  ASSUME StateOK, StateOK', VersionInv, Grows, NEW w \in Workers, NEW e \in Execution,
         workers' = [workers EXCEPT ![w] = e], e.version <= obj'.version,
         e.pc \notin Claiming, e.blob \in {0, workers[w].blob}
  PROVE  \A u \in Workers : Carries(u) /\ Stays(u)
<1> TAKE u \in Workers
<1>1. CASE u = w
  <2>1. workers'[u] = e
    BY <1>1 DEF StateOK
  <2> QED BY <2>1 DEF Carries, Stays, Claiming
<1>2. CASE u # w
  <2>1. workers'[u] = workers[u]
    BY <1>2 DEF StateOK
  <2>2. obj.version \in Nat /\ obj'.version \in Nat /\ workers[u].version \in Nat
    BY JobsAssumption DEF StateOK, Object, Execution
  <2>3. workers[u].version <= obj.version /\ obj.version <= obj'.version
    BY DEF VersionInv, Grows
  <2> QED BY <2>1, <2>2, <2>3 DEF Carries, Stays
<1> QED BY <1>1, <1>2

\* Its type.
LEMMA WorkerType ==
  ASSUME StateOK, NEW w \in Workers, NEW e \in Execution, WorkerOK(e),
         workers' = [workers EXCEPT ![w] = e]
  PROVE  workers' \in [Workers -> Execution] /\ \A u \in Workers : WorkerOK(workers'[u])
<1>1. workers' \in [Workers -> Execution]
  BY DEF StateOK
<1>2. \A u \in Workers : workers'[u] = (IF u = w THEN e ELSE workers[u])
  BY DEF StateOK
<1> QED BY <1>1, <1>2 DEF StateOK

\* A worker that ends.
LEMMA WorkerEndsType ==
  ASSUME StateOK, NEW w \in Workers, workers' = [workers EXCEPT ![w] = Ended(w)]
  PROVE  workers' \in [Workers -> Execution] /\ \A u \in Workers : WorkerOK(workers'[u])
  BY EndedType, WorkerType

LEMMA WorkerEnds ==
  ASSUME StateOK, StateOK', VersionInv, Grows, NEW w \in Workers,
         workers' = [workers EXCEPT ![w] = Ended(w)]
  PROVE  \A u \in Workers : Carries(u) /\ Stays(u)
<1>1. Ended(w) \in Execution /\ Ended(w).pc \notin Claiming /\ Ended(w).blob = 0
  BY EndedType DEF Claiming
<1>2. Ended(w).version <= obj'.version
  BY EndedType, JobsAssumption DEF StateOK, Object
<1> QED BY <1>1, <1>2, WorkerMoves

\* Jobs that nothing happens to.
LEMMA JobsSame ==
  ASSUME UNCHANGED <<jobs, since, charged>>
  PROVE  \A q \in Revs : Freshly(q) \/ Keeps(q)
  BY DEF Keeps, Moves

\* One job changes outside its claim.
LEMMA JobChanges ==
  ASSUME StateOK, NEW rev \in Revs, NEW j \in JobType, OwnerOK(j),
         jobs' = [jobs EXCEPT ![rev] = j], UNCHANGED history,
         jobs[rev] # NoJob, j.attempts = jobs[rev].attempts, j.version <= obj'.version,
         j.status \in Busy => jobs[rev].status \in Busy /\ j.version = jobs[rev].version,
         j.status = "running" /\ j.category = "none" =>
            jobs[rev].status = "running" /\ jobs[rev].category = "none"
  PROVE  /\ jobs' \in [Revs -> JobType \cup {NoJob}] /\ \A q \in Revs : OwnerOK(jobs'[q])
         /\ \A q \in Revs : Freshly(q) \/ Keeps(q)
<1>1. jobs' \in [Revs -> JobType \cup {NoJob}]
  BY DEF StateOK
<1>2. \A q \in Revs : jobs'[q] = (IF q = rev THEN j ELSE jobs[q])
  BY DEF StateOK
<1>3. \A q \in Revs : OwnerOK(jobs'[q])
  BY <1>2 DEF StateOK
<1>4. jobs[rev] \in JobType
  BY DEF StateOK
<1>5. since' = since /\ charged' = charged
  BY DEF history
<1>6. Keeps(rev)
  BY <1>2, <1>4, <1>5 DEF Keeps, Moves
<1>7. \A q \in Revs \ {rev} : Keeps(q)
  BY <1>2, <1>5 DEF Keeps, Moves
<1> QED BY <1>1, <1>3, <1>6, <1>7

------------------------------------------------------------------------------
(* Enqueue.                                                                *)

\* The object after an enqueue.
LEMMA EnqueueObject ==
  ASSUME StateOK, NEW rev \in Revs, NEW head \in BOOLEAN, NEW mark \in BOOLEAN, NEW launch,
         Enqueue(rev, head, mark, launch)
  PROVE  /\ obj' \in Object /\ Grows /\ obj'.version = VersionAfter(rev, head, mark)
         /\ VersionAfter(rev, head, mark) \in 0..MaxVersion
<1>1. obj \in Object /\ obj.version \in Nat /\ MaxVersion \in Nat
  BY JobsAssumption DEF StateOK, Object
<1>2. VersionAfter(rev, head, mark) \in {obj.version, obj.version + 1}
  BY DEF VersionAfter, Bumped
<1>3. VersionAfter(rev, head, mark) \in 0..MaxVersion /\ obj' = ObjAfter(rev, head, mark)
  BY <1>1, <1>2 DEF Enqueue
<1>4. obj'.version = VersionAfter(rev, head, mark)
  <2>1. CASE head
    BY <2>1, <1>1, <1>3 DEF ObjAfter, Object
  <2>2. CASE ~head
    BY <2>2, <1>3 DEF ObjAfter, VersionAfter, HeadChanged
  <2> QED BY <2>1, <2>2
<1>5. obj' \in Object
  <2>1. CASE head
    <3>1. (obj.pending \/ mark) \in BOOLEAN
      OBVIOUS
    <3> QED BY <2>1, <3>1, <1>1, <1>3 DEF ObjAfter, Object
  <2>2. CASE ~head
    BY <2>2, <1>1, <1>3 DEF ObjAfter
  <2> QED BY <2>1, <2>2
<1>6. obj'.conflict = obj.conflict /\ obj'.head = obj.head
  BY <1>1, <1>3 DEF ObjAfter, Object
<1>7. obj'.version = obj.version => obj'.desired = obj.desired
  <2>1. CASE head /\ obj.desired # rev
    <3>1. obj'.version = obj.version + 1
      BY <2>1, <1>4 DEF VersionAfter, HeadChanged, Bumped
    <3> QED BY <3>1, <1>1
  <2>2. CASE ~(head /\ obj.desired # rev)
    BY <2>2, <1>1, <1>3 DEF ObjAfter, Object
  <2> QED BY <2>1, <2>2
<1>8. obj.version <= obj'.version
  BY <1>1, <1>2, <1>4
<1> QED BY <1>3, <1>4, <1>5, <1>6, <1>7, <1>8 DEF Grows

\* The other revisions after an enqueue: superseded, or as before.
LEMMA SupersedeKeeps ==
  ASSUME StateOK, VersionInv, Grows, obj' \in Object, NEW rev \in Revs, NEW head \in BOOLEAN
  PROVE  /\ Supersede(rev, head) \in [Revs -> JobType \cup {NoJob}]
         /\ Supersede(rev, head)[rev] = jobs[rev]
         /\ \A q \in Revs : OwnerOK(Supersede(rev, head)[q])
         /\ \A q \in Revs :
              jobs'[q] = Supersede(rev, head)[q]
                /\ since'[q] = since[q] /\ charged'[q] = charged[q] => Keeps(q)
<1>1. ASSUME NEW q \in Revs, jobs[q] # NoJob
      PROVE  LET f == [jobs[q] EXCEPT !.status = "failed"]
             IN  /\ f \in JobType /\ OwnerOK(f) /\ f.status = "failed"
                 /\ f.attempts = jobs[q].attempts /\ f.version = jobs[q].version
                 /\ jobs[q] \in JobType
  <2>1. jobs[q] \in JobType /\ OwnerOK(jobs[q])
    BY <1>1 DEF StateOK
  <2> QED BY <1>1, <2>1 DEF JobType, OwnerOK
<1>2. ASSUME NEW q \in Revs
      PROVE  Supersede(rev, head)[q] =
               IF head /\ q # rev /\ Is(q, Queued) /\ jobs[q].head
               THEN [jobs[q] EXCEPT !.status = "failed"] ELSE jobs[q]
  BY DEF Supersede
<1>3. ASSUME NEW q \in Revs
      PROVE  Supersede(rev, head)[q] \in JobType \cup {NoJob} /\ OwnerOK(Supersede(rev, head)[q])
  BY <1>1, <1>2 DEF Is, StateOK
<1>4. Supersede(rev, head) \in [Revs -> JobType \cup {NoJob}]
  BY <1>3 DEF Supersede
<1>5. ASSUME NEW q \in Revs, jobs'[q] = Supersede(rev, head)[q],
             since'[q] = since[q], charged'[q] = charged[q]
      PROVE  Keeps(q)
  <2>1. CASE jobs'[q] = jobs[q]
    BY <1>5, <2>1 DEF Keeps, Moves
  <2>2. CASE jobs'[q] # jobs[q]
    <3>1. jobs[q] # NoJob /\ jobs'[q] = [jobs[q] EXCEPT !.status = "failed"]
      BY <1>2, <1>5, <2>2 DEF Is
    <3>2. jobs[q].version <= obj'.version
      <4>1. jobs[q].version \in Nat /\ obj.version \in Nat /\ obj'.version \in Nat
        BY <1>1, <3>1, JobsAssumption DEF JobType, Object, StateOK
      <4> QED BY <4>1, <3>1 DEF VersionInv, Grows
    <3> QED BY <1>1, <1>5, <3>1, <3>2 DEF Keeps, Moves, Busy
  <2> QED BY <2>1, <2>2
<1> QED BY <1>2, <1>3, <1>4, <1>5

\* The jobs after an enqueue.
LEMMA EnqueueJobs ==
  ASSUME StateOK, VersionInv, NEW rev \in Revs, NEW head \in BOOLEAN, NEW mark \in BOOLEAN,
         NEW launch \in Launches \cup {None}, Enqueue(rev, head, mark, launch)
  PROVE  /\ jobs' \in [Revs -> JobType \cup {NoJob}] /\ \A q \in Revs : OwnerOK(jobs'[q])
         /\ since' \in [Revs -> 0..MaxVersion]
         /\ charged' \in [Revs -> SUBSET (1..MaxVersion)]
         /\ \A q \in Revs : Freshly(q) \/ Keeps(q)
<1> DEFINE v == VersionAfter(rev, head, mark)
           others == Supersede(rev, head)
           origin == launch # None
           owner == IF origin THEN launch[1] ELSE None
<1>1. obj' \in Object /\ Grows /\ obj'.version = v /\ v \in 0..MaxVersion
  BY EnqueueObject
<1>2. /\ others \in [Revs -> JobType \cup {NoJob}] /\ others[rev] = jobs[rev]
      /\ \A q \in Revs : OwnerOK(others[q])
      /\ \A q \in Revs : jobs'[q] = others[q]
           /\ since'[q] = since[q] /\ charged'[q] = charged[q] => Keeps(q)
  BY <1>1, SupersedeKeeps
<1>3. since \in [Revs -> 0..MaxVersion] /\ charged \in [Revs -> SUBSET (1..MaxVersion)]
  BY DEF StateOK
<1>4. \/ jobs' = others /\ UNCHANGED history
      \/ /\ Is(rev, Queued)
         /\ jobs' = [others EXCEPT ![rev] =
              NewJob(v, TRUE, origin \/ jobs[rev].owner # None, jobs[rev].owner, jobs[rev].until)]
         /\ since' = [since EXCEPT ![rev] = v] /\ charged' = [charged EXCEPT ![rev] = {}]
      \/ /\ jobs' = [others EXCEPT ![rev] = NewJob(v, head, origin, owner, launch)]
         /\ since' = [since EXCEPT ![rev] = v] /\ charged' = [charged EXCEPT ![rev] = {}]
  BY DEF Enqueue
<1> HIDE DEF v, others, origin, owner
<1>5. ASSUME NEW j \in JobType, OwnerOK(j), j.status = "pending", j.version = v,
             jobs' = [others EXCEPT ![rev] = j],
             since' = [since EXCEPT ![rev] = v], charged' = [charged EXCEPT ![rev] = {}]
      PROVE  /\ jobs' \in [Revs -> JobType \cup {NoJob}] /\ \A q \in Revs : OwnerOK(jobs'[q])
             /\ since' \in [Revs -> 0..MaxVersion]
             /\ charged' \in [Revs -> SUBSET (1..MaxVersion)]
             /\ \A q \in Revs : Freshly(q) \/ Keeps(q)
  <2>1. /\ jobs'[rev] = j /\ since'[rev] = v /\ charged'[rev] = {}
        /\ \A q \in Revs \ {rev} : /\ jobs'[q] = others[q] /\ since'[q] = since[q]
                                   /\ charged'[q] = charged[q]
    BY <1>2, <1>3, <1>5
  <2>2. Freshly(rev)
    BY <2>1, <1>1, <1>5, JobsAssumption DEF Freshly
  <2>3. \A q \in Revs \ {rev} : Keeps(q)
    BY <2>1, <1>2
  <2>4. \A q \in Revs : OwnerOK(jobs'[q])
    BY <2>1, <1>2, <1>5
  <2>5. /\ jobs' \in [Revs -> JobType \cup {NoJob}]
        /\ since' \in [Revs -> 0..MaxVersion]
        /\ charged' \in [Revs -> SUBSET (1..MaxVersion)]
    BY <1>1, <1>2, <1>3, <1>5
  <2> QED BY <2>2, <2>3, <2>4, <2>5
<1>6. CASE jobs' = others /\ UNCHANGED history
  BY <1>2, <1>3, <1>6 DEF history
<1>7. ASSUME Is(rev, Queued)
      PROVE  LET j == NewJob(v, TRUE, origin \/ jobs[rev].owner # None,
                             jobs[rev].owner, jobs[rev].until)
             IN  j \in JobType /\ OwnerOK(j) /\ j.status = "pending" /\ j.version = v
  <2>1. jobs[rev] \in JobType /\ OwnerOK(jobs[rev]) /\ jobs[rev] # NoJob
    BY <1>7 DEF StateOK, Is
  <2>2. jobs[rev].owner \in Request \cup {None} /\ jobs[rev].until \in Launches \cup {None}
    BY <2>1 DEF JobType
  <2>3. (origin \/ jobs[rev].owner # None) \in BOOLEAN
    OBVIOUS
  <2>4. jobs[rev].owner # None => jobs[rev].until # None
    BY <2>1 DEF OwnerOK
  <2> DEFINE o == origin \/ jobs[rev].owner # None
             j == NewJob(v, TRUE, o, jobs[rev].owner, jobs[rev].until)
  <2>5. /\ j \in JobType /\ j.status = "pending" /\ j.version = v
        /\ j.owner = jobs[rev].owner /\ j.origin = o /\ j.until = jobs[rev].until
    <3>1. PICK h \in BOOLEAN, b \in BOOLEAN : h = TRUE /\ b = o
      BY <2>3
    <3>2. j = NewJob(v, h, b, jobs[rev].owner, jobs[rev].until)
      BY <3>1
    <3> HIDE DEF j, o
    <3>3. PICK r \in Request \cup {None}, u \in Launches \cup {None} :
            r = jobs[rev].owner /\ u = jobs[rev].until
      BY <2>2
    <3>4. /\ NewJob(v, h, b, r, u) \in JobType /\ NewJob(v, h, b, r, u).status = "pending"
          /\ NewJob(v, h, b, r, u).version = v /\ NewJob(v, h, b, r, u).owner = r
          /\ NewJob(v, h, b, r, u).origin = b /\ NewJob(v, h, b, r, u).until = u
      BY <1>1, NewJobType
    <3>5. j = NewJob(v, h, b, r, u)
      BY <3>2, <3>3
    <3> QED BY <3>1, <3>3, <3>4, <3>5
  <2>6. OwnerOK(j)
    BY <2>4, <2>5 DEF OwnerOK
  <2> QED BY <2>5, <2>6
<1>8. LET j == NewJob(v, head, origin, owner, launch)
      IN  j \in JobType /\ OwnerOK(j) /\ j.status = "pending" /\ j.version = v
  <2>1. origin \in BOOLEAN /\ owner \in Request \cup {None} /\ (owner # None => origin)
        /\ (origin => launch # None)
    BY DEF origin, owner, Launches
  <2> QED BY <2>1, <1>1, NewJobType DEF OwnerOK
<1> QED BY <1>4, <1>5, <1>6, <1>7, <1>8

------------------------------------------------------------------------------
(* The steps of the inventory, the Pods and the clock.                     *)

\* A calm step that leaves the store alone keeps the invariant.
LEMMA CalmKeeps ==
  ASSUME JobsInv, StateOK', Calm, UNCHANGED store, \A w \in Workers : Stays(w)
  PROVE  JobsInv'
<1>1. ClaimsInv'
  BY CalmStep DEF JobsInv
<1>2. StageInv'
  BY StageStays DEF JobsInv
<1> QED BY <1>1, <1>2 DEF JobsInv

\* A job that only gets another status.
LEMMA StatusChanges ==
  ASSUME StateOK, VersionInv, Grows, obj' \in Object, NEW q \in Revs, jobs[q] # NoJob,
         NEW s \in {"pending", "lapsed", "failed", "done"},
         s = "lapsed" => jobs[q].status \in Busy
  PROVE  LET f == [jobs[q] EXCEPT !.status = s]
         IN  /\ f \in JobType /\ OwnerOK(f)
             /\ jobs'[q] = f /\ since'[q] = since[q] /\ charged'[q] = charged[q] => Keeps(q)
<1> DEFINE f == [jobs[q] EXCEPT !.status = s]
<1>1. jobs[q] \in JobType /\ OwnerOK(jobs[q])
  BY DEF StateOK
<1>2. f \in JobType
  BY <1>1 DEF JobType, Queued, Busy
<1>3. /\ f.status = s /\ f.attempts = jobs[q].attempts /\ f.version = jobs[q].version
      /\ f.owner = jobs[q].owner /\ f.origin = jobs[q].origin /\ f.until = jobs[q].until
  BY <1>1 DEF JobType
<1> HIDE DEF f
<1>4. OwnerOK(f)
  BY <1>1, <1>3 DEF OwnerOK
<1>5. jobs[q].version <= obj'.version
  <2>1. jobs[q].version \in Nat /\ obj.version \in Nat /\ obj'.version \in Nat
    BY <1>1, JobsAssumption DEF JobType, Object, StateOK
  <2> QED BY <2>1 DEF VersionInv, Grows
<1>6. ASSUME jobs'[q] = f, since'[q] = since[q], charged'[q] = charged[q]
      PROVE  Keeps(q)
  BY <1>1, <1>2, <1>3, <1>5, <1>6 DEF Keeps, Moves, Busy
<1> QED BY <1>2, <1>4, <1>6 DEF f

LEMMA EventsFall ==
  ASSUME StateOK, Happens
  PROVE  events' \in Nat
  BY DEF StateOK, Happens

LEMMA RefreshKeeps ==
  ASSUME JobsInv, NEW rev \in Revs, NEW head \in BOOLEAN, NEW mark \in BOOLEAN,
         Refresh(rev, head, mark)
  PROVE  JobsInv'
<1>1. StateOK /\ VersionInv
  BY DEF JobsInv, ClaimsInv
<1>2. Enqueue(rev, head, mark, None) /\ UNCHANGED <<gaps, due, store, workers, requests>>
      /\ events' \in Nat
  BY <1>1, EventsFall DEF Refresh
<1>3. obj' \in Object /\ Grows
  BY <1>1, <1>2, EnqueueObject
<1>4. /\ jobs' \in [Revs -> JobType \cup {NoJob}] /\ \A q \in Revs : OwnerOK(jobs'[q])
      /\ since' \in [Revs -> 0..MaxVersion]
      /\ charged' \in [Revs -> SUBSET (1..MaxVersion)]
      /\ \A q \in Revs : Freshly(q) \/ Keeps(q)
  BY <1>1, <1>2, EnqueueJobs
<1>5. StateOK'
  BY <1>1, <1>2, <1>3, <1>4 DEF StateOK, requests
<1>6. \A w \in Workers : Carries(w) /\ Stays(w)
  BY <1>1, <1>2, <1>3, <1>5, WorkersSame
<1> QED BY <1>2, <1>3, <1>4, <1>5, <1>6, CalmKeeps DEF Calm, Quiet, Keeps

LEMMA QuarantineKeeps ==
  ASSUME JobsInv, Quarantine
  PROVE  JobsInv'
<1>1. StateOK /\ VersionInv /\ obj \in Object /\ obj.version \in Nat /\ MaxVersion \in Nat
  BY JobsAssumption DEF JobsInv, ClaimsInv, StateOK, Object
<1>2. /\ obj' = [obj EXCEPT !.version = @ + 1, !.conflict = TRUE, !.pending = TRUE, !.desired = None]
      /\ obj.version < MaxVersion
      /\ UNCHANGED <<gaps, due, store, workers, requests, history>>
      /\ events' \in Nat
  BY <1>1, EventsFall DEF Quarantine
<1>3. obj' \in Object /\ obj'.version = obj.version + 1
  <2>1. obj.version + 1 \in 0..MaxVersion
    BY <1>1, <1>2
  <2>2. obj' \in Object
    BY <1>1, <1>2, <2>1 DEF Object
  <2>3. obj'.version = obj.version + 1
    BY <1>1, <1>2 DEF Object
  <2> QED BY <2>2, <2>3
<1>4. Grows
  BY <1>1, <1>3 DEF Grows
<1>5. since' = since /\ charged' = charged
  BY <1>2 DEF history
<1>6. ASSUME NEW q \in Revs
      PROVE  jobs'[q] \in JobType \cup {NoJob} /\ OwnerOK(jobs'[q]) /\ Keeps(q)
  <2>1. jobs'[q] = IF Is(q, Queued) /\ jobs[q].head
                   THEN [jobs[q] EXCEPT !.status = "failed"] ELSE jobs[q]
    BY DEF Quarantine
  <2>2. CASE Is(q, Queued) /\ jobs[q].head
    <3>1. jobs[q] # NoJob /\ jobs'[q] = [jobs[q] EXCEPT !.status = "failed"]
      BY <2>1, <2>2 DEF Is
    <3> QED BY <3>1, <1>1, <1>3, <1>4, <1>5, StatusChanges
  <2>3. CASE ~(Is(q, Queued) /\ jobs[q].head)
    BY <2>1, <2>3, <1>1, <1>5 DEF Keeps, Moves, StateOK
  <2> QED BY <2>2, <2>3
<1>7. jobs' \in [Revs -> JobType \cup {NoJob}]
  BY <1>6 DEF Quarantine
<1>8. StateOK'
  BY <1>1, <1>2, <1>3, <1>5, <1>6, <1>7 DEF StateOK, requests
<1>9. \A w \in Workers : Carries(w) /\ Stays(w)
  BY <1>1, <1>2, <1>4, <1>8, WorkersSame
<1> QED BY <1>2, <1>4, <1>6, <1>8, <1>9, CalmKeeps DEF Calm, Quiet, Keeps

LEMMA ReleaseHoldKeeps ==
  ASSUME JobsInv, ReleaseHold
  PROVE  JobsInv'
<1>1. StateOK /\ VersionInv /\ obj \in Object /\ obj.version \in Nat /\ MaxVersion \in Nat
  BY JobsAssumption DEF JobsInv, ClaimsInv, StateOK, Object
<1>2. /\ obj' = [obj EXCEPT !.version = @ + 1, !.conflict = FALSE, !.pending = TRUE, !.desired = None]
      /\ obj.version < MaxVersion
      /\ UNCHANGED <<jobs, gaps, due, store, workers, requests, history>>
      /\ events' \in Nat
  BY <1>1, EventsFall DEF ReleaseHold
<1>3. obj' \in Object /\ obj'.version = obj.version + 1
  <2>1. obj.version + 1 \in 0..MaxVersion
    BY <1>1, <1>2
  <2>2. obj' \in Object
    BY <1>1, <1>2, <2>1 DEF Object
  <2>3. obj'.version = obj.version + 1
    BY <1>1, <1>2 DEF Object
  <2> QED BY <2>2, <2>3
<1>4. Grows
  BY <1>1, <1>3 DEF Grows
<1>5. StateOK'
  BY <1>1, <1>2, <1>3 DEF StateOK, requests, history
<1>6. \A q \in Revs : Freshly(q) \/ Keeps(q)
  BY <1>2, JobsSame DEF history
<1>7. \A w \in Workers : Carries(w) /\ Stays(w)
  BY <1>1, <1>2, <1>4, <1>5, WorkersSame
<1> QED BY <1>2, <1>4, <1>5, <1>6, <1>7, CalmKeeps DEF Calm, Quiet, Keeps

\* A Pod moves between the steps before its claim, or ends.
LEMMA PodGoes ==
  ASSUME StateOK, NEW l \in Launches, workers[l].pc \in Preparing,
         NEW pc \in Preparing, workers' = [workers EXCEPT ![l].pc = pc]
  PROVE  LET e == [workers[l] EXCEPT !.pc = pc]
         IN  /\ workers' = [workers EXCEPT ![l] = e] /\ e \in Execution /\ WorkerOK(e)
             /\ e.pc \notin Claiming /\ e.blob = workers[l].blob
             /\ e.version = workers[l].version
<1> DEFINE e == [workers[l] EXCEPT !.pc = pc]
<1>1. l \in Workers /\ workers[l] \in Execution /\ WorkerOK(workers[l])
  BY DEF Workers, StateOK
<1>2. workers' = [workers EXCEPT ![l] = e]
  BY DEF StateOK
<1>3. e \in Execution
  BY <1>1 DEF Execution
<1>4. /\ e.pc = pc /\ e.blob = workers[l].blob /\ e.version = workers[l].version
      /\ e.rev = workers[l].rev
  BY <1>1 DEF Execution
<1> HIDE DEF e
<1>5. e.pc \notin Claiming
  BY <1>4 DEF Claiming, Preparing
<1>6. WorkerOK(e)
  BY <1>1, <1>4, <1>5 DEF WorkerOK, Claiming
<1> QED BY <1>2, <1>3, <1>4, <1>5, <1>6 DEF e

\* What a Pod's step leaves in the workers.
PodDone(l) ==
    \/ workers' = [workers EXCEPT ![l] = Ended(l)]
    \/ /\ workers[l].pc \in Preparing
       /\ \E pc \in Preparing : workers' = [workers EXCEPT ![l].pc = pc]

LEMMA PodDoneType ==
  ASSUME StateOK, NEW l \in Launches, PodDone(l)
  PROVE  workers' \in [Workers -> Execution] /\ \A u \in Workers : WorkerOK(workers'[u])
<1>1. l \in Workers
  BY DEF Workers
<1>2. CASE workers' = [workers EXCEPT ![l] = Ended(l)]
  BY <1>1, <1>2, WorkerEndsType
<1>3. ASSUME workers[l].pc \in Preparing, NEW pc \in Preparing,
             workers' = [workers EXCEPT ![l].pc = pc]
      PROVE  workers' \in [Workers -> Execution] /\ \A u \in Workers : WorkerOK(workers'[u])
  <2>1. PICK e : e = [workers[l] EXCEPT !.pc = pc]
    OBVIOUS
  <2>2. workers' = [workers EXCEPT ![l] = e] /\ e \in Execution /\ WorkerOK(e)
    BY <1>3, <2>1, PodGoes
  <2> QED BY <1>1, <2>2, WorkerType
<1> QED BY <1>2, <1>3 DEF PodDone

LEMMA PodDoneCarries ==
  ASSUME StateOK, StateOK', VersionInv, Grows, NEW l \in Launches, PodDone(l)
  PROVE  \A u \in Workers : Carries(u) /\ Stays(u)
<1>1. l \in Workers
  BY DEF Workers
<1>2. CASE workers' = [workers EXCEPT ![l] = Ended(l)]
  BY <1>1, <1>2, WorkerEnds
<1>3. ASSUME workers[l].pc \in Preparing, NEW pc \in Preparing,
             workers' = [workers EXCEPT ![l].pc = pc]
      PROVE  \A u \in Workers : Carries(u) /\ Stays(u)
  <2>1. PICK e : e = [workers[l] EXCEPT !.pc = pc]
    OBVIOUS
  <2>2. /\ workers' = [workers EXCEPT ![l] = e] /\ e \in Execution
        /\ e.pc \notin Claiming /\ e.blob \in {0, workers[l].blob}
        /\ e.version = workers[l].version
    BY <1>3, <2>1, PodGoes
  <2>3. e.version <= obj'.version
    <3>1. workers[l].version <= obj.version /\ obj.version <= obj'.version
      BY <1>1 DEF VersionInv, Grows
    <3>2. workers[l].version \in Nat /\ obj.version \in Nat /\ obj'.version \in Nat
      BY <1>1, JobsAssumption DEF StateOK, Object, Execution
    <3> QED BY <2>2, <3>1, <3>2
  <2> QED BY <1>1, <2>2, <2>3, WorkerMoves
<1> QED BY <1>2, <1>3 DEF PodDone

\* A Pod's step on the jobs of the object.
LEMMA PodKeeps ==
  ASSUME JobsInv, NEW l \in Launches, PodDone(l),
         UNCHANGED <<gaps, due, store, requests, events>>,
         obj' \in Object, Grows,
         jobs' \in [Revs -> JobType \cup {NoJob}], \A q \in Revs : OwnerOK(jobs'[q]),
         since' \in [Revs -> 0..MaxVersion],
         charged' \in [Revs -> SUBSET (1..MaxVersion)],
         \A q \in Revs : Freshly(q) \/ Keeps(q)
  PROVE  JobsInv'
<1>1. StateOK /\ VersionInv
  BY DEF JobsInv, ClaimsInv
<1>2. workers' \in [Workers -> Execution] /\ \A u \in Workers : WorkerOK(workers'[u])
  BY <1>1, PodDoneType
<1>3. StateOK'
  BY <1>1, <1>2 DEF StateOK, requests
<1>4. \A w \in Workers : Carries(w) /\ Stays(w)
  BY <1>1, <1>3, PodDoneCarries
<1> QED BY <1>3, <1>4, CalmKeeps DEF Calm, Quiet, Keeps

\* The same where only the worker moves.
LEMMA PodOnly ==
  ASSUME JobsInv, NEW l \in Launches, PodDone(l),
         UNCHANGED <<obj, jobs, gaps, due, store, requests, history, events>>
  PROVE  JobsInv'
<1>1. StateOK
  BY DEF JobsInv
<1>2. since' = since /\ charged' = charged
  BY DEF history
<1>3. \A q \in Revs : Freshly(q) \/ Keeps(q)
  BY <1>2, JobsSame
<1>4. Grows
  BY <1>1, GrowsSame
<1>5. /\ obj' \in Object /\ jobs' \in [Revs -> JobType \cup {NoJob}]
      /\ \A q \in Revs : OwnerOK(jobs'[q])
      /\ since' \in [Revs -> 0..MaxVersion]
      /\ charged' \in [Revs -> SUBSET (1..MaxVersion)]
  BY <1>1, <1>2 DEF StateOK
<1> QED BY <1>3, <1>4, <1>5, PodKeeps

LEMMA PodObserveKeeps ==
  ASSUME JobsInv, NEW l \in Launches, NEW rev \in Revs, PodObserve(l, rev)
  PROVE  JobsInv'
<1>1. StateOK /\ VersionInv /\ l \in Workers
  BY DEF JobsInv, ClaimsInv, Workers
<1>2. PICK pc \in {"wait", "enqueue"} :
        workers' = [workers EXCEPT ![l] = [Idle EXCEPT !.rev = rev, !.version = obj.version,
                                                       !.pc = pc]]
  BY DEF PodObserve
<1>3. PICK e : e = [Idle EXCEPT !.rev = rev, !.version = obj.version, !.pc = pc]
  OBVIOUS
<1>4. obj.version \in 0..MaxVersion /\ 0 \in 0..MaxAttempts /\ 0 \in 0..MaxBlobs
  BY <1>1, JobsAssumption DEF StateOK, Object
<1>5. e \in Execution
  BY <1>3, <1>4 DEF Execution, Idle, Preparing
<1>6. e.pc = pc /\ e.rev = rev /\ e.version = obj.version /\ e.blob = 0
  BY <1>3 DEF Idle
<1>7. WorkerOK(e) /\ e.pc \notin Claiming
  BY <1>6 DEF WorkerOK, Claiming, Preparing
<1>8. UNCHANGED <<obj, jobs, gaps, due, store, requests, history, events>>
  BY DEF PodObserve
<1>9. workers' \in [Workers -> Execution] /\ \A u \in Workers : WorkerOK(workers'[u])
  BY <1>1, <1>2, <1>3, <1>5, <1>7, WorkerType
<1>10. StateOK'
  BY <1>1, <1>8, <1>9 DEF StateOK, requests, history
<1>11. Grows /\ e.version <= obj'.version
  BY <1>1, <1>4, <1>6, <1>8, GrowsSame
<1>12. \A w \in Workers : Carries(w) /\ Stays(w)
  BY <1>1, <1>2, <1>3, <1>5, <1>6, <1>7, <1>10, <1>11, WorkerMoves
<1>13. \A q \in Revs : Freshly(q) \/ Keeps(q)
  BY <1>8, JobsSame DEF history
<1> QED BY <1>8, <1>10, <1>11, <1>12, <1>13, CalmKeeps DEF Calm, Quiet, Keeps

LEMMA PodEnqueueKeeps ==
  ASSUME JobsInv, NEW l \in Launches, PodEnqueue(l)
  PROVE  JobsInv'
<1> DEFINE rev == workers[l].rev
<1>1. StateOK /\ VersionInv /\ l \in Workers /\ workers[l].pc = "enqueue"
      /\ UNCHANGED <<gaps, due, store, requests, events>>
  BY DEF JobsInv, ClaimsInv, Workers, PodEnqueue
<1>2. rev \in Revs
  BY <1>1 DEF StateOK, WorkerOK, Preparing
<1>3. PodDone(l)
  BY <1>1 DEF PodEnqueue, PodEnds, PodDone, Preparing
<1>4. CASE Enqueue(rev, TRUE, FALSE, l)
  <2>1. obj' \in Object /\ Grows
    BY <1>1, <1>2, <1>4, EnqueueObject
  <2>2. /\ jobs' \in [Revs -> JobType \cup {NoJob}] /\ \A q \in Revs : OwnerOK(jobs'[q])
        /\ since' \in [Revs -> 0..MaxVersion]
        /\ charged' \in [Revs -> SUBSET (1..MaxVersion)]
        /\ \A q \in Revs : Freshly(q) \/ Keeps(q)
    BY <1>1, <1>2, <1>4, EnqueueJobs
  <2> QED BY <1>1, <1>3, <2>1, <2>2, PodKeeps
<1>5. CASE UNCHANGED <<obj, jobs, history>>
  BY <1>1, <1>3, <1>5, PodOnly
<1> QED BY <1>4, <1>5 DEF PodEnqueue

LEMMA PodAdoptWaitKeeps ==
  ASSUME JobsInv, NEW l \in Launches, PodAdoptWait(l)
  PROVE  JobsInv'
<1> DEFINE rev == workers[l].rev
<1>1. StateOK /\ VersionInv /\ l \in Workers /\ workers[l].pc = "wait"
      /\ UNCHANGED <<gaps, due, store, requests, history, events>>
  BY DEF JobsInv, ClaimsInv, Workers, PodAdoptWait
<1>2. rev \in Revs
  BY <1>1 DEF StateOK, WorkerOK, Preparing
<1>3. PodDone(l)
  BY <1>1 DEF PodAdoptWait, PodEnds, PodDone, Preparing
<1>4. ASSUME BudgetWait(rev), obj.version < MaxVersion,
             obj' = [obj EXCEPT !.version = Bumped(@)],
             jobs' = [jobs EXCEPT ![rev] = [@ EXCEPT !.status = "pending",
                    !.version = Bumped(obj.version), !.category = "none", !.origin = TRUE,
                    !.owner = l[1], !.until = l]]
      PROVE  JobsInv'
  <2>1. obj \in Object /\ obj.version \in Nat /\ MaxVersion \in Nat
    BY <1>1, JobsAssumption DEF StateOK, Object
  <2>2. obj.version + 1 \in 0..MaxVersion
    BY <1>4, <2>1
  <2>3. obj' \in Object
    BY <1>4, <2>1, <2>2 DEF Object, Bumped
  <2>4. obj'.version = obj.version + 1
    BY <1>4, <2>1 DEF Object, Bumped
  <2>5. Grows
    BY <2>1, <2>4 DEF Grows
  <2>6. jobs[rev] \in JobType /\ jobs[rev] # NoJob
    BY <1>1, <1>2, <1>4 DEF BudgetWait, Is, StateOK
  <2>7. PICK j : j = [jobs[rev] EXCEPT !.status = "pending",
                    !.version = obj.version + 1, !.category = "none", !.origin = TRUE,
                    !.owner = l[1], !.until = l]
    OBVIOUS
  <2>8. l[1] \in Request /\ l # None
    BY JobsAssumption DEF Launches
  <2>9. j \in JobType
    BY <2>2, <2>6, <2>7, <2>8 DEF JobType, Queued
  <2>10. j.status = "pending" /\ j.version = obj.version + 1 /\ j.attempts = jobs[rev].attempts
         /\ j.origin = TRUE /\ j.until = l
    BY <2>6, <2>7 DEF JobType
  <2>11. OwnerOK(j)
    BY <2>8, <2>10 DEF OwnerOK
  <2>12. jobs' = [jobs EXCEPT ![rev] = j]
    BY <1>1, <1>2, <1>4, <2>7 DEF StateOK, Bumped
  <2>13. j.version <= obj'.version
    BY <2>1, <2>4, <2>10
  <2>14. /\ jobs' \in [Revs -> JobType \cup {NoJob}] /\ \A q \in Revs : OwnerOK(jobs'[q])
         /\ \A q \in Revs : Freshly(q) \/ Keeps(q)
    <3> HIDE DEF rev
    <3> QED BY <1>1, <1>2, <2>6, <2>9, <2>10, <2>11, <2>12, <2>13, JobChanges DEF Busy
  <2>15. since' \in [Revs -> 0..MaxVersion] /\ charged' \in [Revs -> SUBSET (1..MaxVersion)]
    BY <1>1 DEF StateOK, history
  <2> QED BY <1>1, <1>3, <2>3, <2>5, <2>14, <2>15, PodKeeps
<1>5. CASE UNCHANGED <<obj, jobs>>
  BY <1>1, <1>3, <1>5, PodOnly
<1> QED BY <1>4, <1>5 DEF PodAdoptWait

\* A job gets another owner, or none.
LEMMA OwnerChanges ==
  ASSUME JobsInv, NEW l \in Launches, PodDone(l), NEW rev \in Revs,
         UNCHANGED <<obj, gaps, due, store, requests, history, events>>, jobs[rev] # NoJob,
         NEW own \in Request \cup {None}, NEW o \in BOOLEAN, NEW u \in Launches \cup {None},
         NEW a \in BOOLEAN, own # None => o /\ u # None,
         jobs' = [jobs EXCEPT ![rev] = [jobs[rev] EXCEPT !.owner = own, !.origin = o,
                                                         !.until = u, !.aged = a]]
  PROVE  JobsInv'
<1>1. StateOK /\ VersionInv
  BY DEF JobsInv, ClaimsInv
<1>2. jobs[rev] \in JobType
  BY <1>1 DEF StateOK
<1>3. PICK j : j = [jobs[rev] EXCEPT !.owner = own, !.origin = o, !.until = u, !.aged = a]
  OBVIOUS
<1>4. j \in JobType
  BY <1>2, <1>3 DEF JobType
<1>5. /\ j.status = jobs[rev].status /\ j.version = jobs[rev].version
      /\ j.attempts = jobs[rev].attempts /\ j.category = jobs[rev].category
  BY <1>2, <1>3 DEF JobType
<1>6. j.owner = own /\ j.origin = o /\ j.until = u
  BY <1>2, <1>3 DEF JobType
<1>7. OwnerOK(j)
  BY <1>6 DEF OwnerOK
<1>8. j.version <= obj'.version /\ Grows
  BY <1>1, <1>5, GrowsSame DEF VersionInv
<1>9. /\ jobs' \in [Revs -> JobType \cup {NoJob}] /\ \A q \in Revs : OwnerOK(jobs'[q])
      /\ \A q \in Revs : Freshly(q) \/ Keeps(q)
  BY <1>1, <1>3, <1>4, <1>5, <1>7, <1>8, JobChanges
<1>10. /\ obj' \in Object
       /\ since' \in [Revs -> 0..MaxVersion] /\ charged' \in [Revs -> SUBSET (1..MaxVersion)]
  BY <1>1 DEF StateOK, history
<1> QED BY <1>8, <1>9, <1>10, PodKeeps

LEMMA PodAdoptKeeps ==
  ASSUME JobsInv, NEW l \in Launches, PodAdopt(l)
  PROVE  JobsInv'
<1> DEFINE rev == workers[l].rev
<1>1. StateOK /\ l \in Workers /\ workers[l].pc = "adopt"
      /\ UNCHANGED <<obj, gaps, due, store, requests, history, events>>
  BY DEF JobsInv, Workers, PodAdopt
<1>2. rev \in Revs
  BY <1>1 DEF StateOK, WorkerOK, Preparing
<1>3. PodDone(l)
  BY <1>1 DEF PodAdopt, PodEnds, PodDone, Preparing
<1>4. CASE Is(rev, Queued) /\ Adoptable(rev, l[1])
  <2>1. jobs[rev] \in JobType /\ jobs[rev] # NoJob /\ OwnerOK(jobs[rev])
    BY <1>1, <1>2, <1>4 DEF Is, StateOK
  <2>2. PICK u : u = IF jobs[rev].owner = l[1] THEN jobs[rev].until ELSE l
    OBVIOUS
  <2>3. PICK a \in BOOLEAN : a = jobs[rev].aged
    BY <2>1 DEF JobType
  <2>4. l[1] \in Request /\ l # None /\ l[1] # None
    BY JobsAssumption DEF Launches
  <2>5. u \in Launches \cup {None} /\ u # None
    BY <2>1, <2>2, <2>4 DEF JobType, OwnerOK
  <2>6. jobs' = [jobs EXCEPT ![rev] = [jobs[rev] EXCEPT !.owner = l[1], !.origin = TRUE,
                                                        !.until = u]]
    <3>1. jobs \in [Revs -> JobType \cup {NoJob}]
      BY <1>1 DEF StateOK
    <3> QED BY <1>2, <1>4, <2>2, <3>1 DEF PodAdopt
  <2>7. [jobs[rev] EXCEPT !.owner = l[1], !.origin = TRUE, !.until = u]
          = [jobs[rev] EXCEPT !.owner = l[1], !.origin = TRUE, !.until = u, !.aged = a]
    BY <2>1, <2>3 DEF JobType
  <2>8. PICK o \in BOOLEAN : o = TRUE
    OBVIOUS
  <2>9. jobs' = [jobs EXCEPT ![rev] = [jobs[rev] EXCEPT !.owner = l[1], !.origin = o,
                                                        !.until = u, !.aged = a]]
    BY <2>6, <2>7, <2>8
  <2> HIDE DEF rev
  <2> QED BY <1>1, <1>2, <1>3, <2>1, <2>3, <2>4, <2>5, <2>8, <2>9, OwnerChanges
<1>5. CASE ~(Is(rev, Queued) /\ Adoptable(rev, l[1]))
  BY <1>1, <1>3, <1>5, PodOnly DEF PodAdopt
<1> QED BY <1>4, <1>5

LEMMA ReleaseUnclaimedKeeps ==
  ASSUME JobsInv, NEW l \in Launches, ReleaseUnclaimed(l)
  PROVE  JobsInv'
<1> DEFINE rev == workers[l].rev
<1>1. StateOK /\ l \in Workers /\ workers[l].pc = "claim"
      /\ UNCHANGED <<obj, gaps, due, store, requests, history, events>>
  BY DEF JobsInv, Workers, ReleaseUnclaimed
<1>2. rev \in Revs
  BY <1>1 DEF StateOK, WorkerOK, Preparing
<1>3. PodDone(l)
  BY <1>1 DEF ReleaseUnclaimed, PodEnds, PodDone, Preparing
<1>4. CASE Is(rev, {"pending"}) /\ jobs[rev].owner = l[1]
  <2>1. jobs[rev] # NoJob
    BY <1>4 DEF Is
  <2>2. PICK o \in BOOLEAN, a \in BOOLEAN : o = FALSE /\ a = FALSE
    OBVIOUS
  <2>3. jobs' = [jobs EXCEPT ![rev] = [jobs[rev] EXCEPT !.owner = None, !.origin = o,
                                                        !.until = None, !.aged = a]]
    <3>1. jobs[rev] \in JobType
      BY <1>1, <1>2, <2>1 DEF StateOK
    <3>2. jobs' = [jobs EXCEPT ![rev] = [jobs[rev] EXCEPT !.origin = FALSE, !.owner = None,
                                                          !.until = None, !.aged = FALSE]]
      BY <1>1, <1>2, <1>4 DEF ReleaseUnclaimed, StateOK
    <3>3. [jobs[rev] EXCEPT !.origin = FALSE, !.owner = None, !.until = None, !.aged = FALSE]
            = [jobs[rev] EXCEPT !.owner = None, !.origin = o, !.until = None, !.aged = a]
      BY <2>2, <3>1 DEF JobType
    <3> QED BY <3>2, <3>3
  <2>4. PICK none \in Request \cup {None} : none = None
    OBVIOUS
  <2> HIDE DEF rev
  <2> QED BY <1>1, <1>2, <1>3, <2>1, <2>2, <2>3, <2>4, OwnerChanges
<1>5. CASE ~(Is(rev, {"pending"}) /\ jobs[rev].owner = l[1])
  BY <1>1, <1>3, <1>5, PodOnly DEF ReleaseUnclaimed
<1> QED BY <1>4, <1>5

------------------------------------------------------------------------------
(* Settlements.                                                            *)

\* What a settlement leaves in the job it settles.
Settled(rev, j) ==
    /\ j \in JobType /\ OwnerOK(j) /\ j.version = jobs[rev].version
    /\ j.status \in Busy => jobs[rev].status \in Busy
    /\ j.status = "running" => j.category # "none"

\* The types after one.
LEMMA SettledType ==
  ASSUME StateOK, NEW w \in Workers, workers[w].pc \in Claiming, NEW j,
         jobs[workers[w].rev] # NoJob, Settled(workers[w].rev, j),
         jobs' = [jobs EXCEPT ![workers[w].rev] = j] \/ jobs' = jobs,
         workers' = [workers EXCEPT ![w] = Ended(w)],
         events' \in Nat, gaps' \subseteq Revs, due' \subseteq gaps',
         UNCHANGED <<obj, store, requests, history>>
  PROVE  /\ StateOK' /\ Grows
         /\ \A u \in Workers : WorkerOK(workers'[u])
<1>1. workers[w].rev \in Revs
  BY DEF StateOK, WorkerOK
<1>2. jobs' \in [Revs -> JobType \cup {NoJob}]
  BY <1>1 DEF StateOK, Settled
<1>3. \A q \in Revs : OwnerOK(jobs'[q])
  <2> TAKE q \in Revs
  <2>1. jobs'[q] = jobs[q] \/ jobs'[q] = j
    BY <1>1 DEF StateOK
  <2> QED BY <2>1 DEF StateOK, Settled
<1>4. workers' \in [Workers -> Execution] /\ \A u \in Workers : WorkerOK(workers'[u])
  BY WorkerEndsType
<1>5. StateOK'
  BY <1>2, <1>3, <1>4 DEF StateOK, requests, history
<1> QED BY <1>4, <1>5, GrowsSame

\* It is a quiet step.
LEMMA SettledQuiet ==
  ASSUME StateOK, StateOK', Grows, VersionInv, NEW w \in Workers, workers[w].pc \in Claiming,
         NEW j, jobs[workers[w].rev] # NoJob, Settled(workers[w].rev, j),
         jobs' = [jobs EXCEPT ![workers[w].rev] = j] \/ jobs' = jobs,
         workers' = [workers EXCEPT ![w] = Ended(w)],
         UNCHANGED <<obj, history>>
  PROVE  /\ Quiet /\ \A u \in Workers : Stays(u)
         /\ \A q \in Revs : Moves(q) /\ (jobs'[q] = jobs[q] \/ (q = workers[w].rev /\ jobs'[q] = j))
<1>1. \A u \in Workers : Carries(u) /\ Stays(u)
  BY WorkerEnds
<1>2. workers[w].rev \in Revs /\ since' = since /\ charged' = charged
  BY DEF StateOK, WorkerOK, history
<1>3. ASSUME NEW q \in Revs
      PROVE  Moves(q) /\ (jobs'[q] = jobs[q] \/ (q = workers[w].rev /\ jobs'[q] = j))
  <2>1. CASE jobs'[q] = jobs[q]
    BY <1>2, <2>1 DEF Moves
  <2>2. CASE jobs'[q] # jobs[q]
    <3>1. q = workers[w].rev /\ jobs'[q] = j
      BY <1>2, <2>2 DEF StateOK
    <3>2. jobs[q] \in JobType /\ jobs[q].version <= obj'.version
      BY <3>1 DEF StateOK, VersionInv
    <3> QED BY <1>2, <3>1, <3>2 DEF Moves, Settled
  <2> QED BY <2>1, <2>2
<1> QED BY <1>1, <1>3 DEF Quiet

\* A settlement that keeps the attempts, or finds its claim gone.
LEMMA SettleKeeps ==
  ASSUME JobsInv, NEW w \in Workers, workers[w].pc \in Claiming, NEW j,
         \/ jobs' = jobs
         \/ /\ jobs[workers[w].rev] # NoJob /\ Settled(workers[w].rev, j)
            /\ j.attempts = jobs[workers[w].rev].attempts
            /\ jobs' = [jobs EXCEPT ![workers[w].rev] = j],
         workers' = [workers EXCEPT ![w] = Ended(w)],
         events' \in Nat, gaps' \subseteq Revs, due' \subseteq gaps',
         UNCHANGED <<obj, store, requests, history>>
  PROVE  JobsInv'
<1>1. StateOK /\ VersionInv
  BY DEF JobsInv, ClaimsInv
<1>2. CASE jobs' = jobs
  <2>1. workers' \in [Workers -> Execution] /\ \A u \in Workers : WorkerOK(workers'[u])
    BY <1>1, WorkerEndsType
  <2>2. StateOK'
    BY <1>1, <1>2, <2>1 DEF StateOK, requests, history
  <2>3. Grows
    BY <1>1, GrowsSame
  <2>4. \A u \in Workers : Carries(u) /\ Stays(u)
    BY <1>1, <2>2, <2>3, WorkerEnds
  <2>5. \A q \in Revs : Keeps(q)
    BY <1>2 DEF Keeps, Moves, history
  <2> QED BY <2>2, <2>3, <2>4, <2>5, CalmKeeps DEF Calm, Quiet, Keeps
<1>3. CASE /\ jobs[workers[w].rev] # NoJob /\ Settled(workers[w].rev, j)
           /\ j.attempts = jobs[workers[w].rev].attempts
           /\ jobs' = [jobs EXCEPT ![workers[w].rev] = j]
  <2>1. StateOK' /\ Grows
    BY <1>1, <1>3, SettledType
  <2>2. /\ Quiet /\ \A u \in Workers : Stays(u)
        /\ \A q \in Revs : Moves(q) /\ (jobs'[q] = jobs[q] \/ (q = workers[w].rev /\ jobs'[q] = j))
    BY <1>1, <1>3, <2>1, SettledQuiet
  <2>3. \A q \in Revs : Keeps(q)
    BY <1>3, <2>2 DEF Keeps
  <2> QED BY <2>1, <2>2, <2>3, CalmKeeps DEF Calm
<1> QED BY <1>2, <1>3

\* A refund: the claim is the job's own and has reserved nothing, so giving its attempt
\* back and forgetting the claim balance.
LEMMA RefundKeeps ==
  ASSUME JobsInv, NEW w \in Workers, workers[w].pc \in Claiming, ~workers[w].reserved,
         Owns(workers[w]), NEW j, Settled(workers[w].rev, j),
         j.attempts = jobs[workers[w].rev].attempts - 1,
         jobs' = [jobs EXCEPT ![workers[w].rev] = j],
         workers' = [workers EXCEPT ![w] = Ended(w)],
         events' \in Nat, gaps' \subseteq Revs, due' \subseteq gaps',
         UNCHANGED <<obj, store, requests, history>>
  PROVE  JobsInv'
<1>1. StateOK /\ VersionInv /\ ClaimInv /\ ChargeInv /\ CurrentInv /\ OneExecution /\ StageInv
  BY DEF JobsInv, ClaimsInv
<1>0. PICK rev, v : rev = workers[w].rev /\ v = workers[w].version
  OBVIOUS
<1>2. jobs[rev] # NoJob /\ jobs[rev].version = v /\ Is(rev, Busy) /\ rev \in Revs
  BY <1>0, <1>1 DEF Owns, Is, StateOK, WorkerOK
<1>3. StateOK' /\ Grows
  BY <1>0, <1>1, <1>2, SettledType
<1>4. /\ Quiet /\ \A u \in Workers : Stays(u)
      /\ \A q \in Revs : Moves(q) /\ (jobs'[q] = jobs[q] \/ (q = workers[w].rev /\ jobs'[q] = j))
  BY <1>0, <1>1, <1>2, <1>3, SettledQuiet
<1>5. VersionInv' /\ ClaimInv' /\ CurrentInv' /\ OneExecution'
  BY <1>1, <1>3, <1>4, QuietVersions, QuietClaims, QuietCurrent, QuietExecution
<1>6. StageInv'
  BY <1>1, <1>4, StageStays
<1>7. ASSUME NEW q \in Revs, NEW u \in Workers, Unspent(u, q)'
      PROVE  Unspent(u, q) /\ workers'[u].version = workers[u].version /\ u # w
  <2>1. Carries(u) /\ since'[q] = since[q]
    BY <1>4 DEF Quiet, Moves
  <2>2. u # w
    <3>1. workers'[w].pc \notin Claiming
      BY <1>1, EndedType DEF StateOK, Claiming
    <3> QED BY <3>1, <1>7 DEF Unspent
  <2> QED BY <1>7, <2>1, <2>2 DEF Unspent, Carries
<1>8. ASSUME NEW q \in Revs PROVE Owed(q)' \subseteq Owed(q)
  <2>1. charged'[q] = charged[q]
    BY <1>4 DEF Moves
  <2> QED BY <1>7, <2>1 DEF Owed
<1>9. v \in Owed(rev) /\ v \notin Owed(rev)'
  <2>1. v \in 1..MaxVersion
    <3>1. v \in Nat /\ since[rev] \in Nat /\ since[rev] < v /\ v <= MaxVersion
      BY <1>0, <1>1, <1>2, JobsAssumption DEF ClaimInv, StateOK, Execution
    <3> QED BY <3>1, JobsAssumption
  <2>2. Unspent(w, rev)
    BY <1>0, <1>1, <1>2 DEF Unspent, ClaimInv
  <2>3. v \in Owed(rev)
    BY <1>0, <2>1, <2>2 DEF Owed
  <2>4. v \notin charged'[rev]
    <3>1. v \notin charged[rev]
      BY <1>0, <1>1, <1>2 DEF ClaimInv
    <3> QED BY <3>1, <1>2, <1>4 DEF Moves
  <2>5. ASSUME NEW u \in Workers, Unspent(u, rev)' PROVE workers'[u].version # v
    <3>1. Unspent(u, rev) /\ workers'[u].version = workers[u].version /\ u # w
      BY <1>2, <1>7, <2>5
    <3> QED BY <3>1, <1>0, <1>1 DEF ClaimInv, Unspent
  <2>6. v \notin Owed(rev)'
    BY <2>4, <2>5 DEF Owed
  <2> QED BY <2>3, <2>6
<1>10. ASSUME NEW q \in Revs, jobs'[q] # NoJob
       PROVE  Cardinality(Owed(q)') <= jobs'[q].attempts
  <2>1. jobs[q] # NoJob /\ Cardinality(Owed(q)) <= jobs[q].attempts
    BY <1>0, <1>1, <1>2, <1>4, <1>10 DEF ChargeInv
  <2>2. jobs[q].attempts \in Nat /\ jobs'[q].attempts \in Int
    BY <1>1, <1>3, <1>10, <2>1, JobsAssumption DEF StateOK, JobType
  <2>3. CASE jobs'[q] = jobs[q]
    <3>1. /\ Cardinality(Owed(q)') <= Cardinality(Owed(q))
          /\ Cardinality(Owed(q)') \in Nat /\ Cardinality(Owed(q)) \in Nat
      BY <1>1, <1>8, OwedLess
    <3> QED BY <2>1, <2>2, <2>3, <3>1
  <2>4. CASE q = rev /\ jobs'[q] = j
    <3>1. Owed(rev)' \subseteq Owed(rev) \ {v}
      BY <1>2, <1>8, <1>9
    <3>2. IsFiniteSet(Owed(rev)) /\ Cardinality(Owed(rev)) \in Nat
      BY <1>1, <1>2, OwedFinite, FS_CardinalityType
    <3>3. IsFiniteSet(Owed(rev) \ {v}) /\ Cardinality(Owed(rev) \ {v}) = Cardinality(Owed(rev)) - 1
      BY <3>2, <1>9, FS_RemoveElement
    <3>4. /\ Cardinality(Owed(rev)') <= Cardinality(Owed(rev) \ {v})
          /\ Cardinality(Owed(rev)') \in Nat
      BY <3>1, <3>3, FS_Subset, FS_CardinalityType
    <3> QED BY <1>0, <2>1, <2>2, <2>4, <3>2, <3>3, <3>4
  <2> QED BY <1>0, <1>4, <2>3, <2>4
<1>11. ChargeInv'
  BY <1>10 DEF ChargeInv
<1> QED BY <1>3, <1>5, <1>6, <1>11 DEF JobsInv, ClaimsInv

\* A claimed job that ends its run with another status.
LEMMA StatusSettles ==
  ASSUME StateOK, NEW rev \in Revs, jobs[rev] # NoJob, NEW s \in {"pending", "failed"}
  PROVE  LET j == [jobs[rev] EXCEPT !.status = s]
         IN  Settled(rev, j) /\ j.attempts = jobs[rev].attempts
<1>1. jobs[rev] \in JobType /\ OwnerOK(jobs[rev])
  BY DEF StateOK
<1>2. PICK j : j = [jobs[rev] EXCEPT !.status = s]
  OBVIOUS
<1>3. j \in JobType
  BY <1>1, <1>2 DEF JobType, Queued, Busy
<1>4. /\ j.status = s /\ j.attempts = jobs[rev].attempts /\ j.version = jobs[rev].version
      /\ j.owner = jobs[rev].owner /\ j.origin = jobs[rev].origin /\ j.until = jobs[rev].until
  BY <1>1, <1>2 DEF JobType
<1>5. OwnerOK(j)
  BY <1>1, <1>4 DEF OwnerOK
<1>6. Settled(rev, j)
  BY <1>3, <1>4, <1>5 DEF Settled, Busy
<1> QED BY <1>2, <1>4, <1>6

\* What Owns says of the job.
LEMMA OwnedJob ==
  ASSUME StateOK, NEW w \in Workers, workers[w].pc \in Claiming
  PROVE  /\ workers[w].rev \in Revs
         /\ Owns(workers[w]) => /\ jobs[workers[w].rev] # NoJob
                                /\ jobs[workers[w].rev] \in JobType
                                /\ jobs[workers[w].rev].status \in Busy
                                /\ jobs[workers[w].rev].attempts > 0
  BY DEF StateOK, WorkerOK, Owns, Is

LEMMA FailClaimKeeps ==
  ASSUME JobsInv, NEW w \in Workers, NEW retry \in BOOLEAN, FailClaim(w, retry)
  PROVE  JobsInv'
<1>1. StateOK /\ workers[w].pc \in Claiming /\ UNCHANGED <<gaps, due, obj, store, requests, history>>
      /\ events' \in Nat /\ workers' = [workers EXCEPT ![w] = Ended(w)]
  BY EventsFall DEF JobsInv, FailClaim, Settle, Claiming
<1>2. PICK s \in {"pending", "failed"} :
        s = IF retry /\ workers[w].attempts < MaxAttempts THEN "pending" ELSE "failed"
  OBVIOUS
<1>3. PICK j : j = [jobs[workers[w].rev] EXCEPT !.status = s]
  OBVIOUS
<1>4. jobs' = IF Owns(workers[w]) THEN [jobs EXCEPT ![workers[w].rev] = j] ELSE jobs
  BY <1>2, <1>3 DEF FailClaim, Settle, Claimed
<1>5. Owns(workers[w]) => /\ jobs[workers[w].rev] # NoJob /\ Settled(workers[w].rev, j)
                          /\ j.attempts = jobs[workers[w].rev].attempts
  BY <1>1, <1>3, OwnedJob, StatusSettles
<1>6. gaps' \subseteq Revs /\ due' \subseteq gaps'
  BY <1>1 DEF StateOK
<1> QED BY <1>1, <1>4, <1>5, <1>6, SettleKeeps

LEMMA SkipClaimKeeps ==
  ASSUME JobsInv, NEW w \in Workers, SkipClaim(w)
  PROVE  JobsInv'
<1>1. StateOK /\ workers[w].pc \in Claiming /\ UNCHANGED <<obj, store, requests, history>>
      /\ events' \in Nat /\ workers' = [workers EXCEPT ![w] = Ended(w)]
  BY EventsFall DEF JobsInv, SkipClaim, Settle, Claiming
<1>2. PICK j : j = [jobs[workers[w].rev] EXCEPT !.status = "failed"]
  OBVIOUS
<1>3. jobs' = IF Owns(workers[w]) THEN [jobs EXCEPT ![workers[w].rev] = j] ELSE jobs
  BY <1>2 DEF SkipClaim, Settle, Claimed
<1>4. Owns(workers[w]) => /\ jobs[workers[w].rev] # NoJob /\ Settled(workers[w].rev, j)
                          /\ j.attempts = jobs[workers[w].rev].attempts
  BY <1>1, <1>2, OwnedJob, StatusSettles
<1>5. gaps' \subseteq Revs /\ due' \subseteq gaps'
  <2>1. workers[w].rev \in Revs
    BY <1>1, OwnedJob
  <2> QED BY <1>1, <2>1 DEF SkipClaim, StateOK
<1> QED BY <1>1, <1>3, <1>4, <1>5, SettleKeeps

LEMMA CrashKeeps ==
  ASSUME JobsInv, NEW w \in Workers, Crash(w)
  PROVE  JobsInv'
<1>1. StateOK /\ VersionInv /\ UNCHANGED <<obj, jobs, gaps, due, store, requests, history>>
      /\ events' \in Nat /\ workers' = [workers EXCEPT ![w] = Ended(w)]
  BY EventsFall DEF JobsInv, ClaimsInv, Crash
<1>2. workers' \in [Workers -> Execution] /\ \A u \in Workers : WorkerOK(workers'[u])
  BY <1>1, WorkerEndsType
<1>3. StateOK'
  BY <1>1, <1>2 DEF StateOK, requests, history
<1>4. Grows
  BY <1>1, GrowsSame
<1>5. \A u \in Workers : Carries(u) /\ Stays(u)
  BY <1>1, <1>3, <1>4, WorkerEnds
<1>6. \A q \in Revs : Keeps(q)
  BY <1>1 DEF Keeps, Moves, history
<1> QED BY <1>1, <1>3, <1>4, <1>5, <1>6, CalmKeeps DEF Calm, Quiet, Keeps

LEMMA ReleaseAdmissionWaitKeeps ==
  ASSUME JobsInv, NEW w \in Workers, ReleaseAdmissionWait(w)
  PROVE  JobsInv'
<1>1. StateOK /\ workers[w].pc \in Claiming /\ ~workers[w].reserved
      /\ UNCHANGED <<gaps, due, obj, store, requests, history>>
      /\ events' \in Nat /\ workers' = [workers EXCEPT ![w] = Ended(w)]
  BY EventsFall DEF JobsInv, ReleaseAdmissionWait, Settle, Claiming
<1>2. PICK rev : rev = workers[w].rev
  OBVIOUS
<1>3. PICK j : j = [jobs[rev] EXCEPT !.status = "pending", !.attempts = jobs[rev].attempts - 1]
  OBVIOUS
<1>4. gaps' \subseteq Revs /\ due' \subseteq gaps'
  BY <1>1 DEF StateOK
<1>5. CASE Owns(workers[w])
  <2>1. /\ rev \in Revs /\ jobs[rev] # NoJob /\ jobs[rev] \in JobType
        /\ jobs[rev].attempts > 0 /\ OwnerOK(jobs[rev])
    BY <1>1, <1>2, <1>5, OwnedJob DEF StateOK
  <2>2. jobs' = [jobs EXCEPT ![rev] = j]
    BY <1>2, <1>3, <1>5, <2>1 DEF ReleaseAdmissionWait, Settle, Claimed, JobType
  <2>3. jobs[rev].attempts - 1 \in 0..MaxAttempts
    BY <2>1, JobsAssumption DEF JobType
  <2>4. j \in JobType
    BY <1>3, <2>1, <2>3 DEF JobType, Queued
  <2>5. /\ j.status = "pending" /\ j.attempts = jobs[rev].attempts - 1
        /\ j.version = jobs[rev].version
        /\ j.owner = jobs[rev].owner /\ j.origin = jobs[rev].origin /\ j.until = jobs[rev].until
    BY <1>3, <2>1 DEF JobType
  <2>6. OwnerOK(j)
    BY <2>1, <2>5 DEF OwnerOK
  <2>7. Settled(rev, j)
    BY <2>4, <2>5, <2>6 DEF Settled, Busy
  <2> QED BY <1>1, <1>2, <1>4, <1>5, <2>2, <2>5, <2>7, RefundKeeps
<1>6. CASE ~Owns(workers[w])
  <2>1. jobs' = jobs
    BY <1>6 DEF ReleaseAdmissionWait, Settle
  <2> QED BY <1>1, <1>4, <2>1, SettleKeeps
<1> QED BY <1>5, <1>6

LEMMA DeferBudgetKeeps ==
  ASSUME JobsInv, NEW w \in Workers, DeferBudget(w)
  PROVE  JobsInv'
<1>1. StateOK /\ workers[w].pc \in Claiming
      /\ UNCHANGED <<gaps, due, obj, store, requests, history>>
      /\ events' \in Nat /\ workers' = [workers EXCEPT ![w] = Ended(w)]
  BY EventsFall DEF JobsInv, DeferBudget, Settle, Claiming
<1>2. PICK rev : rev = workers[w].rev
  OBVIOUS
<1>3. gaps' \subseteq Revs /\ due' \subseteq gaps'
  BY <1>1 DEF StateOK
<1>4. CASE ~Owns(workers[w])
  <2>1. jobs' = jobs
    BY <1>4 DEF DeferBudget, Settle
  <2> QED BY <1>1, <1>3, <2>1, SettleKeeps
<1>5. CASE Owns(workers[w]) /\ workers[w].reserved /\ workers[w].attempts >= MaxAttempts
  <2>1. rev \in Revs /\ jobs[rev] # NoJob
    BY <1>1, <1>2, <1>5, OwnedJob
  <2>2. PICK j : j = [jobs[rev] EXCEPT !.status = "failed"]
    OBVIOUS
  <2>3. jobs' = [jobs EXCEPT ![rev] = j]
    BY <1>2, <1>5, <2>2 DEF DeferBudget, Settle, Claimed
  <2>4. Settled(rev, j) /\ j.attempts = jobs[rev].attempts
    BY <1>1, <2>1, <2>2, StatusSettles
  <2> QED BY <1>1, <1>2, <1>3, <2>1, <2>3, <2>4, SettleKeeps
<1>6. CASE Owns(workers[w]) /\ ~(workers[w].reserved /\ workers[w].attempts >= MaxAttempts)
  <2>1. /\ rev \in Revs /\ jobs[rev] # NoJob /\ jobs[rev] \in JobType
        /\ jobs[rev].attempts > 0 /\ OwnerOK(jobs[rev]) /\ jobs[rev].status \in Busy
    BY <1>1, <1>2, <1>6, OwnedJob DEF StateOK
  <2>2. PICK a : a = IF workers[w].reserved THEN jobs[rev].attempts ELSE jobs[rev].attempts - 1
    OBVIOUS
  <2>3. PICK j : j = [jobs[rev] EXCEPT !.status = "running", !.category = "budget_wait",
                                       !.attempts = a]
    OBVIOUS
  <2>4. jobs' = [jobs EXCEPT ![rev] = j]
    BY <1>2, <1>6, <2>1, <2>2, <2>3 DEF DeferBudget, Settle, Claimed, JobType
  <2>5. a \in 0..MaxAttempts
    BY <2>1, <2>2, JobsAssumption DEF JobType
  <2>6. j \in JobType
    BY <2>1, <2>3, <2>5 DEF JobType, Queued, Busy
  <2>7. /\ j.status = "running" /\ j.category = "budget_wait" /\ j.attempts = a
        /\ j.version = jobs[rev].version
        /\ j.owner = jobs[rev].owner /\ j.origin = jobs[rev].origin /\ j.until = jobs[rev].until
    BY <2>1, <2>3 DEF JobType
  <2>8. OwnerOK(j)
    BY <2>1, <2>7 DEF OwnerOK
  <2>9. Settled(rev, j)
    BY <2>1, <2>6, <2>7, <2>8 DEF Settled
  <2>10. CASE workers[w].reserved
    <3>1. j.attempts = jobs[rev].attempts
      BY <2>2, <2>7, <2>10
    <3> QED BY <1>1, <1>2, <1>3, <2>1, <2>4, <2>9, <3>1, SettleKeeps
  <2>11. CASE ~workers[w].reserved
    <3>1. j.attempts = jobs[rev].attempts - 1
      BY <2>2, <2>7, <2>11
    <3> QED BY <1>1, <1>2, <1>3, <1>6, <2>4, <2>9, <2>11, <3>1, RefundKeeps
  <2> QED BY <2>10, <2>11
<1> QED BY <1>4, <1>5, <1>6

LEMMA DeferStorageKeeps ==
  ASSUME JobsInv, NEW w \in Workers, DeferStorage(w)
  PROVE  JobsInv'
<1>1. StateOK /\ workers[w].pc \in Claiming
      /\ UNCHANGED <<gaps, due, obj, store, requests, history>>
      /\ events' \in Nat /\ workers' = [workers EXCEPT ![w] = Ended(w)]
  BY EventsFall DEF JobsInv, DeferStorage, Claiming
<1>2. PICK rev : rev = workers[w].rev
  OBVIOUS
<1>3. gaps' \subseteq Revs /\ due' \subseteq gaps'
  BY <1>1 DEF StateOK
<1>4. CASE jobs' = jobs
  BY <1>1, <1>3, <1>4, SettleKeeps
<1>5. CASE jobs' # jobs
  <2>1. Owns(workers[w])
    BY <1>5 DEF DeferStorage
  <2>2. /\ rev \in Revs /\ jobs[rev] # NoJob /\ jobs[rev] \in JobType
        /\ OwnerOK(jobs[rev]) /\ jobs[rev].status \in Busy
    BY <1>1, <1>2, <2>1, OwnedJob DEF StateOK
  <2>3. PICK f, c : /\ f = [jobs[rev] EXCEPT !.status = "failed"]
                    /\ c = [jobs[rev] EXCEPT !.category = "cooldown"]
    OBVIOUS
  <2>4. jobs' = [jobs EXCEPT ![rev] = f] \/ jobs' = [jobs EXCEPT ![rev] = c]
    BY <1>1, <1>2, <1>5, <2>2, <2>3 DEF DeferStorage, StateOK
  <2>5. Settled(rev, f) /\ f.attempts = jobs[rev].attempts
    BY <1>1, <2>2, <2>3, StatusSettles
  <2>6. c \in JobType
    BY <2>2, <2>3 DEF JobType
  <2>7. /\ c.status = jobs[rev].status /\ c.category = "cooldown"
        /\ c.attempts = jobs[rev].attempts /\ c.version = jobs[rev].version
        /\ c.owner = jobs[rev].owner /\ c.origin = jobs[rev].origin /\ c.until = jobs[rev].until
    BY <2>2, <2>3 DEF JobType
  <2>8. OwnerOK(c)
    BY <2>2, <2>7 DEF OwnerOK
  <2>9. Settled(rev, c)
    BY <2>2, <2>6, <2>7, <2>8 DEF Settled
  <2>10. CASE jobs' = [jobs EXCEPT ![rev] = f]
    BY <1>1, <1>2, <1>3, <2>2, <2>5, <2>10, SettleKeeps
  <2>11. CASE jobs' = [jobs EXCEPT ![rev] = c]
    BY <1>1, <1>2, <1>3, <2>2, <2>7, <2>9, <2>11, SettleKeeps
  <2> QED BY <2>4, <2>10, <2>11
<1> QED BY <1>4, <1>5

------------------------------------------------------------------------------
(* Claims and reservations.                                                *)

\* The new claim and the job it claims.
LEMMA ClaimFacts ==
  ASSUME StateOK, NEW w \in Workers, NEW rev \in Revs, ClaimBy(w, rev), NEW v, v = obj.version + 1,
         NEW j, j = jobs'[rev], NEW e, e = workers'[w]
  PROVE  /\ v \in 1..MaxVersion /\ obj' \in Object /\ obj'.version = v
         /\ obj'.desired = obj.desired /\ obj'.conflict = obj.conflict
         /\ jobs[rev] \in JobType /\ jobs[rev] # NoJob
         /\ jobs' = [jobs EXCEPT ![rev] = j] /\ workers' = [workers EXCEPT ![w] = e]
         /\ j \in JobType /\ OwnerOK(j) /\ j.version = v
         /\ j.attempts = jobs[rev].attempts + 1 /\ jobs[rev].attempts \in Nat
         /\ e \in Execution /\ WorkerOK(e) /\ e.pc = "call" /\ e.rev = rev /\ e.version = v
         /\ ~e.reserved /\ e.blob = 0 /\ e.head = jobs[rev].head
<1>1. obj \in Object /\ obj.version \in Nat /\ obj.version < MaxVersion /\ MaxVersion \in Nat
  BY JobsAssumption DEF StateOK, Object, ClaimBy
<1>2. v \in 1..MaxVersion /\ v \in 0..MaxVersion
  BY <1>1
<1>3. obj' = [obj EXCEPT !.version = v]
  BY <1>1 DEF ClaimBy, Object
<1>4. obj' \in Object
  BY <1>1, <1>2, <1>3 DEF Object
<1>5. obj'.version = v /\ obj'.desired = obj.desired /\ obj'.conflict = obj.conflict
  BY <1>1, <1>3 DEF Object
<1>6. jobs[rev] # NoJob /\ jobs[rev].attempts < MaxAttempts
  BY DEF ClaimBy, Claimable, Free, Is
<1>7. jobs[rev] \in JobType /\ OwnerOK(jobs[rev])
  BY <1>6 DEF StateOK
<1>8. jobs[rev].attempts \in Nat /\ jobs[rev].attempts + 1 \in 0..MaxAttempts
      /\ jobs[rev].head \in BOOLEAN
  BY <1>6, <1>7, JobsAssumption DEF JobType
<1>9. j = [jobs[rev] EXCEPT !.status = "running", !.attempts = jobs[rev].attempts + 1,
                            !.version = v, !.category = "none"]
      /\ jobs' = [jobs EXCEPT ![rev] = j]
  <2>1. jobs' = [jobs EXCEPT ![rev].status = "running", ![rev].attempts = @ + 1,
                             ![rev].version = obj.version + 1, ![rev].category = "none"]
    BY DEF ClaimBy
  <2>2. jobs'[rev] = [jobs[rev] EXCEPT !.status = "running", !.attempts = jobs[rev].attempts + 1,
                                       !.version = v, !.category = "none"]
    BY <2>1, <1>7 DEF StateOK, JobType
  <2>3. jobs' = [jobs EXCEPT ![rev] = jobs'[rev]]
    BY <2>1 DEF StateOK
  <2> QED BY <2>2, <2>3
<1>10. j \in JobType
  BY <1>2, <1>7, <1>8, <1>9 DEF JobType, Queued, Busy
<1>11. /\ j.version = v /\ j.attempts = jobs[rev].attempts + 1
       /\ j.owner = jobs[rev].owner /\ j.origin = jobs[rev].origin /\ j.until = jobs[rev].until
  BY <1>7, <1>9 DEF JobType
<1>12. OwnerOK(j)
  BY <1>7, <1>6, <1>11 DEF OwnerOK
<1>13. /\ e = [Idle EXCEPT !.pc = "call", !.rev = rev, !.version = v,
                           !.attempts = jobs[rev].attempts + 1, !.head = jobs[rev].head]
       /\ workers' = [workers EXCEPT ![w] = e]
  BY DEF ClaimBy, StateOK
<1>14. e \in Execution
  <2>1. 0 \in 0..MaxBlobs
    BY JobsAssumption
  <2> QED BY <1>2, <1>8, <1>13, <2>1 DEF Execution, Idle, Claiming
<1>15. /\ e.pc = "call" /\ e.rev = rev /\ e.version = v /\ e.blob = 0
       /\ e.attempts = jobs[rev].attempts + 1
  BY <1>13 DEF Idle
<1>16. ~e.reserved /\ e.head = jobs[rev].head
  BY <1>13 DEF Idle
<1>17. WorkerOK(e)
  BY <1>8, <1>15 DEF WorkerOK
<1> QED BY <1>2, <1>4, <1>5, <1>6, <1>7, <1>8, <1>9, <1>10, <1>11, <1>12, <1>13, <1>14, <1>15,
           <1>16, <1>17

\* A claim has a version nobody has seen, one more attempt pays for it, and it starts
\* while no other job of the object runs.
LEMMA ClaimKeeps ==
  ASSUME JobsInv, NEW w \in Workers, NEW rev \in Revs, workers[w].pc \notin Claiming,
         ClaimBy(w, rev)
  PROVE  JobsInv'
<1>1. StateOK /\ VersionInv /\ ClaimInv /\ ChargeInv /\ CurrentInv /\ OneExecution /\ StageInv
  BY DEF JobsInv, ClaimsInv
<1>2. PICK v, j, e : v = obj.version + 1 /\ j = jobs'[rev] /\ e = workers'[w]
  OBVIOUS
<1>3. /\ v \in 1..MaxVersion /\ obj' \in Object /\ obj'.version = v
      /\ obj'.desired = obj.desired /\ obj'.conflict = obj.conflict
      /\ jobs[rev] \in JobType /\ jobs[rev] # NoJob
      /\ jobs' = [jobs EXCEPT ![rev] = j] /\ workers' = [workers EXCEPT ![w] = e]
      /\ j \in JobType /\ OwnerOK(j) /\ j.version = v
      /\ j.attempts = jobs[rev].attempts + 1 /\ jobs[rev].attempts \in Nat
      /\ e \in Execution /\ WorkerOK(e) /\ e.pc = "call" /\ e.rev = rev /\ e.version = v
      /\ ~e.reserved /\ e.blob = 0 /\ e.head = jobs[rev].head
  BY <1>1, <1>2, ClaimFacts
<1>4. UNCHANGED <<gaps, due, store, epoch, live, lapsed, since, charged, events>>
  BY DEF ClaimBy, requests, history
<1>5. \A q \in Revs : jobs'[q] = IF q = rev THEN j ELSE jobs[q]
  BY <1>1, <1>3 DEF StateOK
<1>6. \A u \in Workers : workers'[u] = IF u = w THEN e ELSE workers[u]
  BY <1>1, <1>3 DEF StateOK
<1>7. StateOK'
  <2>1. workers' \in [Workers -> Execution] /\ \A u \in Workers : WorkerOK(workers'[u])
    BY <1>1, <1>3, WorkerType
  <2>2. jobs' \in [Revs -> JobType \cup {NoJob}] /\ \A q \in Revs : OwnerOK(jobs'[q])
    BY <1>1, <1>3, <1>5 DEF StateOK
  <2> QED BY <1>1, <1>3, <1>4, <2>1, <2>2 DEF StateOK
<1>8. obj.version \in Nat /\ v \in Nat /\ v = obj.version + 1
  BY <1>1, <1>2, JobsAssumption DEF StateOK, Object
<1>9. VersionInv'
  <2>1. ASSUME NEW q \in Revs
        PROVE  /\ jobs'[q] # NoJob => jobs'[q].version <= v
               /\ since'[q] <= v /\ \A x \in charged'[q] : x <= v
    <3>1. jobs[q] # NoJob => jobs[q].version \in Nat
      BY <1>1, JobsAssumption DEF StateOK, JobType
    <3>2. jobs'[q] # NoJob => jobs'[q].version <= v
      BY <1>1, <1>3, <1>5, <1>8, <3>1 DEF VersionInv
    <3>3. since'[q] <= v
      BY <1>1, <1>4, <1>8, JobsAssumption DEF VersionInv, StateOK
    <3>4. \A x \in charged'[q] : x <= v
      BY <1>1, <1>4, <1>8, JobsAssumption DEF VersionInv, StateOK
    <3> QED BY <3>2, <3>3, <3>4
  <2>2. ASSUME NEW u \in Workers PROVE workers'[u].version <= v
    <3>1. workers[u].version \in Nat
      BY <1>1, JobsAssumption DEF StateOK, Execution
    <3> QED BY <1>1, <1>3, <1>6, <1>8, <3>1 DEF VersionInv
  <2> QED BY <1>3, <2>1, <2>2 DEF VersionInv
<1>10. ASSUME NEW u \in Workers PROVE workers[u].version < v
  <2>1. workers[u].version \in Nat
    BY <1>1, JobsAssumption DEF StateOK, Execution
  <2> QED BY <1>1, <1>8, <2>1 DEF VersionInv
<1>11. ASSUME NEW q \in Revs PROVE v \notin charged[q] /\ since[q] < v
  <2>1. since[q] \in Nat /\ \A x \in charged[q] : x \in Nat
    BY <1>1, JobsAssumption DEF StateOK
  <2> QED BY <1>1, <1>8, <2>1 DEF VersionInv
<1>12. ClaimInv'
  <2>1. ASSUME NEW u \in Workers, NEW x \in Workers,
               workers'[u].pc \in Claiming, workers'[x].pc \in Claiming,
               workers'[u].version = workers'[x].version
        PROVE  u = x
    <3>1. CASE u # w /\ x # w
      BY <1>1, <1>6, <2>1, <3>1 DEF ClaimInv
    <3>2. CASE u = w /\ x # w
      BY <1>3, <1>6, <1>8, <1>10, <2>1, <3>2
    <3>3. CASE u # w /\ x = w
      BY <1>3, <1>6, <1>8, <1>10, <2>1, <3>3
    <3> QED BY <3>1, <3>2, <3>3
  <2>2. ASSUME NEW u \in Workers, workers'[u].pc \in Claiming, ~workers'[u].reserved,
               NEW q \in Revs
        PROVE  workers'[u].version \notin charged'[q]
    BY <1>1, <1>3, <1>4, <1>6, <1>11, <2>2 DEF ClaimInv
  <2>3. ASSUME NEW q \in Revs, Is(q, Busy)' PROVE since'[q] < jobs'[q].version
    <3>1. CASE q = rev
      BY <1>3, <1>4, <1>5, <1>11, <3>1
    <3>2. CASE q # rev
      <4>1. Is(q, Busy)
        BY <1>5, <2>3, <3>2 DEF Is
      <4> QED BY <1>1, <1>4, <1>5, <3>2, <4>1 DEF ClaimInv
    <3> QED BY <3>1, <3>2
  <2> QED BY <2>1, <2>2, <2>3 DEF ClaimInv
<1>13. ChargeInv'
  <2>1. ASSUME NEW q \in Revs, NEW u \in Workers, Unspent(u, q)'
        PROVE  \/ u = w /\ q = rev /\ workers'[u].version = v
               \/ Unspent(u, q) /\ workers'[u].version = workers[u].version
    BY <1>3, <1>4, <1>6, <2>1 DEF Unspent
  <2>2. ASSUME NEW q \in Revs, jobs'[q] # NoJob
        PROVE  Cardinality(Owed(q)') <= jobs'[q].attempts
    <3>1. jobs[q] # NoJob /\ Cardinality(Owed(q)) <= jobs[q].attempts
      BY <1>1, <1>3, <1>5, <2>2 DEF ChargeInv
    <3>2. jobs[q].attempts \in Nat
      BY <1>1, <3>1, JobsAssumption DEF StateOK, JobType
    <3>3. IsFiniteSet(Owed(q)) /\ Cardinality(Owed(q)) \in Nat
      BY <1>1, OwedFinite, FS_CardinalityType
    <3>4. CASE q # rev
      <4>1. Owed(q)' \subseteq Owed(q)
        BY <1>4, <2>1, <3>4 DEF Owed
      <4>2. Cardinality(Owed(q)') <= Cardinality(Owed(q)) /\ Cardinality(Owed(q)') \in Nat
        BY <1>1, <4>1, OwedLess
      <4> QED BY <1>5, <3>1, <3>2, <3>3, <3>4, <4>2
    <3>5. CASE q = rev
      <4>1. Owed(q)' \subseteq Owed(q) \cup {v}
        BY <1>4, <2>1 DEF Owed
      <4>2. /\ IsFiniteSet(Owed(q) \cup {v})
            /\ Cardinality(Owed(q) \cup {v}) \in {Cardinality(Owed(q)), Cardinality(Owed(q)) + 1}
        BY <3>3, FS_AddElement
      <4>3. /\ Cardinality(Owed(q)') <= Cardinality(Owed(q) \cup {v})
            /\ Cardinality(Owed(q)') \in Nat
        BY <4>1, <4>2, FS_Subset, FS_CardinalityType
      <4> QED BY <1>3, <1>5, <3>1, <3>2, <3>3, <3>5, <4>2, <4>3
    <3> QED BY <3>4, <3>5
  <2> QED BY <2>2 DEF ChargeInv
<1>14. CurrentInv'
  <2> SUFFICES ASSUME NEW u \in Workers, workers'[u].pc \in Claiming, workers'[u].head,
                      workers'[u].version = obj'.version
               PROVE  /\ workers'[u].rev = obj'.desired /\ ~obj'.conflict
                      /\ workers'[u].pc \in {"put", "commit"} => workers'[u].prev = obj'.head
    BY DEF CurrentInv, CurrentOK
  <2>1. u = w
    <3>1. workers[u].version \in Nat
      BY <1>1, JobsAssumption DEF StateOK, Execution
    <3> QED BY <1>3, <1>6, <1>8, <1>10, <3>1
  <2>2. jobs[rev].head
    BY <1>3, <1>6, <2>1
  <2>3. ~obj.conflict /\ rev = obj.desired
    BY <2>2 DEF ClaimBy, Claimable
  <2> QED BY <1>3, <1>6, <2>1, <2>3
<1>15. OneExecution'
  <2>1. ASSUME NEW q \in Revs, Executing(q)' PROVE q = rev
    <3>1. ~OtherRunning(rev)
      BY DEF ClaimBy, Claimable, Free
    <3> QED BY <1>5, <2>1, <3>1 DEF Executing, Is, OtherRunning
  <2> QED BY <2>1 DEF OneExecution
<1>16. StageInv'
  <2>1. \A u \in Workers : Stays(u)
    BY <1>3, <1>6 DEF Stays
  <2> QED BY <1>1, <1>4, <2>1, StageStays
<1> QED BY <1>7, <1>9, <1>12, <1>13, <1>14, <1>15, <1>16 DEF JobsInv, ClaimsInv

\* A reservation charges its claim, which was owed before.
LEMMA ReserveKeeps ==
  ASSUME JobsInv, NEW w \in Workers, Reserve(w)
  PROVE  JobsInv'
<1>1. StateOK /\ VersionInv /\ ClaimInv /\ ChargeInv /\ CurrentInv /\ OneExecution /\ StageInv
  BY DEF JobsInv, ClaimsInv
<1>2. PICK e : e = [workers[w] EXCEPT !.reserved = TRUE]
  OBVIOUS
<1>3. PICK v, rev : v = workers[w].version /\ rev = workers[w].rev
  OBVIOUS
<1>4. /\ workers[w] \in Execution /\ WorkerOK(workers[w]) /\ workers[w].pc = "call"
      /\ ~workers[w].reserved /\ rev \in Revs /\ v \in 0..MaxVersion
  BY <1>1, <1>3 DEF Reserve, StateOK, WorkerOK, Claiming, Execution
<1>5. workers' = [workers EXCEPT ![w] = e]
  BY <1>1, <1>2 DEF Reserve, StateOK
<1>6. e \in Execution
  BY <1>2, <1>4 DEF Execution
<1>7. /\ e.pc = "call" /\ e.rev = rev /\ e.version = v /\ e.blob = workers[w].blob
      /\ e.attempts = workers[w].attempts /\ e.prev = workers[w].prev
  BY <1>2, <1>3, <1>4 DEF Execution
<1>8. e.reserved /\ e.head = workers[w].head
  BY <1>2, <1>4 DEF Execution
<1>9. WorkerOK(e)
  BY <1>3, <1>4, <1>7 DEF WorkerOK
<1>10. /\ UNCHANGED <<obj, jobs, gaps, due, store, epoch, live, lapsed, since, events>>
       /\ charged' = IF v > since[rev] THEN [charged EXCEPT ![rev] = @ \cup {v}] ELSE charged
  BY <1>3 DEF Reserve, requests
<1>11. \A q \in Revs : charged'[q] = IF v > since[rev] /\ q = rev THEN charged[q] \cup {v}
                                                                 ELSE charged[q]
  BY <1>1, <1>4, <1>10 DEF StateOK
<1>12. \A u \in Workers : workers'[u] = IF u = w THEN e ELSE workers[u]
  BY <1>1, <1>5 DEF StateOK
<1>13. StateOK'
  <2>1. workers' \in [Workers -> Execution] /\ \A u \in Workers : WorkerOK(workers'[u])
    BY <1>1, <1>5, <1>6, <1>9, WorkerType
  <2>2. v > since[rev] => v \in 1..MaxVersion
    <3>1. since[rev] \in Nat
      BY <1>1, <1>4, JobsAssumption DEF StateOK
    <3> QED BY <1>4, <3>1, JobsAssumption
  <2>3. charged' \in [Revs -> SUBSET (1..MaxVersion)]
    BY <1>1, <1>10, <2>2 DEF StateOK
  <2> QED BY <1>1, <1>10, <2>1, <2>3 DEF StateOK
<1>14. VersionInv'
  <2>1. v <= obj.version
    BY <1>1, <1>3 DEF VersionInv
  <2>2. \A q \in Revs : \A x \in charged'[q] : x <= obj.version
    BY <1>1, <1>11, <2>1 DEF VersionInv
  <2>3. \A u \in Workers : workers'[u].version <= obj.version
    BY <1>1, <1>7, <1>12, <2>1 DEF VersionInv
  <2> QED BY <1>1, <1>10, <2>2, <2>3 DEF VersionInv
<1>15. ClaimInv'
  <2>1. ASSUME NEW u \in Workers
        PROVE  /\ workers'[u].version = workers[u].version
               /\ workers'[u].pc = workers[u].pc
    BY <1>3, <1>4, <1>7, <1>12
  <2>2. ASSUME NEW u \in Workers, workers'[u].pc \in Claiming, ~workers'[u].reserved,
               NEW q \in Revs
        PROVE  workers'[u].version \notin charged'[q]
    <3>1. u # w
      BY <1>8, <1>12, <2>2
    <3>2. workers[u].pc \in Claiming /\ ~workers[u].reserved /\ workers[w].pc \in Claiming
      BY <1>4, <1>12, <2>2, <3>1 DEF Claiming
    <3>3. workers[u].version \notin charged[q] /\ workers[u].version # v
      BY <1>1, <1>3, <3>1, <3>2 DEF ClaimInv
    <3> QED BY <1>11, <2>1, <3>3
  <2>3. \A q \in Revs : Is(q, Busy)' => since'[q] < jobs'[q].version
    BY <1>1, <1>10 DEF ClaimInv, Is
  <2> QED BY <1>1, <2>1, <2>2, <2>3 DEF ClaimInv
<1>16. ChargeInv'
  <2>1. ASSUME NEW q \in Revs PROVE Owed(q)' \subseteq Owed(q)
    <3>1. ASSUME NEW u \in Workers, Unspent(u, q)'
          PROVE  Unspent(u, q) /\ workers'[u].version = workers[u].version
      BY <1>8, <1>10, <1>12, <3>1 DEF Unspent
    <3>2. v > since[rev] => v \in Owed(rev)
      <4>1. ASSUME v > since[rev] PROVE Unspent(w, rev) /\ v \in 1..MaxVersion
        <5>1. since[rev] \in Nat
          BY <1>1, <1>4, JobsAssumption DEF StateOK
        <5> QED BY <1>3, <1>4, <4>1, <5>1, JobsAssumption DEF Unspent, Claiming
      <4> QED BY <1>3, <4>1 DEF Owed
    <3>3. charged'[q] \subseteq Owed(q)
      BY <1>11, <3>2 DEF Owed
    <3> QED BY <3>1, <3>3 DEF Owed
  <2>2. ASSUME NEW q \in Revs, jobs'[q] # NoJob
        PROVE  Cardinality(Owed(q)') <= jobs'[q].attempts
    <3>1. jobs'[q] = jobs[q] /\ jobs[q] # NoJob /\ Cardinality(Owed(q)) <= jobs[q].attempts
      BY <1>1, <1>10, <2>2 DEF ChargeInv
    <3>2. jobs[q].attempts \in Nat
      BY <1>1, <3>1, JobsAssumption DEF StateOK, JobType
    <3>3. /\ Cardinality(Owed(q)') <= Cardinality(Owed(q))
          /\ Cardinality(Owed(q)') \in Nat /\ Cardinality(Owed(q)) \in Nat
      BY <1>1, <2>1, OwedLess
    <3> QED BY <3>1, <3>2, <3>3
  <2> QED BY <2>2 DEF ChargeInv
<1>17. CurrentInv' /\ OneExecution'
  <2>1. OneExecution'
    BY <1>1, <1>10 DEF OneExecution, Executing, Is
  <2>2. ASSUME NEW u \in Workers PROVE CurrentOK(workers[u])'
    <3>1. CurrentOK(workers[u])
      BY <1>1 DEF CurrentInv
    <3>2. CASE u # w
      BY <1>10, <1>12, <3>1, <3>2 DEF CurrentOK
    <3>3. CASE u = w
      BY <1>3, <1>4, <1>7, <1>8, <1>10, <1>12, <3>1, <3>3 DEF CurrentOK
    <3> QED BY <3>2, <3>3
  <2> QED BY <2>1, <2>2 DEF CurrentInv
<1>18. StageInv'
  <2>1. \A u \in Workers : Stays(u)
    BY <1>7, <1>12 DEF Stays
  <2> QED BY <1>1, <1>10, <2>1, StageStays
<1> QED BY <1>13, <1>14, <1>15, <1>16, <1>17, <1>18 DEF JobsInv, ClaimsInv

------------------------------------------------------------------------------
(* Publication.                                                            *)

\* Stages that end become deletions or captures, and only files without a stage and
\* without a capture go.
LEMMA StageShrinks ==
  ASSUME StateOK, StageInv, \A w \in Workers : Stays(w),
         store'.next = store.next, store'.staged \subseteq store.staged,
         store'.deletions \subseteq store.deletions \cup (store.staged \ store'.staged),
         \A c \in store'.captures :
            \/ c \in store.captures
            \/ c[1] \in store.staged \ store'.staged /\ c[1] \in store.files,
         \A b \in store.files :
            \/ b \in store'.files
            \/ b \notin store'.staged /\ \A c \in store'.captures : c[1] # b
  PROVE  StageInv'
<1>1. \A b \in store'.staged \cup store'.deletions : b < store'.next
  BY DEF StageInv
<1>2. store'.staged \cap store'.deletions = {}
  BY DEF StageInv
<1>3. \A c \in store'.captures : c[1] < store'.next /\ c[1] \notin store'.staged
  BY DEF StageInv
<1>4. ASSUME NEW w \in Workers PROVE BlobOK(workers[w])'
  <2>1. BlobOK(workers[w]) /\ Stays(w)
    BY DEF StageInv
  <2>2. store.next > 0 /\ 0 \notin store.staged
    BY DEF StateOK, Store, Blobs
  <2> QED BY <2>1, <2>2 DEF BlobOK, Stays
<1>5. CaptureEvidence'
  BY DEF StageInv, CaptureEvidence
<1> QED BY <1>1, <1>2, <1>3, <1>4, <1>5 DEF StageInv

\* One execution goes on under its claim.
LEMMA WorkerGoesOn ==
  ASSUME StateOK, VersionInv, NEW w \in Workers, workers[w].pc \in Claiming, NEW e \in Execution,
         WorkerOK(e), workers' = [workers EXCEPT ![w] = e], UNCHANGED <<obj, jobs, history>>,
         e.pc \in Claiming, e.rev = workers[w].rev, e.version = workers[w].version,
         e.head = workers[w].head, e.reserved = workers[w].reserved,
         e.pc \in {"put", "commit"} =>
            \/ workers[w].pc \in {"put", "commit"} /\ e.prev = workers[w].prev
            \/ workers[w].head => e.prev = obj.head,
         UNCHANGED <<gaps, due, requests, events>>,
         store' \in Store, store'.stale \subseteq store'.staged
  PROVE  StateOK' /\ Calm
<1>1. workers' \in [Workers -> Execution] /\ \A u \in Workers : WorkerOK(workers'[u])
  BY WorkerType
<1>2. StateOK'
  BY <1>1 DEF StateOK, requests, history
<1>3. Grows
  BY GrowsSame
<1>4. \A q \in Revs : Keeps(q)
  BY DEF Keeps, Moves, history
<1>5. ASSUME NEW u \in Workers PROVE Carries(u)
  <2>1. workers'[u] = IF u = w THEN e ELSE workers[u]
    BY DEF StateOK
  <2>2. workers[u].version <= obj'.version
    BY DEF VersionInv
  <2> QED BY <2>1, <2>2 DEF Carries
<1> QED BY <1>2, <1>3, <1>4, <1>5 DEF Calm, Quiet, Keeps

LEMMA PublishStageKeeps ==
  ASSUME JobsInv, NEW w \in Workers, PublishStage(w)
  PROVE  JobsInv'
<1>1. StateOK /\ VersionInv /\ StageInv
  BY DEF JobsInv, ClaimsInv
<1>2. PICK prev \in 0..MaxBlobs :
        prev = IF workers[w].head THEN obj.head ELSE LatestOf(workers[w].rev)
  BY <1>1, LatestType DEF StateOK, Object
<1>3. PICK e : e = [workers[w] EXCEPT !.pc = "put", !.blob = store.next, !.prev = prev]
  OBVIOUS
<1>4. workers[w] \in Execution /\ WorkerOK(workers[w]) /\ workers[w].pc = "call"
  BY <1>1 DEF PublishStage, StateOK
<1>5. store \in Store /\ store.next \in Blobs /\ store.next \in 0..MaxBlobs
  BY <1>1, JobsAssumption DEF PublishStage, StateOK, Store, Blobs
<1>6. workers' = [workers EXCEPT ![w] = e]
  BY <1>1, <1>2, <1>3 DEF PublishStage, StateOK
<1>7. e \in Execution
  BY <1>3, <1>4, <1>5 DEF Execution, Claiming
<1>8. /\ e.pc = "put" /\ e.rev = workers[w].rev /\ e.version = workers[w].version
      /\ e.attempts = workers[w].attempts /\ e.blob = store.next /\ e.prev = prev
  BY <1>3, <1>4 DEF Execution
<1>9. e.head = workers[w].head /\ e.reserved = workers[w].reserved
  BY <1>3, <1>4 DEF Execution
<1>10. WorkerOK(e)
  BY <1>4, <1>5, <1>8 DEF WorkerOK, Claiming
<1>11. store' = [store EXCEPT !.next = store.next + 1, !.staged = store.staged \cup {store.next}]
       /\ UNCHANGED <<obj, jobs, gaps, due, requests, history, events>>
  BY <1>5 DEF PublishStage, Store
<1>12. store' \in Store
  <2>1. store.next + 1 \in 1..(MaxBlobs + 1)
    BY <1>5, JobsAssumption DEF Blobs
  <2> QED BY <1>5, <1>11, <2>1 DEF Store
<1>13. /\ store'.next = store.next + 1 /\ store'.staged = store.staged \cup {store.next}
       /\ store'.stale = store.stale /\ store'.deletions = store.deletions
       /\ store'.files = store.files /\ store'.captures = store.captures
  BY <1>5, <1>11 DEF Store
<1>14. store'.stale \subseteq store'.staged
  BY <1>1, <1>13 DEF StateOK
<1>15. workers[w].pc \in Claiming /\ e.pc \in Claiming
  BY <1>4, <1>8 DEF Claiming
<1>16. workers[w].head => e.prev = obj.head
  BY <1>2, <1>8
<1>17. StateOK' /\ Calm
  BY <1>1, <1>6, <1>7, <1>8, <1>9, <1>10, <1>11, <1>12, <1>14, <1>15, <1>16, WorkerGoesOn
<1>18. ClaimsInv'
  BY <1>1, <1>17, CalmStep DEF JobsInv
<1>19. StageInv'
  <2>1. store.next \in Nat /\ store.next \notin store.staged \cup store.deletions
    BY <1>1, <1>5, JobsAssumption DEF StageInv, Blobs
  <2>2. \A b \in store'.staged \cup store'.deletions : b < store'.next
    <3>1. \A b \in store.staged \cup store.deletions : b \in Nat /\ b < store.next
      BY <1>1, <1>5 DEF StageInv, Store, Blobs
    <3> QED BY <1>13, <2>1, <3>1
  <2>3. store'.staged \cap store'.deletions = {}
    BY <1>1, <1>13, <2>1 DEF StageInv
  <2>4. \A c \in store'.captures : c[1] < store'.next /\ c[1] \notin store'.staged
    <3>1. \A c \in store.captures : c[1] \in Nat /\ c[1] < store.next /\ c[1] \notin store.staged
      BY <1>1, <1>5 DEF StageInv, Store, Blobs
    <3> QED BY <1>13, <2>1, <3>1
  <2>5. ASSUME NEW u \in Workers PROVE BlobOK(workers[u])'
    <3>1. workers'[u] = IF u = w THEN e ELSE workers[u]
      BY <1>1, <1>6 DEF StateOK
    <3>2. BlobOK(workers[u]) /\ workers[u].blob \in Nat
      BY <1>1, JobsAssumption DEF StageInv, StateOK, Execution
    <3>3. CASE u = w
      BY <1>8, <1>13, <2>1, <3>1, <3>3 DEF BlobOK
    <3>4. CASE u # w
      BY <1>13, <2>1, <3>1, <3>2, <3>4 DEF BlobOK
    <3> QED BY <3>3, <3>4
  <2>6. CaptureEvidence'
    BY <1>1, <1>13 DEF StageInv, CaptureEvidence
  <2> QED BY <2>2, <2>3, <2>4, <2>5, <2>6 DEF StageInv
<1> QED BY <1>17, <1>18, <1>19 DEF JobsInv

LEMMA PublishPutKeeps ==
  ASSUME JobsInv, NEW w \in Workers, PublishPut(w)
  PROVE  JobsInv'
<1>1. StateOK /\ VersionInv /\ StageInv
  BY DEF JobsInv, ClaimsInv
<1>2. PICK e : e = [workers[w] EXCEPT !.pc = "commit"]
  OBVIOUS
<1>3. workers[w] \in Execution /\ WorkerOK(workers[w]) /\ workers[w].pc = "put"
      /\ store \in Store
  BY <1>1 DEF PublishPut, StateOK
<1>4. workers[w].blob \in Blobs
  BY <1>3 DEF WorkerOK
<1>5. workers' = [workers EXCEPT ![w] = e]
  BY <1>1, <1>2 DEF PublishPut, StateOK
<1>6. e \in Execution
  BY <1>2, <1>3 DEF Execution, Claiming
<1>7. /\ e.pc = "commit" /\ e.rev = workers[w].rev /\ e.version = workers[w].version
      /\ e.attempts = workers[w].attempts /\ e.blob = workers[w].blob /\ e.prev = workers[w].prev
  BY <1>2, <1>3 DEF Execution
<1>8. e.head = workers[w].head /\ e.reserved = workers[w].reserved
  BY <1>2, <1>3 DEF Execution
<1>9. WorkerOK(e) /\ workers[w].pc \in Claiming /\ e.pc \in Claiming
  BY <1>3, <1>4, <1>7 DEF WorkerOK, Claiming
<1>10. store' = [store EXCEPT !.files = store.files \cup {workers[w].blob}]
       /\ UNCHANGED <<obj, jobs, gaps, due, requests, history, events>>
  BY <1>3 DEF PublishPut, Store
<1>11. store' \in Store
  BY <1>3, <1>4, <1>10 DEF Store
<1>12. /\ store'.next = store.next /\ store'.staged = store.staged
       /\ store'.stale = store.stale /\ store'.deletions = store.deletions
       /\ store'.files = store.files \cup {workers[w].blob} /\ store'.captures = store.captures
  BY <1>3, <1>10 DEF Store
<1>13. store'.stale \subseteq store'.staged
  BY <1>1, <1>12 DEF StateOK
<1>14. StateOK' /\ Calm
  BY <1>1, <1>3, <1>5, <1>6, <1>7, <1>8, <1>9, <1>10, <1>11, <1>13, WorkerGoesOn
<1>15. ClaimsInv'
  BY <1>1, <1>14, CalmStep DEF JobsInv
<1>16. StageInv'
  <2>1. ASSUME NEW u \in Workers PROVE BlobOK(workers[u])'
    <3>1. workers'[u] = IF u = w THEN e ELSE workers[u]
      BY <1>1, <1>5 DEF StateOK
    <3>2. BlobOK(workers[u])
      BY <1>1 DEF StageInv
    <3> QED BY <1>7, <1>12, <3>1, <3>2 DEF BlobOK
  <2>2. CaptureEvidence'
    BY <1>1, <1>12 DEF StageInv, CaptureEvidence
  <2> QED BY <1>1, <1>12, <2>1, <2>2 DEF StageInv
<1> QED BY <1>14, <1>15, <1>16 DEF JobsInv

LEMMA PublishConflictKeeps ==
  ASSUME JobsInv, NEW w \in Workers, PublishConflict(w)
  PROVE  JobsInv'
<1>1. StateOK /\ VersionInv
  BY DEF JobsInv, ClaimsInv
<1>2. PICK e : e = [workers[w] EXCEPT !.pc = "fail"]
  OBVIOUS
<1>3. workers[w] \in Execution /\ WorkerOK(workers[w]) /\ workers[w].pc = "commit"
      /\ UNCHANGED <<obj, jobs, gaps, due, store, requests, history, events>>
  BY <1>1 DEF PublishConflict, StateOK
<1>4. workers' = [workers EXCEPT ![w] = e]
  BY <1>1, <1>2 DEF PublishConflict, StateOK
<1>5. e \in Execution
  BY <1>2, <1>3 DEF Execution, Claiming
<1>6. /\ e.pc = "fail" /\ e.rev = workers[w].rev /\ e.version = workers[w].version
      /\ e.attempts = workers[w].attempts /\ e.blob = workers[w].blob
  BY <1>2, <1>3 DEF Execution
<1>7. e.head = workers[w].head /\ e.reserved = workers[w].reserved
  BY <1>2, <1>3 DEF Execution
<1>8. WorkerOK(e) /\ workers[w].pc \in Claiming /\ e.pc \in Claiming
  BY <1>3, <1>6 DEF WorkerOK, Claiming
<1>9. store' \in Store /\ store'.stale \subseteq store'.staged
  BY <1>1, <1>3 DEF StateOK
<1>10. StateOK' /\ Calm
  BY <1>1, <1>3, <1>4, <1>5, <1>6, <1>7, <1>8, <1>9, WorkerGoesOn
<1>11. \A u \in Workers : Stays(u)
  <2> TAKE u \in Workers
  <2>1. workers'[u] = IF u = w THEN e ELSE workers[u]
    BY <1>1, <1>4 DEF StateOK
  <2> QED BY <1>6, <2>1 DEF Stays
<1> QED BY <1>3, <1>10, <1>11, CalmKeeps

\* The end of a publication: the job is done, its gap is settled, the worker ends.
LEMMA PublishEndsKeeps ==
  ASSUME JobsInv, NEW w \in Workers, NEW complete, workers[w].pc = "commit",
         MayCommit(workers[w]), PublishEnds(w, complete),
         obj' \in Object, Grows,
         store' \in Store, store'.stale \subseteq store'.staged,
         (\A u \in Workers : Stays(u)) => StageInv'
  PROVE  JobsInv'
<1>1. StateOK /\ VersionInv
  BY DEF JobsInv, ClaimsInv
<1>2. PICK rev \in Revs : rev = workers[w].rev
  BY <1>1 DEF StateOK, WorkerOK, Claiming
<1>3. jobs[rev] # NoJob /\ jobs[rev] \in JobType
  BY <1>1, <1>2 DEF MayCommit, Authorized, Is, StateOK
<1>4. PICK j : j = [jobs[rev] EXCEPT !.status = "done"]
  OBVIOUS
<1>5. jobs' = [jobs EXCEPT ![rev] = j]
  BY <1>1, <1>2, <1>4 DEF PublishEnds, StateOK
<1>6. /\ workers' = [workers EXCEPT ![w] = Ended(w)]
      /\ UNCHANGED <<epoch, live, lapsed, since, charged, events>>
  BY DEF PublishEnds, requests, history
<1>7. gaps' \subseteq Revs /\ due' \subseteq gaps'
  BY <1>1, <1>2 DEF PublishEnds, StateOK
<1>8. /\ j \in JobType /\ OwnerOK(j)
      /\ jobs'[rev] = j /\ since'[rev] = since[rev] /\ charged'[rev] = charged[rev] => Keeps(rev)
  BY <1>1, <1>3, <1>4, StatusChanges
<1>9. \A q \in Revs : jobs'[q] = IF q = rev THEN j ELSE jobs[q]
  BY <1>1, <1>5 DEF StateOK
<1>10. \A q \in Revs : Keeps(q)
  BY <1>6, <1>8, <1>9 DEF Keeps, Moves
<1>11. workers' \in [Workers -> Execution] /\ \A u \in Workers : WorkerOK(workers'[u])
  BY <1>1, <1>6, WorkerEndsType
<1>12. jobs' \in [Revs -> JobType \cup {NoJob}] /\ \A q \in Revs : OwnerOK(jobs'[q])
  BY <1>1, <1>5, <1>8, <1>9 DEF StateOK
<1>13. StateOK'
  BY <1>1, <1>6, <1>7, <1>11, <1>12 DEF StateOK
<1>14. \A u \in Workers : Carries(u) /\ Stays(u)
  BY <1>1, <1>6, <1>13, WorkerEnds
<1>15. Calm
  BY <1>10, <1>14 DEF Calm, Quiet, Keeps
<1>16. ClaimsInv'
  BY <1>1, <1>13, <1>15, CalmStep DEF JobsInv
<1> QED BY <1>13, <1>14, <1>16 DEF JobsInv

LEMMA PublishSameKeeps ==
  ASSUME JobsInv, NEW w \in Workers, PublishSame(w)
  PROVE  JobsInv'
<1>1. StateOK /\ VersionInv /\ StageInv
  BY DEF JobsInv, ClaimsInv
<1>2. PICK b, rev : b = workers[w].blob /\ rev = workers[w].rev
  OBVIOUS
<1>3. /\ workers[w].pc = "commit" /\ MayCommit(workers[w])
      /\ PublishEnds(w, CaptureOf(workers[w].prev)[3])
      /\ obj.version < MaxVersion
  BY DEF PublishSame
<1>4. b \in store.staged /\ rev \in Revs /\ store \in Store /\ obj \in Object
      /\ store.stale \subseteq store.staged
  BY <1>1, <1>2, <1>3 DEF MayCommit, Staged, StateOK, WorkerOK, Claiming
<1>5. store' = [store EXCEPT !.staged = store.staged \ {b}, !.stale = store.stale \ {b},
                             !.deletions = store.deletions \cup {b}]
  BY <1>2, <1>4 DEF PublishSame, Store
<1>6. store' \in Store
  BY <1>4, <1>5 DEF Store
<1>7. /\ store'.next = store.next /\ store'.staged = store.staged \ {b}
      /\ store'.stale = store.stale \ {b} /\ store'.deletions = store.deletions \cup {b}
      /\ store'.files = store.files /\ store'.captures = store.captures
  BY <1>4, <1>5 DEF Store
<1>8. store'.stale \subseteq store'.staged
  BY <1>4, <1>7
<1>9. (\A u \in Workers : Stays(u)) => StageInv'
  BY <1>1, <1>4, <1>7, StageShrinks
<1>10. obj.version \in Nat /\ obj.version + 1 \in 0..MaxVersion
  BY <1>3, <1>4, JobsAssumption DEF Object
<1>11. \/ obj' = obj
       \/ obj' = [obj EXCEPT !.pending = FALSE, !.version = obj.version + 1, !.desired = rev]
  BY <1>2, <1>4 DEF PublishSame, Object
<1>12. obj' \in Object
  BY <1>4, <1>10, <1>11 DEF Object
<1>13. Grows
  <2>1. CASE obj' = obj
    BY <1>1, <2>1, GrowsSame
  <2>2. CASE obj' = [obj EXCEPT !.pending = FALSE, !.version = obj.version + 1, !.desired = rev]
    <3>1. obj'.version = obj.version + 1
      BY <1>4, <2>2 DEF Object
    <3> QED BY <1>10, <3>1 DEF Grows
  <2> QED BY <1>11, <2>1, <2>2
<1> QED BY <1>3, <1>6, <1>8, <1>9, <1>12, <1>13, PublishEndsKeeps

LEMMA PublishCaptureKeeps ==
  ASSUME JobsInv, NEW w \in Workers, NEW complete \in BOOLEAN, PublishCapture(w, complete)
  PROVE  JobsInv'
<1>1. StateOK /\ VersionInv /\ StageInv
  BY DEF JobsInv, ClaimsInv
<1>2. PICK b, rev : b = workers[w].blob /\ rev = workers[w].rev
  OBVIOUS
<1>3. /\ workers[w].pc = "commit" /\ MayCommit(workers[w]) /\ PublishEnds(w, complete)
      /\ obj.version < MaxVersion
  BY DEF PublishCapture
<1>4. b \in store.staged /\ rev \in Revs /\ store \in Store /\ obj \in Object
      /\ store.stale \subseteq store.staged
  BY <1>1, <1>2, <1>3 DEF MayCommit, Staged, StateOK, WorkerOK, Claiming
<1>5. b \in store.files /\ b \in Blobs
  <2>1. BlobOK(workers[w])
    BY <1>1 DEF StageInv
  <2>2. b \in store.files
    BY <1>2, <1>3, <1>4, <2>1 DEF BlobOK
  <2> QED BY <1>4, <2>2 DEF Store
<1>6. PICK kept \in BOOLEAN, keptRevision \in BOOLEAN :
        /\ kept = PreserveHead(workers[w], complete)
        /\ keptRevision = (kept /\ CaptureOf(workers[w].prev)[2] = rev)
  BY DEF PreserveHead
<1>7. PICK latest \in BOOLEAN : latest = ~keptRevision
  OBVIOUS
<1>8. store' = [store EXCEPT !.staged = store.staged \ {b}, !.stale = store.stale \ {b},
                             !.captures = store.captures \cup {<<b, rev, complete, latest>>}]
  BY <1>2, <1>4, <1>6, <1>7 DEF PublishCapture, Store
<1>9. store' \in Store
  <2>1. <<b, rev, complete, latest>> \in Blobs \X Revs \X BOOLEAN \X BOOLEAN
    BY <1>4, <1>5
  <2>2. PICK cs : cs = store.captures \cup {<<b, rev, complete, latest>>}
    OBVIOUS
  <2>3. cs \in SUBSET (Blobs \X Revs \X BOOLEAN \X BOOLEAN)
    BY <1>4, <2>1, <2>2 DEF Store
  <2> QED BY <1>4, <1>8, <2>2, <2>3 DEF Store
<1>10. /\ store'.next = store.next /\ store'.staged = store.staged \ {b}
       /\ store'.stale = store.stale \ {b} /\ store'.deletions = store.deletions
       /\ store'.files = store.files
       /\ store'.captures = store.captures \cup {<<b, rev, complete, latest>>}
  BY <1>4, <1>8 DEF Store
<1>11. store'.stale \subseteq store'.staged
  BY <1>4, <1>10
<1>12. (\A u \in Workers : Stays(u)) => StageInv'
  <2>1. ASSUME NEW c \in store'.captures
        PROVE  c \in store.captures \/ (c[1] \in store.staged \ store'.staged /\ c[1] \in store.files)
    BY <1>4, <1>5, <1>10
  <2> QED BY <1>1, <1>4, <1>10, <2>1, StageShrinks
<1>13. obj.version \in Nat /\ obj.version + 1 \in 0..MaxVersion
  BY <1>3, <1>4, JobsAssumption DEF Object
<1>14. PICK h, p, d : /\ obj' = [obj EXCEPT !.version = obj.version + 1, !.head = h,
                                          !.pending = p, !.desired = d]
                      /\ h \in {obj.head, b} /\ p \in BOOLEAN /\ d \in {obj.desired, rev}
  <2>1. PICK installs \in BOOLEAN : installs = (workers[w].head /\ ~kept)
    OBVIOUS
  <2>2. obj' = [obj EXCEPT !.version = @ + 1,
                           !.head = IF installs THEN b ELSE @,
                           !.pending = @ /\ ~(installs \/ keptRevision),
                           !.desired = IF installs THEN rev ELSE @]
    BY <1>2, <1>6, <2>1 DEF PublishCapture
  <2>3. obj' = [obj EXCEPT !.version = obj.version + 1,
                           !.head = IF installs THEN b ELSE obj.head,
                           !.pending = obj.pending /\ ~(installs \/ keptRevision),
                           !.desired = IF installs THEN rev ELSE obj.desired]
    BY <1>4, <2>2 DEF Object
  <2>4. (obj.pending /\ ~(installs \/ keptRevision)) \in BOOLEAN
    OBVIOUS
  <2> QED BY <2>3, <2>4
<1>15. obj' \in Object
  <2>1. h \in 0..MaxBlobs /\ d \in Revs \cup {None}
    BY <1>4, <1>5, <1>14, JobsAssumption DEF Object, Blobs
  <2> QED BY <1>4, <1>13, <1>14, <2>1 DEF Object
<1>16. Grows
  <2>1. obj'.version = obj.version + 1
    BY <1>4, <1>14 DEF Object
  <2> QED BY <1>13, <2>1 DEF Grows
<1> QED BY <1>3, <1>9, <1>11, <1>12, <1>15, <1>16, PublishEndsKeeps

------------------------------------------------------------------------------
(* Maintenance and the clock.                                              *)

LEMMA MaintainKeeps ==
  ASSUME JobsInv, Maintain
  PROVE  JobsInv'
<1>1. StateOK /\ VersionInv /\ StageInv /\ store \in Store
  BY DEF JobsInv, ClaimsInv, StateOK
<1>2. UNCHANGED <<obj, gaps, due, workers, epoch, live, lapsed, since, charged, events>>
  BY DEF Maintain, requests, history
<1>3. store' = [store EXCEPT !.staged = store.staged \ store.stale, !.stale = {},
                             !.deletions = store.deletions \cup store.stale]
  BY <1>1 DEF Maintain, Store
<1>4. store' \in Store
  BY <1>1, <1>3 DEF Store
<1>5. /\ store'.next = store.next /\ store'.staged = store.staged \ store.stale
      /\ store'.stale = {} /\ store'.deletions = store.deletions \cup store.stale
      /\ store'.files = store.files /\ store'.captures = store.captures
  BY <1>1, <1>3 DEF Store
<1>6. Grows /\ obj' \in Object
  BY <1>1, <1>2, GrowsSame DEF StateOK
<1>7. ASSUME NEW q \in Revs
      PROVE  jobs'[q] \in JobType \cup {NoJob} /\ OwnerOK(jobs'[q]) /\ Keeps(q)
  <2>1. \/ jobs'[q] = jobs[q]
        \/ Is(q, {"pending", "lapsed"}) /\ jobs'[q] = [jobs[q] EXCEPT !.status = "failed"]
    BY DEF Maintain
  <2>2. CASE jobs'[q] = jobs[q]
    BY <1>1, <1>2, <2>2 DEF StateOK, Keeps, Moves
  <2>3. CASE Is(q, {"pending", "lapsed"}) /\ jobs'[q] = [jobs[q] EXCEPT !.status = "failed"]
    <3>1. jobs[q] # NoJob
      BY <2>3 DEF Is
    <3> QED BY <1>1, <1>2, <1>6, <2>3, <3>1, StatusChanges
  <2> QED BY <2>1, <2>2, <2>3
<1>8. jobs' \in [Revs -> JobType \cup {NoJob}]
  BY <1>7 DEF Maintain
<1>9. StateOK'
  BY <1>1, <1>2, <1>4, <1>5, <1>7, <1>8 DEF StateOK
<1>10. \A w \in Workers : Carries(w) /\ Stays(w)
  BY <1>1, <1>2, <1>6, <1>9, WorkersSame
<1>11. ClaimsInv'
  BY <1>1, <1>6, <1>7, <1>9, <1>10, CalmStep DEF JobsInv, Calm, Quiet, Keeps
<1>12. StageInv'
  <2>1. store.stale \subseteq store.staged
    BY <1>1 DEF StateOK
  <2> QED BY <1>1, <1>5, <1>10, <2>1, StageShrinks
<1> QED BY <1>9, <1>11, <1>12 DEF JobsInv

\* A step of the store alone.
LEMMA StoreKeeps ==
  ASSUME JobsInv, store' \in Store, store'.stale \subseteq store'.staged, events' \in Nat,
         UNCHANGED <<obj, jobs, gaps, due, workers, requests, history>>,
         (\A u \in Workers : Stays(u)) => StageInv'
  PROVE  JobsInv'
<1>1. StateOK /\ VersionInv
  BY DEF JobsInv, ClaimsInv
<1>2. StateOK'
  BY <1>1 DEF StateOK, requests, history
<1>3. Grows
  BY <1>1, GrowsSame
<1>4. \A w \in Workers : Carries(w) /\ Stays(w)
  BY <1>1, <1>2, <1>3, WorkersSame
<1>5. \A q \in Revs : Keeps(q)
  BY DEF Keeps, Moves, history
<1>6. ClaimsInv'
  BY <1>1, <1>2, <1>3, <1>4, <1>5, CalmStep DEF JobsInv, Calm, Quiet, Keeps
<1> QED BY <1>2, <1>4, <1>6 DEF JobsInv

LEMMA UnlinkKeeps ==
  ASSUME JobsInv, NEW b \in Blobs, Unlink(b)
  PROVE  JobsInv'
<1>1. StateOK /\ StageInv /\ store \in Store /\ store.stale \subseteq store.staged /\ events \in Nat
  BY DEF JobsInv, StateOK
<1>2. b \in store.deletions /\ Unreferenced(b)
      /\ UNCHANGED <<obj, jobs, gaps, due, workers, requests, history, events>>
  BY DEF Unlink
<1>3. PICK fs, ds : /\ store' = [store EXCEPT !.files = fs, !.deletions = ds]
                    /\ ds \subseteq store.deletions /\ fs \subseteq store.files
                    /\ store.files \subseteq fs \cup {b}
  <2>1. CASE store' = [store EXCEPT !.files = @ \ {b}]
    <3>1. store' = [store EXCEPT !.files = store.files \ {b}, !.deletions = store.deletions]
      BY <1>1, <2>1 DEF Store
    <3> QED BY <3>1
  <2>2. CASE store' = [store EXCEPT !.deletions = @ \ {b}]
    <3>1. store' = [store EXCEPT !.files = store.files, !.deletions = store.deletions \ {b}]
      BY <1>1, <2>2 DEF Store
    <3> QED BY <3>1
  <2> QED BY <2>1, <2>2 DEF Unlink
<1>4. store' \in Store
  BY <1>1, <1>3 DEF Store
<1>5. /\ store'.next = store.next /\ store'.staged = store.staged /\ store'.stale = store.stale
      /\ store'.deletions = ds /\ store'.files = fs /\ store'.captures = store.captures
  BY <1>1, <1>3 DEF Store
<1>6. ASSUME NEW x \in store.files
      PROVE  \/ x \in store'.files
             \/ x \notin store'.staged /\ \A c \in store'.captures : c[1] # x
  BY <1>1, <1>2, <1>3, <1>5 DEF StageInv, Unreferenced
<1>7. (\A u \in Workers : Stays(u)) => StageInv'
  BY <1>1, <1>3, <1>5, <1>6, StageShrinks
<1>8. store'.stale \subseteq store'.staged /\ events' \in Nat
  BY <1>1, <1>2, <1>5
<1> QED BY <1>2, <1>4, <1>7, <1>8, StoreKeeps

LEMMA StageStaleKeeps ==
  ASSUME JobsInv, NEW b \in Blobs, StageStale(b)
  PROVE  JobsInv'
<1>1. StateOK /\ StageInv /\ store \in Store /\ store.stale \subseteq store.staged
      /\ b \in store.staged
  BY DEF JobsInv, StateOK, StageStale
<1>2. UNCHANGED <<obj, jobs, gaps, due, workers, requests, history>> /\ events' \in Nat
  BY <1>1, EventsFall DEF StageStale
<1>3. store' = [store EXCEPT !.stale = store.stale \cup {b}]
  BY <1>1 DEF StageStale, Store
<1>4. store' \in Store
  BY <1>1, <1>3 DEF Store
<1>5. /\ store'.next = store.next /\ store'.staged = store.staged
      /\ store'.stale = store.stale \cup {b}
      /\ store'.deletions = store.deletions /\ store'.files = store.files
      /\ store'.captures = store.captures
  BY <1>1, <1>3 DEF Store
<1>6. (\A u \in Workers : Stays(u)) => StageInv'
  BY <1>1, <1>5, StageShrinks
<1>7. store'.stale \subseteq store'.staged
  BY <1>1, <1>5
<1> QED BY <1>2, <1>4, <1>6, <1>7, StoreKeeps

\* A step of the jobs alone.
LEMMA JobsKeep ==
  ASSUME JobsInv, jobs' \in [Revs -> JobType \cup {NoJob}], \A q \in Revs : OwnerOK(jobs'[q]),
         since' \in [Revs -> 0..MaxVersion], charged' \in [Revs -> SUBSET (1..MaxVersion)],
         \A q \in Revs : Freshly(q) \/ Keeps(q),
         gaps' \subseteq Revs, due' \subseteq gaps', events' \in Nat,
         epoch' \in [Request -> Nat], live' \in [Request -> BOOLEAN], lapsed' \subseteq Launches,
         UNCHANGED <<obj, store, workers>>
  PROVE  JobsInv'
<1>1. StateOK /\ VersionInv
  BY DEF JobsInv, ClaimsInv
<1>2. StateOK'
  BY <1>1 DEF StateOK
<1>3. Grows
  BY <1>1, GrowsSame
<1>4. \A w \in Workers : Carries(w) /\ Stays(w)
  BY <1>1, <1>2, <1>3, WorkersSame
<1> QED BY <1>2, <1>3, <1>4, CalmKeeps DEF Calm, Quiet, Keeps

\* The clock and the requests.
LEMMA ClockKeeps ==
  ASSUME JobsInv, gaps' \subseteq Revs, due' \subseteq gaps', events' \in Nat,
         epoch' \in [Request -> Nat], live' \in [Request -> BOOLEAN], lapsed' \subseteq Launches,
         UNCHANGED <<obj, jobs, store, workers, history>>
  PROVE  JobsInv'
<1>1. StateOK /\ since' = since /\ charged' = charged
  BY DEF JobsInv, history
<1>2. \A q \in Revs : Freshly(q) \/ Keeps(q)
  BY <1>1, JobsSame
<1>3. /\ jobs' \in [Revs -> JobType \cup {NoJob}] /\ \A q \in Revs : OwnerOK(jobs'[q])
      /\ since' \in [Revs -> 0..MaxVersion] /\ charged' \in [Revs -> SUBSET (1..MaxVersion)]
  BY <1>1 DEF StateOK
<1> QED BY <1>2, <1>3, JobsKeep

LEMMA GapDueKeeps ==
  ASSUME JobsInv, NEW rev \in Revs, GapDue(rev)
  PROVE  JobsInv'
<1>1. StateOK /\ gaps' \subseteq Revs /\ due' \subseteq gaps'
  BY DEF JobsInv, StateOK, GapDue
<1>2. events' \in Nat /\ UNCHANGED <<obj, jobs, store, workers, history>>
  BY <1>1, EventsFall DEF GapDue
<1>3. epoch' \in [Request -> Nat] /\ live' \in [Request -> BOOLEAN] /\ lapsed' \subseteq Launches
  BY <1>1 DEF GapDue, StateOK, requests
<1> QED BY <1>1, <1>2, <1>3, ClockKeeps

\* The ledger's steps.
LEMMA LedgerType ==
  ASSUME StateOK, \/ UNCHANGED <<epoch, live>>
                  \/ \E r \in Request : Ledger!Launch(r) \/ Ledger!End({r})
  PROVE  epoch' \in [Request -> Nat] /\ live' \in [Request -> BOOLEAN]
<1>1. CASE UNCHANGED <<epoch, live>>
  BY <1>1 DEF StateOK
<1>2. ASSUME NEW r \in Request, Ledger!Launch(r)
      PROVE  epoch' \in [Request -> Nat] /\ live' \in [Request -> BOOLEAN]
  <2>1. PICK x \in (epoch[r] + 1)..LastEpoch : epoch' = [epoch EXCEPT ![r] = x]
    BY <1>2 DEF Ledger!Launch
  <2>2. x \in Nat
    BY JobsAssumption DEF StateOK
  <2>3. live' = [live EXCEPT ![r] = TRUE]
    BY <1>2 DEF Ledger!Launch
  <2> QED BY <2>1, <2>2, <2>3 DEF StateOK
<1>3. ASSUME NEW r \in Request, Ledger!End({r})
      PROVE  epoch' \in [Request -> Nat] /\ live' \in [Request -> BOOLEAN]
  <2>1. epoch' = epoch /\ live' = [x \in Request |-> live[x] /\ x \notin {r}]
    BY <1>3 DEF Ledger!End
  <2>2. \A x \in Request : (live[x] /\ x \notin {r}) \in BOOLEAN
    OBVIOUS
  <2> QED BY <2>1, <2>2 DEF StateOK
<1> QED BY <1>1, <1>2, <1>3

LEMMA RequestStepKeeps ==
  ASSUME JobsInv, RequestStep
  PROVE  JobsInv'
<1>1. StateOK /\ UNCHANGED <<obj, jobs, gaps, due, store, workers, lapsed, history, events>>
  BY DEF JobsInv, RequestStep
<1>2. epoch' \in [Request -> Nat] /\ live' \in [Request -> BOOLEAN]
  BY <1>1, LedgerType DEF RequestStep
<1>3. gaps' \subseteq Revs /\ due' \subseteq gaps' /\ events' \in Nat /\ lapsed' \subseteq Launches
  BY <1>1 DEF StateOK
<1> QED BY <1>1, <1>2, <1>3, ClockKeeps

LEMMA LapseLaunchKeeps ==
  ASSUME JobsInv, NEW l \in Launches, LapseLaunch(l)
  PROVE  JobsInv'
<1>1. StateOK /\ UNCHANGED <<obj, jobs, gaps, due, store, workers, history, events>>
  BY DEF JobsInv, LapseLaunch
<1>2. epoch' \in [Request -> Nat] /\ live' \in [Request -> BOOLEAN]
  <2>1. l[1] \in Request
    BY DEF Launches
  <2>2. UNCHANGED <<epoch, live>> \/ Ledger!End({l[1]})
    BY DEF LapseLaunch
  <2> QED BY <1>1, <2>1, <2>2, LedgerType
<1>3. gaps' \subseteq Revs /\ due' \subseteq gaps' /\ events' \in Nat /\ lapsed' \subseteq Launches
  BY <1>1 DEF StateOK, LapseLaunch
<1> QED BY <1>1, <1>2, <1>3, ClockKeeps

LEMMA LapseClaimKeeps ==
  ASSUME JobsInv, NEW rev \in Revs, LapseClaim(rev)
  PROVE  JobsInv'
<1>1. StateOK /\ VersionInv /\ UNCHANGED <<obj, gaps, due, store, workers, requests, history, events>>
  BY DEF JobsInv, ClaimsInv, LapseClaim
<1>2. jobs[rev] # NoJob /\ jobs[rev].status \in Busy
  BY DEF LapseClaim, Is, Busy
<1>3. PICK j : j = [jobs[rev] EXCEPT !.status = "lapsed"]
  OBVIOUS
<1>4. jobs' = [jobs EXCEPT ![rev] = j]
  BY <1>1, <1>3 DEF LapseClaim, StateOK
<1>5. Grows /\ obj' \in Object /\ since' = since /\ charged' = charged
  BY <1>1, GrowsSame DEF StateOK, history
<1>6. /\ j \in JobType /\ OwnerOK(j)
      /\ (jobs'[rev] = j /\ since'[rev] = since[rev] /\ charged'[rev] = charged[rev] => Keeps(rev))
  BY <1>1, <1>2, <1>3, <1>5, StatusChanges
<1>7. jobs' \in [Revs -> JobType \cup {NoJob}]
      /\ \A q \in Revs : jobs'[q] = (IF q = rev THEN j ELSE jobs[q])
  BY <1>1, <1>4, <1>6 DEF StateOK
<1>8. \A q \in Revs : OwnerOK(jobs'[q])
  BY <1>1, <1>6, <1>7 DEF StateOK
<1>9. \A q \in Revs : Freshly(q) \/ Keeps(q)
  BY <1>5, <1>6, <1>7 DEF Keeps, Moves
<1>10. /\ since' \in [Revs -> 0..MaxVersion] /\ charged' \in [Revs -> SUBSET (1..MaxVersion)]
       /\ gaps' \subseteq Revs /\ due' \subseteq gaps' /\ events' \in Nat
       /\ epoch' \in [Request -> Nat] /\ live' \in [Request -> BOOLEAN] /\ lapsed' \subseteq Launches
  BY <1>1, <1>5 DEF StateOK, requests
<1> QED BY <1>1, <1>7, <1>8, <1>9, <1>10, JobsKeep

LEMMA AgeKeeps ==
  ASSUME JobsInv, NEW rev \in Revs, Age(rev)
  PROVE  JobsInv'
<1>1. StateOK /\ VersionInv /\ UNCHANGED <<obj, gaps, due, store, workers, requests, history, events>>
  BY DEF JobsInv, ClaimsInv, Age
<1>2. jobs[rev] # NoJob /\ jobs[rev] \in JobType /\ OwnerOK(jobs[rev])
  BY <1>1 DEF Age, StateOK
<1>3. PICK a \in BOOLEAN : a = TRUE
  OBVIOUS
<1>4. PICK j : j = [jobs[rev] EXCEPT !.aged = a]
  OBVIOUS
<1>5. jobs' = [jobs EXCEPT ![rev] = j]
  BY <1>1, <1>3, <1>4 DEF Age, StateOK
<1>6. j \in JobType
  BY <1>2, <1>4 DEF JobType
<1>7. /\ j.status = jobs[rev].status /\ j.attempts = jobs[rev].attempts
      /\ j.version = jobs[rev].version /\ j.category = jobs[rev].category
      /\ j.owner = jobs[rev].owner /\ j.until = jobs[rev].until
  BY <1>2, <1>4 DEF JobType
<1>8. j.origin = jobs[rev].origin
  BY <1>2, <1>4 DEF JobType
<1>9. OwnerOK(j)
  BY <1>2, <1>7, <1>8 DEF OwnerOK
<1>10. j.version <= obj'.version
  BY <1>1, <1>2, <1>7 DEF VersionInv
<1>11. /\ jobs' \in [Revs -> JobType \cup {NoJob}] /\ \A q \in Revs : OwnerOK(jobs'[q])
       /\ \A q \in Revs : Freshly(q) \/ Keeps(q)
  BY <1>1, <1>2, <1>5, <1>6, <1>7, <1>9, <1>10, JobChanges
<1>12. /\ since' \in [Revs -> 0..MaxVersion] /\ charged' \in [Revs -> SUBSET (1..MaxVersion)]
       /\ gaps' \subseteq Revs /\ due' \subseteq gaps' /\ events' \in Nat
       /\ epoch' \in [Request -> Nat] /\ live' \in [Request -> BOOLEAN] /\ lapsed' \subseteq Launches
  BY <1>1 DEF StateOK, requests, history
<1> QED BY <1>1, <1>11, <1>12, JobsKeep

\* A job that returns to the continuous worker.
LEMMA Returned ==
  ASSUME StateOK, VersionInv, UNCHANGED obj, NEW q \in Revs, jobs[q] # NoJob,
         jobs'[q] = [jobs[q] EXCEPT !.origin = FALSE, !.owner = None, !.until = None,
                                    !.aged = FALSE],
         since'[q] = since[q], charged'[q] = charged[q]
  PROVE  jobs'[q] \in JobType /\ OwnerOK(jobs'[q]) /\ Keeps(q)
<1>1. jobs[q] \in JobType /\ jobs[q].version <= obj.version
  BY DEF StateOK, VersionInv
<1>2. PICK o \in BOOLEAN : o = FALSE
  OBVIOUS
<1>3. PICK j : j = [jobs[q] EXCEPT !.origin = o, !.owner = None, !.until = None, !.aged = o]
  OBVIOUS
<1>4. jobs'[q] = j
  BY <1>2, <1>3
<1>5. j \in JobType
  BY <1>1, <1>3 DEF JobType
<1>6. /\ j.status = jobs[q].status /\ j.attempts = jobs[q].attempts
      /\ j.version = jobs[q].version /\ j.category = jobs[q].category /\ j.owner = None
  BY <1>1, <1>3 DEF JobType
<1>7. OwnerOK(j)
  BY <1>6 DEF OwnerOK
<1>8. Keeps(q)
  BY <1>1, <1>4, <1>5, <1>6 DEF Keeps, Moves
<1> QED BY <1>4, <1>5, <1>7, <1>8

LEMMA RequeueDueKeeps ==
  ASSUME JobsInv, RequeueDue
  PROVE  JobsInv'
<1>1. StateOK /\ VersionInv /\ UNCHANGED <<obj, gaps, store, workers, requests, events>>
  BY DEF JobsInv, ClaimsInv, RequeueDue
<1> DEFINE stranded == {q \in Revs : Stranded(q)}
<1>2. PICK again \in SUBSET {q \in Revs : Retriable(q)} :
          /\ jobs' = [q \in Revs |->
                IF q \in again THEN NewJob(jobs[q].version, jobs[q].head, FALSE, None, None)
                ELSE IF q \in stranded
                  THEN [jobs[q] EXCEPT !.origin = FALSE, !.owner = None, !.until = None,
                                       !.aged = FALSE]
                ELSE jobs[q]]
          /\ due' = due \ again
          /\ since' = [q \in Revs |-> IF q \in again THEN obj.version ELSE since[q]]
          /\ charged' = [q \in Revs |-> IF q \in again THEN {} ELSE charged[q]]
  BY DEF RequeueDue
<1>3. ASSUME NEW q \in Revs
      PROVE  /\ jobs'[q] \in JobType \cup {NoJob} /\ OwnerOK(jobs'[q])
             /\ Freshly(q) \/ Keeps(q)
  <2>1. CASE q \in again
    <3>1. jobs[q] # NoJob /\ jobs[q] \in JobType
      BY <1>1, <2>1 DEF Retriable, Is, StateOK
    <3>2. PICK o \in BOOLEAN : o = FALSE
      OBVIOUS
    <3>3. PICK none : none = None
      OBVIOUS
    <3>4. PICK v \in 0..MaxVersion : v = jobs[q].version
      BY <3>1 DEF JobType
    <3>5. PICK h \in BOOLEAN : h = jobs[q].head
      BY <3>1 DEF JobType
    <3>6. PICK j : j = NewJob(v, h, o, none, none)
      OBVIOUS
    <3>7. jobs'[q] = j
      BY <1>2, <2>1, <3>2, <3>3, <3>4, <3>5, <3>6
    <3>8. j \in JobType /\ j.status = "pending" /\ j.version = v /\ j.owner = None
      BY <3>3, <3>6, NewJobType
    <3>9. v <= obj'.version
      BY <1>1, <3>1, <3>4 DEF VersionInv
    <3>10. since'[q] = obj'.version /\ charged'[q] = {}
      BY <1>1, <1>2, <2>1
    <3>11. OwnerOK(j)
      BY <3>8 DEF OwnerOK
    <3> QED BY <3>7, <3>8, <3>9, <3>10, <3>11 DEF Freshly
  <2>2. CASE q \notin again /\ q \in stranded
    <3>1. jobs[q] # NoJob
      BY <2>2 DEF Stranded, Is
    <3>2. jobs'[q] = [jobs[q] EXCEPT !.origin = FALSE, !.owner = None, !.until = None,
                                     !.aged = FALSE]
      BY <1>2, <2>2
    <3>3. since'[q] = since[q] /\ charged'[q] = charged[q]
      BY <1>2, <2>2
    <3> QED BY <1>1, <3>1, <3>2, <3>3, Returned
  <2>3. CASE q \notin again /\ q \notin stranded
    <3>1. jobs'[q] = jobs[q] /\ since'[q] = since[q] /\ charged'[q] = charged[q]
      BY <1>2, <2>3
    <3> QED BY <1>1, <3>1 DEF StateOK, Keeps, Moves
  <2> QED BY <2>1, <2>2, <2>3
<1>4. jobs' \in [Revs -> JobType \cup {NoJob}]
  <2>1. DOMAIN jobs' = Revs /\ jobs' = [q \in Revs |-> jobs'[q]]
    BY <1>2
  <2> QED BY <1>3, <2>1
<1>5. since' \in [Revs -> 0..MaxVersion] /\ charged' \in [Revs -> SUBSET (1..MaxVersion)]
  BY <1>1, <1>2 DEF StateOK, Object
<1>6. /\ gaps' \subseteq Revs /\ due' \subseteq gaps' /\ events' \in Nat
      /\ epoch' \in [Request -> Nat] /\ live' \in [Request -> BOOLEAN] /\ lapsed' \subseteq Launches
  BY <1>1, <1>2 DEF StateOK, requests
<1> QED BY <1>1, <1>3, <1>4, <1>5, <1>6, JobsKeep

------------------------------------------------------------------------------
(* The invariant.                                                          *)

LEMMA InitInv ==
  ASSUME Init
  PROVE  JobsInv
<1>1. /\ MaxVersion \in Nat /\ MaxAttempts \in Nat /\ MaxBlobs \in Nat /\ MaxEvents \in Nat
      /\ MaxBlobs > 0
  BY JobsAssumption
<1>2. obj \in Object /\ obj.version = 0
  BY <1>1 DEF Init, Object
<1>3. jobs \in [Revs -> JobType \cup {NoJob}] /\ \A q \in Revs : jobs[q] = NoJob
  BY DEF Init
<1>4. store \in Store /\ store.stale \subseteq store.staged
  BY <1>1 DEF Init, Store
<1>5. Idle \in Execution /\ Idle.pc = "idle" /\ Idle.version = 0 /\ Idle.blob = 0
  BY <1>1 DEF Idle, Execution
<1>6. workers \in [Workers -> Execution] /\ \A w \in Workers : workers[w] = Idle
  BY <1>5 DEF Init
<1>7. \A w \in Workers : workers[w].pc \notin Claiming \cup Preparing \cup {"put", "commit"}
  BY <1>5, <1>6 DEF Claiming, Preparing
<1>8. epoch \in [Request -> Nat] /\ live \in [Request -> BOOLEAN]
  BY DEF Init, Ledger!Init
<1>9. since \in [Revs -> 0..MaxVersion] /\ \A q \in Revs : since[q] = 0
  BY <1>1 DEF Init
<1>10. charged \in [Revs -> SUBSET (1..MaxVersion)] /\ \A q \in Revs : charged[q] = {}
  BY DEF Init
<1>11. gaps = {} /\ due = {} /\ lapsed = {} /\ events \in Nat
  BY <1>1 DEF Init
<1>12. StateOK
  <2>1. \A w \in Workers : WorkerOK(workers[w])
    BY <1>7 DEF WorkerOK
  <2>2. \A q \in Revs : OwnerOK(jobs[q])
    BY <1>3 DEF OwnerOK
  <2> QED BY <1>2, <1>3, <1>4, <1>6, <1>8, <1>9, <1>10, <1>11, <2>1, <2>2 DEF StateOK
<1>13. ClaimsInv
  <2>1. VersionInv
    BY <1>2, <1>3, <1>5, <1>6, <1>9, <1>10 DEF VersionInv
  <2>2. ClaimInv /\ CurrentInv
    BY <1>3, <1>7 DEF ClaimInv, CurrentInv, CurrentOK, Is
  <2>3. ChargeInv /\ OneExecution
    BY <1>3 DEF ChargeInv, OneExecution, Executing, Is
  <2> QED BY <2>1, <2>2, <2>3 DEF ClaimsInv
<1>14. StageInv
  <2>1. store.next = 1 /\ store.staged = {} /\ store.deletions = {} /\ store.captures = {}
    BY DEF Init
  <2>2. \A w \in Workers : BlobOK(workers[w])
    BY <1>5, <1>6, <2>1 DEF BlobOK
  <2> QED BY <2>1, <2>2 DEF StageInv, CaptureEvidence
<1> QED BY <1>12, <1>13, <1>14 DEF JobsInv

LEMMA StutterKeeps ==
  ASSUME JobsInv, UNCHANGED vars
  PROVE  JobsInv'
<1>1. StateOK /\ UNCHANGED <<obj, jobs, gaps, due, store, workers, epoch, live, lapsed, history, events>>
  BY DEF JobsInv, vars, history
<1>2. /\ gaps' \subseteq Revs /\ due' \subseteq gaps' /\ events' \in Nat
      /\ epoch' \in [Request -> Nat] /\ live' \in [Request -> BOOLEAN] /\ lapsed' \subseteq Launches
  BY <1>1 DEF StateOK
<1> QED BY <1>1, <1>2, ClockKeeps

LEMMA ClaimBackgroundKeeps ==
  ASSUME JobsInv, NEW w \in Background, NEW rev \in Revs, ClaimBackground(w, rev)
  PROVE  JobsInv'
<1>1. w \in Workers /\ workers[w].pc \notin Claiming /\ ClaimBy(w, rev)
  BY DEF ClaimBackground, Workers, Claiming
<1> QED BY <1>1, ClaimKeeps

LEMMA ClaimExplicitKeeps ==
  ASSUME JobsInv, NEW l \in Launches, ClaimExplicit(l)
  PROVE  JobsInv'
<1>1. l \in Workers /\ workers[l].pc = "claim" /\ ClaimBy(l, workers[l].rev)
  BY DEF ClaimExplicit, Workers
<1>2. workers[l].rev \in Revs /\ workers[l].pc \notin Claiming
  BY <1>1 DEF JobsInv, StateOK, WorkerOK, Preparing, Claiming
<1> QED BY <1>1, <1>2, ClaimKeeps

LEMMA PodNextKeeps ==
  ASSUME JobsInv, NEW l \in Launches, PodNext(l)
  PROVE  JobsInv'
<1>1. ASSUME NEW rev \in Revs, PodObserve(l, rev)
      PROVE  JobsInv'
  BY <1>1, PodObserveKeeps
<1>2. CASE PodEnqueue(l)
  BY <1>2, PodEnqueueKeeps
<1>3. CASE PodAdoptWait(l)
  BY <1>3, PodAdoptWaitKeeps
<1>4. CASE PodAdopt(l)
  BY <1>4, PodAdoptKeeps
<1>5. CASE ClaimExplicit(l)
  BY <1>5, ClaimExplicitKeeps
<1>6. CASE ReleaseUnclaimed(l)
  BY <1>6, ReleaseUnclaimedKeeps
<1> QED BY <1>1, <1>2, <1>3, <1>4, <1>5, <1>6 DEF PodNext

LEMMA ExecuteNextKeeps ==
  ASSUME JobsInv, NEW w \in Workers, ExecuteNext(w)
  PROVE  JobsInv'
<1>1. CASE Reserve(w)
  BY <1>1, ReserveKeeps
<1>2. CASE SkipClaim(w)
  BY <1>2, SkipClaimKeeps
<1>3. CASE ReleaseAdmissionWait(w)
  BY <1>3, ReleaseAdmissionWaitKeeps
<1>4. CASE DeferBudget(w)
  BY <1>4, DeferBudgetKeeps
<1>5. CASE DeferStorage(w)
  BY <1>5, DeferStorageKeeps
<1>6. ASSUME NEW retry \in BOOLEAN, FailClaim(w, retry)
      PROVE  JobsInv'
  BY <1>6, FailClaimKeeps
<1>7. CASE PublishStage(w)
  BY <1>7, PublishStageKeeps
<1>8. CASE PublishPut(w)
  BY <1>8, PublishPutKeeps
<1>9. CASE PublishConflict(w)
  BY <1>9, PublishConflictKeeps
<1>10. CASE PublishSame(w)
  BY <1>10, PublishSameKeeps
<1>11. ASSUME NEW complete \in BOOLEAN, PublishCapture(w, complete)
       PROVE  JobsInv'
  BY <1>11, PublishCaptureKeeps
<1>12. CASE Crash(w)
  BY <1>12, CrashKeeps
<1> QED BY <1>1, <1>2, <1>3, <1>4, <1>5, <1>6, <1>7, <1>8, <1>9, <1>10, <1>11, <1>12
        DEF ExecuteNext

\* Every step keeps the invariant.
LEMMA NextKeeps ==
  ASSUME JobsInv, [Next]_vars
  PROVE  JobsInv'
<1>1. ASSUME NEW rev \in Revs, NEW head \in BOOLEAN, NEW mark \in BOOLEAN,
             Refresh(rev, head, mark)
      PROVE  JobsInv'
  BY <1>1, RefreshKeeps
<1>2. CASE Quarantine
  BY <1>2, QuarantineKeeps
<1>3. CASE ReleaseHold
  BY <1>3, ReleaseHoldKeeps
<1>4. ASSUME NEW w \in Background, NEW rev \in Revs, ClaimBackground(w, rev)
      PROVE  JobsInv'
  BY <1>4, ClaimBackgroundKeeps
<1>5. ASSUME NEW l \in Launches, PodNext(l) \/ LapseLaunch(l)
      PROVE  JobsInv'
  BY <1>5, PodNextKeeps, LapseLaunchKeeps
<1>6. ASSUME NEW w \in Workers, ExecuteNext(w)
      PROVE  JobsInv'
  BY <1>6, ExecuteNextKeeps
<1>7. CASE Maintain
  BY <1>7, MaintainKeeps
<1>8. CASE RequeueDue
  BY <1>8, RequeueDueKeeps
<1>9. ASSUME NEW b \in Blobs, Unlink(b) \/ StageStale(b)
      PROVE  JobsInv'
  BY <1>9, UnlinkKeeps, StageStaleKeeps
<1>10. ASSUME NEW rev \in Revs, LapseClaim(rev) \/ Age(rev) \/ GapDue(rev)
       PROVE  JobsInv'
  BY <1>10, LapseClaimKeeps, AgeKeeps, GapDueKeeps
<1>11. CASE RequestStep
  BY <1>11, RequestStepKeeps
<1>12. CASE UNCHANGED vars
  BY <1>12, StutterKeeps
<1> QED BY <1>1, <1>2, <1>3, <1>4, <1>5, <1>6, <1>7, <1>8, <1>9, <1>10, <1>11, <1>12
        DEF Next

\* JobsInv is an inductive invariant of every step of the workers, the Pods, the
\* inventory, maintenance and the clock.
THEOREM JobsInductive == Spec => []JobsInv
<1>1. Init => JobsInv
  BY InitInv
<1>2. JobsInv /\ [Next]_vars => JobsInv'
  BY NextKeeps
<1> QED BY <1>1, <1>2, PTL DEF Spec

\* The types: attempts stays within 0..max_job_attempts through every claim, refund and
\* requeue, and a job is never owned without being explicit and having a recovery instant.
THEOREM TypeCorrect == Spec => []TypeOK
<1>1. JobsInv => TypeOK
  BY DEF JobsInv, StateOK, TypeOK, OwnerOK, Object, Execution
<1> QED BY <1>1, JobsInductive, PTL

\* claim_job_inner never lets two jobs of one object execute under valid leases,
\* whatever is requeued, adopted, superseded, deferred or reclaimed.
THEOREM OneExecutes == Spec => []OneExecution
<1>1. JobsInv => OneExecution
  BY DEF JobsInv, ClaimsInv
<1> QED BY <1>1, JobsInductive, PTL

\* No refund, requeue, deferral or adoption gives back an attempt whose execution
\* reserved a provider request.
THEOREM ChargesAreKept == Spec => []ChargesKept
<1>1. JobsInv => ChargesKept
  <2> SUFFICES ASSUME JobsInv, NEW rev \in Revs, jobs[rev] # NoJob
               PROVE  Cardinality(charged[rev]) <= jobs[rev].attempts
    BY DEF ChargesKept
  <2>1. StateOK /\ ChargeInv
    BY DEF JobsInv, ClaimsInv
  <2>2. jobs[rev].attempts \in Nat
    BY <2>1, JobsAssumption DEF StateOK, JobType
  <2>3. charged[rev] \subseteq Owed(rev)
    BY DEF Owed
  <2>4. Cardinality(Owed(rev)) <= jobs[rev].attempts
    BY <2>1 DEF ChargeInv
  <2>5. /\ Cardinality(charged[rev]) <= Cardinality(Owed(rev))
        /\ Cardinality(charged[rev]) \in Nat /\ Cardinality(Owed(rev)) \in Nat
    BY <2>1, <2>3, OwedLess
  <2> QED BY <2>2, <2>4, <2>5
<1> QED BY <1>1, JobsInductive, PTL

\* Every capture that publish commits has its evidence on disk, for good: neither the
\* collection of stale stages nor unlinking of deletions reaches it.
THEOREM EvidenceOnDisk == Spec => []CaptureEvidence
<1>1. JobsInv => CaptureEvidence
  BY DEF JobsInv, StageInv
<1> QED BY <1>1, JobsInductive, PTL

------------------------------------------------------------------------------
(* HEAD follows the inventory.                                             *)

\* Only a publication moves HEAD.
LEMMA HeadStays ==
  ASSUME JobsInv, Next, \A w \in Workers, complete \in BOOLEAN : ~PublishCapture(w, complete)
  PROVE  obj'.head = obj.head
<1>1. obj \in Object
  BY DEF JobsInv, StateOK
<1>2. ASSUME NEW rev, NEW head, NEW mark, NEW launch, Enqueue(rev, head, mark, launch)
      PROVE  obj'.head = obj.head
  <2>1. obj' = ObjAfter(rev, head, mark)
    BY <1>2 DEF Enqueue
  <2> QED BY <1>1, <2>1 DEF ObjAfter, Object
<1>3. ASSUME NEW rev \in Revs, NEW head \in BOOLEAN, NEW mark \in BOOLEAN,
             Refresh(rev, head, mark)
      PROVE  obj'.head = obj.head
  BY <1>2, <1>3 DEF Refresh
<1>4. CASE Quarantine \/ ReleaseHold
  BY <1>1, <1>4 DEF Quarantine, ReleaseHold, Object
<1>5. ASSUME NEW w, NEW rev, ClaimBy(w, rev)
      PROVE  obj'.head = obj.head
  BY <1>1, <1>5 DEF ClaimBy, Object
<1>6. ASSUME NEW l \in Launches, PodNext(l) \/ LapseLaunch(l)
      PROVE  obj'.head = obj.head
  <2>1. CASE PodEnqueue(l)
    BY <1>2, <2>1 DEF PodEnqueue
  <2>2. CASE PodAdoptWait(l)
    BY <1>1, <2>2 DEF PodAdoptWait, Object
  <2>3. CASE ClaimExplicit(l)
    BY <1>5, <2>3 DEF ClaimExplicit
  <2>4. CASE (\E rev \in Revs : PodObserve(l, rev)) \/ PodAdopt(l) \/ ReleaseUnclaimed(l)
             \/ LapseLaunch(l)
    BY <2>4 DEF PodObserve, PodAdopt, ReleaseUnclaimed, LapseLaunch
  <2> QED BY <1>6, <2>1, <2>2, <2>3, <2>4 DEF PodNext
<1>7. ASSUME NEW w \in Workers, ExecuteNext(w)
      PROVE  obj'.head = obj.head
  <2>1. CASE Reserve(w) \/ SkipClaim(w) \/ ReleaseAdmissionWait(w) \/ DeferBudget(w)
             \/ DeferStorage(w) \/ (\E retry \in BOOLEAN : FailClaim(w, retry))
    BY <2>1 DEF Reserve, SkipClaim, ReleaseAdmissionWait, DeferBudget, DeferStorage,
                FailClaim, Settle
  <2>2. CASE PublishStage(w) \/ PublishPut(w) \/ PublishConflict(w) \/ Crash(w)
    BY <2>2 DEF PublishStage, PublishPut, PublishConflict, Crash
  <2>3. CASE PublishSame(w)
    BY <1>1, <2>3 DEF PublishSame, Object
  <2> QED BY <1>7, <2>1, <2>2, <2>3 DEF ExecuteNext
<1>8. CASE Maintain \/ RequeueDue \/ RequestStep
  BY <1>8 DEF Maintain, RequeueDue, RequestStep
<1>9. ASSUME NEW b \in Blobs, Unlink(b) \/ StageStale(b)
      PROVE  obj'.head = obj.head
  BY <1>9 DEF Unlink, StageStale
<1>10. ASSUME NEW rev \in Revs, LapseClaim(rev) \/ Age(rev) \/ GapDue(rev)
       PROVE  obj'.head = obj.head
  BY <1>10 DEF LapseClaim, Age, GapDue
<1>11. ASSUME NEW w \in Background, NEW rev \in Revs, ClaimBackground(w, rev)
       PROVE  obj'.head = obj.head
  BY <1>5, <1>11 DEF ClaimBackground
<1> QED BY <1>3, <1>4, <1>6, <1>7, <1>8, <1>9, <1>10, <1>11 DEF Next

\* What a publication that moves HEAD has checked.
LEMMA HeadMoves ==
  ASSUME JobsInv, NEW w \in Workers, NEW complete \in BOOLEAN, PublishCapture(w, complete),
         obj'.head # obj.head
  PROVE  /\ \E new \in store'.captures : new[1] = obj'.head
         /\ \A new \in store'.captures : new[1] = obj'.head =>
              /\ new[2] = obj.desired /\ ~obj.conflict
              /\ obj.head # 0 /\ CaptureOf(obj.head)[3] => new[3]
<1> DEFINE c == workers[w]
           kept == PreserveHead(c, complete)
           fourth == ~(kept /\ CaptureOf(c.prev)[2] = c.rev)
<1>0. PICK f \in BOOLEAN : f = fourth
  OBVIOUS
<1> DEFINE row == <<c.blob, c.rev, complete, f>>
<1>1. obj \in Object /\ store \in Store /\ StageInv /\ CurrentInv
  BY DEF JobsInv, ClaimsInv, StateOK
<1>2. c.pc = "commit" /\ MayCommit(c)
  BY DEF PublishCapture
<1>3. obj'.head = IF c.head /\ ~kept THEN c.blob ELSE obj.head
  BY <1>1 DEF PublishCapture, Object
<1>4. c.head /\ ~kept /\ obj'.head = c.blob
  BY <1>3
<1>5. c.rev = obj.desired /\ ~obj.conflict /\ c.prev = obj.head
  <2>1. CurrentOK(c)
    BY <1>1 DEF CurrentInv
  <2>2. c.version = obj.version
    BY <1>2 DEF MayCommit
  <2> QED BY <1>2, <1>4, <2>1, <2>2 DEF CurrentOK, Claiming
<1>6. store'.captures = store.captures \cup {row}
  BY <1>0, <1>1 DEF PublishCapture, Store
<1>7. \A d \in store.captures : d[1] # c.blob
  BY <1>1, <1>2 DEF StageInv, MayCommit, Staged
<1>8. row \in store'.captures /\ row[1] = obj'.head
  BY <1>4, <1>6
<1>9. \A d \in store'.captures : d[1] = obj'.head => d = row
  BY <1>4, <1>6, <1>7
<1>10. row[2] = c.rev /\ row[3] = complete
  <2> HIDE DEF c
  <2> QED OBVIOUS
<1>11. ASSUME obj.head # 0, CaptureOf(obj.head)[3]
       PROVE  complete
  BY <1>4, <1>5, <1>11 DEF PreserveHead
<1>12. obj.head # 0 /\ CaptureOf(obj.head)[3] => row[3]
  <2> HIDE DEF c, kept, row
  <2> QED BY <1>10, <1>11
<1> HIDE DEF row
<1> QED BY <1>5, <1>8, <1>9, <1>10, <1>12

\* HEAD moves only to the revision that the inventory last asked for, never while the
\* inventory is ambiguous, and never from a complete capture to an incomplete one: the
\* version that publish compares fences off every claim that was superseded.
THEOREM HeadFollows == Spec => HeadFollowsInventory
<1> DEFINE Follows ==
      obj'.head # obj.head =>
          LET new == CHOOSE c \in store'.captures : c[1] = obj'.head
          IN  /\ new[2] = obj.desired /\ ~obj.conflict
              /\ obj.head # 0 /\ CaptureOf(obj.head)[3] => new[3]
<1>1. JobsInv /\ [Next]_vars => [Follows]_vars
  <2> SUFFICES ASSUME JobsInv, Next, obj'.head # obj.head
               PROVE  Follows
    BY DEF vars
  <2>1. PICK w \in Workers, complete \in BOOLEAN : PublishCapture(w, complete)
    BY HeadStays
  <2>2. PICK new : new = CHOOSE c \in store'.captures : c[1] = obj'.head
    OBVIOUS
  <2>3. \E c \in store'.captures : c[1] = obj'.head
    BY <2>1, HeadMoves
  <2>4. new \in store'.captures /\ new[1] = obj'.head
    BY <2>2, <2>3
  <2>5. /\ new[2] = obj.desired /\ ~obj.conflict
        /\ obj.head # 0 /\ CaptureOf(obj.head)[3] => new[3]
    BY <2>1, <2>4, HeadMoves
  <2> QED BY <2>2, <2>5
<1> QED BY <1>1, JobsInductive, PTL DEF Spec, HeadFollowsInventory

------------------------------------------------------------------------------
(* Explicit jobs stay with their requests.                                 *)

\* A job that leaves the queue or keeps its owner and starts no execution.
Held(q) ==
    \/ jobs'[q] = jobs[q]
    \/ jobs'[q].status \notin Queued
    \/ /\ jobs'[q].owner = jobs[q].owner
       /\ jobs'[q].status = "running" /\ jobs'[q].category = "none" =>
             jobs[q].status = "running" /\ jobs[q].category = "none"

\* A queued job of a live request is held, or one of the request's Pods acts.
OwnedByLive(q) == Is(q, Queued) /\ jobs[q].owner # None /\ live[jobs[q].owner]
PodActs(q) == \E l \in Launches : l[1] = jobs[q].owner /\ workers'[l] # workers[l]
StaysOwned(q) == OwnedByLive(q) => Held(q) \/ PodActs(q)

\* Of one job that changes.
LEMMA OneHeld ==
  ASSUME StateOK, NEW rev \in Revs, NEW j, jobs' = [jobs EXCEPT ![rev] = j] \/ jobs' = jobs,
         \/ ~OwnedByLive(rev) \/ PodActs(rev) \/ j.status \notin Queued
         \/ /\ j.owner = jobs[rev].owner
            /\ j.status = "running" /\ j.category = "none" =>
                  jobs[rev].status = "running" /\ jobs[rev].category = "none"
  PROVE  \A q \in Revs : StaysOwned(q)
<1> TAKE q \in Revs
<1>1. jobs'[q] = jobs[q] \/ (q = rev /\ jobs'[q] = j)
  BY DEF StateOK
<1> QED BY <1>1 DEF StaysOwned, Held

\* Enqueueing for the inventory or for another request.
LEMMA EnqueueHolds ==
  ASSUME StateOK, NEW rev \in Revs, NEW head, NEW mark, NEW launch,
         Enqueue(rev, head, mark, launch)
  PROVE  \A q \in Revs : StaysOwned(q)
<1> DEFINE others == Supersede(rev, head)
<1>1. others \in [Revs -> JobType \cup {NoJob}]
  <2> SUFFICES ASSUME NEW q \in Revs
               PROVE  others[q] \in JobType \cup {NoJob}
    BY DEF Supersede
  <2>1. others[q] = jobs[q] \/ (Is(q, Queued) /\ others[q] = [jobs[q] EXCEPT !.status = "failed"])
    BY DEF Supersede
  <2>2. jobs[q] \in JobType => [jobs[q] EXCEPT !.status = "failed"] \in JobType
    BY DEF JobType
  <2> QED BY <2>1, <2>2 DEF StateOK, Is
<1>2. ASSUME NEW q \in Revs
      PROVE  others[q] = jobs[q] \/ (q # rev /\ others[q].status \notin Queued)
  <2>1. CASE others[q] = jobs[q]
    BY <2>1
  <2>2. CASE others[q] # jobs[q]
    <3>1. q # rev /\ Is(q, Queued) /\ others[q] = [jobs[q] EXCEPT !.status = "failed"]
      BY <2>2 DEF Supersede
    <3>2. jobs[q] \in JobType
      BY <3>1 DEF StateOK, Is
    <3> QED BY <3>1, <3>2 DEF JobType, Queued, Busy
  <2> QED BY <2>1, <2>2
<1> SUFFICES ASSUME NEW q \in Revs, OwnedByLive(q)
             PROVE  Held(q)
  BY DEF StaysOwned
<1>3. CASE jobs' = others
  BY <1>2, <1>3 DEF Held
<1>4. CASE q # rev
  <2>1. jobs'[q] = others[q]
    <3> HIDE DEF others
    <3> QED BY <1>1, <1>4 DEF Enqueue, others
  <2> QED BY <1>2, <2>1 DEF Held
<1>5. CASE q = rev /\ jobs' # others
  <2>1. PICK v, o : jobs' = [others EXCEPT ![rev] =
                               NewJob(v, TRUE, o, jobs[rev].owner, jobs[rev].until)]
    BY <1>5 DEF Enqueue, OwnedByLive
  <2>2. jobs'[q] = NewJob(v, TRUE, o, jobs[rev].owner, jobs[rev].until)
    <3> HIDE DEF others
    <3> QED BY <1>1, <1>5, <2>1
  <2> QED BY <1>5, <2>2 DEF Held, NewJob
<1> QED BY <1>3, <1>4, <1>5

\* A claim: the continuous worker takes unowned jobs only, a Pod its own.
LEMMA ClaimsHold ==
  ASSUME StateOK, NEW w \in Workers, NEW rev \in Revs, ClaimBy(w, rev),
         ~OwnedByLive(rev) \/ PodActs(rev)
  PROVE  \A q \in Revs : StaysOwned(q)
<1>1. PICK j : j = jobs'[rev]
  OBVIOUS
<1>2. jobs' = [jobs EXCEPT ![rev] = j]
  BY <1>1, ClaimFacts
<1> QED BY <1>2, OneHeld

LEMMA ClaimBackgroundHolds ==
  ASSUME StateOK, NEW w \in Background, NEW rev \in Revs, ClaimBackground(w, rev)
  PROVE  \A q \in Revs : StaysOwned(q)
<1>1. w \in Workers /\ ClaimBy(w, rev) /\ ~OwnedByLive(rev)
  BY DEF Workers, ClaimBackground, Unowned, OwnedByLive
<1> QED BY <1>1, ClaimsHold

\* The Pods.
LEMMA PodActsHolds ==
  ASSUME StateOK, NEW l \in Launches, NEW rev \in Revs, jobs[rev].owner = l[1],
         workers[l].pc = "claim", workers'[l].pc # "claim"
  PROVE  PodActs(rev)
  BY DEF PodActs

LEMMA PodHolds ==
  ASSUME JobsInv, NEW l \in Launches, PodNext(l) \/ LapseLaunch(l)
  PROVE  \A q \in Revs : StaysOwned(q)
<1>1. StateOK /\ l \in Workers /\ workers \in [Workers -> Execution] /\ l[1] \in Request
      /\ l[1] # None
  BY JobsAssumption DEF JobsInv, StateOK, Workers, Launches
<1>2. workers[l].pc \in Preparing => workers[l].rev \in Revs
  BY <1>1 DEF StateOK, WorkerOK
<1>3. CASE jobs' = jobs
  BY <1>3 DEF StaysOwned, Held
<1>4. PICK rev : rev = workers[l].rev
  OBVIOUS
<1>5. CASE PodEnqueue(l)
  <2>1. rev \in Revs
    BY <1>2, <1>4, <1>5 DEF PodEnqueue, Preparing
  <2>2. CASE jobs' = jobs
    BY <1>3, <2>2
  <2>3. CASE Enqueue(rev, TRUE, FALSE, l)
    BY <1>1, <2>1, <2>3, EnqueueHolds
  <2> QED BY <1>4, <1>5, <2>2, <2>3 DEF PodEnqueue
<1>6. CASE PodAdoptWait(l)
  <2>1. rev \in Revs
    BY <1>2, <1>4, <1>6 DEF PodAdoptWait, Preparing
  <2>2. CASE jobs' = jobs
    BY <1>3, <2>2
  <2>3. CASE jobs' # jobs
    <3>1. ~OwnedByLive(rev)
      BY <1>4, <1>6, <2>3 DEF PodAdoptWait, BudgetWait, Unowned, OwnedByLive
    <3>2. \E j : jobs' = [jobs EXCEPT ![rev] = j]
      BY <1>4, <1>6, <2>3 DEF PodAdoptWait
    <3> QED BY <1>1, <2>1, <3>1, <3>2, OneHeld
  <2> QED BY <2>2, <2>3
<1>7. CASE PodAdopt(l)
  <2>1. rev \in Revs
    BY <1>2, <1>4, <1>7 DEF PodAdopt, Preparing
  <2>2. CASE jobs' = jobs
    BY <1>3, <2>2
  <2>3. CASE jobs' # jobs
    <3>1. Is(rev, Queued) /\ Adoptable(rev, l[1])
      BY <1>4, <1>7, <2>3 DEF PodAdopt
    <3>2. jobs[rev] \in JobType
      BY <1>1, <2>1, <3>1 DEF Is, StateOK
    <3>3. PICK u : u = IF jobs[rev].owner = l[1] THEN jobs[rev].until ELSE l
      OBVIOUS
    <3>4. PICK j : j = [jobs[rev] EXCEPT !.owner = l[1], !.origin = TRUE, !.until = u]
      OBVIOUS
    <3>5. jobs' = [jobs EXCEPT ![rev] = j]
      <4>1. jobs \in [Revs -> JobType \cup {NoJob}]
        BY <1>1 DEF StateOK
      <4> QED BY <1>4, <1>7, <2>1, <3>1, <3>3, <3>4, <4>1 DEF PodAdopt
    <3>6. j.owner = l[1] /\ j.status = jobs[rev].status /\ j.category = jobs[rev].category
      BY <3>2, <3>4 DEF JobType
    <3>7. j.owner = jobs[rev].owner \/ ~OwnedByLive(rev)
      BY <3>1, <3>6 DEF Adoptable, OwnerDead, OwnedByLive
    <3> QED BY <1>1, <2>1, <3>5, <3>6, <3>7, OneHeld
  <2> QED BY <2>2, <2>3
<1>8. CASE ClaimExplicit(l)
  <2>1. rev \in Revs /\ ClaimBy(l, rev) /\ jobs[rev].owner = l[1] /\ workers[l].pc = "claim"
    BY <1>2, <1>4, <1>8 DEF ClaimExplicit, Preparing
  <2>2. workers'[l].pc = "call"
    BY <1>1, <2>1, ClaimFacts
  <2> QED BY <1>1, <2>1, <2>2, PodActsHolds, ClaimsHold
<1>9. CASE ReleaseUnclaimed(l)
  <2>1. rev \in Revs /\ workers[l].pc = "claim"
    BY <1>2, <1>4, <1>9 DEF ReleaseUnclaimed, Preparing
  <2>2. CASE jobs' = jobs
    BY <1>3, <2>2
  <2>3. CASE jobs' # jobs
    <3>1. jobs[rev].owner = l[1] /\ \E j : jobs' = [jobs EXCEPT ![rev] = j]
      BY <1>4, <1>9, <2>3 DEF ReleaseUnclaimed
    <3>2. workers'[l] = Ended(l)
      BY <1>1, <1>9 DEF ReleaseUnclaimed, PodEnds
    <3>3. workers'[l].pc # "claim"
      BY <3>2, EndedType
    <3>4. PodActs(rev)
      BY <1>1, <2>1, <3>1, <3>3, PodActsHolds
    <3> QED BY <1>1, <2>1, <3>1, <3>4, OneHeld
  <2> QED BY <2>2, <2>3
<1>10. CASE (\E q \in Revs : PodObserve(l, q)) \/ LapseLaunch(l)
  BY <1>3, <1>10 DEF PodObserve, LapseLaunch
<1> QED BY <1>5, <1>6, <1>7, <1>8, <1>9, <1>10 DEF PodNext

\* A settlement rewrites neither the owner nor the start of an execution.
LEMMA SettlesHold ==
  ASSUME StateOK, NEW w \in Workers, workers[w].pc \in Claiming, NEW j,
         jobs' = [jobs EXCEPT ![workers[w].rev] = j] \/ jobs' = jobs,
         jobs' = jobs \/ j.status \notin Queued \/
            (j.owner = jobs[workers[w].rev].owner /\ (j.status # "running" \/ j.category # "none"))
  PROVE  \A q \in Revs : StaysOwned(q)
<1>1. workers[w].rev \in Revs
  BY DEF StateOK, WorkerOK
<1>2. CASE jobs' = jobs
  BY <1>2 DEF StaysOwned, Held
<1>3. CASE jobs' # jobs
  BY <1>1, <1>3, OneHeld
<1> QED BY <1>2, <1>3

\* The executions.
LEMMA ExecuteHolds ==
  ASSUME JobsInv, NEW w \in Workers, ExecuteNext(w)
  PROVE  \A q \in Revs : StaysOwned(q)
<1>1. StateOK
  BY DEF JobsInv
<1>2. CASE jobs' = jobs
  BY <1>2 DEF StaysOwned, Held
<1>3. PICK rev : rev = workers[w].rev
  OBVIOUS
<1>4. workers[w].pc \in Claiming => rev \in Revs
  BY <1>1, <1>3 DEF StateOK, WorkerOK
<1>5. CASE SkipClaim(w) \/ ReleaseAdmissionWait(w) \/ DeferBudget(w)
           \/ (\E retry \in BOOLEAN : FailClaim(w, retry))
  <2>1. CASE Owns(workers[w])
    <3>1. workers[w].pc \in Claiming
      BY <1>5 DEF SkipClaim, ReleaseAdmissionWait, DeferBudget, FailClaim, Claiming
    <3>2. jobs[rev] \in JobType
      BY <1>1, <1>3, <1>4, <2>1, <3>1 DEF Owns, Is, StateOK
    <3>3. PICK j : /\ jobs' = [jobs EXCEPT ![rev] = j]
                   /\ \/ j = [jobs[rev] EXCEPT !.status = "failed"]
                      \/ j = [jobs[rev] EXCEPT !.status = "pending"]
                      \/ \E n : j = [jobs[rev] EXCEPT !.status = "pending", !.attempts = n]
                      \/ \E n : j = [jobs[rev] EXCEPT !.status = "running",
                                        !.category = "budget_wait", !.attempts = n]
      <4>1. CASE SkipClaim(w)
        BY <1>3, <2>1, <4>1 DEF SkipClaim, Settle, Claimed
      <4>2. ASSUME NEW retry \in BOOLEAN, FailClaim(w, retry)
            PROVE  jobs' = [jobs EXCEPT ![rev] = [jobs[rev] EXCEPT !.status = "failed"]]
                   \/ jobs' = [jobs EXCEPT ![rev] = [jobs[rev] EXCEPT !.status = "pending"]]
        BY <1>3, <2>1, <4>2 DEF FailClaim, Settle, Claimed
      <4>3. CASE ReleaseAdmissionWait(w)
        <5>1. jobs' = [jobs EXCEPT ![rev] = [jobs[rev] EXCEPT !.status = "pending",
                                                !.attempts = jobs[rev].attempts - 1]]
          BY <1>3, <2>1, <3>2, <4>3 DEF ReleaseAdmissionWait, Settle, Claimed, JobType
        <5> QED BY <5>1
      <4>4. CASE DeferBudget(w)
        <5>1. \/ jobs' = [jobs EXCEPT ![rev] = [jobs[rev] EXCEPT !.status = "failed"]]
              \/ \E n : jobs' = [jobs EXCEPT ![rev] = [jobs[rev] EXCEPT !.status = "running",
                                                !.category = "budget_wait", !.attempts = n]]
          BY <1>3, <2>1, <3>2, <4>4 DEF DeferBudget, Settle, Claimed, JobType
        <5> QED BY <5>1
      <4> QED BY <1>5, <4>1, <4>2, <4>3, <4>4
    <3>4. j.owner = jobs[rev].owner
          /\ (j.status # "running" \/ j.category # "none")
      BY <3>2, <3>3 DEF JobType
    <3> QED BY <1>1, <1>3, <3>1, <3>3, <3>4, SettlesHold
  <2>2. CASE ~Owns(workers[w])
    BY <1>2, <1>5, <2>2 DEF SkipClaim, ReleaseAdmissionWait, DeferBudget, FailClaim, Settle
  <2> QED BY <2>1, <2>2
<1>6. CASE DeferStorage(w)
  <2>1. CASE jobs' = jobs
    BY <1>2, <2>1
  <2>2. CASE jobs' # jobs
    <3>1. workers[w].pc \in Claiming
      BY <1>6 DEF DeferStorage, Claiming
    <3>2. jobs[rev] \in JobType
      BY <1>1, <1>3, <1>4, <1>6, <2>2, <3>1 DEF DeferStorage, Owns, Is, StateOK
    <3>3. PICK j : /\ jobs' = [jobs EXCEPT ![rev] = j]
                   /\ \/ j = [jobs[rev] EXCEPT !.status = "failed"]
                      \/ j = [jobs[rev] EXCEPT !.category = "cooldown"]
      BY <1>1, <1>3, <1>4, <1>6, <2>2, <3>1 DEF DeferStorage, StateOK
    <3>4. j.owner = jobs[rev].owner
          /\ (j.status # "running" \/ j.category # "none")
      BY <3>2, <3>3 DEF JobType
    <3> QED BY <1>1, <1>3, <3>1, <3>3, <3>4, SettlesHold
  <2> QED BY <2>1, <2>2
<1>7. CASE PublishSame(w) \/ (\E complete \in BOOLEAN : PublishCapture(w, complete))
  <2>1. workers[w].pc \in Claiming /\ MayCommit(workers[w])
    BY <1>7 DEF PublishSame, PublishCapture, Claiming
  <2>2. jobs[rev] \in JobType
    BY <1>1, <1>3, <1>4, <2>1 DEF MayCommit, Authorized, Is, StateOK
  <2>3. PICK j : j = [jobs[rev] EXCEPT !.status = "done"]
    OBVIOUS
  <2>4. \E complete : PublishEnds(w, complete)
    BY <1>7 DEF PublishSame, PublishCapture
  <2>5. jobs' = [jobs EXCEPT ![rev] = j]
    BY <1>1, <1>3, <1>4, <2>1, <2>3, <2>4 DEF PublishEnds, StateOK
  <2>6. j.status \notin Queued
    BY <2>2, <2>3 DEF JobType, Queued, Busy
  <2> QED BY <1>1, <1>3, <2>1, <2>5, <2>6, SettlesHold
<1>8. CASE Reserve(w) \/ PublishStage(w) \/ PublishPut(w) \/ PublishConflict(w) \/ Crash(w)
  BY <1>2, <1>8 DEF Reserve, PublishStage, PublishPut, PublishConflict, Crash
<1> QED BY <1>5, <1>6, <1>7, <1>8 DEF ExecuteNext

\* Maintenance, requeueing and the inventory.
LEMMA StatusHolds ==
  ASSUME StateOK, \A q \in Revs : \/ jobs'[q] = jobs[q]
                                  \/ Is(q, Queued) /\ jobs'[q] = [jobs[q] EXCEPT !.status = "failed"]
  PROVE  \A q \in Revs : StaysOwned(q)
<1> TAKE q \in Revs
<1>1. CASE jobs'[q] = jobs[q]
  BY <1>1 DEF StaysOwned, Held
<1>2. CASE Is(q, Queued) /\ jobs'[q] = [jobs[q] EXCEPT !.status = "failed"]
  <2>1. jobs[q] \in JobType
    BY <1>2 DEF StateOK, Is
  <2>2. jobs'[q].status \notin Queued
    BY <1>2, <2>1 DEF JobType, Queued, Busy
  <2> QED BY <2>2 DEF StaysOwned, Held
<1> QED BY <1>1, <1>2

LEMMA RequeueHolds ==
  ASSUME StateOK, RequeueDue
  PROVE  \A q \in Revs : StaysOwned(q)
<1> SUFFICES ASSUME NEW q \in Revs, OwnedByLive(q)
             PROVE  jobs'[q] = jobs[q]
  BY DEF StaysOwned, Held
<1>1. ~Stranded(q)
  BY DEF OwnedByLive, Stranded, OwnerDead
<1>2. ~Retriable(q)
  BY DEF OwnedByLive, Retriable, Is, Queued, Busy
<1> QED BY <1>1, <1>2 DEF RequeueDue

LEMMA ClockHolds ==
  ASSUME StateOK, NEW rev \in Revs, LapseClaim(rev) \/ Age(rev) \/ GapDue(rev)
  PROVE  \A q \in Revs : StaysOwned(q)
<1>1. CASE GapDue(rev)
  BY <1>1 DEF GapDue, StaysOwned, Held
<1>2. CASE LapseClaim(rev) \/ Age(rev)
  <2>1. jobs[rev] \in JobType
    BY <1>2 DEF LapseClaim, Age, Is, StateOK
  <2>2. PICK j : /\ jobs' = [jobs EXCEPT ![rev] = j]
                 /\ \/ j = [jobs[rev] EXCEPT !.status = "lapsed"]
                    \/ j = [jobs[rev] EXCEPT !.aged = TRUE]
    BY <1>2 DEF LapseClaim, Age, StateOK
  <2>3. /\ j.owner = jobs[rev].owner
        /\ j.status = "running" /\ j.category = "none" =>
              jobs[rev].status = "running" /\ jobs[rev].category = "none"
    BY <2>1, <2>2 DEF JobType
  <2> QED BY <2>2, <2>3, OneHeld
<1> QED BY <1>1, <1>2

\* No step takes a queued job away from a live request.
LEMMA NextHolds ==
  ASSUME JobsInv, Next
  PROVE  \A q \in Revs : StaysOwned(q)
<1>1. StateOK
  BY DEF JobsInv
<1>2. CASE jobs' = jobs
  BY <1>2 DEF StaysOwned, Held
<1>3. ASSUME NEW rev \in Revs, NEW head \in BOOLEAN, NEW mark \in BOOLEAN,
             Refresh(rev, head, mark)
      PROVE  \A q \in Revs : StaysOwned(q)
  BY <1>1, <1>3, EnqueueHolds DEF Refresh
<1>4. CASE Quarantine \/ Maintain
  <2>1. \A q \in Revs : \/ jobs'[q] = jobs[q]
                        \/ Is(q, Queued) /\ jobs'[q] = [jobs[q] EXCEPT !.status = "failed"]
    BY <1>4 DEF Quarantine, Maintain, Is, Queued, Busy
  <2> QED BY <1>1, <2>1, StatusHolds
<1>5. ASSUME NEW w \in Background, NEW rev \in Revs, ClaimBackground(w, rev)
      PROVE  \A q \in Revs : StaysOwned(q)
  BY <1>1, <1>5, ClaimBackgroundHolds
<1>6. ASSUME NEW l \in Launches, PodNext(l) \/ LapseLaunch(l)
      PROVE  \A q \in Revs : StaysOwned(q)
  BY <1>6, PodHolds
<1>7. ASSUME NEW w \in Workers, ExecuteNext(w)
      PROVE  \A q \in Revs : StaysOwned(q)
  BY <1>7, ExecuteHolds
<1>8. CASE RequeueDue
  BY <1>1, <1>8, RequeueHolds
<1>9. ASSUME NEW b \in Blobs, Unlink(b) \/ StageStale(b)
      PROVE  jobs' = jobs
  BY <1>9 DEF Unlink, StageStale
<1>10. ASSUME NEW rev \in Revs, LapseClaim(rev) \/ Age(rev) \/ GapDue(rev)
       PROVE  \A q \in Revs : StaysOwned(q)
  BY <1>1, <1>10, ClockHolds
<1>11. CASE ReleaseHold \/ RequestStep
  BY <1>2, <1>11 DEF ReleaseHold, RequestStep
<1> QED BY <1>2, <1>3, <1>4, <1>5, <1>6, <1>7, <1>8, <1>9, <1>10, <1>11 DEF Next

\* While its request is live a queued explicit job belongs to it: neither the continuous
\* worker's claims, a recovery, a requeue, an enqueue nor another request's adoption takes
\* it, and it starts to execute only by a step of one of the request's own Pods.
THEOREM OwnersKept == Spec => OwnerKept
<1> DEFINE Kept ==
      \A rev \in Revs :
          LET owner == jobs[rev].owner
              taken == \/ jobs'[rev].owner # owner
                       \/ ~Executing(rev) /\ Executing(rev)'
          IN  Is(rev, Queued) /\ owner # None /\ live[owner] /\ Is(rev, Queued)' /\ taken
                => \E l \in Launches : l[1] = owner /\ workers'[l] # workers[l]
<1>1. JobsInv /\ [Next]_vars => [Kept]_vars
  <2> SUFFICES ASSUME JobsInv, Next, NEW rev \in Revs,
                      Is(rev, Queued), jobs[rev].owner # None, live[jobs[rev].owner],
                      Is(rev, Queued)',
                      jobs'[rev].owner # jobs[rev].owner \/ (~Executing(rev) /\ Executing(rev)')
               PROVE  PodActs(rev)
    BY DEF PodActs
  <2>1. StaysOwned(rev)
    BY NextHolds
  <2>2. Held(rev) \/ PodActs(rev)
    BY <2>1 DEF StaysOwned, OwnedByLive
  <2>3. ~Held(rev)
    <3>1. jobs'[rev] # NoJob /\ jobs'[rev].status \in Queued
      BY DEF Is
    <3>2. jobs[rev] # NoJob
      BY DEF Is
    <3>3. Executing(rev) <=> jobs[rev].status = "running" /\ jobs[rev].category = "none"
      BY <3>2 DEF Executing, Is
    <3>4. Executing(rev)' <=> jobs'[rev].status = "running" /\ jobs'[rev].category = "none"
      BY <3>1 DEF Executing, Is
    <3> QED BY <3>1, <3>3, <3>4 DEF Held
  <2> QED BY <2>2, <2>3
<1> QED BY <1>1, JobsInductive, PTL DEF Spec, OwnerKept

=============================================================================
