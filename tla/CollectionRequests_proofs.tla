--------------------- MODULE CollectionRequests_proofs ---------------------
(***************************************************************************)
(* For any keys, schedulers, limits and times: one request per key can be   *)
(* collecting or claimable, an explicit receipt is never deleted early, a   *)
(* live launch is ended by the clock or by its own Job or Pod, and the      *)
(* queue implements the ledger of launches that the corpus store relies on. *)
(*                                                                         *)
(* The argument goes through RowStep: every step of Next changes the rows   *)
(* in one of eight ways (RowsStep), and each property follows from those,   *)
(* not from the twenty actions.                                             *)
(***************************************************************************)
EXTENDS CollectionRequests, WellFoundedInduction, TLAPS

\* A row that exists.  The bounds of its columns are part of RowsOK.
Row == [key : Keys, status : Unsettled \cup Terminal, reason : Reasons,
        payload : BOOLEAN, left : Times, explicit : Times, lease : Times,
        epoch : Nat, job : Nat, done : Times]

PodStates == {"none", "work", "ack", "over"}
JobStates == {"none", "active", "complete", "failed"}
SchedRecords == [pc : {"reap", "list", "get", "fail", "create", "mark", "down"},
                 todo : SUBSET Launches, at : Launches \cup {<<0, 0>>}]

StateOK ==
    /\ rows \in [Ids -> Row \cup {NoRow}]
    /\ nextId \in 1..(MaxRows + 1)
    /\ seen \in -1..SeenFor
    /\ jobs \in [Launches -> JobStates]
    /\ pods \in [Launches -> PodStates]
    /\ sched \in [Schedulers -> SchedRecords]
    /\ launched \in 0..MaxLaunches
    /\ trouble \in 0..MaxTrouble

\* What the columns of a row say of each other: only a claim sets a lease or an
\* epoch, and the row lives at least as long as an explicit receipt.
RowOK(r, row) ==
    /\ r < nextId
    /\ row.epoch <= launched /\ row.job <= launched
    /\ row.status \in Active \cup {"deferred"} <=> row.lease # NoTime
    /\ row.status \in Active => row.epoch >= 1
    /\ row.explicit <= row.left

\* A scheduler that is creating, marking or failing a launch knows which.
SchedOK ==
    \A s \in Schedulers : sched[s].pc \in {"create", "mark", "fail"} => sched[s].at \in Launches

\* A launch has at most one Job, created for an epoch that its row has reached; a
\* finished Job has no Pod left, and a Pod that settled its launch ended it.
JobsOK ==
    \A l \in Launches :
        /\ jobs[l] # "none" =>
              /\ l[1] < nextId
              /\ Present(l[1]) => l[2] <= rows[l[1]].epoch
        /\ pods[l] # "none" => jobs[l] # "none"
        /\ jobs[l] \in {"complete", "failed"} => pods[l] = "over"
        /\ pods[l] = "ack" => ~LiveAt(l[1], l[2])

\* A claimed launch is created by its own scheduler only, and the Job that a
\* scheduler is about to report failed stays failed.
CreateOK ==
    /\ \A s \in Schedulers : sched[s].pc = "create" =>
          /\ jobs[sched[s].at] = "none"
          /\ sched[s].at[1] < nextId
          /\ Present(sched[s].at[1]) => sched[s].at[2] <= rows[sched[s].at[1]].epoch
    /\ \A s, t \in Schedulers :
          sched[s].pc = "create" /\ sched[t].pc = "create" /\ s # t => sched[s].at # sched[t].at
    /\ \A s \in Schedulers : sched[s].pc = "fail" => jobs[sched[s].at] = "failed"

RowsOK == \A r \in Ids : Present(r) => RowOK(r, rows[r])

------------------------------------------------------------------------------
(* Operators of the model.                                                  *)

LEMMA MinOfNats ==
    ASSUME NEW S \in SUBSET Nat, S # {}
    PROVE  Min(S) \in S /\ \A y \in S : Min(S) <= y
<1> DEFINE R == {ss \in Nat \X Nat : ss[1] < ss[2]}
<1>1. IsWellFoundedOn(R, Nat)
  BY NatLessThanWellFounded, Zenon DEF OpToRel
<1>2. \A x, y \in Nat : y < x => <<y, x>> \in R
  OBVIOUS
<1> HIDE DEF R
<1>3. PICK x \in S : \A y \in S : ~(<<y, x>> \in R)
  BY <1>1, WFMin
<1>4. \A y \in S : x <= y
  <2> SUFFICES ASSUME NEW y \in S PROVE x <= y
    OBVIOUS
  <2>1. x \in Nat /\ y \in Nat
    OBVIOUS
  <2>2. ~(y < x)
    BY <1>2, <1>3, <2>1, Zenon
  <2> QED BY <2>1, <2>2
<1> QED BY <1>4 DEF Min

LEMMA MaxOfBounded ==
    ASSUME NEW n \in Nat, NEW S \in SUBSET (0..n), S # {}
    PROVE  Max(S) \in S /\ \A y \in S : y <= Max(S)
<1> DEFINE T == {n - x : x \in S}
<1>1. T \in SUBSET Nat /\ T # {}
  <2>1. PICK x \in S : TRUE
    OBVIOUS
  <2>2. n - x \in T
    OBVIOUS
  <2>3. \A y \in S : n - y \in Nat
    OBVIOUS
  <2> QED BY <2>2, <2>3
<1>2. Min(T) \in T /\ \A y \in T : Min(T) <= y
  BY <1>1, MinOfNats
<1>3. \E x \in S : \A y \in S : x >= y
  <2>1. PICK x \in S : Min(T) = n - x
    BY <1>2
  <2>2. \A y \in S : x >= y
    <3> SUFFICES ASSUME NEW y \in S PROVE x >= y
      OBVIOUS
    <3>1. n - y \in T
      OBVIOUS
    <3>2. n - x <= n - y
      BY <3>1, <2>1, <1>2
    <3> QED BY <3>2
  <2> QED BY <2>2
<1> QED BY <1>3 DEF Max

LEMMA MaxOfTwo ==
    ASSUME NEW a \in Int, NEW b \in Int
    PROVE  Max({a, b}) \in {a, b} /\ Max({a, b}) >= a /\ Max({a, b}) >= b
<1>1. \E x \in {a, b} : \A y \in {a, b} : x >= y
  OBVIOUS
<1> QED BY <1>1 DEF Max

LEMMA TimesFacts ==
    /\ Times \subseteq Int
    /\ \A t \in Times : t >= -2
    /\ {OpTime + Grace, Retention, Cooldown, NoTime, 0, 1} \subseteq Times
    /\ \A t \in Times : Less(t) \in Times
<1>1. \E x \in {OpTime + Grace, Retention, Cooldown} :
         \A y \in {OpTime + Grace, Retention, Cooldown} : x >= y
  BY CollectionAssumption
<1> DEFINE m == Max({OpTime + Grace, Retention, Cooldown})
<1>2. /\ m \in Nat \ {0}
      /\ \A y \in {OpTime + Grace, Retention, Cooldown} : m >= y
  BY <1>1, CollectionAssumption DEF Max
<1> HIDE DEF m
<1>3. Times = {NoTime, -1} \cup 0..m
  BY DEF Times, m
<1> QED BY <1>2, <1>3, CollectionAssumption DEF NoTime, Less

\* Settlement keeps the identity, the times and the epoch of a row.
LEMMA SettledFacts ==
    ASSUME NEW row \in Row, NEW status \in Unsettled \cup Terminal,
           NEW reason \in Reasons, NEW lease \in Times
    PROVE  LET new == Settled(row, status, reason, lease)
           IN  /\ new \in Row
               /\ new.status = status /\ new.lease = lease
               /\ new.key = row.key /\ new.epoch = row.epoch /\ new.job = row.job
               /\ new.left = row.left /\ new.explicit = row.explicit
<1>1. row.payload \in BOOLEAN /\ row.done \in Times
  BY DEF Row
<1>2. ((status = "deferred") /\ row.payload) \in BOOLEAN
  OBVIOUS
<1>3. (IF status \in Terminal THEN Cooldown ELSE row.done) \in Times
  BY <1>1, TimesFacts
<1> DEFINE p == (status = "deferred") /\ row.payload
           d == IF status \in Terminal THEN Cooldown ELSE row.done
<1>4. Settled(row, status, reason, lease) =
        [row EXCEPT !.status = status, !.reason = reason, !.lease = lease,
                    !.payload = p, !.done = d]
  BY DEF Settled
<1>5. p \in BOOLEAN /\ d \in Times
  BY <1>2, <1>3
<1> HIDE DEF p, d
<1> QED BY <1>4, <1>5 DEF Row

LEMMA FailedFacts ==
    ASSUME NEW row \in Row
    PROVE  LET new == Settled(row, "failed", "other", NoTime)
           IN  /\ new \in Row
               /\ new.status = "failed" /\ new.lease = NoTime
               /\ new.key = row.key /\ new.epoch = row.epoch /\ new.job = row.job
               /\ new.left = row.left /\ new.explicit = row.explicit
<1>1. "failed" \in Unsettled \cup Terminal /\ "other" \in Reasons
  BY DEF Terminal, Reasons
<1>2. NoTime \in Times
  BY TimesFacts
<1> QED BY <1>1, <1>2, SettledFacts

LEMMA LessFacts ==
    ASSUME NEW a \in Times, NEW b \in Times
    PROVE  /\ a <= b => Less(a) <= Less(b)
           /\ Less(a) # NoTime <=> a # NoTime
           /\ Less(a) > 0 => a > 0
<1>1. a \in Int /\ b \in Int /\ a >= -2 /\ b >= -2
  BY TimesFacts
<1> QED BY <1>1 DEF Less, NoTime

\* The clock's effect on one row.
Ticked(row) == [row EXCEPT !.left = Less(@), !.explicit = Less(@),
                           !.lease = Less(@), !.done = Less(@)]

LEMMA TickedFacts ==
    ASSUME NEW row \in Row
    PROVE  LET new == Ticked(row)
           IN  /\ new \in Row
               /\ new.status = row.status /\ new.key = row.key
               /\ new.epoch = row.epoch /\ new.job = row.job
               /\ new.left = Less(row.left) /\ new.explicit = Less(row.explicit)
               /\ new.lease = Less(row.lease)
<1>1. /\ row.left \in Times /\ row.explicit \in Times
      /\ row.lease \in Times /\ row.done \in Times
  BY DEF Row
<1>2. /\ Less(row.left) \in Times /\ Less(row.explicit) \in Times
      /\ Less(row.lease) \in Times /\ Less(row.done) \in Times
  BY <1>1, TimesFacts
<1> QED BY <1>2 DEF Row, Ticked

LEMMA NoRowFacts ==
    /\ NoRow \notin Row
    /\ \A row \in Row : row # NoRow /\ row.status # "absent"
BY DEF NoRow, Row, Unsettled, Active, Terminal

LEMMA SummaryFacts ==
    \A out \in Outcomes :
        /\ out[1] \in Terminal \cup {"deferred"} /\ out[2] \in Reasons
        /\ \A wait \in Waits(out[1]) :
              /\ wait \in Times
              /\ wait # NoTime <=> out[1] = "deferred"
<1>1. \A sum \in Summaries :
        /\ Settlement(sum)[1] \in Terminal \cup {"deferred"}
        /\ Settlement(sum)[2] \in Reasons
  BY DEF Summaries, Settlement, Terminal, Reasons
<1>2. \A out \in Outcomes : out[1] \in Terminal \cup {"deferred"} /\ out[2] \in Reasons
  BY <1>1 DEF Outcomes, Terminal, Reasons
<1>3. \A status \in Terminal \cup {"deferred"} : \A wait \in Waits(status) :
        wait \in Times /\ (wait # NoTime <=> status = "deferred")
  BY TimesFacts DEF Waits, Terminal, NoTime
<1> QED BY <1>2, <1>3

LEMMA InitTypes == Init => StateOK /\ SchedOK /\ RowsOK
<1> SUFFICES ASSUME Init PROVE StateOK /\ SchedOK /\ RowsOK
  OBVIOUS
<1>1. StateOK
  BY CollectionAssumption DEF Init, StateOK, JobStates, PodStates, SchedRecords, Idle
<1>2. RowsOK
  BY DEF Init, RowsOK, Present
<1>3. SchedOK
  BY DEF Init, SchedOK, Idle
<1> QED BY <1>1, <1>2, <1>3


------------------------------------------------------------------------------
(* What a step may do to the rows.                                          *)

\* A request that is collecting or may still be claimed.
Busy(r) == Is(r, Unsettled) /\ (rows[r].left > 0 \/ rows[r].status \in Active)

OneRow(r, new) == r \in Ids /\ new \in Row /\ rows' = [rows EXCEPT ![r] = new]
SameIdentity(old, new) == new.key = old.key /\ new.epoch = old.epoch

JoinRow(r, new) ==
    /\ OneRow(r, new) /\ Busy(r) /\ SameIdentity(rows[r], new)
    /\ new.status = rows[r].status /\ new.lease = rows[r].lease /\ new.job = rows[r].job
    /\ new.explicit <= new.left
    /\ UNCHANGED <<nextId, launched>>

RecordRow(r, new) ==
    /\ OneRow(r, new) /\ r = nextId /\ nextId' = nextId + 1 /\ UNCHANGED launched
    /\ \A q \in Ids : Busy(q) => rows[q].key # new.key
    /\ new.status = "queued" /\ new.lease = NoTime /\ new.epoch = 0 /\ new.job = 0
    /\ new.explicit <= new.left

SettleRow(r, new) ==
    /\ OneRow(r, new) /\ Is(r, Active) /\ SameIdentity(rows[r], new)
    /\ new.status \in Terminal \cup {"deferred"}
    /\ new.status = "deferred" <=> new.lease # NoTime
    /\ new.left = rows[r].left /\ new.explicit = rows[r].explicit /\ new.job = rows[r].job
    /\ UNCHANGED <<nextId, launched>>

LaunchRow(r, new) ==
    /\ OneRow(r, new) /\ r \in Claimable /\ new.key = rows[r].key
    /\ new.epoch = rows[r].epoch + 1 /\ launched < MaxLaunches /\ launched' = launched + 1
    /\ new.status = "launching" /\ new.lease = OpTime + Grace /\ new.job = 0
    /\ new.left = rows[r].left /\ new.explicit = rows[r].explicit
    /\ UNCHANGED nextId

MarkRow(r, new) ==
    /\ OneRow(r, new) /\ Is(r, {"launching"}) /\ SameIdentity(rows[r], new)
    /\ new.status = "running" /\ new.job = rows[r].epoch /\ new.lease = rows[r].lease
    /\ new.left = rows[r].left /\ new.explicit = rows[r].explicit
    /\ UNCHANGED <<nextId, launched>>

ReapRows ==
    /\ rows' = [r \in Ids |-> IF Lapsed(r) THEN Settled(rows[r], "failed", "other", NoTime)
                              ELSE rows[r]]
    /\ UNCHANGED <<nextId, launched>>

PruneRows ==
    /\ \E dead \in SUBSET Ids :
          /\ dead # {}
          /\ \A r \in dead : Present(r) /\ rows[r].left < 0 /\ rows[r].status \notin Active
          /\ rows' = [r \in Ids |-> IF r \in dead THEN NoRow ELSE rows[r]]
    /\ UNCHANGED <<nextId, launched>>

TickRows ==
    /\ rows' = [r \in Ids |-> IF Present(r) THEN Ticked(rows[r]) ELSE NoRow]
    /\ UNCHANGED <<nextId, launched>>

RowStep ==
    \/ UNCHANGED <<rows, nextId, launched>>
    \/ \E r, new : \/ JoinRow(r, new) \/ RecordRow(r, new) \/ SettleRow(r, new)
                   \/ LaunchRow(r, new) \/ MarkRow(r, new)
    \/ ReapRows \/ PruneRows \/ TickRows

LEMMA JoinStep ==
    ASSUME StateOK, RowsOK, NEW k \in Keys, JoinExplicit(k)
    PROVE  \E r, new : JoinRow(r, new)
<1> USE CollectionAssumption, TimesFacts, NoRowFacts
<1> DEFINE r == Max(Joinable(k))
<1>1. r \in Joinable(k)
  BY MaxOfBounded DEF JoinExplicit, Joinable, Ids
<1>2. r \in Ids /\ rows[r] \in Row /\ Busy(r)
  BY <1>1 DEF Joinable, Is, Present, StateOK, Busy
<1>3. ExplicitUntil(r) \in Times
  BY <1>2 DEF ExplicitUntil, Row
<1>4. KeptUntil(r) \in Times /\ KeptUntil(r) >= ExplicitUntil(r)
  <2>1. rows[r].left \in Times
    BY <1>2 DEF Row
  <2>2. /\ KeptUntil(r) \in {rows[r].left, ExplicitUntil(r)}
        /\ KeptUntil(r) >= ExplicitUntil(r)
    BY <1>3, <2>1, MaxOfTwo DEF KeptUntil
  <2> QED BY <1>3, <2>1, <2>2
<1> DEFINE new == [rows[r] EXCEPT !.explicit = ExplicitUntil(r), !.left = KeptUntil(r)]
<1>5. rows' = [rows EXCEPT ![r] = new]
  BY <1>2 DEF JoinExplicit, StateOK
<1>6. /\ new \in Row /\ SameIdentity(rows[r], new)
      /\ new.status = rows[r].status /\ new.lease = rows[r].lease /\ new.job = rows[r].job
      /\ new.explicit = ExplicitUntil(r) /\ new.left = KeptUntil(r)
  BY <1>2, <1>3, <1>4 DEF Row, SameIdentity
<1> HIDE DEF new, r
<1> QED BY <1>2, <1>3, <1>4, <1>5, <1>6 DEF JoinExplicit, JoinRow, OneRow

LEMMA RecordStep ==
    ASSUME StateOK, RowsOK, NEW k \in Keys, NEW demand \in BOOLEAN, RecordRequest(k, demand)
    PROVE  \E r, new : RecordRow(r, new)
<1> USE CollectionAssumption, TimesFacts
<1> DEFINE x == IF demand THEN NoTime ELSE Retention
           new == [key |-> k, status |-> "queued", reason |-> "none", payload |-> TRUE,
                   left |-> Retention, explicit |-> x, lease |-> NoTime, epoch |-> 0,
                   job |-> 0, done |-> NoTime]
<1>1. x \in Times /\ x <= Retention
  BY DEF NoTime
<1>2. rows' = [rows EXCEPT ![nextId] = new] /\ nextId \in Ids
  BY DEF RecordRequest, StateOK, Ids
<1> HIDE DEF x
<1>3. /\ new \in Row /\ new.key = k
      /\ new.status = "queued" /\ new.lease = NoTime /\ new.epoch = 0 /\ new.job = 0
      /\ new.explicit = x /\ new.left = Retention
  BY <1>1 DEF Row, Unsettled, Reasons
<1>4. \A q \in Ids : Busy(q) => rows[q].key # k
  BY DEF RecordRequest, Joinable, Busy
<1> HIDE DEF new
<1>5. RecordRow(nextId, new)
  BY <1>1, <1>2, <1>3, <1>4 DEF RecordRequest, RecordRow, OneRow
<1> QED BY <1>5

\* The row of a launch that settles, whatever asked for it.
LEMMA SettleOne ==
    ASSUME StateOK, NEW r \in Ids, Is(r, Active),
           NEW status \in Terminal \cup {"deferred"}, NEW reason \in Reasons,
           NEW lease \in Times, status = "deferred" <=> lease # NoTime,
           rows' = [rows EXCEPT ![r] = Settled(@, status, reason, lease)],
           UNCHANGED <<nextId, launched>>
    PROVE  \E q, new : SettleRow(q, new)
<1>1. rows[r] \in Row /\ status \in Unsettled \cup Terminal
  BY DEF Is, Present, StateOK, Unsettled
<1> DEFINE new == Settled(rows[r], status, reason, lease)
<1>2. /\ new \in Row /\ SameIdentity(rows[r], new)
      /\ new.status = status /\ new.lease = lease /\ new.job = rows[r].job
      /\ new.left = rows[r].left /\ new.explicit = rows[r].explicit
  BY <1>1, SettledFacts DEF SameIdentity
<1>3. rows' = [rows EXCEPT ![r] = new]
  BY DEF StateOK
<1> HIDE DEF new
<1>4. SettleRow(r, new)
  BY <1>2, <1>3 DEF SettleRow, OneRow
<1> QED BY <1>4

LEMMA ClaimStep ==
    ASSUME StateOK, RowsOK, NEW s \in Schedulers, Claim(s)
    PROVE  \E r, new : /\ LaunchRow(r, new)
                       /\ sched' = [sched EXCEPT ![s].pc = "create", ![s].at = <<r, new.epoch>>]
<1> USE CollectionAssumption, TimesFacts, NoRowFacts
<1> DEFINE r == Min(Claimable)
           e == rows[r].epoch + 1
           new == [rows[r] EXCEPT !.status = "launching", !.job = 0, !.epoch = e,
                                  !.lease = OpTime + Grace]
<1>1. r \in Claimable
  <2>1. Claimable \in SUBSET Nat
    BY DEF Claimable, Ids
  <2>2. Claimable # {}
    BY DEF Claim
  <2> QED BY <2>1, <2>2, MinOfNats
<1>2. r \in Ids /\ rows[r] \in Row /\ e \in Nat
  BY <1>1 DEF Claimable, Present, StateOK, Row
<1>3. rows' = [rows EXCEPT ![r] = new] /\ sched' = [sched EXCEPT ![s].pc = "create", ![s].at = <<r, e>>]
  BY <1>2 DEF Claim, StateOK, NextEpoch
<1>4. /\ new \in Row /\ new.key = rows[r].key
      /\ new.epoch = e /\ new.status = "launching" /\ new.lease = OpTime + Grace
      /\ new.job = 0 /\ new.left = rows[r].left /\ new.explicit = rows[r].explicit
  <2> HIDE DEF e, r
  <2> QED BY <1>2 DEF Row, Unsettled, Active
<1> HIDE DEF new, r
<1>5. LaunchRow(r, new)
  BY <1>1, <1>2, <1>3, <1>4 DEF LaunchRow, OneRow, Claim
<1> QED BY <1>3, <1>4, <1>5

LEMMA MarkStep ==
    ASSUME StateOK, SchedOK, NEW s \in Schedulers, MarkRunning(s)
    PROVE  \/ UNCHANGED <<rows, nextId, launched>>
           \/ \E r, new : MarkRow(r, new)
<1> USE CollectionAssumption, TimesFacts, NoRowFacts
<1> SUFFICES ASSUME rows' # rows PROVE \E r, new : MarkRow(r, new)
  BY DEF MarkRunning
<1> DEFINE r == sched[s].at[1]
           e == sched[s].at[2]
           new == [rows[r] EXCEPT !.status = "running", !.job = e]
<1>1. /\ LiveAt(r, e) /\ rows[r].status = "launching"
      /\ rows' = [rows EXCEPT ![r].status = "running", ![r].job = e]
  BY DEF MarkRunning
<1>2. r \in Ids /\ e \in Epochs
  BY DEF MarkRunning, SchedOK, Launches
<1>3. rows[r] \in Row /\ Is(r, {"launching"}) /\ rows[r].epoch = e
  BY <1>1, <1>2 DEF LiveAt, Live, Is, Present, StateOK
<1>4. rows' = [rows EXCEPT ![r] = new]
  BY <1>1, <1>2 DEF StateOK
<1> HIDE DEF r, e
<1>5. /\ new \in Row /\ new.status = "running" /\ new.job = e
      /\ SameIdentity(rows[r], new) /\ new.lease = rows[r].lease
      /\ new.left = rows[r].left /\ new.explicit = rows[r].explicit
  BY <1>2, <1>3 DEF Row, Unsettled, Active, SameIdentity, Epochs
<1> HIDE DEF new
<1>6. MarkRow(r, new)
  BY <1>2, <1>3, <1>4, <1>5 DEF MarkRow, OneRow, MarkRunning
<1> QED BY <1>6

LEMMA RowsStep ==
    ASSUME StateOK, SchedOK, RowsOK, [Next]_vars
    PROVE  RowStep
<1> USE CollectionAssumption, TimesFacts
<1>0. /\ "failed" \in Terminal \cup {"deferred"} /\ "other" \in Reasons
      /\ "failed" = "deferred" <=> NoTime # NoTime
  BY DEF Terminal, Reasons
<1>1. ASSUME NEW k \in Keys, JoinExplicit(k) PROVE RowStep
  BY <1>1, JoinStep DEF RowStep
<1>2. ASSUME NEW k \in Keys, NEW demand \in BOOLEAN, RecordRequest(k, demand) PROVE RowStep
  BY <1>2, RecordStep DEF RowStep
<1>3. CASE Prune
  <2> DEFINE dead == {r \in Ids : Present(r) /\ rows[r].left < 0 /\ rows[r].status \notin Active}
  <2>1. dead \in SUBSET Ids /\ dead # {}
    BY <1>3 DEF Prune
  <2>2. rows' = [r \in Ids |-> IF r \in dead THEN NoRow ELSE rows[r]]
    BY <1>3 DEF Prune
  <2>3. \A r \in dead : Present(r) /\ rows[r].left < 0 /\ rows[r].status \notin Active
    OBVIOUS
  <2> HIDE DEF dead
  <2> QED BY <1>3, <2>1, <2>2, <2>3 DEF Prune, PruneRows, RowStep
<1>4. ASSUME NEW s \in Schedulers, Reap(s) PROVE RowStep
  BY <1>4 DEF Reap, ReapRows, RowStep
<1>5. ASSUME NEW s \in Schedulers, FailFinished(s) PROVE RowStep
  <2>1. sched[s].at[1] \in Ids
    BY <1>5 DEF FailFinished, SchedOK, Launches
  <2>2. CASE FinishedLaunch(sched[s].at[1], sched[s].at[2])
    <3>1. /\ Is(sched[s].at[1], Active)
          /\ rows' = [rows EXCEPT ![sched[s].at[1]] = Settled(@, "failed", "other", NoTime)]
          /\ UNCHANGED <<nextId, launched>>
      BY <1>5, <2>2 DEF FailFinished, FinishedLaunch
    <3>2. \E q, new : SettleRow(q, new)
      BY <1>0, <2>1, <3>1, SettleOne
    <3> QED BY <3>2 DEF RowStep
  <2>3. CASE ~FinishedLaunch(sched[s].at[1], sched[s].at[2])
    BY <1>5, <2>3 DEF FailFinished, RowStep
  <2> QED BY <2>2, <2>3
<1>6. ASSUME NEW s \in Schedulers, Claim(s) PROVE RowStep
  BY <1>6, ClaimStep DEF RowStep
<1>7. ASSUME NEW s \in Schedulers, MarkRunning(s) PROVE RowStep
  BY <1>7, MarkStep DEF RowStep
<1>8. ASSUME NEW s \in Schedulers,
             \/ Heartbeat(s) \/ ListUnsettled(s) \/ Yield(s) \/ CreateJob(s) \/ Crash(s)
             \/ Restart(s) \/ \E l \in Launches : GetJob(s, l)
      PROVE  RowStep
  BY <1>8 DEF Heartbeat, ListUnsettled, Yield, CreateJob, Crash, Restart, GetJob, RowStep
<1>9. ASSUME NEW l \in Launches, PodSettle(l) PROVE RowStep
  <2>1. CASE LiveAt(l[1], l[2])
    <3>1. PICK out \in Outcomes : \E wait \in Waits(out[1]) :
             rows' = [rows EXCEPT ![l[1]] = Settled(@, out[1], out[2], wait)]
      BY <1>9, <2>1 DEF PodSettle, MaySettle
    <3>2. PICK wait \in Waits(out[1]) :
             rows' = [rows EXCEPT ![l[1]] = Settled(@, out[1], out[2], wait)]
      BY <3>1
    <3>3. /\ l[1] \in Ids /\ Is(l[1], Active)
          /\ UNCHANGED <<nextId, launched>>
      BY <1>9, <2>1 DEF PodSettle, LiveAt, Live, Launches
    <3>4. /\ out[1] \in Terminal \cup {"deferred"} /\ out[2] \in Reasons
          /\ wait \in Times /\ (out[1] = "deferred" <=> wait # NoTime)
      BY SummaryFacts
    <3>5. \E q, new : SettleRow(q, new)
      <4> DEFINE r == l[1]
                 status == out[1]
                 reason == out[2]
      <4>1. /\ r \in Ids /\ Is(r, Active) /\ status \in Terminal \cup {"deferred"}
            /\ reason \in Reasons /\ (status = "deferred" <=> wait # NoTime)
            /\ rows' = [rows EXCEPT ![r] = Settled(@, status, reason, wait)]
        BY <3>2, <3>3, <3>4
      <4> HIDE DEF r, status, reason
      <4> QED BY <3>3, <3>4, <4>1, SettleOne
    <3> QED BY <3>5 DEF RowStep
  <2>2. CASE ~LiveAt(l[1], l[2])
    BY <1>9, <2>2 DEF PodSettle, MaySettle, RowStep
  <2> QED BY <2>1, <2>2
<1>10. ASSUME NEW l \in Launches, PodDeadline(l) PROVE RowStep
  <2>1. CASE LiveAt(l[1], l[2])
    <3>1. /\ l[1] \in Ids /\ Is(l[1], Active)
          /\ rows' = [rows EXCEPT ![l[1]] = Settled(@, "failed", "other", NoTime)]
          /\ UNCHANGED <<nextId, launched>>
      BY <1>10, <2>1 DEF PodDeadline, MaySettle, LiveAt, Live, Launches
    <3>2. \E q, new : SettleRow(q, new)
      BY <1>0, <3>1, SettleOne
    <3> QED BY <3>2 DEF RowStep
  <2>2. CASE ~LiveAt(l[1], l[2])
    BY <1>10, <2>2 DEF PodDeadline, MaySettle, RowStep
  <2> QED BY <2>1, <2>2
<1>11. ASSUME NEW l \in Launches, PodStart(l) \/ PodExit(l) \/ PodDies(l) PROVE RowStep
  BY <1>11 DEF PodStart, PodExit, PodDies, RowStep
<1>12. CASE Tick
  BY <1>12 DEF Tick, TickRows, RowStep, Ticked
<1>13. CASE UNCHANGED vars
  BY <1>13 DEF vars, RowStep
<1> QED
  BY <1>1, <1>2, <1>3, <1>4, <1>5, <1>6, <1>7, <1>8, <1>9, <1>10, <1>11, <1>12, <1>13
     DEF Next, SchedulerNext, PodNext

LEMMA RowsTyped ==
    ASSUME StateOK, RowStep
    PROVE  /\ rows' \in [Ids -> Row \cup {NoRow}]
           /\ nextId' \in 1..(MaxRows + 1) /\ launched' \in 0..MaxLaunches
<1> USE CollectionAssumption, TimesFacts
<1>1. CASE UNCHANGED <<rows, nextId, launched>>
  BY <1>1 DEF StateOK
<1>2. ASSUME NEW r, NEW new, OneRow(r, new)
      PROVE  rows' \in [Ids -> Row \cup {NoRow}]
  BY <1>2 DEF OneRow, StateOK
<1>3. ASSUME NEW r, NEW new, JoinRow(r, new) \/ SettleRow(r, new) \/ MarkRow(r, new)
      PROVE  /\ OneRow(r, new)
             /\ nextId' \in 1..(MaxRows + 1) /\ launched' \in 0..MaxLaunches
  BY <1>3 DEF JoinRow, SettleRow, MarkRow, StateOK
<1>4. ASSUME NEW r, NEW new, RecordRow(r, new) \/ LaunchRow(r, new)
      PROVE  /\ OneRow(r, new)
             /\ nextId' \in 1..(MaxRows + 1) /\ launched' \in 0..MaxLaunches
  <2>1. CASE RecordRow(r, new)
    BY <2>1 DEF RecordRow, OneRow, StateOK, Ids
  <2>2. CASE LaunchRow(r, new)
    BY <2>2 DEF LaunchRow, StateOK
  <2> QED BY <1>4, <2>1, <2>2
<1>5. CASE ReapRows
  <2>1. \A r \in Ids : Lapsed(r) => Settled(rows[r], "failed", "other", NoTime) \in Row
    BY FailedFacts DEF Lapsed, Is, Present, StateOK
  <2> QED BY <1>5, <2>1 DEF ReapRows, StateOK
<1>6. CASE PruneRows
  BY <1>6 DEF PruneRows, StateOK
<1>7. CASE TickRows
  <2>1. \A r \in Ids : Present(r) => Ticked(rows[r]) \in Row
    BY TickedFacts DEF Present, StateOK
  <2> QED BY <1>7, <2>1 DEF TickRows, StateOK
<1> QED BY <1>1, <1>2, <1>3, <1>4, <1>5, <1>6, <1>7 DEF RowStep

LEMMA RowsOKStep ==
    ASSUME StateOK, RowsOK, RowStep
    PROVE  RowsOK'
<1> USE CollectionAssumption, TimesFacts, NoRowFacts
<1> SUFFICES ASSUME NEW r \in Ids, Present(r)' PROVE RowOK(r, rows[r])'
  BY DEF RowsOK
<1>1. /\ launched \in Nat /\ launched' \in Nat /\ nextId \in Nat /\ nextId' \in Nat
      /\ nextId <= nextId' /\ launched <= launched'
  BY DEF RowStep, StateOK, JoinRow, RecordRow, SettleRow, LaunchRow, MarkRow, ReapRows,
         PruneRows, TickRows
<1>2. CASE rows'[r] = rows[r]
  <2>1. Present(r) /\ rows[r] \in Row
    BY <1>2 DEF Present, StateOK
  <2>2. RowOK(r, rows[r]) /\ rows[r].epoch \in Nat /\ rows[r].job \in Nat
    BY <2>1 DEF RowsOK, Row
  <2> QED BY <1>1, <1>2, <2>2 DEF RowOK, Ids
<1>3. ASSUME NEW new, JoinRow(r, new) PROVE RowOK(r, rows[r])'
  <2>1. rows'[r] = new /\ Present(r) /\ rows[r] \in Row
    BY <1>3 DEF JoinRow, OneRow, StateOK, Busy, Is, Present
  <2>2. RowOK(r, rows[r])
    BY <2>1 DEF RowsOK
  <2> QED BY <1>1, <1>3, <2>1, <2>2 DEF RowOK, JoinRow, SameIdentity
<1>4. ASSUME NEW new, RecordRow(r, new) PROVE RowOK(r, rows[r])'
  <2>1. rows'[r] = new
    BY <1>4 DEF RecordRow, OneRow, StateOK
  <2> QED BY <1>1, <1>4, <2>1 DEF RowOK, RecordRow, Active
<1>5. ASSUME NEW new, SettleRow(r, new) PROVE RowOK(r, rows[r])'
  <2>1. rows'[r] = new /\ Present(r) /\ rows[r] \in Row
    BY <1>5 DEF SettleRow, OneRow, StateOK, Is, Present
  <2>2. RowOK(r, rows[r])
    BY <2>1 DEF RowsOK
  <2> QED BY <1>1, <1>5, <2>1, <2>2 DEF RowOK, SettleRow, SameIdentity, Active, Terminal
<1>6. ASSUME NEW new, LaunchRow(r, new) PROVE RowOK(r, rows[r])'
  <2>1. rows'[r] = new /\ Present(r) /\ rows[r] \in Row
    BY <1>6 DEF LaunchRow, OneRow, StateOK, Claimable, Present
  <2>2. RowOK(r, rows[r]) /\ rows[r].epoch \in Nat
    BY <2>1 DEF RowsOK, Row
  <2> QED BY <1>1, <1>6, <2>1, <2>2 DEF RowOK, LaunchRow, Active, NoTime
<1>7. ASSUME NEW new, MarkRow(r, new) PROVE RowOK(r, rows[r])'
  <2>1. rows'[r] = new /\ Present(r) /\ rows[r] \in Row
    BY <1>7 DEF MarkRow, OneRow, StateOK, Is, Present
  <2>2. RowOK(r, rows[r])
    BY <2>1 DEF RowsOK
  <2> QED BY <1>1, <1>7, <2>1, <2>2 DEF RowOK, MarkRow, SameIdentity, Active, Is
<1>8. ASSUME ReapRows, rows'[r] # rows[r] PROVE RowOK(r, rows[r])'
  <2>1. Lapsed(r) /\ rows'[r] = Settled(rows[r], "failed", "other", NoTime)
    BY <1>8 DEF ReapRows
  <2>2. Present(r) /\ rows[r] \in Row
    BY <2>1 DEF Lapsed, Is, Present, StateOK
  <2>3. RowOK(r, rows[r])
    BY <2>2 DEF RowsOK
  <2>4. /\ rows'[r].status = "failed" /\ rows'[r].lease = NoTime
        /\ rows'[r].epoch = rows[r].epoch /\ rows'[r].job = rows[r].job
        /\ rows'[r].left = rows[r].left /\ rows'[r].explicit = rows[r].explicit
    BY <2>1, <2>2, FailedFacts
  <2> QED BY <1>1, <1>8, <2>3, <2>4 DEF RowOK, ReapRows, Active
<1>9. CASE PruneRows
  <2>1. rows'[r] = rows[r]
    BY <1>9 DEF PruneRows, Present
  <2> QED BY <2>1, <1>2
<1>10. CASE TickRows
  <2>1. Present(r) /\ rows[r] \in Row /\ rows'[r] = Ticked(rows[r])
    BY <1>10 DEF TickRows, Present, StateOK
  <2>2. RowOK(r, rows[r])
    BY <2>1 DEF RowsOK
  <2>3. /\ rows[r].left \in Times /\ rows[r].explicit \in Times /\ rows[r].lease \in Times
    BY <2>1 DEF Row
  <2>4. /\ rows'[r].status = rows[r].status /\ rows'[r].epoch = rows[r].epoch
        /\ rows'[r].job = rows[r].job /\ rows'[r].left = Less(rows[r].left)
        /\ rows'[r].explicit = Less(rows[r].explicit) /\ rows'[r].lease = Less(rows[r].lease)
    BY <2>1, TickedFacts
  <2>5. /\ Less(rows[r].explicit) <= Less(rows[r].left)
        /\ Less(rows[r].lease) # NoTime <=> rows[r].lease # NoTime
    BY <2>2, <2>3, LessFacts DEF RowOK
  <2> QED BY <1>10, <2>2, <2>4, <2>5 DEF RowOK, TickRows
<1>11. ASSUME NEW q, NEW new, OneRow(q, new), q # r PROVE rows'[r] = rows[r]
  BY <1>11 DEF OneRow, StateOK
<1>12. ASSUME NEW q, NEW new,
              \/ JoinRow(q, new) \/ RecordRow(q, new) \/ SettleRow(q, new)
              \/ LaunchRow(q, new) \/ MarkRow(q, new)
       PROVE  RowOK(r, rows[r])'
  <2>1. OneRow(q, new)
    BY <1>12 DEF JoinRow, RecordRow, SettleRow, LaunchRow, MarkRow
  <2>2. CASE q = r
    BY <1>12, <2>2, <1>3, <1>4, <1>5, <1>6, <1>7
  <2>3. CASE q # r
    BY <2>1, <2>3, <1>11, <1>2
  <2> QED BY <2>2, <2>3
<1>13. CASE UNCHANGED <<rows, nextId, launched>>
  BY <1>13, <1>2
<1> QED BY <1>2, <1>8, <1>9, <1>10, <1>12, <1>13 DEF RowStep

\* How one row and its launch change: a row appears once, its epoch never falls, and
\* a lease that is live was live before or belongs to the launch just claimed.
LEMMA RowEvolves ==
    ASSUME StateOK, RowsOK, RowStep, NEW r \in Ids
    PROVE  /\ nextId' \in Int /\ nextId <= nextId'
           /\ Present(r)' => \/ Present(r) /\ rows'[r].epoch >= rows[r].epoch
                             \/ ~Present(r) /\ r >= nextId /\ r < nextId'
                                /\ rows'[r].epoch = 0 /\ ~Live(r)'
           /\ Live(r)' => \/ Live(r) /\ rows'[r].epoch = rows[r].epoch
                          \/ /\ \E new : LaunchRow(r, new)
                             /\ rows'[r].epoch = rows[r].epoch + 1
<1> USE CollectionAssumption, TimesFacts, NoRowFacts
<1>1. nextId \in Int /\ nextId' \in Int /\ nextId <= nextId'
  BY DEF RowStep, StateOK, JoinRow, RecordRow, SettleRow, LaunchRow, MarkRow, ReapRows,
         PruneRows, TickRows
<1> DEFINE Goal ==
         /\ Present(r)' => \/ Present(r) /\ rows'[r].epoch >= rows[r].epoch
                           \/ ~Present(r) /\ r >= nextId /\ r < nextId'
                              /\ rows'[r].epoch = 0 /\ ~Live(r)'
         /\ Live(r)' => \/ Live(r) /\ rows'[r].epoch = rows[r].epoch
                        \/ /\ \E new : LaunchRow(r, new)
                           /\ rows'[r].epoch = rows[r].epoch + 1
<1> SUFFICES Goal
  BY <1>1
<1>2. CASE rows'[r] = rows[r]
  <2>1. Present(r) => rows[r].epoch \in Nat
    BY DEF Present, StateOK, Row
  <2> QED BY <1>2, <2>1 DEF Present, Live, Is
<1>3. ASSUME NEW new, JoinRow(r, new) \/ SettleRow(r, new) \/ MarkRow(r, new) PROVE Goal
  <2>1. rows'[r] = new /\ Present(r) /\ rows[r] \in Row
    BY <1>3 DEF JoinRow, SettleRow, MarkRow, OneRow, StateOK, Busy, Is, Present
  <2>2. new.epoch = rows[r].epoch /\ new.epoch \in Nat
    BY <1>3, <2>1 DEF JoinRow, SettleRow, MarkRow, SameIdentity, Row
  <2>3. Live(r)' => Live(r)
    BY <1>3, <2>1 DEF JoinRow, SettleRow, MarkRow, Live, Is, Present, Active, Terminal
  <2> QED BY <2>1, <2>2, <2>3
<1>4. ASSUME NEW new, RecordRow(r, new) PROVE Goal
  <2>1. rows'[r] = new /\ r = nextId /\ nextId' = nextId + 1
    BY <1>4 DEF RecordRow, OneRow, StateOK
  <2>2. ~Present(r)
    BY <2>1 DEF RowsOK, RowOK, StateOK
  <2>3. ~Live(r)'
    BY <1>4, <2>1 DEF RecordRow, Live, Is, Active
  <2> QED BY <1>1, <1>4, <2>1, <2>2, <2>3 DEF RecordRow
<1>5. ASSUME NEW new, LaunchRow(r, new) PROVE Goal
  <2>1. rows'[r] = new /\ Present(r) /\ rows[r] \in Row
    BY <1>5 DEF LaunchRow, OneRow, StateOK, Claimable, Present
  <2>2. new.epoch = rows[r].epoch + 1 /\ rows[r].epoch \in Nat
    BY <1>5, <2>1 DEF LaunchRow, Row
  <2> QED BY <1>5, <2>1, <2>2
<1>6. ASSUME ReapRows, rows'[r] # rows[r] PROVE Goal
  <2>1. Lapsed(r) /\ rows'[r] = Settled(rows[r], "failed", "other", NoTime)
    BY <1>6 DEF ReapRows
  <2>2. Present(r) /\ rows[r] \in Row /\ rows[r].epoch \in Nat
    BY <2>1 DEF Lapsed, Is, Present, StateOK, Row
  <2>3. rows'[r].status = "failed" /\ rows'[r].epoch = rows[r].epoch
    BY <2>1, <2>2, FailedFacts
  <2>4. ~Live(r)'
    BY <2>3 DEF Live, Is, Active
  <2> QED BY <2>2, <2>3, <2>4
<1>7. ASSUME PruneRows, rows'[r] # rows[r] PROVE Goal
  <2>1. rows'[r] = NoRow
    BY <1>7 DEF PruneRows
  <2> QED BY <2>1 DEF Present, Live, Is
<1>8. CASE TickRows
  <2>1. CASE ~Present(r)
    BY <1>8, <2>1 DEF TickRows, Present, Live, Is
  <2>2. CASE Present(r)
    <3>1. rows[r] \in Row /\ rows'[r] = Ticked(rows[r])
      BY <1>8, <2>2 DEF TickRows, Present, StateOK
    <3>2. /\ rows'[r].status = rows[r].status /\ rows'[r].epoch = rows[r].epoch
          /\ rows'[r].lease = Less(rows[r].lease)
      BY <3>1, TickedFacts
    <3>3. rows[r].lease \in Times /\ rows[r].epoch \in Nat
      BY <3>1 DEF Row
    <3>4. Live(r)' => Live(r)
      BY <2>2, <3>2, <3>3, LessFacts DEF Live, Is
    <3> QED BY <2>2, <3>2, <3>3, <3>4
  <2> QED BY <2>1, <2>2
<1>9. ASSUME NEW q, NEW new,
             \/ JoinRow(q, new) \/ RecordRow(q, new) \/ SettleRow(q, new)
             \/ LaunchRow(q, new) \/ MarkRow(q, new)
      PROVE  Goal
  <2>1. OneRow(q, new)
    BY <1>9 DEF JoinRow, RecordRow, SettleRow, LaunchRow, MarkRow
  <2>2. CASE q = r
    BY <1>9, <2>2, <1>3, <1>4, <1>5
  <2>3. CASE q # r
    BY <2>1, <2>3, <1>2 DEF OneRow, StateOK
  <2> QED BY <2>2, <2>3
<1>10. CASE UNCHANGED <<rows, nextId, launched>>
  BY <1>10, <1>2
<1> QED BY <1>2, <1>6, <1>7, <1>8, <1>9, <1>10 DEF RowStep

------------------------------------------------------------------------------
(* Schedulers, Jobs and Pods.                                               *)

LEMMA ActiveLaunches ==
    ASSUME StateOK, RowsOK
    PROVE  {<<r, rows[r].epoch>> : r \in {q \in Ids : Is(q, Active)}} \in SUBSET Launches
<1> SUFFICES ASSUME NEW r \in Ids, Is(r, Active) PROVE rows[r].epoch \in Epochs
  BY DEF Launches
<1>1. Present(r) /\ rows[r].status \in Active
  BY DEF Is
<1>2. rows[r] \in Row /\ RowOK(r, rows[r])
  BY <1>1 DEF Present, StateOK, RowsOK
<1>3. rows[r].epoch \in Nat /\ rows[r].epoch >= 1 /\ rows[r].epoch <= launched
  BY <1>1, <1>2 DEF RowOK, Row
<1> QED BY <1>3, CollectionAssumption DEF StateOK, Epochs

\* A scheduler enters "create" only by a claim, "fail" only on a failed Job, and
\* keeps its launch until it has left them.
SchedKept(t) ==
    sched'[t].pc \in {"create", "fail"} => sched'[t].pc = sched[t].pc /\ sched'[t].at = sched[t].at

LEMMA SchedTyped ==
    ASSUME StateOK, SchedOK, RowsOK, NEW s \in Schedulers, SchedulerNext(s)
    PROVE  /\ sched' \in [Schedulers -> SchedRecords] /\ SchedOK'
           /\ Claim(s) \/ (\E l \in Launches : GetJob(s, l)) \/ \A t \in Schedulers : SchedKept(t)
<1> USE DEF StateOK, SchedRecords, SchedOK, SchedKept
<1> DEFINE Reset == [Idle EXCEPT !.pc = "down"]
<1>0. ASSUME NEW new \in {Idle, Reset}, sched' = [sched EXCEPT ![s] = new]
      PROVE  /\ sched' \in [Schedulers -> SchedRecords] /\ SchedOK'
             /\ \A t \in Schedulers : SchedKept(t)
  <2>1. new \in SchedRecords /\ new.pc \in {"reap", "down"}
    BY <1>0 DEF Idle
  <2> QED BY <1>0, <2>1
<1>1. CASE Heartbeat(s)
  BY <1>1 DEF Heartbeat
<1>2. CASE Reap(s)
  BY <1>2 DEF Reap, Goto
<1>3. CASE ListUnsettled(s)
  BY <1>3, ActiveLaunches, ZenonT(40) DEF ListUnsettled
<1>4. CASE FailFinished(s)
  BY <1>4, ZenonT(40) DEF FailFinished
<1>5. CASE Claim(s)
  <2>1. PICK r, new : /\ LaunchRow(r, new)
                      /\ sched' = [sched EXCEPT ![s].pc = "create", ![s].at = <<r, new.epoch>>]
    BY <1>5, ClaimStep
  <2>2. r \in Ids /\ rows[r] \in Row /\ Present(r)
    BY <2>1 DEF LaunchRow, OneRow, Claimable, Present
  <2>3. rows[r].epoch \in Nat /\ rows[r].epoch <= launched
    BY <2>2 DEF Row, RowsOK, RowOK
  <2>4. new.epoch \in Epochs
    BY <2>1, <2>3, CollectionAssumption DEF LaunchRow, Epochs
  <2>5. <<r, new.epoch>> \in Launches
    BY <2>2, <2>4 DEF Launches
  <2> DEFINE l == <<r, new.epoch>>
  <2>6. l \in Launches /\ sched' = [sched EXCEPT ![s].pc = "create", ![s].at = l]
    BY <2>1, <2>5
  <2> HIDE DEF l
  <2>7. [sched[s] EXCEPT !.pc = "create", !.at = l] \in SchedRecords
    BY <2>6
  <2>8. sched' \in [Schedulers -> SchedRecords]
    BY <2>6, <2>7
  <2>9. SchedOK'
    BY <2>6
  <2> QED BY <1>5, <2>8, <2>9
<1>6. CASE Yield(s)
  BY <1>6 DEF Yield, Idle
<1>7. CASE CreateJob(s)
  <2>1. sched[s].pc = "create" /\ sched[s].at \in Launches
    BY <1>7 DEF CreateJob
  <2>2. \/ sched' = [sched EXCEPT ![s].pc = "mark"]
        \/ sched' = [sched EXCEPT ![s] = [Idle EXCEPT !.pc = "down"]]
    BY <1>7 DEF CreateJob, Goto
  <2>3. CASE sched' = [sched EXCEPT ![s].pc = "mark"]
    BY <2>1, <2>3
  <2>4. CASE sched' = [sched EXCEPT ![s] = [Idle EXCEPT !.pc = "down"]]
    BY <2>1, <2>4 DEF Idle
  <2> QED BY <2>2, <2>3, <2>4
<1>8. CASE MarkRunning(s)
  <2>1. \E new \in {Idle, Reset} : sched' = [sched EXCEPT ![s] = new]
    BY <1>8 DEF MarkRunning
  <2> QED BY <1>0, <2>1
<1>9. CASE Crash(s)
  BY <1>9 DEF Crash, Idle
<1>10. CASE Restart(s)
  BY <1>10 DEF Restart, Idle
<1>11. ASSUME NEW l \in Launches, GetJob(s, l)
       PROVE  sched' \in [Schedulers -> SchedRecords] /\ SchedOK'
  BY <1>11 DEF GetJob
<1> QED
  BY <1>1, <1>2, <1>3, <1>4, <1>5, <1>6, <1>7, <1>8, <1>9, <1>10, <1>11 DEF SchedulerNext

LEMMA StateStep ==
    ASSUME StateOK, SchedOK, RowsOK, [Next]_vars
    PROVE  StateOK' /\ SchedOK' /\ RowsOK'
<1> USE CollectionAssumption
<1>1. RowStep /\ RowsOK'
  BY RowsStep, RowsOKStep
<1>2. /\ rows' \in [Ids -> Row \cup {NoRow}]
      /\ nextId' \in 1..(MaxRows + 1) /\ launched' \in 0..MaxLaunches
  BY <1>1, RowsTyped
<1> DEFINE Rest == /\ seen' \in -1..SeenFor /\ trouble' \in 0..MaxTrouble
                   /\ jobs' \in [Launches -> JobStates] /\ pods' \in [Launches -> PodStates]
                   /\ sched' \in [Schedulers -> SchedRecords] /\ SchedOK'
<1>3. ASSUME NEW s \in Schedulers, SchedulerNext(s) PROVE Rest
  <2>1. sched' \in [Schedulers -> SchedRecords] /\ SchedOK'
    BY <1>3, SchedTyped
  <2>2. /\ seen' \in {seen, SeenFor} /\ pods' = pods
        /\ trouble' = trouble \/ (trouble > 0 /\ trouble' = trouble - 1)
        /\ jobs' = jobs \/ jobs' = [jobs EXCEPT ![sched[s].at] = "active"]
    BY <1>3 DEF SchedulerNext, Heartbeat, Reap, ListUnsettled, FailFinished, Claim, Yield,
                CreateJob, MarkRunning, Crash, Restart, GetJob
  <2> QED BY <2>1, <2>2 DEF StateOK, JobStates
<1>4. ASSUME NEW l \in Launches, PodNext(l) PROVE Rest
  BY <1>4 DEF PodNext, PodStart, PodSettle, PodExit, PodDeadline, PodDies, StateOK, SchedOK,
              JobStates, PodStates
<1>5. ASSUME \/ \E k \in Keys : JoinExplicit(k)
             \/ \E k \in Keys, demand \in BOOLEAN : RecordRequest(k, demand)
             \/ Prune \/ UNCHANGED vars
      PROVE  Rest
  BY <1>5 DEF JoinExplicit, RecordRequest, Prune, vars, StateOK, SchedOK
<1>6. ASSUME Tick PROVE Rest
  <2>1. seen' = Less(seen) /\ UNCHANGED <<jobs, pods, sched, trouble>>
    BY <1>6 DEF Tick
  <2>2. Less(seen) \in -1..SeenFor
    BY DEF Less, StateOK
  <2> QED BY <2>1, <2>2 DEF StateOK, SchedOK
<1>7. Rest
  BY <1>3, <1>4, <1>5, <1>6 DEF Next
<1> QED BY <1>1, <1>2, <1>7 DEF StateOK

LEMMA JobsStep ==
    ASSUME StateOK, SchedOK, RowsOK, JobsOK, CreateOK, [Next]_vars
    PROVE  JobsOK'
<1> USE CollectionAssumption
<1>1. RowStep
  BY RowsStep
<1>2. \A r \in Ids :
        /\ nextId' \in Int /\ nextId <= nextId'
        /\ Present(r)' => \/ Present(r) /\ rows'[r].epoch >= rows[r].epoch
                          \/ ~Present(r) /\ r >= nextId
        /\ Live(r)' => \/ Live(r) /\ rows'[r].epoch = rows[r].epoch
                       \/ Present(r) /\ rows'[r].epoch = rows[r].epoch + 1
  BY <1>1, RowEvolves DEF LaunchRow, Claimable
<1>3. \A l \in Launches : l[1] \in Ids /\ l[2] \in Epochs
  BY DEF Launches
<1>4. \A r \in Ids : Present(r) => rows[r].epoch \in Nat
  BY DEF Present, StateOK, Row
<1>5. \A r \in Ids : Present(r)' => rows'[r].epoch \in Nat
  BY <1>1, RowsTyped DEF Present, Row
<1>6. ASSUME NEW l \in Launches, jobs[l] # "none"
      PROVE  /\ l[1] < nextId'
             /\ Present(l[1])' => l[2] <= rows'[l[1]].epoch
             /\ LiveAt(l[1], l[2])' => LiveAt(l[1], l[2])
  <2>1. l[1] < nextId /\ (Present(l[1]) => l[2] <= rows[l[1]].epoch)
    BY <1>6 DEF JobsOK
  <2>2. l[1] \in Int /\ l[2] \in Int /\ nextId \in Int
    BY <1>3, SMTT(30) DEF Ids, Epochs, StateOK
  <2>3. Present(l[1])' => Present(l[1]) /\ rows'[l[1]].epoch >= rows[l[1]].epoch
    BY <1>2, <1>3, <2>1, <2>2
  <2>4. LiveAt(l[1], l[2])' => LiveAt(l[1], l[2])
    BY <1>2, <1>3, <1>4, <2>1, <2>2 DEF LiveAt
  <2> QED BY <1>2, <1>3, <1>4, <1>5, <2>1, <2>2, <2>3, <2>4
<1>7. CASE UNCHANGED <<jobs, pods>>
  BY <1>6, <1>7 DEF JobsOK
<1>8. ASSUME NEW p \in Launches, PodSettle(p) \/ PodDeadline(p) PROVE JobsOK'
  <2>1. jobs' = jobs /\ pods' = [pods EXCEPT ![p] = "ack"] /\ pods[p] \in {"work", "ack"}
    BY <1>8 DEF PodSettle, PodDeadline
  <2>2. jobs[p] # "none" /\ jobs[p] \notin {"complete", "failed"}
    BY <2>1 DEF JobsOK
  <2>3. ~LiveAt(p[1], p[2])'
    <3>1. CASE ~LiveAt(p[1], p[2])
      BY <3>1, <2>2, <1>6
    <3>2. CASE LiveAt(p[1], p[2])
      <4>1. p[1] \in Ids /\ rows[p[1]] \in Row
        BY <3>2, <1>3 DEF LiveAt, Live, Is, Present, StateOK
      <4>2. \E status \in Terminal \cup {"deferred"}, reason \in Reasons, wait \in Times :
               rows' = [rows EXCEPT ![p[1]] = Settled(@, status, reason, wait)]
        <5>1. CASE PodSettle(p)
          <6>1. PICK out \in Outcomes : \E wait \in Waits(out[1]) :
                   rows' = [rows EXCEPT ![p[1]] = Settled(@, out[1], out[2], wait)]
            BY <5>1, <3>2 DEF PodSettle, MaySettle
          <6> QED BY <6>1, SummaryFacts
        <5>2. CASE PodDeadline(p)
          BY <5>2, <3>2, TimesFacts DEF PodDeadline, MaySettle, Terminal, Reasons
        <5> QED BY <1>8, <5>1, <5>2
      <4>3. PICK status \in Terminal \cup {"deferred"}, reason \in Reasons, wait \in Times :
               rows' = [rows EXCEPT ![p[1]] = Settled(@, status, reason, wait)]
        BY <4>2
      <4>4. rows'[p[1]] = Settled(rows[p[1]], status, reason, wait)
        BY <4>1, <4>3 DEF StateOK
      <4>5. rows'[p[1]].status = status
        BY <4>1, <4>4, SettledFacts DEF Unsettled
      <4> QED BY <4>5 DEF LiveAt, Live, Is, Active, Terminal
    <3> QED BY <3>1, <3>2
  <2> QED BY <1>6, <2>1, <2>2, <2>3 DEF JobsOK, StateOK
<1>9. ASSUME NEW s \in Schedulers, CreateJob(s) PROVE JobsOK'
  <2>1. UNCHANGED <<rows, nextId, pods>> /\ sched[s].pc = "create" /\ sched[s].at \in Launches
    BY <1>9 DEF CreateJob, SchedOK
  <2>2. jobs' = jobs \/ jobs' = [jobs EXCEPT ![sched[s].at] = "active"]
    BY <1>9 DEF CreateJob
  <2>3. /\ jobs[sched[s].at] = "none" /\ sched[s].at[1] < nextId
        /\ Present(sched[s].at[1]) => sched[s].at[2] <= rows[sched[s].at[1]].epoch
    BY <2>1 DEF CreateOK
  <2> QED BY <2>1, <2>2, <2>3 DEF JobsOK, StateOK, LiveAt, Live, Is, Present
<1>10. ASSUME NEW p \in Launches, PodStart(p) \/ PodExit(p) \/ PodDies(p) PROVE JobsOK'
  <2>1. UNCHANGED <<rows, nextId>> /\ jobs[p] # "none" /\ jobs[p] \notin {"complete", "failed"}
    BY <1>10 DEF PodStart, PodExit, PodDies, JobsOK, StateOK, PodStates
  <2>2. \/ jobs' = jobs /\ \E v \in {"work", "none"} : pods' = [pods EXCEPT ![p] = v]
        \/ /\ pods' = [pods EXCEPT ![p] = "over"]
           /\ \E v \in {"complete", "failed"} : jobs' = [jobs EXCEPT ![p] = v]
    BY <1>10 DEF PodStart, PodExit, PodDies
  <2> QED BY <2>1, <2>2 DEF JobsOK, StateOK, LiveAt, Live, Is, Present
<1> QED
  <2>1. ASSUME NEW s \in Schedulers, SchedulerNext(s) PROVE CreateJob(s) \/ UNCHANGED <<jobs, pods>>
    BY <2>1 DEF SchedulerNext, Heartbeat, Reap, ListUnsettled, FailFinished, Claim, Yield,
                MarkRunning, Crash, Restart, GetJob
  <2>2. ASSUME ~(\E s \in Schedulers : SchedulerNext(s)), ~(\E l \in Launches : PodNext(l))
        PROVE  UNCHANGED <<jobs, pods>>
    BY <2>2 DEF Next, vars, JoinExplicit, RecordRequest, Prune, Tick
  <2> QED BY <1>7, <1>8, <1>9, <1>10, <2>1, <2>2 DEF PodNext

LEMMA CreateStep ==
    ASSUME StateOK, SchedOK, RowsOK, JobsOK, CreateOK, [Next]_vars
    PROVE  CreateOK'
<1> USE CollectionAssumption
<1>1. RowStep
  BY RowsStep
<1>2. \A r \in Ids :
        /\ nextId' \in Int /\ nextId <= nextId'
        /\ Present(r)' => \/ Present(r) /\ rows'[r].epoch >= rows[r].epoch
                          \/ ~Present(r) /\ r >= nextId
  BY <1>1, RowEvolves
<1>3. \A r \in Ids : Present(r) => rows[r].epoch \in Nat
  BY DEF Present, StateOK, Row
<1>4. \A r \in Ids : Present(r)' => rows'[r].epoch \in Nat
  BY <1>1, RowsTyped DEF Present, Row
\* A launch that its row has reached stays so, whatever becomes of the row.
<1>5. ASSUME NEW l \in Launches, l[1] < nextId, Present(l[1]) => l[2] <= rows[l[1]].epoch
      PROVE  l[1] < nextId' /\ (Present(l[1])' => l[2] <= rows'[l[1]].epoch)
  <2>1. l[1] \in Ids /\ l[1] \in Int /\ l[2] \in Int /\ nextId \in Int
    BY DEF Launches, Ids, Epochs, StateOK
  <2> QED BY <1>2, <1>3, <1>4, <1>5, <2>1
<1>6. ASSUME NEW s \in Schedulers, sched[s].pc = "create", NEW l, l = sched[s].at
      PROVE  /\ l \in Launches /\ jobs[l] = "none"
             /\ l[1] < nextId' /\ (Present(l[1])' => l[2] <= rows'[l[1]].epoch)
  <2>1. /\ l \in Launches /\ jobs[l] = "none"
        /\ l[1] < nextId /\ (Present(l[1]) => l[2] <= rows[l[1]].epoch)
    BY <1>6 DEF CreateOK, SchedOK
  <2> QED BY <1>5, <2>1
\* Job changes that neither create a Job nor revive a failed one.
<1>7. ASSUME \A s \in Schedulers : SchedKept(s),
             \A l \in Launches : /\ jobs[l] = "none" => jobs'[l] = "none"
                                 /\ jobs[l] = "failed" => jobs'[l] = "failed"
      PROVE  CreateOK'
  <2>1. \A s \in Schedulers : sched[s].pc = "fail" =>
           sched[s].at \in Launches /\ jobs[sched[s].at] = "failed"
    BY DEF CreateOK, SchedOK
  <2> QED BY <1>6, <1>7, <2>1 DEF CreateOK, SchedKept
<1>8. ASSUME NEW s \in Schedulers, Claim(s) PROVE CreateOK'
  <2>1. PICK r, new : /\ LaunchRow(r, new)
                      /\ sched' = [sched EXCEPT ![s].pc = "create", ![s].at = <<r, new.epoch>>]
    BY <1>8, ClaimStep
  <2> DEFINE l == <<r, new.epoch>>
  <2>2. r \in Ids /\ rows[r] \in Row /\ Present(r)
    BY <2>1 DEF LaunchRow, OneRow, Claimable, Present, StateOK
  <2>3. rows[r].epoch \in Nat /\ rows[r].epoch <= launched /\ r < nextId
    BY <2>2 DEF Row, RowsOK, RowOK
  <2>4. /\ l \in Launches /\ l[1] = r /\ l[2] = rows[r].epoch + 1
        /\ rows'[r].epoch = l[2]
    BY <2>1, <2>2, <2>3 DEF LaunchRow, OneRow, Epochs, Launches, StateOK
  <2>5. sched' = [sched EXCEPT ![s].pc = "create", ![s].at = l]
    BY <2>1
  <2>6. jobs[l] = "none" /\ jobs' = jobs
    BY <1>8, <2>2, <2>3, <2>4 DEF JobsOK, Claim
  <2>7. l[1] < nextId' /\ (Present(l[1])' => l[2] <= rows'[l[1]].epoch)
    <3>1. nextId <= nextId' /\ nextId' \in Int
      BY <1>2, <2>2
    <3>2. nextId \in Int /\ r \in Int
      BY <2>2 DEF Ids, StateOK
    <3> HIDE DEF l
    <3> QED BY <2>3, <2>4, <3>1, <3>2
  <2>8. \A t \in Schedulers : sched[t].pc = "create" => sched[t].at # l
    BY <2>2, <2>3, <2>4 DEF CreateOK
  <2> HIDE DEF l
  <2>9. \A t \in Schedulers \ {s} : sched'[t] = sched[t]
    BY <2>5 DEF StateOK
  <2>10. sched'[s].pc = "create" /\ sched'[s].at = l
    BY <2>5 DEF StateOK, SchedRecords
  <2> QED BY <1>6, <2>6, <2>7, <2>8, <2>9, <2>10 DEF CreateOK
<1>9. ASSUME NEW s \in Schedulers, CreateJob(s) PROVE CreateOK'
  <2>1. UNCHANGED <<rows, nextId>> /\ sched[s].pc = "create" /\ sched[s].at \in Launches
    BY <1>9 DEF CreateJob, SchedOK
  <2>2. jobs' = jobs \/ jobs' = [jobs EXCEPT ![sched[s].at] = "active"]
    BY <1>9 DEF CreateJob
  <2>3. sched'[s].pc \notin {"create", "fail"}
    BY <1>9 DEF CreateJob, Goto, Idle, StateOK, SchedRecords
  <2>4. \A t \in Schedulers \ {s} : sched'[t] = sched[t]
    BY <1>9 DEF CreateJob, Goto, StateOK
  <2>5. jobs[sched[s].at] = "none"
    BY <2>1 DEF CreateOK
  <2>6. \A t \in Schedulers \ {s} : sched[t].pc = "create" => sched[t].at # sched[s].at
    BY <2>1 DEF CreateOK
  <2>7. \A t \in Schedulers : sched[t].pc \in {"create", "fail"} => sched[t].at \in Launches
    BY DEF SchedOK
  <2> QED BY <2>1, <2>2, <2>3, <2>4, <2>5, <2>6, <2>7 DEF CreateOK, StateOK, Present
<1>10. ASSUME NEW s \in Schedulers, NEW l \in Launches, GetJob(s, l) PROVE CreateOK'
  <2>1. UNCHANGED <<rows, nextId, jobs>>
    BY <1>10 DEF GetJob
  <2>2. \A t \in Schedulers \ {s} : sched'[t] = sched[t]
    BY <1>10 DEF GetJob, StateOK
  <2>3. /\ sched'[s].pc # "create"
        /\ sched'[s].pc = "fail" => sched'[s].at = l /\ jobs[l] = "failed"
    BY <1>10 DEF GetJob, StateOK, SchedRecords
  <2> QED BY <2>1, <2>2, <2>3 DEF CreateOK, Present
<1>11. ASSUME NEW s \in Schedulers, SchedulerNext(s),
              ~CreateJob(s), ~Claim(s), ~\E l \in Launches : GetJob(s, l)
       PROVE  CreateOK'
  <2>1. \A t \in Schedulers : SchedKept(t)
    BY <1>11, SchedTyped
  <2>2. jobs' = jobs
    BY <1>11 DEF SchedulerNext, Heartbeat, Reap, ListUnsettled, FailFinished, Yield,
                 MarkRunning, Crash, Restart
  <2> QED BY <1>7, <2>1, <2>2
<1>12. ASSUME NEW l \in Launches, PodNext(l) PROVE CreateOK'
  <2>1. sched' = sched
    BY <1>12 DEF PodNext, PodStart, PodSettle, PodExit, PodDeadline, PodDies
  <2>2. jobs' = jobs \/ (/\ jobs[l] # "none" /\ jobs[l] \notin {"complete", "failed"}
                         /\ \E v \in JobStates : jobs' = [jobs EXCEPT ![l] = v])
    BY <1>12 DEF PodNext, PodStart, PodSettle, PodExit, PodDeadline, PodDies, JobsOK, StateOK,
                 PodStates, JobStates
  <2>3. \A p \in Launches : /\ jobs[p] = "none" => jobs'[p] = "none"
                            /\ jobs[p] = "failed" => jobs'[p] = "failed"
    BY <2>2 DEF StateOK
  <2> QED BY <1>7, <2>1, <2>3 DEF SchedKept
<1>13. ASSUME ~(\E s \in Schedulers : SchedulerNext(s)), ~(\E l \in Launches : PodNext(l))
       PROVE  CreateOK'
  <2>1. UNCHANGED <<jobs, sched>>
    BY <1>13 DEF Next, vars, JoinExplicit, RecordRequest, Prune, Tick
  <2> QED BY <1>7, <2>1 DEF SchedKept
<1> QED BY <1>8, <1>9, <1>10, <1>11, <1>12, <1>13

------------------------------------------------------------------------------
(* Theorems.                                                                *)

CollectionInv ==
    /\ StateOK /\ SchedOK /\ RowsOK
    /\ JobsOK /\ CreateOK /\ OneActivePerKey

LEMMA OneActiveStep ==
    ASSUME StateOK, RowsOK, OneActivePerKey, RowStep
    PROVE  OneActivePerKey'
<1> USE CollectionAssumption, NoRowFacts
<1>1. OneActivePerKey <=> \A q, r \in Ids : Busy(q) /\ Busy(r) /\ rows[q].key = rows[r].key => q = r
  BY DEF OneActivePerKey, Busy
<1>2. OneActivePerKey' <=>
        \A q, r \in Ids : Busy(q)' /\ Busy(r)' /\ rows'[q].key = rows'[r].key => q = r
  BY DEF OneActivePerKey, Busy
\* Only a new request becomes busy; the others were, under the same key.
<1>3. ASSUME NEW r \in Ids, Busy(r)'
      PROVE  \/ Busy(r) /\ rows'[r].key = rows[r].key
             \/ RecordRow(r, rows'[r])
  <2>1. CASE rows'[r] = rows[r]
    BY <1>3, <2>1 DEF Busy, Is, Present
  <2>2. ASSUME NEW new, JoinRow(r, new) \/ SettleRow(r, new) \/ LaunchRow(r, new)
                        \/ MarkRow(r, new)
        PROVE  Busy(r) /\ rows'[r].key = rows[r].key
    <3>1. rows'[r] = new
      BY <2>2 DEF JoinRow, SettleRow, LaunchRow, MarkRow, OneRow, StateOK
    <3> QED BY <2>2, <3>1 DEF JoinRow, SettleRow, LaunchRow, MarkRow, SameIdentity, Busy, Is,
                              Claimable, Unsettled, Active
  <2>3. ASSUME NEW q, NEW new,
               \/ JoinRow(q, new) \/ RecordRow(q, new) \/ SettleRow(q, new)
               \/ LaunchRow(q, new) \/ MarkRow(q, new)
        PROVE  \/ Busy(r) /\ rows'[r].key = rows[r].key
               \/ RecordRow(r, rows'[r])
    <3>1. OneRow(q, new)
      BY <2>3 DEF JoinRow, RecordRow, SettleRow, LaunchRow, MarkRow
    <3>2. CASE q # r
      BY <2>1, <3>1, <3>2 DEF OneRow, StateOK
    <3>3. CASE q = r /\ RecordRow(r, new)
      BY <3>1, <3>3 DEF OneRow, StateOK
    <3> QED BY <2>2, <2>3, <3>2, <3>3
  <2>4. ASSUME ReapRows, rows'[r] # rows[r] PROVE FALSE
    <3>1. Lapsed(r) /\ rows'[r] = Settled(rows[r], "failed", "other", NoTime)
      BY <2>4 DEF ReapRows
    <3>2. rows[r] \in Row
      BY <3>1 DEF Lapsed, Is, Present, StateOK
    <3>3. rows'[r].status = "failed"
      BY <3>1, <3>2, FailedFacts
    <3> QED BY <1>3, <3>3 DEF Busy, Is, Unsettled, Active
  <2>5. ASSUME PruneRows, rows'[r] # rows[r] PROVE FALSE
    <3>1. rows'[r] = NoRow
      BY <2>5 DEF PruneRows
    <3> QED BY <1>3, <3>1 DEF Busy, Is, Present
  <2>6. ASSUME TickRows PROVE Busy(r) /\ rows'[r].key = rows[r].key
    <3>1. Present(r) /\ rows[r] \in Row /\ rows'[r] = Ticked(rows[r])
      BY <1>3, <2>6 DEF TickRows, Present, StateOK, Busy, Is
    <3>2. /\ rows'[r].status = rows[r].status /\ rows'[r].key = rows[r].key
          /\ rows'[r].left = Less(rows[r].left)
      BY <3>1, TickedFacts
    <3>3. Less(rows[r].left) > 0 => rows[r].left > 0
      BY <3>1, LessFacts DEF Row
    <3> QED BY <1>3, <3>1, <3>2, <3>3 DEF Busy, Is
  <2> QED BY <2>1, <2>3, <2>4, <2>5, <2>6 DEF RowStep
<1>4. ASSUME NEW q \in Ids, NEW r \in Ids, Busy(q)', Busy(r)', rows'[q].key = rows'[r].key
      PROVE  q = r
  <2>1. CASE RecordRow(q, rows'[q]) /\ RecordRow(r, rows'[r])
    BY <2>1 DEF RecordRow
  <2>2. CASE RecordRow(q, rows'[q]) /\ Busy(r) /\ rows'[r].key = rows[r].key
    BY <1>4, <2>2 DEF RecordRow
  <2>3. CASE RecordRow(r, rows'[r]) /\ Busy(q) /\ rows'[q].key = rows[q].key
    BY <1>4, <2>3 DEF RecordRow
  <2>4. CASE /\ Busy(q) /\ rows'[q].key = rows[q].key
             /\ Busy(r) /\ rows'[r].key = rows[r].key
    BY <1>1, <1>4, <2>4
  <2> QED BY <1>3, <1>4, <2>1, <2>2, <2>3, <2>4
<1> QED BY <1>2, <1>4

\* The inductive invariant holds whatever the schedulers, Pods, callers, maintenance
\* and the clock do, in any order.
LEMMA CollectionInvariant == Spec => []CollectionInv
<1>1. Init => CollectionInv
  <2> SUFFICES ASSUME Init PROVE CollectionInv
    OBVIOUS
  <2>1. \A r \in Ids : ~Present(r)
    BY DEF Init, Present
  <2>2. JobsOK
    BY DEF Init, JobsOK
  <2>3. CreateOK
    BY DEF Init, CreateOK, Idle
  <2>4. OneActivePerKey
    BY <2>1 DEF OneActivePerKey, Is
  <2> QED BY <2>2, <2>3, <2>4, InitTypes DEF CollectionInv
<1>2. CollectionInv /\ [Next]_vars => CollectionInv'
  BY RowsStep, StateStep, JobsStep, CreateStep, OneActiveStep DEF CollectionInv
<1> QED BY <1>1, <1>2, PTL DEF Spec

\* TypeOK: every column of collection_request keeps a value the schema allows; only a
\* launching, running or deferred row has a lease.
THEOREM TypeCorrect == Spec => []TypeOK
<1>1. CollectionInv => TypeOK
  <2> SUFFICES ASSUME StateOK, RowsOK PROVE TypeOK
    BY DEF CollectionInv
  <2>1. ASSUME NEW r \in Ids, Present(r)
        PROVE  /\ r < nextId
               /\ rows[r] \in [key : Keys, status : Unsettled \cup Terminal, reason : Reasons,
                               payload : BOOLEAN, left : Times, explicit : Times, lease : Times,
                               epoch : 0..launched, job : 0..launched, done : Times]
               /\ rows[r].status \in Active \cup {"deferred"} <=> rows[r].lease # NoTime
    <3>1. RowOK(r, rows[r]) /\ rows[r] \in Row
      BY <2>1 DEF RowsOK, StateOK, Present
    <3>2. rows[r].epoch \in 0..launched /\ rows[r].job \in 0..launched
      BY <3>1 DEF RowOK, Row, StateOK
    <3> QED BY <3>1, <3>2 DEF Row, RowOK
  <2>2. /\ nextId \in 1..(MaxRows + 1) /\ seen \in -1..SeenFor
        /\ \A l \in Launches : jobs[l] \in {"none", "active", "complete", "failed"}
        /\ launched \in 0..MaxLaunches /\ trouble \in 0..MaxTrouble
    BY DEF StateOK, JobStates
  <2> QED BY <2>1, <2>2 DEF TypeOK
<1> QED BY <1>1, CollectionInvariant, PTL

\* OneActivePerKey: request_collection_shared keeps one request per canonical key that
\* is collecting or claimable, for any number of rows, schedulers and launches.
THEOREM OneActive == Spec => []OneActivePerKey
BY CollectionInvariant, PTL DEF CollectionInv

\* ReceiptKept: prune_collection_requests never deletes a row whose explicit receipt is
\* still promised, because a join lengthens both of its times (RowsOK).
THEOREM ReceiptsKept == Spec => ReceiptKept
<1>1. CollectionInv /\ [Next]_vars =>
        [\A r \in Ids : Present(r) /\ rows[r].explicit > 0 => Present(r)']_vars
  <2> SUFFICES ASSUME CollectionInv, [Next]_vars, NEW r \in Ids, Present(r),
                      rows[r].explicit > 0, ~Present(r)'
               PROVE  FALSE
    OBVIOUS
  <2> USE NoRowFacts
  <2>1. StateOK /\ RowsOK /\ RowStep
    BY RowsStep DEF CollectionInv
  <2>2. rows[r] \in Row /\ rows'[r] = NoRow
    BY <2>1 DEF StateOK, Present
  <2>3. ASSUME NEW q, NEW new, OneRow(q, new) PROVE FALSE
    BY <2>1, <2>2, <2>3 DEF OneRow, StateOK
  <2>4. ASSUME ReapRows PROVE FALSE
    <3>1. rows'[r] = rows[r] \/ rows'[r] = Settled(rows[r], "failed", "other", NoTime)
      BY <2>4 DEF ReapRows
    <3> QED BY <2>2, <3>1, FailedFacts
  <2>5. ASSUME TickRows PROVE FALSE
    <3>1. rows'[r] = Ticked(rows[r])
      BY <2>5 DEF TickRows
    <3> QED BY <2>2, <3>1, TickedFacts
  <2>6. ASSUME PruneRows PROVE FALSE
    <3>1. rows[r].left < 0
      BY <2>2, <2>6 DEF PruneRows
    <3>2. rows[r].explicit <= rows[r].left
      BY <2>1 DEF RowsOK, RowOK
    <3>3. rows[r].left \in Int /\ rows[r].explicit \in Int
      BY <2>2, TimesFacts DEF Row
    <3> QED BY <3>1, <3>2, <3>3
  <2> QED BY <2>1, <2>2, <2>3, <2>4, <2>5, <2>6
          DEF RowStep, JoinRow, RecordRow, SettleRow, LaunchRow, MarkRow
<1> QED BY <1>1, CollectionInvariant, PTL DEF Spec, ReceiptKept

\* LaunchEndsByItsOwn: settle_collection_launch and fail_finished_collection_launch end a
\* live launch only for its own Pod or its own failed Job. A Job that failed stays failed
\* although its row may be claimed and launched again meanwhile (JobsOK, CreateOK).
THEOREM LaunchesEndByTheirOwn == Spec => LaunchEndsByItsOwn
<1> DEFINE Own(l) ==
      LiveAt(l[1], l[2]) /\ ~Live(l[1])' =>
          \/ rows'[l[1]] = [rows[l[1]] EXCEPT !.left = Less(@), !.explicit = Less(@),
                                               !.lease = Less(@), !.done = Less(@)]
          \/ jobs[l] = "failed"
          \/ pods'[l] # pods[l]
<1>1. CollectionInv /\ [Next]_vars => [\A l \in Launches : Own(l)]_vars
  <2> SUFFICES ASSUME CollectionInv, [Next]_vars, NEW l \in Launches,
                      LiveAt(l[1], l[2]), ~Live(l[1])'
               PROVE  \/ rows'[l[1]] = [rows[l[1]] EXCEPT !.left = Less(@), !.explicit = Less(@),
                                                           !.lease = Less(@), !.done = Less(@)]
                      \/ jobs[l] = "failed"
                      \/ pods'[l] # pods[l]
    OBVIOUS
  <2> USE CollectionAssumption, NoRowFacts DEF CollectionInv
  <2>1. /\ l[1] \in Ids /\ l[2] \in Epochs /\ l = <<l[1], l[2]>>
        /\ Present(l[1]) /\ rows[l[1]] \in Row
        /\ rows[l[1]].status \in Active /\ rows[l[1]].lease > 0 /\ rows[l[1]].epoch = l[2]
    BY DEF Launches, LiveAt, Live, Is, Present, StateOK
  <2>2. rows'[l[1]] # rows[l[1]]
    BY <2>1 DEF LiveAt, Live, Is, Present
  \* A launch of the same request and the same epoch is this launch.
  <2>3. ASSUME NEW p \in Launches, p[1] = l[1], p[2] = rows[p[1]].epoch PROVE p = l
    BY <2>1, <2>3 DEF Launches
  <2>4. ASSUME NEW k \in Keys, JoinExplicit(k) PROVE FALSE
    <3>1. PICK r, new : JoinRow(r, new)
      BY <2>4, JoinStep
    <3>2. r = l[1] /\ rows'[r] = new
      BY <2>1, <2>2, <3>1 DEF JoinRow, OneRow, StateOK
    <3> QED BY <2>1, <3>1, <3>2 DEF JoinRow, OneRow, Live, Is, Present
  <2>5. ASSUME NEW k \in Keys, NEW demand \in BOOLEAN, RecordRequest(k, demand) PROVE FALSE
    <3>1. PICK r, new : RecordRow(r, new)
      BY <2>5, RecordStep
    <3>2. r = l[1]
      BY <2>1, <2>2, <3>1 DEF RecordRow, OneRow, StateOK
    <3> QED BY <2>1, <3>1, <3>2 DEF RecordRow, RowsOK, RowOK, StateOK, Ids
  <2>6. ASSUME Prune PROVE FALSE
    BY <2>1, <2>2, <2>6 DEF Prune
  <2>7. ASSUME NEW s \in Schedulers, SchedulerNext(s) PROVE jobs[l] = "failed"
    <3>1. CASE Reap(s)
      <4>1. Lapsed(l[1])
        BY <2>1, <2>2, <3>1 DEF Reap
      <4>2. rows[l[1]].lease \in Int
        BY <2>1, TimesFacts DEF Row
      <4> QED BY <2>1, <4>1, <4>2 DEF Lapsed
    <3>2. CASE Claim(s)
      <4>1. PICK r, new : LaunchRow(r, new)
        BY <3>2, ClaimStep
      <4>2. r = l[1]
        BY <2>1, <2>2, <4>1 DEF LaunchRow, OneRow, StateOK
      <4> QED BY <2>1, <4>1, <4>2 DEF LaunchRow, Claimable, Active
    <3>3. CASE MarkRunning(s)
      <4>1. PICK r, new : MarkRow(r, new)
        BY <2>2, <3>3, MarkStep
      <4>2. r = l[1] /\ rows'[r] = new
        BY <2>1, <2>2, <4>1 DEF MarkRow, OneRow, StateOK
      <4> QED BY <2>1, <4>1, <4>2 DEF MarkRow, OneRow, Live, Is, Present, Active
    <3>4. CASE FailFinished(s)
      <4> DEFINE p == sched[s].at
      <4>1. p \in Launches /\ jobs[p] = "failed"
        BY <3>4 DEF FailFinished, SchedOK, CreateOK
      <4>2. FinishedLaunch(p[1], p[2]) /\ p[1] = l[1]
        BY <2>1, <2>2, <3>4, <4>1 DEF FailFinished, StateOK
      <4>3. p[2] = rows[p[1]].epoch
        BY <4>2 DEF FinishedLaunch
      <4> HIDE DEF p
      <4> QED BY <2>3, <4>1, <4>2, <4>3
    <3>5. CASE ~(Reap(s) \/ Claim(s) \/ MarkRunning(s) \/ FailFinished(s))
      BY <2>2, <2>7, <3>5 DEF SchedulerNext, Heartbeat, ListUnsettled, Yield, CreateJob, Crash,
                              Restart, GetJob
    <3> QED BY <3>1, <3>2, <3>3, <3>4, <3>5
  <2>8. ASSUME NEW p \in Launches, PodNext(p) PROVE pods'[l] # pods[l]
    <3>1. CASE PodSettle(p) \/ PodDeadline(p)
      <4>1. LiveAt(p[1], p[2]) /\ p[1] = l[1]
        <5>1. p[1] \in Ids
          BY DEF Launches
        <5> QED BY <2>1, <2>2, <3>1, <5>1 DEF PodSettle, PodDeadline, MaySettle, StateOK
      <4>2. p = l
        BY <2>3, <4>1 DEF LiveAt
      <4>3. pods[p] # "ack" /\ pods' = [pods EXCEPT ![p] = "ack"]
        BY <3>1, <4>1 DEF PodSettle, PodDeadline, JobsOK
      <4> QED BY <4>2, <4>3 DEF StateOK
    <3>2. CASE ~(PodSettle(p) \/ PodDeadline(p))
      BY <2>2, <2>8, <3>2 DEF PodNext, PodStart, PodExit, PodDies
    <3> QED BY <3>1, <3>2
  <2>9. ASSUME Tick
        PROVE  rows'[l[1]] = [rows[l[1]] EXCEPT !.left = Less(@), !.explicit = Less(@),
                                                 !.lease = Less(@), !.done = Less(@)]
    BY <2>1, <2>9 DEF Tick
  <2>10. ~UNCHANGED vars
    BY <2>2 DEF vars
  <2> QED BY <2>4, <2>5, <2>6, <2>7, <2>8, <2>9, <2>10 DEF Next
<1> QED BY <1>1, CollectionInvariant, PTL DEF Spec, LaunchEndsByItsOwn

------------------------------------------------------------------------------
(* The queue implements the ledger of launches.                             *)

EpochOf(r) == IF Present(r) THEN rows[r].epoch ELSE IF r < nextId THEN MaxLaunches ELSE 0

LEMMA LedgerInit == Init => Ledger!Init
<1> SUFFICES ASSUME Init PROVE Ledger!Init
  OBVIOUS
<1>1. \A r \in Ids : ~Present(r) /\ ~(r < nextId)
  BY CollectionAssumption DEF Init, Present, Ids
<1>2. \A r \in Ids : Live(r) = FALSE
  BY <1>1 DEF Live, Is
<1>3. [r \in Ids |-> Live(r)] = [r \in Ids |-> FALSE]
  BY <1>2
<1>4. [r \in Ids |-> IF Present(r) THEN rows[r].epoch
                    ELSE IF r < nextId THEN MaxLaunches ELSE 0] = [r \in Ids |-> 0]
  BY <1>1
<1> QED BY <1>3, <1>4 DEF Ledger!Init

\* Stutters and ends: the epochs stay, and some live launches end.
LEMMA LedgerEnds ==
    ASSUME \A r \in Ids : EpochOf(r)' = EpochOf(r) /\ (Live(r)' => Live(r))
    PROVE  [Ledger!Next]_(Ledger!ledger)
<1> DEFINE E == [r \in Ids |-> IF Present(r) THEN rows[r].epoch
                            ELSE IF r < nextId THEN MaxLaunches ELSE 0]
           L == [r \in Ids |-> Live(r)]
           rs == {r \in Ids : Live(r) /\ ~Live(r)'}
<1>1. E' = E
  BY DEF EpochOf
<1>2. CASE rs = {}
  <2>1. \A r \in Ids : Live(r)' <=> Live(r)
    BY <1>2
  <2>2. \A r \in Ids : Live(r)' = Live(r)
    BY <2>1 DEF Live
  <2>3. L' = L
    BY <2>2
  <2> QED BY <1>1, <2>3 DEF Ledger!ledger
<1>3. CASE rs # {}
  <2>1. \A r \in Ids : Live(r)' = (Live(r) /\ r \notin rs)
    BY DEF Live
  <2>2. L' = [r \in Ids |-> L[r] /\ r \notin rs]
    BY <2>1
  <2>3. \A r \in rs : L[r]
    OBVIOUS
  <2>4. Ledger!End(rs)
    BY <1>1, <1>3, <2>2, <2>3 DEF Ledger!End
  <2> QED BY <2>4 DEF Ledger!Next
<1> QED BY <1>2, <1>3

LEMMA LedgerLaunch ==
    ASSUME StateOK, RowsOK, NEW r, NEW new, LaunchRow(r, new)
    PROVE  Ledger!Next
<1> USE CollectionAssumption, NoRowFacts
<1> DEFINE E == [q \in Ids |-> IF Present(q) THEN rows[q].epoch
                            ELSE IF q < nextId THEN MaxLaunches ELSE 0]
           L == [q \in Ids |-> Live(q)]
<1>1. /\ r \in Ids /\ Present(r) /\ rows[r] \in Row /\ rows'[r] = new /\ Present(r)'
      /\ \A q \in Ids \ {r} : rows'[q] = rows[q]
  BY DEF LaunchRow, OneRow, Claimable, Present, StateOK
<1>2. rows[r].epoch \in Nat /\ rows[r].epoch <= launched
  BY <1>1 DEF Row, RowsOK, RowOK
<1>3. new.epoch \in (rows[r].epoch + 1)..MaxLaunches
  BY <1>2 DEF LaunchRow, StateOK
<1>4. ~Live(r)
  BY DEF LaunchRow, Claimable, Live, Is, Active
<1>5. Live(r)' = TRUE
  BY <1>1 DEF LaunchRow, Live, Is, Active
<1>6. nextId' = nextId
  BY DEF LaunchRow
<1>7. E' = [E EXCEPT ![r] = new.epoch]
  BY <1>1, <1>6 DEF Present
<1>8. L' = [L EXCEPT ![r] = TRUE]
  <2>1. \A q \in Ids \ {r} : Live(q)' = Live(q)
    BY <1>1 DEF Live, Is, Present
  <2> QED BY <1>1, <1>5, <2>1
<1>9. E[r] = rows[r].epoch /\ ~L[r]
  BY <1>1, <1>4
<1>10. Ledger!Launch(r)
  BY <1>3, <1>7, <1>8, <1>9 DEF Ledger!Launch
<1> QED BY <1>1, <1>10 DEF Ledger!Next

LEMMA LedgerForget ==
    ASSUME StateOK, RowsOK, PruneRows
    PROVE  Ledger!Next
<1> DEFINE E == [q \in Ids |-> IF Present(q) THEN rows[q].epoch
                            ELSE IF q < nextId THEN MaxLaunches ELSE 0]
           L == [q \in Ids |-> Live(q)]
<1>1. PICK dead \in SUBSET Ids :
          /\ dead # {}
          /\ \A r \in dead : Present(r) /\ rows[r].left < 0 /\ rows[r].status \notin Active
          /\ rows' = [r \in Ids |-> IF r \in dead THEN NoRow ELSE rows[r]]
  BY DEF PruneRows
<1>2. nextId' = nextId /\ \A r \in dead : r < nextId
  BY <1>1 DEF PruneRows, RowsOK, RowOK
<1>3. /\ \A r \in dead : ~Present(r)' /\ ~Live(r) /\ ~Live(r)'
      /\ \A r \in Ids \ dead : rows'[r] = rows[r]
  BY <1>1 DEF Present, Live, Is
<1>4. E' = [r \in Ids |-> IF r \in dead THEN MaxLaunches ELSE E[r]]
  BY <1>2, <1>3 DEF Present
<1>5. L' = L
  <2>1. \A r \in Ids : Live(r)' = Live(r)
    BY <1>3 DEF Live, Is, Present
  <2> QED BY <2>1
<1>6. \A r \in dead : ~L[r]
  BY <1>3
<1>7. Ledger!Forget(dead)
  BY <1>1, <1>4, <1>5, <1>6 DEF Ledger!Forget
<1> QED BY <1>7 DEF Ledger!Next

LEMMA LedgerStep ==
    ASSUME StateOK, RowsOK, RowStep
    PROVE  [Ledger!Next]_(Ledger!ledger)
<1> USE CollectionAssumption, TimesFacts, NoRowFacts
<1> DEFINE Ends(r) == EpochOf(r)' = EpochOf(r) /\ (Live(r)' => Live(r))
<1>1. ASSUME NEW r \in Ids, rows'[r] = rows[r], nextId' = nextId PROVE Ends(r)
  BY <1>1 DEF EpochOf, Present, Live, Is
<1>2. ASSUME NEW q, NEW new, JoinRow(q, new) \/ SettleRow(q, new) \/ MarkRow(q, new),
             NEW r \in Ids
      PROVE  Ends(r)
  <2>1. OneRow(q, new) /\ nextId' = nextId
    BY <1>2 DEF JoinRow, SettleRow, MarkRow
  <2>2. CASE q # r
    BY <1>1, <2>1, <2>2 DEF OneRow, StateOK
  <2>3. CASE q = r
    <3>1. rows'[r] = new /\ Present(r) /\ Present(r)' /\ new.epoch = rows[r].epoch
      BY <1>2, <2>1, <2>3 DEF JoinRow, SettleRow, MarkRow, OneRow, SameIdentity, StateOK, Busy,
                              Is, Present
    <3>2. Live(r)' => Live(r)
      BY <1>2, <2>3, <3>1 DEF JoinRow, SettleRow, MarkRow, Live, Is, Present, Active, Terminal
    <3> QED BY <3>1, <3>2 DEF EpochOf
  <2> QED BY <2>2, <2>3
<1>3. ASSUME NEW q, NEW new, RecordRow(q, new), NEW r \in Ids PROVE Ends(r)
  <2>1. q = nextId /\ nextId' = nextId + 1 /\ nextId \in Int /\ r \in Int /\ rows'[q] = new
    BY <1>3 DEF RecordRow, OneRow, StateOK, Ids
  <2>2. CASE q # r
    <3>1. rows'[r] = rows[r]
      BY <1>3, <2>2 DEF RecordRow, OneRow, StateOK
    <3> QED BY <2>1, <2>2, <3>1 DEF EpochOf, Present, Live, Is
  <2>3. CASE q = r
    <3>1. ~Present(r) /\ Present(r)'
      BY <1>3, <2>1, <2>3 DEF RowsOK, RowOK, RecordRow, OneRow, Present
    <3>2. ~Live(r)'
      BY <1>3, <2>1, <2>3 DEF RecordRow, Live, Is, Active
    <3> QED BY <1>3, <2>1, <2>3, <3>1, <3>2 DEF EpochOf, RecordRow
  <2> QED BY <2>2, <2>3
<1>4. ASSUME ReapRows, NEW r \in Ids PROVE Ends(r)
  <2>1. CASE rows'[r] = rows[r]
    BY <1>1, <1>4, <2>1 DEF ReapRows
  <2>2. CASE rows'[r] # rows[r]
    <3>1. Lapsed(r) /\ rows'[r] = Settled(rows[r], "failed", "other", NoTime)
      BY <1>4, <2>2 DEF ReapRows
    <3>2. Present(r) /\ rows[r] \in Row
      BY <3>1 DEF Lapsed, Is, Present, StateOK
    <3>3. /\ rows'[r] \in Row /\ rows'[r].status = "failed"
          /\ rows'[r].epoch = rows[r].epoch
      BY <3>1, <3>2, FailedFacts
    <3> QED BY <3>2, <3>3 DEF EpochOf, Present, Live, Is, Active
  <2> QED BY <2>1, <2>2
<1>5. ASSUME TickRows, NEW r \in Ids PROVE Ends(r)
  <2>1. CASE ~Present(r)
    BY <1>1, <1>5, <2>1 DEF TickRows, Present
  <2>2. CASE Present(r)
    <3>1. rows[r] \in Row /\ rows'[r] = Ticked(rows[r])
      BY <1>5, <2>2 DEF TickRows, Present, StateOK
    <3>2. /\ rows'[r] \in Row /\ rows'[r].status = rows[r].status
          /\ rows'[r].epoch = rows[r].epoch /\ rows'[r].lease = Less(rows[r].lease)
      BY <3>1, TickedFacts
    <3>3. Less(rows[r].lease) > 0 => rows[r].lease > 0
      BY <3>1, LessFacts DEF Row
    <3> QED BY <2>2, <3>2, <3>3 DEF EpochOf, Present, Live, Is
  <2> QED BY <2>1, <2>2
<1>6. CASE UNCHANGED <<rows, nextId, launched>>
  BY <1>1, <1>6, LedgerEnds
<1>7. ASSUME NEW q, NEW new,
             JoinRow(q, new) \/ SettleRow(q, new) \/ MarkRow(q, new) \/ RecordRow(q, new)
      PROVE  [Ledger!Next]_(Ledger!ledger)
  BY <1>2, <1>3, <1>7, LedgerEnds
<1>8. CASE ReapRows \/ TickRows
  BY <1>4, <1>5, <1>8, LedgerEnds
<1> QED BY <1>6, <1>7, <1>8, LedgerLaunch, LedgerForget DEF RowStep

\* IsLedger: the queue implements LaunchLedger, so a launch that is over is never live
\* again and the next claim of its request carries a larger epoch.
THEOREM QueueIsLedger == Spec => IsLedger
<1>1. CollectionInv /\ [Next]_vars => [Ledger!Next]_(Ledger!ledger)
  BY RowsStep, LedgerStep DEF CollectionInv
<1> QED BY <1>1, LedgerInit, CollectionInvariant, PTL DEF Spec, IsLedger, Ledger!Spec
=============================================================================
