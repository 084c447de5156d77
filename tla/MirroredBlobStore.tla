-------------------------- MODULE MirroredBlobStore --------------------------
(***************************************************************************)
(* The strict two-copy blob store: crates/adapters/src/blob/mirrored.rs.   *)
(*                                                                         *)
(* An aggregate operation runs one job on each of two filesystem stores    *)
(* ("legs") and keeps its permit until what it started has physically      *)
(* ended. Each leg behaves as FsBlobStore allows: it has its own failure   *)
(* epoch and recovers only without other jobs. failure() takes two steps   *)
(* under the admission mutex, and the probe reads what it writes without   *)
(* that mutex.                                                             *)
(***************************************************************************)
EXTENDS Integers, FiniteSets

CONSTANTS
  Ops,       \* ordinary aggregate operations
  Probe,     \* the operation of the probe permit
  Callers,   \* concurrent callers of health()
  Slots,     \* JOBS, of the aggregate and of each leg
  MaxFaults, \* bound: failing and late jobs
  MaxLoad,   \* bound: ordinary operations admitted
  MaxExtras  \* bound: lookups, callers that cancel or leave, and close() calls

ASSUME MirrorAssumption ==
  /\ Probe \notin Ops /\ Slots \in Nat \ {0}
  /\ MaxFaults \in Nat /\ MaxLoad \in Nat /\ MaxExtras \in Nat

Legs == {"primary", "mirror"}
All  == Ops \union {Probe}
Bounded == {"faults", "load", "extras"}

VARIABLES
  healthy,    \* Shared.healthy
  closed,     \* Shared.closed
  generation, \* Shared.generation
  drained,    \* close() has returned Ok
  op,         \* each operation's task and its deadline watcher
  leg,        \* each leg's job for each operation
  root,       \* health, shutdown and failure epoch of each leg
  read,       \* a lookup, which is the primary's own job
  flight,     \* Shared.health_flight with its coordinator task
  caller,     \* the calls of health()
  torn,       \* history: a probe read healthy inside a running failure()
  budget      \* how often each bounded event has happened

vars   == <<healthy, closed, generation, drained, op, leg, root, read, flight, caller, torn, budget>>
shared == <<healthy, closed, generation, drained>>
health == <<flight, caller, torn>>

NoOp     == [task |-> "idle", watch |-> "off", at |-> 0, cut |-> FALSE, left |-> {}]
NoLeg    == [phys |-> "none", ans |-> "none", gen |-> 0, rec |-> FALSE]
NoFlight == [pc |-> "none", gen |-> 0, ok |-> FALSE]
NoCaller == [pc |-> "idle", gen |-> 0, ok |-> FALSE]

Active(x)     == op[x].task # "idle"
Running(l, x) == leg[l][x].phys \in {"run", "late"}
\* active_jobs = 0 on leg l.
LegIdle(l)    == (l = "primary" => ~read.on) /\ \A x \in All : ~Running(l, x)
LegFull(l)    == Cardinality({o \in Ops : Running(l, o)} \union
                   (IF l = "primary" /\ read.on THEN {Probe} ELSE {})) >= Slots

\* Some thread is inside failure() and holds the admission mutex.
Locked == \E x \in All : "failing" \in {op[x].task, op[x].watch}

Spend(k, max) == budget[k] < max /\ budget' = [budget EXCEPT ![k] = @ + 1]
Fault         == Spend("faults", MaxFaults)

\* FsBlobStore's failed() on leg l.
RootFails(l) == root' = [root EXCEPT ![l].healthy = FALSE, ![l].epoch = @ + 1]

\* pair(): corruption first, then the primary's error, then the mirror's.
Outcome(x) ==
  LET a == leg["primary"][x].ans
      b == leg["mirror"][x].ans
  IN  IF "corrupt" \in {a, b} THEN "corrupt" ELSE IF a # "ok" THEN a ELSE b

----------------------------------------------------------------------------
(* operation() and its task. *)

Started(x, pc) ==
  /\ op' = [op EXCEPT ![x] = [NoOp EXCEPT !.task = pc, !.watch = "on", !.at = generation]]
  /\ leg' = [l \in Legs |-> [leg[l] EXCEPT ![x] = [NoLeg EXCEPT !.phys = "new"]]]

Admit(o) ==
  /\ op[o] = NoOp
  /\ ~Locked /\ ~closed /\ healthy
  /\ Cardinality({x \in Ops : Active(x)}) < Slots
  /\ Spend("load", MaxLoad)
  /\ Started(o, "work")
  /\ UNCHANGED <<shared, root, read, health>>

\* The caller cancels its token or drops the future.
Cancel(o) ==
  /\ Active(o) /\ ~op[o].cut /\ Spend("extras", MaxExtras)
  /\ op' = [op EXCEPT ![o].cut = TRUE]
  /\ UNCHANGED <<shared, leg, root, read, health>>

\* The task is over; its watcher answers, unless it has given up already.
Ended(x) == [op[x] EXCEPT !.task = "idle", !.left = {}, !.cut = FALSE, !.at = 0,
                          !.watch = IF op[x].watch = "on" THEN "off" ELSE op[x].watch]

Forgotten(x) ==
  leg' = [l \in Legs |-> [leg[l] EXCEPT ![x] =
            [NoLeg EXCEPT !.phys = IF Running(l, x) THEN leg[l][x].phys ELSE "none"]]]

\* What the coordinator of the flight sees of the probe's end.
Reported(x, good) ==
  flight' = IF x = Probe /\ op[x].watch = "on"
            THEN [flight EXCEPT !.pc = "end", !.ok = good] ELSE flight

Answered(x) == op[x].task = "work" /\ \A l \in Legs : leg[l][x].ans # "none"

FinishOk(x) ==
  /\ Answered(x) /\ Outcome(x) = "ok"
  /\ op' = [op EXCEPT ![x] = Ended(x)]
  /\ Forgotten(x) /\ Reported(x, TRUE)
  /\ UNCHANGED <<shared, root, read, caller, torn, budget>>

\* failure() returns at once for Cancelled, Busy and Shutdown; else its first store.
FinishErr(x) ==
  /\ Answered(x) /\ Outcome(x) # "ok"
  /\ IF Outcome(x) = "soft"
     THEN op' = [op EXCEPT ![x].task = "drain", ![x].left = Legs] /\ UNCHANGED generation
     ELSE /\ ~Locked
          /\ op' = [op EXCEPT ![x].task = "failing"] /\ generation' = generation + 1
  /\ UNCHANGED <<healthy, closed, drained, leg, root, read, health, budget>>

TaskStores(x) ==
  /\ op[x].task = "failing" /\ healthy' = FALSE
  /\ op' = [op EXCEPT ![x].task = "drain", ![x].left = Legs]
  /\ UNCHANGED <<closed, generation, drained, leg, root, read, health, budget>>

DrainLegHealthy(x, l) ==
  /\ op[x].task = "drain" /\ l \in op[x].left /\ LegIdle(l) /\ (x \in Ops => healthy)
  /\ IF op[x].left = {l}
     THEN op' = [op EXCEPT ![x] = Ended(x)] /\ Forgotten(x) /\ Reported(x, FALSE)
     ELSE op' = [op EXCEPT ![x].left = @ \ {l}] /\ UNCHANGED <<leg, flight>>
  /\ UNCHANGED <<shared, root, read, caller, torn, budget>>

\* physical_drain() of leg l sees no job there; after both legs the permit goes back.
DrainLeg(x, l) ==
  /\ op[x].task = "drain" /\ l \in op[x].left /\ LegIdle(l)
  /\ IF op[x].left = {l}
     THEN op' = [op EXCEPT ![x] = Ended(x)] /\ Forgotten(x) /\ Reported(x, FALSE)
     ELSE op' = [op EXCEPT ![x].left = @ \ {l}] /\ UNCHANGED <<leg, flight>>
  /\ UNCHANGED <<shared, root, read, caller, torn, budget>>

\* The watcher: timeout and token.cancel(), then the two stores of failure().
WatchCancels(x) ==
  /\ Active(x) /\ op[x].watch = "on" /\ Fault
  /\ op' = [op EXCEPT ![x].watch = "cancel", ![x].cut = TRUE]
  /\ UNCHANGED <<shared, leg, root, read, health>>

WatchFails(x) ==
  /\ op[x].watch = "cancel" /\ ~Locked
  /\ op' = [op EXCEPT ![x].watch = "failing"] /\ generation' = generation + 1
  /\ UNCHANGED <<healthy, closed, drained, leg, root, read, health, budget>>

WatchStores(x) ==
  /\ op[x].watch = "failing" /\ healthy' = FALSE
  /\ op' = [op EXCEPT ![x].watch = "off"]
  /\ flight' = IF x = Probe THEN [flight EXCEPT !.pc = "end"] ELSE flight
  /\ UNCHANGED <<closed, generation, drained, leg, root, read, caller, torn, budget>>

----------------------------------------------------------------------------
(* The legs: FsBlobStore's job() and health() as the aggregate sees them.   *)

LegStep(l, x, r) == leg' = [leg EXCEPT ![l][x] = r]

\* Admission to the leg: cancellation, shutdown, health and slots, in that order.
LegBegins(l, o) ==
  LET r == leg[l][o] IN
  /\ r.phys = "new" /\ op[o].task = "work"
  /\ LegStep(l, o,
       IF op[o].cut \/ root[l].closed THEN [r EXCEPT !.phys = "none", !.ans = "soft"]
       ELSE IF ~root[l].healthy THEN [r EXCEPT !.phys = "none", !.ans = "down"]
       ELSE IF LegFull(l) THEN [r EXCEPT !.phys = "none", !.ans = "soft"]
       ELSE [r EXCEPT !.phys = "run"])
  /\ UNCHANGED <<shared, op, root, read, health, budget>>

\* The leg's own flight: recovery is refused while any other job runs there.
LegProbes(l) ==
  LET r == leg[l][Probe] IN
  /\ r.phys = "new" /\ op[Probe].task = "work"
  /\ LegStep(l, Probe,
       IF op[Probe].cut \/ root[l].closed \/ (~root[l].healthy /\ ~LegIdle(l))
       THEN [r EXCEPT !.phys = "none", !.ans = "soft"]
       ELSE [r EXCEPT !.phys = "run", !.gen = root[l].epoch, !.rec = ~root[l].healthy])
  /\ UNCHANGED <<shared, op, root, read, health, budget>>

Reply(r, a) == IF r.ans = "none" THEN a ELSE r.ans

LegEnds(l, o) ==
  /\ Running(l, o)
  /\ \E a \in {"ok"} \union (IF op[o].cut THEN {"soft"} ELSE {}) :
       LegStep(l, o, [leg[l][o] EXCEPT !.phys = "none", !.ans = Reply(leg[l][o], a)])
  /\ UNCHANGED <<shared, op, root, read, health, budget>>

\* A leg's probe that is still awaited reopens the leg, in the epoch it began in.
LegProbeEnds(l) ==
  LET r    == leg[l][Probe]
      good == r.ans = "none" /\ ~root[l].closed /\ root[l].epoch = r.gen
      a    == IF root[l].closed THEN "soft" ELSE IF root[l].epoch = r.gen THEN "ok" ELSE "down"
  IN
  /\ Running(l, Probe)
  /\ LegStep(l, Probe, [r EXCEPT !.phys = "none", !.ans = Reply(r, a)])
  /\ root' = [root EXCEPT ![l].healthy = @ \/ (good /\ r.rec)]
  /\ UNCHANGED <<shared, op, read, health, budget>>

LegFails(l, x) ==
  /\ Running(l, x) /\ Fault /\ RootFails(l)
  /\ \E a \in {"down", "corrupt"} :
       LegStep(l, x, [leg[l][x] EXCEPT !.phys = "none", !.ans = Reply(leg[l][x], a)])
  /\ UNCHANGED <<shared, op, read, health>>

\* The leg's deadline: an answer, while the kernel keeps the job.
LegGivesUp(l, x) ==
  /\ leg[l][x].phys = "run" /\ Fault /\ RootFails(l)
  /\ LegStep(l, x, [leg[l][x] EXCEPT !.phys = "late", !.ans = Reply(leg[l][x], "down")])
  /\ UNCHANGED <<shared, op, read, health>>

\* The leg's future sees the token; its job runs on.
LegCut(l, x) ==
  /\ op[x].cut /\ Running(l, x) /\ leg[l][x].ans = "none"
  /\ LegStep(l, x, [leg[l][x] EXCEPT !.ans = "soft"])
  /\ UNCHANGED <<shared, op, root, read, health, budget>>

\* get() and enumerate() go to the primary and are no aggregate operations.
ReadStarts ==
  /\ ~read.on /\ root["primary"].healthy /\ ~LegFull("primary")
  /\ Spend("extras", MaxExtras)
  /\ read' = [on |-> TRUE, at |-> generation]
  /\ UNCHANGED <<shared, op, leg, root, health>>

ReadEnds ==
  /\ read.on /\ read' = [on |-> FALSE, at |-> 0]
  /\ UNCHANGED <<shared, op, leg, root, health, budget>>

\* It fails, or is given up on and runs on.
ReadFails ==
  /\ read.on /\ Fault /\ RootFails("primary")
  /\ read' \in {read, [on |-> FALSE, at |-> 0]}
  /\ UNCHANGED <<shared, op, leg, health>>

----------------------------------------------------------------------------
(* health() *)

\* Under the flight's mutex, not the admission mutex.
HealthJoin(c) ==
  /\ caller[c].pc = "idle" /\ ~closed
  /\ caller' = [caller EXCEPT ![c] = [NoCaller EXCEPT !.pc = "wait"]]
  /\ flight' = IF flight.pc # "none" THEN flight ELSE [NoFlight EXCEPT !.pc = "admit"]
  /\ UNCHANGED <<shared, op, leg, root, read, torn, budget>>

FlightAdmit ==
  /\ flight.pc = "admit" /\ ~Locked
  /\ IF closed \/ Active(Probe)
     THEN flight' = [flight EXCEPT !.pc = "end"] /\ UNCHANGED <<op, leg>>
     ELSE flight' = [flight EXCEPT !.pc = "probe"] /\ Started(Probe, "load generation")
  /\ UNCHANGED <<shared, root, read, caller, torn, budget>>

\* The next of the probe's loads; a failed drainage check is Busy, which drains.
ProbeGoes(pc, good) ==
  op' = [op EXCEPT ![Probe].task = IF good THEN pc ELSE "drain",
                   ![Probe].left = IF good THEN {} ELSE Legs]

LoadGeneration ==
  /\ op[Probe].task = "load generation" /\ ProbeGoes("load healthy", TRUE)
  /\ flight' = [flight EXCEPT !.gen = generation]
  /\ UNCHANGED <<shared, leg, root, read, caller, torn, budget>>

LoadHealthy ==
  /\ op[Probe].task = "load healthy"
  /\ ProbeGoes(IF healthy THEN "work" ELSE "load active", TRUE)
  /\ torn' = (torn \/ (healthy /\ Locked /\ flight.gen = generation))
  /\ UNCHANGED <<shared, leg, root, read, flight, caller, budget>>

LoadActiveNever ==
  /\ op[Probe].task = "load active" /\ ProbeGoes("load primary", TRUE)
  /\ UNCHANGED <<shared, leg, root, read, health, budget>>

LoadActiveItself ==
  /\ op[Probe].task = "load active"
  /\ ProbeGoes("load primary", \A x \in All : ~Active(x))
  /\ UNCHANGED <<shared, leg, root, read, health, budget>>

LoadActive ==
  /\ op[Probe].task = "load active"
  /\ ProbeGoes("load primary", \A o \in Ops : ~Active(o))
  /\ UNCHANGED <<shared, leg, root, read, health, budget>>

LoadLegs ==
  /\ \/ op[Probe].task = "load primary" /\ ProbeGoes("load mirror", LegIdle("primary"))
     \/ op[Probe].task = "load mirror" /\ ProbeGoes("work", LegIdle("mirror"))
  /\ UNCHANGED <<shared, leg, root, read, health, budget>>

FlightEnds ==
  /\ flight.pc = "end" /\ flight' = NoFlight
  /\ caller' = [c \in Callers |->
       IF caller[c].pc = "wait"
       THEN [pc |-> "decide", gen |-> flight.gen, ok |-> flight.ok] ELSE caller[c]]
  /\ UNCHANGED <<shared, op, leg, root, read, torn, budget>>

\* Under the admission mutex, what a caller needs before it reopens the aggregate.
Confirmed(c) == /\ caller[c].ok /\ ~closed /\ generation = caller[c].gen
                /\ \A l \in Legs : root[l].healthy

HealthReturns(c) ==
  /\ caller[c].pc = "decide" /\ ~Locked
  /\ healthy' = (healthy \/ Confirmed(c))
  /\ caller' = [caller EXCEPT ![c] = NoCaller]
  /\ UNCHANGED <<closed, generation, drained, op, leg, root, read, flight, torn, budget>>

HealthLeaves(c) ==
  /\ caller[c].pc # "idle" /\ Spend("extras", MaxExtras)
  /\ caller' = [caller EXCEPT ![c] = NoCaller]
  /\ UNCHANGED <<shared, op, leg, root, read, flight, torn>>

----------------------------------------------------------------------------
(* close(): the aggregate, then the primary, then the mirror. *)

Close ==
  /\ ~closed /\ ~Locked /\ closed' = TRUE /\ healthy' = FALSE
  /\ Spend("extras", MaxExtras)
  /\ UNCHANGED <<generation, drained, op, leg, root, read, health>>

CloseLeg(l) ==
  /\ closed /\ ~root[l].closed /\ (l = "mirror" => root["primary"].closed)
  /\ root' = [root EXCEPT ![l].closed = TRUE, ![l].healthy = FALSE]
  /\ UNCHANGED <<shared, op, leg, read, health, budget>>

CloseReturns ==
  /\ ~drained /\ drained' = TRUE
  /\ \A l \in Legs : root[l].closed /\ LegIdle(l)
  /\ \A x \in All : ~Active(x)
  /\ UNCHANGED <<healthy, closed, generation, op, leg, root, read, health, budget>>

Init ==
  /\ healthy = TRUE /\ closed = FALSE /\ generation = 0 /\ drained = FALSE
  /\ op = [x \in All |-> NoOp]
  /\ leg = [l \in Legs |-> [x \in All |-> NoLeg]]
  /\ root = [l \in Legs |-> [healthy |-> TRUE, closed |-> FALSE, epoch |-> 0]]
  /\ read = [on |-> FALSE, at |-> 0]
  /\ flight = NoFlight /\ caller = [c \in Callers |-> NoCaller] /\ torn = FALSE
  /\ budget = [k \in Bounded |-> 0]

TaskStep(x)  == FinishOk(x) \/ FinishErr(x) \/ TaskStores(x) \/ \E l \in Legs : DrainLeg(x, l)
WatchStep(x) == WatchFails(x) \/ WatchStores(x)
JobStep(l, o) == LegBegins(l, o) \/ LegEnds(l, o)
LegProbe(l)  == LegProbes(l) \/ LegProbeEnds(l)
ProbeStep    == LoadGeneration \/ LoadHealthy \/ LoadActive \/ LoadLegs
FlightStep   == FlightAdmit \/ FlightEnds

Next ==
  \/ \E o \in Ops : Admit(o) \/ Cancel(o)
  \/ \E x \in All : TaskStep(x) \/ WatchCancels(x) \/ WatchStep(x)
  \/ \E l \in Legs : (\E o \in Ops : JobStep(l, o)) \/ LegProbe(l) \/ CloseLeg(l)
  \/ \E l \in Legs, x \in All : LegFails(l, x) \/ LegGivesUp(l, x) \/ LegCut(l, x)
  \/ ReadStarts \/ ReadEnds \/ ReadFails
  \/ ProbeStep \/ FlightStep
  \/ \E c \in Callers : HealthJoin(c) \/ HealthReturns(c) \/ HealthLeaves(c)
  \/ Close \/ CloseReturns

Spec == Init /\ [][Next]_vars

----------------------------------------------------------------------------
(* Properties. *)

OpRecords == [task : {"idle", "load generation", "load healthy", "load active", "load primary",
                      "load mirror", "work", "failing", "drain"},
              watch : {"off", "on", "cancel", "failing"}, at : Nat, cut : BOOLEAN,
              left : SUBSET Legs]
LegRecords    == [phys : {"none", "new", "run", "late"},
                  ans : {"none", "ok", "soft", "down", "corrupt"}, gen : Nat, rec : BOOLEAN]
RootRecords   == [healthy : BOOLEAN, closed : BOOLEAN, epoch : Nat]
FlightRecords == [pc : {"none", "admit", "probe", "end"}, gen : Nat, ok : BOOLEAN]
CallerRecords == [pc : {"idle", "wait", "decide"}, gen : Nat, ok : BOOLEAN]

FlagsOK == healthy \in BOOLEAN /\ closed \in BOOLEAN /\ drained \in BOOLEAN /\ torn \in BOOLEAN
OpsOK   == op \in [All -> OpRecords]
LegsOK  == leg \in [Legs -> [All -> LegRecords]]
RootsOK == root \in [Legs -> RootRecords]
FlightsOK == flight \in FlightRecords /\ caller \in [Callers -> CallerRecords]
CountsOK  == /\ generation \in Nat /\ budget \in [Bounded -> Nat]
             /\ read \in [on : BOOLEAN, at : Nat]

\* Type invariant.
TypeOK == FlagsOK /\ OpsOK /\ LegsOK /\ RootsOK /\ FlightsOK /\ CountsOK

\* "Aggregate admission remains held until both physical jobs drain": whatever was
\* cancelled, failed or timed out on either leg, no job outlives its permit.
PermitHeld == \A l \in Legs, x \in All : Running(l, x) => Active(x)

\* An aggregate that admits work has outlived every operation and every lookup of an
\* earlier failure generation.
RecoveryDrained ==
  healthy /\ ~Locked =>
    /\ \A o \in Ops : Active(o) => op[o].at = generation
    /\ read.on => read.at = generation

\* The same, unless a probe read the healthy flag between the two stores of failure():
\* that is the only way around the drainage proof.
DrainedUnlessTorn == ~torn => RecoveryDrained

\* Kernel calls return, tasks and watchers are polled, and the store's owner keeps
\* calling health(). physical_drain() looks again whenever a job of the leg ends; health
\* calls are far enough apart that one of these looks finds the leg idle.
Fairness ==
  /\ \A x \in All : WF_vars(TaskStep(x)) /\ WF_vars(WatchStep(x))
  /\ \A x \in All : SF_vars(\E l \in Legs : DrainLeg(x, l))
  /\ \A l \in Legs : WF_vars(LegProbe(l)) /\ \A o \in Ops : WF_vars(JobStep(l, o))
  /\ \A c \in Callers : WF_vars(HealthJoin(c) \/ HealthReturns(c))
  /\ WF_vars(ReadEnds) /\ WF_vars(ProbeStep) /\ WF_vars(FlightStep)

FairSpec == Spec /\ Fairness

\* After the faults, the aggregate admits work again, unless it is closed, although its
\* own recovery waits for both legs and each leg's recovery waits for its own jobs.
Readmits == ~healthy ~> healthy \/ closed

\* Every operation gives its permit back.
PermitsReturn == \A x \in All : Active(x) ~> ~Active(x)
=============================================================================
