----------------------------- MODULE FsBlobStore -----------------------------
(***************************************************************************)
(* Admission, deadlines, health and shutdown of the filesystem blob store: *)
(* crates/adapters/src/blob.rs.                                            *)
(*                                                                         *)
(* A blocking job outlives the caller that waits for it and the deadline   *)
(* that gives up on it; only its physical end releases its permit. Every   *)
(* section under the admission mutex is one step. What a job does to files *)
(* is left out: this module is about which jobs may run side by side.      *)
(***************************************************************************)
EXTENDS Integers, FiniteSets

CONSTANTS
  Jobs,      \* ordinary filesystem jobs
  Callers,   \* concurrent callers of health(), at most HEALTH_WAITERS
  Slots,     \* JOBS
  MaxFaults, \* bound: failing, panicking and late jobs
  MaxLeaves  \* bound: health callers that are cancelled

ASSUME BlobAssumption ==
  Slots \in Nat \ {0} /\ MaxFaults \in Nat /\ MaxLeaves \in Nat

VARIABLES
  healthy,  \* Shared.healthy
  closed,   \* Shared.closed
  epoch,    \* Shared.failure_epoch
  drained,  \* close() has returned Ok
  job,      \* the ordinary jobs
  flight,   \* Shared.health_flight with its coordinator task
  probe,    \* the job of the probe slot
  caller,   \* the calls of health()
  faults, leaves

vars   == <<healthy, closed, epoch, drained, job, flight, probe, caller, faults, leaves>>
shared == <<healthy, closed, epoch, drained>>
budget == <<faults, leaves>>

NoJob    == [pc |-> "idle", at |-> 0, late |-> FALSE]
NoFlight == [pc |-> "none", gen |-> 0, rec |-> FALSE, ok |-> FALSE]
NoProbe  == [pc |-> "none", gen |-> 0, rec |-> FALSE, ok |-> FALSE, late |-> FALSE]
NoCaller == [pc |-> "idle", gen |-> 0, rec |-> FALSE, ok |-> FALSE]

\* active_jobs counts these and the probe.
Active(j) == job[j].pc \in {"run", "leave"}

\* failed(), under the admission mutex.
Failed == epoch' = epoch + 1 /\ healthy' = FALSE

Injected == faults < MaxFaults /\ faults' = faults + 1

----------------------------------------------------------------------------
(* job(): an ordinary operation. A refused one changes nothing. *)

Admit(j) ==
  /\ job[j].pc = "idle"
  /\ ~closed /\ healthy
  /\ Cardinality({i \in Jobs : job[i].pc = "run"}) < Slots
  /\ job' = [job EXCEPT ![j] = [pc |-> "run", at |-> epoch, late |-> FALSE]]
  /\ UNCHANGED <<shared, flight, probe, caller, budget>>

\* The blocking closure returns a value, or an error that says nothing about the root;
\* its permit is dropped before the job is counted out.
WorkEnds(j) ==
  /\ job[j].pc = "run"
  /\ job' = [job EXCEPT ![j].pc = "leave"]
  /\ UNCHANGED <<shared, flight, probe, caller, budget>>

\* It returns any other error; the failure is recorded before the job is counted out.
WorkFails(j) ==
  /\ job[j].pc = "run" /\ Injected
  /\ Failed
  /\ job' = [job EXCEPT ![j].pc = "leave"]
  /\ UNCHANGED <<closed, drained, flight, probe, caller, leaves>>

\* Finished::drop.
Leave(j) ==
  /\ job[j].pc = "leave"
  /\ job' = [job EXCEPT ![j] = NoJob]
  /\ UNCHANGED <<shared, flight, probe, caller, budget>>

\* It panics: unwinding counts the job out before the supervisor sees the JoinError.
WorkPanics(j) ==
  /\ job[j].pc = "run" /\ Injected
  /\ job' = [job EXCEPT ![j] = IF job[j].late THEN NoJob ELSE [NoJob EXCEPT !.pc = "joined"]]
  /\ UNCHANGED <<shared, flight, probe, caller, leaves>>

JoinFailed(j) ==
  /\ job[j].pc = "joined"
  /\ Failed
  /\ job' = [job EXCEPT ![j] = NoJob]
  /\ UNCHANGED <<closed, drained, flight, probe, caller, budget>>

\* The supervisor's timeout: the caller gets its answer, the kernel keeps the job.
Deadline(j) ==
  /\ Active(j) /\ ~job[j].late /\ Injected
  /\ Failed
  /\ job' = [job EXCEPT ![j].late = TRUE]
  /\ UNCHANGED <<closed, drained, flight, probe, caller, leaves>>

----------------------------------------------------------------------------
(* health(): callers share a flight, the flight owns a probe.               *)

HealthJoin(c) ==
  /\ caller[c].pc = "idle" /\ ~closed
  /\ caller' = [caller EXCEPT ![c] = [NoCaller EXCEPT !.pc = "wait"]]
  /\ flight' = IF flight.pc # "none" THEN flight
               ELSE [NoFlight EXCEPT !.pc = "admit", !.gen = epoch, !.rec = ~healthy]
  /\ UNCHANGED <<shared, job, probe, budget>>

\* job() for the probe slot, which the late probe of an earlier flight may hold.
FlightAdmit ==
  /\ flight.pc = "admit"
  /\ IF closed \/ probe.pc # "none"
     THEN flight' = [flight EXCEPT !.pc = "end"] /\ UNCHANGED probe
     ELSE /\ flight' = [flight EXCEPT !.pc = "probe"]
          /\ probe' = [NoProbe EXCEPT !.pc = "queued", !.gen = flight.gen, !.rec = flight.rec]
  /\ UNCHANGED <<shared, job, caller, budget>>

\* A recovery probe needs every other job to have ended physically.
UndrainedNever == FALSE
UndrainedAlways == probe.rec /\ ~healthy
Undrained == probe.rec /\ ~healthy /\ \E j \in Jobs : Active(j)

ProbeCheck ==
  /\ probe.pc = "queued"
  /\ IF probe.late \/ epoch # probe.gen \/ Undrained
     THEN probe' = [probe EXCEPT !.pc = "leave"]
     ELSE probe' = [probe EXCEPT !.pc = "io"]
  /\ IF ~probe.late /\ epoch # probe.gen THEN Failed ELSE UNCHANGED <<epoch, healthy>>
  /\ UNCHANGED <<closed, drained, job, flight, caller, budget>>

\* Filesystem::health and the look at the token behind it.
ProbeWorks ==
  /\ probe.pc = "io"
  /\ probe' = [probe EXCEPT !.pc = "leave", !.ok = ~probe.late]
  /\ UNCHANGED <<shared, job, flight, caller, budget>>

ProbeFails ==
  /\ probe.pc = "io" /\ Injected
  /\ Failed
  /\ probe' = [probe EXCEPT !.pc = "leave"]
  /\ UNCHANGED <<closed, drained, job, flight, caller, leaves>>

\* The probe is counted out and, unless the supervisor gave up on it, reports.
ProbeLeaves ==
  /\ probe.pc = "leave"
  /\ probe' = NoProbe
  /\ flight' = IF probe.late THEN flight
               ELSE [flight EXCEPT !.pc = "end", !.ok = probe.ok]
  /\ UNCHANGED <<shared, job, caller, budget>>

ProbePanics ==
  /\ probe.pc \in {"queued", "io"} /\ Injected
  /\ probe' = NoProbe
  /\ flight' = IF probe.late THEN flight ELSE [flight EXCEPT !.pc = "joined"]
  /\ UNCHANGED <<shared, job, caller, leaves>>

FlightJoinFailed ==
  /\ flight.pc = "joined"
  /\ Failed
  /\ flight' = [flight EXCEPT !.pc = "end"]
  /\ UNCHANGED <<closed, drained, job, probe, caller, budget>>

ProbeDeadline ==
  /\ probe.pc # "none" /\ ~probe.late /\ Injected
  /\ Failed
  /\ probe' = [probe EXCEPT !.late = TRUE]
  /\ flight' = [flight EXCEPT !.pc = "end"]
  /\ UNCHANGED <<closed, drained, job, caller, leaves>>

\* The coordinator clears the flight and publishes its outcome to whoever waits.
FlightEnds ==
  /\ flight.pc = "end" /\ flight' = NoFlight
  /\ caller' = [c \in Callers |->
       IF caller[c].pc = "wait"
       THEN [pc |-> "decide", gen |-> flight.gen, rec |-> flight.rec, ok |-> flight.ok]
       ELSE caller[c]]
  /\ UNCHANGED <<shared, job, probe, budget>>

\* Under the admission mutex, what a caller needs before it may report success.
Confirmed(c)       == caller[c].ok /\ ~closed /\ epoch = caller[c].gen

HealthReturns(c) ==
  /\ caller[c].pc = "decide"
  /\ healthy' = (healthy \/ (Confirmed(c) /\ caller[c].rec))
  /\ caller' = [caller EXCEPT ![c] = [NoCaller EXCEPT !.ok = Confirmed(c)]]
  /\ UNCHANGED <<closed, epoch, drained, job, flight, probe, budget>>

HealthLeaves(c) ==
  /\ caller[c].pc \in {"wait", "decide"}
  /\ leaves < MaxLeaves /\ leaves' = leaves + 1
  /\ caller' = [caller EXCEPT ![c] = NoCaller]
  /\ UNCHANGED <<shared, job, flight, probe, faults>>

----------------------------------------------------------------------------
(* close() *)

Close ==
  /\ ~closed /\ closed' = TRUE /\ healthy' = FALSE
  /\ UNCHANGED <<epoch, drained, job, flight, probe, caller, budget>>

CloseReturns ==
  /\ closed /\ ~drained /\ drained' = TRUE
  /\ probe.pc = "none" /\ \A j \in Jobs : ~Active(j)
  /\ UNCHANGED <<healthy, closed, epoch, job, flight, probe, caller, budget>>

Init ==
  /\ healthy = TRUE /\ closed = FALSE /\ epoch = 0 /\ drained = FALSE
  /\ job = [j \in Jobs |-> NoJob]
  /\ flight = NoFlight /\ probe = NoProbe
  /\ caller = [c \in Callers |-> NoCaller]
  /\ faults = 0 /\ leaves = 0

JobStep(j) == WorkEnds(j) \/ Leave(j) \/ JoinFailed(j)
ProbeStep == ProbeCheck \/ ProbeWorks \/ ProbeLeaves
FlightStep == FlightAdmit \/ FlightJoinFailed \/ FlightEnds

Next ==
  \/ \E j \in Jobs : Admit(j) \/ JobStep(j) \/ WorkFails(j) \/ WorkPanics(j) \/ Deadline(j)
  \/ \E c \in Callers : HealthJoin(c) \/ HealthReturns(c) \/ HealthLeaves(c)
  \/ ProbeStep \/ ProbeFails \/ ProbePanics \/ ProbeDeadline \/ FlightStep
  \/ Close \/ CloseReturns

Spec == Init /\ [][Next]_vars

----------------------------------------------------------------------------
(* Properties. *)

JobRecords    == [pc : {"idle", "run", "leave", "joined"}, at : Nat, late : BOOLEAN]
FlightRecords == [pc : {"none", "admit", "probe", "joined", "end"}, gen : Nat,
                  rec : BOOLEAN, ok : BOOLEAN]
ProbeRecords  == [pc : {"none", "queued", "io", "leave"}, gen : Nat, rec : BOOLEAN,
                  ok : BOOLEAN, late : BOOLEAN]
CallerRecords == [pc : {"idle", "wait", "decide"}, gen : Nat, rec : BOOLEAN, ok : BOOLEAN]

\* Type invariant.
FlagsOK == healthy \in BOOLEAN /\ closed \in BOOLEAN /\ drained \in BOOLEAN
CountOK == epoch \in Nat /\ faults \in Nat /\ leaves \in Nat
TypeOK  == /\ FlagsOK /\ CountOK
           /\ job \in [Jobs -> JobRecords] /\ flight \in FlightRecords
           /\ probe \in ProbeRecords /\ caller \in [Callers -> CallerRecords]

\* A store that admits work has outlived every job of an earlier failure epoch: no
\* write or unlink that was given up on can still land beside new work, however
\* late the probe, its callers and the jobs run.
RecoveryDrained == healthy => \A j \in Jobs : Active(j) => job[j].at = epoch

\* health() answers Ok only for a store that admits work when it answers.
HealthTruthful ==
  [][\A c \in Callers : caller[c].pc = "decide" /\ caller'[c].pc = "idle" /\ caller'[c].ok
       => healthy']_vars

\* A closed store is never reopened by a probe or a caller that was under way, and
\* once close() has returned nothing runs in the blocking pool, then or later.
CloseFinal ==
  /\ closed => ~healthy
  /\ drained => closed /\ probe.pc = "none" /\ \A j \in Jobs : ~Active(j)

\* Kernel calls return, supervisors and coordinators are polled, and the store's
\* owner keeps calling health().
Fairness ==
  /\ \A j \in Jobs : WF_vars(JobStep(j))
  /\ \A c \in Callers : WF_vars(HealthJoin(c) \/ HealthReturns(c))
  /\ WF_vars(ProbeStep) /\ WF_vars(FlightStep)

FairSpec == Spec /\ Fairness

\* A store that failed admits work again, unless it is closed.
Readmits == ~healthy ~> healthy \/ closed
=============================================================================
