------------------------- MODULE FsBlobStore_proofs -------------------------
(***************************************************************************)
(* Type correctness of FsBlobStore, and the argument of the comment in     *)
(* health() (crates/adapters/src/blob.rs): recovery proved older jobs      *)
(* drained before probing, and an unchanged failure epoch preserves that   *)
(* proof until a caller uses it.                                           *)
(***************************************************************************)
EXTENDS FsBlobStore, TLAPS

\* If g is still the failure epoch, nothing of an earlier one is running.
Proven(g) == g = epoch => \A j \in Jobs : Active(j) => job[j].at = epoch

\* No recorded generation is ahead of the failure epoch.
GenerationsPast ==
  /\ flight.gen <= epoch /\ probe.gen <= epoch
  /\ \A c \in Callers : caller[c].gen <= epoch

\* The flight is the probe's for as long as its supervisor waits for it.
ProbeOwned ==
  probe.pc # "none" /\ ~probe.late => flight.pc = "probe" /\ flight.gen = probe.gen

\* Who carries the proof: a flight or probe begun on a healthy store, a probe past
\* its check, and every positive outcome.
ProofCarried ==
  /\ flight.pc # "none" /\ (flight.ok \/ ~flight.rec) => Proven(flight.gen)
  /\ probe.pc # "none" /\ (probe.pc = "io" \/ probe.ok \/ ~probe.rec) => Proven(probe.gen)
  /\ \A c \in Callers : caller[c].pc = "decide" /\ caller[c].ok => Proven(caller[c].gen)

DrainInv == RecoveryDrained /\ GenerationsPast /\ ProbeOwned /\ ProofCarried

----------------------------------------------------------------------------
\* The resting records are well typed.
LEMMA RestingTypes ==
  /\ NoJob \in JobRecords /\ [NoJob EXCEPT !.pc = "joined"] \in JobRecords
  /\ NoFlight \in FlightRecords /\ NoProbe \in ProbeRecords
  /\ NoCaller \in CallerRecords
  BY DEF NoJob, NoFlight, NoProbe, NoCaller, JobRecords, FlightRecords, ProbeRecords,
         CallerRecords

\* The flags and counters of every action.
LEMMA SharedTypes ==
  ASSUME TypeOK, [Next]_vars
  PROVE  FlagsOK' /\ CountOK'
<1> USE DEF TypeOK, shared, budget, Injected, Failed
<1>1. ASSUME NEW j \in Jobs, Admit(j) \/ JobStep(j) \/ WorkFails(j) \/ WorkPanics(j) \/ Deadline(j)
      PROVE  FlagsOK' /\ CountOK'
  <2>1. CountOK'
    BY <1>1 DEF CountOK, Admit, JobStep, WorkEnds, Leave, JoinFailed, WorkFails, WorkPanics, Deadline
  <2>2. FlagsOK'
    BY <1>1, Zenon DEF FlagsOK, Admit, JobStep, WorkEnds, Leave, JoinFailed, WorkFails, WorkPanics,
                       Deadline
  <2>3. QED
    BY <2>1, <2>2
<1>2. ASSUME NEW c \in Callers, HealthJoin(c) \/ HealthReturns(c) \/ HealthLeaves(c)
      PROVE  FlagsOK' /\ CountOK'
  <2>1. CountOK'
    BY <1>2 DEF CountOK, HealthJoin, HealthReturns, HealthLeaves
  <2>2. FlagsOK'
    BY <1>2 DEF FlagsOK, HealthJoin, HealthReturns, HealthLeaves
  <2>3. QED
    BY <2>1, <2>2
<1>3. CASE ProbeStep \/ ProbeFails \/ ProbePanics \/ ProbeDeadline
  <2>1. CountOK'
    BY <1>3 DEF CountOK, ProbeStep, ProbeCheck, ProbeWorks, ProbeLeaves, ProbeFails, ProbePanics,
                ProbeDeadline
  <2>2. FlagsOK'
    BY <1>3 DEF FlagsOK, ProbeStep, ProbeCheck, ProbeWorks, ProbeLeaves, ProbeFails, ProbePanics,
                ProbeDeadline
  <2>3. QED
    BY <2>1, <2>2
<1>4. CASE FlightStep
  <2>1. CountOK'
    BY <1>4 DEF CountOK, FlightStep, FlightAdmit, FlightJoinFailed, FlightEnds
  <2>2. FlagsOK'
    BY <1>4, Zenon DEF FlagsOK, FlightStep, FlightAdmit, FlightJoinFailed, FlightEnds
  <2>3. QED
    BY <2>1, <2>2
<1>5. CASE Close \/ CloseReturns \/ UNCHANGED vars
  <2>1. CountOK'
    BY <1>5 DEF CountOK, Close, CloseReturns, vars
  <2>2. FlagsOK'
    BY <1>5, Zenon DEF FlagsOK, Close, CloseReturns, vars
  <2>3. QED
    BY <2>1, <2>2
<1>6. QED
  BY <1>1, <1>2, <1>3, <1>4, <1>5 DEF Next

\* The jobs and the callers of every action.
LEMMA ActorTypes ==
  ASSUME TypeOK, [Next]_vars
  PROVE  job' \in [Jobs -> JobRecords] /\ caller' \in [Callers -> CallerRecords]
<1> USE RestingTypes DEF TypeOK, CountOK
<1>1. ASSUME NEW j \in Jobs, Admit(j) \/ JobStep(j) \/ WorkFails(j) \/ WorkPanics(j) \/ Deadline(j)
      PROVE  job' \in [Jobs -> JobRecords] /\ UNCHANGED caller
  <2>1. \E r \in JobRecords : job' = [job EXCEPT ![j] = r]
    <3>1. CASE Admit(j)
      BY <3>1 DEF Admit, JobRecords
    <3>2. CASE Leave(j) \/ JoinFailed(j) \/ WorkPanics(j)
      BY <3>2 DEF Leave, JoinFailed, WorkPanics
    <3>3. CASE WorkEnds(j) \/ WorkFails(j)
      <4>1. [job[j] EXCEPT !.pc = "leave"] \in JobRecords
        BY DEF JobRecords
      <4>2. QED
        BY <3>3, <4>1 DEF WorkEnds, WorkFails
    <3>4. CASE Deadline(j)
      <4>1. [job[j] EXCEPT !.late = TRUE] \in JobRecords
        BY DEF JobRecords
      <4>2. QED
        BY <3>4, <4>1 DEF Deadline
    <3>5. QED
      BY <1>1, <3>1, <3>2, <3>3, <3>4 DEF JobStep
  <2>2. QED
    BY <1>1, <2>1 DEF Admit, JobStep, WorkEnds, Leave, JoinFailed, WorkFails, WorkPanics, Deadline
<1>2. ASSUME NEW c \in Callers, HealthJoin(c) \/ HealthReturns(c) \/ HealthLeaves(c)
      PROVE  caller' \in [Callers -> CallerRecords] /\ UNCHANGED job
  <2>1. \E r \in CallerRecords : caller' = [caller EXCEPT ![c] = r]
    <3>1. CASE HealthJoin(c)
      <4>1. [NoCaller EXCEPT !.pc = "wait"] \in CallerRecords
        BY DEF CallerRecords
      <4>2. QED
        BY <3>1, <4>1 DEF HealthJoin
    <3>2. CASE HealthReturns(c)
      <4>1. Confirmed(c) \in BOOLEAN
        BY DEF Confirmed, FlagsOK, CallerRecords
      <4>2. [NoCaller EXCEPT !.ok = Confirmed(c)] \in CallerRecords
        BY <4>1 DEF CallerRecords
      <4>3. QED
        BY <3>2, <4>2 DEF HealthReturns
    <3>3. CASE HealthLeaves(c)
      BY <3>3 DEF HealthLeaves
    <3>4. QED
      BY <1>2, <3>1, <3>2, <3>3
  <2>2. QED
    BY <1>2, <2>1 DEF HealthJoin, HealthReturns, HealthLeaves
<1>3. CASE FlightEnds
  <2>1. [pc |-> "decide", gen |-> flight.gen, rec |-> flight.rec, ok |-> flight.ok]
          \in CallerRecords
    BY DEF CallerRecords, FlightRecords
  <2>2. QED
    BY <1>3, <2>1 DEF FlightEnds
<1>4. CASE ProbeStep \/ ProbeFails \/ ProbePanics \/ ProbeDeadline \/ FlightAdmit
           \/ FlightJoinFailed \/ Close \/ CloseReturns \/ UNCHANGED vars
  BY <1>4 DEF ProbeStep, ProbeCheck, ProbeWorks, ProbeLeaves, ProbeFails, ProbePanics,
              ProbeDeadline, FlightAdmit, FlightJoinFailed, Close, CloseReturns, vars
<1>5. QED
  BY <1>1, <1>2, <1>3, <1>4 DEF Next, FlightStep

\* The flight and the probe of every action.
LEMMA HealthTypes ==
  ASSUME TypeOK, [Next]_vars
  PROVE  flight' \in FlightRecords /\ probe' \in ProbeRecords
<1> USE RestingTypes DEF TypeOK, CountOK
<1>1. CASE ProbeStep \/ ProbeFails \/ ProbePanics \/ ProbeDeadline
  <2>1. probe' \in ProbeRecords
    BY <1>1 DEF ProbeStep, ProbeCheck, ProbeWorks, ProbeLeaves, ProbeFails, ProbePanics,
                ProbeDeadline, ProbeRecords
  <2>2. flight' \in FlightRecords
    BY <1>1, ZenonT(40) DEF ProbeStep, ProbeCheck, ProbeWorks, ProbeLeaves, ProbeFails, ProbePanics,
                ProbeDeadline, FlightRecords, ProbeRecords
  <2>3. QED
    BY <2>1, <2>2
<1>2. CASE FlightStep
  <2>1. CASE FlightAdmit
    <3>1. [NoProbe EXCEPT !.pc = "queued", !.gen = flight.gen, !.rec = flight.rec]
            \in ProbeRecords
      BY DEF ProbeRecords, FlightRecords
    <3>2. [flight EXCEPT !.pc = "end"] \in FlightRecords
          /\ [flight EXCEPT !.pc = "probe"] \in FlightRecords
      BY DEF FlightRecords
    <3>3. QED
      BY <2>1, <3>1, <3>2 DEF FlightAdmit
  <2>2. CASE FlightJoinFailed \/ FlightEnds
    BY <2>2 DEF FlightJoinFailed, FlightEnds, FlightRecords
  <2>3. QED
    BY <1>2, <2>1, <2>2 DEF FlightStep
<1>3. ASSUME NEW c \in Callers, HealthJoin(c) PROVE flight' \in FlightRecords /\ UNCHANGED probe
  <2> DEFINE b == ~healthy
  <2>1. b \in BOOLEAN
    BY DEF FlagsOK
  <2>2. [NoFlight EXCEPT !.pc = "admit", !.gen = epoch, !.rec = b] \in FlightRecords
    <3> HIDE DEF b
    <3> QED
      BY <2>1 DEF FlightRecords
  <2>3. QED
    BY <1>3, <2>2 DEF HealthJoin
<1>4. ASSUME NEW c \in Callers, HealthReturns(c) \/ HealthLeaves(c)
      PROVE  UNCHANGED <<flight, probe>>
  BY <1>4 DEF HealthReturns, HealthLeaves
<1>5. ASSUME NEW j \in Jobs, Admit(j) \/ JobStep(j) \/ WorkFails(j) \/ WorkPanics(j) \/ Deadline(j)
      PROVE  UNCHANGED <<flight, probe>>
  BY <1>5 DEF Admit, JobStep, WorkEnds, Leave, JoinFailed, WorkFails, WorkPanics, Deadline
<1>6. CASE Close \/ CloseReturns \/ UNCHANGED vars
  BY <1>6 DEF Close, CloseReturns, vars
<1>7. QED
  BY <1>1, <1>2, <1>3, <1>4, <1>5, <1>6 DEF Next

\* Every reachable state of the filesystem blob store is well typed.
THEOREM TypeCorrect == Spec => []TypeOK
<1>1. Init => TypeOK
  <2> SUFFICES ASSUME Init PROVE TypeOK
    OBVIOUS
  <2>1. FlagsOK /\ CountOK
    BY DEF Init, FlagsOK, CountOK
  <2>2. job \in [Jobs -> JobRecords] /\ caller \in [Callers -> CallerRecords]
    BY RestingTypes DEF Init
  <2>3. flight \in FlightRecords /\ probe \in ProbeRecords
    BY RestingTypes DEF Init
  <2>4. QED
    BY <2>1, <2>2, <2>3 DEF TypeOK
<1>2. TypeOK /\ [Next]_vars => TypeOK'
  BY SharedTypes, ActorTypes, HealthTypes DEF TypeOK
<1>3. QED
  BY <1>1, <1>2, PTL DEF Spec

----------------------------------------------------------------------------
\* failed() invalidates every proof, because no generation is ahead of it.
LEMMA FailureResets ==
  ASSUME TypeOK, DrainInv, Failed
  PROVE  /\ RecoveryDrained'
         /\ \A g \in Nat : g <= epoch => g <= epoch' /\ Proven(g)'
  BY DEF DrainInv, Failed, RecoveryDrained, Proven, TypeOK, CountOK

\* Jobs that only end, or start in the current epoch, keep every proof.
LEMMA JobsKeepProofs ==
  ASSUME TypeOK, DrainInv, UNCHANGED epoch,
         \A j \in Jobs : Active(j)' => (Active(j) /\ job'[j].at = job[j].at) \/ job'[j].at = epoch
  PROVE  /\ (healthy' => healthy) => RecoveryDrained'
         /\ \A g \in Nat : Proven(g) => Proven(g)'
  BY DEF DrainInv, RecoveryDrained, Proven, TypeOK, CountOK

\* A step of an ordinary job.
LEMMA DrainJob ==
  ASSUME TypeOK, TypeOK', DrainInv, NEW j \in Jobs,
         Admit(j) \/ JobStep(j) \/ WorkFails(j) \/ WorkPanics(j) \/ Deadline(j)
  PROVE  DrainInv'
<1> USE DEF TypeOK, CountOK, FlagsOK, JobRecords, FlightRecords, ProbeRecords, CallerRecords
<1>0. UNCHANGED <<flight, probe, caller>>
  BY DEF Admit, JobStep, WorkEnds, Leave, JoinFailed, WorkFails, WorkPanics, Deadline
<1>1. CASE Failed
  <2>1. RecoveryDrained' /\ \A g \in Nat : g <= epoch => g <= epoch' /\ Proven(g)'
    BY <1>1, FailureResets
  <2>2. QED
    BY <1>0, <2>1 DEF DrainInv, GenerationsPast, ProbeOwned, ProofCarried
<1>2. CASE UNCHANGED <<epoch, healthy>>
  <2>1. \A i \in Jobs : Active(i)' => (Active(i) /\ job'[i].at = job[i].at) \/ job'[i].at = epoch
    BY DEF Admit, JobStep, WorkEnds, Leave, JoinFailed, WorkFails, WorkPanics, Deadline,
           Active, NoJob
  <2>2. RecoveryDrained' /\ \A g \in Nat : Proven(g) => Proven(g)'
    BY <1>2, <2>1, JobsKeepProofs
  <2>3. QED
    BY <1>0, <1>2, <2>2 DEF DrainInv, GenerationsPast, ProbeOwned, ProofCarried
<1>3. QED
  BY <1>1, <1>2 DEF Admit, JobStep, WorkEnds, Leave, JoinFailed, WorkFails, WorkPanics,
                    Deadline, shared

\* A step of a caller of health(): a new flight of a healthy store carries the proof,
\* and the caller that reopens the store uses it.
LEMMA DrainCaller ==
  ASSUME TypeOK, TypeOK', DrainInv, NEW c \in Callers,
         HealthJoin(c) \/ HealthReturns(c) \/ HealthLeaves(c)
  PROVE  DrainInv'
<1> USE DEF TypeOK, CountOK, FlagsOK, JobRecords, FlightRecords, ProbeRecords, CallerRecords
<1>0. UNCHANGED <<epoch, job, probe>> /\ \A g \in Nat : Proven(g)' <=> Proven(g)
  BY DEF HealthJoin, HealthReturns, HealthLeaves, shared, Proven, Active
<1>1. CASE HealthJoin(c)
  <2>1. healthy => Proven(epoch)
    BY DEF DrainInv, RecoveryDrained, Proven
  <2>2. flight' = flight \/ (flight'.gen = epoch /\ flight'.rec = ~healthy /\ ~flight'.ok
                             /\ flight'.pc = "admit" /\ flight.pc = "none")
    BY <1>1 DEF HealthJoin, NoFlight
  <2>3. \A d \in Callers : caller'[d] = caller[d] \/ (caller'[d].pc = "wait" /\ caller'[d].gen = 0)
    BY <1>1 DEF HealthJoin, NoCaller
  <2>4. GenerationsPast'
    BY <1>0, <2>2, <2>3 DEF DrainInv, GenerationsPast
  <2>5. ProbeOwned'
    BY <1>0, <2>2 DEF DrainInv, ProbeOwned
  <2>6. flight'.pc # "none" /\ (flight'.ok \/ ~flight'.rec) => Proven(flight'.gen)
    BY <2>1, <2>2 DEF DrainInv, ProofCarried
  <2>7. ProofCarried'
    BY <1>0, <2>3, <2>6 DEF DrainInv, ProofCarried
  <2>8. RecoveryDrained'
    BY <1>1 DEF HealthJoin, shared, DrainInv, RecoveryDrained, Active
  <2>9. QED
    BY <2>4, <2>5, <2>7, <2>8 DEF DrainInv
<1>2. CASE HealthReturns(c)
  <2>1. Confirmed(c) => Proven(epoch)
    BY <1>2 DEF HealthReturns, Confirmed, DrainInv, ProofCarried
  <2>2. RecoveryDrained'
    BY <1>0, <1>2, <2>1 DEF HealthReturns, DrainInv, RecoveryDrained, Proven, Active
  <2>3. QED
    BY <1>0, <1>2, <2>2 DEF HealthReturns, NoCaller, DrainInv, ProofCarried, ProbeOwned,
                            GenerationsPast
<1>3. CASE HealthLeaves(c)
  BY <1>0, <1>3 DEF HealthLeaves, shared, NoCaller, DrainInv, ProofCarried, ProbeOwned,
                    GenerationsPast, RecoveryDrained, Active
<1>4. QED
  BY <1>1, <1>2, <1>3

\* A step of the probe: passing the check establishes the proof.
LEMMA DrainProbe ==
  ASSUME TypeOK, TypeOK', DrainInv, ProbeStep \/ ProbeFails \/ ProbePanics \/ ProbeDeadline
  PROVE  DrainInv'
<1> USE DEF TypeOK, CountOK, FlagsOK, JobRecords, FlightRecords, ProbeRecords, CallerRecords
<1>0. UNCHANGED <<job, caller>>
  BY DEF ProbeStep, ProbeCheck, ProbeWorks, ProbeLeaves, ProbeFails, ProbePanics,
         ProbeDeadline
<1>1. CASE Failed
  <2>1. RecoveryDrained' /\ \A g \in Nat : g <= epoch => g <= epoch' /\ Proven(g)'
    BY <1>1, FailureResets
  <2>2. flight'.gen = flight.gen /\ probe'.gen = probe.gen
    BY <1>1 DEF Failed, ProbeStep, ProbeCheck, ProbeWorks, ProbeLeaves, ProbeFails, ProbePanics,
                ProbeDeadline, shared
  <2>3. ProbeOwned'
    BY <1>1 DEF Failed, ProbeStep, ProbeCheck, ProbeWorks, ProbeLeaves, ProbeFails, ProbePanics,
                ProbeDeadline, shared, DrainInv, ProbeOwned
  <2>4. QED
    BY <1>0, <2>1, <2>2, <2>3 DEF DrainInv, GenerationsPast, ProofCarried
<1>2. CASE UNCHANGED <<epoch, healthy>>
  <2>1. RecoveryDrained' /\ \A g \in Nat : Proven(g) => Proven(g)'
    BY <1>0, <1>2, JobsKeepProofs DEF Active
  <2>2. CASE ProbeCheck
    <3>1. probe'.pc = "io" => Proven(probe.gen)
      BY <2>2 DEF ProbeCheck, Undrained, DrainInv, RecoveryDrained, Proven, ProofCarried
    <3>2. probe'.gen = probe.gen /\ probe'.ok = probe.ok /\ probe'.rec = probe.rec
          /\ probe'.late = probe.late /\ probe'.pc \in {"io", "leave"} /\ UNCHANGED flight
          /\ probe.pc = "queued"
      BY <2>2 DEF ProbeCheck
    <3>3. ProbeOwned' /\ GenerationsPast'
      BY <1>0, <1>2, <3>2 DEF DrainInv, ProbeOwned, GenerationsPast
    <3>4. ProofCarried'
      BY <1>0, <2>1, <3>1, <3>2 DEF DrainInv, ProofCarried
    <3>5. QED
      BY <2>1, <3>3, <3>4 DEF DrainInv
  <2>3. CASE ProbeWorks
    BY <1>0, <2>1, <2>3 DEF ProbeWorks, shared, DrainInv, ProofCarried, ProbeOwned,
                            GenerationsPast
  <2>4. CASE ProbeLeaves \/ ProbePanics
    <3>1. /\ probe.pc # "none" /\ probe'.pc = "none" /\ probe'.gen = 0
          /\ flight'.gen = flight.gen /\ flight'.rec = flight.rec
          /\ \/ flight' = flight
             \/ flight'.ok = flight.ok /\ flight.pc = "probe"
             \/ flight'.ok = probe.ok /\ flight.pc = "probe" /\ flight.gen = probe.gen
      <4>1. probe.pc # "none" /\ probe'.pc = "none" /\ probe'.gen = 0
        BY <2>4 DEF ProbeLeaves, ProbePanics, NoProbe
      <4>2. ~probe.late => flight.pc = "probe" /\ flight.gen = probe.gen
        BY <4>1 DEF DrainInv, ProbeOwned
      <4>3. \/ flight' = flight
            \/ ~probe.late /\ flight' = [flight EXCEPT !.pc = "end", !.ok = probe.ok]
            \/ ~probe.late /\ flight' = [flight EXCEPT !.pc = "joined"]
        BY <2>4, Zenon DEF ProbeLeaves, ProbePanics
      <4>4. flight'.gen = flight.gen /\ flight'.rec = flight.rec
        <5>1. CASE flight' = flight
          BY <5>1, Zenon
        <5>2. CASE flight' = [flight EXCEPT !.pc = "end", !.ok = probe.ok]
          BY <5>2
        <5>3. CASE flight' = [flight EXCEPT !.pc = "joined"]
          BY <5>3
        <5>4. QED
          BY <4>3, <5>1, <5>2, <5>3
      <4>5. QED
        BY <4>1, <4>2, <4>3, <4>4, ZenonT(40)
    <3>2. ProbeOwned' /\ GenerationsPast'
      BY <1>0, <1>2, <3>1 DEF DrainInv, ProbeOwned, GenerationsPast
    <3>3. flight'.pc # "none" /\ (flight'.ok \/ ~flight'.rec) => Proven(flight'.gen)
      BY <3>1 DEF DrainInv, ProofCarried
    <3>4. ProofCarried'
      BY <1>0, <2>1, <3>1, <3>3 DEF DrainInv, ProofCarried
    <3>5. QED
      BY <2>1, <3>2, <3>4 DEF DrainInv
  <2>5. CASE ProbeFails \/ ProbeDeadline
    BY <1>2, <2>5 DEF ProbeFails, ProbeDeadline, Failed
  <2>6. QED
    BY <2>2, <2>3, <2>4, <2>5 DEF ProbeStep
<1>3. QED
  BY <1>1, <1>2 DEF ProbeStep, ProbeCheck, ProbeWorks, ProbeLeaves, ProbeFails, ProbePanics,
                    ProbeDeadline, shared

\* A step of the flight's coordinator.
LEMMA DrainFlight ==
  ASSUME TypeOK, TypeOK', DrainInv, FlightStep
  PROVE  DrainInv'
<1> USE DEF TypeOK, CountOK, FlagsOK, JobRecords, FlightRecords, ProbeRecords, CallerRecords
<1>0. UNCHANGED job
  BY DEF FlightStep, FlightAdmit, FlightJoinFailed, FlightEnds
<1>1. CASE FlightJoinFailed
  <2>1. RecoveryDrained' /\ \A g \in Nat : g <= epoch => g <= epoch' /\ Proven(g)'
    BY <1>1, FailureResets DEF FlightJoinFailed
  <2>2. QED
    BY <1>1, <2>1 DEF FlightJoinFailed, DrainInv, GenerationsPast, ProbeOwned, ProofCarried
<1>2. CASE FlightAdmit \/ FlightEnds
  <2>1. UNCHANGED <<epoch, healthy>>
    BY <1>2 DEF FlightAdmit, FlightEnds, shared
  <2>2. RecoveryDrained' /\ \A g \in Nat : Proven(g) => Proven(g)'
    BY <1>0, <2>1, JobsKeepProofs DEF Active
  <2>3. CASE FlightAdmit
    <3>1. /\ UNCHANGED caller /\ flight.pc = "admit"
          /\ flight'.gen = flight.gen /\ flight'.rec = flight.rec /\ flight'.ok = flight.ok
          /\ \/ probe' = probe
             \/ /\ flight'.pc = "probe" /\ probe'.pc = "queued" /\ ~probe'.ok
                /\ probe'.gen = flight.gen /\ probe'.rec = flight.rec
      <4>1. CASE closed \/ probe.pc # "none"
        <5>1. flight' = [flight EXCEPT !.pc = "end"] /\ UNCHANGED <<probe, caller>> /\ flight.pc = "admit"
          BY <2>3, <4>1, Zenon DEF FlightAdmit
        <5>2. QED
          BY <5>1
      <4>2. CASE ~(closed \/ probe.pc # "none")
        <5>1. /\ flight' = [flight EXCEPT !.pc = "probe"] /\ UNCHANGED caller /\ flight.pc = "admit"
              /\ probe' = [NoProbe EXCEPT !.pc = "queued", !.gen = flight.gen, !.rec = flight.rec]
          BY <2>3, <4>2, Zenon DEF FlightAdmit
        <5>2. flight'.gen = flight.gen /\ flight'.rec = flight.rec /\ flight'.ok = flight.ok
              /\ flight'.pc = "probe"
          BY <5>1
        <5>3. probe'.pc = "queued" /\ probe'.gen = flight.gen /\ probe'.rec = flight.rec
          BY <5>1 DEF NoProbe
        <5>4. ~probe'.ok
          BY <5>1 DEF NoProbe
        <5>5. QED
          BY <5>1, <5>2, <5>3, <5>4
      <4>3. QED
        BY <4>1, <4>2
    <3>2. GenerationsPast'
      BY <2>1, <3>1 DEF DrainInv, GenerationsPast
    <3>3. ProbeOwned'
      BY <2>3, <3>1 DEF FlightAdmit, NoProbe, DrainInv, ProbeOwned
    <3>4. probe'.pc # "none" /\ (probe'.pc = "io" \/ probe'.ok \/ ~probe'.rec) => Proven(probe'.gen)
      BY <3>1 DEF DrainInv, ProofCarried
    <3>5. ProofCarried'
      BY <2>2, <3>1, <3>4 DEF DrainInv, ProofCarried
    <3>6. QED
      BY <2>2, <3>2, <3>3, <3>5 DEF DrainInv
  <2>4. CASE FlightEnds
    <3>1. UNCHANGED probe /\ flight.pc = "end" /\ flight'.pc = "none" /\ flight'.gen = 0
      BY <2>4 DEF FlightEnds, NoFlight
    <3>2. ASSUME NEW c \in Callers
          PROVE  \/ caller'[c] = caller[c]
                 \/ caller'[c].gen = flight.gen /\ caller'[c].ok = flight.ok
      <4>1. CASE caller[c].pc = "wait"
        <5>1. caller'[c] = [pc |-> "decide", gen |-> flight.gen, rec |-> flight.rec, ok |-> flight.ok]
          BY <2>4, <4>1, Zenon DEF FlightEnds
        <5>2. QED
          BY <5>1
      <4>2. CASE caller[c].pc # "wait"
        BY <2>4, <4>2, Zenon DEF FlightEnds
      <4>3. QED
        BY <4>1, <4>2
    <3>3. GenerationsPast' /\ ProbeOwned'
      BY <2>1, <3>1, <3>2 DEF DrainInv, GenerationsPast, ProbeOwned
    <3>4. \A c \in Callers : caller'[c].pc = "decide" /\ caller'[c].ok => Proven(caller'[c].gen)
      BY <3>1, <3>2 DEF DrainInv, ProofCarried
    <3>5. ProofCarried'
      BY <2>2, <3>1, <3>4 DEF DrainInv, ProofCarried
    <3>6. QED
      BY <2>2, <3>3, <3>5 DEF DrainInv
  <2>5. QED
    BY <1>2, <2>3, <2>4
<1>3. QED
  BY <1>1, <1>2 DEF FlightStep

\* Whoever holds a positive outcome of the current epoch holds a proof of drainage.
THEOREM DrainInvariant == Spec => []DrainInv
<1>1. Init => DrainInv
  BY DEF Init, DrainInv, RecoveryDrained, GenerationsPast, ProbeOwned, ProofCarried, Proven,
         Active, NoJob, NoFlight, NoProbe, NoCaller
<1>2. TypeOK /\ TypeOK' /\ DrainInv /\ [Next]_vars => DrainInv'
  <2> SUFFICES ASSUME TypeOK, TypeOK', DrainInv, [Next]_vars PROVE DrainInv'
    OBVIOUS
  <2>1. CASE Close \/ CloseReturns
    BY <2>1 DEF Close, CloseReturns, DrainInv, RecoveryDrained, GenerationsPast, ProbeOwned,
                ProofCarried, Proven, Active
  <2>2. CASE UNCHANGED vars
    BY <2>2 DEF vars, DrainInv, RecoveryDrained, GenerationsPast, ProbeOwned, ProofCarried,
                Proven, Active
  <2>3. QED
    BY <2>1, <2>2, DrainJob, DrainCaller, DrainProbe, DrainFlight DEF Next
<1>3. QED
  BY <1>1, <1>2, TypeCorrect, PTL DEF Spec

\* RecoveryDrained for any number of jobs, slots, callers and failures: a store that
\* admits work has outlived every job of an earlier failure epoch.
THEOREM RecoveryIsDrained == Spec => []RecoveryDrained
<1>1. DrainInv => RecoveryDrained
  BY DEF DrainInv
<1>2. QED
  BY <1>1, DrainInvariant, PTL

\* CloseFinal: a closed store is never reopened and, once drained, stays idle.
THEOREM CloseIsFinal == Spec => []CloseFinal
<1>1. Init => CloseFinal
  BY DEF Init, CloseFinal
<1>2. TypeOK /\ CloseFinal /\ [Next]_vars => CloseFinal'
  <2> SUFFICES ASSUME TypeOK, CloseFinal, [Next]_vars PROVE CloseFinal'
    OBVIOUS
  <2> USE DEF CloseFinal, Active, shared, Failed, NoJob, NoProbe, TypeOK, FlagsOK, JobRecords,
              ProbeRecords, CallerRecords
  <2>1. ASSUME NEW j \in Jobs, Admit(j) \/ JobStep(j) \/ WorkFails(j) \/ WorkPanics(j) \/ Deadline(j)
        PROVE  CloseFinal'
    BY <2>1 DEF Admit, JobStep, WorkEnds, Leave, JoinFailed, WorkFails, WorkPanics, Deadline
  <2>2. ASSUME NEW c \in Callers, HealthJoin(c) \/ HealthReturns(c) \/ HealthLeaves(c)
        PROVE  CloseFinal'
    BY <2>2 DEF HealthJoin, HealthReturns, HealthLeaves, Confirmed
  <2>3. CASE ProbeStep \/ ProbeFails \/ ProbePanics \/ ProbeDeadline
    BY <2>3 DEF ProbeStep, ProbeCheck, ProbeWorks, ProbeLeaves, ProbeFails, ProbePanics,
                ProbeDeadline
  <2>4. CASE FlightStep
    BY <2>4 DEF FlightStep, FlightAdmit, FlightJoinFailed, FlightEnds
  <2>5. CASE Close \/ CloseReturns
    BY <2>5 DEF Close, CloseReturns
  <2>6. CASE UNCHANGED vars
    BY <2>6 DEF vars
  <2>7. QED
    BY <2>1, <2>2, <2>3, <2>4, <2>5, <2>6 DEF Next
<1>3. QED
  BY <1>1, <1>2, TypeCorrect, PTL DEF Spec

----------------------------------------------------------------------------
\* A verdict begun on a healthy store stands while its epoch does.
Standing(r) == ~r.rec /\ r.gen = epoch /\ ~closed => healthy

StandingInv ==
  /\ flight.pc # "none" => Standing(flight)
  /\ \A c \in Callers : caller[c].pc = "decide" => Standing(caller[c])

\* Every step leaves the store as healthy as it was, in the same epoch, or revokes all
\* verdicts at once.
LEMMA VerdictsRevoked ==
  ASSUME TypeOK, [Next]_vars
  PROVE  \/ epoch' = epoch + 1
         \/ closed'
         \/ epoch' = epoch /\ closed' = closed /\ (healthy => healthy')
<1>1. ASSUME NEW j \in Jobs, Admit(j) \/ JobStep(j) \/ WorkFails(j) \/ WorkPanics(j) \/ Deadline(j)
      PROVE  Failed \/ UNCHANGED shared
  BY <1>1, Zenon DEF Admit, JobStep, WorkEnds, Leave, JoinFailed, WorkFails, WorkPanics, Deadline
<1>2. ASSUME NEW c \in Callers, HealthJoin(c) \/ HealthReturns(c) \/ HealthLeaves(c)
      PROVE  epoch' = epoch /\ closed' = closed /\ (healthy => healthy')
  BY <1>2 DEF HealthJoin, HealthReturns, HealthLeaves, shared, TypeOK, FlagsOK
<1>3. CASE ProbeStep \/ ProbeFails \/ ProbePanics \/ ProbeDeadline
  BY <1>3, Zenon DEF ProbeStep, ProbeCheck, ProbeWorks, ProbeLeaves, ProbeFails, ProbePanics,
                     ProbeDeadline, Failed, shared
<1>4. CASE FlightStep
  BY <1>4, Zenon DEF FlightStep, FlightAdmit, FlightJoinFailed, FlightEnds, Failed, shared
<1>5. CASE Close \/ CloseReturns \/ UNCHANGED vars
  BY <1>5, Zenon DEF Close, CloseReturns, vars
<1>6. QED
  BY <1>1, <1>2, <1>3, <1>4, <1>5 DEF Next, Failed, shared

\* A flight's verdict is begun by HealthJoin and never changes hands.
LEMMA FlightVerdict ==
  ASSUME TypeOK, ProbeOwned, [Next]_vars, flight'.pc # "none"
  PROVE  \/ flight.pc # "none" /\ flight'.rec = flight.rec /\ flight'.gen = flight.gen
         \/ flight'.rec = ~healthy /\ UNCHANGED shared
<1> USE DEF TypeOK, FlightRecords
<1>1. ASSUME NEW j \in Jobs, Admit(j) \/ JobStep(j) \/ WorkFails(j) \/ WorkPanics(j) \/ Deadline(j)
      PROVE  UNCHANGED flight
  BY <1>1 DEF Admit, JobStep, WorkEnds, Leave, JoinFailed, WorkFails, WorkPanics, Deadline
<1>2. ASSUME NEW c \in Callers, HealthJoin(c)
      PROVE  (flight.pc # "none" /\ UNCHANGED flight) \/ (flight'.rec = ~healthy /\ UNCHANGED shared)
  BY <1>2 DEF HealthJoin, NoFlight
<1>3. ASSUME NEW c \in Callers, HealthReturns(c) \/ HealthLeaves(c)
      PROVE  UNCHANGED flight
  BY <1>3 DEF HealthReturns, HealthLeaves
<1>4. CASE ProbeStep \/ ProbeFails \/ ProbePanics \/ ProbeDeadline \/ FlightAdmit \/ FlightJoinFailed
  <2>1. CASE ProbeLeaves \/ ProbePanics \/ ProbeDeadline
    <3>1. UNCHANGED flight \/ flight.pc = "probe"
      BY <2>1 DEF ProbeLeaves, ProbePanics, ProbeDeadline, ProbeOwned
    <3>2. \/ UNCHANGED flight
          \/ flight' = [flight EXCEPT !.pc = "end", !.ok = probe.ok]
          \/ flight' = [flight EXCEPT !.pc = "joined"]
          \/ flight' = [flight EXCEPT !.pc = "end"]
      BY <2>1, Zenon DEF ProbeLeaves, ProbePanics, ProbeDeadline
    <3>3. flight'.rec = flight.rec /\ flight'.gen = flight.gen
      BY <3>2
    <3>4. QED
      BY <3>1, <3>3
  <2>2. CASE FlightAdmit \/ FlightJoinFailed
    BY <2>2 DEF FlightAdmit, FlightJoinFailed
  <2>3. CASE ProbeCheck \/ ProbeWorks \/ ProbeFails
    BY <2>3 DEF ProbeCheck, ProbeWorks, ProbeFails
  <2>4. QED
    BY <1>4, <2>1, <2>2, <2>3 DEF ProbeStep
<1>5. CASE FlightEnds \/ Close \/ CloseReturns \/ UNCHANGED vars
  BY <1>5 DEF FlightEnds, NoFlight, Close, CloseReturns, vars
<1>6. QED
  BY <1>1, <1>2, <1>3, <1>4, <1>5 DEF Next, FlightStep

\* A caller's verdict is the one of the flight that answered it.
LEMMA CallerVerdict ==
  ASSUME TypeOK, [Next]_vars, NEW c \in Callers, caller'[c].pc = "decide"
  PROVE  \/ caller'[c] = caller[c]
         \/ flight.pc # "none" /\ caller'[c].rec = flight.rec /\ caller'[c].gen = flight.gen
<1> USE DEF TypeOK, CallerRecords, FlightRecords
<1>1. ASSUME NEW j \in Jobs, Admit(j) \/ JobStep(j) \/ WorkFails(j) \/ WorkPanics(j) \/ Deadline(j)
      PROVE  UNCHANGED caller
  BY <1>1 DEF Admit, JobStep, WorkEnds, Leave, JoinFailed, WorkFails, WorkPanics, Deadline
<1>2. ASSUME NEW d \in Callers, HealthJoin(d) \/ HealthReturns(d) \/ HealthLeaves(d)
      PROVE  caller'[c] = caller[c]
  BY <1>2 DEF HealthJoin, HealthReturns, HealthLeaves, NoCaller
<1>3. CASE FlightEnds
  BY <1>3 DEF FlightEnds
<1>4. CASE ProbeStep \/ ProbeFails \/ ProbePanics \/ ProbeDeadline \/ FlightAdmit
           \/ FlightJoinFailed \/ Close \/ CloseReturns \/ UNCHANGED vars
  BY <1>4 DEF ProbeStep, ProbeCheck, ProbeWorks, ProbeLeaves, ProbeFails, ProbePanics,
              ProbeDeadline, FlightAdmit, FlightJoinFailed, Close, CloseReturns, vars
<1>5. QED
  BY <1>1, <1>2, <1>3, <1>4 DEF Next, FlightStep

\* A step keeps every verdict standing: it is revoked, or its source stood.
LEMMA VerdictsStand ==
  ASSUME TypeOK, TypeOK', DrainInv, StandingInv, [Next]_vars
  PROVE  StandingInv'
<1> USE DEF TypeOK, CountOK, FlagsOK, FlightRecords, CallerRecords
<1>1. ASSUME flight'.pc # "none" PROVE Standing(flight)'
  BY <1>1, FlightVerdict, VerdictsRevoked DEF StandingInv, Standing, DrainInv, GenerationsPast, shared
<1>2. ASSUME NEW c \in Callers, caller'[c].pc = "decide" PROVE Standing(caller[c])'
  BY <1>2, CallerVerdict, VerdictsRevoked DEF StandingInv, Standing, DrainInv, GenerationsPast
<1>3. QED
  BY <1>1, <1>2 DEF StandingInv

\* HealthTruthful for any number of jobs, callers and failures: an Ok of health() is
\* about a store that admits work, whoever else recovered, failed or closed it meanwhile.
THEOREM HealthIsTruthful == Spec => HealthTruthful
<1> DEFINE Truthful(c) == caller[c].pc = "decide" /\ caller'[c].pc = "idle" /\ caller'[c].ok
                            => healthy'
<1>1. Init => StandingInv
  BY DEF Init, StandingInv, NoFlight, NoCaller
<1>2. TypeOK /\ TypeOK' /\ DrainInv /\ StandingInv /\ [Next]_vars => StandingInv'
  BY VerdictsStand
<1>3. TypeOK /\ StandingInv /\ [Next]_vars => [\A c \in Callers : Truthful(c)]_vars
  <2> SUFFICES ASSUME TypeOK, StandingInv, [Next]_vars, NEW c \in Callers,
                      caller[c].pc = "decide", caller'[c].pc = "idle", caller'[c].ok
               PROVE  healthy'
    OBVIOUS
  <2> USE DEF TypeOK, FlagsOK, CallerRecords
  <2>1. HealthReturns(c)
    <3>1. ASSUME NEW j \in Jobs,
                 Admit(j) \/ JobStep(j) \/ WorkFails(j) \/ WorkPanics(j) \/ Deadline(j)
          PROVE  FALSE
      BY <3>1 DEF Admit, JobStep, WorkEnds, Leave, JoinFailed, WorkFails, WorkPanics, Deadline
    <3>2. ASSUME NEW d \in Callers, HealthJoin(d) \/ HealthLeaves(d)
          PROVE  FALSE
      BY <3>2 DEF HealthJoin, HealthLeaves, NoCaller
    <3>3. ASSUME NEW d \in Callers, HealthReturns(d)
          PROVE  d = c
      BY <3>3 DEF HealthReturns
    <3>4. CASE ProbeStep \/ ProbeFails \/ ProbePanics \/ ProbeDeadline \/ FlightStep
               \/ Close \/ CloseReturns \/ UNCHANGED vars
      BY <3>4 DEF ProbeStep, ProbeCheck, ProbeWorks, ProbeLeaves, ProbeFails, ProbePanics,
                  ProbeDeadline, FlightStep, FlightAdmit, FlightJoinFailed, FlightEnds, Close,
                  CloseReturns, vars
    <3>5. QED
      BY <3>1, <3>2, <3>3, <3>4 DEF Next
  <2>2. Confirmed(c)
    BY <2>1 DEF HealthReturns, NoCaller
  <2>3. CASE caller[c].rec
    BY <2>1, <2>2, <2>3 DEF HealthReturns
  <2>4. CASE ~caller[c].rec
    BY <2>1, <2>2, <2>4 DEF HealthReturns, Confirmed, StandingInv, Standing
  <2>5. QED
    BY <2>3, <2>4
<1>4. QED
  BY <1>1, <1>2, <1>3, TypeCorrect, DrainInvariant, PTL DEF Spec, HealthTruthful
=============================================================================
