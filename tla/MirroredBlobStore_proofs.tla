---------------------- MODULE MirroredBlobStore_proofs ----------------------
(***************************************************************************)
(* Type correctness of MirroredBlobStore; the promise of the mirrored      *)
(* store's documentation about its permits, that aggregate admission       *)
(* remains held until both physical jobs drain; and that the store opens   *)
(* again only once the failed generation has drained.                      *)
(***************************************************************************)
EXTENDS MirroredBlobStore, TLAPS

\* Every step belongs to one of these groups.
OpActions(x)    == Admit(x) \/ Cancel(x)
TaskActions(x)  == TaskStep(x) \/ WatchCancels(x) \/ WatchStep(x)
LegActions(l, x) == LegFails(l, x) \/ LegGivesUp(l, x) \/ LegCut(l, x)
ReadActions     == ReadStarts \/ ReadEnds \/ ReadFails
CallActions(c)  == HealthJoin(c) \/ HealthReturns(c) \/ HealthLeaves(c)
CloseActions    == Close \/ CloseReturns

\* All names the probe and the ordinary operations.
LEMMA AllNames == Ops \subseteq All /\ Probe \in All
  BY DEF All

\* Records of a fresh operation, an ended one and one that drains are well typed.
LEMMA OpRecordTypes ==
  ASSUME TypeOK, NEW x \in All
  PROVE  /\ \A pc \in {"work", "load generation"} :
              [NoOp EXCEPT !.task = pc, !.watch = "on", !.at = generation] \in OpRecords
         /\ Ended(x) \in OpRecords
         /\ [op[x] EXCEPT !.task = "drain", !.left = Legs] \in OpRecords
         /\ \A l \in Legs : [op[x] EXCEPT !.left = @ \ {l}] \in OpRecords
         /\ [op[x] EXCEPT !.task = "failing"] \in OpRecords
         /\ [op[x] EXCEPT !.watch = "cancel", !.cut = TRUE] \in OpRecords
         /\ [op[x] EXCEPT !.watch = "failing"] \in OpRecords
         /\ [op[x] EXCEPT !.watch = "off"] \in OpRecords
<1> USE DEF TypeOK, OpsOK, OpRecords, CountsOK
<1>1. op[x] \in OpRecords
  OBVIOUS
<1>2. \A pc \in {"work", "load generation"} :
        [NoOp EXCEPT !.task = pc, !.watch = "on", !.at = generation] \in OpRecords
  BY DEF NoOp
<1>3. Ended(x) \in OpRecords
  BY <1>1 DEF Ended
<1>4. [op[x] EXCEPT !.task = "drain", !.left = Legs] \in OpRecords
  BY <1>1
<1>5. \A l \in Legs : [op[x] EXCEPT !.left = @ \ {l}] \in OpRecords
  BY <1>1
<1>6. /\ [op[x] EXCEPT !.task = "failing"] \in OpRecords
      /\ [op[x] EXCEPT !.watch = "cancel", !.cut = TRUE] \in OpRecords
      /\ [op[x] EXCEPT !.watch = "failing"] \in OpRecords
      /\ [op[x] EXCEPT !.watch = "off"] \in OpRecords
  BY <1>1
<1>7. QED
  BY <1>2, <1>3, <1>4, <1>5, <1>6

\* A load of the probe leaves it at its next load, at work or draining.
LEMMA ProbeGoesTypes ==
  ASSUME TypeOK, NEW good,
         NEW pc \in {"load healthy", "load active", "load primary", "load mirror", "work"},
         ProbeGoes(pc, good)
  PROVE  OpsOK'
<1> USE AllNames DEF TypeOK, OpsOK
<1>1. op[Probe] \in OpRecords
  OBVIOUS
<1>2. [op[Probe] EXCEPT !.task = pc, !.left = {}] \in OpRecords
  BY <1>1 DEF OpRecords
<1>3. [op[Probe] EXCEPT !.task = "drain", !.left = Legs] \in OpRecords
  BY <1>1 DEF OpRecords
<1>4. CASE good
  BY <1>2, <1>4 DEF ProbeGoes
<1>5. CASE ~good
  BY <1>3, <1>5 DEF ProbeGoes
<1>6. QED
  BY <1>4, <1>5

\* The operations of every action.
LEMMA OpTypes ==
  ASSUME TypeOK, [Next]_vars
  PROVE  OpsOK'
<1> USE AllNames DEF TypeOK, OpsOK
<1>1. ASSUME NEW o \in Ops, OpActions(o) PROVE OpsOK'
  <2>1. CASE Admit(o)
    BY <2>1, OpRecordTypes DEF Admit, Started
  <2>2. CASE Cancel(o)
    BY <2>2 DEF Cancel, OpRecords
  <2>3. QED
    BY <1>1, <2>1, <2>2 DEF OpActions
<1>2. ASSUME NEW x \in All, TaskActions(x) PROVE OpsOK'
  <2>1. CASE FinishOk(x)
    BY <2>1, OpRecordTypes DEF FinishOk
  <2>2. CASE FinishErr(x)
    BY <2>2, OpRecordTypes DEF FinishErr
  <2>3. CASE TaskStores(x)
    BY <2>3, OpRecordTypes DEF TaskStores
  <2>4. CASE \E l \in Legs : DrainLeg(x, l)
    <3>1. PICK l \in Legs : DrainLeg(x, l)
      BY <2>4
    <3>2. CASE op[x].left = {l}
      BY <3>1, <3>2, OpRecordTypes DEF DrainLeg
    <3>3. CASE op[x].left # {l}
      <4>1. op' = [op EXCEPT ![x] = [op[x] EXCEPT !.left = @ \ {l}]]
        BY <3>1, <3>3 DEF DrainLeg
      <4>2. QED
        BY <4>1, OpRecordTypes
    <3>4. QED
      BY <3>2, <3>3
  <2>5. CASE WatchCancels(x) \/ WatchFails(x) \/ WatchStores(x)
    BY <2>5, OpRecordTypes DEF WatchCancels, WatchFails, WatchStores
  <2>6. QED
    BY <1>2, <2>1, <2>2, <2>3, <2>4, <2>5 DEF TaskActions, TaskStep, WatchStep
<1>3. CASE FlightAdmit
  BY <1>3, OpRecordTypes DEF FlightAdmit, Started
<1>4. CASE ProbeStep
  BY <1>4, ProbeGoesTypes DEF ProbeStep, LoadGeneration, LoadHealthy, LoadActive, LoadLegs
<1>5. ASSUME NEW l \in Legs, NEW x \in All,
             JobStep(l, x) \/ LegProbe(l) \/ CloseLeg(l) \/ LegActions(l, x)
      PROVE  UNCHANGED op
  BY <1>5 DEF JobStep, LegBegins, LegEnds, LegProbe, LegProbes, LegProbeEnds, CloseLeg,
              LegActions, LegFails, LegGivesUp, LegCut
<1>6. ASSUME NEW c \in Callers, CallActions(c) PROVE UNCHANGED op
  BY <1>6 DEF CallActions, HealthJoin, HealthReturns, HealthLeaves
<1>7. CASE ReadActions \/ FlightEnds \/ CloseActions \/ UNCHANGED vars
  BY <1>7 DEF ReadActions, ReadStarts, ReadEnds, ReadFails, FlightEnds, CloseActions, Close,
              CloseReturns, vars
<1>8. QED
  BY <1>1, <1>2, <1>3, <1>4, <1>5, <1>6, <1>7 DEF Next, OpActions, TaskActions, LegActions,
     CallActions, ReadActions, CloseActions, FlightStep

\* One record of one leg changes.
LEMMA LegStepTypes ==
  ASSUME TypeOK, NEW l \in Legs, NEW x \in All, NEW r \in LegRecords, LegStep(l, x, r)
  PROVE  LegsOK'
  BY DEF TypeOK, LegsOK, LegStep

\* The jobs of an operation that starts or ends.
LEMMA LegResetTypes ==
  ASSUME TypeOK, NEW x \in All, NEW pc, Started(x, pc) \/ Forgotten(x)
  PROVE  LegsOK'
<1> USE DEF TypeOK, LegsOK
<1>1. ASSUME NEW l \in Legs
      PROVE  /\ [NoLeg EXCEPT !.phys = "new"] \in LegRecords
             /\ [NoLeg EXCEPT !.phys = IF Running(l, x) THEN leg[l][x].phys ELSE "none"]
                  \in LegRecords
  BY DEF NoLeg, LegRecords
<1>2. CASE Started(x, pc)
  BY <1>1, <1>2 DEF Started
<1>3. CASE Forgotten(x)
  BY <1>1, <1>3 DEF Forgotten
<1>4. QED
  BY <1>2, <1>3

\* What a leg's step makes of its record.
LEMMA LegRecordTypes ==
  ASSUME TypeOK, NEW l \in Legs, NEW x \in All
  PROVE  /\ leg[l][x] \in LegRecords
         /\ \A a \in {"ok", "soft", "down", "corrupt"} :
              /\ [leg[l][x] EXCEPT !.phys = "none", !.ans = a] \in LegRecords
              /\ [leg[l][x] EXCEPT !.phys = "none", !.ans = Reply(leg[l][x], a)] \in LegRecords
              /\ [leg[l][x] EXCEPT !.phys = "late", !.ans = Reply(leg[l][x], a)] \in LegRecords
              /\ [leg[l][x] EXCEPT !.ans = a] \in LegRecords
         /\ [leg[l][x] EXCEPT !.phys = "run"] \in LegRecords
         /\ [leg[l][x] EXCEPT !.phys = "run", !.gen = root[l].epoch, !.rec = ~root[l].healthy]
              \in LegRecords
<1> USE DEF TypeOK, LegsOK
<1>1. leg[l][x] \in LegRecords
  OBVIOUS
<1>2. ASSUME NEW a \in {"ok", "soft", "down", "corrupt"}
      PROVE  /\ [leg[l][x] EXCEPT !.phys = "none", !.ans = a] \in LegRecords
             /\ [leg[l][x] EXCEPT !.phys = "none", !.ans = Reply(leg[l][x], a)] \in LegRecords
             /\ [leg[l][x] EXCEPT !.phys = "late", !.ans = Reply(leg[l][x], a)] \in LegRecords
             /\ [leg[l][x] EXCEPT !.ans = a] \in LegRecords
  BY <1>1 DEF LegRecords, Reply
<1>3. [leg[l][x] EXCEPT !.phys = "run"] \in LegRecords
  BY <1>1 DEF LegRecords
<1>4. ASSUME NEW g \in Nat, NEW b \in BOOLEAN
      PROVE  [leg[l][x] EXCEPT !.phys = "run", !.gen = g, !.rec = b] \in LegRecords
  BY <1>1 DEF LegRecords
<1>5. root[l].epoch \in Nat
  BY DEF RootsOK, RootRecords
<1>6. (~root[l].healthy) \in BOOLEAN
  BY Zenon
<1>7. QED
  BY <1>1, <1>2, <1>3, <1>4, <1>5, <1>6

\* The legs' jobs of every action.
LEMMA LegTypes ==
  ASSUME TypeOK, [Next]_vars
  PROVE  LegsOK'
<1> USE AllNames DEF TypeOK
<1>1. ASSUME NEW o \in Ops, OpActions(o) PROVE LegsOK'
  BY <1>1, LegResetTypes DEF OpActions, Admit, Cancel, LegsOK
<1>2. ASSUME NEW x \in All, TaskActions(x) PROVE LegsOK'
  BY <1>2, LegResetTypes DEF TaskActions, TaskStep, WatchStep, FinishOk, FinishErr, TaskStores,
     DrainLeg, WatchCancels, WatchFails, WatchStores, LegsOK
<1>3. CASE FlightStep
  BY <1>3, LegResetTypes DEF FlightStep, FlightAdmit, FlightEnds, LegsOK
<1>4. CASE ProbeStep
  BY <1>4 DEF ProbeStep, LoadGeneration, LoadHealthy, LoadActive, LoadLegs, LegsOK
<1>5. ASSUME NEW l \in Legs, NEW o \in Ops, JobStep(l, o) PROVE LegsOK'
  BY <1>5, LegRecordTypes, LegStepTypes DEF JobStep, LegBegins, LegEnds
<1>6. ASSUME NEW l \in Legs, LegProbe(l) \/ CloseLeg(l) PROVE LegsOK'
  BY <1>6, LegRecordTypes, LegStepTypes DEF LegProbe, LegProbes, LegProbeEnds, CloseLeg, LegsOK
<1>7. ASSUME NEW l \in Legs, NEW x \in All, LegActions(l, x) PROVE LegsOK'
  BY <1>7, LegRecordTypes, LegStepTypes DEF LegActions, LegFails, LegGivesUp, LegCut
<1>8. ASSUME NEW c \in Callers, CallActions(c) PROVE LegsOK'
  BY <1>8 DEF CallActions, HealthJoin, HealthReturns, HealthLeaves, LegsOK
<1>9. CASE ReadActions \/ CloseActions \/ UNCHANGED vars
  BY <1>9 DEF ReadActions, ReadStarts, ReadEnds, ReadFails, CloseActions, Close,
              CloseReturns, vars, LegsOK
<1>10. QED
  BY <1>1, <1>2, <1>3, <1>4, <1>5, <1>6, <1>7, <1>8, <1>9 DEF Next, OpActions, TaskActions,
     LegActions, CallActions, ReadActions, CloseActions

\* The legs' own state in every action.
LEMMA RootTypes ==
  ASSUME TypeOK, [Next]_vars
  PROVE  RootsOK'
<1> USE AllNames DEF TypeOK, RootsOK
<1>1. ASSUME NEW l \in Legs, RootFails(l) PROVE RootsOK'
  BY <1>1 DEF RootFails, RootRecords
<1>2. ASSUME NEW l \in Legs, CloseLeg(l) PROVE RootsOK'
  BY <1>2 DEF CloseLeg, RootRecords
<1>3. ASSUME NEW l \in Legs, LegProbeEnds(l) PROVE RootsOK'
  <2>1. ASSUME NEW b \in BOOLEAN PROVE [root EXCEPT ![l].healthy = b] \in [Legs -> RootRecords]
    BY DEF RootRecords
  <2>2. PICK b \in BOOLEAN : root' = [root EXCEPT ![l].healthy = b]
    BY <1>3, Zenon DEF LegProbeEnds
  <2>3. QED
    BY <2>1, <2>2
<1>4. ASSUME NEW l \in Legs, NEW x \in All, LegActions(l, x) PROVE RootsOK'
  BY <1>1, <1>4 DEF LegActions, LegFails, LegGivesUp, LegCut
<1>5. CASE ReadActions
  BY <1>1, <1>5 DEF ReadActions, ReadStarts, ReadEnds, ReadFails, Legs
<1>6. ASSUME NEW o \in Ops, OpActions(o) PROVE UNCHANGED root
  BY <1>6 DEF OpActions, Admit, Cancel
<1>7. ASSUME NEW x \in All, TaskActions(x) PROVE UNCHANGED root
  BY <1>7 DEF TaskActions, TaskStep, WatchStep, FinishOk, FinishErr, TaskStores,
     DrainLeg, WatchCancels, WatchFails, WatchStores
<1>8. ASSUME NEW l \in Legs, NEW o \in Ops, JobStep(l, o) PROVE UNCHANGED root
  BY <1>8 DEF JobStep, LegBegins, LegEnds
<1>9. ASSUME NEW c \in Callers, CallActions(c) PROVE UNCHANGED root
  BY <1>9 DEF CallActions, HealthJoin, HealthReturns, HealthLeaves
<1>10. CASE FlightStep \/ ProbeStep \/ CloseActions \/ UNCHANGED vars
  BY <1>10 DEF FlightStep, FlightAdmit, FlightEnds, ProbeStep, LoadGeneration, LoadHealthy,
               LoadActive, LoadLegs, CloseActions, Close, CloseReturns, vars
<1>11. ASSUME NEW l \in Legs, LegProbes(l) PROVE UNCHANGED root
  BY <1>11 DEF LegProbes
<1>12. QED
  BY <1>2, <1>3, <1>4, <1>5, <1>6, <1>7, <1>8, <1>9, <1>10, <1>11 DEF Next, OpActions,
     TaskActions, LegActions, CallActions, ReadActions, CloseActions, LegProbe

\* The flight and the callers in every action.
LEMMA FlightTypes ==
  ASSUME TypeOK, [Next]_vars
  PROVE  FlightsOK'
<1> USE AllNames DEF TypeOK, FlightsOK, CountsOK
<1>1. ASSUME NEW x \in All, NEW good \in BOOLEAN, Reported(x, good)
      PROVE  flight' \in FlightRecords
  BY <1>1 DEF Reported, FlightRecords
<1>2. ASSUME NEW x \in All, TaskActions(x) PROVE FlightsOK'
  <2>1. UNCHANGED caller
    BY <1>2 DEF TaskActions, TaskStep, WatchStep, FinishOk, FinishErr, TaskStores,
       DrainLeg, WatchCancels, WatchFails, WatchStores, health
  <2>2. flight' \in FlightRecords
    <3>1. CASE WatchStores(x)
      BY <3>1 DEF WatchStores, FlightRecords
    <3>2. CASE FinishOk(x)
      BY <1>1, <3>2 DEF FinishOk
    <3>3. CASE \E l \in Legs : DrainLeg(x, l)
      BY <1>1, <3>3 DEF DrainLeg
    <3>4. CASE FinishErr(x) \/ TaskStores(x) \/ WatchCancels(x) \/ WatchFails(x)
      BY <3>4 DEF FinishErr, TaskStores, WatchCancels, WatchFails, health
    <3>5. QED
      BY <1>2, <3>1, <3>2, <3>3, <3>4 DEF TaskActions, TaskStep, WatchStep
  <2>3. QED
    BY <2>1, <2>2
<1>3. CASE FlightAdmit
  BY <1>3 DEF FlightAdmit, FlightRecords
<1>4. CASE FlightEnds
  <2>1. NoFlight \in FlightRecords
    BY DEF NoFlight, FlightRecords
  <2>2. [pc |-> "decide", gen |-> flight.gen, ok |-> flight.ok] \in CallerRecords
    BY DEF FlightRecords, CallerRecords
  <2>3. QED
    BY <1>4, <2>1, <2>2 DEF FlightEnds
<1>5. CASE ProbeStep
  BY <1>5 DEF ProbeStep, LoadGeneration, LoadHealthy, LoadActive, LoadLegs, health, FlightRecords
<1>6. ASSUME NEW c \in Callers, CallActions(c) PROVE FlightsOK'
  <2>1. /\ NoCaller \in CallerRecords /\ [NoCaller EXCEPT !.pc = "wait"] \in CallerRecords
        /\ [NoFlight EXCEPT !.pc = "admit"] \in FlightRecords
    BY DEF NoCaller, CallerRecords, NoFlight, FlightRecords
  <2>2. QED
    BY <1>6, <2>1 DEF CallActions, HealthJoin, HealthReturns, HealthLeaves
<1>7. ASSUME NEW o \in Ops, OpActions(o) PROVE UNCHANGED health
  BY <1>7 DEF OpActions, Admit, Cancel
<1>8. ASSUME NEW l \in Legs, NEW x \in All,
             JobStep(l, x) \/ LegProbe(l) \/ CloseLeg(l) \/ LegActions(l, x)
      PROVE  UNCHANGED health
  BY <1>8 DEF JobStep, LegBegins, LegEnds, LegProbe, LegProbes, LegProbeEnds, CloseLeg,
              LegActions, LegFails, LegGivesUp, LegCut
<1>9. CASE ReadActions \/ CloseActions \/ UNCHANGED vars
  BY <1>9 DEF ReadActions, ReadStarts, ReadEnds, ReadFails, CloseActions, Close,
              CloseReturns, vars, health
<1>10. QED
  BY <1>2, <1>3, <1>4, <1>5, <1>6, <1>7, <1>8, <1>9 DEF Next, OpActions, TaskActions,
     LegActions, CallActions, ReadActions, CloseActions, FlightStep, health

\* The counters and the lookup in every action.
LEMMA CountTypes ==
  ASSUME TypeOK, [Next]_vars
  PROVE  CountsOK'
<1> USE AllNames DEF TypeOK, CountsOK, shared
<1>1. ASSUME NEW k \in Bounded, NEW max, Spend(k, max) PROVE budget' \in [Bounded -> Nat]
  BY <1>1 DEF Spend
<1>2. Fault => budget' \in [Bounded -> Nat]
  BY <1>1 DEF Fault, Bounded
<1>3. ASSUME NEW o \in Ops, OpActions(o) PROVE CountsOK'
  BY <1>1, <1>3 DEF OpActions, Admit, Cancel, Bounded
<1>4. ASSUME NEW x \in All, TaskActions(x) PROVE CountsOK'
  <2>1. UNCHANGED read /\ (generation' = generation \/ generation' = generation + 1)
    BY <1>4, Zenon DEF TaskActions, TaskStep, WatchStep, FinishOk, FinishErr, TaskStores,
       DrainLeg, WatchCancels, WatchFails, WatchStores
  <2>2. UNCHANGED budget \/ Fault
    BY <1>4 DEF TaskActions, TaskStep, WatchStep, FinishOk, FinishErr, TaskStores,
       DrainLeg, WatchCancels, WatchFails, WatchStores
  <2>3. QED
    BY <1>2, <2>1, <2>2
<1>5. ASSUME NEW l \in Legs, NEW x \in All,
             JobStep(l, x) \/ LegProbe(l) \/ CloseLeg(l) \/ LegActions(l, x)
      PROVE  CountsOK'
  BY <1>2, <1>5 DEF JobStep, LegBegins, LegEnds, LegProbe, LegProbes, LegProbeEnds, CloseLeg,
     LegActions, LegFails, LegGivesUp, LegCut
<1>6. CASE ReadActions
  <2>1. /\ UNCHANGED generation
        /\ read' \in {read, [on |-> TRUE, at |-> generation], [on |-> FALSE, at |-> 0]}
    BY <1>6, Zenon DEF ReadActions, ReadStarts, ReadEnds, ReadFails
  <2>2. budget' \in [Bounded -> Nat]
    BY <1>1, <1>2, <1>6 DEF ReadActions, ReadStarts, ReadEnds, ReadFails, Bounded
  <2>3. read' \in [on : BOOLEAN, at : Nat]
    <3>1. [on |-> TRUE, at |-> generation] \in [on : BOOLEAN, at : Nat]
      OBVIOUS
    <3>2. [on |-> FALSE, at |-> 0] \in [on : BOOLEAN, at : Nat]
      OBVIOUS
    <3>3. QED
      BY <2>1, <3>1, <3>2, Zenon
  <2>4. QED
    BY <2>1, <2>2, <2>3
<1>7. ASSUME NEW c \in Callers, CallActions(c) PROVE CountsOK'
  BY <1>1, <1>7 DEF CallActions, HealthJoin, HealthReturns, HealthLeaves, Bounded
<1>8. CASE ProbeStep \/ FlightStep \/ CloseActions \/ UNCHANGED vars
  BY <1>1, <1>8 DEF ProbeStep, LoadGeneration, LoadHealthy, LoadActive, LoadLegs, FlightStep,
     FlightAdmit, FlightEnds, CloseActions, Close, CloseReturns, vars, Bounded
<1>9. QED
  BY <1>3, <1>4, <1>5, <1>6, <1>7, <1>8 DEF Next, OpActions, TaskActions, LegActions,
     CallActions, ReadActions, CloseActions

\* The flags in every action.
LEMMA FlagTypes ==
  ASSUME TypeOK, [Next]_vars
  PROVE  FlagsOK'
<1> USE AllNames DEF TypeOK, FlagsOK, shared, health
<1>1. ASSUME NEW o \in Ops, OpActions(o) PROVE FlagsOK'
  BY <1>1 DEF OpActions, Admit, Cancel
<1>2. ASSUME NEW x \in All, TaskActions(x) PROVE FlagsOK'
  BY <1>2 DEF TaskActions, TaskStep, WatchStep, FinishOk, FinishErr, TaskStores,
     DrainLeg, WatchCancels, WatchFails, WatchStores
<1>3. ASSUME NEW l \in Legs, NEW x \in All,
             JobStep(l, x) \/ LegProbe(l) \/ CloseLeg(l) \/ LegActions(l, x)
      PROVE  FlagsOK'
  BY <1>3 DEF JobStep, LegBegins, LegEnds, LegProbe, LegProbes, LegProbeEnds, CloseLeg,
     LegActions, LegFails, LegGivesUp, LegCut
<1>4. CASE ReadActions \/ FlightStep
  BY <1>4 DEF ReadActions, ReadStarts, ReadEnds, ReadFails, FlightStep, FlightAdmit, FlightEnds
<1>5. ASSUME NEW c \in Callers, CallActions(c) PROVE FlagsOK'
  BY <1>5 DEF CallActions, HealthJoin, HealthReturns, HealthLeaves
<1>6. CASE ProbeStep
  BY <1>6 DEF ProbeStep, LoadGeneration, LoadHealthy, LoadActive, LoadLegs
<1>7. CASE CloseActions
  BY <1>7 DEF CloseActions, Close, CloseReturns
<1>8. CASE UNCHANGED vars
  BY <1>8 DEF vars
<1>9. QED
  BY <1>1, <1>2, <1>3, <1>4, <1>5, <1>6, <1>7, <1>8 DEF Next, OpActions, TaskActions, LegActions,
     CallActions, ReadActions, CloseActions

\* Every reachable state of the mirrored store is well typed.
THEOREM MirrorTypeCorrect == Spec => []TypeOK
<1>1. Init => TypeOK
  <2> SUFFICES ASSUME Init PROVE TypeOK
    OBVIOUS
  <2> USE DEF Init
  <2>1. FlagsOK
    BY DEF FlagsOK
  <2>2. OpsOK
    BY DEF OpsOK, OpRecords, NoOp
  <2>3. LegsOK
    BY DEF LegsOK, LegRecords, NoLeg
  <2>4. RootsOK
    BY DEF RootsOK, RootRecords
  <2>5. FlightsOK
    BY DEF FlightsOK, FlightRecords, CallerRecords, NoFlight, NoCaller
  <2>6. CountsOK
    BY DEF CountsOK
  <2>7. QED
    BY <2>1, <2>2, <2>3, <2>4, <2>5, <2>6 DEF TypeOK
<1>2. TypeOK /\ [Next]_vars => TypeOK'
  BY FlagTypes, OpTypes, LegTypes, RootTypes, FlightTypes, CountTypes DEF TypeOK
<1>3. QED
  BY <1>1, <1>2, PTL DEF Spec

----------------------------------------------------------------------------
\* A job that has not begun is unanswered, one that answered Ok has ended, and a leg
\* that physical_drain() has seen idle runs no job of the operation that waited.
Held(l, x) ==
  /\ Running(l, x) => Active(x)
  /\ leg[l][x].phys = "new" => leg[l][x].ans = "none"
  /\ leg[l][x].ans = "ok" => ~Running(l, x)
  /\ op[x].task = "drain" /\ l \notin op[x].left => ~Running(l, x)

PermitInv == \A l \in Legs, x \in All : Held(l, x)

\* What does not touch task, waiting set and jobs touches no permit.
LEMMA PermitStutters ==
  ASSUME PermitInv, UNCHANGED leg, \A x \in All : op'[x].task = op[x].task /\ op'[x].left = op[x].left
  PROVE  PermitInv'
  BY DEF PermitInv, Held, Running, Active

\* An operation that stays active waits for every leg it may still have a job on.
LEMMA PermitOp ==
  ASSUME TypeOK, PermitInv, UNCHANGED leg, NEW x \in All, NEW r \in OpRecords,
         op' = [op EXCEPT ![x] = r], r.task # "idle",
         r.task = "drain" => \A l \in Legs : l \notin r.left => ~Running(l, x)
  PROVE  PermitInv'
<1> SUFFICES ASSUME NEW l \in Legs, NEW y \in All PROVE Held(l, y)'
  BY DEF PermitInv
<1> USE DEF TypeOK, OpsOK
<1>1. CASE y = x
  BY <1>1 DEF PermitInv, Held, Running, Active
<1>2. CASE y # x
  BY <1>2 DEF PermitInv, Held, Running, Active
<1>3. QED
  BY <1>1, <1>2

\* An operation begins with jobs that have not.
LEMMA PermitStarts ==
  ASSUME TypeOK, PermitInv, NEW x \in All, NEW pc \in {"work", "load generation"}, Started(x, pc)
  PROVE  PermitInv'
<1> SUFFICES ASSUME NEW l \in Legs, NEW y \in All PROVE Held(l, y)'
  BY DEF PermitInv
<1> USE DEF TypeOK, OpsOK, LegsOK, OpRecords, LegRecords
<1>1. CASE y = x
  BY <1>1 DEF Started, NoOp, NoLeg, Held, Running, Active
<1>2. CASE y # x
  BY <1>2 DEF Started, PermitInv, Held, Running, Active
<1>3. QED
  BY <1>1, <1>2

\* An operation ends when neither leg runs a job of it.
LEMMA PermitEnds ==
  ASSUME TypeOK, PermitInv, NEW x \in All, Forgotten(x), op' = [op EXCEPT ![x] = Ended(x)],
         \A l \in Legs : ~Running(l, x)
  PROVE  PermitInv'
<1> SUFFICES ASSUME NEW l \in Legs, NEW y \in All PROVE Held(l, y)'
  BY DEF PermitInv
<1> USE DEF TypeOK, OpsOK, LegsOK, OpRecords, LegRecords
<1>1. CASE y = x
  BY <1>1 DEF Forgotten, Ended, NoLeg, Held, Running, Active
<1>2. CASE y # x
  BY <1>2 DEF Forgotten, PermitInv, Held, Running, Active
<1>3. QED
  BY <1>1, <1>2

\* A step of an operation's task or watcher.
LEMMA PermitTask ==
  ASSUME TypeOK, PermitInv, NEW x \in All, TaskActions(x)
  PROVE  PermitInv'
<1>0. /\ [op[x] EXCEPT !.task = "drain", !.left = Legs] \in OpRecords
      /\ [op[x] EXCEPT !.task = "failing"] \in OpRecords
      /\ \A l \in Legs : [op[x] EXCEPT !.left = @ \ {l}] \in OpRecords
  BY OpRecordTypes
<1> USE DEF TypeOK, OpsOK, LegsOK, OpRecords, LegRecords
<1>1. CASE FinishOk(x)
  <2>1. \A l \in Legs : leg[l][x].ans = "ok"
    <3>1. Outcome(x) = "ok"
      BY <1>1 DEF FinishOk
    <3>2. leg["primary"][x].ans = "ok" /\ leg["mirror"][x].ans = "ok"
      BY <3>1 DEF Outcome
    <3>3. QED
      BY <3>2 DEF Legs
  <2>2. \A l \in Legs : ~Running(l, x)
    BY <2>1 DEF PermitInv, Held
  <2>3. QED
    BY <1>1, <2>2, PermitEnds DEF FinishOk
<1>2. CASE FinishErr(x) \/ TaskStores(x)
  <2>1. \/ op' = [op EXCEPT ![x] = [op[x] EXCEPT !.task = "drain", !.left = Legs]]
        \/ op' = [op EXCEPT ![x] = [op[x] EXCEPT !.task = "failing"]]
    BY <1>2 DEF FinishErr, TaskStores
  <2>2. UNCHANGED leg
    BY <1>2 DEF FinishErr, TaskStores
  <2>3. ASSUME op' = [op EXCEPT ![x] = [op[x] EXCEPT !.task = "drain", !.left = Legs]]
        PROVE  PermitInv'
    <3> DEFINE r == [op[x] EXCEPT !.task = "drain", !.left = Legs]
    <3>1. r \in OpRecords /\ r.task = "drain" /\ r.left = Legs
      <4>1. r \in OpRecords
        BY <1>0, Zenon
      <4>2. r.task = "drain" /\ r.left = Legs
        BY TypeOK
      <4>3. QED
        BY <4>1, <4>2, Zenon
    <3> HIDE DEF r
    <3>2. QED
      BY <2>2, <2>3, <3>1, PermitOp DEF r
  <2>4. ASSUME op' = [op EXCEPT ![x] = [op[x] EXCEPT !.task = "failing"]]
        PROVE  PermitInv'
    <3> DEFINE r == [op[x] EXCEPT !.task = "failing"]
    <3>1. r \in OpRecords /\ r.task = "failing"
      <4>1. r \in OpRecords
        BY <1>0, Zenon
      <4>2. r.task = "failing"
        BY TypeOK
      <4>3. QED
        BY <4>1, <4>2, Zenon
    <3> HIDE DEF r
    <3>2. QED
      BY <2>2, <2>4, <3>1, PermitOp DEF r
  <2>5. QED
    BY <2>1, <2>3, <2>4
<1>3. CASE \E l \in Legs : DrainLeg(x, l)
  <2>1. PICK l \in Legs : DrainLeg(x, l)
    BY <1>3
  <2>2. ~Running(l, x)
    BY <2>1 DEF DrainLeg, LegIdle
  <2>3. CASE op[x].left = {l}
    <3>1. \A m \in Legs : ~Running(m, x)
      BY <2>1, <2>2, <2>3 DEF DrainLeg, PermitInv, Held
    <3>2. QED
      BY <2>1, <2>3, <3>1, PermitEnds DEF DrainLeg
  <2>4. CASE op[x].left # {l}
    <3>1. /\ op' = [op EXCEPT ![x] = [op[x] EXCEPT !.left = @ \ {l}]]
          /\ UNCHANGED leg /\ op[x].task = "drain"
      BY <2>1, <2>4 DEF DrainLeg
    <3>2. \A m \in Legs : m \notin op[x].left \ {l} => ~Running(m, x)
      BY <2>2, <3>1 DEF PermitInv, Held
    <3> DEFINE r == [op[x] EXCEPT !.left = @ \ {l}]
    <3>3. r \in OpRecords /\ r.task = "drain" /\ r.left = op[x].left \ {l}
      <4>1. r \in OpRecords
        BY <1>0, Zenon
      <4>2. r.task = "drain" /\ r.left = op[x].left \ {l}
        BY <3>1
      <4>3. QED
        BY <4>1, <4>2, Zenon
    <3> HIDE DEF r
    <3>4. QED
      BY <3>1, <3>2, <3>3, PermitOp DEF r
  <2>5. QED
    BY <2>3, <2>4
<1>4. CASE WatchCancels(x) \/ WatchFails(x) \/ WatchStores(x)
  <2>1. UNCHANGED leg
    BY <1>4 DEF WatchCancels, WatchFails, WatchStores
  <2>2. \A y \in All : op'[y].task = op[y].task /\ op'[y].left = op[y].left
    <3>1. CASE WatchCancels(x)
      BY <3>1 DEF WatchCancels
    <3>2. CASE WatchFails(x)
      BY <3>2 DEF WatchFails
    <3>3. CASE WatchStores(x)
      BY <3>3 DEF WatchStores
    <3>4. QED
      BY <1>4, <3>1, <3>2, <3>3
  <2>3. QED
    BY <2>1, <2>2, PermitStutters
<1>5. QED
  BY <1>1, <1>2, <1>3, <1>4 DEF TaskActions, TaskStep, WatchStep

\* A step of a leg: only a job of an operation at work begins.
LEMMA PermitLeg ==
  ASSUME TypeOK, PermitInv, NEW l \in Legs, NEW x \in All, NEW r \in LegRecords, UNCHANGED op,
         LegStep(l, x, r),
         r.phys = "new" => r.ans = "none",
         r.phys \in {"run", "late"} => r.ans # "ok",
         r.phys \in {"run", "late"} => Running(l, x) \/ op[x].task = "work"
  PROVE  PermitInv'
<1> SUFFICES ASSUME NEW m \in Legs, NEW y \in All PROVE Held(m, y)'
  BY DEF PermitInv
<1> USE DEF TypeOK, LegsOK
<1>1. CASE m = l /\ y = x
  <2>1. leg'[l][x] = r
    BY DEF LegStep
  <2>2. Held(l, x)
    BY DEF PermitInv
  <2>3. Running(l, x)' <=> r.phys \in {"run", "late"}
    BY <2>1 DEF Running
  <2>4. op'[x] = op[x]
    OBVIOUS
  <2>5. Held(l, x)'
    <3>1. Running(l, x)' => Active(x)'
      BY <2>2, <2>3, <2>4 DEF Held, Active
    <3>2. op'[x].task = "drain" /\ l \notin op'[x].left => ~Running(l, x)'
      BY <2>2, <2>3, <2>4 DEF Held
    <3>3. /\ leg'[l][x].phys = "new" => leg'[l][x].ans = "none"
          /\ leg'[l][x].ans = "ok" => ~Running(l, x)'
      <4>1. leg'[l][x].phys = r.phys /\ leg'[l][x].ans = r.ans
        BY <2>1, Zenon
      <4>2. QED
        BY <2>3, <4>1
    <3>4. QED
      BY <3>1, <3>2, <3>3 DEF Held
  <2>6. QED
    BY <1>1, <2>5
<1>2. CASE ~(m = l /\ y = x)
  BY <1>2 DEF LegStep, PermitInv, Held, Running, Active
<1>3. QED
  BY <1>1, <1>2

\* The leg steps of an operation or the probe, one by one.
LEMMA PermitLegs ==
  ASSUME TypeOK, PermitInv, NEW l \in Legs, NEW x \in All,
         \/ LegActions(l, x)
         \/ x \in Ops /\ JobStep(l, x)
         \/ x = Probe /\ LegProbe(l)
  PROVE  PermitInv'
<1> DEFINE s == leg[l][x]
<1>0. UNCHANGED op
  BY DEF LegActions, LegFails, LegGivesUp, LegCut, JobStep, LegBegins, LegEnds, LegProbe,
         LegProbes, LegProbeEnds
<1>1. /\ s \in LegRecords
      /\ s.phys = "new" => s.ans = "none"
      /\ s.ans = "ok" => ~Running(l, x)
  BY DEF PermitInv, Held, TypeOK, LegsOK
<1>2. ASSUME NEW a \in {"ok", "soft", "down", "corrupt"},
             \/ LegStep(l, x, [s EXCEPT !.phys = "none", !.ans = a])
             \/ LegStep(l, x, [s EXCEPT !.phys = "none", !.ans = Reply(s, a)])
      PROVE  PermitInv'
  <2>1. ASSUME NEW b \in {"none", "ok", "soft", "down", "corrupt"},
               LegStep(l, x, [s EXCEPT !.phys = "none", !.ans = b])
        PROVE  PermitInv'
    <3> DEFINE r == [s EXCEPT !.phys = "none", !.ans = b]
    <3>1. r \in LegRecords /\ r.phys = "none"
      BY <1>1 DEF LegRecords
    <3> HIDE DEF r
    <3>2. LegStep(l, x, r)
      BY <2>1 DEF r
    <3>3. QED
      BY <1>0, <3>1, <3>2, PermitLeg
  <2>2. Reply(s, a) \in {"none", "ok", "soft", "down", "corrupt"}
    BY <1>1 DEF Reply, LegRecords
  <2>3. QED
    BY <1>2, <2>1, <2>2
<1>3. ASSUME op[x].task = "work", s.phys = "new", NEW g \in Nat, NEW b \in BOOLEAN,
             LegStep(l, x, [s EXCEPT !.phys = "run", !.gen = g, !.rec = b])
      PROVE  PermitInv'
  <2> DEFINE r == [s EXCEPT !.phys = "run", !.gen = g, !.rec = b]
  <2>1. r \in LegRecords /\ r.phys = "run" /\ r.ans = "none"
    BY <1>1, <1>3 DEF LegRecords
  <2> HIDE DEF r
  <2>2. LegStep(l, x, r)
    BY <1>3 DEF r
  <2>3. /\ r.phys = "new" => r.ans = "none"
        /\ r.phys \in {"run", "late"} => r.ans # "ok"
        /\ r.phys \in {"run", "late"} => Running(l, x) \/ op[x].task = "work"
    BY <1>3, <2>1
  <2>4. QED
    BY <1>0, <2>1, <2>2, <2>3, PermitLeg
<1>4. ASSUME Running(l, x), NEW p \in {"run", "late"}, NEW a \in {"soft", "down", "corrupt"},
             \/ LegStep(l, x, [s EXCEPT !.phys = p, !.ans = a])
             \/ LegStep(l, x, [s EXCEPT !.phys = p, !.ans = Reply(s, a)])
      PROVE  PermitInv'
  <2>1. ASSUME NEW b \in {"none", "soft", "down", "corrupt"},
               LegStep(l, x, [s EXCEPT !.phys = p, !.ans = b])
        PROVE  PermitInv'
    <3> DEFINE r == [s EXCEPT !.phys = p, !.ans = b]
    <3>1. r \in LegRecords /\ r.phys = p /\ r.ans = b
      BY <1>1 DEF LegRecords
    <3> HIDE DEF r
    <3>2. LegStep(l, x, r)
      BY <2>1 DEF r
    <3>3. /\ r.phys = "new" => r.ans = "none"
          /\ r.phys \in {"run", "late"} => r.ans # "ok"
          /\ r.phys \in {"run", "late"} => Running(l, x) \/ op[x].task = "work"
      BY <1>4, <3>1
    <3>4. QED
      BY <1>0, <3>1, <3>2, <3>3, PermitLeg
  <2>2. Reply(s, a) \in {"none", "soft", "down", "corrupt"}
    BY <1>1, <1>4 DEF Reply, LegRecords
  <2>3. QED
    BY <1>4, <2>1, <2>2
<1>5. CASE LegFails(l, x)
  BY <1>2, <1>5 DEF LegFails
<1>6. CASE LegGivesUp(l, x)
  BY <1>4, <1>6 DEF LegGivesUp, Running
<1>7. CASE LegCut(l, x)
  <2>1. s.phys \in {"run", "late"} /\ LegStep(l, x, [s EXCEPT !.phys = s.phys, !.ans = "soft"])
    BY <1>1, <1>7 DEF LegCut, Running, LegRecords, LegStep
  <2>2. QED
    BY <1>4, <1>7, <2>1 DEF LegCut
<1>8. CASE LegBegins(l, x)
  <2>1. s.gen \in Nat /\ s.rec \in BOOLEAN
        /\ [s EXCEPT !.phys = "run"] = [s EXCEPT !.phys = "run", !.gen = s.gen, !.rec = s.rec]
    BY <1>1 DEF LegRecords
  <2>2. QED
    BY <1>2, <1>3, <1>8, <2>1 DEF LegBegins
<1>9. CASE LegEnds(l, x)
  BY <1>2, <1>9 DEF LegEnds
<1>10. CASE x = Probe /\ LegProbes(l)
  <2>1. root[l].epoch \in Nat /\ (~root[l].healthy) \in BOOLEAN
    BY DEF TypeOK, RootsOK, RootRecords
  <2>2. QED
    BY <1>2, <1>3, <1>10, <2>1 DEF LegProbes
<1>11. CASE x = Probe /\ LegProbeEnds(l)
  BY <1>2, <1>11 DEF LegProbeEnds
<1>12. QED
  BY <1>5, <1>6, <1>7, <1>8, <1>9, <1>10, <1>11 DEF LegActions, JobStep, LegProbe

\* The probe's loads: it stays active, and a refused one waits for both legs.
LEMMA PermitProbe ==
  ASSUME TypeOK, PermitInv, ProbeStep
  PROVE  PermitInv'
<1>1. PICK pc \in {"load healthy", "load active", "load primary", "load mirror", "work"},
           good \in BOOLEAN : ProbeGoes(pc, good)
  <2>1. LegIdle("primary") \in BOOLEAN /\ LegIdle("mirror") \in BOOLEAN
    BY Zenon DEF LegIdle
  <2>2. CASE LoadGeneration \/ LoadHealthy
    BY <2>2, Zenon DEF LoadGeneration, LoadHealthy
  <2>3. CASE LoadActive
    BY <2>3, Zenon DEF LoadActive
  <2>4. CASE LoadLegs
    <3>1. CASE ProbeGoes("load mirror", LegIdle("primary"))
      BY <2>1, <3>1, Zenon
    <3>2. CASE ProbeGoes("work", LegIdle("mirror"))
      BY <2>1, <3>2, Zenon
    <3>3. QED
      BY <2>4, <3>1, <3>2, Zenon DEF LoadLegs
  <2>5. QED
    BY <2>2, <2>3, <2>4 DEF ProbeStep
<1>2. UNCHANGED leg
  BY DEF ProbeStep, LoadGeneration, LoadHealthy, LoadActive, LoadLegs
<1>3. op[Probe] \in OpRecords
  BY AllNames DEF TypeOK, OpsOK
<1>4. CASE good
  <2> DEFINE r == [op[Probe] EXCEPT !.task = pc, !.left = {}]
  <2>1. r \in OpRecords /\ r.task = pc
    BY <1>3 DEF OpRecords
  <2>2. op' = [op EXCEPT ![Probe] = r]
    BY <1>1, <1>4, AllNames DEF ProbeGoes, TypeOK, OpsOK
  <2> HIDE DEF r
  <2>3. QED
    BY <1>2, <2>1, <2>2, AllNames, PermitOp
<1>5. CASE ~good
  <2> DEFINE r == [op[Probe] EXCEPT !.task = "drain", !.left = Legs]
  <2>1. r \in OpRecords /\ r.task = "drain" /\ r.left = Legs
    BY <1>3 DEF OpRecords
  <2>2. op' = [op EXCEPT ![Probe] = r]
    BY <1>1, <1>5, AllNames DEF ProbeGoes, TypeOK, OpsOK
  <2> HIDE DEF r
  <2>3. QED
    BY <1>2, <2>1, <2>2, AllNames, PermitOp
<1>6. QED
  BY <1>4, <1>5

\* PermitHeld for any number of operations, slots, lookups and failures: no job of
\* either leg outlives the aggregate permit it was started under.
THEOREM PermitIsHeld == Spec => []PermitHeld
<1>1. Init => PermitInv
  BY DEF Init, PermitInv, Held, Running, Active, NoOp, NoLeg
<1>2. TypeOK /\ PermitInv /\ [Next]_vars => PermitInv'
  <2> SUFFICES ASSUME TypeOK, PermitInv, [Next]_vars PROVE PermitInv'
    OBVIOUS
  <2>1. ASSUME NEW o \in Ops, OpActions(o) PROVE PermitInv'
    <3>1. CASE Admit(o)
      BY <3>1, AllNames, PermitStarts DEF Admit
    <3>2. CASE Cancel(o)
      <4>1. \A y \in All : op'[y].task = op[y].task /\ op'[y].left = op[y].left
        BY <3>2 DEF Cancel, TypeOK, OpsOK, OpRecords
      <4>2. QED
        BY <3>2, <4>1, PermitStutters DEF Cancel
    <3>3. QED
      BY <2>1, <3>1, <3>2 DEF OpActions
  <2>2. CASE FlightAdmit
    BY <2>2, AllNames, PermitStarts, PermitStutters DEF FlightAdmit
  <2>3. ASSUME NEW l \in Legs, NEW o \in Ops, JobStep(l, o) PROVE PermitInv'
    BY <2>3, AllNames, PermitLegs
  <2>4. ASSUME NEW l \in Legs, LegProbe(l) PROVE PermitInv'
    BY <2>4, AllNames, PermitLegs
  <2>5. ASSUME NEW l \in Legs, CloseLeg(l) PROVE UNCHANGED <<op, leg>>
    BY <2>5 DEF CloseLeg
  <2>6. ASSUME NEW c \in Callers, CallActions(c) PROVE UNCHANGED <<op, leg>>
    BY <2>6 DEF CallActions, HealthJoin, HealthReturns, HealthLeaves
  <2>7. CASE ReadActions \/ FlightEnds \/ CloseActions \/ UNCHANGED vars
    <3>1. UNCHANGED <<op, leg>>
      BY <2>7 DEF ReadActions, ReadStarts, ReadEnds, ReadFails, FlightEnds, CloseActions, Close,
                  CloseReturns, vars
    <3>2. QED
      BY <3>1, PermitStutters
  <2>8. UNCHANGED <<op, leg>> => PermitInv'
    BY PermitStutters
  <2>9. QED
    BY <2>1, <2>2, <2>3, <2>4, <2>5, <2>6, <2>7, <2>8, PermitTask, PermitLegs, PermitProbe
       DEF Next, OpActions, TaskActions, LegActions, CallActions, ReadActions, CloseActions,
           FlightStep
<1>3. PermitInv => PermitHeld
  BY DEF PermitInv, Held, PermitHeld
<1>4. QED
  BY <1>1, <1>2, <1>3, MirrorTypeCorrect, PTL DEF Spec

----------------------------------------------------------------------------
(* Recovery: what reopens the aggregate has seen the failed generation drain. *)

OpsCurrent  == \A o \in Ops : Active(o) => op[o].at = generation
ReadCurrent == read.on => read.at = generation

\* The generations that the flight and the callers remember are none of the future; the
\* probe that is awaited belongs to the flight, and only its end makes the flight good.
FlightInv ==
  /\ flight.gen <= generation /\ \A c \in Callers : caller[c].gen <= generation
  /\ op[Probe].watch = "on" => flight.pc = "probe"
  /\ flight.ok => flight.pc = "end" /\ op[Probe].task = "idle"

\* How far the probe has looked, in the order of its loads.
SeenOps(task)  == task \in {"load primary", "load mirror", "work"}
SeenRead(task) == task \in {"load mirror", "work"}

\* An aggregate that admits work is drained. So is what the probe has looked at, and what
\* the flight and the callers conclude from it, while their generation is the current one.
DrainInv ==
  /\ healthy /\ ~Locked => OpsCurrent /\ ReadCurrent
  /\ op[Probe].watch = "on" /\ flight.gen = generation =>
       /\ SeenOps(op[Probe].task) => OpsCurrent
       /\ SeenRead(op[Probe].task) => ReadCurrent
  /\ flight.ok /\ flight.gen = generation => OpsCurrent /\ ReadCurrent
  /\ \A c \in Callers : caller[c].ok /\ caller[c].gen = generation => OpsCurrent /\ ReadCurrent

RecoveryInv == FlightInv /\ (~torn => DrainInv)

\* The operations that a step of one operation's task leaves alone.
LEMMA OpStep ==
  ASSUME TypeOK, NEW x \in All, NEW r, op' = [op EXCEPT ![x] = r]
  PROVE  op'[x] = r /\ \A y \in All \ {x} : op'[y] = op[y]
  BY DEF TypeOK, OpsOK

Tasks == {"idle", "load generation", "load healthy", "load active", "load primary",
          "load mirror", "work", "failing", "drain"}

LEMMA OpShape ==
  OpRecords = [task : Tasks, watch : {"off", "on", "cancel", "failing"}, at : Nat,
               cut : BOOLEAN, left : SUBSET Legs]
  BY DEF OpRecords, Tasks

LEMMA SeenFacts ==
  /\ ~SeenOps("idle") /\ ~SeenOps("drain") /\ ~SeenOps("failing")
  /\ ~SeenRead("idle") /\ ~SeenRead("drain") /\ ~SeenRead("failing")
<1>1. ~SeenOps("idle") /\ ~SeenOps("drain") /\ ~SeenOps("failing")
  BY Zenon DEF SeenOps
<1>2. ~SeenRead("idle") /\ ~SeenRead("drain") /\ ~SeenRead("failing")
  BY Zenon DEF SeenRead
<1>3. QED
  BY <1>1, <1>2

LEMMA EndedFacts ==
  ASSUME TypeOK, NEW x \in All
  PROVE  /\ Ended(x).task = "idle" /\ Ended(x).watch # "on"
         /\ op[x].watch = "failing" => Ended(x).watch = "failing"
<1> DEFINE w == IF op[x].watch = "on" THEN "off" ELSE op[x].watch
<1>1. op[x] \in OpRecords
  BY DEF TypeOK, OpsOK
<1>2. w # "on" /\ (op[x].watch = "failing" => w = "failing")
  OBVIOUS
<1>3. Ended(x) = [op[x] EXCEPT !.task = "idle", !.left = {}, !.cut = FALSE, !.at = 0, !.watch = w]
  BY DEF Ended
<1> HIDE DEF w
<1>4. Ended(x).task = "idle" /\ Ended(x).watch = w
  BY <1>1, <1>3, OpShape
<1>5. QED
  BY <1>2, <1>4

\* What a step of an operation's task or watcher does to its record: it makes no idle
\* operation active, keeps the generation of an active one, and takes no thread out of
\* failure() but with the second store.
Moved(x, r) ==
  /\ r.task # "idle" => Active(x) /\ r.at = op[x].at
  /\ r.task \in {op[x].task, "idle", "drain", "failing"}
  /\ r.watch = "on" => op[x].watch = "on"
  /\ healthy' => /\ op[x].task = "failing" => r.task = "failing"
                 /\ op[x].watch = "failing" => r.watch = "failing"

LEMMA TaskMoves ==
  ASSUME TypeOK, NEW x \in All, TaskActions(x)
  PROVE  \E r : Moved(x, r) /\ op' = [op EXCEPT ![x] = r]
<1>1. op \in [All -> OpRecords] /\ op[x] \in OpRecords
  BY DEF TypeOK, OpsOK
<1>2. ASSUME op' = [op EXCEPT ![x] = Ended(x)], op[x].task # "failing"
      PROVE  \E r : Moved(x, r) /\ op' = [op EXCEPT ![x] = r]
  <2>1. Moved(x, Ended(x))
    BY <1>2, EndedFacts DEF Moved
  <2>2. QED
    BY <1>2, <2>1
<1>3. ASSUME op' = [op EXCEPT ![x].task = "drain", ![x].left = Legs], Active(x),
             op[x].task # "failing" \/ ~healthy'
      PROVE  \E r : Moved(x, r) /\ op' = [op EXCEPT ![x] = r]
  <2> DEFINE r == [op[x] EXCEPT !.task = "drain", !.left = Legs]
  <2>1. r.task = "drain" /\ r.watch = op[x].watch /\ r.at = op[x].at
    BY <1>1, OpShape
  <2>2. op' = [op EXCEPT ![x] = r]
    BY <1>1, <1>3
  <2> HIDE DEF r
  <2>3. QED
    BY <1>3, <2>1, <2>2 DEF Moved
<1>4. ASSUME op' = [op EXCEPT ![x].task = "failing"], Active(x)
      PROVE  \E r : Moved(x, r) /\ op' = [op EXCEPT ![x] = r]
  <2> DEFINE r == [op[x] EXCEPT !.task = "failing"]
  <2>1. r.task = "failing" /\ r.watch = op[x].watch /\ r.at = op[x].at
    BY <1>1, OpShape
  <2>2. op' = [op EXCEPT ![x] = r]
    BY <1>1, <1>4
  <2> HIDE DEF r
  <2>3. QED
    BY <1>4, <2>1, <2>2 DEF Moved
<1>5. ASSUME NEW l \in Legs, op' = [op EXCEPT ![x].left = @ \ {l}], Active(x)
      PROVE  \E r : Moved(x, r) /\ op' = [op EXCEPT ![x] = r]
  <2> DEFINE r == [op[x] EXCEPT !.left = @ \ {l}]
  <2>1. r.task = op[x].task /\ r.watch = op[x].watch /\ r.at = op[x].at
    BY <1>1, OpShape
  <2>2. op' = [op EXCEPT ![x] = r]
    BY <1>1, <1>5
  <2> HIDE DEF r
  <2>3. QED
    BY <1>5, <2>1, <2>2 DEF Moved
<1>6. ASSUME NEW w \in {"cancel", "failing", "off"}, NEW cut \in BOOLEAN,
             op' = [op EXCEPT ![x].watch = w, ![x].cut = cut],
             op[x].watch # "failing" \/ ~healthy'
      PROVE  \E r : Moved(x, r) /\ op' = [op EXCEPT ![x] = r]
  <2> DEFINE r == [op[x] EXCEPT !.watch = w, !.cut = cut]
  <2>1. r.task = op[x].task /\ r.watch = w /\ r.at = op[x].at
    BY <1>1, OpShape
  <2>2. op' = [op EXCEPT ![x] = r]
    BY <1>1, <1>6
  <2> HIDE DEF r
  <2>3. QED
    BY <1>6, <2>1, <2>2 DEF Moved, Active
<1>7. CASE FinishOk(x)
  BY <1>2, <1>7 DEF FinishOk, Answered
<1>8. CASE FinishErr(x)
  BY <1>3, <1>4, <1>8 DEF FinishErr, Answered, Active
<1>9. CASE TaskStores(x)
  BY <1>3, <1>9 DEF TaskStores, Active
<1>10. CASE \E l \in Legs : DrainLeg(x, l)
  <2>1. PICK l \in Legs : DrainLeg(x, l)
    BY <1>10
  <2>2. op[x].task = "drain"
    BY <2>1 DEF DrainLeg
  <2>3. \/ op' = [op EXCEPT ![x] = Ended(x)]
        \/ op' = [op EXCEPT ![x].left = @ \ {l}]
    BY <2>1 DEF DrainLeg
  <2>4. QED
    BY <1>2, <1>5, <2>2, <2>3 DEF Active
<1>11. CASE WatchCancels(x) \/ WatchFails(x) \/ WatchStores(x)
  <2>1. op[x].cut \in BOOLEAN /\ [op EXCEPT ![x].watch = "failing"] =
               [op EXCEPT ![x].watch = "failing", ![x].cut = op[x].cut]
    BY <1>1, OpShape
  <2>2. [op EXCEPT ![x].watch = "off"] = [op EXCEPT ![x].watch = "off", ![x].cut = op[x].cut]
    BY <1>1, OpShape
  <2>3. CASE WatchCancels(x)
    BY <1>6, <2>3 DEF WatchCancels
  <2>4. CASE WatchFails(x)
    BY <1>6, <2>1, <2>4 DEF WatchFails
  <2>5. CASE WatchStores(x)
    BY <1>6, <2>1, <2>2, <2>5 DEF WatchStores
  <2>6. QED
    BY <1>11, <2>3, <2>4, <2>5
<1>12. QED
  BY <1>7, <1>8, <1>9, <1>10, <1>11 DEF TaskActions, TaskStep, WatchStep

LEMMA MovedKeeps ==
  ASSUME TypeOK, NEW x \in All, NEW r, Moved(x, r), op' = [op EXCEPT ![x] = r]
  PROVE  /\ \A y \in All : op'[y].task # "idle" => Active(y) /\ op'[y].at = op[y].at
         /\ Locked => Locked' \/ ~healthy'
<1>1. op'[x] = r /\ \A y \in All \ {x} : op'[y] = op[y]
  BY OpStep
<1>2. \A y \in All : op'[y].task # "idle" => Active(y) /\ op'[y].at = op[y].at
  BY <1>1 DEF Moved, Active
<1>3. healthy' => \A y \in All : "failing" \in {op[y].task, op[y].watch} =>
                                     "failing" \in {op'[y].task, op'[y].watch}
  BY <1>1 DEF Moved
<1>4. QED
  BY <1>2, <1>3 DEF Locked

\* A step of the generation that opens nothing, and leaves the flight and its callers
\* as they are, keeps what they concluded.
LEMMA RecoveryQuiet ==
  ASSUME RecoveryInv, UNCHANGED <<generation, flight, caller, torn>>,
         OpsCurrent => OpsCurrent', ReadCurrent => ReadCurrent',
         healthy' => healthy, Locked => Locked' \/ ~healthy',
         op'[Probe].watch = "on" => op[Probe].watch = "on",
         op[Probe].task = "idle" => op'[Probe].task = "idle",
         op'[Probe].task \in {op[Probe].task, "idle", "drain", "failing"}
  PROVE  RecoveryInv'
<1>1. FlightInv'
  BY DEF RecoveryInv, FlightInv
<1>2. /\ SeenOps(op'[Probe].task) => SeenOps(op[Probe].task)
      /\ SeenRead(op'[Probe].task) => SeenRead(op[Probe].task)
  BY SeenFacts
<1>3. ASSUME ~torn PROVE DrainInv'
  <2>1. DrainInv
    BY <1>3 DEF RecoveryInv
  <2>2. (healthy /\ ~Locked => OpsCurrent /\ ReadCurrent)'
    BY <2>1 DEF DrainInv
  <2>3. op'[Probe].watch = "on" /\ flight'.gen = generation' =>
          /\ SeenOps(op'[Probe].task) => OpsCurrent'
          /\ SeenRead(op'[Probe].task) => ReadCurrent'
    BY <1>2, <2>1 DEF DrainInv
  <2>4. flight'.ok /\ flight'.gen = generation' => OpsCurrent' /\ ReadCurrent'
    BY <2>1 DEF DrainInv
  <2>5. \A c \in Callers :
          caller'[c].ok /\ caller'[c].gen = generation' => OpsCurrent' /\ ReadCurrent'
    BY <2>1 DEF DrainInv
  <2>6. QED
    BY <2>2, <2>3, <2>4, <2>5 DEF DrainInv
<1>4. QED
  BY <1>1, <1>3 DEF RecoveryInv

\* The generation of an admitted operation, and of a lookup that starts, is the current one.
LEMMA CurrentKept ==
  ASSUME TypeOK, [Next]_vars, generation' = generation
  PROVE  (OpsCurrent => OpsCurrent') /\ (ReadCurrent => ReadCurrent')
<1>1. Probe \notin Ops /\ Ops \subseteq All /\ op \in [All -> OpRecords]
  BY MirrorAssumption DEF All, TypeOK, OpsOK
<1>2. ASSUME \A o \in Ops : op'[o].task # "idle" =>
               (op[o].task # "idle" /\ op'[o].at = op[o].at) \/ op'[o].at = generation
      PROVE  OpsCurrent => OpsCurrent'
  BY <1>2 DEF OpsCurrent, Active
<1>3. ASSUME NEW x \in All, TaskActions(x) PROVE OpsCurrent => OpsCurrent'
  <2>1. PICK r : Moved(x, r) /\ op' = [op EXCEPT ![x] = r]
    BY <1>3, TaskMoves
  <2>2. \A y \in All : op'[y].task # "idle" => Active(y) /\ op'[y].at = op[y].at
    BY <2>1, MovedKeeps
  <2>3. QED
    BY <1>1, <1>2, <2>2 DEF Active
<1>4. ASSUME NEW o \in Ops, Admit(o) PROVE OpsCurrent => OpsCurrent'
  <2> DEFINE r == [NoOp EXCEPT !.task = "work", !.watch = "on", !.at = generation]
  <2>1. op' = [op EXCEPT ![o] = r] /\ r.at = generation
    BY <1>4 DEF Admit, Started, NoOp
  <2> HIDE DEF r
  <2>2. QED
    BY <1>1, <1>2, <2>1
<1>5. ASSUME NEW o \in Ops, Cancel(o) PROVE OpsCurrent => OpsCurrent'
  <2> DEFINE r == [op[o] EXCEPT !.cut = TRUE]
  <2>1. op' = [op EXCEPT ![o] = r]
    BY <1>1, <1>5 DEF Cancel
  <2>2. r.at = op[o].at /\ r.task = op[o].task
    BY <1>1, OpShape
  <2> HIDE DEF r
  <2>3. QED
    BY <1>1, <1>2, <2>1, <2>2
<1>6. ASSUME NEW r, op' = [op EXCEPT ![Probe] = r] PROVE OpsCurrent => OpsCurrent'
  <2>1. \A o \in Ops : op'[o] = op[o]
    BY <1>1, <1>6
  <2>2. QED
    BY <1>2, <2>1
<1>7. UNCHANGED op => (OpsCurrent => OpsCurrent')
  BY DEF OpsCurrent, Active
<1>8. FlightAdmit => (OpsCurrent => OpsCurrent')
  BY <1>6, <1>7 DEF FlightAdmit, Started
<1>9. ASSUME NEW pc, NEW good, ProbeGoes(pc, good) PROVE OpsCurrent => OpsCurrent'
  <2>1. \E r : op' = [op EXCEPT ![Probe] = r]
    BY <1>1, <1>9, AllNames DEF ProbeGoes
  <2>2. QED
    BY <1>6, <2>1
<1>10. ProbeStep => (OpsCurrent => OpsCurrent')
  BY <1>9 DEF ProbeStep, LoadGeneration, LoadHealthy, LoadActive, LoadLegs
<1>11. ASSUME NEW l \in Legs, NEW x \in All,
              JobStep(l, x) \/ LegProbe(l) \/ CloseLeg(l) \/ LegActions(l, x)
       PROVE  UNCHANGED <<op, read>>
  BY <1>11 DEF JobStep, LegBegins, LegEnds, LegProbe, LegProbes, LegProbeEnds, CloseLeg,
              LegActions, LegFails, LegGivesUp, LegCut
<1>12. ASSUME NEW c \in Callers, CallActions(c) PROVE UNCHANGED <<op, read>>
  BY <1>12 DEF CallActions, HealthJoin, HealthReturns, HealthLeaves
<1>13. FlightEnds \/ CloseActions \/ UNCHANGED vars => UNCHANGED <<op, read>>
  BY DEF FlightEnds, CloseActions, Close, CloseReturns, vars
<1>14. ReadActions => UNCHANGED op /\ (ReadCurrent => ReadCurrent')
  <2>1. ReadStarts => ReadCurrent'
    BY DEF ReadStarts, ReadCurrent
  <2>2. ReadEnds => ReadCurrent'
    BY DEF ReadEnds, ReadCurrent
  <2>3. ReadFails => (ReadCurrent => ReadCurrent')
    BY DEF ReadFails, ReadCurrent
  <2>4. ReadActions => UNCHANGED op
    BY DEF ReadActions, ReadStarts, ReadEnds, ReadFails
  <2>5. QED
    BY <2>1, <2>2, <2>3, <2>4 DEF ReadActions
<1>15. UNCHANGED read => (ReadCurrent => ReadCurrent')
  BY DEF ReadCurrent
<1>16. ASSUME NEW x \in All, TaskActions(x) PROVE UNCHANGED read
  BY <1>16 DEF TaskActions, TaskStep, WatchStep, FinishOk, FinishErr, TaskStores,
     DrainLeg, WatchCancels, WatchFails, WatchStores
<1>17. ASSUME NEW o \in Ops, OpActions(o) PROVE UNCHANGED read
  BY <1>17 DEF OpActions, Admit, Cancel
<1>18. FlightAdmit \/ ProbeStep => UNCHANGED read
  BY DEF FlightAdmit, ProbeStep, LoadGeneration, LoadHealthy, LoadActive, LoadLegs
<1>19. ASSUME NEW o \in Ops, OpActions(o) PROVE OpsCurrent => OpsCurrent'
  BY <1>4, <1>5, <1>19 DEF OpActions
<1>20. ASSUME UNCHANGED <<op, read>>
       PROVE  (OpsCurrent => OpsCurrent') /\ (ReadCurrent => ReadCurrent')
  BY <1>7, <1>15, <1>20
<1>21. ASSUME NEW l \in Legs,
              (\E o \in Ops : JobStep(l, o)) \/ LegProbe(l) \/ CloseLeg(l)
       PROVE  UNCHANGED <<op, read>>
  BY <1>1, <1>11, <1>21, AllNames
<1>22. QED
  BY <1>3, <1>8, <1>10, <1>11, <1>12, <1>13, <1>14, <1>15, <1>16, <1>17, <1>18, <1>19, <1>20, <1>21,
     <1>7, Zenon
     DEF Next, OpActions, TaskActions, LegActions, CallActions, ReadActions, CloseActions,
         FlightStep

\* What a step of the generation has to show, part by part.
LEMMA RecoveryParts ==
  ASSUME RecoveryInv, generation' = generation, torn => torn', FlightInv',
         OpsCurrent => OpsCurrent', ReadCurrent => ReadCurrent',
         DrainInv /\ healthy' /\ ~Locked' => OpsCurrent /\ ReadCurrent,
         DrainInv /\ ~torn' /\ op'[Probe].watch = "on" /\ flight'.gen = generation =>
           /\ SeenOps(op'[Probe].task) => OpsCurrent
           /\ SeenRead(op'[Probe].task) => ReadCurrent,
         DrainInv /\ flight'.ok /\ flight'.gen = generation => OpsCurrent /\ ReadCurrent,
         \A c \in Callers : DrainInv /\ caller'[c].ok /\ caller'[c].gen = generation =>
           OpsCurrent /\ ReadCurrent
  PROVE  RecoveryInv'
<1>1. ASSUME ~torn' PROVE DrainInv'
  <2>1. DrainInv
    BY <1>1 DEF RecoveryInv
  <2>2. (healthy /\ ~Locked => OpsCurrent /\ ReadCurrent)'
    BY <2>1
  <2>3. op'[Probe].watch = "on" /\ flight'.gen = generation' =>
          /\ SeenOps(op'[Probe].task) => OpsCurrent'
          /\ SeenRead(op'[Probe].task) => ReadCurrent'
    BY <1>1, <2>1
  <2>4. flight'.ok /\ flight'.gen = generation' => OpsCurrent' /\ ReadCurrent'
    BY <2>1
  <2>5. \A c \in Callers :
          caller'[c].ok /\ caller'[c].gen = generation' => OpsCurrent' /\ ReadCurrent'
    BY <2>1
  <2>6. QED
    BY <2>2, <2>3, <2>4, <2>5 DEF DrainInv
<1>2. QED
  BY <1>1 DEF RecoveryInv

\* The first store of failure(): every conclusion is of an earlier generation.
LEMMA RecoveryFails ==
  ASSUME TypeOK, RecoveryInv, generation' = generation + 1, Locked',
         UNCHANGED <<flight, caller, torn>>,
         op'[Probe].watch = "on" => op[Probe].watch = "on",
         op[Probe].task = "idle" => op'[Probe].task = "idle"
  PROVE  RecoveryInv'
<1>1. /\ generation \in Nat /\ flight.gen \in Nat /\ flight.gen <= generation
      /\ \A c \in Callers : caller[c].gen \in Nat /\ caller[c].gen <= generation
  BY DEF TypeOK, CountsOK, FlightsOK, FlightRecords, CallerRecords, RecoveryInv, FlightInv
<1>2. flight'.gen # generation' /\ flight'.gen <= generation'
  BY <1>1
<1>3. \A c \in Callers : caller'[c].gen # generation' /\ caller'[c].gen <= generation'
  BY <1>1
<1>4. FlightInv'
  BY <1>2, <1>3 DEF RecoveryInv, FlightInv
<1>5. DrainInv'
  BY <1>2, <1>3 DEF DrainInv
<1>6. QED
  BY <1>4, <1>5 DEF RecoveryInv

LEMMA RecoveryTask ==
  ASSUME TypeOK, RecoveryInv, [Next]_vars, NEW x \in All, TaskActions(x)
  PROVE  RecoveryInv'
<1>1. PICK r : Moved(x, r) /\ op' = [op EXCEPT ![x] = r]
  BY TaskMoves
<1>2. Locked => Locked' \/ ~healthy'
  BY <1>1, MovedKeeps
<1>3. /\ op'[Probe].watch = "on" => op[Probe].watch = "on"
      /\ op[Probe].task = "idle" => op'[Probe].task = "idle"
      /\ op'[Probe].task \in {op[Probe].task, "idle", "drain", "failing"}
  <2>1. CASE x = Probe
    <3>1. op'[Probe] = r
      BY <1>1, <2>1, OpStep
    <3>2. QED
      BY <1>1, <2>1, <3>1 DEF Moved, Active
  <2>2. CASE x # Probe
    <3>1. op'[Probe] = op[Probe]
      BY <1>1, <2>2, AllNames, OpStep
    <3>2. QED
      BY <3>1
  <2>3. QED
    BY <2>1, <2>2
<1>4. generation' = generation => (OpsCurrent => OpsCurrent') /\ (ReadCurrent => ReadCurrent')
  BY CurrentKept
<1>5. healthy' => healthy
  BY DEF TaskActions, TaskStep, WatchStep, FinishOk, FinishErr, TaskStores, DrainLeg,
         WatchCancels, WatchFails, WatchStores, shared
<1>6. UNCHANGED <<caller, torn>>
  BY DEF TaskActions, TaskStep, WatchStep, FinishOk, FinishErr, TaskStores, DrainLeg,
         WatchCancels, WatchFails, WatchStores, health
<1>7. ASSUME UNCHANGED <<generation, flight>> PROVE RecoveryInv'
  BY <1>2, <1>3, <1>4, <1>5, <1>6, <1>7, RecoveryQuiet
<1>8. ASSUME generation' = generation + 1, UNCHANGED flight, "failing" \in {op'[x].task, op'[x].watch}
      PROVE  RecoveryInv'
  <2>1. Locked'
    BY <1>8 DEF Locked
  <2>2. QED
    BY <1>3, <1>6, <1>8, <2>1, RecoveryFails
<1>9. ASSUME generation' = generation, x = Probe, op'[Probe].watch # "on",
             flight'.pc = "end", flight'.gen = flight.gen,
             \/ ~flight'.ok
             \/ flight'.ok = flight.ok
             \/ op[Probe].task = "work" /\ op[Probe].watch = "on" /\ op'[Probe].task = "idle"
      PROVE  RecoveryInv'
  <2>1. FlightInv'
    BY <1>3, <1>6, <1>9 DEF RecoveryInv, FlightInv
  <2>2. DrainInv /\ healthy' /\ ~Locked' => OpsCurrent /\ ReadCurrent
    BY <1>2, <1>5 DEF DrainInv
  <2>3. SeenOps("work") /\ SeenRead("work")
    BY Zenon DEF SeenOps, SeenRead
  <2>4. DrainInv /\ flight'.ok /\ flight'.gen = generation => OpsCurrent /\ ReadCurrent
    BY <1>9, <2>3 DEF DrainInv
  <2>5. \A c \in Callers : DrainInv /\ caller'[c].ok /\ caller'[c].gen = generation =>
           OpsCurrent /\ ReadCurrent
    BY <1>6 DEF DrainInv
  <2>6. QED
    BY <1>4, <1>6, <1>9, <2>1, <2>2, <2>4, <2>5, RecoveryParts
<1>10. op' = [op EXCEPT ![x] = Ended(x)] => op'[x].task = "idle" /\ op'[x].watch # "on"
  <2>1. op' = [op EXCEPT ![x] = Ended(x)] => op'[x] = Ended(x)
    BY DEF TypeOK, OpsOK
  <2>2. QED
    BY <2>1, EndedFacts
<1>11. flight \in FlightRecords
  BY DEF TypeOK, FlightsOK
<1>12. CASE FinishOk(x)
  <2>1. CASE x = Probe /\ op[x].watch = "on"
    <3>1. flight' = [flight EXCEPT !.pc = "end", !.ok = TRUE]
      BY <1>12, <2>1 DEF FinishOk, Reported
    <3>2. flight'.pc = "end" /\ flight'.gen = flight.gen
      BY <1>11, <3>1 DEF FlightRecords
    <3>3. op[Probe].task = "work" /\ generation' = generation
      BY <1>12, <2>1 DEF FinishOk, Answered, shared
    <3>4. op'[Probe].task = "idle" /\ op'[Probe].watch # "on"
      BY <1>10, <1>12, <2>1 DEF FinishOk
    <3>5. QED
      BY <1>9, <2>1, <3>2, <3>3, <3>4
  <2>2. CASE ~(x = Probe /\ op[x].watch = "on")
    BY <1>7, <1>12, <2>2 DEF FinishOk, Reported, shared
  <2>3. QED
    BY <2>1, <2>2
<1>13. CASE FinishErr(x)
  <2>1. CASE UNCHANGED generation
    BY <1>7, <1>13, <2>1 DEF FinishErr, health
  <2>2. CASE generation' # generation
    <3>1. op' = [op EXCEPT ![x].task = "failing"] /\ generation' = generation + 1 /\ UNCHANGED flight
      BY <1>13, <2>2 DEF FinishErr, health
    <3>2. op'[x].task = "failing"
      BY <3>1, OpShape DEF TypeOK, OpsOK
    <3>3. QED
      BY <1>8, <3>1, <3>2
  <2>3. QED
    BY <2>1, <2>2
<1>14. CASE TaskStores(x) \/ WatchCancels(x)
  BY <1>7, <1>14 DEF TaskStores, WatchCancels, health, shared
<1>15. CASE WatchFails(x)
  <2>1. op' = [op EXCEPT ![x].watch = "failing"] /\ generation' = generation + 1 /\ UNCHANGED flight
    BY <1>15 DEF WatchFails, health
  <2>2. op'[x].watch = "failing"
    BY <2>1, OpShape DEF TypeOK, OpsOK
  <2>3. QED
    BY <1>8, <2>1, <2>2
<1>16. CASE WatchStores(x)
  <2>1. CASE x = Probe
    <3>1. flight' = [flight EXCEPT !.pc = "end"] /\ generation' = generation
      BY <1>16, <2>1 DEF WatchStores
    <3>2. flight'.pc = "end" /\ flight'.gen = flight.gen /\ flight'.ok = flight.ok
      BY <1>11, <3>1 DEF FlightRecords
    <3>3. op[Probe].watch = "failing"
      BY <1>16, <2>1 DEF WatchStores
    <3>4. op'[Probe].watch # "on"
      BY <1>3, <3>3
    <3>5. QED
      BY <1>9, <2>1, <3>1, <3>2, <3>4
  <2>2. CASE x # Probe
    BY <1>7, <1>16, <2>2 DEF WatchStores
  <2>3. QED
    BY <2>1, <2>2
<1>17. CASE \E l \in Legs : DrainLeg(x, l)
  <2>1. PICK l \in Legs : DrainLeg(x, l)
    BY <1>17
  <2>2. generation' = generation
    BY <2>1 DEF DrainLeg, shared
  <2>3. CASE UNCHANGED flight
    BY <1>7, <2>2, <2>3
  <2>4. CASE flight' # flight
    <3>1. /\ op' = [op EXCEPT ![x] = Ended(x)] /\ x = Probe
          /\ flight' = [flight EXCEPT !.pc = "end", !.ok = FALSE]
      BY <2>1, <2>4 DEF DrainLeg, Reported
    <3>2. flight'.pc = "end" /\ flight'.gen = flight.gen
      BY <1>11, <3>1 DEF FlightRecords
    <3>3. flight'.ok = FALSE
      BY <1>11, <3>1 DEF FlightRecords
    <3>4. QED
      BY <1>9, <1>10, <2>2, <3>1, <3>2, <3>3
  <2>5. QED
    BY <2>3, <2>4
<1>18. QED
  BY <1>12, <1>13, <1>14, <1>15, <1>16, <1>17 DEF TaskActions, TaskStep, WatchStep

\* A load of the probe: what it goes on to has been looked at.
LEMMA RecoveryLoad ==
  ASSUME TypeOK, RecoveryInv, [Next]_vars, NEW pc, NEW good \in BOOLEAN, ProbeGoes(pc, good),
         op[Probe].task # "idle", op[Probe].task # "failing",
         UNCHANGED <<healthy, generation, caller>>, torn => torn',
         flight'.pc = flight.pc, flight'.ok = flight.ok, flight'.gen <= generation,
         good /\ DrainInv /\ ~torn' /\ op[Probe].watch = "on" /\ flight'.gen = generation =>
           (SeenOps(pc) => OpsCurrent) /\ (SeenRead(pc) => ReadCurrent)
  PROVE  RecoveryInv'
<1> DEFINE task == IF good THEN pc ELSE "drain"
           left == IF good THEN {} ELSE Legs
           r    == [op[Probe] EXCEPT !.task = task, !.left = left]
<1>1. op \in [All -> OpRecords] /\ op[Probe] \in OpRecords
  BY AllNames DEF TypeOK, OpsOK
<1>2. op' = [op EXCEPT ![Probe] = r]
  BY <1>1, AllNames DEF ProbeGoes
<1>3. task = (IF good THEN pc ELSE "drain")
  OBVIOUS
<1> HIDE DEF task, left
<1>4. r.task = task /\ r.watch = op[Probe].watch
  BY <1>1, OpShape
<1> HIDE DEF r
<1>5. op'[Probe] = r /\ \A y \in All \ {Probe} : op'[y] = op[y]
  BY <1>2, AllNames, OpStep
<1>6. Locked => Locked'
  <2>1. \A y \in All : "failing" \in {op[y].task, op[y].watch} =>
                          "failing" \in {op'[y].task, op'[y].watch}
    BY <1>4, <1>5
  <2>2. QED
    BY <2>1 DEF Locked
<1>7. FlightInv'
  BY <1>4, <1>5 DEF RecoveryInv, FlightInv
<1>8. DrainInv /\ healthy' /\ ~Locked' => OpsCurrent /\ ReadCurrent
  BY <1>6 DEF DrainInv
<1>9. DrainInv /\ ~torn' /\ op'[Probe].watch = "on" /\ flight'.gen = generation =>
        /\ SeenOps(op'[Probe].task) => OpsCurrent
        /\ SeenRead(op'[Probe].task) => ReadCurrent
  BY <1>3, <1>4, <1>5, SeenFacts
<1>10. ~flight'.ok
  BY DEF RecoveryInv, FlightInv
<1>11. \A c \in Callers : DrainInv /\ caller'[c].ok /\ caller'[c].gen = generation =>
         OpsCurrent /\ ReadCurrent
  BY DEF DrainInv
<1>12. (OpsCurrent => OpsCurrent') /\ (ReadCurrent => ReadCurrent')
  BY CurrentKept
<1>13. QED
  BY <1>7, <1>8, <1>9, <1>10, <1>11, <1>12, RecoveryParts

LEMMA LoadFacts ==
  /\ ~SeenOps("load healthy") /\ ~SeenRead("load healthy")
  /\ ~SeenOps("load active") /\ ~SeenRead("load active") /\ ~SeenRead("load primary")
  /\ SeenOps("load primary") /\ SeenOps("load mirror") /\ SeenRead("load mirror")
<1>1. /\ ~SeenOps("load healthy") /\ ~SeenRead("load healthy")
      /\ ~SeenOps("load active") /\ ~SeenRead("load active") /\ ~SeenRead("load primary")
  BY Zenon DEF SeenOps, SeenRead
<1>2. SeenOps("load primary") /\ SeenOps("load mirror") /\ SeenRead("load mirror")
  BY Zenon DEF SeenOps, SeenRead
<1>3. QED
  BY <1>1, <1>2, Zenon

\* The loads of the probe, in their order. LoadHealthy passes a healthy aggregate at once:
\* no thread is inside failure() then, or torn records it.
LEMMA RecoveryProbe ==
  ASSUME TypeOK, RecoveryInv, [Next]_vars, ProbeStep
  PROVE  RecoveryInv'
<1>1. flight \in FlightRecords /\ flight.gen <= generation /\ generation \in Nat
  BY DEF TypeOK, FlightsOK, CountsOK, RecoveryInv, FlightInv
<1>2. ASSUME NEW task \in {"load generation", "load healthy", "load active", "load primary",
                           "load mirror"}
      PROVE  task # "idle" /\ task # "failing"
  BY <1>2, Zenon
<1>3. CASE LoadGeneration
  <2>1. op[Probe].task # "idle" /\ op[Probe].task # "failing"
    BY <1>2, <1>3, Zenon DEF LoadGeneration
  <2>2. PICK pc : pc = "load healthy"
    OBVIOUS
  <2>3. ProbeGoes(pc, TRUE)
    BY <1>3, <2>2, Zenon DEF LoadGeneration
  <2>4. flight' = [flight EXCEPT !.gen = generation] /\ UNCHANGED <<healthy, generation, caller, torn>>
    BY <1>3, Zenon DEF LoadGeneration, shared
  <2>5. flight'.pc = flight.pc /\ flight'.ok = flight.ok /\ flight'.gen <= generation
    BY <1>1, <2>4 DEF FlightRecords
  <2>6. ~SeenOps(pc) /\ ~SeenRead(pc)
    BY <2>2, LoadFacts, Zenon
  <2>7. TRUE \in BOOLEAN
    OBVIOUS
  <2>8. QED
    BY <2>1, <2>3, <2>4, <2>5, <2>6, <2>7, RecoveryLoad
<1>4. CASE LoadHealthy
  <2>1. op[Probe].task # "idle" /\ op[Probe].task # "failing"
    BY <1>2, <1>4, Zenon DEF LoadHealthy
  <2>2. PICK pc : pc = IF healthy THEN "work" ELSE "load active"
    BY Zenon
  <2>3. ProbeGoes(pc, TRUE)
    BY <1>4, <2>2, Zenon DEF LoadHealthy
  <2>4. UNCHANGED <<healthy, generation, caller, flight>>
    BY <1>4, Zenon DEF LoadHealthy, shared
  <2>5. torn' = (torn \/ (healthy /\ Locked /\ flight.gen = generation))
    BY <1>4, Zenon DEF LoadHealthy
  <2>6. ~healthy => ~SeenOps(pc) /\ ~SeenRead(pc)
    BY <2>2, LoadFacts, Zenon
  <2>7. DrainInv /\ ~torn' /\ flight'.gen = generation =>
          (SeenOps(pc) => OpsCurrent) /\ (SeenRead(pc) => ReadCurrent)
    BY <2>4, <2>5, <2>6 DEF DrainInv
  <2>8. TRUE \in BOOLEAN /\ flight'.pc = flight.pc /\ flight'.ok = flight.ok
    BY <2>4
  <2>9. (torn => torn') /\ flight'.gen <= generation
    BY <1>1, <2>4, <2>5
  <2>10. QED
    BY <2>1, <2>3, <2>4, <2>7, <2>8, <2>9, RecoveryLoad
<1>5. ASSUME NEW pc, NEW good \in BOOLEAN, ProbeGoes(pc, good),
             op[Probe].task # "idle", op[Probe].task # "failing", UNCHANGED <<shared, health>>,
             good /\ DrainInv /\ op[Probe].watch = "on" /\ flight.gen = generation =>
               (SeenOps(pc) => OpsCurrent) /\ (SeenRead(pc) => ReadCurrent)
      PROVE  RecoveryInv'
  <2>1. UNCHANGED <<healthy, generation, caller, flight, torn>>
    BY <1>5 DEF shared, health
  <2>2. flight'.pc = flight.pc /\ flight'.ok = flight.ok /\ flight'.gen <= generation
    BY <1>1, <2>1
  <2>3. good /\ DrainInv /\ ~torn' /\ op[Probe].watch = "on" /\ flight'.gen = generation =>
          (SeenOps(pc) => OpsCurrent) /\ (SeenRead(pc) => ReadCurrent)
    BY <1>5, <2>1
  <2>4. QED
    BY <1>5, <2>1, <2>2, <2>3, RecoveryLoad
<1>6. CASE LoadActive
  <2>1. op[Probe].task # "idle" /\ op[Probe].task # "failing"
    BY <1>2, <1>6, Zenon DEF LoadActive
  <2>2. PICK pc : pc = "load primary"
    OBVIOUS
  <2>3. PICK good \in BOOLEAN : good <=> \A o \in Ops : ~Active(o)
    BY Zenon
  <2>4. ProbeGoes(pc, \A o \in Ops : ~Active(o)) /\ UNCHANGED <<shared, health>>
    BY <1>6, <2>2, Zenon DEF LoadActive
  <2>5. ProbeGoes(pc, good)
    BY <2>3, <2>4, Zenon DEF ProbeGoes
  <2>6. ~SeenRead(pc)
    BY <2>2, LoadFacts, Zenon
  <2>7. good => OpsCurrent
    BY <2>3 DEF OpsCurrent
  <2>8. QED
    BY <1>5, <2>1, <2>4, <2>5, <2>6, <2>7
<1>7. ASSUME op[Probe].task = "load primary", ProbeGoes("load mirror", LegIdle("primary")),
             UNCHANGED <<shared, health>>
      PROVE  RecoveryInv'
  <2>1. op[Probe].task # "idle" /\ op[Probe].task # "failing"
    BY <1>2, <1>7, Zenon
  <2>2. PICK pc : pc = "load mirror"
    OBVIOUS
  <2>3. PICK good \in BOOLEAN : good <=> LegIdle("primary")
    BY Zenon
  <2>4. ProbeGoes(pc, good)
    BY <1>7, <2>2, <2>3, Zenon DEF ProbeGoes
  <2>5. SeenOps(op[Probe].task)
    BY <1>7, LoadFacts, Zenon
  <2>6. good => ReadCurrent
    BY <2>3 DEF ReadCurrent, LegIdle
  <2>7. DrainInv /\ op[Probe].watch = "on" /\ flight.gen = generation => OpsCurrent
    BY <2>5 DEF DrainInv
  <2>8. UNCHANGED <<shared, health>>
    BY <1>7, Zenon
  <2>9. QED
    BY <1>5, <2>1, <2>4, <2>6, <2>7, <2>8
<1>8. ASSUME op[Probe].task = "load mirror", ProbeGoes("work", LegIdle("mirror")),
             UNCHANGED <<shared, health>>
      PROVE  RecoveryInv'
  <2>1. op[Probe].task # "idle" /\ op[Probe].task # "failing"
    BY <1>2, <1>8, Zenon
  <2>2. PICK good \in BOOLEAN : good <=> LegIdle("mirror")
    BY Zenon
  <2>3. PICK pc : pc = "work"
    OBVIOUS
  <2>4. ProbeGoes(pc, good)
    BY <1>8, <2>2, <2>3, Zenon DEF ProbeGoes
  <2>5. SeenOps(op[Probe].task) /\ SeenRead(op[Probe].task)
    BY <1>8, LoadFacts, Zenon
  <2>6. DrainInv /\ op[Probe].watch = "on" /\ flight.gen = generation => OpsCurrent /\ ReadCurrent
    BY <2>5 DEF DrainInv
  <2>7. UNCHANGED <<shared, health>>
    BY <1>8, Zenon
  <2>8. QED
    BY <1>5, <2>1, <2>4, <2>6, <2>7
<1>9. CASE LoadLegs
  BY <1>7, <1>8, <1>9, Zenon DEF LoadLegs
<1>10. QED
  BY <1>3, <1>4, <1>6, <1>9 DEF ProbeStep

\* A step that leaves the operations' records, the generation and torn alone.
LEMMA RecoveryIdle ==
  ASSUME TypeOK, RecoveryInv, [Next]_vars, UNCHANGED <<op, generation, torn, flight, caller>>,
         healthy' => healthy
  PROVE  RecoveryInv'
<1>1. (OpsCurrent => OpsCurrent') /\ (ReadCurrent => ReadCurrent')
  BY CurrentKept
<1>2. Locked => Locked'
  BY DEF Locked
<1>3. /\ op'[Probe].watch = "on" => op[Probe].watch = "on"
      /\ op[Probe].task = "idle" => op'[Probe].task = "idle"
      /\ op'[Probe].task \in {op[Probe].task, "idle", "drain", "failing"}
  OBVIOUS
<1>4. QED
  BY <1>1, <1>2, <1>3, RecoveryQuiet

\* The flight begins, ends, and what it found goes to the callers that wait for it.
LEMMA RecoveryFlight ==
  ASSUME TypeOK, RecoveryInv, [Next]_vars, FlightStep
  PROVE  RecoveryInv'
<1>1. flight \in FlightRecords /\ flight.gen <= generation /\ generation \in Nat
  BY DEF TypeOK, FlightsOK, CountsOK, RecoveryInv, FlightInv
<1>2. UNCHANGED <<healthy, generation, torn>>
  BY Zenon DEF FlightStep, FlightAdmit, FlightEnds, shared
<1>3. (OpsCurrent => OpsCurrent') /\ (ReadCurrent => ReadCurrent')
  BY <1>2, CurrentKept
<1>4. CASE FlightAdmit
  <2>1. flight.pc = "admit" /\ ~Locked /\ UNCHANGED caller
    BY <1>4, Zenon DEF FlightAdmit
  <2>2. ~flight.ok /\ op[Probe].watch # "on"
    BY <2>1 DEF RecoveryInv, FlightInv
  <2>3. ASSUME NEW pc \in {"end", "probe"}, flight' = [flight EXCEPT !.pc = pc]
        PROVE  flight'.pc = pc /\ flight'.gen = flight.gen /\ flight'.ok = flight.ok
    BY <1>1, <2>3 DEF FlightRecords
  <2>4. DrainInv /\ healthy' /\ ~Locked' => OpsCurrent /\ ReadCurrent
    BY <1>2, <2>1 DEF DrainInv
  <2>5. \A c \in Callers : DrainInv /\ caller'[c].ok /\ caller'[c].gen = generation =>
          OpsCurrent /\ ReadCurrent
    BY <2>1 DEF DrainInv
  <2>6. ASSUME flight'.gen = flight.gen, flight'.ok = flight.ok,
               op'[Probe].watch = "on" => flight'.pc = "probe",
               ~SeenOps(op'[Probe].task) \/ op'[Probe].watch # "on",
               ~SeenRead(op'[Probe].task) \/ op'[Probe].watch # "on"
        PROVE  RecoveryInv'
    <3>1. FlightInv'
      BY <1>1, <1>2, <2>1, <2>2, <2>6 DEF RecoveryInv, FlightInv
    <3>2. ~flight'.ok
      BY <2>2, <2>6
    <3>3. QED
      BY <1>2, <1>3, <2>4, <2>5, <2>6, <3>1, <3>2, RecoveryParts
  <2>7. CASE closed \/ Active(Probe)
    <3>1. flight' = [flight EXCEPT !.pc = "end"] /\ UNCHANGED op
      BY <1>4, <2>7, Zenon DEF FlightAdmit
    <3>2. flight'.gen = flight.gen /\ flight'.ok = flight.ok
      BY <2>3, <3>1
    <3>3. QED
      BY <2>2, <2>6, <3>1, <3>2
  <2>8. CASE ~(closed \/ Active(Probe))
    <3>1. flight' = [flight EXCEPT !.pc = "probe"] /\ Started(Probe, "load generation")
      BY <1>4, <2>8, Zenon DEF FlightAdmit
    <3>2. flight'.gen = flight.gen /\ flight'.ok = flight.ok /\ flight'.pc = "probe"
      BY <2>3, <3>1
    <3>3. PICK pc : pc = "load generation"
      OBVIOUS
    <3>4. op' = [op EXCEPT ![Probe] = [NoOp EXCEPT !.task = pc, !.watch = "on", !.at = generation]]
      BY <3>1, <3>3, Zenon DEF Started
    <3>5. op'[Probe].task = pc
      BY <3>4, AllNames DEF TypeOK, OpsOK, NoOp
    <3>6. ~SeenOps(pc) /\ ~SeenRead(pc)
      BY <3>3, Zenon DEF SeenOps, SeenRead
    <3>7. QED
      BY <2>6, <3>2, <3>5, <3>6
  <2>9. QED
    BY <2>7, <2>8
<1>5. CASE FlightEnds
  <2>1. flight.pc = "end" /\ flight' = NoFlight /\ UNCHANGED op
    BY <1>5, Zenon DEF FlightEnds
  <2>2. \A c \in Callers :
          \/ caller'[c] = caller[c]
          \/ caller'[c] = [pc |-> "decide", gen |-> flight.gen, ok |-> flight.ok]
    BY <1>5 DEF FlightEnds
  <2>3. \A c \in Callers :
          \/ caller'[c] = caller[c]
          \/ caller'[c].gen = flight.gen /\ caller'[c].ok = flight.ok
    BY <2>2
  <2>4. ~flight'.ok /\ flight'.gen = 0
    BY <2>1 DEF NoFlight
  <2>5. FlightInv'
    BY <1>1, <1>2, <2>1, <2>3, <2>4 DEF RecoveryInv, FlightInv
  <2>6. Locked' = Locked
    BY <2>1 DEF Locked
  <2>7. DrainInv /\ healthy' /\ ~Locked' => OpsCurrent /\ ReadCurrent
    BY <1>2, <2>6 DEF DrainInv
  <2>8. op'[Probe].watch # "on"
    BY <2>1 DEF RecoveryInv, FlightInv
  <2>9. \A c \in Callers : DrainInv /\ caller'[c].ok /\ caller'[c].gen = generation =>
          OpsCurrent /\ ReadCurrent
    BY <2>3 DEF DrainInv
  <2>10. QED
    BY <1>2, <1>3, <2>4, <2>5, <2>7, <2>8, <2>9, RecoveryParts
<1>6. QED
  BY <1>4, <1>5 DEF FlightStep

\* A caller joins a flight, leaves, or decides: outside failure(), and it reopens the
\* aggregate only in the generation that its flight has looked at.
LEMMA RecoveryCalls ==
  ASSUME TypeOK, RecoveryInv, [Next]_vars, NEW c \in Callers, CallActions(c)
  PROVE  RecoveryInv'
<1>1. flight \in FlightRecords /\ flight.gen <= generation /\ generation \in Nat
  BY DEF TypeOK, FlightsOK, CountsOK, RecoveryInv, FlightInv
<1>2. UNCHANGED <<op, generation, torn>>
  BY Zenon DEF CallActions, HealthJoin, HealthReturns, HealthLeaves, shared
<1>3. (OpsCurrent => OpsCurrent') /\ (ReadCurrent => ReadCurrent')
  BY <1>2, CurrentKept
<1>4. Locked' = Locked
  BY <1>2 DEF Locked
<1>5. caller \in [Callers -> CallerRecords]
  BY DEF TypeOK, FlightsOK
<1>6. \A d \in Callers : caller'[d] = caller[d] \/ (~caller'[d].ok /\ caller'[d].gen = 0)
  <2>1. \/ caller' = [caller EXCEPT ![c] = [NoCaller EXCEPT !.pc = "wait"]]
        \/ caller' = [caller EXCEPT ![c] = NoCaller]
    BY Zenon DEF CallActions, HealthJoin, HealthReturns, HealthLeaves
  <2>2. QED
    BY <1>5, <2>1 DEF NoCaller
<1>7. /\ flight'.gen <= generation
      /\ flight' = flight \/ (flight.pc = "none" /\ ~flight'.ok)
  <2>1. flight' = flight \/ (flight.pc = "none" /\ flight' = [NoFlight EXCEPT !.pc = "admit"])
    BY Zenon DEF CallActions, HealthJoin, HealthReturns, HealthLeaves
  <2>2. QED
    BY <1>1, <2>1 DEF NoFlight
<1>8. FlightInv'
  BY <1>1, <1>2, <1>6, <1>7 DEF RecoveryInv, FlightInv
<1>9. DrainInv /\ healthy' /\ ~Locked' => OpsCurrent /\ ReadCurrent
  <2>1. healthy' => \/ healthy
                    \/ Confirmed(c)
    BY Zenon DEF CallActions, HealthJoin, HealthReturns, HealthLeaves, shared
  <2>2. Confirmed(c) => caller[c].ok /\ caller[c].gen = generation
    BY DEF Confirmed
  <2>3. QED
    BY <1>4, <2>1, <2>2 DEF DrainInv
<1>10. DrainInv /\ ~torn' /\ op'[Probe].watch = "on" /\ flight'.gen = generation =>
         /\ SeenOps(op'[Probe].task) => OpsCurrent
         /\ SeenRead(op'[Probe].task) => ReadCurrent
  BY <1>2, <1>7 DEF DrainInv, RecoveryInv, FlightInv
<1>11. DrainInv /\ flight'.ok /\ flight'.gen = generation => OpsCurrent /\ ReadCurrent
  BY <1>7 DEF DrainInv
<1>12. \A d \in Callers : DrainInv /\ caller'[d].ok /\ caller'[d].gen = generation =>
         OpsCurrent /\ ReadCurrent
  BY <1>6 DEF DrainInv
<1>13. QED
  BY <1>2, <1>3, <1>8, <1>9, <1>10, <1>11, <1>12, RecoveryParts

\* Admission and cancellation, of ordinary operations.
LEMMA RecoveryOps ==
  ASSUME TypeOK, RecoveryInv, [Next]_vars, NEW o \in Ops, OpActions(o)
  PROVE  RecoveryInv'
<1>1. o \in All /\ o # Probe /\ Probe \in All
  BY AllNames, MirrorAssumption
<1>2. op \in [All -> OpRecords] /\ op[o] \in OpRecords
  BY <1>1 DEF TypeOK, OpsOK
<1>3. UNCHANGED <<healthy, generation, torn, flight, caller>>
  BY DEF OpActions, Admit, Cancel, shared, health
<1>4. (OpsCurrent => OpsCurrent') /\ (ReadCurrent => ReadCurrent')
  BY <1>3, CurrentKept
<1>5. ASSUME NEW r, op' = [op EXCEPT ![o] = r], Locked => Locked' PROVE RecoveryInv'
  <2>1. op'[Probe] = op[Probe]
    BY <1>1, <1>2, <1>5
  <2>2. /\ op'[Probe].watch = "on" => op[Probe].watch = "on"
        /\ op[Probe].task = "idle" => op'[Probe].task = "idle"
        /\ op'[Probe].task \in {op[Probe].task, "idle", "drain", "failing"}
    BY <2>1
  <2>3. QED
    BY <1>3, <1>4, <1>5, <2>2, RecoveryQuiet
<1>6. CASE Admit(o)
  <2>1. ~Locked /\ \E r : op' = [op EXCEPT ![o] = r]
    BY <1>6, Zenon DEF Admit, Started
  <2>2. QED
    BY <1>5, <2>1
<1>7. CASE Cancel(o)
  <2> DEFINE r == [op[o] EXCEPT !.cut = TRUE]
  <2>1. op' = [op EXCEPT ![o] = r]
    BY <1>2, <1>7 DEF Cancel
  <2>2. r.task = op[o].task /\ r.watch = op[o].watch
    BY <1>2, OpShape
  <2> HIDE DEF r
  <2>3. \A y \in All : op'[y].task = op[y].task /\ op'[y].watch = op[y].watch
    BY <1>2, <2>1, <2>2
  <2>4. Locked => Locked'
    BY <2>3 DEF Locked
  <2>5. QED
    BY <1>5, <2>1, <2>4
<1>8. QED
  BY <1>6, <1>7 DEF OpActions

\* An aggregate that admits work has outlived every operation and every lookup of an
\* earlier failure generation, unless a probe read the healthy flag between the two stores
\* of failure(): health() and the probe it awaits let no other way around the drainage.
THEOREM RecoveryIsDrained == Spec => []DrainedUnlessTorn
<1>1. Init => RecoveryInv
  <2> SUFFICES ASSUME Init PROVE RecoveryInv
    OBVIOUS
  <2>1. \A x \in All : op[x] = NoOp
    BY DEF Init
  <2>2. \A x \in All : ~Active(x) /\ op[x].watch = "off"
    BY <2>1 DEF Active, NoOp
  <2>3. OpsCurrent /\ ReadCurrent
    BY <2>2, AllNames DEF OpsCurrent, ReadCurrent, Init
  <2>4. flight = NoFlight /\ generation = 0 /\ \A c \in Callers : caller[c] = NoCaller
    BY DEF Init
  <2>5. ~flight.ok /\ flight.gen = 0 /\ \A c \in Callers : caller[c].gen = 0
    BY <2>4 DEF NoFlight, NoCaller
  <2>6. FlightInv
    BY <2>2, <2>4, <2>5, AllNames DEF FlightInv
  <2>7. QED
    BY <2>3, <2>6 DEF RecoveryInv, DrainInv
<1>2. TypeOK /\ RecoveryInv /\ [Next]_vars => RecoveryInv'
  <2> SUFFICES ASSUME TypeOK, RecoveryInv, [Next]_vars PROVE RecoveryInv'
    OBVIOUS
  <2>1. ASSUME NEW l \in Legs, NEW x \in All,
               JobStep(l, x) \/ LegProbe(l) \/ CloseLeg(l) \/ LegActions(l, x)
        PROVE  RecoveryInv'
    <3>1. UNCHANGED <<op, generation, torn, flight, caller, healthy>>
      BY <2>1 DEF JobStep, LegBegins, LegEnds, LegProbe, LegProbes, LegProbeEnds, CloseLeg,
                  LegActions, LegFails, LegGivesUp, LegCut, shared, health
    <3>2. QED
      BY <3>1, RecoveryIdle
  <2>2. CASE ReadActions \/ CloseActions \/ UNCHANGED vars
    <3>1. UNCHANGED <<op, generation, torn, flight, caller>> /\ (healthy' => healthy)
      BY <2>2 DEF ReadActions, ReadStarts, ReadEnds, ReadFails, CloseActions, Close,
                  CloseReturns, shared, health, vars
    <3>2. QED
      BY <3>1, RecoveryIdle
  <2>3. ASSUME NEW l \in Legs, (\E o \in Ops : JobStep(l, o)) \/ LegProbe(l) \/ CloseLeg(l)
        PROVE  RecoveryInv'
    BY <2>1, <2>3, AllNames
  <2>4. ASSUME NEW l \in Legs, NEW x \in All, LegActions(l, x) PROVE RecoveryInv'
    BY <2>1, <2>4
  <2>5. QED
    BY <2>2, <2>3, <2>4, RecoveryTask, RecoveryProbe, RecoveryFlight, RecoveryCalls, RecoveryOps,
       Zenon
       DEF Next, OpActions, TaskActions, LegActions, CallActions, ReadActions, CloseActions
<1>3. RecoveryInv => DrainedUnlessTorn
  BY DEF RecoveryInv, DrainInv, OpsCurrent, ReadCurrent, DrainedUnlessTorn, RecoveryDrained
<1>4. QED
  BY <1>1, <1>2, <1>3, MirrorTypeCorrect, PTL DEF Spec

=============================================================================
