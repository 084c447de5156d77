------------------------ MODULE CorpusSearch_proofs ------------------------
(***************************************************************************)
(* For any objects, revisions, directories, searches and budgets: the      *)
(* acknowledged events are in a complete index that can be served, every   *)
(* index is exactly its generation's prefix of the outbox, and a           *)
(* withdrawal is final for searches and citation leases.                   *)
(***************************************************************************)
EXTENDS CorpusSearch, TLAPS

Event == [obj : Objects, rev : Revs \cup {None}, head : BOOLEAN, withdrawn : BOOLEAN]
Index == [gen : Nat, complete : BOOLEAN, docs : SUBSET Documents, made : BOOLEAN]
Serving == [up : {TRUE}, dir : Dirs, pc : {"ack", "next", "apply"}, pend : Nat \cup {None}]
Rebuilding == [pc : {"batch", "replay", "finish", "ack"}, dir : Dirs, target : Nat, upto : Nat]
Budget == [events : 0..MaxOutbox, faults : Nat, searches : Nat,
           of : SUBSET (Objects \X Revs \X BOOLEAN)]

\* The types of the outbox, of the indexes and of the processes that write them.
IndexTypes ==
    /\ outbox \in Seq(Event) /\ ack \in Nat
    /\ dirs \in [Dirs -> Index]
    /\ holder \in {None, "server", "rebuild"}
    /\ server \in Serving \cup {Down}
    /\ rebuild \in Rebuilding \cup {NoRebuild}
    /\ left \in Budget /\ Watermark + left.events <= MaxOutbox

\* Only a withdrawal has no revision.
RevisionsOK == \A i \in 1..Watermark : ~outbox[i].withdrawn => outbox[i].rev \in Revs

\* No index is ahead of the outbox, and one that was never made holds nothing.
DirsOK ==
    \A d \in Dirs : dirs[d].gen <= Watermark /\ (~dirs[d].made => dirs[d] = Absent)

\* The serving index is complete; what the process will acknowledge is in it, and the
\* event it will apply has been written.
ServerOK ==
    server # Down =>
        /\ dirs[server.dir].complete
        /\ server.pend # None => server.pend <= dirs[server.dir].gen
        /\ server.pc = "apply" => dirs[server.dir].gen < Watermark

\* A rebuild works on an index that no process can serve, until it is complete up to
\* the target; only then it acknowledges the target.
RebuildOK ==
    rebuild # NoRebuild =>
        /\ rebuild.target <= Watermark /\ dirs[rebuild.dir].made
        /\ rebuild.pc # "ack" => ~dirs[rebuild.dir].complete
        /\ rebuild.pc = "batch" => dirs[rebuild.dir].gen <= rebuild.target
        /\ rebuild.pc = "replay" =>
              dirs[rebuild.dir].gen < rebuild.upto /\ rebuild.upto <= rebuild.target
        /\ rebuild.pc = "finish" => dirs[rebuild.dir].gen = rebuild.target
        /\ rebuild.pc = "ack" =>
              dirs[rebuild.dir].complete /\ dirs[rebuild.dir].gen >= rebuild.target

IndexInv ==
    /\ IndexTypes /\ RevisionsOK /\ DirsOK /\ ServerOK /\ RebuildOK
    /\ ack <= Watermark /\ AckDurable

------------------------------------------------------------------------------

\* Only withdrawals follow the withdrawal of an object.
OutboxOK ==
    \A i, j \in 1..Watermark :
        i < j /\ outbox[i].withdrawn /\ outbox[i].obj = outbox[j].obj => outbox[j].withdrawn

\* A document is of the capture it names.
DocsOK ==
    \A d \in Dirs : \A x \in dirs[d].docs :
        /\ x.cap \in 1..dirs[d].gen
        /\ ~outbox[x.cap].withdrawn
        /\ outbox[x.cap].obj = x.obj /\ outbox[x.cap].rev = x.rev

DocsInv == OutboxOK /\ DocsOK /\ IndexReplaysOutbox

------------------------------------------------------------------------------

CallStates == {"idle", "pin", "scan", "recheck", "resolve", "lease", "confirm", "page"}
CallRecords ==
    [pc : CallStates, sess : Sessions \cup {None}, fresh : BOOLEAN, citable : BOOLEAN, gen : Nat,
     docs : SUBSET Documents, hits : SUBSET Objects, seen : Nat]
Snapshots == [gen : Nat, docs : SUBSET Documents]

SearchTypes ==
    /\ pins \subseteq Sessions /\ leases \subseteq Objects
    /\ sessions \in [Sessions -> Snapshots \cup {None}]
    /\ calls \in [Calls -> CallRecords]
    /\ \A c \in Calls : calls[c].pc \notin {"idle", "page"} => calls[c].sess \in Sessions

Unrevoked(events, gen, n) == \A i \in (gen + 1)..n : ~events[i].withdrawn

\* A new session belongs to one call until it is pinned.
PinOK ==
    \A c \in Calls : calls[c].pc = "pin" =>
        /\ sessions[calls[c].sess] = None
        /\ \A b \in Calls \ {c} : calls[b].sess # calls[c].sess

\* While its pin stands, nothing was withdrawn after a session's snapshot; and nothing
\* had been when the session was checked for the last time.
SnapshotsOK ==
    /\ \A s \in pins : sessions[s] # None => Unrevoked(outbox, sessions[s].gen, Watermark)
    /\ \A c \in Calls : calls[c].pc \notin {"idle", "page", "pin"} /\ calls[c].sess \in pins =>
          Unrevoked(outbox, calls[c].gen, Watermark)
    /\ \A c \in Calls : calls[c].pc \in {"resolve", "lease", "confirm"} =>
          calls[c].seen <= Watermark /\ Unrevoked(outbox, calls[c].gen, calls[c].seen)

LeasesOK == \A o \in leases : ~Withdrawn(o)

SearchInv == SearchTypes /\ PinOK /\ SnapshotsOK /\ LeasesOK

------------------------------------------------------------------------------
(* The outbox only grows.                                                   *)

LEMMA EventFacts ==
    /\ \A o \in Objects, r \in Revs, head \in BOOLEAN :
          /\ Capture(o, r, head) \in Event /\ ~Capture(o, r, head).withdrawn
          /\ Capture(o, r, head).rev = r /\ Capture(o, r, head).obj = o
    /\ \A o \in Objects :
          /\ Withdrawal(o) \in Event /\ Withdrawal(o).withdrawn /\ Withdrawal(o).obj = o
BY DEF Capture, Withdrawal, Event

LEMMA OutboxGrows ==
    ASSUME outbox \in Seq(Event), NEW e \in Event, outbox' = Append(outbox, e)
    PROVE  /\ Watermark \in Nat /\ Watermark' = Watermark + 1 /\ outbox' \in Seq(Event)
           /\ \A i \in 1..Watermark : outbox'[i] = outbox[i] /\ outbox[i] \in Event
           /\ outbox'[Watermark + 1] = e
BY DEF Watermark

\* A step leaves the outbox alone, or is the publication or withdrawal it appends.
LEMMA OutboxStep ==
    ASSUME [Next]_vars
    PROVE  \/ outbox' = outbox
           \/ \E o \in Objects, r \in Revs, head \in BOOLEAN : Publish(o, r, head)
           \/ \E o \in Objects : Withdraw(o)
<1>1. ASSUME NEW c \in Calls, CallStep(c) PROVE outbox' = outbox
  BY <1>1 DEF CallStep, PinSession, Scan, Recheck, Resolve, RenewLeases, Confirm, Fail, database
<1>2. ASSUME NEW c \in Calls, NEW s \in Sessions PROVE Continue(c, s) => outbox' = outbox
  BY DEF Continue, database
<1>3. ASSUME NEW c \in Calls, NEW s \in Sessions, NEW citable \in BOOLEAN
      PROVE  Search(c, s, citable) => outbox' = outbox
  BY DEF Search, database
<1>4. ASSUME NEW d \in Dirs, Serve(d) \/ OpenRefused(d) \/ RebuildStart(d) PROVE outbox' = outbox
  BY <1>4 DEF Serve, OpenRefused, RebuildStart, database
<1>5. ServerStep \/ Crash \/ LoseLease => outbox' = outbox
  BY DEF ServerStep, AcknowledgeIndex, AcknowledgeConflict, NextEvent, ApplyIndexEvent,
         LeaseGone, Crash, LoseLease, Exit, database
<1>6. RebuildStep \/ RebuildDies => outbox' = outbox
  BY DEF RebuildStep, RebuildBatch, RebuildApply, RebuildVerify, RebuildRefused, FinishRebuild,
         RebuildAcknowledge, RebuildDies, database
<1>7. (\E s \in Sessions : Expire(s)) \/ (\E L \in SUBSET leases : Maintain(L))
        => outbox' = outbox
  BY DEF Expire, Maintain
<1>8. UNCHANGED vars => outbox' = outbox
  BY DEF vars
<1> QED BY <1>1, <1>2, <1>3, <1>4, <1>5, <1>6, <1>7, <1>8 DEF Next, Events

LEMMA OutboxPrefix ==
    ASSUME outbox \in Seq(Event), [Next]_vars
    PROVE  /\ Watermark \in Nat /\ Watermark' \in Nat /\ Watermark <= Watermark'
           /\ Watermark' <= Watermark + 1
           /\ outbox' \in Seq(Event)
           /\ \A i \in 1..Watermark : outbox'[i] = outbox[i] /\ outbox[i] \in Event
<1>1. CASE outbox' = outbox
  BY <1>1 DEF Watermark
<1>2. ASSUME NEW o \in Objects, NEW r \in Revs, NEW head \in BOOLEAN, Publish(o, r, head)
      PROVE  \E e \in Event : outbox' = Append(outbox, e)
  BY <1>2, EventFacts DEF Publish
<1>3. ASSUME NEW o \in Objects, Withdraw(o)
      PROVE  \E e \in Event : outbox' = Append(outbox, e)
  BY <1>3, EventFacts DEF Withdraw
<1>4. ASSUME NEW e \in Event, outbox' = Append(outbox, e)
      PROVE  /\ Watermark \in Nat /\ Watermark' = Watermark + 1 /\ outbox' \in Seq(Event)
             /\ \A i \in 1..Watermark : outbox'[i] = outbox[i] /\ outbox[i] \in Event
  BY <1>4, OutboxGrows
<1> QED BY <1>1, <1>2, <1>3, <1>4, OutboxStep

------------------------------------------------------------------------------
(* The indexes and the two processes.                                       *)

LEMMA DownFacts ==
    /\ Down \notin Serving /\ NoRebuild \notin Rebuilding
    /\ ~Down.up /\ NoRebuild.pc = "none"
    /\ \A p \in Serving : p.up /\ p # Down
    /\ \A p \in Rebuilding : p.pc # "none" /\ p # NoRebuild
<1>1. Down.pc = "down" /\ NoRebuild.pc = "none"
  BY DEF Down, NoRebuild
<1>2. Down.up = FALSE
  BY DEF Down
<1>3. \A p \in Serving : p.up = TRUE /\ p.pc # "down"
  BY DEF Serving
<1>4. \A p \in Rebuilding : p.pc # "none"
  BY DEF Rebuilding
<1> QED BY <1>1, <1>2, <1>3, <1>4

LEMMA IndexFacts ==
    /\ Absent \in Index /\ Fresh \in Index /\ Created \in Index
    /\ ~Absent.complete /\ ~Absent.made /\ Absent.gen = 0
    /\ ~Fresh.complete /\ Fresh.made /\ Fresh.gen = 0 /\ Fresh.docs = {}
    /\ Created.complete /\ Created.made /\ Created.gen = 0 /\ Created.docs = {}
BY DEF Absent, Fresh, Created, Index

\* One event applied: the generation moves by one, and nothing else but the documents.
LEMMA AppliedFacts ==
    ASSUME IndexTypes, RevisionsOK, NEW d \in Dirs, dirs[d].gen < Watermark
    PROVE  /\ Applied(d) \in Index
           /\ Applied(d).gen = dirs[d].gen + 1
           /\ Applied(d).complete = dirs[d].complete /\ Applied(d).made = dirs[d].made
<1> DEFINE n == dirs[d].gen + 1
           e == outbox[n]
           new == [obj |-> e.obj, rev |-> e.rev, cap |-> n,
                   cur |-> e.head \/ \E x \in dirs[d].docs : x.cap = n /\ x.cur]
           docs == IF e.withdrawn THEN RemoveObject(dirs[d].docs, e.obj)
                                  ELSE ApplyCapture(dirs[d].docs, e, n)
<1>1. dirs[d] \in Index /\ dirs[d].docs \subseteq Documents /\ dirs[d].gen \in Nat
  BY DEF IndexTypes, Index
<1>2. Watermark \in Nat /\ Watermark <= MaxOutbox /\ MaxOutbox \in Nat
  BY SearchAssumption DEF IndexTypes, Watermark, Budget
<1>3. n \in 1..Watermark /\ n \in 1..MaxOutbox
  BY <1>1, <1>2
<1>4. e \in Event
  BY <1>3 DEF IndexTypes, Watermark
<1>5. docs \in SUBSET Documents
  <2>1. RemoveObject(dirs[d].docs, e.obj) \subseteq Documents
    BY <1>1 DEF RemoveObject
  <2>2. ASSUME ~e.withdrawn PROVE ApplyCapture(dirs[d].docs, e, n) \subseteq Documents
    <3>1. e.obj \in Objects /\ e.rev \in Revs
      BY <1>3, <1>4, <2>2 DEF RevisionsOK, Event
    <3>2. (e.head \/ \E x \in dirs[d].docs : x.cap = n /\ x.cur) \in BOOLEAN
      OBVIOUS
    <3>3. new \in Documents
      BY <1>3, <3>1, <3>2 DEF Documents
    <3>4. \A x \in Documents : [x EXCEPT !.cur = FALSE] \in Documents
      BY DEF Documents
    <3>5. Demoted(dirs[d].docs, e, n) \subseteq Documents
      BY <1>1 DEF Demoted
    <3> HIDE DEF n, e
    <3> QED BY <1>1, <3>3, <3>4, <3>5 DEF ApplyCapture
  <2> QED BY <2>1, <2>2
<1>6. Applied(d) = [dirs[d] EXCEPT !.gen = n, !.docs = docs]
  BY DEF Applied
<1>7. n \in Nat
  BY <1>3
<1> HIDE DEF n, e, docs
<1> QED BY <1>1, <1>5, <1>6, <1>7 DEF Index, n

\* What a step does to the indexes: each stays, takes one event, is made, or is
\* finished by its rebuild.
IndexMoves(d) ==
    \/ dirs'[d] = dirs[d]
    \/ dirs[d].made /\ dirs[d].gen < Watermark /\ dirs'[d] = Applied(d)
    \/ ~dirs[d].made /\ dirs'[d] \in {Fresh, Created}
    \/ dirs[d].made /\ dirs'[d] = [dirs[d] EXCEPT !.complete = TRUE]

LEMMA IndexGrows ==
    ASSUME IndexTypes, RevisionsOK, DirsOK, NEW d \in Dirs, IndexMoves(d)
    PROVE  /\ dirs'[d] \in Index
           /\ dirs[d].gen <= dirs'[d].gen
           /\ dirs[d].complete => dirs'[d].complete
           /\ dirs[d].made => dirs'[d].made
           /\ dirs'[d].gen <= Watermark
           /\ ~dirs'[d].made => dirs'[d] = Absent
<1>1. dirs[d] \in Index /\ dirs[d].gen \in Nat /\ Watermark \in Nat /\ dirs[d].gen <= Watermark
  BY DEF IndexTypes, Index, DirsOK, Watermark
<1>2. CASE dirs[d].made /\ dirs[d].gen < Watermark /\ dirs'[d] = Applied(d)
  BY <1>1, <1>2, AppliedFacts
<1>3. CASE ~dirs[d].made /\ dirs'[d] \in {Fresh, Created}
  <2>1. dirs[d].gen = 0 /\ ~dirs[d].complete
    BY <1>3, IndexFacts DEF DirsOK
  <2>2. dirs'[d] \in Index /\ dirs'[d].gen = 0 /\ dirs'[d].made
    BY <1>3, IndexFacts
  <2> QED BY <1>1, <1>3, <2>1, <2>2
<1>4. CASE dirs[d].made /\ dirs'[d] = [dirs[d] EXCEPT !.complete = TRUE]
  <2>1. dirs'[d].gen = dirs[d].gen /\ dirs'[d].complete = TRUE /\ dirs'[d].made = dirs[d].made
    BY <1>1, <1>4 DEF Index
  <2>2. dirs'[d] \in Index
    BY <1>1, <1>4 DEF Index
  <2> QED BY <1>1, <1>4, <2>1, <2>2
<1>5. CASE dirs'[d] = dirs[d]
  BY <1>1, <1>5 DEF DirsOK
<1> QED BY <1>2, <1>3, <1>4, <1>5 DEF IndexMoves

\* The types, the two processes and the fence, for one step.
IndexGoal ==
    /\ dirs' \in [Dirs -> Index] /\ \A d \in Dirs : IndexMoves(d)
    /\ ack' \in Nat /\ holder' \in {None, "server", "rebuild"}
    /\ server' \in Serving \cup {Down} /\ rebuild' \in Rebuilding \cup {NoRebuild}
    /\ left' \in Budget /\ left'.events <= left.events
    /\ outbox' # outbox => left'.events < left.events

LEMMA SpendFacts ==
    ASSUME left \in Budget
    PROVE  /\ \A what \in {"events", "faults", "searches"} : Spend(what) =>
                 left' \in Budget /\ left'.events <= left.events
           /\ Spend("events") => left'.events = left.events - 1
           /\ left.events \in Nat
<1>1. left.events \in 0..MaxOutbox /\ left.faults \in Nat /\ left.searches \in Nat
  BY DEF Budget
<1>2. Spend("events") => left' \in Budget /\ left'.events = left.events - 1
  BY <1>1, SearchAssumption DEF Spend, Budget
<1>3. Spend("faults") => left' \in Budget /\ left'.events = left.events
  BY <1>1, SearchAssumption DEF Spend, Budget
<1>4. Spend("searches") => left' \in Budget /\ left'.events = left.events
  BY <1>1, SearchAssumption DEF Spend, Budget
<1> QED BY <1>1, <1>2, <1>3, <1>4, SearchAssumption

\* The outbox, the types and the indexes of a step that moves the indexes as it may.
LEMMA IndexKept ==
    ASSUME IndexInv, [Next]_vars, IndexGoal
    PROVE  /\ IndexTypes' /\ RevisionsOK' /\ DirsOK'
           /\ Watermark \in Nat /\ Watermark' \in Nat /\ Watermark <= Watermark'
           /\ \A d \in Dirs : /\ dirs[d].gen \in Nat /\ dirs'[d].gen \in Nat
                              /\ dirs[d].gen <= dirs'[d].gen
                              /\ dirs[d].complete => dirs'[d].complete
                              /\ dirs[d].made => dirs'[d].made
<1> USE DEF IndexInv
<1>1. /\ Watermark \in Nat /\ Watermark' \in Nat /\ Watermark <= Watermark'
      /\ Watermark' <= Watermark + 1 /\ outbox' \in Seq(Event)
      /\ \A i \in 1..Watermark : outbox'[i] = outbox[i]
  BY OutboxPrefix DEF IndexTypes
<1>2. \A d \in Dirs : /\ dirs'[d] \in Index
                      /\ dirs[d].gen <= dirs'[d].gen
                      /\ dirs[d].complete => dirs'[d].complete
                      /\ dirs[d].made => dirs'[d].made
                      /\ dirs'[d].gen <= Watermark
                      /\ ~dirs'[d].made => dirs'[d] = Absent
  BY IndexGrows DEF IndexGoal
<1>3. \A d \in Dirs : dirs[d].gen \in Nat /\ dirs'[d].gen \in Nat
  BY <1>2 DEF IndexTypes, Index
<1>4. Watermark' + left'.events <= MaxOutbox
  <2>1. left.events \in Nat /\ left'.events \in Nat /\ Watermark + left.events <= MaxOutbox
    BY SpendFacts, SearchAssumption DEF IndexTypes, IndexGoal, Budget
  <2>2. outbox' = outbox => Watermark' = Watermark
    BY DEF Watermark
  <2> QED BY <1>1, <2>1, <2>2, SearchAssumption DEF IndexGoal
<1>5. IndexTypes'
  BY <1>1, <1>4 DEF IndexTypes, IndexGoal
<1>6. DirsOK'
  <2> SUFFICES ASSUME NEW d \in Dirs
               PROVE  dirs'[d].gen <= Watermark' /\ (~dirs'[d].made => dirs'[d] = Absent)
    BY DEF DirsOK
  <2> QED BY <1>1, <1>2, <1>3
<1>7. RevisionsOK'
  <2> SUFFICES ASSUME NEW i \in 1..Watermark', ~outbox'[i].withdrawn PROVE outbox'[i].rev \in Revs
    BY DEF RevisionsOK
  <2>1. CASE i \in 1..Watermark
    BY <1>1, <2>1 DEF RevisionsOK
  <2>2. CASE i \notin 1..Watermark
    <3>1. i = Watermark + 1 /\ Watermark' = Watermark + 1 /\ outbox' # outbox
      BY <1>1, <2>2 DEF Watermark
    <3>2. ASSUME NEW o \in Objects, NEW r \in Revs, NEW head \in BOOLEAN, Publish(o, r, head)
          PROVE  outbox'[i].rev \in Revs
      <4>1. Capture(o, r, head) \in Event /\ outbox' = Append(outbox, Capture(o, r, head))
        BY <3>2, EventFacts DEF Publish
      <4>2. outbox'[i] = Capture(o, r, head)
        BY <3>1, <4>1, OutboxGrows DEF IndexTypes
      <4> QED BY <4>2, EventFacts
    <3>3. ASSUME NEW o \in Objects, Withdraw(o) PROVE FALSE
      <4>1. Withdrawal(o) \in Event /\ outbox' = Append(outbox, Withdrawal(o))
        BY <3>3, EventFacts DEF Withdraw
      <4>2. outbox'[i] = Withdrawal(o)
        BY <3>1, <4>1, OutboxGrows DEF IndexTypes
      <4> QED BY <4>2, EventFacts
    <3> QED BY <3>1, <3>2, <3>3, OutboxStep
  <2> QED BY <2>1, <2>2
<1> QED BY <1>1, <1>2, <1>3, <1>5, <1>6, <1>7

\* Steps that touch neither index nor process: the outbox may have grown.
LEMMA IndexQuiet ==
    ASSUME IndexInv, [Next]_vars, UNCHANGED <<ack, dirs, server, rebuild>>,
           holder' \in {None, "server", "rebuild"}, left' \in Budget,
           left'.events <= left.events, outbox' # outbox => left'.events < left.events
    PROVE  IndexInv'
<1> USE DEF IndexInv
<1>1. IndexGoal
  BY DEF IndexGoal, IndexMoves, IndexTypes
<1>2. /\ IndexTypes' /\ RevisionsOK' /\ DirsOK'
      /\ Watermark \in Nat /\ Watermark' \in Nat /\ Watermark <= Watermark'
      /\ \A d \in Dirs : dirs[d].gen \in Nat
  BY <1>1, IndexKept
<1>3. ServerOK'
  <2>1. server # Down => server.dir \in Dirs
    BY DEF IndexTypes, Serving
  <2> QED BY <1>2, <2>1 DEF ServerOK
<1>4. RebuildOK'
  <2>1. rebuild # NoRebuild => rebuild.target \in Nat
    BY DEF IndexTypes, Rebuilding
  <2> QED BY <1>2, <2>1 DEF RebuildOK
<1>5. ack' <= Watermark' /\ AckDurable'
  BY <1>2 DEF AckDurable, IndexTypes
<1> QED BY <1>2, <1>3, <1>4, <1>5

\* Steps of the serving process and its openings.
LEMMA ServingStep ==
    ASSUME IndexInv, [Next]_vars, UNCHANGED <<outbox, rebuild>>, left' \in Budget,
           left'.events <= left.events,
           \/ \E d \in Dirs : Serve(d) \/ OpenRefused(d)
           \/ Exit \/ AcknowledgeIndex \/ NextEvent \/ ApplyIndexEvent
    PROVE  IndexInv'
<1> USE DownFacts, IndexFacts DEF IndexInv
<1>1. /\ Watermark' = Watermark /\ Watermark \in Nat
      /\ \A d \in Dirs : dirs[d] \in Index /\ dirs[d].gen \in Nat /\ dirs[d].gen <= Watermark
  BY DEF Watermark, IndexTypes, Index, DirsOK
<1>2. server # Down => server \in Serving /\ server.dir \in Dirs
  BY DEF IndexTypes, Serving
<1>3. rebuild # NoRebuild => /\ rebuild \in Rebuilding /\ rebuild.dir \in Dirs
                             /\ rebuild.target \in Nat
  BY DEF IndexTypes, Rebuilding
<1>4. holder' \in {None, "server", "rebuild"}
  BY DEF Serve, OpenRefused, Exit, Released, AcknowledgeIndex, NextEvent, ApplyIndexEvent,
         IndexTypes
\* It is enough to say how the indexes, the process and the fence move.
<1>5. ASSUME dirs' \in [Dirs -> Index], \A d \in Dirs : IndexMoves(d), ack' \in Nat,
             server' \in Serving \cup {Down}, ServerOK',
             rebuild # NoRebuild /\ rebuild.pc # "ack" => dirs'[rebuild.dir] = dirs[rebuild.dir],
             ack' = ack \/ (ack' <= Watermark /\ AckDurable')
      PROVE  IndexInv'
  <2>1. IndexGoal
    BY <1>4, <1>5 DEF IndexGoal, IndexTypes
  <2>2. /\ IndexTypes' /\ RevisionsOK' /\ DirsOK'
        /\ \A d \in Dirs : /\ dirs'[d].gen \in Nat /\ dirs[d].gen <= dirs'[d].gen
                           /\ dirs[d].complete => dirs'[d].complete
                           /\ dirs[d].made => dirs'[d].made
    BY <2>1, IndexKept
  <2>3. RebuildOK'
    <3> SUFFICES ASSUME rebuild # NoRebuild PROVE RebuildOK'
      BY DEF RebuildOK
    <3>1. CASE rebuild.pc # "ack"
      BY <1>1, <1>5, <3>1 DEF RebuildOK
    <3>2. CASE rebuild.pc = "ack"
      BY <1>1, <1>3, <2>2, <3>2 DEF RebuildOK
    <3> QED BY <3>1, <3>2
  <2>4. AckDurable'
    <3>1. PICK d \in Dirs : dirs[d].complete /\ dirs[d].gen >= ack
      BY DEF AckDurable
    <3>2. dirs'[d].complete /\ dirs'[d].gen >= ack
      BY <1>1, <2>2, <3>1 DEF IndexTypes
    <3> QED BY <1>5, <3>2 DEF AckDurable
  <2> QED BY <1>1, <1>5, <2>2, <2>3, <2>4
<1>6. ASSUME NEW d \in Dirs, Serve(d) PROVE IndexInv'
  <2>1. /\ Opened(d) \in Index /\ Opened(d).gen \in Nat
        /\ Opened(d) = dirs[d] \/ (~dirs[d].made /\ Opened(d) = Created)
    BY <1>1 DEF Opened
  <2>2. dirs' = [dirs EXCEPT ![d] = Opened(d)] /\ Opened(d).complete /\ ack' = ack
    BY <1>6 DEF Serve, database
  <2>3. dirs' \in [Dirs -> Index] /\ \A x \in Dirs : IndexMoves(x)
    BY <2>1, <2>2 DEF IndexTypes, IndexMoves
  <2>4. server' = [up |-> TRUE, dir |-> d, pc |-> "ack", pend |-> Opened(d).gen]
    BY <1>6 DEF Serve, PendingAtStart
  <2>5. server' \in Serving /\ server'.dir = d /\ server'.pc = "ack" /\ server'.pend = Opened(d).gen
    BY <2>1, <2>4 DEF Serving
  <2>6. ServerOK'
    BY <2>1, <2>2, <2>5 DEF ServerOK, IndexTypes
  <2>7. rebuild # NoRebuild => dirs'[rebuild.dir] = dirs[rebuild.dir]
    BY <1>3, <2>1, <2>2 DEF RebuildOK, IndexTypes
  <2> QED BY <1>5, <2>2, <2>3, <2>5, <2>6, <2>7 DEF IndexTypes
<1>7. ASSUME NEW d \in Dirs, OpenRefused(d) PROVE IndexInv'
  <2>1. dirs' = [dirs EXCEPT ![d] = Created] /\ ~dirs[d].made /\ ack' = ack /\ server' = server
    BY <1>7 DEF OpenRefused, Opened, database
  <2>2. dirs' \in [Dirs -> Index] /\ \A x \in Dirs : IndexMoves(x)
    BY <2>1 DEF IndexTypes, IndexMoves
  <2>3. server = Down
    BY <1>2, <1>7 DEF OpenRefused
  <2>4. ServerOK'
    BY <2>1, <2>3 DEF ServerOK
  <2>5. rebuild # NoRebuild => dirs'[rebuild.dir] = dirs[rebuild.dir]
    BY <1>3, <2>1 DEF RebuildOK, IndexTypes
  <2> QED BY <1>5, <2>1, <2>2, <2>3, <2>4, <2>5 DEF IndexTypes
<1>8. ASSUME UNCHANGED dirs, ack' \in Nat, server' \in Serving \cup {Down}, ServerOK',
             ack' = ack \/ (ack' <= Watermark /\ AckDurable')
      PROVE  IndexInv'
  BY <1>5, <1>8 DEF IndexMoves, IndexTypes
<1>9. ASSUME Exit PROVE IndexInv'
  <2>1. UNCHANGED <<dirs, ack>> /\ server' = Down
    BY <1>9 DEF Exit
  <2> QED BY <1>8, <2>1 DEF ServerOK, IndexTypes
<1>10. ASSUME AcknowledgeIndex PROVE IndexInv'
  <2>1. server \in Serving /\ server.dir \in Dirs /\ server # Down
    BY <1>2, <1>10 DEF AcknowledgeIndex
  <2>2. server.pend \in Nat \cup {None} /\ None \notin Nat
    BY <2>1, SearchAssumption DEF Serving
  <2>3. UNCHANGED dirs /\ server' = [server EXCEPT !.pc = "next", !.pend = None]
    BY <1>10 DEF AcknowledgeIndex
  <2>4. /\ server' \in Serving /\ server'.dir = server.dir /\ server'.pend = None
        /\ server'.pc = "next"
    BY <2>1, <2>3 DEF Serving
  <2>5. ServerOK'
    BY <2>1, <2>3, <2>4 DEF ServerOK
  <2>6. ack' \in Nat /\ (ack' = ack \/ (ack' <= Watermark /\ AckDurable'))
    <3>1. CASE server.pend = None
      BY <1>10, <3>1 DEF AcknowledgeIndex, IndexTypes
    <3>2. CASE server.pend # None
      <4>1. ack' = server.pend /\ server.pend <= Watermark /\ server.pend \in Nat
        BY <1>10, <2>2, <3>2 DEF AcknowledgeIndex, Acceptable
      <4>2. dirs[server.dir].complete /\ server.pend <= dirs[server.dir].gen
        BY <2>1, <3>2 DEF ServerOK
      <4>3. dirs'[server.dir].complete /\ dirs'[server.dir].gen >= ack'
        BY <1>1, <2>1, <2>3, <4>1, <4>2
      <4>4. AckDurable'
        BY <2>1, <4>3 DEF AckDurable
      <4> QED BY <4>1, <4>4
    <3> QED BY <3>1, <3>2
  <2> QED BY <1>8, <2>3, <2>4, <2>5, <2>6
<1>11. ASSUME NextEvent PROVE IndexInv'
  <2>1. server \in Serving /\ server.dir \in Dirs /\ server # Down
    BY <1>2, <1>11 DEF NextEvent
  <2>2. UNCHANGED <<dirs, ack>> /\ server' = [server EXCEPT !.pc = "apply"]
    BY <1>11 DEF NextEvent, database
  <2>3. /\ server' \in Serving /\ server'.dir = server.dir /\ server'.pend = server.pend
        /\ server'.pc = "apply"
    BY <2>1, <2>2 DEF Serving
  <2>4. dirs[server.dir].gen < Watermark
    BY <1>11 DEF NextEvent
  <2>5. ServerOK'
    BY <1>1, <2>1, <2>2, <2>3, <2>4 DEF ServerOK
  <2> QED BY <1>8, <2>2, <2>3, <2>5 DEF IndexTypes
<1>12. ASSUME ApplyIndexEvent PROVE IndexInv'
  <2> DEFINE d == server.dir
  <2>1. server \in Serving /\ d \in Dirs /\ server # Down
    BY <1>2, <1>12 DEF ApplyIndexEvent
  <2>2. /\ dirs' = [dirs EXCEPT ![d] = Applied(d)] /\ UNCHANGED ack
        /\ server' = [server EXCEPT !.pc = "ack", !.pend = dirs[d].gen + 1]
    BY <1>12 DEF ApplyIndexEvent, database
  <2>3. dirs[d].gen < Watermark /\ dirs[d].complete
    BY <1>12, <2>1 DEF ApplyIndexEvent, ServerOK
  <2>4. dirs[d].made
    BY <2>1, <2>3 DEF DirsOK
  <2>5. /\ Applied(d) \in Index /\ Applied(d).gen = dirs[d].gen + 1
        /\ Applied(d).complete = dirs[d].complete
    BY <2>1, <2>3, AppliedFacts
  <2>6. /\ server' \in Serving /\ server'.dir = d /\ server'.pend = dirs[d].gen + 1
        /\ server'.pc = "ack"
    <3> DEFINE n == dirs[d].gen + 1
    <3>1. n \in Nat /\ server' = [server EXCEPT !.pc = "ack", !.pend = n]
      BY <1>1, <2>1, <2>2
    <3> HIDE DEF n
    <3>2. server' \in Serving /\ server'.dir = d /\ server'.pend = n /\ server'.pc = "ack"
      BY <2>1, <3>1 DEF Serving
    <3> QED BY <3>2 DEF n
  <2>7. dirs' \in [Dirs -> Index] /\ \A x \in Dirs : IndexMoves(x)
    <3> HIDE DEF d
    <3> QED BY <2>1, <2>2, <2>3, <2>4, <2>5 DEF IndexTypes, IndexMoves
  <2>8. dirs'[d] = Applied(d)
    BY <2>1, <2>2 DEF IndexTypes
  <2>9. ServerOK'
    <3>1. dirs'[server'.dir].complete /\ dirs'[server'.dir].gen = server'.pend
      BY <2>3, <2>5, <2>6, <2>8
    <3>2. server'.pend \in Nat
      BY <1>1, <2>1, <2>6
    <3> QED BY <2>6, <3>1, <3>2 DEF ServerOK
  <2>10. rebuild # NoRebuild /\ rebuild.pc # "ack" => dirs'[rebuild.dir] = dirs[rebuild.dir]
    <3>1. rebuild # NoRebuild /\ rebuild.pc # "ack" => rebuild.dir # d
      BY <2>3 DEF RebuildOK
    <3> QED BY <1>3, <2>1, <2>2, <3>1 DEF IndexTypes
  <2> QED BY <1>5, <2>2, <2>6, <2>7, <2>9, <2>10 DEF IndexTypes
<1> QED BY <1>6, <1>7, <1>9, <1>10, <1>11, <1>12

\* Steps of the rebuild.
LEMMA RebuildingStep ==
    ASSUME IndexInv, [Next]_vars, UNCHANGED <<outbox, server>>, left' \in Budget,
           left'.events <= left.events,
           \/ \E d \in Dirs : RebuildStart(d)
           \/ RebuildBatch \/ RebuildApply \/ RebuildVerify \/ FinishRebuild
           \/ RebuildAcknowledge
           \/ RebuildEnd /\ UNCHANGED <<ack, dirs>>
    PROVE  IndexInv'
<1> USE DownFacts, IndexFacts DEF IndexInv
<1>1. /\ Watermark' = Watermark /\ Watermark \in Nat
      /\ \A d \in Dirs : dirs[d] \in Index /\ dirs[d].gen \in Nat /\ dirs[d].gen <= Watermark
  BY DEF Watermark, IndexTypes, Index, DirsOK
<1>2. server # Down => server \in Serving /\ server.dir \in Dirs /\ dirs[server.dir].made
  BY DEF IndexTypes, Serving, ServerOK, DirsOK
<1>3. rebuild.pc # "none" => /\ rebuild \in Rebuilding /\ rebuild # NoRebuild
                             /\ rebuild.dir \in Dirs /\ rebuild.target \in Nat
                             /\ rebuild.upto \in Nat
  BY DEF IndexTypes, Rebuilding
<1>4. holder' \in {None, "server", "rebuild"}
  BY DEF RebuildStart, RebuildEnd, Released, RebuildBatch, RebuildApply, RebuildVerify,
         FinishRebuild, RebuildAcknowledge, IndexTypes
<1>5. ASSUME dirs' \in [Dirs -> Index], \A d \in Dirs : IndexMoves(d), ack' \in Nat,
             rebuild' \in Rebuilding \cup {NoRebuild}, RebuildOK',
             server # Down => dirs'[server.dir] = dirs[server.dir],
             ack' = ack \/ (ack' <= Watermark /\ AckDurable')
      PROVE  IndexInv'
  <2>1. IndexGoal
    BY <1>4, <1>5 DEF IndexGoal, IndexTypes
  <2>2. /\ IndexTypes' /\ RevisionsOK' /\ DirsOK'
        /\ \A d \in Dirs : /\ dirs'[d].gen \in Nat /\ dirs[d].gen <= dirs'[d].gen
                           /\ dirs[d].complete => dirs'[d].complete
    BY <2>1, IndexKept
  <2>3. ServerOK'
    BY <1>1, <1>2, <1>5 DEF ServerOK
  <2>4. AckDurable'
    <3>1. PICK d \in Dirs : dirs[d].complete /\ dirs[d].gen >= ack
      BY DEF AckDurable
    <3>2. dirs'[d].complete /\ dirs'[d].gen >= ack
      BY <1>1, <2>2, <3>1 DEF IndexTypes
    <3> QED BY <1>5, <3>2 DEF AckDurable
  <2> QED BY <1>1, <1>5, <2>2, <2>3, <2>4
<1>6. ASSUME UNCHANGED <<ack, dirs>>, rebuild' \in Rebuilding \cup {NoRebuild}, RebuildOK'
      PROVE  IndexInv'
  BY <1>5, <1>6 DEF IndexMoves, IndexTypes
<1>7. ASSUME RebuildEnd /\ UNCHANGED <<ack, dirs>> PROVE IndexInv'
  BY <1>6, <1>7 DEF RebuildEnd, RebuildOK
<1>8. ASSUME NEW d \in Dirs, RebuildStart(d) PROVE IndexInv'
  <2>1. /\ ~dirs[d].made /\ dirs' = [dirs EXCEPT ![d] = Fresh] /\ ack' = ack
        /\ rebuild' = [pc |-> "batch", dir |-> d, target |-> Watermark, upto |-> 0]
    BY <1>8 DEF RebuildStart, database
  <2>2. dirs' \in [Dirs -> Index] /\ \A x \in Dirs : IndexMoves(x)
    BY <2>1 DEF IndexTypes, IndexMoves
  <2>3. /\ rebuild' \in Rebuilding /\ rebuild'.dir = d /\ rebuild'.target = Watermark
        /\ rebuild'.pc = "batch"
    BY <1>1, <2>1 DEF Rebuilding
  <2>4. dirs'[d] = Fresh
    BY <2>1 DEF IndexTypes
  <2>5. RebuildOK'
    BY <1>1, <2>3, <2>4 DEF RebuildOK
  <2>6. server # Down => dirs'[server.dir] = dirs[server.dir]
    BY <1>2, <2>1 DEF IndexTypes
  <2> QED BY <1>5, <2>1, <2>2, <2>3, <2>5, <2>6 DEF IndexTypes
<1>9. ASSUME RebuildBatch PROVE IndexInv'
  <2> DEFINE n == Least(dirs[rebuild.dir].gen + Batch, rebuild.target)
  <2>1. /\ rebuild.pc = "batch" /\ dirs[rebuild.dir].gen < rebuild.target
        /\ rebuild' = [rebuild EXCEPT !.pc = "replay", !.upto = n]
        /\ UNCHANGED <<ack, dirs>>
    BY <1>9 DEF RebuildBatch, database
  <2>2. rebuild \in Rebuilding /\ rebuild.dir \in Dirs /\ rebuild.target \in Nat
    BY <1>3, <2>1
  <2>3. n \in Nat /\ n <= rebuild.target /\ dirs[rebuild.dir].gen < n
    BY <1>1, <2>1, <2>2, SearchAssumption DEF Least
  <2> HIDE DEF n
  <2>4. /\ rebuild' \in Rebuilding /\ rebuild'.dir = rebuild.dir /\ rebuild'.upto = n
        /\ rebuild'.target = rebuild.target /\ rebuild'.pc = "replay"
    BY <2>1, <2>2, <2>3 DEF Rebuilding
  <2>5. RebuildOK'
    BY <1>1, <2>1, <2>2, <2>3, <2>4 DEF RebuildOK
  <2> QED BY <1>6, <2>1, <2>4, <2>5
<1>10. ASSUME RebuildVerify PROVE IndexInv'
  <2>1. /\ rebuild.pc = "batch" /\ dirs[rebuild.dir].gen = rebuild.target
        /\ rebuild' = [rebuild EXCEPT !.pc = "finish"] /\ UNCHANGED <<ack, dirs>>
    BY <1>10 DEF RebuildVerify, database
  <2>2. rebuild \in Rebuilding
    BY <1>3, <2>1
  <2>3. /\ rebuild' \in Rebuilding /\ rebuild'.dir = rebuild.dir
        /\ rebuild'.target = rebuild.target /\ rebuild'.pc = "finish"
    BY <2>1, <2>2 DEF Rebuilding
  <2>4. RebuildOK'
    BY <1>1, <2>1, <2>2, <2>3 DEF RebuildOK
  <2> QED BY <1>6, <2>1, <2>3, <2>4
<1>11. ASSUME RebuildApply PROVE IndexInv'
  <2> DEFINE d == rebuild.dir
             pc == IF dirs[d].gen + 1 = rebuild.upto THEN "batch" ELSE "replay"
  <2>1. /\ rebuild.pc = "replay" /\ dirs' = [dirs EXCEPT ![d] = Applied(d)] /\ UNCHANGED ack
        /\ rebuild' = [rebuild EXCEPT !.pc = pc]
    BY <1>11 DEF RebuildApply, database
  <2>2. rebuild \in Rebuilding /\ d \in Dirs /\ rebuild.target \in Nat /\ rebuild.upto \in Nat
    BY <1>3, <2>1
  <2>3. /\ dirs[d].gen < rebuild.upto /\ rebuild.upto <= rebuild.target
        /\ rebuild.target <= Watermark /\ dirs[d].made /\ ~dirs[d].complete
    BY <2>1, <2>2 DEF RebuildOK
  <2>4. dirs[d].gen < Watermark
    BY <1>1, <2>2, <2>3
  <2>5. /\ Applied(d) \in Index /\ Applied(d).gen = dirs[d].gen + 1
        /\ Applied(d).complete = dirs[d].complete /\ Applied(d).made = dirs[d].made
    BY <2>2, <2>4, AppliedFacts
  <2>6. pc \in {"batch", "replay"} /\ (pc = "batch" <=> dirs[d].gen + 1 = rebuild.upto)
    OBVIOUS
  <2> HIDE DEF pc
  <2>7. /\ rebuild' \in Rebuilding /\ rebuild'.dir = d /\ rebuild'.pc = pc
        /\ rebuild'.target = rebuild.target /\ rebuild'.upto = rebuild.upto
    BY <2>1, <2>2, <2>6 DEF Rebuilding
  <2> HIDE DEF d
  <2>8. dirs' \in [Dirs -> Index] /\ \A x \in Dirs : IndexMoves(x)
    BY <2>1, <2>2, <2>3, <2>4, <2>5 DEF IndexTypes, IndexMoves
  <2>9. dirs'[d] = Applied(d)
    BY <2>1, <2>2 DEF IndexTypes
  <2>10. RebuildOK'
    <3>1. dirs'[rebuild'.dir] = Applied(d)
      BY <2>7, <2>9
    <3>2. dirs[d].gen + 1 <= rebuild.upto /\ dirs[d].gen \in Nat
      BY <1>1, <2>2, <2>3
    <3>3. /\ dirs'[rebuild'.dir].made /\ ~dirs'[rebuild'.dir].complete
          /\ dirs'[rebuild'.dir].gen = dirs[d].gen + 1
      BY <2>3, <2>5, <3>1
    <3>4. /\ rebuild'.target <= Watermark' /\ rebuild'.pc \in {"batch", "replay"}
          /\ rebuild'.pc = "batch" => dirs[d].gen + 1 <= rebuild'.target
          /\ rebuild'.pc = "replay" =>
                dirs[d].gen + 1 < rebuild'.upto /\ rebuild'.upto <= rebuild'.target
      BY <1>1, <2>2, <2>3, <2>6, <2>7, <3>2
    <3> QED BY <3>3, <3>4 DEF RebuildOK
  <2>11. server # Down => dirs'[server.dir] = dirs[server.dir]
    <3>1. server # Down => server.dir # d
      BY <2>3 DEF ServerOK
    <3> QED BY <1>2, <2>1, <2>2, <3>1 DEF IndexTypes
  <2> QED BY <1>5, <2>1, <2>7, <2>8, <2>10, <2>11 DEF IndexTypes
<1>12. ASSUME FinishRebuild PROVE IndexInv'
  <2> DEFINE d == rebuild.dir
  <2>1. /\ rebuild.pc = "finish" /\ dirs' = [dirs EXCEPT ![d].complete = TRUE] /\ UNCHANGED ack
        /\ rebuild' = [rebuild EXCEPT !.pc = "ack"]
    BY <1>12 DEF FinishRebuild, database
  <2>2. rebuild \in Rebuilding /\ d \in Dirs /\ rebuild.target \in Nat
    BY <1>3, <2>1
  <2>3. /\ dirs[d].gen = rebuild.target /\ rebuild.target <= Watermark
        /\ dirs[d].made /\ ~dirs[d].complete
    BY <2>1, <2>2 DEF RebuildOK
  <2>4. /\ rebuild' \in Rebuilding /\ rebuild'.dir = d /\ rebuild'.pc = "ack"
        /\ rebuild'.target = rebuild.target
    BY <2>1, <2>2 DEF Rebuilding
  <2> HIDE DEF d
  <2> DEFINE new == [dirs[d] EXCEPT !.complete = TRUE]
  <2>5. new \in Index /\ new.complete = TRUE /\ new.gen = dirs[d].gen /\ new.made = dirs[d].made
    BY <1>1, <2>2 DEF Index
  <2>6. dirs' = [dirs EXCEPT ![d] = new] /\ dirs'[d] = new
    BY <2>1, <2>2 DEF IndexTypes
  <2>7. dirs' \in [Dirs -> Index] /\ \A x \in Dirs : IndexMoves(x)
    BY <2>2, <2>3, <2>5, <2>6 DEF IndexTypes, IndexMoves
  <2> HIDE DEF new
  <2>8. RebuildOK'
    <3>1. dirs'[rebuild'.dir] = new
      BY <2>4, <2>6
    <3>2. /\ dirs'[rebuild'.dir].made /\ dirs'[rebuild'.dir].complete
          /\ dirs'[rebuild'.dir].gen = rebuild'.target
      BY <2>3, <2>4, <2>5, <3>1
    <3>3. rebuild'.target \in Nat /\ rebuild'.target <= Watermark' /\ rebuild'.pc = "ack"
      BY <1>1, <2>2, <2>3, <2>4
    <3> QED BY <3>2, <3>3 DEF RebuildOK
  <2>9. server # Down => dirs'[server.dir] = dirs[server.dir]
    <3>1. server # Down => server.dir # d
      BY <2>3 DEF ServerOK
    <3> QED BY <1>2, <2>6, <3>1 DEF IndexTypes
  <2> QED BY <1>5, <2>1, <2>4, <2>7, <2>8, <2>9 DEF IndexTypes
<1>13. ASSUME RebuildAcknowledge PROVE IndexInv'
  <2>1. rebuild.pc = "ack" /\ UNCHANGED dirs /\ rebuild' = NoRebuild
    BY <1>13 DEF RebuildAcknowledge, RebuildEnd
  <2>2. rebuild \in Rebuilding /\ rebuild.dir \in Dirs /\ rebuild.target \in Nat
    BY <1>3, <2>1
  <2>3. dirs[rebuild.dir].complete /\ dirs[rebuild.dir].gen >= rebuild.target
    BY <2>1, <2>2 DEF RebuildOK
  <2>4. ack' = ack \/ (ack' = rebuild.target /\ rebuild.target <= Watermark)
    BY <1>13 DEF RebuildAcknowledge, Acceptable
  <2>5. ack' \in Nat /\ (ack' = ack \/ (ack' <= Watermark /\ AckDurable'))
    <3>1. CASE ack' = ack
      BY <3>1 DEF IndexTypes
    <3>2. CASE ack' = rebuild.target /\ rebuild.target <= Watermark
      <4>1. dirs'[rebuild.dir].complete /\ dirs'[rebuild.dir].gen >= ack'
        BY <2>1, <2>3, <3>2
      <4>2. AckDurable'
        BY <2>2, <4>1 DEF AckDurable
      <4> QED BY <2>2, <3>2, <4>2
    <3> QED BY <2>4, <3>1, <3>2
  <2>6. RebuildOK'
    BY <2>1 DEF RebuildOK
  <2> QED BY <1>5, <2>1, <2>5, <2>6 DEF IndexMoves, IndexTypes
<1> QED BY <1>7, <1>8, <1>9, <1>10, <1>11, <1>12, <1>13

LEMMA IndexStep ==
    ASSUME IndexInv, [Next]_vars
    PROVE  IndexInv'
<1>1. left \in Budget /\ holder \in {None, "server", "rebuild"}
  BY DEF IndexInv, IndexTypes
<1>2. ASSUME NEW what \in {"events", "faults", "searches"}, Spend(what)
      PROVE  /\ left' \in Budget /\ left'.events <= left.events
             /\ what = "events" => left'.events < left.events
  BY <1>1, <1>2, SpendFacts
<1>3. left.events \in Nat
  BY <1>1, SpendFacts
<1>4. ASSUME NEW o \in Objects, NEW r \in Revs, NEW head \in BOOLEAN, Publish(o, r, head)
      PROVE  IndexInv'
  <2>1. Spend("events") /\ UNCHANGED <<ack, dirs, holder, server, rebuild>>
    BY <1>4 DEF Publish
  <2> QED BY <1>1, <1>2, <2>1, IndexQuiet
<1>5. ASSUME NEW o \in Objects, Withdraw(o) PROVE IndexInv'
  <2>1. Spend("events") /\ UNCHANGED <<ack, dirs, holder, server, rebuild>>
    BY <1>5 DEF Withdraw
  <2> QED BY <1>1, <1>2, <2>1, IndexQuiet
<1>6. ASSUME UNCHANGED <<outbox, ack, dirs, server, rebuild>>,
             holder' \in {None, "server", "rebuild"},
             UNCHANGED left \/ Spend("faults") \/ Spend("searches")
      PROVE  IndexInv'
  BY <1>1, <1>2, <1>3, <1>6, IndexQuiet
<1>7. ASSUME NEW d \in Dirs, Serve(d) \/ OpenRefused(d) PROVE IndexInv'
  <2>1. UNCHANGED <<outbox, rebuild, left>>
    BY <1>7 DEF Serve, OpenRefused, database
  <2> QED BY <1>1, <1>3, <1>7, <2>1, ServingStep
<1>8. ASSUME ServerStep PROVE IndexInv'
  <2>1. UNCHANGED <<outbox, rebuild, left>>
    BY <1>8 DEF ServerStep, AcknowledgeIndex, AcknowledgeConflict, NextEvent, ApplyIndexEvent,
                LeaseGone, Exit, database
  <2>2. Exit \/ AcknowledgeIndex \/ NextEvent \/ ApplyIndexEvent
    BY <1>8 DEF ServerStep, AcknowledgeConflict, LeaseGone
  <2> QED BY <1>1, <1>3, <2>1, <2>2, ServingStep
<1>9. ASSUME Crash PROVE IndexInv'
  <2>1. Exit /\ Spend("faults") /\ UNCHANGED <<outbox, rebuild>>
    BY <1>9 DEF Crash, Exit
  <2> QED BY <1>2, <2>1, ServingStep
<1>10. ASSUME LoseLease PROVE IndexInv'
  BY <1>6, <1>10 DEF LoseLease, database
<1>11. ASSUME NEW d \in Dirs, RebuildStart(d) PROVE IndexInv'
  <2>1. Spend("faults") /\ UNCHANGED <<outbox, server>>
    BY <1>11 DEF RebuildStart, database
  <2> QED BY <1>2, <1>11, <2>1, RebuildingStep
<1>12. ASSUME RebuildStep PROVE IndexInv'
  <2>1. UNCHANGED <<outbox, server, left>>
    BY <1>12 DEF RebuildStep, RebuildBatch, RebuildApply, RebuildVerify, RebuildRefused,
                 FinishRebuild, RebuildAcknowledge, database
  <2>2. \/ RebuildBatch \/ RebuildApply \/ RebuildVerify \/ FinishRebuild
        \/ RebuildAcknowledge
        \/ RebuildEnd /\ UNCHANGED <<ack, dirs>>
    BY <1>12 DEF RebuildStep, RebuildRefused, database
  <2> QED BY <1>1, <1>3, <2>1, <2>2, RebuildingStep
<1>13. ASSUME RebuildDies PROVE IndexInv'
  <2>1. Spend("faults") /\ UNCHANGED <<outbox, server, ack, dirs>> /\ RebuildEnd
    BY <1>13 DEF RebuildDies, database
  <2> QED BY <1>2, <2>1, RebuildingStep
<1>14. ASSUME NEW c \in Calls, CallStep(c) PROVE IndexInv'
  <2>1. UNCHANGED <<outbox, ack, dirs, holder, server, rebuild, left>>
    BY <1>14 DEF CallStep, PinSession, Scan, Recheck, Resolve, RenewLeases, Confirm, Fail, database
  <2> QED BY <1>1, <1>6, <2>1
<1>15. ASSUME NEW c \in Calls, NEW s \in Sessions, Continue(c, s) PROVE IndexInv'
  BY <1>1, <1>6, <1>15 DEF Continue, database
<1>16. ASSUME NEW c \in Calls, NEW s \in Sessions, NEW citable \in BOOLEAN, Search(c, s, citable)
       PROVE  IndexInv'
  BY <1>1, <1>6, <1>16 DEF Search, database
<1>17. ASSUME (\E s \in Sessions : Expire(s)) \/ (\E L \in SUBSET leases : Maintain(L))
       PROVE  IndexInv'
  BY <1>1, <1>6, <1>17 DEF Expire, Maintain
<1>18. ASSUME UNCHANGED vars PROVE IndexInv'
  BY <1>1, <1>6, <1>18 DEF vars
<1> QED BY <1>4, <1>5, <1>7, <1>8, <1>9, <1>10, <1>11, <1>12, <1>13, <1>14, <1>15, <1>16, <1>17,
           <1>18 DEF Next, Events

LEMMA IndexInit == Init => IndexInv
<1> SUFFICES ASSUME Init PROVE IndexInv
  OBVIOUS
<1> USE IndexFacts, DownFacts, SearchAssumption
<1>1. Watermark = 0 /\ outbox \in Seq(Event)
  BY DEF Init, Watermark
<1>2. dirs \in [Dirs -> Index] /\ \A d \in Dirs : dirs[d].gen = 0 /\ dirs[d] \in {Created, Absent}
  BY DEF Init
<1>3. left \in Budget
  BY DEF Init, Budget
<1>4. left.events <= MaxOutbox
  BY <1>3 DEF Budget
<1>5. IndexTypes
  BY <1>1, <1>2, <1>3, <1>4, SpendFacts DEF Init, IndexTypes
<1>6. RevisionsOK /\ DirsOK
  BY <1>1, <1>2 DEF RevisionsOK, DirsOK
<1>7. ServerOK /\ RebuildOK
  BY DEF Init, ServerOK, RebuildOK
<1>8. AckDurable /\ ack <= Watermark
  <2>1. dirs[Installed].complete /\ dirs[Installed].gen >= ack /\ ack = 0
    BY DEF Init
  <2> QED BY <1>1, <2>1 DEF AckDurable
<1> QED BY <1>5, <1>6, <1>7, <1>8 DEF IndexInv

LEMMA IndexInvariant == Spec => []IndexInv
BY IndexInit, IndexStep, PTL DEF Spec

\* AckDurable: the fence of acknowledge_index never passes every complete index, for
\* any number of directories, crashes, lost leases and rebuilds.
THEOREM AcksAreDurable == Spec => []AckDurable
BY IndexInvariant, PTL DEF IndexInv

------------------------------------------------------------------------------
(* An index is its generation's prefix of the outbox. The lemmas are about any   *)
(* sequence of events and any set of documents.                                  *)

CapturesIn(events, o, n) == {i \in 1..n : events[i].obj = o /\ ~events[i].withdrawn}
HeadIn(events, o, n) ==
    {i \in CapturesIn(events, o, n) :
        events[i].head /\ \A j \in CapturesIn(events, o, n) : events[j].head => j <= i}
LatestIn(events, o, n) ==
    {i \in CapturesIn(events, o, n) :
        \A j \in CapturesIn(events, o, n) : events[j].rev = events[i].rev => j <= i}
WithdrawnIn(events, o, n) == \E i \in 1..n : events[i].obj = o /\ events[i].withdrawn

\* What IndexReplaysOutbox says of one object in one index, document by document.
Replays(events, docs, n, o) ==
    IF WithdrawnIn(events, o, n) THEN \A x \in docs : x.obj # o
    ELSE /\ \A x \in docs : x.obj = o /\ x.cur => x.cap \in HeadIn(events, o, n)
         /\ \A i \in HeadIn(events, o, n) : \E x \in docs : x.obj = o /\ x.cap = i /\ x.cur
         /\ \A i \in LatestIn(events, o, n) : \E x \in docs : x.obj = o /\ x.cap = i
         /\ \A x \in docs : x.obj = o /\ x.cap \notin LatestIn(events, o, n) =>
               x.cap \in CapturesIn(events, o, n) /\ events[x.cap].head

\* DocsOK and OutboxOK, of one index and of a prefix.
Faithful(events, docs, n) ==
    \A x \in docs : /\ x.cap \in 1..n /\ ~events[x.cap].withdrawn
                    /\ events[x.cap].obj = x.obj /\ events[x.cap].rev = x.rev

LEMMA ReplaysIsIndexReplaysOutbox ==
    IndexReplaysOutbox <=>
        \A d \in Dirs, o \in Objects : Replays(outbox, dirs[d].docs, dirs[d].gen, o)
<1> SUFFICES ASSUME NEW d \in Dirs, NEW o \in Objects
             PROVE  (LET n == dirs[d].gen
                         docs == {x \in dirs[d].docs : x.obj = o}
                         caps == {x.cap : x \in docs}
                     IN  IF WithdrawnBy(o, n) THEN docs = {}
                         ELSE /\ {x.cap : x \in {y \in docs : y.cur}} = HeadOf(o, n)
                              /\ LatestOf(o, n) \cup HeadOf(o, n) \subseteq caps
                              /\ \A k \in caps \ LatestOf(o, n) :
                                    k \in CapturesOf(o, n) /\ outbox[k].head)
                    <=> Replays(outbox, dirs[d].docs, dirs[d].gen, o)
  BY DEF IndexReplaysOutbox
<1> DEFINE n == dirs[d].gen
           all == dirs[d].docs
           docs == {x \in all : x.obj = o}
           caps == {x.cap : x \in docs}
           H == HeadOf(o, n)
           L == LatestOf(o, n)
           C == CapturesOf(o, n)
<1>1. C = CapturesIn(outbox, o, n) /\ (WithdrawnBy(o, n) <=> WithdrawnIn(outbox, o, n))
  BY DEF CapturesOf, CapturesIn, WithdrawnBy, WithdrawnIn
<1>2. H = HeadIn(outbox, o, n)
  BY <1>1 DEF HeadOf, HeadIn
<1>3. L = LatestIn(outbox, o, n)
  BY <1>1 DEF LatestOf, LatestIn
<1> HIDE DEF n, all, H, L, C
<1>4. docs = {} <=> \A x \in all : x.obj # o
  OBVIOUS
<1>5. {x.cap : x \in {y \in docs : y.cur}} = H <=>
          /\ \A x \in all : x.obj = o /\ x.cur => x.cap \in H
          /\ \A i \in H : \E x \in all : x.obj = o /\ x.cap = i /\ x.cur
  OBVIOUS
<1>6. L \subseteq caps <=> \A i \in L : \E x \in all : x.obj = o /\ x.cap = i
  OBVIOUS
<1>7. {x.cap : x \in {y \in docs : y.cur}} \subseteq caps
  OBVIOUS
<1>8. (\A k \in caps \ L : k \in C /\ outbox[k].head) <=>
          \A x \in all : x.obj = o /\ x.cap \notin L => x.cap \in C /\ outbox[x.cap].head
  OBVIOUS
<1>9. L \cup H \subseteq caps <=> L \subseteq caps /\ H \subseteq caps
  OBVIOUS
<1> HIDE DEF docs, caps
<1>10. (IF WithdrawnBy(o, n) THEN docs = {}
        ELSE /\ {x.cap : x \in {y \in docs : y.cur}} = H
             /\ L \cup H \subseteq caps
             /\ \A k \in caps \ L : k \in C /\ outbox[k].head)
       <=> Replays(outbox, all, n, o)
  BY <1>1, <1>2, <1>3, <1>4, <1>5, <1>6, <1>7, <1>8, <1>9 DEF Replays
<1> QED BY <1>10 DEF n, all, H, L, C, docs, caps

\* The prefix of a longer outbox is the same prefix.
LEMMA ReplaysOfPrefix ==
    ASSUME NEW a, NEW b, NEW n \in Nat, \A i \in 1..n : a[i] = b[i], NEW docs, NEW o
    PROVE  /\ Replays(a, docs, n, o) <=> Replays(b, docs, n, o)
           /\ Faithful(a, docs, n) <=> Faithful(b, docs, n)
<1>1. CapturesIn(a, o, n) = CapturesIn(b, o, n)
  BY DEF CapturesIn
<1>2. WithdrawnIn(a, o, n) <=> WithdrawnIn(b, o, n)
  BY DEF WithdrawnIn
<1>3. \A i \in CapturesIn(a, o, n) : a[i] = b[i]
  BY DEF CapturesIn
<1>4. HeadIn(a, o, n) = HeadIn(b, o, n)
  BY <1>1, <1>3 DEF HeadIn
<1>5. LatestIn(a, o, n) = LatestIn(b, o, n)
  BY <1>1, <1>3 DEF LatestIn
<1>6. \A x \in docs : x.cap \in CapturesIn(a, o, n) => a[x.cap] = b[x.cap]
  BY <1>3
<1> QED BY <1>1, <1>2, <1>4, <1>5, <1>6 DEF Replays, Faithful

\* The documents after one capture: those it leaves, the former HEAD written back as
\* historical, and its own.
Stays(e, x) == x.obj = e.obj => ~(x.rev = e.rev /\ (~x.cur \/ e.head)) /\ ~(x.cur /\ e.head)
WrittenBack(docs, e, y) ==
    \E x \in docs : /\ x.obj = e.obj /\ x.rev # e.rev /\ x.cur /\ e.head
                    /\ y = [x EXCEPT !.cur = FALSE]
Own(e, n) == [obj |-> e.obj, rev |-> e.rev, cap |-> n, cur |-> e.head]

LEMMA ApplyCaptureDocs ==
    ASSUME NEW docs \in SUBSET Documents, NEW e \in Event, NEW n \in Nat,
           \A x \in docs : x.cap # n
    PROVE  \A y : y \in ApplyCapture(docs, e, n) <=>
             (y \in docs /\ Stays(e, y)) \/ WrittenBack(docs, e, y) \/ y = Own(e, n)
<1> SUFFICES ASSUME NEW y
             PROVE  y \in ApplyCapture(docs, e, n) <=>
                      (y \in docs /\ Stays(e, y)) \/ WrittenBack(docs, e, y) \/ y = Own(e, n)
  OBVIOUS
<1>1. e.head = (e.head \/ \E d \in docs : d.cap = n /\ d.cur)
  BY DEF Event
<1>2. Demoted(docs, e, n) = {x \in docs : x.obj = e.obj /\ x.rev # e.rev /\ x.cur /\ e.head}
  BY DEF Demoted, SameRevision
<1>3. Replaced(docs, e, n) =
        {x \in docs : /\ x.obj = e.obj
                      /\ (x.rev = e.rev /\ (~x.cur \/ e.head)) \/ (x.cur /\ e.head)}
  BY DEF Replaced, SameRevision
<1>4. ApplyCapture(docs, e, n) =
        (docs \ Replaced(docs, e, n)) \cup {[d EXCEPT !.cur = FALSE] : d \in Demoted(docs, e, n)}
            \cup {Own(e, n)}
  BY <1>1 DEF ApplyCapture, Own
<1>5. y \in ApplyCapture(docs, e, n) <=>
        \/ y \in docs /\ y \notin Replaced(docs, e, n)
        \/ \E x \in Demoted(docs, e, n) : y = [x EXCEPT !.cur = FALSE]
        \/ y = Own(e, n)
  BY <1>4
<1>6. (y \in docs /\ y \notin Replaced(docs, e, n)) <=> y \in docs /\ Stays(e, y)
  BY <1>3 DEF Stays
<1>7. (\E x \in Demoted(docs, e, n) : y = [x EXCEPT !.cur = FALSE]) <=> WrittenBack(docs, e, y)
  BY <1>2 DEF WrittenBack
<1> QED BY <1>5, <1>6, <1>7

LEMMA DocumentFacts ==
    /\ \A x \in Documents : /\ [x EXCEPT !.cur = FALSE] \in Documents
                            /\ [x EXCEPT !.cur = FALSE].obj = x.obj
                            /\ [x EXCEPT !.cur = FALSE].rev = x.rev
                            /\ [x EXCEPT !.cur = FALSE].cap = x.cap
                            /\ [x EXCEPT !.cur = FALSE].cur = FALSE
                            /\ x.cur \in BOOLEAN /\ x.cap \in Nat
<1>1. \A x \in Documents : /\ [x EXCEPT !.cur = FALSE] \in Documents
                           /\ [x EXCEPT !.cur = FALSE].obj = x.obj
                           /\ [x EXCEPT !.cur = FALSE].rev = x.rev
                           /\ [x EXCEPT !.cur = FALSE].cap = x.cap
  BY DEF Documents
<1>2. \A x \in Documents : [x EXCEPT !.cur = FALSE].cur = FALSE
  BY DEF Documents
<1>3. \A x \in Documents : x.cur \in BOOLEAN /\ x.cap \in Nat
  BY SearchAssumption DEF Documents
<1> QED BY <1>1, <1>2, <1>3

LEMMA WrittenBackFacts ==
    ASSUME NEW docs \in SUBSET Documents, NEW e \in Event
    PROVE  /\ \A y : WrittenBack(docs, e, y) =>
                /\ e.head /\ ~y.cur
                /\ \E x \in docs : /\ x.obj = e.obj /\ x.rev # e.rev /\ x.cur
                                   /\ y.obj = x.obj /\ y.rev = x.rev /\ y.cap = x.cap
           /\ \A x \in docs : x.obj = e.obj /\ x.rev # e.rev /\ x.cur /\ e.head =>
                \E y : WrittenBack(docs, e, y) /\ y.obj = x.obj /\ y.cap = x.cap
<1>1. ASSUME NEW y, WrittenBack(docs, e, y)
      PROVE  /\ e.head /\ ~y.cur
             /\ \E x \in docs : /\ x.obj = e.obj /\ x.rev # e.rev /\ x.cur
                                /\ y.obj = x.obj /\ y.rev = x.rev /\ y.cap = x.cap
  <2>1. PICK x \in docs : /\ x.obj = e.obj /\ x.rev # e.rev /\ x.cur /\ e.head
                          /\ y = [x EXCEPT !.cur = FALSE]
    BY <1>1 DEF WrittenBack
  <2>2. y.obj = x.obj /\ y.rev = x.rev /\ y.cap = x.cap /\ y.cur = FALSE
    BY <2>1, DocumentFacts
  <2> QED BY <2>1, <2>2
<1>2. ASSUME NEW x \in docs, x.obj = e.obj, x.rev # e.rev, x.cur, e.head
      PROVE  \E y : WrittenBack(docs, e, y) /\ y.obj = x.obj /\ y.cap = x.cap
  <2>1. WrittenBack(docs, e, [x EXCEPT !.cur = FALSE])
    BY <1>2 DEF WrittenBack
  <2>2. [x EXCEPT !.cur = FALSE].obj = x.obj /\ [x EXCEPT !.cur = FALSE].cap = x.cap
    BY DocumentFacts
  <2> QED BY <2>1, <2>2
<1> QED BY <1>1, <1>2

LEMMA OwnFacts ==
    ASSUME NEW e \in Event, NEW n
    PROVE  /\ Own(e, n).obj = e.obj /\ Own(e, n).rev = e.rev /\ Own(e, n).cap = n
           /\ Own(e, n).cur <=> e.head
<1>1. Own(e, n).obj = e.obj /\ Own(e, n).rev = e.rev /\ Own(e, n).cap = n
  BY DEF Own
<1>2. Own(e, n).cur = e.head
  BY DEF Own
<1> QED BY <1>1, <1>2

\* An event of another object changes nothing of this one.
LEMMA OtherObject ==
    ASSUME NEW events, NEW docs \in SUBSET Documents, NEW m \in Nat, NEW o,
           events[m + 1] \in Event, events[m + 1].obj # o,
           \A x \in docs : x.cap \in 1..m,
           Replays(events, docs, m, o),
           NEW new,
           new = IF events[m + 1].withdrawn THEN RemoveObject(docs, events[m + 1].obj)
                 ELSE ApplyCapture(docs, events[m + 1], m + 1)
    PROVE  Replays(events, new, m + 1, o)
<1> DEFINE n == m + 1
           e == events[n]
<1>1. CapturesIn(events, o, n) = CapturesIn(events, o, m)
  BY DEF CapturesIn
<1>2. WithdrawnIn(events, o, n) <=> WithdrawnIn(events, o, m)
  BY DEF WithdrawnIn
<1>3. /\ HeadIn(events, o, n) = HeadIn(events, o, m)
      /\ LatestIn(events, o, n) = LatestIn(events, o, m)
  BY <1>1 DEF HeadIn, LatestIn
<1>4. n \in Nat /\ \A x \in docs : x.cap # n
  OBVIOUS
<1>5. \A x : x \in new /\ x.obj = o <=> x \in docs /\ x.obj = o
  <2> SUFFICES ASSUME NEW x PROVE x \in new /\ x.obj = o <=> x \in docs /\ x.obj = o
    OBVIOUS
  <2>1. CASE e.withdrawn
    BY <2>1 DEF RemoveObject
  <2>2. CASE ~e.withdrawn
    <3>1. new = ApplyCapture(docs, e, n)
      BY <2>2
    <3>2. e \in Event /\ e.obj # o
      OBVIOUS
    <3> HIDE DEF e, n
    <3>3. x \in new <=>
             (x \in docs /\ Stays(e, x)) \/ WrittenBack(docs, e, x) \/ x = Own(e, n)
      BY <1>4, <3>1, <3>2, ApplyCaptureDocs
    <3>4. WrittenBack(docs, e, x) => x.obj = e.obj
      BY <3>2, WrittenBackFacts
    <3>5. x = Own(e, n) => x.obj = e.obj
      BY <3>2, OwnFacts
    <3>6. x.obj = o => Stays(e, x)
      BY <3>2 DEF Stays
    <3> QED BY <3>2, <3>3, <3>4, <3>5, <3>6
  <2> QED BY <2>1, <2>2
<1> HIDE DEF n, e
<1>6. Replays(events, new, n, o)
  BY <1>1, <1>2, <1>3, <1>5 DEF Replays
<1> QED BY <1>6 DEF n

\* A withdrawal leaves nothing of its object.
LEMMA WithdrawnObject ==
    ASSUME NEW events, NEW docs, NEW m \in Nat, NEW o,
           events[m + 1].withdrawn, events[m + 1].obj = o
    PROVE  Replays(events, RemoveObject(docs, o), m + 1, o)
<1>1. WithdrawnIn(events, o, m + 1)
  BY DEF WithdrawnIn
<1> QED BY <1>1 DEF Replays, RemoveObject

\* A capture that becomes the HEAD.
LEMMA HeadCaptured ==
    ASSUME NEW events, NEW docs \in SUBSET Documents, NEW m \in Nat, NEW e \in Event,
           events[m + 1] = e, ~e.withdrawn, e.head, ~WithdrawnIn(events, e.obj, m),
           Faithful(events, docs, m), Replays(events, docs, m, e.obj)
    PROVE  Replays(events, ApplyCapture(docs, e, m + 1), m + 1, e.obj)
<1> DEFINE n == m + 1
           o == e.obj
           new == ApplyCapture(docs, e, n)
           own == Own(e, n)
<1>1. CapturesIn(events, o, n) = CapturesIn(events, o, m) \cup {n}
  BY DEF CapturesIn
<1>2. ~WithdrawnIn(events, o, n)
  BY DEF WithdrawnIn
<1>3. \A i \in CapturesIn(events, o, m) : i \in Nat /\ i < n
  BY DEF CapturesIn
<1>4. HeadIn(events, o, n) = {n}
  BY <1>1, <1>3 DEF HeadIn
<1>5. LatestIn(events, o, n) = {n} \cup {i \in LatestIn(events, o, m) : events[i].rev # e.rev}
  <2> HIDE DEF n, o
  <2>0. n \in Nat /\ events[n] = e
    BY DEF n
  <2>1. \A i \in CapturesIn(events, o, m) : i # n /\ ~(n <= i)
    BY <1>3, <2>0
  <2> QED BY <1>1, <1>3, <2>0, <2>1 DEF LatestIn
<1>6. n \in Nat /\ \A x \in docs : x.cap # n
  BY DEF Faithful
<1>7. own.obj = o /\ own.rev = e.rev /\ own.cap = n /\ own.cur
  BY OwnFacts
<1> HIDE DEF n, own, o
<1>8. \A y : y \in new <=>
        (y \in docs /\ Stays(e, y)) \/ WrittenBack(docs, e, y) \/ y = own
  BY <1>6, ApplyCaptureDocs DEF own
<1>9. /\ \A y : Stays(e, y) /\ y.obj = o => y.rev # e.rev /\ ~y.cur
      /\ \A y : y.obj = o /\ y.rev # e.rev /\ ~y.cur => Stays(e, y)
  BY DEF Stays, o
<1> HIDE DEF new
<1>10. \A y : WrittenBack(docs, e, y) =>
         /\ ~y.cur
         /\ \E x \in docs : /\ x.obj = o /\ x.rev # e.rev /\ x.cur
                            /\ y.obj = x.obj /\ y.rev = x.rev /\ y.cap = x.cap
  BY WrittenBackFacts DEF o
<1>11. \A x \in docs : x.obj = o /\ x.rev # e.rev /\ x.cur =>
         \E y : WrittenBack(docs, e, y) /\ y.obj = o /\ y.cap = x.cap
  BY WrittenBackFacts DEF o
<1>12. /\ \A x \in docs : x.obj = o /\ x.cur => x.cap \in HeadIn(events, o, m)
       /\ \A i \in LatestIn(events, o, m) : \E x \in docs : x.obj = o /\ x.cap = i
       /\ \A x \in docs : x.obj = o /\ x.cap \notin LatestIn(events, o, m) =>
               x.cap \in CapturesIn(events, o, m) /\ events[x.cap].head
  BY DEF Replays, o
<1>13. \A x \in new : x.obj = o /\ x.cur => x.cap \in HeadIn(events, o, n)
  BY <1>4, <1>7, <1>8, <1>9, <1>10
<1>14. \A i \in HeadIn(events, o, n) : \E x \in new : x.obj = o /\ x.cap = i /\ x.cur
  BY <1>4, <1>7, <1>8
<1>15. ASSUME NEW i \in LatestIn(events, o, n) PROVE \E x \in new : x.obj = o /\ x.cap = i
  <2>1. CASE i = n
    BY <1>7, <1>8, <2>1
  <2>2. CASE i # n
    <3>1. PICK x \in docs : x.obj = o /\ x.cap = i
      BY <1>5, <1>12, <2>2
    <3>2. x.rev # e.rev
      BY <1>5, <2>2, <3>1 DEF Faithful
    <3>3. CASE x.cur
      <4>1. PICK y : WrittenBack(docs, e, y) /\ y.obj = o /\ y.cap = x.cap
        BY <1>11, <3>1, <3>2, <3>3
      <4>2. y \in new
        BY <1>8, <4>1
      <4> QED BY <3>1, <4>1, <4>2
    <3>4. CASE ~x.cur
      BY <1>8, <1>9, <3>1, <3>2, <3>4
    <3> QED BY <3>3, <3>4
  <2> QED BY <2>1, <2>2
<1>16. ASSUME NEW x \in new, x.obj = o, x.cap \notin LatestIn(events, o, n)
       PROVE  x.cap \in CapturesIn(events, o, n) /\ events[x.cap].head
  <2>1. x # own
    BY <1>5, <1>7, <1>16
  <2>2. PICK y \in docs : y.obj = o /\ y.cap = x.cap /\ y.rev # e.rev
    BY <1>8, <1>9, <1>10, <1>16, <2>1
  <2>3. events[y.cap].rev # e.rev
    BY <2>2 DEF Faithful
  <2>4. y.cap \notin LatestIn(events, o, m)
    BY <1>5, <1>16, <2>2, <2>3
  <2> QED BY <1>1, <1>12, <2>2, <2>4
<1>17. Replays(events, new, n, o)
  BY <1>2, <1>13, <1>14, <1>15, <1>16 DEF Replays
<1> QED BY <1>17 DEF n, o, new

\* A capture that is not the HEAD, of any revision.
LEMMA HistoryCaptured ==
    ASSUME NEW events, NEW docs \in SUBSET Documents, NEW m \in Nat, NEW e \in Event,
           events[m + 1] = e, ~e.withdrawn, ~e.head, ~WithdrawnIn(events, e.obj, m),
           Faithful(events, docs, m), Replays(events, docs, m, e.obj)
    PROVE  Replays(events, ApplyCapture(docs, e, m + 1), m + 1, e.obj)
<1> DEFINE n == m + 1
           o == e.obj
           new == ApplyCapture(docs, e, n)
           own == Own(e, n)
<1>1. CapturesIn(events, o, n) = CapturesIn(events, o, m) \cup {n}
  BY DEF CapturesIn
<1>2. ~WithdrawnIn(events, o, n)
  BY DEF WithdrawnIn
<1>3. \A i \in CapturesIn(events, o, m) : i \in Nat /\ i < n
  BY DEF CapturesIn
<1>4. HeadIn(events, o, n) = HeadIn(events, o, m)
  BY <1>1, <1>3 DEF HeadIn
<1>5. LatestIn(events, o, n) = {n} \cup {i \in LatestIn(events, o, m) : events[i].rev # e.rev}
  <2> HIDE DEF n, o
  <2>0. n \in Nat /\ events[n] = e
    BY DEF n
  <2>1. \A i \in CapturesIn(events, o, m) : i # n /\ ~(n <= i)
    BY <1>3, <2>0
  <2> QED BY <1>1, <1>3, <2>0, <2>1 DEF LatestIn
<1>6. n \in Nat /\ \A x \in docs : x.cap # n
  BY DEF Faithful
<1>7. own.obj = o /\ own.rev = e.rev /\ own.cap = n /\ ~own.cur
  BY OwnFacts
<1> HIDE DEF n, own, o
<1>8. \A y : ~WrittenBack(docs, e, y)
  BY WrittenBackFacts
<1>9. \A y : y \in new <=> y = own \/ (y \in docs /\ (y.obj = o /\ y.rev = e.rev => y.cur))
  <2>1. \A y : y \in new <=>
          (y \in docs /\ Stays(e, y)) \/ WrittenBack(docs, e, y) \/ y = own
    BY <1>6, ApplyCaptureDocs DEF own
  <2>2. \A y : Stays(e, y) <=> (y.obj = o /\ y.rev = e.rev => y.cur)
    BY DEF Stays, o
  <2> QED BY <1>8, <2>1, <2>2
<1> HIDE DEF new
<1>10. /\ \A x \in docs : x.obj = o /\ x.cur => x.cap \in HeadIn(events, o, m)
       /\ \A i \in HeadIn(events, o, m) : \E x \in docs : x.obj = o /\ x.cap = i /\ x.cur
       /\ \A i \in LatestIn(events, o, m) : \E x \in docs : x.obj = o /\ x.cap = i
       /\ \A x \in docs : x.obj = o /\ x.cap \notin LatestIn(events, o, m) =>
               x.cap \in CapturesIn(events, o, m) /\ events[x.cap].head
  BY DEF Replays, o
<1>11. \A x \in new : x.obj = o /\ x.cur => x.cap \in HeadIn(events, o, n)
  BY <1>4, <1>7, <1>9, <1>10
<1>12. \A i \in HeadIn(events, o, n) : \E x \in new : x.obj = o /\ x.cap = i /\ x.cur
  BY <1>4, <1>9, <1>10
<1>13. ASSUME NEW i \in LatestIn(events, o, n) PROVE \E x \in new : x.obj = o /\ x.cap = i
  <2>1. CASE i = n
    BY <1>7, <1>9, <2>1
  <2>2. CASE i # n
    <3>1. PICK x \in docs : x.obj = o /\ x.cap = i
      BY <1>5, <1>10, <2>2
    <3>2. x.rev # e.rev
      BY <1>5, <2>2, <3>1 DEF Faithful
    <3> QED BY <1>9, <3>1, <3>2
  <2> QED BY <2>1, <2>2
<1>14. ASSUME NEW x \in new, x.obj = o, x.cap \notin LatestIn(events, o, n)
       PROVE  x.cap \in CapturesIn(events, o, n) /\ events[x.cap].head
  <2>1. x \in docs /\ (x.rev = e.rev => x.cur)
    BY <1>5, <1>7, <1>9, <1>14
  <2>2. CASE x.cur
    <3>1. x.cap \in HeadIn(events, o, m)
      BY <1>10, <1>14, <2>1, <2>2
    <3> QED BY <1>1, <3>1 DEF HeadIn
  <2>3. CASE ~x.cur
    <3>1. events[x.cap].rev # e.rev
      BY <2>1, <2>3 DEF Faithful
    <3>2. x.cap \notin LatestIn(events, o, m)
      BY <1>5, <1>14, <3>1
    <3> QED BY <1>1, <1>10, <1>14, <2>1, <3>2
  <2> QED BY <2>2, <2>3
<1>15. Replays(events, new, n, o)
  BY <1>2, <1>11, <1>12, <1>13, <1>14 DEF Replays
<1> QED BY <1>15 DEF n, o, new

\* One event applied keeps both, for every object.
LEMMA EventReplayed ==
    ASSUME NEW events, NEW docs \in SUBSET Documents, NEW m \in Nat, NEW e \in Event,
           events[m + 1] = e,
           Faithful(events, docs, m), \A o \in Objects : Replays(events, docs, m, o),
           ~e.withdrawn => ~WithdrawnIn(events, e.obj, m),
           NEW new,
           new = IF e.withdrawn THEN RemoveObject(docs, e.obj) ELSE ApplyCapture(docs, e, m + 1)
    PROVE  /\ Faithful(events, new, m + 1)
           /\ \A o \in Objects : Replays(events, new, m + 1, o)
<1>1. \A x \in docs : x.cap \in 1..m /\ x.cap # m + 1 /\ x.cap \in 1..(m + 1)
  BY DEF Faithful
<1>2. Faithful(events, new, m + 1)
  <2>1. CASE e.withdrawn
    BY <1>1, <2>1 DEF Faithful, RemoveObject
  <2>2. CASE ~e.withdrawn
    <3>1. m + 1 \in Nat /\ m + 1 \in 1..(m + 1)
      OBVIOUS
    <3> DEFINE n == m + 1
    <3> HIDE DEF n
    <3>2. \A y : y \in new <=>
             (y \in docs /\ Stays(e, y)) \/ WrittenBack(docs, e, y) \/ y = Own(e, n)
      BY <1>1, <2>2, <3>1, ApplyCaptureDocs DEF n
    <3>3. ASSUME NEW y \in new PROVE /\ y.cap \in 1..n /\ ~events[y.cap].withdrawn
                                     /\ events[y.cap].obj = y.obj /\ events[y.cap].rev = y.rev
      <4>1. CASE y \in docs
        BY <1>1, <4>1 DEF Faithful, n
      <4>2. CASE WrittenBack(docs, e, y)
        <5>1. PICK x \in docs : y.obj = x.obj /\ y.rev = x.rev /\ y.cap = x.cap
          BY <4>2, WrittenBackFacts
        <5> QED BY <1>1, <5>1 DEF Faithful, n
      <4>3. CASE y = Own(e, n)
        <5>1. y.obj = e.obj /\ y.rev = e.rev /\ y.cap = n
          BY <4>3, OwnFacts
        <5>2. events[n] = e /\ n \in 1..n
          BY DEF n
        <5> QED BY <2>2, <5>1, <5>2
      <4> QED BY <3>2, <4>1, <4>2, <4>3
    <3> QED BY <3>3 DEF Faithful, n
  <2> QED BY <2>1, <2>2
<1>3. ASSUME NEW o \in Objects PROVE Replays(events, new, m + 1, o)
  <2>1. CASE e.obj # o
    <3>1. events[m + 1] \in Event /\ events[m + 1].obj # o
      BY <2>1
    <3>2. new = IF events[m + 1].withdrawn THEN RemoveObject(docs, events[m + 1].obj)
                ELSE ApplyCapture(docs, events[m + 1], m + 1)
      OBVIOUS
    <3> QED BY <1>1, <3>1, <3>2, OtherObject
  <2>2. CASE e.obj = o /\ e.withdrawn
    BY <2>2, WithdrawnObject
  <2>3. CASE e.obj = o /\ ~e.withdrawn /\ e.head
    <3>1. new = ApplyCapture(docs, e, m + 1) /\ Replays(events, docs, m, e.obj)
      BY <2>3
    <3>2. Replays(events, ApplyCapture(docs, e, m + 1), m + 1, e.obj)
      BY <2>3, <3>1, HeadCaptured
    <3> QED BY <2>3, <3>1, <3>2
  <2>4. CASE e.obj = o /\ ~e.withdrawn /\ ~e.head
    <3>1. new = ApplyCapture(docs, e, m + 1) /\ Replays(events, docs, m, e.obj)
      BY <2>4
    <3>2. Replays(events, ApplyCapture(docs, e, m + 1), m + 1, e.obj)
      BY <2>4, <3>1, HistoryCaptured
    <3> QED BY <2>4, <3>1, <3>2
  <2> QED BY <2>1, <2>2, <2>3, <2>4
<1> QED BY <1>2, <1>3

\* An empty index is the empty prefix.
LEMMA EmptyIndex ==
    ASSUME NEW events, NEW o
    PROVE  Faithful(events, {}, 0) /\ Replays(events, {}, 0, o)
<1>1. CapturesIn(events, o, 0) = {} /\ ~WithdrawnIn(events, o, 0)
  BY DEF CapturesIn, WithdrawnIn
<1> QED BY <1>1 DEF Faithful, Replays, HeadIn, LatestIn

\* What any step does to the indexes.
LEMMA MovesStep ==
    ASSUME IndexInv, [Next]_vars
    PROVE  \A d \in Dirs : IndexMoves(d)
<1> USE DEF IndexInv
<1>1. dirs \in [Dirs -> Index] /\ \A d \in Dirs : dirs[d].gen \in Nat /\ dirs[d].gen <= Watermark
  BY DEF IndexTypes, Index, DirsOK
<1>2. Watermark \in Nat
  BY DEF IndexTypes, Watermark
<1>3. UNCHANGED dirs => \A d \in Dirs : IndexMoves(d)
  BY DEF IndexMoves
<1>4. ASSUME NEW d \in Dirs, NEW index, dirs' = [dirs EXCEPT ![d] = index],
             \/ index = dirs[d]
             \/ dirs[d].made /\ dirs[d].gen < Watermark /\ index = Applied(d)
             \/ ~dirs[d].made /\ index \in {Fresh, Created}
             \/ dirs[d].made /\ index = [dirs[d] EXCEPT !.complete = TRUE]
      PROVE  \A x \in Dirs : IndexMoves(x)
  <2>1. dirs'[d] = index /\ \A x \in Dirs \ {d} : dirs'[x] = dirs[x]
    BY <1>1, <1>4
  <2> QED BY <1>4, <2>1 DEF IndexMoves
<1>5. ASSUME NEW d \in Dirs, Serve(d) \/ OpenRefused(d) PROVE \A x \in Dirs : IndexMoves(x)
  <2>1. dirs' = [dirs EXCEPT ![d] = Opened(d)]
    BY <1>5 DEF Serve, OpenRefused
  <2>2. Opened(d) = dirs[d] \/ (~dirs[d].made /\ Opened(d) = Created)
    BY DEF Opened
  <2> QED BY <1>4, <2>1, <2>2
<1>6. ASSUME ApplyIndexEvent PROVE \A d \in Dirs : IndexMoves(d)
  <2>1. server \in Serving /\ server # Down
    BY <1>6, DownFacts DEF ApplyIndexEvent, IndexTypes
  <2>2. server.dir \in Dirs /\ dirs[server.dir].complete /\ dirs[server.dir].gen < Watermark
    BY <1>6, <2>1 DEF Serving, ServerOK, ApplyIndexEvent
  <2>3. dirs[server.dir].made
    BY <2>2, IndexFacts DEF DirsOK
  <2> QED BY <1>4, <1>6, <2>2, <2>3 DEF ApplyIndexEvent
<1>7. ASSUME RebuildApply \/ FinishRebuild PROVE \A d \in Dirs : IndexMoves(d)
  <2>1. rebuild \in Rebuilding /\ rebuild # NoRebuild
    BY <1>7, DownFacts DEF RebuildApply, FinishRebuild, IndexTypes
  <2>2. /\ rebuild.dir \in Dirs /\ dirs[rebuild.dir].made /\ rebuild.target \in Nat
        /\ rebuild.upto \in Nat /\ rebuild.target <= Watermark
    BY <2>1 DEF Rebuilding, RebuildOK
  <2>3. CASE RebuildApply
    <3>1. dirs[rebuild.dir].gen < rebuild.upto /\ rebuild.upto <= rebuild.target
      BY <2>1, <2>3 DEF RebuildApply, RebuildOK
    <3>2. dirs[rebuild.dir].gen < Watermark
      BY <1>1, <1>2, <2>2, <3>1
    <3> QED BY <1>4, <2>2, <2>3, <3>2 DEF RebuildApply
  <2>4. CASE FinishRebuild
    <3>1. dirs' = [dirs EXCEPT ![rebuild.dir] = [dirs[rebuild.dir] EXCEPT !.complete = TRUE]]
      BY <1>1, <2>2, <2>4 DEF FinishRebuild
    <3> QED BY <1>4, <2>2, <3>1
  <2> QED BY <1>7, <2>3, <2>4
<1>8. ASSUME NEW d \in Dirs, RebuildStart(d) PROVE \A x \in Dirs : IndexMoves(x)
  BY <1>4, <1>8 DEF RebuildStart
<1>9. Events => UNCHANGED dirs
  BY DEF Events, Publish, Withdraw
<1>10. AcknowledgeIndex \/ AcknowledgeConflict \/ NextEvent \/ LeaseGone \/ Crash \/ LoseLease
         => UNCHANGED dirs
  BY DEF AcknowledgeIndex, AcknowledgeConflict, NextEvent, LeaseGone, Crash, LoseLease, Exit
<1>11. RebuildBatch \/ RebuildVerify \/ RebuildRefused \/ RebuildAcknowledge \/ RebuildDies
         => UNCHANGED dirs
  BY DEF RebuildBatch, RebuildVerify, RebuildRefused, RebuildAcknowledge, RebuildDies
<1>12. ASSUME NEW c \in Calls, CallStep(c) PROVE UNCHANGED dirs
  BY <1>12 DEF CallStep, PinSession, Scan, Recheck, Resolve, RenewLeases, Confirm, Fail
<1>13. \A c \in Calls, s \in Sessions, citable \in BOOLEAN : Search(c, s, citable) => dirs' = dirs
  BY DEF Search
<1>14. \A c \in Calls, s \in Sessions : Continue(c, s) => dirs' = dirs
  BY DEF Continue
<1>15. (\E s \in Sessions : Expire(s)) \/ (\E L \in SUBSET leases : Maintain(L))
         => UNCHANGED dirs
  BY DEF Expire, Maintain
<1>16. UNCHANGED vars => UNCHANGED dirs
  BY DEF vars
<1> QED BY <1>3, <1>5, <1>6, <1>7, <1>8, <1>9, <1>10, <1>11, <1>12, <1>13, <1>15, <1>16, <1>14
        DEF Next, ServerStep, RebuildStep

\* A publication needs an object that is not withdrawn.
LEMMA OutboxKept ==
    ASSUME IndexTypes, OutboxOK, [Next]_vars
    PROVE  OutboxOK'
<1>1. /\ Watermark \in Nat /\ Watermark' \in Nat /\ Watermark <= Watermark'
      /\ \A i \in 1..Watermark : outbox'[i] = outbox[i]
  BY OutboxPrefix DEF IndexTypes
<1>2. CASE outbox' = outbox
  BY <1>2 DEF OutboxOK, Watermark
<1>3. ASSUME NEW e \in Event, outbox' = Append(outbox, e),
             \/ e.withdrawn
             \/ \A i \in 1..Watermark : outbox[i].withdrawn => outbox[i].obj # e.obj
      PROVE  OutboxOK'
  <2>1. Watermark' = Watermark + 1 /\ outbox'[Watermark + 1] = e
    BY <1>3, OutboxGrows DEF IndexTypes
  <2>2. SUFFICES ASSUME NEW i \in 1..Watermark', NEW j \in 1..Watermark', i < j,
                        outbox'[i].withdrawn, outbox'[i].obj = outbox'[j].obj
                 PROVE  outbox'[j].withdrawn
    BY DEF OutboxOK
  <2>3. i \in 1..Watermark /\ outbox'[i] = outbox[i]
    BY <1>1, <2>1, <2>2
  <2>4. CASE j \in 1..Watermark
    BY <1>1, <2>2, <2>3, <2>4 DEF OutboxOK
  <2>5. CASE j = Watermark + 1
    BY <1>3, <2>1, <2>2, <2>3, <2>5
  <2> QED BY <1>1, <2>1, <2>2, <2>4, <2>5
<1>4. ASSUME NEW o \in Objects, NEW r \in Revs, NEW head \in BOOLEAN, Publish(o, r, head)
      PROVE  OutboxOK'
  <2>1. \A i \in 1..Watermark : outbox[i].withdrawn => outbox[i].obj # o
    BY <1>4 DEF Publish, Withdrawn, WithdrawnBy
  <2>2. outbox' = Append(outbox, Capture(o, r, head))
    BY <1>4 DEF Publish
  <2>3. Capture(o, r, head) \in Event /\ Capture(o, r, head).obj = o
    BY EventFacts
  <2> QED BY <1>3, <2>1, <2>2, <2>3
<1>5. ASSUME NEW o \in Objects, Withdraw(o) PROVE OutboxOK'
  <2>1. outbox' = Append(outbox, Withdrawal(o))
    BY <1>5 DEF Withdraw
  <2>2. Withdrawal(o) \in Event /\ Withdrawal(o).withdrawn
    BY EventFacts
  <2> QED BY <1>3, <2>1, <2>2
<1> QED BY <1>2, <1>4, <1>5, OutboxStep

LEMMA DocsStep ==
    ASSUME IndexInv, DocsInv, [Next]_vars
    PROVE  DocsInv'
<1> DEFINE Good(events, index) ==
               /\ Faithful(events, index.docs, index.gen)
               /\ \A o \in Objects : Replays(events, index.docs, index.gen, o)
<1>1. /\ Watermark \in Nat /\ \A i \in 1..Watermark : outbox'[i] = outbox[i] /\ outbox[i] \in Event
  BY OutboxPrefix DEF IndexInv, IndexTypes
<1>2. \A d \in Dirs : /\ dirs[d] \in Index /\ dirs[d].docs \in SUBSET Documents
                      /\ dirs[d].gen \in Nat /\ dirs[d].gen <= Watermark
  BY DEF IndexInv, IndexTypes, Index, DirsOK
<1>3. \A d \in Dirs : IndexMoves(d)
  BY MovesStep
<1>4. \A d \in Dirs : Good(outbox, dirs[d])
  BY ReplaysIsIndexReplaysOutbox DEF DocsInv, DocsOK, Faithful
<1>5. ASSUME NEW d \in Dirs PROVE Good(outbox', dirs'[d])
  <2>1. ASSUME NEW index \in Index, index.gen <= Watermark, Good(outbox, index)
        PROVE  Good(outbox', index)
    <3>1. index.gen \in Nat /\ \A i \in 1..index.gen : outbox[i] = outbox'[i]
      BY <1>1, <2>1 DEF Index
    <3> QED BY <2>1, <3>1, ReplaysOfPrefix
  <2>2. CASE dirs'[d] = dirs[d]
    BY <1>2, <1>4, <2>1, <2>2
  <2>3. CASE dirs[d].made /\ dirs[d].gen < Watermark /\ dirs'[d] = Applied(d)
    <3> DEFINE m == dirs[d].gen
               docs == dirs[d].docs
               e == outbox[m + 1]
               new == IF e.withdrawn THEN RemoveObject(docs, e.obj)
                                     ELSE ApplyCapture(docs, e, m + 1)
    <3>1. Applied(d) \in Index /\ Applied(d).gen = m + 1
      BY <2>3, AppliedFacts DEF IndexInv
    <3>2. Applied(d).docs = new
      BY <1>2 DEF Applied, Index
    <3>3. m \in Nat /\ m + 1 \in 1..Watermark /\ e \in Event
      BY <1>1, <1>2, <2>3
    <3>4. ~e.withdrawn => ~WithdrawnIn(outbox, e.obj, m)
      <4>1. \A i \in 1..m : i \in 1..Watermark /\ i < m + 1
        BY <1>1, <3>3
      <4> HIDE DEF m
      <4> QED BY <3>3, <4>1 DEF WithdrawnIn, DocsInv, OutboxOK
    <3>5. docs \in SUBSET Documents /\ Good(outbox, dirs[d])
      BY <1>2, <1>4
    <3>6. Faithful(outbox, docs, m) /\ \A o \in Objects : Replays(outbox, docs, m, o)
      BY <3>5
    <3> HIDE DEF m, docs, e, new, Good
    <3>7. Faithful(outbox, new, m + 1) /\ \A o \in Objects : Replays(outbox, new, m + 1, o)
      <4>1. outbox[m + 1] = e
        BY DEF e
      <4>2. new = IF e.withdrawn THEN RemoveObject(docs, e.obj) ELSE ApplyCapture(docs, e, m + 1)
        BY DEF new
      <4> QED BY <3>3, <3>4, <3>5, <3>6, <4>1, <4>2, EventReplayed
    <3>8. Good(outbox, Applied(d))
      BY <3>1, <3>2, <3>7 DEF Good
    <3>9. m + 1 <= Watermark
      BY <1>1, <3>3
    <3> QED BY <2>1, <2>3, <3>1, <3>8, <3>9
  <2>4. CASE ~dirs[d].made /\ dirs'[d] \in {Fresh, Created}
    <3>1. dirs'[d].gen = 0 /\ dirs'[d].docs = {}
      BY <2>4, IndexFacts
    <3> QED BY <3>1, EmptyIndex
  <2>5. CASE dirs[d].made /\ dirs'[d] = [dirs[d] EXCEPT !.complete = TRUE]
    <3>1. dirs'[d].gen = dirs[d].gen /\ dirs'[d].docs = dirs[d].docs
      BY <1>2, <2>5 DEF Index
    <3>2. Good(outbox', dirs[d])
      BY <1>2, <1>4, <2>1
    <3> QED BY <3>1, <3>2
  <2> QED BY <1>3, <2>2, <2>3, <2>4, <2>5 DEF IndexMoves
<1>6. DocsOK'
  BY <1>5 DEF DocsOK, Faithful
<1>7. \A d \in Dirs, o \in Objects : Replays(outbox', dirs'[d].docs, dirs'[d].gen, o)
  BY <1>5
<1>8. IndexReplaysOutbox'
  <2>1. (\A d \in Dirs, o \in Objects : Replays(outbox, dirs[d].docs, dirs[d].gen, o))'
    BY <1>7
  <2> QED BY <2>1, ReplaysIsIndexReplaysOutbox, PTL
<1>9. OutboxOK'
  BY OutboxKept DEF IndexInv, DocsInv
<1> QED BY <1>6, <1>8, <1>9 DEF DocsInv

LEMMA DocsInit == Init => DocsInv
<1> SUFFICES ASSUME Init PROVE DocsInv
  OBVIOUS
<1>1. Watermark = 0
  BY DEF Init, Watermark
<1>2. \A d \in Dirs : dirs[d].gen = 0 /\ dirs[d].docs = {}
  BY IndexFacts DEF Init, Absent
<1>3. OutboxOK /\ DocsOK
  BY <1>1, <1>2 DEF OutboxOK, DocsOK
<1>4. IndexReplaysOutbox
  BY <1>2, EmptyIndex, ReplaysIsIndexReplaysOutbox
<1> QED BY <1>3, <1>4 DEF DocsInv

\* IndexReplaysOutbox: every index, however its process grew or rebuilt it, is its
\* generation's prefix of the outbox, for any number of objects, revisions, events,
\* directories, crashes and rebuilds (apply_capture_with_budget, apply_withdrawal).
THEOREM IndexesReplay == Spec => []IndexReplaysOutbox
<1>1. Init => IndexInv /\ DocsInv
  BY IndexInit, DocsInit
<1>2. IndexInv /\ DocsInv /\ [Next]_vars => IndexInv' /\ DocsInv'
  BY IndexStep, DocsStep
<1>3. DocsInv => IndexReplaysOutbox
  BY DEF DocsInv
<1> QED BY <1>1, <1>2, <1>3, PTL DEF Spec

------------------------------------------------------------------------------
(* Searches and withdrawals.                                                *)

LEMMA IdleFacts ==
    /\ Idle \in CallRecords /\ Idle.pc = "idle" /\ Idle.sess = None
    /\ Returned \in CallRecords /\ Returned.pc = "page" /\ Returned.sess = None
<1>1. Idle \in CallRecords /\ Idle.pc = "idle" /\ Idle.sess = None
  BY DEF Idle, CallRecords, CallStates
<1> QED BY <1>1 DEF Returned, Idle, CallRecords, CallStates

\* One call moves: what its new record must satisfy, beside the invariants.
LEMMA CallMoves ==
    ASSUME SearchInv, NEW c \in Calls, NEW r \in CallRecords,
           calls' = [calls EXCEPT ![c] = r], outbox' = outbox,
           pins' \subseteq Sessions, sessions' \in [Sessions -> Snapshots \cup {None}],
           leases' \subseteq Objects, LeasesOK',
           r.pc \notin {"idle", "page"} => r.sess \in Sessions,
           \A b \in Calls \ {c} : calls[b].pc = "pin" =>
               r.sess # calls[b].sess /\ sessions'[calls[b].sess] = None,
           r.pc = "pin" => /\ sessions'[r.sess] = None
                           /\ \A b \in Calls \ {c} : calls[b].sess # r.sess,
           \A s \in pins' : sessions'[s] # None => Unrevoked(outbox, sessions'[s].gen, Watermark),
           \A b \in Calls \ {c} :
               calls[b].pc \notin {"idle", "page", "pin"} /\ calls[b].sess \in pins' =>
                   Unrevoked(outbox, calls[b].gen, Watermark),
           r.pc \notin {"idle", "page", "pin"} /\ r.sess \in pins' =>
               Unrevoked(outbox, r.gen, Watermark),
           r.pc \in {"resolve", "lease", "confirm"} =>
               r.seen <= Watermark /\ Unrevoked(outbox, r.gen, r.seen)
    PROVE  SearchInv'
<1> USE DEF SearchInv
<1>1. calls \in [Calls -> CallRecords]
  BY DEF SearchTypes
<1>2. calls' \in [Calls -> CallRecords] /\ calls'[c] = r
  BY <1>1
<1>3. \A b \in Calls \ {c} : calls'[b] = calls[b]
  BY <1>1
<1>4. Watermark' = Watermark
  BY DEF Watermark
<1>5. SearchTypes'
  BY <1>2, <1>3 DEF SearchTypes
<1>6. PinOK'
  <2> SUFFICES ASSUME NEW b \in Calls, calls'[b].pc = "pin"
               PROVE  /\ sessions'[calls'[b].sess] = None
                      /\ \A a \in Calls \ {b} : calls'[a].sess # calls'[b].sess
    BY DEF PinOK
  <2>1. CASE b = c
    BY <1>2, <1>3, <2>1
  <2>2. CASE b # c
    <3>1. calls'[b] = calls[b] /\ \A a \in Calls \ {b} : calls[a].sess # calls[b].sess
      BY <1>3, <2>2 DEF PinOK
    <3> QED BY <1>2, <1>3, <2>2, <3>1
  <2> QED BY <2>1, <2>2
<1>7. SnapshotsOK'
  <2>1. \A s \in pins' : sessions'[s] # None => Unrevoked(outbox', sessions'[s].gen, Watermark')
    BY <1>4
  <2>2. ASSUME NEW b \in Calls, calls'[b].pc \notin {"idle", "page", "pin"},
               calls'[b].sess \in pins'
        PROVE  Unrevoked(outbox', calls'[b].gen, Watermark')
    BY <1>2, <1>3, <1>4, <2>2
  <2>3. ASSUME NEW b \in Calls, calls'[b].pc \in {"resolve", "lease", "confirm"}
        PROVE  calls'[b].seen <= Watermark' /\ Unrevoked(outbox', calls'[b].gen, calls'[b].seen)
    BY <1>2, <1>3, <1>4, <2>3 DEF SnapshotsOK
  <2> QED BY <2>1, <2>2, <2>3 DEF SnapshotsOK
<1> QED BY <1>5, <1>6, <1>7

\* A step that leaves the outbox and the withdrawn objects alone.
LEMMA LeasesKept ==
    ASSUME LeasesOK, outbox' = outbox, \A o \in leases' : ~Withdrawn(o)
    PROVE  LeasesOK'
BY DEF LeasesOK, Withdrawn, WithdrawnBy, Watermark

LEMMA CallFacts ==
    ASSUME SearchInv, NEW c \in Calls
    PROVE  /\ calls[c] \in CallRecords /\ calls[c].pc \in CallStates
           /\ calls[c].gen \in Nat /\ calls[c].docs \in SUBSET Documents
           /\ calls[c].hits \in SUBSET Objects /\ calls[c].seen \in Nat
           /\ calls[c].pc \notin {"idle", "page"} => calls[c].sess \in Sessions
<1>1. calls[c] \in CallRecords
  BY DEF SearchInv, SearchTypes
<1> QED BY <1>1 DEF CallRecords, SearchInv, SearchTypes

\* A new session: nobody else has it, and it is not pinned.
LEMMA SearchKept ==
    ASSUME IndexInv, SearchInv, NEW c \in Calls, NEW s \in Sessions, NEW citable \in BOOLEAN,
           Search(c, s, citable)
    PROVE  SearchInv'
<1> DEFINE r == [Idle EXCEPT !.pc = "pin", !.sess = s, !.fresh = TRUE, !.citable = citable,
                             !.gen = dirs[server.dir].gen, !.docs = dirs[server.dir].docs]
<1>1. server \in Serving
  BY DownFacts DEF Search, Ready, IndexInv, IndexTypes
<1>2. dirs[server.dir] \in Index
  BY <1>1 DEF Serving, IndexInv, IndexTypes
<1>3. dirs[server.dir].gen \in Nat /\ dirs[server.dir].docs \in SUBSET Documents
  BY <1>2 DEF Index
<1>4. r \in CallRecords /\ r.pc = "pin" /\ r.sess = s
  BY <1>3 DEF Idle, CallRecords, CallStates
<1>5. /\ calls' = [calls EXCEPT ![c] = r] /\ sessions[s] = None
      /\ \A b \in Calls \ {c} : calls[b].sess # s
      /\ UNCHANGED <<outbox, pins, leases, sessions>>
  BY DEF Search, database
<1> HIDE DEF r
<1>6. LeasesOK'
  BY <1>5, LeasesKept DEF SearchInv, LeasesOK
<1>7. /\ pins \subseteq Sessions /\ sessions \in [Sessions -> Snapshots \cup {None}]
      /\ leases \subseteq Objects
  BY DEF SearchInv, SearchTypes
<1>8. \A b \in Calls \ {c} : calls[b].pc = "pin" => sessions[calls[b].sess] = None
  BY DEF SearchInv, PinOK
<1>9. /\ \A x \in pins : sessions[x] # None => Unrevoked(outbox, sessions[x].gen, Watermark)
      /\ \A b \in Calls \ {c} :
            calls[b].pc \notin {"idle", "page", "pin"} /\ calls[b].sess \in pins =>
                Unrevoked(outbox, calls[b].gen, Watermark)
  BY DEF SearchInv, SnapshotsOK
<1>10. /\ pins' \subseteq Sessions /\ sessions' \in [Sessions -> Snapshots \cup {None}]
       /\ leases' \subseteq Objects /\ outbox' = outbox
       /\ \A b \in Calls \ {c} : calls[b].pc = "pin" =>
             r.sess # calls[b].sess /\ sessions'[calls[b].sess] = None
       /\ sessions'[r.sess] = None /\ \A b \in Calls \ {c} : calls[b].sess # r.sess
       /\ \A x \in pins' : sessions'[x] # None => Unrevoked(outbox, sessions'[x].gen, Watermark)
       /\ \A b \in Calls \ {c} :
            calls[b].pc \notin {"idle", "page", "pin"} /\ calls[b].sess \in pins' =>
                Unrevoked(outbox, calls[b].gen, Watermark)
  BY <1>4, <1>5, <1>7, <1>8, <1>9
<1>11. calls' = [calls EXCEPT ![c] = r]
  BY <1>5
<1> QED BY <1>4, <1>6, <1>10, <1>11, CallMoves

\* A cursor's session is no call's new session, and its snapshot is as fresh as its pin.
LEMMA ContinueKept ==
    ASSUME IndexInv, SearchInv, NEW c \in Calls, NEW s \in Sessions, Continue(c, s)
    PROVE  SearchInv'
<1> DEFINE r == [Idle EXCEPT !.pc = "scan", !.sess = s,
                             !.gen = sessions[s].gen, !.docs = sessions[s].docs]
<1>1. /\ pins \subseteq Sessions /\ sessions \in [Sessions -> Snapshots \cup {None}]
      /\ leases \subseteq Objects
  BY DEF SearchInv, SearchTypes
<1>2. sessions[s] # None /\ sessions[s] \in Snapshots
  BY <1>1 DEF Continue
<1>3. sessions[s].gen \in Nat /\ sessions[s].docs \in SUBSET Documents
  BY <1>2 DEF Snapshots
<1>4. r \in CallRecords /\ r.pc = "scan" /\ r.sess = s /\ r.gen = sessions[s].gen
  BY <1>3 DEF Idle, CallRecords, CallStates
<1>5. calls' = [calls EXCEPT ![c] = r] /\ UNCHANGED <<outbox, pins, leases, sessions>>
  BY DEF Continue, database
<1> HIDE DEF r
<1>6. LeasesOK'
  BY <1>5, LeasesKept DEF SearchInv, LeasesOK
<1>7. \A b \in Calls \ {c} : calls[b].pc = "pin" =>
          r.sess # calls[b].sess /\ sessions[calls[b].sess] = None
  BY <1>2, <1>4 DEF SearchInv, PinOK
<1>8. /\ \A x \in pins : sessions[x] # None => Unrevoked(outbox, sessions[x].gen, Watermark)
      /\ \A b \in Calls \ {c} :
            calls[b].pc \notin {"idle", "page", "pin"} /\ calls[b].sess \in pins =>
                Unrevoked(outbox, calls[b].gen, Watermark)
  BY DEF SearchInv, SnapshotsOK
<1>9. r.sess \in pins => Unrevoked(outbox, r.gen, Watermark)
  BY <1>2, <1>4, <1>8
<1> QED BY <1>1, <1>4, <1>5, <1>6, <1>7, <1>8, <1>9, CallMoves

\* The session of a new call is its own when it is pinned, and its snapshot unrevoked.
LEMMA PinKept ==
    ASSUME IndexInv, SearchInv, NEW c \in Calls, PinSession(c)
    PROVE  SearchInv'
<1> DEFINE r == [calls[c] EXCEPT !.pc = "scan"]
<1>1. /\ pins \subseteq Sessions /\ sessions \in [Sessions -> Snapshots \cup {None}]
      /\ leases \subseteq Objects /\ calls \in [Calls -> CallRecords]
  BY DEF SearchInv, SearchTypes
<1>2. calls[c] \in CallRecords /\ calls[c].pc = "pin" /\ calls[c].sess \in Sessions
  BY CallFacts DEF PinSession
<1>3. r \in CallRecords /\ r.pc = "scan" /\ r.sess = calls[c].sess /\ r.gen = calls[c].gen
  BY <1>2 DEF CallRecords, CallStates
<1>4. /\ calls' = [calls EXCEPT ![c] = r] /\ pins' = pins \cup {calls[c].sess}
      /\ UNCHANGED <<outbox, leases, sessions>> /\ ~Revoked(calls[c].gen)
  BY <1>1 DEF PinSession, Goto
<1> HIDE DEF r
<1>5. LeasesOK'
  BY <1>4, LeasesKept DEF SearchInv, LeasesOK
<1>6. sessions[calls[c].sess] = None /\ \A b \in Calls \ {c} : calls[b].sess # calls[c].sess
  BY <1>2 DEF SearchInv, PinOK
<1>7. \A b \in Calls \ {c} : calls[b].pc = "pin" =>
          r.sess # calls[b].sess /\ sessions[calls[b].sess] = None
  BY <1>3, <1>6 DEF SearchInv, PinOK
<1>8. /\ \A x \in pins : sessions[x] # None => Unrevoked(outbox, sessions[x].gen, Watermark)
      /\ \A b \in Calls \ {c} :
            calls[b].pc \notin {"idle", "page", "pin"} /\ calls[b].sess \in pins =>
                Unrevoked(outbox, calls[b].gen, Watermark)
  BY DEF SearchInv, SnapshotsOK
<1>9. Unrevoked(outbox, r.gen, Watermark)
  BY <1>3, <1>4 DEF Revoked, Unrevoked
<1>10. /\ \A x \in pins' : sessions'[x] # None => Unrevoked(outbox, sessions'[x].gen, Watermark)
       /\ \A b \in Calls \ {c} :
            calls[b].pc \notin {"idle", "page", "pin"} /\ calls[b].sess \in pins' =>
                Unrevoked(outbox, calls[b].gen, Watermark)
  BY <1>4, <1>6, <1>8
<1>11. /\ pins' \subseteq Sessions /\ sessions' \in [Sessions -> Snapshots \cup {None}]
       /\ leases' \subseteq Objects /\ outbox' = outbox /\ r.sess \in Sessions
       /\ \A b \in Calls \ {c} : calls[b].pc = "pin" =>
             r.sess # calls[b].sess /\ sessions'[calls[b].sess] = None
  BY <1>1, <1>2, <1>3, <1>4, <1>7
<1>12. calls' = [calls EXCEPT ![c] = r]
  BY <1>4
<1> QED BY <1>3, <1>5, <1>9, <1>10, <1>11, <1>12, CallMoves

\* A call goes on in its session; a check of the session says what it saw.
LEMMA GoesOn ==
    ASSUME IndexInv, SearchInv, NEW c \in Calls, NEW r \in CallRecords,
           calls' = [calls EXCEPT ![c] = r], UNCHANGED <<outbox, pins, sessions>>,
           leases' \subseteq Objects, LeasesOK',
           calls[c].pc \notin {"idle", "page", "pin"}, r.pc # "pin",
           r.sess = calls[c].sess, r.gen = calls[c].gen,
           r.pc \in {"resolve", "lease", "confirm"} =>
               \/ r.seen = Watermark /\ calls[c].sess \in pins
               \/ r.seen = calls[c].seen /\ calls[c].pc \in {"resolve", "lease", "confirm"}
    PROVE  SearchInv'
<1>1. /\ pins \subseteq Sessions /\ sessions \in [Sessions -> Snapshots \cup {None}]
      /\ calls \in [Calls -> CallRecords]
  BY DEF SearchInv, SearchTypes
<1>2. calls[c].sess \in Sessions
  BY CallFacts
<1>3. \A b \in Calls \ {c} : calls[b].pc = "pin" =>
          r.sess # calls[b].sess /\ sessions[calls[b].sess] = None
  BY DEF SearchInv, PinOK
<1>4. /\ \A x \in pins : sessions[x] # None => Unrevoked(outbox, sessions[x].gen, Watermark)
      /\ \A b \in Calls :
            calls[b].pc \notin {"idle", "page", "pin"} /\ calls[b].sess \in pins =>
                Unrevoked(outbox, calls[b].gen, Watermark)
      /\ calls[c].pc \in {"resolve", "lease", "confirm"} =>
            calls[c].seen <= Watermark /\ Unrevoked(outbox, calls[c].gen, calls[c].seen)
  BY DEF SearchInv, SnapshotsOK
<1>5. Watermark \in Nat
  BY DEF IndexInv, IndexTypes, Watermark
<1>6. r.pc \in {"resolve", "lease", "confirm"} =>
          r.seen <= Watermark /\ Unrevoked(outbox, r.gen, r.seen)
  BY <1>4, <1>5
<1> QED BY <1>1, <1>2, <1>3, <1>4, <1>6, CallMoves

\* A call returns, fails, or leaves its snapshot for a cursor.
LEMMA CallEnds ==
    ASSUME IndexInv, SearchInv, NEW c \in Calls, NEW r \in {Idle, Returned},
           calls' = [calls EXCEPT ![c] = r], UNCHANGED <<outbox, leases>>,
           pins' \subseteq pins, sessions' \in [Sessions -> Snapshots \cup {None}],
           \A s \in Sessions :
               \/ sessions'[s] \in {sessions[s], None}
               \/ /\ s = calls[c].sess /\ calls[c].pc \notin {"idle", "page", "pin"}
                  /\ sessions'[s].gen = calls[c].gen
    PROVE  SearchInv'
<1>1. r \in CallRecords /\ r.pc \in {"idle", "page"} /\ r.sess = None
  BY IdleFacts
<1>2. /\ pins \subseteq Sessions /\ leases \subseteq Objects /\ calls \in [Calls -> CallRecords]
      /\ \A b \in Calls : calls[b].pc \notin {"idle", "page"} => calls[b].sess \in Sessions
  BY DEF SearchInv, SearchTypes
<1>3. LeasesOK'
  BY LeasesKept DEF SearchInv, LeasesOK
<1>4. \A b \in Calls : calls[b].pc = "pin" =>
          /\ calls[b].sess \in Sessions /\ sessions[calls[b].sess] = None
          /\ \A a \in Calls \ {b} : calls[a].sess # calls[b].sess
  BY <1>2 DEF SearchInv, PinOK
<1>5. \A b \in Calls \ {c} : calls[b].pc = "pin" =>
          r.sess # calls[b].sess /\ sessions'[calls[b].sess] = None
  BY <1>1, <1>4, SearchAssumption
<1>6. /\ \A x \in pins : sessions[x] # None => Unrevoked(outbox, sessions[x].gen, Watermark)
      /\ \A b \in Calls :
            calls[b].pc \notin {"idle", "page", "pin"} /\ calls[b].sess \in pins =>
                Unrevoked(outbox, calls[b].gen, Watermark)
  BY DEF SearchInv, SnapshotsOK
<1>7. \A x \in pins' : sessions'[x] # None => Unrevoked(outbox, sessions'[x].gen, Watermark)
  BY <1>2, <1>6
<1>8. \A b \in Calls \ {c} :
          calls[b].pc \notin {"idle", "page", "pin"} /\ calls[b].sess \in pins' =>
              Unrevoked(outbox, calls[b].gen, Watermark)
  BY <1>6
<1> QED BY <1>1, <1>2, <1>3, <1>5, <1>7, <1>8, CallMoves

LEMMA CallStepKept ==
    ASSUME IndexInv, SearchInv, NEW c \in Calls, CallStep(c)
    PROVE  SearchInv'
<1>1. /\ pins \subseteq Sessions /\ sessions \in [Sessions -> Snapshots \cup {None}]
      /\ leases \subseteq Objects /\ calls \in [Calls -> CallRecords]
  BY DEF SearchInv, SearchTypes
<1>2. /\ calls[c] \in CallRecords /\ calls[c].pc \in CallStates
      /\ calls[c].gen \in Nat /\ calls[c].docs \in SUBSET Documents
      /\ calls[c].hits \in SUBSET Objects /\ calls[c].seen \in Nat
      /\ calls[c].pc \notin {"idle", "page"} => calls[c].sess \in Sessions
  BY CallFacts
<1>3. Watermark \in Nat
  BY DEF IndexInv, IndexTypes, Watermark
<1>4. UNCHANGED <<outbox, leases>> => LeasesOK'
  BY LeasesKept DEF SearchInv, LeasesOK
<1>5. ASSUME PinSession(c) PROVE SearchInv'
  BY <1>5, PinKept
<1>6. ASSUME NEW O \in SUBSET Objects, Scan(c, O) PROVE SearchInv'
  <2> DEFINE r == [calls[c] EXCEPT !.pc = "recheck", !.hits = O]
  <2>1. r \in CallRecords /\ r.pc = "recheck" /\ r.sess = calls[c].sess /\ r.gen = calls[c].gen
    BY <1>2 DEF CallRecords, CallStates
  <2>2. calls' = [calls EXCEPT ![c] = r] /\ UNCHANGED <<outbox, pins, sessions, leases>>
    BY <1>1, <1>6 DEF Scan, database
  <2>3. calls[c].pc = "scan"
    BY <1>6 DEF Scan
  <2> HIDE DEF r
  <2> QED BY <1>1, <1>4, <2>1, <2>2, <2>3, GoesOn
<1>7. ASSUME Recheck(c) PROVE SearchInv'
  <2> DEFINE r == [calls[c] EXCEPT !.pc = "resolve", !.seen = Watermark]
  <2>1. /\ r \in CallRecords /\ r.pc = "resolve" /\ r.sess = calls[c].sess /\ r.gen = calls[c].gen
        /\ r.seen = Watermark
    BY <1>2, <1>3 DEF CallRecords, CallStates
  <2>2. calls' = [calls EXCEPT ![c] = r] /\ UNCHANGED <<outbox, pins, sessions, leases>>
    BY <1>1, <1>7 DEF Recheck, database
  <2>3. calls[c].pc = "recheck" /\ calls[c].sess \in pins
    BY <1>7 DEF Recheck
  <2> HIDE DEF r
  <2> QED BY <1>1, <1>4, <2>1, <2>2, <2>3, GoesOn
<1>8. ASSUME PageEnds(c), UNCHANGED <<outbox, leases>> PROVE SearchInv'
  <2>1. /\ calls' = [calls EXCEPT ![c] = Returned] /\ pins' \subseteq pins
        /\ sessions' \in [Sessions -> Snapshots \cup {None}]
        /\ \A s \in Sessions : sessions'[s] \in {sessions[s], None}
    BY <1>1, <1>8 DEF PageEnds
  <2> QED BY <1>8, <2>1, CallEnds
<1>9. ASSUME PageContinues(c), UNCHANGED <<outbox, leases>>, calls[c].pc = "resolve"
      PROVE  SearchInv'
  <2> DEFINE snapshot == [gen |-> calls[c].gen, docs |-> calls[c].docs]
  <2>1. snapshot \in Snapshots /\ snapshot.gen = calls[c].gen
    BY <1>2 DEF Snapshots
  <2>2. /\ calls' = [calls EXCEPT ![c] = Returned] /\ pins' \subseteq pins
        /\ sessions' \in {sessions, [sessions EXCEPT ![calls[c].sess] = snapshot]}
    BY <1>9 DEF PageContinues
  <2> HIDE DEF snapshot
  <2>3. /\ sessions' \in [Sessions -> Snapshots \cup {None}]
        /\ \A s \in Sessions :
              sessions'[s] = sessions[s] \/ (s = calls[c].sess /\ sessions'[s] = snapshot)
    BY <1>1, <2>1, <2>2
  <2> QED BY <1>9, <2>1, <2>2, <2>3, CallEnds
<1>10. ASSUME Resolve(c) PROVE SearchInv'
  <2>1. calls[c].pc = "resolve" /\ UNCHANGED <<outbox, leases>>
    BY <1>10 DEF Resolve
  <2>2. ASSUME Goto(c, "lease"), UNCHANGED <<pins, sessions>> PROVE SearchInv'
    <3> DEFINE r == [calls[c] EXCEPT !.pc = "lease"]
    <3>1. /\ r \in CallRecords /\ r.pc = "lease" /\ r.sess = calls[c].sess /\ r.gen = calls[c].gen
          /\ r.seen = calls[c].seen
      BY <1>2 DEF CallRecords, CallStates
    <3>2. calls' = [calls EXCEPT ![c] = r]
      BY <1>1, <2>2 DEF Goto
    <3> HIDE DEF r
    <3> QED BY <1>1, <1>4, <2>1, <2>2, <3>1, <3>2, GoesOn
  <2> QED BY <1>8, <1>9, <1>10, <2>1, <2>2 DEF Resolve
<1>11. ASSUME RenewLeases(c) PROVE SearchInv'
  <2> DEFINE r == [calls[c] EXCEPT !.pc = "confirm"]
  <2>1. /\ r \in CallRecords /\ r.pc = "confirm" /\ r.sess = calls[c].sess /\ r.gen = calls[c].gen
        /\ r.seen = calls[c].seen
    BY <1>2 DEF CallRecords, CallStates
  <2>2. /\ calls' = [calls EXCEPT ![c] = r] /\ UNCHANGED <<outbox, pins, sessions>>
        /\ calls[c].pc = "lease"
    BY <1>1, <1>11 DEF RenewLeases, Goto
  <2>3. leases' = {o \in leases : ~Withdrawn(o)} \cup calls[c].hits /\ Public(calls[c].hits)
    BY <1>11 DEF RenewLeases, Leasable
  <2>4. leases' \subseteq Objects /\ \A o \in leases' : ~Withdrawn(o)
    BY <1>1, <1>2, <2>3 DEF Public
  <2>5. LeasesOK'
    BY <2>2, <2>4, LeasesKept DEF SearchInv
  <2> HIDE DEF r
  <2> QED BY <2>1, <2>2, <2>4, <2>5, GoesOn
<1>12. ASSUME Confirm(c) PROVE SearchInv'
  BY <1>8, <1>12 DEF Confirm
<1>13. ASSUME Fail(c) PROVE SearchInv'
  <2>1. /\ calls' = [calls EXCEPT ![c] = Idle] /\ pins' \subseteq pins
        /\ UNCHANGED <<outbox, leases, sessions>>
    BY <1>13 DEF Fail
  <2> QED BY <1>1, <2>1, CallEnds
<1> QED BY <1>5, <1>6, <1>7, <1>10, <1>11, <1>12, <1>13 DEF CallStep

\* A publication revokes nothing, and is of an object that is not withdrawn; a
\* withdrawal gives up every session and its object's leases.
LEMMA EventKept ==
    ASSUME IndexInv, SearchInv, NEW e \in Event, outbox' = Append(outbox, e),
           UNCHANGED <<sessions, calls>>,
           \/ UNCHANGED <<pins, leases>> /\ ~e.withdrawn
           \/ pins' = {} /\ leases' = leases \ {e.obj}
    PROVE  SearchInv'
<1> USE DEF SearchInv
<1>1. /\ Watermark \in Nat /\ Watermark' = Watermark + 1 /\ outbox'[Watermark + 1] = e
      /\ \A i \in 1..Watermark : outbox'[i] = outbox[i]
  BY OutboxGrows DEF IndexInv, IndexTypes
<1>2. SearchTypes' /\ PinOK'
  BY DEF SearchTypes, PinOK
<1>3. ASSUME NEW g \in Nat, NEW k \in Nat, k <= Watermark, Unrevoked(outbox, g, k)
      PROVE  Unrevoked(outbox', g, k)
  <2> SUFFICES ASSUME NEW i \in (g + 1)..k PROVE ~outbox'[i].withdrawn
    BY DEF Unrevoked
  <2>1. i \in 1..Watermark
    BY <1>1, <1>3
  <2> QED BY <1>1, <1>3, <2>1 DEF Unrevoked
<1>4. ASSUME NEW g \in Nat, ~e.withdrawn, Unrevoked(outbox, g, Watermark)
      PROVE  Unrevoked(outbox', g, Watermark')
  <2> SUFFICES ASSUME NEW i \in (g + 1)..Watermark' PROVE ~outbox'[i].withdrawn
    BY DEF Unrevoked
  <2>1. CASE i = Watermark + 1
    BY <1>1, <1>4, <2>1
  <2>2. CASE i # Watermark + 1
    <3>1. i \in (g + 1)..Watermark /\ i \in 1..Watermark
      BY <1>1, <2>2
    <3> QED BY <1>1, <1>4, <3>1 DEF Unrevoked
  <2> QED BY <2>1, <2>2
<1>5. \A c \in Calls : calls[c].gen \in Nat /\ calls[c].seen \in Nat
  BY CallFacts
<1>6. \A s \in Sessions : sessions[s] # None => sessions[s].gen \in Nat
  BY DEF SearchTypes, Snapshots
<1>7. SnapshotsOK'
  <2>1. ASSUME NEW c \in Calls, calls[c].pc \in {"resolve", "lease", "confirm"}
        PROVE  calls[c].seen <= Watermark' /\ Unrevoked(outbox', calls[c].gen, calls[c].seen)
    <3>1. calls[c].seen <= Watermark /\ Unrevoked(outbox, calls[c].gen, calls[c].seen)
      BY <2>1 DEF SnapshotsOK
    <3> QED BY <1>1, <1>3, <1>5, <3>1
  <2>2. CASE pins' = {}
    BY <2>1, <2>2 DEF SnapshotsOK
  <2>3. CASE UNCHANGED pins /\ ~e.withdrawn
    <3>1. ASSUME NEW s \in pins, sessions[s] # None
          PROVE  Unrevoked(outbox', sessions[s].gen, Watermark')
      BY <1>4, <1>6, <2>3, <3>1 DEF SnapshotsOK, SearchTypes
    <3>2. ASSUME NEW c \in Calls, calls[c].pc \notin {"idle", "page", "pin"},
                 calls[c].sess \in pins
          PROVE  Unrevoked(outbox', calls[c].gen, Watermark')
      BY <1>4, <1>5, <2>3, <3>2 DEF SnapshotsOK
    <3> QED BY <2>1, <2>3, <3>1, <3>2 DEF SnapshotsOK
  <2> QED BY <2>2, <2>3
<1>8. LeasesOK'
  <2> SUFFICES ASSUME NEW o \in leases' PROVE ~Withdrawn(o)'
    BY DEF LeasesOK
  <2>1. o \in leases /\ (e.withdrawn => o # e.obj)
    OBVIOUS
  <2>2. \A i \in 1..Watermark : ~(outbox[i].obj = o /\ outbox[i].withdrawn)
    BY <2>1 DEF LeasesOK, Withdrawn, WithdrawnBy
  <2>3. ASSUME NEW i \in 1..Watermark' PROVE ~(outbox'[i].obj = o /\ outbox'[i].withdrawn)
    <3>1. i = Watermark + 1 \/ i \in 1..Watermark
      BY <1>1
    <3> QED BY <1>1, <2>1, <2>2, <3>1
  <2> QED BY <2>3 DEF Withdrawn, WithdrawnBy
<1> QED BY <1>2, <1>7, <1>8

LEMMA SearchStep ==
    ASSUME IndexInv, SearchInv, [Next]_vars
    PROVE  SearchInv'
<1>1. ASSUME UNCHANGED <<outbox, pins, sessions, calls>>, leases' \subseteq leases
      PROVE  SearchInv'
  <2>1. LeasesOK'
    BY <1>1, LeasesKept DEF SearchInv, LeasesOK
  <2>2. SearchTypes' /\ PinOK'
    BY <1>1 DEF SearchInv, SearchTypes, PinOK
  <2>3. SnapshotsOK'
    BY <1>1 DEF SearchInv, SnapshotsOK, Watermark
  <2> QED BY <2>1, <2>2, <2>3 DEF SearchInv
<1>2. ASSUME NEW o \in Objects, NEW r \in Revs, NEW head \in BOOLEAN, Publish(o, r, head)
      PROVE  SearchInv'
  <2>1. outbox' = Append(outbox, Capture(o, r, head)) /\ UNCHANGED <<pins, leases, sessions, calls>>
    BY <1>2 DEF Publish, searches
  <2>2. Capture(o, r, head) \in Event /\ ~Capture(o, r, head).withdrawn
    BY EventFacts
  <2> QED BY <2>1, <2>2, EventKept
<1>3. ASSUME NEW o \in Objects, Withdraw(o) PROVE SearchInv'
  <2>1. /\ outbox' = Append(outbox, Withdrawal(o)) /\ pins' = {} /\ leases' = leases \ {o}
        /\ UNCHANGED <<sessions, calls>>
    BY <1>3 DEF Withdraw, searches
  <2>2. Withdrawal(o) \in Event /\ Withdrawal(o).obj = o
    BY EventFacts
  <2> QED BY <2>1, <2>2, EventKept
<1>4. ASSUME Exit PROVE SearchInv'
  <2>1. /\ pins' = {} /\ sessions' = [s \in Sessions |-> None] /\ calls' = [c \in Calls |-> Idle]
        /\ UNCHANGED <<outbox, leases>>
    BY <1>4 DEF Exit
  <2>2. LeasesOK'
    BY <2>1, LeasesKept DEF SearchInv, LeasesOK
  <2>3. SearchTypes' /\ PinOK' /\ SnapshotsOK'
    BY <2>1, IdleFacts DEF SearchInv, SearchTypes, PinOK, SnapshotsOK
  <2> QED BY <2>2, <2>3 DEF SearchInv
<1>5. ASSUME NEW s \in Sessions, Expire(s) PROVE SearchInv'
  <2>1. /\ pins' = pins \ {s} /\ sessions' = [sessions EXCEPT ![s] = None]
        /\ UNCHANGED <<outbox, leases, calls>>
    BY <1>5 DEF Expire
  <2>2. /\ sessions \in [Sessions -> Snapshots \cup {None}] /\ pins \subseteq Sessions
        /\ \A c \in Calls : calls[c].pc \notin {"idle", "page"} => calls[c].sess \in Sessions
    BY DEF SearchInv, SearchTypes
  <2>3. /\ sessions' \in [Sessions -> Snapshots \cup {None}]
        /\ \A x \in Sessions : sessions'[x] \in {sessions[x], None}
    BY <2>1, <2>2
  <2>4. SearchTypes'
    BY <2>1, <2>3 DEF SearchInv, SearchTypes
  <2>5. PinOK'
    BY <2>1, <2>2, <2>3 DEF SearchInv, PinOK
  <2>6. SnapshotsOK'
    BY <2>1, <2>2, <2>3 DEF SearchInv, SnapshotsOK, Watermark
  <2>7. LeasesOK'
    BY <2>1, LeasesKept DEF SearchInv, LeasesOK
  <2> QED BY <2>4, <2>5, <2>6, <2>7 DEF SearchInv
<1>6. ASSUME NEW d \in Dirs, Serve(d) \/ OpenRefused(d) \/ RebuildStart(d) PROVE SearchInv'
  BY <1>1, <1>6 DEF Serve, OpenRefused, RebuildStart, database, searches
<1>7. ASSUME ServerStep \/ Crash \/ LoseLease PROVE SearchInv'
  <2>1. Exit \/ AcknowledgeIndex \/ NextEvent \/ ApplyIndexEvent \/ LoseLease
    BY <1>7 DEF ServerStep, AcknowledgeConflict, LeaseGone, Crash
  <2>2. AcknowledgeIndex \/ NextEvent \/ ApplyIndexEvent \/ LoseLease =>
          UNCHANGED <<outbox, pins, sessions, calls, leases>>
    BY DEF AcknowledgeIndex, NextEvent, ApplyIndexEvent, LoseLease, database, searches
  <2> QED BY <1>1, <1>4, <2>1, <2>2
<1>8. ASSUME RebuildStep \/ RebuildDies PROVE SearchInv'
  <2>1. UNCHANGED <<outbox, pins, sessions, calls, leases>>
    BY <1>8 DEF RebuildStep, RebuildBatch, RebuildApply, RebuildVerify, RebuildRefused,
                FinishRebuild, RebuildAcknowledge, RebuildDies, database, searches
  <2> QED BY <1>1, <2>1
<1>9. ASSUME NEW L \in SUBSET leases, Maintain(L) PROVE SearchInv'
  BY <1>1, <1>9 DEF Maintain, searches
<1>10. ASSUME UNCHANGED vars PROVE SearchInv'
  BY <1>1, <1>10 DEF vars
<1> QED BY <1>2, <1>3, <1>5, <1>6, <1>7, <1>8, <1>9, <1>10, SearchKept, ContinueKept, CallStepKept
        DEF Next, Events

LEMMA SearchInit == Init => SearchInv
<1> SUFFICES ASSUME Init PROVE SearchInv
  OBVIOUS
<1>1. /\ pins = {} /\ leases = {} /\ sessions = [s \in Sessions |-> None]
      /\ calls = [c \in Calls |-> Idle]
  BY DEF Init
<1> QED BY <1>1, IdleFacts DEF SearchInv, SearchTypes, PinOK, SnapshotsOK, LeasesOK

LEMMA SearchInvariant == Spec => [](IndexInv /\ SearchInv)
<1>1. Init => IndexInv /\ SearchInv
  BY IndexInit, SearchInit
<1>2. IndexInv /\ SearchInv /\ [Next]_vars => IndexInv' /\ SearchInv'
  BY IndexStep, SearchStep
<1> QED BY <1>1, <1>2, PTL DEF Spec

\* TypeOK of the outbox, the fence, the sessions, the leases and the indexes.
THEOREM TypeCorrect == Spec => []TypeOK
<1>1. IndexInv /\ SearchInv => TypeOK
  <2> SUFFICES ASSUME IndexInv, SearchInv PROVE TypeOK
    OBVIOUS
  <2>1. /\ outbox \in Seq(Event) /\ ack \in Nat /\ dirs \in [Dirs -> Index] /\ left \in Budget
        /\ holder \in {None, "server", "rebuild"} /\ Watermark + left.events <= MaxOutbox
        /\ ack <= Watermark /\ \A d \in Dirs : dirs[d].gen <= Watermark
    BY DEF IndexInv, IndexTypes, DirsOK
  <2>2. Watermark \in Nat /\ left.events \in Nat /\ MaxOutbox \in Nat
    BY <2>1, SpendFacts, SearchAssumption DEF Watermark
  <2>3. Watermark <= MaxOutbox /\ ack \in 0..MaxOutbox
    BY <2>1, <2>2
  <2>4. ASSUME NEW d \in Dirs
        PROVE  dirs[d] \in [gen : 0..MaxOutbox, complete : BOOLEAN,
                             docs : SUBSET Documents, made : BOOLEAN]
    <3>1. dirs[d] \in Index /\ dirs[d].gen \in Nat /\ dirs[d].gen <= Watermark
      BY <2>1 DEF Index
    <3>2. dirs[d].gen \in 0..MaxOutbox
      BY <2>2, <2>3, <3>1
    <3> QED BY <3>1, <3>2 DEF Index
  <2>5. pins \subseteq Sessions /\ leases \subseteq Objects
    BY DEF SearchInv, SearchTypes
  <2> QED BY <2>1, <2>3, <2>4, <2>5 DEF TypeOK, Event, Budget, Watermark
<1> QED BY <1>1, SearchInvariant, PTL

\* A page is returned by Resolve or by Confirm, and by no other step.
LEMMA PageStep ==
    ASSUME IndexInv, SearchInv, [Next]_vars, NEW c \in Calls,
           calls[c].pc # "page", calls'[c].pc = "page"
    PROVE  Resolve(c) \/ Confirm(c)
<1>1. calls \in [Calls -> CallRecords]
  BY DEF SearchInv, SearchTypes
<1>2. ASSUME NEW b \in Calls, NEW r \in {"idle", "pin", "scan"}, NEW x,
             calls' = [calls EXCEPT ![b] = x], x.pc = r
      PROVE  FALSE
  BY <1>1, <1>2
<1>3. ASSUME NEW b \in Calls, NEW r \in {"scan", "recheck", "resolve", "lease", "confirm"},
             Goto(b, r) PROVE FALSE
  <2>1. calls'[c] = calls[c] \/ calls'[c] = [calls[c] EXCEPT !.pc = r]
    BY <1>1, <1>3 DEF Goto
  <2> QED BY <1>1, <2>1 DEF CallRecords
<1>4. UNCHANGED calls => FALSE
  OBVIOUS
<1>5. ASSUME NEW b \in Calls, CallStep(b) PROVE Resolve(c) \/ Confirm(c)
  <2>1. PinSession(b) => Goto(b, "scan")
    BY DEF PinSession
  <2>2. RenewLeases(b) => Goto(b, "confirm")
    BY DEF RenewLeases
  <2>3. ASSUME NEW O, Scan(b, O) PROVE FALSE
    <3>1. calls'[c] = calls[c] \/ calls'[c] = [calls[c] EXCEPT !.pc = "recheck", !.hits = O]
      BY <1>1, <2>3 DEF Scan
    <3> QED BY <1>1, <3>1 DEF CallRecords
  <2>4. ASSUME Recheck(b) PROVE FALSE
    <3>1. calls'[c] = calls[c] \/ calls'[c] = [calls[c] EXCEPT !.pc = "resolve", !.seen = Watermark]
      BY <1>1, <2>4 DEF Recheck
    <3> QED BY <1>1, <3>1 DEF CallRecords
  <2>5. ASSUME Fail(b) PROVE FALSE
    BY <1>2, <2>5, IdleFacts DEF Fail
  <2>6. ASSUME Resolve(b) \/ Confirm(b) PROVE b = c
    <3>1. PageEnds(b) \/ PageContinues(b) \/ Goto(b, "lease")
      BY <2>6 DEF Resolve, Confirm
    <3>2. PageEnds(b) \/ PageContinues(b) => calls' = [calls EXCEPT ![b] = Returned]
      BY DEF PageEnds, PageContinues
    <3>3. CASE calls' = [calls EXCEPT ![b] = Returned]
      BY <1>1, <3>3
    <3> QED BY <1>3, <3>1, <3>2, <3>3
  <2> QED BY <1>3, <1>5, <2>1, <2>2, <2>3, <2>4, <2>5, <2>6 DEF CallStep
<1>6. ASSUME NEW b \in Calls, NEW s \in Sessions, NEW citable \in BOOLEAN, Search(b, s, citable)
      PROVE  FALSE
  <2> DEFINE r == [Idle EXCEPT !.pc = "pin", !.sess = s, !.fresh = TRUE, !.citable = citable,
                               !.gen = dirs[server.dir].gen, !.docs = dirs[server.dir].docs]
  <2>1. r.pc = "pin" /\ calls' = [calls EXCEPT ![b] = r]
    BY <1>6 DEF Search, Idle
  <2> HIDE DEF r
  <2> QED BY <1>2, <2>1
<1>7. ASSUME NEW b \in Calls, NEW s \in Sessions, Continue(b, s) PROVE FALSE
  <2> DEFINE r == [Idle EXCEPT !.pc = "scan", !.sess = s,
                               !.gen = sessions[s].gen, !.docs = sessions[s].docs]
  <2>1. r.pc = "scan" /\ calls' = [calls EXCEPT ![b] = r]
    BY <1>7 DEF Continue, Idle
  <2> HIDE DEF r
  <2> QED BY <1>2, <2>1
<1>8. Exit => FALSE
  BY IdleFacts DEF Exit
<1>9. Events => UNCHANGED calls
  BY DEF Events, Publish, Withdraw, searches
<1>10. ASSUME NEW d \in Dirs, Serve(d) \/ OpenRefused(d) \/ RebuildStart(d) PROVE UNCHANGED calls
  BY <1>10 DEF Serve, OpenRefused, RebuildStart, searches
<1>11. ServerStep \/ Crash \/ LoseLease => Exit \/ UNCHANGED calls
  BY DEF ServerStep, AcknowledgeIndex, AcknowledgeConflict, NextEvent, ApplyIndexEvent,
         LeaseGone, Crash, LoseLease, searches
<1>12. RebuildStep \/ RebuildDies => UNCHANGED calls
  BY DEF RebuildStep, RebuildBatch, RebuildApply, RebuildVerify, RebuildRefused,
         FinishRebuild, RebuildAcknowledge, RebuildDies, searches
<1>13. (\E s \in Sessions : Expire(s)) \/ (\E L \in SUBSET leases : Maintain(L))
         => UNCHANGED calls
  BY DEF Expire, Maintain, searches
<1>14. UNCHANGED vars => UNCHANGED calls
  BY DEF vars
<1> QED BY <1>4, <1>5, <1>6, <1>7, <1>8, <1>9, <1>10, <1>11, <1>12, <1>13, <1>14 DEF Next

\* WithdrawalFinal: whatever order snapshot, withdrawal, pin, expiry and the other calls
\* of a session come in, for any number of each, a page never comes from a snapshot
\* older than a withdrawal that its last check could see, and no lease outlives its
\* object's withdrawal (pin_session, check_session, renew_citation_leases, withdraw).
THEOREM WithdrawalsAreFinal == Spec => WithdrawalFinal
<1>1. ASSUME IndexInv, SearchInv, [Next]_vars, SearchInv'
      PROVE  /\ \A c \in Calls : calls[c].pc # "page" /\ calls'[c].pc = "page" =>
                  LET seen == IF calls[c].pc = "confirm" THEN Watermark ELSE calls[c].seen
                  IN  \A i \in (calls[c].gen + 1)..seen : ~outbox[i].withdrawn
             /\ \A o \in leases' : ~WithdrawnBy(o, Watermark)'
  <2>1. ASSUME NEW c \in Calls, calls[c].pc # "page", calls'[c].pc = "page"
        PROVE  Unrevoked(outbox, calls[c].gen,
                         IF calls[c].pc = "confirm" THEN Watermark ELSE calls[c].seen)
    <3>1. Resolve(c) \/ Confirm(c)
      BY <1>1, <2>1, PageStep
    <3>2. CASE Resolve(c)
      <4>1. calls[c].pc = "resolve"
        BY <3>2 DEF Resolve
      <4> QED BY <1>1, <4>1 DEF SearchInv, SnapshotsOK
    <3>3. CASE Confirm(c)
      <4>1. calls[c].pc = "confirm" /\ calls[c].sess \in pins
        BY <3>3 DEF Confirm
      <4> QED BY <1>1, <4>1 DEF SearchInv, SnapshotsOK
    <3> QED BY <3>1, <3>2, <3>3
  <2>2. \A o \in leases' : ~WithdrawnBy(o, Watermark)'
    BY <1>1 DEF SearchInv, LeasesOK, Withdrawn
  <2> QED BY <2>1, <2>2 DEF Unrevoked
<1> QED BY <1>1, SearchInvariant, PTL DEF Spec, WithdrawalFinal

=============================================================================
