---------------------------- MODULE CorpusSearch ----------------------------
(***************************************************************************)
(* The search index of the corpus: the outbox that publication and         *)
(* withdrawal write, the serving process that applies it to its index      *)
(* directory and acknowledges it, the offline rebuild into a fresh         *)
(* directory, and the searches that answer from a snapshot pinned in       *)
(* PostgreSQL.                                                             *)
(*                                                                         *)
(* Every published capture has one outbox event, so the event's sequence   *)
(* names the capture. Both processes hold the runtime lease, an advisory   *)
(* lock of a connection that can break without its owner noticing until it *)
(* asks again.                                                             *)
(***************************************************************************)
EXTENDS Naturals, Sequences, FiniteSets

CONSTANTS
    Objects,     \* objects of the corpus
    Revs,        \* revisions of an object
    Dirs,        \* index directories an operator may configure
    Installed,   \* the directory of the installation, with an empty complete index
    Calls,       \* concurrent searches
    Sessions,    \* search sessions alive at once
    Batch,       \* outbox events between two lease checks of a rebuild
    MaxOutbox,   \* bound on publications and withdrawals
    Budgets,     \* bounds of a behaviour: publications and withdrawals, and what they are of,
                 \* crashes, broken connections and rebuilds together, new searches
    None

ASSUME SearchAssumption ==
    /\ Batch \in Nat \ {0} /\ MaxOutbox \in Nat
    /\ Budgets \subseteq [events : 0..MaxOutbox, faults : Nat, searches : Nat,
                        of : SUBSET (Objects \X Revs \X BOOLEAN)]
    /\ Installed \in Dirs
    /\ None \notin Objects \cup Revs \cup Dirs \cup Sessions \cup Nat

VARIABLES
    outbox,    \* corpus_outbox: sequences from 1 to next_event-1
    ack,       \* corpus_control.index_ack
    pins,      \* corpus_session: the rows that check_session accepts and a session uses
    leases,    \* corpus_citation_lease: the objects of the leased captures
    dirs,      \* what each index directory holds durably
    holder,    \* who has the advisory lock: "server", "rebuild" or None
    server,    \* the serving process
    rebuild,   \* the rebuilding process
    sessions,  \* CorpusSearch.state: the snapshots of sessions that have a cursor
    calls,     \* the searches under way
    left       \* what remains of the budget

database == <<outbox, ack, pins, leases>>
searches == <<sessions, calls>>
vars == <<outbox, ack, pins, leases, dirs, holder, server, rebuild, sessions, calls, left>>

Watermark == Len(outbox)
Capture(o, r, head) == [obj |-> o, rev |-> r, head |-> head, withdrawn |-> FALSE]
Withdrawal(o) == [obj |-> o, rev |-> None, head |-> TRUE, withdrawn |-> TRUE]

\* openlegal.corpus_object.withdrawn, after the first n events.
WithdrawnBy(o, n) == \E i \in 1..n : outbox[i].obj = o /\ outbox[i].withdrawn
Withdrawn(o) == WithdrawnBy(o, Watermark)

Spend(what) == left[what] > 0 /\ left' = [left EXCEPT ![what] = @ - 1]

Absent == [gen |-> 0, complete |-> FALSE, docs |-> {}, made |-> FALSE]
Fresh == [Absent EXCEPT !.made = TRUE]
Created == [Fresh EXCEPT !.complete = TRUE]
Opened(d) == IF dirs[d].made THEN dirs[d] ELSE Created

Down == [up |-> FALSE, dir |-> None, pc |-> "down", pend |-> None]
NoRebuild == [pc |-> "none", dir |-> None, target |-> 0, upto |-> 0]
Idle == [pc |-> "idle", sess |-> None, fresh |-> FALSE, citable |-> FALSE, gen |-> 0,
         docs |-> {}, hits |-> {}, seen |-> 0]

Init ==
    /\ outbox = <<>> /\ ack = 0
    /\ pins = {} /\ leases = {}
    /\ dirs = [d \in Dirs |-> IF d = Installed THEN Created ELSE Absent]
    /\ holder = None /\ server = Down /\ rebuild = NoRebuild
    /\ sessions = [s \in Sessions |-> None]
    /\ calls = [c \in Calls |-> Idle]
    /\ left \in Budgets

------------------------------------------------------------------------------
(* Publication and withdrawal: transactions under the control row's lock.  *)

\* The end of a publication that keeps a new capture. A capture that is not the
\* HEAD may be of any revision, the HEAD's own included (preserve_head).
Publish(o, r, head) ==
    /\ <<o, r, head>> \in left.of
    /\ Spend("events")
    /\ ~Withdrawn(o)
    /\ outbox' = Append(outbox, Capture(o, r, head))
    /\ UNCHANGED <<ack, pins, leases, dirs, holder, server, rebuild, searches>>

\* invalidated=true for every session, whatever it searches.
Withdraw(o) ==
    /\ Spend("events")
    /\ \E i \in 1..Watermark : outbox[i].obj = o
    /\ outbox' = Append(outbox, Withdrawal(o))
    /\ pins' = {}
    /\ leases' = leases \ {o}
    /\ UNCHANGED <<ack, dirs, holder, server, rebuild, searches>>

------------------------------------------------------------------------------
(* Applying one event to an index.                                         *)

SameRevision(d, e) == d.rev = e.rev /\ (~d.cur \/ e.head)

\* The documents of the object that an event's capture replaces, and the former
\* HEAD that it writes back as a historical document.
Replaced(docs, e, n) ==
    {d \in docs : d.obj = e.obj /\ (d.cap = n \/ SameRevision(d, e) \/ (d.cur /\ e.head))}

DemotedNone(docs, e, n) == {}
Demoted(docs, e, n) ==
    {d \in docs : /\ d.obj = e.obj /\ d.cap # n /\ ~SameRevision(d, e)
                  /\ d.cur /\ e.head}

ApplyCapture(docs, e, n) ==
    (docs \ Replaced(docs, e, n))
        \cup {[d EXCEPT !.cur = FALSE] : d \in Demoted(docs, e, n)}
        \cup {[obj |-> e.obj, rev |-> e.rev, cap |-> n,
               cur |-> e.head \/ \E d \in docs : d.cap = n /\ d.cur]}

RemoveObject(docs, o) == {d \in docs : d.obj # o}

\* One index commit holds the documents and the generation in its payload. Two
\* documents to demote are an integrity error.
Applicable(d) ==
    LET e == outbox[dirs[d].gen + 1]
    IN  e.withdrawn \/ Cardinality(Demoted(dirs[d].docs, e, dirs[d].gen + 1)) <= 1

Applied(d) ==
    LET n == dirs[d].gen + 1
        e == outbox[n]
    IN  [dirs[d] EXCEPT !.gen = n,
                        !.docs = IF e.withdrawn THEN RemoveObject(@, e.obj)
                                                ELSE ApplyCapture(@, e, n)]

------------------------------------------------------------------------------
(* The serving process: open, then index_events on every tick.             *)

\* acknowledge_index accepts what is neither behind the fence nor unwritten.
Acceptable(n) == ack <= n /\ n <= Watermark

\* The generation of an earlier process may lack its acknowledgement.
PendingNone(gen) == None
PendingAtStart(gen) == gen

Serve(d) ==
    LET index == Opened(d)
    IN  /\ ~server.up /\ holder = None
        /\ index.complete
        /\ ack <= index.gen /\ index.gen <= Watermark
        /\ dirs' = [dirs EXCEPT ![d] = index]
        /\ holder' = "server"
        /\ server' = [up |-> TRUE, dir |-> d, pc |-> "ack", pend |-> PendingAtStart(index.gen)]
        /\ UNCHANGED <<database, rebuild, searches, left>>

\* Opening creates an empty index before its generation is found too old.
OpenRefused(d) ==
    /\ ~server.up /\ holder = None
    /\ ~dirs[d].made /\ ack > 0
    /\ dirs' = [dirs EXCEPT ![d] = Opened(d)]
    /\ UNCHANGED <<database, holder, server, rebuild, searches, left>>

Released(who) == IF holder = who THEN None ELSE holder

\* The sessions of a process end with it; the rows they leave expire unused.
Exit ==
    /\ server' = Down
    /\ holder' = Released("server")
    /\ pins' = {}
    /\ sessions' = [s \in Sessions |-> None]
    /\ calls' = [c \in Calls |-> Idle]
    /\ UNCHANGED <<outbox, ack, leases, dirs, rebuild>>

\* An acknowledgement is retried before anything else; a conflict is fatal.
AcknowledgeIndex ==
    /\ server.up /\ server.pc = "ack"
    /\ server.pend # None => Acceptable(server.pend)
    /\ ack' = IF server.pend = None THEN ack ELSE server.pend
    /\ server' = [server EXCEPT !.pc = "next", !.pend = None]
    /\ UNCHANGED <<outbox, pins, leases, dirs, holder, rebuild, searches, left>>

AcknowledgeConflict ==
    /\ server.up /\ server.pc = "ack"
    /\ server.pend # None /\ ~Acceptable(server.pend)
    /\ Exit
    /\ UNCHANGED left

\* lease.check() succeeds before each event.
NextEvent ==
    /\ server.up /\ server.pc = "next"
    /\ dirs[server.dir].gen < Watermark
    /\ holder = "server"
    /\ server' = [server EXCEPT !.pc = "apply"]
    /\ UNCHANGED <<database, dirs, holder, rebuild, searches, left>>

ApplyIndexEvent ==
    /\ server.up /\ server.pc = "apply"
    /\ Applicable(server.dir)
    /\ dirs' = [dirs EXCEPT ![server.dir] = Applied(server.dir)]
    /\ server' = [server EXCEPT !.pc = "ack", !.pend = dirs[server.dir].gen + 1]
    /\ UNCHANGED <<database, holder, rebuild, searches, left>>

\* A tick, or the check before an event, finds the lease gone.
LeaseGone ==
    /\ server.up /\ server.pc \in {"ack", "next"} /\ holder # "server"
    /\ Exit
    /\ UNCHANGED left

Crash == server.up /\ Exit /\ Spend("faults")

\* The connection that holds the advisory lock breaks.
LoseLease ==
    /\ holder # None
    /\ holder' = None
    /\ Spend("faults")
    /\ UNCHANGED <<database, dirs, server, rebuild, searches>>

------------------------------------------------------------------------------
(* rebuild_with_lease.                                                     *)

RebuildStart(d) ==
    /\ rebuild.pc = "none" /\ holder = None
    /\ ~dirs[d].made
    /\ holder' = "rebuild"
    /\ dirs' = [dirs EXCEPT ![d] = Fresh]
    /\ rebuild' = [pc |-> "batch", dir |-> d, target |-> Watermark, upto |-> 0]
    /\ Spend("faults")
    /\ UNCHANGED <<database, server, searches>>

RebuildEnd == rebuild' = NoRebuild /\ holder' = Released("rebuild")

Least(a, b) == IF a < b THEN a ELSE b

RebuildBatch ==
    /\ rebuild.pc = "batch" /\ dirs[rebuild.dir].gen < rebuild.target
    /\ holder = "rebuild"
    /\ rebuild' = [rebuild EXCEPT !.pc = "replay",
                       !.upto = Least(dirs[rebuild.dir].gen + Batch, rebuild.target)]
    /\ UNCHANGED <<database, dirs, holder, server, searches, left>>

RebuildApply ==
    /\ rebuild.pc = "replay"
    /\ Applicable(rebuild.dir)
    /\ dirs' = [dirs EXCEPT ![rebuild.dir] = Applied(rebuild.dir)]
    /\ rebuild' = [rebuild EXCEPT !.pc = IF dirs[rebuild.dir].gen + 1 = rebuild.upto
                                         THEN "batch" ELSE "replay"]
    /\ UNCHANGED <<database, holder, server, searches, left>>

\* A rebuild that acknowledges without marking its index complete.
RebuildVerifyUnfinished ==
    /\ rebuild.pc = "batch" /\ dirs[rebuild.dir].gen = rebuild.target
    /\ holder = "rebuild" /\ Watermark = rebuild.target
    /\ rebuild' = [rebuild EXCEPT !.pc = "ack"]
    /\ UNCHANGED <<database, dirs, holder, server, searches, left>>

\* The lease still holds and nothing was published since the target was read.
RebuildVerify ==
    /\ rebuild.pc = "batch" /\ dirs[rebuild.dir].gen = rebuild.target
    /\ holder = "rebuild" /\ Watermark = rebuild.target
    /\ rebuild' = [rebuild EXCEPT !.pc = "finish"]
    /\ UNCHANGED <<database, dirs, holder, server, searches, left>>

RebuildRefused ==
    /\ rebuild.pc = "batch"
    /\ \/ holder # "rebuild"
       \/ dirs[rebuild.dir].gen = rebuild.target /\ Watermark # rebuild.target
    /\ RebuildEnd
    /\ UNCHANGED <<database, dirs, server, searches, left>>

FinishRebuild ==
    /\ rebuild.pc = "finish"
    /\ dirs' = [dirs EXCEPT ![rebuild.dir].complete = TRUE]
    /\ rebuild' = [rebuild EXCEPT !.pc = "ack"]
    /\ UNCHANGED <<database, holder, server, searches, left>>

\* A serving process without its lease may have acknowledged more meanwhile.
RebuildAcknowledge ==
    /\ rebuild.pc = "ack"
    /\ ack' = IF Acceptable(rebuild.target) THEN rebuild.target ELSE ack
    /\ RebuildEnd
    /\ UNCHANGED <<outbox, pins, leases, dirs, server, searches, left>>

RebuildDies ==
    /\ rebuild.pc # "none"
    /\ RebuildEnd
    /\ Spend("faults")
    /\ UNCHANGED <<database, dirs, server, searches>>

------------------------------------------------------------------------------
(* CorpusSearch.execute. A search may fail between any two of its steps.   *)

Goto(c, pc) == calls' = [calls EXCEPT ![c].pc = pc]
Ready(c) == server.up /\ calls[c].pc \in {"idle", "page"}

\* A search without a cursor takes a snapshot of the serving index.
Search(c, s, citable) ==
    /\ Ready(c)
    /\ s \notin pins /\ sessions[s] = None
    /\ \A b \in Calls \ {c} : calls[b].sess # s
    /\ calls' = [calls EXCEPT ![c] = [Idle EXCEPT !.pc = "pin", !.sess = s, !.fresh = TRUE,
                      !.citable = citable, !.gen = dirs[server.dir].gen,
                      !.docs = dirs[server.dir].docs]]
    /\ Spend("searches")
    /\ UNCHANGED <<database, dirs, holder, server, rebuild, sessions>>

\* A cursor continues in the snapshot of its session, also while another call does.
Continue(c, s) ==
    /\ Ready(c)
    /\ sessions[s] # None
    /\ calls' = [calls EXCEPT ![c] = [Idle EXCEPT !.pc = "scan", !.sess = s,
                      !.gen = sessions[s].gen, !.docs = sessions[s].docs]]
    /\ UNCHANGED <<database, dirs, holder, server, rebuild, sessions, left>>

\* pin_session: a withdrawal after the generation makes it unsuitable.
RevokedNever(gen) == FALSE
Revoked(gen) == \E i \in (gen + 1)..Watermark : outbox[i].withdrawn

PinSession(c) ==
    /\ calls[c].pc = "pin"
    /\ Acceptable(calls[c].gen) /\ ~Revoked(calls[c].gen)
    /\ pins' = pins \cup {calls[c].sess}
    /\ Goto(c, "scan")
    /\ UNCHANGED <<outbox, ack, leases, dirs, holder, server, rebuild, sessions, left>>

\* What scan may find: the query matches documents of some of the snapshot's objects,
\* fewer when the budget ends the scan or an inventory conflict holds an object.
Matches(docs) == SUBSET {d.obj : d \in docs}

\* check_session, then the scan of the snapshot.
Scan(c, O) ==
    /\ calls[c].pc = "scan" /\ calls[c].sess \in pins
    /\ O \in Matches(calls[c].docs)
    /\ calls' = [calls EXCEPT ![c].pc = "recheck", ![c].hits = O]
    /\ UNCHANGED <<database, dirs, holder, server, rebuild, sessions, left>>

\* check_session after the scan; seen is what had committed by then.
Recheck(c) ==
    /\ calls[c].pc = "recheck" /\ calls[c].sess \in pins
    /\ calls' = [calls EXCEPT ![c].pc = "resolve", ![c].seen = Watermark]
    /\ UNCHANGED <<database, dirs, holder, server, rebuild, sessions, left>>

Public(O) == \A o \in O : ~Withdrawn(o)

\* The page is returned and its session released.
Returned == [Idle EXCEPT !.pc = "page"]

PageEnds(c) ==
    /\ calls' = [calls EXCEPT ![c] = Returned]
    /\ pins' = pins \ {calls[c].sess}
    /\ sessions' = [sessions EXCEPT ![calls[c].sess] = None]

\* The page leaves a cursor, which dangles if another call has released the session.
PageContinues(c) ==
    /\ calls' = [calls EXCEPT ![c] = Returned]
    /\ sessions' = IF calls[c].fresh
                   THEN [sessions EXCEPT ![calls[c].sess] =
                            [gen |-> calls[c].gen, docs |-> calls[c].docs]]
                   ELSE sessions
    /\ UNCHANGED pins

\* resolve reads each hit's capture again and refuses a withdrawn object.
Resolve(c) ==
    /\ calls[c].pc = "resolve" /\ Public(calls[c].hits)
    /\ \/ calls[c].citable /\ Goto(c, "lease") /\ UNCHANGED <<pins, sessions>>
       \/ ~calls[c].citable /\ PageEnds(c)
       \/ ~calls[c].citable /\ PageContinues(c)
    /\ UNCHANGED <<outbox, ack, leases, dirs, holder, server, rebuild, left>>

\* renew_citation_leases, under the control row's lock.
Leasable(c) == calls[c].sess \in pins /\ Public(calls[c].hits)

RenewLeases(c) ==
    /\ calls[c].pc = "lease"
    /\ Leasable(c)
    /\ leases' = {o \in leases : ~Withdrawn(o)} \cup calls[c].hits
    /\ Goto(c, "confirm")
    /\ UNCHANGED <<outbox, ack, pins, dirs, holder, server, rebuild, sessions, left>>

\* check_session once more before a citable page is returned.
Confirm(c) ==
    /\ calls[c].pc = "confirm" /\ calls[c].sess \in pins
    /\ PageEnds(c)
    /\ UNCHANGED <<outbox, ack, leases, dirs, holder, server, rebuild, left>>

\* An error, or the caller is gone: the guard of a new session gives it up.
Fail(c) ==
    /\ calls[c].pc \notin {"idle", "page"}
    /\ calls' = [calls EXCEPT ![c] = Idle]
    /\ pins' = IF calls[c].fresh THEN pins \ {calls[c].sess} ELSE pins
    /\ UNCHANGED <<outbox, ack, leases, dirs, holder, server, rebuild, sessions, left>>

\* Ten minutes pass, for a pin and the session that it protects.
Expire(s) ==
    /\ s \in pins
    /\ pins' = pins \ {s}
    /\ sessions' = [sessions EXCEPT ![s] = None]
    /\ UNCHANGED <<outbox, ack, leases, dirs, holder, server, rebuild, calls, left>>

\* maintain deletes citation leases that lapsed.
Maintain(L) ==
    /\ server.up /\ L # {}
    /\ leases' = leases \ L
    /\ UNCHANGED <<outbox, ack, pins, dirs, holder, server, rebuild, searches, left>>

------------------------------------------------------------------------------

Events ==
    \/ \E o \in Objects, r \in Revs, head \in BOOLEAN : Publish(o, r, head)
    \/ \E o \in Objects : Withdraw(o)

ServerStep ==
    \/ AcknowledgeIndex \/ AcknowledgeConflict
    \/ NextEvent \/ ApplyIndexEvent \/ LeaseGone

RebuildStep ==
    \/ RebuildBatch \/ RebuildApply \/ RebuildVerify \/ RebuildRefused
    \/ FinishRebuild \/ RebuildAcknowledge

CallStep(c) ==
    \/ PinSession(c)
    \/ \E O \in SUBSET Objects : Scan(c, O)
    \/ Recheck(c) \/ Resolve(c) \/ RenewLeases(c) \/ Confirm(c) \/ Fail(c)

Next ==
    \/ Events
    \/ \E d \in Dirs : Serve(d) \/ OpenRefused(d) \/ RebuildStart(d)
    \/ ServerStep \/ Crash \/ LoseLease
    \/ RebuildStep \/ RebuildDies
    \/ \E c \in Calls, s \in Sessions, citable \in BOOLEAN : Search(c, s, citable)
    \/ \E c \in Calls, s \in Sessions : Continue(c, s)
    \/ \E c \in Calls : CallStep(c)
    \/ \E s \in Sessions : Expire(s)
    \/ \E L \in SUBSET leases : Maintain(L)

Spec == Init /\ [][Next]_vars

------------------------------------------------------------------------------
(* Properties.                                                             *)

Documents == [obj : Objects, rev : Revs, cap : 1..MaxOutbox, cur : BOOLEAN]

TypeOK ==
    /\ outbox \in Seq([obj : Objects, rev : Revs \cup {None}, head : BOOLEAN, withdrawn : BOOLEAN])
    /\ Len(outbox) <= MaxOutbox /\ ack \in 0..MaxOutbox
    /\ pins \subseteq Sessions
    /\ leases \subseteq Objects
    /\ \A d \in Dirs : dirs[d] \in [gen : 0..MaxOutbox, complete : BOOLEAN,
                                     docs : SUBSET Documents, made : BOOLEAN]
    /\ holder \in {None, "server", "rebuild"}
    /\ left \in [events : 0..MaxOutbox, faults : Nat, searches : Nat,
                     of : SUBSET (Objects \X Revs \X BOOLEAN)]

\* What the first n events say of an object, independently of any index.
CapturesOf(o, n) == {i \in 1..n : outbox[i].obj = o /\ ~outbox[i].withdrawn}
HeadOf(o, n) ==
    {i \in CapturesOf(o, n) : outbox[i].head /\ \A j \in CapturesOf(o, n) : outbox[j].head => j <= i}
LatestOf(o, n) ==
    {i \in CapturesOf(o, n) : \A j \in CapturesOf(o, n) : outbox[j].rev = outbox[i].rev => j <= i}

\* Every index, rebuilt or grown across crashes, restarts and HEAD changes, is
\* exactly its generation's prefix of the outbox: per object one current document,
\* the HEAD; the latest capture of each revision, and beside these only former
\* HEADs; and nothing of an object withdrawn by then (apply_capture_with_budget).
IndexReplaysOutbox ==
    \A d \in Dirs, o \in Objects :
        LET n == dirs[d].gen
            docs == {x \in dirs[d].docs : x.obj = o}
            caps == {x.cap : x \in docs}
        IN  IF WithdrawnBy(o, n) THEN docs = {}
            ELSE /\ {x.cap : x \in {y \in docs : y.cur}} = HeadOf(o, n)
                 /\ LatestOf(o, n) \cup HeadOf(o, n) \subseteq caps
                 /\ \A k \in caps \ LatestOf(o, n) : k \in CapturesOf(o, n) /\ outbox[k].head

\* An acknowledged event is in a complete index that can be served: whichever process
\* dies, and whenever, the fence never passes every index (acknowledge_index).
AckDurable ==
    \E d \in Dirs : dirs[d].complete /\ dirs[d].gen >= ack

\* A withdrawal is final for searches: a page never comes from a snapshot older than a
\* withdrawal that had committed when the session was last looked at, whatever order
\* snapshot, withdrawal, pin, expiry and the other calls of the session came in, and
\* no citation lease outlives the withdrawal of its object (pin_session, withdraw).
WithdrawalFinal ==
    [][/\ \A c \in Calls : calls[c].pc # "page" /\ calls'[c].pc = "page" =>
            LET seen == IF calls[c].pc = "confirm" THEN Watermark ELSE calls[c].seen
            IN  \A i \in (calls[c].gen + 1)..seen : ~outbox[i].withdrawn
       /\ \A o \in leases' : ~WithdrawnBy(o, Watermark)']_vars

\* The runtime polls its loop, a rebuild goes on, and a stopped backend is started
\* again on a directory that it accepts.
Fairness ==
    /\ WF_vars(ServerStep) /\ WF_vars(RebuildStep)
    /\ WF_vars(\E d \in Dirs : Serve(d))

FairSpec == Spec /\ Fairness

\* Every committed event is acknowledged in the end, also the last one before a crash
\* that came between the index commit and its acknowledgement.
EventsAcknowledged == \A n \in 1..MaxOutbox : Watermark >= n ~> ack >= n
=============================================================================
