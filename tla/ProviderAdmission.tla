------------------------- MODULE ProviderAdmission -------------------------
(***************************************************************************)
(* Admission of law.go.kr requests across processes.  Every transaction of *)
(* admission.rs begins by locking the one row of provider_request_budget   *)
(* (lock_budget), so each is one atomic step here.  What interleaves is    *)
(* everything between them: a reservation is a committed row together with *)
(* a session advisory lock on its slot, the HTTP exchange holds no         *)
(* transaction, the row is deleted before the lock is released, a process  *)
(* may die or lose an acknowledgement anywhere, the session that holds the *)
(* lock may break under a request that goes on, a suspension runs on       *)
(* another connection and may land after its caller is gone, and the flag  *)
(* operator_suspended of LawGoKrClient is shared by the calls of one       *)
(* process.  Continuous calls run in one process, on-demand calls in       *)
(* another (a request Pod).                                                *)
(*                                                                         *)
(* Left out: pilot windows, canary deadlines, the operation-local cap and  *)
(* the in-process spacing of law_go_kr.rs, which only refuse earlier; the  *)
(* launch check of reserve (CorpusJobs and LaunchLedger); pg_notify, since *)
(* a waiter polls every five seconds anyway.                               *)
(***************************************************************************)
EXTENDS Integers, FiniteSets

CONSTANTS
    Continuous,  \* calls of the collector process
    OnDemand,    \* calls of a request Pod
    Slots,       \* advisory lock slots (16 in the code)
    Limits,      \* daily limits an operator may configure
    MaxEvents,   \* bound on events, cancellations and configurations
    Plans,       \* calls and events among which a behaviour has its own
    None

ASSUME AdmissionAssumption ==
    /\ Slots \in Nat \ {0}
    /\ Limits # {} /\ Limits \subseteq Nat \ {0}
    /\ MaxEvents \in Nat
    /\ IsFiniteSet(Continuous) /\ IsFiniteSet(OnDemand)
    /\ Continuous \cap OnDemand = {}
    /\ None \notin Continuous \cup OnDemand
    /\ Plans \subseteq [calls : SUBSET (Continuous \cup OnDemand), events : 0..MaxEvents]

Call == Continuous \cup OnDemand
Mode == {"continuous", "on_demand"}
ModeOf(c) == IF c \in OnDemand THEN "on_demand" ELSE "continuous"
CallsOf(m) == {c \in Call : ModeOf(c) = m}

VARIABLES
    used,         \* daily_used and on_demand_used, valid on utc_day
    today,        \* utc_day is the current day
    limit,        \* continuous_daily_limit and on_demand_daily_limit
    inflight,     \* max_in_flight
    next,         \* max(next_allowed_at, next_request_at): 0 past, 1 within 30 s, 2 later
    last,         \* last_admission_mode
    suspended,    \* operator_suspended of the budget row
    legacy,       \* unresolved_response, the singleton marker of older binaries
    hold,         \* recovery_hold
    row,          \* row[c]: slot of c's provider_request_admission row, 0 without one
    lock,         \* lock[s]: call whose session holds the advisory lock of slot s
    ticket,       \* ticket[c]: c's provider_demand_ticket row, its lease not expired;
                  \* for an on-demand call also the receipt about to launch its Pod
    pc,           \* what each call is doing
    landing,      \* call whose abandoned suspension the server has still to settle;
                  \* until then that transaction holds the budget row
    stopped,      \* stopped[m]: the process-local operator_suspended
    sent,         \* history: requests put on the wire today, by mode
    events        \* environment events so far

budgetRow == <<used, today, limit, inflight, next, last, suspended, legacy, hold>>
admissionVars == <<budgetRow, row, lock, ticket, pc, landing, stopped, sent, events>>

\* At "severed" the request is on the wire and its lock session has broken; a call that
\* the behaviour's plan does not have is "absent".
PC == {"absent", "idle", "ticketed", "waiting", "owned", "severed", "rejecting",
       "pausing", "settled", "closing", "unpausing", "stopping", "parsing", "lost"}

AdmissionTypeOK ==
    /\ used \in [Mode -> Nat] /\ sent \in [Mode -> Nat]
    /\ today \in BOOLEAN /\ suspended \in BOOLEAN
    /\ legacy \in BOOLEAN /\ hold \in BOOLEAN
    /\ limit \in [Mode -> Limits]
    /\ inflight \in 1..Slots
    /\ next \in 0..2
    /\ last \in Mode \cup {None}
    /\ row \in [Call -> 0..Slots]
    /\ lock \in [1..Slots -> Call \cup {None}]
    /\ ticket \in [Call -> BOOLEAN]
    /\ pc \in [Call -> PC]
    /\ landing \in Call \cup {None}
    /\ stopped \in [Mode -> BOOLEAN]
    /\ events \in 0..MaxEvents

AdmissionInit ==
    /\ used = [m \in Mode |-> 0] /\ sent = [m \in Mode |-> 0]
    /\ today = TRUE
    /\ limit \in [Mode -> Limits]
    /\ inflight = Slots
    /\ next = 0
    /\ last = None
    /\ suspended = FALSE
    /\ legacy \in BOOLEAN
    /\ hold = FALSE
    /\ row = [c \in Call |-> 0]
    /\ lock = [s \in 1..Slots |-> None]
    /\ ticket = [c \in Call |-> FALSE]
    /\ landing = None
    /\ stopped = [m \in Mode |-> FALSE]
    /\ \E p \in Plans :
          /\ pc = [c \in Call |-> IF c \in p.calls THEN "idle" ELSE "absent"]
          /\ events = MaxEvents - p.events

----------------------------------------------------------------------------
Owners == {c \in Call : row[c] # 0}

\* lock_budget: nobody holds the row of provider_request_budget.
BudgetFree == landing = None

\* live_owner_count: a row whose slot lock can be taken has lost its owner.
Abandoned == {c \in Owners : lock[row[c]] = None}

\* A counter of an earlier UTC day counts as zero.
Used(m) == IF today THEN used[m] ELSE 0

Available(m) == Used(m) < limit[m]

\* demand_waiting: live on-demand tickets, or receipts a live scheduler launches.
DemandWaiting == \E c \in OnDemand : ticket[c]

\* Mutant: on-demand calls do not alternate with a waiting collector.
YieldsCollector(c) ==
    c \in Continuous /\ last # "on_demand" /\ Available("on_demand") /\ DemandWaiting

\* The two waiting modes alternate.
Yields(c) ==
    \/ /\ c \in Continuous
       /\ last # "on_demand"
       /\ Available("on_demand")
       /\ DemandWaiting
    \/ /\ c \in OnDemand
       /\ last = "on_demand"
       /\ Available("continuous")
       /\ \E b \in Continuous : ticket[b]

\* The refusals of reserve_locked: BudgetExhausted without charging anything.
Refused(c) ==
    \/ hold \/ suspended \/ legacy
    \/ ~Available(ModeOf(c))
    \/ Abandoned # {}

\* Fewer live owners than max_in_flight.
Room == Cardinality(Owners) < inflight

FreeSlots == {s \in 1..inflight : lock[s] = None}

----------------------------------------------------------------------------
\* ForegroundTicket::open: an on-demand call is visible before it has a permit.
OpenTicket(c) ==
    /\ c \in OnDemand
    /\ pc[c] = "idle" /\ row[c] = 0
    /\ ticket' = [ticket EXCEPT ![c] = TRUE]
    /\ pc' = [pc EXCEPT ![c] = "ticketed"]
    /\ UNCHANGED <<budgetRow, row, lock, landing, stopped, sent, events>>

\* reserve_request_with_ticket: the local flag, then the reservation loop, which
\* opens a ticket of its own for a continuous call.
Enter(c) ==
    /\ pc[c] = IF c \in OnDemand THEN "ticketed" ELSE "idle"
    /\ ~stopped[ModeOf(c)]
    /\ c \in Continuous => ~ticket[c] /\ row[c] = 0
    /\ ticket' = [ticket EXCEPT ![c] = @ \/ c \in Continuous]
    /\ pc' = [pc EXCEPT ![c] = "waiting"]
    /\ UNCHANGED <<budgetRow, row, lock, landing, stopped, sent, events>>

\* The call ends uncharged and its dropped ticket is deleted.
Leave(c) ==
    /\ pc' = [pc EXCEPT ![c] = "idle"]
    /\ ticket' = [ticket EXCEPT ![c] = FALSE]
    /\ UNCHANGED <<budgetRow, row, lock, landing, stopped, sent>>

Cancel(c) ==
    /\ pc[c] \in {"ticketed", "waiting"}
    /\ events < MaxEvents
    /\ events' = events + 1
    /\ Leave(c)

\* What a waiting call meets at its next look: the local flag, a ticket whose
\* renewal failed, a refusal, a pause of more than thirty seconds.
Refuse(c) ==
    /\ \/ pc[c] = "ticketed" /\ stopped[ModeOf(c)]
       \/ pc[c] \in {"ticketed", "waiting"} /\ ~ticket[c]
       \/ pc[c] = "waiting" /\ BudgetFree /\ (Refused(c) \/ (next = 2 /\ Room /\ ~Yields(c)))
    /\ Leave(c)
    /\ UNCHANGED events

\* Mutant: the budget row keeps its day, and with it yesterday's counters.
ChargeSameDay(m) ==
    /\ used' = [used EXCEPT ![m] = @ + 1]
    /\ today' = TRUE

\* utc_day, daily_used and on_demand_used are rewritten together.
Charge(m) ==
    /\ used' = [n \in Mode |-> Used(n) + (IF n = m THEN 1 ELSE 0)]
    /\ today' = TRUE

\* reserve_locked: everything from the row lock to COMMIT.  The commit may land
\* without its acknowledgement; the caller then closes the session.
Reserve(c, s, acked) ==
    LET m == ModeOf(c) IN
    /\ pc[c] = "waiting" /\ BudgetFree
    /\ ~Refused(c) /\ Room /\ ~Yields(c)
    /\ next = 0
    /\ ticket[c]
    /\ s \in FreeSlots /\ \A t \in FreeSlots : s <= t
    /\ acked \/ events < MaxEvents
    /\ Charge(m)
    /\ next' = 1
    /\ last' = m
    /\ row' = [row EXCEPT ![c] = s]
    /\ lock' = [lock EXCEPT ![s] = c]
    /\ ticket' = [ticket EXCEPT ![c] = FALSE]
    /\ pc' = [pc EXCEPT ![c] = IF acked THEN "owned" ELSE "lost"]
    /\ sent' = [sent EXCEPT ![m] = @ + 1]
    /\ events' = IF acked THEN events ELSE events + 1
    /\ UNCHANGED <<limit, inflight, suspended, legacy, hold, landing, stopped>>

----------------------------------------------------------------------------
\* Mutant: a suspension clears the ledger instead of its own row.
ForgetAll(c) == [d \in Call |-> 0]

\* A response settles only its own row.
Forget(c) == [row EXCEPT ![c] = 0]

\* settle_fetch, success or an ordinary failure: complete() deletes the row, on the
\* session of the lock.  The failure path leaves the row behind while the local flag
\* is set.
Complete(c, ok) ==
    /\ pc[c] = "owned" /\ BudgetFree
    /\ ok \/ ~stopped[ModeOf(c)]
    /\ row' = Forget(c)
    /\ pc' = [pc EXCEPT ![c] = IF ok THEN "settled" ELSE "closing"]
    /\ UNCHANGED <<budgetRow, lock, ticket, landing, stopped, sent, events>>

FailStopped(c) ==
    /\ pc[c] = "owned"
    /\ stopped[ModeOf(c)]
    /\ pc' = [pc EXCEPT ![c] = "lost"]
    /\ UNCHANGED <<budgetRow, row, lock, ticket, landing, stopped, sent, events>>

\* The request of a broken session ends.  Its settlement fails on that session and the
\* row stays; if the answer was 429/503 the local flag stays raised.
SeveredEnds(c, throttled) ==
    /\ pc[c] = "severed"
    /\ pc' = [pc EXCEPT ![c] = "idle"]
    /\ stopped' = [stopped EXCEPT ![ModeOf(c)] = @ \/ throttled]
    /\ UNCHANGED <<budgetRow, row, lock, ticket, landing, sent, events>>

\* settle_fetch on SourceRejected/SourceUnauthorized, and the same verdict found
\* while parsing: the local flag first, then the transaction.
Reject(c) ==
    /\ pc[c] \in {"owned", "severed", "parsing"}
    /\ stopped' = [stopped EXCEPT ![ModeOf(c)] = TRUE]
    /\ pc' = [pc EXCEPT ![c] = "rejecting"]
    /\ UNCHANGED <<budgetRow, row, lock, ticket, landing, sent, events>>

\* suspend_owned_response: suspends and deletes the row of this owner, if any, on a
\* connection of the pool, whatever became of the session of the lock.
Suspend(c) ==
    /\ pc[c] = "rejecting" /\ BudgetFree
    /\ suspended' = TRUE
    /\ row' = Forget(c)
    /\ pc' = [pc EXCEPT ![c] = IF \E s \in 1..Slots : lock[s] = c THEN "closing" ELSE "idle"]
    /\ UNCHANGED <<used, today, limit, inflight, next, last, legacy, hold, lock,
                   ticket, landing, stopped, sent, events>>

\* HTTP 429/503, pause_provider_requests: the local flag is raised for the time
\* the pause is written and then set to what this response asked for.
Throttle(c) ==
    /\ pc[c] = "owned"
    /\ stopped' = [stopped EXCEPT ![ModeOf(c)] = TRUE]
    /\ pc' = [pc EXCEPT ![c] = "pausing"]
    /\ UNCHANGED <<budgetRow, row, lock, ticket, landing, sent, events>>

\* settle(Some(delay)); more than seven days also suspends.
Pause(c, delay, suspend) ==
    /\ pc[c] = "pausing" /\ BudgetFree
    /\ suspend => delay = 2
    /\ row' = Forget(c)
    /\ next' = IF next > delay THEN next ELSE delay
    /\ suspended' = (suspended \/ suspend)
    /\ pc' = [pc EXCEPT ![c] = IF suspend THEN "stopping" ELSE "unpausing"]
    /\ UNCHANGED <<used, today, limit, inflight, last, legacy, hold, lock,
                   ticket, landing, stopped, sent, events>>

Unlocked(c) == [s \in 1..Slots |-> IF lock[s] = c THEN None ELSE lock[s]]

\* ProviderRequestGuard::release, after the row is gone.
Release(c) ==
    /\ pc[c] \in {"settled", "closing", "unpausing", "stopping"}
    /\ lock' = Unlocked(c)
    /\ stopped' = CASE pc[c] = "unpausing" -> [stopped EXCEPT ![ModeOf(c)] = FALSE]
                    [] pc[c] = "stopping"  -> [stopped EXCEPT ![ModeOf(c)] = TRUE]
                    [] OTHER               -> stopped
    /\ pc' = [pc EXCEPT ![c] = IF pc[c] = "settled" THEN "parsing" ELSE "idle"]
    /\ UNCHANGED <<budgetRow, row, ticket, landing, sent, events>>

Parsed(c) ==
    /\ pc[c] = "parsing"
    /\ pc' = [pc EXCEPT ![c] = "idle"]
    /\ UNCHANGED <<budgetRow, row, lock, ticket, landing, stopped, sent, events>>

Holding == {"owned", "rejecting", "pausing", "settled", "closing", "unpausing", "stopping"}

\* Cancellation or a failed settlement or release drops the guard; the server notices
\* the closed session later.  A settlement that lands without its acknowledgement is
\* Complete or Pause before this: it shares the lock's session, which lasts until it is
\* applied.  A suspension whose COMMIT was sent may still land.
Drop(c, inFlight) ==
    /\ pc[c] \in Holding
    /\ events < MaxEvents
    /\ inFlight => pc[c] = "rejecting" /\ BudgetFree
    /\ pc' = [pc EXCEPT ![c] = "lost"]
    /\ landing' = IF inFlight THEN c ELSE landing
    /\ events' = events + 1
    /\ UNCHANGED <<budgetRow, row, lock, ticket, stopped, sent>>

\* The process ends: guards and renewers go with it, rows and tickets stay, and a
\* suspension whose COMMIT was sent may still land.
Crash(m) ==
    /\ events < MaxEvents
    /\ pc' = [c \in Call |->
                IF ModeOf(c) # m \/ pc[c] = "absent" THEN pc[c]
                ELSE IF \E s \in 1..Slots : lock[s] = c THEN "lost" ELSE "idle"]
    /\ \/ UNCHANGED landing
       \/ BudgetFree /\ landing' \in {c \in CallsOf(m) : pc[c] = "rejecting"}
    /\ stopped' = [stopped EXCEPT ![m] = FALSE]
    /\ events' = events + 1
    /\ UNCHANGED <<budgetRow, row, lock, ticket, sent>>

\* The server ends a session whose client is gone and frees its lock.
SessionEnds(c) ==
    /\ pc[c] = "lost"
    /\ lock' = Unlocked(c)
    /\ pc' = [pc EXCEPT ![c] = "idle"]
    /\ UNCHANGED <<budgetRow, row, ticket, landing, stopped, sent, events>>

\* The lock's session breaks under a call that has not noticed: a request on the wire
\* goes on, a suspension needs another connection, and every use of the session fails
\* (a failed pause leaves the local flag raised).
SessionBreaks(c) ==
    /\ pc[c] \in Holding /\ \E s \in 1..Slots : lock[s] = c
    /\ events < MaxEvents
    /\ lock' = Unlocked(c)
    /\ pc' = [pc EXCEPT ![c] = CASE @ = "owned"     -> "severed"
                                 [] @ = "rejecting" -> "rejecting"
                                 [] OTHER           -> "idle"]
    /\ events' = events + 1
    /\ UNCHANGED <<budgetRow, row, ticket, landing, stopped, sent>>

\* The server applies an abandoned suspension, or rolls it back.
LateSuspension(applied) ==
    /\ landing # None
    /\ landing' = None
    /\ suspended' = (suspended \/ applied)
    /\ row' = IF applied THEN Forget(landing) ELSE row
    /\ UNCHANGED <<used, today, limit, inflight, next, last, legacy, hold, lock,
                   ticket, pc, stopped, sent, events>>

----------------------------------------------------------------------------
\* A ticket whose owner is gone, or is stalled past its 30 s lease, expires.
TicketExpires(c) ==
    /\ ticket[c]
    /\ pc[c] = "idle" \/ events < MaxEvents
    /\ ticket' = [ticket EXCEPT ![c] = FALSE]
    /\ events' = IF pc[c] = "idle" THEN events ELSE events + 1
    /\ UNCHANGED <<budgetRow, row, lock, pc, landing, stopped, sent>>

\* Time passes: a pause or the spacing shortens.
Elapse ==
    /\ next > 0
    /\ next' = next - 1
    /\ UNCHANGED <<used, today, limit, inflight, last, suspended, legacy, hold,
                   row, lock, ticket, pc, landing, stopped, sent, events>>

\* UTC midnight; nothing is written until the next reservation.
Midnight ==
    /\ today' = FALSE
    /\ sent' = [m \in Mode |-> 0]
    /\ UNCHANGED <<used, limit, inflight, next, last, suspended, legacy, hold,
                   row, lock, ticket, pc, landing, stopped, events>>

\* A receipt that a live scheduler is about to launch counts as demand
\* (demand_waiting) until it is launched or the scheduler is late.
Receipt(c) ==
    /\ c \in OnDemand
    /\ pc[c] = "idle" /\ ~ticket[c]
    /\ events < MaxEvents
    /\ events' = events + 1
    /\ ticket' = [ticket EXCEPT ![c] = TRUE]
    /\ UNCHANGED <<budgetRow, row, lock, pc, landing, stopped, sent>>

\* configure_provider_request_limits: policy only; the jobs it wakes are
\* CorpusJobs' concern.
Configure(l, n) ==
    /\ BudgetFree /\ events < MaxEvents
    /\ limit' = l /\ inflight' = n
    /\ <<l, n>> # <<limit, inflight>>
    /\ events' = events + 1
    /\ UNCHANGED <<used, today, next, last, suspended, legacy, hold,
                   row, lock, ticket, pc, landing, stopped, sent>>

\* Mutant: recovery trusts the operator that every writer has stopped.
RecoverLive(resume) ==
    /\ BudgetFree
    /\ legacy \/ hold \/ Owners # {}
    /\ row' = [c \in Call |-> 0]
    /\ legacy' = FALSE
    /\ hold' = ~resume
    /\ UNCHANGED <<used, today, limit, inflight, next, last, suspended,
                   lock, ticket, pc, landing, stopped, sent, events>>

\* provider_apply: with every slot lock free, an operator resolves the whole
\* ledger and the legacy marker, and leaves a hold unless asked to resume.
Recover(resume) ==
    /\ BudgetFree /\ \A s \in 1..Slots : lock[s] = None
    /\ legacy \/ hold \/ Owners # {}
    /\ row' = [c \in Call |-> 0]
    /\ legacy' = FALSE
    /\ hold' = ~resume
    /\ UNCHANGED <<used, today, limit, inflight, next, last, suspended,
                   lock, ticket, pc, landing, stopped, sent, events>>

\* The operator clears a suspension by hand and restarts ingestion.
ClearSuspension ==
    /\ suspended /\ BudgetFree
    /\ \A c \in Call : pc[c] \in {"absent", "idle"}
    /\ suspended' = FALSE
    /\ stopped' = [m \in Mode |-> FALSE]
    /\ UNCHANGED <<used, today, limit, inflight, next, last, legacy, hold,
                   row, lock, ticket, pc, landing, sent, events>>

----------------------------------------------------------------------------
Settle(c) ==
    \/ \E ok \in BOOLEAN : Complete(c, ok)
    \/ \E b \in BOOLEAN : SeveredEnds(c, b)
    \/ FailStopped(c) \/ Reject(c) \/ Suspend(c) \/ Throttle(c)
    \/ \E d \in 1..2, b \in BOOLEAN : Pause(c, d, b)
    \/ Release(c) \/ Parsed(c)

AdmissionNext ==
    \/ \E c \in Call :
          \/ OpenTicket(c) \/ Enter(c) \/ Cancel(c) \/ Refuse(c)
          \/ \E s \in 1..Slots, acked \in BOOLEAN : Reserve(c, s, acked)
          \/ Settle(c)
          \/ \E inFlight \in BOOLEAN : Drop(c, inFlight)
          \/ SessionEnds(c) \/ SessionBreaks(c) \/ TicketExpires(c) \/ Receipt(c)
    \/ \E m \in Mode : Crash(m)
    \/ \E applied \in BOOLEAN : LateSuspension(applied)
    \/ Elapse \/ Midnight
    \/ \E l \in [Mode -> Limits], n \in 1..Slots : Configure(l, n)
    \/ \E resume \in BOOLEAN : Recover(resume)
    \/ ClearSuspension

AdmissionSpec == AdmissionInit /\ [][AdmissionNext]_admissionVars

\* What a call, or the clock on its behalf, does next once it has started;
\* in each state of a call at most one of these is possible.
Progress(c) ==
    \/ Settle(c) \/ SessionEnds(c) \/ Refuse(c)
    \/ c \in OnDemand /\ Enter(c)
    \/ pc[c] = "idle" /\ TicketExpires(c)

\* HTTP has a 30 s timeout and settlement follows; waiters poll; leases and
\* pauses end with the clock; the server settles what it was sent.  Nothing is
\* assumed of operators, of new calls, of faults or of which waiter of a mode wins.
AdmissionFairSpec ==
    /\ AdmissionSpec
    /\ \A c \in Call : WF_admissionVars(Progress(c))
    /\ \A m \in Mode :
          WF_admissionVars(\E c \in CallsOf(m), s \in 1..Slots : Reserve(c, s, TRUE))
    /\ WF_admissionVars(Elapse)
    /\ WF_admissionVars(\E applied \in BOOLEAN : LateSuspension(applied))

----------------------------------------------------------------------------
\* A request may be on the wire: its outcome has not been recorded.  One whose session
\* broke is known by its row only: a recovery, for which the operator attests that
\* every writer has stopped, forgets it.
OnWire == {c \in Call : pc[c] \in {"owned", "pausing"}
                        \/ (pc[c] \in {"severed", "rejecting"} /\ row[c] # 0)}

\* Requests that have lost the session of their lock: an abandoned outcome to all others.
Unanswered == {c \in Call : row[c] # 0 /\ lock[row[c]] = None}

\* While the row of a request that lost its session exists, nothing is admitted.  Only
\* an operator's recovery removes the row, or this request's own suspension, which
\* stops all admission in the same transaction: not another owner's settlement or
\* suspension, a lowered max_in_flight or a restart (live_owner_count,
\* suspend_owned_response).
EvidenceKept ==
    [][Unanswered # {} /\ ~(\E resume \in BOOLEAN : Recover(resume)) =>
         /\ \A c \in Unanswered \ Unanswered' :
               suspended' /\ (pc[c] = "rejecting" \/ landing = c)
         /\ \A c \in Call : row'[c] # 0 => row[c] # 0]_admissionVars

\* A reservation is admitted only while fewer than max_in_flight requests can be
\* on the wire or unanswered, owners of slots above a lowered limit included,
\* and its slot is nobody else's (reserve_locked, provider_apply).
InFlightBounded ==
    [][\A c \in Call : row[c] = 0 /\ row'[c] # 0 =>
         /\ Cardinality(OnWire \cup Unanswered) < inflight
         /\ \A d \in Call \ {c} : row'[d] # row'[c]]_admissionVars

\* The day's counters say what was really sent today, in both modes, across
\* midnight and whatever was lost, refused or settled since (reserve_locked).
ChargedToday ==
    \A m \in Mode : Used(m) = sent[m]

\* Neither mode starves the other: while some call keeps waiting without being
\* refused, calls of its mode are admitted again and again (the alternation of
\* reserve_locked), as long as the on-demand process is not left with its local
\* flag set: such a process opens and drops tickets without ever being admitted,
\* and each one delays the collector.
NeitherStarves ==
    \A c \in Call :
        <>[](pc[c] = "waiting" /\ ~stopped["on_demand"]) =>
            []<><<\E d \in CallsOf(ModeOf(c)) : row[d] = 0 /\ row'[d] # 0>>_admissionVars
=============================================================================
