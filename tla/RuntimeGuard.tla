----------------------------- MODULE RuntimeGuard -----------------------------
(* The guard directory of strict processes (runtime_guard.rs) and the         *)
(* durability fence a commit waits for (replication.rs, postgres.rs).         *)
(*                                                                            *)
(* Every strict process owns one record file and its flock. A record that is  *)
(* not closed_clean and whose flock is free is evidence of an unclean exit.   *)
(* Lifecycle changes hold the directory lock exclusively; the scan of a check *)
(* shares it, and finds out whether a record is owned by trying its flock.    *)
EXTENDS Naturals

CONSTANTS
  Procs,     \* incarnations of strict processes; each has a record of its own
  Keys,      \* the logical keys: "serve", "scheduler", one per collection launch
  Checks,    \* the fence checks that are ever begun
  MaxFaults  \* bound on crashes, errors, missed deadlines and failed receipts

NoOne == "no one"
Owner == "owner"

ASSUME GuardAssumption ==
  /\ NoOne \notin Procs \union Checks /\ Owner \notin Checks
  /\ MaxFaults \in Nat

VARIABLES
  proc,      \* where each process is; key, Shared.poisoned and Shared.closing
  file,      \* its record: state on disk and who holds the flock
  check,     \* DurabilityFence::check calls under way and their scans
  readers,   \* checks that hold the directory lock shared
  writer,    \* the process that holds it exclusively
  unclean,   \* history: processes that crashed or were marked uncertain and whose
             \* record cannot become closed_clean any more
  before,    \* history: processes that called acquire() when one was unclean
  faults     \* faults injected so far

vars == <<proc, file, check, readers, writer, unclean, before, faults>>

Kinds    == {"commit", "probe"}   \* of a transaction, or of a health check
ProcPCs  == {"new", "called", "write", "sync", "up", "drain", "rwait", "rclean",
             "rsync", "runlock", "rlate", "closed", "failed", "spoiled", "dead"}
CheckPCs == {"idle", "admit", "wait", "scan", "flush", "done"}
FileSts  == {"none", "torn", "active", "clean", "retired"}

TypeOK ==
  /\ proc \in [Procs -> [pc : ProcPCs, key : Keys, poisoned : BOOLEAN, closing : BOOLEAN]]
  /\ file \in [Procs -> [st : FileSts, lock : {NoOne, Owner} \union Checks]]
  /\ check \in [Checks -> [pc : CheckPCs, p : Procs, kind : Kinds, round : 1..2,
                           left : SUBSET Procs, probe : Procs \union {NoOne},
                           stale : BOOLEAN, res : {"none", "ok", "err"},
                           seen : SUBSET Procs, masked : SUBSET Procs]]
  /\ readers \subseteq Checks /\ writer \in Procs \union {NoOne}
  /\ unclean \subseteq Procs /\ before \subseteq Procs
  /\ faults \in 0..MaxFaults

Init ==
  /\ proc \in [Procs -> {[pc |-> "new", key |-> k, poisoned |-> FALSE, closing |-> FALSE]
                           : k \in Keys}]
  /\ file = [p \in Procs |-> [st |-> "none", lock |-> NoOne]]
  /\ \E p \in Procs :
       check = [c \in Checks |-> [pc |-> "idle", p |-> p, kind |-> "probe", round |-> 1,
                                  left |-> {}, probe |-> NoOne, stale |-> FALSE,
                                  res |-> "none", seen |-> {}, masked |-> {}]]
  /\ readers = {} /\ writer = NoOne
  /\ unclean = {} /\ before = {}
  /\ faults = 0

----------------------------------------------------------------------------
(* Records. *)

Records == {r \in Procs : file[r].st \notin {"none", "retired"}}
Alive(p) == proc[p].pc \notin {"new", "closed", "failed", "spoiled", "dead"}

\* An unowned record that does not say closed_clean, or one that does not parse.
RefusedTorn(r) == file[r].st = "torn"
Refused(r) == file[r].st = "torn" \/ (file[r].st = "active" /\ file[r].lock = NoOne)

\* An owned record of the same logical key.
KeyTaken(p) == \E r \in Records : file[r].lock # NoOne /\ proc[r].key = proc[p].key

Fault == faults < MaxFaults /\ faults' = faults + 1

Goto(p, pc) == proc' = [proc EXCEPT ![p].pc = pc]

\* The exclusive directory lock.
Exclusive == writer = NoOne /\ readers = {}

\* Records of which the flock is the owner's, dropped by the owner.
Dropped(f, p) == [f EXCEPT ![p].lock = IF @ = Owner THEN NoOne ELSE @]

\* mark_uncertain() of the fence moves its failure generation.
Moved(ch, p) ==
  [c \in Checks |-> IF ch[c].p = p /\ ch[c].res = "none"
                    THEN [ch[c] EXCEPT !.stale = TRUE] ELSE ch[c]]

\* A check after its end: only what a confirmed one has seen is of interest.
Ended(c, res) ==
  [pc |-> "done", p |-> check[c].p, kind |-> check[c].kind, round |-> 1, left |-> {},
   probe |-> NoOne, stale |-> FALSE, res |-> res,
   seen |-> IF res = "ok" THEN check[c].seen ELSE {},
   masked |-> IF res = "ok" THEN check[c].masked ELSE {}]

----------------------------------------------------------------------------
(* acquire(). *)

AcquireCall(p) ==
  /\ proc[p].pc = "new" /\ Goto(p, "called")
  /\ before' = IF unclean = {} THEN before ELSE before \union {p}
  /\ UNCHANGED <<file, check, readers, writer, unclean, faults>>

\* The scan under the exclusive lock refuses: unclean evidence, or the key is taken.
AcquireRefused(p) ==
  /\ proc[p].pc = "called" /\ Exclusive
  /\ KeyTaken(p) \/ \E r \in Records : Refused(r)
  /\ Goto(p, "failed")
  /\ UNCHANGED <<file, check, readers, writer, unclean, before, faults>>

\* The scan passes, clean records are unlinked and the own file is created and locked.
AcquireScan(p) ==
  /\ proc[p].pc = "called" /\ Exclusive
  /\ ~KeyTaken(p) /\ \A r \in Records : ~Refused(r)
  /\ writer' = p /\ Goto(p, "write")
  /\ file' = [r \in Procs |->
                IF r = p THEN [st |-> "torn", lock |-> Owner]
                ELSE IF file[r].st = "clean" /\ file[r].lock = NoOne
                     THEN [file[r] EXCEPT !.st = "retired"] ELSE file[r]]
  /\ UNCHANGED <<check, readers, unclean, before, faults>>

AcquireWrite(p) ==
  /\ proc[p].pc = "write" /\ Goto(p, "sync")
  /\ file' = [file EXCEPT ![p].st = "active"]
  /\ UNCHANGED <<check, readers, writer, unclean, before, faults>>

Acquired(p) ==
  /\ proc[p].pc = "sync" /\ Goto(p, "up") /\ writer' = NoOne
  /\ UNCHANGED <<file, check, readers, unclean, before, faults>>

\* The two seconds are over before the task has the lock.
AcquireTimeout(p) ==
  /\ Fault /\ proc[p].pc = "called" /\ Goto(p, "failed")
  /\ UNCHANGED <<file, check, readers, writer, unclean, before>>

\* A write fails, or they are over later: what the task made is dropped, not released.
AcquireLate(p) ==
  /\ Fault /\ proc[p].pc \in {"write", "sync"} /\ Goto(p, "failed") /\ writer' = NoOne
  /\ file' = Dropped(file, p) /\ unclean' = unclean \union {p}
  /\ UNCHANGED <<check, readers, before>>

----------------------------------------------------------------------------
(* Uncertainty and process death. *)

\* Shared::poison, and the fence's mark_uncertain around it.
PoisonFlag(p) ==
  /\ proc' = [proc EXCEPT ![p].poisoned = TRUE]
  /\ file' = file
Poison(p) ==
  /\ proc' = [proc EXCEPT ![p].poisoned = TRUE]
  /\ file' = Dropped(file, p)

\* The command ended with an error.
MarkUncertain(p) ==
  /\ Fault /\ proc[p].pc = "up" /\ ~proc[p].poisoned
  /\ Poison(p) /\ check' = Moved(check, p) /\ unclean' = unclean \union {p}
  /\ UNCHANGED <<readers, writer, before>>

\* A killed process loses its locks and its checks; its record stays.
Crash(p) ==
  /\ Fault /\ Alive(p) /\ Goto(p, "dead")
  /\ LET own == {c \in Checks : check[c].p = p} IN
     /\ file' = [r \in Procs |-> IF file[r].lock \in own THEN [file[r] EXCEPT !.lock = NoOne]
                                 ELSE Dropped(file, p)[r]]
     /\ readers' = readers \ own
     /\ check' = [c \in Checks |-> IF c \in own /\ check[c].pc # "idle"
                                   THEN Ended(c, check[c].res) ELSE check[c]]
  /\ writer' = IF writer = p THEN NoOne ELSE writer
  /\ unclean' = IF file[p].st \in {"torn", "active"} THEN unclean \union {p} ELSE unclean
  /\ UNCHANGED before

----------------------------------------------------------------------------
(* DurabilityFence::check: the guard, the replication receipt, the guard again. *)

Stopped(p) == proc[p].poisoned \/ proc[p].closing

\* Does the error of c also drop a transaction that has sent its COMMIT?
Drops(c) == check[c].res = "none" /\ check[c].kind = "commit"

\* The call of c returns an error; its scan ends with it or, at the deadline, stays
\* behind as a job. An unavailable dependency moves the fence's generation. A dropped
\* transaction marks the process uncertain.
FailsAs(c, ended, moved) ==
  LET p  == check[c].p
      ch == [check EXCEPT ![c] = IF ended THEN Ended(c, "err") ELSE [@ EXCEPT !.res = "err"]]
      f  == [r \in Procs |-> IF ended /\ file[r].lock = c
                             THEN [file[r] EXCEPT !.lock = NoOne] ELSE file[r]]
  IN /\ check' = IF Drops(c) \/ (moved /\ check[c].res = "none") THEN Moved(ch, p) ELSE ch
     /\ proc' = [proc EXCEPT ![p].poisoned = @ \/ Drops(c)]
     /\ file' = IF Drops(c) THEN Dropped(f, p) ELSE f
     /\ unclean' = IF Drops(c) THEN unclean \union {p} ELSE unclean

Fails(c) == FailsAs(c, TRUE, TRUE)

\* A COMMIT was sent and answered, or a health check begins.
Begin(c, p, kind) ==
  /\ check[c].pc = "idle" /\ proc[p].pc = "up"
  /\ check' = [check EXCEPT ![c].pc = "admit", ![c].p = p, ![c].kind = kind,
                            ![c].seen = unclean \ {p}]
  /\ UNCHANGED <<proc, file, readers, writer, unclean, before, faults>>

\* Under the admission mutex; from here the scan is an owned blocking job.
Admit(c) ==
  /\ check[c].pc = "admit"
  /\ IF Stopped(check[c].p) THEN Fails(c)
     ELSE /\ check' = [check EXCEPT ![c].pc = "wait"]
          /\ UNCHANGED <<proc, file, unclean>>
  /\ UNCHANGED <<readers, writer, before, faults>>

ScanStart(c) ==
  /\ check[c].pc = "wait"
  /\ IF Stopped(check[c].p) THEN Fails(c) /\ UNCHANGED readers
     ELSE /\ writer = NoOne /\ readers' = readers \union {c}
          /\ check' = [check EXCEPT ![c].pc = "scan", ![c].masked = {},
                                    ![c].left = Records \ {check[c].p}]
          /\ UNCHANGED <<proc, file, unclean>>
  /\ UNCHANGED <<writer, before, faults>>

\* One record: unreadable, owned by somebody, or its flock taken to look at it.
ScanRecord(c, r) ==
  /\ check[c].pc = "scan" /\ check[c].probe = NoOne /\ r \in check[c].left
  /\ \/ /\ file[r].st = "torn"
        /\ Fails(c) /\ readers' = readers \ {c}
     \/ /\ file[r].st # "torn" /\ file[r].lock # NoOne
        /\ check' = [check EXCEPT ![c].left = @ \ {r},
                                  ![c].masked = IF file[r].lock \in Checks
                                                THEN @ \union {r} ELSE @]
        /\ UNCHANGED <<proc, file, unclean, readers>>
     \/ /\ file[r].st # "torn" /\ file[r].lock = NoOne
        /\ file' = [file EXCEPT ![r].lock = c]
        /\ check' = [check EXCEPT ![c].probe = r]
        /\ UNCHANGED <<proc, unclean, readers>>
  /\ UNCHANGED <<writer, before, faults>>

\* The flock was free: only a closed_clean record may be; closing the file frees it.
Judge(c) ==
  /\ check[c].pc = "scan" /\ check[c].probe # NoOne
  /\ LET r == check[c].probe IN
     IF file[r].st = "clean"
     THEN /\ check' = [check EXCEPT ![c].left = @ \ {r}, ![c].probe = NoOne]
          /\ file' = [file EXCEPT ![r].lock = NoOne]
          /\ UNCHANGED <<proc, unclean, readers>>
     ELSE Fails(c) /\ readers' = readers \ {c}
  /\ UNCHANGED <<writer, before, faults>>

\* The job ends and its caller, if there still is one, looks at the flags again: the
\* first answer leads to the receipt, the second ends the check.
ScanEnd(c) ==
  /\ check[c].pc = "scan" /\ check[c].left = {}
  /\ readers' = readers \ {c}
  /\ IF \/ Stopped(check[c].p) \/ check[c].res # "none"
        \/ check[c].round = 2 /\ check[c].stale
     THEN Fails(c)
     ELSE /\ check' = [check EXCEPT ![c] = IF check[c].round = 2 THEN Ended(c, "ok")
                                           ELSE [@ EXCEPT !.pc = "flush"]]
          /\ UNCHANGED <<proc, file, unclean>>
  /\ UNCHANGED <<writer, before, faults>>

\* The standby's sender has flushed the prefix in one session, or the proof fails.
Receipt(c) ==
  /\ check[c].pc = "flush"
  /\ \/ Fault /\ Fails(c)
     \/ /\ ~check[c].stale
        /\ check' = [check EXCEPT ![c].pc = "admit", ![c].round = 2]
        /\ UNCHANGED <<proc, file, unclean, faults>>
  /\ UNCHANGED <<readers, writer, before>>

\* The deadline, or a caller that goes: a scan under way stays behind as a job.
GiveUp(c) ==
  /\ Fault /\ check[c].pc \in {"admit", "wait", "scan", "flush"} /\ check[c].res = "none"
  /\ \E moved \in BOOLEAN : FailsAs(c, check[c].pc \notin {"wait", "scan"}, moved)
  /\ UNCHANGED <<readers, writer, before>>

\* within(): a job without a caller ends before it has the directory lock.
Abort(c) ==
  /\ check[c].pc = "wait" /\ check[c].res # "none"
  /\ check' = [check EXCEPT ![c] = Ended(c, "err")]
  /\ UNCHANGED <<proc, file, readers, writer, unclean, before, faults>>

----------------------------------------------------------------------------
(* release_clean(). *)

Jobs(p) == {c \in Checks : check[c].p = p /\ check[c].pc \in {"wait", "scan"}}
Drained(p) == Jobs(p) = {}

\* The command ended well, its transactions with it.
ReleaseBegin(p) ==
  /\ proc[p].pc = "up" /\ ~proc[p].poisoned
  /\ \A c \in Checks : check[c].p = p /\ check[c].kind = "commit" /\ check[c].pc # "idle"
                         => check[c].res # "none"
  /\ proc' = [proc EXCEPT ![p].pc = "drain", ![p].closing = TRUE]
  /\ UNCHANGED <<file, check, readers, writer, unclean, before, faults>>

ReleaseDrained(p) ==
  /\ proc[p].pc = "drain" /\ Drained(p) /\ Goto(p, "rwait")
  /\ UNCHANGED <<file, check, readers, writer, unclean, before, faults>>

\* Two seconds are over: the process is marked uncertain beside its blocking task. At
\* "rlate" the task has looked at the flag for the last time.
ReleaseLate(p) ==
  /\ Fault /\ proc[p].pc \in {"drain", "rwait", "rclean", "rsync", "runlock"} /\ ~proc[p].poisoned
  /\ proc' = [proc EXCEPT ![p].poisoned = TRUE,
                          ![p].pc = CASE @ = "drain" -> "failed" [] @ = "runlock" -> "rlate"
                                      [] OTHER -> @]
  /\ file' = Dropped(file, p)
  /\ unclean' = IF proc[p].pc \in {"drain", "rwait"} THEN unclean \union {p} ELSE unclean
  /\ UNCHANGED <<check, readers, writer, before>>

\* Under the exclusive lock: the scan, then the record is rewritten. A refusal marks
\* the process uncertain.
ReleaseScan(p) ==
  /\ proc[p].pc = "rwait" /\ Exclusive
  /\ IF proc[p].poisoned \/ \E r \in Records \ {p} : Refused(r)
     THEN /\ proc' = [proc EXCEPT ![p].pc = "failed", ![p].poisoned = TRUE]
          /\ file' = Dropped(file, p) /\ unclean' = unclean \union {p} /\ UNCHANGED writer
     ELSE /\ Goto(p, "rclean") /\ writer' = p
          /\ file' = [file EXCEPT ![p].st = "torn"] /\ UNCHANGED unclean
  /\ UNCHANGED <<check, readers, before, faults>>

ReleaseWrite(p) ==
  /\ proc[p].pc = "rclean" /\ Goto(p, "rsync")
  /\ file' = [file EXCEPT ![p].st = "clean"]
  /\ UNCHANGED <<check, readers, writer, unclean, before, faults>>

\* The rewrite fails half way, or the directory's sync behind it does: the error marks
\* the process uncertain, and nobody takes a written closed_clean back.
ReleaseBroken(p) ==
  /\ Fault /\ proc[p].pc \in {"rclean", "rsync"} /\ writer' = NoOne
  /\ proc' = [proc EXCEPT ![p].pc = IF @ = "rclean" THEN "failed" ELSE "spoiled",
                          ![p].poisoned = TRUE]
  /\ file' = Dropped(file, p)
  /\ unclean' = IF proc[p].pc = "rclean" THEN unclean \union {p} ELSE unclean
  /\ UNCHANGED <<check, readers, before>>

\* Behind the write and behind the sync the flag is looked at again: a process marked
\* uncertain meanwhile gets its active record back, if the write of it, whose result is
\* ignored, succeeds.
ReleaseSyncUnchecked(p) ==
  /\ proc[p].pc = "rsync" /\ Goto(p, "runlock")
  /\ UNCHANGED <<file, check, readers, writer, unclean, before, faults>>
ReleaseSync(p) ==
  /\ proc[p].pc = "rsync"
  /\ \/ /\ ~proc[p].poisoned /\ Goto(p, "runlock") /\ UNCHANGED <<file, writer, unclean>>
     \/ /\ proc[p].poisoned /\ writer' = NoOne
        /\ \E st \in {"active", "torn", "clean"} :
             /\ file' = [file EXCEPT ![p].st = st]
             /\ Goto(p, IF st = "clean" THEN "spoiled" ELSE "failed")
             /\ unclean' = IF st = "clean" THEN unclean ELSE unclean \union {p}
  /\ UNCHANGED <<check, readers, before, faults>>

\* The blocking task ends: release_clean() returns Ok, or has already failed.
ReleaseUnlock(p) ==
  /\ proc[p].pc \in {"runlock", "rlate"} /\ writer' = NoOne
  /\ Goto(p, IF proc[p].pc = "runlock" THEN "closed" ELSE "spoiled")
  /\ file' = Dropped(file, p)
  /\ UNCHANGED <<check, readers, unclean, before, faults>>

----------------------------------------------------------------------------

CheckNext(c) ==
  \/ \E p \in Procs, kind \in Kinds : Begin(c, p, kind)
  \/ Admit(c) \/ ScanStart(c) \/ (\E r \in Procs : ScanRecord(c, r)) \/ Judge(c)
  \/ ScanEnd(c) \/ Receipt(c) \/ GiveUp(c) \/ Abort(c)

ProcNext(p) ==
  \/ AcquireCall(p) \/ AcquireRefused(p) \/ AcquireScan(p) \/ AcquireWrite(p)
  \/ Acquired(p) \/ AcquireTimeout(p) \/ AcquireLate(p) \/ MarkUncertain(p) \/ Crash(p)
  \/ ReleaseBegin(p) \/ ReleaseDrained(p) \/ ReleaseLate(p) \/ ReleaseScan(p)
  \/ ReleaseBroken(p) \/ ReleaseWrite(p) \/ ReleaseSync(p) \/ ReleaseUnlock(p)

Next == (\E p \in Procs : ProcNext(p)) \/ (\E c \in Checks : CheckNext(c))

Spec == Init /\ [][Next]_vars


----------------------------------------------------------------------------
(* Properties. *)

\* Between its record and its end a process holds its key.
Holds(p) == Alive(p) /\ proc[p].pc # "called"

\* acquire() starts no process after another one crashed or was marked uncertain,
\* by its release too, as long as the record of that one could not become closed_clean
\* any more, however it was being written and whatever was released or retired since;
\* and none beside another holder of the same key (the server, the scheduler, one
\* collection launch), uncertain ones and ones being released included.
StartsAlone ==
  \A p \in Procs :
    /\ proc[p].pc = "up" => p \notin before
    /\ \A q \in Procs \ {p} : Holds(p) /\ Holds(q) => proc[p].key # proc[q].key

\* release_clean() succeeds for no process marked uncertain on its way, and a record
\* says closed_clean only of a process with no scan under way, whose commits were all
\* confirmed, and that was not marked uncertain but for these: the write raced with the
\* mark and is still to be taken back ("rsync"), the mark came after the last look at
\* the flag ("rlate"), or taking it back failed or was cut short ("spoiled", "dead").
CleanIsDrained ==
  \A p \in Procs :
    /\ file[p].st = "clean" =>
         /\ p \notin unclean /\ Jobs(p) = {}
         /\ \A c \in Checks :
              check[c].p = p /\ check[c].kind = "commit" => check[c].res = "ok"
         /\ proc[p].poisoned => proc[p].pc \in {"rsync", "rlate", "spoiled", "dead"}
    /\ proc[p].pc \in {"runlock", "closed"} => ~proc[p].poisoned

\* A confirmed check proves that no process had gone unclean before it began, unless
\* a probing scan held the flock of that process's record at the same time: the
\* directory lock is shared by scans, and a probed record looks owned.
ConfirmedUnlessProbed ==
  \A c \in Checks : check[c].res = "ok" => check[c].seen \subseteq check[c].masked
=============================================================================
