------------------------- MODULE RuntimeGuard_proofs -------------------------
(* The proofs about the guard directory. None of the properties is inductive: *)
(* that a start is fenced rests on what every unclean process leaves in its   *)
(* record (UncleanInv) and on who may write it under the directory lock       *)
(* (DirInv, FileInv); that a closed_clean record is truthful rests on which   *)
(* checks can still be under way when a release has begun (DrainInv,          *)
(* CommitInv); that a confirmed check saw everything rests on what its scan   *)
(* still has to look at (SeenInv).                                            *)
EXTENDS RuntimeGuard, TLAPS

\* Where a process has the directory lock to itself, and where it holds its key.
LockedPCs == {"write", "sync", "rclean", "rsync", "runlock", "rlate"}
HeldPCs == LockedPCs \union {"up", "drain", "rwait"}

\* The directory lock: one writer, or the scans that run.
DirInv ==
  /\ \A p \in Procs : writer = p <=> proc[p].pc \in LockedPCs
  /\ writer # NoOne => readers = {}
  /\ \A c \in Checks : c \in readers <=> check[c].pc = "scan"

\* What the place of a process says about its record; a flock that a check holds is
\* the one its scan is probing.
FileInv ==
  \A p \in Procs :
    /\ proc[p].pc \in {"new", "called"} => file[p].st = "none"
    /\ proc[p].pc \in {"write", "rclean"} => file[p].st = "torn"
    /\ proc[p].pc \in {"sync", "up", "drain", "rwait"} => file[p].st = "active"
    /\ proc[p].pc \in {"rsync", "runlock", "rlate"} => file[p].st = "clean"
    /\ proc[p].pc \in {"rclean", "rsync"} /\ proc[p].poisoned => file[p].lock # Owner
    /\ file[p].lock \in Checks =>
         /\ check[file[p].lock].pc = "scan" /\ check[file[p].lock].probe = p
         /\ p \in check[file[p].lock].left

\* An unclean process is over, or waits for its end; its record is not closed_clean
\* and its own flock is gone.
UncleanInv ==
  \A p \in unclean :
    /\ proc[p].pc \in {"dead", "failed"} \/ (proc[p].pc \in {"up", "rwait"} /\ proc[p].poisoned)
    /\ file[p].st \in {"torn", "active"} /\ file[p].lock # Owner

\* A process that called acquire() behind an unclean one never gets further.
BeforeInv ==
  \A p \in before : unclean # {} /\ proc[p].pc \in {"called", "failed", "dead"}

\* A release begins by refusing new checks and goes on when no scan is left; it does
\* not succeed for a process marked uncertain.
DrainInv ==
  \A p \in Procs :
    /\ proc[p].pc = "drain" => proc[p].closing
    /\ \/ proc[p].pc \in {"rwait", "rclean", "rsync", "runlock", "rlate", "closed"}
       \/ file[p].st \in {"clean", "retired"}
       => proc[p].closing /\ proc[p].pc # "up" /\ Jobs(p) = {}
    /\ proc[p].pc \in {"runlock", "closed"} => ~proc[p].poisoned
    /\ file[p].st = "clean" /\ proc[p].poisoned =>
         proc[p].pc \in {"rsync", "rlate", "spoiled", "dead"}

\* A commit that is not confirmed is under way in a process that is up, or has made
\* its process unclean.
CommitInv ==
  \A c \in Checks :
    /\ check[c].pc = "idle" => check[c].kind = "probe" /\ check[c].res = "none"
    /\ check[c].res = "ok" => check[c].pc = "done"
    /\ check[c].kind = "commit" /\ check[c].res # "ok" =>
         \/ check[c].p \in unclean
         \/ /\ check[c].res = "none" /\ check[c].pc # "done"
            /\ proc[check[c].p].pc = "up"

\* What was unclean when a check began is still to be scanned, or was masked.
SeenInv ==
  \A c \in Checks :
    /\ check[c].seen \subseteq unclean
    /\ check[c].pc = "scan" => check[c].seen \subseteq check[c].left \union check[c].masked
    /\ check[c].res = "ok" => check[c].seen \subseteq check[c].masked
    /\ check[c].p \notin check[c].seen

\* No two processes hold the same key.
KeyInv ==
  \A p, q \in Procs :
    /\ p # q /\ proc[p].pc \in HeldPCs /\ proc[q].pc \in HeldPCs => proc[p].key # proc[q].key

\* The inductive invariant.
IInv ==
  /\ TypeOK /\ DirInv /\ FileInv /\ UncleanInv /\ BeforeInv
  /\ DrainInv /\ CommitInv /\ SeenInv /\ KeyInv

\* The record types of TypeOK.
ProcRec == [pc : ProcPCs, key : Keys, poisoned : BOOLEAN, closing : BOOLEAN]
FileRec == [st : FileSts, lock : {NoOne, Owner} \union Checks]
CheckRec == [pc : CheckPCs, p : Procs, kind : Kinds, round : 1..2,
             left : SUBSET Procs, probe : Procs \union {NoOne},
             stale : BOOLEAN, res : {"none", "ok", "err"},
             seen : SUBSET Procs, masked : SUBSET Procs]

\* Two versions of a check that differ at most in the fence's generation.
Same(a, b) ==
  /\ a.pc = b.pc /\ a.p = b.p /\ a.kind = b.kind /\ a.round = b.round /\ a.left = b.left
  /\ a.probe = b.probe /\ a.res = b.res /\ a.seen = b.seen /\ a.masked = b.masked

\* The type invariant with named record types.
LEMMA TypeFacts ==
  TypeOK <=> /\ proc \in [Procs -> ProcRec] /\ file \in [Procs -> FileRec]
             /\ check \in [Checks -> CheckRec]
             /\ readers \subseteq Checks /\ writer \in Procs \union {NoOne}
             /\ unclean \subseteq Procs /\ before \subseteq Procs
             /\ faults \in 0..MaxFaults
BY DEF TypeOK, ProcRec, FileRec, CheckRec

\* Poisoning a process drops its own flock and nothing else.
LEMMA DroppedFacts ==
  ASSUME NEW f \in [Procs -> FileRec], NEW p \in Procs
  PROVE  /\ Dropped(f, p) \in [Procs -> FileRec]
         /\ \A r \in Procs :
              /\ Dropped(f, p)[r].st = f[r].st
              /\ Dropped(f, p)[r].lock = IF r = p /\ f[r].lock = Owner THEN NoOne ELSE f[r].lock
BY DEF Dropped, FileRec

\* Moving the fence's generation changes nothing else of a check.
LEMMA MovedFacts ==
  ASSUME NEW ch \in [Checks -> CheckRec], NEW p \in Procs
  PROVE  /\ Moved(ch, p) \in [Checks -> CheckRec]
         /\ \A c \in Checks : Same(Moved(ch, p)[c], ch[c])
<1>1. \A c \in Checks : [ch[c] EXCEPT !.stale = TRUE] \in CheckRec
  BY DEF CheckRec
<1>2. \A c \in Checks : Same([ch[c] EXCEPT !.stale = TRUE], ch[c]) /\ Same(ch[c], ch[c])
  BY DEF CheckRec, Same
<1> QED
  BY <1>1, <1>2 DEF Moved

\* What is left of a check that ended.
LEMMA EndedFacts ==
  ASSUME check \in [Checks -> CheckRec], NEW c \in Checks, NEW res \in {"none", "ok", "err"}
  PROVE  /\ Ended(c, res) \in CheckRec
         /\ Ended(c, res).pc = "done" /\ Ended(c, res).res = res
         /\ Ended(c, res).p = check[c].p /\ Ended(c, res).kind = check[c].kind
         /\ Ended(c, res).seen = IF res = "ok" THEN check[c].seen ELSE {}
         /\ Ended(c, res).masked = IF res = "ok" THEN check[c].masked ELSE {}
<1>1. check[c] \in CheckRec
  OBVIOUS
<1>2. /\ Ended(c, res).pc = "done" /\ Ended(c, res).res = res
      /\ Ended(c, res).p = check[c].p /\ Ended(c, res).kind = check[c].kind
      /\ Ended(c, res).seen = IF res = "ok" THEN check[c].seen ELSE {}
      /\ Ended(c, res).masked = IF res = "ok" THEN check[c].masked ELSE {}
  BY <1>1 DEF Ended, CheckRec
<1>3. Ended(c, res) \in CheckRec
  BY <1>1 DEF Ended, CheckRec, CheckPCs
<1> QED
  BY <1>2, <1>3

\* What an error of a check changes, field by field.
LEMMA FailsFacts ==
  ASSUME TypeOK, NEW c \in Checks, NEW ended \in BOOLEAN, NEW moved \in BOOLEAN,
         FailsAs(c, ended, moved)
  PROVE  /\ check' \in [Checks -> CheckRec]
         /\ \A d \in Checks \ {c} : Same(check'[d], check[d])
         /\ check'[c].p = check[c].p /\ check'[c].kind = check[c].kind /\ check'[c].res = "err"
         /\ ended => check'[c].pc = "done" /\ check'[c].seen = {}
         /\ ~ended => /\ check'[c].pc = check[c].pc /\ check'[c].probe = check[c].probe
                      /\ check'[c].left = check[c].left /\ check'[c].seen = check[c].seen
                      /\ check'[c].masked = check[c].masked
         /\ proc' \in [Procs -> ProcRec]
         /\ \A q \in Procs : /\ proc'[q].pc = proc[q].pc /\ proc'[q].key = proc[q].key
                             /\ proc'[q].closing = proc[q].closing
                             /\ proc[q].poisoned => proc'[q].poisoned
                             /\ proc'[q].poisoned => proc[q].poisoned \/ (Drops(c) /\ q = check[c].p)
         /\ file' \in [Procs -> FileRec]
         /\ \A r \in Procs : /\ file'[r].st = file[r].st
                             /\ file'[r].lock \in {file[r].lock, NoOne}
                             /\ ended => file'[r].lock # c
         /\ unclean' = IF Drops(c) THEN unclean \union {check[c].p} ELSE unclean
         /\ Drops(c) => proc'[check[c].p].poisoned /\ file'[check[c].p].lock # Owner
<1> DEFINE p  == check[c].p
           ch == [check EXCEPT ![c] = IF ended THEN Ended(c, "err")
                                      ELSE [@ EXCEPT !.res = "err"]]
           f  == [r \in Procs |-> IF ended /\ file[r].lock = c
                                  THEN [file[r] EXCEPT !.lock = NoOne] ELSE file[r]]
<1>1. /\ proc \in [Procs -> ProcRec] /\ file \in [Procs -> FileRec]
      /\ check \in [Checks -> CheckRec] /\ p \in Procs
  BY TypeFacts DEF CheckRec
<1>2. /\ check' = IF Drops(c) \/ (moved /\ check[c].res = "none") THEN Moved(ch, p) ELSE ch
      /\ proc' = [proc EXCEPT ![p].poisoned = @ \/ Drops(c)]
      /\ file' = IF Drops(c) THEN Dropped(f, p) ELSE f
      /\ unclean' = IF Drops(c) THEN unclean \union {p} ELSE unclean
  BY DEF FailsAs
<1>3. /\ ch \in [Checks -> CheckRec]
      /\ \A d \in Checks \ {c} : ch[d] = check[d]
      /\ ch[c].p = check[c].p /\ ch[c].kind = check[c].kind /\ ch[c].res = "err"
      /\ ended => ch[c].pc = "done" /\ ch[c].seen = {}
      /\ ~ended => /\ ch[c].pc = check[c].pc /\ ch[c].probe = check[c].probe
                   /\ ch[c].left = check[c].left /\ ch[c].seen = check[c].seen
                   /\ ch[c].masked = check[c].masked
  <2>1. [check[c] EXCEPT !.res = "err"] \in CheckRec
    BY <1>1 DEF CheckRec
  <2>2. Ended(c, "err") \in CheckRec
    BY <1>1, EndedFacts
  <2>3. ch[c] = IF ended THEN Ended(c, "err") ELSE [check[c] EXCEPT !.res = "err"]
    BY <1>1
  <2>4. ch \in [Checks -> CheckRec] /\ \A d \in Checks \ {c} : ch[d] = check[d]
    BY <1>1, <2>1, <2>2
  <2>5. CASE ended
    BY <1>1, <2>3, <2>4, <2>5, EndedFacts
  <2>6. CASE ~ended
    BY <1>1, <2>3, <2>4, <2>6 DEF CheckRec
  <2> QED
    BY <2>5, <2>6
<1>4. /\ f \in [Procs -> FileRec]
      /\ \A r \in Procs : /\ f[r].st = file[r].st /\ f[r].lock \in {file[r].lock, NoOne}
                          /\ ended => f[r].lock # c
  BY <1>1, GuardAssumption DEF FileRec
<1> HIDE DEF ch, f
<1>5. /\ check' \in [Checks -> CheckRec]
      /\ \A d \in Checks : Same(check'[d], ch[d])
  BY <1>1, <1>2, <1>3, MovedFacts DEF Same
<1>6. /\ check' \in [Checks -> CheckRec]
      /\ \A d \in Checks \ {c} : Same(check'[d], check[d])
      /\ check'[c].p = check[c].p /\ check'[c].kind = check[c].kind /\ check'[c].res = "err"
      /\ ended => check'[c].pc = "done" /\ check'[c].seen = {}
      /\ ~ended => /\ check'[c].pc = check[c].pc /\ check'[c].probe = check[c].probe
                   /\ check'[c].left = check[c].left /\ check'[c].seen = check[c].seen
                   /\ check'[c].masked = check[c].masked
  BY <1>3, <1>5 DEF Same
<1>7. /\ proc' \in [Procs -> ProcRec]
      /\ \A q \in Procs : /\ proc'[q].pc = proc[q].pc /\ proc'[q].key = proc[q].key
                          /\ proc'[q].closing = proc[q].closing
                          /\ proc[q].poisoned => proc'[q].poisoned
                          /\ proc'[q].poisoned => proc[q].poisoned \/ (Drops(c) /\ q = p)
      /\ Drops(c) => proc'[p].poisoned
  <2>1. CASE Drops(c)
    <3>1. proc' = [proc EXCEPT ![p].poisoned = TRUE]
      BY <1>1, <1>2, <2>1 DEF ProcRec
    <3>2. \A q \in Procs \ {p} : proc'[q] = proc[q]
      BY <1>1, <3>1
    <3>3. \A q \in Procs : proc'[q].poisoned => proc[q].poisoned \/ (Drops(c) /\ q = p)
      BY <2>1, <3>2
    <3>4. /\ proc' \in [Procs -> ProcRec]
          /\ \A q \in Procs : /\ proc'[q].pc = proc[q].pc /\ proc'[q].key = proc[q].key
                              /\ proc'[q].closing = proc[q].closing
                              /\ proc[q].poisoned => proc'[q].poisoned
          /\ proc'[p].poisoned
      BY <1>1, <3>1 DEF ProcRec
    <3> QED
      BY <3>3, <3>4
  <2>2. CASE ~Drops(c)
    <3>1. proc' = proc
      BY <1>1, <1>2, <2>2 DEF ProcRec
    <3> QED
      BY <1>1, <2>2, <3>1
  <2> QED
    BY <2>1, <2>2
<1>8. /\ file' \in [Procs -> FileRec]
      /\ \A r \in Procs : /\ file'[r].st = file[r].st
                          /\ file'[r].lock \in {file[r].lock, NoOne}
                          /\ ended => file'[r].lock # c
      /\ Drops(c) => file'[p].lock # Owner
  <2>1. CASE Drops(c)
    <3>1. file' = Dropped(f, p)
      BY <1>2, <2>1
    <3>2. /\ Dropped(f, p) \in [Procs -> FileRec]
          /\ \A r \in Procs :
               /\ Dropped(f, p)[r].st = f[r].st
               /\ Dropped(f, p)[r].lock = IF r = p /\ f[r].lock = Owner THEN NoOne ELSE f[r].lock
      BY <1>1, <1>4, DroppedFacts
    <3>3. NoOne # c /\ NoOne # Owner
      BY GuardAssumption DEF NoOne, Owner
    <3> HIDE DEF p
    <3> QED
      BY <1>1, <1>4, <3>1, <3>2, <3>3
  <2>2. CASE ~Drops(c)
    BY <1>2, <1>4, <2>2
  <2> QED
    BY <2>1, <2>2
<1> QED
  BY <1>2, <1>6, <1>7, <1>8

\* The error of a check, whatever the call was doing, preserves the invariant.
LEMMA FailsStep ==
  ASSUME IInv, NEW c \in Checks, NEW ended \in BOOLEAN, NEW moved \in BOOLEAN,
         FailsAs(c, ended, moved),
         check[c].pc \in {"admit", "wait", "scan", "flush"},
         ended \/ check[c].pc \in {"wait", "scan"},
         readers' = IF ended THEN readers \ {c} ELSE readers,
         writer' = writer, before' = before, faults' \in 0..MaxFaults
  PROVE  IInv'
<1> USE DEF IInv
<1>0. /\ check' \in [Checks -> CheckRec] /\ proc' \in [Procs -> ProcRec]
      /\ file' \in [Procs -> FileRec]
      /\ check \in [Checks -> CheckRec] /\ proc \in [Procs -> ProcRec]
      /\ file \in [Procs -> FileRec] /\ check[c].p \in Procs
      /\ unclean \subseteq Procs /\ readers \subseteq Checks
  BY FailsFacts, TypeFacts DEF CheckRec
<1>a. /\ \A d \in Checks \ {c} : Same(check'[d], check[d])
      /\ check'[c].p = check[c].p /\ check'[c].kind = check[c].kind /\ check'[c].res = "err"
      /\ ended => check'[c].pc = "done" /\ check'[c].seen = {}
      /\ ~ended => /\ check'[c].pc = check[c].pc /\ check'[c].probe = check[c].probe
                   /\ check'[c].left = check[c].left /\ check'[c].seen = check[c].seen
                   /\ check'[c].masked = check[c].masked
  BY FailsFacts
<1>b. \A q \in Procs : /\ proc'[q].pc = proc[q].pc /\ proc'[q].key = proc[q].key
                       /\ proc'[q].closing = proc[q].closing
                       /\ proc[q].poisoned => proc'[q].poisoned
                       /\ proc'[q].poisoned => proc[q].poisoned \/ (Drops(c) /\ q = check[c].p)
  BY FailsFacts
<1>c. \A r \in Procs : /\ file'[r].st = file[r].st
                       /\ file'[r].lock \in {file[r].lock, NoOne}
                       /\ ended => file'[r].lock # c
  BY FailsFacts
<1>d. /\ unclean' = IF Drops(c) THEN unclean \union {check[c].p} ELSE unclean
      /\ Drops(c) => proc'[check[c].p].poisoned /\ file'[check[c].p].lock # Owner
  BY FailsFacts
<1>e. Drops(c) => /\ proc[check[c].p].pc \in {"dead", "failed", "up", "rwait"}
                  /\ file[check[c].p].st \in {"torn", "active"}
  BY <1>0 DEF CommitInv, UncleanInv, FileInv, Drops
<1>1. TypeOK'
  <2>1. unclean' \subseteq Procs /\ readers' \subseteq Checks
    BY <1>0, <1>d
  <2> QED
    BY <1>0, <2>1, TypeFacts DEF TypeOK, ProcRec, FileRec, CheckRec
<1>2. DirInv'
  BY <1>0, <1>a, <1>b DEF DirInv, Same
<1>3. FileInv'
  <2>1. SUFFICES ASSUME NEW r \in Procs, file'[r].lock \in Checks
                 PROVE  /\ check'[file'[r].lock].pc = "scan" /\ check'[file'[r].lock].probe = r
                        /\ r \in check'[file'[r].lock].left
    <3>1. \A q \in Procs : proc'[q].pc \in {"rclean", "rsync"} /\ proc'[q].poisoned =>
                              file'[q].lock # Owner
      <4>1. \A q \in Procs : file[q].lock # Owner => file'[q].lock # Owner
        BY <1>c DEF NoOne, Owner
      <4> QED
        BY <1>b, <1>e, <4>1 DEF FileInv
    <3> QED
      BY <1>0, <1>b, <1>c, <3>1 DEF FileInv
  <2>2. file'[r].lock = file[r].lock /\ (ended => file[r].lock # c)
    BY <1>c, <2>1, GuardAssumption
  <2>3. /\ check[file[r].lock].pc = "scan" /\ check[file[r].lock].probe = r
        /\ r \in check[file[r].lock].left
    BY <2>1, <2>2 DEF FileInv
  <2> QED
    BY <1>a, <2>1, <2>2, <2>3 DEF Same
<1>4. UncleanInv'
  <2>1. SUFFICES ASSUME NEW q \in unclean'
                 PROVE  /\ proc'[q].pc \in {"dead", "failed"} \/ (proc'[q].pc \in {"up", "rwait"} /\ proc'[q].poisoned)
                        /\ file'[q].st \in {"torn", "active"} /\ file'[q].lock # Owner
    BY DEF UncleanInv
  <2>2. q \in Procs
    BY <1>0, <1>d, <2>1
  <2>3. CASE q \in unclean
    BY <1>b, <1>c, <2>2, <2>3, ZenonT(40) DEF UncleanInv, NoOne, Owner
  <2>4. CASE q \notin unclean
    <3>1. Drops(c) /\ q = check[c].p
      BY <1>d, <2>1, <2>4
    <3>2. proc[q].pc = "up"
      BY <2>4, <3>1 DEF CommitInv, Drops
    <3>3. file[q].st = "active"
      BY <2>2, <3>2 DEF FileInv
    <3> QED
      BY <1>b, <1>c, <1>d, <2>2, <3>1, <3>2, <3>3
  <2> QED
    BY <2>3, <2>4
<1>5. BeforeInv'
  BY <1>0, <1>b, <1>d, TypeFacts DEF BeforeInv
<1>6. DrainInv'
  <2>1. \A d \in Checks : /\ check'[d].p = check[d].p
                          /\ check'[d].pc = check[d].pc \/ check'[d].pc = "done"
    BY <1>a DEF Same
  <2>2. \A q \in Procs : Jobs(q) = {} => Jobs(q)' = {}
    BY <2>1 DEF Jobs
  <2> QED
    BY <1>b, <1>c, <1>e, <2>2 DEF DrainInv
<1>7. CommitInv'
  BY <1>0, <1>a, <1>b, <1>d DEF CommitInv, Drops, Same, CheckRec, Kinds
<1>8. SeenInv'
  BY <1>0, <1>a, <1>d DEF SeenInv, CommitInv, Same
<1>9. KeyInv'
  BY <1>0, <1>b DEF KeyInv
<1> QED
  BY <1>1, <1>2, <1>3, <1>4, <1>5, <1>6, <1>7, <1>8, <1>9

\* An update of one check.
LEMMA OneCheck ==
  ASSUME TypeOK, NEW c \in Checks, NEW new \in CheckRec, check' = [check EXCEPT ![c] = new]
  PROVE  /\ check' \in [Checks -> CheckRec] /\ check'[c] = new
         /\ \A d \in Checks \ {c} : check'[d] = check[d]
BY TypeFacts

\* A step of one check that changes no record, no process and no history.
Quiet(c, new) ==
  /\ check' = [check EXCEPT ![c] = new]
  /\ UNCHANGED <<proc, file, unclean, before, writer>> /\ faults' \in 0..MaxFaults
  /\ readers' \subseteq Checks /\ (writer # NoOne => readers' = {})
  /\ \A d \in Checks \ {c} : d \in readers' <=> d \in readers
  /\ c \in readers' <=> new.pc = "scan"
  /\ new.p = check[c].p /\ new.kind = check[c].kind /\ new.pc # "idle"
  /\ new.res = "ok" => new.pc = "done"
  /\ new.kind = "commit" /\ new.res = "none" =>
       new.pc # "done" /\ check[c].res = "none" /\ check[c].pc # "done"
  /\ new.kind = "commit" /\ new.res = "err" => check[c].res = "err"
  /\ new.pc \in {"wait", "scan"} => ~proc[new.p].closing \/ check[c].pc \in {"wait", "scan"}
  /\ new.seen \subseteq check[c].seen
  /\ new.pc = "scan" => new.seen \subseteq new.left \union new.masked
  /\ new.res = "ok" => new.seen \subseteq new.masked
  /\ \A r \in Procs : file[r].lock = c => new.pc = "scan" /\ new.probe = r /\ r \in new.left

\* Such a step preserves the invariant.
LEMMA QuietCheck ==
  ASSUME IInv, NEW c \in Checks, NEW new \in CheckRec, Quiet(c, new)
  PROVE  IInv'
<1> USE DEF IInv, Quiet
<1>0. /\ check' \in [Checks -> CheckRec] /\ check'[c] = new
      /\ \A d \in Checks \ {c} : check'[d] = check[d]
      /\ new.p \in Procs /\ new.res \in {"none", "ok", "err"}
  BY OneCheck, ZenonT(40) DEF CheckRec

<1>1. TypeOK'
  BY <1>0, TypeFacts DEF TypeOK, ProcRec, FileRec, CheckRec
<1>2. DirInv'
  BY <1>0 DEF DirInv, LockedPCs
<1>3. FileInv'
  BY <1>0 DEF FileInv
<1>4. UncleanInv'
  BY <1>0 DEF UncleanInv
<1>5. BeforeInv'
  BY <1>0 DEF BeforeInv
<1>6. DrainInv'
  BY <1>0 DEF DrainInv, Jobs
<1>7. CommitInv'
  BY <1>0 DEF CommitInv
<1>8. SeenInv'
  BY <1>0 DEF SeenInv
<1>9. KeyInv'
  BY <1>0 DEF KeyInv
<1> QED
  BY <1>1, <1>2, <1>3, <1>4, <1>5, <1>6, <1>7, <1>8, <1>9

\* Where a check stands, and what the directory lock says about it.
LEMMA CheckFacts ==
  ASSUME IInv, NEW c \in Checks
  PROVE  /\ check[c] \in CheckRec /\ check[c].p \in Procs
         /\ check \in [Checks -> CheckRec] /\ readers \subseteq Checks
         /\ faults \in 0..MaxFaults
         /\ \A d \in Checks : d \in readers <=> check[d].pc = "scan"
         /\ writer # NoOne => readers = {}
         /\ \A r \in Procs : file[r].lock = c =>
              check[c].pc = "scan" /\ check[c].probe = r /\ r \in check[c].left
BY TypeFacts DEF IInv, CheckRec, DirInv, FileInv

\* A check that ends with an error.
LEMMA FailStep ==
  ASSUME IInv, NEW c \in Checks, Fails(c),
         check[c].pc \in {"admit", "wait", "scan", "flush"}, readers' = readers \ {c},
         writer' = writer, before' = before, faults' \in 0..MaxFaults
  PROVE  IInv'
<1>1. FailsAs(c, TRUE, TRUE)
  BY DEF Fails
<1> QED
  BY <1>1, FailsStep

\* The admission of a check.
LEMMA AdmitStep ==
  ASSUME IInv, NEW c \in Checks, Admit(c) PROVE IInv'
<1>1. CASE Stopped(check[c].p)
  <2>1. /\ Fails(c) /\ check[c].pc = "admit" /\ writer' = writer /\ before' = before
        /\ readers' = readers /\ faults' = faults
    BY <1>1 DEF Admit
  <2>2. readers' = readers \ {c} /\ faults' \in 0..MaxFaults
    BY <2>1, CheckFacts
  <2> QED
    BY <2>1, <2>2, FailStep
<1>2. CASE ~Stopped(check[c].p)
  <2> DEFINE new == [check[c] EXCEPT !.pc = "wait"]
  <2>1. /\ new \in CheckRec /\ new.pc = "wait" /\ new.p = check[c].p
        /\ new.kind = check[c].kind /\ new.res = check[c].res /\ new.seen = check[c].seen
    BY CheckFacts DEF CheckRec, CheckPCs
  <2>2. check' = [check EXCEPT ![c] = new]
    BY <1>2 DEF Admit
  <2>3. /\ check[c].pc = "admit" /\ ~proc[check[c].p].closing
        /\ UNCHANGED <<proc, file, unclean, before, writer>> /\ readers' = readers
        /\ faults' = faults
    BY <1>2 DEF Admit, Stopped
  <2>4. check[c].res # "ok"
    BY <2>3 DEF IInv, CommitInv
  <2> HIDE DEF new
  <2>5. Quiet(c, new)
    BY <2>1, <2>2, <2>3, <2>4, CheckFacts, TypeFacts DEF Quiet, CheckRec
  <2> QED
    BY <2>1, <2>5, QuietCheck
<1> QED
  BY <1>1, <1>2

\* A job without a caller that ends before its scan.
LEMMA AbortStep ==
  ASSUME IInv, NEW c \in Checks, Abort(c) PROVE IInv'
<1>1. /\ Ended(c, "err") \in CheckRec /\ Ended(c, "err").pc = "done"
      /\ Ended(c, "err").res = "err" /\ Ended(c, "err").p = check[c].p
      /\ Ended(c, "err").kind = check[c].kind /\ Ended(c, "err").seen = {}
  BY CheckFacts, EndedFacts
<1>2. check[c].res = "err"
  BY CheckFacts DEF Abort, IInv, CommitInv, CheckRec
<1>3. /\ check' = [check EXCEPT ![c] = Ended(c, "err")] /\ check[c].pc = "wait"
      /\ UNCHANGED <<proc, file, unclean, before, writer>> /\ readers' = readers
      /\ faults' = faults
  BY DEF Abort
<1>4. Quiet(c, Ended(c, "err"))
  BY <1>1, <1>2, <1>3, CheckFacts DEF Quiet
<1> QED
  BY <1>1, <1>4, QuietCheck

\* A scan takes its share of the directory lock.
LEMMA ScanStartStep ==
  ASSUME IInv, NEW c \in Checks, ScanStart(c) PROVE IInv'
<1>1. CASE Stopped(check[c].p)
  <2>1. /\ Fails(c) /\ check[c].pc = "wait" /\ writer' = writer /\ before' = before
        /\ readers' = readers /\ faults' = faults
    BY <1>1 DEF ScanStart
  <2>2. readers' = readers \ {c} /\ faults' \in 0..MaxFaults
    BY <2>1, CheckFacts
  <2> QED
    BY <2>1, <2>2, FailStep
<1>2. CASE ~Stopped(check[c].p)
  <2> DEFINE new == [check[c] EXCEPT !.pc = "scan", !.masked = {},
                                     !.left = Records \ {check[c].p}]
  <2>1. /\ new \in CheckRec /\ new.pc = "scan" /\ new.p = check[c].p
        /\ new.kind = check[c].kind /\ new.res = check[c].res /\ new.seen = check[c].seen
        /\ new.masked = {} /\ new.left = Records \ {check[c].p}
    <3>1. Records \ {check[c].p} \in SUBSET Procs
      BY DEF Records
    <3>2. check[c] \in CheckRec
      BY CheckFacts
    <3> QED
      BY <3>1, <3>2 DEF CheckRec, CheckPCs
  <2>2. check' = [check EXCEPT ![c] = new]
    BY <1>2, CheckFacts, ZenonT(40) DEF ScanStart
  <2>3. /\ check[c].pc = "wait" /\ writer = NoOne /\ readers' = readers \union {c}
        /\ check[c].res # "ok" /\ faults' = faults
        /\ UNCHANGED <<proc, file, unclean, before, writer>>
    BY <1>2 DEF ScanStart, IInv, CommitInv
  <2>4. check[c].seen \subseteq new.left
    BY <2>1, TypeFacts DEF IInv, SeenInv, UncleanInv, Records
  <2> HIDE DEF new
  <2>5. Quiet(c, new)
    BY <2>1, <2>2, <2>3, <2>4, CheckFacts, TypeFacts DEF Quiet, CheckRec
  <2> QED
    BY <2>1, <2>5, QuietCheck
<1> QED
  BY <1>1, <1>2

\* The end of a scan.
LEMMA ScanEndStep ==
  ASSUME IInv, NEW c \in Checks, ScanEnd(c) PROVE IInv'
<1> DEFINE refused == \/ Stopped(check[c].p) \/ check[c].res # "none"
                      \/ check[c].round = 2 /\ check[c].stale
<1>1. CASE refused
  <2>1. /\ Fails(c) /\ check[c].pc = "scan" /\ writer' = writer /\ before' = before
        /\ readers' = readers \ {c} /\ faults' = faults
    BY <1>1 DEF ScanEnd
  <2> QED
    BY <2>1, CheckFacts, FailStep
<1>2. CASE ~refused
  <2> DEFINE new == IF check[c].round = 2 THEN Ended(c, "ok")
                    ELSE [check[c] EXCEPT !.pc = "flush"]
  <2>1. check' = [check EXCEPT ![c] = new] /\ UNCHANGED <<proc, file, unclean>>
    BY <1>2, CheckFacts DEF ScanEnd
  <2>2. /\ new \in CheckRec /\ new.pc \in {"done", "flush"} /\ new.p = check[c].p
        /\ new.kind = check[c].kind /\ new.seen = check[c].seen
        /\ new.res = "ok" => new.pc = "done" /\ new.masked = check[c].masked
        /\ new.res \in {"none", "ok"} /\ (new.res = "none" => new.pc = "flush")
    <3>1. CASE check[c].round = 2
      BY <3>1, CheckFacts, EndedFacts
    <3>2. CASE check[c].round # 2
      BY <1>2, <3>2, CheckFacts DEF CheckRec, CheckPCs
    <3> QED
      BY <3>1, <3>2
  <2>3. /\ check[c].pc = "scan" /\ check[c].res = "none"
        /\ check[c].seen \subseteq check[c].masked
        /\ readers' = readers \ {c} /\ faults' = faults /\ UNCHANGED <<before, writer>>
    BY <1>2 DEF ScanEnd, IInv, SeenInv
  <2>4. \A r \in Procs : file[r].lock # c
    BY CheckFacts DEF ScanEnd
  <2> HIDE DEF new
  <2>5. Quiet(c, new)
    BY <2>1, <2>2, <2>3, <2>4, CheckFacts, TypeFacts DEF Quiet, CheckRec
  <2> QED
    BY <2>2, <2>5, QuietCheck
<1> QED
  BY <1>1, <1>2

\* The replication receipt.
LEMMA ReceiptStep ==
  ASSUME IInv, NEW c \in Checks, Receipt(c) PROVE IInv'
<1>0. /\ check[c].pc = "flush" /\ UNCHANGED <<readers, writer, before>>
      /\ check[c].res # "ok"
  BY DEF Receipt, IInv, CommitInv
<1>1. CASE Fault /\ Fails(c)
  <2>1. readers' = readers \ {c} /\ faults' \in 0..MaxFaults
    BY <1>0, <1>1, CheckFacts, GuardAssumption DEF Fault
  <2> QED
    BY <1>0, <1>1, <2>1, FailStep
<1>2. CASE ~(Fault /\ Fails(c))
  <2> DEFINE new == [check[c] EXCEPT !.pc = "admit", !.round = 2]
  <2>1. /\ new \in CheckRec /\ new.pc = "admit" /\ new.p = check[c].p
        /\ new.kind = check[c].kind /\ new.res = check[c].res /\ new.seen = check[c].seen
    <3>1. check[c] \in CheckRec /\ 2 \in 1..2
      BY CheckFacts
    <3> QED
      BY <3>1 DEF CheckRec, CheckPCs
  <2>2. check' = [check EXCEPT ![c] = new] /\ UNCHANGED <<proc, file, unclean, faults>>
    BY <1>2, CheckFacts, ZenonT(30) DEF Receipt
  <2> HIDE DEF new
  <2>3. Quiet(c, new)
    BY <1>0, <2>1, <2>2, CheckFacts DEF Quiet
  <2> QED
    BY <2>1, <2>3, QuietCheck
<1> QED
  BY <1>1, <1>2

\* The deadline of a check.
LEMMA GiveUpStep ==
  ASSUME IInv, NEW c \in Checks, GiveUp(c) PROVE IInv'
<1> DEFINE ended == check[c].pc \notin {"wait", "scan"}
<1>1. /\ check[c].pc \in {"admit", "wait", "scan", "flush"}
      /\ UNCHANGED <<readers, writer, before>> /\ Fault
  BY DEF GiveUp
<1>2. PICK moved \in BOOLEAN : FailsAs(c, ended, moved)
  BY DEF GiveUp
<1>3. readers' = (IF ended THEN readers \ {c} ELSE readers) /\ faults' \in 0..MaxFaults
  BY <1>1, CheckFacts, GuardAssumption DEF Fault
<1>4. ended \in BOOLEAN /\ (ended \/ check[c].pc \in {"wait", "scan"})
  OBVIOUS
<1> HIDE DEF ended
<1> QED
  BY <1>1, <1>2, <1>3, <1>4, FailsStep

\* A check begins: what is unclean now, it has to find.
LEMMA BeginStep ==
  ASSUME IInv, NEW c \in Checks, NEW p \in Procs, NEW kind \in Kinds, Begin(c, p, kind)
  PROVE  IInv'
<1> USE DEF IInv
<1> DEFINE new == [check[c] EXCEPT !.pc = "admit", !.p = p, !.kind = kind, !.seen = unclean \ {p}]
<1>1. /\ new \in CheckRec /\ new.pc = "admit" /\ new.p = p /\ new.kind = kind
      /\ new.res = check[c].res /\ new.seen = unclean \ {p}
  <2>1. unclean \ {p} \in SUBSET Procs /\ check[c] \in CheckRec
    BY TypeFacts, CheckFacts
  <2> QED
    BY <2>1 DEF CheckRec, CheckPCs
<1>2. check' = [check EXCEPT ![c] = new]
  BY CheckFacts DEF Begin
<1> HIDE DEF new
<1>3. /\ check' \in [Checks -> CheckRec] /\ check'[c] = new
      /\ \A d \in Checks \ {c} : check'[d] = check[d]
  BY <1>1, <1>2, OneCheck
<1>4. /\ check[c].pc = "idle" /\ check[c].res = "none" /\ proc[p].pc = "up"
      /\ UNCHANGED <<proc, file, readers, writer, unclean, before, faults>>
  BY DEF Begin, CommitInv
<1>5. TypeOK'
  BY <1>3, <1>4, TypeFacts DEF TypeOK, ProcRec, FileRec, CheckRec
<1>6. DirInv' /\ FileInv'
  BY <1>1, <1>3, <1>4 DEF DirInv, FileInv
<1>7. UncleanInv' /\ BeforeInv' /\ KeyInv'
  BY <1>4 DEF UncleanInv, BeforeInv, KeyInv
<1>8. DrainInv'
  <2>1. \A q \in Procs : Jobs(q)' \subseteq Jobs(q)
    BY <1>1, <1>3 DEF Jobs
  <2> QED
    BY <1>4, <2>1 DEF DrainInv
<1>9. CommitInv' /\ SeenInv'
  BY <1>1, <1>3, <1>4 DEF CommitInv, SeenInv
<1> QED
  BY <1>5, <1>6, <1>7, <1>8, <1>9

\* A scan that takes or gives back the flock of a record it looks at.
LEMMA ProbeStep ==
  ASSUME IInv, NEW c \in Checks, NEW new \in CheckRec, NEW r \in Procs,
         NEW holder \in {NoOne, c},
         check' = [check EXCEPT ![c] = new], file' = [file EXCEPT ![r].lock = holder],
         UNCHANGED <<proc, unclean, before, writer, readers, faults>>,
         check[c].pc = "scan", new.pc = "scan", new.p = check[c].p, new.kind = check[c].kind,
         new.res = check[c].res, new.seen = check[c].seen, new.masked = check[c].masked,
         new.seen \subseteq new.left \union new.masked,
         holder = c => file[r].lock = NoOne /\ check[c].probe = NoOne /\ new.probe = r /\ r \in new.left,
         holder = NoOne => check[c].probe = r
  PROVE  IInv'
<1> USE DEF IInv
<1>1. /\ check' \in [Checks -> CheckRec] /\ check'[c] = new
      /\ \A d \in Checks \ {c} : check'[d] = check[d]
  BY OneCheck
<1>2. /\ file' \in [Procs -> FileRec] /\ file'[r].lock = holder
      /\ \A q \in Procs : file'[q].st = file[q].st
      /\ \A q \in Procs \ {r} : file'[q].lock = file[q].lock
  BY TypeFacts DEF FileRec
<1>3. \A q \in Procs \ {r} : file[q].lock # c
  BY CheckFacts, GuardAssumption
<1>4. TypeOK'
  BY <1>1, <1>2, TypeFacts DEF TypeOK, ProcRec, FileRec, CheckRec
<1>5. DirInv'
  BY <1>1 DEF DirInv
<1>6. FileInv'
  <2>1. SUFFICES ASSUME NEW q \in Procs, file'[q].lock \in Checks
                 PROVE  /\ check'[file'[q].lock].pc = "scan" /\ check'[file'[q].lock].probe = q
                        /\ q \in check'[file'[q].lock].left
    <3>1. NoOne # Owner /\ c # Owner
      BY GuardAssumption DEF NoOne, Owner
    <3> QED
      BY <1>2, <3>1 DEF FileInv
  <2>2. CASE q = r
    BY <1>1, <1>2, <2>1, <2>2, GuardAssumption
  <2>3. CASE q # r
    BY <1>1, <1>2, <1>3, <2>1, <2>3 DEF FileInv
  <2> QED
    BY <2>2, <2>3
<1>7. UncleanInv'
  <2>1. NoOne # Owner /\ c # Owner /\ unclean \subseteq Procs
    BY TypeFacts, GuardAssumption DEF NoOne, Owner
  <2> QED
    BY <1>2, <2>1 DEF UncleanInv
<1>8. BeforeInv' /\ KeyInv'
  BY DEF BeforeInv, KeyInv
<1>9. DrainInv'
  <2>1. \A q \in Procs : Jobs(q)' \subseteq Jobs(q)
    BY <1>1 DEF Jobs
  <2> QED
    BY <1>2, <2>1 DEF DrainInv
<1>10. CommitInv' /\ SeenInv'
  BY <1>1 DEF CommitInv, SeenInv
<1> QED
  BY <1>4, <1>5, <1>6, <1>7, <1>8, <1>9, <1>10

\* A record whose flock was free.
LEMMA JudgeStep ==
  ASSUME IInv, NEW c \in Checks, Judge(c) PROVE IInv'
<1> DEFINE r == check[c].probe
<1>1. /\ check[c].pc = "scan" /\ r \in Procs /\ UNCHANGED <<writer, before, faults>>
  BY CheckFacts DEF Judge, CheckRec
<1>2. CASE file[r].st = "clean"
  <2> DEFINE new == [check[c] EXCEPT !.left = @ \ {r}, !.probe = NoOne]
  <2>1. /\ check' = [check EXCEPT ![c] = new] /\ file' = [file EXCEPT ![r].lock = NoOne]
        /\ UNCHANGED <<proc, unclean, readers>>
    BY <1>2, CheckFacts DEF Judge
  <2>2. /\ new \in CheckRec /\ new.pc = "scan" /\ new.p = check[c].p
        /\ new.kind = check[c].kind /\ new.res = check[c].res /\ new.seen = check[c].seen
        /\ new.masked = check[c].masked /\ new.left = check[c].left \ {r}
    <3>1. check[c] \in CheckRec /\ check[c].left \ {r} \in SUBSET Procs
      BY CheckFacts DEF CheckRec
    <3> QED
      BY <1>1, <3>1 DEF CheckRec
  <2>3. r \notin check[c].seen
    BY <1>2 DEF IInv, SeenInv, UncleanInv
  <2>4. check[c].seen \subseteq check[c].left \union check[c].masked
    BY <1>1 DEF IInv, SeenInv
  <2>5. c # NoOne /\ check[c].probe = r
    BY GuardAssumption
  <2> HIDE DEF new, r
  <2> QED
    BY <1>1, <2>1, <2>2, <2>3, <2>4, <2>5, ProbeStep
<1>3. CASE file[r].st # "clean"
  <2>1. Fails(c) /\ readers' = readers \ {c}
    BY <1>3 DEF Judge
  <2> QED
    BY <1>1, <2>1, CheckFacts, FailStep
<1> QED
  BY <1>2, <1>3

\* One record of a scan.
LEMMA ScanRecordStep ==
  ASSUME IInv, NEW c \in Checks, NEW r \in Procs, ScanRecord(c, r) PROVE IInv'
<1>1. /\ check[c].pc = "scan" /\ check[c].probe = NoOne /\ r \in check[c].left
      /\ UNCHANGED <<writer, before, faults>>
  BY DEF ScanRecord
<1>2. CASE file[r].st = "torn"
  <2>1. Fails(c) /\ readers' = readers \ {c}
    BY <1>2 DEF ScanRecord
  <2> QED
    BY <1>1, <2>1, CheckFacts, FailStep
<1>3. CASE file[r].st # "torn" /\ file[r].lock # NoOne
  <2> DEFINE new == [check[c] EXCEPT !.left = @ \ {r},
                                     !.masked = IF file[r].lock \in Checks THEN @ \union {r} ELSE @]
  <2>1. check' = [check EXCEPT ![c] = new] /\ UNCHANGED <<proc, file, unclean, readers>>
    BY <1>3, CheckFacts DEF ScanRecord
  <2>2. /\ new \in CheckRec /\ new.pc = "scan" /\ new.p = check[c].p
        /\ new.kind = check[c].kind /\ new.res = check[c].res /\ new.seen = check[c].seen
        /\ new.left = check[c].left \ {r}
        /\ new.masked = IF file[r].lock \in Checks THEN check[c].masked \union {r}
                        ELSE check[c].masked
    <3>1. /\ check[c] \in CheckRec /\ check[c].left \ {r} \in SUBSET Procs
          /\ check[c].masked \union {r} \in SUBSET Procs
      BY CheckFacts DEF CheckRec
    <3> QED
      BY <1>1, <3>1 DEF CheckRec
  <2>3. r \in check[c].seen => file[r].lock \in Checks
    BY <1>3, TypeFacts DEF IInv, SeenInv, UncleanInv, FileRec
  <2>4. /\ check[c].seen \subseteq check[c].left \union check[c].masked
        /\ check[c].res # "ok"
    BY <1>1 DEF IInv, SeenInv, CommitInv
  <2>5. \A q \in Procs : file[q].lock # c
    BY <1>1, CheckFacts, GuardAssumption
  <2> HIDE DEF new
  <2>6. new.seen \subseteq new.left \union new.masked
    BY <2>2, <2>3, <2>4
  <2>7. Quiet(c, new)
    BY <1>1, <2>1, <2>2, <2>4, <2>5, <2>6, CheckFacts DEF Quiet
  <2> QED
    BY <2>2, <2>7, QuietCheck
<1>4. CASE file[r].st # "torn" /\ file[r].lock = NoOne
  <2> DEFINE new == [check[c] EXCEPT !.probe = r]
  <2>1. /\ check' = [check EXCEPT ![c] = new] /\ file' = [file EXCEPT ![r].lock = c]
        /\ UNCHANGED <<proc, unclean, readers>>
    BY <1>4, CheckFacts DEF ScanRecord
  <2>2. /\ new \in CheckRec /\ new.pc = "scan" /\ new.p = check[c].p
        /\ new.kind = check[c].kind /\ new.res = check[c].res /\ new.seen = check[c].seen
        /\ new.masked = check[c].masked /\ new.left = check[c].left /\ new.probe = r
    BY <1>1, CheckFacts DEF CheckRec
  <2>3. check[c].seen \subseteq check[c].left \union check[c].masked
    BY <1>1 DEF IInv, SeenInv
  <2>4. c # NoOne
    BY GuardAssumption
  <2> HIDE DEF new
  <2> QED
    BY <1>1, <1>4, <2>1, <2>2, <2>3, <2>4, ProbeStep
<1> QED
  BY <1>2, <1>3, <1>4

\* What the state of a process says about its record, and about itself once unclean.
RecordFits(pn, fn) ==
  /\ pn.pc \in {"new", "called"} => fn.st = "none"
  /\ pn.pc \in {"write", "rclean"} => fn.st = "torn"
  /\ pn.pc \in {"sync", "up", "drain", "rwait"} => fn.st = "active"
  /\ pn.pc \in {"rsync", "runlock", "rlate"} => fn.st = "clean"
  /\ pn.pc \in {"rclean", "rsync"} /\ pn.poisoned => fn.lock # Owner

UncleanFits(pn, fn) ==
  /\ pn.pc \in {"dead", "failed"} \/ (pn.pc \in {"up", "rwait"} /\ pn.poisoned)
  /\ fn.st \in {"torn", "active"} /\ fn.lock # Owner

DrainFits(p, pn, fn) ==
  /\ pn.pc = "drain" => pn.closing
  /\ \/ pn.pc \in {"rwait", "rclean", "rsync", "runlock", "rlate", "closed"}
     \/ fn.st \in {"clean", "retired"}
     => pn.closing /\ pn.pc # "up" /\ Jobs(p) = {}
  /\ pn.pc \in {"runlock", "closed"} => ~pn.poisoned
  /\ fn.st = "clean" /\ pn.poisoned => pn.pc \in {"rsync", "rlate", "spoiled", "dead"}

\* A step of one process on its own state and record.
Own(p, pn, fn) ==
  /\ proc' = [proc EXCEPT ![p] = pn] /\ file' = [file EXCEPT ![p] = fn]
  /\ check' \in [Checks -> CheckRec] /\ \A d \in Checks : Same(check'[d], check[d])
  /\ readers' = readers /\ before' = before /\ faults' \in 0..MaxFaults
  /\ pn.key = proc[p].key /\ fn.lock \in {file[p].lock, NoOne}
  /\ RecordFits(pn, fn) /\ DrainFits(p, pn, fn)
  /\ unclean' \in {unclean, unclean \union {p}}
  /\ p \in unclean' => UncleanFits(pn, fn)
  /\ p \in before => pn.pc \in {"called", "failed", "dead"}
  /\ proc[p].pc = "up" /\ pn.pc # "up" =>
       \A c \in Checks : check[c].p = p /\ check[c].kind = "commit" /\ check[c].pc # "idle" =>
                           check[c].res # "none" \/ check[c].pc = "done" \/ p \in unclean'
  /\ pn.pc \in HeldPCs => proc[p].pc \in HeldPCs

\* The directory lock of such a step: kept, taken while nobody holds it, or given back.
OwnLock(p, pn) ==
  \/ writer' = writer /\ (pn.pc \in LockedPCs <=> proc[p].pc \in LockedPCs)
  \/ writer = NoOne /\ readers = {} /\ writer' = p /\ pn.pc \in LockedPCs
  \/ writer = p /\ writer' = NoOne /\ pn.pc \notin LockedPCs

\* What such a step changes.
LEMMA OwnFacts ==
  ASSUME IInv, NEW p \in Procs, NEW pn \in ProcRec, NEW fn \in FileRec, Own(p, pn, fn)
  PROVE  /\ proc' \in [Procs -> ProcRec] /\ proc'[p] = pn
         /\ \A q \in Procs \ {p} : proc'[q] = proc[q]
         /\ file' \in [Procs -> FileRec] /\ file'[p] = fn
         /\ \A q \in Procs \ {p} : file'[q] = file[q]
         /\ unclean \subseteq Procs /\ unclean' \subseteq Procs
         /\ unclean \subseteq unclean' /\ unclean' \subseteq unclean \union {p}
BY TypeFacts DEF IInv, Own

\* Such a step preserves the invariant.
LEMMA OwnStep ==
  ASSUME IInv, NEW p \in Procs, NEW pn \in ProcRec, NEW fn \in FileRec, Own(p, pn, fn),
         OwnLock(p, pn)
  PROVE  IInv'
<1> USE DEF IInv
<1>0. /\ proc' \in [Procs -> ProcRec] /\ proc'[p] = pn
      /\ \A q \in Procs \ {p} : proc'[q] = proc[q]
      /\ file' \in [Procs -> FileRec] /\ file'[p] = fn
      /\ \A q \in Procs \ {p} : file'[q] = file[q]
      /\ unclean' \subseteq Procs
      /\ unclean \subseteq unclean' /\ unclean' \subseteq unclean \union {p}
  BY OwnFacts
<1>1. TypeOK'
  <2>1. writer' \in Procs \union {NoOne}
    BY TypeFacts DEF OwnLock
  <2> QED
    BY <1>0, <2>1, TypeFacts DEF Own, TypeOK, ProcRec, FileRec, CheckRec
<1>2. DirInv'
  <2>1. \A c \in Checks : c \in readers' <=> check'[c].pc = "scan"
    BY DEF DirInv, Own, Same
  <2>2. writer' # NoOne => readers' = {}
    BY DEF DirInv, Own, OwnLock
  <2>3. \A q \in Procs : writer' = q <=> proc'[q].pc \in LockedPCs
    BY <1>0, GuardAssumption DEF DirInv, OwnLock
  <2> QED
    BY <2>1, <2>2, <2>3 DEF DirInv
<1>3. FileInv'
  <2>1. SUFFICES ASSUME NEW q \in Procs, file'[q].lock \in Checks
                 PROVE  /\ check'[file'[q].lock].pc = "scan" /\ check'[file'[q].lock].probe = q
                        /\ q \in check'[file'[q].lock].left
    BY <1>0 DEF FileInv, Own, RecordFits
  <2>2. file'[q].lock = file[q].lock
    BY <1>0, <2>1, GuardAssumption DEF Own
  <2> QED
    BY <2>1, <2>2 DEF FileInv, Own, Same
<1>4. UncleanInv'
  BY <1>0 DEF UncleanInv, Own, UncleanFits
<1>5. BeforeInv'
  BY <1>0, TypeFacts DEF BeforeInv, Own
<1>6. DrainInv'
  <2>1. \A q \in Procs : Jobs(q)' = Jobs(q)
    BY DEF Jobs, Own, Same
  <2> QED
    BY <1>0, <2>1 DEF DrainInv, Own, DrainFits
<1>7. CommitInv'
  <2>1. SUFFICES ASSUME NEW c \in Checks, check'[c].kind = "commit", check'[c].res # "ok"
                 PROVE  \/ check'[c].p \in unclean'
                        \/ /\ check'[c].res = "none" /\ check'[c].pc # "done"
                           /\ proc'[check'[c].p].pc = "up"
    BY DEF CommitInv, Own, Same
  <2>2. check[c].p \in Procs /\ check[c].pc # "idle"
    BY <2>1, CheckFacts DEF CommitInv, Own, Same, Kinds
  <2>3. CASE check[c].p \in unclean
    BY <1>0, <2>3 DEF Own, Same
  <2>4. CASE check[c].p \notin unclean
    <3>1. /\ check[c].res = "none" /\ check[c].pc # "done" /\ proc[check[c].p].pc = "up"
          /\ check[c].kind = "commit"
      BY <2>1, <2>4 DEF CommitInv, Own, Same
    <3> QED
      BY <1>0, <2>2, <3>1 DEF Own, Same
  <2> QED
    BY <2>3, <2>4
<1>8. SeenInv'
  BY <1>0 DEF SeenInv, Own, Same
<1>9. KeyInv'
  BY <1>0 DEF KeyInv, Own
<1> QED
  BY <1>1, <1>2, <1>3, <1>4, <1>5, <1>6, <1>7, <1>8, <1>9

\* The record of p without its owner's flock.
DropRec(p) == [file[p] EXCEPT !.lock = IF @ = Owner THEN NoOne ELSE @]

\* The record of a process, left alone or without its owner's flock.
LEMMA RecordFacts ==
  ASSUME IInv, NEW p \in Procs
  PROVE  /\ file[p] \in FileRec /\ file = [file EXCEPT ![p] = file[p]]
         /\ DropRec(p) \in FileRec /\ Dropped(file, p) = [file EXCEPT ![p] = DropRec(p)]
         /\ DropRec(p).st = file[p].st /\ DropRec(p).lock \in {file[p].lock, NoOne}
         /\ DropRec(p).lock # Owner
<1>1. file \in [Procs -> FileRec] /\ file[p] \in FileRec
  BY TypeFacts DEF IInv
<1>2. NoOne # Owner
  BY DEF NoOne, Owner
<1>3. DropRec(p) = [st |-> file[p].st, lock |-> IF file[p].lock = Owner THEN NoOne ELSE file[p].lock]
  BY <1>1 DEF DropRec, FileRec
<1>4. Dropped(file, p) = [file EXCEPT ![p] = DropRec(p)]
  BY <1>1 DEF Dropped, DropRec
<1> QED
  BY <1>1, <1>2, <1>3, <1>4 DEF FileRec

\* What the invariant says about one process and its record.
LEMMA ProcFacts ==
  ASSUME IInv, NEW p \in Procs
  PROVE  /\ proc[p] \in ProcRec /\ proc \in [Procs -> ProcRec] /\ faults \in 0..MaxFaults
         /\ check \in [Checks -> CheckRec] /\ \A d \in Checks : Same(check[d], check[d])
         /\ Moved(check, p) \in [Checks -> CheckRec]
         /\ \A d \in Checks : Same(Moved(check, p)[d], check[d])
         /\ RecordFits(proc[p], file[p]) /\ DrainFits(p, proc[p], file[p])
         /\ p \in unclean => UncleanFits(proc[p], file[p])
         /\ p \in before => proc[p].pc \in {"called", "failed", "dead"}
         /\ writer = p <=> proc[p].pc \in LockedPCs
         /\ Fault => faults' \in 0..MaxFaults
<1>1. /\ proc[p] \in ProcRec /\ proc \in [Procs -> ProcRec] /\ faults \in 0..MaxFaults
      /\ check \in [Checks -> CheckRec] /\ \A d \in Checks : Same(check[d], check[d])
  BY TypeFacts DEF IInv, Same
<1>2. /\ Moved(check, p) \in [Checks -> CheckRec]
      /\ \A d \in Checks : Same(Moved(check, p)[d], check[d])
  BY <1>1, MovedFacts
<1>3. /\ RecordFits(proc[p], file[p]) /\ DrainFits(p, proc[p], file[p])
      /\ p \in unclean => UncleanFits(proc[p], file[p])
  BY DEF IInv, FileInv, RecordFits, DrainInv, DrainFits, UncleanInv, UncleanFits
<1>4. /\ p \in before => proc[p].pc \in {"called", "failed", "dead"}
      /\ writer = p <=> proc[p].pc \in LockedPCs
  BY DEF IInv, BeforeInv, DirInv
<1>5. Fault => faults' \in 0..MaxFaults
  BY <1>1, GuardAssumption DEF Fault
<1> QED
  BY <1>1, <1>2, <1>3, <1>4, <1>5

\* acquire() refuses.
LEMMA AcquireRefusedStep ==
  ASSUME IInv, NEW p \in Procs, AcquireRefused(p) PROVE IInv'
<1> DEFINE pn == [proc[p] EXCEPT !.pc = "failed"]
           fn == file[p]
<1>1. /\ pn \in ProcRec /\ pn.pc = "failed" /\ pn.key = proc[p].key
      /\ pn.poisoned = proc[p].poisoned /\ pn.closing = proc[p].closing
  BY ProcFacts DEF ProcRec, ProcPCs
<1>2. /\ fn \in FileRec /\ fn.st = file[p].st /\ fn.lock \in {file[p].lock, NoOne}
  BY RecordFacts
<1>3. /\ proc' = [proc EXCEPT ![p] = pn] /\ file' = [file EXCEPT ![p] = fn]
  BY RecordFacts, ProcFacts DEF AcquireRefused, Goto
<1> HIDE DEF pn, fn
<1>4. Own(p, pn, fn)
  BY <1>1, <1>2, <1>3, ProcFacts DEF Own, AcquireRefused, Goto, RecordFits, DrainFits, UncleanFits, HeldPCs, LockedPCs
<1>5. OwnLock(p, pn)
  BY <1>1, ProcFacts DEF OwnLock, LockedPCs, AcquireRefused, Goto
<1> QED
  BY <1>1, <1>2, <1>4, <1>5, OwnStep

\* The new record is written.
LEMMA AcquireWriteStep ==
  ASSUME IInv, NEW p \in Procs, AcquireWrite(p) PROVE IInv'
<1> DEFINE pn == [proc[p] EXCEPT !.pc = "sync"]
           fn == [file[p] EXCEPT !.st = "active"]
<1>1. /\ pn \in ProcRec /\ pn.pc = "sync" /\ pn.key = proc[p].key
      /\ pn.poisoned = proc[p].poisoned /\ pn.closing = proc[p].closing
  BY ProcFacts DEF ProcRec, ProcPCs
<1>2. /\ fn \in FileRec /\ fn.st = "active" /\ fn.lock = file[p].lock
  BY RecordFacts DEF FileRec, FileSts
<1>3. /\ proc' = [proc EXCEPT ![p] = pn] /\ file' = [file EXCEPT ![p] = fn]
  BY RecordFacts, ProcFacts DEF AcquireWrite, Goto
<1> HIDE DEF pn, fn
<1>4. Own(p, pn, fn)
  BY <1>1, <1>2, <1>3, ProcFacts DEF Own, AcquireWrite, Goto, RecordFits, DrainFits, UncleanFits, HeldPCs, LockedPCs
<1>5. OwnLock(p, pn)
  BY <1>1, ProcFacts DEF OwnLock, LockedPCs, AcquireWrite, Goto
<1> QED
  BY <1>1, <1>2, <1>4, <1>5, OwnStep

\* acquire() returns.
LEMMA AcquiredStep ==
  ASSUME IInv, NEW p \in Procs, Acquired(p) PROVE IInv'
<1> DEFINE pn == [proc[p] EXCEPT !.pc = "up"]
           fn == file[p]
<1>1. /\ pn \in ProcRec /\ pn.pc = "up" /\ pn.key = proc[p].key
      /\ pn.poisoned = proc[p].poisoned /\ pn.closing = proc[p].closing
  BY ProcFacts DEF ProcRec, ProcPCs
<1>2. /\ fn \in FileRec /\ fn.st = file[p].st /\ fn.lock \in {file[p].lock, NoOne}
  BY RecordFacts
<1>3. /\ proc' = [proc EXCEPT ![p] = pn] /\ file' = [file EXCEPT ![p] = fn]
  BY RecordFacts, ProcFacts DEF Acquired, Goto
<1> HIDE DEF pn, fn
<1>4. Own(p, pn, fn)
  BY <1>1, <1>2, <1>3, ProcFacts DEF Own, Acquired, Goto, RecordFits, DrainFits, UncleanFits, HeldPCs, LockedPCs
<1>5. OwnLock(p, pn)
  BY <1>1, ProcFacts DEF OwnLock, LockedPCs, Acquired, Goto
<1> QED
  BY <1>1, <1>2, <1>4, <1>5, OwnStep

\* acquire() waits too long.
LEMMA AcquireTimeoutStep ==
  ASSUME IInv, NEW p \in Procs, AcquireTimeout(p) PROVE IInv'
<1> DEFINE pn == [proc[p] EXCEPT !.pc = "failed"]
           fn == file[p]
<1>1. /\ pn \in ProcRec /\ pn.pc = "failed" /\ pn.key = proc[p].key
      /\ pn.poisoned = proc[p].poisoned /\ pn.closing = proc[p].closing
  BY ProcFacts DEF ProcRec, ProcPCs
<1>2. /\ fn \in FileRec /\ fn.st = file[p].st /\ fn.lock \in {file[p].lock, NoOne}
  BY RecordFacts
<1>3. /\ proc' = [proc EXCEPT ![p] = pn] /\ file' = [file EXCEPT ![p] = fn]
  BY RecordFacts, ProcFacts DEF AcquireTimeout, Goto
<1> HIDE DEF pn, fn
<1>4. Own(p, pn, fn)
  BY <1>1, <1>2, <1>3, ProcFacts DEF Own, AcquireTimeout, Goto, RecordFits, DrainFits, UncleanFits, HeldPCs, LockedPCs
<1>5. OwnLock(p, pn)
  BY <1>1, ProcFacts DEF OwnLock, LockedPCs, AcquireTimeout, Goto
<1> QED
  BY <1>1, <1>2, <1>4, <1>5, OwnStep

\* acquire() fails after it made its record.
LEMMA AcquireLateStep ==
  ASSUME IInv, NEW p \in Procs, AcquireLate(p) PROVE IInv'
<1> DEFINE pn == [proc[p] EXCEPT !.pc = "failed"]
           fn == DropRec(p)
<1>1. /\ pn \in ProcRec /\ pn.pc = "failed" /\ pn.key = proc[p].key
      /\ pn.poisoned = proc[p].poisoned /\ pn.closing = proc[p].closing
  BY ProcFacts DEF ProcRec, ProcPCs
<1>2. /\ fn \in FileRec /\ fn.st = file[p].st /\ fn.lock \in {file[p].lock, NoOne} /\ fn.lock # Owner
  BY RecordFacts
<1>3. /\ proc' = [proc EXCEPT ![p] = pn] /\ file' = [file EXCEPT ![p] = fn]
  BY RecordFacts, ProcFacts DEF AcquireLate, Goto
<1> HIDE DEF pn, fn
<1>4. Own(p, pn, fn)
  BY <1>1, <1>2, <1>3, ProcFacts DEF Own, AcquireLate, Goto, RecordFits, DrainFits, UncleanFits, HeldPCs, LockedPCs
<1>5. OwnLock(p, pn)
  BY <1>1, ProcFacts DEF OwnLock, LockedPCs, AcquireLate, Goto
<1> QED
  BY <1>1, <1>2, <1>4, <1>5, OwnStep

\* A command that ended with an error.
LEMMA MarkUncertainStep ==
  ASSUME IInv, NEW p \in Procs, MarkUncertain(p) PROVE IInv'
<1> DEFINE pn == [proc[p] EXCEPT !.poisoned = TRUE]
           fn == DropRec(p)
<1>1. /\ pn \in ProcRec /\ pn.pc = proc[p].pc /\ pn.key = proc[p].key
      /\ pn.poisoned = TRUE /\ pn.closing = proc[p].closing
  BY ProcFacts DEF ProcRec, ProcPCs
<1>2. /\ fn \in FileRec /\ fn.st = file[p].st /\ fn.lock \in {file[p].lock, NoOne} /\ fn.lock # Owner
  BY RecordFacts
<1>3. /\ proc' = [proc EXCEPT ![p] = pn] /\ file' = [file EXCEPT ![p] = fn]
  BY RecordFacts, ProcFacts DEF MarkUncertain, Poison
<1> HIDE DEF pn, fn
<1>4. Own(p, pn, fn)
  BY <1>1, <1>2, <1>3, ProcFacts DEF Own, MarkUncertain, Poison, RecordFits, DrainFits, UncleanFits, HeldPCs, LockedPCs
<1>5. OwnLock(p, pn)
  BY <1>1, ProcFacts DEF OwnLock, LockedPCs, MarkUncertain, Poison
<1> QED
  BY <1>1, <1>2, <1>4, <1>5, OwnStep

\* A release begins.
LEMMA ReleaseBeginStep ==
  ASSUME IInv, NEW p \in Procs, ReleaseBegin(p) PROVE IInv'
<1> DEFINE pn == [proc[p] EXCEPT !.pc = "drain", !.closing = TRUE]
           fn == file[p]
<1>1. /\ pn \in ProcRec /\ pn.pc = "drain" /\ pn.key = proc[p].key
      /\ pn.poisoned = proc[p].poisoned /\ pn.closing = TRUE
  BY ProcFacts DEF ProcRec, ProcPCs
<1>2. /\ fn \in FileRec /\ fn.st = file[p].st /\ fn.lock \in {file[p].lock, NoOne}
  BY RecordFacts
<1>3. /\ proc' = [proc EXCEPT ![p] = pn] /\ file' = [file EXCEPT ![p] = fn]
  BY RecordFacts, ProcFacts DEF ReleaseBegin
<1> HIDE DEF pn, fn
<1>4. Own(p, pn, fn)
  BY <1>1, <1>2, <1>3, ProcFacts DEF Own, ReleaseBegin, RecordFits, DrainFits, UncleanFits, HeldPCs, LockedPCs
<1>5. OwnLock(p, pn)
  BY <1>1, ProcFacts DEF OwnLock, LockedPCs, ReleaseBegin
<1> QED
  BY <1>1, <1>2, <1>4, <1>5, OwnStep

\* A release has no scan left to wait for.
LEMMA ReleaseDrainedStep ==
  ASSUME IInv, NEW p \in Procs, ReleaseDrained(p) PROVE IInv'
<1> DEFINE pn == [proc[p] EXCEPT !.pc = "rwait"]
           fn == file[p]
<1>1. /\ pn \in ProcRec /\ pn.pc = "rwait" /\ pn.key = proc[p].key
      /\ pn.poisoned = proc[p].poisoned /\ pn.closing = proc[p].closing
  BY ProcFacts DEF ProcRec, ProcPCs
<1>2. /\ fn \in FileRec /\ fn.st = file[p].st /\ fn.lock \in {file[p].lock, NoOne}
  BY RecordFacts
<1>3. /\ proc' = [proc EXCEPT ![p] = pn] /\ file' = [file EXCEPT ![p] = fn]
  BY RecordFacts, ProcFacts DEF ReleaseDrained, Goto, Drained
<1> HIDE DEF pn, fn
<1>4. Own(p, pn, fn)
  BY <1>1, <1>2, <1>3, ProcFacts DEF Own, ReleaseDrained, Goto, Drained, RecordFits, DrainFits, UncleanFits, HeldPCs, LockedPCs
<1>5. OwnLock(p, pn)
  BY <1>1, ProcFacts DEF OwnLock, LockedPCs, ReleaseDrained, Goto, Drained
<1> QED
  BY <1>1, <1>2, <1>4, <1>5, OwnStep

\* A release misses its deadline.
LEMMA ReleaseLateStep ==
  ASSUME IInv, NEW p \in Procs, ReleaseLate(p) PROVE IInv'
<1>1. CASE proc[p].pc = "drain"
  <2> DEFINE pn == [proc[p] EXCEPT !.pc = "failed", !.poisoned = TRUE]
               fn == DropRec(p)
  <2>1. /\ pn \in ProcRec /\ pn.pc = "failed" /\ pn.key = proc[p].key
        /\ pn.poisoned = TRUE /\ pn.closing = proc[p].closing
    BY <1>1, ProcFacts DEF ProcRec, ProcPCs
  <2>2. /\ fn \in FileRec /\ fn.st = file[p].st /\ fn.lock \in {file[p].lock, NoOne} /\ fn.lock # Owner
    BY RecordFacts
  <2>3. /\ proc' = [proc EXCEPT ![p] = pn] /\ file' = [file EXCEPT ![p] = fn]
    BY <1>1, RecordFacts, ProcFacts DEF ReleaseLate
  <2> HIDE DEF pn, fn
  <2>4. Own(p, pn, fn)
    BY <1>1, <2>1, <2>2, <2>3, ProcFacts DEF Own, ReleaseLate, RecordFits, DrainFits, UncleanFits, HeldPCs, LockedPCs
  <2>5. OwnLock(p, pn)
    BY <1>1, <2>1, ProcFacts DEF OwnLock, LockedPCs, ReleaseLate
  <2> QED
    BY <2>1, <2>2, <2>4, <2>5, OwnStep
<1>2. CASE proc[p].pc = "runlock"
  <2> DEFINE pn == [proc[p] EXCEPT !.pc = "rlate", !.poisoned = TRUE]
               fn == DropRec(p)
  <2>1. /\ pn \in ProcRec /\ pn.pc = "rlate" /\ pn.key = proc[p].key
        /\ pn.poisoned = TRUE /\ pn.closing = proc[p].closing
    BY <1>2, ProcFacts DEF ProcRec, ProcPCs
  <2>2. /\ fn \in FileRec /\ fn.st = file[p].st /\ fn.lock \in {file[p].lock, NoOne} /\ fn.lock # Owner
    BY RecordFacts
  <2>3. /\ proc' = [proc EXCEPT ![p] = pn] /\ file' = [file EXCEPT ![p] = fn]
    BY <1>2, RecordFacts, ProcFacts DEF ReleaseLate
  <2> HIDE DEF pn, fn
  <2>4. Own(p, pn, fn)
    BY <1>2, <2>1, <2>2, <2>3, ProcFacts DEF Own, ReleaseLate, RecordFits, DrainFits, UncleanFits, HeldPCs, LockedPCs
  <2>5. OwnLock(p, pn)
    BY <1>2, <2>1, ProcFacts DEF OwnLock, LockedPCs, ReleaseLate
  <2> QED
    BY <2>1, <2>2, <2>4, <2>5, OwnStep
<1>3. CASE proc[p].pc \notin {"drain", "runlock"}
  <2> DEFINE pn == [proc[p] EXCEPT !.poisoned = TRUE]
               fn == DropRec(p)
  <2>1. /\ pn \in ProcRec /\ pn.pc = proc[p].pc /\ pn.key = proc[p].key
        /\ pn.poisoned = TRUE /\ pn.closing = proc[p].closing
    BY <1>3, ProcFacts DEF ProcRec, ProcPCs
  <2>2. /\ fn \in FileRec /\ fn.st = file[p].st /\ fn.lock \in {file[p].lock, NoOne} /\ fn.lock # Owner
    BY RecordFacts
  <2>3. /\ proc' = [proc EXCEPT ![p] = pn] /\ file' = [file EXCEPT ![p] = fn]
    BY <1>3, RecordFacts, ProcFacts DEF ReleaseLate
  <2> HIDE DEF pn, fn
  <2>4. Own(p, pn, fn)
    BY <1>3, <2>1, <2>2, <2>3, ProcFacts DEF Own, ReleaseLate, RecordFits, DrainFits, UncleanFits, HeldPCs, LockedPCs
  <2>5. OwnLock(p, pn)
    BY <1>3, <2>1, ProcFacts DEF OwnLock, LockedPCs, ReleaseLate
  <2> QED
    BY <2>1, <2>2, <2>4, <2>5, OwnStep
<1> QED
  BY <1>1, <1>2, <1>3

\* The scan of a release.
LEMMA ReleaseScanStep ==
  ASSUME IInv, NEW p \in Procs, ReleaseScan(p) PROVE IInv'
<1> DEFINE refused == proc[p].poisoned \/ \E r \in Records \ {p} : Refused(r)
<1>1. CASE refused
  <2> DEFINE pn == [proc[p] EXCEPT !.pc = "failed", !.poisoned = TRUE]
               fn == DropRec(p)
  <2>1. /\ pn \in ProcRec /\ pn.pc = "failed" /\ pn.key = proc[p].key
        /\ pn.poisoned = TRUE /\ pn.closing = proc[p].closing
    BY <1>1, ProcFacts DEF ProcRec, ProcPCs
  <2>2. /\ fn \in FileRec /\ fn.st = file[p].st /\ fn.lock \in {file[p].lock, NoOne} /\ fn.lock # Owner
    BY RecordFacts
  <2>3. /\ proc' = [proc EXCEPT ![p] = pn] /\ file' = [file EXCEPT ![p] = fn]
    BY <1>1, RecordFacts, ProcFacts DEF ReleaseScan, Goto
  <2> HIDE DEF pn, fn
  <2>4. Own(p, pn, fn)
    BY <1>1, <2>1, <2>2, <2>3, ProcFacts DEF Own, ReleaseScan, Goto, RecordFits, DrainFits, UncleanFits, HeldPCs, LockedPCs
  <2>5. OwnLock(p, pn)
    BY <1>1, <2>1, ProcFacts DEF OwnLock, LockedPCs, ReleaseScan, Goto
  <2> QED
    BY <2>1, <2>2, <2>4, <2>5, OwnStep
<1>2. CASE ~refused
  <2> DEFINE pn == [proc[p] EXCEPT !.pc = "rclean"]
               fn == [file[p] EXCEPT !.st = "torn"]
  <2>1. /\ pn \in ProcRec /\ pn.pc = "rclean" /\ pn.key = proc[p].key
        /\ pn.poisoned = proc[p].poisoned /\ pn.closing = proc[p].closing
    BY <1>2, ProcFacts DEF ProcRec, ProcPCs
  <2>2. /\ fn \in FileRec /\ fn.st = "torn" /\ fn.lock = file[p].lock
    BY RecordFacts DEF FileRec, FileSts
  <2>3. /\ proc' = [proc EXCEPT ![p] = pn] /\ file' = [file EXCEPT ![p] = fn]
    BY <1>2, RecordFacts, ProcFacts DEF ReleaseScan, Goto, Exclusive
  <2> HIDE DEF pn, fn
  <2>4. Own(p, pn, fn)
    BY <1>2, <2>1, <2>2, <2>3, ProcFacts DEF Own, ReleaseScan, Goto, Exclusive, RecordFits, DrainFits, UncleanFits, HeldPCs, LockedPCs
  <2>5. OwnLock(p, pn)
    BY <1>2, <2>1, ProcFacts DEF OwnLock, LockedPCs, ReleaseScan, Goto, Exclusive
  <2> QED
    BY <2>1, <2>2, <2>4, <2>5, OwnStep
<1> QED
  BY <1>1, <1>2

\* The rewrite of a record fails.
LEMMA ReleaseBrokenStep ==
  ASSUME IInv, NEW p \in Procs, ReleaseBroken(p) PROVE IInv'
<1>1. CASE proc[p].pc = "rclean"
  <2> DEFINE pn == [proc[p] EXCEPT !.pc = "failed", !.poisoned = TRUE]
             fn == DropRec(p)
  <2>1. /\ pn \in ProcRec /\ pn.pc = "failed" /\ pn.key = proc[p].key
        /\ pn.poisoned = TRUE /\ pn.closing = proc[p].closing
    BY <1>1, ProcFacts DEF ProcRec, ProcPCs
  <2>2. /\ fn \in FileRec /\ fn.st = file[p].st /\ fn.lock \in {file[p].lock, NoOne} /\ fn.lock # Owner
    BY <1>1, RecordFacts
  <2>3. /\ proc' = [proc EXCEPT ![p] = pn] /\ file' = [file EXCEPT ![p] = fn]
    BY <1>1, RecordFacts, ProcFacts DEF ReleaseBroken
  <2> HIDE DEF pn, fn
  <2>4. Own(p, pn, fn)
    BY <1>1, <2>1, <2>2, <2>3, ProcFacts DEF Own, ReleaseBroken, RecordFits, DrainFits, UncleanFits, HeldPCs, LockedPCs
  <2>5. OwnLock(p, pn)
    BY <1>1, <2>1, ProcFacts DEF OwnLock, LockedPCs, ReleaseBroken
  <2> QED
    BY <1>1, <2>1, <2>2, <2>4, <2>5, OwnStep
<1>2. CASE proc[p].pc = "rsync"
  <2> DEFINE pn == [proc[p] EXCEPT !.pc = "spoiled", !.poisoned = TRUE]
             fn == DropRec(p)
  <2>1. /\ pn \in ProcRec /\ pn.pc = "spoiled" /\ pn.key = proc[p].key
        /\ pn.poisoned = TRUE /\ pn.closing = proc[p].closing
    BY <1>2, ProcFacts DEF ProcRec, ProcPCs
  <2>2. /\ fn \in FileRec /\ fn.st = file[p].st /\ fn.lock \in {file[p].lock, NoOne} /\ fn.lock # Owner
    BY <1>2, RecordFacts
  <2>3. /\ proc' = [proc EXCEPT ![p] = pn] /\ file' = [file EXCEPT ![p] = fn]
    BY <1>2, RecordFacts, ProcFacts DEF ReleaseBroken
  <2> HIDE DEF pn, fn
  <2>4. Own(p, pn, fn)
    BY <1>2, <2>1, <2>2, <2>3, ProcFacts DEF Own, ReleaseBroken, RecordFits, DrainFits, UncleanFits, HeldPCs, LockedPCs
  <2>5. OwnLock(p, pn)
    BY <1>2, <2>1, ProcFacts DEF OwnLock, LockedPCs, ReleaseBroken
  <2> QED
    BY <1>2, <2>1, <2>2, <2>4, <2>5, OwnStep
<1> QED
  BY <1>1, <1>2 DEF ReleaseBroken

\* The record becomes closed_clean.
LEMMA ReleaseWriteStep ==
  ASSUME IInv, NEW p \in Procs, ReleaseWrite(p) PROVE IInv'
<1> DEFINE pn == [proc[p] EXCEPT !.pc = "rsync"]
           fn == [file[p] EXCEPT !.st = "clean"]
<1>1. /\ pn \in ProcRec /\ pn.pc = "rsync" /\ pn.key = proc[p].key
      /\ pn.poisoned = proc[p].poisoned /\ pn.closing = proc[p].closing
  BY ProcFacts DEF ProcRec, ProcPCs
<1>2. /\ fn \in FileRec /\ fn.st = "clean" /\ fn.lock = file[p].lock
  BY RecordFacts DEF FileRec, FileSts
<1>3. /\ proc' = [proc EXCEPT ![p] = pn] /\ file' = [file EXCEPT ![p] = fn]
  BY RecordFacts, ProcFacts DEF ReleaseWrite, Goto
<1> HIDE DEF pn, fn
<1>4. Own(p, pn, fn)
  BY <1>1, <1>2, <1>3, ProcFacts, ZenonT(40) DEF Own, ReleaseWrite, Goto, RecordFits, DrainFits, UncleanFits, HeldPCs, LockedPCs
<1>5. OwnLock(p, pn)
  BY <1>1, ProcFacts DEF OwnLock, LockedPCs, ReleaseWrite, Goto
<1> QED
  BY <1>1, <1>2, <1>4, <1>5, OwnStep

\* The record is on disk, or is taken back.
LEMMA ReleaseSyncStep ==
  ASSUME IInv, NEW p \in Procs, ReleaseSync(p) PROVE IInv'
<1>1. CASE proc[p].poisoned
  <2>0. PICK st \in {"active", "torn", "clean"} :
               /\ file' = [file EXCEPT ![p].st = st]
               /\ Goto(p, IF st = "clean" THEN "spoiled" ELSE "failed")
               /\ unclean' = IF st = "clean" THEN unclean ELSE unclean \union {p}
    BY <1>1 DEF ReleaseSync
  <2> DEFINE pn == [proc[p] EXCEPT !.pc = IF st = "clean" THEN "spoiled" ELSE "failed"]
               fn == [file[p] EXCEPT !.st = st]
  <2>1. /\ pn \in ProcRec /\ pn.pc = (IF st = "clean" THEN "spoiled" ELSE "failed") /\ pn.key = proc[p].key
        /\ pn.poisoned = proc[p].poisoned /\ pn.closing = proc[p].closing
    BY <1>1, <2>0, ProcFacts DEF ProcRec, ProcPCs
  <2>2. /\ fn \in FileRec /\ fn.st = st /\ fn.lock = file[p].lock
    BY RecordFacts DEF FileRec, FileSts
  <2>3. /\ proc' = [proc EXCEPT ![p] = pn] /\ file' = [file EXCEPT ![p] = fn]
    BY <1>1, <2>0, RecordFacts, ProcFacts DEF ReleaseSync, Goto
  <2> HIDE DEF pn, fn
  <2>4. Own(p, pn, fn)
    BY <1>1, <2>0, <2>1, <2>2, <2>3, ProcFacts, ZenonT(40) DEF Own, ReleaseSync, Goto, RecordFits, DrainFits, UncleanFits, HeldPCs, LockedPCs
  <2>5. OwnLock(p, pn)
    BY <1>1, <2>0, <2>1, ProcFacts DEF OwnLock, LockedPCs, ReleaseSync, Goto
  <2> QED
    BY <2>1, <2>2, <2>4, <2>5, OwnStep
<1>2. CASE ~proc[p].poisoned
  <2> DEFINE pn == [proc[p] EXCEPT !.pc = "runlock"]
               fn == file[p]
  <2>1. /\ pn \in ProcRec /\ pn.pc = "runlock" /\ pn.key = proc[p].key
        /\ pn.poisoned = proc[p].poisoned /\ pn.closing = proc[p].closing
    BY <1>2, ProcFacts DEF ProcRec, ProcPCs
  <2>2. /\ fn \in FileRec /\ fn.st = file[p].st /\ fn.lock \in {file[p].lock, NoOne}
    BY RecordFacts
  <2>3. /\ proc' = [proc EXCEPT ![p] = pn] /\ file' = [file EXCEPT ![p] = fn]
    BY <1>2, RecordFacts, ProcFacts DEF ReleaseSync, Goto
  <2> HIDE DEF pn, fn
  <2>4. Own(p, pn, fn)
    BY <1>2, <2>1, <2>2, <2>3, ProcFacts DEF Own, ReleaseSync, Goto, RecordFits, DrainFits, UncleanFits, HeldPCs, LockedPCs
  <2>5. OwnLock(p, pn)
    BY <1>2, <2>1, ProcFacts DEF OwnLock, LockedPCs, ReleaseSync, Goto
  <2> QED
    BY <2>1, <2>2, <2>4, <2>5, OwnStep
<1> QED
  BY <1>1, <1>2

\* A release ends.
LEMMA ReleaseUnlockStep ==
  ASSUME IInv, NEW p \in Procs, ReleaseUnlock(p) PROVE IInv'
<1> DEFINE pn == [proc[p] EXCEPT !.pc = IF proc[p].pc = "runlock" THEN "closed" ELSE "spoiled"]
           fn == DropRec(p)
<1>1. /\ pn \in ProcRec /\ pn.pc = (IF proc[p].pc = "runlock" THEN "closed" ELSE "spoiled") /\ pn.key = proc[p].key
      /\ pn.poisoned = proc[p].poisoned /\ pn.closing = proc[p].closing
  BY ProcFacts DEF ProcRec, ProcPCs
<1>2. /\ fn \in FileRec /\ fn.st = file[p].st /\ fn.lock \in {file[p].lock, NoOne} /\ fn.lock # Owner
  BY RecordFacts
<1>3. /\ proc' = [proc EXCEPT ![p] = pn] /\ file' = [file EXCEPT ![p] = fn]
  BY RecordFacts, ProcFacts DEF ReleaseUnlock, Goto
<1> HIDE DEF pn, fn
<1>4. Own(p, pn, fn)
  BY <1>1, <1>2, <1>3, ProcFacts DEF Own, ReleaseUnlock, Goto, RecordFits, DrainFits, UncleanFits, HeldPCs, LockedPCs
<1>5. OwnLock(p, pn)
  BY <1>1, ProcFacts DEF OwnLock, LockedPCs, ReleaseUnlock, Goto
<1> QED
  BY <1>1, <1>2, <1>4, <1>5, OwnStep

\* A call of acquire() notes whether something is unclean.
LEMMA AcquireCallStep ==
  ASSUME IInv, NEW p \in Procs, AcquireCall(p) PROVE IInv'
<1> USE DEF IInv
<1> DEFINE pn == [proc[p] EXCEPT !.pc = "called"]
<1>1. pn \in ProcRec /\ pn.pc = "called" /\ pn.key = proc[p].key
  BY ProcFacts DEF ProcRec, ProcPCs
<1>2. /\ proc' = [proc EXCEPT ![p] = pn] /\ proc[p].pc = "new"
      /\ before' = IF unclean = {} THEN before ELSE before \union {p}
      /\ UNCHANGED <<file, check, readers, writer, unclean, faults>>
  BY ProcFacts DEF AcquireCall, Goto
<1> HIDE DEF pn
<1>3. /\ proc' \in [Procs -> ProcRec] /\ proc'[p] = pn
      /\ \A q \in Procs \ {p} : proc'[q] = proc[q]
  BY <1>1, <1>2, ProcFacts
<1>4. TypeOK'
  BY <1>2, <1>3, TypeFacts DEF TypeOK, ProcRec, FileRec, CheckRec
<1>5. DirInv' /\ KeyInv'
  BY <1>1, <1>2, <1>3 DEF DirInv, KeyInv, LockedPCs, HeldPCs
<1>6. FileInv'
  BY <1>1, <1>2, <1>3 DEF FileInv
<1>7. UncleanInv' /\ BeforeInv'
  BY <1>1, <1>2, <1>3, TypeFacts DEF UncleanInv, BeforeInv
<1>8. DrainInv'
  <2>1. \A q \in Procs : Jobs(q)' = Jobs(q)
    BY <1>2 DEF Jobs
  <2>2. file[p].st = "none"
    BY <1>2 DEF FileInv
  <2> QED
    BY <1>1, <1>2, <1>3, <2>1, <2>2 DEF DrainInv
<1>9. CommitInv' /\ SeenInv'
  <2>1. \A c \in Checks : check[c].p \in Procs
    BY CheckFacts
  <2> QED
    BY <1>1, <1>2, <1>3, <2>1 DEF CommitInv, SeenInv
<1> QED
  BY <1>4, <1>5, <1>6, <1>7, <1>8, <1>9

\* The start of a process: nothing unclean is left, nobody else holds its key.
LEMMA AcquireScanStep ==
  ASSUME IInv, NEW p \in Procs, AcquireScan(p) PROVE IInv'
<1> USE DEF IInv
<1> DEFINE pn == [proc[p] EXCEPT !.pc = "write"]
<1>1. pn \in ProcRec /\ pn.pc = "write" /\ pn.key = proc[p].key
  BY ProcFacts DEF ProcRec, ProcPCs
<1>2. /\ proc' = [proc EXCEPT ![p] = pn] /\ proc[p].pc = "called"
      /\ writer = NoOne /\ readers = {} /\ writer' = p
      /\ ~KeyTaken(p) /\ \A r \in Records : ~Refused(r)
      /\ UNCHANGED <<check, readers, unclean, before, faults>>
  BY ProcFacts DEF AcquireScan, Goto, Exclusive
<1> HIDE DEF pn
<1>3. /\ proc' \in [Procs -> ProcRec] /\ proc'[p] = pn
      /\ \A q \in Procs \ {p} : proc'[q] = proc[q]
  BY <1>1, <1>2, ProcFacts
<1>4. \A r \in Procs : file[r].lock \notin Checks
  BY <1>2 DEF FileInv, DirInv
<1>5. /\ file' \in [Procs -> FileRec] /\ file'[p].st = "torn" /\ file'[p].lock = Owner
      /\ \A r \in Procs \ {p} :
           /\ file'[r].lock = file[r].lock
           /\ \/ file'[r].st = file[r].st
              \/ file[r].st = "clean" /\ file[r].lock = NoOne /\ file'[r].st = "retired"
  BY TypeFacts DEF AcquireScan, FileRec, FileSts
<1>6. unclean = {}
  <2>1. SUFFICES ASSUME NEW u \in unclean PROVE FALSE
    OBVIOUS
  <2>2. /\ u \in Procs /\ file[u].st \in {"torn", "active"} /\ file[u].lock # Owner
    BY TypeFacts DEF UncleanInv
  <2>3. file[u].lock = NoOne
    BY <1>4, <2>2, TypeFacts DEF FileRec
  <2> QED
    BY <1>2, <2>2, <2>3 DEF Records, Refused
<1>7. \A q \in Procs : proc[q].pc \in HeldPCs => proc[q].key # proc[p].key
  <2>1. SUFFICES ASSUME NEW q \in Procs, proc[q].pc \in HeldPCs, proc[q].key = proc[p].key
                 PROVE  FALSE
    OBVIOUS
  <2>2. proc[q].pc \in {"up", "drain", "rwait"}
    BY <1>2, <2>1, GuardAssumption DEF DirInv, HeldPCs
  <2>3. file[q].st = "active"
    BY <2>2 DEF FileInv
  <2> QED
    BY <1>2, <2>1, <2>3 DEF Records, Refused, KeyTaken
<1>8. TypeOK'
  BY <1>2, <1>3, <1>5, TypeFacts DEF TypeOK, ProcRec, FileRec, CheckRec
<1>9. DirInv'
  <2>1. \A q \in Procs : proc[q].pc \notin LockedPCs
    BY <1>2, GuardAssumption DEF DirInv
  <2> QED
    BY <1>1, <1>2, <1>3, <2>1 DEF DirInv, LockedPCs
<1>10. FileInv'
  <2>1. Owner \notin Checks
    BY GuardAssumption
  <2>2. \A q \in Procs : proc[q].pc \notin {"rsync", "runlock", "rlate"}
    BY <1>2, GuardAssumption DEF DirInv, LockedPCs
  <2> QED
    BY <1>1, <1>2, <1>3, <1>4, <1>5, <2>1, <2>2 DEF FileInv
<1>11. UncleanInv' /\ BeforeInv'
  BY <1>2, <1>6 DEF UncleanInv, BeforeInv
<1>12. DrainInv'
  <2>1. \A q \in Procs : Jobs(q)' = Jobs(q)
    BY <1>2 DEF Jobs
  <2> QED
    BY <1>1, <1>2, <1>3, <1>5, <2>1 DEF DrainInv
<1>13. CommitInv' /\ SeenInv'
  <2>1. \A c \in Checks : check[c].p \in Procs
    BY CheckFacts
  <2> QED
    BY <1>1, <1>2, <1>3, <2>1 DEF CommitInv, SeenInv
<1>14. KeyInv'
  BY <1>1, <1>3, <1>7 DEF KeyInv
<1> QED
  BY <1>8, <1>9, <1>10, <1>11, <1>12, <1>13, <1>14

\* A process that dies takes its checks, and every flock they held, with it.
LEMMA CrashStep ==
  ASSUME IInv, NEW p \in Procs, Crash(p) PROVE IInv'
<1> USE DEF IInv
<1> DEFINE pn == [proc[p] EXCEPT !.pc = "dead"]
           own == {c \in Checks : check[c].p = p}
<1>1. pn \in ProcRec /\ pn.pc = "dead" /\ pn.key = proc[p].key /\ pn.closing = proc[p].closing
  BY ProcFacts DEF ProcRec, ProcPCs
<1>2. /\ proc' = [proc EXCEPT ![p] = pn] /\ before' = before /\ faults' \in 0..MaxFaults
      /\ readers' = readers \ own
      /\ writer' = IF writer = p THEN NoOne ELSE writer
      /\ unclean' = IF file[p].st \in {"torn", "active"} THEN unclean \union {p} ELSE unclean
      /\ proc[p].pc \notin {"new", "closed", "failed", "dead"}
  BY ProcFacts DEF Crash, Goto, Alive
<1>3. \A c \in Checks : check[c] \in CheckRec /\ Ended(c, check[c].res) \in CheckRec
  BY CheckFacts, EndedFacts DEF CheckRec
<1>4. /\ check' \in [Checks -> CheckRec]
      /\ \A c \in Checks : check'[c] = IF c \in own /\ check[c].pc # "idle"
                                       THEN Ended(c, check[c].res) ELSE check[c]
  BY <1>3 DEF Crash
<1>5. \A c \in Checks :
        /\ check'[c].p = check[c].p /\ check'[c].kind = check[c].kind
        /\ check'[c].res = check[c].res
        /\ c \notin own => check'[c] = check[c]
        /\ c \in own => /\ check'[c].pc \in {"idle", "done"}
                        /\ check'[c].pc = "idle" <=> check[c].pc = "idle"
                        /\ check'[c].seen \subseteq check[c].seen
                        /\ check[c].res = "ok" => check'[c].masked = check[c].masked
  <2>1. SUFFICES ASSUME NEW c \in Checks
        PROVE  /\ check'[c].p = check[c].p /\ check'[c].kind = check[c].kind
               /\ check'[c].res = check[c].res
               /\ c \notin own => check'[c] = check[c]
               /\ c \in own => /\ check'[c].pc \in {"idle", "done"}
                               /\ check'[c].pc = "idle" <=> check[c].pc = "idle"
                               /\ check'[c].seen \subseteq check[c].seen
                               /\ check[c].res = "ok" => check'[c].masked = check[c].masked
    OBVIOUS
  <2>2. check[c].res \in {"none", "ok", "err"} /\ check \in [Checks -> CheckRec]
    BY <1>3, CheckFacts DEF CheckRec
  <2>3. CASE c \in own /\ check[c].pc # "idle"
    BY <1>4, <2>2, <2>3, EndedFacts
  <2>4. CASE ~(c \in own /\ check[c].pc # "idle")
    <3>1. check'[c] = check[c]
      BY <1>4, <2>4
    <3> QED
      BY <2>4, <3>1
  <2> QED
    BY <2>3, <2>4
<1>6. /\ file' \in [Procs -> FileRec]
      /\ \A r \in Procs : /\ file'[r].st = file[r].st
                          /\ file'[r].lock \in {file[r].lock, NoOne}
                          /\ file'[r].lock \notin own
      /\ file'[p].lock # Owner
  <2>1. file \in [Procs -> FileRec]
    BY TypeFacts
  <2>2. /\ Dropped(file, p) \in [Procs -> FileRec]
        /\ \A r \in Procs :
             /\ Dropped(file, p)[r].st = file[r].st
             /\ Dropped(file, p)[r].lock = IF r = p /\ file[r].lock = Owner THEN NoOne
                                           ELSE file[r].lock
    BY <2>1, DroppedFacts
  <2>3. file' = [r \in Procs |-> IF file[r].lock \in own THEN [file[r] EXCEPT !.lock = NoOne]
                                 ELSE Dropped(file, p)[r]]
    BY DEF Crash
  <2>4. NoOne # Owner /\ NoOne \notin own /\ Owner \notin own
    BY GuardAssumption DEF NoOne, Owner
  <2>5. \A r \in Procs : /\ [file[r] EXCEPT !.lock = NoOne] \in FileRec
                         /\ [file[r] EXCEPT !.lock = NoOne].st = file[r].st
                         /\ [file[r] EXCEPT !.lock = NoOne].lock = NoOne
    BY <2>1 DEF FileRec
  <2> HIDE DEF own
  <2> QED
    BY <2>2, <2>3, <2>4, <2>5
<1> HIDE DEF pn
<1>7. /\ proc' \in [Procs -> ProcRec] /\ proc'[p] = pn
      /\ \A q \in Procs \ {p} : proc'[q] = proc[q]
  BY <1>1, <1>2, ProcFacts
<1>8. /\ unclean' \subseteq Procs /\ unclean \subseteq unclean'
      /\ unclean' \subseteq unclean \union {p} /\ own \subseteq Checks
      /\ \A c \in Checks : c \in own <=> check[c].p = p
      /\ \A c \in Checks : check[c].p \in Procs
  BY <1>2, <1>3, TypeFacts DEF CheckRec
<1> HIDE DEF own
<1>9. TypeOK'
  <2>1. writer' \in Procs \union {NoOne} /\ readers' \subseteq Checks
    BY <1>2, TypeFacts
  <2> QED
    BY <1>2, <1>4, <1>6, <1>7, <1>8, <2>1, TypeFacts DEF TypeOK, ProcRec, FileRec, CheckRec
<1>10. DirInv'
  <2>1. \A q \in Procs : writer' = q <=> proc'[q].pc \in LockedPCs
    BY <1>1, <1>2, <1>7, GuardAssumption DEF DirInv, LockedPCs
  <2>2. writer' # NoOne => readers' = {}
    BY <1>2 DEF DirInv
  <2>3. \A c \in Checks : c \in readers' <=> check'[c].pc = "scan"
    BY <1>2, <1>5 DEF DirInv
  <2> QED
    BY <2>1, <2>2, <2>3 DEF DirInv
<1>11. FileInv'
  <2>1. \A q \in Procs : file'[q].lock \in Checks =>
          /\ check'[file'[q].lock].pc = "scan" /\ check'[file'[q].lock].probe = q
          /\ q \in check'[file'[q].lock].left
    BY <1>5, <1>6, GuardAssumption DEF FileInv
  <2>2. NoOne # Owner
    BY DEF NoOne, Owner
  <2> QED
    BY <1>1, <1>6, <1>7, <2>1, <2>2 DEF FileInv
<1>12. UncleanInv'
  <2>1. NoOne # Owner
    BY DEF NoOne, Owner
  <2> QED
    BY <1>1, <1>2, <1>6, <1>7, <1>8, <2>1 DEF UncleanInv
<1>13. BeforeInv'
  BY <1>1, <1>2, <1>7, <1>8, TypeFacts DEF BeforeInv
<1>14. DrainInv'
  <2>1. \A q \in Procs : Jobs(q)' \subseteq Jobs(q)
    BY <1>5 DEF Jobs
  <2> QED
    BY <1>1, <1>6, <1>7, <2>1 DEF DrainInv
<1>15. CommitInv'
  <2>1. SUFFICES ASSUME NEW c \in Checks
        PROVE  /\ check'[c].pc = "idle" => check'[c].kind = "probe" /\ check'[c].res = "none"
               /\ check'[c].res = "ok" => check'[c].pc = "done"
               /\ check'[c].kind = "commit" /\ check'[c].res # "ok" =>
                    \/ check'[c].p \in unclean'
                    \/ /\ check'[c].res = "none" /\ check'[c].pc # "done"
                       /\ proc'[check'[c].p].pc = "up"
    BY DEF CommitInv
  <2>2. proc[p].pc = "up" => p \in unclean'
    BY <1>2 DEF FileInv
  <2>3. CASE c \in own
    <3>1. check[c].p = p
      BY <1>8, <2>3
    <3> QED
      BY <1>5, <1>8, <2>2, <2>3, <3>1 DEF CommitInv
  <2>4. CASE c \notin own
    BY <1>5, <1>7, <1>8, <2>4 DEF CommitInv
  <2> QED
    BY <2>3, <2>4
<1>16. SeenInv'
  <2>1. SUFFICES ASSUME NEW c \in Checks
        PROVE  /\ check'[c].seen \subseteq unclean'
               /\ check'[c].pc = "scan" => check'[c].seen \subseteq check'[c].left \union check'[c].masked
               /\ check'[c].res = "ok" => check'[c].seen \subseteq check'[c].masked
               /\ check'[c].p \notin check'[c].seen
    BY DEF SeenInv
  <2>2. CASE c \in own
    BY <1>5, <1>8, <2>2 DEF SeenInv
  <2>3. CASE c \notin own
    BY <1>5, <1>8, <2>3 DEF SeenInv
  <2> QED
    BY <2>2, <2>3
<1>17. KeyInv'
  BY <1>1, <1>7 DEF KeyInv, HeldPCs, LockedPCs
<1> QED
  BY <1>9, <1>10, <1>11, <1>12, <1>13, <1>14, <1>15, <1>16, <1>17

\* The initial states have the invariant.
LEMMA InitIInv == Init => IInv
<1> SUFFICES ASSUME Init PROVE IInv
  OBVIOUS
<1>1. PICK p0 \in Procs :
        check = [c \in Checks |-> [pc |-> "idle", p |-> p0, kind |-> "probe", round |-> 1,
                                   left |-> {}, probe |-> NoOne, stale |-> FALSE,
                                   res |-> "none", seen |-> {}, masked |-> {}]]
  BY DEF Init
<1>2. \A c \in Checks : /\ check[c].pc = "idle" /\ check[c].kind = "probe"
                        /\ check[c].res = "none" /\ check[c].seen = {}
  BY <1>1
<1>3. \A p \in Procs : /\ proc[p].pc = "new" /\ file[p].st = "none" /\ file[p].lock = NoOne
                       /\ proc[p] \in ProcRec
  <2> DEFINE S == {[pc |-> "new", key |-> k, poisoned |-> FALSE, closing |-> FALSE] : k \in Keys}
  <2>1. \A s \in S : s.pc = "new" /\ s \in ProcRec
    <3> SUFFICES ASSUME NEW s \in S PROVE s.pc = "new" /\ s \in ProcRec
      OBVIOUS
    <3>1. PICK k \in Keys :
            s = [pc |-> "new", key |-> k, poisoned |-> FALSE, closing |-> FALSE]
      OBVIOUS
    <3> QED
      BY <3>1 DEF ProcRec, ProcPCs
  <2>2. proc \in [Procs -> S] /\ file = [p \in Procs |-> [st |-> "none", lock |-> NoOne]]
    BY DEF Init
  <2> HIDE DEF S
  <2> QED
    BY <2>1, <2>2
<1>4. /\ readers = {} /\ writer = NoOne /\ unclean = {} /\ before = {} /\ faults = 0
  BY DEF Init
<1>5. TypeOK
  <2>1. check \in [Checks -> CheckRec]
    BY <1>1 DEF CheckRec, CheckPCs, Kinds
  <2>2. proc \in [Procs -> ProcRec]
    <3>1. proc = [p \in Procs |-> proc[p]]
      BY DEF Init
    <3> QED
      BY <1>3, <3>1
  <2>3. file \in [Procs -> FileRec]
    BY DEF Init, FileRec, FileSts
  <2> QED
    BY <1>4, <2>1, <2>2, <2>3, TypeFacts, GuardAssumption
<1>6. DirInv /\ FileInv
  BY <1>2, <1>3, <1>4, GuardAssumption DEF DirInv, FileInv, LockedPCs
<1>7. UncleanInv /\ BeforeInv /\ DrainInv
  BY <1>2, <1>3, <1>4 DEF UncleanInv, BeforeInv, DrainInv
<1>8. CommitInv /\ SeenInv /\ KeyInv
  BY <1>2, <1>3, <1>4 DEF CommitInv, SeenInv, KeyInv, HeldPCs, LockedPCs
<1> QED
  BY <1>5, <1>6, <1>7, <1>8 DEF IInv

\* Every step preserves the invariant.
LEMMA NextStep == IInv /\ [Next]_vars => IInv'
<1> SUFFICES ASSUME IInv, [Next]_vars PROVE IInv'
  OBVIOUS
<1>1. CASE \E p \in Procs : ProcNext(p)
  <2>1. PICK p \in Procs : ProcNext(p)
    BY <1>1
  <2> QED
    BY <2>1, AcquireCallStep, AcquireRefusedStep, AcquireScanStep, AcquireWriteStep,
       AcquiredStep, AcquireTimeoutStep, AcquireLateStep, MarkUncertainStep, CrashStep,
       ReleaseBeginStep, ReleaseDrainedStep, ReleaseLateStep, ReleaseScanStep,
       ReleaseBrokenStep, ReleaseWriteStep, ReleaseSyncStep, ReleaseUnlockStep
       DEF ProcNext
<1>2. CASE \E c \in Checks : CheckNext(c)
  <2>1. PICK c \in Checks : CheckNext(c)
    BY <1>2
  <2> QED
    BY <2>1, BeginStep, AdmitStep, ScanStartStep, ScanRecordStep, JudgeStep, ScanEndStep,
       ReceiptStep, GiveUpStep, AbortStep DEF CheckNext
<1>3. CASE UNCHANGED vars
  BY <1>3 DEF vars, IInv, TypeOK, DirInv, FileInv, UncleanInv, BeforeInv, DrainInv, Jobs,
              CommitInv, SeenInv, KeyInv
<1> QED
  BY <1>1, <1>2, <1>3 DEF Next

----------------------------------------------------------------------------
(* Theorems. *)

\* The inductive invariant of the guard directory and of the checks: every state of
\* every behaviour has the nine parts above, whatever crashes, deadlines and errors.
THEOREM GuardInductive == Spec => []IInv
<1>1. IInv /\ [Next]_vars => IInv'
  BY NextStep
<1> QED
  BY InitIInv, <1>1, PTL DEF Spec

\* Type correctness of the processes, records, checks and directory lock.
THEOREM GuardTypeCorrect == Spec => []TypeOK
<1>1. IInv => TypeOK
  BY DEF IInv
<1> QED
  BY GuardInductive, <1>1, PTL

\* acquire() completes for no process that called it after another went unclean, and
\* no two processes hold the same key, for any number of processes, keys and checks.
THEOREM GuardStartsAlone == Spec => []StartsAlone
<1>1. IInv => StartsAlone
  <2> SUFFICES ASSUME IInv, NEW p \in Procs
               PROVE  /\ proc[p].pc = "up" => p \notin before
                      /\ \A q \in Procs \ {p} : Holds(p) /\ Holds(q) => proc[p].key # proc[q].key
    BY DEF StartsAlone
  <2>1. proc[p].pc = "up" => p \notin before
    BY DEF IInv, BeforeInv
  <2>2. \A q \in Procs : Holds(q) => proc[q].pc \in HeldPCs
    BY ProcFacts DEF Holds, Alive, HeldPCs, LockedPCs, ProcRec, ProcPCs
  <2>3. \A q \in Procs \ {p} : Holds(p) /\ Holds(q) => proc[p].key # proc[q].key
    BY <2>2 DEF IInv, KeyInv
  <2> QED
    BY <2>1, <2>3
<1> QED
  BY GuardInductive, <1>1, PTL

\* release_clean() succeeds for no process marked uncertain, and a closed_clean record
\* belongs to a process that never went unclean, has no scan left, had every one of its
\* commits confirmed, and was marked uncertain only where its release could not take
\* the record back any more, or still has to.
THEOREM GuardCleanIsDrained == Spec => []CleanIsDrained
<1>1. IInv => CleanIsDrained
  <2> SUFFICES ASSUME IInv, NEW p \in Procs
               PROVE  /\ file[p].st = "clean" =>
                           /\ p \notin unclean /\ Jobs(p) = {}
                           /\ \A c \in Checks :
                                check[c].p = p /\ check[c].kind = "commit" => check[c].res = "ok"
                           /\ proc[p].poisoned => proc[p].pc \in {"rsync", "rlate", "spoiled", "dead"}
                      /\ proc[p].pc \in {"runlock", "closed"} => ~proc[p].poisoned
    BY DEF CleanIsDrained
  <2>1. file[p].st = "clean" => p \notin unclean /\ Jobs(p) = {} /\ proc[p].pc # "up"
    BY DEF IInv, UncleanInv, DrainInv
  <2>2. file[p].st = "clean" =>
          \A c \in Checks : check[c].p = p /\ check[c].kind = "commit" => check[c].res = "ok"
    BY <2>1 DEF IInv, CommitInv
  <2> QED
    BY <2>1, <2>2 DEF IInv, DrainInv
<1> QED
  BY GuardInductive, <1>1, PTL

\* A confirmed check has met every process that was unclean when it began, or a flock
\* that another scan held on that process's record.
THEOREM GuardConfirmed == Spec => []ConfirmedUnlessProbed
<1>1. IInv => ConfirmedUnlessProbed
  BY DEF IInv, SeenInv, ConfirmedUnlessProbed
<1> QED
  BY GuardInductive, <1>1, PTL

=============================================================================
