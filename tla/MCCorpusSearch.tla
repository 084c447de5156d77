--------------------------- MODULE MCCorpusSearch ---------------------------
(* Histories of one object's revisions, with two faults of the processes that  *)
(* index them; and searches among two objects, with and without such a fault.  *)
EXTENDS CorpusSearch

CONSTANTS o1, o2, r1, r2

MCBudgets ==
    {[events |-> 3, faults |-> 2, searches |-> 0, of |-> {o1} \X {r1, r2} \X BOOLEAN],
     [events |-> 2, faults |-> 1, searches |-> 1, of |-> {<<o1, r1, TRUE>>}],
     [events |-> 3, faults |-> 0, searches |-> 1, of |-> {o1, o2} \X {r1} \X {TRUE}]}
=============================================================================
