-------------------------- MODULE MCRetrievalService --------------------------
(* RetrievalService without a store, where calls for two keys age, replace and *)
(* outlive one another and the host stops at any time, and with one, where     *)
(* storage faults, deadlines and evictions meet the calls for one key.         *)
EXTENDS RetrievalService

Memory(n, ends) ==
  [persistent |-> FALSE, requested |-> Keys, permits |-> n, ticks |-> 1,
   faults |-> 0, evictions |-> 0, stops |-> ends]
Stored ==
  [persistent |-> TRUE, requested |-> {CHOOSE k \in Keys : TRUE}, permits |-> 1,
   ticks |-> 0, faults |-> 1, evictions |-> 1, stops |-> FALSE]

MCConfigurations == {Memory(2, FALSE), Memory(1, TRUE), Stored}
=============================================================================
