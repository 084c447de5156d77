------------------------- MODULE MCProviderAdmission -------------------------
(* ProviderAdmission with three calls that nothing goes wrong for, and with two *)
(* calls, of both modes or of one process, and two events.                      *)
EXTENDS ProviderAdmission

CONSTANTS b1, b2, d1

MCPlans == {[calls |-> {b1, b2, d1}, events |-> 0],
            [calls |-> {b1, d1}, events |-> 2],
            [calls |-> {b1, b2}, events |-> 2]}
=============================================================================
