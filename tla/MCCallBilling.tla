--------------------------- MODULE MCCallBilling ---------------------------
(***************************************************************************)
(* Small instances of CallBilling for TLC.  One caller, and two listeners  *)
(* who may also call each other, so that callers race for a listener, one  *)
(* caller runs two calls at once, and a pair may have a call each way.     *)
(***************************************************************************)
EXTENDS CallBilling, TLC

CONSTANTS u1, u2, l1, l2

MCRate == [t \in Type |-> 2]
MCShare == [t \in Type |-> 1]
CoinsForTwo == [u \in User |-> IF u = u1 THEN 4 ELSE 0]
CoinsForOne == [u \in User |-> IF u = u1 THEN 2 ELSE 0]
OneBlock == {<<u1, l1>>}
OneTopUp == {<<u1, 2>>}

Symmetry == Permutations(Call) \cup Permutations(Worker)
=============================================================================
