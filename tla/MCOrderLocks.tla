---------------------------- MODULE MCOrderLocks ----------------------------
(***************************************************************************)
(* An instance of OrderLocks for TLC: a scheduled parent with one slice,   *)
(* deliveries that wait and one that does not.                             *)
(***************************************************************************)
EXTENDS OrderLocks

CONSTANTS p, c, d1, d2, d3, t1, l1, l2

OneParent == [o \in Orders |-> IF o = p THEN {c} ELSE {}]
=============================================================================
