-------------------------- MODULE MCOrderLifecycle --------------------------
(***************************************************************************)
(* Instances of OrderLifecycle for TLC: one order, one or two replicas of  *)
(* the OMS, and a handler or two of each kind.                             *)
(***************************************************************************)
EXTENDS OrderLifecycle

CONSTANTS a, b, s1, s2, c1, m1, w1

\* Admission in one replica; redelivery, cancel, amend and sweep in the other
HomeTwo == [h \in Handlers |-> IF h = s1 THEN a ELSE b]
HomeOne == [h \in Handlers |-> a]
=============================================================================
