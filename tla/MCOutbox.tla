------------------------------ MODULE MCOutbox ------------------------------
(***************************************************************************)
(* Instances of Outbox for TLC: one or two OMS replicas, each with a relay *)
(* goroutine, and a handler that flushes.                                  *)
(***************************************************************************)
EXTENDS Outbox

CONSTANTS p1, p2, w1, w2, b1, b2, f1, f2

\* Replica p1 runs the handlers; both replicas run a relay
HomeTwo == [a \in Actors |-> IF a \in {w2, b2, f2} THEN p2 ELSE p1]
HomeOne == [a \in Actors |-> p1]
=============================================================================
