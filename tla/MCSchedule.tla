---------------------------- MODULE MCSchedule ----------------------------
(* A parent order of two slices, or three, worked by two replicas. *)
EXTENDS Schedule

CONSTANTS r1, r2, c1

HomeOne == [c \in Cancels |-> r1]
=============================================================================
