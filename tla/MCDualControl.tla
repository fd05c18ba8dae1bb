--------------------------- MODULE MCDualControl ---------------------------
(***************************************************************************)
(* DualControl for TLC: approvals by two other people, and one by the      *)
(* proposer themselves.                                                    *)
(***************************************************************************)
EXTENDS DualControl, TLC

CONSTANTS a1, a2, self, ann, bob, cyd

MCSigner == a1 :> bob @@ a2 :> cyd @@ self :> ann

=============================================================================
