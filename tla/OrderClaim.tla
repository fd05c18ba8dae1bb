----------------------------- MODULE OrderClaim -----------------------------
(***************************************************************************)
(* What the OMS's per-order claim promises its callers: within a process   *)
(* an order has at most one owner, who gives it back.  OrderLifecycle      *)
(* takes claims in this form; OrderLocks is how the code keeps the promise.*)
(***************************************************************************)
CONSTANTS Orders, Deliveries, None

VARIABLE owner

Init == owner = [o \in Orders |-> None]

Take(d, o) ==
    /\ owner[o] = None
    /\ owner' = [owner EXCEPT ![o] = d]

Give(d, o) ==
    /\ owner[o] = d
    /\ owner' = [owner EXCEPT ![o] = None]

Next == \E d \in Deliveries, o \in Orders : Take(d, o) \/ Give(d, o)

Spec == Init /\ [][Next]_owner
=============================================================================
