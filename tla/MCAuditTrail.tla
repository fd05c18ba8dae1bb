---------------------------- MODULE MCAuditTrail ----------------------------
(* Instances of AuditTrail: the first tenant has a row that is refused.    *)
EXTENDS AuditTrail, TLC

MCTenantOf == [d \in Decisions |-> IF d \in Unsendable THEN 1 ELSE 2]

Interchangeable == Permutations(Workers) \cup Permutations(Pods)
=============================================================================
