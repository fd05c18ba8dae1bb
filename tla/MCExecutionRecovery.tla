----------------------- MODULE MCExecutionRecovery -----------------------
(***************************************************************************)
(* ExecutionRecovery for TLC. Cases are alike, and so are the two books.   *)
(***************************************************************************)
EXTENDS ExecutionRecovery, TLC

Interchangeable == Permutations(Cases) \cup Permutations(Books)
=============================================================================
