--------------------------- MODULE MCPaidExecute ----------------------------
(* Instances of PaidExecute for TLC. *)
EXTENDS PaidExecute, TLC

CONSTANTS a, b

TwoExits == {a, b}
Symmetry == Permutations(TwoExits)
=============================================================================
