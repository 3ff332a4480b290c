------------------------------ MODULE MCUsage ------------------------------
(* Usage for TLC: requests in progress are alike.                          *)
EXTENDS Usage, TLC

Symmetry == Permutations(Worker)

=============================================================================
