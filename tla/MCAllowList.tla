---------------------------- MODULE MCAllowList ----------------------------
(* AllowList with model values that TLC may permute. *)
EXTENDS AllowList, TLC

MCSymmetry == Permutations(Node) \cup Permutations(Worker)
============================================================================
