--------------------------- MODULE MCAdminServer ---------------------------
(* AdminServer with model values that TLC may permute. *)
EXTENDS AdminServer, TLC

MCSymmetry == Permutations(Node) \cup Permutations(Worker)
              \cup Permutations(Invite) \cup Permutations(Secret)
============================================================================
