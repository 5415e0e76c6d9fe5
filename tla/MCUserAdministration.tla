------------------------ MODULE MCUserAdministration ------------------------
(* Small instances of UserAdministration for TLC. *)
EXTENDS UserAdministration, TLC

Symmetry == Permutations(Requests) \cup Permutations(Founders)
=============================================================================
