------------------------------ MODULE MCBindings ------------------------------
(* Symmetry for Bindings. *)
EXTENDS Bindings, TLC

Symmetry == Permutations(Users \ Admins) \cup Permutations(Projects) \cup Permutations(Requests)

===============================================================================
