------------------------------- MODULE MCPolicy -------------------------------
(* Values for TLC. *)
EXTENDS Policy, TLC

CONSTANTS a, b, r

Symmetry == Permutations({a, b})
===============================================================================
