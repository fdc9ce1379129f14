---------------------------- MODULE MCIdempotency -----------------------------
(* Values for the constants of Idempotency. *)
EXTENDS Idempotency, TLC

Symmetry == Permutations(Attempts) \cup Permutations(Bodies) \cup Permutations(Answers)

===============================================================================
