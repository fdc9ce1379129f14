-------------------------------- MODULE MCPush --------------------------------
(* Values for TLC. *)
EXTENDS Push, TLC

CONSTANTS c1, c2, a, b, d1, d2, l

MCBound == (a :> 2) @@ (b :> 3) @@ (l :> 2)

MCSymmetry == Permutations({c1, c2}) \cup Permutations({d1, d2})
===============================================================================
