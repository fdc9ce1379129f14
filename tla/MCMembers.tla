------------------------------ MODULE MCMembers -------------------------------
(* Values for TLC. *)
EXTENDS Members, TLC

CONSTANTS o1, o2, n1, r1, r2

Map(target, role, priority) == [group |-> "g", target |-> target, role |-> role, priority |-> priority]

\* No mapping; owners made members; a new member and an administrator of a team;
\* mappings of one priority that disagree, listed both ways, with an unknown team that
\* has a priority below zero.
MCTables ==
  {<<Map("org", "member", 0)>>,
   <<Map("org", "admin", 1), Map("team", "admin", 0), Map("org", "viewer", 0)>>,
   <<Map("team", "member", 0), Map("org", "member", 0), Map("org", "owner", 0), Map("ghost", "member", -1), Map("team", "admin", 0)>>,
   <<Map("team", "admin", 0), Map("org", "owner", 0), Map("org", "member", 0), Map("team", "member", 0)>>}

MCSymmetry == Permutations({o1, o2}) \cup Permutations({r1, r2})
===============================================================================
