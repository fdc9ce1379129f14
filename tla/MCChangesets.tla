----------------------------- MODULE MCChangesets -----------------------------
(* Values for the constants of Changesets. *)
EXTENDS Changesets, TLC

CONSTANTS au, ra, rb, rule, note

MCUsers == {au, ra, rb}
MCOps == {rule, note}
MCDrafts == {{}, {rule}, {note}}
MCFullDrafts == MCDrafts \ {{}}
MCLearning == {note}
MCMayDecide == MCUsers \X MCOps
MCMayPublish == {rb} \X MCOps
MCMayContribute == {au} \X MCLearning
Symmetry == Permutations(Requests)

===============================================================================
