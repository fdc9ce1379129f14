------------------------------ MODULE MCPublishTx -----------------------------
(* Values for the constants of PublishTx. *)
EXTENDS PublishTx, TLC

Put == [del |-> FALSE, expect |-> -1]
PutFirst == [del |-> FALSE, expect |-> 0]
Delete == [del |-> TRUE, expect |-> -1]

Draft(f) == f @@ [k \in Key |-> None]

\* One scope or two, one resource or two, with the operations that tell them apart.
MCDrafts == {Draft(<<1, 1>> :> Put @@ <<2, 1>> :> Put),
             Draft(<<1, 1>> :> Put), Draft(<<1, 2>> :> PutFirst), Draft(<<2, 1>> :> Put),
             Draft(<<1, 1>> :> Delete)}

\* Fewer of them, for the runs that give up symmetry.
MCFewDrafts == {Draft(<<1, 1>> :> Put @@ <<2, 1>> :> Put), Draft(<<2, 1>> :> Put)}

Symmetry == Permutations(Publishers) \cup Permutations(Changesets)

===============================================================================
