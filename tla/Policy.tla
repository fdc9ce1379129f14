-------------------------------- MODULE Policy --------------------------------
(***************************************************************************)
(* The policy of a binding (internal/resources/resolve.go): every group,   *)
(* the organization, teams and projects may publish one, and Resolve       *)
(* merges them from the widest to the most specific. The allowed commands  *)
(* and the allowed hosts are merged alike, and so are the two autoApply    *)
(* flags, and the three fields a lower level may override: one of each     *)
(* stands for all.                                                         *)
(***************************************************************************)
EXTENDS Integers

CONSTANTS
  Rules,     \* names of enforced rules
  Commands,  \* entries of an allow list
  Depth,     \* a number: how many policy resources the binding has in scope
  NoPolicy   \* nothing published there

VARIABLE policies  \* the policy published in each of these places

-------------------------------------------------------------------------------

\* What the binding has a policy resource from, by rank: permission groups, the
\* organization, teams, projects. Those of one rank stay in the order of the query
\* that lists candidates, which is none in particular.
Places == 1..Depth

\* Of the fields, an empty list of commands means any command.
Policies == [enforced: SUBSET Rules, commands: SUBSET Commands, auto: BOOLEAN, scripts: BOOLEAN, recall: BOOLEAN]

DefaultPolicy == [enforced |-> {}, commands |-> {}, auto |-> TRUE, scripts |-> FALSE, recall |-> FALSE]

\* narrow: an empty list above restricts nothing, an empty list below restricts no further.
Narrow(upper, lower) ==
  IF upper = {} THEN lower ELSE IF lower = {} THEN upper ELSE upper \cap lower

MergePolicy(upper, lower) ==
  [enforced |-> upper.enforced \cup lower.enforced,
   commands |-> Narrow(upper.commands, lower.commands),
   auto     |-> upper.auto /\ lower.auto,
   scripts  |-> upper.scripts \/ lower.scripts,
   recall   |-> lower.recall]

\* Resolve: the policies of the first n places, merged
Merged[n \in 0..Depth] ==
  IF n = 0 THEN DefaultPolicy
  ELSE IF policies[n] = NoPolicy THEN Merged[n - 1]
  ELSE MergePolicy(Merged[n - 1], policies[n])

PolicyInit == policies = [p \in Places |-> NoPolicy]

\* A changeset publishes a policy at a place, or deletes it.
PublishPolicy(p, policy) == policies' = [policies EXCEPT ![p] = policy]
DeletePolicy(p) == policies[p] # NoPolicy /\ policies' = [policies EXCEPT ![p] = NoPolicy]

PolicyNext == \E p \in Places : DeletePolicy(p) \/ \E policy \in Policies : PublishPolicy(p, policy)

PolicySpec == PolicyInit /\ [][PolicyNext]_policies

-------------------------------------------------------------------------------
(* Properties *)

\* What MergePolicy's comments say: the merged policy is at least as strict as that
\* of every level, so what a level's list does not allow is not allowed by the merge.
MergeIsStrictest ==
  \A p \in Places :
    policies[p] # NoPolicy =>
      LET policy == policies[p]
          merged == Merged[Depth]
      IN /\ policy.enforced \subseteq merged.enforced
         /\ merged.auto => policy.auto
         /\ policy.scripts => merged.scripts
         /\ policy.commands # {} => merged.commands \subseteq policy.commands

\* The first n places that have a policy, and those that have a list
Published(n) == {p \in 1..n : policies[p] # NoPolicy}
Listing(n) == {p \in Published(n) : policies[p].commands # {}}

\* What all the lists of the first n places allow
Common(n) == {c \in Commands : \A p \in Listing(n) : c \in policies[p].commands}

\* The merge is what all places agree on, so their order has no part in it (but for
\* the fields that a later place overrides), as long as the lists have an entry in
\* common: then it allows exactly what all of them allow.
MergeIsWhatAllAllow ==
  LET merged == Merged[Depth]
  IN /\ merged.enforced = UNION {policies[p].enforced : p \in Published(Depth)}
     /\ merged.auto <=> \A p \in Published(Depth) : policies[p].auto
     /\ merged.scripts <=> \E p \in Published(Depth) : policies[p].scripts
     /\ Listing(Depth) = {} => merged.commands = {}
     /\ Listing(Depth) # {} /\ Common(Depth) # {} => merged.commands = Common(Depth)

\* A list that has nothing in common with what the wider places have left
Disjoint(p) ==
  /\ p \in Listing(Depth) /\ Merged[p - 1].commands # {}
  /\ policies[p].commands \cap Merged[p - 1].commands = {}

\* When they have none, a list still binds whatever is merged after it, until a
\* list comes that is disjoint from what is left: that one forgets all before it,
\* and itself.
ListsBindUntilDisjoint ==
  \A p \in Listing(Depth) :
    \/ Merged[Depth].commands # {} /\ Merged[Depth].commands \subseteq policies[p].commands
    \/ \E n \in p..Depth : Disjoint(n)

===============================================================================
