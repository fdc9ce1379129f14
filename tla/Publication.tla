----------------------------- MODULE Publication ------------------------------
(***************************************************************************)
(* What publishing promises, apart from how it is done: releases are made  *)
(* one after another, each whole. A release adds the next version of every *)
(* resource it touches, and it is refused if a resource it touches was     *)
(* published since the base revisions of its changeset.                    *)
(***************************************************************************)
EXTENDS ScopeContents

VARIABLES
  versions,  \* bundle_versions: for each resource, the deleted flag of each version
  releases   \* releases, in the order they were committed

-------------------------------------------------------------------------------

\* The revision the last release that covers s gave it.
LastRevision(rels, s) ==
  IF Covering(rels, s) = {}
    THEN NoRev
    ELSE rels[CHOOSE i \in Covering(rels, s) : \A j \in Covering(rels, s) : j <= i].revs[s]

Init ==
  /\ versions = [k \in Key |-> <<>>]
  /\ releases = <<>>

\* One more release at the end, and its operations in the contents.
Publish ==
  /\ Len(releases') = Len(releases) + 1
  /\ \A i \in DOMAIN releases : releases'[i] = releases[i]
  /\ LET r == releases'[Len(releases')]
         current == [s \in Scopes |-> LastRevision(releases, s)]
     IN /\ Overlap(releases, r.ops, r.base, current) = {}
        /\ \A k \in Present(r.ops) : Accepts(versions, k, r.ops[k])
        /\ r.items = [k \in Key |-> IF r.ops[k] = None THEN 0 ELSE CurrentVersion(versions, k) + 1]
        /\ versions' = Apply(versions, r.ops)

Next == Publish

Spec == Init /\ [][Next]_<<versions, releases>>

===============================================================================
