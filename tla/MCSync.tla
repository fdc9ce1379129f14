-------------------------------- MODULE MCSync --------------------------------
(* Values for the constants of Resolve and Sync. *)
EXTENDS Sync, TLC

CONSTANTS o1, p1, q1, o2, t2, a, b, g, h, x, y, z

\* Name 1 at the organization and in two projects, name 2 at the organization and
\* in a team whose projects the binding does not have.
MCRes == {o1, p1, q1, o2, t2}
MCNameOf == o1 :> 1 @@ p1 :> 1 @@ q1 :> 1 @@ o2 :> 2 @@ t2 :> 2
MCLevelOf == o1 :> 1 @@ p1 :> 3 @@ q1 :> 3 @@ o2 :> 1 @@ t2 :> 2
MCHomesOf == o1 :> {} @@ p1 :> {a} @@ q1 :> {b} @@ o2 :> {} @@ t2 :> {}

First(sum) == [version |-> 1, sum |-> sum]
MCFirstItems == o1 :> First(x) @@ p1 :> First(y) @@ q1 :> None @@ o2 :> None @@ t2 :> None
MCFirstWay == o1 :> "level" @@ p1 :> "level" @@ q1 :> "level" @@ o2 :> "level" @@ t2 :> g

MCReleases == {<<p1, Tombstone>>, <<q1, x>>, <<o2, y>>, <<t2, z>>}
MCRegroups == {<<o2, g>>, <<o1, "direct">>, <<o1, h>>}

===============================================================================
