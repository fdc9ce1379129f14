------------------------------- MODULE Resolve --------------------------------
(***************************************************************************)
(* Which of the published resources a binding gets, and in what version:   *)
(* internal/resources. Operators only; Sync gives them a server to read    *)
(* from and a client to write the result to.                               *)
(***************************************************************************)
EXTENDS Integers, FiniteSets

CONSTANTS
  Res,       \* the resources (bundles): a kind and name at one level
  Names,     \* their kinds and names, in the order the client writes files
  NameOf,    \* the kind and name of each resource
  LevelOf,   \* 1: of the organization, 2: of a team, 3: of a project
  HomesOf,   \* the projects whose bindings have the resource in scope
  Projects,  \* what bindings may name
  Groups,    \* permission groups
  MyGroups,  \* those handed out to the user of the binding
  Sums,      \* checksums of contents
  Tombstone, \* the checksum of a deletion
  None       \* no version, no file

ASSUME NamesAssumption == Names \subseteq Nat /\ NameOf \in [Res -> Names]
ASSUME LevelAssumption == LevelOf \in [Res -> 1..3] /\ HomesOf \in [Res -> SUBSET Projects]
ASSUME GroupsAssumption == MyGroups \subseteq Groups /\ {"level", "direct"} \cap Groups = {}
ASSUME NoneAssumption == None \notin Sums \cup {Tombstone} \cup Names /\ Tombstone \notin Sums

-------------------------------------------------------------------------------

\* The current version of a resource; a deletion is a version too.
Item == [version: Nat, sum: Sums \cup {Tombstone}]
Items == [Res -> {None} \cup Item]

\* How a resource is handed out: at its level, through a permission group (and
\* then no longer at its level), or to the user directly as well as at its level.
Way == {"level", "direct"} \cup Groups

Candidate == [res: Res, via: Way, item: Item]

\* An entry for each name: none, the one that counts, or all that conflict.
Entries == [Names -> SUBSET Candidate]

InScope(r, projects) == LevelOf[r] = 1 \/ HomesOf[r] \cap projects # {}

\* A granted resource is the least specific, whatever its level.
Rank(c) == IF c.via = "level" THEN LevelOf[c.res] ELSE 0

\* The candidates of the levels: what belongs to a group is handed out by groups only.
ByLevel(items, way, projects) ==
  {[res |-> r, via |-> "level", item |-> items[r]] :
     r \in {x \in Res : items[x] # None /\ way[x] \notin Groups /\ InScope(x, projects)}}

\* ResolveGrants: deleted resources and those of other projects are not granted.
ByGrant(items, way, projects) ==
  {[res |-> r, via |-> way[r], item |-> items[r]] :
     r \in {x \in Res : /\ way[x] \in MyGroups \cup {"direct"}
                        /\ items[x] # None
                        /\ items[x].sum # Tombstone
                        /\ LevelOf[x] = 3 => InScope(x, projects)}}

\* Mutant: a tombstone does not shield what is above it.
TopUnshielded(cs) ==
  LET live == {c \in cs : c.item.sum # Tombstone}
  IN {c \in live : \A d \in live : Rank(d) <= Rank(c)}

Top(cs) == {c \in cs : \A d \in cs : Rank(d) <= Rank(c)}

\* pickOne, as the set of its possible results: the most specific; several that
\* differ conflict, several that do not are listed in no particular order, and a
\* deletion hides the rest.
PickOne(cs) ==
  LET top == Top(cs)
      sums == {c.item.sum : c \in top}
  IN CASE Cardinality(sums) > 1 -> {top}
       [] sums \in {{}, {Tombstone}} -> {{}}
       [] OTHER -> {{c} : c \in top}

\* Resolve, as the set of its possible results
Resolutions(cs) ==
  LET picks == [n \in Names |-> PickOne({c \in cs : NameOf[c.res] = n})]
  IN {e \in [Names -> UNION {picks[n] : n \in Names}] : \A n \in Names : e[n] \in picks[n]}

\* RenderWith: an entry that conflicts gives no file
Content(entries, n) ==
  IF Cardinality(entries[n]) = 1 THEN (CHOOSE c \in entries[n] : TRUE).item.sum ELSE None

===============================================================================
