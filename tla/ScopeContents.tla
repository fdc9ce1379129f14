---------------------------- MODULE ScopeContents -----------------------------
(***************************************************************************)
(* The contents of the scopes an organization publishes to: the versions   *)
(* of each resource, the revision of a scope, and the conflict rule of     *)
(* publishing. Operators only; Publication and PublishTx give them state.  *)
(***************************************************************************)
EXTENDS Integers, Sequences, FiniteSets

CONSTANTS
  Scopes,  \* the places content lives in, by their position in sorted scope keys
  Names,   \* the resources (kind/name) of a scope, in the order of normalizeOps
  NoRev,   \* the empty string: a scope that has no revision yet
  None     \* no entry: an absent key of a JSON object, a lock not taken

ASSUME ScopesAssumption == Scopes \subseteq Nat /\ IsFiniteSet(Scopes)
ASSUME NamesAssumption == Names \subseteq Nat /\ IsFiniteSet(Names)

-------------------------------------------------------------------------------

Key == Scopes \X Names

\* scopeRevision hashes kind/name@version:deleted of every resource of a scope.
\* A version is never rewritten, so the numbers alone stand for the hash.
Revision == [Names -> Nat]

Rev == {NoRev} \cup Revision

ASSUME NoneAssumption == NoRev # None /\ {NoRev, None} \cap Revision = {}

ScopeRevision(vs, s) == [n \in Names |-> Len(vs[<<s, n>>])]

\* An operation: delete or put, and the version it expects to replace (-1: any).
Op == [del: BOOLEAN, expect: Nat \cup {-1}]

\* A changeset's operations, its base revisions, a release's items and revisions.
OpTable == [Key -> {None} \cup Op]
RevTable == [Scopes -> {None} \cup Rev]
ItemTable == [Key -> Nat]  \* 0: not in the release

Present(table) == {x \in DOMAIN table : table[x] # None}

CurrentVersion(vs, k) == Len(vs[k])

Deleted(vs, k) == vs[k] # <<>> /\ vs[k][Len(vs[k])]

-------------------------------------------------------------------------------

\* The releases that cover scope s: with s in their revisions.
Covering(rels, s) == {i \in DOMAIN rels : rels[i].revs[s] # None}

\* The published_at of the release that gave scope s the revision rev: with several,
\* the latest; without one, or with no revision, the beginning of time.
PublishedAt(rels, s, rev) ==
  LET ats == {rels[i].at : i \in {j \in Covering(rels, s) : rels[j].revs[s] = rev}}
  IN IF rev = NoRev \/ ats = {} THEN 0 ELSE CHOOSE t \in ats : \A u \in ats : u <= t

\* keysChangedSince: the resources of s that releases stamped later have touched
KeysChangedSince(rels, s, rev) ==
  LET later == {i \in Covering(rels, s) : rels[i].at > PublishedAt(rels, s, rev)}
  IN {k \in Key : k[1] = s /\ \E i \in later : rels[i].items[k] # 0}

\* Mutant: a scope that had no revision is not compared.
OverlapOfOld(rels, ops, base, current) ==
  {k \in Present(ops) : /\ base[k[1]] \notin {None, NoRev}
                        /\ current[k[1]] # base[k[1]]
                        /\ k \in KeysChangedSince(rels, k[1], base[k[1]])}

\* The operations on resources touched since the base revisions, in those scopes
\* that have a base revision and have moved on from it.
Overlap(rels, ops, base, current) ==
  {k \in Present(ops) : /\ base[k[1]] # None
                        /\ current[k[1]] # base[k[1]]
                        /\ k \in KeysChangedSince(rels, k[1], base[k[1]])}

\* An operation the contents accept: the version it expects is the current one,
\* and what it deletes is there.
Accepts(vs, k, op) ==
  /\ op.expect \in {-1, CurrentVersion(vs, k)}
  /\ op.del => CurrentVersion(vs, k) # 0 /\ ~Deleted(vs, k)

\* The contents after the operations: one more version of each resource.
Apply(vs, ops) ==
  [k \in Key |-> IF ops[k] = None THEN vs[k] ELSE Append(vs[k], ops[k].del)]

===============================================================================
