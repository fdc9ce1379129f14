--------------------------- MODULE PublishTxProofs ----------------------------
(***************************************************************************)
(* Proofs about PublishTx, for any number of publishers, changesets and    *)
(* edits and any finite sets of scopes and names: what is read and checked *)
(* under locks still holds when the transaction commits, so a publication  *)
(* amounts to one step of Publication; heads tell what scopes hold;        *)
(* updates are lost in two ways only; publishers never deadlock.           *)
(***************************************************************************)
EXTENDS PublishTx, FiniteSetTheorems, TLAPS

-------------------------------------------------------------------------------
(* The inductive invariant *)

\* What a step has done and what it has not begun, told from the request alone
StepInv(t) ==
  /\ t.step # "idle" => t.cs \in Changesets
  /\ t.step \in {"idle", "ops", "row"} => \A s \in Scopes : t.heads[s] = None
  /\ t.step \notin {"write", "revise", "commit"} => \A k \in Key : t.items[k] = 0
  /\ \A s \in Scopes : t.base[s] = None => t.heads[s] = None
  /\ t.step \in {"check", "write", "revise", "commit"} =>
       \A s \in Scopes : t.heads[s] = None => t.base[s] = None
  /\ \A k \in Key : t.items[k] # 0 => t.ops[k] # None
  /\ t.step \in {"revise", "commit"} => \A k \in Key : t.items[k] = 0 => t.ops[k] = None

\* Its timestamp has been read from the clock.
TimeBy(t, now) == t.step \notin {"idle", "ops"} => t.at < now
TimeInv(t) == TimeBy(t, clock)

\* Locks are taken in sorted order: whatever is held comes before whatever is left.
OrderInv(t) ==
  /\ \A s, u \in Scopes :
       t.heads[s] # None /\ t.heads[u] = None /\ t.base[u] # None => s < u
  /\ \A k, l \in Key :
       t.items[k] # 0 /\ t.items[l] = 0 /\ t.ops[l] # None => Before(k, l) /\ k # l

\* What was read under a lock is still so, while the lock is held.
ReadInv(t) ==
  /\ \A s \in Scopes : t.heads[s] # None => t.heads[s] = heads[s]
  /\ \A k \in Key : t.items[k] # 0 => /\ t.items[k] = CurrentVersion(versions, k) + 1
                                      /\ Accepts(versions, k, t.ops[k])
  /\ t.step \in {"write", "revise", "commit"} =>
       Overlap(releases, t.ops, t.base, t.heads) = {}

\* No release wrote to scope s without having it in its base.
Declared(s) == \A i \in DOMAIN releases : \A n \in Names : ~Undeclared(i, <<s, n>>)

\* The revisions a request is about to commit: beyond the head and beyond what the
\* request wrote, within what the scope will hold, and exactly that if it is Declared.
RevisedInv(t) ==
  t.step = "commit" => \A s \in Scopes :
    /\ t.heads[s] = None <=> t.revs[s] = None
    /\ t.revs[s] # None =>
         /\ t.revs[s] \in Revision
         /\ \A n \in Names :
              /\ t.revs[s][n] >= t.items[<<s, n>>]
              /\ heads[s] # NoRev => t.revs[s][n] >= heads[s][n]
              /\ t.revs[s][n] <= Len(Apply(versions, t.ops)[<<s, n>>])
         /\ Declared(s) => t.revs[s] = ScopeRevision(Apply(versions, t.ops), s)

TxInv == \A p \in Publishers :
  StepInv(tx[p]) /\ TimeInv(tx[p]) /\ OrderInv(tx[p]) /\ ReadInv(tx[p]) /\ RevisedInv(tx[p])

\* No head and no bundle is locked twice.
LockInv == \A p, q \in Publishers : p # q =>
  /\ \A s \in Scopes : tx[p].heads[s] = None \/ tx[q].heads[s] = None
  /\ \A k \in Key : tx[p].items[k] = 0 \/ tx[q].items[k] = 0

\* A committed release, against the contents and the clock
ReleaseInv == \A i \in DOMAIN releases :
  /\ releases[i].at < clock
  /\ \A s \in Scopes : /\ releases[i].base[s] = None <=> releases[i].revs[s] = None
                       /\ releases[i].revs[s] # NoRev
  /\ \A k \in Key : /\ releases[i].items[k] = 0 <=> releases[i].ops[k] = None
                    /\ releases[i].items[k] <= Len(versions[k])

\* The revision of scope s is the one its last release gave it.
LastInv(s) ==
  \/ Covering(releases, s) = {} /\ heads[s] = NoRev
  \/ \E i \in Covering(releases, s) :
       /\ \A j \in Covering(releases, s) : j <= i
       /\ heads[s] = releases[i].revs[s]

\* It tells no version that is not there, and every version that a release covering
\* the scope made in it; and it tells all of them if every release had it in its base.
HeadInv(s) ==
  /\ LastInv(s)
  /\ heads[s] # NoRev => \A n \in Names :
       /\ heads[s][n] <= Len(versions[<<s, n>>])
       /\ \A i \in Covering(releases, s) : heads[s][n] >= releases[i].items[<<s, n>>]
  /\ heads[s] # NoRev /\ Declared(s) => heads[s] = ScopeRevision(versions, s)

HeadsInv == \A s \in Scopes : HeadInv(s)

IInv == TypeOK /\ TxInv /\ LockInv /\ ReleaseInv /\ HeadsInv

-------------------------------------------------------------------------------
(* Lemmas: least and greatest elements *)

\* A relation without cycles has a maximal element in a finite set.
LEMMA FiniteMaximal ==
  ASSUME NEW S, IsFiniteSet(S), S # {},
         NEW R,
         \A x, y, z \in S : <<x, y>> \in R /\ <<y, z>> \in R => <<x, z>> \in R,
         \A x \in S : <<x, x>> \notin R
  PROVE  \E x \in S : \A y \in S : <<x, y>> \notin R
<1>. DEFINE Above(x) == {y \in S : <<x, y>> \in R}
            T == {Above(x) : x \in S}
<1>1. T \subseteq FiniteSubsetsOf(S) /\ T # {}
  <2>1. \A x \in S : Above(x) \in SUBSET S /\ IsFiniteSet(Above(x))
    BY FS_Subset
  <2>2. \A x \in S : Above(x) \in FiniteSubsetsOf(S)
    <3>. HIDE DEF Above
    <3>. QED BY <2>1 DEF FiniteSubsetsOf
  <2>. HIDE DEF Above
  <2>. QED BY <2>2
<1>2. \E A \in T : \A B \in T : <<B, A>> \notin StrictSubsetOrdering(S)
  <2>. HIDE DEF T
  <2>. QED BY <1>1, FS_StrictSubsetOrderingWellFounded, WFMin
<1>3. PICK x \in S : \A B \in T : <<B, Above(x)>> \notin StrictSubsetOrdering(S)
  BY <1>2
<1>4. ASSUME NEW y \in S, <<x, y>> \in R
      PROVE  FALSE
  <2>1. Above(y) \subseteq Above(x) /\ y \in Above(x) /\ y \notin Above(y)
    BY <1>4
  <2>2. Above(y) \in T
    OBVIOUS
  <2>. QED BY <2>1, <2>2, <1>3 DEF StrictSubsetOrdering
<1>. QED BY <1>4

\* Every set of naturals has a least element, every bounded one a greatest.
LEMMA LeastNat ==
  ASSUME NEW S \in SUBSET Nat, S # {}
  PROVE  \E m \in S : \A n \in S : m <= n
<1>1. PICK b \in S : TRUE
  OBVIOUS
<1>. DEFINE B == {n \in S : n <= b}
            R == {e \in Nat \X Nat : e[2] < e[1]}
<1>2. B # {} /\ B \in SUBSET Nat /\ \A n \in B : n <= b
  <2>. HIDE DEF R
  <2>1. b \in Nat /\ b \in B
    BY <1>1
  <2>. QED BY <2>1
<1>3. IsFiniteSet(B)
  <2>. HIDE DEF B
  <2>. QED BY <1>1, <1>2, FS_BoundedSetOfNaturals
<1>4. \A x, y \in Nat : <<x, y>> \in R <=> y < x
  OBVIOUS
<1>5. PICK m \in B : \A n \in B : <<m, n>> \notin R
  <2>. HIDE DEF R
  <2>1. \A x, y, z \in B : <<x, y>> \in R /\ <<y, z>> \in R => <<x, z>> \in R
    BY <1>2, <1>4
  <2>2. \A x \in B : <<x, x>> \notin R
    BY <1>2, <1>4
  <2>. HIDE DEF B
  <2>. QED BY <1>2, <1>3, <2>1, <2>2, FiniteMaximal
<1>6. \A n \in B : m <= n
  <2>. HIDE DEF B, R
  <2>1. ASSUME NEW n \in B PROVE m <= n
    <3>1. m \in Nat /\ n \in Nat /\ <<m, n>> \notin R
      BY <1>2, <1>5
    <3>2. ~(n < m)
      BY <3>1, <1>4
    <3>. QED BY <3>1, <3>2
  <2>. QED BY <2>1
<1>. QED BY <1>1, <1>6

LEMMA GreatestNat ==
  ASSUME NEW S \in SUBSET Nat, S # {}, NEW b \in Nat, \A n \in S : n <= b
  PROVE  \E m \in S : \A n \in S : n <= m
<1>. DEFINE D == {d \in Nat : \E n \in S : d = b - n}
<1>0. \A n \in S : n \in Nat /\ b - n \in Nat /\ b - n \in D
  OBVIOUS
<1>1. D \in SUBSET Nat /\ D # {}
  BY <1>0
<1>2. PICK d \in D : \A e \in D : d <= e
  <2>. HIDE DEF D
  <2>. QED BY <1>1, LeastNat
<1>3. PICK m \in S : d = b - m
  BY <1>2
<1>4. ASSUME NEW n \in S PROVE n <= m
  <2>1. d <= b - n
    BY <1>0, <1>2
  <2>. QED BY <1>0, <1>3, <2>1
<1>. QED BY <1>4

LEMMA LeastIs ==
  ASSUME NEW S \in SUBSET Nat, S # {}
  PROVE  Least(S) \in S /\ \A n \in S : Least(S) <= n
BY LeastNat DEF Least

LEMMA KeyParts ==
  ASSUME NEW k \in Key
  PROVE  k[1] \in Scopes /\ k[2] \in Names /\ k = <<k[1], k[2]>> /\ k[1] \in Nat /\ k[2] \in Nat
<1>1. PICK s \in Scopes, n \in Names : k = <<s, n>>
  BY DEF Key
<1>2. k[1] = s /\ k[2] = n
  BY <1>1
<1>. QED BY <1>1, <1>2, ScopesAssumption, NamesAssumption

\* The least scope of the keys, and the least name there.
LEMMA FirstKeyIs ==
  ASSUME NEW S \in SUBSET Key, S # {}
  PROVE  FirstKey(S) \in S /\ \A l \in S : Before(FirstKey(S), l)
<1>. DEFINE A == {n \in Nat : \E k \in S : n = k[1]}
<1>1. A \in SUBSET Nat /\ A # {}
  BY KeyParts
<1>2. PICK s \in A : \A a \in A : s <= a
  <2>. HIDE DEF A
  <2>. QED BY <1>1, LeastNat
<1>. DEFINE B == {n \in Nat : \E k \in S : k[1] = s /\ n = k[2]}
<1>3. B \in SUBSET Nat /\ B # {}
  BY <1>2, KeyParts
<1>4. PICK n \in B : \A b \in B : n <= b
  <2>. HIDE DEF B
  <2>. QED BY <1>3, LeastNat
<1>5. PICK k \in S : k[1] = s /\ k[2] = n
  BY <1>4
<1>6. ASSUME NEW l \in S PROVE Before(k, l)
  <2>1. l[1] \in A /\ l[1] \in Nat /\ l[2] \in Nat /\ s \in Nat /\ n \in Nat
    BY KeyParts
  <2>2. s <= l[1]
    BY <1>2, <2>1
  <2>3. l[1] = s => l[2] \in B
    BY <2>1
  <2>4. l[1] = s => n <= l[2]
    BY <1>4, <2>3
  <2>. QED BY <1>5, <2>1, <2>2, <2>4 DEF Before
<1>. QED BY <1>6 DEF FirstKey

\* Two keys that come before each other are the same key.
LEMMA BeforeAntisymmetric ==
  ASSUME NEW k \in Key, NEW l \in Key, Before(k, l), Before(l, k)
  PROVE  k = l
BY KeyParts DEF Before

-------------------------------------------------------------------------------
(* Lemmas: one more release *)

LEMMA AppendIs ==
  ASSUME NEW T, NEW q \in Seq(T), NEW r \in T
  PROVE  /\ Append(q, r) \in Seq(T)
         /\ Len(q) \in Nat
         /\ DOMAIN q = 1 .. Len(q)
         /\ Len(Append(q, r)) = Len(q) + 1
         /\ DOMAIN Append(q, r) = DOMAIN q \cup {Len(q) + 1}
         /\ Len(q) + 1 \notin DOMAIN q
         /\ \A i \in DOMAIN q : i \in Nat /\ i <= Len(q) /\ Append(q, r)[i] = q[i]
         /\ Append(q, r)[Len(q) + 1] = r
OBVIOUS

\* The new release covers the scopes in its revisions; elsewhere nothing changes.
LEMMA CoveringAppend ==
  ASSUME NEW rels \in Seq(Release), NEW r \in Release, NEW s \in Scopes
  PROVE  /\ Covering(rels, s) \subseteq DOMAIN rels
         /\ r.revs[s] = None => Covering(Append(rels, r), s) = Covering(rels, s)
         /\ r.revs[s] # None =>
              Covering(Append(rels, r), s) = Covering(rels, s) \cup {Len(rels) + 1}
<1>. DEFINE q == Append(rels, r)
<1>1. /\ DOMAIN q = DOMAIN rels \cup {Len(rels) + 1}
      /\ \A i \in DOMAIN rels : q[i] = rels[i]
      /\ q[Len(rels) + 1] = r
  BY AppendIs
<1>. HIDE DEF q
<1>2. \A i : i \in Covering(rels, s) <=> i \in DOMAIN rels /\ rels[i].revs[s] # None
  BY DEF Covering
<1>3. \A i : i \in Covering(q, s) <=> i \in DOMAIN q /\ q[i].revs[s] # None
  BY DEF Covering
<1>4. \A i : i \in Covering(q, s) <=>
         \/ i \in Covering(rels, s)
         \/ i = Len(rels) + 1 /\ r.revs[s] # None
  BY <1>1, <1>2, <1>3
<1>. QED BY <1>2, <1>4 DEF q

\* PublishedAt is the time of a release that gave the scope that revision, and no
\* such release has a later one.
LEMMA PublishedAtIs ==
  ASSUME NEW rels \in Seq(Release), NEW s \in Scopes, NEW rev, NEW b \in Nat,
         \A i \in DOMAIN rels : rels[i].at < b
  PROVE  /\ PublishedAt(rels, s, rev) \in Nat
         /\ rev # NoRev => \A i \in Covering(rels, s) :
              rels[i].revs[s] = rev => rels[i].at <= PublishedAt(rels, s, rev)
         /\ \/ PublishedAt(rels, s, rev) = 0
            \/ rev # NoRev /\ \E i \in Covering(rels, s) :
                 rels[i].revs[s] = rev /\ rels[i].at = PublishedAt(rels, s, rev)
<1>. DEFINE ats == {rels[i].at : i \in {j \in Covering(rels, s) : rels[j].revs[s] = rev}}
            t == CHOOSE u \in ats : \A w \in ats : w <= u
<1>1. PublishedAt(rels, s, rev) = IF rev = NoRev \/ ats = {} THEN 0 ELSE t
  BY DEF PublishedAt
<1>2. \A i \in Covering(rels, s) : rels[i].at \in Nat /\ rels[i].at <= b
  <2>1. \A i \in DOMAIN rels : rels[i] \in Release
    OBVIOUS
  <2>2. \A i \in DOMAIN rels : rels[i].at \in Nat
    BY <2>1 DEF Release
  <2>3. Covering(rels, s) \subseteq DOMAIN rels
    BY DEF Covering
  <2>. QED BY <2>2, <2>3
<1>3. ats \in SUBSET Nat /\ \A u \in ats : u <= b
  BY <1>2
<1>4. CASE rev = NoRev \/ ats = {}
  <2>1. PublishedAt(rels, s, rev) = 0
    BY <1>1, <1>4
  <2>2. \A i \in Covering(rels, s) : rels[i].revs[s] = rev => rels[i].at \in ats
    OBVIOUS
  <2>. HIDE DEF ats
  <2>. QED BY <1>4, <2>1, <2>2
<1>5. CASE rev # NoRev /\ ats # {}
  <2>1. PublishedAt(rels, s, rev) = t
    BY <1>1, <1>5
  <2>2. t \in ats /\ \A w \in ats : w <= t
    <3>. HIDE DEF ats
    <3>1. \E u \in ats : \A w \in ats : w <= u
      BY <1>3, <1>5, GreatestNat
    <3>. QED BY <3>1
  <2>. HIDE DEF t
  <2>3. PICK i \in Covering(rels, s) : rels[i].revs[s] = rev /\ rels[i].at = t
    BY <2>2
  <2>. QED BY <1>2, <1>5, <2>1, <2>2, <2>3
<1>. QED BY <1>4, <1>5

LEMMA PublishedAtGrows ==
  ASSUME NEW rels \in Seq(Release), NEW r \in Release, NEW s \in Scopes, NEW rev,
         NEW b \in Nat, \A i \in DOMAIN rels : rels[i].at < b, r.at < b
  PROVE  /\ PublishedAt(rels, s, rev) <= PublishedAt(Append(rels, r), s, rev)
         /\ r.revs[s] = None =>
              PublishedAt(Append(rels, r), s, rev) = PublishedAt(rels, s, rev)
<1>. DEFINE q == Append(rels, r)
            old == PublishedAt(rels, s, rev)
            new == PublishedAt(q, s, rev)
<1>1. /\ DOMAIN q = DOMAIN rels \cup {Len(rels) + 1}
      /\ \A i \in DOMAIN rels : q[i] = rels[i]
      /\ q[Len(rels) + 1] = r
      /\ q \in Seq(Release)
  BY AppendIs
<1>2. /\ Covering(rels, s) \subseteq DOMAIN rels
      /\ Covering(rels, s) \subseteq Covering(q, s)
      /\ r.revs[s] = None => Covering(q, s) = Covering(rels, s)
  BY CoveringAppend
<1>. HIDE DEF q
<1>3. \A i \in DOMAIN q : q[i].at < b
  BY <1>1
<1>4. /\ old \in Nat
      /\ rev # NoRev => \A i \in Covering(rels, s) :
              rels[i].revs[s] = rev => rels[i].at <= old
      /\ \/ old = 0
         \/ rev # NoRev /\ \E i \in Covering(rels, s) : rels[i].revs[s] = rev /\ rels[i].at = old
  BY PublishedAtIs
<1>5. /\ new \in Nat
      /\ rev # NoRev => \A i \in Covering(q, s) : q[i].revs[s] = rev => q[i].at <= new
      /\ \/ new = 0
         \/ rev # NoRev /\ \E i \in Covering(q, s) : q[i].revs[s] = rev /\ q[i].at = new
  BY <1>1, <1>3, PublishedAtIs
<1>. HIDE DEF old, new
<1>6. old <= new
  BY <1>1, <1>2, <1>4, <1>5
<1>7. ASSUME r.revs[s] = None PROVE new <= old
  BY <1>1, <1>2, <1>4, <1>5, <1>7
<1>. QED BY <1>4, <1>5, <1>6, <1>7 DEF old, new, q

\* A release that does not cover a scope changes none of its keys, whatever it wrote.
LEMMA KeysChangedSame ==
  ASSUME NEW rels \in Seq(Release), NEW r \in Release, NEW s \in Scopes, NEW rev,
         NEW b \in Nat, \A i \in DOMAIN rels : rels[i].at < b, r.at < b,
         r.revs[s] = None
  PROVE  KeysChangedSince(Append(rels, r), s, rev) = KeysChangedSince(rels, s, rev)
<1>. DEFINE q == Append(rels, r)
<1>1. PublishedAt(q, s, rev) = PublishedAt(rels, s, rev)
  BY PublishedAtGrows
<1>2. Covering(q, s) = Covering(rels, s) /\ Covering(rels, s) \subseteq DOMAIN rels
  BY CoveringAppend
<1>3. \A i \in DOMAIN rels : q[i] = rels[i]
  BY AppendIs
<1>. HIDE DEF q
<1>4. \A k : k \in KeysChangedSince(q, s, rev) <=>
        /\ k \in Key
        /\ k[1] = s
        /\ \E i \in Covering(q, s) : q[i].at > PublishedAt(q, s, rev) /\ q[i].items[k] # 0
  BY DEF KeysChangedSince
<1>5. \A k : k \in KeysChangedSince(rels, s, rev) <=>
        /\ k \in Key
        /\ k[1] = s
        /\ \E i \in Covering(rels, s) :
             rels[i].at > PublishedAt(rels, s, rev) /\ rels[i].items[k] # 0
  BY DEF KeysChangedSince
<1>6. \A k : k \in KeysChangedSince(q, s, rev) <=> k \in KeysChangedSince(rels, s, rev)
  BY <1>1, <1>2, <1>3, <1>4, <1>5
<1>. QED BY <1>6 DEF q

-------------------------------------------------------------------------------
(* Lemmas: types *)

LEMMA ApplyIs ==
  ASSUME NEW vs \in [Key -> Seq(BOOLEAN)], NEW ops \in OpTable
  PROVE  /\ Apply(vs, ops) \in [Key -> Seq(BOOLEAN)]
         /\ \A k \in Key :
              /\ Len(vs[k]) \in Nat
              /\ ops[k] = None => Apply(vs, ops)[k] = vs[k]
              /\ ops[k] # None => Len(Apply(vs, ops)[k]) = Len(vs[k]) + 1
              /\ Len(Apply(vs, ops)[k]) \in Nat
<1>1. \A k \in Key : ops[k] # None => ops[k].del \in BOOLEAN
  BY DEF OpTable, Op
<1>2. \A k \in Key : /\ vs[k] \in Seq(BOOLEAN)
                     /\ Apply(vs, ops)[k] = IF ops[k] = None THEN vs[k] ELSE Append(vs[k], ops[k].del)
  BY DEF Apply
<1>3. \A k \in Key : /\ Apply(vs, ops)[k] \in Seq(BOOLEAN)
                     /\ ops[k] = None => Apply(vs, ops)[k] = vs[k]
                     /\ ops[k] # None => Len(Apply(vs, ops)[k]) = Len(vs[k]) + 1
  <2>1. ASSUME NEW k \in Key, ops[k] # None
        PROVE  /\ Append(vs[k], ops[k].del) \in Seq(BOOLEAN)
               /\ Len(Append(vs[k], ops[k].del)) = Len(vs[k]) + 1
    <3>. DEFINE T == BOOLEAN
                q == vs[k]
                d == ops[k].del
    <3>1. q \in Seq(T) /\ d \in T
      BY <1>1, <1>2, <2>1
    <3>. HIDE DEF T, q, d
    <3>2. Append(q, d) \in Seq(T) /\ Len(Append(q, d)) = Len(q) + 1
      BY <3>1, AppendIs
    <3>. QED BY <3>2 DEF T, q, d
  <2>. QED BY <1>2, <2>1
<1>4. Apply(vs, ops) \in [Key -> Seq(BOOLEAN)]
  BY <1>3 DEF Apply
<1>. QED BY <1>2, <1>3, <1>4

LEMMA ScopeRevisionIs ==
  ASSUME NEW vs \in [Key -> Seq(BOOLEAN)], NEW s \in Scopes
  PROVE  /\ ScopeRevision(vs, s) \in Revision
         /\ \A n \in Names : ScopeRevision(vs, s)[n] = Len(vs[<<s, n>>])
<1>1. \A n \in Names : <<s, n>> \in Key
  BY DEF Key
<1>2. \A n \in Names : Len(vs[<<s, n>>]) \in Nat
  BY <1>1
<1>. QED BY <1>2 DEF ScopeRevision, Revision

LEMMA RevisionIs ==
  /\ NoRev # None
  /\ \A r \in Revision : r # NoRev /\ r # None /\ \A n \in Names : r[n] \in Nat
  /\ \A r \in Rev : r # None /\ (r # NoRev => r \in Revision)
<1>1. NoRev \notin Revision /\ None \notin Revision /\ NoRev # None
  BY NoneAssumption
<1>. QED BY <1>1 DEF Revision, Rev

LEMMA TxIs ==
  ASSUME NEW t \in Tx
  PROVE  /\ t.step \in Steps
         /\ t.cs \in Changesets \cup {NoCs}
         /\ t.base \in RevTable
         /\ t.ops \in OpTable
         /\ t.at \in Nat
         /\ t.heads \in RevTable
         /\ t.items \in [Key -> Nat]
         /\ t.revs \in RevTable
BY DEF Tx, ItemTable

LEMMA NoTxIs ==
  /\ NoTx \in Tx
  /\ NoTx.step = "idle"
  /\ \A s \in Scopes : NoTx.base[s] = None /\ NoTx.heads[s] = None /\ NoTx.revs[s] = None
  /\ \A k \in Key : NoTx.items[k] = 0 /\ NoTx.ops[k] = None
BY DEF NoTx, Tx, RevTable, OpTable, ItemTable, Steps

LEMMA KeyIsPair ==
  ASSUME NEW s \in Scopes, NEW n \in Names
  PROVE  <<s, n>> \in Key /\ <<s, n>>[1] = s /\ <<s, n>>[2] = n
BY DEF Key

-------------------------------------------------------------------------------
(* The invariant is kept by a step that changes one request *)

RequestOK(t) == StepInv(t) /\ TimeInv(t) /\ OrderInv(t) /\ ReadInv(t) /\ RevisedInv(t)

\* The locks of t are not those of another request than p.
NotShared(p, t) == \A q \in Publishers \ {p} :
  /\ \A s \in Scopes : t.heads[s] = None \/ tx[q].heads[s] = None
  /\ \A k \in Key : t.items[k] = 0 \/ tx[q].items[k] = 0

LEMMA RequestKeeps ==
  ASSUME IInv, NEW p \in Publishers, NEW t \in Tx, tx' = [tx EXCEPT ![p] = t],
         UNCHANGED <<versions, releases, heads, cs, edits, late>>,
         clock' \in Nat, clock <= clock',
         StepInv(t), TimeBy(t, clock'), OrderInv(t), ReadInv(t), RevisedInv(t), NotShared(p, t)
  PROVE  IInv'
<1>1. tx'[p] = t /\ \A q \in Publishers \ {p} : tx'[q] = tx[q]
  BY DEF IInv, TypeOK
<1>2. TypeOK'
  BY DEF IInv, TypeOK
<1>3. TxInv'
  <2>1. \A q \in Publishers : StepInv(tx[q])'
    BY <1>1 DEF IInv, TxInv, StepInv
  <2>2. \A q \in Publishers : TimeInv(tx[q])'
    <3>1. \A q \in Publishers : tx[q].at \in Nat
      BY TxIs DEF IInv, TypeOK
    <3>. QED BY <1>1, <3>1 DEF IInv, TxInv, TimeInv, TimeBy, TypeOK
  <2>3. \A q \in Publishers : OrderInv(tx[q])'
    BY <1>1 DEF IInv, TxInv, OrderInv
  <2>4. \A q \in Publishers : ReadInv(tx[q])'
    BY <1>1 DEF IInv, TxInv, ReadInv
  <2>5. \A q \in Publishers : RevisedInv(tx[q])'
    <3>1. \A s : Declared(s)' <=> Declared(s)
      BY DEF Declared, Undeclared
    <3>. QED BY <1>1, <3>1 DEF IInv, TxInv, RevisedInv
  <2>. QED BY <2>1, <2>2, <2>3, <2>4, <2>5 DEF TxInv
<1>4. LockInv'
  BY <1>1 DEF IInv, LockInv, NotShared
<1>5. ReleaseInv'
  <2>1. \A i \in DOMAIN releases : releases[i].at \in Nat
    <3>1. \A i \in DOMAIN releases : releases[i] \in Release
      BY DEF IInv, TypeOK
    <3>. QED BY <3>1 DEF Release
  <2>. QED BY <2>1 DEF IInv, ReleaseInv, TypeOK
<1>6. HeadsInv'
  BY DEF IInv, HeadsInv, HeadInv, LastInv, Declared, Undeclared
<1>. QED BY <1>2, <1>3, <1>4, <1>5, <1>6 DEF IInv


LEMMA RequestFacts ==
  ASSUME IInv, NEW p \in Publishers
  PROVE  /\ tx[p] \in Tx
         /\ StepInv(tx[p]) /\ TimeInv(tx[p]) /\ OrderInv(tx[p]) /\ ReadInv(tx[p]) /\ RevisedInv(tx[p])
         /\ NotShared(p, tx[p])
BY DEF IInv, TypeOK, TxInv, LockInv, NotShared

LEMMA AbortKeeps ==
  ASSUME IInv, NEW p \in Publishers, Abort(p),
         UNCHANGED <<versions, releases, heads, cs, clock, edits, late>>
  PROVE  IInv'
<1>1. /\ NoTx \in Tx
      /\ NoTx.step = "idle"
      /\ \A s \in Scopes : NoTx.base[s] = None /\ NoTx.heads[s] = None /\ NoTx.revs[s] = None
      /\ \A k \in Key : NoTx.items[k] = 0 /\ NoTx.ops[k] = None
  BY NoTxIs
<1>2. clock' \in Nat /\ clock <= clock'
  BY DEF IInv, TypeOK
<1>. DEFINE t == NoTx
<1>3. tx' = [tx EXCEPT ![p] = t]
  BY DEF Abort
<1>. HIDE DEF t
<1>4. t = NoTx
  BY DEF t
<1>5. StepInv(t)
  BY <1>1, <1>4 DEF StepInv
<1>6. TimeBy(t, clock') /\ RevisedInv(t)
  BY <1>1, <1>4 DEF TimeBy, TimeInv, RevisedInv
<1>7. OrderInv(t) /\ ReadInv(t)
  BY <1>1, <1>4 DEF OrderInv, ReadInv
<1>8. NotShared(p, t)
  BY <1>1, <1>4 DEF NotShared
<1>. QED BY <1>1, <1>2, <1>3, <1>4, <1>5, <1>6, <1>7, <1>8, RequestKeeps

-------------------------------------------------------------------------------
(* The invariant is kept by what authors do *)

LEMMA RowsKeep ==
  ASSUME IInv, cs' \in [Changesets -> ChangesetRow], edits' \in Nat, late' \in Nat,
         UNCHANGED <<versions, releases, heads, tx, clock>>
  PROVE  IInv'
<1>1. TypeOK'
  BY DEF IInv, TypeOK
<1>2. TxInv' /\ LockInv'
  BY DEF IInv, TxInv, LockInv, StepInv, TimeInv, TimeBy, OrderInv, ReadInv, RevisedInv, Declared,
         Undeclared
<1>3. ReleaseInv' /\ HeadsInv'
  BY DEF IInv, ReleaseInv, HeadsInv, HeadInv, LastInv, Declared, Undeclared
<1>. QED BY <1>1, <1>2, <1>3 DEF IInv

LEMMA AuthorKeeps ==
  ASSUME IInv, NEW c \in Changesets, Author(c)
  PROVE  IInv'
<1>1. /\ cs \in [Changesets -> ChangesetRow]
      /\ heads \in [Scopes -> Rev]
      /\ edits \in Nat
      /\ late \in Nat
  BY DEF IInv, TypeOK
<1>2. cs[c].base \in RevTable /\ cs[c].ops \in OpTable
  BY <1>1 DEF ChangesetRow
<1>3. NoRow \in ChangesetRow
  BY DEF NoRow, ChangesetRow, RevTable, OpTable
<1>4. ASSUME NEW draft \in Drafts, CreateBegin(c, draft)
      PROVE  IInv'
  <2>1. draft \in OpTable
    BY DraftsAssumption
  <2>2. [NoRow EXCEPT !.state = "creating", !.ops = draft] \in ChangesetRow
    BY <1>3, <2>1 DEF ChangesetRow
  <2>3. cs' \in [Changesets -> ChangesetRow]
    BY <1>1, <1>4, <2>2 DEF CreateBegin
  <2>. QED BY <1>1, <1>4, <2>3, RowsKeep DEF CreateBegin
<1>5. ASSUME CreateReadHead(c)
      PROVE  IInv'
  <2>. DEFINE left == ScopesOf(cs[c].ops) \ Present(cs[c].base)
              r == [cs[c].base EXCEPT ![Least(left)] = heads[Least(left)]]
  <2>1. left \subseteq Scopes /\ left # {}
    BY <1>2, <1>5, KeyParts DEF CreateReadHead, ScopesOf, Present, OpTable
  <2>2. Least(left) \in Scopes
    <3>. HIDE DEF left
    <3>1. left \in SUBSET Nat
      BY <2>1, ScopesAssumption
    <3>. QED BY <2>1, <3>1, LeastIs
  <2>3. r \in RevTable
    BY <1>1, <1>2, <2>2 DEF RevTable
  <2>4. cs' = [cs EXCEPT ![c] = [cs[c] EXCEPT !.base = r]]
    BY <1>1, <1>5 DEF CreateReadHead, ChangesetRow
  <2>. HIDE DEF r
  <2>5. [cs[c] EXCEPT !.base = r] \in ChangesetRow
    BY <1>1, <2>3 DEF ChangesetRow
  <2>6. cs' \in [Changesets -> ChangesetRow]
    BY <1>1, <2>4, <2>5
  <2>. QED BY <1>1, <1>5, <2>6, RowsKeep DEF CreateReadHead
<1>6. ASSUME CreateInsert(c)
      PROVE  IInv'
  <2>1. cs' \in [Changesets -> ChangesetRow]
    BY <1>1, <1>6 DEF CreateInsert, ChangesetRow
  <2>. QED BY <1>1, <1>6, <2>1, RowsKeep DEF CreateInsert
<1>7. ASSUME NEW draft \in Drafts, Edit(c, draft)
      PROVE  IInv'
  <2>1. draft \in OpTable
    BY DraftsAssumption
  <2>2. cs' = [cs EXCEPT ![c] = [cs[c] EXCEPT !.state = "draft", !.ops = draft]]
    BY <1>1, <1>7 DEF Edit, ChangesetRow
  <2>3. [cs[c] EXCEPT !.state = "draft", !.ops = draft] \in ChangesetRow
    BY <1>1, <2>1 DEF ChangesetRow
  <2>4. cs' \in [Changesets -> ChangesetRow]
    BY <1>1, <2>2, <2>3
  <2>. QED BY <1>1, <1>7, <2>4, RowsKeep DEF Edit
<1>8. ASSUME Approve(c)
      PROVE  IInv'
  <2>1. cs' \in [Changesets -> ChangesetRow]
    BY <1>1, <1>8 DEF Approve, ChangesetRow
  <2>. QED BY <1>1, <1>8, <2>1, RowsKeep DEF Approve
<1>9. ASSUME LateApprove(c)
      PROVE  IInv'
  <2>1. cs' \in [Changesets -> ChangesetRow]
    BY <1>1, <1>9 DEF LateApprove, ChangesetRow
  <2>. QED BY <1>1, <1>9, <2>1, RowsKeep DEF LateApprove
<1>. QED BY <1>4, <1>5, <1>6, <1>7, <1>8, <1>9 DEF Author


-------------------------------------------------------------------------------
(* The invariant is kept by the steps of a publication before its commit *)

LEMMA PublishReadKeeps ==
  ASSUME IInv, NEW p \in Publishers, NEW c \in Changesets, PublishRead(p, c)
  PROVE  IInv'
<1>. DEFINE t == [NoTx EXCEPT !.step = "ops", !.cs = c, !.base = cs[c].base]
<1>1. cs[c].base \in RevTable
  BY DEF IInv, TypeOK, ChangesetRow
<1>2. t \in Tx
  BY <1>1, NoTxIs DEF Tx, Steps
<1>3. /\ t.step = "ops"
      /\ t.cs = c
      /\ \A s \in Scopes : t.heads[s] = None /\ t.revs[s] = None
      /\ \A k \in Key : t.items[k] = 0 /\ t.ops[k] = None
  BY NoTxIs DEF NoTx
<1>4. tx' = [tx EXCEPT ![p] = t]
  BY DEF PublishRead
<1>. HIDE DEF t
<1>5. clock' \in Nat /\ clock <= clock'
  BY DEF PublishRead, IInv, TypeOK
<1>6. StepInv(t) /\ TimeBy(t, clock') /\ OrderInv(t) /\ ReadInv(t) /\ RevisedInv(t)
  BY <1>3 DEF StepInv, TimeInv, TimeBy, OrderInv, ReadInv, RevisedInv
<1>7. NotShared(p, t)
  BY <1>3 DEF NotShared
<1>. QED BY <1>2, <1>4, <1>5, <1>6, <1>7, RequestKeeps DEF PublishRead

LEMMA PublishReadOpsKeeps ==
  ASSUME IInv, NEW p \in Publishers, PublishReadOps(p)
  PROVE  IInv'
<1>. DEFINE o == cs[tx[p].cs].ops
            t == [tx[p] EXCEPT !.step = "row", !.ops = o, !.at = clock]
<1>0. tx[p] \in Tx /\ tx[p].step = "ops" /\ StepInv(tx[p]) /\ NotShared(p, tx[p])
  BY RequestFacts DEF PublishReadOps
<1>1. clock \in Nat /\ o \in OpTable /\ tx[p].cs \in Changesets
  <2>1. tx[p].cs \in Changesets
    BY <1>0 DEF StepInv
  <2>. QED BY <2>1 DEF IInv, TypeOK, ChangesetRow
<1>2. tx' = [tx EXCEPT ![p] = t]
  BY <1>0 DEF PublishReadOps, IInv, TypeOK
<1>. HIDE DEF o
<1>3. t \in Tx
  BY <1>0, <1>1 DEF Tx, Steps
<1>4. /\ t.step = "row"
      /\ t.cs = tx[p].cs
      /\ t.at = clock
      /\ t.base = tx[p].base
      /\ t.heads = tx[p].heads
      /\ t.items = tx[p].items
      /\ t.revs = tx[p].revs
  BY <1>0 DEF Tx
<1>. HIDE DEF t
<1>5. clock' \in Nat /\ clock <= clock' /\ clock < clock'
  BY <1>1 DEF PublishReadOps
<1>6. /\ \A s \in Scopes : t.heads[s] = None
      /\ \A k \in Key : t.items[k] = 0
  BY <1>0, <1>4 DEF StepInv
<1>7. StepInv(t)
  BY <1>1, <1>4, <1>6 DEF StepInv
<1>8. TimeBy(t, clock') /\ OrderInv(t) /\ ReadInv(t) /\ RevisedInv(t)
  BY <1>4, <1>5, <1>6 DEF TimeBy, TimeInv, OrderInv, ReadInv, RevisedInv
<1>9. NotShared(p, t)
  BY <1>6 DEF NotShared
<1>. QED BY <1>2, <1>3, <1>5, <1>7, <1>8, <1>9, RequestKeeps DEF PublishReadOps

\* A request that moves on to its next step and changes nothing else of itself
LEMMA MoveOn ==
  ASSUME NEW p \in Publishers, tx[p] \in Tx, NEW n \in Steps,
         tx \in [Publishers -> Tx], tx' = [tx EXCEPT ![p].step = n]
  PROVE  \E t \in Tx : /\ tx' = [tx EXCEPT ![p] = t]
                       /\ t.step = n
                       /\ t.cs = tx[p].cs
                       /\ t.base = tx[p].base
                       /\ t.ops = tx[p].ops
                       /\ t.at = tx[p].at
                       /\ t.heads = tx[p].heads
                       /\ t.items = tx[p].items
                       /\ t.revs = tx[p].revs
<1>. DEFINE t == [tx[p] EXCEPT !.step = n]
<1>1. tx' = [tx EXCEPT ![p] = t]
  OBVIOUS
<1>2. t \in Tx
  BY DEF Tx
<1>3. /\ t.step = n
      /\ t.cs = tx[p].cs
      /\ t.base = tx[p].base
      /\ t.ops = tx[p].ops
      /\ t.at = tx[p].at
      /\ t.heads = tx[p].heads
      /\ t.items = tx[p].items
      /\ t.revs = tx[p].revs
  BY DEF Tx
<1>. HIDE DEF t
<1>. QED BY <1>1, <1>2, <1>3

LEMMA LockRowKeeps ==
  ASSUME IInv, NEW p \in Publishers, LockRow(p)
  PROVE  IInv'
<1>1. CASE cs[tx[p].cs].state # "approved"
  BY <1>1, AbortKeeps DEF LockRow
<1>2. CASE cs[tx[p].cs].state = "approved"
  <2>1. /\ tx[p] \in Tx /\ tx[p].step = "row" /\ tx \in [Publishers -> Tx]
        /\ tx' = [tx EXCEPT ![p].step = "heads"]
        /\ StepInv(tx[p]) /\ TimeInv(tx[p]) /\ NotShared(p, tx[p])
    BY <1>2, RequestFacts DEF LockRow, IInv, TypeOK
  <2>2. PICK t \in Tx : /\ tx' = [tx EXCEPT ![p] = t]
                        /\ t.step = "heads"
                        /\ t.cs = tx[p].cs
                        /\ t.base = tx[p].base
                        /\ t.ops = tx[p].ops
                        /\ t.at = tx[p].at
                        /\ t.heads = tx[p].heads
                        /\ t.items = tx[p].items
                        /\ t.revs = tx[p].revs
    BY <2>1, MoveOn DEF Steps
  <2>3. /\ UNCHANGED <<versions, releases, heads, cs, edits, late>>
        /\ clock' \in Nat /\ clock' = clock /\ clock <= clock'
    BY DEF LockRow, IInv, TypeOK
  <2>4. /\ \A s \in Scopes : t.heads[s] = None
        /\ \A k \in Key : t.items[k] = 0
    BY <2>1, <2>2 DEF StepInv
  <2>5. StepInv(t)
    BY <2>1, <2>2, <2>4 DEF StepInv
  <2>6. TimeBy(t, clock')
    BY <2>1, <2>2, <2>3 DEF TimeBy, TimeInv
  <2>7. OrderInv(t) /\ ReadInv(t) /\ RevisedInv(t)
    BY <2>2, <2>4 DEF OrderInv, ReadInv, RevisedInv
  <2>8. NotShared(p, t)
    BY <2>4 DEF NotShared
  <2>. QED BY <2>2, <2>3, <2>5, <2>6, <2>7, <2>8, RequestKeeps
<1>. QED BY <1>1, <1>2

LEMMA CheckBaseKeeps ==
  ASSUME IInv, NEW p \in Publishers, CheckBase(p)
  PROVE  IInv'
<1>1. CASE Overlap(releases, tx[p].ops, tx[p].base, tx[p].heads) # {}
  BY <1>1, AbortKeeps DEF CheckBase
<1>2. CASE Overlap(releases, tx[p].ops, tx[p].base, tx[p].heads) = {}
  <2>1. /\ tx[p] \in Tx /\ tx[p].step = "check" /\ tx \in [Publishers -> Tx]
        /\ tx' = [tx EXCEPT ![p].step = "write"]
        /\ StepInv(tx[p]) /\ TimeInv(tx[p]) /\ OrderInv(tx[p]) /\ ReadInv(tx[p])
        /\ NotShared(p, tx[p])
    BY <1>2, RequestFacts DEF CheckBase, IInv, TypeOK
  <2>2. PICK t \in Tx : /\ tx' = [tx EXCEPT ![p] = t]
                        /\ t.step = "write"
                        /\ t.cs = tx[p].cs
                        /\ t.base = tx[p].base
                        /\ t.ops = tx[p].ops
                        /\ t.at = tx[p].at
                        /\ t.heads = tx[p].heads
                        /\ t.items = tx[p].items
                        /\ t.revs = tx[p].revs
    BY <2>1, MoveOn DEF Steps
  <2>3. /\ UNCHANGED <<versions, releases, heads, cs, edits, late>>
        /\ clock' \in Nat /\ clock' = clock /\ clock <= clock'
    BY DEF CheckBase, IInv, TypeOK
  <2>4. StepInv(t)
    BY <2>1, <2>2 DEF StepInv
  <2>5. TimeBy(t, clock')
    BY <2>1, <2>2, <2>3 DEF TimeBy, TimeInv
  <2>6. OrderInv(t)
    BY <2>1, <2>2 DEF OrderInv
  <2>7. ReadInv(t)
    BY <1>2, <2>1, <2>2 DEF ReadInv
  <2>8. RevisedInv(t)
    BY <2>2 DEF RevisedInv
  <2>9. NotShared(p, t)
    BY <2>1, <2>2 DEF NotShared
  <2>. QED BY <2>2, <2>3, <2>4, <2>5, <2>6, <2>7, <2>8, <2>9, RequestKeeps
<1>. QED BY <1>1, <1>2


LEMMA ScopesLeftIs ==
  ASSUME NEW p \in Publishers, tx[p] \in Tx
  PROVE  /\ ScopesLeft(p) \in SUBSET Nat
         /\ \A s : s \in ScopesLeft(p) <=>
              s \in Scopes /\ tx[p].base[s] # None /\ tx[p].heads[s] = None
<1>1. tx[p].base \in RevTable /\ tx[p].heads \in RevTable
  BY TxIs
<1>2. \A s : s \in ScopesLeft(p) <=>
         s \in Scopes /\ tx[p].base[s] # None /\ tx[p].heads[s] = None
  BY <1>1 DEF ScopesLeft, Present, RevTable
<1>. QED BY <1>2, ScopesAssumption

LEMMA OpsLeftIs ==
  ASSUME NEW p \in Publishers, tx[p] \in Tx
  PROVE  /\ OpsLeft(p) \in SUBSET Key
         /\ \A k : k \in OpsLeft(p) <=>
              k \in Key /\ tx[p].ops[k] # None /\ tx[p].items[k] = 0
<1>1. tx[p].ops \in OpTable
  BY TxIs
<1>2. \A k : k \in OpsLeft(p) <=> k \in Key /\ tx[p].ops[k] # None /\ tx[p].items[k] = 0
  BY <1>1 DEF OpsLeft, Present, OpTable
<1>. QED BY <1>2

LEMMA BundleFree ==
  ASSUME NEW p \in Publishers, NEW q \in Publishers \ {p},
         tx[p].step = "write", ~Blocked(p), OpsLeft(p) # {}
  PROVE  tx[q].items[NextBundle(p)] = 0
BY DEF Blocked, WaitsFor, HoldsBundle

LEMMA LockHeadKeeps ==
  ASSUME IInv, NEW p \in Publishers, LockHead(p)
  PROVE  IInv'
<1>1. /\ tx[p] \in Tx /\ tx[p].step = "heads" /\ tx \in [Publishers -> Tx]
      /\ heads \in [Scopes -> Rev]
      /\ StepInv(tx[p]) /\ TimeInv(tx[p]) /\ OrderInv(tx[p]) /\ ReadInv(tx[p])
      /\ NotShared(p, tx[p])
  BY RequestFacts DEF LockHead, IInv, TypeOK
<1>2. /\ UNCHANGED <<versions, releases, heads, cs, edits, late>>
      /\ clock' \in Nat /\ clock' = clock /\ clock <= clock'
  BY DEF LockHead, IInv, TypeOK
<1>3. CASE ScopesLeft(p) = {}
  <2>1. tx' = [tx EXCEPT ![p].step = "check"]
    BY <1>3 DEF LockHead
  <2>2. PICK t \in Tx : /\ tx' = [tx EXCEPT ![p] = t]
                        /\ t.step = "check"
                        /\ t.cs = tx[p].cs
                        /\ t.base = tx[p].base
                        /\ t.ops = tx[p].ops
                        /\ t.at = tx[p].at
                        /\ t.heads = tx[p].heads
                        /\ t.items = tx[p].items
                        /\ t.revs = tx[p].revs
    BY <1>1, <2>1, MoveOn DEF Steps
  <2>3. \A s \in Scopes : tx[p].heads[s] = None => tx[p].base[s] = None
    BY <1>1, <1>3, ScopesLeftIs
  <2>4. StepInv(t)
    BY <1>1, <2>2, <2>3 DEF StepInv
  <2>5. TimeBy(t, clock')
    BY <1>1, <1>2, <2>2 DEF TimeBy, TimeInv
  <2>6. OrderInv(t)
    BY <1>1, <2>2 DEF OrderInv
  <2>7. ReadInv(t)
    BY <1>1, <2>2 DEF ReadInv
  <2>8. RevisedInv(t)
    BY <2>2 DEF RevisedInv
  <2>9. NotShared(p, t)
    BY <1>1, <2>2 DEF NotShared
  <2>. QED BY <1>2, <2>2, <2>4, <2>5, <2>6, <2>7, <2>8, <2>9, RequestKeeps
<1>4. CASE ScopesLeft(p) # {}
  <2>. DEFINE u == NextHead(p)
              h == [tx[p].heads EXCEPT ![u] = heads[u]]
              t == [tx[p] EXCEPT !.heads = h]
  <2>1. u \in ScopesLeft(p) /\ \A s \in ScopesLeft(p) : u <= s
    BY <1>1, <1>4, ScopesLeftIs, LeastIs DEF NextHead
  <2>2. u \in Scopes /\ u \in Nat /\ tx[p].base[u] # None /\ tx[p].heads[u] = None
    BY <1>1, <2>1, ScopesLeftIs, ScopesAssumption
  <2>3. tx' = [tx EXCEPT ![p] = t]
    <3>1. tx' = [tx EXCEPT ![p].heads[u] = heads[u]]
      BY <1>4 DEF LockHead
    <3>. HIDE DEF u
    <3>. QED BY <1>1, <3>1 DEF Tx
  <2>4. \A q \in Publishers \ {p} : tx[q].heads[u] = None
    BY <1>1, <1>4 DEF LockHead, Blocked, WaitsFor, HoldsHead
  <2>. HIDE DEF u
  <2>5. heads[u] \in Rev /\ heads[u] # None
    BY <1>1, <2>2, RevisionIs
  <2>6. /\ tx[p].heads \in RevTable
        /\ h \in RevTable
        /\ h[u] = heads[u]
        /\ \A s \in Scopes \ {u} : h[s] = tx[p].heads[s]
    BY <1>1, <2>2, <2>5, TxIs DEF RevTable
  <2>. HIDE DEF h
  <2>7. t \in Tx
    BY <1>1, <2>6 DEF Tx
  <2>8. /\ t.step = "heads"
        /\ t.cs = tx[p].cs
        /\ t.base = tx[p].base
        /\ t.ops = tx[p].ops
        /\ t.at = tx[p].at
        /\ t.heads = h
        /\ t.items = tx[p].items
        /\ t.revs = tx[p].revs
    BY <1>1 DEF Tx
  <2>. HIDE DEF t
  <2>9. StepInv(t)
    BY <1>1, <2>2, <2>6, <2>8 DEF StepInv
  <2>10. TimeBy(t, clock')
    BY <1>1, <1>2, <2>8 DEF TimeBy, TimeInv
  <2>11. OrderInv(t)
    <3>1. ASSUME NEW s \in Scopes, NEW w \in Scopes,
                 t.heads[s] # None, t.heads[w] = None, t.base[w] # None
          PROVE  s < w
      <4>1. w # u /\ tx[p].heads[w] = None /\ tx[p].base[w] # None
        BY <2>5, <2>6, <2>8, <3>1
      <4>2. s = u => s < w
        <5>1. u <= w
          BY <1>1, <2>1, <4>1, ScopesLeftIs
        <5>2. w \in Nat /\ u \in Nat
          BY <2>2, ScopesAssumption
        <5>. QED BY <4>1, <5>1, <5>2
      <4>3. s # u => s < w
        BY <1>1, <2>6, <2>8, <3>1, <4>1 DEF OrderInv
      <4>. QED BY <4>2, <4>3
    <3>2. \A k, l \in Key :
            t.items[k] # 0 /\ t.items[l] = 0 /\ t.ops[l] # None => Before(k, l) /\ k # l
      BY <1>1, <2>8 DEF StepInv
    <3>. QED BY <3>1, <3>2 DEF OrderInv
  <2>12. ReadInv(t)
    BY <1>1, <2>2, <2>6, <2>8 DEF ReadInv
  <2>13. RevisedInv(t)
    BY <2>8 DEF RevisedInv
  <2>14. NotShared(p, t)
    BY <1>1, <2>2, <2>4, <2>6, <2>8 DEF NotShared
  <2>. QED BY <1>2, <2>3, <2>7, <2>9, <2>10, <2>11, <2>12, <2>13, <2>14, RequestKeeps
<1>. QED BY <1>3, <1>4

LEMMA WriteOpKeeps ==
  ASSUME IInv, NEW p \in Publishers, WriteOp(p)
  PROVE  IInv'
<1>1. /\ tx[p] \in Tx /\ tx[p].step = "write" /\ tx \in [Publishers -> Tx]
      /\ versions \in [Key -> Seq(BOOLEAN)]
      /\ StepInv(tx[p]) /\ TimeInv(tx[p]) /\ OrderInv(tx[p]) /\ ReadInv(tx[p])
      /\ NotShared(p, tx[p])
  BY RequestFacts DEF WriteOp, IInv, TypeOK
<1>2. /\ UNCHANGED <<versions, releases, heads, cs, edits, late>>
      /\ clock' \in Nat /\ clock' = clock /\ clock <= clock'
  BY DEF WriteOp, IInv, TypeOK
<1>3. CASE OpsLeft(p) = {}
  <2>1. tx' = [tx EXCEPT ![p].step = "revise"]
    BY <1>3 DEF WriteOp
  <2>2. PICK t \in Tx : /\ tx' = [tx EXCEPT ![p] = t]
                        /\ t.step = "revise"
                        /\ t.cs = tx[p].cs
                        /\ t.base = tx[p].base
                        /\ t.ops = tx[p].ops
                        /\ t.at = tx[p].at
                        /\ t.heads = tx[p].heads
                        /\ t.items = tx[p].items
                        /\ t.revs = tx[p].revs
    BY <1>1, <2>1, MoveOn DEF Steps
  <2>3. \A k \in Key : tx[p].items[k] = 0 => tx[p].ops[k] = None
    BY <1>1, <1>3, OpsLeftIs
  <2>4. StepInv(t)
    BY <1>1, <2>2, <2>3 DEF StepInv
  <2>5. TimeBy(t, clock')
    BY <1>1, <1>2, <2>2 DEF TimeBy, TimeInv
  <2>6. OrderInv(t)
    BY <1>1, <2>2 DEF OrderInv
  <2>7. ReadInv(t)
    BY <1>1, <2>2 DEF ReadInv
  <2>8. RevisedInv(t)
    BY <2>2 DEF RevisedInv
  <2>9. NotShared(p, t)
    BY <1>1, <2>2 DEF NotShared
  <2>. QED BY <1>2, <2>2, <2>4, <2>5, <2>6, <2>7, <2>8, <2>9, RequestKeeps
<1>4. CASE OpsLeft(p) # {} /\ ~Accepts(versions, NextBundle(p), tx[p].ops[NextBundle(p)])
  <2>1. Abort(p)
    BY <1>4 DEF WriteOp
  <2>. QED BY <2>1, AbortKeeps DEF WriteOp
<1>5. CASE OpsLeft(p) # {} /\ Accepts(versions, NextBundle(p), tx[p].ops[NextBundle(p)])
  <2>. DEFINE b == NextBundle(p)
              v == CurrentVersion(versions, b) + 1
              i == [tx[p].items EXCEPT ![b] = v]
              t == [tx[p] EXCEPT !.items = i]
  <2>1. b \in OpsLeft(p) /\ \A l \in OpsLeft(p) : Before(b, l)
    BY <1>1, <1>5, OpsLeftIs, FirstKeyIs DEF NextBundle
  <2>2. b \in Key /\ tx[p].ops[b] # None /\ tx[p].items[b] = 0
    BY <1>1, <2>1, OpsLeftIs
  <2>3. v \in Nat /\ v # 0
    <3>1. Len(versions[b]) \in Nat
      BY <1>1, <2>2
    <3>. QED BY <3>1 DEF CurrentVersion
  <2>4. tx' = [tx EXCEPT ![p] = t]
    <3>1. tx' = [tx EXCEPT ![p].items[b] = v]
      BY <1>5 DEF WriteOp
    <3>. HIDE DEF b, v
    <3>. QED BY <1>1, <3>1 DEF Tx
  <2>5. Accepts(versions, b, tx[p].ops[b])
    BY <1>5
  <2>6. \A q \in Publishers \ {p} : tx[q].items[b] = 0
    BY <1>1, <1>5, BundleFree DEF WriteOp
  <2>. HIDE DEF b
  <2>7. v = CurrentVersion(versions, b) + 1
    OBVIOUS
  <2>. HIDE DEF v
  <2>8. /\ tx[p].items \in [Key -> Nat]
        /\ i \in [Key -> Nat]
        /\ i[b] = v
        /\ \A k \in Key \ {b} : i[k] = tx[p].items[k]
    BY <1>1, <2>2, <2>3, TxIs
  <2>. HIDE DEF i
  <2>9. t \in Tx
    BY <1>1, <2>8 DEF Tx, ItemTable
  <2>10. /\ t.step = "write"
         /\ t.cs = tx[p].cs
         /\ t.base = tx[p].base
         /\ t.ops = tx[p].ops
         /\ t.at = tx[p].at
         /\ t.heads = tx[p].heads
         /\ t.items = i
         /\ t.revs = tx[p].revs
    BY <1>1 DEF Tx
  <2>. HIDE DEF t
  <2>11. StepInv(t)
    BY <1>1, <2>2, <2>8, <2>10 DEF StepInv
  <2>12. TimeBy(t, clock')
    BY <1>1, <1>2, <2>10 DEF TimeBy, TimeInv
  <2>13. OrderInv(t)
    <3>1. ASSUME NEW k \in Key, NEW l \in Key,
                 t.items[k] # 0, t.items[l] = 0, t.ops[l] # None
          PROVE  Before(k, l) /\ k # l
      <4>1. l # b /\ tx[p].items[l] = 0 /\ tx[p].ops[l] # None
        BY <2>3, <2>8, <2>10, <3>1
      <4>2. k = b => Before(k, l) /\ k # l
        <5>1. l \in OpsLeft(p)
          BY <1>1, <4>1, OpsLeftIs
        <5>. QED BY <2>1, <4>1, <5>1
      <4>3. k # b => Before(k, l) /\ k # l
        BY <1>1, <2>8, <2>10, <3>1, <4>1 DEF OrderInv
      <4>. QED BY <4>2, <4>3
    <3>2. \A s, u \in Scopes :
            t.heads[s] # None /\ t.heads[u] = None /\ t.base[u] # None => s < u
      BY <1>1, <2>10 DEF OrderInv
    <3>. QED BY <3>1, <3>2 DEF OrderInv
  <2>14. ReadInv(t)
    BY <1>1, <2>2, <2>5, <2>7, <2>8, <2>10 DEF ReadInv
  <2>15. RevisedInv(t)
    BY <2>10 DEF RevisedInv
  <2>16. NotShared(p, t)
    BY <1>1, <2>2, <2>6, <2>8, <2>10 DEF NotShared
  <2>. QED BY <1>2, <2>4, <2>9, <2>11, <2>12, <2>13, <2>14, <2>15, <2>16, RequestKeeps
<1>. QED BY <1>3, <1>4, <1>5


LEMMA ReviseKeeps ==
  ASSUME IInv, NEW p \in Publishers, Revise(p)
  PROVE  IInv'
<1>. DEFINE now == Apply(versions, tx[p].ops)
            r == [s \in Scopes |-> IF tx[p].heads[s] = None THEN None ELSE ScopeRevision(now, s)]
            t == [tx[p] EXCEPT !.step = "commit", !.revs = r]
<1>1. /\ tx[p] \in Tx /\ tx[p].step = "revise" /\ tx \in [Publishers -> Tx]
      /\ versions \in [Key -> Seq(BOOLEAN)]
      /\ tx[p].ops \in OpTable
      /\ StepInv(tx[p]) /\ TimeInv(tx[p]) /\ OrderInv(tx[p]) /\ ReadInv(tx[p])
      /\ NotShared(p, tx[p])
  BY RequestFacts, TxIs DEF Revise, IInv, TypeOK
<1>2. /\ UNCHANGED <<versions, releases, heads, cs, edits, late>>
      /\ clock' \in Nat /\ clock' = clock /\ clock <= clock'
  BY DEF Revise, IInv, TypeOK
<1>3. tx' = [tx EXCEPT ![p] = t]
  <2>1. tx' = [tx EXCEPT ![p].step = "commit", ![p].revs = r]
    BY DEF Revise
  <2>. HIDE DEF r
  <2>. QED BY <1>1, <2>1 DEF Tx
<1>4. /\ now \in [Key -> Seq(BOOLEAN)]
      /\ \A k \in Key : /\ Len(versions[k]) \in Nat
                        /\ Len(now[k]) \in Nat
                        /\ Len(versions[k]) <= Len(now[k])
                        /\ tx[p].ops[k] # None => Len(now[k]) = Len(versions[k]) + 1
  BY <1>1, ApplyIs
<1>. HIDE DEF now
<1>5. \A s \in Scopes : /\ ScopeRevision(now, s) \in Revision
                        /\ \A n \in Names : ScopeRevision(now, s)[n] = Len(now[<<s, n>>])
  BY <1>4, ScopeRevisionIs
<1>6. /\ r \in RevTable
      /\ \A s \in Scopes :
           /\ tx[p].heads[s] = None => r[s] = None
           /\ tx[p].heads[s] # None => r[s] = ScopeRevision(now, s)
  BY <1>5 DEF RevTable, Rev
<1>. HIDE DEF r
<1>7. t \in Tx
  BY <1>1, <1>6 DEF Tx, Steps
<1>8. /\ t.step = "commit"
      /\ t.cs = tx[p].cs
      /\ t.base = tx[p].base
      /\ t.ops = tx[p].ops
      /\ t.at = tx[p].at
      /\ t.heads = tx[p].heads
      /\ t.items = tx[p].items
      /\ t.revs = r
  BY <1>1 DEF Tx
<1>. HIDE DEF t
<1>9. StepInv(t)
  BY <1>1, <1>8 DEF StepInv
<1>10. TimeBy(t, clock')
  BY <1>1, <1>2, <1>8 DEF TimeBy, TimeInv
<1>11. OrderInv(t)
  BY <1>1, <1>8 DEF OrderInv
<1>12. ReadInv(t)
  BY <1>1, <1>8 DEF ReadInv
<1>13. NotShared(p, t)
  BY <1>1, <1>8 DEF NotShared
<1>14. RevisedInv(t)
  <2>1. Apply(versions, t.ops) = now
    BY <1>8 DEF now
  <2>2. ASSUME NEW s \in Scopes
        PROVE  t.heads[s] = None <=> t.revs[s] = None
    BY <1>5, <1>6, <1>8, RevisionIs
  <2>3. ASSUME NEW s \in Scopes, t.revs[s] # None
        PROVE  t.revs[s] = ScopeRevision(now, s) /\ t.revs[s] \in Revision
    BY <1>5, <1>6, <1>8, <2>3
  <2>4. ASSUME NEW s \in Scopes, t.revs[s] # None, NEW n \in Names
        PROVE  /\ t.revs[s][n] >= t.items[<<s, n>>]
               /\ heads[s] # NoRev => t.revs[s][n] >= heads[s][n]
               /\ t.revs[s][n] <= Len(now[<<s, n>>])
    <3>1. <<s, n>> \in Key
      BY KeyIsPair
    <3>2. t.revs[s][n] = Len(now[<<s, n>>]) /\ t.revs[s][n] \in Nat
      BY <1>4, <1>5, <2>3, <2>4, <3>1
    <3>3. tx[p].items[<<s, n>>] \in Nat
      BY <1>1, <3>1, TxIs
    <3>4. t.revs[s][n] >= t.items[<<s, n>>]
      <4>1. tx[p].items[<<s, n>>] # 0 =>
              /\ tx[p].items[<<s, n>>] = Len(versions[<<s, n>>]) + 1
              /\ tx[p].ops[<<s, n>>] # None
        BY <1>1, <3>1 DEF ReadInv, CurrentVersion, StepInv
      <4>. QED BY <1>4, <1>8, <3>1, <3>2, <3>3, <4>1
    <3>5. ASSUME heads[s] # NoRev
          PROVE  t.revs[s][n] >= heads[s][n]
      <4>1. heads[s] \in Rev
        BY DEF IInv, TypeOK
      <4>2. heads[s][n] <= Len(versions[<<s, n>>]) /\ heads[s][n] \in Nat
        BY <3>5, <4>1, RevisionIs DEF IInv, HeadsInv, HeadInv
      <4>. QED BY <1>4, <3>1, <3>2, <4>2
    <3>. QED BY <1>4, <3>1, <3>2, <3>4, <3>5
  <2>. QED BY <2>1, <2>2, <2>3, <2>4 DEF RevisedInv
<1>. QED BY <1>2, <1>3, <1>7, <1>9, <1>10, <1>11, <1>12, <1>13, <1>14, RequestKeeps

-------------------------------------------------------------------------------
(* The invariant is kept by the commit *)

\* The release that request p commits, and what is known of it then
ReleaseOf(p) == [cs |-> tx[p].cs, at |-> tx[p].at, base |-> tx[p].base,
                 ops |-> tx[p].ops, items |-> tx[p].items, revs |-> tx[p].revs]

Ready(p, r) ==
  /\ tx[p].step = "commit"
  /\ tx[p].cs \in Changesets
  /\ r = ReleaseOf(p)
  /\ r \in Release
  /\ r.at < clock
  /\ \A s \in Scopes : /\ r.base[s] = None <=> r.revs[s] = None
                       /\ tx[p].heads[s] = None <=> r.revs[s] = None
                       /\ r.base[s] # None => tx[p].heads[s] = heads[s]
                       /\ r.revs[s] # None => r.revs[s] \in Revision
  /\ \A k \in Key : /\ r.items[k] = 0 <=> r.ops[k] = None
                    /\ r.items[k] # 0 => /\ r.items[k] = Len(versions[k]) + 1
                                         /\ Accepts(versions, k, r.ops[k])
  /\ Overlap(releases, r.ops, r.base, tx[p].heads) = {}
  /\ \A s \in Scopes : r.revs[s] # None =>
       /\ \A n \in Names :
            /\ r.revs[s][n] >= r.items[<<s, n>>]
            /\ heads[s] # NoRev => r.revs[s][n] >= heads[s][n]
            /\ r.revs[s][n] <= Len(Apply(versions, r.ops)[<<s, n>>])
       /\ Declared(s) => r.revs[s] = ScopeRevision(Apply(versions, r.ops), s)

LEMMA CommitIsReady ==
  ASSUME IInv, NEW p \in Publishers, tx[p].step = "commit"
  PROVE  Ready(p, ReleaseOf(p))
<1>. DEFINE r == ReleaseOf(p)
<1>1. /\ tx[p] \in Tx
      /\ StepInv(tx[p]) /\ TimeInv(tx[p]) /\ ReadInv(tx[p]) /\ RevisedInv(tx[p])
  BY RequestFacts
<1>2. tx[p].cs \in Changesets
  BY <1>1 DEF StepInv
<1>3. r \in Release
  BY <1>1, <1>2 DEF Tx, Release, ReleaseOf
<1>4. /\ r.at = tx[p].at
      /\ r.base = tx[p].base
      /\ r.ops = tx[p].ops
      /\ r.items = tx[p].items
      /\ r.revs = tx[p].revs
  BY DEF ReleaseOf
<1>5. r = ReleaseOf(p)
  OBVIOUS
<1>. HIDE DEF r
<1>6. r.at < clock
  BY <1>1, <1>4 DEF TimeInv, TimeBy
<1>7. \A s \in Scopes : /\ r.base[s] = None <=> r.revs[s] = None
                        /\ tx[p].heads[s] = None <=> r.revs[s] = None
                        /\ r.base[s] # None => tx[p].heads[s] = heads[s]
                        /\ r.revs[s] # None => r.revs[s] \in Revision
  BY <1>1, <1>4 DEF StepInv, RevisedInv, ReadInv
<1>8. \A k \in Key : /\ r.items[k] = 0 <=> r.ops[k] = None
                     /\ r.items[k] # 0 => /\ r.items[k] = Len(versions[k]) + 1
                                          /\ Accepts(versions, k, r.ops[k])
  BY <1>1, <1>4 DEF StepInv, ReadInv, CurrentVersion
<1>9. Overlap(releases, r.ops, r.base, tx[p].heads) = {}
  BY <1>1, <1>4 DEF ReadInv
<1>10. \A s \in Scopes : r.revs[s] # None =>
         /\ \A n \in Names :
              /\ r.revs[s][n] >= r.items[<<s, n>>]
              /\ heads[s] # NoRev => r.revs[s][n] >= heads[s][n]
              /\ r.revs[s][n] <= Len(Apply(versions, r.ops)[<<s, n>>])
         /\ Declared(s) => r.revs[s] = ScopeRevision(Apply(versions, r.ops), s)
  BY <1>1, <1>4 DEF RevisedInv
<1>11. Ready(p, r)
  BY <1>2, <1>3, <1>5, <1>6, <1>7, <1>8, <1>9, <1>10 DEF Ready
<1>. QED BY <1>11 DEF r


\* What the commit of release r by request p does
LEMMA CommitEffect ==
  ASSUME IInv, NEW p \in Publishers, NEW r, Ready(p, r), Commit(p)
  PROVE  /\ r \in Release
         /\ r.ops \in OpTable /\ r.items \in [Key -> Nat] /\ r.revs \in RevTable
         /\ r.at \in Nat
         /\ versions' = Apply(versions, r.ops)
         /\ versions \in [Key -> Seq(BOOLEAN)]
         /\ versions' \in [Key -> Seq(BOOLEAN)]
         /\ \A k \in Key : /\ Len(versions[k]) \in Nat
                           /\ Len(versions'[k]) \in Nat
                           /\ r.items[k] = 0 => versions'[k] = versions[k]
                           /\ r.items[k] # 0 => /\ Len(versions'[k]) = Len(versions[k]) + 1
                                                /\ r.items[k] = Len(versions[k]) + 1
         /\ releases \in Seq(Release)
         /\ releases' = Append(releases, r)
         /\ releases' \in Seq(Release)
         /\ heads \in [Scopes -> Rev]
         /\ heads' \in [Scopes -> Rev]
         /\ \A s \in Scopes : /\ r.revs[s] = None => heads'[s] = heads[s]
                              /\ r.revs[s] # None => heads'[s] = r.revs[s]
         /\ tx' = [tx EXCEPT ![p] = NoTx]
         /\ tx \in [Publishers -> Tx]
         /\ tx'[p] = NoTx
         /\ \A q \in Publishers \ {p} : tx'[q] = tx[q]
         /\ UNCHANGED <<clock, edits, late>>
<1>1. /\ versions \in [Key -> Seq(BOOLEAN)]
      /\ releases \in Seq(Release)
      /\ heads \in [Scopes -> Rev]
      /\ tx \in [Publishers -> Tx]
  BY DEF IInv, TypeOK
<1>2. r \in Release /\ r = ReleaseOf(p)
  BY DEF Ready
<1>3. r.ops \in OpTable /\ r.items \in [Key -> Nat] /\ r.revs \in RevTable /\ r.at \in Nat
  BY <1>2 DEF Release, ItemTable
<1>4. r.ops = tx[p].ops /\ r.revs = tx[p].revs
  BY <1>2 DEF ReleaseOf
<1>5. /\ versions' = Apply(versions, r.ops)
      /\ releases' = Append(releases, r)
      /\ heads' = [s \in Scopes |-> IF r.revs[s] = None THEN heads[s] ELSE r.revs[s]]
      /\ tx' = [tx EXCEPT ![p] = NoTx]
      /\ UNCHANGED <<clock, edits, late>>
  BY <1>2, <1>4 DEF Commit, Abort, ReleaseOf
<1>6. /\ versions' \in [Key -> Seq(BOOLEAN)]
      /\ \A k \in Key : /\ Len(versions[k]) \in Nat
                        /\ Len(versions'[k]) \in Nat
                        /\ r.ops[k] = None => versions'[k] = versions[k]
                        /\ r.ops[k] # None => Len(versions'[k]) = Len(versions[k]) + 1
  BY <1>1, <1>3, <1>5, ApplyIs
<1>7. \A k \in Key : /\ r.items[k] = 0 <=> r.ops[k] = None
                     /\ r.items[k] # 0 => r.items[k] = Len(versions[k]) + 1
  BY DEF Ready
<1>8. \A s \in Scopes : /\ r.revs[s] = None => heads'[s] = heads[s]
                        /\ r.revs[s] # None => heads'[s] = r.revs[s]
  BY <1>5
<1>9. heads' \in [Scopes -> Rev]
  BY <1>1, <1>3, <1>5 DEF RevTable
<1>10. releases' \in Seq(Release)
  BY <1>1, <1>2, <1>5, AppendIs
<1>11. tx'[p] = NoTx /\ \A q \in Publishers \ {p} : tx'[q] = tx[q]
  BY <1>1, <1>5
<1>. QED BY <1>1, <1>2, <1>3, <1>5, <1>6, <1>7, <1>8, <1>9, <1>10, <1>11

\* A scope that every release has declared after the commit was so before it, and
\* holds what it held if the release did not lock its head.
LEMMA DeclaredBefore ==
  ASSUME IInv, NEW p \in Publishers, NEW r, Ready(p, r), Commit(p),
         NEW s \in Scopes, Declared(s)'
  PROVE  /\ Declared(s)
         /\ r.revs[s] = None =>
              \A n \in Names : r.items[<<s, n>>] = 0 /\ versions'[<<s, n>>] = versions[<<s, n>>]
<1>. DEFINE new == Len(releases) + 1
<1>1. /\ r \in Release /\ releases \in Seq(Release)
      /\ releases' = Append(releases, r)
      /\ \A k \in Key : r.items[k] = 0 => versions'[k] = versions[k]
  BY CommitEffect
<1>2. /\ DOMAIN releases' = DOMAIN releases \cup {new}
      /\ \A i \in DOMAIN releases : releases'[i] = releases[i]
      /\ releases'[new] = r
  BY <1>1, AppendIs
<1>. HIDE DEF new
<1>3. \A i \in DOMAIN releases', n \in Names :
        ~(releases'[i].items[<<s, n>>] # 0 /\ releases'[i].base[<<s, n>>[1]] = None)
  BY DEF Declared, Undeclared
<1>4. Declared(s)
  BY <1>2, <1>3 DEF Declared, Undeclared
<1>5. ASSUME r.revs[s] = None, NEW n \in Names
      PROVE  r.items[<<s, n>>] = 0 /\ versions'[<<s, n>>] = versions[<<s, n>>]
  <2>1. r.base[s] = None
    BY <1>5 DEF Ready
  <2>2. r.items[<<s, n>>] = 0
    BY <1>2, <1>3, <2>1
  <2>. QED BY <1>1, <2>2, KeyIsPair
<1>. QED BY <1>4, <1>5

LEMMA CommitKeepsReleases ==
  ASSUME IInv, NEW p \in Publishers, NEW r, Ready(p, r), Commit(p)
  PROVE  ReleaseInv'
<1>. DEFINE new == Len(releases) + 1
<1>1. /\ r \in Release /\ releases \in Seq(Release)
      /\ releases' = Append(releases, r)
      /\ clock' = clock
      /\ \A k \in Key : /\ Len(versions[k]) \in Nat
                        /\ Len(versions'[k]) \in Nat
                        /\ r.items[k] = 0 => versions'[k] = versions[k]
                        /\ r.items[k] # 0 => /\ Len(versions'[k]) = Len(versions[k]) + 1
                                             /\ r.items[k] = Len(versions[k]) + 1
  BY CommitEffect
<1>2. /\ DOMAIN releases' = DOMAIN releases \cup {new}
      /\ \A i \in DOMAIN releases : releases'[i] = releases[i]
      /\ releases'[new] = r
  BY <1>1, AppendIs
<1>. HIDE DEF new
<1>3. ASSUME NEW i \in DOMAIN releases
      PROVE  /\ releases'[i].at < clock'
             /\ \A s \in Scopes : /\ releases'[i].base[s] = None <=> releases'[i].revs[s] = None
                                  /\ releases'[i].revs[s] # NoRev
             /\ \A k \in Key : /\ releases'[i].items[k] = 0 <=> releases'[i].ops[k] = None
                               /\ releases'[i].items[k] <= Len(versions'[k])
  <2>1. releases[i] \in Release
    BY <1>1
  <2>2. releases[i].items \in [Key -> Nat]
    BY <2>1 DEF Release, ItemTable
  <2>. QED BY <1>1, <1>2, <2>2 DEF IInv, ReleaseInv
<1>4. /\ r.at < clock'
      /\ \A s \in Scopes : /\ r.base[s] = None <=> r.revs[s] = None
                           /\ r.revs[s] # NoRev
      /\ \A k \in Key : /\ r.items[k] = 0 <=> r.ops[k] = None
                        /\ r.items[k] <= Len(versions'[k])
  <2>1. \A s \in Scopes : r.revs[s] # NoRev
    BY RevisionIs DEF Ready
  <2>2. \A k \in Key : r.items[k] <= Len(versions'[k])
    BY <1>1
  <2>. QED BY <1>1, <2>1, <2>2 DEF Ready
<1>. QED BY <1>2, <1>3, <1>4 DEF ReleaseInv


LEMMA CommitKeepsHeads ==
  ASSUME IInv, NEW p \in Publishers, NEW r, Ready(p, r), Commit(p)
  PROVE  HeadsInv'
<1>. DEFINE new == Len(releases) + 1
<1>1. /\ r \in Release /\ releases \in Seq(Release)
      /\ r.items \in [Key -> Nat]
      /\ r.ops \in OpTable
      /\ releases' = Append(releases, r)
      /\ heads \in [Scopes -> Rev]
      /\ heads' \in [Scopes -> Rev]
      /\ \A s \in Scopes : /\ r.revs[s] = None => heads'[s] = heads[s]
                           /\ r.revs[s] # None => heads'[s] = r.revs[s]
      /\ versions \in [Key -> Seq(BOOLEAN)]
      /\ versions' = Apply(versions, r.ops)
      /\ versions' \in [Key -> Seq(BOOLEAN)]
      /\ \A k \in Key : /\ Len(versions[k]) \in Nat
                        /\ Len(versions'[k]) \in Nat
                        /\ r.items[k] = 0 => versions'[k] = versions[k]
                        /\ r.items[k] # 0 => /\ Len(versions'[k]) = Len(versions[k]) + 1
                                             /\ r.items[k] = Len(versions[k]) + 1
  BY CommitEffect
<1>2. /\ DOMAIN releases' = DOMAIN releases \cup {new}
      /\ \A i \in DOMAIN releases : i \in Nat /\ i <= new /\ releases'[i] = releases[i]
      /\ releases'[new] = r
      /\ new \in Nat
  BY <1>1, AppendIs
<1>3. \A s \in Scopes :
        /\ Covering(releases, s) \subseteq DOMAIN releases
        /\ r.revs[s] = None => Covering(releases', s) = Covering(releases, s)
        /\ r.revs[s] # None => Covering(releases', s) = Covering(releases, s) \cup {new}
  BY <1>1, CoveringAppend
<1>. HIDE DEF new
<1>4. SUFFICES ASSUME NEW s \in Scopes PROVE HeadInv(s)'
  BY DEF HeadsInv
<1>5. HeadInv(s)
  BY DEF IInv, HeadsInv
<1>6. CASE r.revs[s] = None
  <2>1. heads'[s] = heads[s] /\ Covering(releases', s) = Covering(releases, s)
    BY <1>1, <1>3, <1>6
  <2>2. LastInv(s)'
    BY <1>2, <1>3, <1>5, <2>1 DEF HeadInv, LastInv
  <2>3. ASSUME heads'[s] # NoRev, NEW n \in Names
        PROVE  /\ heads'[s][n] <= Len(versions'[<<s, n>>])
               /\ \A i \in Covering(releases', s) : heads'[s][n] >= releases'[i].items[<<s, n>>]
    <3>1. <<s, n>> \in Key
      BY KeyIsPair
    <3>2. heads[s] # NoRev /\ heads[s] \in Rev
      BY <1>1, <2>1, <2>3
    <3>3. heads[s][n] \in Nat
      BY <3>2, RevisionIs
    <3>4. heads[s][n] <= Len(versions[<<s, n>>])
      BY <1>5, <3>2 DEF HeadInv
    <3>5. Len(versions[<<s, n>>]) <= Len(versions'[<<s, n>>])
      <4>1. \/ versions'[<<s, n>>] = versions[<<s, n>>]
            \/ Len(versions'[<<s, n>>]) = Len(versions[<<s, n>>]) + 1
        BY <1>1, <3>1
      <4>2. Len(versions[<<s, n>>]) \in Nat
        BY <1>1, <3>1
      <4>. QED BY <4>1, <4>2
    <3>6. heads'[s][n] <= Len(versions'[<<s, n>>])
      <4>1. Len(versions[<<s, n>>]) \in Nat /\ Len(versions'[<<s, n>>]) \in Nat
        BY <1>1, <3>1
      <4>. QED BY <2>1, <3>3, <3>4, <3>5, <4>1
    <3>7. \A i \in Covering(releases, s) : heads[s][n] >= releases[i].items[<<s, n>>]
      BY <1>5, <3>2 DEF HeadInv
    <3>. QED BY <1>2, <1>3, <2>1, <3>6, <3>7
  <2>4. ASSUME heads'[s] # NoRev, Declared(s)'
        PROVE  heads'[s] = ScopeRevision(versions', s)
    <3>1. Declared(s) /\ \A n \in Names : versions'[<<s, n>>] = versions[<<s, n>>]
      BY <1>6, <2>4, DeclaredBefore
    <3>2. heads[s] = ScopeRevision(versions, s)
      BY <1>5, <2>1, <2>4, <3>1 DEF HeadInv
    <3>. QED BY <2>1, <3>1, <3>2 DEF ScopeRevision
  <2>. QED BY <2>2, <2>3, <2>4 DEF HeadInv
<1>7. CASE r.revs[s] # None
  <2>1. /\ heads'[s] = r.revs[s]
        /\ Covering(releases', s) = Covering(releases, s) \cup {new}
        /\ r.revs[s] \in Revision
    BY <1>1, <1>3, <1>7 DEF Ready
  <2>2. LastInv(s)'
    BY <1>2, <1>3, <2>1 DEF LastInv
  <2>3. ASSUME NEW n \in Names
        PROVE  /\ heads'[s][n] <= Len(versions'[<<s, n>>])
               /\ \A i \in Covering(releases', s) : heads'[s][n] >= releases'[i].items[<<s, n>>]
    <3>1. heads'[s][n] <= Len(versions'[<<s, n>>])
      BY <1>1, <1>7, <2>1 DEF Ready
    <3>2. heads'[s][n] >= r.items[<<s, n>>]
      BY <1>1, <1>7, <2>1 DEF Ready
    <3>3. ASSUME NEW i \in Covering(releases, s)
          PROVE  heads'[s][n] >= releases[i].items[<<s, n>>]
      <4>1. i \in DOMAIN releases /\ releases[i].revs[s] # None /\ releases[i] \in Release
        BY <1>1 DEF Covering
      <4>2. heads[s] # NoRev
        <5>1. PICK j \in Covering(releases, s) : heads[s] = releases[j].revs[s]
          BY <1>5 DEF HeadInv, LastInv
        <5>2. releases[j].revs[s] # NoRev
          BY <1>3, <5>1 DEF IInv, ReleaseInv
        <5>. QED BY <5>1, <5>2
      <4>3. /\ heads[s][n] >= releases[i].items[<<s, n>>]
            /\ heads'[s][n] >= heads[s][n]
        BY <1>5, <1>7, <2>1, <4>2 DEF HeadInv, Ready
      <4>4. heads[s][n] \in Nat /\ heads'[s][n] \in Nat
        BY <1>1, <2>1, <4>2, RevisionIs
      <4>5. releases[i].items[<<s, n>>] \in Nat
        <5>1. releases[i].items \in [Key -> Nat]
          BY <4>1 DEF Release, ItemTable
        <5>. QED BY <5>1, KeyIsPair
      <4>. QED BY <4>3, <4>4, <4>5
    <3>. QED BY <1>2, <1>3, <2>1, <3>1, <3>2, <3>3
  <2>4. ASSUME Declared(s)'
        PROVE  heads'[s] = ScopeRevision(versions', s)
    <3>1. Declared(s)
      BY <2>4, DeclaredBefore
    <3>. QED BY <1>1, <1>7, <2>1, <3>1 DEF Ready
  <2>. QED BY <2>2, <2>3, <2>4 DEF HeadInv
<1>. QED BY <1>6, <1>7


\* What another request has read under its locks is out of the commit's reach: its
\* heads and its bundles are not those of r.
LEMMA CommitKeepsReads ==
  ASSUME IInv, NEW p \in Publishers, NEW r, Ready(p, r), Commit(p),
         NEW q \in Publishers \ {p}
  PROVE  ReadInv(tx[q])'
<1>. DEFINE t == tx[q]
<1>1. /\ t \in Tx /\ StepInv(t) /\ ReadInv(t)
      /\ tx'[q] = t
      /\ r \in Release /\ releases \in Seq(Release)
      /\ releases' = Append(releases, r)
      /\ \A s \in Scopes : r.revs[s] = None => heads'[s] = heads[s]
      /\ \A k \in Key : r.items[k] = 0 => versions'[k] = versions[k]
  BY RequestFacts, CommitEffect
<1>2. /\ r.items = tx[p].items
      /\ \A s \in Scopes : tx[p].heads[s] = None <=> r.revs[s] = None
  BY DEF Ready, ReleaseOf
<1>3. /\ \A s \in Scopes : t.heads[s] # None => r.revs[s] = None
      /\ \A k \in Key : t.items[k] # 0 => r.items[k] = 0
  BY <1>2 DEF IInv, LockInv
<1>. HIDE DEF t
<1>4. \A s \in Scopes : t.heads[s] # None => t.heads[s] = heads'[s]
  BY <1>1, <1>3 DEF ReadInv
<1>5. ASSUME NEW k \in Key, t.items[k] # 0
      PROVE  t.items[k] = CurrentVersion(versions', k) + 1 /\ Accepts(versions', k, t.ops[k])
  <2>1. versions'[k] = versions[k]
    BY <1>1, <1>3, <1>5
  <2>2. t.items[k] = CurrentVersion(versions, k) + 1 /\ Accepts(versions, k, t.ops[k])
    BY <1>1, <1>5 DEF ReadInv
  <2>. QED BY <2>1, <2>2 DEF CurrentVersion, Accepts, Deleted
<1>6. ASSUME t.step \in {"write", "revise", "commit"}
      PROVE  Overlap(releases', t.ops, t.base, t.heads) = {}
  <2>1. Overlap(releases, t.ops, t.base, t.heads) = {}
    BY <1>1, <1>6 DEF ReadInv
  <2>2. ASSUME NEW k \in Overlap(releases', t.ops, t.base, t.heads)
        PROVE  FALSE
    <3>1. /\ k \in Present(t.ops)
          /\ t.base[k[1]] # None
          /\ t.heads[k[1]] # t.base[k[1]]
          /\ k \in KeysChangedSince(releases', k[1], t.base[k[1]])
      BY <2>2 DEF Overlap
    <3>2. k \in Key
      BY <3>1 DEF KeysChangedSince
    <3>3. k[1] \in Scopes
      BY <3>2, KeyParts
    <3>4. t.heads[k[1]] # None
      BY <1>1, <1>6, <3>1, <3>3 DEF StepInv
    <3>5. r.revs[k[1]] = None
      BY <1>3, <3>3, <3>4
    <3>6. clock \in Nat /\ r.at < clock /\ \A i \in DOMAIN releases : releases[i].at < clock
      BY DEF IInv, TypeOK, ReleaseInv, Ready
    <3>7. KeysChangedSince(releases', k[1], t.base[k[1]])
            = KeysChangedSince(releases, k[1], t.base[k[1]])
      BY <1>1, <3>3, <3>5, <3>6, KeysChangedSame
    <3>8. k \in Overlap(releases, t.ops, t.base, t.heads)
      BY <3>1, <3>7 DEF Overlap
    <3>. QED BY <2>1, <3>8
  <2>. QED BY <2>2
<1>7. /\ \A s \in Scopes : tx'[q].heads[s] # None => tx'[q].heads[s] = heads'[s]
      /\ \A k \in Key : tx'[q].items[k] # 0 =>
           tx'[q].items[k] = CurrentVersion(versions', k) + 1 /\ Accepts(versions', k, tx'[q].ops[k])
      /\ tx'[q].step \in {"write", "revise", "commit"} =>
           Overlap(releases', tx'[q].ops, tx'[q].base, tx'[q].heads) = {}
  BY <1>1, <1>4, <1>5, <1>6
<1>. QED BY <1>7 DEF ReadInv, CurrentVersion, Accepts, Deleted, Overlap, KeysChangedSince,
              Covering, PublishedAt

\* The revisions another request has computed: its scopes' heads do not move, and
\* what the commit writes in them makes the contents longer.
LEMMA CommitKeepsRevisions ==
  ASSUME IInv, NEW p \in Publishers, NEW r, Ready(p, r), Commit(p),
         NEW q \in Publishers \ {p}
  PROVE  RevisedInv(tx[q])'
<1>. DEFINE t == tx[q]
            old == Apply(versions, t.ops)
            now == Apply(versions', t.ops)
<1>1. /\ t \in Tx /\ t.ops \in OpTable /\ RevisedInv(t)
      /\ tx'[q] = t
      /\ heads' \in [Scopes -> Rev]
      /\ \A s \in Scopes : r.revs[s] = None => heads'[s] = heads[s]
      /\ versions \in [Key -> Seq(BOOLEAN)]
      /\ versions' \in [Key -> Seq(BOOLEAN)]
      /\ \A k \in Key : /\ Len(versions[k]) \in Nat
                        /\ Len(versions'[k]) \in Nat
                        /\ r.items[k] = 0 => versions'[k] = versions[k]
                        /\ r.items[k] # 0 => Len(versions'[k]) = Len(versions[k]) + 1
  BY RequestFacts, TxIs, CommitEffect
<1>2. \A s \in Scopes : t.heads[s] # None => r.revs[s] = None
  BY DEF IInv, LockInv, Ready
<1>. HIDE DEF t
<1>3. /\ old \in [Key -> Seq(BOOLEAN)]
      /\ \A k \in Key : /\ Len(old[k]) \in Nat
                        /\ t.ops[k] = None => old[k] = versions[k]
                        /\ t.ops[k] # None => Len(old[k]) = Len(versions[k]) + 1
  BY <1>1, ApplyIs
<1>4. /\ now \in [Key -> Seq(BOOLEAN)]
      /\ \A k \in Key : /\ Len(now[k]) \in Nat
                        /\ t.ops[k] = None => now[k] = versions'[k]
                        /\ t.ops[k] # None => Len(now[k]) = Len(versions'[k]) + 1
  BY <1>1, ApplyIs
<1>5. \A k \in Key : Len(old[k]) <= Len(now[k])
  <2>. HIDE DEF old, now
  <2>1. \A k \in Key : Len(versions[k]) <= Len(versions'[k])
    <3>1. \A k \in Key : versions'[k] = versions[k] \/ Len(versions'[k]) = Len(versions[k]) + 1
      BY <1>1
    <3>. QED BY <1>1, <3>1
  <2>2. ASSUME NEW k \in Key PROVE Len(old[k]) <= Len(now[k])
    <3>1. Len(versions[k]) \in Nat /\ Len(versions'[k]) \in Nat
      BY <1>1
    <3>2. CASE t.ops[k] = None
      BY <1>3, <1>4, <2>1, <3>2
    <3>3. CASE t.ops[k] # None
      <4>1. Len(old[k]) = Len(versions[k]) + 1 /\ Len(now[k]) = Len(versions'[k]) + 1
        BY <1>3, <1>4, <3>3
      <4>2. Len(versions[k]) <= Len(versions'[k])
        BY <2>1
      <4>. QED BY <3>1, <4>1, <4>2
    <3>. QED BY <3>2, <3>3
  <2>. QED BY <2>2
<1>6. \A k \in Key : versions'[k] = versions[k] => now[k] = old[k]
  BY DEF Apply
<1>. HIDE DEF old, now
<1>7. ASSUME t.step = "commit", NEW s \in Scopes, t.revs[s] # None
      PROVE  /\ t.revs[s] \in Revision
             /\ \A n \in Names :
                  /\ t.revs[s][n] >= t.items[<<s, n>>]
                  /\ heads'[s] # NoRev => t.revs[s][n] >= heads'[s][n]
                  /\ t.revs[s][n] <= Len(now[<<s, n>>])
             /\ Declared(s)' => t.revs[s] = ScopeRevision(now, s)
  <2>1. /\ t.heads[s] # None
        /\ t.revs[s] \in Revision
        /\ \A n \in Names :
             /\ t.revs[s][n] >= t.items[<<s, n>>]
             /\ heads[s] # NoRev => t.revs[s][n] >= heads[s][n]
             /\ t.revs[s][n] <= Len(old[<<s, n>>])
        /\ Declared(s) => t.revs[s] = ScopeRevision(old, s)
    BY <1>1, <1>7 DEF RevisedInv, old
  <2>2. r.revs[s] = None /\ heads'[s] = heads[s]
    BY <1>1, <1>2, <2>1
  <2>3. ASSUME NEW n \in Names PROVE t.revs[s][n] <= Len(now[<<s, n>>])
    <3>1. <<s, n>> \in Key
      BY KeyIsPair
    <3>2. t.revs[s][n] \in Nat /\ t.revs[s][n] <= Len(old[<<s, n>>])
      BY <2>1, RevisionIs
    <3>3. Len(old[<<s, n>>]) <= Len(now[<<s, n>>])
      BY <1>5, <3>1
    <3>4. Len(old[<<s, n>>]) \in Nat /\ Len(now[<<s, n>>]) \in Nat
      BY <1>3, <1>4, <3>1
    <3>. QED BY <3>2, <3>3, <3>4
  <2>4. ASSUME Declared(s)' PROVE t.revs[s] = ScopeRevision(now, s)
    <3>1. Declared(s) /\ \A n \in Names : versions'[<<s, n>>] = versions[<<s, n>>]
      BY <2>2, <2>4, DeclaredBefore
    <3>2. \A n \in Names : now[<<s, n>>] = old[<<s, n>>]
      BY <1>6, <3>1, KeyIsPair
    <3>. QED BY <2>1, <3>1, <3>2 DEF ScopeRevision
  <2>. QED BY <2>1, <2>2, <2>3, <2>4
<1>8. \A s \in Scopes : t.step = "commit" => (t.heads[s] = None <=> t.revs[s] = None)
  BY <1>1 DEF RevisedInv
<1>9. now = Apply(versions', tx'[q].ops) /\ tx'[q] = t
  BY <1>1 DEF now
<1>. QED BY <1>7, <1>8, <1>9 DEF RevisedInv, Apply


LEMMA CommitKeeps ==
  ASSUME IInv, NEW p \in Publishers, Commit(p)
  PROVE  IInv'
<1>. DEFINE r == ReleaseOf(p)
<1>1. Ready(p, r)
  BY CommitIsReady DEF Commit
<1>. HIDE DEF r
<1>2. /\ versions' \in [Key -> Seq(BOOLEAN)]
      /\ releases' \in Seq(Release)
      /\ heads' \in [Scopes -> Rev]
      /\ tx' = [tx EXCEPT ![p] = NoTx]
      /\ tx \in [Publishers -> Tx]
      /\ tx'[p] = NoTx
      /\ \A q \in Publishers \ {p} : tx'[q] = tx[q]
      /\ UNCHANGED <<clock, edits, late>>
  BY <1>1, CommitEffect
<1>3. TypeOK'
  <2>1. cs' \in [Changesets -> ChangesetRow]
    BY <1>1 DEF Commit, IInv, TypeOK, ChangesetRow
  <2>2. tx' \in [Publishers -> Tx]
    BY <1>2, NoTxIs
  <2>. QED BY <1>2, <2>1, <2>2 DEF TypeOK, IInv
<1>4. TxInv'
  <2>1. ASSUME NEW q \in Publishers \ {p}
        PROVE  StepInv(tx[q])' /\ TimeInv(tx[q])' /\ OrderInv(tx[q])'
    <3>1. tx'[q] = tx[q] /\ StepInv(tx[q]) /\ TimeInv(tx[q]) /\ OrderInv(tx[q]) /\ clock' = clock
      BY <1>2, RequestFacts
    <3>2. StepInv(tx[q])'
      BY <3>1 DEF StepInv
    <3>3. TimeInv(tx[q])'
      BY <3>1 DEF TimeInv, TimeBy
    <3>4. OrderInv(tx[q])'
      BY <3>1 DEF OrderInv
    <3>. QED BY <3>2, <3>3, <3>4
  <2>2. \A q \in Publishers \ {p} : ReadInv(tx[q])' /\ RevisedInv(tx[q])'
    BY <1>1, CommitKeepsReads, CommitKeepsRevisions
  <2>3. StepInv(tx[p])' /\ TimeInv(tx[p])' /\ OrderInv(tx[p])'
    BY <1>2, NoTxIs DEF StepInv, TimeInv, TimeBy, OrderInv
  <2>4. ReadInv(tx[p])' /\ RevisedInv(tx[p])'
    BY <1>2, NoTxIs DEF ReadInv, RevisedInv
  <2>. QED BY <2>1, <2>2, <2>3, <2>4 DEF TxInv
<1>5. LockInv'
  <2>1. /\ \A s \in Scopes : tx'[p].heads[s] = None
        /\ \A k \in Key : tx'[p].items[k] = 0
    BY <1>2, NoTxIs
  <2>. QED BY <1>2, <2>1 DEF IInv, LockInv
<1>6. ReleaseInv' /\ HeadsInv'
  BY <1>1, CommitKeepsReleases, CommitKeepsHeads
<1>. QED BY <1>3, <1>4, <1>5, <1>6 DEF IInv

-------------------------------------------------------------------------------
(* The invariant holds in every behaviour *)

LEMMA InitInv == Init => IInv
<1>. SUFFICES ASSUME Init PROVE IInv
  OBVIOUS
<1>1. /\ NoTx \in Tx
      /\ NoTx.step = "idle"
      /\ \A s \in Scopes : NoTx.base[s] = None /\ NoTx.heads[s] = None /\ NoTx.revs[s] = None
      /\ \A k \in Key : NoTx.items[k] = 0 /\ NoTx.ops[k] = None
  BY NoTxIs
<1>2. TypeOK
  <2>1. NoRow \in ChangesetRow
    BY DEF NoRow, ChangesetRow, RevTable, OpTable
  <2>2. versions \in [Key -> Seq(BOOLEAN)]
    BY DEF Init
  <2>3. heads \in [Scopes -> Rev]
    BY DEF Init, Rev
  <2>4. releases \in Seq(Release)
    BY DEF Init
  <2>. QED BY <1>1, <2>1, <2>2, <2>3, <2>4 DEF Init, TypeOK
<1>3. TxInv
  <2>1. \A p \in Publishers : tx[p] = NoTx
    BY DEF Init
  <2>2. StepInv(NoTx) /\ TimeInv(NoTx) /\ OrderInv(NoTx) /\ ReadInv(NoTx) /\ RevisedInv(NoTx)
    BY <1>1 DEF StepInv, TimeInv, TimeBy, OrderInv, ReadInv, RevisedInv
  <2>. QED BY <2>1, <2>2 DEF TxInv
<1>4. LockInv
  BY <1>1 DEF Init, LockInv
<1>5. ReleaseInv
  BY DEF Init, ReleaseInv
<1>6. HeadsInv
  BY DEF Init, HeadsInv, HeadInv, LastInv, Covering
<1>. QED BY <1>2, <1>3, <1>4, <1>5, <1>6 DEF IInv

LEMMA NextInv == IInv /\ [Next]_vars => IInv'
<1>. SUFFICES ASSUME IInv, [Next]_vars PROVE IInv'
  OBVIOUS
<1>1. ASSUME NEW c \in Changesets, Author(c) PROVE IInv'
  BY <1>1, AuthorKeeps
<1>2. ASSUME NEW p \in Publishers, NEW c \in Changesets, PublishRead(p, c) PROVE IInv'
  BY <1>2, PublishReadKeeps
<1>3. ASSUME NEW p \in Publishers, TxStep(p) PROVE IInv'
  BY <1>3, PublishReadOpsKeeps, LockRowKeeps, LockHeadKeeps, CheckBaseKeeps, WriteOpKeeps,
     ReviseKeeps, CommitKeeps DEF TxStep
<1>4. ASSUME NEW p \in Publishers, Crash(p) PROVE IInv'
  BY <1>4, AbortKeeps DEF Crash
<1>5. CASE UNCHANGED vars
  <2>1. /\ cs' \in [Changesets -> ChangesetRow] /\ edits' \in Nat /\ late' \in Nat
        /\ UNCHANGED <<versions, releases, heads, tx, clock>>
    BY <1>5 DEF vars, IInv, TypeOK
  <2>. QED BY <2>1, RowsKeep
<1>. QED BY <1>1, <1>2, <1>3, <1>4, <1>5 DEF Next

\* The inductive invariant of the publishing transaction
THEOREM Invariance == Spec => []IInv
<1>1. Init => IInv
  BY InitInv
<1>2. IInv /\ [Next]_vars => IInv'
  BY NextInv
<1>. QED BY <1>1, <1>2, PTL DEF Spec

\* Every variable keeps its type.
THEOREM TypeCorrect == Spec => []TypeOK
<1>1. IInv => TypeOK
  BY DEF IInv
<1>. QED BY <1>1, Invariance, PTL


-------------------------------------------------------------------------------
(* Heads and contents *)

\* A scope that some release covers has a revision.
LEMMA CoveredHasRevision ==
  ASSUME IInv, NEW s \in Scopes, Covering(releases, s) # {}
  PROVE  heads[s] # NoRev /\ heads[s] \in Revision
<1>1. PICK j \in Covering(releases, s) : heads[s] = releases[j].revs[s]
  BY DEF IInv, HeadsInv, HeadInv, LastInv
<1>2. j \in DOMAIN releases
  BY DEF Covering
<1>3. releases[j].revs[s] # NoRev
  BY <1>2 DEF IInv, ReleaseInv
<1>4. heads[s] \in Rev
  BY DEF IInv, TypeOK
<1>. QED BY <1>1, <1>3, <1>4, RevisionIs

\* The head of a scope that every release had in its base is the revision of what
\* the scope holds.
THEOREM HeadsAreTrue == Spec => []HeadsMatchContents
<1>1. IInv => HeadsMatchContents
  <2>. SUFFICES ASSUME IInv, NEW s \in Scopes,
                       NEW i \in DOMAIN releases, NEW n \in Names,
                       releases[i].items[<<s, n>>] # 0,
                       \A j \in DOMAIN releases :
                         (\E m \in Names : releases[j].items[<<s, m>>] # 0) =>
                           \A m \in Names : ~Undeclared(j, <<s, m>>)
                PROVE  heads[s] = ScopeRevision(versions, s)
    BY DEF HeadsMatchContents
  <2>1. Declared(s)
    BY DEF Declared, Undeclared
  <2>2. releases[i].base[s] # None
    BY <2>1 DEF Declared, Undeclared
  <2>3. i \in Covering(releases, s)
    BY <2>2 DEF Covering, IInv, ReleaseInv
  <2>4. heads[s] # NoRev
    BY <2>3, CoveredHasRevision
  <2>. QED BY <2>1, <2>4 DEF IInv, HeadsInv, HeadInv
<1>. QED BY <1>1, Invariance, PTL

-------------------------------------------------------------------------------
(* Lost updates *)

\* What makes an update lost holds of two releases of q as it did of releases.
LEMMA LostUpdatesKept ==
  ASSUME IInv, LostUpdatesExplained, NEW p \in Publishers, Commit(p)
  PROVE  LostUpdatesExplained'
<1>. DEFINE r == ReleaseOf(p)
            new == Len(releases) + 1
<1>1. Ready(p, r)
  BY CommitIsReady DEF Commit
<1>. HIDE DEF r
<1>2. /\ r \in Release /\ releases \in Seq(Release)
      /\ releases' = Append(releases, r)
      /\ \A k \in Key : /\ Len(versions[k]) \in Nat
                        /\ r.items[k] # 0 => r.items[k] = Len(versions[k]) + 1
  BY <1>1, CommitEffect
<1>3. /\ DOMAIN releases' = DOMAIN releases \cup {new}
      /\ \A i \in DOMAIN releases : releases'[i] = releases[i]
      /\ releases'[new] = r
  BY <1>2, AppendIs
<1>. HIDE DEF new
<1>4. clock \in Nat /\ r.at < clock /\ \A i \in DOMAIN releases : releases[i].at < clock
  BY <1>1 DEF IInv, TypeOK, ReleaseInv, Ready
<1>5. ASSUME NEW s \in Scopes, NEW rev
      PROVE  /\ PublishedAt(releases, s, rev) \in Nat
             /\ PublishedAt(releases', s, rev) \in Nat
             /\ PublishedAt(releases, s, rev) <= PublishedAt(releases', s, rev)
  <2>1. releases' \in Seq(Release) /\ \A i \in DOMAIN releases' : releases'[i].at < clock
    BY <1>2, <1>3, <1>4, AppendIs
  <2>. QED BY <1>2, <1>4, <2>1, PublishedAtIs, PublishedAtGrows
<1>6. \A i \in DOMAIN releases :
        /\ releases[i] \in Release
        /\ releases[i].at \in Nat
        /\ releases[i].items \in [Key -> Nat]
        /\ releases[i].base \in RevTable
  <2>1. \A i \in DOMAIN releases : releases[i] \in Release
    BY <1>2
  <2>. QED BY <2>1 DEF Release, ItemTable
<1>7. SUFFICES ASSUME NEW i \in DOMAIN releases', NEW j \in DOMAIN releases', NEW k \in Key,
                      releases'[j].items[k] # 0,
                      releases'[i].items[k] = releases'[j].items[k] + 1,
                      ~ /\ releases'[i].base[k[1]] \notin {None, NoRev}
                        /\ releases'[i].base[k[1]][k[2]] >= releases'[j].items[k],
                      releases'[i].ops[k].expect = -1,
                      releases'[i].items[k] # 0 => releases'[i].base[k[1]] # None,
                      releases'[j].base[k[1]] # None
               PROVE  releases'[j].at <= PublishedAt(releases', k[1], releases'[i].base[k[1]])
  BY DEF LostUpdatesExplained, Overwrote, Undeclared
<1>8. k[1] \in Scopes /\ k[2] \in Names /\ <<k[1], k[2]>> = k
  BY KeyParts
<1>9. CASE i \in DOMAIN releases /\ j \in DOMAIN releases
  <2>1. releases[j].at <= PublishedAt(releases, k[1], releases[i].base[k[1]])
    BY <1>3, <1>7, <1>9 DEF LostUpdatesExplained, Overwrote, Undeclared
  <2>. QED BY <1>3, <1>5, <1>6, <1>8, <1>9, <2>1
<1>10. CASE j = new
  <2>1. i # new
    <3>1. r.items[k] \in Nat
      BY <1>2 DEF Release, ItemTable
    <3>. QED BY <1>3, <1>7, <1>10, <3>1
  <2>2. i \in DOMAIN releases /\ releases[i].items[k] <= Len(versions[k])
    BY <1>3, <2>1 DEF IInv, ReleaseInv
  <2>3. r.items[k] = Len(versions[k]) + 1 /\ releases[i].items[k] = r.items[k] + 1
    BY <1>2, <1>3, <1>7, <1>10, <2>2
  <2>. QED BY <1>2, <2>2, <2>3
<1>11. CASE i = new /\ j \in DOMAIN releases
  <2>. DEFINE s == k[1]
              b == r.base[s]
  <2>1. /\ b # None
        /\ releases[j].base[s] # None
        /\ releases[j].items[k] # 0
        /\ r.items[k] = releases[j].items[k] + 1
        /\ ~(b \notin {None, NoRev} /\ b[k[2]] >= releases[j].items[k])
    <3>1. releases[j].items[k] \in Nat
      BY <1>6, <1>11
    <3>. QED BY <1>3, <1>7, <1>11, <3>1
  <2>2. j \in Covering(releases, s)
    BY <1>8, <1>11, <2>1 DEF Covering, IInv, ReleaseInv
  <2>3. heads[s] # NoRev /\ heads[s] \in Revision /\ heads[s] # None
    BY <1>8, <2>2, CoveredHasRevision, RevisionIs
  <2>4. heads[s][k[2]] >= releases[j].items[k]
    BY <1>8, <2>2, <2>3 DEF IInv, HeadsInv, HeadInv
  <2>5. b # heads[s]
    BY <2>1, <2>3, <2>4
  <2>6. tx[p].heads[s] = heads[s]
    BY <1>1, <1>8, <2>1 DEF Ready
  <2>7. k \in Present(r.ops)
    <3>1. r.items[k] # 0
      BY <1>6, <1>11, <2>1
    <3>2. r.ops[k] # None
      BY <1>1, <3>1 DEF Ready
    <3>3. r.ops \in OpTable
      BY <1>2 DEF Release
    <3>. QED BY <3>2, <3>3 DEF Present, OpTable
  <2>8. k \notin Overlap(releases, r.ops, r.base, tx[p].heads)
    BY <1>1 DEF Ready
  <2>9. k \notin KeysChangedSince(releases, s, b)
    BY <2>1, <2>5, <2>6, <2>7, <2>8 DEF Overlap
  <2>10. ~(releases[j].at > PublishedAt(releases, s, b))
    BY <2>1, <2>2, <2>9 DEF KeysChangedSince
  <2>11. releases[j].at <= PublishedAt(releases, s, b)
    BY <1>5, <1>6, <1>8, <1>11, <2>10
  <2>12. PublishedAt(releases, s, b) <= PublishedAt(releases', s, b)
    BY <1>5, <1>8
  <2>. QED BY <1>3, <1>5, <1>6, <1>8, <1>11, <2>11, <2>12
<1>. QED BY <1>3, <1>9, <1>10, <1>11

\* An update is lost only where a changeset touched a scope that was not in its base,
\* or where the overwritten release has an earlier timestamp than its commit.
THEOREM LostUpdates == Spec => []LostUpdatesExplained
<1>1. Init => LostUpdatesExplained
  BY DEF Init, LostUpdatesExplained
<1>2. IInv /\ LostUpdatesExplained /\ [Next]_vars => LostUpdatesExplained'
  <2>. SUFFICES ASSUME IInv, LostUpdatesExplained, [Next]_vars
                PROVE  LostUpdatesExplained'
    OBVIOUS
  <2>1. CASE \E p \in Publishers : Commit(p)
    BY <2>1, LostUpdatesKept
  <2>2. CASE releases' = releases
    BY <2>2 DEF LostUpdatesExplained, Overwrote, Undeclared
  <2>3. releases' = releases \/ \E p \in Publishers : Commit(p)
    BY DEF Next, Author, TxStep, CreateBegin, CreateReadHead, CreateInsert, Edit, Approve,
           LateApprove, PublishRead, PublishReadOps, LockRow, LockHead, CheckBase, WriteOp,
           Revise, Crash, vars
  <2>. QED BY <2>1, <2>2, <2>3
<1>. QED BY <1>1, <1>2, Invariance, PTL DEF Spec


-------------------------------------------------------------------------------
(* No deadlock *)

LEMMA KeyFinite == IsFiniteSet(Key)
BY ScopesAssumption, NamesAssumption, FS_Product DEF Key

\* A nonempty set of keys has a last one.
LEMMA LastKey ==
  ASSUME NEW K \in SUBSET Key, K # {}
  PROVE  \E k \in K : \A l \in K : ~(Before(k, l) /\ k # l)
<1>. DEFINE R == {e \in Key \X Key : Before(e[1], e[2]) /\ e[1] # e[2]}
<1>1. \A k, l \in Key : <<k, l>> \in R <=> Before(k, l) /\ k # l
  OBVIOUS
<1>. HIDE DEF R
<1>2. IsFiniteSet(K)
  BY KeyFinite, FS_Subset
<1>3. \A x \in K : <<x, x>> \notin R
  BY <1>1
<1>4. ASSUME NEW x \in K, NEW y \in K, NEW z \in K, <<x, y>> \in R, <<y, z>> \in R
      PROVE  <<x, z>> \in R
  <2>1. Before(x, y) /\ x # y /\ Before(y, z) /\ y # z
    BY <1>1, <1>4
  <2>2. Before(x, z)
    BY <2>1, KeyParts DEF Before
  <2>3. x # z
    BY <2>1, BeforeAntisymmetric
  <2>. QED BY <1>1, <2>2, <2>3
<1>5. \E k \in K : \A l \in K : <<k, l>> \notin R
  BY <1>2, <1>3, <1>4, FiniteMaximal
<1>. QED BY <1>1, <1>5

LEMMA LastScope ==
  ASSUME NEW H \in SUBSET Scopes, H # {}
  PROVE  \E s \in H : \A u \in H : ~(s < u)
<1>. DEFINE R == {e \in Scopes \X Scopes : e[1] < e[2]}
<1>1. \A s, u \in Scopes : <<s, u>> \in R <=> s < u
  OBVIOUS
<1>. HIDE DEF R
<1>2. IsFiniteSet(H) /\ \A s \in H : s \in Nat
  BY ScopesAssumption, FS_Subset
<1>3. \A x \in H : <<x, x>> \notin R
  BY <1>1, <1>2
<1>4. \A x, y, z \in H : <<x, y>> \in R /\ <<y, z>> \in R => <<x, z>> \in R
  BY <1>1, <1>2
<1>5. \E s \in H : \A u \in H : <<s, u>> \notin R
  BY <1>2, <1>3, <1>4, FiniteMaximal
<1>. QED BY <1>1, <1>5

\* A publisher that waits for a bundle waits for one that comes after all it holds.
LEMMA NextBundleIs ==
  ASSUME IInv, NEW p \in Publishers, OpsLeft(p) # {}
  PROVE  /\ NextBundle(p) \in Key
         /\ \A k \in Key : HoldsBundle(p, k) => Before(k, NextBundle(p)) /\ k # NextBundle(p)
<1>1. tx[p] \in Tx /\ OrderInv(tx[p])
  BY RequestFacts
<1>2. NextBundle(p) \in OpsLeft(p)
  BY <1>1, OpsLeftIs, FirstKeyIs DEF NextBundle
<1>3. /\ NextBundle(p) \in Key
      /\ tx[p].ops[NextBundle(p)] # None
      /\ tx[p].items[NextBundle(p)] = 0
  BY <1>1, <1>2, OpsLeftIs
<1>. QED BY <1>1, <1>3 DEF OrderInv, HoldsBundle

LEMMA NextHeadIs ==
  ASSUME IInv, NEW p \in Publishers, ScopesLeft(p) # {}
  PROVE  /\ NextHead(p) \in Scopes
         /\ \A s \in Scopes : HoldsHead(p, s) => s < NextHead(p)
<1>1. tx[p] \in Tx /\ OrderInv(tx[p])
  BY RequestFacts
<1>2. NextHead(p) \in ScopesLeft(p)
  BY <1>1, ScopesLeftIs, LeastIs DEF NextHead
<1>3. /\ NextHead(p) \in Scopes
      /\ tx[p].base[NextHead(p)] # None
      /\ tx[p].heads[NextHead(p)] = None
  BY <1>1, <1>2, ScopesLeftIs
<1>. QED BY <1>1, <1>3 DEF OrderInv, HoldsHead

\* No set of publishers waits for itself: of those that wait for a bundle, the one that
\* waits for the last waits for one that does not wait; and then so with heads and rows.
LEMMA InvNoDeadlock ==
  ASSUME IInv
  PROVE  NoDeadlock
<1>. SUFFICES ASSUME NEW S \in SUBSET Publishers, S # {},
                     \A p \in S : \E q \in S : WaitsFor(p, q)
              PROVE  FALSE
  BY DEF NoDeadlock
<1>1. \A p \in S : p \in Publishers /\ StepInv(tx[p]) /\ tx[p] \in Tx
  BY RequestFacts
<1>2. \A p \in S : \/ tx[p].step = "row"
                   \/ tx[p].step = "heads" /\ ScopesLeft(p) # {}
                   \/ tx[p].step = "write" /\ OpsLeft(p) # {}
  BY DEF WaitsFor
<1>3. ASSUME NEW p \in S, tx[p].step = "write"
      PROVE  FALSE
  <2>. DEFINE W == {q \in S : tx[q].step = "write"}
              K == {k \in Key : \E q \in W : k = NextBundle(q)}
  <2>1. \A q \in W : NextBundle(q) \in Key
    BY <1>1, <1>2, NextBundleIs
  <2>2. K # {} /\ K \in SUBSET Key
    BY <1>3, <2>1
  <2>3. PICK k \in K : \A l \in K : ~(Before(k, l) /\ k # l)
    <3>. HIDE DEF K
    <3>. QED BY <2>2, LastKey
  <2>4. PICK q \in W : k = NextBundle(q)
    OBVIOUS
  <2>5. PICK w \in S : WaitsFor(q, w)
    OBVIOUS
  <2>6. HoldsBundle(w, k)
    BY <2>4, <2>5 DEF WaitsFor
  <2>7. tx[w].step = "write" /\ OpsLeft(w) # {}
    BY <1>1, <1>2, <2>6 DEF HoldsBundle, StepInv
  <2>8. Before(k, NextBundle(w)) /\ k # NextBundle(w) /\ NextBundle(w) \in Key
    BY <1>1, <2>6, <2>7, NextBundleIs
  <2>9. NextBundle(w) \in K
    BY <2>7, <2>8
  <2>. QED BY <2>3, <2>8, <2>9
<1>4. ASSUME NEW p \in S, tx[p].step = "heads"
      PROVE  FALSE
  <2>. DEFINE W == {q \in S : tx[q].step = "heads"}
              H == {s \in Scopes : \E q \in W : s = NextHead(q)}
  <2>1. \A q \in W : NextHead(q) \in Scopes
    BY <1>1, <1>2, NextHeadIs
  <2>2. H # {} /\ H \in SUBSET Scopes
    BY <1>4, <2>1
  <2>3. PICK s \in H : \A u \in H : ~(s < u)
    <3>. HIDE DEF H
    <3>. QED BY <2>2, LastScope
  <2>4. PICK q \in W : s = NextHead(q)
    OBVIOUS
  <2>5. PICK w \in S : WaitsFor(q, w)
    OBVIOUS
  <2>6. HoldsHead(w, s)
    BY <2>4, <2>5 DEF WaitsFor
  <2>7. tx[w].step = "heads" /\ ScopesLeft(w) # {}
    BY <1>1, <1>2, <1>3, <2>6 DEF HoldsHead, StepInv
  <2>8. s < NextHead(w) /\ NextHead(w) \in Scopes
    BY <1>1, <2>6, <2>7, NextHeadIs
  <2>9. NextHead(w) \in H
    BY <2>7, <2>8
  <2>. QED BY <2>3, <2>8, <2>9
<1>5. \A p \in S : tx[p].step = "row"
  BY <1>2, <1>3, <1>4
<1>. QED BY <1>5 DEF WaitsFor, HoldsRow, InTx

\* Publishers never wait for each other in a circle.
THEOREM DeadlockFree == Spec => []NoDeadlock
<1>1. IInv => NoDeadlock
  BY InvNoDeadlock
<1>. QED BY <1>1, Invariance, PTL


-------------------------------------------------------------------------------
(* The refinement: a commit is a step of Publication, and nothing else is *)

\* The operators of Publication are those of this module.
LEMMA SameOperators ==
  /\ Atomic!Key = Key
  /\ \A rels, ops, base, current :
       Atomic!Overlap(rels, ops, base, current) = Overlap(rels, ops, base, current)
  /\ \A table : Atomic!Present(table) = Present(table)
  /\ \A vs, k : Atomic!CurrentVersion(vs, k) = CurrentVersion(vs, k)
  /\ \A vs, k, op : Atomic!Accepts(vs, k, op) <=> Accepts(vs, k, op)
  /\ \A vs, ops : Atomic!Apply(vs, ops) = Apply(vs, ops)
<1>1. Atomic!Key = Key
  BY DEF Atomic!Key, Key
<1>2. \A rels, s : Atomic!Covering(rels, s) = Covering(rels, s)
  BY DEF Atomic!Covering, Covering
<1>3. \A rels, s, rev : Atomic!PublishedAt(rels, s, rev) = PublishedAt(rels, s, rev)
  BY DEF Atomic!PublishedAt, PublishedAt, Atomic!Covering, Covering
<1>4. \A rels, s, rev : Atomic!KeysChangedSince(rels, s, rev) = KeysChangedSince(rels, s, rev)
  BY <1>1, <1>2, <1>3 DEF Atomic!KeysChangedSince, KeysChangedSince
<1>5. \A table : Atomic!Present(table) = Present(table)
  BY DEF Atomic!Present, Present
<1>6. \A rels, ops, base, current :
        Atomic!Overlap(rels, ops, base, current) = Overlap(rels, ops, base, current)
  BY <1>4, <1>5 DEF Atomic!Overlap, Overlap
<1>7. \A vs, k : Atomic!CurrentVersion(vs, k) = CurrentVersion(vs, k)
  BY DEF Atomic!CurrentVersion, CurrentVersion
<1>8. \A vs, k, op : Atomic!Accepts(vs, k, op) <=> Accepts(vs, k, op)
  BY <1>7 DEF Atomic!Accepts, Accepts, Atomic!Deleted, Deleted
<1>9. \A vs, ops : Atomic!Apply(vs, ops) = Apply(vs, ops)
  BY <1>1 DEF Atomic!Apply, Apply
<1>. QED BY <1>1, <1>5, <1>6, <1>7, <1>8, <1>9

\* The head is the revision that the last release covering the scope gave it.
LEMMA LastRevisionIs ==
  ASSUME IInv, NEW s \in Scopes
  PROVE  Atomic!LastRevision(releases, s) = heads[s]
<1>. DEFINE C == Covering(releases, s)
            last == CHOOSE i \in C : \A j \in C : j <= i
<1>1. LastInv(s)
  BY DEF IInv, HeadsInv, HeadInv
<1>2. Atomic!LastRevision(releases, s) = IF C = {} THEN NoRev ELSE releases[last].revs[s]
  BY DEF Atomic!LastRevision, Atomic!Covering, Covering
<1>3. CASE C = {}
  BY <1>1, <1>2, <1>3 DEF LastInv
<1>4. CASE C # {}
  <2>1. PICK i \in C : (\A j \in C : j <= i) /\ heads[s] = releases[i].revs[s]
    BY <1>1, <1>4 DEF LastInv
  <2>2. C \subseteq Nat
    BY DEF Covering, IInv, TypeOK
  <2>. HIDE DEF C
  <2>3. last \in C /\ \A j \in C : j <= last
    BY <2>1
  <2>. HIDE DEF last
  <2>4. last = i
    BY <2>1, <2>2, <2>3
  <2>. QED BY <1>2, <1>4, <2>1, <2>4
<1>. QED BY <1>3, <1>4

LEMMA CommitPublishes ==
  ASSUME IInv, NEW p \in Publishers, Commit(p)
  PROVE  Atomic!Publish
<1>. DEFINE r == ReleaseOf(p)
            current == [s \in Scopes |-> Atomic!LastRevision(releases, s)]
<1>1. Ready(p, r)
  BY CommitIsReady DEF Commit
<1>. HIDE DEF r
<1>2. /\ r \in Release /\ releases \in Seq(Release)
      /\ r.ops \in OpTable /\ r.items \in [Key -> Nat]
      /\ releases' = Append(releases, r)
      /\ versions' = Apply(versions, r.ops)
  BY <1>1, CommitEffect
<1>3. /\ Len(releases') = Len(releases) + 1
      /\ \A i \in DOMAIN releases : releases'[i] = releases[i]
      /\ releases'[Len(releases')] = r
  BY <1>2, AppendIs
<1>4. Overlap(releases, r.ops, r.base, current) = {}
  <2>1. ASSUME NEW k \in Overlap(releases, r.ops, r.base, current)
        PROVE  FALSE
    <3>1. /\ k \in Present(r.ops)
          /\ r.base[k[1]] # None
          /\ current[k[1]] # r.base[k[1]]
          /\ k \in KeysChangedSince(releases, k[1], r.base[k[1]])
      BY <2>1 DEF Overlap
    <3>2. k[1] \in Scopes
      BY <1>2, <3>1, KeyParts DEF Present, OpTable
    <3>3. current[k[1]] = heads[k[1]]
      BY <3>2, LastRevisionIs
    <3>4. tx[p].heads[k[1]] = heads[k[1]]
      BY <1>1, <3>1, <3>2 DEF Ready
    <3>5. k \in Overlap(releases, r.ops, r.base, tx[p].heads)
      BY <3>1, <3>3, <3>4 DEF Overlap
    <3>. QED BY <1>1, <3>5 DEF Ready
  <2>. QED BY <2>1
<1>5. \A k \in Present(r.ops) : Accepts(versions, k, r.ops[k])
  BY <1>1, <1>2 DEF Ready, Present, OpTable
<1>6. r.items = [k \in Key |-> IF r.ops[k] = None THEN 0 ELSE CurrentVersion(versions, k) + 1]
  <2>1. \A k \in Key : r.items[k] = IF r.ops[k] = None THEN 0 ELSE CurrentVersion(versions, k) + 1
    BY <1>1 DEF Ready, CurrentVersion
  <2>. QED BY <1>2, <2>1
<1>. HIDE DEF current
<1>7. /\ Atomic!Overlap(releases, r.ops, r.base, current) = {}
      /\ \A k \in Atomic!Present(r.ops) : Atomic!Accepts(versions, k, r.ops[k])
      /\ r.items = [k \in Atomic!Key |->
                      IF r.ops[k] = None THEN 0 ELSE Atomic!CurrentVersion(versions, k) + 1]
      /\ versions' = Atomic!Apply(versions, r.ops)
  BY <1>2, <1>4, <1>5, <1>6, SameOperators
<1>8. current = [s \in Scopes |-> Atomic!LastRevision(releases, s)]
  BY DEF current
<1>. QED BY <1>3, <1>7, <1>8 DEF Atomic!Publish

\* Publishing, interleaved as it is, amounts to whole releases made one after another.
THEOREM Refinement == Spec => PublishesAtomically
<1>1. Init => Atomic!Init
  BY SameOperators DEF Init, Atomic!Init
<1>2. IInv /\ [Next]_vars => [Atomic!Next]_<<versions, releases>>
  <2>. SUFFICES ASSUME IInv, [Next]_vars
                PROVE  Atomic!Next \/ UNCHANGED <<versions, releases>>
    OBVIOUS
  <2>1. CASE \E p \in Publishers : Commit(p)
    BY <2>1, CommitPublishes DEF Atomic!Next
  <2>2. UNCHANGED <<versions, releases>> \/ \E p \in Publishers : Commit(p)
    BY DEF Next, Author, TxStep, CreateBegin, CreateReadHead, CreateInsert, Edit, Approve,
           LateApprove, PublishRead, PublishReadOps, LockRow, LockHead, CheckBase, WriteOp,
           Revise, Crash, vars
  <2>. QED BY <2>1, <2>2
<1>. QED BY <1>1, <1>2, Invariance, PTL DEF Spec, PublishesAtomically, Atomic!Spec


===============================================================================
