------------------------------ MODULE SyncProofs ------------------------------
(***************************************************************************)
(* Proofs about Sync, for any resources, names, projects and groups, and   *)
(* any number of changes, edits and faults: between syncs the journal says *)
(* what is on disk, the user's own content is kept, and no resource is     *)
(* passed over for one that is less specific. And about Policy, the other  *)
(* half of what Resolve gives a snapshot: what the merge of any number of  *)
(* policies comes to.                                                      *)
(***************************************************************************)
EXTENDS Sync, Policy, FiniteSetTheorems, TLAPS

-------------------------------------------------------------------------------
(* The inductive invariant *)

ServerTyped ==
  /\ now \in [items: Items, way: [Res -> Way], projects: SUBSET Projects, revoked: BOOLEAN]
  /\ blobs \subseteq Sums
  /\ changes \in 0..MaxChanges

ReadTyped ==
  /\ got \in [projects: SUBSET Projects, auto: SUBSET Candidate, items: Items, way: [Res -> Way]]
  /\ snap # <<>> => EntriesOf(snap) \in Entries

ClientTyped ==
  /\ edits \in 0..MaxEdits /\ faults \in 0..MaxFaults
  /\ step \in Steps
  /\ disk \in Files
  /\ journal.files \in [Names -> File \ {Mine}] /\ nj \in [Names -> File \ {Mine}]
  /\ todo \subseteq Names /\ at \in Names \cup {None} /\ look \in File
  /\ disturbed \subseteq Names /\ unreported \in BOOLEAN

Typed == ServerTyped /\ ReadTyped /\ ClientTyped

\* The client writes or removes files.
Writing == {"look", "put", "trim"}

\* Contents are fetched before a file is touched; what is in hand is on the list, and
\* the file is as the client saw it, but for the user.
HandInv ==
  /\ step \in Writing => \A n \in Names : Wanted(n) \in blobs \cup {None} /\ (Wanted(n) = None => nj[n] = None)
  /\ step \in {"look", "put"} => \A n \in todo : Wanted(n) # None
  /\ step = "trim" => \A n \in todo : Wanted(n) = None
  /\ step = "put" => at \in todo
  /\ step = "trim" => at \in todo \cup {None}
  /\ step \in {"put", "trim"} /\ at # None /\ at \notin disturbed => look = disk[at]
  /\ step \notin {"put", "trim"} => at = None
  /\ step \notin Writing \cup {"report"} => nj = NoFiles

\* What a file that nobody disturbed holds: what the old journal says until the client
\* has dealt with it, then what the new one will say.
Expected(n) ==
  CASE step \in {"look", "put"} -> IF Wanted(n) # None /\ n \notin todo THEN nj[n] ELSE journal.files[n]
    [] step = "trim" -> IF n \in todo THEN journal.files[n] ELSE nj[n]
    [] OTHER -> journal.files[n]

DiskInv == \A n \in Names \ disturbed : disk[n] = Expected(n)

ReceiptInv ==
  /\ step = "report" => snap = journal.revision
  /\ ~unreported => applied = journal.revision

IInv == Typed /\ HandInv /\ DiskInv /\ ReceiptInv

-------------------------------------------------------------------------------
(* Lemmas *)

\* The next file, in order, is one of them.
LEMMA LeastOf ==
  ASSUME NEW S \in SUBSET Nat, S # {}
  PROVE  (CHOOSE n \in S : \A m \in S : n <= m) \in S
<1>1. PICK b \in S : TRUE
  OBVIOUS
<1>. DEFINE U == 0..b
            Below(k) == {j \in U : j < k}
            T == {Below(k) : k \in S \cap U}
<1>2. b \in Nat /\ b \in S \cap U /\ IsFiniteSet(U)
  BY FS_Interval
<1>3. T \subseteq FiniteSubsetsOf(U) /\ T # {}
  <2>1. \A k \in S \cap U : Below(k) \in SUBSET U /\ IsFiniteSet(Below(k))
    BY <1>2, FS_Subset
  <2>2. \A k \in S \cap U : Below(k) \in FiniteSubsetsOf(U)
    <3>. HIDE DEF Below, U
    <3>. QED BY <2>1 DEF FiniteSubsetsOf
  <2>. HIDE DEF Below, U
  <2>. QED BY <1>2, <2>2
<1>4. \E A \in T : \A B \in T : <<B, A>> \notin StrictSubsetOrdering(U)
  <2>. HIDE DEF T, U
  <2>. QED BY <1>2, <1>3, FS_StrictSubsetOrderingWellFounded, WFMin
<1>5. PICK k \in S \cap U : \A B \in T : <<B, Below(k)>> \notin StrictSubsetOrdering(U)
  BY <1>4
<1>6. ASSUME NEW m \in S
      PROVE  k <= m
  <2>1. m \in Nat /\ k \in Nat /\ k <= b
    BY <1>2
  <2>. SUFFICES ASSUME m < k PROVE FALSE
    BY <2>1
  <2>2. m \in S \cap U
    BY <1>2, <2>1
  <2>3. Below(m) \subseteq Below(k) /\ m \in Below(k) /\ m \notin Below(m)
    <3>1. \A j \in U : j < m => j < k
      BY <1>2, <2>1
    <3>2. m \in U /\ m < k /\ ~(m < m)
      BY <2>1, <2>2
    <3>. QED BY <3>1, <3>2
  <2>4. Below(m) \in T /\ Below(m) \subseteq U /\ Below(k) \subseteq U
    BY <2>2
  <2>. QED BY <1>5, <2>3, <2>4 DEF StrictSubsetOrdering
<1>. QED BY <1>6

LEMMA WantedSame ==
  ASSUME UNCHANGED snap
  PROVE  \A n : Wanted(n)' = Wanted(n)
  BY DEF Wanted

LEMMA FileFacts ==
  /\ None \in File \ {Mine} /\ NoFiles \in [Names -> File \ {Mine}] /\ NoFiles \in Files
  /\ Mine \in File /\ None \notin Names /\ None \notin Sums
  /\ \A sum \in Sums : sum \in File \ {Mine}
  /\ \A n \in Names : NoFiles[n] = None
  /\ NoRev.files = NoFiles /\ NoRev.revision = <<>>
  BY NoneAssumption, MineAssumption DEF File, Files, NoFiles, NoRev

-------------------------------------------------------------------------------
(* The server *)

\* Whatever the server does, blobs do not go.
LEMMA ServerKeeps ==
  ASSUME IInv, ServerTyped', blobs \subseteq blobs',
         UNCHANGED <<applied, edits, faults, reading, snap, local, unreported>>
  PROVE  IInv'
<1>1. /\ UNCHANGED <<applied, edits, faults, step, got, snap, disk, journal, todo, at, look, nj, disturbed, unreported>>
      /\ \A n : Wanted(n)' = Wanted(n)
  BY WantedSame DEF reading, local
<1>2. ReadTyped' /\ ClientTyped'
  BY <1>1 DEF IInv, Typed, ReadTyped, ClientTyped
<1>3. HandInv'
  BY <1>1 DEF IInv, HandInv
<1>4. DiskInv'
  BY <1>1 DEF IInv, DiskInv, Expected
<1>5. ReceiptInv'
  BY <1>1 DEF IInv, ReceiptInv
<1>. QED BY <1>2, <1>3, <1>4, <1>5 DEF IInv, Typed

LEMMA ReleaseKeeps ==
  ASSUME IInv, NEW r \in Res, NEW sum \in Sums \cup {Tombstone}, Release(r, sum)
  PROVE  IInv'
<1>. DEFINE v == IF now.items[r] = None THEN 0 ELSE now.items[r].version
            item == [version |-> v + 1, sum |-> sum]
            items == [now.items EXCEPT ![r] = item]
            n == [now EXCEPT !.items = items]
<1>1. ServerTyped
  BY DEF IInv, Typed
<1>2. now' = n
  BY <1>1 DEF Release, ServerTyped, Items
<1>3. now.items[r] = None \/ now.items[r] \in Item
  BY <1>1 DEF ServerTyped, Items
<1>4. v \in Nat
  BY <1>3 DEF Item
<1>. HIDE DEF v
<1>5. item \in Item
  BY <1>4 DEF Item
<1>. HIDE DEF item
<1>6. items \in Items
  BY <1>1, <1>5 DEF ServerTyped, Items
<1>. HIDE DEF items
<1>7. n \in [items: Items, way: [Res -> Way], projects: SUBSET Projects, revoked: BOOLEAN]
  BY <1>1, <1>6 DEF ServerTyped
<1>8. blobs' \subseteq Sums /\ blobs \subseteq blobs'
  BY <1>1 DEF Release, ServerTyped
<1>9. changes' \in 0..MaxChanges
  BY <1>1, BoundsAssumption DEF Release, Change, ServerTyped
<1>10. ServerTyped'
  BY <1>2, <1>7, <1>8, <1>9 DEF ServerTyped
<1>. QED BY <1>8, <1>10, ServerKeeps DEF Release

LEMMA HandOutKeeps ==
  ASSUME IInv,
         \/ \E reg \in Regroups : SetGroupBundles(reg[1], reg[2]) \/ CreateAssignment(reg[1], reg[2])
         \/ \E projects \in (SUBSET Projects) \ {{}} : Rebind(projects)
         \/ Unbind
  PROVE  IInv'
<1>1. ServerTyped
  BY DEF IInv, Typed
<1>2. /\ UNCHANGED <<blobs, applied, edits, faults, reading, snap, local, unreported>>
      /\ Change
  BY DEF SetGroupBundles, CreateAssignment, Regroup, Rebind, Unbind
<1>3. changes' \in 0..MaxChanges
  BY <1>1, <1>2, BoundsAssumption DEF Change, ServerTyped
<1>4. now' \in [items: Items, way: [Res -> Way], projects: SUBSET Projects, revoked: BOOLEAN]
  <2>1. ASSUME NEW r \in Res, NEW way \in Way, Regroup(r, way)
        PROVE  now' \in [items: Items, way: [Res -> Way], projects: SUBSET Projects, revoked: BOOLEAN]
    <3>. DEFINE ways == [now.way EXCEPT ![r] = way]
    <3>1. now' = [now EXCEPT !.way = ways]
      BY <1>1, <2>1 DEF Regroup, ServerTyped
    <3>2. ways \in [Res -> Way]
      BY <1>1 DEF ServerTyped
    <3>. HIDE DEF ways
    <3>. QED BY <1>1, <3>1, <3>2 DEF ServerTyped
  <2>2. ASSUME NEW reg \in Regroups, SetGroupBundles(reg[1], reg[2]) \/ CreateAssignment(reg[1], reg[2])
        PROVE  reg[1] \in Res /\ reg[2] \in Way /\ Regroup(reg[1], reg[2])
    BY <2>2, ChangesAssumption DEF SetGroupBundles, CreateAssignment
  <2>3. ASSUME NEW projects \in SUBSET Projects, Rebind(projects)
        PROVE  now' \in [items: Items, way: [Res -> Way], projects: SUBSET Projects, revoked: BOOLEAN]
    <3>. DEFINE p == [now EXCEPT !.projects = projects]
    <3>1. now' = [p EXCEPT !.revoked = FALSE]
      BY <1>1, <2>3 DEF Rebind, ServerTyped
    <3>2. p \in [items: Items, way: [Res -> Way], projects: SUBSET Projects, revoked: BOOLEAN]
      BY <1>1 DEF ServerTyped
    <3>. HIDE DEF p
    <3>. QED BY <3>1, <3>2
  <2>4. CASE Unbind
    BY <1>1, <2>4 DEF Unbind, ServerTyped
  <2>. QED BY <2>1, <2>2, <2>3, <2>4
<1>5. ServerTyped'
  BY <1>1, <1>2, <1>3, <1>4 DEF ServerTyped
<1>. QED BY <1>2, <1>5, ServerKeeps

-------------------------------------------------------------------------------
(* The request for a snapshot *)

\* What the client has not begun to write, or has written, it keeps.
LEMMA OutsideKeeps ==
  ASSUME IInv, step \notin Writing, step' \in Steps \ (Writing \cup {"report"}),
         UNCHANGED <<server, edits, disk, journal, disturbed>>, ReadTyped', faults' \in 0..MaxFaults,
         todo' \subseteq Names, at' = None, look' \in File, nj' = NoFiles,
         unreported' \in BOOLEAN, ~unreported' => applied' = journal.revision
  PROVE  IInv'
<1>1. ServerTyped'
  BY DEF IInv, Typed, ServerTyped, server
<1>2. ClientTyped'
  BY FileFacts DEF IInv, Typed, ClientTyped
<1>3. HandInv'
  BY FileFacts DEF HandInv, Writing
<1>4. DiskInv'
  <2>1. step \notin {"look", "put", "trim"} /\ step' \notin {"look", "put", "trim"}
    BY DEF Writing
  <2>2. \A n \in Names : Expected(n) = journal.files[n] /\ Expected(n)' = journal.files[n]
    BY <2>1 DEF Expected
  <2>. QED BY <2>2 DEF IInv, DiskInv
<1>5. ReceiptInv'
  BY DEF ReceiptInv
<1>. QED BY <1>1, <1>2, <1>3, <1>4, <1>5 DEF IInv, Typed

\* The sync is over before a file was touched, or after all were.
LEMMA OverKeeps ==
  ASSUME IInv, step \notin Writing, Over, UNCHANGED <<server, edits, disk, journal, disturbed>>,
         faults' \in 0..MaxFaults, unreported' \in BOOLEAN, ~unreported' => applied' = journal.revision
  PROVE  IInv'
<1>1. "idle" \in Steps \ (Writing \cup {"report"})
  BY DEF Steps, Writing
<1>2. NothingRead \in [projects: SUBSET Projects, auto: SUBSET Candidate, items: Items, way: [Res -> Way]]
  BY DEF NothingRead, Items, Way
<1>3. ReadTyped'
  BY <1>2 DEF ReadTyped, Over
<1>. QED BY <1>1, <1>3, FileFacts, OutsideKeeps DEF Over

LEMMA FaultTyped ==
  ASSUME IInv, Fault \/ UNCHANGED faults
  PROVE  faults' \in 0..MaxFaults
  BY BoundsAssumption DEF IInv, Typed, ClientTyped, Fault

LEMMA LoseKeeps ==
  ASSUME IInv, NotModified \/ FetchRefused \/ Lose \/ Report \/ LoseReceipt
  PROVE  IInv'
<1>1. /\ step \notin Writing /\ Over /\ UNCHANGED <<server, edits, disk, journal, disturbed>>
      /\ Fault \/ UNCHANGED faults
  BY DEF NotModified, FetchRefused, Lose, Report, LoseReceipt, Writing, server
<1>2. unreported' \in BOOLEAN /\ (~unreported' => applied' = journal.revision)
  BY DEF NotModified, FetchRefused, Lose, Report, LoseReceipt, IInv, Typed, ClientTyped, ReceiptInv
<1>. QED BY <1>1, <1>2, FaultTyped, OverKeeps

LEMMA CandidatesTyped ==
  ASSUME NEW items \in Items, NEW way \in [Res -> Way], NEW projects
  PROVE  ByLevel(items, way, projects) \subseteq Candidate /\ ByGrant(items, way, projects) \subseteq Candidate
<1>1. \A r \in Res : items[r] # None => items[r] \in Item
  BY DEF Items
<1>2. "level" \in Way /\ \A r \in Res : way[r] \in Way
  BY DEF Way
<1>3. \A r \in Res, via \in Way : items[r] # None => [res |-> r, via |-> via, item |-> items[r]] \in Candidate
  BY <1>1 DEF Candidate
<1>4. ByLevel(items, way, projects) \subseteq Candidate
  BY <1>2, <1>3 DEF ByLevel
<1>5. ByGrant(items, way, projects) \subseteq Candidate
  BY <1>2, <1>3 DEF ByGrant
<1>. QED BY <1>4, <1>5

\* An entry of a resolution is drawn from the most specific candidates of its name.
LEMMA ResolvedFromTop ==
  ASSUME NEW cs, NEW e \in Resolutions(cs), NEW n \in Names
  PROVE  e[n] \subseteq Top({c \in cs : NameOf[c.res] = n})
<1>. DEFINE S == {c \in cs : NameOf[c.res] = n}
<1>1. e[n] \in PickOne(S)
  BY DEF Resolutions
<1>. HIDE DEF S
<1>2. PickOne(S) \in {{Top(S)}, {{}}, {{c} : c \in Top(S)}}
  BY DEF PickOne
<1>3. \A x \in PickOne(S) : x \subseteq Top(S)
  BY <1>2
<1>. USE DEF S
<1>. QED BY <1>1, <1>3

LEMMA ResolutionsTyped ==
  ASSUME NEW cs, cs \subseteq Candidate, NEW e \in Resolutions(cs)
  PROVE  e \in Entries
<1>1. \A n \in Names : e[n] \in SUBSET Candidate
  BY ResolvedFromTop DEF Top
<1>2. e = [n \in Names |-> e[n]]
  BY DEF Resolutions
<1>. QED BY <1>1, <1>2 DEF Entries

LEMMA ReadKeeps ==
  ASSUME IInv,
         Start \/ ReadBinding \/ ReadByLevel \/ ReadAll \/ ReadGroups \/ ReadAssignments \/ Modified
  PROVE  IInv'
<1>. DEFINE Reading == [projects: SUBSET Projects, auto: SUBSET Candidate, items: Items, way: [Res -> Way]]
<1>1. ServerTyped /\ ReadTyped /\ ClientTyped /\ got \in Reading
  BY DEF IInv, Typed, ReadTyped
<1>2. /\ step \in {"idle", "binding", "auto", "all", "groups", "assigns", "answer"}
      /\ step' \in {"binding", "auto", "all", "groups", "assigns", "answer", "fetch"}
      /\ UNCHANGED <<server, applied, edits, faults, local, unreported>>
  BY DEF Start, ReadBinding, ReadByLevel, ReadAll, ReadGroups, ReadAssignments, Modified
<1>3. ReadTyped'
  <2>1. CASE Start \/ Modified
    BY <1>1, <2>1 DEF Start, Modified, ReadTyped
  <2>2. CASE ReadBinding
    <3>1. EntriesOf(EmptySnapshot) \in Entries
      BY DEF EmptySnapshot, Snapshot, EntriesOf, Entries
    <3>2. got' = got \/ got' = [got EXCEPT !.projects = now.projects]
      BY <2>2 DEF ReadBinding
    <3>3. got' \in Reading
      BY <1>1, <3>2 DEF ServerTyped
    <3>4. snap' = EmptySnapshot \/ snap' = snap
      BY <2>2 DEF ReadBinding
    <3>. QED BY <1>1, <3>1, <3>3, <3>4 DEF ReadTyped, EntriesOf
  <2>3. CASE ReadByLevel
    <3>. DEFINE auto == ByLevel(now.items, now.way, got.projects)
    <3>1. auto \subseteq Candidate
      BY <1>1, CandidatesTyped DEF ServerTyped
    <3>2. got' = [got EXCEPT !.auto = auto] /\ snap' = snap
      BY <2>3 DEF ReadByLevel
    <3>. HIDE DEF auto
    <3>3. got' \in Reading
      BY <1>1, <3>1, <3>2
    <3>. QED BY <1>1, <3>2, <3>3 DEF ReadTyped
  <2>4. CASE ReadAll
    <3>1. got' = [got EXCEPT !.items = now.items] /\ snap' = snap
      BY <2>4 DEF ReadAll
    <3>2. got' \in Reading
      BY <1>1, <3>1 DEF ServerTyped
    <3>. QED BY <1>1, <3>1, <3>2 DEF ReadTyped
  <2>5. CASE ReadGroups
    <3>. DEFINE way == [r \in Res |-> IF now.way[r] \in Groups THEN now.way[r] ELSE "level"]
    <3>1. got' = [got EXCEPT !.way = way] /\ snap' = snap
      BY <2>5 DEF ReadGroups
    <3>2. way \in [Res -> Way]
      BY DEF Way
    <3>. HIDE DEF way
    <3>3. got' \in Reading
      BY <1>1, <3>1, <3>2
    <3>. QED BY <1>1, <3>1, <3>3 DEF ReadTyped
  <2>6. CASE ReadAssignments
    <3>. DEFINE way == [r \in Res |-> IF got.way[r] = "level" /\ now.way[r] = "direct" THEN "direct" ELSE got.way[r]]
                granted == ByGrant(got.items, way, got.projects)
    <3>1. way \in [Res -> Way]
      BY <1>1 DEF Way
    <3>2. \E grants : \E entries \in Resolutions(got.auto \cup granted) : snap' = Snapshot(got.projects, grants, entries)
      BY <2>6 DEF ReadAssignments
    <3>. HIDE DEF way
    <3>3. got.auto \cup granted \subseteq Candidate
      BY <1>1, <3>1, CandidatesTyped
    <3>. HIDE DEF granted
    <3>4. EntriesOf(snap') \in Entries
      BY <3>2, <3>3, ResolutionsTyped DEF EntriesOf, Snapshot
    <3>5. NothingRead \in Reading
      BY DEF NothingRead, Items, Way
    <3>. QED BY <2>6, <3>4, <3>5 DEF ReadTyped, ReadAssignments, EntriesOf
  <2>. QED BY <2>1, <2>2, <2>3, <2>4, <2>5, <2>6
<1>4. step \notin Writing /\ step' \in Steps \ (Writing \cup {"report"})
  BY <1>2 DEF Steps, Writing
<1>5. at = None /\ nj = NoFiles
  BY <1>2 DEF IInv, HandInv, Writing
<1>6. UNCHANGED <<disk, journal, todo, at, look, nj, disturbed>> /\ faults' \in 0..MaxFaults
  BY <1>1, <1>2 DEF local, ClientTyped
<1>7. ~unreported' => applied' = journal.revision
  BY <1>2 DEF IInv, ReceiptInv
<1>. QED BY <1>1, <1>2, <1>3, <1>4, <1>5, <1>6, <1>7, OutsideKeeps DEF ClientTyped

-------------------------------------------------------------------------------
(* The client writes *)

\* The parts of the invariant, for a client between two files or in one.
LEMMA WritingFacts ==
  ASSUME IInv, step \in Writing
  PROVE  /\ \A n \in Names : Wanted(n) \in blobs \cup {None} /\ Wanted(n) \in File \ {Mine}
         /\ \A n \in Names : Wanted(n) = None => nj[n] = None
         /\ \A n \in Names \ disturbed :
              disk[n] = IF step = "trim" THEN (IF n \in todo THEN journal.files[n] ELSE nj[n])
                        ELSE IF Wanted(n) # None /\ n \notin todo THEN nj[n] ELSE journal.files[n]
<1>1. blobs \subseteq Sums
  BY DEF IInv, Typed, ServerTyped
<1>. QED BY <1>1, FileFacts DEF IInv, HandInv, DiskInv, Expected, Writing

\* A step of a client that writes and goes on with it: what there is to show.
LEMMA WritingKeeps ==
  ASSUME IInv, step' \in Writing, ClientTyped', UNCHANGED <<server, got, snap, applied, journal, unreported>>,
         \A n \in Names : Wanted(n) \in blobs \cup {None} /\ (Wanted(n) = None => nj'[n] = None),
         step' = "trim" => (\A n \in todo' : Wanted(n) = None) /\ at' \in todo' \cup {None},
         step' # "trim" => \A n \in todo' : Wanted(n) # None,
         step' = "put" => at' \in todo',
         step' = "look" => at' = None,
         step' # "look" /\ at' # None /\ at' \notin disturbed' => look' = disk'[at'],
         \A n \in Names \ disturbed' :
            disk'[n] = IF step' = "trim" THEN (IF n \in todo' THEN journal.files[n] ELSE nj'[n])
                       ELSE IF Wanted(n) # None /\ n \notin todo' THEN nj'[n] ELSE journal.files[n]
  PROVE  IInv'
<1>1. ServerTyped' /\ ReadTyped'
  BY DEF IInv, Typed, ServerTyped, ReadTyped, server
<1>2. \A n : Wanted(n)' = Wanted(n)
  BY WantedSame
<1>3. blobs' = blobs
  BY DEF server
<1>4. HandInv'
  BY <1>2, <1>3 DEF HandInv, Writing
<1>5. DiskInv'
  BY <1>2 DEF DiskInv, Expected, Writing
<1>6. ReceiptInv'
  BY DEF IInv, ReceiptInv, Writing
<1>. QED BY <1>1, <1>4, <1>5, <1>6 DEF IInv, Typed

LEMMA FetchKeeps ==
  ASSUME IInv, Fetch
  PROVE  IInv'
<1>1. ClientTyped /\ at = None /\ nj = NoFiles
  BY DEF IInv, Typed, HandInv, Fetch, Writing
<1>2. /\ step = "fetch" /\ step' = "look" /\ todo' = {n \in Names : Wanted(n) # None}
      /\ \A n \in Names : Wanted(n) \in blobs \cup {None}
      /\ UNCHANGED <<server, applied, edits, faults, got, snap, disk, journal, at, look, nj, disturbed, unreported>>
  BY DEF Fetch
<1>3. ClientTyped'
  BY <1>1, <1>2 DEF ClientTyped, Steps
<1>4. \A n \in Names : Wanted(n) = None => nj'[n] = None
  BY <1>1, <1>2, FileFacts
<1>5. \A n \in Names \ disturbed : disk[n] = journal.files[n]
  BY <1>2 DEF IInv, DiskInv, Expected
<1>6. \A n \in Names \ disturbed' : disk'[n] = IF Wanted(n) # None /\ n \notin todo' THEN nj'[n] ELSE journal.files[n]
  BY <1>2, <1>5
<1>7. step' \in Writing
  BY <1>2 DEF Writing
<1>. QED BY <1>1, <1>2, <1>3, <1>4, <1>6, <1>7, WritingKeeps

LEMMA LookKeeps ==
  ASSUME IInv, Look
  PROVE  IInv'
<1>1. ClientTyped /\ \A n \in todo : Wanted(n) # None
  BY DEF IInv, Typed, HandInv, Look
<1>2. /\ step = "look" /\ step' = "put" /\ todo # {} /\ at' = CHOOSE n \in todo : \A m \in todo : n <= m
      /\ look' = disk[at']
      /\ UNCHANGED <<server, applied, edits, faults, got, snap, disk, journal, todo, nj, disturbed, unreported>>
  BY DEF Look
<1>3. at' \in todo /\ at' \in Names
  <2>1. todo \in SUBSET Nat
    BY <1>1, NamesAssumption DEF ClientTyped
  <2>. QED BY <1>1, <1>2, <2>1, LeastOf DEF ClientTyped
<1>4. ClientTyped'
  BY <1>1, <1>2, <1>3 DEF ClientTyped, Steps, Files
<1>5. step \in Writing /\ step' \in Writing
  BY <1>2 DEF Writing
<1>. QED BY <1>1, <1>2, <1>3, <1>4, <1>5, WritingFacts, WritingKeeps

\* One file was dealt with: what its name stands at then.
LEMMA NextFileKeeps ==
  ASSUME IInv, step = "put", NextFile, NEW n \in Names, n = at,
         faults' \in 0..MaxFaults, disk' \in Files, nj' \in [Names -> File \ {Mine}], disturbed' \subseteq Names,
         \A m \in Names \ {n} : disk'[m] = disk[m] /\ nj'[m] = nj[m] /\ (m \in disturbed' <=> m \in disturbed),
         n \notin disturbed' => disk'[n] = nj'[n],
         UNCHANGED blobs
  PROVE  IInv'
<1>1. /\ ClientTyped /\ n \in todo /\ \A m \in todo : Wanted(m) # None
  BY DEF IInv, Typed, HandInv
<1>2. /\ step' = "look" /\ todo' = todo \ {n} /\ at' = None /\ look' = None
      /\ UNCHANGED <<server, applied, edits, got, snap, journal, unreported>>
  BY DEF NextFile
<1>3. ClientTyped'
  BY <1>1, <1>2, FileFacts DEF ClientTyped, Steps
<1>4. step \in Writing /\ step' \in Writing
  BY <1>2 DEF Writing
<1>5. \A m \in Names : Wanted(m) = None => m # n /\ nj'[m] = None
  BY <1>1, <1>4, WritingFacts
<1>6. ASSUME NEW m \in Names \ disturbed'
      PROVE  disk'[m] = IF Wanted(m) # None /\ m \notin todo' THEN nj'[m] ELSE journal.files[m]
  <2>1. CASE m = n
    BY <1>1, <1>2, <2>1
  <2>2. CASE m # n
    <3>1. disk[m] = IF Wanted(m) # None /\ m \notin todo THEN nj[m] ELSE journal.files[m]
      BY <1>4, <2>2, WritingFacts
    <3>. QED BY <1>2, <2>2, <3>1
  <2>. QED BY <2>1, <2>2
<1>7. \A m \in Names : Wanted(m) \in blobs \cup {None}
  BY <1>4, WritingFacts
<1>. QED BY <1>1, <1>2, <1>3, <1>4, <1>5, <1>6, <1>7, WritingKeeps

LEMMA PutKeeps ==
  ASSUME IInv, Put \/ Keep \/ Skip \/ FailedWrite
  PROVE  IInv'
<1>1. step = "put" /\ NextFile /\ UNCHANGED blobs
  BY DEF Put, Keep, Skip, FailedWrite, NextFile, server
<1>2. ClientTyped /\ at \in todo /\ at \in Names /\ Wanted(at) # None /\ at # None
  BY <1>1, FileFacts DEF IInv, Typed, HandInv, ClientTyped
<1>3. PICK n \in Names : n = at
  BY <1>2
<1>4. step \in Writing
  BY <1>1 DEF Writing
<1>5. Wanted(n) \in File \ {Mine}
  BY <1>4, WritingFacts
\* Unless it was disturbed, the file is what the journal says, as the client has seen.
<1>6. n \notin disturbed => disk[n] = look /\ disk[n] = journal.files[n]
  <2>1. n \notin disturbed => disk[n] = look
    BY <1>1, <1>2, <1>3 DEF IInv, HandInv
  <2>2. n \notin disturbed => disk[n] = journal.files[n]
    BY <1>1, <1>2, <1>3, <1>4, WritingFacts
  <2>. QED BY <2>1, <2>2
<1>7. faults' \in 0..MaxFaults
  BY FaultTyped DEF Put, Keep, Skip, FailedWrite
<1>8. CASE Put
  <2>1. /\ disk' = [disk EXCEPT ![n] = Wanted(n)] /\ nj' = [nj EXCEPT ![n] = Wanted(n)]
        /\ disturbed' = disturbed \ {n}
    BY <1>3, <1>8 DEF Put
  <2>2. disk' \in Files /\ nj' \in [Names -> File \ {Mine}] /\ disturbed' \subseteq Names
    BY <1>2, <1>5, <2>1 DEF ClientTyped, Files
  <2>3. disk'[n] = nj'[n]
    BY <1>2, <2>1 DEF ClientTyped, Files
  <2>4. \A m \in Names \ {n} : disk'[m] = disk[m] /\ nj'[m] = nj[m] /\ (m \in disturbed' <=> m \in disturbed)
    BY <1>2, <2>1 DEF ClientTyped, Files
  <2>. QED BY <1>1, <1>3, <1>7, <2>2, <2>3, <2>4, NextFileKeeps
<1>9. CASE Keep
  <2>1. /\ disk' = disk /\ nj' = [nj EXCEPT ![n] = Wanted(n)] /\ look = Wanted(n)
        /\ disturbed' = IF disk[n] = look THEN disturbed \ {n} ELSE disturbed
    BY <1>3, <1>9 DEF Keep
  <2>2. disk' \in Files /\ nj' \in [Names -> File \ {Mine}] /\ disturbed' \subseteq Names
    BY <1>2, <1>5, <2>1 DEF ClientTyped
  <2>3. n \notin disturbed' => disk'[n] = nj'[n]
    BY <1>2, <1>6, <2>1 DEF ClientTyped
  <2>4. \A m \in Names \ {n} : disk'[m] = disk[m] /\ nj'[m] = nj[m] /\ (m \in disturbed' <=> m \in disturbed)
    BY <1>2, <2>1 DEF ClientTyped
  <2>. QED BY <1>1, <1>3, <1>7, <2>2, <2>3, <2>4, NextFileKeeps
<1>10. CASE Skip
  <2>1. UNCHANGED <<disk, nj, disturbed>> /\ look # journal.files[n]
    BY <1>3, <1>10 DEF Skip, Ours
  <2>. QED BY <1>1, <1>2, <1>3, <1>6, <1>7, <2>1, NextFileKeeps DEF ClientTyped
<1>11. CASE FailedWrite
  <2>1. UNCHANGED <<disk, nj>> /\ disturbed' = disturbed \cup {n}
    BY <1>3, <1>11 DEF FailedWrite
  <2>. QED BY <1>1, <1>2, <1>3, <1>7, <2>1, NextFileKeeps DEF ClientTyped
<1>. QED BY <1>8, <1>9, <1>10, <1>11

LEMMA TrimKeeps ==
  ASSUME IInv, Trim
  PROVE  IInv'
<1>1. ClientTyped /\ at = None
  BY DEF IInv, Typed, HandInv, Trim
<1>2. /\ step = "look" /\ todo = {} /\ step' = "trim"
      /\ todo' = {n \in Names : journal.files[n] # None /\ Wanted(n) = None}
      /\ UNCHANGED <<server, applied, edits, faults, got, snap, disk, journal, at, look, nj, disturbed, unreported>>
  BY DEF Trim
<1>3. ClientTyped'
  BY <1>1, <1>2 DEF ClientTyped, Steps
<1>4. step \in Writing /\ step' \in Writing
  BY <1>2 DEF Writing
<1>5. \A n \in Names : Wanted(n) \in blobs \cup {None} /\ (Wanted(n) = None => nj'[n] = None)
  BY <1>2, <1>4, WritingFacts
<1>6. ASSUME NEW n \in Names \ disturbed'
      PROVE  disk'[n] = IF n \in todo' THEN journal.files[n] ELSE nj'[n]
  <2>1. disk[n] = IF Wanted(n) # None THEN nj[n] ELSE journal.files[n]
    BY <1>2, <1>4, WritingFacts
  <2>. QED BY <1>2, <1>5, <2>1
<1>. QED BY <1>1, <1>2, <1>3, <1>4, <1>5, <1>6, WritingKeeps

LEMMA OldKeeps ==
  ASSUME IInv, LookOld \/ RemoveOld \/ FailedRemove \/ LeaveOld
  PROVE  IInv'
<1>1. ClientTyped /\ step = "trim" /\ step \in Writing
  BY DEF IInv, Typed, LookOld, RemoveOld, FailedRemove, LeaveOld, Writing
<1>2. /\ \A n \in todo : Wanted(n) = None
      /\ at \in todo \cup {None}
      /\ at # None /\ at \notin disturbed => look = disk[at]
  BY <1>1 DEF IInv, HandInv
<1>3. /\ \A n \in Names : Wanted(n) \in blobs \cup {None}
      /\ \A n \in Names : Wanted(n) = None => nj[n] = None
      /\ \A n \in Names \ disturbed : disk[n] = IF n \in todo THEN journal.files[n] ELSE nj[n]
  BY <1>1, WritingFacts
<1>4. step' = "trim" /\ step' \in Writing /\ nj' = nj /\ UNCHANGED <<server, got, snap, applied, journal, unreported>>
  BY <1>1 DEF LookOld, RemoveOld, FailedRemove, LeaveOld, NextOld, reading, Writing
<1>5. faults' \in 0..MaxFaults /\ edits' = edits
  BY FaultTyped DEF LookOld, RemoveOld, FailedRemove, LeaveOld, NextOld
<1>6. CASE LookOld
  <2>1. PICK n \in todo : at' = n /\ look' = disk[n]
    BY <1>6 DEF LookOld
  <2>2. UNCHANGED <<disk, todo, disturbed>>
    BY <1>6 DEF LookOld
  <2>3. n \in Names /\ disk[n] \in File
    BY <1>1 DEF ClientTyped, Files
  <2>4. ClientTyped'
    BY <1>1, <1>4, <1>5, <2>1, <2>2, <2>3 DEF ClientTyped
  <2>. QED BY <1>2, <1>3, <1>4, <2>1, <2>2, <2>4, WritingKeeps
<1>7. CASE RemoveOld \/ FailedRemove \/ LeaveOld
  <2>1. at # None /\ todo' = todo \ {at} /\ at' = None /\ look' = None
    BY <1>7 DEF RemoveOld, FailedRemove, LeaveOld, NextOld
  <2>2. at \in todo /\ at \in Names
    BY <1>1, <1>2, <2>1 DEF ClientTyped
  <2>3. PICK n \in Names : n = at
    BY <2>2
  <2>4. nj[n] = None
    BY <1>2, <1>3, <2>2, <2>3
  <2>5. n \notin disturbed => look = journal.files[n]
    BY <1>2, <1>3, <2>1, <2>2, <2>3
  <2>6. /\ disk' \in Files /\ disturbed' \subseteq Names
        /\ \A m \in Names \ {n} : disk'[m] = disk[m] /\ (m \in disturbed' <=> m \in disturbed)
        /\ n \notin disturbed' => disk'[n] = None
    <3>1. CASE RemoveOld
      <4>1. disk' = [disk EXCEPT ![n] = None] /\ disturbed' = disturbed \ {n}
        BY <2>3, <3>1 DEF RemoveOld
      <4>. QED BY <1>1, <4>1, FileFacts DEF ClientTyped, Files
    <3>2. CASE FailedRemove
      BY <1>1, <2>3, <3>2 DEF FailedRemove, ClientTyped
    <3>3. CASE LeaveOld
      BY <1>1, <2>3, <2>5, <3>3 DEF LeaveOld, ClientTyped
    <3>. QED BY <1>7, <3>1, <3>2, <3>3
  <2>7. ClientTyped'
    BY <1>1, <1>4, <1>5, <2>1, <2>6, FileFacts DEF ClientTyped
  <2>8. \A m \in Names \ disturbed' : disk'[m] = IF m \in todo' THEN journal.files[m] ELSE nj'[m]
    BY <1>3, <1>4, <2>1, <2>3, <2>4, <2>6
  <2>. QED BY <1>2, <1>3, <1>4, <2>1, <2>7, <2>8, WritingKeeps
<1>. QED BY <1>6, <1>7

LEMMA SaveKeeps ==
  ASSUME IInv, Save
  PROVE  IInv'
<1>1. ClientTyped /\ step = "trim" /\ todo = {} /\ step \in Writing
  BY DEF IInv, Typed, Save, Writing
<1>2. /\ journal' = [revision |-> snap, files |-> nj] /\ unreported' = TRUE /\ step' = "report"
      /\ UNCHANGED <<server, applied, edits, faults, got, snap, disk, todo, at, look, nj, disturbed>>
  BY DEF Save
<1>3. ServerTyped' /\ ReadTyped'
  BY <1>2 DEF IInv, Typed, ServerTyped, ReadTyped, server
<1>4. ClientTyped'
  BY <1>1, <1>2 DEF ClientTyped, Steps
<1>5. HandInv'
  BY <1>1, <1>2 DEF IInv, HandInv, Writing
<1>6. DiskInv'
  <2>1. \A n \in Names \ disturbed : disk[n] = nj[n]
    BY <1>1, WritingFacts
  <2>2. \A n \in Names : Expected(n)' = nj[n]
    BY <1>2 DEF Expected
  <2>. QED BY <1>2, <2>1, <2>2 DEF DiskInv
<1>7. ReceiptInv'
  BY <1>2 DEF ReceiptInv
<1>. QED BY <1>3, <1>4, <1>5, <1>6, <1>7 DEF IInv, Typed

\* The client is stopped: what its journal does not say is told as disturbed.
LEMMA CrashKeeps ==
  ASSUME IInv, TornSave \/ Crash
  PROVE  IInv'
<1>1. ClientTyped /\ faults' \in 0..MaxFaults
  BY FaultTyped DEF IInv, Typed, TornSave, Crash
<1>2. Over /\ UNCHANGED <<server, applied, edits, disk>>
  BY DEF TornSave, Crash
<1>3. /\ journal'.files \in [Names -> File \ {Mine}] /\ disturbed' \subseteq Names /\ unreported' \in BOOLEAN
      /\ ~unreported' => applied' = journal'.revision
      /\ \A n \in Names \ disturbed' : disk[n] = journal'.files[n]
  <2>1. CASE TornSave
    <3>1. journal' = NoRev /\ unreported' = TRUE /\ disturbed' = disturbed \cup {n \in Names : disk[n] # None}
      BY <2>1 DEF TornSave
    <3>. QED BY <1>1, <3>1, FileFacts DEF ClientTyped
  <2>2. CASE Crash
    <3>1. UNCHANGED <<journal, unreported, applied>> /\ disturbed' = disturbed \cup {n \in Names : disk[n] # journal.files[n]}
      BY <2>2 DEF Crash
    <3>. QED BY <1>1, <3>1 DEF ClientTyped, IInv, ReceiptInv
  <2>. QED BY <2>1, <2>2
<1>4. ServerTyped'
  BY <1>2 DEF IInv, Typed, ServerTyped, server
<1>5. NothingRead \in [projects: SUBSET Projects, auto: SUBSET Candidate, items: Items, way: [Res -> Way]]
  BY DEF NothingRead, Items, Way
<1>6. ReadTyped'
  BY <1>2, <1>5 DEF ReadTyped, Over
<1>7. ClientTyped'
  BY <1>1, <1>2, <1>3, FileFacts DEF ClientTyped, Over, Steps
<1>8. HandInv'
  BY <1>2 DEF HandInv, Over, Writing
<1>9. DiskInv'
  BY <1>2, <1>3 DEF DiskInv, Expected, Over
<1>10. ReceiptInv'
  BY <1>2, <1>3 DEF ReceiptInv, Over
<1>. QED BY <1>4, <1>6, <1>7, <1>8, <1>9, <1>10 DEF IInv, Typed

LEMMA EditKeeps ==
  ASSUME IInv, NEW n \in Names, NEW f \in {Mine, None}, UserEdits(n, f)
  PROVE  IInv'
<1>1. /\ disk' = [disk EXCEPT ![n] = f] /\ disturbed' = disturbed \cup {n} /\ edits < MaxEdits /\ edits' = edits + 1
      /\ UNCHANGED <<server, applied, faults, step, got, snap, journal, todo, at, look, nj, unreported>>
  BY DEF UserEdits, reading
<1>2. ServerTyped' /\ ReadTyped'
  BY <1>1 DEF IInv, Typed, ServerTyped, ReadTyped, server
<1>3. disk' \in Files /\ \A m \in Names \ disturbed' : disk'[m] = disk[m] /\ m \notin disturbed
  BY <1>1, FileFacts DEF IInv, Typed, ClientTyped, Files
<1>4. ClientTyped'
  BY <1>1, <1>3, BoundsAssumption DEF IInv, Typed, ClientTyped
<1>5. \A m : Wanted(m)' = Wanted(m)
  BY <1>1, WantedSame
<1>6. HandInv'
  <2>1. at \in Names \cup {None} /\ blobs' = blobs
    BY <1>1 DEF IInv, Typed, ClientTyped, server
  <2>. QED BY <1>1, <1>3, <1>5, <2>1 DEF IInv, HandInv
<1>7. DiskInv'
  BY <1>1, <1>3, <1>5 DEF IInv, DiskInv, Expected
<1>8. ReceiptInv'
  BY <1>1 DEF IInv, ReceiptInv
<1>. QED BY <1>2, <1>4, <1>6, <1>7, <1>8 DEF IInv, Typed


LEMMA InitIInv == Init => IInv
<1>. SUFFICES ASSUME Init PROVE IInv
  OBVIOUS
<1>1. ServerTyped
  <2>1. blobs \subseteq Sums
    <3>1. \A r \in Readable : FirstItems[r] # None => FirstItems[r].sum \in Sums \cup {Tombstone}
      BY FirstAssumption, ReadableAssumption DEF Items, Item
    <3>. QED BY <3>1 DEF Init
  <2>. QED BY <2>1, FirstAssumption, BoundsAssumption DEF Init, ServerTyped
<1>2. ReadTyped
  <2>1. NothingRead \in [projects: SUBSET Projects, auto: SUBSET Candidate, items: Items, way: [Res -> Way]]
    BY DEF NothingRead, Items, Way
  <2>. QED BY <2>1 DEF Init, ReadTyped
<1>3. ClientTyped
  <2>1. MaxEdits \in Nat /\ MaxFaults \in Nat
    BY BoundsAssumption
  <2>2. journal.files = NoFiles /\ nj = NoFiles /\ disk = NoFiles
    BY FileFacts DEF Init
  <2>3. todo = {} /\ disturbed = {} /\ at = None /\ look = None /\ step = "idle" /\ unreported = FALSE /\ edits = 0 /\ faults = 0
    BY DEF Init
  <2>4. edits \in 0..MaxEdits /\ faults \in 0..MaxFaults
    BY <2>1, <2>3
  <2>5. disk \in Files /\ journal.files \in [Names -> File \ {Mine}] /\ nj \in [Names -> File \ {Mine}] /\ look \in File
    BY <2>2, <2>3, FileFacts
  <2>6. /\ step \in Steps /\ todo \subseteq Names /\ at \in Names \cup {None} /\ disturbed \subseteq Names
        /\ unreported \in BOOLEAN
    BY <2>3 DEF Steps
  <2>. QED BY <2>4, <2>5, <2>6 DEF ClientTyped
<1>4. HandInv /\ DiskInv /\ ReceiptInv
  BY FileFacts DEF Init, HandInv, DiskInv, Expected, ReceiptInv, Writing
<1>. QED BY <1>1, <1>2, <1>3, <1>4 DEF IInv, Typed

LEMMA NextIInv == IInv /\ [Next]_vars => IInv'
<1>. SUFFICES ASSUME IInv, [Next]_vars PROVE IInv'
  OBVIOUS
<1>1. CASE UNCHANGED vars
  <2>1. ServerTyped' /\ blobs \subseteq blobs'
    BY <1>1 DEF IInv, Typed, ServerTyped, vars
  <2>2. UNCHANGED <<applied, edits, faults, reading, snap, local, unreported>>
    BY <1>1 DEF vars, reading, local
  <2>. QED BY <2>1, <2>2, ServerKeeps
<1>2. ASSUME NEW rel \in Releases, Release(rel[1], rel[2])
      PROVE  IInv'
  <2>1. rel[1] \in Res /\ rel[2] \in Sums \cup {Tombstone}
    BY ChangesAssumption
  <2>. QED BY <1>2, <2>1, ReleaseKeeps
<1>3. CASE ClientStep
  BY <1>3, ReadKeeps, LoseKeeps, FetchKeeps, LookKeeps, PutKeeps, TrimKeeps, OldKeeps, SaveKeeps DEF ClientStep
<1>4. CASE Lose \/ FailedWrite \/ FailedRemove \/ TornSave \/ Crash \/ LoseReceipt
  BY <1>4, LoseKeeps, PutKeeps, OldKeeps, CrashKeeps
<1>5. ASSUME NEW n \in Names, NEW f \in {Mine, None}, UserEdits(n, f)
      PROVE  IInv'
  BY <1>5, EditKeeps
<1>. QED BY <1>1, <1>2, <1>3, <1>4, <1>5, HandOutKeeps DEF Next

\* The invariant holds for any server, any user and any faults.
LEMMA Invariance == Spec => []IInv
  BY InitIInv, NextIInv, PTL DEF Spec

-------------------------------------------------------------------------------
(* What it comes to *)

\* The variables have their types; no journal holds a content of the user's own.
THEOREM TypeCorrect == Spec => []TypeOK
<1>1. IInv => TypeOK
  BY DEF IInv, Typed, ServerTyped, ReadTyped, ClientTyped, TypeOK
<1>. QED BY <1>1, Invariance, PTL

\* Between syncs the journal says what is on disk, except where the user, a failed write
\* or a crash came in between, and the server knows what was applied unless the receipt
\* was lost: for any number of files, syncs, edits, faults and changes on the server.
THEOREM JournalIsTrue == Spec => []JournalKnows
<1>1. IInv => JournalKnows
  BY DEF IInv, DiskInv, ReceiptInv, Expected, JournalKnows
<1>. QED BY <1>1, Invariance, PTL

\* A resource handed out at its level is never passed over for one that is less
\* specific, for any resources, levels, groups and projects.
THEOREM LevelsAlwaysDecide == Spec => []LevelsDecide
<1>1. LevelsDecide
  <2>. SUFFICES ASSUME NEW e \in Current, NEW n \in Names, NEW c \in e[n], NEW r \in Res,
                       NameOf[r] = n, now.items[r] # None, now.way[r] \notin Groups, InScope(r, now.projects)
                PROVE  LevelOf[r] <= Rank(c)
    BY DEF LevelsDecide
  <2>1. CASE now.revoked
    <3>1. e = [m \in Names |-> {}]
      BY <2>1 DEF Current, EmptySnapshot, Snapshot, EntriesOf
    <3>. QED BY <3>1
  <2>2. CASE ~now.revoked
    <3>. DEFINE cs == ByLevel(now.items, now.way, now.projects) \cup ByGrant(now.items, now.way, now.projects)
                d == [res |-> r, via |-> "level", item |-> now.items[r]]
    <3>1. e \in Resolutions(cs)
      BY <2>2 DEF Current
    <3>2. d \in cs /\ NameOf[d.res] = n
      BY DEF ByLevel
    <3>3. Rank(d) = LevelOf[r]
      BY DEF Rank
    <3>. HIDE DEF cs, d
    <3>4. c \in Top({x \in cs : NameOf[x.res] = n})
      BY <3>1, ResolvedFromTop
    <3>. QED BY <3>2, <3>3, <3>4 DEF Top
  <2>. QED BY <2>1, <2>2
<1>. QED BY <1>1, PTL

\* The client writes over the user's own content, or removes it, only when the user
\* wrote it after the client had looked: for any number of files, edits and syncs.
THEOREM EditsAreKept == Spec => UserEditsKept
<1>1. IInv /\ [Next]_vars =>
        [\A n \in Names : disk[n] = Mine /\ disk'[n] # Mine => edits' # edits \/ (at = n /\ look # Mine)]_vars
  <2>. SUFFICES ASSUME IInv, Next, NEW n \in Names, disk[n] = Mine, disk'[n] # Mine, edits' = edits
                PROVE  at = n /\ look # Mine
    OBVIOUS
  <2>1. ClientTyped /\ disk' # disk
    BY DEF IInv, Typed
  <2>2. Put \/ RemoveOld
    <3>1. ASSUME NEW m \in Names, NEW f \in {Mine, None}, UserEdits(m, f)
          PROVE  FALSE
      BY <2>1, <3>1 DEF UserEdits, ClientTyped
    <3>2. ~ \E rel \in Releases : Release(rel[1], rel[2])
      BY <2>1 DEF Release, local
    <3>3. /\ ~ \E reg \in Regroups : SetGroupBundles(reg[1], reg[2]) \/ CreateAssignment(reg[1], reg[2])
          /\ ~ \E projects \in (SUBSET Projects) \ {{}} : Rebind(projects)
          /\ ~Unbind
      BY <2>1 DEF SetGroupBundles, CreateAssignment, Regroup, Rebind, Unbind, local
    <3>4. ~(Start \/ ReadBinding \/ ReadByLevel \/ ReadAll \/ ReadGroups \/ ReadAssignments \/ Modified)
      BY <2>1 DEF Start, ReadBinding, ReadByLevel, ReadAll, ReadGroups, ReadAssignments, Modified, local
    <3>5. ~(NotModified \/ FetchRefused \/ Lose \/ Report \/ LoseReceipt \/ TornSave \/ Crash \/ Save)
      BY <2>1 DEF NotModified, FetchRefused, Lose, Report, LoseReceipt, TornSave, Crash, Save
    <3>6. ~(Fetch \/ Look \/ Trim \/ LookOld \/ LeaveOld \/ FailedRemove)
      BY <2>1 DEF Fetch, Look, Trim, LookOld, LeaveOld, FailedRemove
    <3>7. ~(Keep \/ Skip \/ FailedWrite)
      BY <2>1 DEF Keep, Skip, FailedWrite
    <3>. QED BY <3>1, <3>2, <3>3, <3>4, <3>5, <3>6, <3>7 DEF Next, ClientStep
  <2>3. at = n
    BY <2>1, <2>2 DEF Put, RemoveOld, ClientTyped, Files
  <2>4. look = None \/ look = journal.files[n]
    BY <2>2, <2>3 DEF Put, RemoveOld, Ours
  <2>5. journal.files[n] # Mine /\ None # Mine
    BY <2>1, FileFacts DEF ClientTyped
  <2>. QED BY <2>3, <2>4, <2>5
<1>. QED BY <1>1, Invariance, PTL DEF Spec, UserEditsKept



-------------------------------------------------------------------------------
(* Policy: the merge as a recursion *)

\* Induction up to n: otherwise some number is the least that is not in S.
LEMMA UpTo ==
  ASSUME NEW n \in Nat, NEW S, 0 \in S, \A k \in 0..(n - 1) : k \in S => k + 1 \in S
  PROVE  \A k \in 0..n : k \in S
<1>. DEFINE Missing == {k \in 0..n : k \notin S}
            Below(k) == {j \in 0..n : j < k}
            Segments == {Below(k) : k \in Missing}
<1>. SUFFICES ASSUME Missing # {} PROVE FALSE
  OBVIOUS
<1>1. IsFiniteSet(0..n)
  BY FS_Interval
<1>2. Segments \subseteq FiniteSubsetsOf(0..n) /\ Segments # {}
  <2>1. \A k \in Missing : Below(k) \in SUBSET (0..n) /\ IsFiniteSet(Below(k))
    BY <1>1, FS_Subset
  <2>2. \A k \in Missing : Below(k) \in FiniteSubsetsOf(0..n)
    <3>. HIDE DEF Below, Missing
    <3>. QED BY <2>1 DEF FiniteSubsetsOf
  <2>. HIDE DEF Below
  <2>. QED BY <2>2
<1>3. \E A \in Segments : \A B \in Segments : <<B, A>> \notin StrictSubsetOrdering(0..n)
  <2>. HIDE DEF Segments
  <2>. QED BY <1>1, <1>2, FS_StrictSubsetOrderingWellFounded, WFMin
<1>4. PICK k \in Missing : \A B \in Segments : <<B, Below(k)>> \notin StrictSubsetOrdering(0..n)
  BY <1>3
<1>5. k \in 0..n /\ k # 0 /\ k - 1 \in 0..(n - 1) /\ k - 1 \in 0..n /\ (k - 1) + 1 = k
  OBVIOUS
<1>6. k - 1 \in Missing
  BY <1>5
<1>7. Below(k - 1) \subseteq Below(k) /\ k - 1 \in Below(k) /\ k - 1 \notin Below(k - 1)
  BY <1>5
<1>8. Below(k - 1) \in Segments /\ Below(k) \subseteq 0..n /\ Below(k - 1) \subseteq 0..n
  BY <1>6
<1>. QED BY <1>4, <1>7, <1>8 DEF StrictSubsetOrdering

\* The policy after the n-th place, given the one before it
After(upper, n) == IF policies[n] = NoPolicy THEN upper ELSE MergePolicy(upper, policies[n])

IsMerge(m, n) == m = [i \in 0..n |-> IF i = 0 THEN DefaultPolicy ELSE After(m[i - 1], i)]

LEMMA MergeExists ==
  ASSUME NEW n \in Nat
  PROVE  \E m : IsMerge(m, n)
<1>. DEFINE S == {k \in Nat : \E m : IsMerge(m, k)}
<1>1. 0 \in S
  <2>. DEFINE m == [i \in 0..0 |-> DefaultPolicy]
  <2>1. IsMerge(m, 0)
    BY DEF IsMerge
  <2>. QED BY <2>1
<1>2. ASSUME NEW k \in 0..(n - 1), k \in S
      PROVE  k + 1 \in S
  <2>1. PICK m : IsMerge(m, k)
    BY <1>2
  <2>. DEFINE w == [i \in 0..(k + 1) |-> IF i <= k THEN m[i] ELSE After(m[k], k + 1)]
  <2>2. ASSUME NEW i \in 0..(k + 1)
        PROVE  w[i] = IF i = 0 THEN DefaultPolicy ELSE After(w[i - 1], i)
    <3>1. CASE i = 0
      BY <2>1, <3>1 DEF IsMerge
    <3>2. CASE i # 0 /\ i <= k
      <4>1. w[i] = m[i] /\ w[i - 1] = m[i - 1]
        BY <3>2
      <4>2. m[i] = After(m[i - 1], i)
        BY <2>1, <3>2 DEF IsMerge
      <4>. QED BY <3>2, <4>1, <4>2
    <3>3. CASE i = k + 1
      <4>1. w[i] = After(m[k], k + 1) /\ w[i - 1] = m[k] /\ i # 0
        BY <3>3
      <4>. QED BY <3>3, <4>1
    <3>. QED BY <3>1, <3>2, <3>3
  <2>3. IsMerge(w, k + 1)
    <3>1. w = [i \in 0..(k + 1) |-> w[i]]
      OBVIOUS
    <3>. HIDE DEF w
    <3>. QED BY <2>2, <3>1 DEF IsMerge
  <2>. HIDE DEF w
  <2>. QED BY <2>3
<1>. HIDE DEF S
<1>3. \A k \in 0..n : k \in S
  BY <1>1, <1>2, UpTo
<1>4. n \in S
  BY <1>3
<1>. USE DEF S
<1>. QED BY <1>4

LEMMA MergedIsMerge ==
  ASSUME Depth \in Nat
  PROVE  IsMerge(Merged, Depth)
<1>. DEFINE R == CHOOSE m : m = [n \in 0..Depth |-> IF n = 0 THEN DefaultPolicy
                                                    ELSE IF policies[n] = NoPolicy THEN m[n - 1]
                                                    ELSE MergePolicy(m[n - 1], policies[n])]
<1>1. \E m : m = [n \in 0..Depth |-> IF n = 0 THEN DefaultPolicy
                                     ELSE IF policies[n] = NoPolicy THEN m[n - 1]
                                     ELSE MergePolicy(m[n - 1], policies[n])]
  <2>1. \E m : IsMerge(m, Depth)
    BY MergeExists
  <2>. QED BY <2>1 DEF IsMerge, After
<1>2. R = [n \in 0..Depth |-> IF n = 0 THEN DefaultPolicy
                              ELSE IF policies[n] = NoPolicy THEN R[n - 1]
                              ELSE MergePolicy(R[n - 1], policies[n])]
  BY <1>1, Zenon
<1>3. Merged = R
  BY Zenon DEF Merged
<1>4. IsMerge(R, Depth)
  <2>. HIDE DEF R
  <2>. QED BY <1>2 DEF IsMerge, After
<1>. HIDE DEF R
<1>. QED BY <1>3, <1>4

\* Place by place: what is merged before it, and what it makes of that
LEMMA MergedSteps ==
  ASSUME Depth \in Nat
  PROVE  /\ Merged[0] = DefaultPolicy
         /\ \A n \in Places : Merged[n] = After(Merged[n - 1], n)
<1>. DEFINE m == Merged
<1>1. IsMerge(m, Depth)
  BY MergedIsMerge
<1>. HIDE DEF m
<1>2. m[0] = DefaultPolicy /\ \A n \in Places : m[n] = After(m[n - 1], n)
  BY <1>1 DEF IsMerge, Places
<1>. QED BY <1>2 DEF m


-------------------------------------------------------------------------------
(* Policy: what the merge comes to *)

PoliciesTyped == policies \in [Places -> Policies \cup {NoPolicy}]

LEMMA PoliciesKeepType == PolicySpec => []PoliciesTyped
<1>1. PolicyInit => PoliciesTyped
  BY DEF PolicyInit, PoliciesTyped
<1>2. PoliciesTyped /\ [PolicyNext]_policies => PoliciesTyped'
  BY DEF PoliciesTyped, PolicyNext, PublishPolicy, DeletePolicy
<1>. QED BY <1>1, <1>2, PTL DEF PolicySpec

\* One more place: it has a policy or not, and a list or not.
LEMMA NextPlace ==
  ASSUME Depth \in Nat, PoliciesTyped, NEW k \in 0..(Depth - 1)
  PROVE  /\ k + 1 \in Places /\ Merged[k + 1] = After(Merged[k], k + 1)
         /\ policies[k + 1] = NoPolicy => Published(k + 1) = Published(k)
         /\ policies[k + 1] # NoPolicy => /\ policies[k + 1] \in Policies
                                          /\ Published(k + 1) = Published(k) \cup {k + 1}
<1>1. k + 1 \in Places /\ (k + 1) - 1 = k
  BY DEF Places
<1>2. Merged[k + 1] = After(Merged[k], k + 1)
  BY <1>1, MergedSteps
<1>3. 1..(k + 1) = (1..k) \cup {k + 1} /\ k + 1 \notin 1..k
  OBVIOUS
<1>4. /\ policies[k + 1] = NoPolicy => Published(k + 1) = Published(k)
      /\ policies[k + 1] # NoPolicy => Published(k + 1) = Published(k) \cup {k + 1}
  BY <1>3 DEF Published
<1>. QED BY <1>1, <1>2, <1>4 DEF PoliciesTyped

LEMMA PolicyFields ==
  ASSUME NEW policy \in Policies
  PROVE  /\ policy.enforced \subseteq Rules /\ policy.commands \subseteq Commands
         /\ policy.auto \in BOOLEAN /\ policy.scripts \in BOOLEAN
  BY DEF Policies

LEMMA MergedFields ==
  ASSUME NEW upper, NEW lower
  PROVE  /\ MergePolicy(upper, lower).enforced = upper.enforced \cup lower.enforced
         /\ MergePolicy(upper, lower).commands = Narrow(upper.commands, lower.commands)
         /\ MergePolicy(upper, lower).auto = (upper.auto /\ lower.auto)
         /\ MergePolicy(upper, lower).scripts = (upper.scripts \/ lower.scripts)
  BY DEF MergePolicy

\* After n places the merge is what those places agree on.
FlagsAgree(n) ==
  /\ Merged[n].enforced = UNION {policies[p].enforced : p \in Published(n)}
  /\ Merged[n].auto \in BOOLEAN /\ Merged[n].scripts \in BOOLEAN
  /\ Merged[n].auto <=> \A p \in Published(n) : policies[p].auto
  /\ Merged[n].scripts <=> \E p \in Published(n) : policies[p].scripts

ListsAgree(n) ==
  /\ Merged[n].commands \subseteq Commands
  /\ Listing(n) = {} => Merged[n].commands = {}
  /\ Listing(n) # {} /\ Common(n) # {} => Merged[n].commands = Common(n)

LEMMA NobodyPublished == Published(0) = {} /\ Listing(0) = {}
<1>1. 1..0 = {}
  OBVIOUS
<1>. QED BY <1>1 DEF Published, Listing

LEMMA NothingMerged ==
  ASSUME Depth \in Nat
  PROVE  FlagsAgree(0) /\ ListsAgree(0)
<1>1. Merged[0] = DefaultPolicy
  BY MergedSteps
<1>2. /\ DefaultPolicy.enforced = {} /\ DefaultPolicy.commands = {}
      /\ DefaultPolicy.auto = TRUE /\ DefaultPolicy.scripts = FALSE
  BY DEF DefaultPolicy
<1>. QED BY <1>1, <1>2, NobodyPublished DEF FlagsAgree, ListsAgree

LEMMA FlagsStillAgree ==
  ASSUME Depth \in Nat, PoliciesTyped, NEW k \in 0..(Depth - 1), FlagsAgree(k)
  PROVE  FlagsAgree(k + 1)
<1>. DEFINE upper == Merged[k]
            lower == policies[k + 1]
            m == Merged[k + 1]
<1>1. CASE lower = NoPolicy
  <2>1. m = upper /\ Published(k + 1) = Published(k)
    BY <1>1, NextPlace DEF After
  <2>. QED BY <2>1 DEF FlagsAgree
<1>2. CASE lower # NoPolicy
  <2>1. lower \in Policies /\ m = MergePolicy(upper, lower) /\ Published(k + 1) = Published(k) \cup {k + 1}
    BY <1>2, NextPlace DEF After
  <2>2. /\ m.enforced = upper.enforced \cup lower.enforced
        /\ m.auto = (upper.auto /\ lower.auto) /\ m.scripts = (upper.scripts \/ lower.scripts)
        /\ lower.auto \in BOOLEAN /\ lower.scripts \in BOOLEAN
    BY <2>1, MergedFields, PolicyFields
  <2>3. UNION {policies[p].enforced : p \in Published(k + 1)}
          = (UNION {policies[p].enforced : p \in Published(k)}) \cup lower.enforced
    BY <2>1
  <2>4. /\ (\A p \in Published(k + 1) : policies[p].auto) <=> (\A p \in Published(k) : policies[p].auto) /\ lower.auto
        /\ (\E p \in Published(k + 1) : policies[p].scripts) <=> (\E p \in Published(k) : policies[p].scripts) \/ lower.scripts
    BY <2>1
  <2>. HIDE DEF m, upper, lower
  <2>5. m.enforced = UNION {policies[p].enforced : p \in Published(k + 1)}
    BY <2>2, <2>3 DEF FlagsAgree, upper
  <2>6. m.auto \in BOOLEAN /\ (m.auto <=> \A p \in Published(k + 1) : policies[p].auto)
    BY <2>2, <2>4, Zenon DEF FlagsAgree, upper
  <2>7. m.scripts \in BOOLEAN /\ (m.scripts <=> \E p \in Published(k + 1) : policies[p].scripts)
    BY <2>2, <2>4, Zenon DEF FlagsAgree, upper
  <2>. QED BY <2>5, <2>6, <2>7 DEF FlagsAgree, m
<1>. QED BY <1>1, <1>2

\* One more list, if the place has one
LEMMA NextList ==
  ASSUME Depth \in Nat, PoliciesTyped, NEW k \in 0..(Depth - 1), Merged[k].commands \subseteq Commands
  PROVE  \/ /\ Merged[k + 1].commands = Merged[k].commands
            /\ k + 1 \notin Listing(k + 1) /\ Listing(k + 1) = Listing(k) /\ Common(k + 1) = Common(k)
         \/ /\ policies[k + 1].commands # {} /\ policies[k + 1].commands \subseteq Commands
            /\ Merged[k + 1].commands = IF Merged[k].commands = {} THEN policies[k + 1].commands
                                        ELSE Merged[k].commands \cap policies[k + 1].commands
            /\ Listing(k + 1) = Listing(k) \cup {k + 1}
            /\ Common(k + 1) = Common(k) \cap policies[k + 1].commands
<1>. DEFINE lower == policies[k + 1]
<1>1. CASE lower = NoPolicy
  <2>1. Merged[k + 1] = Merged[k] /\ Published(k + 1) = Published(k)
    BY <1>1, NextPlace DEF After
  <2>2. Listing(k + 1) = Listing(k) /\ k + 1 \notin Listing(k + 1)
    BY <1>1, <2>1 DEF Listing, Published
  <2>. QED BY <2>1, <2>2 DEF Common
<1>2. CASE lower # NoPolicy
  <2>1. lower \in Policies /\ Merged[k + 1] = MergePolicy(Merged[k], lower) /\ Published(k + 1) = Published(k) \cup {k + 1}
    BY <1>2, NextPlace DEF After
  <2>2. Merged[k + 1].commands = Narrow(Merged[k].commands, lower.commands) /\ lower.commands \subseteq Commands
    BY <2>1, MergedFields, PolicyFields
  <2>3. k + 1 \notin Published(k)
    BY DEF Published
  <2>4. CASE lower.commands = {}
    <3>1. Listing(k + 1) = Listing(k) /\ k + 1 \notin Listing(k + 1)
      BY <2>1, <2>3, <2>4 DEF Listing
    <3>2. Merged[k + 1].commands = Merged[k].commands
      BY <2>2, <2>4 DEF Narrow
    <3>. QED BY <3>1, <3>2 DEF Common
  <2>5. CASE lower.commands # {}
    <3>1. Listing(k + 1) = Listing(k) \cup {k + 1}
      BY <2>1, <2>5 DEF Listing
    <3>2. Common(k + 1) = Common(k) \cap lower.commands
      BY <2>2, <3>1 DEF Common
    <3>3. Merged[k + 1].commands = IF Merged[k].commands = {} THEN lower.commands ELSE Merged[k].commands \cap lower.commands
      BY <2>2, <2>5 DEF Narrow
    <3>. QED BY <2>2, <2>5, <3>1, <3>2, <3>3
  <2>. QED BY <2>4, <2>5
<1>. QED BY <1>1, <1>2

LEMMA ListsStillAgree ==
  ASSUME Depth \in Nat, PoliciesTyped, NEW k \in 0..(Depth - 1), ListsAgree(k)
  PROVE  ListsAgree(k + 1)
<1>. DEFINE list == policies[k + 1].commands
            before == Merged[k].commands
            after == Merged[k + 1].commands
<1>1. /\ before \subseteq Commands /\ (Listing(k) = {} => before = {})
      /\ Listing(k) # {} /\ Common(k) # {} => before = Common(k)
  BY DEF ListsAgree
<1>2. CASE after = before /\ Listing(k + 1) = Listing(k) /\ Common(k + 1) = Common(k)
  BY <1>1, <1>2 DEF ListsAgree
<1>3. CASE /\ list # {} /\ list \subseteq Commands
           /\ after = IF before = {} THEN list ELSE before \cap list
           /\ Listing(k + 1) = Listing(k) \cup {k + 1} /\ Common(k + 1) = Common(k) \cap list
  <2>1. after \subseteq Commands /\ Listing(k + 1) # {}
    BY <1>1, <1>3
  <2>2. ASSUME Common(k + 1) # {} PROVE after = Common(k + 1)
    <3>1. CASE Listing(k) = {}
      <4>1. Common(k) = Commands
        BY <3>1 DEF Common
      <4>. QED BY <1>1, <1>3, <3>1, <4>1
    <3>2. CASE Listing(k) # {}
      BY <1>1, <1>3, <2>2, <3>2
    <3>. QED BY <3>1, <3>2
  <2>. QED BY <2>1, <2>2 DEF ListsAgree
<1>. QED BY <1>1, <1>2, <1>3, NextList

LEMMA AllAgree ==
  ASSUME Depth \in Nat, PoliciesTyped
  PROVE  \A n \in 0..Depth : FlagsAgree(n) /\ ListsAgree(n)
<1>. DEFINE S == {n \in 0..Depth : FlagsAgree(n) /\ ListsAgree(n)}
<1>1. 0 \in S
  BY NothingMerged
<1>2. ASSUME NEW k \in 0..(Depth - 1), k \in S PROVE k + 1 \in S
  <2>1. k + 1 \in 0..Depth
    OBVIOUS
  <2>. QED BY <1>2, <2>1, FlagsStillAgree, ListsStillAgree
<1>. HIDE DEF S
<1>3. \A n \in 0..Depth : n \in S
  BY <1>1, <1>2, UpTo
<1>. USE DEF S
<1>. QED BY <1>3

\* For any places that have a policy, whatever it says: the rules, the flags and, if
\* the lists have an entry in common, the list of MergePolicy are what all of the
\* places agree on. None of it depends on the order they are merged in.
THEOREM MergeAgrees ==
  ASSUME Depth \in Nat
  PROVE  PolicySpec => []MergeIsWhatAllAllow
<1>1. ASSUME PoliciesTyped PROVE MergeIsWhatAllAllow
  <2>1. FlagsAgree(Depth) /\ ListsAgree(Depth)
    BY <1>1, AllAgree
  <2>. DEFINE m == Merged[Depth]
  <2>2. /\ m.enforced = UNION {policies[p].enforced : p \in Published(Depth)}
        /\ m.auto <=> \A p \in Published(Depth) : policies[p].auto
        /\ m.scripts <=> \E p \in Published(Depth) : policies[p].scripts
        /\ Listing(Depth) = {} => m.commands = {}
        /\ Listing(Depth) # {} /\ Common(Depth) # {} => m.commands = Common(Depth)
    BY <2>1 DEF FlagsAgree, ListsAgree
  <2>. QED BY <2>2 DEF MergeIsWhatAllAllow
<1>. QED BY <1>1, PoliciesKeepType, PTL



\* After n places the list of p still binds, or has been forgotten.
StillBinds(p, n) ==
  \/ n < p
  \/ Merged[n].commands # {} /\ Merged[n].commands \subseteq policies[p].commands
  \/ \E i \in p..n : Disjoint(i)

LEMMA BindsFurther ==
  ASSUME Depth \in Nat, PoliciesTyped, NEW p \in Listing(Depth), NEW k \in 0..(Depth - 1), StillBinds(p, k)
  PROVE  StillBinds(p, k + 1)
<1>. DEFINE list == policies[k + 1].commands
            before == Merged[k].commands
            after == Merged[k + 1].commands
<1>1. before \subseteq Commands
  BY AllAgree DEF ListsAgree
<1>2. p \in Places /\ policies[p].commands # {} /\ k \in Nat /\ p \in Nat /\ (k + 1) - 1 = k
  BY DEF Listing, Published, Places
<1>3. CASE k + 1 < p
  BY <1>3 DEF StillBinds
<1>4. CASE \E i \in p..k : Disjoint(i)
  BY <1>2, <1>4 DEF StillBinds
<1>5. CASE after = before /\ k + 1 \notin Listing(k + 1) /\ ~(k + 1 < p) /\ ~\E i \in p..k : Disjoint(i)
  <2>1. k + 1 # p
    <3>1. ASSUME k + 1 = p PROVE FALSE
      <4>1. k + 1 \in 1..(k + 1)
        BY <1>2
      <4>. QED BY <1>5, <3>1, <4>1 DEF Listing, Published
    <3>. QED BY <3>1
  <2>2. ~(k < p)
    BY <1>2, <1>5, <2>1
  <2>. QED BY <1>5, <2>2 DEF StillBinds
<1>6. CASE /\ list # {} /\ Listing(k + 1) = Listing(k) \cup {k + 1}
           /\ after = (IF before = {} THEN list ELSE before \cap list)
           /\ ~(k + 1 < p) /\ ~\E i \in p..k : Disjoint(i)
  <2>1. p = k + 1 \/ (before # {} /\ before \subseteq policies[p].commands)
    BY <1>2, <1>6 DEF StillBinds
  <2>2. CASE after # {}
    <3>1. after \subseteq policies[p].commands
      BY <1>6, <2>1
    <3>. QED BY <2>2, <3>1 DEF StillBinds
  <2>3. CASE after = {}
    <3>1. before # {} /\ list \cap before = {}
      BY <1>6, <2>3
    <3>2. k + 1 \in Listing(Depth)
      <4>1. k + 1 \in Listing(k + 1)
        BY <1>6
      <4>2. k + 1 \in 1..Depth
        OBVIOUS
      <4>. QED BY <4>1, <4>2 DEF Listing, Published
    <3>3. Disjoint(k + 1)
      BY <1>2, <3>1, <3>2 DEF Disjoint
    <3>4. k + 1 \in p..(k + 1)
      BY <1>2, <1>6
    <3>. QED BY <3>3, <3>4 DEF StillBinds
  <2>. QED BY <2>2, <2>3
<1>. QED BY <1>1, <1>3, <1>4, <1>5, <1>6, NextList

\* However many lists are merged, a list is forgotten only where one has nothing in
\* common with what is left; up to there narrow allows nothing that it does not.
THEOREM ListsBind ==
  ASSUME Depth \in Nat
  PROVE  PolicySpec => []ListsBindUntilDisjoint
<1>1. ASSUME PoliciesTyped PROVE ListsBindUntilDisjoint
  <2>1. ASSUME NEW p \in Listing(Depth) PROVE StillBinds(p, Depth)
    <3>. DEFINE S == {n \in 0..Depth : StillBinds(p, n)}
    <3>1. p \in 1..Depth
      BY <2>1 DEF Listing, Published
    <3>2. 0 \in S
      BY <3>1 DEF StillBinds
    <3>3. ASSUME NEW k \in 0..(Depth - 1), k \in S PROVE k + 1 \in S
      <4>1. k + 1 \in 0..Depth
        OBVIOUS
      <4>. QED BY <1>1, <3>3, <4>1, BindsFurther
    <3>. HIDE DEF S
    <3>4. \A n \in 0..Depth : n \in S
      BY <3>2, <3>3, UpTo
    <3>. USE DEF S
    <3>. QED BY <3>4
  <2>2. ASSUME NEW p \in Listing(Depth) PROVE ~(Depth < p)
    BY <2>2 DEF Listing, Published
  <2>. QED BY <2>1, <2>2 DEF StillBinds, ListsBindUntilDisjoint
<1>. QED BY <1>1, PoliciesKeepType, PTL

===============================================================================
