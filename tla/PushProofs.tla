------------------------------- MODULE PushProofs ------------------------------
(***************************************************************************)
(* Proofs about Push, for any number of clients, resources, changesets and *)
(* commands. A command works with what it read calls ago; what holds of    *)
(* that all the same is enough to tell which versions a release may        *)
(* replace unseen, and that nothing of a push is lost on its way.          *)
(***************************************************************************)
EXTENDS Push, TLAPS

-------------------------------------------------------------------------------
(* The inductive invariant *)

\* Of a version an operation expects: it is there, and it is the one that the file
\* was made from, or the file has been left behind by a sync.
Expects(op, version) ==
  op # NoOp /\ op.prev # None => op.prev <= version /\ (op.skipped \/ op.base = op.prev)

ExpectsAll(ops, versions) == \A k \in Resources : Expects(ops[k], versions[k])

\* Resources have no versions beyond the bound; snapshots are of versions there are.
VersionsInv ==
  /\ \A k \in Resources : current[k] <= Bound[k]
  /\ \A c \in Clients, k \in Keys : known[c][k] <= current[k]

\* What a file was made from is in the snapshot, unless a sync has left it behind.
DiskInv ==
  \A c \in Clients, k \in Keys :
    known[c][k] # 0 => disk[c][k].skipped \/ disk[c][k].base = known[c][k]

\* A changeset touches something; once published, what it touched has moved on.
SetInv(s, versions) ==
  /\ s.state # "none" => Touched(s.ops) # {}
  /\ ExpectsAll(s.ops, versions)
  /\ s.state = "published" => \A k \in Touched(s.ops) : s.base[k] < versions[k]

SetsInv == \A id \in Ids : SetInv(sets[id], current)

\* A command, between two calls: it has something to do; the changeset it goes for
\* is there; while its ETag is good it knows the operations; what it is about to
\* submit has in it all that it set out with.
ProcInv(q, ss, versions) ==
  /\ ExpectsAll(q.ops, versions) /\ ExpectsAll(q.read, versions)
  /\ q.step \in {"find", "patch", "create", "submit"} => Touched(q.ops) # {}
  /\ q.step \in {"patch", "submit", "publish"} => q.id \in Ids /\ ss[q.id].state # "none"
  /\ q.step = "patch" /\ q.fresh => q.read = ss[q.id].ops
  /\ q.step = "submit" => Touched(q.ops) \subseteq Touched(ss[q.id].ops)

ProcsInv == \A c \in Clients : ProcInv(proc[c], sets, current)

ServerTyped ==
  /\ current \in [Resources -> Versions] /\ tombs \in [Resources -> SUBSET Versions] /\ text \in [Resources -> Texts]
  /\ sets \in [Ids -> Changeset]

ClientTyped ==
  /\ disk \in [Clients -> [Keys -> File]]
  /\ known \in [Clients -> [Keys -> Versions]]
  /\ proc \in [Clients -> Process]
  /\ edits \in Texts /\ begun \in 0..MaxCommands

IInv == ServerTyped /\ ClientTyped /\ VersionsInv /\ DiskInv /\ SetsInv /\ ProcsInv

-------------------------------------------------------------------------------
(* Lemmas about the data *)

LEMMA Numbers ==
  /\ Versions \subseteq Nat /\ Texts \subseteq Nat /\ 0 \in Texts
  /\ \A k \in Resources : Bound[k] \in Nat /\ 0..Bound[k] \subseteq Versions /\ 0 \in Versions
  /\ Keys \subseteq Resources
<1>1. \A k \in Resources : Bound[k] \in Nat
  BY BoundsAssumption
<1>2. Versions \subseteq Nat /\ \A k \in Resources : 0..Bound[k] \subseteq Versions /\ 0 \in 0..Bound[k]
  BY <1>1 DEF Versions
<1>3. Texts \subseteq Nat /\ 0 \in Texts
  BY BoundsAssumption DEF Texts
<1>. QED BY <1>1, <1>2, <1>3 DEF Resources

LEMMA NextVersion ==
  ASSUME NEW k \in Resources, NEW v \in Nat, v < Bound[k]
  PROVE  v + 1 \in Versions /\ v + 1 <= Bound[k]
<1>1. Bound[k] \in Nat /\ 0..Bound[k] \subseteq Versions
  BY Numbers
<1>2. v + 1 \in 0..Bound[k] /\ v + 1 <= Bound[k]
  BY <1>1
<1>. QED BY <1>1, <1>2

LEMMA OpFields ==
  ASSUME NEW op \in Op
  PROVE  /\ op # NoOp /\ op.act \in {"put", "delete"} /\ op.base \in Versions /\ op.text \in Texts
         /\ op.prev \in Versions \cup {None} /\ op.skipped \in BOOLEAN
  BY NoneAssumption DEF Op

LEMMA NothingToDo == NoOps \in Ops /\ Touched(NoOps) = {} /\ \A versions : ExpectsAll(NoOps, versions)
  BY DEF NoOps, Ops, Touched, ExpectsAll, Expects

LEMMA OneThingToDo ==
  ASSUME NEW k \in Resources, NEW act \in {"put", "delete"}, NEW base \in Versions
  PROVE  /\ OneOp(k, act, base) \in Ops /\ Touched(OneOp(k, act, base)) = {k}
         /\ OneOp(k, act, base)[k] \in Op /\ OneOp(k, act, base)[k].prev = None
         /\ \A versions : ExpectsAll(OneOp(k, act, base), versions)
<1>. DEFINE op == [act |-> act, base |-> base, text |-> 0, prev |-> None, skipped |-> FALSE]
<1>1. op \in Op /\ op.prev = None
  BY Numbers DEF Op
<1>2. op # NoOp
  BY <1>1, NoneAssumption
<1>. HIDE DEF op
<1>3. OneOp(k, act, base) = [NoOps EXCEPT ![k] = op]
  BY DEF OneOp, op
<1>4. /\ OneOp(k, act, base) \in Ops /\ OneOp(k, act, base)[k] = op
      /\ \A l \in Resources \ {k} : OneOp(k, act, base)[l] = NoOp
  BY <1>1, <1>3 DEF NoOps, Ops
<1>. QED BY <1>1, <1>2, <1>4 DEF Touched, ExpectsAll, Expects

\* Versions only grow, so what was expected once can be expected later.
LEMMA StillExpected ==
  ASSUME NEW ops \in Ops, NEW vs \in [Resources -> Nat], NEW ws \in [Resources -> Nat],
         \A k \in Resources : vs[k] <= ws[k], ExpectsAll(ops, vs)
  PROVE  ExpectsAll(ops, ws)
<1>. SUFFICES ASSUME NEW k \in Resources, ops[k] # NoOp, ops[k].prev # None
              PROVE  ops[k].prev <= ws[k] /\ (ops[k].skipped \/ ops[k].base = ops[k].prev)
  BY DEF ExpectsAll, Expects
<1>1. ops[k] \in Op
  BY DEF Ops
<1>2. ops[k].prev \in Nat
  BY <1>1, OpFields, Numbers
<1>3. ops[k].prev <= vs[k] /\ (ops[k].skipped \/ ops[k].base = ops[k].prev)
  BY DEF ExpectsAll, Expects
<1>. QED BY <1>2, <1>3

LEMMA MergedOps ==
  ASSUME NEW old \in Ops, NEW add \in Ops
  PROVE  /\ MergeOps(old, add) \in Ops
         /\ Touched(MergeOps(old, add)) = Touched(old) \cup Touched(add)
         /\ \A vs : ExpectsAll(old, vs) /\ ExpectsAll(add, vs) => ExpectsAll(MergeOps(old, add), vs)
  BY DEF MergeOps, Ops, Touched, ExpectsAll, Expects

LEMMA SetFields ==
  ASSUME IInv, NEW id \in Ids
  PROVE  /\ sets[id] \in Changeset /\ sets[id].state \in States /\ sets[id].ops \in Ops
         /\ sets[id].base \in [Resources -> Versions] /\ sets[id].fast \in BOOLEAN
         /\ SetInv(sets[id], current)
  BY DEF IInv, ServerTyped, SetsInv, Changeset

LEMMA ProcFields ==
  ASSUME NEW q \in Process
  PROVE  /\ q.step \in Steps /\ q.ops \in Ops /\ q.id \in Ids \cup {None} /\ q.read \in Ops
         /\ q.fresh \in BOOLEAN /\ q.fast \in BOOLEAN /\ q.draft \in BOOLEAN
  BY DEF Process

LEMMA ProcType ==
  ASSUME IInv, NEW c \in Clients
  PROVE  proc[c] \in Process /\ ProcInv(proc[c], sets, current)
  BY DEF IInv, ClientTyped, ProcsInv

LEMMA IdleCommand == IdleProcess \in Process /\ \A ss, vs : ProcInv(IdleProcess, ss, vs)
  BY NothingToDo DEF IdleProcess, Process, ProcInv, Steps

-------------------------------------------------------------------------------
(* The working directory *)

LEMMA FileFields ==
  ASSUME NEW f \in File
  PROVE  f.base \in Versions /\ f.text \in Texts /\ f.skipped \in BOOLEAN
  BY DEF File

LEMMA EditKeeps ==
  ASSUME IInv, NEW c \in Clients, NEW keys \in SUBSET Keys, EditFiles(c, keys)
  PROVE  IInv'
<1>1. /\ edits' \in Texts
      /\ disk' = [disk EXCEPT ![c] = [k \in Keys |-> IF k \in keys THEN [@[k] EXCEPT !.text = edits'] ELSE @[k]]]
      /\ UNCHANGED <<current, tombs, text, sets, known, proc, begun>>
  BY BoundsAssumption DEF EditFiles, server, IInv, ClientTyped, Texts
<1>2. \A d \in Clients, k \in Keys :
        /\ disk[d][k] \in File
        /\ disk'[d][k] \in File /\ disk'[d][k].base = disk[d][k].base /\ disk'[d][k].skipped = disk[d][k].skipped
  <2>. SUFFICES ASSUME NEW d \in Clients, NEW k \in Keys
                PROVE  /\ disk[d][k] \in File
                       /\ disk'[d][k] \in File /\ disk'[d][k].base = disk[d][k].base /\ disk'[d][k].skipped = disk[d][k].skipped
    OBVIOUS
  <2>1. disk[d][k] \in File
    BY DEF IInv, ClientTyped
  <2>2. disk'[d][k] \in {disk[d][k], [disk[d][k] EXCEPT !.text = edits']}
    BY <1>1 DEF IInv, ClientTyped
  <2>. QED BY <1>1, <2>1, <2>2 DEF File
<1>3. disk' \in [Clients -> [Keys -> File]]
  BY <1>1, <1>2 DEF IInv, ClientTyped
<1>4. DiskInv'
  BY <1>1, <1>2 DEF IInv, DiskInv
<1>. QED BY <1>1, <1>3, <1>4 DEF IInv, ServerTyped, ClientTyped, VersionsInv, SetsInv, ProcsInv

\* What is offered of a resource is its current version, or nothing.
LEMMA OfferedIs ==
  ASSUME IInv, NEW k \in Resources
  PROVE  /\ current[k] \in Nat /\ current[k] \in Versions
         /\ Offered(k) \in {0, current[k]} /\ Offered(k) \in Versions /\ Offered(k) <= current[k]
<1>1. current[k] \in Versions /\ 0 \in Versions
  BY Numbers DEF IInv, ServerTyped
<1>2. Offered(k) \in {0, current[k]}
  BY DEF Offered
<1>3. current[k] \in Nat
  BY <1>1, Numbers
<1>. QED BY <1>1, <1>2, <1>3

\* A file after a sync is made from what the snapshot says, or has been left behind.
LEMMA AppliedFile ==
  ASSUME IInv, NEW k \in Keys, NEW f \in File
  PROVE  /\ Applied(f, k) \in File
         /\ Offered(k) # 0 => Applied(f, k).skipped \/ Applied(f, k).base = Offered(k)
<1>1. k \in Resources /\ 0 \in Texts
  BY Numbers
<1>2. current[k] \in Versions /\ Offered(k) \in {0, current[k]} /\ Offered(k) \in Versions
  BY <1>1, OfferedIs
<1>3. CASE f.text = 0 \/ (f.text = text[k] /\ Offered(k) # 0)
  <2>1. Applied(f, k) = [base |-> Offered(k), text |-> 0, skipped |-> FALSE]
    BY <1>3 DEF Applied
  <2>. QED BY <1>1, <1>2, <2>1 DEF File
<1>4. CASE ~(f.text = 0 \/ (f.text = text[k] /\ Offered(k) # 0))
  <2>. DEFINE left == f.skipped \/ Offered(k) \notin {0, f.base}
  <2>1. Applied(f, k) = [f EXCEPT !.skipped = left]
    BY <1>4 DEF Applied
  <2>2. left \in BOOLEAN
    BY FileFields
  <2>3. ~left => Offered(k) \in {0, f.base}
    OBVIOUS
  <2>. HIDE DEF left
  <2>. QED BY <2>1, <2>2, <2>3 DEF File
<1>. QED BY <1>3, <1>4

LEMMA SyncKeeps ==
  ASSUME IInv, NEW c \in Clients, SyncAll(c)
  PROVE  IInv'
<1>1. /\ disk' = [disk EXCEPT ![c] = [k \in Keys |-> Applied(@[k], k)]]
      /\ known' = [known EXCEPT ![c] = [k \in Keys |-> Offered(k)]]
      /\ UNCHANGED <<current, tombs, text, sets, proc, edits, begun>>
  BY DEF SyncAll, server
<1>2. \A k \in Keys : disk[c][k] \in File /\ k \in Resources
  BY Numbers DEF IInv, ClientTyped
<1>3. /\ disk' \in [Clients -> [Keys -> File]] /\ known' \in [Clients -> [Keys -> Versions]]
      /\ \A k \in Keys : disk'[c][k] = Applied(disk[c][k], k) /\ known'[c][k] = Offered(k)
      /\ \A d \in Clients \ {c} : disk'[d] = disk[d] /\ known'[d] = known[d]
  <2>1. disk \in [Clients -> [Keys -> File]] /\ known \in [Clients -> [Keys -> Versions]]
    BY DEF IInv, ClientTyped
  <2>2. [k \in Keys |-> Applied(disk[c][k], k)] \in [Keys -> File]
    BY <1>2, AppliedFile
  <2>3. [k \in Keys |-> Offered(k)] \in [Keys -> Versions]
    BY <1>2, OfferedIs
  <2>. QED BY <1>1, <2>1, <2>2, <2>3
<1>4. DiskInv'
  BY <1>2, <1>3, AppliedFile DEF IInv, DiskInv
<1>5. VersionsInv'
  BY <1>1, <1>2, <1>3, OfferedIs DEF IInv, VersionsInv
<1>. QED BY <1>1, <1>3, <1>4, <1>5 DEF IInv, ServerTyped, ClientTyped, SetsInv, ProcsInv

-------------------------------------------------------------------------------
(* Commands, before they call *)

\* A step of a command that touches nothing but the command.
LEMMA CommandKeeps ==
  ASSUME IInv, NEW c \in Clients, NEW q \in Process, ProcInv(q, sets, current),
         proc' = [proc EXCEPT ![c] = q], begun' \in 0..MaxCommands,
         UNCHANGED <<server, sets, disk, known, edits>>
  PROVE  IInv'
<1>1. proc' \in [Clients -> Process] /\ proc'[c] = q /\ \A d \in Clients \ {c} : proc'[d] = proc[d]
  BY DEF IInv, ClientTyped
<1>2. ProcsInv'
  BY <1>1, ProcType DEF server, ProcsInv
<1>. QED BY <1>1, <1>2 DEF IInv, server, ServerTyped, ClientTyped, VersionsInv, DiskInv, SetsInv

LEMMA StopKeeps ==
  ASSUME IInv, NEW c \in Clients, Stop(c)
  PROVE  IInv'
  BY CommandKeeps, IdleCommand DEF Stop, IInv, ClientTyped

LEMMA BeginKeeps ==
  ASSUME IInv, NEW c \in Clients, NEW step \in {"find", "create"}, NEW ops \in Ops,
         ExpectsAll(ops, current), Touched(ops) # {}, NEW fast \in BOOLEAN, NEW draft \in BOOLEAN,
         Begin(c, step, ops, fast, draft)
  PROVE  IInv'
<1>. DEFINE q == [IdleProcess EXCEPT !.step = step, !.ops = ops, !.fast = fast, !.draft = draft]
<1>1. q \in Process /\ q.step = step /\ q.ops = ops /\ q.read = NoOps
  BY NothingToDo DEF IdleProcess, Process, Steps
<1>2. q \in Process
  BY <1>1
<1>3. ProcInv(q, sets, current)
  BY <1>1, NothingToDo DEF ProcInv
<1>4. begun' \in 0..MaxCommands
  BY BoundsAssumption DEF Begin, IInv, ClientTyped
<1>. HIDE DEF q
<1>5. proc' = [proc EXCEPT ![c] = q] /\ UNCHANGED <<server, sets, disk, known, edits>>
  BY DEF Begin, q
<1>. QED BY <1>2, <1>3, <1>4, <1>5, CommandKeeps

\* What push makes of the files that were edited: each expects the version of the
\* snapshot, and what the snapshot has not, it does not expect.
LEMMA PushedOps ==
  ASSUME IInv, NEW c \in Clients,
         NEW ops, ops = [k \in Resources |-> IF k \in Keys THEN IF IsDirty(c, k) THEN ToOp(c, k) ELSE NoOp ELSE NoOp]
  PROVE  ops \in Ops /\ ExpectsAll(ops, current) /\ \A k \in Keys : IsDirty(c, k) => k \in Touched(ops)
<1>1. ASSUME NEW k \in Keys
      PROVE  /\ ToOp(c, k) \in Op /\ ToOp(c, k) # NoOp
             /\ ToOp(c, k).prev # None => /\ ToOp(c, k).prev = known[c][k] /\ known[c][k] # 0
                                          /\ ToOp(c, k).base = disk[c][k].base
                                          /\ ToOp(c, k).skipped = disk[c][k].skipped
  <2>1. disk[c][k] \in File /\ known[c][k] \in Versions
    BY DEF IInv, ClientTyped
  <2>2. ToOp(c, k) \in Op
    BY <2>1, FileFields DEF ToOp, Op
  <2>3. ToOp(c, k) # NoOp
    BY <2>2, NoneAssumption
  <2>. QED BY <2>2, <2>3 DEF ToOp
<1>2. ops \in Ops
  BY <1>1 DEF Ops
<1>3. ASSUME NEW k \in Resources
      PROVE  Expects(ops[k], current[k])
  <2>1. CASE k \in Keys /\ IsDirty(c, k)
    <3>1. ops[k] = ToOp(c, k)
      BY <2>1
    <3>2. known[c][k] # 0 => known[c][k] <= current[k] /\ (disk[c][k].skipped \/ disk[c][k].base = known[c][k])
      BY <2>1 DEF IInv, VersionsInv, DiskInv
    <3>. QED BY <1>1, <2>1, <3>1, <3>2 DEF Expects
  <2>2. CASE ~(k \in Keys /\ IsDirty(c, k))
    BY <2>2 DEF Expects
  <2>. QED BY <2>1, <2>2
<1>4. ASSUME NEW k \in Keys, IsDirty(c, k)
      PROVE  k \in Touched(ops)
  BY <1>1, <1>4, Numbers DEF Touched
<1>. QED BY <1>2, <1>3, <1>4 DEF ExpectsAll

\* A rollback expects no versions, and goes back to a version below the current one.
LEMMA RolledBackOps ==
  ASSUME IInv, NEW id \in Ids, sets[id].state = "published"
  PROVE  RollbackOf(id) \in Ops /\ ExpectsAll(RollbackOf(id), current)
<1>1. ASSUME NEW k \in Resources
      PROVE  /\ RollbackOf(id)[k] \in Op \cup {NoOp}
             /\ RollbackOf(id)[k] # NoOp => RollbackOf(id)[k].prev = None
  <2>. DEFINE before == sets[id].base[k]
              op == sets[id].ops[k]
  <2>1. CASE op = NoOp
    BY <2>1 DEF RollbackOf
  <2>2. CASE op # NoOp
    <3>1. k \in Touched(sets[id].ops)
      BY <2>2 DEF Touched
    <3>2. before \in Nat /\ before < current[k]
      BY <3>1, SetFields, Numbers DEF SetInv
    <3>3. before < Bound[k]
      <4>1. current[k] \in Nat /\ Bound[k] \in Nat /\ current[k] <= Bound[k]
        BY OfferedIs, Numbers DEF IInv, VersionsInv
      <4>. QED BY <3>2, <4>1
    <3>4. \A act \in {"put", "delete"} :
            OneOp(k, act, before + 1)[k] \in Op /\ OneOp(k, act, before + 1)[k].prev = None
      BY <3>2, <3>3, NextVersion, OneThingToDo
    <3>5. RollbackOf(id)[k] \in {NoOp, OneOp(k, "put", before + 1)[k], OneOp(k, "delete", before + 1)[k]}
      BY <2>2 DEF RollbackOf
    <3>. QED BY <3>4, <3>5
  <2>. QED BY <2>1, <2>2
<1>2. RollbackOf(id) = [k \in Resources |-> RollbackOf(id)[k]]
  BY DEF RollbackOf
<1>. QED BY <1>1, <1>2 DEF Ops, ExpectsAll, Expects

LEMMA CommandsKeep ==
  ASSUME IInv, NEW c \in Clients, Commands(c)
  PROVE  IInv'
<1>1. ASSUME NEW fast \in BOOLEAN, BeginPush(c, fast) PROVE IInv'
  <2>. DEFINE ops == [k \in Resources |-> IF k \in Keys THEN IF IsDirty(c, k) THEN ToOp(c, k) ELSE NoOp ELSE NoOp]
  <2>1. ops \in Ops /\ ExpectsAll(ops, current) /\ Touched(ops) # {}
    BY <1>1, PushedOps DEF BeginPush
  <2>2. Begin(c, "find", ops, fast, FALSE)
    BY <1>1 DEF BeginPush
  <2>. QED BY <2>1, <2>2, BeginKeeps
<1>2. ASSUME NEW fast \in BOOLEAN, NEW k \in Keys, BeginRemove(c, k, fast) PROVE IInv'
  <2>1. known[c][k] \in Versions /\ k \in Resources
    BY Numbers DEF IInv, ClientTyped
  <2>. QED BY <1>2, <2>1, OneThingToDo, BeginKeeps DEF BeginRemove
<1>3. ASSUME NEW fast \in BOOLEAN, NEW l \in Learnings, BeginContribute(c, l, fast) PROVE IInv'
  <2>1. l \in Resources /\ 0 \in Versions
    BY Numbers DEF Resources
  <2>. QED BY <1>3, <2>1, OneThingToDo, BeginKeeps DEF BeginContribute
<1>4. ASSUME NEW fast \in BOOLEAN, NEW id \in Ids, BeginRollback(c, id, fast) PROVE IInv'
  BY <1>4, RolledBackOps, BeginKeeps DEF BeginRollback
<1>5. ASSUME NEW l \in Learnings, BeginArchive(c, l) PROVE IInv'
  <2>1. l \in Resources /\ current[l] \in Versions
    BY OfferedIs DEF Resources
  <2>. QED BY <1>5, <2>1, OneThingToDo, BeginKeeps DEF BeginArchive
<1>6. ASSUME NEW l \in Learnings, NEW k \in Keys, BeginPromote(c, l, k) PROVE IInv'
  <2>1. k \in Resources /\ 0 \in Versions
    BY Numbers
  <2>. QED BY <1>6, <2>1, OneThingToDo, BeginKeeps DEF BeginPromote
<1>. QED BY <1>1, <1>2, <1>3, <1>4, <1>5, <1>6 DEF Commands


-------------------------------------------------------------------------------
(* Calls *)

\* What a call may do to the server: versions grow; a changeset does not vanish, and
\* touches what it touched; if another's operations change, it is one of ids.
Grown(ids) ==
  /\ \A k \in Resources : current[k] <= current'[k] /\ current'[k] <= Bound[k]
  /\ \A d \in Ids :
       sets[d].state # "none" => /\ sets'[d].state # "none"
                                 /\ Touched(sets[d].ops) \subseteq Touched(sets'[d].ops)
                                 /\ d \notin ids => sets'[d].ops = sets[d].ops

LEMMA VersionsAreNumbers ==
  ASSUME NEW vs \in [Resources -> Versions]
  PROVE  vs \in [Resources -> Nat]
  BY Numbers

\* What is known of a command stays known; all but the ETag of a changeset of ids.
LEMMA OthersKnow ==
  ASSUME IInv, ServerTyped', NEW ids, Grown(ids), NEW d \in Clients
  PROVE  /\ proc[d].id \notin ids => ProcInv(proc[d], sets', current')
         /\ [proc[d] EXCEPT !.fresh = FALSE] \in Process
         /\ ProcInv([proc[d] EXCEPT !.fresh = FALSE], sets', current')
<1>. DEFINE q == proc[d]
            u == [proc[d] EXCEPT !.fresh = FALSE]
<1>1. q \in Process /\ ProcInv(q, sets, current) /\ q.ops \in Ops /\ q.read \in Ops
  BY ProcType, ProcFields
<1>2. u \in Process /\ u.step = q.step /\ u.ops = q.ops /\ u.id = q.id /\ u.read = q.read /\ u.fresh = FALSE
  BY <1>1 DEF Process
<1>. HIDE DEF q, u
<1>3. current \in [Resources -> Nat] /\ current' \in [Resources -> Nat]
  BY VersionsAreNumbers DEF IInv, ServerTyped
<1>4. ExpectsAll(q.ops, current') /\ ExpectsAll(q.read, current')
  BY <1>1, <1>3, StillExpected DEF ProcInv, Grown
<1>5. q.step \in {"find", "patch", "create", "submit"} => Touched(q.ops) # {}
  BY <1>1 DEF ProcInv
<1>6. q.step \in {"patch", "submit", "publish"} =>
        q.id \in Ids /\ sets[q.id].state # "none" /\ sets'[q.id].state # "none"
  BY <1>1 DEF ProcInv, Grown
<1>7. q.step = "submit" => Touched(q.ops) \subseteq Touched(sets'[q.id].ops)
  BY <1>1, <1>6 DEF ProcInv, Grown
<1>8. q.step = "patch" /\ q.fresh /\ q.id \notin ids => q.read = sets'[q.id].ops
  BY <1>1, <1>6 DEF ProcInv, Grown
<1>9. q.id \notin ids => ProcInv(q, sets', current')
  BY <1>4, <1>5, <1>6, <1>7, <1>8 DEF ProcInv
<1>10. ProcInv(u, sets', current')
  BY <1>2, <1>4, <1>5, <1>6, <1>7 DEF ProcInv
<1>. QED BY <1>2, <1>9, <1>10 DEF q, u

\* A call that changes the server. P has the command that made it, one call further;
\* the others, if any of them reads the changeset, have an ETag of before.
LEMMA CallKeeps ==
  ASSUME IInv, NEW ids, NEW P \in [Clients -> Process], Grown(ids), ServerTyped', SetsInv',
         proc' = Stale(ids, P),
         \A d \in Clients : P[d] = proc[d] \/ (P[d].fresh = FALSE /\ ProcInv(P[d], sets', current')),
         UNCHANGED <<disk, known, edits, begun>>
  PROVE  IInv'
<1>1. ASSUME NEW d \in Clients
      PROVE  proc'[d] \in Process /\ ProcInv(proc'[d], sets', current')
  <2>1. proc'[d] = IF P[d].id \in ids THEN [P[d] EXCEPT !.fresh = FALSE] ELSE P[d]
    BY DEF Stale
  <2>2. CASE P[d] = proc[d]
    BY <2>1, <2>2, OthersKnow
  <2>3. CASE P[d].fresh = FALSE /\ ProcInv(P[d], sets', current')
    <3>1. P[d] \in Process /\ [P[d] EXCEPT !.fresh = FALSE] = P[d]
      BY <2>3 DEF Process
    <3>. QED BY <2>1, <2>3, <3>1
  <2>. QED BY <2>2, <2>3
<1>2. proc' = [d \in Clients |-> proc'[d]]
  BY DEF Stale
<1>3. proc' \in [Clients -> Process] /\ ProcsInv'
  BY <1>1, <1>2 DEF ProcsInv
<1>4. VersionsInv'
  <2>1. current \in [Resources -> Nat] /\ current' \in [Resources -> Nat]
    BY VersionsAreNumbers DEF IInv, ServerTyped
  <2>2. \A c \in Clients, k \in Keys : known[c][k] \in Nat /\ k \in Resources
    BY Numbers DEF IInv, ClientTyped
  <2>3. ASSUME NEW c \in Clients, NEW k \in Keys
        PROVE  known[c][k] <= current'[k]
    <3>1. k \in Resources /\ known[c][k] \in Nat /\ current[k] \in Nat /\ current'[k] \in Nat
      BY <2>1, <2>2
    <3>2. known[c][k] <= current[k] /\ current[k] <= current'[k]
      BY <3>1 DEF IInv, VersionsInv, Grown
    <3>. QED BY <3>1, <3>2
  <2>. QED BY <2>3 DEF VersionsInv, Grown
<1>. QED BY <1>3, <1>4 DEF IInv, ClientTyped, DiskInv

LEMMA NobodyStale ==
  ASSUME NEW P \in [Clients -> Process]
  PROVE  Stale({}, P) = P
  BY DEF Stale

\* Nothing else changes on the server.
LEMMA SameServer ==
  ASSUME IInv, UNCHANGED <<server, sets>>, NEW ids
  PROVE  ServerTyped' /\ SetsInv' /\ Grown(ids)
<1>1. current \in [Resources -> Nat]
  BY VersionsAreNumbers DEF IInv, ServerTyped
<1>2. Grown(ids)
  BY <1>1 DEF server, IInv, VersionsInv, Grown
<1>. QED BY <1>2 DEF server, IInv, ServerTyped, SetsInv

LEMMA GoesOn ==
  ASSUME IInv, NEW c \in Clients, NEW step \in {"patch", "create", "submit", "publish"}
  PROVE  \E q \in Process :
           /\ Goes(c, step) = [proc EXCEPT ![c] = q]
           /\ q.step = step /\ q.ops = proc[c].ops /\ q.id = proc[c].id /\ q.read = NoOps /\ q.fresh = FALSE
<1>. DEFINE q == [proc[c] EXCEPT !.step = step, !.read = NoOps, !.fresh = FALSE]
<1>1. /\ q \in Process /\ q.step = step /\ q.ops = proc[c].ops /\ q.id = proc[c].id
      /\ q.read = NoOps /\ q.fresh = FALSE
  BY ProcType, NothingToDo DEF Process, Steps
<1>2. Goes(c, step) = [proc EXCEPT ![c] = q]
  BY DEF Goes, IInv, ClientTyped
<1>. HIDE DEF q
<1>. QED BY <1>1, <1>2

\* A call is refused, or was the last: the command ends.
LEMMA EndKeeps ==
  ASSUME IInv, NEW c \in Clients, proc' = Goes(c, "idle"), UNCHANGED <<server, sets, disk, known, edits, begun>>
  PROVE  IInv'
<1>1. proc' = [proc EXCEPT ![c] = IdleProcess]
  BY DEF Goes
<1>. QED BY <1>1, CommandKeeps, IdleCommand DEF IInv, ClientTyped

LEMMA FindKeeps ==
  ASSUME IInv, NEW c \in Clients, Find(c)
  PROVE  IInv'
<1>1. /\ proc[c].step = "find" /\ begun' \in 0..MaxCommands
      /\ UNCHANGED <<server, sets, disk, known, edits>>
  BY DEF Find, IInv, ClientTyped
<1>2. ProcInv(proc[c], sets, current) /\ proc[c] \in Process
  BY ProcType
<1>3. CASE proc' = Goes(c, "create")
  <2>1. PICK q \in Process :
           /\ Goes(c, "create") = [proc EXCEPT ![c] = q]
           /\ q.step = "create" /\ q.ops = proc[c].ops /\ q.id = proc[c].id /\ q.read = NoOps /\ q.fresh = FALSE
    BY GoesOn
  <2>2. ProcInv(q, sets, current)
    BY <1>1, <1>2, <2>1, NothingToDo DEF ProcInv
  <2>. QED BY <1>1, <1>3, <2>1, <2>2, CommandKeeps
<1>4. ASSUME NEW id \in Ids, sets[id].state \in {"draft", "in_review"},
             proc' = [Goes(c, "patch") EXCEPT ![c].id = id, ![c].read = sets[id].ops, ![c].fresh = TRUE]
      PROVE  IInv'
  <2>1. PICK q \in Process :
           /\ Goes(c, "patch") = [proc EXCEPT ![c] = q]
           /\ q.step = "patch" /\ q.ops = proc[c].ops /\ q.id = proc[c].id /\ q.read = NoOps /\ q.fresh = FALSE
    BY GoesOn
  <2>. DEFINE u == [q EXCEPT !.id = id, !.read = sets[id].ops, !.fresh = TRUE]
  <2>2. /\ u \in Process /\ u.step = "patch" /\ u.ops = proc[c].ops /\ u.id = id
        /\ u.read = sets[id].ops
    BY <2>1, SetFields DEF Process
  <2>3. proc' = [proc EXCEPT ![c] = u]
    BY <1>4, <2>1 DEF IInv, ClientTyped
  <2>. HIDE DEF u
  <2>4. ProcInv(u, sets, current)
    BY <1>1, <1>2, <1>4, <2>2, SetFields DEF ProcInv, SetInv
  <2>. QED BY <1>1, <2>2, <2>3, <2>4, CommandKeeps
<1>. QED BY <1>3, <1>4 DEF Find


\* A call that changes one changeset, and no version of anything.
LEMMA SetChanges ==
  ASSUME IInv, NEW id \in Ids, NEW s \in Changeset, sets' = [sets EXCEPT ![id] = s], UNCHANGED server,
         SetInv(s, current),
         sets[id].state # "none" => s.state # "none" /\ Touched(sets[id].ops) \subseteq Touched(s.ops)
  PROVE  /\ ServerTyped' /\ SetsInv' /\ Grown({id}) /\ sets'[id] = s
         /\ sets[id].state = "none" \/ s.ops = sets[id].ops => Grown({})
<1>1. /\ sets' \in [Ids -> Changeset] /\ sets'[id] = s /\ UNCHANGED <<current, tombs, text>>
      /\ \A d \in Ids \ {id} : sets'[d] = sets[d]
  BY DEF server, IInv, ServerTyped
<1>2. ServerTyped'
  BY <1>1 DEF IInv, ServerTyped
<1>3. SetsInv'
  BY <1>1 DEF IInv, SetsInv
<1>4. \A k \in Resources : current[k] <= current'[k] /\ current'[k] <= Bound[k]
  BY <1>1, OfferedIs DEF IInv, VersionsInv
<1>. QED BY <1>1, <1>2, <1>3, <1>4 DEF Grown

\* A changeset after a PATCH
Rewrite(t, state, ops, fast) == [t EXCEPT !.state = state, !.ops = ops, !.fast = fast]

LEMMA Rewritten ==
  ASSUME NEW t \in Changeset, NEW state \in States, NEW ops \in Ops, NEW fast \in BOOLEAN
  PROVE  /\ Rewrite(t, state, ops, fast) \in Changeset
         /\ Rewrite(t, state, ops, fast).state = state /\ Rewrite(t, state, ops, fast).ops = ops
  BY DEF Changeset, Rewrite

LEMMA PatchKeeps ==
  ASSUME IInv, NEW c \in Clients, Patch(c)
  PROVE  IInv'
<1>. DEFINE id == proc[c].id
            ops == MergeOps(proc[c].read, proc[c].ops)
            s == Rewrite(sets[id], "draft", ops, proc[c].fast)
<1>1. proc[c].step = "patch" /\ UNCHANGED <<server, disk, known, edits, begun>>
  BY DEF Patch
<1>2. /\ proc[c] \in Process /\ ProcInv(proc[c], sets, current)
      /\ proc[c].read \in Ops /\ proc[c].ops \in Ops /\ proc[c].fast \in BOOLEAN
  BY ProcType, ProcFields
<1>3. id \in Ids /\ Touched(proc[c].ops) # {}
  BY <1>1, <1>2 DEF ProcInv
<1>4. CASE sets' = sets /\ proc' = Goes(c, "idle")
  BY <1>1, <1>4, EndKeeps
<1>5. CASE /\ proc[c].fresh
           /\ sets' = [sets EXCEPT ![id].state = "draft", ![id].ops = ops, ![id].fast = proc[c].fast]
           /\ proc' = Stale({id}, Goes(c, "submit"))
           /\ sets[id].state \notin {"published", "closed"}
  <2>1. /\ ops \in Ops /\ Touched(ops) = Touched(proc[c].read) \cup Touched(proc[c].ops)
        /\ ExpectsAll(ops, current)
    BY <1>2, MergedOps DEF ProcInv
  <2>2. proc[c].read = sets[id].ops
    BY <1>1, <1>2, <1>5 DEF ProcInv
  <2>3. s \in Changeset /\ s.state = "draft" /\ s.ops = ops
    <3>1. sets[id] \in Changeset
      BY <1>3, SetFields
    <3>2. "draft" \in States
      BY DEF States
    <3>. HIDE DEF ops
    <3>. QED BY <1>2, <2>1, <3>1, <3>2, Rewritten
  <2>4. sets' = [sets EXCEPT ![id] = s]
    BY <1>5 DEF IInv, ServerTyped, Rewrite
  <2>5. PICK q \in Process :
           /\ Goes(c, "submit") = [proc EXCEPT ![c] = q]
           /\ q.step = "submit" /\ q.ops = proc[c].ops /\ q.id = proc[c].id /\ q.read = NoOps /\ q.fresh = FALSE
    BY GoesOn
  <2>. HIDE DEF s, ops
  <2>6. SetInv(s, current)
    BY <1>3, <2>1, <2>3 DEF SetInv
  <2>7. ServerTyped' /\ SetsInv' /\ Grown({id}) /\ sets'[id] = s
    BY <1>1, <1>3, <2>1, <2>2, <2>3, <2>4, <2>6, SetChanges
  <2>8. ProcInv(q, sets', current')
    <3>1. current' = current
      BY <1>1 DEF server
    <3>. QED BY <1>2, <1>3, <2>1, <2>3, <2>5, <2>7, <3>1, NothingToDo DEF ProcInv
  <2>9. /\ Goes(c, "submit") \in [Clients -> Process] /\ Goes(c, "submit")[c] = q
        /\ \A d \in Clients \ {c} : Goes(c, "submit")[d] = proc[d]
    BY <2>5 DEF IInv, ClientTyped
  <2>. QED BY <1>1, <1>5, <2>5, <2>7, <2>8, <2>9, CallKeeps
<1>. QED BY <1>4, <1>5 DEF Patch

LEMMA CreateKeeps ==
  ASSUME IInv, NEW c \in Clients, Create(c)
  PROVE  IInv'
<1>1. proc[c].step = "create" /\ UNCHANGED <<server, disk, known, edits, begun>>
  BY DEF Create
<1>2. /\ proc[c] \in Process /\ ProcInv(proc[c], sets, current)
      /\ proc[c].ops \in Ops /\ proc[c].fast \in BOOLEAN /\ Touched(proc[c].ops) # {}
  BY <1>1, ProcType, ProcFields DEF ProcInv
<1>3. CASE sets' = sets /\ proc' = Goes(c, "idle")
  BY <1>1, <1>3, EndKeeps
<1>4. ASSUME NEW id \in Ids, sets[id].state = "none",
             sets' = [sets EXCEPT ![id] = [state |-> "draft", ops |-> proc[c].ops, base |-> current, fast |-> proc[c].fast]],
             \/ proc' = Goes(c, "idle")
             \/ proc' = [Goes(c, "submit") EXCEPT ![c].id = id]
      PROVE  IInv'
  <2>. DEFINE s == [state |-> "draft", ops |-> proc[c].ops, base |-> current, fast |-> proc[c].fast]
  <2>1. s \in Changeset /\ s.state = "draft" /\ s.ops = proc[c].ops
    BY <1>2 DEF Changeset, States, IInv, ServerTyped
  <2>. HIDE DEF s
  <2>2. SetInv(s, current)
    BY <1>2, <2>1 DEF SetInv, ProcInv
  <2>3. sets' = [sets EXCEPT ![id] = s]
    BY <1>4 DEF s
  <2>4. ServerTyped' /\ SetsInv' /\ Grown({}) /\ sets'[id] = s
    BY <1>1, <1>4, <2>1, <2>2, <2>3, SetChanges
  <2>5. current' = current
    BY <1>1 DEF server
  <2>6. CASE proc' = Goes(c, "idle")
    <3>1. proc' = [proc EXCEPT ![c] = IdleProcess]
      BY <2>6 DEF Goes
    <3>2. /\ proc' \in [Clients -> Process] /\ proc'[c] = IdleProcess
          /\ \A d \in Clients \ {c} : proc'[d] = proc[d]
      BY <3>1, IdleCommand DEF IInv, ClientTyped
    <3>3. IdleProcess.fresh = FALSE /\ ProcInv(IdleProcess, sets', current')
      BY IdleCommand DEF IdleProcess
    <3>4. proc' = Stale({}, proc')
      BY <3>2, NobodyStale
    <3>. QED BY <1>1, <2>4, <3>2, <3>3, <3>4, CallKeeps
  <2>7. CASE proc' = [Goes(c, "submit") EXCEPT ![c].id = id]
    <3>1. PICK q \in Process :
             /\ Goes(c, "submit") = [proc EXCEPT ![c] = q]
             /\ q.step = "submit" /\ q.ops = proc[c].ops /\ q.id = proc[c].id /\ q.read = NoOps /\ q.fresh = FALSE
      BY GoesOn
    <3>. DEFINE u == [q EXCEPT !.id = id]
    <3>2. u \in Process /\ u.step = "submit" /\ u.ops = proc[c].ops /\ u.id = id /\ u.read = NoOps /\ u.fresh = FALSE
      BY <3>1 DEF Process
    <3>3. proc' = [proc EXCEPT ![c] = u]
      BY <2>7, <3>1 DEF IInv, ClientTyped
    <3>. HIDE DEF u
    <3>4. /\ proc' \in [Clients -> Process] /\ proc'[c] = u
          /\ \A d \in Clients \ {c} : proc'[d] = proc[d]
      BY <3>2, <3>3 DEF IInv, ClientTyped
    <3>5. ProcInv(u, sets', current')
      BY <1>2, <2>1, <2>4, <2>5, <3>2, NothingToDo DEF ProcInv
    <3>6. proc' = Stale({}, proc')
      BY <3>4, NobodyStale
    <3>. QED BY <1>1, <2>4, <3>2, <3>4, <3>5, <3>6, CallKeeps
  <2>. QED BY <1>4, <2>6, <2>7
<1>. QED BY <1>3, <1>4 DEF Create

\* A changeset goes on in its review, with its operations as they are.
LEMMA Advances ==
  ASSUME IInv, NEW id \in Ids, NEW state \in {"in_review", "approved", "closed"}, sets[id].state # "none",
         sets' = [sets EXCEPT ![id].state = state], UNCHANGED server
  PROVE  /\ ServerTyped' /\ SetsInv' /\ Grown({id}) /\ Grown({})
         /\ sets'[id].state = state /\ sets'[id].ops = sets[id].ops
<1>. DEFINE s == [sets[id] EXCEPT !.state = state]
<1>1. s \in Changeset /\ s.state = state /\ s.ops = sets[id].ops
  BY SetFields DEF Changeset, States
<1>2. sets' = [sets EXCEPT ![id] = s]
  BY DEF IInv, ServerTyped
<1>. HIDE DEF s
<1>3. SetInv(s, current)
  BY <1>1, SetFields DEF SetInv
<1>. QED BY <1>1, <1>2, <1>3, SetChanges

LEMMA SubmitKeeps ==
  ASSUME IInv, NEW c \in Clients, Submit(c)
  PROVE  IInv'
<1>. DEFINE id == proc[c].id
<1>1. proc[c].step = "submit" /\ UNCHANGED <<server, disk, known, edits, begun>>
  BY DEF Submit
<1>2. id \in Ids /\ proc[c] \in Process
  BY <1>1, ProcType DEF ProcInv
<1>3. CASE sets' = sets /\ proc' = Goes(c, "idle")
  BY <1>1, <1>3, EndKeeps
<1>4. CASE /\ sets[id].state = "draft" /\ sets' = Submitted(id)
           /\ proc' = Stale({id}, IF proc[c].fast THEN [Goes(c, "publish") EXCEPT ![c].ops = NoOps] ELSE Goes(c, "idle"))
  <2>1. PICK state \in {"in_review", "approved"} : sets' = [sets EXCEPT ![id].state = state]
    BY <1>4 DEF Submitted
  <2>2. ServerTyped' /\ SetsInv' /\ Grown({id}) /\ sets'[id].state # "none"
    BY <1>1, <1>2, <1>4, <2>1, Advances
  <2>3. CASE proc[c].fast
    <3>1. PICK q \in Process :
             /\ Goes(c, "publish") = [proc EXCEPT ![c] = q]
             /\ q.step = "publish" /\ q.ops = proc[c].ops /\ q.id = proc[c].id /\ q.read = NoOps /\ q.fresh = FALSE
      BY GoesOn
    <3>. DEFINE u == [q EXCEPT !.ops = NoOps]
                P == [Goes(c, "publish") EXCEPT ![c].ops = NoOps]
    <3>2. u \in Process /\ u.step = "publish" /\ u.ops = NoOps /\ u.id = id /\ u.read = NoOps /\ u.fresh = FALSE
      BY <3>1, NothingToDo DEF Process
    <3>3. P = [proc EXCEPT ![c] = u]
      BY <3>1 DEF IInv, ClientTyped
    <3>4. proc' = Stale({id}, P)
      BY <1>4, <2>3
    <3>. HIDE DEF u, P
    <3>5. /\ P \in [Clients -> Process] /\ P[c] = u
          /\ \A d \in Clients \ {c} : P[d] = proc[d]
      BY <3>2, <3>3 DEF IInv, ClientTyped
    <3>6. ProcInv(u, sets', current')
      BY <1>2, <2>2, <3>2, NothingToDo DEF ProcInv
    <3>. QED BY <1>1, <2>2, <3>2, <3>4, <3>5, <3>6, CallKeeps
  <2>4. CASE ~proc[c].fast
    <3>1. proc' = Stale({id}, [proc EXCEPT ![c] = IdleProcess])
      BY <1>4, <2>4 DEF Goes
    <3>2. [proc EXCEPT ![c] = IdleProcess] \in [Clients -> Process]
      BY IdleCommand DEF IInv, ClientTyped
    <3>3. IdleProcess.fresh = FALSE /\ ProcInv(IdleProcess, sets', current')
      BY IdleCommand DEF IdleProcess
    <3>4. \A d \in Clients : [proc EXCEPT ![c] = IdleProcess][d] \in {proc[d], IdleProcess}
      BY DEF IInv, ClientTyped
    <3>. QED BY <1>1, <2>2, <3>1, <3>2, <3>3, <3>4, CallKeeps
  <2>. QED BY <2>3, <2>4
<1>. QED BY <1>3, <1>4 DEF Submit


-------------------------------------------------------------------------------
(* Releases *)

\* A release gives each resource it touches its next version.
LEMMA Releasing ==
  ASSUME IInv, NEW id \in Ids, Publishable(id), PublishSet(id), NEW k \in Resources
  PROVE  /\ current[k] \in Nat /\ current'[k] \in Versions /\ current'[k] \in Nat
         /\ current[k] <= current'[k] /\ current'[k] <= Bound[k]
         /\ k \in Touched(sets[id].ops) => sets[id].base[k] < current'[k]
         /\ tombs'[k] \in SUBSET Versions /\ text'[k] \in Texts
<1>. DEFINE op == sets[id].ops[k]
<1>1. /\ current[k] \in Nat /\ current[k] \in Versions /\ current[k] <= Bound[k] /\ Bound[k] \in Nat
      /\ tombs[k] \in SUBSET Versions /\ text[k] \in Texts /\ op \in Op \cup {NoOp}
  BY OfferedIs, SetFields, Numbers DEF IInv, ServerTyped, VersionsInv, Ops
<1>2. CASE op = NoOp
  <2>1. current'[k] = current[k] /\ tombs'[k] = tombs[k] /\ text'[k] = text[k] /\ k \notin Touched(sets[id].ops)
    BY <1>2 DEF PublishSet, Touched
  <2>. QED BY <1>1, <2>1
<1>3. CASE op # NoOp
  <2>1. current'[k] = current[k] + 1 /\ tombs'[k] \in {tombs[k], tombs[k] \cup {current'[k]}} /\ text'[k] = op.text
    BY <1>3 DEF PublishSet
  <2>2. current[k] < Bound[k] /\ current[k] = sets[id].base[k]
    BY <1>3 DEF Publishable, Touched, Accepts
  <2>3. current[k] + 1 \in Versions /\ current[k] + 1 <= Bound[k]
    BY <1>1, <2>2, NextVersion
  <2>4. op.text \in Texts
    BY <1>1, <1>3, OpFields
  <2>5. current'[k] \in Versions /\ current'[k] \in Nat /\ current[k] <= current'[k] /\ current'[k] <= Bound[k]
    BY <1>1, <2>1, <2>3
  <2>6. sets[id].base[k] < current'[k]
    BY <1>1, <2>1, <2>2
  <2>7. tombs'[k] \in SUBSET Versions
    BY <1>1, <2>1, <2>5
  <2>. QED BY <1>1, <2>1, <2>4, <2>5, <2>6, <2>7
<1>. QED BY <1>2, <1>3

LEMMA PublishSetKeeps ==
  ASSUME IInv, NEW id \in Ids, Publishable(id), PublishSet(id)
  PROVE  ServerTyped' /\ SetsInv' /\ Grown({id}) /\ Grown({}) /\ sets'[id].state = "published"
<1>. DEFINE s == [sets[id] EXCEPT !.state = "published"]
<1>1. /\ s \in Changeset /\ s.state = "published" /\ s.ops = sets[id].ops /\ s.base = sets[id].base
      /\ sets[id].state = "approved"
  BY SetFields DEF Changeset, States, Publishable
<1>2. sets' = [sets EXCEPT ![id] = s]
  BY DEF PublishSet, IInv, ServerTyped
<1>. HIDE DEF s
<1>3. sets' \in [Ids -> Changeset] /\ sets'[id] = s /\ \A d \in Ids \ {id} : sets'[d] = sets[d]
  BY <1>1, <1>2 DEF IInv, ServerTyped
<1>4. /\ current' = [k \in Resources |-> current'[k]] /\ tombs' = [k \in Resources |-> tombs'[k]]
      /\ text' = [k \in Resources |-> text'[k]]
  BY DEF PublishSet
<1>5. /\ current' \in [Resources -> Versions] /\ tombs' \in [Resources -> SUBSET Versions]
      /\ text' \in [Resources -> Texts]
  BY <1>4, Releasing
<1>6. ServerTyped'
  BY <1>3, <1>5 DEF ServerTyped
<1>7. \A k \in Resources : current[k] <= current'[k] /\ current'[k] <= Bound[k]
  BY Releasing
<1>8. Grown({id}) /\ Grown({})
  BY <1>1, <1>3, <1>7 DEF Grown
<1>9. ASSUME NEW d \in Ids
      PROVE  SetInv(sets'[d], current')
  <2>1. /\ sets'[d].ops = sets[d].ops /\ sets'[d].base = sets[d].base
        /\ sets'[d].state = IF d = id THEN "published" ELSE sets[d].state
    BY <1>1, <1>3
  <2>2. SetInv(sets[d], current) /\ sets[d].ops \in Ops /\ sets[d].base \in [Resources -> Versions]
    BY SetFields
  <2>3. sets'[d].state # "none" => Touched(sets'[d].ops) # {}
    BY <1>1, <2>1, <2>2, SetFields DEF SetInv
  <2>4. ExpectsAll(sets'[d].ops, current')
    <3>1. current \in [Resources -> Nat] /\ current' \in [Resources -> Nat]
      BY <1>5, VersionsAreNumbers DEF IInv, ServerTyped
    <3>. QED BY <1>7, <2>1, <2>2, <3>1, StillExpected DEF SetInv
  <2>5. ASSUME sets'[d].state = "published", NEW k \in Touched(sets'[d].ops)
        PROVE  sets'[d].base[k] < current'[k]
    <3>0. k \in Resources /\ k \in Touched(sets[d].ops)
      BY <2>1, <2>5 DEF Touched
    <3>1. CASE d = id
      BY <2>1, <3>0, <3>1, Releasing
    <3>2. CASE d # id
      <4>1. sets[d].base[k] < current[k]
        BY <2>1, <2>2, <2>5, <3>0, <3>2 DEF SetInv
      <4>2. sets[d].base[k] \in Nat
        BY <2>2, <3>0, Numbers
      <4>3. current[k] \in Nat /\ current'[k] \in Nat /\ current[k] <= current'[k]
        BY <3>0, Releasing
      <4>. QED BY <2>1, <4>1, <4>2, <4>3
    <3>. QED BY <3>1, <3>2
  <2>. QED BY <2>3, <2>4, <2>5 DEF SetInv
<1>10. SetsInv'
  BY <1>9 DEF SetsInv
<1>. QED BY <1>1, <1>3, <1>6, <1>8, <1>10

LEMMA PublishKeeps ==
  ASSUME IInv, NEW c \in Clients, Publish(c)
  PROVE  IInv'
<1>. DEFINE id == proc[c].id
<1>1. proc[c].step = "publish" /\ UNCHANGED <<disk, known, edits, begun>>
  BY DEF Publish
<1>2. id \in Ids
  BY <1>1, ProcType DEF ProcInv
<1>3. CASE UNCHANGED <<server, sets>> /\ proc' = Goes(c, "idle")
  BY <1>1, <1>3, EndKeeps
<1>4. CASE Publishable(id) /\ PublishSet(id) /\ proc' = Stale({id}, Goes(c, "idle"))
  <2>1. ServerTyped' /\ SetsInv' /\ Grown({id})
    BY <1>2, <1>4, PublishSetKeeps
  <2>2. proc' = Stale({id}, [proc EXCEPT ![c] = IdleProcess])
    BY <1>4 DEF Goes
  <2>3. [proc EXCEPT ![c] = IdleProcess] \in [Clients -> Process]
    BY IdleCommand DEF IInv, ClientTyped
  <2>4. IdleProcess.fresh = FALSE /\ ProcInv(IdleProcess, sets', current')
    BY IdleCommand DEF IdleProcess
  <2>5. \A d \in Clients : [proc EXCEPT ![c] = IdleProcess][d] \in {proc[d], IdleProcess}
    BY DEF IInv, ClientTyped
  <2>. QED BY <1>1, <2>1, <2>2, <2>3, <2>4, <2>5, CallKeeps
<1>. QED BY <1>3, <1>4 DEF Publish

LEMMA ConsoleKeeps ==
  ASSUME IInv, NEW id \in Ids, Console(id)
  PROVE  IInv'
<1>1. ServerTyped' /\ SetsInv' /\ Grown({id})
  <2>1. ASSUME NEW state \in {"in_review", "approved", "closed"}, sets[id].state # "none",
               sets' = [sets EXCEPT ![id].state = state], UNCHANGED server
        PROVE  ServerTyped' /\ SetsInv' /\ Grown({id})
    BY <2>1, Advances
  <2>2. CASE sets[id].state = "draft" /\ sets' = Submitted(id) /\ UNCHANGED server
    <3>1. PICK state \in {"in_review", "approved"} : sets' = [sets EXCEPT ![id].state = state]
      BY <2>2 DEF Submitted
    <3>. QED BY <2>1, <2>2, <3>1
  <2>3. CASE Publishable(id) /\ PublishSet(id)
    BY <2>3, PublishSetKeeps
  <2>. QED BY <2>1, <2>2, <2>3 DEF Console
<1>2. proc' = Stale({id}, proc) /\ proc \in [Clients -> Process] /\ UNCHANGED <<disk, known, edits, begun>>
  BY DEF Console, IInv, ClientTyped
<1>. QED BY <1>1, <1>2, CallKeeps


LEMMA OthersPublishKeeps ==
  ASSUME IInv, NEW k \in Others, OthersPublish(k)
  PROVE  IInv'
<1>1. /\ current' = [current EXCEPT ![k] = current[k] + 1] /\ tombs' = tombs /\ text' = [text EXCEPT ![k] = 0]
      /\ current[k] < Bound[k] /\ UNCHANGED <<sets, disk, known, proc, edits, begun>>
  BY DEF OthersPublish, IInv, ServerTyped
<1>2. k \in Resources /\ 0 \in Texts
  BY KeysAssumption, Numbers
<1>3. current[k] + 1 \in Versions /\ current[k] + 1 <= Bound[k]
  BY <1>1, <1>2, OfferedIs, NextVersion
<1>4. ServerTyped'
  BY <1>1, <1>2, <1>3 DEF IInv, ServerTyped
<1>5. ASSUME NEW l \in Resources
      PROVE  current[l] <= current'[l] /\ current'[l] <= Bound[l]
  <2>1. current[l] \in Nat /\ current[l] <= Bound[l]
    BY OfferedIs DEF IInv, VersionsInv
  <2>2. current'[l] = IF l = k THEN current[l] + 1 ELSE current[l]
    BY <1>1, <1>2 DEF IInv, ServerTyped
  <2>. QED BY <1>3, <2>1, <2>2
<1>6. Grown({})
  BY <1>1, <1>5 DEF Grown
<1>7. current \in [Resources -> Nat] /\ current' \in [Resources -> Nat]
  BY <1>4, VersionsAreNumbers DEF IInv, ServerTyped
<1>8. ASSUME NEW d \in Ids
      PROVE  SetInv(sets[d], current')
  <2>1. SetInv(sets[d], current) /\ sets[d].ops \in Ops /\ sets[d].base \in [Resources -> Versions]
    BY SetFields
  <2>2. ExpectsAll(sets[d].ops, current')
    BY <1>5, <1>7, <2>1, StillExpected DEF SetInv
  <2>3. ASSUME sets[d].state = "published", NEW l \in Touched(sets[d].ops)
        PROVE  sets[d].base[l] < current'[l]
    <3>1. l \in Resources
      BY DEF Touched
    <3>2. sets[d].base[l] < current[l]
      BY <2>1, <2>3 DEF SetInv
    <3>3. sets[d].base[l] \in Nat /\ current[l] \in Nat /\ current'[l] \in Nat /\ current[l] <= current'[l]
      BY <1>5, <1>7, <2>1, <3>1, Numbers
    <3>. QED BY <3>2, <3>3
  <2>. QED BY <2>1, <2>2, <2>3 DEF SetInv
<1>9. SetsInv'
  BY <1>1, <1>8 DEF SetsInv
<1>10. proc \in [Clients -> Process] /\ proc' = Stale({}, proc)
  BY <1>1, NobodyStale DEF IInv, ClientTyped
<1>. QED BY <1>1, <1>4, <1>6, <1>9, <1>10, CallKeeps

-------------------------------------------------------------------------------
(* The invariant *)

LEMMA InitInv == Init => IInv
<1>. SUFFICES ASSUME Init PROVE IInv
  OBVIOUS
<1>. DEFINE s == [state |-> "none", ops |-> NoOps, base |-> current, fast |-> FALSE]
<1>1. \A k \in Resources : current[k] \in {0, 1} /\ (current[k] = 1 => k \in Others)
  BY DEF Init
<1>2. \A k \in Resources : current[k] \in Versions /\ 0 <= current[k] /\ current[k] <= Bound[k]
  <2>. SUFFICES ASSUME NEW k \in Resources
                PROVE  current[k] \in Versions /\ 0 <= current[k] /\ current[k] <= Bound[k]
    OBVIOUS
  <2>1. Bound[k] \in Nat /\ 0..Bound[k] \subseteq Versions
    BY Numbers
  <2>2. k \in Others => Bound[k] # 0
    BY BoundsAssumption
  <2>. QED BY <1>1, <2>1, <2>2
<1>3. current \in [Resources -> Versions] /\ tombs \in [Resources -> SUBSET Versions] /\ text \in [Resources -> Texts]
  BY <1>2, Numbers DEF Init
<1>4. s \in Changeset /\ s.ops = NoOps /\ s.state = "none"
  BY <1>3, NothingToDo DEF Changeset, States
<1>5. sets = [id \in Ids |-> s]
  BY DEF Init
<1>. HIDE DEF s
<1>6. ServerTyped
  BY <1>3, <1>4, <1>5 DEF ServerTyped
<1>7. SetsInv
  BY <1>4, <1>5, NothingToDo DEF SetsInv, SetInv
<1>8. ProcsInv /\ proc \in [Clients -> Process]
  BY IdleCommand DEF Init, ProcsInv
<1>9. disk \in [Clients -> [Keys -> File]] /\ known \in [Clients -> [Keys -> Versions]]
  <2>1. \A k \in Keys : k \in Resources /\ 0 \in Versions /\ 0 \in Texts
    BY Numbers
  <2>2. \A k \in Keys : NoFile \in File
    BY <2>1 DEF NoFile, File
  <2>. QED BY <2>1, <2>2 DEF Init
<1>10. edits \in Texts /\ begun \in 0..MaxCommands
  BY BoundsAssumption, Numbers DEF Init
<1>11. VersionsInv /\ DiskInv
  BY <1>2, Numbers DEF Init, VersionsInv, DiskInv
<1>. QED BY <1>6, <1>7, <1>8, <1>9, <1>10, <1>11 DEF IInv, ClientTyped

LEMMA NextInv == IInv /\ [Next]_vars => IInv'
<1>. SUFFICES ASSUME IInv, [Next]_vars PROVE IInv'
  OBVIOUS
<1>1. ASSUME NEW c \in Clients, Work(c) PROVE IInv'
  BY <1>1, EditKeeps, SyncKeeps DEF Work
<1>2. ASSUME NEW c \in Clients, Commands(c) PROVE IInv'
  BY <1>2, CommandsKeep
<1>3. ASSUME NEW c \in Clients, Calls(c) PROVE IInv'
  BY <1>3, FindKeeps, PatchKeeps, CreateKeeps, SubmitKeeps, PublishKeeps, StopKeeps DEF Calls
<1>4. ASSUME NEW id \in Ids, Console(id) PROVE IInv'
  BY <1>4, ConsoleKeeps
<1>5. ASSUME NEW k \in Others, OthersPublish(k) PROVE IInv'
  BY <1>5, OthersPublishKeeps
<1>6. CASE UNCHANGED vars
  BY <1>6 DEF vars, IInv, ServerTyped, ClientTyped, VersionsInv, DiskInv, SetsInv, ProcsInv
<1>. QED BY <1>1, <1>2, <1>3, <1>4, <1>5, <1>6 DEF Next

LEMMA Invariance == Spec => []IInv
  BY InitInv, NextInv, PTL DEF Spec

-------------------------------------------------------------------------------
(* Theorems *)

\* Every variable keeps its type; a changeset that was created touches something,
\* and expects no version that is still to come, however a sync, a push, a merge
\* into an open changeset and a rollback fall between the calls of others.
THEOREM TypeCorrect == Spec => []TypeOK
<1>1. IInv => TypeOK
  <2>. SUFFICES ASSUME IInv PROVE TypeOK
    OBVIOUS
  <2>1. \A id \in Ids : sets[id].state # "none" => Touched(sets[id].ops) # {}
    BY SetFields DEF SetInv
  <2>2. \A id \in Ids, k \in Resources :
          sets[id].ops[k] # NoOp /\ sets[id].ops[k].prev # None => sets[id].ops[k].prev <= current[k]
    BY SetFields DEF SetInv, ExpectsAll, Expects
  <2>. QED BY <2>1, <2>2 DEF IInv, ServerTyped, ClientTyped, TypeOK
<1>. QED BY <1>1, Invariance, PTL

LEMMA StateWritten ==
  ASSUME IInv, NEW id \in Ids, NEW j \in Ids, NEW state, sets' = [sets EXCEPT ![j].state = state]
  PROVE  sets'[id].state = IF id = j THEN state ELSE sets[id].state
<1>1. sets[j] \in Changeset /\ sets \in [Ids -> Changeset]
  BY DEF IInv, ServerTyped
<1>2. [sets[j] EXCEPT !.state = state].state = state
  BY <1>1 DEF Changeset
<1>. QED BY <1>1, <1>2

\* A changeset is released by the transaction only, and by no call on the way there.
LEMMA ReleasedByPublish ==
  ASSUME IInv, [Next]_vars, NEW id \in Ids, sets[id].state # "published", sets'[id].state = "published"
  PROVE  Publishable(id)
<1>1. ASSUME NEW j \in Ids, PublishSet(j), Publishable(j) PROVE Publishable(id)
  <2>1. sets' = [sets EXCEPT ![j].state = "published"]
    BY <1>1 DEF PublishSet
  <2>. QED BY <1>1, <2>1, StateWritten
<1>2. ASSUME NEW j \in Ids, NEW state, state # "published", sets' = [sets EXCEPT ![j].state = state]
      PROVE  FALSE
  BY <1>2, StateWritten
<1>3. ASSUME NEW j \in Ids, sets' = Submitted(j) PROVE FALSE
  BY <1>2, <1>3 DEF Submitted
<1>4. sets' # sets
  OBVIOUS
<1>5. ASSUME NEW c \in Clients, Calls(c) PROVE Publishable(id)
  <2>1. ProcInv(proc[c], sets, current)
    BY ProcType
  <2>2. CASE Patch(c)
    <3>. DEFINE j == proc[c].id
                s == Rewrite(sets[j], "draft", MergeOps(proc[c].read, proc[c].ops), proc[c].fast)
    <3>1. j \in Ids
      BY <2>1, <2>2 DEF Patch, ProcInv
    <3>2. /\ sets[j] \in Changeset /\ "draft" \in States /\ proc[c].fast \in BOOLEAN
          /\ MergeOps(proc[c].read, proc[c].ops) \in Ops
      BY <3>1, SetFields, ProcType, ProcFields, MergedOps DEF States
    <3>3. s.state = "draft"
      BY <3>2, Rewritten
    <3>4. sets' = [sets EXCEPT ![j] = s]
      BY <1>4, <2>2 DEF Patch, IInv, ServerTyped, Rewrite
    <3>. HIDE DEF s
    <3>5. sets'[id].state \in {"draft", sets[id].state}
      BY <3>1, <3>3, <3>4 DEF IInv, ServerTyped
    <3>. QED BY <3>5
  <2>3. CASE Create(c)
    <3>1. PICK j \in Ids :
             sets' = [sets EXCEPT ![j] = [state |-> "draft", ops |-> proc[c].ops, base |-> current, fast |-> proc[c].fast]]
      BY <1>4, <2>3 DEF Create
    <3>. DEFINE s == [state |-> "draft", ops |-> proc[c].ops, base |-> current, fast |-> proc[c].fast]
    <3>2. s.state = "draft" /\ sets' = [sets EXCEPT ![j] = s]
      BY <3>1
    <3>. HIDE DEF s
    <3>3. sets'[id].state \in {"draft", sets[id].state}
      BY <3>2 DEF IInv, ServerTyped
    <3>. QED BY <3>3
  <2>4. CASE Submit(c)
    <3>1. proc[c].id \in Ids
      BY <2>1, <2>4 DEF Submit, ProcInv
    <3>. QED BY <1>3, <1>4, <2>4, <3>1 DEF Submit
  <2>5. CASE Publish(c)
    <3>1. proc[c].id \in Ids
      BY <2>1, <2>5 DEF Publish, ProcInv
    <3>. QED BY <1>1, <1>4, <2>5, <3>1 DEF Publish
  <2>6. CASE Find(c) \/ Stop(c)
    BY <1>4, <2>6 DEF Find, Stop
  <2>. QED BY <1>5, <2>2, <2>3, <2>4, <2>5, <2>6 DEF Calls
<1>6. ASSUME NEW j \in Ids, Console(j) PROVE Publishable(id)
  BY <1>1, <1>2, <1>3, <1>6 DEF Console
<1>7. ASSUME NEW c \in Clients, Work(c) PROVE FALSE
  BY <1>4, <1>7 DEF Work, EditFiles, SyncAll
<1>8. ASSUME NEW c \in Clients, Commands(c) PROVE FALSE
  BY <1>4, <1>8 DEF Commands, BeginPush, BeginRemove, BeginContribute, BeginRollback, BeginArchive, BeginPromote, Begin
<1>9. ASSUME NEW k \in Others, OthersPublish(k) PROVE FALSE
  BY <1>4, <1>9 DEF OthersPublish
<1>10. CASE UNCHANGED vars
  BY <1>4, <1>10 DEF vars
<1>. QED BY <1>5, <1>6, <1>7, <1>8, <1>9, <1>10 DEF Next

\* A release replaces a version its author had not before them in two cases only:
\* the operation expected none, and what they missed was there when the changeset
\* was created; or a sync had left the edited file behind. The transaction lets an
\* operation pass at the version it expects, and that is the one its file was made
\* from, through every sync, merge and review since.
THEOREM BlindReleases == Spec => BlindReleasesExplained
<1>1. ASSUME IInv, [Next]_vars, NEW id \in Ids, NEW k \in Resources,
             Releases(id, k), sets[id].ops[k].base # current[k]
      PROVE  \/ sets[id].ops[k].prev = None /\ sets[id].base[k] = current[k]
             \/ sets[id].ops[k].skipped
  <2>1. Publishable(id) /\ k \in Touched(sets[id].ops)
    BY <1>1, ReleasedByPublish DEF Releases, Touched
  <2>2. sets[id].base[k] = current[k] /\ sets[id].ops[k].prev \in {None, current[k]}
    BY <2>1 DEF Publishable, Accepts
  <2>3. Expects(sets[id].ops[k], current[k]) /\ sets[id].ops[k] # NoOp
    BY <1>1, SetFields DEF SetInv, ExpectsAll, Releases
  <2>. QED BY <1>1, <2>2, <2>3 DEF Expects
<1>2. IInv /\ [Next]_vars =>
        \A id \in Ids, k \in Resources :
          (Releases(id, k) /\ sets[id].ops[k].base # current[k]) =>
             \/ sets[id].ops[k].prev = None /\ sets[id].base[k] = current[k]
             \/ sets[id].ops[k].skipped
  BY <1>1
<1>. QED BY <1>2, Invariance, PTL DEF Spec, BlindReleasesExplained

\* What a push is answered for has every operation it set out with, whatever other
\* machines merged into the changeset between its calls: a merge only adds to what
\* is touched, and one that has read the operations of before is refused.
THEOREM PushIsSubmitted == Spec => PushedIsSubmitted
<1>1. ASSUME IInv, NEW c \in Clients, Submit(c)
      PROVE  Touched(proc[c].ops) \subseteq Touched(sets[proc[c].id].ops)
  BY <1>1, ProcType DEF Submit, ProcInv
<1>2. IInv /\ [Next]_vars =>
        \A c \in Clients :
          (Submit(c) /\ sets' # sets) => Touched(proc[c].ops) \subseteq Touched(sets[proc[c].id].ops)
  BY <1>1
<1>. QED BY <1>2, Invariance, PTL DEF Spec, PushedIsSubmitted

===============================================================================
