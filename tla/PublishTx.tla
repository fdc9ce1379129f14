------------------------------ MODULE PublishTx -------------------------------
(***************************************************************************)
(* Publishing as internal/releases and internal/db run it: the service     *)
(* reads the changeset, and one READ COMMITTED transaction locks the row,  *)
(* locks the content heads in sorted order, checks the base revisions,     *)
(* writes the versions (locking each bundle row), computes the new         *)
(* revisions and commits. Several publishers run at once over changesets   *)
(* that authors create and edit meanwhile. Changesets has the review       *)
(* workflow in detail; here a draft may be approved at any time.           *)
(***************************************************************************)
EXTENDS ScopeContents

CONSTANTS
  Changesets,  \* changesets that may be created
  Publishers,  \* requests to publish that may be in flight together
  Drafts,      \* the operations authors write
  MaxEdits,    \* bound: edits of changesets
  MaxLate,     \* bound: approvals that land on a published changeset
  MaxClock,    \* bound: the number of times the clock is read
  NoCs         \* no changeset

ASSUME DraftsAssumption == \A d \in Drafts : d \in OpTable
ASSUME MaxAssumption == MaxEdits \in Nat /\ MaxLate \in Nat /\ MaxClock \in Nat
ASSUME NoCsAssumption == NoCs \notin Changesets

VARIABLES
  versions,  \* bundle_versions: for each resource, the deleted flag of each version
  releases,  \* releases, in the order they were committed
  heads,  \* content_heads.revision of each scope; NoRev also where there is no row
  cs,     \* the rows of changesets with their operations
  tx,     \* what each publish request is doing: its reads, locks and writes
  clock,  \* the application server's clock
  edits,  \* edits so far
  late    \* approvals that have landed on a published changeset

vars == <<versions, releases, heads, cs, tx, clock, edits, late>>

-------------------------------------------------------------------------------
(* Types *)

ChangesetRow == [state: {"none", "creating", "draft", "approved", "published"},
                 base: RevTable, ops: OpTable]

NoRow == [state |-> "none", base |-> [s \in Scopes |-> None], ops |-> [k \in Key |-> None]]

Steps == {"idle", "ops", "row", "heads", "check", "write", "revise", "commit"}

\* What the request has read (base, ops, at), the heads it has locked and their
\* revisions, the versions it has written, and the new revisions.
Tx == [step: Steps, cs: Changesets \cup {NoCs}, base: RevTable, ops: OpTable, at: Nat,
       heads: RevTable, items: ItemTable, revs: RevTable]

NoTx == [step |-> "idle", cs |-> NoCs, base |-> [s \in Scopes |-> None],
         ops |-> [k \in Key |-> None], at |-> 0, heads |-> [s \in Scopes |-> None],
         items |-> [k \in Key |-> 0], revs |-> [s \in Scopes |-> None]]

Release == [cs: Changesets, at: Nat, base: RevTable, ops: OpTable, items: ItemTable,
            revs: RevTable]

TypeOK ==
  /\ versions \in [Key -> Seq(BOOLEAN)]
  /\ releases \in Seq(Release)
  /\ heads \in [Scopes -> Rev]
  /\ cs \in [Changesets -> ChangesetRow]
  /\ tx \in [Publishers -> Tx]
  /\ clock \in Nat
  /\ edits \in Nat
  /\ late \in Nat

-------------------------------------------------------------------------------
(* Locks. The transaction holds the changeset row from the row step on, the *)
(* heads it has read and the bundles it has written, all until it ends.     *)

InTx(p) == tx[p].step \in {"heads", "check", "write", "revise", "commit"}

HoldsRow(p, c) == InTx(p) /\ tx[p].cs = c
HoldsHead(p, s) == tx[p].heads[s] # None
HoldsBundle(p, k) == tx[p].items[k] # 0

\* A write of a changeset row outside a publishing transaction waits for it.
RowFree(c) == \A p \in Publishers : ~HoldsRow(p, c)

Least(S) == CHOOSE x \in S : \A y \in S : x <= y

\* The operations of a changeset are written in the order of normalizeOps.
Before(k, l) == k[1] < l[1] \/ (k[1] = l[1] /\ k[2] <= l[2])

FirstKey(S) == CHOOSE k \in S : \A l \in S : Before(k, l)

ScopesLeft(p) == Present(tx[p].base) \ Present(tx[p].heads)
OpsLeft(p) == {k \in Present(tx[p].ops) : tx[p].items[k] = 0}

\* Mutant: missing heads are created first, existing ones locked after.
NextHeadMissingFirst(p) ==
  LET missing == {s \in ScopesLeft(p) : tx[p].base[s] = NoRev}
  IN Least(IF missing = {} THEN ScopesLeft(p) ELSE missing)

\* The lock the next statement of p needs, and who holds it.
NextHead(p) == Least(ScopesLeft(p))
NextBundle(p) == FirstKey(OpsLeft(p))

WaitsFor(p, q) ==
  /\ p # q
  /\ \/ tx[p].step = "row" /\ HoldsRow(q, tx[p].cs)
     \/ tx[p].step = "heads" /\ ScopesLeft(p) # {} /\ HoldsHead(q, NextHead(p))
     \/ tx[p].step = "write" /\ OpsLeft(p) # {} /\ HoldsBundle(q, NextBundle(p))

Blocked(p) == \E q \in Publishers : WaitsFor(p, q)

-------------------------------------------------------------------------------
(* Service.Create, Service.Edit and the approval of a draft *)

\* validate: what an operation deletes is there
Valid(draft) ==
  \A k \in Present(draft) : draft[k].del => CurrentVersion(versions, k) # 0 /\ ~Deleted(versions, k)

ScopesOf(draft) == {k[1] : k \in Present(draft)}

CreateBegin(c, draft) ==
  /\ cs[c].state = "none"
  /\ Valid(draft)
  /\ cs' = [cs EXCEPT ![c] = [NoRow EXCEPT !.state = "creating", !.ops = draft]]
  /\ UNCHANGED <<versions, releases, heads, tx, clock, edits, late>>

\* HeadRevisions reads one head after the other; then the row is inserted.
CreateReadHead(c) ==
  /\ cs[c].state = "creating"
  /\ LET left == ScopesOf(cs[c].ops) \ Present(cs[c].base)
     IN /\ left # {}
        /\ cs' = [cs EXCEPT ![c].base[Least(left)] = heads[Least(left)]]
  /\ UNCHANGED <<versions, releases, heads, tx, clock, edits, late>>

CreateInsert(c) ==
  /\ cs[c].state = "creating"
  /\ ScopesOf(cs[c].ops) = Present(cs[c].base)
  /\ cs' = [cs EXCEPT ![c].state = "draft"]
  /\ UNCHANGED <<versions, releases, heads, tx, clock, edits, late>>

\* ChangesetStore.Update writes the operations and leaves base_revisions as created.
Edit(c, draft) ==
  /\ cs[c].state \in {"draft", "approved"}
  /\ edits < MaxEdits
  /\ edits' = edits + 1
  /\ RowFree(c)
  /\ Valid(draft)
  /\ cs' = [cs EXCEPT ![c].state = "draft", ![c].ops = draft]
  /\ UNCHANGED <<versions, releases, heads, tx, clock, late>>

\* Submit and the reviews, in one step
Approve(c) ==
  /\ cs[c].state = "draft"
  /\ Present(cs[c].ops) # {}
  /\ RowFree(c)
  /\ cs' = [cs EXCEPT ![c].state = "approved"]
  /\ UNCHANGED <<versions, releases, heads, tx, clock, edits, late>>

\* An approval decided before the changeset was published and written after it
\* (SetState compares nothing: see Changesets).
LateApprove(c) ==
  /\ cs[c].state = "published"
  /\ late < MaxLate
  /\ RowFree(c)
  /\ cs' = [cs EXCEPT ![c].state = "approved"]
  /\ late' = late + 1
  /\ UNCHANGED <<versions, releases, heads, tx, clock, edits>>

-------------------------------------------------------------------------------
(* releases.Service.Publish and ReleaseStore.Publish *)

Abort(p) == tx' = [tx EXCEPT ![p] = NoTx]

PublishRead(p, c) ==
  /\ tx[p].step = "idle"
  /\ cs[c].state = "approved"
  /\ clock < MaxClock
  /\ tx' = [tx EXCEPT ![p] = [NoTx EXCEPT !.step = "ops", !.cs = c, !.base = cs[c].base]]
  /\ UNCHANGED <<versions, releases, heads, cs, clock, edits, late>>

\* Get's second query, and s.now()
PublishReadOps(p) ==
  /\ tx[p].step = "ops"
  /\ tx' = [tx EXCEPT ![p].step = "row", ![p].ops = cs[tx[p].cs].ops, ![p].at = clock]
  /\ clock' = clock + 1
  /\ UNCHANGED <<versions, releases, heads, cs, edits, late>>

\* Mutant: a changeset that is no longer approved is waited for.
LockRowRetry(p) ==
  /\ tx[p].step = "row"
  /\ ~Blocked(p)
  /\ tx' = IF cs[tx[p].cs].state = "approved" THEN [tx EXCEPT ![p].step = "heads"] ELSE tx
  /\ UNCHANGED <<versions, releases, heads, cs, clock, edits, late>>

\* SELECT state ... FOR UPDATE
LockRow(p) ==
  /\ tx[p].step = "row"
  /\ ~Blocked(p)
  /\ IF cs[tx[p].cs].state = "approved" THEN tx' = [tx EXCEPT ![p].step = "heads"] ELSE Abort(p)
  /\ UNCHANGED <<versions, releases, heads, cs, clock, edits, late>>

\* Mutant: the head is read without FOR UPDATE.
LockHeadNoWait(p) ==
  /\ tx[p].step = "heads"
  /\ IF ScopesLeft(p) = {}
       THEN tx' = [tx EXCEPT ![p].step = "check"]
       ELSE tx' = [tx EXCEPT ![p].heads[NextHead(p)] = heads[NextHead(p)]]
  /\ UNCHANGED <<versions, releases, heads, cs, clock, edits, late>>

\* INSERT ... ON CONFLICT DO NOTHING, then SELECT revision ... FOR UPDATE
LockHead(p) ==
  /\ tx[p].step = "heads"
  /\ ~Blocked(p)
  /\ IF ScopesLeft(p) = {}
       THEN tx' = [tx EXCEPT ![p].step = "check"]
       ELSE tx' = [tx EXCEPT ![p].heads[NextHead(p)] = heads[NextHead(p)]]
  /\ UNCHANGED <<versions, releases, heads, cs, clock, edits, late>>

CheckBase(p) ==
  /\ tx[p].step = "check"
  /\ IF Overlap(releases, tx[p].ops, tx[p].base, tx[p].heads) = {}
       THEN tx' = [tx EXCEPT ![p].step = "write"]
       ELSE Abort(p)
  /\ UNCHANGED <<versions, releases, heads, cs, clock, edits, late>>

\* Upsert the bundle, read its latest version, insert the next one.
WriteOp(p) ==
  /\ tx[p].step = "write"
  /\ ~Blocked(p)
  /\ IF OpsLeft(p) = {}
       THEN tx' = [tx EXCEPT ![p].step = "revise"]
       ELSE LET k == NextBundle(p) IN
              IF Accepts(versions, k, tx[p].ops[k])
                THEN tx' = [tx EXCEPT ![p].items[k] = CurrentVersion(versions, k) + 1]
                ELSE Abort(p)
  /\ UNCHANGED <<versions, releases, heads, cs, clock, edits, late>>

\* Mutant: the revisions are computed before the operations are written.
ReviseFirst(p) ==
  /\ tx[p].step = "revise"
  /\ tx' = [tx EXCEPT ![p].step = "commit",
                      ![p].revs = [s \in Scopes |->
                        IF tx[p].heads[s] = None THEN None ELSE ScopeRevision(versions, s)]]
  /\ UNCHANGED <<versions, releases, heads, cs, clock, edits, late>>

\* scopeRevision of each base scope: what is committed and what this transaction wrote
Revise(p) ==
  /\ tx[p].step = "revise"
  /\ tx' = [tx EXCEPT ![p].step = "commit",
                      ![p].revs = [s \in Scopes |->
                        IF tx[p].heads[s] = None THEN None
                        ELSE ScopeRevision(Apply(versions, tx[p].ops), s)]]
  /\ UNCHANGED <<versions, releases, heads, cs, clock, edits, late>>

\* Mutant: every head is set, those of other scopes too.
CommitAllHeads(p) ==
  /\ tx[p].step = "commit"
  /\ versions' = Apply(versions, tx[p].ops)
  /\ releases' = Append(releases, [cs |-> tx[p].cs, at |-> tx[p].at, base |-> tx[p].base,
                                   ops |-> tx[p].ops, items |-> tx[p].items, revs |-> tx[p].revs])
  /\ heads' = tx[p].revs
  /\ cs' = [cs EXCEPT ![tx[p].cs].state = "published"]
  /\ Abort(p)
  /\ UNCHANGED <<clock, edits, late>>

\* INSERT INTO releases, UPDATE content_heads, UPDATE changesets, COMMIT
Commit(p) ==
  /\ tx[p].step = "commit"
  /\ versions' = Apply(versions, tx[p].ops)
  /\ releases' = Append(releases, [cs |-> tx[p].cs, at |-> tx[p].at, base |-> tx[p].base,
                                   ops |-> tx[p].ops, items |-> tx[p].items, revs |-> tx[p].revs])
  /\ heads' = [s \in Scopes |-> IF tx[p].revs[s] = None THEN heads[s] ELSE tx[p].revs[s]]
  /\ cs' = [cs EXCEPT ![tx[p].cs].state = "published"]
  /\ Abort(p)
  /\ UNCHANGED <<clock, edits, late>>

\* The connection or the server goes away: PostgreSQL rolls back.
Crash(p) ==
  /\ tx[p].step # "idle"
  /\ Abort(p)
  /\ UNCHANGED <<versions, releases, heads, cs, clock, edits, late>>

-------------------------------------------------------------------------------

Init ==
  /\ versions = [k \in Key |-> <<>>]
  /\ releases = <<>>
  /\ heads = [s \in Scopes |-> NoRev]
  /\ cs = [c \in Changesets |-> NoRow]
  /\ tx = [p \in Publishers |-> NoTx]
  /\ clock = 1
  /\ edits = 0
  /\ late = 0

TxStep(p) ==
  \/ PublishReadOps(p)
  \/ LockRow(p)
  \/ LockHead(p)
  \/ CheckBase(p)
  \/ WriteOp(p)
  \/ Revise(p)
  \/ Commit(p)

Author(c) ==
  \/ \E draft \in Drafts : CreateBegin(c, draft)
  \/ CreateReadHead(c)
  \/ CreateInsert(c)
  \/ \E draft \in Drafts : Edit(c, draft)
  \/ Approve(c)
  \/ LateApprove(c)

Next ==
  \/ \E c \in Changesets : Author(c)
  \/ \E p \in Publishers, c \in Changesets : PublishRead(p, c)
  \/ \E p \in Publishers : TxStep(p) \/ Crash(p)

Spec == Init /\ [][Next]_vars

\* A publisher whose next statement can run gets to run it.
FairSpec == Spec /\ \A p \in Publishers : WF_vars(TxStep(p))

-------------------------------------------------------------------------------
(* Properties *)

\* The transaction, interleaved with the others, amounts to one whole release at
\* its commit: the conflict check made under the head locks and the version
\* numbers read under the bundle locks still hold then.
Atomic == INSTANCE Publication WITH versions <- versions, releases <- releases
PublishesAtomically == Atomic!Spec

\* Release i wrote resource k without its scope being in the changeset's base.
Undeclared(i, k) == releases[i].items[k] # 0 /\ releases[i].base[k[1]] = None

\* The head of a scope is the revision of what the scope holds, as long as every
\* release that wrote to the scope had it in its base: an edit that adds a scope
\* to a changeset publishes to it without moving its head.
HeadsMatchContents ==
  \A s \in Scopes :
    LET writing == {i \in DOMAIN releases : \E n \in Names : releases[i].items[<<s, n>>] # 0}
    IN writing # {} /\ (\A i \in writing, n \in Names : ~Undeclared(i, <<s, n>>))
         => heads[s] = ScopeRevision(versions, s)

\* Release i replaced the version that release j had made of resource k, which was
\* not in its base and which its author did not say to expect.
Overwrote(i, j, k) ==
  /\ releases[j].items[k] # 0
  /\ releases[i].items[k] = releases[j].items[k] + 1
  /\ releases[i].ops[k].expect = -1
  /\ ~ /\ releases[i].base[k[1]] \notin {None, NoRev}
       /\ releases[i].base[k[1]][k[2]] >= releases[j].items[k]

\* An update is lost only in two ways: one of the two changesets touched a scope
\* that was not in its base, or the overwritten release was committed after the one
\* the base came from with an earlier timestamp, so that keysChangedSince skips it.
LostUpdatesExplained ==
  \A i, j \in DOMAIN releases : \A k \in Key :
    Overwrote(i, j, k) =>
      \/ Undeclared(i, k)
      \/ Undeclared(j, k)
      \/ releases[j].at <= PublishedAt(releases, k[1], releases[i].base[k[1]])

\* Heads are locked in sorted order before bundles, which are locked in sorted
\* order: no set of publishers waits for itself ("no deadlock", the code's comment).
NoDeadlock ==
  ~ \E S \in (SUBSET Publishers) \ {{}} : \A p \in S : \E q \in S : WaitsFor(p, q)

\* Every request to publish ends, whoever it has to wait for.
PublishEnds == \A p \in Publishers : tx[p].step # "idle" ~> tx[p].step = "idle"

===============================================================================
