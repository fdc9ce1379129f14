--------------------------------- MODULE Push ---------------------------------
(***************************************************************************)
(* The way back: what a member writes locally and sends to the server.     *)
(* `ith5-materialize push` and `remove` (cmd/ith5-materialize/write.go)    *)
(* make a changeset in several calls, or join one that is open; a learning *)
(* (internal/knowledge) and a rollback (internal/releases) make one on the *)
(* server. Reviews and the publishing transaction are one step each here:  *)
(* Changesets and PublishTx take them apart. All resources are of one      *)
(* scope, and the clients are machines of one author.                      *)
(***************************************************************************)
EXTENDS Integers, FiniteSets

CONSTANTS
  Clients,      \* working directories of the author
  Keys,         \* resources a client finds in its directory
  Learnings,    \* names learnings are given
  Others,       \* resources other authors publish too
  Ids,          \* changesets
  Bound,        \* bounds: versions of each resource,
  MaxOthers,    \* versions after which the others stop,
  MaxEdits,     \* edits of files,
  MaxCommands,  \* commands begun
  None,         \* no version
  NoOp          \* no operation

ASSUME KeysAssumption == Keys \cap Learnings = {} /\ Others \subseteq Keys

VARIABLES
  current,  \* bundle_versions: the latest version of each resource
  tombs,    \* the versions of each resource that are tombstones
  text,     \* the edit the latest version was made of, if it was an author's
  sets,     \* changesets
  disk,     \* each client's files
  known,    \* the versions in each client's .ith5-snapshot.json
  proc,     \* the command each client is running
  edits,    \* edits so far
  begun     \* commands begun so far

server == <<current, tombs, text>>
vars == <<current, tombs, text, sets, disk, known, proc, edits, begun>>

-------------------------------------------------------------------------------

Resources == Keys \cup Learnings

ASSUME BoundsAssumption ==
  /\ Bound \in [Resources -> Nat] /\ \A k \in Others : Bound[k] # 0
  /\ {MaxOthers, MaxEdits, MaxCommands} \subseteq Nat

Versions == UNION {0..Bound[k] : k \in Resources}
Texts == 0..MaxEdits

\* base: the version the author had before them. prev: expected_prev_version.
\* skipped: a sync has left the file alone since (history).
Op == [act: {"put", "delete"}, base: Versions, text: Texts, prev: Versions \cup {None}, skipped: BOOLEAN]
Ops == [Resources -> Op \cup {NoOp}]
NoOps == [k \in Resources |-> NoOp]

ASSUME NoneAssumption == None \notin Nat /\ NoOp \notin Op

Touched(ops) == {k \in Resources : ops[k] # NoOp}

States == {"none", "draft", "in_review", "approved", "published", "closed"}

\* base: base_revisions, as the version of each resource when the changeset was created
Changeset == [state: States, ops: Ops, base: [Resources -> Versions], fast: BOOLEAN]

\* text: 0 if the file is as the sync wrote it. A file that is not there has base 0 and text 0.
File == [base: Versions, text: Texts, skipped: BOOLEAN]
NoFile == [base |-> 0, text |-> 0, skipped |-> FALSE]

Steps == {"idle", "find", "patch", "create", "submit", "publish"}
Process == [step: Steps, ops: Ops, id: Ids \cup {None}, read: Ops, fresh: BOOLEAN, fast: BOOLEAN, draft: BOOLEAN]
IdleProcess == [step |-> "idle", ops |-> NoOps, id |-> None, read |-> NoOps, fresh |-> FALSE, fast |-> FALSE, draft |-> FALSE]

\* The types; and what is open has something in it, and expects no version that is still to come.
TypeOK ==
  /\ current \in [Resources -> Versions] /\ tombs \in [Resources -> SUBSET Versions] /\ text \in [Resources -> Texts]
  /\ sets \in [Ids -> Changeset]
  /\ \A id \in Ids : sets[id].state # "none" => Touched(sets[id].ops) # {}
  /\ \A id \in Ids, k \in Resources : sets[id].ops[k] # NoOp /\ sets[id].ops[k].prev # None => sets[id].ops[k].prev <= current[k]
  /\ disk \in [Clients -> [Keys -> File]]
  /\ known \in [Clients -> [Keys -> Versions]]
  /\ proc \in [Clients -> Process]
  /\ edits \in Texts /\ begun \in 0..MaxCommands

\* The others have published before.
Init ==
  /\ current = [k \in Resources |-> IF k \in Others THEN 1 ELSE 0] /\ tombs = [k \in Resources |-> {}] /\ text = [k \in Resources |-> 0]
  /\ sets = [id \in Ids |-> [state |-> "none", ops |-> NoOps, base |-> current, fast |-> FALSE]]
  /\ disk = [c \in Clients |-> [k \in Keys |-> NoFile]]
  /\ known = [c \in Clients |-> [k \in Keys |-> 0]]
  /\ proc = [c \in Clients |-> IdleProcess]
  /\ edits = 0 /\ begun = 0

-------------------------------------------------------------------------------
(* The working directory *)

\* The author edits files, or creates them.
EditFiles(c, keys) ==
  /\ edits < MaxEdits
  /\ edits' = edits + 1
  /\ disk' = [disk EXCEPT ![c] = [k \in Keys |-> IF k \in keys THEN [@[k] EXCEPT !.text = edits'] ELSE @[k]]]
  /\ UNCHANGED <<server, sets, known, proc, begun>>

\* What a snapshot says of a resource
Offered(k) == IF current[k] \in tombs[k] THEN 0 ELSE current[k]

\* apply: the client's own files follow the snapshot; a file the author has edited
\* is left alone, and is the client's again when the author's edit has been published.
Applied(f, k) ==
  IF f.text = 0 \/ (f.text = text[k] /\ Offered(k) # 0)
    THEN [base |-> Offered(k), text |-> 0, skipped |-> FALSE]
    ELSE [f EXCEPT !.skipped = @ \/ Offered(k) \notin {0, f.base}]

\* cmdSync, in one step (Sync takes it apart, and stops it halfway)
SyncAll(c) ==
  /\ proc[c].step = "idle"
  /\ disk' = [disk EXCEPT ![c] = [k \in Keys |-> Applied(@[k], k)]]
  /\ known' = [known EXCEPT ![c] = [k \in Keys |-> Offered(k)]]
  /\ UNCHANGED <<server, sets, proc, edits, begun>>

-------------------------------------------------------------------------------
(* The commands *)

Begin(c, step, ops, fast, draft) ==
  /\ proc[c].step = "idle"
  /\ begun < MaxCommands /\ begun' = begun + 1
  /\ proc' = [proc EXCEPT ![c] = [IdleProcess EXCEPT !.step = step, !.ops = ops, !.fast = fast, !.draft = draft]]
  /\ UNCHANGED <<server, sets, disk, known, edits>>

\* isDirty: there is a file, and the journal does not have it as it is.
IsDirty(c, k) == disk[c][k].text # 0

\* Mutant: the file is for the version after the one in the snapshot.
ToOpNext(c, k) ==
  [act |-> "put", base |-> disk[c][k].base, text |-> disk[c][k].text,
   prev |-> IF known[c][k] = Bound[k] THEN None ELSE known[c][k] + 1, skipped |-> disk[c][k].skipped]

\* toOp, findEntry: the version the snapshot has of it; a resource that it has not is new.
ToOp(c, k) ==
  [act |-> "put", base |-> disk[c][k].base, text |-> disk[c][k].text,
   prev |-> IF known[c][k] = 0 THEN None ELSE known[c][k], skipped |-> disk[c][k].skipped]

\* cmdPush
BeginPush(c, fast) ==
  /\ \E k \in Keys : IsDirty(c, k)
  /\ Begin(c, "find", [k \in Resources |-> IF k \in Keys THEN IF IsDirty(c, k) THEN ToOp(c, k) ELSE NoOp ELSE NoOp], fast, FALSE)

OneOp(k, act, base) == [NoOps EXCEPT ![k] = [act |-> act, base |-> base, text |-> 0, prev |-> None, skipped |-> FALSE]]

\* cmdRemove
BeginRemove(c, k, fast) ==
  /\ known[c][k] # 0
  /\ Begin(c, "find", OneOp(k, "delete", known[c][k]), fast, FALSE)

\* Contribute: a name with a random part, which can be in use; the policy may ask for a review
BeginContribute(c, k, fast) == Begin(c, "create", OneOp(k, "put", 0), fast, FALSE)

\* Promote: a learning becomes a resource, as a draft
BeginPromote(c, l, k) == Offered(l) # 0 /\ Begin(c, "create", OneOp(k, "put", 0), FALSE, TRUE)

\* Archive
BeginArchive(c, k) ==
  /\ Offered(k) # 0
  /\ Begin(c, "create", OneOp(k, "delete", current[k]), TRUE, FALSE)

\* Rollback: what the release wrote goes back to the version before it, or is removed where there was none.
RollbackOf(id) ==
  [k \in Resources |->
     LET before == sets[id].base[k]
         op == sets[id].ops[k]
         restored == before # 0 /\ before \notin tombs[k]
     IN CASE op # NoOp /\ restored -> OneOp(k, "put", before + 1)[k]
          [] op # NoOp /\ ~restored /\ op.act # "delete" -> OneOp(k, "delete", before + 1)[k]
          [] OTHER -> NoOp]

BeginRollback(c, id, fast) ==
  /\ sets[id].state = "published" /\ Touched(RollbackOf(id)) # {}
  /\ Begin(c, "create", RollbackOf(id), fast, TRUE)

\* A command ends: it is done, a call fails, or the client is stopped.
Stop(c) ==
  /\ proc[c].step # "idle"
  /\ proc' = [proc EXCEPT ![c] = IdleProcess]
  /\ UNCHANGED <<server, sets, disk, known, edits, begun>>

Goes(c, step) ==
  [proc EXCEPT ![c] = IF step = "idle" THEN IdleProcess ELSE [@ EXCEPT !.step = step, !.read = NoOps, !.fresh = FALSE]]

\* findOpenChangeset: a changeset of the author's that touches the same, its operations
\* and its ETag. When one of the two calls fails there is none.
Find(c) ==
  /\ proc[c].step = "find"
  /\ LET open == {id \in Ids : sets[id].state \in {"draft", "in_review"} /\ Touched(sets[id].ops) \cap Touched(proc[c].ops) # {}}
     IN proc' \in {[Goes(c, "patch") EXCEPT ![c].id = id, ![c].read = sets[id].ops, ![c].fresh = TRUE] : id \in open}
                  \cup {Goes(c, "create")}
  /\ UNCHANGED <<server, sets, disk, known, edits, begun>>

\* The others who have read a changeset have an ETag of before.
Stale(ids, procs) == [c \in Clients |-> IF procs[c].id \in ids THEN [procs[c] EXCEPT !.fresh = FALSE] ELSE procs[c]]

\* validate: only what is there is deleted.
Valid(ops) == \A k \in Touched(ops) : ops[k].act = "delete" => Offered(k) # 0

\* Mutant: the new operations replace all the old ones.
MergeOpsNew(old, add) == add

\* The new operations replace the old ones of the same resources.
MergeOps(old, add) == [k \in Resources |-> IF add[k] # NoOp THEN add[k] ELSE old[k]]

\* updateChangeset, Edit: PATCH with If-Match
Patch(c) ==
  /\ proc[c].step = "patch"
  /\ LET id == proc[c].id
         ops == MergeOps(proc[c].read, proc[c].ops)
     IN IF proc[c].fresh /\ Valid(ops) /\ sets[id].state \notin {"published", "closed"}
          THEN /\ sets' = [sets EXCEPT ![id].state = "draft", ![id].ops = ops, ![id].fast = proc[c].fast]
               /\ proc' = Stale({id}, Goes(c, "submit"))
          ELSE sets' = sets /\ proc' = Goes(c, "idle")
  /\ UNCHANGED <<server, disk, known, edits, begun>>

\* createChangeset, Create; the end of Rollback
Create(c) ==
  /\ proc[c].step = "create"
  /\ IF Valid(proc[c].ops)
       THEN \E id \in Ids :
              /\ sets[id].state = "none"
              /\ sets' = [sets EXCEPT ![id] = [state |-> "draft", ops |-> proc[c].ops, base |-> current, fast |-> proc[c].fast]]
              /\ proc' = IF proc[c].draft THEN Goes(c, "idle") ELSE [Goes(c, "submit") EXCEPT ![c].id = id]
       ELSE sets' = sets /\ proc' = Goes(c, "idle")
  /\ UNCHANGED <<server, disk, known, edits, begun>>

Submitted(id) == [sets EXCEPT ![id].state = IF sets[id].fast THEN "approved" ELSE "in_review"]

\* Submit: whatever is in the changeset by now
Submit(c) ==
  /\ proc[c].step = "submit"
  /\ LET id == proc[c].id
     IN IF sets[id].state = "draft"
          THEN sets' = Submitted(id) /\ proc' = Stale({id}, IF proc[c].fast THEN [Goes(c, "publish") EXCEPT ![c].ops = NoOps] ELSE Goes(c, "idle"))
          ELSE sets' = sets /\ proc' = Goes(c, "idle")
  /\ UNCHANGED <<server, disk, known, edits, begun>>

-------------------------------------------------------------------------------
(* Releases *)

\* Mutant: the expected version is not compared.
AcceptsUnexpected(id, k) ==
  /\ current[k] = sets[id].base[k]
  /\ sets[id].ops[k].act = "delete" => Offered(k) # 0

\* What the transaction checks of an operation: nothing was published to the
\* resource since the changeset was created, it is at the version expected, and
\* only what is there is deleted.
Accepts(id, k) ==
  LET op == sets[id].ops[k]
  IN /\ current[k] = sets[id].base[k]
     /\ op.prev \in {None, current[k]}
     /\ op.act = "delete" => Offered(k) # 0

Publishable(id) ==
  /\ sets[id].state = "approved"
  /\ \A k \in Touched(sets[id].ops) : Accepts(id, k) /\ current[k] < Bound[k]

\* ReleaseStore.Publish, see PublishTx
PublishSet(id) ==
  LET ops == sets[id].ops
  IN /\ current' = [k \in Resources |-> IF ops[k] # NoOp THEN current[k] + 1 ELSE current[k]]
     /\ tombs' = [k \in Resources |-> IF ops[k] # NoOp THEN IF ops[k].act = "delete" THEN tombs[k] \cup {current'[k]} ELSE tombs[k] ELSE tombs[k]]
     /\ text' = [k \in Resources |-> IF ops[k] # NoOp THEN ops[k].text ELSE text[k]]
     /\ sets' = [sets EXCEPT ![id].state = "published"]

\* The last call of a fast-tracked push, of Contribute and of Archive
Publish(c) ==
  /\ proc[c].step = "publish"
  /\ LET id == proc[c].id
     IN IF Publishable(id)
          THEN PublishSet(id) /\ proc' = Stale({id}, Goes(c, "idle"))
          ELSE UNCHANGED <<server, sets>> /\ proc' = Goes(c, "idle")
  /\ UNCHANGED <<disk, known, edits, begun>>

\* In the console: a draft is submitted; reviews approve; a changeset is rejected,
\* sent back or cancelled; someone publishes.
Console(id) ==
  /\ \/ sets[id].state = "draft" /\ sets' = Submitted(id) /\ UNCHANGED server
     \/ sets[id].state = "in_review" /\ sets' = [sets EXCEPT ![id].state = "approved"] /\ UNCHANGED server
     \/ sets[id].state \in {"draft", "in_review", "approved"} /\ sets' = [sets EXCEPT ![id].state = "closed"] /\ UNCHANGED server
     \/ Publishable(id) /\ PublishSet(id)
  /\ proc' = Stale({id}, proc)
  /\ UNCHANGED <<disk, known, edits, begun>>

\* Someone else publishes a version of a resource.
OthersPublish(k) ==
  /\ current[k] < Bound[k] /\ current[k] < MaxOthers
  /\ current' = [current EXCEPT ![k] = @ + 1] /\ tombs' = tombs /\ text' = [text EXCEPT ![k] = 0]
  /\ UNCHANGED <<sets, disk, known, proc, edits, begun>>

Work(c) ==
  \/ \E keys \in (SUBSET Keys) \ {{}} : EditFiles(c, keys)
  \/ SyncAll(c)

Commands(c) ==
  \/ \E fast \in BOOLEAN : \/ BeginPush(c, fast)
                          \/ \E k \in Keys : BeginRemove(c, k, fast)
                          \/ \E l \in Learnings : BeginContribute(c, l, fast)
                          \/ \E id \in Ids : BeginRollback(c, id, fast)
  \/ \E l \in Learnings : BeginArchive(c, l) \/ \E k \in Keys : BeginPromote(c, l, k)

Calls(c) == Find(c) \/ Patch(c) \/ Create(c) \/ Submit(c) \/ Publish(c) \/ Stop(c)

Next ==
  \/ \E c \in Clients : Work(c) \/ Commands(c) \/ Calls(c)
  \/ \E id \in Ids : Console(id)
  \/ \E k \in Others : OthersPublish(k)

Spec == Init /\ [][Next]_vars

-------------------------------------------------------------------------------
(* Properties *)

Releases(id, k) == sets[id].state # "published" /\ sets'[id].state = "published" /\ sets[id].ops[k] # NoOp

\* A release replaces the version its author had before them when they wrote it,
\* although between the writing and the release lie a sync, a push, a merge into an
\* open changeset, a review. It replaces one they have not seen in two cases only:
\* the operation expects no version (the resource was not in the author's snapshot,
\* or it is a removal, a learning or a rollback), and then what they missed was
\* published before the changeset was created; or a sync has brought the snapshot
\* forward and left the edited file behind, so push expects a version it was not made from.
BlindReleasesExplained ==
  [][\A id \in Ids, k \in Resources :
       (Releases(id, k) /\ sets[id].ops[k].base # current[k]) =>
          \/ sets[id].ops[k].prev = None /\ sets[id].base[k] = current[k]
          \/ sets[id].ops[k].skipped]_vars

\* A push that is answered has submitted every operation it set out with, although
\* another machine's push may have joined the same changeset in between.
PushedIsSubmitted ==
  [][\A c \in Clients :
       (Submit(c) /\ sets' # sets) => Touched(proc[c].ops) \subseteq Touched(sets[proc[c].id].ops)]_vars

===============================================================================
