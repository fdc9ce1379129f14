------------------------------ MODULE Changesets ------------------------------
(***************************************************************************)
(* The review workflow of one changeset row, as internal/changesets runs   *)
(* it against PostgreSQL: draft -> in_review -> approved -> published,     *)
(* with the exits rejected and cancelled.                                  *)
(*                                                                         *)
(* An HTTP request is a sequence of separate autocommit statements, so a   *)
(* request here is a program counter and the values it has read; every     *)
(* statement is one action, and requests interleave between statements.    *)
(* Only the publishing transaction is one step: it takes the row FOR       *)
(* UPDATE, so no other write of this row can fall inside it (PublishTx     *)
(* opens that transaction up).                                             *)
(***************************************************************************)
EXTENDS Integers, FiniteSets, Sequences

CONSTANTS
  Users,              \* the members of the organization
  Author,             \* the member who created the changeset
  Admins,             \* members with membership:manage on the organization
  Ops,                \* the operations a changeset may contain
  Drafts,             \* the contents authors write: sets of operations
  Learning,           \* the operations on learnings
  MayDecide,          \* <<user, op>>: review:decide on the op's scope
  MayPublish,         \* <<user, op>>: release:publish on the op's scope
  MayContribute,      \* <<user, op>>: learning:contribute on the op's scope
  RequiredApprovals,  \* the organization policy's required_approvals
  Requests,           \* slots for requests that are in flight together
  MaxRequests,        \* bound: requests served in a behaviour
  NoDigest            \* SQL NULL in submitted_digest

ASSUME AuthorAssumption == Author \in Users
ASSUME PermissionAssumption ==
  /\ Admins \subseteq Users
  /\ Learning \subseteq Ops
  /\ Drafts \subseteq SUBSET Ops
  /\ MayDecide \subseteq Users \X Ops
  /\ MayPublish \subseteq Users \X Ops
  /\ MayContribute \subseteq Users \X Ops
ASSUME BoundAssumption == RequiredApprovals \in Nat \ {0} /\ MaxRequests \in Nat
ASSUME FiniteAssumption == IsFiniteSet(Users)
ASSUME NoDigestAssumption == \A content \in SUBSET Ops : NoDigest # content

VARIABLES
  state,     \* changesets.state
  digest,    \* changesets.submitted_digest
  fast,      \* changesets.fast_track
  etag,      \* changesets.etag: a fresh number for each fresh uuid
  ops,       \* the rows of changeset_operations
  reviews,   \* the rows of changeset_reviews
  req,       \* what each request slot is doing and has read
  started,   \* requests served so far
  verdicts,  \* history: each time the row was set to approved, and on what ground
  releases,  \* history: the content of each release made from the row
  stale      \* history: some request has written the row over a version it had not read

rowVars == <<state, digest, fast, etag, ops>>
histVars == <<verdicts, releases, stale>>
vars == <<rowVars, reviews, req, started, histVars>>

-------------------------------------------------------------------------------
(* Types *)

States == {"draft", "in_review", "approved", "published", "rejected", "cancelled"}

\* State.Terminal
Terminal == {"published", "rejected", "cancelled"}

Decisions == {"approve", "request_changes", "reject"}

\* The operations of a changeset are kept normalized, so a set stands for them
\* and the set itself for their SHA-256.
Content == SUBSET Ops

Digest(content) == content

SubmittedDigest == {NoDigest} \cup Content

Review == [reviewer: Users, decision: Decisions, digest: SubmittedDigest,
           superseded: BOOLEAN]

\* Why the row was set to approved: a fast track, or approvals of a digest.
Verdict == [fast: BOOLEAN, digest: SubmittedDigest]

Steps == {"idle",
          "submit_ops", "submit_set",
          "edit_update", "edit_supersede",
          "review_ops", "review_add", "review_count", "review_approve",
          "review_reject", "review_supersede", "review_reopen",
          "cancel_set",
          "publish_ops", "publish_tx"}

\* user: who asks; etag, state: of the row when the request read it; ops: the
\* operations it read or wants to write; ifMatch: the If-Match header of an edit.
Request == [step: Steps, user: Users, etag: Nat, state: States, ifMatch: Nat,
            digest: SubmittedDigest, ops: Content, fast: BOOLEAN,
            decision: Decisions]

Idle == [step |-> "idle", user |-> Author, etag |-> 0, state |-> "draft", ifMatch |-> 0,
         digest |-> NoDigest, ops |-> {}, fast |-> FALSE, decision |-> "approve"]

TypeOK ==
  /\ state \in States
  /\ digest \in SubmittedDigest
  /\ fast \in BOOLEAN
  /\ etag \in Nat
  /\ ops \in Content
  /\ reviews \subseteq Review
  /\ req \in [Requests -> Request]
  /\ started \in Nat
  /\ verdicts \in Seq(Verdict)
  /\ releases \in Seq(Content)
  /\ stale \in BOOLEAN

-------------------------------------------------------------------------------
(* Permissions *)

Can(perm, u, content) == \A op \in content : <<u, op>> \in perm

\* CanFastTrack, for every operation
CanFastTrack(u, content) ==
  \A op \in content : <<u, op>> \in MayPublish \/ (op \in Learning /\ <<u, op>> \in MayContribute)

\* releases.Service.Publish: release:publish everywhere, or the author's own
\* learnings-only changeset with learning:contribute
CanPublish(u, content) ==
  \A op \in content :
    \/ <<u, op>> \in MayPublish
    \/ /\ u = Author
       /\ content # {}
       /\ content \subseteq Learning
       /\ <<u, op>> \in MayContribute

-------------------------------------------------------------------------------
(* The store *)

Goto(i, step) == req' = [req EXCEPT ![i].step = step]

Return(i) == req' = [req EXCEPT ![i] = Idle]

\* A request whose first statement reads the row: it remembers what it read.
Read(i, step, u) ==
  /\ req[i].step = "idle"
  /\ started < MaxRequests
  /\ started' = started + 1
  /\ req' = [req EXCEPT ![i] = [Idle EXCEPT !.step = step, !.user = u, !.etag = etag,
                                            !.state = state, !.digest = digest, !.fast = fast]]
  /\ UNCHANGED <<rowVars, reviews, histVars>>

\* Mutant: the state column is written with a misspelt value.
SetStateMisspelt(i, s, d) ==
  /\ state' = IF s = "cancelled" THEN "canceled" ELSE s
  /\ digest' = IF d = NoDigest THEN digest ELSE d
  /\ etag' = etag + 1
  /\ stale' = (stale \/ req[i].etag # etag)
  /\ UNCHANGED <<fast, ops>>

\* Mutant: SetState forgets to rotate the etag.
SetStateSameEtag(i, s, d) ==
  /\ state' = s
  /\ digest' = IF d = NoDigest THEN digest ELSE d
  /\ stale' = (stale \/ req[i].etag # etag)
  /\ UNCHANGED <<fast, ops, etag>>

\* ChangesetStore.SetState: no condition on the state or the etag it replaces
SetState(i, s, d) ==
  /\ state' = s
  /\ digest' = IF d = NoDigest THEN digest ELSE d
  /\ etag' = etag + 1
  /\ stale' = (stale \/ req[i].etag # etag)
  /\ UNCHANGED <<fast, ops>>

\* ChangesetStore.SupersedeReviews
SupersedeReviews == reviews' = {[r EXCEPT !.superseded = TRUE] : r \in reviews}

\* the distinct reviewers whose approval of d still stands
Approvers(d) ==
  {r.reviewer : r \in {x \in reviews : ~x.superseded /\ x.decision = "approve" /\ x.digest = d}}

-------------------------------------------------------------------------------
(* Service.Submit *)

SubmitRead(i, u) == u = Author /\ state = "draft" /\ Read(i, "submit_ops", u)

SubmitReadOps(i) ==
  /\ req[i].step = "submit_ops"
  /\ IF ops = {} \/ (req[i].fast /\ ~CanFastTrack(req[i].user, ops))
       THEN Return(i)
       ELSE req' = [req EXCEPT ![i].step = "submit_set", ![i].ops = ops]
  /\ UNCHANGED <<rowVars, reviews, started, histVars>>

SubmitSet(i) ==
  /\ req[i].step = "submit_set"
  /\ SetState(i, IF req[i].fast THEN "approved" ELSE "in_review", Digest(req[i].ops))
  /\ verdicts' = IF req[i].fast
                   THEN Append(verdicts, [fast |-> TRUE, digest |-> Digest(req[i].ops)])
                   ELSE verdicts
  /\ Return(i)
  /\ UNCHANGED <<reviews, started, releases>>

-------------------------------------------------------------------------------
(* Service.Edit: ifMatch is an etag the client has seen *)

EditRead(i, u, ifMatch, content, fastTrack) ==
  /\ u = Author
  /\ state \notin Terminal
  /\ req[i].step = "idle"
  /\ started < MaxRequests
  /\ started' = started + 1
  /\ req' = [req EXCEPT ![i] = [Idle EXCEPT !.step = "edit_update", !.user = u, !.etag = etag,
                                            !.state = state, !.ifMatch = ifMatch,
                                            !.ops = content, !.fast = fastTrack]]
  /\ UNCHANGED <<rowVars, reviews, histVars>>

\* Mutant: an edit leaves the state and the digest as they are.
EditUpdateKeepsState(i) ==
  /\ req[i].step = "edit_update"
  /\ IF req[i].ifMatch = etag
       THEN /\ fast' = req[i].fast
            /\ ops' = req[i].ops
            /\ etag' = etag + 1
            /\ Goto(i, "edit_supersede")
            /\ UNCHANGED <<state, digest>>
       ELSE Return(i) /\ UNCHANGED rowVars
  /\ UNCHANGED <<reviews, started, histVars>>

\* Mutant: an edit does not look at If-Match.
EditUpdateUnchecked(i) ==
  /\ req[i].step = "edit_update"
  /\ state' = "draft"
  /\ digest' = NoDigest
  /\ fast' = req[i].fast
  /\ ops' = req[i].ops
  /\ etag' = etag + 1
  /\ Goto(i, "edit_supersede")
  /\ UNCHANGED <<reviews, started, histVars>>

\* ChangesetStore.Update: one transaction, taken only if the etag still matches
EditUpdate(i) ==
  /\ req[i].step = "edit_update"
  /\ IF req[i].ifMatch = etag
       THEN /\ state' = "draft"
            /\ digest' = NoDigest
            /\ fast' = req[i].fast
            /\ ops' = req[i].ops
            /\ etag' = etag + 1
            /\ Goto(i, "edit_supersede")
       ELSE Return(i) /\ UNCHANGED rowVars
  /\ UNCHANGED <<reviews, started, histVars>>

EditSupersede(i) ==
  /\ req[i].step = "edit_supersede"
  /\ SupersedeReviews
  /\ Return(i)
  /\ UNCHANGED <<rowVars, started, histVars>>

-------------------------------------------------------------------------------
(* Service.Review: the digest the client sends must be the one just read *)

\* Mutant: the author may review.
ReviewReadAnyone(i, u, decision) ==
  /\ state = "in_review"
  /\ req[i].step = "idle"
  /\ started < MaxRequests
  /\ started' = started + 1
  /\ req' = [req EXCEPT ![i] = [Idle EXCEPT !.step = "review_ops", !.user = u, !.etag = etag,
                                            !.state = state, !.digest = digest,
                                            !.decision = decision]]
  /\ UNCHANGED <<rowVars, reviews, histVars>>

ReviewRead(i, u, decision) ==
  /\ state = "in_review"
  /\ u # Author
  /\ req[i].step = "idle"
  /\ started < MaxRequests
  /\ started' = started + 1
  /\ req' = [req EXCEPT ![i] = [Idle EXCEPT !.step = "review_ops", !.user = u, !.etag = etag,
                                            !.state = state, !.digest = digest,
                                            !.decision = decision]]
  /\ UNCHANGED <<rowVars, reviews, histVars>>

ReviewReadOps(i) ==
  /\ req[i].step = "review_ops"
  /\ IF Can(MayDecide, req[i].user, ops) THEN Goto(i, "review_add") ELSE Return(i)
  /\ UNCHANGED <<rowVars, reviews, started, histVars>>

ReviewAdd(i) ==
  /\ req[i].step = "review_add"
  /\ reviews' = reviews \cup {[reviewer |-> req[i].user, decision |-> req[i].decision,
                               digest |-> req[i].digest, superseded |-> FALSE]}
  /\ Goto(i, CASE req[i].decision = "approve" -> "review_count"
               [] req[i].decision = "reject" -> "review_reject"
               [] req[i].decision = "request_changes" -> "review_supersede")
  /\ UNCHANGED <<rowVars, started, histVars>>

\* the second Get, after GetPolicy
ReviewCount(i) ==
  /\ req[i].step = "review_count"
  /\ IF Cardinality(Approvers(req[i].digest)) < RequiredApprovals
       THEN Return(i)
       ELSE Goto(i, "review_approve")
  /\ UNCHANGED <<rowVars, reviews, started, histVars>>

ReviewApprove(i) ==
  /\ req[i].step = "review_approve"
  /\ SetState(i, "approved", NoDigest)
  /\ verdicts' = Append(verdicts, [fast |-> FALSE, digest |-> req[i].digest])
  /\ Return(i)
  /\ UNCHANGED <<reviews, started, releases>>

ReviewReject(i) ==
  /\ req[i].step = "review_reject"
  /\ SetState(i, "rejected", NoDigest)
  /\ Return(i)
  /\ UNCHANGED <<reviews, started, verdicts, releases>>

ReviewSupersede(i) ==
  /\ req[i].step = "review_supersede"
  /\ SupersedeReviews
  /\ Goto(i, "review_reopen")
  /\ UNCHANGED <<rowVars, started, histVars>>

ReviewReopen(i) ==
  /\ req[i].step = "review_reopen"
  /\ SetState(i, "draft", NoDigest)
  /\ Return(i)
  /\ UNCHANGED <<reviews, started, verdicts, releases>>

-------------------------------------------------------------------------------
(* Service.Cancel *)

CancelRead(i, u) ==
  u \in Admins \cup {Author} /\ state \notin Terminal /\ Read(i, "cancel_set", u)

CancelSet(i) ==
  /\ req[i].step = "cancel_set"
  /\ SetState(i, "cancelled", NoDigest)
  /\ Return(i)
  /\ UNCHANGED <<reviews, started, verdicts, releases>>

-------------------------------------------------------------------------------
(* releases.Service.Publish *)

PublishRead(i, u) == state = "approved" /\ Read(i, "publish_ops", u)

PublishReadOps(i) ==
  /\ req[i].step = "publish_ops"
  /\ IF CanPublish(req[i].user, ops)
       THEN req' = [req EXCEPT ![i].step = "publish_tx", ![i].ops = ops]
       ELSE Return(i)
  /\ UNCHANGED <<rowVars, reviews, started, histVars>>

\* Mutant: the state is not checked again under the row lock.
PublishTxUnchecked(i) ==
  /\ req[i].step = "publish_tx"
  /\ \/ /\ state' = "published"
        /\ etag' = etag + 1
        /\ releases' = Append(releases, req[i].ops)
        /\ stale' = (stale \/ req[i].etag # etag)
        /\ UNCHANGED <<digest, fast, ops, verdicts>>
     \/ UNCHANGED <<rowVars, histVars>>
  /\ Return(i)
  /\ UNCHANGED <<reviews, started>>

\* ReleaseStore.Publish as this row sees it: the state is checked again under the
\* row lock, the operations are the ones read before; a conflict leaves the row alone.
PublishTx(i) ==
  /\ req[i].step = "publish_tx"
  /\ \/ /\ state = "approved"
        /\ state' = "published"
        /\ etag' = etag + 1
        /\ releases' = Append(releases, req[i].ops)
        /\ stale' = (stale \/ req[i].etag # etag)
        /\ UNCHANGED <<digest, fast, ops, verdicts>>
     \/ UNCHANGED <<rowVars, histVars>>
  /\ Return(i)
  /\ UNCHANGED <<reviews, started>>

-------------------------------------------------------------------------------
(* The client goes away or the server dies between two statements: the     *)
(* request's context is cancelled and nothing after that point happens.    *)

Abandon(i) ==
  /\ req[i].step # "idle"
  /\ Return(i)
  /\ UNCHANGED <<rowVars, reviews, started, histVars>>

-------------------------------------------------------------------------------

\* Service.Create has just inserted the row.
Init ==
  /\ state = "draft"
  /\ digest = NoDigest
  /\ fast \in BOOLEAN
  /\ etag = 1
  /\ ops \in Drafts
  /\ reviews = {}
  /\ req = [i \in Requests |-> Idle]
  /\ started = 0
  /\ verdicts = <<>>
  /\ releases = <<>>
  /\ stale = FALSE

Next ==
  \E i \in Requests :
    \/ \E u \in Users : SubmitRead(i, u)
    \/ SubmitReadOps(i)
    \/ SubmitSet(i)
    \/ \E u \in Users, m \in 1..etag, content \in Drafts, f \in BOOLEAN : EditRead(i, u, m, content, f)
    \/ EditUpdate(i)
    \/ EditSupersede(i)
    \/ \E u \in Users, d \in Decisions : ReviewRead(i, u, d)
    \/ ReviewReadOps(i)
    \/ ReviewAdd(i)
    \/ ReviewCount(i)
    \/ ReviewApprove(i)
    \/ ReviewReject(i)
    \/ ReviewSupersede(i)
    \/ ReviewReopen(i)
    \/ \E u \in Users : CancelRead(i, u)
    \/ CancelSet(i)
    \/ \E u \in Users : PublishRead(i, u)
    \/ PublishReadOps(i)
    \/ PublishTx(i)
    \/ Abandon(i)

Spec == Init /\ [][Next]_vars

-------------------------------------------------------------------------------
(* Properties *)

\* Reviewers other than the author who have ever approved d. The rows of
\* changeset_reviews are never deleted, so this is a fact about the past.
EverApproved(d) ==
  {u \in Users \ {Author} : \E r \in reviews : r.reviewer = u /\ r.decision = "approve" /\ r.digest = d}

\* What entitles a changeset to be approved.
Backed(v) ==
  IF v.fast THEN CanFastTrack(Author, v.digest)
            ELSE Cardinality(EverApproved(v.digest)) >= RequiredApprovals

\* Whatever way requests interleave and wherever they stop, the row is set to
\* approved only on the strength of required_approvals different reviewers, none
\* of them the author, who approved one and the same digest, or of an author who
\* may fast-track the content submitted (Service.Review, Service.Submit).
VerdictsBacked == \A k \in DOMAIN verdicts : Backed(verdicts[k])

\* One approval pays for one release: of publish requests that all read the row
\* as approved, one succeeds (ReleaseStore.Publish step 0).
OneReleasePerApproval ==
  Len(releases) + (IF state = "approved" THEN 1 ELSE 0) <= Len(verdicts)

\* As long as no request has written the row over a version it had not read, what
\* is released is exactly what was submitted and approved: the stale writes of
\* SetState and Publish are the only way unreviewed content can get out.
FreshWritesReleaseApprovedContent ==
  ~stale => \A k \in DOMAIN releases : \E v \in DOMAIN verdicts : verdicts[v].digest = releases[k]

\* A published, rejected or cancelled changeset leaves that state only through a
\* request that read the row before it was last written: every write rotates the
\* etag, so comparing it in SetState would make terminal states final.
OnlyStaleRequestsReopen ==
  [][(state \in Terminal /\ state' # state)
       => (\E i \in Requests : req'[i] # req[i] /\ req[i].etag < etag)]_vars

\* An edit never lands on a terminal changeset: the If-Match of an edit let in
\* before the row became terminal no longer matches (Service.Edit, Update).
TerminalContentFixed == [][(state \in Terminal) => (UNCHANGED <<ops, fast>>)]_vars


\* What the schema says of submitted_digest ("a review counts only if it matches")
\* and the manual of edits ("changed after submission, earlier reviews are void"):
\* the content of a release is the content some approval was given for.
PublishedContentWasApproved ==
  \A k \in DOMAIN releases : \E v \in DOMAIN verdicts : verdicts[v].digest = releases[k]

===============================================================================
