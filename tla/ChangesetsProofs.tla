--------------------------- MODULE ChangesetsProofs ---------------------------
(***************************************************************************)
(* Proofs about Changesets, for any members, permissions, operations,      *)
(* number of approvals and number of requests in flight. Each property     *)
(* rests on TypeOK and on what a request remembers of the row it read.     *)
(***************************************************************************)
EXTENDS Changesets, TLAPS, FiniteSetTheorems

-------------------------------------------------------------------------------
(* Types *)

Requesting == [Requests -> Request]

LEMMA IdleType == Idle \in Request
  BY AuthorAssumption DEF Idle, Request, Steps, States, SubmittedDigest, Content, Decisions

LEMMA InitTypeOK == Init => TypeOK
<1>. SUFFICES ASSUME Init PROVE TypeOK
  OBVIOUS
<1>1. state \in States /\ digest \in SubmittedDigest /\ fast \in BOOLEAN /\ etag \in Nat
  BY DEF Init, States, SubmittedDigest
<1>2. ops \in Content /\ reviews \subseteq Review /\ started \in Nat /\ stale \in BOOLEAN
  BY PermissionAssumption DEF Init, Content
<1>3. req \in Requesting
  BY IdleType DEF Init, Requesting
<1>4. verdicts \in Seq(Verdict) /\ releases \in Seq(Content)
  BY DEF Init
<1>. QED BY <1>1, <1>2, <1>3, <1>4 DEF TypeOK, Requesting

LEMMA AppendType ==
  ASSUME NEW S, NEW q \in Seq(S), NEW x \in S
  PROVE  Append(q, x) \in Seq(S)
  OBVIOUS

\* What a request remembers has the types it should.
LEMMA RequestType ==
  ASSUME TypeOK, NEW i \in Requests
  PROVE  /\ req[i] \in Request
         /\ req[i].step \in Steps /\ req[i].user \in Users /\ req[i].etag \in Nat
         /\ req[i].state \in States /\ req[i].ifMatch \in Nat
         /\ req[i].digest \in SubmittedDigest /\ req[i].ops \in Content
         /\ req[i].fast \in BOOLEAN /\ req[i].decision \in Decisions
  BY DEF TypeOK, Request

LEMMA GotoType ==
  ASSUME TypeOK, NEW i \in Requests, NEW step \in Steps, Goto(i, step)
  PROVE  req' \in Requesting
  BY DEF TypeOK, Goto, Request, Requesting

\* A request that has read the operations.
LEMMA ReadOpsType ==
  ASSUME TypeOK, NEW i \in Requests, NEW step \in Steps,
         req' = [req EXCEPT ![i].step = step, ![i].ops = ops]
  PROVE  req' \in Requesting
<1>1. [[req[i] EXCEPT !.step = step] EXCEPT !.ops = ops] \in Request
  BY RequestType DEF TypeOK, Request
<1>. QED BY <1>1 DEF TypeOK, Requesting

LEMMA ReturnType ==
  ASSUME TypeOK, NEW i \in Requests, Return(i)
  PROVE  req' \in Requesting
  BY IdleType DEF TypeOK, Return, Requesting

\* An action that moves a request on and leaves everything else alone.
LEMMA OnlyRequest ==
  ASSUME TypeOK, req' \in Requesting, UNCHANGED <<rowVars, reviews, started, histVars>>
  PROVE  TypeOK'
  BY DEF TypeOK, Requesting, rowVars, histVars

\* A request that comes in.
LEMMA ReadType ==
  ASSUME TypeOK, NEW r \in Request, NEW i \in Requests, req' = [req EXCEPT ![i] = r],
         started' = started + 1, UNCHANGED <<rowVars, reviews, histVars>>
  PROVE  TypeOK'
  BY DEF TypeOK, rowVars, histVars

LEMMA ReadRequestType ==
  ASSUME TypeOK, NEW step \in Steps, NEW u \in Users
  PROVE  [Idle EXCEPT !.step = step, !.user = u, !.etag = etag, !.state = state,
                      !.digest = digest, !.fast = fast] \in Request
  BY IdleType DEF TypeOK, Request

\* The row after SetState, whatever the request had read.
LEMMA SetStateType ==
  ASSUME TypeOK, NEW i \in Requests, NEW s \in States, NEW d \in SubmittedDigest,
         SetState(i, s, d), Return(i), UNCHANGED <<reviews, started, releases>>,
         verdicts' \in Seq(Verdict)
  PROVE  TypeOK'
<1>1. req' \in Requesting
  BY ReturnType
<1>. QED BY <1>1 DEF TypeOK, SetState, Requesting

LEMMA SupersedeType ==
  ASSUME TypeOK, SupersedeReviews
  PROVE  reviews' \subseteq Review
  BY DEF TypeOK, SupersedeReviews, Review

LEMMA NextTypeOK == TypeOK /\ [Next]_vars => TypeOK'
<1>. SUFFICES ASSUME TypeOK, [Next]_vars PROVE TypeOK'
  OBVIOUS
<1>1. ASSUME NEW i \in Requests, NEW u \in Users, SubmitRead(i, u) PROVE TypeOK'
  BY <1>1, ReadType, ReadRequestType DEF SubmitRead, Read, Steps
<1>2. ASSUME NEW i \in Requests, SubmitReadOps(i) PROVE TypeOK'
  <2>1. req' \in Requesting
    BY <1>2, ReturnType, ReadOpsType DEF SubmitReadOps, Steps
  <2>. QED BY <1>2, <2>1, OnlyRequest DEF SubmitReadOps, rowVars, histVars
<1>3. ASSUME NEW i \in Requests, SubmitSet(i) PROVE TypeOK'
  <2>. DEFINE s == IF req[i].fast THEN "approved" ELSE "in_review"
              d == Digest(req[i].ops)
  <2>1. s \in States /\ d \in SubmittedDigest
    BY RequestType DEF States, Digest, SubmittedDigest
  <2>2. SetState(i, s, d) /\ Return(i) /\ UNCHANGED <<reviews, started, releases>>
    BY <1>3 DEF SubmitSet
  <2>3. verdicts' \in Seq(Verdict)
    <3>1. verdicts' = verdicts \/ verdicts' = Append(verdicts, [fast |-> TRUE, digest |-> d])
      BY <1>3 DEF SubmitSet
    <3>2. [fast |-> TRUE, digest |-> d] \in Verdict
      BY <2>1 DEF Verdict
    <3>. QED BY <3>1, <3>2, AppendType DEF TypeOK
  <2>. HIDE DEF s, d
  <2>. QED BY <2>1, <2>2, <2>3, SetStateType
<1>4. ASSUME NEW i \in Requests, NEW u \in Users, NEW m \in 1..etag, NEW content \in Drafts,
             NEW f \in BOOLEAN, EditRead(i, u, m, content, f)
      PROVE TypeOK'
  <2>1. content \in Content /\ m \in Nat
    BY PermissionAssumption DEF Content, TypeOK
  <2>2. [Idle EXCEPT !.step = "edit_update", !.user = u, !.etag = etag, !.state = state,
                     !.ifMatch = m, !.ops = content, !.fast = f] \in Request
    BY <2>1, IdleType DEF TypeOK, Request, Steps
  <2>. QED BY <1>4, <2>2, ReadType DEF EditRead
<1>5. ASSUME NEW i \in Requests, EditUpdate(i) PROVE TypeOK'
  <2>1. req' \in Requesting
    BY <1>5, GotoType, ReturnType DEF EditUpdate, Steps
  <2>2. CASE req[i].ifMatch = etag
    <3>1. state' \in States /\ digest' \in SubmittedDigest /\ fast' \in BOOLEAN
          /\ ops' \in Content /\ etag' \in Nat
      BY <1>5, <2>2, RequestType DEF EditUpdate, TypeOK, States, SubmittedDigest
    <3>. QED BY <1>5, <2>1, <3>1 DEF EditUpdate, TypeOK, Requesting, histVars
  <2>3. CASE req[i].ifMatch # etag
    BY <1>5, <2>1, <2>3, OnlyRequest DEF EditUpdate
  <2>. QED BY <2>2, <2>3
<1>6. ASSUME NEW i \in Requests, EditSupersede(i) PROVE TypeOK'
  <2>1. req' \in Requesting /\ reviews' \subseteq Review
    BY <1>6, ReturnType, SupersedeType DEF EditSupersede
  <2>. QED BY <1>6, <2>1 DEF EditSupersede, TypeOK, Requesting, rowVars, histVars
<1>7. ASSUME NEW i \in Requests, NEW u \in Users, NEW d \in Decisions, ReviewRead(i, u, d)
      PROVE TypeOK'
  <2>1. [Idle EXCEPT !.step = "review_ops", !.user = u, !.etag = etag, !.state = state,
                     !.digest = digest, !.decision = d] \in Request
    BY IdleType DEF TypeOK, Request, Steps
  <2>. QED BY <1>7, <2>1, ReadType DEF ReviewRead
<1>8. ASSUME NEW i \in Requests, ReviewReadOps(i) PROVE TypeOK'
  BY <1>8, GotoType, ReturnType, OnlyRequest DEF ReviewReadOps, Steps
<1>9. ASSUME NEW i \in Requests, ReviewAdd(i) PROVE TypeOK'
  <2>1. reviews' \subseteq Review
    <3>. DEFINE r == [reviewer |-> req[i].user, decision |-> req[i].decision,
                      digest |-> req[i].digest, superseded |-> FALSE]
    <3>1. r \in Review
      BY RequestType DEF Review
    <3>2. reviews' = reviews \cup {r}
      BY <1>9 DEF ReviewAdd
    <3>. HIDE DEF r
    <3>. QED BY <3>1, <3>2 DEF TypeOK
  <2>2. req' \in Requesting
    BY <1>9, RequestType, GotoType DEF ReviewAdd, Steps, Decisions
  <2>. QED BY <1>9, <2>1, <2>2 DEF ReviewAdd, TypeOK, Requesting, rowVars, histVars
<1>10. ASSUME NEW i \in Requests, ReviewCount(i) PROVE TypeOK'
  BY <1>10, GotoType, ReturnType, OnlyRequest DEF ReviewCount, Steps
<1>11. ASSUME NEW i \in Requests, ReviewApprove(i) PROVE TypeOK'
  <2>1. verdicts' \in Seq(Verdict)
    <3>1. [fast |-> FALSE, digest |-> req[i].digest] \in Verdict
      BY RequestType DEF Verdict
    <3>. QED BY <1>11, <3>1, AppendType DEF ReviewApprove, TypeOK
  <2>2. "approved" \in States /\ NoDigest \in SubmittedDigest
    BY DEF States, SubmittedDigest
  <2>. QED BY <1>11, <2>1, <2>2, SetStateType DEF ReviewApprove
<1>12. ASSUME NEW i \in Requests, NEW s \in {"rejected", "draft", "cancelled"},
              SetState(i, s, NoDigest), Return(i), UNCHANGED <<reviews, started, verdicts, releases>>
       PROVE TypeOK'
  <2>1. s \in States /\ NoDigest \in SubmittedDigest
    BY DEF States, SubmittedDigest
  <2>2. verdicts' \in Seq(Verdict)
    BY <1>12 DEF TypeOK
  <2>. QED BY <1>12, <2>1, <2>2, SetStateType
<1>13. ASSUME NEW i \in Requests, ReviewReject(i) PROVE TypeOK'
  BY <1>12, <1>13 DEF ReviewReject
<1>14. ASSUME NEW i \in Requests, ReviewSupersede(i) PROVE TypeOK'
  <2>1. req' \in Requesting /\ reviews' \subseteq Review
    BY <1>14, GotoType, SupersedeType DEF ReviewSupersede, Steps
  <2>. QED BY <1>14, <2>1 DEF ReviewSupersede, TypeOK, Requesting, rowVars, histVars
<1>15. ASSUME NEW i \in Requests, ReviewReopen(i) PROVE TypeOK'
  BY <1>12, <1>15 DEF ReviewReopen
<1>16. ASSUME NEW i \in Requests, NEW u \in Users, CancelRead(i, u) PROVE TypeOK'
  BY <1>16, ReadType, ReadRequestType DEF CancelRead, Read, Steps
<1>17. ASSUME NEW i \in Requests, CancelSet(i) PROVE TypeOK'
  BY <1>12, <1>17 DEF CancelSet
<1>18. ASSUME NEW i \in Requests, NEW u \in Users, PublishRead(i, u) PROVE TypeOK'
  BY <1>18, ReadType, ReadRequestType DEF PublishRead, Read, Steps
<1>19. ASSUME NEW i \in Requests, PublishReadOps(i) PROVE TypeOK'
  <2>1. req' \in Requesting
    BY <1>19, ReturnType, ReadOpsType DEF PublishReadOps, Steps
  <2>. QED BY <1>19, <2>1, OnlyRequest DEF PublishReadOps, rowVars, histVars
<1>20. ASSUME NEW i \in Requests, PublishTx(i) PROVE TypeOK'
  <2>1. req' \in Requesting
    BY <1>20, ReturnType DEF PublishTx
  <2>2. CASE UNCHANGED <<rowVars, histVars>>
    BY <1>20, <2>1, <2>2, OnlyRequest DEF PublishTx
  <2>3. CASE ~UNCHANGED <<rowVars, histVars>>
    <3>1. /\ state' = "published"
          /\ etag' = etag + 1
          /\ releases' = Append(releases, req[i].ops)
          /\ stale' = (stale \/ req[i].etag # etag)
          /\ UNCHANGED <<digest, fast, ops, verdicts, reviews, started>>
      BY <1>20, <2>3 DEF PublishTx
    <3>2. releases' \in Seq(Content)
      BY <3>1, RequestType, AppendType DEF TypeOK
    <3>. QED BY <2>1, <3>1, <3>2 DEF TypeOK, Requesting, States
  <2>. QED BY <2>2, <2>3
<1>21. ASSUME NEW i \in Requests, Abandon(i) PROVE TypeOK'
  BY <1>21, ReturnType, OnlyRequest DEF Abandon
<1>22. CASE UNCHANGED vars
  BY <1>22, OnlyRequest DEF vars, TypeOK, Requesting
<1>. QED
  BY <1>1, <1>2, <1>3, <1>4, <1>5, <1>6, <1>7, <1>8, <1>9, <1>10, <1>11, <1>13, <1>14, <1>15,
     <1>16, <1>17, <1>18, <1>19, <1>20, <1>21, <1>22 DEF Next

\* The variables of the model have their types in every reachable state.
THEOREM TypeCorrect == Spec => []TypeOK
  BY InitTypeOK, NextTypeOK, PTL DEF Spec


-------------------------------------------------------------------------------
(* What a request remembers of the row it read: an etag that is not newer  *)
(* than the row's, and, as long as no write has rotated the etag, the      *)
(* state, the digest and the operations the row still has.                 *)

Reviewing == {"review_ops", "review_add", "review_count", "review_approve", "review_reject",
              "review_supersede", "review_reopen"}

Remembers(i) ==
  /\ req[i].etag <= etag
  /\ req[i].step # "idle" => req[i].state \notin Terminal
  /\ req[i].step \in Reviewing => req[i].state = "in_review"
  /\ req[i].step # "idle" /\ req[i].etag = etag => req[i].state = state
  /\ req[i].step = "edit_update" => req[i].ifMatch <= req[i].etag

EtagInv == \A i \in Requests : Remembers(i)

\* A request that comes in remembers the row as it is.
LEMMA ArriveRemembers ==
  ASSUME TypeOK, EtagInv, NEW i \in Requests, NEW r \in Request, state \notin Terminal,
         r.etag = etag, r.state = state, r.ifMatch <= etag,
         r.step \in Reviewing => state = "in_review",
         req' = [req EXCEPT ![i] = r], UNCHANGED <<etag, state>>
  PROVE  EtagInv'
  BY DEF TypeOK, EtagInv, Remembers

\* A request that moves on remembers what it did.
LEMMA GotoRemembers ==
  ASSUME TypeOK, EtagInv, NEW i \in Requests, NEW step \in Steps \ {"edit_update"},
         req[i].step # "idle", step \in Reviewing => req[i].step \in Reviewing,
         Goto(i, step), UNCHANGED <<etag, state>>
  PROVE  EtagInv'
  BY DEF TypeOK, Request, EtagInv, Remembers, Goto

LEMMA ReadOpsRemembers ==
  ASSUME TypeOK, EtagInv, NEW i \in Requests, NEW step \in {"submit_set", "publish_tx"},
         req[i].step # "idle", req' = [req EXCEPT ![i].step = step, ![i].ops = ops],
         UNCHANGED <<etag, state>>
  PROVE  EtagInv'
<1>. DEFINE r == [[req[i] EXCEPT !.step = step] EXCEPT !.ops = ops]
<1>1. /\ r.etag = req[i].etag /\ r.state = req[i].state
      /\ r.step \notin Reviewing \cup {"idle", "edit_update"}
  BY DEF TypeOK, Request, Reviewing
<1>2. req' = [req EXCEPT ![i] = r]
  OBVIOUS
<1>. HIDE DEF r
<1>. QED BY <1>1, <1>2 DEF TypeOK, EtagInv, Remembers

LEMMA ReturnRemembers ==
  ASSUME TypeOK, EtagInv, NEW i \in Requests, Return(i), UNCHANGED <<etag, state>>
  PROVE  EtagInv'
  BY DEF TypeOK, EtagInv, Remembers, Return, Idle, Reviewing

\* A write rotates the etag: what every other request remembers is now older.
LEMMA WriteRemembers ==
  ASSUME TypeOK, EtagInv, NEW i \in Requests, etag' = etag + 1,
         \/ Return(i)
         \/ req[i].step = "edit_update" /\ Goto(i, "edit_supersede")
  PROVE  EtagInv'
<1>1. \A j \in Requests \ {i} : req'[j] = req[j]
  BY DEF TypeOK, Return, Goto
<1>2. \A j \in Requests : req[j].etag \in Nat /\ req[j].ifMatch \in Nat /\ etag \in Nat
  BY RequestType DEF TypeOK
<1>3. \A j \in Requests \ {i} : Remembers(j)'
  BY <1>1, <1>2 DEF EtagInv, Remembers
<1>4. CASE Return(i)
  BY <1>2, <1>3, <1>4 DEF Return, TypeOK, EtagInv, Remembers, Idle, Reviewing
<1>5. CASE req[i].step = "edit_update" /\ Goto(i, "edit_supersede")
  BY <1>2, <1>3, <1>5 DEF Goto, TypeOK, Request, EtagInv, Remembers, Reviewing
<1>. QED BY <1>4, <1>5

LEMMA InitEtagInv == Init => EtagInv
  BY DEF Init, EtagInv, Remembers, Idle, Reviewing

LEMMA NextEtagInv == TypeOK /\ EtagInv /\ [Next]_vars => EtagInv'
<1>. SUFFICES ASSUME TypeOK, EtagInv, [Next]_vars PROVE EtagInv'
  OBVIOUS
<1>. USE DEF rowVars
<1>0. etag \in Nat
  BY DEF TypeOK
<1>1. ASSUME NEW i \in Requests, NEW u \in Users, NEW step \in {"submit_ops", "cancel_set", "publish_ops"},
             state \notin Terminal, Read(i, step, u)
      PROVE EtagInv'
  <2>. DEFINE r == [Idle EXCEPT !.step = step, !.user = u, !.etag = etag, !.state = state,
                                !.digest = digest, !.fast = fast]
  <2>1. r \in Request
    BY ReadRequestType DEF Steps
  <2>2. r.etag = etag /\ r.state = state /\ r.ifMatch <= etag /\ r.step \notin Reviewing
    BY <1>0 DEF Idle, Reviewing
  <2>3. req' = [req EXCEPT ![i] = r] /\ UNCHANGED <<etag, state>>
    BY <1>1 DEF Read
  <2>. HIDE DEF r
  <2>. QED BY <1>0, <1>1, <2>1, <2>2, <2>3, ArriveRemembers
<1>2. ASSUME NEW i \in Requests, NEW u \in Users,
             SubmitRead(i, u) \/ CancelRead(i, u) \/ PublishRead(i, u)
      PROVE EtagInv'
  BY <1>1, <1>2 DEF SubmitRead, CancelRead, PublishRead, Terminal
<1>3. ASSUME NEW i \in Requests, SubmitReadOps(i) \/ PublishReadOps(i) PROVE EtagInv'
  BY <1>3, ReturnRemembers, ReadOpsRemembers DEF SubmitReadOps, PublishReadOps
<1>4. ASSUME NEW i \in Requests,
             \/ SubmitSet(i) \/ ReviewApprove(i) \/ ReviewReject(i) \/ ReviewReopen(i) \/ CancelSet(i)
      PROVE EtagInv'
  BY <1>4, WriteRemembers
  DEF SubmitSet, ReviewApprove, ReviewReject, ReviewReopen, CancelSet, SetState
<1>5. ASSUME NEW i \in Requests, NEW u \in Users, NEW m \in 1..etag, NEW content \in Drafts,
             NEW f \in BOOLEAN, EditRead(i, u, m, content, f)
      PROVE EtagInv'
  <2>. DEFINE r == [Idle EXCEPT !.step = "edit_update", !.user = u, !.etag = etag, !.state = state,
                                !.ifMatch = m, !.ops = content, !.fast = f]
  <2>1. r \in Request
    <3>1. content \in Content /\ m \in Nat
      BY <1>0, PermissionAssumption DEF Content
    <3>. QED BY <3>1, IdleType DEF TypeOK, Request, Steps
  <2>2. r.etag = etag /\ r.state = state /\ r.ifMatch <= etag /\ r.step \notin Reviewing
    BY <1>0 DEF Idle, Reviewing
  <2>3. req' = [req EXCEPT ![i] = r] /\ UNCHANGED <<etag, state>> /\ state \notin Terminal
    BY <1>5 DEF EditRead
  <2>. HIDE DEF r
  <2>. QED BY <2>1, <2>2, <2>3, ArriveRemembers
<1>6. ASSUME NEW i \in Requests, EditUpdate(i) PROVE EtagInv'
  BY <1>6, WriteRemembers, ReturnRemembers DEF EditUpdate
<1>7. ASSUME NEW i \in Requests, EditSupersede(i) \/ Abandon(i) PROVE EtagInv'
  BY <1>7, ReturnRemembers DEF EditSupersede, Abandon
<1>8. ASSUME NEW i \in Requests, NEW u \in Users, NEW d \in Decisions, ReviewRead(i, u, d)
      PROVE EtagInv'
  <2>. DEFINE r == [Idle EXCEPT !.step = "review_ops", !.user = u, !.etag = etag,
                                !.state = state, !.digest = digest, !.decision = d]
  <2>1. r \in Request
    BY IdleType DEF TypeOK, Request, Steps
  <2>2. r.etag = etag /\ r.state = state /\ r.ifMatch <= etag
    BY <1>0 DEF Idle
  <2>3. /\ req' = [req EXCEPT ![i] = r] /\ UNCHANGED <<etag, state>>
        /\ state = "in_review" /\ state \notin Terminal
    BY <1>8 DEF ReviewRead, Terminal
  <2>. HIDE DEF r
  <2>. QED BY <2>1, <2>2, <2>3, ArriveRemembers
<1>9. ASSUME NEW i \in Requests, ReviewReadOps(i) \/ ReviewCount(i) PROVE EtagInv'
  BY <1>9, GotoRemembers, ReturnRemembers DEF ReviewReadOps, ReviewCount, Steps, Reviewing
<1>10. ASSUME NEW i \in Requests, ReviewAdd(i) PROVE EtagInv'
  <2>1. PICK step \in {"review_count", "review_reject", "review_supersede"} : Goto(i, step)
    BY <1>10, RequestType DEF ReviewAdd, Decisions
  <2>. QED BY <1>10, <2>1, GotoRemembers DEF ReviewAdd, Steps, Reviewing
<1>11. ASSUME NEW i \in Requests, ReviewSupersede(i) PROVE EtagInv'
  BY <1>11, GotoRemembers DEF ReviewSupersede, Steps, Reviewing
<1>12. ASSUME NEW i \in Requests, PublishTx(i) PROVE EtagInv'
  BY <1>12, WriteRemembers, ReturnRemembers DEF PublishTx
<1>13. CASE UNCHANGED vars
  BY <1>13 DEF vars, EtagInv, Remembers
<1>. QED
  BY <1>2, <1>3, <1>4, <1>5, <1>6, <1>7, <1>8, <1>9, <1>10, <1>11, <1>12, <1>13 DEF Next

LEMMA EtagCorrect == Spec => []EtagInv
  BY InitTypeOK, NextTypeOK, InitEtagInv, NextEtagInv, PTL DEF Spec

-------------------------------------------------------------------------------
(* Terminal states *)

\* A request that writes the row was let in before the row became terminal, so
\* the row has been written since.
LEMMA StaleWrite ==
  ASSUME TypeOK, EtagInv, NEW i \in Requests, req[i].step # "idle", state \in Terminal
  PROVE  req[i].etag < etag
  BY RequestType DEF TypeOK, EtagInv, Remembers

LEMMA ReturnChanges ==
  ASSUME TypeOK, NEW i \in Requests, req[i].step # "idle", Return(i)
  PROVE  req'[i] # req[i]
  BY DEF TypeOK, Return, Idle

\* What a step does to a terminal row.
SparesTerminal ==
  /\ UNCHANGED <<ops, fast>>
  /\ state' # state => \E i \in Requests : req'[i] # req[i] /\ req[i].etag < etag

LEMMA TerminalStep ==
  ASSUME TypeOK, EtagInv, [Next]_vars, state \in Terminal
  PROVE  SparesTerminal
<1>. USE DEF rowVars
<1>0. ASSUME UNCHANGED <<state, ops, fast>> PROVE SparesTerminal
  BY <1>0 DEF SparesTerminal
<1>1. ASSUME NEW i \in Requests,
             \/ SubmitSet(i) \/ ReviewApprove(i) \/ ReviewReject(i) \/ ReviewReopen(i) \/ CancelSet(i)
      PROVE SparesTerminal
  <2>1. req[i].step # "idle" /\ Return(i) /\ UNCHANGED <<ops, fast>>
    BY <1>1 DEF SubmitSet, ReviewApprove, ReviewReject, ReviewReopen, CancelSet, SetState
  <2>. QED BY <2>1, StaleWrite, ReturnChanges DEF SparesTerminal
<1>2. ASSUME NEW i \in Requests, EditUpdate(i) PROVE SparesTerminal
  <2>1. req[i].ifMatch <= req[i].etag /\ req[i].etag < etag
    BY <1>2, StaleWrite DEF EditUpdate, EtagInv, Remembers
  <2>2. req[i].ifMatch # etag
    BY <2>1, RequestType DEF TypeOK
  <2>. QED BY <1>0, <1>2, <2>2 DEF EditUpdate
<1>3. ASSUME NEW i \in Requests, PublishTx(i) PROVE SparesTerminal
  <2>1. state # "approved"
    BY DEF Terminal
  <2>. QED BY <1>0, <1>3, <2>1 DEF PublishTx
<1>4. ASSUME NEW i \in Requests, NEW u \in Users,
             SubmitRead(i, u) \/ CancelRead(i, u) \/ PublishRead(i, u)
      PROVE SparesTerminal
  BY <1>0, <1>4 DEF SubmitRead, CancelRead, PublishRead, Read
<1>5. ASSUME NEW i \in Requests,
             \/ SubmitReadOps(i) \/ EditSupersede(i) \/ ReviewReadOps(i) \/ ReviewAdd(i)
             \/ ReviewCount(i) \/ ReviewSupersede(i) \/ PublishReadOps(i) \/ Abandon(i)
      PROVE SparesTerminal
  BY <1>0, <1>5 DEF SubmitReadOps, EditSupersede, ReviewReadOps, ReviewAdd, ReviewCount,
              ReviewSupersede, PublishReadOps, Abandon
<1>6. ASSUME NEW i \in Requests, NEW u \in Users, NEW d \in Decisions, ReviewRead(i, u, d) PROVE SparesTerminal
  BY <1>0, <1>6 DEF ReviewRead
<1>7. ASSUME NEW i \in Requests, NEW u \in Users, NEW m \in 1..etag, NEW content \in Drafts,
             NEW f \in BOOLEAN, EditRead(i, u, m, content, f)
      PROVE SparesTerminal
  BY <1>0, <1>7 DEF EditRead
<1>8. CASE UNCHANGED vars
  BY <1>0, <1>8 DEF vars
<1>. QED
  BY <1>1, <1>2, <1>3, <1>4, <1>5, <1>6, <1>7, <1>8 DEF Next

\* A published, rejected or cancelled changeset changes its state only through a
\* request that read the row before it was last written: with the etag compared
\* in SetState, Terminal would mean terminal.
THEOREM ReopenedOnlyByStale == Spec => OnlyStaleRequestsReopen
<1>1. TypeOK /\ EtagInv /\ [Next]_vars =>
        [(state \in Terminal /\ state' # state)
           => (\E i \in Requests : req'[i] # req[i] /\ req[i].etag < etag)]_vars
  BY TerminalStep DEF SparesTerminal
<1>. QED BY <1>1, TypeCorrect, EtagCorrect, PTL DEF Spec, OnlyStaleRequestsReopen

\* No edit reaches a terminal changeset, however long it was on its way.
THEOREM TerminalNotEdited == Spec => TerminalContentFixed
<1>1. TypeOK /\ EtagInv /\ [Next]_vars => [(state \in Terminal) => (UNCHANGED <<ops, fast>>)]_vars
  BY TerminalStep DEF SparesTerminal
<1>. QED BY <1>1, TypeCorrect, EtagCorrect, PTL DEF Spec, TerminalContentFixed

-------------------------------------------------------------------------------
(* One release per approval *)

LEMMA NextOneRelease ==
  TypeOK /\ OneReleasePerApproval /\ [Next]_vars => OneReleasePerApproval'
<1>. SUFFICES ASSUME TypeOK, OneReleasePerApproval, [Next]_vars PROVE OneReleasePerApproval'
  OBVIOUS
<1>. USE DEF rowVars, histVars
<1>0. /\ releases \in Seq(Content) /\ verdicts \in Seq(Verdict)
      /\ Len(releases) \in Nat /\ Len(verdicts) \in Nat
  BY DEF TypeOK
<1>1. ASSUME NEW i \in Requests, SubmitSet(i) \/ ReviewApprove(i) PROVE OneReleasePerApproval'
  <2>1. CASE state' = "approved"
    <3>1. releases' = releases /\ \E v : verdicts' = Append(verdicts, v)
      BY <1>1, <2>1 DEF SubmitSet, ReviewApprove, SetState
    <3>2. Len(verdicts') = Len(verdicts) + 1
      BY <1>0, <3>1
    <3>. QED BY <1>0, <3>1, <3>2 DEF OneReleasePerApproval
  <2>2. CASE state' # "approved"
    <3>1. releases' = releases /\ verdicts' = verdicts
      BY <1>1, <2>2 DEF SubmitSet, ReviewApprove, SetState
    <3>. QED BY <1>0, <2>2, <3>1 DEF OneReleasePerApproval
  <2>. QED BY <2>1, <2>2
<1>2. ASSUME NEW i \in Requests,
             ReviewReject(i) \/ ReviewReopen(i) \/ CancelSet(i) \/ EditUpdate(i)
      PROVE OneReleasePerApproval'
  <2>1. releases' = releases /\ verdicts' = verdicts /\ (state' # "approved" \/ state' = state)
    BY <1>2 DEF ReviewReject, ReviewReopen, CancelSet, SetState, EditUpdate
  <2>. QED BY <1>0, <2>1 DEF OneReleasePerApproval
<1>3. ASSUME NEW i \in Requests, PublishTx(i) PROVE OneReleasePerApproval'
  <2>1. CASE UNCHANGED <<rowVars, histVars>>
    BY <2>1 DEF OneReleasePerApproval
  <2>2. CASE ~UNCHANGED <<rowVars, histVars>>
    <3>1. /\ state = "approved" /\ state' = "published" /\ verdicts' = verdicts
          /\ releases' = Append(releases, req[i].ops)
      BY <1>3, <2>2 DEF PublishTx
    <3>2. Len(releases') = Len(releases) + 1
      BY <1>0, <3>1, RequestType
    <3>. QED BY <1>0, <3>1, <3>2 DEF OneReleasePerApproval
  <2>. QED BY <2>1, <2>2
<1>4. ASSUME UNCHANGED <<state, verdicts, releases>> PROVE OneReleasePerApproval'
  BY <1>4 DEF OneReleasePerApproval
<1>5. ASSUME NEW i \in Requests, NEW u \in Users,
             SubmitRead(i, u) \/ CancelRead(i, u) \/ PublishRead(i, u)
      PROVE OneReleasePerApproval'
  BY <1>4, <1>5 DEF SubmitRead, CancelRead, PublishRead, Read
<1>6. ASSUME NEW i \in Requests,
             \/ SubmitReadOps(i) \/ EditSupersede(i) \/ ReviewReadOps(i) \/ ReviewAdd(i)
             \/ ReviewCount(i) \/ ReviewSupersede(i) \/ PublishReadOps(i) \/ Abandon(i)
      PROVE OneReleasePerApproval'
  BY <1>4, <1>6 DEF SubmitReadOps, EditSupersede, ReviewReadOps, ReviewAdd, ReviewCount,
                    ReviewSupersede, PublishReadOps, Abandon
<1>7. ASSUME NEW i \in Requests, NEW u \in Users, NEW d \in Decisions, ReviewRead(i, u, d)
      PROVE OneReleasePerApproval'
  BY <1>4, <1>7 DEF ReviewRead
<1>8. ASSUME NEW i \in Requests, NEW u \in Users, NEW m \in 1..etag, NEW content \in Drafts,
             NEW f \in BOOLEAN, EditRead(i, u, m, content, f)
      PROVE OneReleasePerApproval'
  BY <1>4, <1>8 DEF EditRead
<1>9. CASE UNCHANGED vars
  BY <1>4, <1>9 DEF vars
<1>. QED
  BY <1>1, <1>2, <1>3, <1>5, <1>6, <1>7, <1>8, <1>9 DEF Next

\* Of requests to publish one approval, at most one makes a release.
THEOREM OneReleaseEach == Spec => []OneReleasePerApproval
<1>1. Init => OneReleasePerApproval
  BY DEF Init, OneReleasePerApproval
<1>. QED BY <1>1, NextOneRelease, TypeCorrect, PTL DEF Spec

-------------------------------------------------------------------------------
(* What fresh writes release *)

\* Some approval was given for this content.
Approved(content) == \E v \in DOMAIN verdicts : verdicts[v].digest = content

\* As long as no stale write has happened: what waits for reviews is the content
\* whose digest was submitted, and what is approved or released was approved.
RowFresh ==
  ~stale => /\ state = "in_review" => digest = ops
            /\ state = "approved" => Approved(ops)
            /\ \A k \in DOMAIN releases : Approved(releases[k])

\* A request whose etag is still the row's has the operations and the digest of the row.
ReadFresh(i) ==
  req[i].etag = etag =>
    /\ req[i].step \in {"submit_set", "publish_tx"} => req[i].ops = ops
    /\ req[i].step \in Reviewing => req[i].digest = digest

FreshInv == RowFresh /\ \A i \in Requests : ReadFresh(i)

\* The requests after a step of one of them that leaves the row alone.
LEMMA MoveReadFresh ==
  ASSUME TypeOK, FreshInv, NEW i \in Requests, NEW r \in Request, req' = [req EXCEPT ![i] = r],
         UNCHANGED <<rowVars, verdicts, releases, stale>>,
         r.step \in {"submit_set", "publish_tx"} => r.ops = ops,
         r.step \in Reviewing => (r.etag = etag => r.digest = digest)
  PROVE  FreshInv'
<1>1. RowFresh'
  BY DEF FreshInv, RowFresh, Approved, rowVars
<1>2. ASSUME NEW j \in Requests PROVE ReadFresh(j)'
  BY DEF FreshInv, ReadFresh, TypeOK, rowVars
<1>. QED BY <1>1, <1>2 DEF FreshInv

LEMMA ReturnReadFresh ==
  ASSUME TypeOK, FreshInv, NEW i \in Requests, Return(i),
         UNCHANGED <<rowVars, verdicts, releases, stale>>
  PROVE  FreshInv'
<1>1. Idle.step = "idle"
  BY DEF Idle
<1>. QED BY <1>1, MoveReadFresh, IdleType DEF Return, Reviewing

LEMMA GotoReadFresh ==
  ASSUME TypeOK, FreshInv, NEW i \in Requests, NEW step \in Steps \ {"submit_set", "publish_tx"},
         step \in Reviewing => req[i].step \in Reviewing, Goto(i, step),
         UNCHANGED <<rowVars, verdicts, releases, stale>>
  PROVE  FreshInv'
<1>. DEFINE r == [req[i] EXCEPT !.step = step]
<1>1. r \in Request /\ r.step = step /\ r.etag = req[i].etag /\ r.digest = req[i].digest
  BY DEF TypeOK, Request
<1>2. req' = [req EXCEPT ![i] = r]
  BY DEF Goto
<1>3. r.step \in Reviewing => (r.etag = etag => r.digest = digest)
  BY <1>1 DEF FreshInv, ReadFresh
<1>. HIDE DEF r
<1>. QED BY <1>1, <1>2, <1>3, MoveReadFresh

LEMMA ReadOpsReadFresh ==
  ASSUME TypeOK, FreshInv, NEW i \in Requests, NEW step \in {"submit_set", "publish_tx"},
         req' = [req EXCEPT ![i].step = step, ![i].ops = ops],
         UNCHANGED <<rowVars, verdicts, releases, stale>>
  PROVE  FreshInv'
<1>. DEFINE r == [[req[i] EXCEPT !.step = step] EXCEPT !.ops = ops]
<1>1. r \in Request /\ r.ops = ops /\ r.step \notin Reviewing
  BY DEF TypeOK, Request, Reviewing, Steps
<1>2. req' = [req EXCEPT ![i] = r]
  OBVIOUS
<1>. HIDE DEF r
<1>. QED BY <1>1, <1>2, MoveReadFresh

\* After a write no other request has the row's etag.
LEMMA WriteReadFresh ==
  ASSUME TypeOK, EtagInv, NEW i \in Requests, etag' = etag + 1,
         Return(i) \/ Goto(i, "edit_supersede")
  PROVE  \A j \in Requests : ReadFresh(j)'
<1>. SUFFICES ASSUME NEW j \in Requests PROVE ReadFresh(j)'
  OBVIOUS
<1>1. req[j].etag \in Nat /\ etag \in Nat /\ req[j].etag <= etag
  BY RequestType DEF TypeOK, EtagInv, Remembers
<1>2. req'[j] = req[j] \/ req'[j] = Idle \/ (j = i /\ req'[j].etag = req[j].etag)
  BY DEF Return, Goto, TypeOK, Request
<1>3. Idle.etag = 0
  BY DEF Idle
<1>4. req'[j].etag # etag'
  BY <1>1, <1>2, <1>3
<1>. QED BY <1>4 DEF ReadFresh

LEMMA AppendKeeps ==
  ASSUME TypeOK, NEW v \in Verdict, verdicts' = Append(verdicts, v)
  PROVE  /\ \A content : Approved(content) => Approved(content)'
         /\ Approved(v.digest)'
<1>1. /\ Len(verdicts') = Len(verdicts) + 1 /\ Len(verdicts) \in Nat
      /\ \A k \in DOMAIN verdicts : k \in DOMAIN verdicts' /\ verdicts'[k] = verdicts[k]
      /\ Len(verdicts') \in DOMAIN verdicts' /\ verdicts'[Len(verdicts')] = v
  BY DEF TypeOK
<1>. QED BY <1>1 DEF Approved

LEMMA NextFreshInv == TypeOK /\ EtagInv /\ FreshInv /\ [Next]_vars => FreshInv'
<1>. SUFFICES ASSUME TypeOK, EtagInv, FreshInv, [Next]_vars PROVE FreshInv'
  OBVIOUS
<1>. USE DEF histVars
<1>1. ASSUME NEW i \in Requests, SubmitSet(i) PROVE FreshInv'
  <2>1. /\ etag' = etag + 1 /\ Return(i) /\ releases' = releases /\ ops' = ops
        /\ stale' = (stale \/ req[i].etag # etag)
        /\ req[i].step = "submit_set"
    BY <1>1 DEF SubmitSet, SetState
  <2>2. RowFresh'
    <3>. SUFFICES ASSUME ~stale' PROVE /\ state' = "in_review" => digest' = ops'
                                       /\ state' = "approved" => Approved(ops)'
                                       /\ \A k \in DOMAIN releases' : Approved(releases[k])'
      BY DEF RowFresh
    <3>1. req[i].etag = etag /\ ~stale /\ req[i].ops = ops /\ ops # NoDigest
      BY <2>1, NoDigestAssumption DEF FreshInv, ReadFresh, TypeOK, Content
    <3>2. digest' = ops
      BY <1>1, <3>1 DEF SubmitSet, SetState, Digest
    <3>3. CASE req[i].fast
      <4>1. verdicts' = Append(verdicts, [fast |-> TRUE, digest |-> ops])
        BY <1>1, <3>1, <3>3 DEF SubmitSet, Digest
      <4>2. [fast |-> TRUE, digest |-> ops] \in Verdict
        BY DEF Verdict, SubmittedDigest, TypeOK
      <4>3. Approved(ops)' /\ \A k \in DOMAIN releases : Approved(releases[k])'
        BY <2>1, <3>1, <4>1, <4>2, AppendKeeps DEF FreshInv, RowFresh, Approved
      <4>. QED BY <2>1, <3>2, <4>3
    <3>4. CASE ~req[i].fast
      <4>1. verdicts' = verdicts /\ state' = "in_review"
        BY <1>1, <3>4 DEF SubmitSet, SetState
      <4>. QED BY <2>1, <3>1, <3>2, <4>1 DEF FreshInv, RowFresh, Approved
    <3>. QED BY <3>3, <3>4
  <2>. QED BY <2>1, <2>2, WriteReadFresh DEF FreshInv
<1>2. ASSUME NEW i \in Requests, ReviewApprove(i) PROVE FreshInv'
  <2>1. /\ etag' = etag + 1 /\ Return(i) /\ releases' = releases /\ ops' = ops
        /\ stale' = (stale \/ req[i].etag # etag) /\ state' = "approved"
        /\ req[i].step = "review_approve"
        /\ verdicts' = Append(verdicts, [fast |-> FALSE, digest |-> req[i].digest])
    BY <1>2 DEF ReviewApprove, SetState
  <2>2. RowFresh'
    <3>. SUFFICES ASSUME ~stale' PROVE /\ Approved(ops)'
                                       /\ \A k \in DOMAIN releases' : Approved(releases[k])'
      BY <2>1 DEF RowFresh
    <3>1. req[i].etag = etag /\ ~stale
      BY <2>1
    <3>2. req[i].digest = digest /\ state = "in_review"
      BY <2>1, <3>1 DEF FreshInv, ReadFresh, Reviewing, EtagInv, Remembers
    <3>3. digest = ops
      BY <3>1, <3>2 DEF FreshInv, RowFresh
    <3>4. [fast |-> FALSE, digest |-> ops] \in Verdict
      BY DEF Verdict, SubmittedDigest, TypeOK
    <3>. QED BY <2>1, <3>1, <3>2, <3>3, <3>4, AppendKeeps DEF FreshInv, RowFresh, Approved
  <2>. QED BY <2>1, <2>2, WriteReadFresh DEF FreshInv
<1>3. ASSUME NEW i \in Requests, ReviewReject(i) \/ ReviewReopen(i) \/ CancelSet(i) PROVE FreshInv'
  <2>1. /\ etag' = etag + 1 /\ Return(i) /\ releases' = releases /\ verdicts' = verdicts
        /\ state' \notin {"in_review", "approved"} /\ (~stale' => ~stale)
    BY <1>3 DEF ReviewReject, ReviewReopen, CancelSet, SetState
  <2>. QED BY <2>1, WriteReadFresh DEF FreshInv, RowFresh, Approved
<1>4. ASSUME NEW i \in Requests, EditUpdate(i) PROVE FreshInv'
  <2>1. CASE req[i].ifMatch = etag
    <3>1. /\ etag' = etag + 1 /\ Goto(i, "edit_supersede") /\ state' = "draft"
          /\ UNCHANGED <<verdicts, releases, stale>>
      BY <1>4, <2>1 DEF EditUpdate
    <3>. QED BY <3>1, WriteReadFresh DEF FreshInv, RowFresh, Approved
  <2>2. CASE req[i].ifMatch # etag
    BY <1>4, <2>2, ReturnReadFresh DEF EditUpdate
  <2>. QED BY <2>1, <2>2
<1>5. ASSUME NEW i \in Requests, PublishTx(i) PROVE FreshInv'
  <2>1. CASE UNCHANGED <<rowVars, histVars>>
    BY <1>5, <2>1, ReturnReadFresh DEF PublishTx
  <2>2. CASE ~UNCHANGED <<rowVars, histVars>>
    <3>1. /\ req[i].step = "publish_tx" /\ state = "approved" /\ state' = "published"
          /\ etag' = etag + 1 /\ Return(i)
          /\ releases' = Append(releases, req[i].ops) /\ verdicts' = verdicts
          /\ stale' = (stale \/ req[i].etag # etag)
      BY <1>5, <2>2 DEF PublishTx
    <3>2. RowFresh'
      <4>. SUFFICES ASSUME ~stale' PROVE \A k \in DOMAIN releases' : Approved(releases'[k])
        BY <3>1 DEF RowFresh, Approved
      <4>1. req[i].etag = etag /\ ~stale /\ req[i].ops = ops
        BY <3>1 DEF FreshInv, ReadFresh
      <4>2. Approved(ops) /\ \A k \in DOMAIN releases : Approved(releases[k])
        BY <3>1, <4>1 DEF FreshInv, RowFresh
      <4>3. \A k \in DOMAIN releases' : releases'[k] = ops \/ (k \in DOMAIN releases /\ releases'[k] = releases[k])
        BY <3>1, <4>1 DEF TypeOK
      <4>. QED BY <4>2, <4>3 DEF Approved
    <3>. QED BY <3>1, <3>2, WriteReadFresh DEF FreshInv
  <2>. QED BY <2>1, <2>2
<1>6. ASSUME NEW i \in Requests, NEW u \in Users,
             SubmitRead(i, u) \/ CancelRead(i, u) \/ PublishRead(i, u)
      PROVE FreshInv'
  <2>1. PICK step \in {"submit_ops", "cancel_set", "publish_ops"} : Read(i, step, u)
    BY <1>6 DEF SubmitRead, CancelRead, PublishRead
  <2>. DEFINE r == [Idle EXCEPT !.step = step, !.user = u, !.etag = etag, !.state = state,
                                !.digest = digest, !.fast = fast]
  <2>2. r \in Request /\ r.step = step
    BY ReadRequestType DEF Steps, Idle
  <2>3. req' = [req EXCEPT ![i] = r] /\ UNCHANGED <<rowVars, verdicts, releases, stale>>
    BY <2>1 DEF Read
  <2>. HIDE DEF r
  <2>. QED BY <2>2, <2>3, MoveReadFresh DEF Reviewing
<1>7. ASSUME NEW i \in Requests, NEW u \in Users, NEW d \in Decisions, ReviewRead(i, u, d)
      PROVE FreshInv'
  <2>. DEFINE r == [Idle EXCEPT !.step = "review_ops", !.user = u, !.etag = etag,
                                !.state = state, !.digest = digest, !.decision = d]
  <2>1. r \in Request /\ r.step = "review_ops" /\ r.digest = digest
    BY IdleType DEF TypeOK, Request, Steps
  <2>2. req' = [req EXCEPT ![i] = r] /\ UNCHANGED <<rowVars, verdicts, releases, stale>>
    BY <1>7 DEF ReviewRead
  <2>. HIDE DEF r
  <2>. QED BY <2>1, <2>2, MoveReadFresh
<1>8. ASSUME NEW i \in Requests, NEW u \in Users, NEW m \in 1..etag, NEW content \in Drafts,
             NEW f \in BOOLEAN, EditRead(i, u, m, content, f)
      PROVE FreshInv'
  <2>. DEFINE r == [Idle EXCEPT !.step = "edit_update", !.user = u, !.etag = etag, !.state = state,
                                !.ifMatch = m, !.ops = content, !.fast = f]
  <2>1. content \in Content /\ m \in Nat
    BY PermissionAssumption DEF Content, TypeOK
  <2>2. r \in Request /\ r.step = "edit_update"
    BY <2>1, IdleType DEF TypeOK, Request, Steps
  <2>3. req' = [req EXCEPT ![i] = r] /\ UNCHANGED <<rowVars, verdicts, releases, stale>>
    BY <1>8 DEF EditRead
  <2>. HIDE DEF r
  <2>. QED BY <2>2, <2>3, MoveReadFresh DEF Reviewing
<1>9. ASSUME NEW i \in Requests, SubmitReadOps(i) \/ PublishReadOps(i) PROVE FreshInv'
  BY <1>9, ReturnReadFresh, ReadOpsReadFresh DEF SubmitReadOps, PublishReadOps
<1>10. ASSUME NEW i \in Requests, EditSupersede(i) \/ Abandon(i) PROVE FreshInv'
  BY <1>10, ReturnReadFresh DEF EditSupersede, Abandon
<1>11. ASSUME NEW i \in Requests, ReviewReadOps(i) \/ ReviewCount(i) \/ ReviewSupersede(i)
       PROVE FreshInv'
  BY <1>11, GotoReadFresh, ReturnReadFresh
  DEF ReviewReadOps, ReviewCount, ReviewSupersede, Steps, Reviewing
<1>12. ASSUME NEW i \in Requests, ReviewAdd(i) PROVE FreshInv'
  <2>1. PICK step \in {"review_count", "review_reject", "review_supersede"} : Goto(i, step)
    BY <1>12, RequestType DEF ReviewAdd, Decisions
  <2>. QED BY <1>12, <2>1, GotoReadFresh DEF ReviewAdd, Steps, Reviewing
<1>13. CASE UNCHANGED vars
  BY <1>13 DEF vars, FreshInv, RowFresh, ReadFresh, Approved, rowVars
<1>. QED
  BY <1>1, <1>2, <1>3, <1>4, <1>5, <1>6, <1>7, <1>8, <1>9, <1>10, <1>11, <1>12, <1>13 DEF Next

\* Only a write over a version it had not read can bring unapproved content into
\* a release: without one, every release is content that was approved.
THEOREM FreshReleases == Spec => []FreshWritesReleaseApprovedContent
<1>1. Init => FreshInv
  BY DEF Init, FreshInv, RowFresh, ReadFresh, Idle, Reviewing
<1>2. FreshInv => FreshWritesReleaseApprovedContent
  BY DEF FreshInv, RowFresh, Approved, FreshWritesReleaseApprovedContent
<1>. QED BY <1>1, <1>2, NextFreshInv, TypeCorrect, EtagCorrect, PTL DEF Spec

-------------------------------------------------------------------------------
(* What approvals rest on *)

\* A review is never the author's, nor is a request on its way to be one; a count
\* that sufficed still does, since reviews are superseded but never forgotten.
ReviewersInv ==
  /\ \A r \in reviews : r.reviewer # Author
  /\ \A i \in Requests :
       /\ req[i].step \in Reviewing => req[i].user # Author
       /\ req[i].step \in {"submit_ops", "submit_set"} => req[i].user = Author
       /\ req[i].step = "review_approve" =>
            Cardinality(EverApproved(req[i].digest)) >= RequiredApprovals
       /\ req[i].step = "submit_set" /\ req[i].fast => CanFastTrack(Author, req[i].ops)

VerdictInv == ReviewersInv /\ VerdictsBacked

LEMMA EverApprovedFinite ==
  ASSUME NEW d
  PROVE  /\ IsFiniteSet(EverApproved(d)) /\ IsFiniteSet(EverApproved(d)')
         /\ Cardinality(EverApproved(d)) \in Nat /\ Cardinality(EverApproved(d)') \in Nat
<1>1. EverApproved(d) \subseteq Users /\ EverApproved(d)' \subseteq Users
  BY DEF EverApproved
<1>. QED BY <1>1, FiniteAssumption, FS_Subset, FS_CardinalityType

\* Reviews that are added or superseded take nothing away from what was approved.
ReviewsKept ==
  \A r \in reviews : \E x \in reviews' :
    x.reviewer = r.reviewer /\ x.decision = r.decision /\ x.digest = r.digest

LEMMA EverApprovedGrows ==
  ASSUME NEW d, ReviewsKept, Cardinality(EverApproved(d)) >= RequiredApprovals
  PROVE  Cardinality(EverApproved(d)') >= RequiredApprovals
<1>1. EverApproved(d) \subseteq EverApproved(d)'
  BY DEF EverApproved, ReviewsKept
<1>2. Cardinality(EverApproved(d)) <= Cardinality(EverApproved(d)')
  BY <1>1, EverApprovedFinite, FS_Subset
<1>. QED BY <1>2, EverApprovedFinite, BoundAssumption

LEMMA BackedKept ==
  ASSUME NEW v, ReviewsKept, Backed(v)
  PROVE  Backed(v)'
<1>. DEFINE d == v.digest
<1>1. CASE v.fast
  BY <1>1 DEF Backed, CanFastTrack
<1>2. CASE ~v.fast
  <2>1. Cardinality(EverApproved(d)) >= RequiredApprovals
    BY <1>2 DEF Backed
  <2>2. Cardinality(EverApproved(d)') >= RequiredApprovals
    BY <2>1, EverApprovedGrows
  <2>. QED BY <1>2, <2>2 DEF Backed, EverApproved
<1>. QED BY <1>1, <1>2

\* The distinct reviewers a count finds have all approved the digest, the author not among them.
LEMMA CountIsBacked ==
  ASSUME TypeOK, ReviewersInv, NEW d, Cardinality(Approvers(d)) >= RequiredApprovals
  PROVE  Cardinality(EverApproved(d)) >= RequiredApprovals
<1>1. Approvers(d) \subseteq EverApproved(d)
  BY DEF Approvers, EverApproved, ReviewersInv, TypeOK, Review
<1>2. Cardinality(Approvers(d)) <= Cardinality(EverApproved(d)) /\ Cardinality(Approvers(d)) \in Nat
  BY <1>1, EverApprovedFinite, FS_Subset, FS_CardinalityType
<1>. QED BY <1>2, EverApprovedFinite, BoundAssumption

\* A step that adds no verdict and leaves every review in place.
LEMMA VerdictsKept ==
  ASSUME TypeOK, VerdictsBacked, ReviewsKept, UNCHANGED verdicts
  PROVE  VerdictsBacked'
BY BackedKept DEF VerdictsBacked

LEMMA VerdictAdded ==
  ASSUME TypeOK, VerdictsBacked, UNCHANGED reviews, NEW v \in Verdict, Backed(v),
         verdicts' = Append(verdicts, v)
  PROVE  VerdictsBacked'
<1>1. \A k \in DOMAIN verdicts' : verdicts'[k] = v \/ (k \in DOMAIN verdicts /\ verdicts'[k] = verdicts[k])
  BY DEF TypeOK
<1>2. \A w : Backed(w) => Backed(w)'
  BY BackedKept DEF ReviewsKept
<1>. QED BY <1>1, <1>2 DEF VerdictsBacked

\* A request that takes up r, while reviews may be added or superseded.
LEMMA MoveReviewers ==
  ASSUME TypeOK, ReviewersInv, NEW i \in Requests, NEW r \in Request, req' = [req EXCEPT ![i] = r],
         ReviewsKept, \A x \in reviews' : x.reviewer # Author,
         r.step \in Reviewing => r.user # Author,
         r.step \in {"submit_ops", "submit_set"} => r.user = Author,
         r.step = "review_approve" => Cardinality(EverApproved(r.digest)) >= RequiredApprovals,
         r.step = "submit_set" /\ r.fast => CanFastTrack(Author, r.ops)
  PROVE  ReviewersInv'
<1>. SUFFICES ASSUME NEW j \in Requests
     PROVE  /\ req'[j].step \in Reviewing => req'[j].user # Author
            /\ req'[j].step \in {"submit_ops", "submit_set"} => req'[j].user = Author
            /\ req'[j].step = "review_approve" =>
                 Cardinality(EverApproved(req[j].digest)') >= RequiredApprovals
            /\ req'[j].step = "submit_set" /\ req'[j].fast => CanFastTrack(Author, req'[j].ops)
  BY DEF ReviewersInv, CanFastTrack
<1>1. PICK q : /\ q = req'[j]
               /\ q.step \in Reviewing => q.user # Author
               /\ q.step \in {"submit_ops", "submit_set"} => q.user = Author
               /\ q.step = "review_approve" => Cardinality(EverApproved(q.digest)) >= RequiredApprovals
               /\ q.step = "submit_set" /\ q.fast => CanFastTrack(Author, q.ops)
  BY DEF ReviewersInv, TypeOK
<1>2. q.step = "review_approve" => Cardinality(EverApproved(q.digest)') >= RequiredApprovals
  BY <1>1, EverApprovedGrows
<1>3. EverApproved(q.digest)' = EverApproved(req[j].digest)'
  BY <1>1 DEF EverApproved
<1>. QED BY <1>1, <1>2, <1>3

LEMMA ReturnReviewers ==
  ASSUME TypeOK, ReviewersInv, NEW i \in Requests, Return(i), ReviewsKept,
         \A x \in reviews' : x.reviewer # Author
  PROVE  ReviewersInv'
<1>1. Idle.step = "idle"
  BY DEF Idle
<1>. QED BY <1>1, IdleType, MoveReviewers DEF Return, Reviewing

LEMMA GotoReviewers ==
  ASSUME TypeOK, ReviewersInv, NEW i \in Requests, NEW step \in Steps \ {"submit_ops", "submit_set"},
         step \in Reviewing => req[i].step \in Reviewing,
         step = "review_approve" => Cardinality(EverApproved(req[i].digest)) >= RequiredApprovals,
         Goto(i, step), ReviewsKept, \A x \in reviews' : x.reviewer # Author
  PROVE  ReviewersInv'
<1>. DEFINE r == [req[i] EXCEPT !.step = step]
<1>1. r \in Request /\ r.step = step /\ r.user = req[i].user /\ r.digest = req[i].digest
  BY DEF TypeOK, Request
<1>2. req' = [req EXCEPT ![i] = r]
  BY DEF Goto
<1>3. r.step \in Reviewing => r.user # Author
  BY <1>1 DEF ReviewersInv
<1>. HIDE DEF r
<1>. QED BY <1>1, <1>2, <1>3, MoveReviewers

LEMMA ReadOpsReviewers ==
  ASSUME TypeOK, ReviewersInv, NEW i \in Requests, NEW step \in {"submit_set", "publish_tx"},
         step = "submit_set" => /\ req[i].step = "submit_ops"
                                /\ req[i].fast => CanFastTrack(req[i].user, ops),
         req' = [req EXCEPT ![i].step = step, ![i].ops = ops], UNCHANGED reviews
  PROVE  ReviewersInv'
<1>. DEFINE r == [[req[i] EXCEPT !.step = step] EXCEPT !.ops = ops]
<1>1. /\ r \in Request /\ r.step = step /\ r.ops = ops /\ r.user = req[i].user
      /\ r.fast = req[i].fast /\ r.step \notin Reviewing
  BY DEF TypeOK, Request, Reviewing, Steps
<1>2. req' = [req EXCEPT ![i] = r]
  OBVIOUS
<1>3. step = "submit_set" => req[i].user = Author
  BY DEF ReviewersInv
<1>4. ReviewsKept /\ \A x \in reviews' : x.reviewer # Author
  BY DEF ReviewsKept, ReviewersInv
<1>. HIDE DEF r
<1>. QED BY <1>1, <1>2, <1>3, <1>4, MoveReviewers

LEMMA SupersedeKeeps ==
  ASSUME TypeOK, ReviewersInv, SupersedeReviews
  PROVE  ReviewsKept /\ \A x \in reviews' : x.reviewer # Author
<1>. DEFINE old(r) == [r EXCEPT !.superseded = TRUE]
<1>1. ASSUME NEW r \in Review
      PROVE old(r).reviewer = r.reviewer /\ old(r).decision = r.decision /\ old(r).digest = r.digest
  BY DEF Review
<1>2. reviews' = {old(r) : r \in reviews} /\ reviews \subseteq Review
  BY DEF SupersedeReviews, TypeOK
<1>. HIDE DEF old
<1>. QED BY <1>1, <1>2 DEF ReviewersInv, ReviewsKept

LEMMA NextVerdictInv == TypeOK /\ VerdictInv /\ [Next]_vars => VerdictInv'
<1>. SUFFICES ASSUME TypeOK, VerdictInv, [Next]_vars PROVE VerdictInv'
  OBVIOUS
<1>. USE DEF histVars
<1>0. /\ ReviewersInv /\ VerdictsBacked
      /\ UNCHANGED reviews => ReviewsKept /\ \A x \in reviews' : x.reviewer # Author
  BY DEF VerdictInv, ReviewersInv, ReviewsKept
<1>1. ASSUME NEW i \in Requests, SubmitSet(i) PROVE VerdictInv'
  <2>1. UNCHANGED reviews /\ Return(i) /\ req[i].step = "submit_set"
    BY <1>1 DEF SubmitSet
  <2>2. VerdictsBacked'
    <3>1. CASE req[i].fast
      <4>. DEFINE v == [fast |-> TRUE, digest |-> req[i].ops]
      <4>1. v \in Verdict /\ verdicts' = Append(verdicts, v)
        BY <1>1, <3>1, RequestType DEF SubmitSet, Digest, Verdict, SubmittedDigest
      <4>2. Backed(v)
        BY <1>0, <2>1, <3>1 DEF Backed, ReviewersInv
      <4>. HIDE DEF v
      <4>. QED BY <1>0, <2>1, <4>1, <4>2, VerdictAdded
    <3>2. CASE ~req[i].fast
      BY <1>0, <1>1, <2>1, <3>2, VerdictsKept DEF SubmitSet
    <3>. QED BY <3>1, <3>2
  <2>. QED BY <1>0, <2>1, <2>2, ReturnReviewers DEF VerdictInv
<1>2. ASSUME NEW i \in Requests, ReviewApprove(i) PROVE VerdictInv'
  <2>. DEFINE v == [fast |-> FALSE, digest |-> req[i].digest]
  <2>1. /\ UNCHANGED reviews /\ Return(i) /\ req[i].step = "review_approve"
        /\ v \in Verdict /\ verdicts' = Append(verdicts, v)
    BY <1>2, RequestType DEF ReviewApprove, Verdict
  <2>2. Backed(v)
    BY <1>0, <2>1 DEF Backed, ReviewersInv
  <2>. HIDE DEF v
  <2>3. VerdictsBacked'
    BY <1>0, <2>1, <2>2, VerdictAdded
  <2>. QED BY <1>0, <2>1, <2>3, ReturnReviewers DEF VerdictInv
<1>3. ASSUME NEW i \in Requests, Return(i), UNCHANGED <<reviews, verdicts>> PROVE VerdictInv'
  BY <1>0, <1>3, ReturnReviewers, VerdictsKept DEF VerdictInv
<1>4. ASSUME NEW i \in Requests,
             ReviewReject(i) \/ ReviewReopen(i) \/ CancelSet(i) \/ Abandon(i) \/ PublishTx(i)
      PROVE VerdictInv'
  BY <1>3, <1>4 DEF ReviewReject, ReviewReopen, CancelSet, Abandon, PublishTx
<1>5. ASSUME NEW i \in Requests, NEW step \in Steps \ {"submit_ops", "submit_set", "review_approve"},
             step \in Reviewing => req[i].step \in Reviewing, Goto(i, step),
             ReviewsKept, \A x \in reviews' : x.reviewer # Author, UNCHANGED verdicts
      PROVE VerdictInv'
  BY <1>0, <1>5, GotoReviewers, VerdictsKept DEF VerdictInv
<1>6. ASSUME NEW i \in Requests, EditUpdate(i) PROVE VerdictInv'
  <2>1. UNCHANGED <<reviews, verdicts>> /\ (Goto(i, "edit_supersede") \/ Return(i))
    BY <1>6 DEF EditUpdate
  <2>2. "edit_supersede" \in Steps \ {"submit_ops", "submit_set", "review_approve"}
        /\ "edit_supersede" \notin Reviewing
    BY DEF Steps, Reviewing
  <2>. QED BY <1>0, <1>3, <1>5, <2>1, <2>2
<1>7. ASSUME NEW i \in Requests, EditSupersede(i) PROVE VerdictInv'
  <2>1. Return(i) /\ UNCHANGED verdicts /\ ReviewsKept /\ \A x \in reviews' : x.reviewer # Author
    BY <1>0, <1>7, SupersedeKeeps DEF EditSupersede
  <2>. QED BY <1>0, <2>1, ReturnReviewers, VerdictsKept DEF VerdictInv
<1>8. ASSUME NEW i \in Requests, ReviewSupersede(i) PROVE VerdictInv'
  <2>1. /\ Goto(i, "review_reopen") /\ req[i].step \in Reviewing /\ UNCHANGED verdicts
        /\ ReviewsKept /\ \A x \in reviews' : x.reviewer # Author
    BY <1>0, <1>8, SupersedeKeeps DEF ReviewSupersede, Reviewing
  <2>. QED BY <1>5, <2>1 DEF Steps
<1>9. ASSUME NEW i \in Requests, ReviewReadOps(i) PROVE VerdictInv'
  <2>1. /\ Goto(i, "review_add") \/ Return(i)
        /\ req[i].step \in Reviewing /\ UNCHANGED <<reviews, verdicts>>
    BY <1>9 DEF ReviewReadOps, Reviewing
  <2>. QED BY <1>0, <1>3, <1>5, <2>1 DEF Steps
<1>10. ASSUME NEW i \in Requests, ReviewAdd(i) PROVE VerdictInv'
  <2>1. PICK step \in {"review_count", "review_reject", "review_supersede"} : Goto(i, step)
    BY <1>10, RequestType DEF ReviewAdd, Decisions
  <2>2. req[i].step \in Reviewing /\ UNCHANGED verdicts
    BY <1>10 DEF ReviewAdd, Reviewing
  <2>3. req[i].user # Author
    BY <1>0, <2>2 DEF ReviewersInv
  <2>4. ReviewsKept /\ \A x \in reviews' : x.reviewer # Author
    BY <1>0, <1>10, <2>3 DEF ReviewAdd, ReviewersInv, ReviewsKept
  <2>. QED BY <1>5, <2>1, <2>2, <2>4 DEF Steps
<1>11. ASSUME NEW i \in Requests, ReviewCount(i) PROVE VerdictInv'
  <2>1. /\ req[i].step \in Reviewing /\ UNCHANGED <<reviews, verdicts>>
        /\ Return(i) \/ ( /\ Goto(i, "review_approve")
                         /\ ~(Cardinality(Approvers(req[i].digest)) < RequiredApprovals))
    BY <1>11 DEF ReviewCount, Reviewing
  <2>2. Cardinality(Approvers(req[i].digest)) \in Nat
    <3>1. Approvers(req[i].digest) \subseteq Users
      BY DEF Approvers, TypeOK, Review
    <3>. QED BY <3>1, FiniteAssumption, FS_Subset, FS_CardinalityType
  <2>3. CASE Goto(i, "review_approve")
             /\ Cardinality(Approvers(req[i].digest)) >= RequiredApprovals
    <3>1. Cardinality(EverApproved(req[i].digest)) >= RequiredApprovals
      BY <1>0, <2>3, CountIsBacked
    <3>. QED BY <1>0, <2>1, <2>3, <3>1, GotoReviewers, VerdictsKept DEF VerdictInv, Steps
  <2>. QED BY <1>3, <2>1, <2>2, <2>3, BoundAssumption
<1>12. ASSUME NEW i \in Requests, SubmitReadOps(i) \/ PublishReadOps(i) PROVE VerdictInv'
  <2>1. CASE Return(i)
    BY <1>3, <1>12, <2>1 DEF SubmitReadOps, PublishReadOps
  <2>2. CASE ~Return(i)
    <3>1. UNCHANGED <<reviews, verdicts>>
      BY <1>12 DEF SubmitReadOps, PublishReadOps
    <3>2. PICK step \in {"submit_set", "publish_tx"} :
            /\ req' = [req EXCEPT ![i].step = step, ![i].ops = ops]
            /\ step = "submit_set" => /\ req[i].step = "submit_ops"
                                      /\ req[i].fast => CanFastTrack(req[i].user, ops)
      BY <1>12, <2>2 DEF SubmitReadOps, PublishReadOps
    <3>3. ReviewersInv'
      BY <1>0, <3>1, <3>2, ReadOpsReviewers
    <3>. QED BY <1>0, <3>1, <3>3, VerdictsKept DEF VerdictInv
  <2>. QED BY <2>1, <2>2
<1>13. ASSUME NEW i \in Requests, NEW r \in Request, req' = [req EXCEPT ![i] = r],
              UNCHANGED <<reviews, verdicts>>, r.step \notin {"submit_set", "review_approve"},
              r.step \in Reviewing => r.user # Author, r.step = "submit_ops" => r.user = Author
       PROVE VerdictInv'
  <2>1. ReviewersInv'
    BY <1>0, <1>13, MoveReviewers
  <2>. QED BY <1>0, <1>13, <2>1, VerdictsKept DEF VerdictInv
<1>14. ASSUME NEW i \in Requests, NEW u \in Users,
              SubmitRead(i, u) \/ CancelRead(i, u) \/ PublishRead(i, u)
       PROVE VerdictInv'
  <2>1. PICK step \in {"submit_ops", "cancel_set", "publish_ops"} :
          Read(i, step, u) /\ (step = "submit_ops" => u = Author)
    BY <1>14 DEF SubmitRead, CancelRead, PublishRead
  <2>. DEFINE r == [Idle EXCEPT !.step = step, !.user = u, !.etag = etag, !.state = state,
                                !.digest = digest, !.fast = fast]
  <2>2. r \in Request /\ r.step = step /\ r.user = u
    BY ReadRequestType DEF Steps, Idle
  <2>3. req' = [req EXCEPT ![i] = r] /\ UNCHANGED <<reviews, verdicts>>
    BY <2>1 DEF Read
  <2>. HIDE DEF r
  <2>. QED BY <1>13, <2>1, <2>2, <2>3 DEF Reviewing
<1>15. ASSUME NEW i \in Requests, NEW u \in Users, NEW d \in Decisions, ReviewRead(i, u, d)
       PROVE VerdictInv'
  <2>. DEFINE r == [Idle EXCEPT !.step = "review_ops", !.user = u, !.etag = etag,
                                !.state = state, !.digest = digest, !.decision = d]
  <2>1. r \in Request /\ r.step = "review_ops" /\ r.user = u
    BY IdleType DEF TypeOK, Request, Steps
  <2>2. req' = [req EXCEPT ![i] = r] /\ UNCHANGED <<reviews, verdicts>> /\ u # Author
    BY <1>15 DEF ReviewRead
  <2>. HIDE DEF r
  <2>. QED BY <1>13, <2>1, <2>2
<1>16. ASSUME NEW i \in Requests, NEW u \in Users, NEW m \in 1..etag, NEW content \in Drafts,
              NEW f \in BOOLEAN, EditRead(i, u, m, content, f)
       PROVE VerdictInv'
  <2>. DEFINE r == [Idle EXCEPT !.step = "edit_update", !.user = u, !.etag = etag, !.state = state,
                                !.ifMatch = m, !.ops = content, !.fast = f]
  <2>1. content \in Content /\ m \in Nat
    BY PermissionAssumption DEF Content, TypeOK
  <2>2. r \in Request /\ r.step = "edit_update"
    BY <2>1, IdleType DEF TypeOK, Request, Steps
  <2>3. req' = [req EXCEPT ![i] = r] /\ UNCHANGED <<reviews, verdicts>>
    BY <1>16 DEF EditRead
  <2>. HIDE DEF r
  <2>. QED BY <1>13, <2>2, <2>3 DEF Reviewing
<1>17. CASE UNCHANGED vars
  BY <1>17 DEF vars, VerdictInv, ReviewersInv, VerdictsBacked, Backed, EverApproved, CanFastTrack
<1>. QED
  BY <1>1, <1>2, <1>4, <1>6, <1>7, <1>8, <1>9, <1>10, <1>11, <1>12, <1>14, <1>15, <1>16, <1>17
  DEF Next

\* Every approval is a fast track its author was entitled to, or rests on enough
\* different reviewers, none the author, who approved one and the same digest.
THEOREM ApprovalsBacked == Spec => []VerdictsBacked
<1>1. Init => VerdictInv
  BY DEF Init, VerdictInv, ReviewersInv, VerdictsBacked, Idle, Reviewing
<1>2. VerdictInv => VerdictsBacked
  BY DEF VerdictInv
<1>. QED BY <1>1, <1>2, NextVerdictInv, TypeCorrect, PTL DEF Spec

===============================================================================
