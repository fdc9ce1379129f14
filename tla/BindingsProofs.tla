---------------------------- MODULE BindingsProofs ----------------------------
(***************************************************************************)
(* Proofs about Bindings, for any users, projects, workspaces and number   *)
(* of requests in flight. What a request has checked is stale when it      *)
(* writes: ReqsInv says what of it is still true then, LateInv and SeenInv *)
(* what the suspensions and the tags that came in between have left.       *)
(***************************************************************************)
EXTENDS Bindings, TLAPS

-------------------------------------------------------------------------------
(* The inductive invariants *)

BindingOps == {"bind", "rebind", "unbind"}
EditOps == {"bind", "rebind"}

\* What holds of a request, whatever happened since it was read and checked, given the
\* bindings and the projects there are: neither are ever deleted.
ReqInv(q, rows, there) ==
  /\ q.op \in BindingOps => q.on \in Places
  /\ q.op \in {"rebind", "unbind"} => rows[q.on] # None
  /\ q.op = "bind" => q.on[1] = q.user
  /\ q.op \in EditOps => q.put \in (SUBSET Projects) \ {{}}
  /\ q.op \in EditOps /\ q.step = "write" => q.put \subseteq there
  /\ q.op \notin BindingOps => q.on \in Projects
  /\ q.op \in {"archive", "restore", "put", "remove"} \/ q.step = "join" => q.on \in there
  /\ q.op \in {"put", "remove"} => q.put \subseteq Users
  /\ q.step = "join" => q.op = "create"

ReqsInv == \A r \in Requests : req[r] # None => ReqInv(req[r], bindings, Existing)

Base == TypeOK /\ ReqsInv

\* A request whose user was suspended since it was authenticated is late.
LateInv == \A r \in Requests : req[r] # None /\ req[r].user \in out => req[r].late

\* The tag a user has seen stands for one row: while the binding has it, the row is as
\* it was seen, and active if the service has checked it.
SeenInv ==
  \A r \in Requests :
    LET q == req[r]
    IN q # None /\ q.op = "rebind" =>
         /\ q.seen \in Binding
         /\ q.seen.tag <= bindings[q.on].tag
         /\ q.seen.tag = bindings[q.on].tag => bindings[q.on] = q.seen
         /\ q.seen.tag = bindings[q.on].tag /\ q.step = "write" => q.seen.active

-------------------------------------------------------------------------------
(* Lemmas *)

\* Projects are never deleted.
LEMMA ExistingGrows ==
  ASSUME TypeOK, TypeOK', \A p \in Projects : readers[p] # None => readers'[p] # None
  PROVE  Existing \subseteq Existing'
  BY DEF Existing

\* A step that sends a request and changes nothing else.
LEMMA SendKeeps ==
  ASSUME Base, NEW r \in Requests, NEW op \in Ops, NEW u \in Users, NEW on \in Places \cup Projects,
         NEW put \in (SUBSET Projects) \cup (SUBSET Users), NEW seen \in Binding \cup {None},
         Authenticated(r, op, u, on, put, seen),
         op \in BindingOps => on \in Places,
         op \in {"rebind", "unbind"} => bindings[on] # None,
         op = "bind" => on[1] = u,
         op \in EditOps => put \in (SUBSET Projects) \ {{}},
         op \notin BindingOps => on \in Projects,
         op \in {"archive", "restore", "put", "remove"} => on \in Existing,
         op \in {"put", "remove"} => put \subseteq Users
  PROVE  Base'
<1>. DEFINE q == [op |-> op, user |-> u, on |-> on, put |-> put, may |-> Readable(u),
                  seen |-> seen, step |-> "check", late |-> FALSE]
<1>1. Readable(u) \in SUBSET Projects
  BY DEF Readable, Existing
<1>2. q \in Request
  BY <1>1 DEF Request
<1>3. req' = [req EXCEPT ![r] = q]
  BY DEF Authenticated
<1>4. UNCHANGED <<out, readers, archived, bindings, changes, Existing>>
  BY DEF Authenticated, projects, Existing
<1>5. sent' \in 0..MaxRequests
  BY BoundsAssumption DEF Authenticated, Base, TypeOK
<1>6. TypeOK'
  BY <1>2, <1>3, <1>4, <1>5 DEF Base, TypeOK
<1>7. ReqsInv'
  BY <1>3, <1>4 DEF Base, TypeOK, ReqsInv, ReqInv
<1>. QED BY <1>6, <1>7 DEF Base

\* What a step may leave of the bindings and of the projects.
RowsOk ==
  /\ bindings' \in [Places -> Binding \cup {None}]
  /\ \A b \in Places : /\ bindings[b] # None => bindings'[b] # None
                       /\ bindings'[b] # None => bindings'[b].projects \in (SUBSET Existing') \ {{}}
  /\ readers' \in [Projects -> {None} \cup SUBSET Users]
  /\ archived' \subseteq Existing'
  /\ Existing \subseteq Existing'

\* What is true of a request stays true.
LEMMA ReqInvKept ==
  ASSUME Base, RowsOk, NEW q \in Request, ReqInv(q, bindings, Existing)
  PROVE  ReqInv(q, bindings', Existing')
<1>1. q.op \in {"rebind", "unbind"} => bindings'[q.on] # None
  BY DEF ReqInv, RowsOk, BindingOps
<1>. QED BY <1>1 DEF ReqInv, RowsOk

\* A step of one request, which goes on as q or is over.
LEMMA StepKeeps ==
  ASSUME Base, NEW r \in Requests, NEW q \in Request \cup {None}, req' = [req EXCEPT ![r] = q],
         q # None => ReqInv(q, bindings', Existing'),
         UNCHANGED <<out, sent, changes>>, RowsOk
  PROVE  Base'
<1>1. TypeOK'
  BY DEF Base, TypeOK, RowsOk
<1>2. ASSUME NEW s \in Requests, req'[s] # None
      PROVE  ReqInv(req'[s], bindings', Existing')
  <2>1. CASE s = r
    BY <1>2, <2>1 DEF Base, TypeOK
  <2>2. CASE s # r
    <3>1. req'[s] = req[s] /\ req[s] \in Request /\ ReqInv(req[s], bindings, Existing)
      BY <1>2, <2>2 DEF Base, TypeOK, ReqsInv
    <3>. QED BY <3>1, ReqInvKept
  <2>. QED BY <2>1, <2>2
<1>. QED BY <1>1, <1>2 DEF Base, ReqsInv

\* A step that leaves bindings and projects alone, or writes one binding.
LEMMA RowsSame ==
  ASSUME Base, UNCHANGED <<projects, bindings>>
  PROVE  RowsOk
  BY DEF Base, TypeOK, RowsOk, projects, Existing

LEMMA RowWritten ==
  ASSUME Base, UNCHANGED projects, NEW b \in Places, NEW x \in Binding,
         x.projects \in (SUBSET Existing) \ {{}}, bindings' = [bindings EXCEPT ![b] = x]
  PROVE  RowsOk
<1>1. UNCHANGED Existing
  BY DEF projects, Existing
<1>2. x # None
  BY NoneAssumption
<1>. QED BY <1>1, <1>2 DEF Base, TypeOK, RowsOk, projects

\* A row that is there.
LEMMA RowType ==
  ASSUME Base, NEW b \in Places, bindings[b] # None
  PROVE  /\ bindings[b] \in Binding
         /\ bindings[b].projects \in (SUBSET Existing) \ {{}}
         /\ bindings[b].active \in BOOLEAN /\ bindings[b].tag \in Nat /\ bindings[b].stray \in BOOLEAN
  BY DEF Base, TypeOK, Binding

\* What the statements make of a row.
Edited(row, ps) == [row EXCEPT !.projects = ps, !.tag = @ + 1]
Revoked(row) == [row EXCEPT !.active = FALSE, !.tag = @ + 1]
Reported(row) == [row EXCEPT !.tag = @ + 1]

LEMMA RowChanges ==
  ASSUME NEW row \in Binding
  PROVE  /\ \A ps \in SUBSET Projects :
              /\ Edited(row, ps) \in Binding /\ Edited(row, ps).projects = ps
              /\ Edited(row, ps).tag = row.tag + 1
              /\ Edited(row, ps).active = row.active /\ Edited(row, ps).stray = row.stray
         /\ Revoked(row) \in Binding /\ Revoked(row).projects = row.projects
         /\ Revoked(row).tag = row.tag + 1 /\ ~Revoked(row).active
         /\ Reported(row) \in Binding /\ Reported(row).projects = row.projects
         /\ Reported(row).tag = row.tag + 1
         /\ Reported(row).active = row.active /\ Reported(row).stray = row.stray
<1>1. ASSUME NEW ps \in SUBSET Projects
      PROVE  /\ Edited(row, ps) \in Binding /\ Edited(row, ps).projects = ps
             /\ Edited(row, ps).tag = row.tag + 1
             /\ Edited(row, ps).active = row.active /\ Edited(row, ps).stray = row.stray
  <2>. DEFINE x == [row EXCEPT !.projects = ps]
  <2>1. /\ x \in Binding /\ x.projects = ps /\ x.active = row.active
        /\ x.tag = row.tag /\ x.stray = row.stray
    BY DEF Binding
  <2>2. Edited(row, ps) = [x EXCEPT !.tag = @ + 1]
    BY DEF Edited, Binding
  <2>. HIDE DEF x
  <2>. QED BY <2>1, <2>2 DEF Binding
<1>2. /\ Revoked(row) \in Binding /\ Revoked(row).projects = row.projects
      /\ Revoked(row).tag = row.tag + 1 /\ ~Revoked(row).active
  <2>. DEFINE x == [row EXCEPT !.active = FALSE]
  <2>1. x \in Binding /\ x.projects = row.projects /\ ~x.active /\ x.tag = row.tag
    BY DEF Binding
  <2>2. Revoked(row) = [x EXCEPT !.tag = @ + 1]
    BY DEF Revoked, Binding
  <2>. HIDE DEF x
  <2>. QED BY <2>1, <2>2 DEF Binding
<1>3. /\ Reported(row) \in Binding /\ Reported(row).projects = row.projects
      /\ Reported(row).tag = row.tag + 1
      /\ Reported(row).active = row.active /\ Reported(row).stray = row.stray
  BY DEF Reported, Binding
<1>. QED BY <1>1, <1>2, <1>3

LEMMA NextTagType ==
  ASSUME Base, NEW b \in Places
  PROVE  NextTag(b) \in Nat
  BY RowType DEF NextTag

LEMMA RequestType ==
  ASSUME Base, NEW r \in Requests, req[r] # None
  PROVE  /\ req[r] \in Request /\ ReqInv(req[r], bindings, Existing)
         /\ req[r].op \in Ops /\ req[r].user \in Users /\ req[r].on \in Places \cup Projects
         /\ req[r].put \in (SUBSET Projects) \cup (SUBSET Users)
         /\ req[r].may \in SUBSET Projects /\ req[r].seen \in Binding \cup {None}
         /\ req[r].step \in {"check", "write", "join"} /\ req[r].late \in BOOLEAN
  BY DEF Base, TypeOK, ReqsInv, Request

\* A request that is over.
LEMMA DoneKeeps ==
  ASSUME Base, NEW r \in Requests, Done(r), UNCHANGED <<out, sent, changes>>, RowsOk
  PROVE  Base'
<1>1. req' = [req EXCEPT ![r] = None]
  BY DEF Done
<1>. QED BY <1>1, StepKeeps

-------------------------------------------------------------------------------
(* Types, and what requests rest on *)

LEMMA InitBase == Init => Base
<1>. SUFFICES ASSUME Init PROVE Base
  OBVIOUS
<1>1. TypeOK
  BY BoundsAssumption DEF Init, TypeOK, Existing
<1>2. ReqsInv
  BY DEF Init, ReqsInv
<1>. QED BY <1>1, <1>2 DEF Base

LEMMA BeginBase ==
  ASSUME Base, NEW r \in Requests, NEW u \in Users, Begin(r, u)
  PROVE  Base'
<1>1. ASSUME NEW w \in Workspaces, NEW ps \in SUBSET Projects, BeginBind(r, u, w, ps)
      PROVE  Base'
  <2>1. <<u, w>> \in Places /\ <<u, w>>[1] = u
    BY DEF Places
  <2>2. ps # {} /\ Authenticated(r, "bind", u, <<u, w>>, ps, None)
    BY <1>1 DEF BeginBind
  <2>. QED BY <2>1, <2>2, SendKeeps DEF Ops, BindingOps, EditOps
<1>2. ASSUME NEW b \in Places, BeginUnbind(r, u, b)
      PROVE  Base'
  <2>1. bindings[b] # None /\ Authenticated(r, "unbind", u, b, {}, None)
    BY <1>2 DEF BeginUnbind
  <2>. QED BY <2>1, SendKeeps DEF Ops, BindingOps, EditOps
<1>3. ASSUME NEW b \in Places, NEW ps \in SUBSET Projects, BeginRebind(r, u, b, ps)
      PROVE  Base'
  <2>1. bindings[b] \in Binding /\ bindings[b] # None /\ ps # {}
        /\ Authenticated(r, "rebind", u, b, ps, bindings[b])
    BY <1>3, RowType DEF BeginRebind
  <2>. QED BY <2>1, SendKeeps DEF Ops, BindingOps, EditOps
<1>4. ASSUME NEW p \in Projects, BeginCreate(r, u, p)
      PROVE  Base'
  <2>1. Authenticated(r, "create", u, p, {}, None)
    BY <1>4 DEF BeginCreate
  <2>. QED BY <2>1, SendKeeps DEF Ops, BindingOps, EditOps
<1>5. ASSUME NEW p \in Projects, NEW op \in Ops, BeginUpdate(r, u, p, op)
      PROVE  Base'
  <2>1. p \in Existing /\ op \in {"archive", "restore"} /\ Authenticated(r, op, u, p, {}, None)
    BY <1>5 DEF BeginUpdate
  <2>. QED BY <2>1, SendKeeps DEF Ops, BindingOps, EditOps
<1>6. ASSUME NEW p \in Projects, NEW op \in Ops, NEW v \in Users, BeginMember(r, u, p, v, op)
      PROVE  Base'
  <2>1. p \in Existing /\ op \in {"put", "remove"} /\ Authenticated(r, op, u, p, {v}, None)
    BY <1>6 DEF BeginMember
  <2>. QED BY <2>1, SendKeeps DEF Ops, BindingOps, EditOps
<1>. QED BY <1>1, <1>2, <1>3, <1>4, <1>5, <1>6 DEF Begin

LEMMA CheckBase ==
  ASSUME Base, NEW r \in Requests, Check(r)
  PROVE  Base'
<1>. DEFINE q == [req[r] EXCEPT !.step = "write"]
<1>1. req[r] # None /\ req[r].step = "check" /\ req' = [req EXCEPT ![r] = q]
  BY DEF Check, At, GoTo, Base, TypeOK
<1>2. q \in Request
  BY <1>1, RequestType DEF Request
<1>3. req[r].op \in EditOps => req[r].put \subseteq Existing
  BY DEF Check, CheckBind, CheckRebind, CheckUnbind, CheckManage, CheckPut, ProjectsOk, EditOps
<1>4. UNCHANGED <<out, readers, archived, bindings, sent, changes, Existing>>
  BY DEF Check, projects, Existing
<1>5. ReqInv(q, bindings', Existing')
  BY <1>1, <1>2, <1>3, <1>4, RequestType DEF ReqInv, Request
<1>. QED BY <1>1, <1>2, <1>4, <1>5, RowsSame, StepKeeps DEF projects

\* The statements that write a binding.
LEMMA WriteBindingBase ==
  ASSUME Base, NEW r \in Requests, CreateBinding(r) \/ UpdateBinding(r) \/ SetBindingState(r)
  PROVE  Base'
<1>. DEFINE q == req[r]
<1>1. q # None /\ q.step = "write" /\ q.op \in BindingOps /\ Done(r)
      /\ UNCHANGED <<out, projects, sent, changes>>
  BY DEF CreateBinding, UpdateBinding, SetBindingState, Writes, At, BindingOps
<1>2. q.on \in Places
  BY <1>1, RequestType DEF ReqInv
<1>3. ASSUME NEW x \in Binding, x.projects \in (SUBSET Existing) \ {{}},
             bindings' = [bindings EXCEPT ![q.on] = x]
      PROVE  Base'
  BY <1>1, <1>2, <1>3, RowWritten, DoneKeeps
<1>4. CASE CreateBinding(r)
  <2>. DEFINE x == [projects |-> q.put, active |-> TRUE, tag |-> NextTag(q.on), stray |-> q.late]
  <2>1. q.put \in (SUBSET Existing) \ {{}} /\ q.late \in BOOLEAN
    BY <1>1, <1>4, RequestType DEF CreateBinding, Writes, ReqInv, EditOps
  <2>2. x \in Binding /\ x.projects = q.put
    BY <1>2, <2>1, NextTagType DEF Binding, Existing
  <2>3. bindings' = [bindings EXCEPT ![q.on] = x]
    BY <1>4 DEF CreateBinding
  <2>. QED BY <1>3, <2>1, <2>2, <2>3
<1>5. CASE UpdateBinding(r)
  <2>. DEFINE row == bindings[q.on]
              x == Edited(row, q.put)
  <2>1. q.put \in (SUBSET Existing) \ {{}} /\ row # None
    BY <1>1, <1>5, RequestType DEF UpdateBinding, Writes, ReqInv, EditOps
  <2>2. x \in Binding /\ x.projects = q.put
    BY <1>2, <2>1, RowType, RowChanges DEF Existing
  <2>3. bindings' = [bindings EXCEPT ![q.on] = x]
    BY <1>5 DEF UpdateBinding, Edited
  <2>. QED BY <1>3, <2>1, <2>2, <2>3
<1>6. CASE SetBindingState(r)
  <2>. DEFINE row == bindings[q.on]
              x == Revoked(row)
  <2>1. row # None
    BY <1>1, <1>6, RequestType DEF SetBindingState, Writes, ReqInv
  <2>2. x \in Binding /\ x.projects = row.projects
    BY <1>2, <2>1, RowType, RowChanges
  <2>3. bindings' = [bindings EXCEPT ![q.on] = x]
    BY <1>6 DEF SetBindingState, Revoked
  <2>4. row.projects \in (SUBSET Existing) \ {{}}
    BY <1>2, <2>1, RowType
  <2>. QED BY <1>3, <2>2, <2>3, <2>4
<1>. QED BY <1>4, <1>5, <1>6

\* Members of a project that is there, or is created, and a project archived or restored.
LEMMA MembersWritten ==
  ASSUME Base, NEW p \in Projects, NEW S \in SUBSET Users, readers' = [readers EXCEPT ![p] = S],
         UNCHANGED <<archived, bindings>>
  PROVE  RowsOk
<1>1. Existing \subseteq Existing'
  BY NoneAssumption DEF Base, TypeOK, Existing
<1>2. readers' \in [Projects -> {None} \cup SUBSET Users]
  BY DEF Base, TypeOK
<1>. QED BY <1>1, <1>2 DEF Base, TypeOK, RowsOk

LEMMA MembersType ==
  ASSUME Base, NEW p \in Existing
  PROVE  readers[p] \in SUBSET Users
  BY DEF Base, TypeOK, Existing

LEMMA WriteProjectBase ==
  ASSUME Base, NEW r \in Requests,
         CreateProject(r) \/ JoinCreated(r) \/ UpdateProject(r) \/ PutProjectMember(r) \/ DeleteProjectMember(r)
  PROVE  Base'
<1>. DEFINE q == req[r]
<1>1. q # None /\ q.op \in Ops
  <2>1. q # None
    BY DEF CreateProject, JoinCreated, UpdateProject, PutProjectMember, DeleteProjectMember, Writes, At
  <2>. QED BY <2>1, RequestType
<1>2. CASE CreateProject(r)
  <2>. DEFINE x == [q EXCEPT !.step = "join"]
  <2>1. q.op = "create" /\ q.on \in Projects /\ q.user \in Users
    BY <1>1, <1>2, RequestType DEF CreateProject, Writes, ReqInv, BindingOps
  <2>2. readers' = [readers EXCEPT ![q.on] = {}] /\ UNCHANGED <<out, archived, bindings, sent, changes>>
        /\ req' = [req EXCEPT ![r] = x]
    BY <1>2 DEF CreateProject, GoTo, Base, TypeOK
  <2>3. RowsOk /\ q.on \in Existing'
    <3>1. RowsOk
      BY <2>1, <2>2, MembersWritten
    <3>. QED BY <3>1, <2>1, <2>2, NoneAssumption DEF Base, TypeOK, Existing
  <2>4. x \in Request
    BY <1>1, RequestType DEF Request
  <2>5. ReqInv(x, bindings', Existing')
    BY <1>1, <2>1, <2>3, <2>4, RequestType DEF ReqInv, Request, BindingOps, EditOps
  <2>. QED BY <2>2, <2>3, <2>4, <2>5, StepKeeps
<1>3. CASE JoinCreated(r) \/ PutProjectMember(r) \/ DeleteProjectMember(r)
  <2>1. q.on \in Existing /\ q.on \in Projects /\ q.user \in Users
        /\ (q.op \in {"put", "remove"} => q.put \subseteq Users)
    BY <1>1, <1>3, RequestType
    DEF JoinCreated, PutProjectMember, DeleteProjectMember, Writes, At, ReqInv, Existing
  <2>2. PICK S \in SUBSET Users : readers' = [readers EXCEPT ![q.on] = S]
    BY <1>3, <2>1, MembersType DEF JoinCreated, PutProjectMember, DeleteProjectMember, Writes
  <2>3. Done(r) /\ UNCHANGED <<out, archived, bindings, sent, changes>>
    BY <1>3 DEF JoinCreated, PutProjectMember, DeleteProjectMember
  <2>. QED BY <2>1, <2>2, <2>3, MembersWritten, DoneKeeps
<1>4. CASE UpdateProject(r)
  <2>1. q.on \in Existing
    BY <1>1, <1>4, RequestType DEF UpdateProject, Writes, ReqInv
  <2>2. archived' \subseteq Existing /\ Done(r) /\ UNCHANGED <<out, readers, bindings, sent, changes>>
    BY <1>4, <2>1 DEF UpdateProject, Base, TypeOK
  <2>3. RowsOk
    BY <2>2 DEF Base, TypeOK, RowsOk, Existing
  <2>. QED BY <2>2, <2>3, DoneKeeps
<1>. QED BY <1>2, <1>3, <1>4

\* Suspensions, returns and receipts.
LEMMA AroundBase ==
  ASSUME Base, (\E u \in Users : SuspendUser(u) \/ Return(u)) \/ (\E b \in Places : Receipt(b))
  PROVE  Base'
<1>1. (Change \/ UNCHANGED changes) /\ UNCHANGED <<readers, archived, Existing, sent>>
  BY DEF SuspendUser, Return, Receipt, projects, Existing
<1>1a. changes' \in 0..MaxChanges
  BY <1>1, BoundsAssumption DEF Change, Base, TypeOK
<1>2. ASSUME NEW u \in Users, SuspendUser(u)
      PROVE  Base'
  <2>1. RowsOk
    <3>1. ASSUME NEW b \in Places, b[1] = u, bindings[b] # None, bindings[b].active
          PROVE  /\ bindings'[b] = Revoked(bindings[b])
                 /\ bindings'[b] \in Binding /\ bindings'[b].projects = bindings[b].projects
      <4>1. bindings'[b] = Revoked(bindings[b])
        BY <1>2, <3>1 DEF SuspendUser, Revoked
      <4>. QED BY <3>1, <4>1, RowType, RowChanges
    <3>2. ASSUME NEW b \in Places, ~(b[1] = u /\ bindings[b] # None /\ bindings[b].active)
          PROVE  bindings'[b] = bindings[b]
      BY <1>2, <3>2 DEF SuspendUser
    <3>3. ASSUME NEW b \in Places
          PROVE  /\ bindings'[b] \in Binding \cup {None} /\ (bindings[b] # None => bindings'[b] # None)
                 /\ bindings'[b] # None => bindings'[b].projects \in (SUBSET Existing') \ {{}}
      BY <1>1, <3>1, <3>2, NoneAssumption DEF Base, TypeOK
    <3>4. bindings' = [b \in Places |-> bindings'[b]]
      BY <1>2 DEF SuspendUser
    <3>5. bindings' \in [Places -> Binding \cup {None}]
      BY <3>3, <3>4
    <3>. QED BY <1>1, <3>3, <3>5 DEF RowsOk, Base, TypeOK
  <2>2. ASSUME NEW s \in Requests
        PROVE  /\ req'[s] \in Request \cup {None}
               /\ req'[s] # None => ReqInv(req'[s], bindings', Existing')
    <3>1. CASE req[s] = None \/ req[s].user # u
      <4>1. req'[s] = req[s]
        BY <1>2, <3>1 DEF SuspendUser
      <4>. QED BY <4>1, <2>1, ReqInvKept, RequestType DEF Base, TypeOK
    <3>2. CASE req[s] # None /\ req[s].user = u
      <4>. DEFINE q == [req[s] EXCEPT !.late = TRUE]
      <4>1. req'[s] = q
        BY <1>2, <3>2 DEF SuspendUser
      <4>2. q \in Request
        BY <3>2, RequestType DEF Request
      <4>3. ReqInv(q, bindings, Existing)
        BY <3>2, RequestType DEF ReqInv, Request
      <4>. QED BY <2>1, <4>1, <4>2, <4>3, ReqInvKept
    <3>. QED BY <3>1, <3>2
  <2>3. req' = [s \in Requests |-> req'[s]] /\ out' \subseteq Users
    BY <1>2 DEF SuspendUser, Base, TypeOK
  <2>4. req' \in [Requests -> Request \cup {None}]
    BY <2>2, <2>3
  <2>. QED BY <1>1, <1>1a, <2>1, <2>2, <2>3, <2>4 DEF Base, TypeOK, ReqsInv, RowsOk
<1>3. ASSUME NEW u \in Users, Return(u)
      PROVE  Base'
  BY <1>1, <1>1a, <1>3 DEF Return, Base, TypeOK, ReqsInv, projects
<1>4. ASSUME NEW b \in Places, Receipt(b)
      PROVE  Base'
  <2>. DEFINE row == bindings[b]
              x == Reported(row)
  <2>1. row # None /\ bindings' = [bindings EXCEPT ![b] = x] /\ UNCHANGED <<out, req>>
    BY <1>4 DEF Receipt, Reported
  <2>2. x \in Binding /\ x.projects \in (SUBSET Existing) \ {{}}
    BY <2>1, RowType, RowChanges
  <2>3. RowsOk
    BY <1>1, <2>1, <2>2, RowWritten DEF projects
  <2>4. TypeOK'
    BY <1>1, <1>1a, <2>1, <2>3 DEF Base, TypeOK, RowsOk
  <2>5. ReqsInv'
    BY <2>1, <2>3, ReqInvKept, RequestType DEF ReqsInv
  <2>. QED BY <2>4, <2>5 DEF Base
<1>. QED BY <1>2, <1>3, <1>4

LEMMA NextBase == Base /\ [Next]_vars => Base'
<1>. SUFFICES ASSUME Base, [Next]_vars PROVE Base'
  OBVIOUS
<1>1. ASSUME NEW r \in Requests, Fail(r) PROVE Base'
  BY <1>1, RowsSame, DoneKeeps DEF Fail
<1>2. ASSUME NEW r \in Requests, Write(r) PROVE Base'
  BY <1>2, WriteBindingBase, WriteProjectBase DEF Write
<1>3. CASE UNCHANGED vars
  BY <1>3 DEF vars, projects, Base, TypeOK, ReqsInv, Existing
<1>. QED BY <1>1, <1>2, <1>3, BeginBase, CheckBase, AroundBase DEF Next

\* The projects of a binding are there, whatever requests were in flight together; the
\* array of the row has no foreign key that would say so.
THEOREM TypeCorrect == Spec => []TypeOK
<1>1. Base => TypeOK
  BY DEF Base
<1>. QED BY <1>1, InitBase, NextBase, PTL DEF Spec

-------------------------------------------------------------------------------
(* What becomes of a binding, and of a request *)

\* Every write of a row takes a new tag, and no row goes.
RowGrows(b) ==
  \/ bindings'[b] = bindings[b]
  \/ bindings'[b] \in Binding /\ bindings'[b].tag > bindings[b].tag

LEMMA TagsGrow ==
  ASSUME Base, [Next]_vars, NEW b \in Places, bindings[b] # None
  PROVE  RowGrows(b)
<1>1. bindings \in [Places -> Binding \cup {None}] /\ bindings[b] \in Binding /\ bindings[b].tag \in Nat
  BY RowType DEF Base, TypeOK
<1>2. ASSUME NEW r \in Requests, CreateBinding(r)
      PROVE  RowGrows(b)
  <2>. DEFINE x == [projects |-> req[r].put, active |-> TRUE, tag |-> NextTag(req[r].on), stray |-> req[r].late]
  <2>1. req[r].put \in SUBSET Projects /\ req[r].late \in BOOLEAN /\ req[r].on \in Places
    BY <1>2, RequestType DEF CreateBinding, Writes, At, ReqInv, EditOps, BindingOps
  <2>2. x \in Binding /\ x.tag = NextTag(req[r].on)
    BY <2>1, NextTagType DEF Binding
  <2>3. bindings' = [bindings EXCEPT ![req[r].on] = x]
    BY <1>2 DEF CreateBinding
  <2>. HIDE DEF x
  <2>. QED BY <1>1, <2>2, <2>3 DEF NextTag, RowGrows
<1>3. ASSUME NEW r \in Requests, UpdateBinding(r)
      PROVE  RowGrows(b)
  <2>1. bindings' = [bindings EXCEPT ![req[r].on] = Edited(bindings[req[r].on], req[r].put)]
    BY <1>3 DEF UpdateBinding, Edited
  <2>2. req[r].put \in SUBSET Projects
    BY <1>3, RequestType DEF UpdateBinding, Writes, At, ReqInv, EditOps
  <2>. QED BY <1>1, <2>1, <2>2, RowChanges DEF RowGrows
<1>4. ASSUME NEW r \in Requests, SetBindingState(r)
      PROVE  RowGrows(b)
  <2>1. bindings' = [bindings EXCEPT ![req[r].on] = Revoked(bindings[req[r].on])]
    BY <1>4 DEF SetBindingState, Revoked
  <2>. QED BY <1>1, <2>1, RowChanges DEF RowGrows
<1>5. ASSUME NEW u \in Users, SuspendUser(u)
      PROVE  RowGrows(b)
  <2>1. bindings'[b] \in {bindings[b], Revoked(bindings[b])}
    BY <1>5 DEF SuspendUser, Revoked
  <2>. QED BY <1>1, <2>1, RowChanges DEF RowGrows
<1>6. ASSUME NEW c \in Places, Receipt(c)
      PROVE  RowGrows(b)
  <2>1. bindings' = [bindings EXCEPT ![c] = Reported(bindings[c])]
    BY <1>6 DEF Receipt, Reported
  <2>. QED BY <1>1, <2>1, RowChanges DEF RowGrows
<1>7. ASSUME NEW r \in Requests, NEW u \in Users, Begin(r, u)
      PROVE  RowGrows(b)
  BY <1>7 DEF Begin, BeginBind, BeginUnbind, BeginRebind, BeginCreate, BeginUpdate,
              BeginMember, Authenticated, RowGrows
<1>8. ASSUME NEW r \in Requests,
             CreateProject(r) \/ JoinCreated(r) \/ UpdateProject(r) \/ PutProjectMember(r) \/ DeleteProjectMember(r)
      PROVE  RowGrows(b)
  BY <1>8 DEF CreateProject, JoinCreated, UpdateProject, PutProjectMember, DeleteProjectMember, RowGrows
<1>9. ASSUME NEW u \in Users, Return(u)
      PROVE  RowGrows(b)
  BY <1>9 DEF Return, RowGrows
<1>10. ASSUME NEW r \in Requests, Check(r) \/ Fail(r)
       PROVE  RowGrows(b)
  BY <1>10 DEF Check, Fail, RowGrows
<1>. QED BY <1>2, <1>3, <1>4, <1>5, <1>6, <1>7, <1>8, <1>9, <1>10 DEF Next, Write, vars, RowGrows

\* A request that was there before the step, as q, and is there after it, as n.
GoesOn(q, n) ==
  /\ q # None
  /\ n.op = q.op /\ n.user = q.user /\ n.on = q.on /\ n.seen = q.seen
  /\ q.late => n.late
  /\ n.step = "write" /\ n.op = "rebind" => q.step = "write" \/ bindings[q.on].active

\* A request that the step has sent.
IsNew(n) ==
  /\ n.step = "check" /\ n.user \notin out
  /\ n.op = "rebind" => n.on \in Places /\ bindings[n.on] # None /\ n.seen = bindings[n.on]
  /\ UNCHANGED <<out, bindings>>

LEMMA RequestsGoOn ==
  ASSUME Base, [Next]_vars, NEW s \in Requests, req'[s] # None
  PROVE  GoesOn(req[s], req'[s]) \/ IsNew(req'[s])
<1>1. req \in [Requests -> Request \cup {None}]
  BY DEF Base, TypeOK
<1>2. ASSUME NEW r \in Requests, Done(r)
      PROVE  GoesOn(req[s], req'[s])
  <2>1. req'[s] = req[s]
    BY <1>1, <1>2 DEF Done
  <2>. QED BY <2>1 DEF GoesOn
<1>3. ASSUME NEW r \in Requests, NEW step \in {"write", "join"}, GoTo(r, step), req[r] # None,
             step = "write" /\ req[r].op = "rebind" => bindings[req[r].on].active
      PROVE  GoesOn(req[s], req'[s])
  <2>1. CASE s = r
    <3>1. req[s] \in Request /\ req'[s] = [req[s] EXCEPT !.step = step]
      BY <1>1, <1>3, <2>1 DEF GoTo
    <3>. QED BY <1>3, <2>1, <3>1 DEF GoesOn, Request
  <2>2. CASE s # r
    <3>1. req'[s] = req[s]
      BY <1>1, <1>3, <2>2 DEF GoTo
    <3>. QED BY <3>1 DEF GoesOn
  <2>. QED BY <2>1, <2>2
<1>4. ASSUME NEW r \in Requests, NEW u \in Users, NEW op \in Ops, NEW on, NEW put, NEW seen,
             Authenticated(r, op, u, on, put, seen),
             op = "rebind" => on \in Places /\ bindings[on] # None /\ seen = bindings[on]
      PROVE  GoesOn(req[s], req'[s]) \/ IsNew(req'[s])
  <2>1. CASE s = r
    <3>1. req'[s] = [op |-> op, user |-> u, on |-> on, put |-> put, may |-> Readable(u),
                     seen |-> seen, step |-> "check", late |-> FALSE]
      BY <1>1, <1>4, <2>1 DEF Authenticated
    <3>2. u \notin out /\ UNCHANGED <<out, bindings>>
      BY <1>4 DEF Authenticated
    <3>. QED BY <1>4, <3>1, <3>2 DEF IsNew
  <2>2. CASE s # r
    <3>1. req'[s] = req[s]
      BY <1>1, <1>4, <2>2 DEF Authenticated
    <3>. QED BY <3>1 DEF GoesOn
  <2>. QED BY <2>1, <2>2
<1>5. ASSUME NEW r \in Requests, NEW u \in Users, Begin(r, u)
      PROVE  GoesOn(req[s], req'[s]) \/ IsNew(req'[s])
  <2>1. ASSUME NEW w \in Workspaces, NEW ps \in SUBSET Projects, BeginBind(r, u, w, ps)
        PROVE  GoesOn(req[s], req'[s]) \/ IsNew(req'[s])
    BY <1>4, <2>1 DEF BeginBind, Ops
  <2>2. ASSUME NEW b \in Places, BeginUnbind(r, u, b)
        PROVE  GoesOn(req[s], req'[s]) \/ IsNew(req'[s])
    BY <1>4, <2>2 DEF BeginUnbind, Ops
  <2>3. ASSUME NEW b \in Places, NEW ps \in SUBSET Projects, BeginRebind(r, u, b, ps)
        PROVE  GoesOn(req[s], req'[s]) \/ IsNew(req'[s])
    BY <1>4, <2>3 DEF BeginRebind, Ops
  <2>4. ASSUME NEW p \in Projects, BeginCreate(r, u, p)
        PROVE  GoesOn(req[s], req'[s]) \/ IsNew(req'[s])
    BY <1>4, <2>4 DEF BeginCreate, Ops
  <2>5. ASSUME NEW p \in Projects, NEW op \in Ops, BeginUpdate(r, u, p, op)
        PROVE  GoesOn(req[s], req'[s]) \/ IsNew(req'[s])
    BY <1>4, <2>5 DEF BeginUpdate, Ops
  <2>6. ASSUME NEW p \in Projects, NEW op \in Ops, NEW v \in Users, BeginMember(r, u, p, v, op)
        PROVE  GoesOn(req[s], req'[s]) \/ IsNew(req'[s])
    BY <1>4, <2>6 DEF BeginMember, Ops
  <2>. QED BY <1>5, <2>1, <2>2, <2>3, <2>4, <2>5, <2>6 DEF Begin
<1>6. ASSUME NEW r \in Requests, Check(r)
      PROVE  GoesOn(req[s], req'[s])
  <2>1. req[r].op = "rebind" => bindings[req[r].on].active
    BY <1>6 DEF Check, CheckBind, CheckRebind, CheckUnbind, CheckManage, CheckPut
  <2>2. req[r] # None /\ GoTo(r, "write")
    BY <1>6 DEF Check, At
  <2>. QED BY <1>3, <2>1, <2>2
<1>7. ASSUME NEW r \in Requests, Write(r) \/ Fail(r)
      PROVE  GoesOn(req[s], req'[s])
  <2>1. Done(r) \/ (req[r] # None /\ GoTo(r, "join"))
    BY <1>7 DEF Write, Fail, CreateBinding, UpdateBinding, SetBindingState, CreateProject, JoinCreated,
                UpdateProject, PutProjectMember, DeleteProjectMember, Writes, At
  <2>. QED BY <1>2, <1>3, <2>1
<1>8. ASSUME NEW u \in Users, SuspendUser(u)
      PROVE  GoesOn(req[s], req'[s])
  <2>1. CASE req[s] # None /\ req[s].user = u
    <3>1. req[s] \in Request /\ req'[s] = [req[s] EXCEPT !.late = TRUE]
      BY <1>1, <1>8, <2>1 DEF SuspendUser
    <3>. QED BY <2>1, <3>1 DEF GoesOn, Request
  <2>2. CASE ~(req[s] # None /\ req[s].user = u)
    <3>1. req'[s] = req[s]
      BY <1>8, <2>2 DEF SuspendUser
    <3>. QED BY <3>1 DEF GoesOn
  <2>. QED BY <2>1, <2>2
<1>9. CASE UNCHANGED req
  BY <1>9 DEF GoesOn
<1>10. ASSUME NEW u \in Users, Return(u)
       PROVE  UNCHANGED req
  BY <1>10 DEF Return
<1>11. ASSUME NEW b \in Places, Receipt(b)
       PROVE  UNCHANGED req
  BY <1>11 DEF Receipt
<1>. QED BY <1>5, <1>6, <1>7, <1>8, <1>9, <1>10, <1>11 DEF Next, vars

-------------------------------------------------------------------------------
(* Suspended users *)

StrayInv == Base /\ LateInv /\ StrayBindingsExplained

LEMMA NextLateInv ==
  ASSUME Base, LateInv, [Next]_vars
  PROVE  LateInv'
<1>. SUFFICES ASSUME NEW s \in Requests, req'[s] # None, req'[s].user \in out'
              PROVE  req'[s].late
  BY DEF LateInv
<1>1. GoesOn(req[s], req'[s])
  BY RequestsGoOn DEF IsNew
<1>2. CASE req[s].user \in out
  BY <1>1, <1>2 DEF LateInv, GoesOn
<1>3. CASE req[s].user \notin out
  <2>1. SuspendUser(req[s].user)
    <3>1. out' # out
      BY <1>1, <1>3 DEF GoesOn
    <3>2. ASSUME NEW u \in Users, Return(u) PROVE out' \subseteq out
      BY <3>2 DEF Return
    <3>3. ASSUME NEW r \in Requests, NEW u \in Users, Begin(r, u) PROVE out' = out
      BY <3>3 DEF Begin, BeginBind, BeginUnbind, BeginRebind, BeginCreate, BeginUpdate, BeginMember,
                  Authenticated
    <3>4. ASSUME NEW r \in Requests, Check(r) \/ Fail(r) \/ Write(r) PROVE out' = out
      BY <3>4 DEF Check, Fail, Write, CreateBinding, UpdateBinding, SetBindingState, CreateProject,
                  JoinCreated, UpdateProject, PutProjectMember, DeleteProjectMember
    <3>5. ASSUME NEW b \in Places, Receipt(b) PROVE out' = out
      BY <3>5 DEF Receipt
    <3>6. PICK u \in Users : SuspendUser(u)
      BY <1>1, <1>3, <3>1, <3>2, <3>3, <3>4, <3>5 DEF Next, vars, GoesOn
    <3>. QED BY <1>1, <1>3, <3>6 DEF SuspendUser, GoesOn
  <2>. QED BY <1>1, <2>1, RequestType DEF SuspendUser, GoesOn, Request
<1>. QED BY <1>2, <1>3

LEMMA NextStray ==
  ASSUME Base, LateInv, StrayBindingsExplained, [Next]_vars
  PROVE  StrayBindingsExplained'
<1>. SUFFICES ASSUME NEW b \in Places, bindings'[b] # None, bindings'[b].active, b[1] \in out'
              PROVE  bindings'[b].stray
  BY DEF StrayBindingsExplained
<1>0. bindings \in [Places -> Binding \cup {None}]
  BY DEF Base, TypeOK
<1>1. ASSUME NEW r \in Requests, CreateBinding(r)
      PROVE  bindings'[b].stray
  <2>1. req[r] # None /\ req[r].on[1] = req[r].user /\ UNCHANGED out
    BY <1>1, RequestType DEF CreateBinding, Writes, At, ReqInv
  <2>2. CASE b = req[r].on
    <3>1. bindings'[b].stray = req[r].late
      BY <1>0, <1>1, <2>2 DEF CreateBinding
    <3>. QED BY <2>1, <2>2, <3>1 DEF LateInv
  <2>3. CASE b # req[r].on
    BY <1>0, <1>1, <2>1, <2>3 DEF CreateBinding, StrayBindingsExplained
  <2>. QED BY <2>2, <2>3
<1>2. ASSUME NEW c \in Places, NEW row \in Binding, bindings' = [bindings EXCEPT ![c] = row],
             bindings[c] # None, UNCHANGED out, row.active => bindings[c].active,
             row.active => row.stray = bindings[c].stray
      PROVE  bindings'[b].stray
  BY <1>0, <1>2 DEF StrayBindingsExplained
<1>3. ASSUME NEW r \in Requests, UpdateBinding(r)
      PROVE  bindings'[b].stray
  <2>. DEFINE c == req[r].on
  <2>1. /\ c \in Places /\ bindings[c] # None /\ req[r].put \in SUBSET Projects /\ UNCHANGED out
        /\ bindings' = [bindings EXCEPT ![c] = Edited(bindings[c], req[r].put)]
    BY <1>3, RequestType DEF UpdateBinding, Writes, At, ReqInv, BindingOps, EditOps, Edited
  <2>. DEFINE x == Edited(bindings[c], req[r].put)
  <2>2. x \in Binding /\ x.active = bindings[c].active /\ x.stray = bindings[c].stray
    BY <2>1, RowType, RowChanges
  <2>3. bindings' = [bindings EXCEPT ![c] = x]
    BY <2>1
  <2>. HIDE DEF x
  <2>. QED BY <1>2, <2>1, <2>2, <2>3
<1>4. ASSUME NEW r \in Requests, SetBindingState(r)
      PROVE  bindings'[b].stray
  <2>. DEFINE c == req[r].on
  <2>1. /\ c \in Places /\ bindings[c] # None /\ UNCHANGED out
        /\ bindings' = [bindings EXCEPT ![c] = Revoked(bindings[c])]
    BY <1>4, RequestType DEF SetBindingState, Writes, At, ReqInv, BindingOps, Revoked
  <2>. DEFINE x == Revoked(bindings[c])
  <2>2. x \in Binding /\ ~x.active
    BY <2>1, RowType, RowChanges
  <2>3. bindings' = [bindings EXCEPT ![c] = x]
    BY <2>1
  <2>. HIDE DEF x
  <2>. QED BY <1>2, <2>1, <2>2, <2>3
<1>5. ASSUME NEW c \in Places, Receipt(c)
      PROVE  bindings'[b].stray
  <2>1. bindings[c] # None /\ UNCHANGED out /\ bindings' = [bindings EXCEPT ![c] = Reported(bindings[c])]
    BY <1>5 DEF Receipt, Reported
  <2>. DEFINE x == Reported(bindings[c])
  <2>2. x \in Binding /\ x.active = bindings[c].active /\ x.stray = bindings[c].stray
    BY <2>1, RowType, RowChanges
  <2>3. bindings' = [bindings EXCEPT ![c] = x]
    BY <2>1
  <2>. HIDE DEF x
  <2>. QED BY <1>2, <2>1, <2>2, <2>3
<1>6. ASSUME NEW u \in Users, SuspendUser(u)
      PROVE  bindings'[b].stray
  <2>1. CASE b[1] = u /\ bindings[b] # None /\ bindings[b].active
    <3>1. bindings'[b] = Revoked(bindings[b])
      BY <1>6, <2>1 DEF SuspendUser, Revoked
    <3>. QED BY <2>1, <3>1, RowType, RowChanges
  <2>2. CASE ~(b[1] = u /\ bindings[b] # None /\ bindings[b].active)
    <3>1. bindings'[b] = bindings[b] /\ out' = out \cup {u}
      BY <1>6, <2>2 DEF SuspendUser
    <3>. QED BY <2>2, <3>1 DEF StrayBindingsExplained
  <2>. QED BY <2>1, <2>2
<1>7. ASSUME UNCHANGED bindings, out' \subseteq out
      PROVE  bindings'[b].stray
  BY <1>7 DEF StrayBindingsExplained
<1>8. ASSUME NEW u \in Users, Return(u)
      PROVE  UNCHANGED bindings /\ out' \subseteq out
  BY <1>8 DEF Return
<1>9. ASSUME NEW r \in Requests, NEW u \in Users, Begin(r, u)
      PROVE  UNCHANGED bindings /\ out' \subseteq out
  BY <1>9 DEF Begin, BeginBind, BeginUnbind, BeginRebind, BeginCreate, BeginUpdate, BeginMember, Authenticated
<1>10. ASSUME NEW r \in Requests,
              CreateProject(r) \/ JoinCreated(r) \/ UpdateProject(r) \/ PutProjectMember(r)
                \/ DeleteProjectMember(r) \/ Check(r) \/ Fail(r)
       PROVE  UNCHANGED bindings /\ out' \subseteq out
  BY <1>10 DEF CreateProject, JoinCreated, UpdateProject, PutProjectMember, DeleteProjectMember, Check, Fail
<1>. QED BY <1>1, <1>3, <1>4, <1>5, <1>6, <1>7, <1>8, <1>9, <1>10 DEF Next, Write, vars

\* A binding still active for a suspended user was written by a Bind that had been
\* authenticated before the suspension committed: no edit, no unbinding, no receipt and
\* no other request leaves one.
THEOREM StraysOnlyByBind == Spec => []StrayBindingsExplained
<1>1. Init => StrayInv
  BY InitBase DEF Init, StrayInv, LateInv, StrayBindingsExplained
<1>2. StrayInv /\ [Next]_vars => StrayInv'
  BY NextBase, NextLateInv, NextStray DEF StrayInv
<1>3. StrayInv => StrayBindingsExplained
  BY DEF StrayInv
<1>. QED BY <1>1, <1>2, <1>3, PTL DEF Spec

-------------------------------------------------------------------------------
(* Edits *)

LEMMA NextSeenInv ==
  ASSUME Base, SeenInv, [Next]_vars
  PROVE  SeenInv'
<1>. SUFFICES ASSUME NEW s \in Requests, req'[s] # None, req'[s].op = "rebind"
              PROVE  LET n == req'[s]
                     IN /\ n.seen \in Binding
                        /\ n.seen.tag <= bindings'[n.on].tag
                        /\ n.seen.tag = bindings'[n.on].tag => bindings'[n.on] = n.seen
                        /\ n.seen.tag = bindings'[n.on].tag /\ n.step = "write" => n.seen.active
  BY DEF SeenInv
<1>. DEFINE n == req'[s]
            q == req[s]
            b == n.on
<1>1. CASE IsNew(n)
  <2>1. b \in Places /\ bindings[b] # None /\ n.seen = bindings[b] /\ bindings'[b] = bindings[b]
        /\ n.step = "check"
    BY <1>1 DEF IsNew
  <2>2. bindings[b] \in Binding /\ bindings[b].tag \in Nat
    BY <2>1, RowType
  <2>. QED BY <2>1, <2>2
<1>2. CASE GoesOn(q, n)
  <2>1. /\ q # None /\ q.op = "rebind" /\ q.on = b /\ q.seen = n.seen
        /\ n.step = "write" => q.step = "write" \/ bindings[b].active
    BY <1>2 DEF GoesOn
  <2>2. b \in Places /\ bindings[b] # None
    BY <2>1, RequestType DEF ReqInv, BindingOps
  <2>3. /\ n.seen \in Binding /\ n.seen.tag \in Nat /\ n.seen.tag <= bindings[b].tag
        /\ n.seen.tag = bindings[b].tag => bindings[b] = n.seen
        /\ n.seen.tag = bindings[b].tag /\ q.step = "write" => n.seen.active
    BY <2>1 DEF SeenInv, Binding
  <2>4. bindings[b].tag \in Nat /\ bindings[b] \in Binding
    BY <2>2, RowType
  <2>5. RowGrows(b)
    BY <2>2, TagsGrow
  <2>6. bindings'[b].tag \in Nat
    BY <2>4, <2>5 DEF RowGrows, Binding
  <2>. QED BY <2>1, <2>3, <2>4, <2>5, <2>6 DEF RowGrows
<1>. QED BY <1>1, <1>2, RequestsGoOn

\* Rebind reads, checks and writes in three statements, and the write compares only the
\* ETag: an edit nevertheless replaces the very row its user saw, an active one.
THEOREM EditsReplaceOnlyWhatWasSeen == Spec => EditsReplaceWhatWasSeen
<1>. DEFINE Step == \A r \in Requests :
              req[r] # None /\ req[r].op = "rebind" /\ req'[r] = None /\ bindings' # bindings
                => bindings[req[r].on] = req[r].seen /\ req[r].seen.active
<1>1. Init => Base /\ SeenInv
  BY InitBase DEF Init, SeenInv
<1>2. Base /\ SeenInv /\ [Next]_vars => Base' /\ SeenInv'
  BY NextBase, NextSeenInv
<1>3. Base /\ SeenInv /\ [Next]_vars => Step
  <2>. SUFFICES ASSUME Base, SeenInv, [Next]_vars, NEW r \in Requests,
                       req[r] # None, req[r].op = "rebind", req'[r] = None, bindings' # bindings
                PROVE  bindings[req[r].on] = req[r].seen /\ req[r].seen.active
    OBVIOUS
  <2>0. req \in [Requests -> Request \cup {None}] /\ req[r] \in Request
    BY DEF Base, TypeOK
  <2>1. ASSUME NEW t \in Requests, CreateBinding(t) \/ UpdateBinding(t) \/ SetBindingState(t)
        PROVE  UpdateBinding(r)
    <3>1. t = r
      BY <2>0, <2>1 DEF CreateBinding, UpdateBinding, SetBindingState, Done
    <3>. QED BY <2>1, <3>1 DEF CreateBinding, SetBindingState, Writes
  <2>2. ASSUME NEW u \in Users, SuspendUser(u)
        PROVE  FALSE
    <3>1. CASE req[r].user = u
      <4>1. req'[r] = [req[r] EXCEPT !.late = TRUE]
        BY <2>2, <3>1 DEF SuspendUser
      <4>2. [req[r] EXCEPT !.late = TRUE] \in Request
        BY <2>0 DEF Request
      <4>. QED BY <4>1, <4>2, NoneAssumption
    <3>2. CASE req[r].user # u
      BY <2>2, <3>2 DEF SuspendUser
    <3>. QED BY <3>1, <3>2
  <2>3. ASSUME NEW b \in Places, Receipt(b)
        PROVE  FALSE
    BY <2>3 DEF Receipt
  <2>4. ASSUME NEW t \in Requests, NEW u \in Users, Begin(t, u) \/ Return(u)
        PROVE  UNCHANGED bindings
    BY <2>4 DEF Return, Begin, BeginBind, BeginUnbind, BeginRebind, BeginCreate, BeginUpdate, BeginMember,
                Authenticated
  <2>5. ASSUME NEW t \in Requests,
               CreateProject(t) \/ JoinCreated(t) \/ UpdateProject(t) \/ PutProjectMember(t)
                 \/ DeleteProjectMember(t) \/ Check(t) \/ Fail(t)
        PROVE  UNCHANGED bindings
    BY <2>5 DEF CreateProject, JoinCreated, UpdateProject, PutProjectMember, DeleteProjectMember, Check, Fail
  <2>6. UpdateBinding(r)
    BY <2>1, <2>2, <2>3, <2>4, <2>5 DEF Next, Write, vars
  <2>. QED BY <2>6 DEF UpdateBinding, Writes, At, SeenInv
<1>. QED BY <1>1, <1>2, <1>3, PTL DEF Spec, EditsReplaceWhatWasSeen

===============================================================================
