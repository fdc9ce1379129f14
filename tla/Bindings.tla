------------------------------ MODULE Bindings --------------------------------
(***************************************************************************)
(* Projects and bindings (internal/projects, internal/db/projects_store.go *)
(* and their handlers). A binding gives a workspace of a user's machine    *)
(* the contents of some projects. A request is authenticated, with the     *)
(* projects its user may read then, checks what it needs in statements of  *)
(* its own and writes in another; suspensions, receipts and other requests *)
(* come in between. A user has one machine, so that revoking the machine   *)
(* and suspending the user are the same here; whoever manages a project is *)
(* an administrator.                                                       *)
(***************************************************************************)
EXTENDS Integers

CONSTANTS
  Users, Admins, Projects, Workspaces,
  Requests,    \* requests in flight
  None,
  MaxRequests, \* bounds: requests sent,
  MaxChanges   \* suspensions and receipts

ASSUME AdminsAssumption == Admins \subseteq Users
ASSUME BoundsAssumption == MaxRequests \in Nat /\ MaxChanges \in Nat

VARIABLES
  out,      \* users suspended or signed out of their machine
  readers,  \* the members of each project, None if there is no such project
  archived, \* projects archived
  bindings, \* the binding of each place
  req,      \* the requests in flight
  sent, changes \* used up of the bounds

vars == <<out, readers, archived, bindings, req, sent, changes>>
projects == <<readers, archived>>

-------------------------------------------------------------------------------

\* UNIQUE (machine_id, workspace_id)
Places == Users \X Workspaces

\* A row of bindings. Every write takes a new updated_at, hence a new tag. "stray" is
\* no column: the last Bind was authenticated before its user was suspended.
Binding == [projects : SUBSET Projects, active : BOOLEAN, tag : Nat, stray : BOOLEAN]

Ops == {"bind", "rebind", "unbind", "create", "archive", "restore", "put", "remove"}

\* A request: who sent it, about which place or project, what it is to write, what its
\* user may read and has seen; "late" is set by a suspension since.
Request == [op : Ops, user : Users, on : Places \cup Projects,
            put : (SUBSET Projects) \cup (SUBSET Users), may : SUBSET Projects,
            seen : Binding \cup {None}, step : {"check", "write", "join"}, late : BOOLEAN]

ASSUME NoneAssumption == None \notin Binding \cup Request /\ \A S \in SUBSET Users : None # S

Existing == {p \in Projects : readers[p] # None}

\* The types of the variables. project_ids is an array with no foreign key: it is the
\* checks that keep it to projects there are.
TypeOK ==
  /\ out \subseteq Users /\ archived \subseteq Existing
  /\ readers \in [Projects -> {None} \cup SUBSET Users]
  /\ bindings \in [Places -> Binding \cup {None}]
  /\ \A b \in Places : bindings[b] # None => bindings[b].projects \in (SUBSET Existing) \ {{}}
  /\ req \in [Requests -> Request \cup {None}]
  /\ sent \in 0..MaxRequests /\ changes \in 0..MaxChanges

\* Subject.Can(project:read)
Readable(u) == IF u \in Admins THEN Projects ELSE {p \in Existing : u \in readers[p]}

Init ==
  /\ out = {}
  /\ readers = [p \in Projects |-> None] /\ archived = {}
  /\ bindings = [b \in Places |-> None]
  /\ req = [r \in Requests |-> None]
  /\ sent = 0 /\ changes = 0

-------------------------------------------------------------------------------
\* A request arrives

\* requireAuth: the subject is loaded once, for the whole request.
Authenticated(r, op, u, on, put, seen) ==
  /\ req[r] = None /\ sent < MaxRequests /\ sent' = sent + 1
  /\ u \notin out
  /\ req' = [req EXCEPT ![r] = [op |-> op, user |-> u, on |-> on, put |-> put,
                                may |-> Readable(u), seen |-> seen, step |-> "check", late |-> FALSE]]
  /\ UNCHANGED <<out, projects, bindings, changes>>

\* cmdBind: the client names projects of the list it was shown.
BeginBind(r, u, w, ps) ==
  /\ ps # {} /\ ps \subseteq Readable(u) \cap Existing
  /\ Authenticated(r, "bind", u, <<u, w>>, ps, None)

\* updateBinding: If-Match is required, and the user has it from getBinding.
BeginRebind(r, u, b, ps) ==
  /\ bindings[b] # None /\ b[1] = u /\ ps # {}
  /\ Authenticated(r, "rebind", u, b, ps, bindings[b])

\* deleteBinding
BeginUnbind(r, u, b) ==
  /\ bindings[b] # None
  /\ Authenticated(r, "unbind", u, b, {}, None)

\* createProject
BeginCreate(r, u, p) ==
  /\ readers[p] = None
  /\ Authenticated(r, "create", u, p, {}, None)

\* updateProject; If-Match is optional, and checked before the write if it is there.
BeginUpdate(r, u, p, op) ==
  /\ p \in Existing /\ op \in {"archive", "restore"}
  /\ Authenticated(r, op, u, p, {}, None)

\* putProjectMember, deleteProjectMember
BeginMember(r, u, p, v, op) ==
  /\ p \in Existing /\ op \in {"put", "remove"}
  /\ Authenticated(r, op, u, p, {v}, None)

-------------------------------------------------------------------------------
\* The service checks

At(r, step) == req[r] # None /\ req[r].step = step
GoTo(r, step) == req' = [req EXCEPT ![r].step = step]
Done(r) == req' = [req EXCEPT ![r] = None]

\* checkProjects: there, not archived and readable
ProjectsOk(q) == q.put \subseteq (Existing \ archived) \cap q.may

\* Bind
CheckBind(r) ==
  /\ req[r].op = "bind"
  /\ ProjectsOk(req[r])

\* Mutant: the projects of an edit are not checked.
CheckRebindState(r) ==
  /\ req[r].op = "rebind"
  /\ bindings[req[r].on].active

\* Rebind: GetBinding, then checkProjects
CheckRebind(r) ==
  /\ req[r].op = "rebind"
  /\ bindings[req[r].on].active
  /\ ProjectsOk(req[r])

\* Unbind: one's own, or with device:manage
CheckUnbind(r) ==
  /\ req[r].op = "unbind"
  /\ req[r].user \in Admins \cup {req[r].on[1]}

\* Create, Update and DeleteMember: membership:manage
CheckManage(r) ==
  /\ req[r].op \in {"create", "archive", "restore", "remove"}
  /\ req[r].user \in Admins

\* PutMember: nobody joins an archived project.
CheckPut(r) ==
  /\ req[r].op = "put"
  /\ req[r].user \in Admins
  /\ req[r].on \in Existing \ archived

Check(r) ==
  /\ At(r, "check")
  /\ CheckBind(r) \/ CheckRebind(r) \/ CheckUnbind(r) \/ CheckManage(r) \/ CheckPut(r)
  /\ GoTo(r, "write")
  /\ UNCHANGED <<out, projects, bindings, sent, changes>>

\* A check or a statement fails, the client goes away or the server stops.
Fail(r) ==
  /\ req[r] # None
  /\ Done(r)
  /\ UNCHANGED <<out, projects, bindings, sent, changes>>

-------------------------------------------------------------------------------
\* and the store writes

Writes(r, op) == At(r, "write") /\ req[r].op = op

NextTag(b) == IF bindings[b] = None THEN 1 ELSE bindings[b].tag + 1

\* CreateBinding: an upsert, which makes a binding that was there active again
CreateBinding(r) ==
  LET q == req[r]
  IN /\ Writes(r, "bind")
     /\ bindings' = [bindings EXCEPT ![q.on] =
          [projects |-> q.put, active |-> TRUE, tag |-> NextTag(q.on), stray |-> q.late]]
     /\ Done(r)
     /\ UNCHANGED <<out, projects, sent, changes>>

\* UpdateBinding: conditional on the ETag alone; 412 is Fail.
UpdateBinding(r) ==
  LET q == req[r]
  IN /\ Writes(r, "rebind")
     /\ bindings[q.on].tag = q.seen.tag
     /\ bindings' = [bindings EXCEPT ![q.on].projects = q.put, ![q.on].tag = @ + 1]
     /\ Done(r)
     /\ UNCHANGED <<out, projects, sent, changes>>

\* Mutant: the state changes without updated_at.
SetBindingStateSameTag(r) ==
  LET q == req[r]
  IN /\ Writes(r, "unbind")
     /\ bindings' = [bindings EXCEPT ![q.on].active = FALSE]
     /\ Done(r)
     /\ UNCHANGED <<out, projects, sent, changes>>

\* SetBindingState
SetBindingState(r) ==
  LET q == req[r]
  IN /\ Writes(r, "unbind")
     /\ bindings' = [bindings EXCEPT ![q.on].active = FALSE, ![q.on].tag = @ + 1]
     /\ Done(r)
     /\ UNCHANGED <<out, projects, sent, changes>>

\* CreateProject; another may have taken the slug.
CreateProject(r) ==
  /\ Writes(r, "create")
  /\ readers[req[r].on] = None
  /\ readers' = [readers EXCEPT ![req[r].on] = {}]
  /\ GoTo(r, "join")
  /\ UNCHANGED <<out, archived, bindings, sent, changes>>

\* and its creator joins it, in another statement.
JoinCreated(r) ==
  /\ At(r, "join")
  /\ readers' = [readers EXCEPT ![req[r].on] = @ \cup {req[r].user}]
  /\ Done(r)
  /\ UNCHANGED <<out, archived, bindings, sent, changes>>

\* UpdateProject
UpdateProject(r) ==
  /\ \/ Writes(r, "archive") /\ archived' = archived \cup {req[r].on}
     \/ Writes(r, "restore") /\ archived' = archived \ {req[r].on}
  /\ Done(r)
  /\ UNCHANGED <<out, readers, bindings, sent, changes>>

\* PutProjectMember
PutProjectMember(r) ==
  /\ Writes(r, "put")
  /\ readers' = [readers EXCEPT ![req[r].on] = @ \cup req[r].put]
  /\ Done(r)
  /\ UNCHANGED <<out, archived, bindings, sent, changes>>

\* DeleteProjectMember: the bindings stay.
DeleteProjectMember(r) ==
  /\ Writes(r, "remove")
  /\ readers' = [readers EXCEPT ![req[r].on] = @ \ req[r].put]
  /\ Done(r)
  /\ UNCHANGED <<out, archived, bindings, sent, changes>>

-------------------------------------------------------------------------------
\* Around them

Change == changes < MaxChanges /\ changes' = changes + 1

\* Mutant: the bindings stay active.
SuspendUserOnly(u) ==
  /\ Change
  /\ u \notin out
  /\ out' = out \cup {u}
  /\ req' = [r \in Requests |->
       IF req[r] # None /\ req[r].user = u THEN [req[r] EXCEPT !.late = TRUE] ELSE req[r]]
  /\ UNCHANGED <<projects, bindings, sent>>

\* SuspendUser: one transaction, which also revokes the bindings.
SuspendUser(u) ==
  /\ Change
  /\ u \notin out
  /\ out' = out \cup {u}
  /\ bindings' = [b \in Places |->
       IF b[1] = u /\ bindings[b] # None /\ bindings[b].active
       THEN [bindings[b] EXCEPT !.active = FALSE, !.tag = @ + 1] ELSE bindings[b]]
  /\ req' = [r \in Requests |->
       IF req[r] # None /\ req[r].user = u THEN [req[r] EXCEPT !.late = TRUE] ELSE req[r]]
  /\ UNCHANGED <<projects, sent>>

\* ReactivateUser, and the user logs in again: no binding comes back by itself.
Return(u) ==
  /\ u \in out
  /\ out' = out \ {u}
  /\ UNCHANGED <<projects, bindings, req, sent, changes>>

\* RecordResults: applied_revision and updated_at, of a revoked binding as well
Receipt(b) ==
  /\ Change
  /\ bindings[b] # None
  /\ bindings' = [bindings EXCEPT ![b].tag = @ + 1]
  /\ UNCHANGED <<out, projects, req, sent>>

Begin(r, u) ==
  \/ \E w \in Workspaces, ps \in SUBSET Projects : BeginBind(r, u, w, ps)
  \/ \E b \in Places : BeginUnbind(r, u, b) \/ \E ps \in SUBSET Projects : BeginRebind(r, u, b, ps)
  \/ \E p \in Projects :
       \/ BeginCreate(r, u, p)
       \/ \E op \in Ops : BeginUpdate(r, u, p, op) \/ \E v \in Users : BeginMember(r, u, p, v, op)

Write(r) ==
  \/ CreateBinding(r) \/ UpdateBinding(r) \/ SetBindingState(r)
  \/ CreateProject(r) \/ JoinCreated(r) \/ UpdateProject(r)
  \/ PutProjectMember(r) \/ DeleteProjectMember(r)

Next ==
  \/ \E r \in Requests : Check(r) \/ Write(r) \/ Fail(r) \/ \E u \in Users : Begin(r, u)
  \/ \E u \in Users : SuspendUser(u) \/ Return(u)
  \/ \E b \in Places : Receipt(b)

Spec == Init /\ [][Next]_vars

-------------------------------------------------------------------------------

\* A binding still active for a suspended user was written by a Bind that had been
\* authenticated before the suspension committed, and by nothing else.
StrayBindingsExplained ==
  \A b \in Places :
    bindings[b] # None /\ bindings[b].active /\ b[1] \in out => bindings[b].stray

\* Rebind reads the state in one statement and writes in another that compares nothing
\* but the ETag: even so, an edit replaces the very row its user saw, and an active one.
\* It never lands on a binding revoked, revived or edited since.
EditsReplaceWhatWasSeen ==
  [][\A r \in Requests :
       req[r] # None /\ req[r].op = "rebind" /\ req'[r] = None /\ bindings' # bindings
         => bindings[req[r].on] = req[r].seen /\ req[r].seen.active]_vars

===============================================================================
