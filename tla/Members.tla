------------------------------- MODULE Members --------------------------------
(***************************************************************************)
(* Who is a member of an organization and in what role: the administration *)
(* of internal/organizations and internal/api/org_handlers, and the IdP    *)
(* group mappings of internal/identity, which set roles at every OIDC      *)
(* login and again when an administrator reconciles. A request knows its   *)
(* actor from requireAuth, reads what it decides on, and writes later:     *)
(* other requests run between those statements.                            *)
(***************************************************************************)
EXTENDS Integers, Sequences, FiniteSets

CONSTANTS
  Users,        \* accounts that are members or may become members
  Founders,     \* the members at the start, all of them owners
  Places,       \* teams and projects of the organization
  Ghosts,       \* ids in mappings that name no team or project of the organization
  Groups,       \* groups of the IdP
  Tables,       \* the group mappings administrators store, each a sequence
  Claims,       \* the sets of groups the IdP sends at a login
  Requests,     \* slots for requests that are being served together
  MaxRequests,  \* bound: requests in a behaviour
  NoGroups,     \* SQL NULL in users.idp_groups: no login through OIDC, or one without groups
  NoOp          \* no operation

ASSUME FoundersAssumption == Founders \subseteq Users /\ IsFiniteSet(Users)
ASSUME PlacesAssumption == Places \cap Ghosts = {} /\ "org" \notin Places \cup Ghosts
ASSUME ClaimsAssumption == Claims \subseteq SUBSET Groups /\ NoGroups \notin Claims
ASSUME BoundAssumption == MaxRequests \in Nat

VARIABLES
  users,     \* users, with the rows of team_members and project_members
  mappings,  \* idp_group_mappings, in the order they are listed
  req,       \* what each request is doing
  started    \* requests so far

vars == <<users, mappings, req, started>>

-------------------------------------------------------------------------------

OrgRoles == {"owner", "admin", "member", "viewer"}
PlaceRoles == {"none", "member", "admin"}
Targets == {"org"} \cup Places \cup Ghosts

\* A row of idp_group_mappings: putIdPMappings looks at the target and the role, and
\* takes any priority.
Mapping == [group: Groups, target: {"org"}, role: OrgRoles, priority: Int]
             \cup [group: Groups, target: Places \cup Ghosts, role: PlaceRoles \ {"none"}, priority: Int]

ASSUME TablesAssumption == Tables \subseteq Seq(Mapping)

User == [status: {"none", "active", "suspended"}, role: OrgRoles, groups: {NoGroups} \cup Claims,
         places: [Places -> PlaceRoles]]

\* What an administrator, or an OIDC login, asks for.
Op == [kind: {"role", "create"}, target: Users, value: OrgRoles]
        \cup [kind: {"status"}, target: Users, value: {"active", "suspended"}]
        \cup [kind: {"place"}, target: Users, value: PlaceRoles, place: Places]
        \cup [kind: {"mappings"}, table: Tables]
        \cup [kind: {"reconcile"}, only: SUBSET Users]
        \cup [kind: {"login"}, target: Users, groups: {NoGroups} \cup Claims]

\* What mappings come to: a role in the organization and in each place, or none.
Outcome == [Targets -> OrgRoles \cup PlaceRoles]

Steps == {"idle", "read", "count", "write", "maps", "diff", "apply", "provision"}

\* role: the actor's, when authenticated. table: the mappings it has read.
\* todo: the members still to reconcile. late, disturbed: history, that the set of
\* active owners, or anything, was changed by another since the request began.
Request == [step: Steps, role: OrgRoles, op: Op \cup {NoOp}, table: Tables \cup {<<>>},
            todo: SUBSET [user: Users, outcome: Outcome], late: BOOLEAN, disturbed: BOOLEAN]

TypeOK ==
  /\ users \in [Users -> User]
  /\ mappings \in Tables \cup {<<>>}
  /\ req \in [Requests -> Request]
  /\ started \in 0..MaxRequests

IdleRequest == [step |-> "idle", role |-> "viewer", op |-> NoOp, table |-> <<>>, todo |-> {},
                late |-> FALSE, disturbed |-> FALSE]

ActiveOwners(us) == {u \in Users : us[u].status = "active" /\ us[u].role = "owner"}

-------------------------------------------------------------------------------
(* ResolveGroupMappings *)

Rank(role) == CASE role = "owner" -> 4 [] role = "admin" -> 3 [] role = "member" -> 2 [] role = "viewer" -> 1 [] OTHER -> 0

\* Mutant: the later of two mappings of the same priority wins.
BeatsLater(m, prio, role) == role = "none" \/ m.priority >= prio

\* A mapping against the best so far for its target, if there is one: the priority
\* decides, then the role.
Beats(m, prio, role) ==
  \/ role = "none"
  \/ m.priority > prio
  \/ m.priority = prio /\ IF m.target = "org" THEN Rank(m.role) > Rank(role) ELSE m.role = "admin"

\* groups: the user's. A user without groups is in none.
Hits(m, groups) == groups # NoGroups /\ m.group \in groups

Unmapped == [t \in Targets |-> [priority |-> 0, role |-> "none"]]

\* One round of the loop: the mapping m after those that came to best
Consider(best, m, groups) ==
  IF Hits(m, groups) /\ Beats(m, best[m.target].priority, best[m.target].role)
    THEN [best EXCEPT ![m.target] = [priority |-> m.priority, role |-> m.role]]
    ELSE best

ResolveGroupMappings(table, groups) ==
  LET best[i \in 0..Len(table)] == IF i = 0 THEN Unmapped ELSE Consider(best[i - 1], table[i], groups)
  IN [t \in Targets |-> best[Len(table)][t].role]

\* Mutant: roles in places are given and never taken away.
MappedOnly(user, outcome) ==
  [user EXCEPT !.role = IF outcome["org"] = "none" THEN @ ELSE outcome["org"],
               !.places = [p \in Places |-> IF outcome[p] = "none" THEN user.places[p] ELSE outcome[p]]]

\* Mutant: rows are written for places that do not exist.
MappedUnknown(user, outcome) ==
  [user EXCEPT !.role = IF outcome["org"] = "none" THEN @ ELSE outcome["org"],
               !.places = [p \in Places \cup Ghosts |-> outcome[p]]]

\* The roles of a user after ProvisionOIDCIdentity or ApplyMembership: an
\* organization role that no mapping gives is kept, a place's is taken away.
Mapped(user, outcome) ==
  [user EXCEPT !.role = IF outcome["org"] = "none" THEN @ ELSE outcome["org"],
               !.places = [p \in Places |-> outcome[p]]]

\* Reconcile: the targets in which a member differs from what the mappings come to.
\* A target that does not exist differs whenever it is mapped.
Differs(user, outcome) ==
  {t \in Targets : IF t = "org" THEN outcome[t] \notin {"none", user.role}
                   ELSE outcome[t] # (IF t \in Places THEN user.places[t] ELSE "none")}

-------------------------------------------------------------------------------

Return(r) == [req EXCEPT ![r] = IdleRequest]

\* The request r stores the users us and goes on as after says; the others were
\* being served meanwhile.
Write(r, us, after) ==
  /\ users' = us
  /\ req' = [s \in Requests |->
               IF s = r \/ req[s].step = "idle" THEN after[s]
               ELSE [req[s] EXCEPT !.disturbed = TRUE, !.late = @ \/ ActiveOwners(us) # ActiveOwners(users)]]

\* requireAuth, rejectViewerWrites and the permission of the operation
Authorized(a, op) ==
  /\ users[a].status = "active"
  /\ users[a].role # "viewer"
  /\ \/ users[a].role \in {"owner", "admin"}
     \/ op.kind = "place" /\ users[a].places[op.place] = "admin"

Start(r, role, op, step) ==
  /\ req[r].step = "idle"
  /\ started < MaxRequests
  /\ started' = started + 1
  /\ req' = [req EXCEPT ![r] = [IdleRequest EXCEPT !.step = step, !.role = role, !.op = op]]
  /\ UNCHANGED <<users, mappings>>

FirstStep(kind) ==
  CASE kind \in {"role", "status"} -> "read"
    [] kind \in {"reconcile", "login"} -> "maps"
    [] OTHER -> "write"

Begin(r, a, op) ==
  /\ op.kind # "login"
  /\ Authorized(a, op)
  /\ Start(r, users[a].role, op, FirstStep(op.kind))
  /\ (op.kind = "create" /\ op.value = "owner") => users[a].role = "owner"
  /\ (op.kind = "status" /\ op.value = "suspended") => op.target # a

\* CompleteBrowser, when the IdP has told who it is
BeginLogin(r, op) == op.kind = "login" /\ Start(r, "viewer", op, FirstStep(op.kind))

\* Only owners make owners, and only owners take an owner's role or suspend one.
MayTouch(role, op, cur) ==
  \/ role = "owner"
  \/ cur.role # "owner" /\ (op.kind = "role" => op.value # "owner")

\* Owners are counted when one is demoted or suspended.
MustCount(op, cur) == cur.role = "owner" /\ op.value # "owner" /\ op.value # "active"

\* SetMemberRole, setMemberStatus: GetMember
ReadMember(r) ==
  /\ req[r].step = "read"
  /\ LET op == req[r].op
         cur == users[op.target]
     IN req' = IF cur.status # "none" /\ MayTouch(req[r].role, op, cur)
                 THEN [req EXCEPT ![r].step = IF MustCount(op, cur) THEN "count" ELSE "write"]
                 ELSE Return(r)
  /\ UNCHANGED <<users, mappings, started>>

\* Mutant: suspended owners count as owners.
CountAllOwners == Cardinality({u \in Users : users[u].status # "none" /\ users[u].role = "owner"})

CountOwners == Cardinality(ActiveOwners(users))

\* SetMemberRole, setMemberStatus: CountOwners, and refuse to take the last one
CountOthers(r) ==
  /\ req[r].step = "count"
  /\ req' = IF CountOwners <= 1 THEN Return(r) ELSE [req EXCEPT ![r].step = "write"]
  /\ UNCHANGED <<users, mappings, started>>

\* UPDATE users SET role
SetMemberRole(r) ==
  /\ req[r].step = "write" /\ req[r].op.kind = "role"
  /\ Write(r, [users EXCEPT ![req[r].op.target].role = req[r].op.value], Return(r))
  /\ UNCHANGED <<mappings, started>>

\* SuspendUser and ReactivateUser; see Devices for what else a suspension revokes
SetStatus(r) ==
  /\ req[r].step = "write" /\ req[r].op.kind = "status"
  /\ Write(r, [users EXCEPT ![req[r].op.target].status = req[r].op.value], Return(r))
  /\ UNCHANGED <<mappings, started>>

\* CreateLocalMember; a member who is there already is answered ErrEmailTaken
CreateMember(r) ==
  /\ req[r].step = "write" /\ req[r].op.kind = "create"
  /\ LET u == req[r].op.target
         new == [users[u] EXCEPT !.status = "active", !.role = req[r].op.value]
     IN IF users[u].status = "none" THEN Write(r, [users EXCEPT ![u] = new], Return(r))
        ELSE req' = Return(r) /\ UNCHANGED users
  /\ UNCHANGED <<mappings, started>>

\* A role in a team or a project changes, of a user there is.
WritePlace(r) ==
  /\ req[r].step = "write" /\ req[r].op.kind = "place"
  /\ LET op == req[r].op
     IN IF users[op.target].status # "none"
          THEN Write(r, [users EXCEPT ![op.target].places[op.place] = op.value], Return(r))
          ELSE req' = Return(r) /\ UNCHANGED users
  /\ UNCHANGED <<mappings, started>>

\* PutTeamMember, and its like for projects: an upsert
PutTeamMember(r) == WritePlace(r) /\ req[r].op.value # "none"

\* DeleteTeamMember
DeleteTeamMember(r) == WritePlace(r) /\ req[r].op.value = "none"

\* PutGroupMappings, in one transaction
PutMappings(r) ==
  /\ req[r].step = "write" /\ req[r].op.kind = "mappings"
  /\ mappings' = req[r].op.table
  /\ Write(r, users, Return(r))
  /\ UNCHANGED started

\* reconcileDiffs, CompleteBrowser: ListGroupMappings
ReadMappings(r) ==
  /\ req[r].step = "maps"
  /\ req' = [req EXCEPT ![r].step = IF req[r].op.kind = "login" THEN "provision" ELSE "diff", ![r].table = mappings]
  /\ UNCHANGED <<users, mappings, started>>

\* reconcileDiffs: ListOIDCMembers and Reconcile, of those the administrator chose
Reconcile(r) ==
  /\ req[r].step = "diff"
  /\ LET Outcomes(u) == ResolveGroupMappings(req[r].table, users[u].groups)
         todo == {[user |-> u, outcome |-> Outcomes(u)] :
                    u \in {v \in req[r].op.only : /\ users[v].status = "active" /\ users[v].groups # NoGroups
                                                  /\ Differs(users[v], Outcomes(v)) # {}}}
     IN req' = IF todo = {} THEN Return(r) ELSE [req EXCEPT ![r].step = "apply", ![r].todo = todo]
  /\ UNCHANGED <<users, mappings, started>>

\* applyIdPReconcile: ApplyMembership of one member, in a transaction
ApplyMembership(r) ==
  /\ req[r].step = "apply"
  /\ \E d \in req[r].todo :
       Write(r, [users EXCEPT ![d.user] = Mapped(@, d.outcome)],
             IF req[r].todo = {d} THEN Return(r) ELSE [req EXCEPT ![r].todo = @ \ {d}])
  /\ UNCHANGED <<mappings, started>>

\* ProvisionOIDCIdentity, in a transaction: whoever is no member and gets no role
\* in the organization stays out; a member who gets none keeps the one they have.
Provision(r) ==
  /\ req[r].step = "provision"
  /\ LET op == req[r].op
         cur == users[op.target]
         outcome == ResolveGroupMappings(req[r].table, op.groups)
         member == IF cur.status = "none" THEN [cur EXCEPT !.status = "active"] ELSE cur
     IN IF cur.status = "none" /\ outcome["org"] = "none"
          THEN req' = Return(r) /\ UNCHANGED users
          ELSE Write(r, [users EXCEPT ![op.target] = [Mapped(member, outcome) EXCEPT !.groups = op.groups]], Return(r))
  /\ UNCHANGED <<mappings, started>>

\* A request stops between two statements.
Abandon(r) ==
  /\ req[r].step # "idle"
  /\ req' = Return(r)
  /\ UNCHANGED <<users, mappings, started>>

-------------------------------------------------------------------------------

Init ==
  /\ users = [u \in Users |-> [status |-> IF u \in Founders THEN "active" ELSE "none",
                               role |-> IF u \in Founders THEN "owner" ELSE "member",
                               groups |-> NoGroups, places |-> [p \in Places |-> "none"]]]
  /\ mappings = <<>>
  /\ req = [r \in Requests |-> IdleRequest]
  /\ started = 0

Serve(r) ==
  \/ ReadMember(r) \/ CountOthers(r) \/ SetMemberRole(r) \/ SetStatus(r)
  \/ CreateMember(r) \/ PutTeamMember(r) \/ DeleteTeamMember(r) \/ PutMappings(r)
  \/ ReadMappings(r) \/ Reconcile(r) \/ ApplyMembership(r) \/ Provision(r)
  \/ Abandon(r)

Next ==
  \E r \in Requests :
     \/ \E a \in Users, op \in Op : Begin(r, a, op)
     \/ \E op \in Op : BeginLogin(r, op)
     \/ Serve(r)

Spec == Init /\ [][Next]_vars

-------------------------------------------------------------------------------
(* Properties *)

\* The step is one of request r.
Acts(r) == req'[r].step # req[r].step \/ req'[r].todo # req[r].todo

ByIdP(r) == req[r].op.kind \in {"login", "reconcile"}

\* An administrator's request leaves an active owner in the organization, unless
\* the owners changed between the moment it looked and the moment it wrote
\* (SetMemberRole and setMemberStatus count in one statement and write in another).
LastOwnerKept ==
  [][\A r \in Requests :
       (Acts(r) /\ ActiveOwners(users) # {} /\ ActiveOwners(users') = {}) => (ByIdP(r) \/ req[r].late)]_vars

\* Whatever the order in which mappings are listed, a user gets in each target the
\* highest role among the mappings of the highest priority that hit their groups.
MappingsDecide ==
  \A groups \in Claims, t \in Targets :
     LET hits == {mappings[i] : i \in {j \in DOMAIN mappings : mappings[j].target = t /\ Hits(mappings[j], groups)}}
         best == {m \in hits : \A n \in hits : n.priority <= m.priority}
         got == ResolveGroupMappings(mappings, groups)[t]
     IN IF hits = {} THEN got = "none"
        ELSE (\E m \in best : m.role = got) /\ \A m \in best : Rank(m.role) <= Rank(got)

\* Reconciling settles: when a reconciliation of all members ends and nothing was
\* written by others meanwhile, a second one would find no difference, but for
\* mappings to teams and projects that do not exist.
ReconcileSettles ==
  [][\A r \in Requests :
       (ApplyMembership(r) /\ req'[r].step = "idle" /\ ~req[r].disturbed) =>
          \A u \in req[r].op.only :
             (users[u].status = "active" /\ users[u].groups # NoGroups) =>
                Differs(users'[u], ResolveGroupMappings(mappings, users[u].groups)) \subseteq Ghosts]_vars

===============================================================================
