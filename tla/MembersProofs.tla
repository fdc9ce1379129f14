---------------------------- MODULE MembersProofs -----------------------------
(***************************************************************************)
(* Proofs about Members, for any number of accounts, of owners, of         *)
(* mappings and of requests in flight: an administrator's request does not *)
(* take the last owner away unless the owners changed while it was being   *)
(* served; mappings decide the same roles in whatever order they are       *)
(* listed; a reconciliation nobody disturbs leaves nothing for a second.   *)
(***************************************************************************)
EXTENDS Members, FiniteSetTheorems, TLAPS

-------------------------------------------------------------------------------
(* The inductive invariant *)

\* Rows whose columns hold anything in V; what mappings write in them is not looked at.
Rows(V) == [status: V, role: V, groups: V, places: V]
Slots(V) == [step: Steps, role: V, op: V, table: V, todo: V, late: BOOLEAN, disturbed: BOOLEAN]

Shapes ==
  /\ \E V : users \in [Users -> Rows(V)]
  /\ \E V : req \in [Requests -> Slots(V)]

\* Requests of administrators and of the IdP go different ways.
KindInv(q) ==
  /\ q.step \in {"read", "count"} => q.op.kind \in {"role", "status"}
  /\ q.step \in {"maps", "diff", "apply", "provision"} => q.op.kind \in {"login", "reconcile"}
  /\ q.step # "idle" /\ q.op.kind = "role" => q.op.value \in OrgRoles
  /\ q.step # "idle" /\ q.op.kind = "status" => q.op.value \in {"active", "suspended"}

\* A change after which its member is no active owner, for all one can see from it
Removes(op) == op.kind \in {"role", "status"} /\ op.value \notin {"owner", "active"}

\* A request that is about to take an owner away has counted another, if the owners
\* are those it has seen.
CountInv(q, owners) ==
  q.step = "write" /\ ~q.late /\ Removes(q.op) /\ q.op.target \in owners => Cardinality(owners) > 1

Owners == ActiveOwners(users)

ReqsInv == \A r \in Requests : KindInv(req[r]) /\ CountInv(req[r], Owners)

IInv == Shapes /\ ReqsInv

-------------------------------------------------------------------------------
(* Lemmas *)

LEMMA OwnersFinite ==
  ASSUME NEW us
  PROVE  IsFiniteSet(ActiveOwners(us)) /\ Cardinality(ActiveOwners(us)) \in Nat
<1>1. ActiveOwners(us) \in SUBSET Users
  BY DEF ActiveOwners
<1>2. IsFiniteSet(ActiveOwners(us))
  BY <1>1, FoundersAssumption, FS_Subset
<1>. QED BY <1>2, FS_CardinalityType

\* Of more than one owner, one remains.
LEMMA OneRemains ==
  ASSUME NEW us, Cardinality(ActiveOwners(us)) > 1, NEW u
  PROVE  ActiveOwners(us) \ {u} # {}
<1>. DEFINE S == ActiveOwners(us)
<1>1. IsFiniteSet(S) /\ Cardinality(S) \in Nat
  BY OwnersFinite
<1>2. SUFFICES ASSUME S \ {u} = {} PROVE FALSE
  OBVIOUS
<1>3. S = {} \/ S = {u}
  BY <1>2
<1>4. Cardinality(S) = 0 \/ Cardinality(S) = 1
  BY <1>3, FS_EmptySet, FS_Singleton
<1>. QED BY <1>4

\* One row is written.
LEMMA NewRow ==
  ASSUME Shapes, NEW t, NEW row, NEW W, t \in Users => row \in Rows(W), users' = [users EXCEPT ![t] = row]
  PROVE  /\ \E V : users' \in [Users -> Rows(V)]
         /\ \A u \in Users : u # t => users'[u] = users[u]
         /\ t \in Users => users'[t] = row
<1>1. PICK V : users \in [Users -> Rows(V)]
  BY DEF Shapes
<1>2. \A u \in Users : users'[u] \in Rows(V \cup W)
  <2>1. \A u \in Users : users[u] \in Rows(V \cup W)
    BY <1>1 DEF Rows
  <2>2. t \in Users => row \in Rows(V \cup W)
    BY DEF Rows
  <2>. QED BY <1>1, <2>1, <2>2
<1>3. users' \in [Users -> Rows(V \cup W)]
  BY <1>1, <1>2
<1>. QED BY <1>1, <1>3

\* A request goes on as q.
LEMMA NewSlot ==
  ASSUME Shapes, NEW r \in Requests, NEW q, NEW W, q \in Slots(W), req' = [req EXCEPT ![r] = q]
  PROVE  /\ \E V : req' \in [Requests -> Slots(V)]
         /\ \A s \in Requests : s # r => req'[s] = req[s]
         /\ req'[r] = q
<1>1. PICK V : req \in [Requests -> Slots(V)]
  BY DEF Shapes
<1>2. \A s \in Requests : req'[s] \in Slots(V \cup W)
  <2>1. \A s \in Requests : req[s] \in Slots(V \cup W)
    BY <1>1 DEF Slots
  <2>2. q \in Slots(V \cup W)
    BY DEF Slots
  <2>. QED BY <1>1, <2>1, <2>2
<1>3. req' \in [Requests -> Slots(V \cup W)]
  BY <1>1, <1>2
<1>. QED BY <1>1, <1>3

LEMMA IdleSlot ==
  /\ IdleRequest \in Slots({"viewer", NoOp, <<>>, {}})
  /\ IdleRequest.step = "idle" /\ KindInv(IdleRequest) /\ \A owners : CountInv(IdleRequest, owners)
  BY DEF IdleRequest, Slots, Steps, KindInv, CountInv

\* A request goes on to another step.
LEMMA StepSlot ==
  ASSUME NEW W, NEW q \in Slots(W), NEW step \in Steps
  PROVE  LET n == [q EXCEPT !.step = step]
         IN n \in Slots(W) /\ n.step = step /\ n.op = q.op /\ n.late = q.late
  BY DEF Slots

\* What a write tells the requests that are being served.
Told(q) == [[q EXCEPT !.disturbed = TRUE] EXCEPT !.late = q.late \/ Owners' # Owners]

LEMMA ToldSlot ==
  ASSUME NEW W, NEW q \in Slots(W)
  PROVE  /\ Told(q) \in Slots(W) /\ Told(q).step = q.step /\ Told(q).op = q.op /\ Told(q).todo = q.todo
         /\ ~Told(q).late => ~q.late /\ Owners' = Owners
<1>. DEFINE n == [q EXCEPT !.disturbed = TRUE]
            l == q.late \/ Owners' # Owners
            m == [n EXCEPT !.late = l]
<1>1. n \in Slots(W) /\ n.step = q.step /\ n.op = q.op /\ n.todo = q.todo
  BY DEF Slots
<1>2. l \in BOOLEAN
  OBVIOUS
<1>3. Told(q) = m
  BY DEF Told
<1>. HIDE DEF n, l
<1>4. m \in Slots(W) /\ m.step = n.step /\ m.op = n.op /\ m.todo = n.todo /\ m.late = l
  BY <1>1, <1>2 DEF Slots
<1>. HIDE DEF m
<1>. QED BY <1>1, <1>3, <1>4 DEF l

\* The invariant of a request that did not move, by what it is told.
LEMMA OthersKeep ==
  ASSUME IInv, NEW s \in Requests,
         \/ req'[s] = req[s] /\ (Owners' = Owners \/ req[s].step = "idle")
         \/ req'[s] = Told(req[s])
  PROVE  KindInv(req'[s]) /\ CountInv(req'[s], Owners')
<1>1. PICK W : req[s] \in Slots(W)
  BY DEF IInv, Shapes
<1>2. KindInv(req[s]) /\ CountInv(req[s], Owners)
  BY DEF IInv, ReqsInv
<1>3. CASE req'[s] = req[s] /\ (Owners' = Owners \/ req[s].step = "idle")
  BY <1>2, <1>3 DEF CountInv
<1>4. CASE req'[s] = Told(req[s])
  BY <1>1, <1>2, <1>4, ToldSlot DEF KindInv, CountInv
<1>. QED BY <1>3, <1>4

\* A request writes and goes on as q.
LEMMA WriteFacts ==
  ASSUME IInv, NEW r \in Requests, NEW us, NEW q, NEW W, q \in Slots(W), Write(r, us, [req EXCEPT ![r] = q])
  PROVE  /\ users' = us /\ req'[r] = q
         /\ \E V : req' \in [Requests -> Slots(V)]
         /\ \A s \in Requests \ {r} :
              /\ req'[s].step = req[s].step /\ req'[s].todo = req[s].todo
              /\ KindInv(req'[s]) /\ CountInv(req'[s], Owners')
<1>1. PICK V : req \in [Requests -> Slots(V)]
  BY DEF IInv, Shapes
<1>2. users' = us /\ Owners' = ActiveOwners(us)
  BY DEF Write, Owners
<1>3. /\ req'[r] = q /\ req' = [s \in Requests |-> req'[s]]
      /\ \A s \in Requests \ {r} : req'[s] = IF req[s].step = "idle" THEN req[s] ELSE Told(req[s])
  BY <1>1, <1>2 DEF Write, Told, Owners
<1>4. ASSUME NEW s \in Requests \ {r}
      PROVE  /\ req'[s] \in Slots(V) /\ req'[s].step = req[s].step /\ req'[s].todo = req[s].todo
             /\ KindInv(req'[s]) /\ CountInv(req'[s], Owners')
  <2>1. req[s] \in Slots(V)
    BY <1>1
  <2>2. (req'[s] = req[s] /\ req[s].step = "idle") \/ req'[s] = Told(req[s])
    BY <1>3
  <2>. QED BY <2>1, <2>2, ToldSlot, OthersKeep
<1>5. \A s \in Requests : req'[s] \in Slots(V \cup W)
  <2>1. q \in Slots(V \cup W)
    BY DEF Slots
  <2>2. \A s \in Requests \ {r} : req'[s] \in Slots(V \cup W)
    BY <1>4 DEF Slots
  <2>. QED BY <1>3, <2>1, <2>2
<1>6. req' \in [Requests -> Slots(V \cup W)]
  BY <1>3, <1>5
<1>. QED BY <1>2, <1>3, <1>4, <1>6

\* A step of one request that writes nothing.
LEMMA QuietStep ==
  ASSUME IInv, NEW r \in Requests, NEW q, NEW W, q \in Slots(W), req' = [req EXCEPT ![r] = q],
         UNCHANGED users, KindInv(q), CountInv(q, Owners)
  PROVE  IInv' /\ Owners' = Owners
<1>1. Owners' = Owners /\ \E V : users' \in [Users -> Rows(V)]
  BY DEF Owners, IInv, Shapes
<1>2. /\ \E V : req' \in [Requests -> Slots(V)]
      /\ \A s \in Requests : s # r => req'[s] = req[s]
      /\ req'[r] = q
  BY NewSlot DEF IInv
<1>3. \A s \in Requests : KindInv(req'[s]) /\ CountInv(req'[s], Owners')
  BY <1>1, <1>2, OthersKeep
<1>. QED BY <1>1, <1>2, <1>3 DEF IInv, Shapes, ReqsInv

LEMMA ReturnStep ==
  ASSUME IInv, NEW r \in Requests, req' = Return(r), UNCHANGED users
  PROVE  IInv' /\ Owners' = Owners
  BY IdleSlot, QuietStep DEF Return

\* What a request that writes makes of the users: the promise of LastOwnerKept for it.
KeptBy(r) == Owners # {} /\ Owners' = {} => ByIdP(r) \/ req[r].late

\* A request writes one row and is done.
LEMMA WriteStep ==
  ASSUME IInv, NEW r \in Requests, NEW q, NEW Q, q \in Slots(Q), KindInv(q), \A owners : CountInv(q, owners),
         NEW t, NEW row, NEW W, t \in Users => row \in Rows(W),
         Write(r, [users EXCEPT ![t] = row], [req EXCEPT ![r] = q])
  PROVE  IInv' /\ \A s \in Requests \ {r} : ~Acts(s)
<1>1. /\ users' = [users EXCEPT ![t] = row] /\ req'[r] = q
      /\ \E V : req' \in [Requests -> Slots(V)]
      /\ \A s \in Requests \ {r} :
           /\ req'[s].step = req[s].step /\ req'[s].todo = req[s].todo
           /\ KindInv(req'[s]) /\ CountInv(req'[s], Owners')
  BY WriteFacts
<1>2. \E V : users' \in [Users -> Rows(V)]
  BY <1>1, NewRow DEF IInv
<1>3. ReqsInv'
  BY <1>1 DEF ReqsInv
<1>. QED BY <1>1, <1>2, <1>3 DEF IInv, Shapes, Acts

-------------------------------------------------------------------------------
(* The steps *)

Keeps == IInv' /\ \A s \in Requests : Acts(s) => KeptBy(s)

LEMMA QuietKeeps ==
  ASSUME IInv', Owners' = Owners
  PROVE  Keeps
  BY DEF Keeps, KeptBy

\* Requests come in and are read on.
LEMMA BeginKeeps ==
  ASSUME IInv, NEW r \in Requests, NEW op \in Op, BeginLogin(r, op) \/ \E a \in Users : Begin(r, a, op)
  PROVE  Keeps
<1>1. PICK role, step : Start(r, role, op, step) /\ step = FirstStep(op.kind)
  BY DEF Begin, BeginLogin
<1>. DEFINE p == [IdleRequest EXCEPT !.step = step]
            p1 == [p EXCEPT !.role = role]
            q == [p1 EXCEPT !.op = op]
            V == {role, op, "viewer", NoOp, <<>>, {}}
<1>2. req' = [req EXCEPT ![r] = q] /\ UNCHANGED users
  BY <1>1 DEF Start
<1>3. step \in {"read", "maps", "write"}
  BY <1>1 DEF FirstStep
<1>4. /\ step = "read" => op.kind \in {"role", "status"}
      /\ step = "maps" => op.kind \in {"login", "reconcile"}
      /\ step = "write" => op.kind \notin {"role", "status"}
  BY <1>1 DEF FirstStep
<1>5. /\ op.kind = "role" => op.value \in OrgRoles
      /\ op.kind = "status" => op.value \in {"active", "suspended"}
  BY DEF Op
<1>6. p \in Slots(V) /\ p.step = step
  BY <1>3 DEF IdleRequest, Slots, Steps
<1>. HIDE DEF p
<1>7. p1 \in Slots(V) /\ p1.step = step
  BY <1>6 DEF Slots
<1>. HIDE DEF p1
<1>8. q \in Slots(V) /\ q.step = step /\ q.op = op
  BY <1>7 DEF Slots
<1>. HIDE DEF q, V
<1>9. KindInv(q) /\ CountInv(q, Owners)
  BY <1>3, <1>4, <1>5, <1>8 DEF KindInv, CountInv, Removes
<1>. QED BY <1>2, <1>8, <1>9, QuietStep, QuietKeeps

LEMMA ReadKeeps ==
  ASSUME IInv, NEW r \in Requests, ReadMember(r) \/ CountOthers(r)
  PROVE  Keeps
<1>. DEFINE op == req[r].op
<1>1. PICK W : req \in [Requests -> Slots(W)]
  BY DEF IInv, Shapes
<1>2. PICK V : users \in [Users -> Rows(V)]
  BY DEF IInv, Shapes
<1>3. KindInv(req[r]) /\ UNCHANGED users
  BY DEF IInv, ReqsInv, ReadMember, CountOthers
<1>4. CASE req' = Return(r)
  BY <1>3, <1>4, ReturnStep, QuietKeeps
<1>5. ASSUME NEW step \in {"count", "write"}, req' = [req EXCEPT ![r].step = step], req[r].step \in {"read", "count"},
             step = "write" => \/ op.target \notin Owners \/ ~Removes(op) \/ Cardinality(Owners) > 1
      PROVE  Keeps
  <2>. DEFINE q == [req[r] EXCEPT !.step = step]
  <2>1. req' = [req EXCEPT ![r] = q]
    BY <1>1, <1>5
  <2>a. req[r] \in Slots(W) /\ step \in Steps
    BY <1>1 DEF Steps
  <2>2. q \in Slots(W) /\ q.step = step /\ q.op = op /\ q.late = req[r].late
    BY <2>a, StepSlot
  <2>. HIDE DEF q
  <2>3. KindInv(q)
    BY <1>3, <1>5, <2>2 DEF KindInv
  <2>4. CountInv(q, Owners)
    BY <1>5, <2>2 DEF CountInv
  <2>. QED BY <1>3, <2>1, <2>2, <2>3, <2>4, QuietStep, QuietKeeps
<1>6. CASE ReadMember(r)
  <2>1. req[r].step = "read"
    BY <1>6 DEF ReadMember
  <2>2. ~MustCount(op, users[op.target]) => op.target \notin Owners \/ ~Removes(op)
    BY DEF MustCount, Owners, ActiveOwners, Removes
  <2>3. \/ req' = Return(r)
        \/ req' = [req EXCEPT ![r].step = "count"]
        \/ ~MustCount(op, users[op.target]) /\ req' = [req EXCEPT ![r].step = "write"]
    BY <1>6 DEF ReadMember
  <2>. QED BY <1>4, <1>5, <2>1, <2>2, <2>3
<1>7. CASE CountOthers(r)
  <2>1. req[r].step = "count"
    BY <1>7 DEF CountOthers
  <2>2. req' = Return(r) \/ (~(CountOwners <= 1) /\ req' = [req EXCEPT ![r].step = "write"])
    BY <1>7 DEF CountOthers
  <2>3. ~(CountOwners <= 1) => Cardinality(Owners) > 1
    BY OwnersFinite DEF CountOwners, Owners
  <2>. QED BY <1>4, <1>5, <2>1, <2>2, <2>3
<1>. QED BY <1>6, <1>7

LEMMA MappingsKeep ==
  ASSUME IInv, NEW r \in Requests, ReadMappings(r) \/ Reconcile(r) \/ Abandon(r)
  PROVE  Keeps
<1>1. PICK W : req \in [Requests -> Slots(W)]
  BY DEF IInv, Shapes
<1>2. KindInv(req[r]) /\ UNCHANGED users
  BY DEF IInv, ReqsInv, ReadMappings, Reconcile, Abandon
<1>3. CASE req' = Return(r)
  BY <1>2, <1>3, ReturnStep, QuietKeeps
<1>4. CASE ReadMappings(r)
  <2>. DEFINE step == IF req[r].op.kind = "login" THEN "provision" ELSE "diff"
              p == [req[r] EXCEPT !.step = step]
              q == [p EXCEPT !.table = mappings]
              V == W \cup {mappings}
  <2>1. req' = [req EXCEPT ![r] = q] /\ req[r].step = "maps"
    BY <1>1, <1>4 DEF ReadMappings
  <2>a. req[r] \in Slots(V)
    BY <1>1 DEF Slots
  <2>2. step \in {"provision", "diff"} /\ step \in Steps
    BY DEF Steps
  <2>. HIDE DEF step, V
  <2>3. p \in Slots(V) /\ p.step = step /\ p.op = req[r].op
    BY <2>a, <2>2, StepSlot
  <2>. USE DEF V
  <2>. HIDE DEF p
  <2>4. q \in Slots(V) /\ q.step = step /\ q.op = req[r].op
    BY <2>3 DEF Slots
  <2>. HIDE DEF q, V
  <2>5. KindInv(q) /\ CountInv(q, Owners)
    BY <1>2, <2>1, <2>2, <2>4 DEF KindInv, CountInv
  <2>. QED BY <1>2, <2>1, <2>4, <2>5, QuietStep, QuietKeeps
<1>5. CASE Reconcile(r)
  <2>1. req[r].step = "diff" /\ \E todo : req' = Return(r) \/ req' = [req EXCEPT ![r].step = "apply", ![r].todo = todo]
    BY <1>5 DEF Reconcile
  <2>2. PICK todo : req' = Return(r) \/ req' = [req EXCEPT ![r].step = "apply", ![r].todo = todo]
    BY <2>1
  <2>. DEFINE p == [req[r] EXCEPT !.step = "apply"]
              q == [p EXCEPT !.todo = todo]
              V == W \cup {todo}
  <2>3. req[r] \in Slots(V)
    BY <1>1 DEF Slots
  <2>4. p \in Slots(V) /\ p.step = "apply" /\ p.op = req[r].op
    BY <2>3, StepSlot DEF Steps
  <2>5. req' = Return(r) \/ req' = [req EXCEPT ![r] = q]
    BY <1>1, <2>2
  <2>. HIDE DEF p
  <2>6. q \in Slots(V) /\ q.step = "apply" /\ q.op = req[r].op
    BY <2>4 DEF Slots
  <2>. HIDE DEF q, V
  <2>7. KindInv(q) /\ CountInv(q, Owners)
    BY <1>2, <2>1, <2>6 DEF KindInv, CountInv
  <2>. QED BY <1>2, <1>3, <2>5, <2>6, <2>7, QuietStep, QuietKeeps
<1>6. CASE Abandon(r)
  BY <1>3, <1>6 DEF Abandon
<1>. QED BY <1>4, <1>5, <1>6

\* An administrator's request writes the row of a member.
LEMMA RowKeeps ==
  ASSUME IInv, NEW r \in Requests, NEW row, NEW W, NEW t, t \in Users => row \in Rows(W),
         Write(r, [users EXCEPT ![t] = row], Return(r)),
         t \in Owners => \/ row.status = "active" /\ row.role = "owner"
                         \/ Cardinality(Owners) > 1 \/ req[r].late \/ ByIdP(r)
  PROVE  Keeps
<1>1. /\ IInv' /\ \A s \in Requests \ {r} : ~Acts(s)
      /\ \A u \in Users : u # t => users'[u] = users[u]
      /\ t \in Users => users'[t] = row
  <2>. DEFINE q == IdleRequest
  <2>1. Write(r, [users EXCEPT ![t] = row], [req EXCEPT ![r] = q])
    BY DEF Return
  <2>2. KindInv(q) /\ \A owners : CountInv(q, owners)
    BY IdleSlot
  <2>3. PICK Q : q \in Slots(Q)
    BY IdleSlot
  <2>. HIDE DEF q
  <2>4. t \in Users => row \in Rows(W)
    OBVIOUS
  <2>5. IInv' /\ \A s \in Requests \ {r} : ~Acts(s)
    BY <2>1, <2>2, <2>3, <2>4, WriteStep
  <2>6. users' = [users EXCEPT ![t] = row]
    BY <2>1 DEF Write
  <2>7. (\A u \in Users : u # t => users'[u] = users[u]) /\ (t \in Users => users'[t] = row)
    BY <2>4, <2>6, NewRow DEF IInv
  <2>. QED BY <2>5, <2>7
<1>2. Owners \ {t} \subseteq Owners'
  BY <1>1 DEF Owners, ActiveOwners
<1>3. KeptBy(r)
  <2>1. CASE Cardinality(Owners) > 1
    <3>1. Owners \ {t} # {}
      BY <2>1, OneRemains DEF Owners
    <3>. QED BY <1>2, <3>1 DEF KeptBy
  <2>2. CASE t \notin Owners
    BY <1>2, <2>2 DEF KeptBy
  <2>3. CASE t \in Owners /\ row.status = "active" /\ row.role = "owner"
    <3>1. t \in Users
      BY <2>3 DEF Owners, ActiveOwners
    <3>2. t \in Owners'
      BY <1>1, <2>3, <3>1 DEF Owners, ActiveOwners
    <3>. QED BY <3>2 DEF KeptBy
  <2>4. CASE req[r].late \/ ByIdP(r)
    BY <2>4 DEF KeptBy
  <2>. QED BY <2>1, <2>2, <2>3, <2>4
<1>. QED BY <1>1, <1>3 DEF Keeps

\* SetMemberRole and setMemberStatus took the owner they saw for the last one, or
\* counted another.
LEMMA SetKeeps ==
  ASSUME IInv, NEW r \in Requests, SetMemberRole(r) \/ SetStatus(r)
  PROVE  Keeps
<1>. DEFINE t == req[r].op.target
            v == req[r].op.value
<1>1. PICK V : users \in [Users -> Rows(V)]
  BY DEF IInv, Shapes
<1>2. KindInv(req[r]) /\ CountInv(req[r], Owners) /\ req[r].step = "write"
  BY DEF IInv, ReqsInv, SetMemberRole, SetStatus
<1>3. req[r].op.kind \in {"role", "status"} /\ t \in Owners /\ v \notin {"owner", "active"}
        => Cardinality(Owners) > 1 \/ req[r].late
  BY <1>2 DEF CountInv, Removes
<1>4. t \in Owners => t \in Users /\ users[t].status = "active" /\ users[t].role = "owner"
  BY DEF Owners, ActiveOwners
<1>5. CASE SetMemberRole(r)
  <2>. DEFINE row == [users[t] EXCEPT !.role = v]
              W == V \cup {v}
  <2>1. Write(r, [users EXCEPT ![t] = row], Return(r)) /\ req[r].op.kind = "role"
    BY <1>1, <1>5 DEF SetMemberRole
  <2>2. t \in Users => row \in Rows(W) /\ row.role = v /\ row.status = users[t].status
    BY <1>1 DEF Rows
  <2>3. v # "active"
    BY <1>2, <2>1 DEF KindInv, OrgRoles
  <2>. HIDE DEF row, W, t, v
  <2>4. t \in Owners => \/ row.status = "active" /\ row.role = "owner"
                        \/ Cardinality(Owners) > 1 \/ req[r].late
    BY <1>3, <1>4, <2>1, <2>2, <2>3
  <2>. QED BY <2>1, <2>2, <2>4, RowKeeps
<1>6. CASE SetStatus(r)
  <2>. DEFINE row == [users[t] EXCEPT !.status = v]
              W == V \cup {v}
  <2>1. Write(r, [users EXCEPT ![t] = row], Return(r)) /\ req[r].op.kind = "status"
    BY <1>1, <1>6 DEF SetStatus
  <2>2. t \in Users => row \in Rows(W) /\ row.status = v /\ row.role = users[t].role
    BY <1>1 DEF Rows
  <2>3. v # "owner"
    BY <1>2, <2>1 DEF KindInv
  <2>. HIDE DEF row, W, t, v
  <2>4. t \in Owners => \/ row.status = "active" /\ row.role = "owner"
                        \/ Cardinality(Owners) > 1 \/ req[r].late
    BY <1>3, <1>4, <2>1, <2>2, <2>3
  <2>. QED BY <2>1, <2>2, <2>4, RowKeeps
<1>. QED BY <1>5, <1>6

\* Members come in, places are given and taken: no owner is touched.
LEMMA PlaceKeeps ==
  ASSUME IInv, NEW r \in Requests, CreateMember(r) \/ PutTeamMember(r) \/ DeleteTeamMember(r) \/ PutMappings(r)
  PROVE  Keeps
<1>. DEFINE t == req[r].op.target
<1>1. PICK V : users \in [Users -> Rows(V)]
  BY DEF IInv, Shapes
<1>2. ASSUME req' = Return(r), UNCHANGED users
      PROVE  Keeps
  BY <1>2, ReturnStep, QuietKeeps
<1>3. t \in Owners => t \in Users /\ users[t].status = "active" /\ users[t].role = "owner"
  BY DEF Owners, ActiveOwners
<1>4. CASE CreateMember(r)
  <2>. DEFINE role == req[r].op.value
              p == [users[t] EXCEPT !.status = "active"]
              row == [p EXCEPT !.role = role]
              W == V \cup {"active", role}
  <2>1. \/ req' = Return(r) /\ UNCHANGED users
        \/ users[t].status = "none" /\ Write(r, [users EXCEPT ![t] = row], Return(r))
    BY <1>4 DEF CreateMember
  <2>2. t \in Users => p \in Rows(W)
    BY <1>1 DEF Rows
  <2>. HIDE DEF p
  <2>3. t \in Users => row \in Rows(W)
    BY <2>2 DEF Rows
  <2>. HIDE DEF row, W, t
  <2>. QED BY <1>2, <1>3, <2>1, <2>3, RowKeeps
<1>5. CASE PutTeamMember(r) \/ DeleteTeamMember(r)
  <2>. DEFINE at == [users[t].places EXCEPT ![req[r].op.place] = req[r].op.value]
              row == [users[t] EXCEPT !.places = at]
              W == V \cup {at}
  <2>1. \/ req' = Return(r) /\ UNCHANGED users
        \/ Write(r, [users EXCEPT ![t] = row], Return(r))
    BY <1>1, <1>5 DEF PutTeamMember, DeleteTeamMember, WritePlace
  <2>. HIDE DEF at
  <2>2. t \in Users => row \in Rows(W) /\ row.role = users[t].role /\ row.status = users[t].status
    BY <1>1 DEF Rows
  <2>. HIDE DEF row, W, t
  <2>. QED BY <1>2, <1>3, <2>1, <2>2, RowKeeps
<1>6. CASE PutMappings(r)
  <2>1. Write(r, users, Return(r))
    BY <1>6 DEF PutMappings
  <2>2. Write(r, users, [req EXCEPT ![r] = IdleRequest])
    BY <2>1 DEF Return
  <2>3. PICK Q : IdleRequest \in Slots(Q)
    BY IdleSlot
  <2>4. /\ users' = users /\ req'[r] = IdleRequest
        /\ \E W : req' \in [Requests -> Slots(W)]
        /\ \A s \in Requests \ {r} : KindInv(req'[s]) /\ CountInv(req'[s], Owners')
    BY <2>2, <2>3, WriteFacts
  <2>5. IInv'
    BY <1>1, <2>4, IdleSlot DEF IInv, Shapes, ReqsInv
  <2>6. Owners' = Owners
    BY <2>4 DEF Owners
  <2>. QED BY <2>5, <2>6, QuietKeeps
<1>. QED BY <1>4, <1>5, <1>6

\* A member's roles come from the mappings, whatever these come to.
LEMMA MappedRow ==
  ASSUME NEW V, NEW user \in Rows(V), NEW outcome
  PROVE  \E W : Mapped(user, outcome) \in Rows(W)
<1>. DEFINE role == IF outcome["org"] = "none" THEN user.role ELSE outcome["org"]
            places == [p \in Places |-> outcome[p]]
            p == [user EXCEPT !.role = role]
            row == [p EXCEPT !.places = places]
            W == V \cup {role, places}
<1>1. Mapped(user, outcome) = row
  BY DEF Mapped
<1>. HIDE DEF role, places
<1>2. p \in Rows(W)
  BY DEF Rows
<1>. HIDE DEF p
<1>3. row \in Rows(W)
  BY <1>2 DEF Rows
<1>. QED BY <1>1, <1>3

LEMMA IdPKeeps ==
  ASSUME IInv, NEW r \in Requests, ApplyMembership(r) \/ Provision(r)
  PROVE  Keeps
<1>1. PICK V : users \in [Users -> Rows(V)]
  BY DEF IInv, Shapes
<1>2. PICK X : req \in [Requests -> Slots(X)]
  BY DEF IInv, Shapes
<1>3. KindInv(req[r]) /\ ByIdP(r)
  BY DEF IInv, ReqsInv, KindInv, ByIdP, ApplyMembership, Provision
\* Its request writes a row and goes on as q.
<1>4. ASSUME NEW q, NEW Q, q \in Slots(Q), KindInv(q), \A owners : CountInv(q, owners),
             NEW t, NEW row, NEW W, t \in Users => row \in Rows(W),
             Write(r, [users EXCEPT ![t] = row], [req EXCEPT ![r] = q])
      PROVE  Keeps
  <2>1. IInv' /\ \A s \in Requests \ {r} : ~Acts(s)
    BY <1>4, WriteStep
  <2>. QED BY <1>3, <2>1 DEF Keeps, KeptBy
<1>5. CASE ApplyMembership(r)
  <2>1. PICK d \in req[r].todo :
          Write(r, [users EXCEPT ![d.user] = Mapped(@, d.outcome)],
                IF req[r].todo = {d} THEN Return(r) ELSE [req EXCEPT ![r].todo = @ \ {d}])
    BY <1>5 DEF ApplyMembership
  <2>. DEFINE t == d.user
              row == Mapped(users[t], d.outcome)
              todo == req[r].todo \ {d}
              p == [req[r] EXCEPT !.todo = todo]
              q == IF req[r].todo = {d} THEN IdleRequest ELSE p
              Q == X \cup {todo} \cup {"viewer", NoOp, <<>>, {}}
  <2>2. Write(r, [users EXCEPT ![t] = row], [req EXCEPT ![r] = q])
    BY <1>2, <2>1 DEF Return
  <2>3. PICK W : t \in Users => row \in Rows(W)
    BY <1>1, MappedRow
  <2>4. req[r].step = "apply"
    BY <1>5 DEF ApplyMembership
  <2>5. p \in Slots(Q) /\ p.step = "apply" /\ p.op = req[r].op
    BY <1>2, <2>4 DEF Slots, Steps
  <2>6. IdleRequest \in Slots(Q)
    BY IdleSlot DEF Slots
  <2>. HIDE DEF p, Q, row, t
  <2>7. q \in Slots(Q) /\ (q = IdleRequest \/ (q.step = "apply" /\ q.op = req[r].op))
    BY <2>5, <2>6
  <2>. HIDE DEF q
  <2>8. KindInv(q) /\ \A owners : CountInv(q, owners)
    BY <1>3, <2>4, <2>7, IdleSlot DEF KindInv, CountInv
  <2>. QED BY <1>4, <2>2, <2>3, <2>7, <2>8
<1>6. CASE Provision(r)
  <2>. DEFINE op == req[r].op
              t == op.target
              outcome == ResolveGroupMappings(req[r].table, op.groups)
              member == IF users[t].status = "none" THEN [users[t] EXCEPT !.status = "active"] ELSE users[t]
              p == Mapped(member, outcome)
              row == [p EXCEPT !.groups = op.groups]
  <2>1. \/ req' = Return(r) /\ UNCHANGED users
        \/ Write(r, [users EXCEPT ![t] = row], [req EXCEPT ![r] = IdleRequest])
    BY <1>6 DEF Provision, Return
  <2>. HIDE DEF outcome
  <2>2. t \in Users => member \in Rows(V \cup {"active"})
    BY <1>1 DEF Rows
  <2>. HIDE DEF member
  <2>3. PICK W : t \in Users => p \in Rows(W)
    BY <2>2, MappedRow
  <2>. HIDE DEF p
  <2>4. t \in Users => row \in Rows(W \cup {op.groups})
    BY <2>3 DEF Rows
  <2>. HIDE DEF row, t
  <2>5. CASE req' = Return(r) /\ UNCHANGED users
    BY <2>5, ReturnStep, QuietKeeps
  <2>6. CASE Write(r, [users EXCEPT ![t] = row], [req EXCEPT ![r] = IdleRequest])
    <3>1. PICK Q : IdleRequest \in Slots(Q)
      BY IdleSlot
    <3>. QED BY <1>4, <2>4, <2>6, <3>1, IdleSlot
  <2>. QED BY <2>1, <2>5, <2>6
<1>. QED BY <1>5, <1>6

LEMMA InitIInv == Init => IInv
<1>. SUFFICES ASSUME Init PROVE IInv
  OBVIOUS
<1>1. users \in [Users -> Rows({"active", "none", "owner", "member", NoGroups, [p \in Places |-> "none"]})]
  BY DEF Init, Rows
<1>2. req \in [Requests -> Slots({"viewer", NoOp, <<>>, {}})] /\ \A r \in Requests : req[r] = IdleRequest
  BY IdleSlot DEF Init
<1>3. ReqsInv
  BY <1>2, IdleSlot DEF ReqsInv
<1>. QED BY <1>1, <1>2, <1>3 DEF IInv, Shapes

LEMMA NextKeeps == IInv /\ [Next]_vars => Keeps
<1>. SUFFICES ASSUME IInv, [Next]_vars PROVE Keeps
  OBVIOUS
<1>1. CASE UNCHANGED vars
  <2>1. UNCHANGED <<users, req>>
    BY <1>1 DEF vars
  <2>2. Owners' = Owners
    BY <2>1 DEF Owners
  <2>3. IInv'
    BY <2>1, <2>2 DEF IInv, Shapes, ReqsInv
  <2>. QED BY <2>2, <2>3, QuietKeeps
<1>2. ASSUME NEW r \in Requests, \/ \E a \in Users, op \in Op : Begin(r, a, op)
                                 \/ \E op \in Op : BeginLogin(r, op)
                                 \/ Serve(r)
      PROVE  Keeps
  BY <1>2, BeginKeeps, ReadKeeps, MappingsKeep, SetKeeps, PlaceKeeps, IdPKeeps DEF Serve
<1>. QED BY <1>1, <1>2 DEF Next

\* A request of an administrator never leaves an organization that has an active owner
\* without one, unless the owners changed while it was being served: with any number
\* of owners, administrators, logins and reconciliations, in any order.
THEOREM LastOwnerStays == Spec => LastOwnerKept
<1>1. IInv /\ Keeps =>
        [\A r \in Requests :
           (Acts(r) /\ ActiveOwners(users) # {} /\ ActiveOwners(users') = {}) => (ByIdP(r) \/ req[r].late)]_vars
  BY DEF Keeps, KeptBy, Owners
<1>2. Keeps => IInv'
  BY DEF Keeps
<1>. QED BY <1>1, <1>2, InitIInv, NextKeeps, PTL DEF Spec, LastOwnerKept

-------------------------------------------------------------------------------
(* What mappings come to *)

\* Induction up to n: otherwise some number is the least that is not in S.
LEMMA Induction ==
  ASSUME NEW n \in Nat, NEW S, 0 \in S, \A k \in 0..(n - 1) : k \in S => k + 1 \in S
  PROVE  \A k \in 0..n : k \in S
<1>. DEFINE M == {k \in 0..n : k \notin S}
            Below(k) == {j \in 0..n : j < k}
            T == {Below(k) : k \in M}
<1>. SUFFICES ASSUME M # {} PROVE FALSE
  OBVIOUS
<1>1. IsFiniteSet(0..n)
  BY FS_Interval
<1>2. T \subseteq FiniteSubsetsOf(0..n) /\ T # {}
  <2>1. \A k \in M : Below(k) \in SUBSET (0..n) /\ IsFiniteSet(Below(k))
    BY <1>1, FS_Subset
  <2>2. \A k \in M : Below(k) \in FiniteSubsetsOf(0..n)
    <3>. HIDE DEF Below, M
    <3>. QED BY <2>1 DEF FiniteSubsetsOf
  <2>. HIDE DEF Below
  <2>. QED BY <2>2
<1>3. \E A \in T : \A B \in T : <<B, A>> \notin StrictSubsetOrdering(0..n)
  <2>. HIDE DEF T
  <2>. QED BY <1>2, FS_StrictSubsetOrderingWellFounded, WFMin, <1>1
<1>4. PICK k \in M : \A B \in T : <<B, Below(k)>> \notin StrictSubsetOrdering(0..n)
  BY <1>3
<1>5. k \in 0..n /\ k # 0 /\ k - 1 \in 0..(n - 1) /\ k - 1 \in 0..n /\ (k - 1) + 1 = k
  OBVIOUS
<1>6. k - 1 \in M
  BY <1>5
<1>7. Below(k - 1) \subseteq Below(k) /\ k - 1 \in Below(k) /\ k - 1 \notin Below(k - 1)
  BY <1>5
<1>8. Below(k - 1) \in T /\ Below(k) \subseteq 0..n /\ Below(k - 1) \subseteq 0..n
  BY <1>6
<1>. QED BY <1>4, <1>7, <1>8 DEF StrictSubsetOrdering

\* The rounds of the loop up to the n-th, and what is best after each of them.
IsRounds(b, n, table, groups) ==
  b = [i \in 0..n |-> IF i = 0 THEN Unmapped ELSE Consider(b[i - 1], table[i], groups)]

LEMMA RoundsExist ==
  ASSUME NEW table, NEW groups, NEW n \in Nat
  PROVE  \E b : IsRounds(b, n, table, groups)
<1>. DEFINE S == {k \in Nat : \E b : IsRounds(b, k, table, groups)}
<1>1. 0 \in S
  <2>. DEFINE b == [i \in 0..0 |-> Unmapped]
  <2>1. IsRounds(b, 0, table, groups)
    BY DEF IsRounds
  <2>. QED BY <2>1
<1>2. ASSUME NEW k \in 0..(n - 1), k \in S
      PROVE  k + 1 \in S
  <2>1. PICK b : IsRounds(b, k, table, groups)
    BY <1>2
  <2>. DEFINE c == [i \in 0..(k + 1) |-> IF i <= k THEN b[i] ELSE Consider(b[k], table[k + 1], groups)]
  <2>2. ASSUME NEW i \in 0..(k + 1)
        PROVE  c[i] = IF i = 0 THEN Unmapped ELSE Consider(c[i - 1], table[i], groups)
    <3>1. CASE i = 0
      BY <2>1, <3>1 DEF IsRounds
    <3>2. CASE i # 0 /\ i <= k
      <4>1. c[i] = b[i] /\ c[i - 1] = b[i - 1]
        BY <3>2
      <4>2. b[i] = Consider(b[i - 1], table[i], groups)
        BY <2>1, <3>2 DEF IsRounds
      <4>. QED BY <3>2, <4>1, <4>2
    <3>3. CASE i = k + 1
      <4>1. c[i] = Consider(b[k], table[k + 1], groups) /\ c[i - 1] = b[k] /\ i # 0
        BY <3>3
      <4>. QED BY <3>3, <4>1
    <3>. QED BY <3>1, <3>2, <3>3
  <2>3. IsRounds(c, k + 1, table, groups)
    <3>1. c = [i \in 0..(k + 1) |-> c[i]]
      OBVIOUS
    <3>. HIDE DEF c
    <3>. QED BY <2>2, <3>1 DEF IsRounds
  <2>. HIDE DEF c
  <2>. QED BY <2>3
<1>. HIDE DEF S
<1>3. \A k \in 0..n : k \in S
  BY <1>1, <1>2, Induction
<1>4. n \in S
  BY <1>3
<1>. USE DEF S
<1>. QED BY <1>4

LEMMA ResolveIsRounds ==
  ASSUME NEW table, NEW groups, Len(table) \in Nat
  PROVE  \E b : /\ IsRounds(b, Len(table), table, groups)
                /\ ResolveGroupMappings(table, groups) = [t \in Targets |-> b[Len(table)][t].role]
<1>. DEFINE R == CHOOSE b : b = [i \in 0..Len(table) |-> IF i = 0 THEN Unmapped ELSE Consider(b[i - 1], table[i], groups)]
<1>1. \E b : b = [i \in 0..Len(table) |-> IF i = 0 THEN Unmapped ELSE Consider(b[i - 1], table[i], groups)]
  <2>1. \E b : IsRounds(b, Len(table), table, groups)
    BY RoundsExist
  <2>. QED BY <2>1 DEF IsRounds
<1>2. R = [i \in 0..Len(table) |-> IF i = 0 THEN Unmapped ELSE Consider(R[i - 1], table[i], groups)]
  BY <1>1, Zenon
<1>3. ResolveGroupMappings(table, groups) = [t \in Targets |-> R[Len(table)][t].role]
  BY Zenon DEF ResolveGroupMappings
<1>4. IsRounds(R, Len(table), table, groups)
  <2>. HIDE DEF R
  <2>. QED BY <1>2 DEF IsRounds
<1>. HIDE DEF R
<1>. QED BY <1>3, <1>4


LEMMA MappingFields ==
  ASSUME NEW m \in Mapping
  PROVE  /\ m.target \in Targets /\ m.priority \in Int /\ m.role \in OrgRoles \cup PlaceRoles /\ m.role # "none"
         /\ m.target = "org" => m.role \in OrgRoles
         /\ m.target # "org" => m.role \in {"member", "admin"}
  BY PlacesAssumption DEF Mapping, Targets, OrgRoles, PlaceRoles

LEMMA Ranks ==
  /\ \A role \in OrgRoles \cup PlaceRoles : Rank(role) \in Nat
  /\ Rank("admin") = 3 /\ Rank("member") = 2
  BY DEF Rank, OrgRoles, PlaceRoles

\* What is best in a target: a priority, and a role or "none".
Entry == [priority: Int, role: OrgRoles \cup PlaceRoles]

\* The mapping m counts less than e, or as much.
Under(m, e) == m.priority < e.priority \/ (m.priority = e.priority /\ Rank(m.role) <= Rank(e.role))

\* Where, up to place k, a mapping to t hits.
HitsIn(table, groups, t, k) == {j \in 1..k : table[j].target = t /\ Hits(table[j], groups)}

\* The best entry of t after k rounds is one that hits, and no other counts more.
Decided(table, groups, t, k, e) ==
  LET H == HitsIn(table, groups, t, k)
  IN \/ H = {} /\ e.role = "none"
     \/ \E j \in H : e.role = table[j].role /\ e.priority = table[j].priority /\ \A i \in H : Under(table[i], e)

LEMMA UnderIsOrder ==
  ASSUME NEW m \in Mapping, NEW e \in Entry, NEW f \in Entry, Under(m, e), Under(e, f)
  PROVE  Under(m, f)
<1>1. /\ m.priority \in Int /\ e.priority \in Int /\ f.priority \in Int
      /\ Rank(m.role) \in Nat /\ Rank(e.role) \in Nat /\ Rank(f.role) \in Nat
  BY MappingFields, Ranks DEF Entry
<1>. QED BY <1>1 DEF Under

\* One round of the loop.
LEMMA RoundDecides ==
  ASSUME NEW table \in Seq(Mapping), NEW groups, NEW k \in Nat, k < Len(table), NEW best \in [Targets -> Entry],
         \A t \in Targets : Decided(table, groups, t, k, best[t])
  PROVE  LET new == Consider(best, table[k + 1], groups)
         IN new \in [Targets -> Entry] /\ \A t \in Targets : Decided(table, groups, t, k + 1, new[t])
<1>. DEFINE m == table[k + 1]
            new == Consider(best, m, groups)
            e == [priority |-> m.priority, role |-> m.role]
            H(t) == HitsIn(table, groups, t, k)
            G(t) == HitsIn(table, groups, t, k + 1)
<1>1. m \in Mapping /\ \A j \in 1..k : table[j] \in Mapping
  OBVIOUS
<1>2. e \in Entry /\ e.priority = m.priority /\ e.role = m.role
  BY <1>1, MappingFields DEF Entry
<1>. HIDE DEF e
<1>3. new \in [Targets -> Entry]
  <2>. HIDE DEF m
  <2>1. new = best \/ new = [best EXCEPT ![m.target] = e]
    BY DEF Consider, e
  <2>. QED BY <2>1, <1>2
<1>4. ASSUME NEW t \in Targets
      PROVE  Decided(table, groups, t, k + 1, new[t])
  <2>0. G(t) = H(t) \cup (IF m.target = t /\ Hits(m, groups) THEN {k + 1} ELSE {})
    <3>1. 1..(k + 1) = (1..k) \cup {k + 1}
      OBVIOUS
    <3>. QED BY <3>1 DEF HitsIn
  <2>1. \/ H(t) = {} /\ best[t].role = "none"
        \/ \E j \in H(t) : /\ best[t].role = table[j].role /\ best[t].priority = table[j].priority
                           /\ \A i \in H(t) : Under(table[i], best[t])
    BY DEF Decided
  <2>2. best[t] \in Entry /\ \A i \in H(t) : table[i] \in Mapping /\ i \in 1..k
    BY <1>1 DEF HitsIn
  <2>3. CASE ~(m.target = t /\ Hits(m, groups))
    <3>1. G(t) = H(t)
      BY <2>0, <2>3
    <3>2. new[t] = best[t]
      <4>. HIDE DEF m
      <4>. QED BY <2>3 DEF Consider
    <3>. QED BY <2>1, <3>1, <3>2 DEF Decided
  <2>4. CASE m.target = t /\ Hits(m, groups)
    <3>1. G(t) = H(t) \cup {k + 1}
      BY <2>0, <2>4
    <3>2. CASE Beats(m, best[t].priority, best[t].role)
      <4>1. new[t] = e
        <5>. HIDE DEF m
        <5>. QED BY <2>4, <3>2 DEF Consider, e
      <4>2. Under(m, e)
        <5>1. e.priority \in Int /\ Rank(e.role) \in Nat
          BY <1>1, <1>2, MappingFields, Ranks
        <5>. QED BY <1>2, <5>1 DEF Under
      <4>3. ASSUME NEW i \in H(t)
            PROVE  Under(table[i], e)
        <5>1. best[t].role # "none" /\ Under(table[i], best[t])
          <6>1. PICK j \in H(t) : /\ best[t].role = table[j].role
                                  /\ \A l \in H(t) : Under(table[l], best[t])
            BY <2>1, <4>3
          <6>. QED BY <2>2, <6>1, <4>3, MappingFields
        <5>2. Under(best[t], e)
          <6>1. /\ best[t].role \in OrgRoles \cup PlaceRoles /\ Rank(best[t].role) \in Nat /\ Rank(m.role) \in Nat
                /\ best[t].priority \in Int /\ m.priority \in Int
            BY <1>1, <2>2, MappingFields, Ranks DEF Entry
          <6>2. m.priority > best[t].priority
                \/ (m.priority = best[t].priority /\ (Rank(m.role) > Rank(best[t].role) \/ (t # "org" /\ m.role = "admin")))
            BY <2>4, <3>2, <5>1 DEF Beats
          <6>3. t # "org" => best[t].role \in {"member", "admin"}
            BY <2>1, <2>2, <4>3, MappingFields DEF HitsIn
          <6>4. m.priority = best[t].priority => Rank(best[t].role) <= Rank(m.role)
            BY <6>1, <6>2, <6>3, Ranks
          <6>. QED BY <1>2, <6>1, <6>2, <6>4 DEF Under
        <5>. QED BY <1>2, <2>2, <5>1, <5>2, <4>3, UnderIsOrder
      <4>. QED BY <1>2, <3>1, <4>1, <4>2, <4>3 DEF Decided
    <3>3. CASE ~Beats(m, best[t].priority, best[t].role)
      <4>1. new[t] = best[t]
        <5>. HIDE DEF m
        <5>. QED BY <2>4, <3>3 DEF Consider
      <4>2. PICK j \in H(t) : /\ best[t].role = table[j].role /\ best[t].priority = table[j].priority
                              /\ \A i \in H(t) : Under(table[i], best[t])
        BY <2>1, <3>3 DEF Beats
      <4>3. Under(m, best[t])
        <5>1. /\ Rank(best[t].role) \in Nat /\ Rank(m.role) \in Nat
              /\ best[t].priority \in Int /\ m.priority \in Int
          BY <1>1, <2>2, MappingFields, Ranks DEF Entry
        <5>2. /\ ~(m.priority > best[t].priority)
              /\ m.priority = best[t].priority => IF t = "org" THEN ~(Rank(m.role) > Rank(best[t].role)) ELSE m.role # "admin"
          BY <2>4, <3>3 DEF Beats
        <5>3. t # "org" => best[t].role \in {"member", "admin"} /\ m.role \in {"member", "admin"}
          BY <1>1, <2>2, <2>4, <4>2, MappingFields DEF HitsIn
        <5>4. m.priority = best[t].priority => Rank(m.role) <= Rank(best[t].role)
          BY <5>1, <5>2, <5>3, Ranks
        <5>. QED BY <5>1, <5>2, <5>4 DEF Under
      <4>. QED BY <3>1, <4>1, <4>2, <4>3 DEF Decided
    <3>. QED BY <3>2, <3>3
  <2>. QED BY <2>3, <2>4
<1>. QED BY <1>3, <1>4

\* ResolveGroupMappings: in each target a mapping that hits, with the highest priority
\* and then the highest role, wherever it is listed; "none" where none hits.
LEMMA ResolveDecides ==
  ASSUME NEW table \in Seq(Mapping), NEW groups
  PROVE  \E best \in [Targets -> Entry] :
           /\ ResolveGroupMappings(table, groups) = [t \in Targets |-> best[t].role]
           /\ \A t \in Targets : Decided(table, groups, t, Len(table), best[t])
<1>. DEFINE n == Len(table)
<1>1. n \in Nat
  OBVIOUS
<1>2. PICK b : /\ IsRounds(b, n, table, groups)
               /\ ResolveGroupMappings(table, groups) = [t \in Targets |-> b[n][t].role]
  BY <1>1, ResolveIsRounds
<1>. DEFINE S == {k \in 0..n : b[k] \in [Targets -> Entry] /\ \A t \in Targets : Decided(table, groups, t, k, b[k][t])}
<1>3. 0 \in S
  <2>1. b[0] = Unmapped
    BY <1>1, <1>2 DEF IsRounds
  <2>2. Unmapped \in [Targets -> Entry] /\ \A t \in Targets : Unmapped[t].role = "none"
    BY DEF Unmapped, Entry, PlaceRoles
  <2>3. \A t \in Targets : HitsIn(table, groups, t, 0) = {}
    BY DEF HitsIn
  <2>. QED BY <1>1, <2>1, <2>2, <2>3 DEF Decided
<1>4. ASSUME NEW k \in 0..(n - 1), k \in S
      PROVE  k + 1 \in S
  <2>1. b[k + 1] = Consider(b[k], table[k + 1], groups)
    <3>1. k + 1 \in 0..n /\ k + 1 # 0 /\ (k + 1) - 1 = k
      BY <1>1
    <3>. HIDE DEF n
    <3>. QED BY <1>2, <3>1 DEF IsRounds
  <2>2. k \in Nat /\ k < Len(table) /\ k + 1 \in 0..n
    BY <1>1
  <2>3. b[k] \in [Targets -> Entry] /\ \A t \in Targets : Decided(table, groups, t, k, b[k][t])
    BY <1>4
  <2>4. b[k + 1] \in [Targets -> Entry] /\ \A t \in Targets : Decided(table, groups, t, k + 1, b[k + 1][t])
    BY <2>1, <2>2, <2>3, RoundDecides
  <2>. QED BY <2>2, <2>4
<1>5. n \in S
  <2>. HIDE DEF S
  <2>1. \A k \in 0..n : k \in S
    BY <1>1, <1>3, <1>4, Induction
  <2>. QED BY <1>1, <2>1
<1>. QED BY <1>2, <1>5


-------------------------------------------------------------------------------
(* Types, and what a reconciliation knows *)

\* What mappings come to, by the kind of the target
Sound(outcome) ==
  /\ outcome \in Outcome
  /\ outcome["org"] \in OrgRoles \cup {"none"}
  /\ \A p \in Places : outcome[p] \in PlaceRoles

RequestInv(q) ==
  /\ q.step # "idle" => q.op \in Op
  /\ q.step \in {"read", "count"} => q.op.kind \in {"role", "status"}
  /\ q.step = "maps" => q.op.kind \in {"login", "reconcile"}
  /\ q.step \in {"diff", "apply"} => q.op.kind = "reconcile"
  /\ q.step = "provision" => q.op.kind = "login"
  /\ \A d \in q.todo : Sound(d.outcome)

\* What u's groups come to by the mappings there are.
Due(u) == ResolveGroupMappings(mappings, users[u].groups)

Settled(u) == Differs(users[u], Due(u)) \subseteq Ghosts

\* A reconciliation that nobody disturbs has in todo what each of the members still to
\* be written comes to, and the others have it already.
SettleInv(q) ==
  /\ q.step \in {"diff", "apply"} /\ ~q.disturbed => q.table = mappings
  /\ q.step = "apply" /\ ~q.disturbed =>
       /\ \A d \in q.todo : d.outcome = Due(d.user)
       /\ \A u \in q.op.only :
            users[u].status = "active" /\ users[u].groups # NoGroups => Settled(u) \/ \E d \in q.todo : d.user = u

Typed == TypeOK /\ \A r \in Requests : RequestInv(req[r])

Settling == Typed /\ \A r \in Requests : SettleInv(req[r])

LEMMA TablesAreSequences ==
  ASSUME NEW table \in Tables \cup {<<>>}
  PROVE  table \in Seq(Mapping)
<1>1. <<>> \in Seq(Mapping)
  OBVIOUS
<1>. QED BY <1>1, TablesAssumption

LEMMA ResolveSound ==
  ASSUME NEW table \in Tables \cup {<<>>}, NEW groups
  PROVE  Sound(ResolveGroupMappings(table, groups))
<1>1. table \in Seq(Mapping)
  BY TablesAreSequences
<1>2. PICK best \in [Targets -> Entry] :
        /\ ResolveGroupMappings(table, groups) = [t \in Targets |-> best[t].role]
        /\ \A t \in Targets : Decided(table, groups, t, Len(table), best[t])
  BY <1>1, ResolveDecides
<1>3. ASSUME NEW t \in Targets
      PROVE  /\ best[t].role \in OrgRoles \cup PlaceRoles
             /\ t = "org" => best[t].role \in OrgRoles \cup {"none"}
             /\ t # "org" => best[t].role \in PlaceRoles
  <2>1. best[t].role \in OrgRoles \cup PlaceRoles
    BY <1>2 DEF Entry
  <2>2. \/ best[t].role = "none"
        \/ \E j \in 1..Len(table) : table[j].target = t /\ best[t].role = table[j].role
    BY <1>2 DEF Decided, HitsIn
  <2>3. \A j \in 1..Len(table) : table[j] \in Mapping
    BY <1>1
  <2>4. \/ best[t].role = "none"
        \/ /\ t = "org" => best[t].role \in OrgRoles
           /\ t # "org" => best[t].role \in {"member", "admin"}
    BY <2>2, <2>3, MappingFields
  <2>. QED BY <2>1, <2>4 DEF PlaceRoles
<1>4. "org" \in Targets /\ \A p \in Places : p \in Targets /\ p # "org"
  BY PlacesAssumption DEF Targets
<1>. QED BY <1>2, <1>3, <1>4 DEF Sound, Outcome

\* A row that mappings write, and what it leaves to reconcile.
LEMMA MappedTyped ==
  ASSUME NEW user \in User, NEW outcome, Sound(outcome)
  PROVE  /\ Mapped(user, outcome) \in User
         /\ Mapped(user, outcome).status = user.status /\ Mapped(user, outcome).groups = user.groups
         /\ Differs(Mapped(user, outcome), outcome) \subseteq Ghosts
<1>. DEFINE role == IF outcome["org"] = "none" THEN user.role ELSE outcome["org"]
            places == [p \in Places |-> outcome[p]]
            p1 == [user EXCEPT !.role = role]
            row == [p1 EXCEPT !.places = places]
<1>1. Mapped(user, outcome) = row
  BY DEF Mapped
<1>2. role \in OrgRoles /\ places \in [Places -> PlaceRoles]
  BY DEF Sound, User
<1>3. outcome["org"] \in {"none", role} /\ \A p \in Places : places[p] = outcome[p]
  OBVIOUS
<1>. HIDE DEF role, places
<1>4. p1 \in User /\ p1.status = user.status /\ p1.groups = user.groups /\ p1.role = role
  BY <1>2 DEF User
<1>. HIDE DEF p1
<1>5. row \in User /\ row.status = p1.status /\ row.groups = p1.groups /\ row.role = p1.role /\ row.places = places
  BY <1>2, <1>4 DEF User
<1>. HIDE DEF row
<1>6. ASSUME NEW t \in Differs(row, outcome)
      PROVE  t \in Ghosts
  <2>1. t \in Targets /\ t # "org" /\ t \notin Places
    BY <1>3, <1>4, <1>5 DEF Differs
  <2>. QED BY <2>1 DEF Targets
<1>. QED BY <1>1, <1>4, <1>5, <1>6

LEMMA OpFields ==
  ASSUME NEW op \in Op
  PROVE  /\ op.kind \in {"role", "create", "status", "place", "mappings", "reconcile", "login"}
         /\ op.kind \in {"role", "create"} => op.target \in Users /\ op.value \in OrgRoles
         /\ op.kind = "status" => op.target \in Users /\ op.value \in {"active", "suspended"}
         /\ op.kind = "place" => op.target \in Users /\ op.value \in PlaceRoles /\ op.place \in Places
         /\ op.kind = "mappings" => op.table \in Tables
         /\ op.kind = "reconcile" => op.only \in SUBSET Users
         /\ op.kind = "login" => op.target \in Users /\ op.groups \in {NoGroups} \cup Claims
  BY DEF Op

LEMMA IdleTyped == IdleRequest \in Request /\ IdleRequest.step = "idle" /\ RequestInv(IdleRequest)
<1>1. "idle" \in Steps /\ "viewer" \in OrgRoles
  BY DEF Steps, OrgRoles
<1>. QED BY <1>1 DEF IdleRequest, Request, RequestInv

LEMMA StepTyped ==
  ASSUME NEW q \in Request, NEW step \in Steps
  PROVE  LET n == [q EXCEPT !.step = step]
         IN /\ n \in Request /\ n.step = step /\ n.op = q.op /\ n.todo = q.todo
            /\ n.table = q.table /\ n.disturbed = q.disturbed
  BY DEF Request

\* A step of one request that writes nothing.
LEMMA QuietSettles ==
  ASSUME Settling, NEW r \in Requests, NEW q \in Request, RequestInv(q), SettleInv(q),
         req' = [req EXCEPT ![r] = q], UNCHANGED <<users, mappings>>, started' \in 0..MaxRequests
  PROVE  Settling'
<1>1. req \in [Requests -> Request]
  BY DEF Settling, Typed, TypeOK
<1>2. TypeOK'
  BY <1>1 DEF Settling, Typed, TypeOK
<1>3. ASSUME NEW s \in Requests
      PROVE  RequestInv(req'[s]) /\ SettleInv(req'[s])
  BY <1>1 DEF Settling, Typed
<1>4. ASSUME NEW s \in Requests
      PROVE  SettleInv(req[s])'
  <2>1. SettleInv(req'[s])
    BY <1>3
  <2>. QED BY <2>1 DEF SettleInv, Settled, Due
<1>5. ASSUME NEW s \in Requests
      PROVE  RequestInv(req[s])'
  BY <1>3
<1>. QED BY <1>2, <1>4, <1>5 DEF Settling, Typed

LEMMA ReturnSettles ==
  ASSUME Settling, NEW r \in Requests, req' = Return(r), UNCHANGED <<users, mappings, started>>
  PROVE  Settling'
<1>1. started' \in 0..MaxRequests
  BY DEF Settling, Typed, TypeOK
<1>2. SettleInv(IdleRequest)
  BY IdleTyped DEF SettleInv
<1>. QED BY <1>1, <1>2, IdleTyped, QuietSettles DEF Return

\* A request writes and goes on as q.
LEMMA WriteSettles ==
  ASSUME Settling, NEW r \in Requests, NEW us \in [Users -> User], NEW q \in Request, RequestInv(q),
         Write(r, us, [req EXCEPT ![r] = q]), mappings' \in Tables \cup {<<>>}, UNCHANGED started,
         SettleInv(q)'
  PROVE  Settling'
<1>1. req \in [Requests -> Request]
  BY DEF Settling, Typed, TypeOK
<1>2. /\ users' = us /\ req' = [s \in Requests |-> req'[s]] /\ req'[r] = q /\ Owners' = ActiveOwners(us)
      /\ \A s \in Requests \ {r} : req'[s] = IF req[s].step = "idle" THEN req[s] ELSE Told(req[s])
  BY <1>1 DEF Write, Told, Owners
<1>3. ASSUME NEW s \in Requests \ {r}
      PROVE  req'[s] \in Request /\ RequestInv(req'[s]) /\ (req'[s].step = "idle" \/ req'[s].disturbed)
  <2>1. req[s] \in Request /\ RequestInv(req[s])
    BY <1>1 DEF Settling, Typed
  <2>2. CASE req[s].step = "idle"
    BY <1>2, <2>1, <2>2
  <2>3. CASE req[s].step # "idle"
    <3>. DEFINE n == [req[s] EXCEPT !.disturbed = TRUE]
                l == req[s].late \/ Owners' # Owners
                m == [n EXCEPT !.late = l]
    <3>1. n \in Request /\ n.step = req[s].step /\ n.op = req[s].op /\ n.todo = req[s].todo /\ n.disturbed
      BY <2>1 DEF Request
    <3>2. l \in BOOLEAN
      BY <2>1 DEF Request
    <3>3. req'[s] = m
      BY <1>2, <2>3 DEF Told
    <3>. HIDE DEF n, l
    <3>4. m \in Request /\ m.step = n.step /\ m.op = n.op /\ m.todo = n.todo /\ m.disturbed = n.disturbed
      BY <3>1, <3>2 DEF Request
    <3>. HIDE DEF m
    <3>. QED BY <2>1, <3>1, <3>3, <3>4 DEF RequestInv
  <2>. QED BY <2>2, <2>3
<1>4. req' \in [Requests -> Request]
  BY <1>2, <1>3
<1>5. TypeOK'
  BY <1>2, <1>4 DEF Settling, Typed, TypeOK
<1>6. ASSUME NEW s \in Requests
      PROVE  RequestInv(req[s])' /\ SettleInv(req[s])'
  <2>1. CASE s = r
    BY <1>2, <2>1
  <2>2. CASE s # r
    <3>1. RequestInv(req'[s]) /\ (req'[s].step = "idle" \/ req'[s].disturbed)
      BY <1>3, <2>2
    <3>. QED BY <3>1 DEF SettleInv
  <2>. QED BY <2>1, <2>2
<1>. QED BY <1>5, <1>6 DEF Settling, Typed

\* A request writes one row and is done.
LEMMA RowSettles ==
  ASSUME Settling, NEW r \in Requests, NEW t, NEW row, t \in Users => row \in User,
         Write(r, [users EXCEPT ![t] = row], Return(r)), UNCHANGED <<mappings, started>>
  PROVE  Settling'
<1>. DEFINE us == [users EXCEPT ![t] = row]
<1>1. us \in [Users -> User] /\ mappings' \in Tables \cup {<<>>}
  BY DEF Settling, Typed, TypeOK
<1>2. Write(r, us, [req EXCEPT ![r] = IdleRequest])
  BY DEF Return
<1>3. SettleInv(IdleRequest)'
  BY IdleTyped DEF SettleInv
<1>. HIDE DEF us
<1>. QED BY <1>1, <1>2, <1>3, IdleTyped, WriteSettles


LEMMA BeginSettles ==
  ASSUME Settling, NEW r \in Requests, NEW op \in Op, BeginLogin(r, op) \/ \E a \in Users : Begin(r, a, op)
  PROVE  Settling'
<1>1. PICK role \in OrgRoles : Start(r, role, op, FirstStep(op.kind))
  <2>1. CASE BeginLogin(r, op)
    BY <2>1 DEF BeginLogin, OrgRoles
  <2>2. ASSUME NEW a \in Users, Begin(r, a, op)
        PROVE  users[a].role \in OrgRoles /\ Start(r, users[a].role, op, FirstStep(op.kind))
    BY <2>2 DEF Begin, Settling, Typed, TypeOK, User
  <2>. QED BY <2>1, <2>2
<1>. DEFINE step == FirstStep(op.kind)
            p == [IdleRequest EXCEPT !.step = step]
            p1 == [p EXCEPT !.role = role]
            q == [p1 EXCEPT !.op = op]
<1>2. /\ req' = [req EXCEPT ![r] = q] /\ UNCHANGED <<users, mappings>>
      /\ started < MaxRequests /\ started' = started + 1
  BY <1>1 DEF Start
<1>3. /\ step \in {"read", "maps", "write"} /\ step \in Steps
      /\ step = "read" => op.kind \in {"role", "status"}
      /\ step = "maps" => op.kind \in {"login", "reconcile"}
  BY DEF FirstStep, Steps
<1>. HIDE DEF step
<1>4. p \in Request /\ p.step = step /\ p.todo = {}
  BY <1>3, IdleTyped, StepTyped DEF IdleRequest
<1>. HIDE DEF p
<1>5. p1 \in Request /\ p1.step = step /\ p1.todo = {}
  BY <1>4 DEF Request
<1>. HIDE DEF p1
<1>6. q \in Request /\ q.step = step /\ q.todo = {} /\ q.op = op
  BY <1>5 DEF Request
<1>. HIDE DEF q
<1>7. RequestInv(q) /\ SettleInv(q)
  BY <1>3, <1>6 DEF RequestInv, SettleInv
<1>8. started' \in 0..MaxRequests
  BY <1>2, BoundAssumption DEF Settling, Typed, TypeOK
<1>. QED BY <1>2, <1>6, <1>7, <1>8, QuietSettles

LEMMA ReadSettles ==
  ASSUME Settling, NEW r \in Requests, ReadMember(r) \/ CountOthers(r) \/ Abandon(r)
  PROVE  Settling'
<1>1. req[r] \in Request /\ RequestInv(req[r]) /\ req \in [Requests -> Request] /\ started \in 0..MaxRequests
  BY DEF Settling, Typed, TypeOK
<1>2. UNCHANGED <<users, mappings, started>>
  BY DEF ReadMember, CountOthers, Abandon
<1>3. \/ req' = Return(r)
      \/ \E step \in {"count", "write"} : req' = [req EXCEPT ![r].step = step] /\ req[r].step \in {"read", "count"}
  BY DEF ReadMember, CountOthers, Abandon
<1>4. ASSUME NEW step \in {"count", "write"}, req' = [req EXCEPT ![r].step = step], req[r].step \in {"read", "count"}
      PROVE  Settling'
  <2>. DEFINE q == [req[r] EXCEPT !.step = step]
  <2>1. req' = [req EXCEPT ![r] = q]
    BY <1>1, <1>4
  <2>2. step \in Steps
    BY DEF Steps
  <2>3. q \in Request /\ q.step = step /\ q.op = req[r].op /\ q.todo = req[r].todo
    BY <1>1, <2>2, StepTyped
  <2>. HIDE DEF q
  <2>4. RequestInv(q) /\ SettleInv(q)
    BY <1>1, <1>4, <2>3 DEF RequestInv, SettleInv
  <2>. QED BY <1>1, <1>2, <2>1, <2>3, <2>4, QuietSettles
<1>. QED BY <1>2, <1>3, <1>4, ReturnSettles

LEMMA RowsSettle ==
  ASSUME Settling, NEW r \in Requests,
         \/ SetMemberRole(r) \/ SetStatus(r) \/ CreateMember(r) \/ PutTeamMember(r) \/ DeleteTeamMember(r)
  PROVE  Settling'
<1>. DEFINE op == req[r].op
            t == op.target
<1>1. users \in [Users -> User] /\ op \in Op /\ UNCHANGED <<mappings, started>> /\ req[r].step = "write"
  BY DEF Settling, Typed, TypeOK, RequestInv, SetMemberRole, SetStatus, CreateMember, PutTeamMember, DeleteTeamMember, WritePlace
<1>2. ASSUME req' = Return(r), UNCHANGED users
      PROVE  Settling'
  BY <1>1, <1>2, ReturnSettles
<1>3. CASE SetMemberRole(r)
  <2>. DEFINE row == [users[t] EXCEPT !.role = op.value]
  <2>1. Write(r, [users EXCEPT ![t] = row], Return(r))
    BY <1>1, <1>3 DEF SetMemberRole
  <2>2. t \in Users /\ op.value \in OrgRoles
    BY <1>1, <1>3, OpFields DEF SetMemberRole
  <2>3. row \in User
    BY <1>1, <2>2 DEF User
  <2>. HIDE DEF row, t, op
  <2>. QED BY <1>1, <2>1, <2>3, RowSettles
<1>4. CASE SetStatus(r)
  <2>. DEFINE row == [users[t] EXCEPT !.status = op.value]
  <2>1. Write(r, [users EXCEPT ![t] = row], Return(r))
    BY <1>1, <1>4 DEF SetStatus
  <2>2. t \in Users /\ op.value \in {"active", "suspended"}
    BY <1>1, <1>4, OpFields DEF SetStatus
  <2>3. row \in User
    BY <1>1, <2>2 DEF User
  <2>. HIDE DEF row, t, op
  <2>. QED BY <1>1, <2>1, <2>3, RowSettles
<1>5. CASE CreateMember(r)
  <2>. DEFINE p == [users[t] EXCEPT !.status = "active"]
              row == [p EXCEPT !.role = op.value]
  <2>1. (req' = Return(r) /\ UNCHANGED users) \/ Write(r, [users EXCEPT ![t] = row], Return(r))
    BY <1>1, <1>5 DEF CreateMember
  <2>2. t \in Users /\ op.value \in OrgRoles
    BY <1>1, <1>5, OpFields DEF CreateMember
  <2>3. p \in User
    BY <1>1, <2>2 DEF User
  <2>. HIDE DEF p
  <2>4. row \in User
    BY <2>2, <2>3 DEF User
  <2>. HIDE DEF row, t, op
  <2>. QED BY <1>1, <1>2, <2>1, <2>4, RowSettles
<1>6. CASE PutTeamMember(r) \/ DeleteTeamMember(r)
  <2>. DEFINE at == [users[t].places EXCEPT ![op.place] = op.value]
              row == [users[t] EXCEPT !.places = at]
  <2>1. (req' = Return(r) /\ UNCHANGED users) \/ Write(r, [users EXCEPT ![t] = row], Return(r))
    BY <1>1, <1>6 DEF PutTeamMember, DeleteTeamMember, WritePlace
  <2>2. t \in Users /\ op.value \in PlaceRoles /\ op.place \in Places
    BY <1>1, <1>6, OpFields DEF PutTeamMember, DeleteTeamMember, WritePlace
  <2>3. at \in [Places -> PlaceRoles]
    BY <1>1, <2>2 DEF User
  <2>. HIDE DEF at
  <2>4. row \in User
    BY <1>1, <2>2, <2>3 DEF User
  <2>. HIDE DEF row, t, op
  <2>. QED BY <1>1, <1>2, <2>1, <2>4, RowSettles
<1>. QED BY <1>3, <1>4, <1>5, <1>6

LEMMA PutMappingsSettles ==
  ASSUME Settling, NEW r \in Requests, PutMappings(r)
  PROVE  Settling'
<1>1. users \in [Users -> User] /\ req[r].op \in Op
  BY DEF Settling, Typed, TypeOK, RequestInv, PutMappings
<1>2. mappings' \in Tables \cup {<<>>} /\ UNCHANGED started
  BY <1>1, OpFields DEF PutMappings
<1>3. Write(r, users, [req EXCEPT ![r] = IdleRequest])
  BY DEF PutMappings, Return
<1>4. SettleInv(IdleRequest)'
  BY IdleTyped DEF SettleInv
<1>. QED BY <1>1, <1>2, <1>3, <1>4, IdleTyped, WriteSettles

LEMMA ReadMappingsSettles ==
  ASSUME Settling, NEW r \in Requests, ReadMappings(r)
  PROVE  Settling'
<1>. DEFINE step == IF req[r].op.kind = "login" THEN "provision" ELSE "diff"
            p == [req[r] EXCEPT !.step = step]
            q == [p EXCEPT !.table = mappings]
<1>1. /\ req[r] \in Request /\ RequestInv(req[r]) /\ req \in [Requests -> Request] /\ started \in 0..MaxRequests
      /\ mappings \in Tables \cup {<<>>}
  BY DEF Settling, Typed, TypeOK
<1>2. req' = [req EXCEPT ![r] = q] /\ req[r].step = "maps" /\ UNCHANGED <<users, mappings, started>>
  BY <1>1 DEF ReadMappings
<1>3. /\ step \in {"provision", "diff"} /\ step \in Steps
      /\ step = "provision" => req[r].op.kind = "login"
      /\ step = "diff" => req[r].op.kind = "reconcile"
  BY <1>1, <1>2 DEF Steps, RequestInv
<1>. HIDE DEF step
<1>4. p \in Request /\ p.step = step /\ p.op = req[r].op /\ p.todo = req[r].todo
  BY <1>1, <1>3, StepTyped
<1>. HIDE DEF p
<1>5. q \in Request /\ q.step = step /\ q.op = req[r].op /\ q.todo = req[r].todo /\ q.table = mappings
  BY <1>1, <1>4 DEF Request
<1>. HIDE DEF q
<1>6. RequestInv(q) /\ SettleInv(q)
  BY <1>1, <1>2, <1>3, <1>5 DEF RequestInv, SettleInv
<1>. QED BY <1>1, <1>2, <1>5, <1>6, QuietSettles

LEMMA ReconcileSettling ==
  ASSUME Settling, NEW r \in Requests, Reconcile(r)
  PROVE  Settling'
<1>. DEFINE table == req[r].table
            Outcomes(u) == ResolveGroupMappings(table, users[u].groups)
            U == {v \in req[r].op.only : /\ users[v].status = "active" /\ users[v].groups # NoGroups
                                         /\ Differs(users[v], Outcomes(v)) # {}}
            todo == {[user |-> u, outcome |-> Outcomes(u)] : u \in U}
            p == [req[r] EXCEPT !.step = "apply"]
            q == [p EXCEPT !.todo = todo]
<1>1. /\ req[r] \in Request /\ RequestInv(req[r]) /\ req \in [Requests -> Request] /\ started \in 0..MaxRequests
      /\ SettleInv(req[r])
  BY DEF Settling, Typed, TypeOK
<1>2. /\ req' = Return(r) \/ req' = [req EXCEPT ![r] = q]
      /\ req[r].step = "diff" /\ UNCHANGED <<users, mappings, started>>
  BY <1>1 DEF Reconcile
<1>3. req[r].op \in Op /\ req[r].op.kind = "reconcile" /\ req[r].op.only \in SUBSET Users
  BY <1>1, <1>2, OpFields DEF RequestInv
<1>4. table \in Tables \cup {<<>>}
  BY <1>1 DEF Request
<1>5. \A u \in U : u \in Users /\ Sound(Outcomes(u)) /\ Outcomes(u) \in Outcome
  BY <1>3, <1>4, ResolveSound DEF Sound
<1>6. /\ todo \in SUBSET [user: Users, outcome: Outcome]
      /\ \A d \in todo : d.user \in U /\ d.outcome = Outcomes(d.user) /\ Sound(d.outcome)
      /\ \A u \in U : \E d \in todo : d.user = u
  <2>1. \A d \in todo : \E u \in U : d = [user |-> u, outcome |-> Outcomes(u)]
    OBVIOUS
  <2>2. \A u \in U : [user |-> u, outcome |-> Outcomes(u)] \in todo
    OBVIOUS
  <2>. HIDE DEF U, Outcomes, todo
  <2>3. \A d \in todo : d \in [user: Users, outcome: Outcome]
    BY <1>5, <2>1
  <2>4. \A d \in todo : d.user \in U /\ d.outcome = Outcomes(d.user) /\ Sound(d.outcome)
    BY <1>5, <2>1
  <2>5. \A u \in U : \E d \in todo : d.user = u
    BY <2>2
  <2>. QED BY <2>3, <2>4, <2>5
<1>7. \A u \in req[r].op.only :
        users[u].status = "active" /\ users[u].groups # NoGroups => u \in U \/ Differs(users[u], Outcomes(u)) = {}
  OBVIOUS
<1>8. ~req[r].disturbed => table = mappings /\ \A u : Outcomes(u) = Due(u)
  BY <1>1, <1>2 DEF SettleInv, Due
<1>. HIDE DEF U, todo, table
<1>9. p \in Request /\ p.step = "apply" /\ p.op = req[r].op /\ p.table = table /\ p.disturbed = req[r].disturbed
  BY <1>1, StepTyped DEF Steps, table
<1>. HIDE DEF p
<1>10. /\ q \in Request /\ q.step = "apply" /\ q.op = req[r].op /\ q.todo = todo
       /\ q.table = table /\ q.disturbed = req[r].disturbed
  BY <1>6, <1>9 DEF Request
<1>. HIDE DEF q, Outcomes
<1>11. RequestInv(q)
  BY <1>3, <1>6, <1>10 DEF RequestInv
<1>12. SettleInv(q)
  <2>. SUFFICES ASSUME ~q.disturbed PROVE SettleInv(q)
    BY DEF SettleInv
  <2>1. table = mappings /\ \A u : Outcomes(u) = Due(u)
    BY <1>8, <1>10
  <2>2. \A d \in todo : d.outcome = Due(d.user)
    BY <1>6, <2>1
  <2>3. \A u \in q.op.only :
          users[u].status = "active" /\ users[u].groups # NoGroups => Settled(u) \/ \E d \in todo : d.user = u
    BY <1>6, <1>7, <1>10, <2>1 DEF Settled
  <2>. QED BY <1>10, <2>1, <2>2, <2>3 DEF SettleInv
<1>. QED BY <1>1, <1>2, <1>10, <1>11, <1>12, QuietSettles, ReturnSettles

\* One member is written: what the next reconciliation of all would find.
SettledBy(r) ==
  (ApplyMembership(r) /\ req'[r].step = "idle" /\ ~req[r].disturbed) =>
     \A u \in req[r].op.only :
        (users[u].status = "active" /\ users[u].groups # NoGroups) =>
           Differs(users'[u], ResolveGroupMappings(mappings, users[u].groups)) \subseteq Ghosts

LEMMA ApplySettles ==
  ASSUME Settling, NEW r \in Requests, ApplyMembership(r)
  PROVE  Settling' /\ SettledBy(r)
<1>1. /\ req[r] \in Request /\ RequestInv(req[r]) /\ req \in [Requests -> Request] /\ started \in 0..MaxRequests
      /\ SettleInv(req[r]) /\ users \in [Users -> User] /\ mappings \in Tables \cup {<<>>}
  BY DEF Settling, Typed, TypeOK
<1>2. PICK d \in req[r].todo :
        Write(r, [users EXCEPT ![d.user] = Mapped(@, d.outcome)],
              IF req[r].todo = {d} THEN Return(r) ELSE [req EXCEPT ![r].todo = @ \ {d}])
  BY DEF ApplyMembership
<1>3. req[r].step = "apply" /\ UNCHANGED <<mappings, started>>
  BY DEF ApplyMembership
<1>4. req[r].todo \in SUBSET [user: Users, outcome: Outcome]
  BY <1>1 DEF Request
<1>5. d.user \in Users /\ Sound(d.outcome) /\ req[r].op \in Op /\ req[r].op.kind = "reconcile" /\ req[r].op.only \in SUBSET Users
  BY <1>1, <1>3, <1>4, OpFields DEF RequestInv
<1>. DEFINE t == d.user
            row == Mapped(users[t], d.outcome)
            us == [users EXCEPT ![t] = row]
            rest == req[r].todo \ {d}
            p == [req[r] EXCEPT !.todo = rest]
<1>. SUFFICES ASSUME NEW q, q = IF req[r].todo = {d} THEN IdleRequest ELSE p
              PROVE  Settling' /\ SettledBy(r)
  OBVIOUS
<1>6. Write(r, us, [req EXCEPT ![r] = q]) /\ users' = us
  BY <1>1, <1>2 DEF Return, Write
<1>7. /\ row \in User /\ row.status = users[t].status /\ row.groups = users[t].groups
      /\ Differs(row, d.outcome) \subseteq Ghosts
  BY <1>1, <1>5, MappedTyped
<1>. HIDE DEF row
<1>8. /\ us \in [Users -> User] /\ us[t] = row /\ \A u \in Users : u # t => us[u] = users[u]
      /\ \A u \in Users : us[u].status = users[u].status /\ us[u].groups = users[u].groups
  BY <1>1, <1>5, <1>7
<1>. HIDE DEF us
<1>9. /\ p \in Request /\ p.step = "apply" /\ p.op = req[r].op /\ p.todo = rest
      /\ p.table = req[r].table /\ p.disturbed = req[r].disturbed
  BY <1>1, <1>3, <1>4 DEF Request
<1>. HIDE DEF p
<1>10. q \in Request /\ RequestInv(q)
  BY <1>1, <1>3, <1>9, IdleTyped DEF RequestInv
<1>11. req'[r] = q
  BY <1>1, <1>6 DEF Write
<1>12. \A u \in Users : Due(u)' = Due(u)
  BY <1>3, <1>6, <1>8 DEF Due
\* Whoever is not left to be written has what the mappings come to.
<1>13. ASSUME ~req[r].disturbed, NEW u \in req[r].op.only, users[u].status = "active", users[u].groups # NoGroups
       PROVE  Settled(u)' \/ \E e \in rest : e.user = u
  <2>1. u \in Users
    BY <1>5
  <2>2. /\ \A e \in req[r].todo : e.outcome = Due(e.user)
        /\ Settled(u) \/ \E e \in req[r].todo : e.user = u
    BY <1>1, <1>3, <1>13 DEF SettleInv
  <2>3. CASE u = t
    <3>1. Differs(users'[u], Due(u)) \subseteq Ghosts
      BY <1>6, <1>7, <1>8, <2>2, <2>3
    <3>. QED BY <1>12, <2>1, <3>1 DEF Settled
  <2>4. CASE u # t /\ Settled(u)
    <3>1. users'[u] = users[u]
      BY <1>6, <1>8, <2>1, <2>4
    <3>. QED BY <1>12, <2>1, <2>4, <3>1 DEF Settled
  <2>5. CASE u # t /\ \E e \in req[r].todo : e.user = u
    BY <2>5
  <2>. QED BY <2>2, <2>3, <2>4, <2>5
<1>14. SettleInv(q)'
  <2>1. CASE req[r].todo = {d}
    BY <2>1, IdleTyped DEF SettleInv
  <2>2. CASE req[r].todo # {d}
    <3>0. q = p
      BY <2>2
    <3>. SUFFICES ASSUME ~q.disturbed PROVE SettleInv(q)'
      BY DEF SettleInv
    <3>1. q.table = mappings'
      BY <1>1, <1>3, <1>9, <3>0 DEF SettleInv
    <3>2. \A e \in q.todo : e.outcome = Due(e.user)'
      <4>1. \A e \in rest : e.user \in Users /\ e.outcome = Due(e.user)
        BY <1>1, <1>3, <1>4, <1>9, <3>0 DEF SettleInv
      <4>. QED BY <1>9, <1>12, <3>0, <4>1
    <3>3. \A u \in q.op.only :
            users'[u].status = "active" /\ users'[u].groups # NoGroups => Settled(u)' \/ \E e \in q.todo : e.user = u
      BY <1>5, <1>6, <1>8, <1>9, <1>13, <3>0
    <3>. QED BY <3>1, <3>2, <3>3 DEF SettleInv
  <2>. QED BY <2>1, <2>2
<1>15. Settling'
  BY <1>1, <1>3, <1>6, <1>8, <1>10, <1>14, WriteSettles
<1>16. SettledBy(r)
  <2>. SUFFICES ASSUME req'[r].step = "idle", ~req[r].disturbed,
                       NEW u \in req[r].op.only, users[u].status = "active", users[u].groups # NoGroups
                PROVE  Differs(users'[u], Due(u)) \subseteq Ghosts
    BY DEF SettledBy, Due
  <2>1. rest = {}
    BY <1>9, <1>11
  <2>2. Settled(u)'
    BY <1>13, <2>1
  <2>. QED BY <1>5, <1>12, <2>2 DEF Settled
<1>. QED BY <1>15, <1>16

LEMMA ProvisionSettles ==
  ASSUME Settling, NEW r \in Requests, Provision(r)
  PROVE  Settling'
<1>. DEFINE op == req[r].op
            t == op.target
            outcome == ResolveGroupMappings(req[r].table, op.groups)
            member == IF users[t].status = "none" THEN [users[t] EXCEPT !.status = "active"] ELSE users[t]
            p == Mapped(member, outcome)
            row == [p EXCEPT !.groups = op.groups]
<1>1. /\ req[r] \in Request /\ RequestInv(req[r]) /\ users \in [Users -> User] /\ UNCHANGED <<mappings, started>>
      /\ req[r].step = "provision"
  BY DEF Settling, Typed, TypeOK, Provision
<1>2. t \in Users /\ op.groups \in {NoGroups} \cup Claims
  BY <1>1, OpFields DEF RequestInv
<1>3. Sound(outcome)
  BY <1>1, ResolveSound DEF Request
<1>4. (req' = Return(r) /\ UNCHANGED users) \/ Write(r, [users EXCEPT ![t] = row], Return(r))
  BY DEF Provision
<1>. HIDE DEF outcome
<1>5. member \in User
  BY <1>1, <1>2 DEF User
<1>. HIDE DEF member
<1>6. p \in User
  BY <1>3, <1>5, MappedTyped
<1>. HIDE DEF p
<1>7. row \in User
  BY <1>2, <1>6 DEF User
<1>. HIDE DEF row, t, op
<1>. QED BY <1>1, <1>4, <1>7, ReturnSettles, RowSettles

LEMMA InitSettles == Init => Settling
<1>. SUFFICES ASSUME Init PROVE Settling
  OBVIOUS
<1>1. users \in [Users -> User]
  BY DEF Init, User, OrgRoles, PlaceRoles
<1>2. TypeOK
  BY <1>1, IdleTyped, BoundAssumption DEF Init, TypeOK
<1>3. \A r \in Requests : req[r] = IdleRequest
  BY DEF Init
<1>. QED BY <1>2, <1>3, IdleTyped DEF Settling, Typed, SettleInv

LEMMA NextSettles == Settling /\ [Next]_vars => Settling' /\ \A r \in Requests : SettledBy(r)
<1>. SUFFICES ASSUME Settling, [Next]_vars
              PROVE  Settling' /\ \A r \in Requests : SettledBy(r)
  OBVIOUS
<1>1. ASSUME UNCHANGED vars
      PROVE  Settling'
  <2>1. TypeOK' /\ \A r \in Requests : RequestInv(req[r])'
    BY <1>1 DEF vars, Settling, Typed, TypeOK
  <2>2. \A r \in Requests : SettleInv(req[r]) /\ req'[r] = req[r]
    BY <1>1 DEF vars, Settling
  <2>3. UNCHANGED <<users, mappings>>
    BY <1>1 DEF vars
  <2>4. \A r \in Requests : SettleInv(req[r])'
    BY <2>2, <2>3 DEF SettleInv, Settled, Due
  <2>5. Typed'
    BY <2>1 DEF Typed
  <2>. QED BY <2>4, <2>5 DEF Settling
<1>2. ASSUME NEW r \in Requests, \/ \E a \in Users, op \in Op : Begin(r, a, op)
                                 \/ \E op \in Op : BeginLogin(r, op)
                                 \/ Serve(r)
      PROVE  Settling'
  BY <1>2, BeginSettles, ReadSettles, RowsSettle, PutMappingsSettles, ReadMappingsSettles, ReconcileSettling,
     ApplySettles, ProvisionSettles DEF Serve
<1>3. \A r \in Requests : SettledBy(r)
  BY ApplySettles DEF SettledBy
<1>. QED BY <1>1, <1>2, <1>3 DEF Next

LEMMA SettlingHolds == Spec => []Settling
  BY InitSettles, NextSettles, PTL DEF Spec

\* Users, mappings and requests have their types.
THEOREM TypeCorrect == Spec => []TypeOK
  BY SettlingHolds, PTL DEF Settling, Typed

\* Whatever mappings are stored, in whatever order, with whatever priorities: a user gets
\* in each target the highest role among the mappings of the highest priority.
THEOREM MappingsDecideRoles == Spec => []MappingsDecide
<1>1. Settling => MappingsDecide
  <2>. SUFFICES ASSUME Settling, NEW groups \in Claims, NEW t \in Targets
                PROVE  LET hits == {mappings[i] : i \in {j \in DOMAIN mappings : mappings[j].target = t /\ Hits(mappings[j], groups)}}
                           best == {m \in hits : \A n \in hits : n.priority <= m.priority}
                           got == ResolveGroupMappings(mappings, groups)[t]
                       IN IF hits = {} THEN got = "none"
                          ELSE (\E m \in best : m.role = got) /\ \A m \in best : Rank(m.role) <= Rank(got)
    BY DEF MappingsDecide
  <2>. DEFINE H == HitsIn(mappings, groups, t, Len(mappings))
              hits == {mappings[i] : i \in {j \in DOMAIN mappings : mappings[j].target = t /\ Hits(mappings[j], groups)}}
              best == {m \in hits : \A n \in hits : n.priority <= m.priority}
              got == ResolveGroupMappings(mappings, groups)[t]
  <2>1. mappings \in Seq(Mapping)
    BY TablesAreSequences DEF Settling, Typed, TypeOK
  <2>2. PICK entry \in [Targets -> Entry] :
          /\ ResolveGroupMappings(mappings, groups) = [s \in Targets |-> entry[s].role]
          /\ \A s \in Targets : Decided(mappings, groups, s, Len(mappings), entry[s])
    BY <2>1, ResolveDecides
  <2>. DEFINE e == entry[t]
  <2>3. e \in Entry /\ got = e.role
    BY <2>2
  <2>4. \/ H = {} /\ e.role = "none"
        \/ \E j \in H : e.role = mappings[j].role /\ e.priority = mappings[j].priority /\ \A i \in H : Under(mappings[i], e)
    BY <2>2 DEF Decided
  <2>5. hits = {mappings[i] : i \in H} /\ \A i \in H : mappings[i] \in Mapping
    BY <2>1 DEF HitsIn
  <2>. HIDE DEF H, hits, got, e
  <2>7. ASSUME NEW j \in H, e.role = mappings[j].role, e.priority = mappings[j].priority,
               \A i \in H : Under(mappings[i], e)
        PROVE  hits # {} /\ (\E m \in best : m.role = got) /\ \A m \in best : Rank(m.role) <= Rank(got)
    <3>1. /\ mappings[j] \in hits
          /\ \A n \in hits : n \in Mapping /\ Under(n, e)
      BY <2>5, <2>7
    <3>2. ASSUME NEW n \in hits
          PROVE  /\ n.priority \in Int /\ e.priority \in Int
                 /\ n.priority <= e.priority
                 /\ n.priority = e.priority => Rank(n.role) <= Rank(e.role)
      <4>1. n.priority \in Int /\ e.priority \in Int
        BY <2>3, <3>1, MappingFields DEF Entry
      <4>. QED BY <3>1, <4>1 DEF Under
    <3>3. mappings[j] \in best
      BY <2>7, <3>1, <3>2
    <3>4. ASSUME NEW m \in best
          PROVE  m.priority = e.priority
      <4>1. m \in hits /\ mappings[j].priority <= m.priority
        BY <3>1
      <4>. QED BY <2>7, <3>2, <4>1
    <3>. QED BY <2>3, <2>7, <3>1, <3>2, <3>3, <3>4
  <2>8. IF hits = {} THEN got = "none"
        ELSE (\E m \in best : m.role = got) /\ \A m \in best : Rank(m.role) <= Rank(got)
    <3>. HIDE DEF best
    <3>. QED BY <2>3, <2>4, <2>5, <2>7
  <2>. USE DEF hits, got
  <2>. QED BY <2>8
<1>. QED BY <1>1, SettlingHolds, PTL

\* A reconciliation that nobody disturbs leaves nothing for a second one, however many
\* members it writes one by one and in whatever order.
THEOREM ReconciliationSettles == Spec => ReconcileSettles
<1>1. (\A r \in Requests : SettledBy(r)) =>
        [\A r \in Requests :
           (ApplyMembership(r) /\ req'[r].step = "idle" /\ ~req[r].disturbed) =>
              \A u \in req[r].op.only :
                 (users[u].status = "active" /\ users[u].groups # NoGroups) =>
                    Differs(users'[u], ResolveGroupMappings(mappings, users[u].groups)) \subseteq Ghosts]_vars
  BY DEF SettledBy
<1>. QED BY <1>1, NextSettles, SettlingHolds, PTL DEF Spec, ReconcileSettles


===============================================================================
