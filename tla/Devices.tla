------------------------------- MODULE Devices --------------------------------
(***************************************************************************)
(* Device codes, machines, enrollment codes and refresh tokens: how a      *)
(* member signs a machine in (internal/identity, DeviceStart ... Refresh)  *)
(* and how a suspension, a revoked machine or a logout signs it out again. *)
(* The service runs each statement on its own connection: a request is a   *)
(* sequence of steps, and other requests run between them. Suspension and  *)
(* the revocation of a machine are transactions, hence single steps.       *)
(* Anyone may present any refresh token that was ever issued, at any time: *)
(* a client whose answer was lost presents the old one again.              *)
(***************************************************************************)
EXTENDS Integers, Sequences, FiniteSets

CONSTANTS
  Users,      \* members who approve device codes
  Prints,     \* fingerprints of machines
  Codes,      \* device codes
  Requests,   \* slots for requests that are being served together
  Permitted,  \* members who may read the projects the enrollment code is limited to
  MaxUses,    \* enrollments.max_uses
  MaxTokens,  \* bound: refresh tokens issued
  MaxEnds,    \* bound: logouts, suspensions, revocations of a machine, expirations
  NoCode,     \* no device code
  NoMachine,  \* SQL NULL in device_codes.machine_id
  NoFamily    \* no family of refresh tokens

Machines == Users \X Prints

\* The uuid of a family: the code whose poll drew it, and which poll that was.
Families == Codes \X (Nat \ {0})

ASSUME PermittedAssumption == Permitted \subseteq Users
ASSUME PrintsAssumption == Prints # {}
ASSUME BoundAssumption == {MaxUses, MaxTokens, MaxEnds} \subseteq Nat
ASSUME NoCodeAssumption == NoCode \notin Codes
ASSUME NoMachineAssumption == NoMachine \notin Machines
ASSUME NoFamilyAssumption == NoFamily \notin Families
ASSUME FiniteAssumption == IsFiniteSet(Codes) /\ IsFiniteSet(Requests)

VARIABLES
  suspended,  \* the members with users.status = 'suspended'
  machines,   \* machines: unknown, active, or revoked_at is set
  codes,      \* device_codes
  enrol,      \* the enrollment code: used_count, and whether it is unexpired and unrevoked
  tokens,     \* refresh_tokens, in the order they were issued
  req,        \* what each request is doing
  redeemed,   \* history: how many polls have consumed each code
  killed,     \* history: families whose tokens were all revoked at some time
  forked,     \* history: families in which a token was rotated after it had been revoked
  ends        \* bound: logouts, suspensions, revocations and expirations so far

vars == <<suspended, machines, codes, enrol, tokens, req, redeemed, killed, forked, ends>>

-------------------------------------------------------------------------------

\* old: expires_at has passed.
Code == [status: {"none", "pending", "approved", "consumed"}, old: BOOLEAN, print: Prints,
         enrolled: BOOLEAN, machine: Machines \cup {NoMachine}]

\* strayed: history, the token descends from a request that was being served
\* while its family, its machine or its owner was signed out.
Token == [family: Families, machine: Machines, state: {"live", "expired", "revoked"}, strayed: BOOLEAN]

Approving == {"approve_enroll", "approve_machine", "approve_set"}
Issuing   == {"issue_member", "issue_machine", "issue_token"}

Request == [step: {"idle", "rotate", "reused"} \cup Approving \cup Issuing, code: Codes \cup {NoCode},
            machine: Machines \cup {NoMachine}, family: Families \cup {NoFamily}, token: Nat, strayed: BOOLEAN]

TypeOK ==
  /\ suspended \subseteq Users
  /\ machines \in [Machines -> {"none", "active", "revoked"}]
  /\ codes \in [Codes -> Code]
  /\ enrol \in [used: Nat, open: BOOLEAN]
  /\ tokens \in Seq(Token)
  /\ req \in [Requests -> Request]
  /\ redeemed \in [Codes -> Nat]
  /\ killed \subseteq Families
  /\ forked \subseteq Families
  /\ ends \in Nat

\* Requests that have taken a live token or a code and will issue a token for it.
Issuers == {r \in Requests : req[r].step \in {"rotate"} \cup Issuing}

Live == {i \in DOMAIN tokens : tokens[i].state = "live"}

-------------------------------------------------------------------------------
(* Statements of the store *)

IdleRequest == [step |-> "idle", code |-> NoCode, machine |-> NoMachine, family |-> NoFamily, token |-> 0, strayed |-> FALSE]

Return(r) == req' = [req EXCEPT ![r] = IdleRequest]

Goto(r, step) == req' = [req EXCEPT ![r].step = step]

CreateDeviceCode(c, f, e) ==
  codes' = [codes EXCEPT ![c] = [status |-> "pending", old |-> FALSE, print |-> f, enrolled |-> e, machine |-> NoMachine]]

Pending(c) == codes[c].status = "pending" /\ ~codes[c].old

\* Mutant: the uses are counted and no longer compared.
CanConsumeEnrollmentUncounted == enrol.open /\ enrol.used <= MaxUses

\* The next three are compare-and-set: the row tells whether they were in time.
CanConsumeEnrollment == enrol.open /\ enrol.used < MaxUses

\* Mutant: the code remembers the fingerprint and not whose machine it is.
ApproveDeviceCodePrint(c, m) == codes' = [codes EXCEPT ![c].status = "approved", ![c].machine = m[2]]

ApproveDeviceCode(c, m) == codes' = [codes EXCEPT ![c].status = "approved", ![c].machine = m]

\* Mutant: a code is consumed as long as it is not expired, be it the second time.
CanConsumeAgain(c) == codes[c].status \in {"approved", "consumed"} /\ ~codes[c].old

CanConsume(c) == codes[c].status = "approved" /\ ~codes[c].old

ConsumeDeviceCode(c) == codes' = [codes EXCEPT ![c].status = "consumed"]

\* A revoked machine that is approved again is active again.
UpsertMachine(m) == machines' = [machines EXCEPT ![m] = "active"]

CreateRefreshToken(fam, m, strayed) ==
  tokens' = Append(tokens, [family |-> fam, machine |-> m, state |-> "live", strayed |-> strayed])

\* UPDATE refresh_tokens SET revoked_at ... WHERE ... AND revoked_at IS NULL
RevokeTokens(S) == tokens' = [i \in DOMAIN tokens |-> IF i \in S THEN [tokens[i] EXCEPT !.state = "revoked"] ELSE tokens[i]]

TokensOf(fam) == {i \in DOMAIN tokens : tokens[i].family = fam}
OnMachine(m)  == {i \in DOMAIN tokens : tokens[i].machine = m}
OfUser(u)     == {i \in DOMAIN tokens : tokens[i].machine[1] = u}

\* Bound: something comes to its end.
End == ends < MaxEnds /\ ends' = ends + 1

\* History: the families of the tokens S are signed out, and the requests R with them.
SignOut(S, R) ==
  /\ End
  /\ killed' = killed \cup {tokens[i].family : i \in S}
  /\ req' = [r \in Requests |-> IF r \in R THEN [req[r] EXCEPT !.strayed = TRUE] ELSE req[r]]

\* Bound: a request that will issue a token starts only while there is room for it.
MayIssue == Len(tokens) + Cardinality(Issuers) < MaxTokens

-------------------------------------------------------------------------------
(* The device code *)

\* DeviceStart. An enrollment code is looked at here and consumed when the
\* code is approved.
DeviceStart(c, f, e) ==
  /\ codes[c].status = "none"
  /\ e => CanConsumeEnrollment
  /\ CreateDeviceCode(c, f, e)
  /\ UNCHANGED <<suspended, machines, enrol, tokens, req, redeemed, killed, forked, ends>>

\* DeviceApprove: GetMembership, GetDeviceCodeByUserCode
MayApprove(u, c) == u \notin suspended /\ Pending(c)

\* deviceActivate, and DeviceApprove up to its first write. These are reads of rows
\* that no one changes together, and each is decided by what it reads: that they
\* happen at once leaves no behaviour out.
Activate(r, u, c) ==
  /\ req[r].step = "idle"
  /\ codes[c].enrolled => u \in Permitted
  /\ MayApprove(u, c)
  /\ req' = [req EXCEPT ![r] = [IdleRequest EXCEPT !.step = IF codes[c].enrolled THEN "approve_enroll" ELSE "approve_machine",
                                                   !.code = c, !.machine = <<u, codes[c].print>>]]
  /\ UNCHANGED <<suspended, machines, codes, enrol, tokens, redeemed, killed, forked, ends>>

\* DeviceApprove: ConsumeEnrollment
ApproveEnroll(r) ==
  /\ req[r].step = "approve_enroll"
  /\ IF CanConsumeEnrollment
       THEN enrol' = [enrol EXCEPT !.used = @ + 1] /\ Goto(r, "approve_machine")
       ELSE Return(r) /\ UNCHANGED enrol
  /\ UNCHANGED <<suspended, machines, codes, tokens, redeemed, killed, forked, ends>>

\* DeviceApprove: UpsertMachine
ApproveMachine(r) ==
  /\ req[r].step = "approve_machine"
  /\ UpsertMachine(req[r].machine)
  /\ Goto(r, "approve_set")
  /\ UNCHANGED <<suspended, codes, enrol, tokens, redeemed, killed, forked, ends>>

\* DeviceApprove: ApproveDeviceCode
ApproveSet(r) ==
  /\ req[r].step = "approve_set"
  /\ IF Pending(req[r].code) THEN ApproveDeviceCode(req[r].code, req[r].machine) ELSE UNCHANGED codes
  /\ Return(r)
  /\ UNCHANGED <<suspended, machines, enrol, tokens, redeemed, killed, forked, ends>>

\* DevicePoll: ConsumeDeviceCode. A poll that consumes nothing changes nothing.
Poll(r, c) ==
  /\ req[r].step = "idle"
  /\ CanConsume(c)
  /\ MayIssue
  /\ ConsumeDeviceCode(c)
  /\ redeemed' = [redeemed EXCEPT ![c] = @ + 1]
  /\ req' = [req EXCEPT ![r] = [IdleRequest EXCEPT !.step = "issue_member", !.code = c, !.machine = codes[c].machine,
                                                   !.family = <<c, redeemed[c] + 1>>]]
  /\ UNCHANGED <<suspended, machines, enrol, tokens, killed, forked, ends>>

-------------------------------------------------------------------------------
(* Refresh tokens *)

\* Refresh: GetRefreshToken. Only a token that was revoked or is still good leads
\* to a further statement.
RefreshRead(r, i) ==
  /\ req[r].step = "idle"
  /\ tokens[i].state \in {"live", "revoked"}
  /\ tokens[i].state = "live" => MayIssue
  /\ req' = [req EXCEPT ![r] = [step |-> IF tokens[i].state = "live" THEN "rotate" ELSE "reused",
                                code |-> NoCode, machine |-> tokens[i].machine, family |-> tokens[i].family,
                                token |-> i, strayed |-> tokens[i].strayed]]
  /\ UNCHANGED <<suspended, machines, codes, enrol, tokens, redeemed, killed, forked, ends>>

\* Refresh: RevokeRefreshFamily, for a token that was revoked before
RefreshReused(r) ==
  /\ req[r].step = "reused"
  /\ RevokeTokens(TokensOf(req[r].family))
  /\ killed' = killed \cup {req[r].family}
  /\ req' = [s \in Requests |->
               IF s = r THEN IdleRequest
               ELSE IF s \in Issuers /\ req[s].family = req[r].family THEN [req[s] EXCEPT !.strayed = TRUE]
               ELSE req[s]]
  /\ UNCHANGED <<suspended, machines, codes, enrol, redeemed, forked, ends>>

\* Mutant: the token that is refreshed stays good.
RefreshRotateNothing(r) ==
  /\ req[r].step = "rotate"
  /\ Goto(r, "issue_member")
  /\ UNCHANGED <<suspended, machines, codes, enrol, tokens, redeemed, killed, forked, ends>>

\* Refresh: RevokeRefreshToken. It does not tell whether there was a row left to revoke.
RefreshRotate(r) ==
  /\ req[r].step = "rotate"
  /\ RevokeTokens({req[r].token})
  /\ forked' = IF tokens[req[r].token].state = "revoked" THEN forked \cup {req[r].family} ELSE forked
  /\ Goto(r, "issue_member")
  /\ UNCHANGED <<suspended, machines, codes, enrol, redeemed, killed, ends>>

\* issueDeviceTokens: GetMembership
IssueMember(r) ==
  /\ req[r].step = "issue_member"
  /\ IF req[r].machine[1] \in suspended THEN Return(r) ELSE Goto(r, "issue_machine")
  /\ UNCHANGED <<suspended, machines, codes, enrol, tokens, redeemed, killed, forked, ends>>

\* issueDeviceTokens: GetMachine
IssueMachine(r) ==
  /\ req[r].step = "issue_machine"
  /\ IF machines[req[r].machine] # "active" THEN Return(r) ELSE Goto(r, "issue_token")
  /\ UNCHANGED <<suspended, machines, codes, enrol, tokens, redeemed, killed, forked, ends>>

\* issueDeviceTokens: CreateRefreshToken
IssueToken(r) ==
  /\ req[r].step = "issue_token"
  /\ CreateRefreshToken(req[r].family, req[r].machine, req[r].strayed)
  /\ Return(r)
  /\ UNCHANGED <<suspended, machines, codes, enrol, redeemed, killed, forked, ends>>

\* A request stops: the client is gone, the database refuses, the process dies.
Abandon(r) ==
  /\ req[r].step # "idle"
  /\ Return(r)
  /\ UNCHANGED <<suspended, machines, codes, enrol, tokens, redeemed, killed, forked, ends>>

-------------------------------------------------------------------------------
(* Signing out *)

\* Logout
Logout(m) ==
  /\ RevokeTokens(OnMachine(m))
  /\ SignOut(OnMachine(m), {r \in Issuers : req[r].machine = m})
  /\ UNCHANGED <<suspended, machines, codes, enrol, redeemed, forked>>

\* SuspendUser, in one transaction; the bindings are left to the module Bindings
SuspendUser(u) ==
  /\ suspended' = suspended \cup {u}
  /\ RevokeTokens(OfUser(u))
  /\ machines' = [m \in Machines |-> IF m[1] = u /\ machines[m] = "active" THEN "revoked" ELSE machines[m]]
  /\ SignOut(OfUser(u), {r \in Issuers : req[r].machine[1] = u})
  /\ UNCHANGED <<codes, enrol, redeemed, forked>>

\* Mutant: the machine is revoked and its refresh tokens are not.
RevokeMachineAlone(m) ==
  /\ machines[m] = "active"
  /\ machines' = [machines EXCEPT ![m] = "revoked"]
  /\ SignOut(OnMachine(m), {r \in Issuers : req[r].machine = m})
  /\ UNCHANGED <<suspended, codes, enrol, tokens, redeemed, forked>>

\* RevokeMachine, in one transaction; it answers not found for a revoked machine.
RevokeMachine(m) ==
  /\ machines[m] = "active"
  /\ machines' = [machines EXCEPT ![m] = "revoked"]
  /\ RevokeTokens(OnMachine(m))
  /\ SignOut(OnMachine(m), {r \in Issuers : req[r].machine = m})
  /\ UNCHANGED <<suspended, codes, enrol, redeemed, forked>>

\* ReactivateUser
ReactivateUser(u) ==
  /\ u \in suspended
  /\ suspended' = suspended \ {u}
  /\ UNCHANGED <<machines, codes, enrol, tokens, req, redeemed, killed, forked, ends>>

\* RevokeEnrollment, or the end of its seven days
CloseEnrollment ==
  /\ enrol.open
  /\ End
  /\ enrol' = [enrol EXCEPT !.open = FALSE]
  /\ UNCHANGED <<suspended, machines, codes, tokens, req, redeemed, killed, forked>>

-------------------------------------------------------------------------------
(* Time. PurgeLedgers is left out: what it deletes is thirty days past its end,   *)
(* and a row that is gone answers like one that has expired: it only takes        *)
(* answers away.                                                                  *)

ExpireCode(c) ==
  /\ codes[c].status \in {"pending", "approved"} /\ ~codes[c].old
  /\ End
  /\ codes' = [codes EXCEPT ![c].old = TRUE]
  /\ UNCHANGED <<suspended, machines, enrol, tokens, req, redeemed, killed, forked>>

ExpireToken(i) ==
  /\ tokens[i].state = "live"
  /\ End
  /\ tokens' = [tokens EXCEPT ![i].state = "expired"]
  /\ UNCHANGED <<suspended, machines, codes, enrol, req, redeemed, killed, forked>>

-------------------------------------------------------------------------------

Init ==
  /\ suspended = {}
  /\ machines = [m \in Machines |-> "none"]
  /\ codes = [c \in Codes |-> [status |-> "none", old |-> FALSE, print |-> CHOOSE f \in Prints : TRUE,
                               enrolled |-> FALSE, machine |-> NoMachine]]
  /\ enrol = [used |-> 0, open |-> TRUE]
  /\ tokens = <<>>
  /\ req = [r \in Requests |-> IdleRequest]
  /\ redeemed = [c \in Codes |-> 0]
  /\ killed = {}
  /\ forked = {}
  /\ ends = 0

Serve(r) ==
  \/ ApproveEnroll(r) \/ ApproveMachine(r) \/ ApproveSet(r)
  \/ RefreshReused(r) \/ RefreshRotate(r)
  \/ IssueMember(r) \/ IssueMachine(r) \/ IssueToken(r)
  \/ Abandon(r)

Begin(r) ==
  \/ \E u \in Users, c \in Codes : Activate(r, u, c)
  \/ \E c \in Codes : Poll(r, c)
  \/ \E i \in DOMAIN tokens : RefreshRead(r, i)

Administer ==
  \/ \E m \in Machines : Logout(m) \/ RevokeMachine(m)
  \/ \E u \in Users : SuspendUser(u) \/ ReactivateUser(u)
  \/ CloseEnrollment

Elapse ==
  \/ \E c \in Codes : ExpireCode(c)
  \/ \E i \in DOMAIN tokens : ExpireToken(i)

Next ==
  \/ \E c \in Codes, f \in Prints, e \in BOOLEAN : DeviceStart(c, f, e)
  \/ \E r \in Requests : Begin(r) \/ Serve(r)
  \/ Administer
  \/ Elapse

Spec == Init /\ [][Next]_vars

-------------------------------------------------------------------------------
(* Properties *)

\* Signing out reaches every refresh token there is: a token that is good although
\* its family was revoked for reuse or logged out, its machine is revoked or its
\* owner suspended, descends from a request that was being served at that moment.
\* (RevokeRefreshFamily, Logout, RevokeMachine and SuspendUser against Refresh and
\* DevicePoll, which insert their token without looking again.)
SurvivorsStrayed ==
  \A i \in Live :
     \/ tokens[i].strayed
     \/ /\ tokens[i].family \notin killed
        /\ machines[tokens[i].machine] = "active"
        /\ tokens[i].machine[1] \notin suspended

\* Rotation keeps one good token in a family, counting those about to be issued,
\* unless two refreshes had read the same token before either revoked it.
RotationForksExplained ==
  \A fam \in {tokens[i].family : i \in DOMAIN tokens} \ forked :
     Cardinality({i \in Live : tokens[i].family = fam})
       + Cardinality({r \in Issuers : req[r].step \in Issuing /\ req[r].family = fam}) <= 1

\* An enrollment code admits no more machines than it has uses, however many
\* approvals run together: each code approved with it has taken a use of its own.
EnrollmentCounts ==
  /\ Cardinality({c \in Codes : codes[c].enrolled /\ codes[c].status \in {"approved", "consumed"}}) <= enrol.used
  /\ enrol.used <= MaxUses

\* The device flow keeps the promise of DeviceGrant: a code is approved for one
\* machine and opens one family of refresh tokens, on that machine.
Grant == INSTANCE DeviceGrant WITH
  Codes     <- Codes,
  Machines  <- Machines,
  NoMachine <- NoMachine,
  stage     <- [c \in Codes |-> codes[c].status],
  approved  <- [c \in Codes |-> codes[c].machine],
  sessions  <- {[code |-> tokens[i].family[1], machine |-> tokens[i].machine, poll |-> tokens[i].family[2]] : i \in DOMAIN tokens}

ImplementsDeviceGrant == Grant!Spec

===============================================================================
