----------------------------- MODULE DevicesProofs ----------------------------
(***************************************************************************)
(* Proofs about Devices, for any members, machines, device codes and       *)
(* number of requests in flight. A family of refresh tokens belongs to one *)
(* code that one poll has consumed, and to the machine the code was        *)
(* approved for; what a sign-out reaches, and which session a code opens,  *)
(* follow from that.                                                       *)
(***************************************************************************)
EXTENDS Devices, FiniteSetTheorems, TLAPS

-------------------------------------------------------------------------------
(* The inductive invariants *)

\* A family, and the machine of its tokens, given the device codes.
Opened(cs, fam, m) ==
  /\ fam \in Families /\ fam[2] = 1 /\ m \in Machines
  /\ cs[fam[1]].status = "consumed" /\ cs[fam[1]].machine = m

Refreshing == {"rotate", "reused"}

\* What a request knows, given the codes and the tokens; others cannot make it false.
ReqOk(q, cs, ts) ==
  /\ q.step \in Approving => q.code \in Codes /\ q.machine \in Machines /\ cs[q.code].status # "none"
  /\ q.step \in Refreshing \cup Issuing => Opened(cs, q.family, q.machine)
  /\ q.step \in Refreshing => q.token \in DOMAIN ts /\ ts[q.token].family = q.family

ReqsInv == \A r \in Requests : ReqOk(req[r], codes, tokens)

TokensInv == \A i \in DOMAIN tokens : Opened(codes, tokens[i].family, tokens[i].machine)

CodesInv ==
  \A c \in Codes :
    /\ codes[c].status \in {"approved", "consumed"} => codes[c].machine \in Machines
    /\ codes[c].status \notin {"approved", "consumed"} => codes[c].machine = NoMachine
    /\ redeemed[c] = IF codes[c].status = "consumed" THEN 1 ELSE 0

\* Only families that were opened are signed out.
KilledInv == \A fam \in killed : codes[fam[1]].status = "consumed"

Base == TypeOK /\ ReqsInv /\ TokensInv /\ CodesInv /\ KilledInv

\* Nothing has signed out the family, the machine or the owner of a request that is
\* not strayed, as far as the request has looked.
IssuersInv ==
  \A r \in Issuers :
    \/ req[r].strayed
    \/ /\ req[r].family \notin killed
       /\ req[r].step \in {"issue_machine", "issue_token"} => req[r].machine[1] \notin suspended
       /\ req[r].step = "issue_token" => machines[req[r].machine] = "active"

-------------------------------------------------------------------------------
(* Lemmas *)

LEMMA IdleType == IdleRequest \in Request /\ IdleRequest.step = "idle"
  BY DEF IdleRequest, Request

LEMMA IdleOk == ASSUME NEW cs, NEW ts PROVE ReqOk(IdleRequest, cs, ts)
  BY IdleType DEF ReqOk, Approving, Refreshing, Issuing

LEMMA RequestType ==
  ASSUME TypeOK, NEW r \in Requests
  PROVE  /\ req[r] \in Request
         /\ req[r].code \in Codes \cup {NoCode} /\ req[r].machine \in Machines \cup {NoMachine}
         /\ req[r].family \in Families \cup {NoFamily} /\ req[r].token \in Nat /\ req[r].strayed \in BOOLEAN
  BY DEF TypeOK, Request

\* A request that goes on to another step.
LEMMA GotoType ==
  ASSUME NEW q \in Request, NEW step \in Approving \cup Issuing
  PROVE  LET n == [q EXCEPT !.step = step]
         IN /\ n \in Request /\ n.step = step /\ n.code = q.code /\ n.machine = q.machine
            /\ n.family = q.family /\ n.token = q.token /\ n.strayed = q.strayed
  BY DEF Request

LEMMA StrayedType ==
  ASSUME NEW q \in Request
  PROVE  LET n == [q EXCEPT !.strayed = TRUE]
         IN /\ n \in Request /\ n.step = q.step /\ n.code = q.code /\ n.machine = q.machine
            /\ n.family = q.family /\ n.token = q.token /\ n.strayed
  BY DEF Request

LEMMA CodeType ==
  ASSUME TypeOK, NEW c \in Codes
  PROVE  /\ codes[c] \in Code /\ codes[c].status \in {"none", "pending", "approved", "consumed"}
         /\ codes[c].print \in Prints /\ codes[c].machine \in Machines \cup {NoMachine}
  BY DEF TypeOK, Code

LEMMA TokenType ==
  ASSUME TypeOK, NEW i \in DOMAIN tokens
  PROVE  /\ tokens[i] \in Token /\ tokens[i].family \in Families /\ tokens[i].machine \in Machines
         /\ tokens[i].state \in {"live", "expired", "revoked"} /\ tokens[i].strayed \in BOOLEAN
         /\ i \in Nat
<1>1. tokens[i] \in Token /\ i \in Nat
  BY DEF TypeOK
<1>. QED BY <1>1 DEF Token

\* Codes are not forgotten, and consumed ones do not change.
CodesGrow ==
  \A c \in Codes : /\ codes[c].status # "none" => codes'[c].status # "none"
                   /\ codes[c].status = "consumed" =>
                        codes'[c].status = "consumed" /\ codes'[c].machine = codes[c].machine

\* Tokens stay, in their family and on their machine.
TokensGrow ==
  /\ DOMAIN tokens \subseteq DOMAIN tokens'
  /\ \A i \in DOMAIN tokens : tokens'[i].family = tokens[i].family /\ tokens'[i].machine = tokens[i].machine

LEMMA OpenedStays ==
  ASSUME CodesGrow, NEW fam, NEW m, Opened(codes, fam, m)
  PROVE  Opened(codes', fam, m)
<1>1. fam[1] \in Codes
  BY DEF Opened, Families
<1>. QED BY <1>1 DEF Opened, CodesGrow

LEMMA ReqOkStays ==
  ASSUME CodesGrow, TokensGrow, NEW q, ReqOk(q, codes, tokens)
  PROVE  ReqOk(q, codes', tokens')
<1>1. q.step \in Refreshing \cup Issuing => Opened(codes', q.family, q.machine)
  BY OpenedStays DEF ReqOk
<1>. QED BY <1>1 DEF ReqOk, CodesGrow, TokensGrow

\* A step of one request, which goes on as q.
LEMMA StepReqs ==
  ASSUME Base, NEW r \in Requests, NEW q \in Request, req' = [req EXCEPT ![r] = q],
         ReqOk(q, codes', tokens'), CodesGrow, TokensGrow
  PROVE  /\ req' \in [Requests -> Request] /\ ReqsInv'
         /\ req'[r] = q /\ \A s \in Requests : s # r => req'[s] = req[s]
<1>1. req' \in [Requests -> Request] /\ req'[r] = q /\ \A s \in Requests : s # r => req'[s] = req[s]
  BY DEF Base, TypeOK
<1>2. \A s \in Requests : ReqOk(req'[s], codes', tokens')
  BY <1>1, ReqOkStays DEF Base, ReqsInv
<1>. QED BY <1>1, <1>2 DEF ReqsInv

LEMMA CodesSame ==
  ASSUME UNCHANGED codes
  PROVE  CodesGrow
  BY DEF CodesGrow

LEMMA TokensSame ==
  ASSUME UNCHANGED tokens
  PROVE  TokensGrow
  BY DEF TokensGrow

\* UPDATE refresh_tokens SET revoked_at: only states change.
LEMMA RevokeTokensFacts ==
  ASSUME TypeOK, NEW S, RevokeTokens(S)
  PROVE  /\ tokens' \in Seq(Token) /\ DOMAIN tokens' = DOMAIN tokens /\ TokensGrow
         /\ \A i \in DOMAIN tokens :
              /\ tokens'[i].family = tokens[i].family /\ tokens'[i].machine = tokens[i].machine
              /\ tokens'[i].strayed = tokens[i].strayed
              /\ tokens'[i].state = IF i \in S THEN "revoked" ELSE tokens[i].state
<1>. DEFINE f == [i \in DOMAIN tokens |-> IF i \in S THEN [tokens[i] EXCEPT !.state = "revoked"] ELSE tokens[i]]
<1>1. tokens' = f /\ tokens \in Seq(Token)
  BY DEF RevokeTokens, TypeOK
<1>2. ASSUME NEW i \in DOMAIN tokens
      PROVE  /\ f[i] \in Token
             /\ f[i].family = tokens[i].family /\ f[i].machine = tokens[i].machine
             /\ f[i].strayed = tokens[i].strayed
             /\ f[i].state = IF i \in S THEN "revoked" ELSE tokens[i].state
  BY TokenType DEF Token
<1>3. DOMAIN f = 1..Len(tokens) /\ Len(tokens) \in Nat
  BY <1>1
<1>4. f \in Seq(Token)
  BY <1>2, <1>3
<1>. QED BY <1>1, <1>2, <1>4 DEF TokensGrow

\* Tokens and codes as CodesInv, TokensInv and KilledInv need them.
LEMMA TokensInvStays ==
  ASSUME Base, CodesGrow, DOMAIN tokens' = DOMAIN tokens, TokensGrow
  PROVE  TokensInv'
<1>. SUFFICES ASSUME NEW i \in DOMAIN tokens
              PROVE  Opened(codes', tokens'[i].family, tokens'[i].machine)
  BY DEF TokensInv
<1>. QED BY OpenedStays DEF Base, TokensInv, TokensGrow

LEMMA KilledInvStays ==
  ASSUME Base, CodesGrow, NEW F \in SUBSET Families, \A fam \in F : codes[fam[1]].status = "consumed",
         killed' = killed \cup F
  PROVE  KilledInv' /\ killed' \subseteq Families
  BY DEF Base, TypeOK, KilledInv, CodesGrow, Families

LEMMA KilledInvSame ==
  ASSUME Base, CodesGrow, UNCHANGED killed
  PROVE  KilledInv'
  BY DEF Base, TypeOK, KilledInv, CodesGrow, Families

LEMMA CodesInvStays ==
  ASSUME Base, UNCHANGED <<codes, redeemed>>
  PROVE  CodesInv' /\ CodesGrow
  BY DEF Base, CodesInv, CodesGrow

\* The variables that most steps leave alone.
Rest == <<codes, redeemed, tokens, killed>>

\* A step of one request that leaves codes, tokens and families alone.
LEMMA StepBase ==
  ASSUME Base, NEW r \in Requests, NEW q \in Request, req' = [req EXCEPT ![r] = q],
         ReqOk(q, codes, tokens), UNCHANGED <<Rest, suspended, forked, ends>>,
         machines' \in [Machines -> {"none", "active", "revoked"}], enrol' \in [used: Nat, open: BOOLEAN]
  PROVE  Base'
<1>1. UNCHANGED <<codes, redeemed, tokens, killed, suspended, forked, ends>>
  BY DEF Rest
<1>2. CodesGrow /\ TokensGrow /\ CodesInv'
  BY <1>1, CodesSame, TokensSame, CodesInvStays
<1>3. req' \in [Requests -> Request] /\ ReqsInv'
  BY <1>1, <1>2, StepReqs
<1>4. TypeOK'
  BY <1>1, <1>3 DEF Base, TypeOK
<1>5. TokensInv' /\ KilledInv'
  BY <1>1 DEF Base, TokensInv, KilledInv
<1>. QED BY <1>2, <1>3, <1>4, <1>5 DEF Base

-------------------------------------------------------------------------------
(* Types, and what families rest on *)

LEMMA InitBase == Init => Base
<1>. SUFFICES ASSUME Init PROVE Base
  OBVIOUS
<1>1. (CHOOSE f \in Prints : TRUE) \in Prints
  BY PrintsAssumption
<1>2. \A c \in Codes : codes[c] \in Code /\ codes[c].status = "none" /\ codes[c].machine = NoMachine
  BY <1>1 DEF Init, Code
<1>3. codes \in [Codes -> Code]
  BY <1>2 DEF Init
<1>4. req \in [Requests -> Request] /\ \A r \in Requests : req[r] = IdleRequest
  BY IdleType DEF Init
<1>5. TypeOK
  BY <1>3, <1>4 DEF Init, TypeOK
<1>6. ReqsInv /\ TokensInv /\ KilledInv
  BY <1>4, IdleOk DEF Init, ReqsInv, TokensInv, KilledInv
<1>7. CodesInv
  BY <1>2 DEF Init, CodesInv
<1>. QED BY <1>5, <1>6, <1>7 DEF Base

LEMMA DeviceStartBase ==
  ASSUME Base, NEW c \in Codes, NEW f \in Prints, NEW e \in BOOLEAN, DeviceStart(c, f, e)
  PROVE  Base'
<1>. DEFINE x == [status |-> "pending", old |-> FALSE, print |-> f, enrolled |-> e, machine |-> NoMachine]
<1>1. codes[c].status = "none" /\ codes' = [codes EXCEPT ![c] = x]
      /\ UNCHANGED <<suspended, machines, enrol, tokens, req, redeemed, killed, forked, ends>>
  BY DEF DeviceStart, CreateDeviceCode
<1>2. x \in Code
  BY DEF Code
<1>3. CodesGrow /\ TokensGrow
  BY <1>1, TokensSame DEF CodesGrow, Base, TypeOK
<1>4. TypeOK'
  BY <1>1, <1>2 DEF Base, TypeOK
<1>5. ReqsInv'
  BY <1>1, <1>3, ReqOkStays DEF Base, ReqsInv
<1>6. TokensInv'
  BY <1>1, <1>3, TokensInvStays
<1>7. CodesInv'
  <2>1. \A d \in Codes : d # c => codes'[d] = codes[d]
    BY <1>1 DEF Base, TypeOK
  <2>2. codes'[c].status = "pending" /\ codes'[c].machine = NoMachine
    BY <1>1 DEF Base, TypeOK
  <2>. QED BY <1>1, <2>1, <2>2 DEF Base, CodesInv
<1>8. KilledInv'
  BY <1>1, <1>3, KilledInvSame
<1>. QED BY <1>4, <1>5, <1>6, <1>7, <1>8 DEF Base

\* A request that does not write, or only machines and the enrollment code.
LEMMA GoOnBase ==
  ASSUME Base, NEW r \in Requests,
         (\E u \in Users, c \in Codes : Activate(r, u, c)) \/ ApproveEnroll(r) \/ ApproveMachine(r)
           \/ (\E i \in DOMAIN tokens : RefreshRead(r, i)) \/ IssueMember(r) \/ IssueMachine(r) \/ Abandon(r)
  PROVE  Base'
<1>. DEFINE Still == UNCHANGED <<Rest, suspended, forked, ends>>
<1>0. /\ req[r] \in Request /\ ReqOk(req[r], codes, tokens)
      /\ machines \in [Machines -> {"none", "active", "revoked"}] /\ enrol \in [used: Nat, open: BOOLEAN]
  BY RequestType DEF Base, ReqsInv, TypeOK
<1>1. ASSUME Return(r), Still, UNCHANGED <<machines, enrol>>
      PROVE  Base'
  BY <1>0, <1>1, IdleType, IdleOk, StepBase DEF Return
<1>2. ASSUME NEW step \in Approving \cup Issuing, Goto(r, step), Still,
             step \in Approving => req[r].step \in Approving,
             step \in Issuing => req[r].step \in Issuing,
             machines' \in [Machines -> {"none", "active", "revoked"}], enrol' \in [used: Nat, open: BOOLEAN]
      PROVE  Base'
  <2>. DEFINE q == [req[r] EXCEPT !.step = step]
  <2>1. req' = [req EXCEPT ![r] = q]
    BY <1>2 DEF Goto, Base, TypeOK
  <2>2. /\ q \in Request /\ q.step = step /\ q.code = req[r].code /\ q.machine = req[r].machine
        /\ q.family = req[r].family
    BY <1>0, GotoType
  <2>. HIDE DEF q
  <2>3. ReqOk(q, codes, tokens)
    BY <1>0, <1>2, <2>2 DEF ReqOk, Refreshing, Approving, Issuing
  <2>. QED BY <1>2, <2>1, <2>2, <2>3, StepBase
<1>3. ASSUME NEW u \in Users, NEW c \in Codes, Activate(r, u, c)
      PROVE  Base'
  <2>. DEFINE step == IF codes[c].enrolled THEN "approve_enroll" ELSE "approve_machine"
              q == [IdleRequest EXCEPT !.step = step, !.code = c, !.machine = <<u, codes[c].print>>]
  <2>1. req' = [req EXCEPT ![r] = q] /\ Still /\ UNCHANGED <<machines, enrol>> /\ codes[c].status = "pending"
    BY <1>3 DEF Activate, MayApprove, Pending, Rest
  <2>2. <<u, codes[c].print>> \in Machines
    BY CodeType DEF Base, Machines
  <2>3. q \in Request /\ q.step \in Approving /\ q.code = c /\ q.machine \in Machines
    BY <2>2 DEF IdleRequest, Request, Approving
  <2>. HIDE DEF q
  <2>4. ReqOk(q, codes, tokens)
    BY <2>1, <2>3 DEF ReqOk, Approving, Refreshing, Issuing
  <2>. QED BY <1>0, <2>1, <2>3, <2>4, StepBase
<1>4. CASE ApproveEnroll(r)
  <2>1. enrol' \in [used: Nat, open: BOOLEAN]
    BY <1>0, <1>4 DEF ApproveEnroll
  <2>. QED BY <1>0, <1>1, <1>2, <1>4, <2>1 DEF ApproveEnroll, Approving, Issuing, Rest
<1>5. CASE ApproveMachine(r)
  <2>1. machines' \in [Machines -> {"none", "active", "revoked"}]
    BY <1>0, <1>5 DEF ApproveMachine, UpsertMachine
  <2>. QED BY <1>0, <1>2, <1>5, <2>1 DEF ApproveMachine, Approving, Issuing, Rest
<1>6. ASSUME NEW i \in DOMAIN tokens, RefreshRead(r, i)
      PROVE  Base'
  <2>. DEFINE q == [step |-> IF tokens[i].state = "live" THEN "rotate" ELSE "reused",
                    code |-> NoCode, machine |-> tokens[i].machine, family |-> tokens[i].family,
                    token |-> i, strayed |-> tokens[i].strayed]
  <2>1. req' = [req EXCEPT ![r] = q] /\ Still /\ UNCHANGED <<machines, enrol>>
    BY <1>6 DEF RefreshRead, Rest
  <2>2. q \in Request
    BY TokenType DEF Base, Request
  <2>3. ReqOk(q, codes, tokens)
    BY DEF ReqOk, Approving, Refreshing, Issuing, Base, TokensInv
  <2>. QED BY <1>0, <2>1, <2>2, <2>3, StepBase
<1>7. CASE IssueMember(r)
  BY <1>0, <1>1, <1>2, <1>7 DEF IssueMember, Approving, Issuing, Rest
<1>8. CASE IssueMachine(r)
  BY <1>0, <1>1, <1>2, <1>8 DEF IssueMachine, Approving, Issuing, Rest
<1>9. CASE Abandon(r)
  BY <1>1, <1>9 DEF Abandon, Rest
<1>. QED BY <1>3, <1>4, <1>5, <1>6, <1>7, <1>8, <1>9

LEMMA ApproveSetBase ==
  ASSUME Base, NEW r \in Requests, ApproveSet(r)
  PROVE  Base'
<1>. DEFINE c == req[r].code
            m == req[r].machine
            y == [codes[c] EXCEPT !.status = "approved"]
            x == [y EXCEPT !.machine = m]
<1>1. /\ req[r].step = "approve_set" /\ req' = [req EXCEPT ![r] = IdleRequest]
      /\ UNCHANGED <<suspended, machines, enrol, tokens, redeemed, killed, forked, ends>>
  BY DEF ApproveSet, Return
<1>2. c \in Codes /\ m \in Machines
  BY <1>1 DEF Base, ReqsInv, ReqOk, Approving
<1>3. CASE ~Pending(c)
  BY <1>1, <1>3, IdleType, IdleOk, StepBase DEF ApproveSet, Rest, Base, TypeOK
<1>4. CASE Pending(c)
  <2>1. codes' = [codes EXCEPT ![c] = x] /\ codes[c].status = "pending"
    BY <1>1, <1>2, <1>4 DEF ApproveSet, ApproveDeviceCode, Pending, Base, TypeOK
  <2>a. y \in Code /\ y.status = "approved"
    BY <1>2, CodeType DEF Base, Code
  <2>. HIDE DEF y
  <2>2. x \in Code /\ x.status = "approved" /\ x.machine = m
    BY <1>2, <2>a DEF Code
  <2>. HIDE DEF x
  <2>3. codes' \in [Codes -> Code] /\ codes'[c] = x /\ \A d \in Codes : d # c => codes'[d] = codes[d]
    BY <1>2, <2>1, <2>2 DEF Base, TypeOK
  <2>4. CodesGrow /\ TokensGrow
    BY <1>1, <1>2, <2>1, <2>2, <2>3, TokensSame DEF CodesGrow
  <2>5. req' \in [Requests -> Request] /\ ReqsInv'
    BY <1>1, <2>4, IdleType, IdleOk, StepReqs
  <2>6. TypeOK'
    BY <1>1, <2>3, <2>5 DEF Base, TypeOK
  <2>7. TokensInv'
    BY <1>1, <2>4, TokensInvStays
  <2>8. CodesInv'
    BY <1>1, <1>2, <2>1, <2>2, <2>3 DEF Base, CodesInv
  <2>9. KilledInv'
    BY <1>1, <2>4, KilledInvSame
  <2>. QED BY <2>5, <2>6, <2>7, <2>8, <2>9 DEF Base
<1>. QED BY <1>3, <1>4

\* The family that a poll opens.
FamilyOf(c) == <<c, redeemed[c] + 1>>

LEMMA PollFacts ==
  ASSUME Base, NEW r \in Requests, NEW c \in Codes, Poll(r, c)
  PROVE  /\ codes[c].status = "approved" /\ codes[c].machine \in Machines
         /\ codes' \in [Codes -> Code] /\ codes'[c].status = "consumed" /\ codes'[c].machine = codes[c].machine
         /\ \A d \in Codes : d # c => codes'[d] = codes[d]
         /\ FamilyOf(c) = <<c, 1>> /\ FamilyOf(c) \in Families
         /\ redeemed' \in [Codes -> Nat] /\ redeemed'[c] = 1
         /\ \A d \in Codes : d # c => redeemed'[d] = redeemed[d]
         /\ CodesGrow
         /\ \E q \in Request : /\ req' = [req EXCEPT ![r] = q]
                               /\ q.step = "issue_member" /\ q.family = FamilyOf(c)
                               /\ q.machine = codes[c].machine /\ q.strayed = FALSE
<1>1. codes[c].status = "approved" /\ codes[c].machine \in Machines /\ redeemed[c] = 0
  BY DEF Poll, CanConsume, Base, CodesInv
<1>2. FamilyOf(c) = <<c, 1>> /\ FamilyOf(c) \in Families
  BY <1>1 DEF FamilyOf, Families
<1>3. redeemed' \in [Codes -> Nat] /\ redeemed'[c] = 1 /\ \A d \in Codes : d # c => redeemed'[d] = redeemed[d]
  BY <1>1 DEF Poll, Base, TypeOK
<1>. DEFINE x == [codes[c] EXCEPT !.status = "consumed"]
            q == [IdleRequest EXCEPT !.step = "issue_member", !.code = c, !.machine = codes[c].machine,
                                     !.family = <<c, redeemed[c] + 1>>]
<1>4. x \in Code /\ x.status = "consumed" /\ x.machine = codes[c].machine
  BY CodeType DEF Base, Code
<1>5. codes' = [codes EXCEPT ![c] = x]
  BY DEF Poll, ConsumeDeviceCode
<1>6. /\ q \in Request /\ q.step = "issue_member" /\ q.family = FamilyOf(c)
      /\ q.machine = codes[c].machine /\ q.strayed = FALSE
  BY <1>1, <1>2 DEF IdleRequest, Request, Issuing, FamilyOf
<1>7. req' = [req EXCEPT ![r] = q]
  BY DEF Poll
<1>. HIDE DEF x, q
<1>8. codes' \in [Codes -> Code] /\ codes'[c] = x /\ \A d \in Codes : d # c => codes'[d] = codes[d]
  BY <1>4, <1>5 DEF Base, TypeOK
<1>9. CodesGrow
  BY <1>1, <1>4, <1>8 DEF CodesGrow
<1>. QED BY <1>1, <1>2, <1>3, <1>4, <1>6, <1>7, <1>8, <1>9

LEMMA PollBase ==
  ASSUME Base, NEW r \in Requests, NEW c \in Codes, Poll(r, c)
  PROVE  Base'
<1>1. UNCHANGED <<suspended, machines, enrol, tokens, killed, forked, ends>>
  BY DEF Poll
<1>2. CodesGrow /\ TokensGrow
  BY <1>1, PollFacts, TokensSame
<1>3. req' \in [Requests -> Request] /\ ReqsInv'
  <2>1. PICK q \in Request : /\ req' = [req EXCEPT ![r] = q]
                             /\ q.step = "issue_member" /\ q.family = FamilyOf(c)
                             /\ q.machine = codes[c].machine
    BY PollFacts
  <2>2. Opened(codes', q.family, q.machine)
    <3>1. q.family = <<c, 1>> /\ q.family \in Families /\ q.machine = codes[c].machine
      BY <2>1, PollFacts
    <3>2. codes'[c].status = "consumed" /\ codes'[c].machine = codes[c].machine /\ codes[c].machine \in Machines
      BY PollFacts
    <3>3. q.family[1] = c /\ q.family[2] = 1
      BY <3>1
    <3>. QED BY <3>1, <3>2, <3>3 DEF Opened
  <2>3. ReqOk(q, codes', tokens')
    BY <2>1, <2>2 DEF ReqOk, Approving, Refreshing
  <2>. QED BY <1>2, <2>1, <2>3, StepReqs
<1>4. TypeOK'
  BY <1>1, <1>3, PollFacts DEF Base, TypeOK
<1>5. TokensInv'
  BY <1>1, <1>2, TokensInvStays
<1>6. CodesInv'
  BY PollFacts DEF Base, CodesInv
<1>7. KilledInv'
  BY <1>1, <1>2, KilledInvSame
<1>. QED BY <1>3, <1>4, <1>5, <1>6, <1>7 DEF Base

\* Some requests go on as strayed, one may end; the rest of each stays as it is.
SameBut(q, p) == /\ q.step = p.step /\ q.code = p.code /\ q.machine = p.machine
                 /\ q.family = p.family /\ q.token = p.token

LEMMA SameButOk ==
  ASSUME CodesGrow, TokensGrow, NEW p, NEW q, SameBut(q, p), ReqOk(p, codes, tokens)
  PROVE  ReqOk(q, codes', tokens')
<1>1. ReqOk(p, codes', tokens')
  BY ReqOkStays
<1>. QED BY <1>1 DEF ReqOk, SameBut

\* A sign-out: tokens are revoked, families are killed, requests stray or end.
LEMMA SignOutBase ==
  ASSUME Base, NEW S, RevokeTokens(S), NEW F \in SUBSET Families,
         \A fam \in F : codes[fam[1]].status = "consumed", killed' = killed \cup F,
         req' \in [Requests -> Request],
         \A r \in Requests : req'[r] = IdleRequest \/ SameBut(req'[r], req[r]),
         UNCHANGED <<codes, redeemed, enrol>>,
         suspended' \subseteq Users, forked' \subseteq Families, ends' \in Nat,
         machines' \in [Machines -> {"none", "active", "revoked"}]
  PROVE  Base'
<1>1. CodesGrow /\ CodesInv'
  BY CodesInvStays
<1>2. TokensGrow /\ DOMAIN tokens' = DOMAIN tokens /\ tokens' \in Seq(Token)
  BY RevokeTokensFacts DEF Base
<1>3. ReqsInv'
  <2>. SUFFICES ASSUME NEW r \in Requests PROVE ReqOk(req'[r], codes', tokens')
    BY DEF ReqsInv
  <2>1. CASE req'[r] = IdleRequest
    BY <2>1, IdleOk
  <2>2. CASE SameBut(req'[r], req[r])
    BY <1>1, <1>2, <2>2, SameButOk DEF Base, ReqsInv
  <2>. QED BY <2>1, <2>2
<1>4. KilledInv' /\ killed' \subseteq Families
  BY <1>1, KilledInvStays
<1>5. TokensInv'
  BY <1>1, <1>2, TokensInvStays
<1>6. TypeOK'
  BY <1>2, <1>4 DEF Base, TypeOK
<1>. QED BY <1>1, <1>3, <1>4, <1>5, <1>6 DEF Base

\* How the requests go on when some of them stray.
LEMMA StrayReqs ==
  ASSUME Base, NEW R, req' = [r \in Requests |-> IF r \in R THEN [req[r] EXCEPT !.strayed = TRUE] ELSE req[r]]
  PROVE  /\ req' \in [Requests -> Request]
         /\ \A r \in Requests : /\ SameBut(req'[r], req[r])
                                /\ r \in R => req'[r].strayed
                                /\ r \notin R => req'[r] = req[r]
<1>1. ASSUME NEW r \in Requests
      PROVE  /\ req'[r] \in Request /\ SameBut(req'[r], req[r])
             /\ r \in R => req'[r].strayed
             /\ r \notin R => req'[r] = req[r]
  <2>1. req[r] \in Request
    BY DEF Base, TypeOK
  <2>2. CASE r \in R
    <3>1. req'[r] = [req[r] EXCEPT !.strayed = TRUE]
      BY <2>2
    <3>. QED BY <2>1, <2>2, <3>1, StrayedType DEF SameBut
  <2>3. CASE r \notin R
    BY <2>1, <2>3 DEF SameBut
  <2>. QED BY <2>2, <2>3
<1>2. req' = [r \in Requests |-> req'[r]]
  OBVIOUS
<1>. QED BY <1>1, <1>2

LEMMA SignedOutFamilies ==
  ASSUME Base, NEW S \in SUBSET DOMAIN tokens
  PROVE  /\ {tokens[i].family : i \in S} \in SUBSET Families
         /\ \A fam \in {tokens[i].family : i \in S} : codes[fam[1]].status = "consumed"
  BY DEF Base, TokensInv, Opened

LEMMA AdministerBase ==
  ASSUME Base, (\E m \in Machines : Logout(m) \/ RevokeMachine(m)) \/ (\E u \in Users : SuspendUser(u))
  PROVE  Base'
<1>1. ASSUME NEW S \in SUBSET DOMAIN tokens, NEW R, SignOut(S, R), RevokeTokens(S),
             UNCHANGED <<codes, redeemed, enrol, forked>>, suspended' \subseteq Users,
             machines' \in [Machines -> {"none", "active", "revoked"}]
      PROVE  Base'
  <2>. DEFINE F == {tokens[i].family : i \in S}
  <2>1. F \in SUBSET Families /\ \A fam \in F : codes[fam[1]].status = "consumed"
    BY SignedOutFamilies
  <2>2. killed' = killed \cup F
    BY <1>1 DEF SignOut
  <2>. HIDE DEF F
  <2>3. req' \in [Requests -> Request] /\ \A r \in Requests : SameBut(req'[r], req[r])
    BY <1>1, StrayReqs DEF SignOut
  <2>4. ends' \in Nat /\ forked' \subseteq Families
    BY <1>1 DEF SignOut, End, Base, TypeOK
  <2>. QED BY <1>1, <2>1, <2>2, <2>3, <2>4, SignOutBase
<1>2. /\ suspended \subseteq Users /\ machines \in [Machines -> {"none", "active", "revoked"}]
  BY DEF Base, TypeOK
<1>3. ASSUME NEW m \in Machines, Logout(m) \/ RevokeMachine(m)
      PROVE  Base'
  <2>1. OnMachine(m) \in SUBSET DOMAIN tokens
    BY DEF OnMachine
  <2>2. machines' \in [Machines -> {"none", "active", "revoked"}]
    BY <1>2, <1>3 DEF Logout, RevokeMachine
  <2>. QED BY <1>1, <1>2, <1>3, <2>1, <2>2 DEF Logout, RevokeMachine
<1>4. ASSUME NEW u \in Users, SuspendUser(u)
      PROVE  Base'
  <2>1. OfUser(u) \in SUBSET DOMAIN tokens
    BY DEF OfUser
  <2>2. machines' \in [Machines -> {"none", "active", "revoked"}] /\ suspended' \subseteq Users
    BY <1>2, <1>4 DEF SuspendUser
  <2>. QED BY <1>1, <1>4, <2>1, <2>2 DEF SuspendUser
<1>. QED BY <1>3, <1>4

LEMMA RefreshReusedFacts ==
  ASSUME Base, NEW r \in Requests, RefreshReused(r)
  PROVE  /\ req' \in [Requests -> Request] /\ req'[r] = IdleRequest
         /\ \A s \in Requests \ {r} :
              /\ SameBut(req'[s], req[s])
              /\ s \in Issuers /\ req[s].family = req[r].family => req'[s].strayed
              /\ s \notin Issuers \/ req[s].family # req[r].family => req'[s] = req[s]
<1>. DEFINE R == {s \in Issuers : req[s].family = req[r].family}
            f == [s \in Requests |-> IF s \in R THEN [req[s] EXCEPT !.strayed = TRUE] ELSE req[s]]
<1>1. req' = [f EXCEPT ![r] = IdleRequest]
  BY DEF RefreshReused, Issuers
<1>2. ASSUME NEW s \in Requests
      PROVE  /\ f[s] \in Request /\ SameBut(f[s], req[s])
             /\ s \in R => f[s].strayed
             /\ s \notin R => f[s] = req[s]
  <2>1. req[s] \in Request
    BY DEF Base, TypeOK
  <2>2. CASE s \in R
    <3>1. f[s] = [req[s] EXCEPT !.strayed = TRUE]
      BY <2>2
    <3>. QED BY <2>1, <2>2, <3>1, StrayedType DEF SameBut
  <2>3. CASE s \notin R
    BY <2>1, <2>3 DEF SameBut
  <2>. QED BY <2>2, <2>3
<1>3. f \in [Requests -> Request]
  BY <1>2
<1>. HIDE DEF f
<1>. QED BY <1>1, <1>2, <1>3, IdleType

LEMMA RefreshBase ==
  ASSUME Base, NEW r \in Requests, RefreshReused(r) \/ RefreshRotate(r)
  PROVE  Base'
<1>1. /\ req[r] \in Request /\ ReqOk(req[r], codes, tokens) /\ suspended \subseteq Users /\ ends \in Nat
      /\ machines \in [Machines -> {"none", "active", "revoked"}] /\ forked \subseteq Families
      /\ killed \subseteq Families
  BY DEF Base, TypeOK, ReqsInv
<1>2. CASE RefreshReused(r)
  <2>. DEFINE F == {req[r].family}
  <2>1. req[r].family \in Families /\ codes[req[r].family[1]].status = "consumed"
    BY <1>1, <1>2 DEF RefreshReused, ReqOk, Opened, Refreshing
  <2>2. F \in SUBSET Families /\ (\A fam \in F : codes[fam[1]].status = "consumed") /\ killed' = killed \cup F
    BY <1>2, <2>1 DEF RefreshReused
  <2>3. req' \in [Requests -> Request] /\ \A s \in Requests : req'[s] = IdleRequest \/ SameBut(req'[s], req[s])
    BY <1>2, RefreshReusedFacts
  <2>. HIDE DEF F
  <2>4. /\ RevokeTokens(TokensOf(req[r].family)) /\ UNCHANGED <<codes, redeemed, enrol>>
        /\ suspended' \subseteq Users /\ forked' \subseteq Families /\ ends' \in Nat
        /\ machines' \in [Machines -> {"none", "active", "revoked"}]
    BY <1>1, <1>2 DEF RefreshReused
  <2>. QED BY <2>2, <2>3, <2>4, SignOutBase
<1>3. CASE RefreshRotate(r)
  <2>. DEFINE q == [req[r] EXCEPT !.step = "issue_member"]
  <2>1. req' = [req EXCEPT ![r] = q] /\ req[r].step = "rotate"
    BY <1>3 DEF RefreshRotate, Goto, Base, TypeOK
  <2>2. /\ q \in Request /\ q.step = "issue_member" /\ q.machine = req[r].machine /\ q.family = req[r].family
    BY <1>1, GotoType DEF Issuing
  <2>. HIDE DEF q
  <2>3. /\ RevokeTokens({req[r].token}) /\ UNCHANGED <<suspended, machines, codes, enrol, redeemed, killed, ends>>
    BY <1>3 DEF RefreshRotate
  <2>4. CodesGrow /\ CodesInv' /\ KilledInv'
    BY <2>3, CodesInvStays, KilledInvSame
  <2>5. TokensGrow /\ DOMAIN tokens' = DOMAIN tokens /\ tokens' \in Seq(Token)
    BY <2>3, RevokeTokensFacts DEF Base
  <2>6. Opened(codes', q.family, q.machine)
    BY <1>1, <2>1, <2>2, <2>4, OpenedStays DEF ReqOk, Refreshing
  <2>7. ReqOk(q, codes', tokens')
    BY <2>2, <2>6 DEF ReqOk, Approving, Refreshing
  <2>8. req' \in [Requests -> Request] /\ ReqsInv'
    BY <2>1, <2>2, <2>4, <2>5, <2>7, StepReqs
  <2>9. forked' \subseteq Families
    <3>1. req[r].family \in Families
      BY <1>1, <2>1 DEF ReqOk, Refreshing, Opened
    <3>. QED BY <1>1, <1>3, <3>1 DEF RefreshRotate
  <2>10. TypeOK'
    BY <2>3, <2>5, <2>8, <2>9 DEF Base, TypeOK
  <2>11. TokensInv'
    BY <2>4, <2>5, TokensInvStays
  <2>. QED BY <2>4, <2>8, <2>10, <2>11 DEF Base
<1>. QED BY <1>2, <1>3

\* INSERT INTO refresh_tokens, for a request that is done with it.
LEMMA IssueTokenFacts ==
  ASSUME Base, NEW r \in Requests, IssueToken(r)
  PROVE  LET n == Len(tokens) + 1
         IN /\ Opened(codes, req[r].family, req[r].machine)
            /\ tokens' \in Seq(Token) /\ DOMAIN tokens' = DOMAIN tokens \cup {n} /\ n \notin DOMAIN tokens
            /\ \A i \in DOMAIN tokens : tokens'[i] = tokens[i]
            /\ tokens'[n].family = req[r].family /\ tokens'[n].machine = req[r].machine
            /\ tokens'[n].state = "live" /\ tokens'[n].strayed = req[r].strayed
            /\ req' = [req EXCEPT ![r] = IdleRequest]
<1>. DEFINE t == [family |-> req[r].family, machine |-> req[r].machine, state |-> "live", strayed |-> req[r].strayed]
<1>1. Opened(codes, req[r].family, req[r].machine)
  BY DEF IssueToken, Base, ReqsInv, ReqOk, Issuing
<1>2. req[r].strayed \in BOOLEAN
  BY RequestType DEF Base
<1>3. t \in Token
  BY <1>1, <1>2 DEF Token, Opened
<1>4. tokens' = Append(tokens, t) /\ req' = [req EXCEPT ![r] = IdleRequest] /\ tokens \in Seq(Token)
  BY DEF IssueToken, CreateRefreshToken, Return, Base, TypeOK
<1>5. t.family = req[r].family /\ t.machine = req[r].machine /\ t.state = "live" /\ t.strayed = req[r].strayed
  OBVIOUS
<1>. HIDE DEF t
<1>. QED BY <1>1, <1>3, <1>4, <1>5

LEMMA IssueTokenBase ==
  ASSUME Base, NEW r \in Requests, IssueToken(r)
  PROVE  Base'
<1>1. UNCHANGED <<suspended, machines, codes, enrol, redeemed, killed, forked, ends>>
  BY DEF IssueToken
<1>2. CodesGrow /\ CodesInv' /\ KilledInv'
  BY <1>1, CodesInvStays, KilledInvSame
<1>3. TokensGrow
  BY IssueTokenFacts DEF TokensGrow
<1>4. req' \in [Requests -> Request] /\ ReqsInv'
  BY <1>2, <1>3, IssueTokenFacts, IdleType, IdleOk, StepReqs
<1>5. TypeOK'
  BY <1>1, <1>4, IssueTokenFacts DEF Base, TypeOK
<1>6. TokensInv'
  <2>. SUFFICES ASSUME NEW i \in DOMAIN tokens' PROVE Opened(codes, tokens'[i].family, tokens'[i].machine)
    BY <1>1 DEF TokensInv
  <2>1. CASE i \in DOMAIN tokens
    BY <2>1, IssueTokenFacts DEF Base, TokensInv
  <2>2. CASE i \notin DOMAIN tokens
    <3>1. i = Len(tokens) + 1
      BY <2>2, IssueTokenFacts
    <3>. QED BY <3>1, IssueTokenFacts
  <2>. QED BY <2>1, <2>2
<1>. QED BY <1>2, <1>4, <1>5, <1>6 DEF Base

LEMMA ExpireTokenFacts ==
  ASSUME TypeOK, NEW i \in DOMAIN tokens, ExpireToken(i)
  PROVE  /\ tokens' \in Seq(Token) /\ DOMAIN tokens' = DOMAIN tokens /\ TokensGrow
         /\ tokens'[i].state = "expired"
         /\ \A j \in DOMAIN tokens : j # i => tokens'[j] = tokens[j]
<1>. DEFINE t == [tokens[i] EXCEPT !.state = "expired"]
<1>1. tokens' = [tokens EXCEPT ![i] = t] /\ tokens \in Seq(Token)
  BY DEF ExpireToken, TypeOK
<1>2. t \in Token /\ t.state = "expired" /\ t.family = tokens[i].family /\ t.machine = tokens[i].machine
  BY TokenType DEF Token
<1>. HIDE DEF t
<1>3. /\ tokens' \in Seq(Token) /\ DOMAIN tokens' = DOMAIN tokens
      /\ tokens'[i] = t /\ \A j \in DOMAIN tokens : j # i => tokens'[j] = tokens[j]
  BY <1>1, <1>2
<1>. QED BY <1>2, <1>3 DEF TokensGrow

LEMMA ExpireCodeFacts ==
  ASSUME TypeOK, NEW c \in Codes, ExpireCode(c)
  PROVE  /\ codes' \in [Codes -> Code]
         /\ \A d \in Codes : codes'[d].status = codes[d].status /\ codes'[d].machine = codes[d].machine
<1>. DEFINE x == [codes[c] EXCEPT !.old = TRUE]
<1>1. codes' = [codes EXCEPT ![c] = x] /\ codes \in [Codes -> Code]
  BY DEF ExpireCode, TypeOK
<1>2. x \in Code /\ x.status = codes[c].status /\ x.machine = codes[c].machine
  BY CodeType DEF Code
<1>. HIDE DEF x
<1>. QED BY <1>1, <1>2

\* Steps that leave the requests and the families alone.
LEMMA RestBase ==
  ASSUME Base, (\E u \in Users : ReactivateUser(u)) \/ CloseEnrollment \/ Elapse \/ UNCHANGED vars
  PROVE  Base'
<1>1. ASSUME CodesGrow, TokensGrow, DOMAIN tokens' = DOMAIN tokens, tokens' \in Seq(Token),
             codes' \in [Codes -> Code], CodesInv', UNCHANGED <<machines, req, redeemed, killed, forked>>,
             suspended' \subseteq Users, enrol' \in [used: Nat, open: BOOLEAN], ends' \in Nat
      PROVE  Base'
  <2>1. ReqsInv'
    BY <1>1, ReqOkStays DEF Base, ReqsInv
  <2>2. TokensInv' /\ KilledInv'
    BY <1>1, TokensInvStays, KilledInvSame
  <2>3. TypeOK'
    BY <1>1 DEF Base, TypeOK
  <2>. QED BY <1>1, <2>1, <2>2, <2>3 DEF Base
<1>2. /\ suspended \subseteq Users /\ enrol \in [used: Nat, open: BOOLEAN] /\ ends \in Nat
      /\ tokens \in Seq(Token) /\ codes \in [Codes -> Code]
  BY DEF Base, TypeOK
<1>3. ASSUME UNCHANGED <<codes, redeemed, tokens>>
      PROVE  CodesGrow /\ CodesInv' /\ TokensGrow /\ codes' = codes /\ tokens' = tokens
  BY <1>3, CodesInvStays, TokensSame
<1>4. CASE \E u \in Users : ReactivateUser(u)
  BY <1>1, <1>2, <1>3, <1>4 DEF ReactivateUser
<1>5. CASE CloseEnrollment
  <2>1. enrol' = [enrol EXCEPT !.open = FALSE]
    BY <1>5 DEF CloseEnrollment
  <2>2. enrol' \in [used: Nat, open: BOOLEAN]
    BY <1>2, <2>1
  <2>3. ends' \in Nat
    BY <1>2, <1>5 DEF CloseEnrollment, End
  <2>. QED BY <1>1, <1>2, <1>3, <1>5, <2>2, <2>3 DEF CloseEnrollment
<1>6. CASE UNCHANGED vars
  BY <1>1, <1>2, <1>3, <1>6 DEF vars
<1>7. ASSUME NEW c \in Codes, ExpireCode(c)
      PROVE  Base'
  <2>1. UNCHANGED <<suspended, machines, enrol, tokens, req, redeemed, killed, forked>> /\ ends' \in Nat
    BY <1>2, <1>7 DEF ExpireCode, End
  <2>2. CodesGrow /\ CodesInv' /\ codes' \in [Codes -> Code]
    BY <1>7, <2>1, ExpireCodeFacts DEF Base, CodesGrow, CodesInv
  <2>. QED BY <1>1, <1>2, <2>1, <2>2, TokensSame
<1>8. ASSUME NEW i \in DOMAIN tokens, ExpireToken(i)
      PROVE  Base'
  <2>1. UNCHANGED <<suspended, machines, codes, enrol, req, redeemed, killed, forked>> /\ ends' \in Nat
    BY <1>2, <1>8 DEF ExpireToken, End
  <2>2. CodesGrow /\ CodesInv'
    BY <2>1, CodesInvStays
  <2>3. tokens' \in Seq(Token) /\ DOMAIN tokens' = DOMAIN tokens /\ TokensGrow
    BY <1>8, ExpireTokenFacts DEF Base
  <2>. QED BY <1>1, <1>2, <2>1, <2>2, <2>3
<1>. QED BY <1>4, <1>5, <1>6, <1>7, <1>8 DEF Elapse

LEMMA NextBase == Base /\ [Next]_vars => Base'
<1>. SUFFICES ASSUME Base, [Next]_vars PROVE Base'
  OBVIOUS
<1>1. CASE \E c \in Codes, f \in Prints, e \in BOOLEAN : DeviceStart(c, f, e)
  BY <1>1, DeviceStartBase
<1>2. ASSUME NEW r \in Requests, Begin(r) \/ Serve(r)
      PROVE  Base'
  BY <1>2, GoOnBase, PollBase, ApproveSetBase, RefreshBase, IssueTokenBase DEF Begin, Serve
<1>3. CASE Administer
  BY <1>3, AdministerBase, RestBase DEF Administer
<1>4. CASE Elapse \/ UNCHANGED vars
  BY <1>4, RestBase
<1>. QED BY <1>1, <1>2, <1>3, <1>4 DEF Next

LEMMA BaseInvariant == Spec => []Base
  BY InitBase, NextBase, PTL DEF Spec

\* The state of the device flow keeps its types.
THEOREM TypeCorrect == Spec => []TypeOK
<1>1. Base => TypeOK
  BY DEF Base
<1>. QED BY <1>1, BaseInvariant, PTL

-------------------------------------------------------------------------------
(* Signing out *)

Survivors == Base /\ IssuersInv /\ SurvivorsStrayed

\* What IssuersInv and SurvivorsStrayed say of one request and of one token.
Knows(q, kl, su, ms) ==
  \/ q.strayed
  \/ /\ q.family \notin kl
     /\ q.step \in {"issue_machine", "issue_token"} => q.machine[1] \notin su
     /\ q.step = "issue_token" => ms[q.machine] = "active"

Lives(t, kl, su, ms) ==
  \/ t.strayed
  \/ t.family \notin kl /\ ms[t.machine] = "active" /\ t.machine[1] \notin su

Issues(q) == q.step \in {"rotate"} \cup Issuing

LEMMA SurvivorsIff ==
  /\ IssuersInv <=> \A r \in Requests : Issues(req[r]) => Knows(req[r], killed, suspended, machines)
  /\ SurvivorsStrayed <=> \A i \in DOMAIN tokens : tokens[i].state = "live" => Lives(tokens[i], killed, suspended, machines)
  BY DEF IssuersInv, SurvivorsStrayed, Issuers, Issues, Knows, Live, Lives

LEMMA SurvivorsIffPrime ==
  /\ IssuersInv' <=> \A r \in Requests : Issues(req'[r]) => Knows(req'[r], killed', suspended', machines')
  /\ SurvivorsStrayed' <=> \A i \in DOMAIN tokens' :
                             tokens'[i].state = "live" => Lives(tokens'[i], killed', suspended', machines')
  BY DEF IssuersInv, SurvivorsStrayed, Issuers, Issues, Knows, Live, Lives

\* The rows that the invariants look at, when nothing is signed out.
Calm ==
  /\ UNCHANGED killed /\ suspended' \subseteq suspended
  /\ \A m \in Machines : machines[m] = "active" => machines'[m] = "active"

LEMMA CalmKeeps ==
  ASSUME Base, Calm
  PROVE  /\ \A r \in Requests : Issues(req[r]) /\ Knows(req[r], killed, suspended, machines)
                                  => Knows(req[r], killed', suspended', machines')
         /\ \A i \in DOMAIN tokens : Lives(tokens[i], killed, suspended, machines)
                                       => Lives(tokens[i], killed', suspended', machines')
<1>1. \A r \in Requests : Issues(req[r]) => req[r].machine \in Machines
  BY DEF Base, ReqsInv, ReqOk, Issues, Opened, Refreshing
<1>2. \A i \in DOMAIN tokens : tokens[i].machine \in Machines
  BY DEF Base, TokensInv, Opened
<1>. QED BY <1>1, <1>2 DEF Calm, Knows, Lives

\* A calm step of one request.
LEMMA CalmStep ==
  ASSUME Survivors, Calm, NEW r \in Requests, NEW q, req' = [req EXCEPT ![r] = q],
         Issues(q) => Knows(q, killed', suspended', machines'),
         \A i \in DOMAIN tokens' : \/ i \in DOMAIN tokens /\ tokens'[i] = tokens[i]
                                   \/ tokens'[i].state = "live" => Lives(tokens'[i], killed', suspended', machines')
  PROVE  IssuersInv' /\ SurvivorsStrayed'
<1>1. req'[r] = q /\ \A s \in Requests : s # r => req'[s] = req[s]
  BY DEF Survivors, Base, TypeOK
<1>2. \A s \in Requests : Issues(req'[s]) => Knows(req'[s], killed', suspended', machines')
  BY <1>1, CalmKeeps, SurvivorsIff DEF Survivors
<1>3. \A i \in DOMAIN tokens' : tokens'[i].state = "live" => Lives(tokens'[i], killed', suspended', machines')
  BY CalmKeeps, SurvivorsIff DEF Survivors
<1>. QED BY <1>2, <1>3, SurvivorsIffPrime

LEMMA IdleIssuesNothing == ~Issues(IdleRequest)
  BY IdleType DEF Issues, Issuing

LEMMA ServeSurvivors ==
  ASSUME Survivors, NEW r \in Requests,
         (\E u \in Users, c \in Codes : Activate(r, u, c)) \/ (\E c \in Codes : Poll(r, c))
           \/ (\E i \in DOMAIN tokens : RefreshRead(r, i)) \/ ApproveEnroll(r) \/ ApproveMachine(r) \/ ApproveSet(r)
           \/ RefreshRotate(r) \/ IssueMember(r) \/ IssueMachine(r) \/ IssueToken(r) \/ Abandon(r)
  PROVE  IssuersInv' /\ SurvivorsStrayed'
<1>. DEFINE Quiet == UNCHANGED <<suspended, machines, killed>>
<1>0. /\ Base /\ req[r] \in Request /\ ReqOk(req[r], codes, tokens) /\ req \in [Requests -> Request]
      /\ machines \in [Machines -> {"none", "active", "revoked"}]
      /\ Issues(req[r]) => Knows(req[r], killed, suspended, machines)
  BY SurvivorsIff DEF Survivors, Base, ReqsInv, TypeOK
<1>1. Quiet => Calm
  BY DEF Calm
<1>2. ASSUME Return(r), Quiet, UNCHANGED tokens
      PROVE  IssuersInv' /\ SurvivorsStrayed'
  BY <1>1, <1>2, IdleIssuesNothing, CalmStep DEF Return
<1>3. ASSUME NEW step \in Approving \cup Issuing, Goto(r, step), Calm,
             \A i \in DOMAIN tokens' : \/ i \in DOMAIN tokens /\ tokens'[i] = tokens[i]
                                       \/ tokens'[i].state = "live" => Lives(tokens'[i], killed', suspended', machines'),
             step \in Issuing => \/ req[r].strayed
                                 \/ /\ req[r].family \notin killed'
                                    /\ step \in {"issue_machine", "issue_token"} => req[r].machine[1] \notin suspended'
                                    /\ step = "issue_token" => machines'[req[r].machine] = "active"
      PROVE  IssuersInv' /\ SurvivorsStrayed'
  <2>. DEFINE q == [req[r] EXCEPT !.step = step]
  <2>1. req' = [req EXCEPT ![r] = q]
    BY <1>0, <1>3 DEF Goto
  <2>2. q.step = step /\ q.machine = req[r].machine /\ q.family = req[r].family /\ q.strayed = req[r].strayed
    BY <1>0, GotoType
  <2>. HIDE DEF q
  <2>3. Issues(q) => Knows(q, killed', suspended', machines')
    BY <1>3, <2>2 DEF Issues, Knows, Approving, Issuing
  <2>. QED BY <1>3, <2>1, <2>3, CalmStep
<1>4. ASSUME NEW u \in Users, NEW c \in Codes, Activate(r, u, c)
      PROVE  IssuersInv' /\ SurvivorsStrayed'
  <2>. DEFINE q == [IdleRequest EXCEPT !.step = IF codes[c].enrolled THEN "approve_enroll" ELSE "approve_machine",
                                       !.code = c, !.machine = <<u, codes[c].print>>]
  <2>1. req' = [req EXCEPT ![r] = q] /\ Quiet /\ UNCHANGED tokens
    BY <1>4 DEF Activate
  <2>2. q.step \in Approving
    BY DEF IdleRequest, Approving
  <2>. HIDE DEF q
  <2>3. ~Issues(q)
    BY <2>2 DEF Issues, Approving, Issuing
  <2>. QED BY <1>1, <2>1, <2>3, CalmStep
<1>5. ASSUME NEW c \in Codes, Poll(r, c)
      PROVE  IssuersInv' /\ SurvivorsStrayed'
  <2>1. PICK q \in Request : req' = [req EXCEPT ![r] = q] /\ q.step = "issue_member" /\ q.family = FamilyOf(c)
    BY <1>0, <1>5, PollFacts
  <2>2. Quiet /\ UNCHANGED tokens
    BY <1>5 DEF Poll
  <2>3. FamilyOf(c)[1] = c /\ codes[c].status = "approved"
    BY <1>0, <1>5, PollFacts DEF FamilyOf
  <2>4. FamilyOf(c) \notin killed
    BY <1>0, <2>3 DEF Base, KilledInv
  <2>5. Knows(q, killed', suspended', machines')
    BY <2>1, <2>2, <2>4 DEF Knows
  <2>. QED BY <1>1, <2>1, <2>2, <2>5, CalmStep
<1>6. ASSUME NEW i \in DOMAIN tokens, RefreshRead(r, i)
      PROVE  IssuersInv' /\ SurvivorsStrayed'
  <2>. DEFINE q == [step |-> IF tokens[i].state = "live" THEN "rotate" ELSE "reused",
                    code |-> NoCode, machine |-> tokens[i].machine, family |-> tokens[i].family,
                    token |-> i, strayed |-> tokens[i].strayed]
  <2>1. req' = [req EXCEPT ![r] = q] /\ Quiet /\ UNCHANGED tokens
    BY <1>6 DEF RefreshRead
  <2>2. Issues(q) => tokens[i].state = "live"
    BY DEF Issues, Issuing
  <2>3. Issues(q) => Knows(q, killed', suspended', machines')
    BY <2>1, <2>2, SurvivorsIff DEF Survivors, Knows, Lives
  <2>. QED BY <1>1, <2>1, <2>3, CalmStep
<1>7. CASE ApproveEnroll(r)
  BY <1>1, <1>2, <1>3, <1>7 DEF ApproveEnroll, Approving, Issuing
<1>8. CASE ApproveMachine(r)
  <2>1. Calm
    BY <1>0, <1>8 DEF ApproveMachine, UpsertMachine, Calm
  <2>. QED BY <1>3, <1>8, <2>1 DEF ApproveMachine, Approving, Issuing
<1>9. CASE ApproveSet(r)
  BY <1>2, <1>9 DEF ApproveSet
<1>10. CASE RefreshRotate(r)
  <2>1. /\ \A i \in DOMAIN tokens' :
             /\ i \in DOMAIN tokens /\ tokens'[i].family = tokens[i].family
             /\ tokens'[i].machine = tokens[i].machine /\ tokens'[i].strayed = tokens[i].strayed
             /\ tokens'[i].state = "live" => tokens[i].state = "live"
        /\ Quiet
    BY <1>0, <1>10, RevokeTokensFacts DEF RefreshRotate, Base
  <2>2. \A i \in DOMAIN tokens' : tokens'[i].state = "live" => Lives(tokens'[i], killed', suspended', machines')
    BY <2>1, SurvivorsIff DEF Survivors, Lives
  <2>3. req[r].strayed \/ req[r].family \notin killed'
    BY <1>0, <1>10, <2>1 DEF RefreshRotate, Issues, Knows
  <2>. QED BY <1>1, <1>3, <1>10, <2>1, <2>2, <2>3 DEF RefreshRotate, Issuing
<1>11. CASE IssueMember(r)
  <2>1. req[r].strayed \/ req[r].family \notin killed
    BY <1>0, <1>11 DEF IssueMember, Issues, Issuing, Knows
  <2>. QED BY <1>1, <1>2, <1>3, <1>11, <2>1 DEF IssueMember, Issuing
<1>12. CASE IssueMachine(r)
  <2>1. req[r].strayed \/ (req[r].family \notin killed /\ req[r].machine[1] \notin suspended)
    BY <1>0, <1>12 DEF IssueMachine, Issues, Issuing, Knows
  <2>. QED BY <1>1, <1>2, <1>3, <1>12, <2>1 DEF IssueMachine, Issuing
<1>13. CASE IssueToken(r)
  <2>1. Quiet
    BY <1>13 DEF IssueToken
  <2>2. Knows(req[r], killed, suspended, machines) /\ req[r].step = "issue_token"
    BY <1>0, <1>13 DEF IssueToken, Issues, Issuing
  <2>. DEFINE n == Len(tokens) + 1
  <2>3. /\ DOMAIN tokens' = DOMAIN tokens \cup {n} /\ \A i \in DOMAIN tokens : tokens'[i] = tokens[i]
        /\ tokens'[n].family = req[r].family /\ tokens'[n].machine = req[r].machine
        /\ tokens'[n].strayed = req[r].strayed /\ req' = [req EXCEPT ![r] = IdleRequest]
    BY <1>0, <1>13, IssueTokenFacts
  <2>. HIDE DEF n
  <2>4. Lives(tokens'[n], killed', suspended', machines')
    BY <2>1, <2>2, <2>3 DEF Knows, Lives
  <2>. QED BY <1>1, <2>1, <2>3, <2>4, IdleIssuesNothing, CalmStep
<1>14. CASE Abandon(r)
  BY <1>2, <1>14 DEF Abandon
<1>. QED BY <1>4, <1>5, <1>6, <1>7, <1>8, <1>9, <1>10, <1>11, <1>12, <1>13, <1>14

\* The machines M are signed out: their tokens, and the requests that will issue one.
LEMMA SignOutSurvivors ==
  ASSUME Survivors, NEW M \in SUBSET Machines,
         RevokeTokens({i \in DOMAIN tokens : tokens[i].machine \in M}),
         SignOut({i \in DOMAIN tokens : tokens[i].machine \in M}, {r \in Issuers : req[r].machine \in M}),
         \A m \in Machines \ M : /\ machines'[m] = machines[m]
                                 /\ m[1] \in suspended' => m[1] \in suspended
  PROVE  IssuersInv' /\ SurvivorsStrayed'
<1>. DEFINE S == {i \in DOMAIN tokens : tokens[i].machine \in M}
            R == {r \in Issuers : req[r].machine \in M}
<1>1. Base /\ ReqsInv /\ TokensInv
  BY DEF Survivors, Base
<1>2. killed' = killed \cup {tokens[i].family : i \in S}
  BY DEF SignOut
<1>3. \A r \in Requests : /\ SameBut(req'[r], req[r])
                          /\ r \in R => req'[r].strayed
                          /\ r \notin R => req'[r] = req[r]
  <2>1. req' = [r \in Requests |-> IF r \in R THEN [req[r] EXCEPT !.strayed = TRUE] ELSE req[r]]
    BY DEF SignOut
  <2>. HIDE DEF R
  <2>. QED BY <1>1, <2>1, StrayReqs
<1>4. /\ DOMAIN tokens' = DOMAIN tokens
      /\ \A i \in DOMAIN tokens :
           /\ tokens'[i].family = tokens[i].family /\ tokens'[i].machine = tokens[i].machine
           /\ tokens'[i].strayed = tokens[i].strayed
           /\ tokens'[i].state = IF i \in S THEN "revoked" ELSE tokens[i].state
  <2>. HIDE DEF S
  <2>. QED BY <1>1, RevokeTokensFacts DEF Base, S
\* A family that is signed out here is on a machine in M.
<1>5. ASSUME NEW fam, NEW m, Opened(codes, fam, m), m \notin M
      PROVE  fam \in killed' => fam \in killed
  <2>1. \A i \in S : Opened(codes, tokens[i].family, tokens[i].machine) /\ tokens[i].machine \in M
    BY <1>1 DEF TokensInv
  <2>2. \A i \in S : tokens[i].family # fam
    BY <1>5, <2>1 DEF Opened
  <2>. QED BY <1>2, <2>2
<1>6. ASSUME NEW r \in Requests, Issues(req'[r])
      PROVE  Knows(req'[r], killed', suspended', machines')
  <2>1. Issues(req[r])
    BY <1>3, <1>6 DEF SameBut, Issues
  <2>2. CASE r \in R
    BY <1>3, <2>2 DEF Knows
  <2>3. CASE r \notin R
    <3>1. req'[r] = req[r] /\ req[r].machine \notin M
      BY <1>3, <2>1, <2>3 DEF Issues, Issuers
    <3>2. Opened(codes, req[r].family, req[r].machine)
      BY <1>1, <2>1 DEF ReqsInv, ReqOk, Issues, Refreshing
    <3>3. Knows(req[r], killed, suspended, machines)
      BY <2>1, SurvivorsIff DEF Survivors
    <3>4. req[r].machine \in Machines \ M
      BY <3>1, <3>2 DEF Opened
    <3>. QED BY <1>5, <3>1, <3>2, <3>3, <3>4 DEF Knows
  <2>. QED BY <2>2, <2>3
<1>7. ASSUME NEW i \in DOMAIN tokens', tokens'[i].state = "live"
      PROVE  Lives(tokens'[i], killed', suspended', machines')
  <2>1. i \in DOMAIN tokens /\ tokens[i].machine \notin M /\ tokens[i].state = "live"
    BY <1>4, <1>7
  <2>2. Opened(codes, tokens[i].family, tokens[i].machine)
    BY <1>1, <2>1 DEF TokensInv
  <2>3. Lives(tokens[i], killed, suspended, machines)
    BY <2>1, SurvivorsIff DEF Survivors
  <2>4. tokens[i].machine \in Machines \ M
    BY <2>1, <2>2 DEF Opened
  <2>. QED BY <1>4, <1>5, <2>1, <2>2, <2>3, <2>4 DEF Lives
<1>. QED BY <1>6, <1>7, SurvivorsIffPrime

LEMMA AdministerSurvivors ==
  ASSUME Survivors, (\E m \in Machines : Logout(m) \/ RevokeMachine(m)) \/ (\E u \in Users : SuspendUser(u))
  PROVE  IssuersInv' /\ SurvivorsStrayed'
<1>0. machines \in [Machines -> {"none", "active", "revoked"}]
  BY DEF Survivors, Base, TypeOK
<1>1. ASSUME NEW m \in Machines, Logout(m) \/ RevokeMachine(m)
      PROVE  IssuersInv' /\ SurvivorsStrayed'
  <2>. DEFINE M == {m}
  <2>1. OnMachine(m) = {i \in DOMAIN tokens : tokens[i].machine \in M}
    BY DEF OnMachine
  <2>2. {r \in Issuers : req[r].machine = m} = {r \in Issuers : req[r].machine \in M}
    OBVIOUS
  <2>3. suspended' = suspended /\ \A n \in Machines \ M : machines'[n] = machines[n]
    BY <1>0, <1>1 DEF Logout, RevokeMachine
  <2>4. RevokeTokens(OnMachine(m)) /\ SignOut(OnMachine(m), {r \in Issuers : req[r].machine = m})
    BY <1>1 DEF Logout, RevokeMachine
  <2>5. M \in SUBSET Machines
    OBVIOUS
  <2>. HIDE DEF M
  <2>. QED BY <2>1, <2>2, <2>3, <2>4, <2>5, SignOutSurvivors
<1>2. ASSUME NEW u \in Users, SuspendUser(u)
      PROVE  IssuersInv' /\ SurvivorsStrayed'
  <2>. DEFINE M == {m \in Machines : m[1] = u}
  <2>1. OfUser(u) = {i \in DOMAIN tokens : tokens[i].machine \in M}
    BY TokenType DEF OfUser, Survivors, Base
  <2>2. {r \in Issuers : req[r].machine[1] = u} = {r \in Issuers : req[r].machine \in M}
    <3>1. \A r \in Issuers : req[r].machine \in Machines
      BY DEF Survivors, Base, ReqsInv, ReqOk, Opened, Issuers, Refreshing
    <3>. QED BY <3>1
  <2>3. suspended' = suspended \cup {u} /\ \A n \in Machines \ M : machines'[n] = machines[n] /\ n[1] # u
    BY <1>0, <1>2 DEF SuspendUser
  <2>4. RevokeTokens(OfUser(u)) /\ SignOut(OfUser(u), {r \in Issuers : req[r].machine[1] = u})
    BY <1>2 DEF SuspendUser
  <2>5. M \in SUBSET Machines
    OBVIOUS
  <2>. HIDE DEF M
  <2>. QED BY <2>1, <2>2, <2>3, <2>4, <2>5, SignOutSurvivors
<1>. QED BY <1>1, <1>2

\* Reuse signs one family out.
LEMMA ReusedSurvivors ==
  ASSUME Survivors, NEW r \in Requests, RefreshReused(r)
  PROVE  IssuersInv' /\ SurvivorsStrayed'
<1>. DEFINE fam == req[r].family
<1>1. Base /\ UNCHANGED <<suspended, machines>> /\ killed' = killed \cup {fam} /\ RevokeTokens(TokensOf(fam))
  BY DEF Survivors, RefreshReused
<1>2. /\ DOMAIN tokens' = DOMAIN tokens
      /\ \A i \in DOMAIN tokens :
           /\ tokens'[i].family = tokens[i].family /\ tokens'[i].machine = tokens[i].machine
           /\ tokens'[i].strayed = tokens[i].strayed
           /\ tokens'[i].state = IF tokens[i].family = fam THEN "revoked" ELSE tokens[i].state
  BY <1>1, RevokeTokensFacts DEF Base, TokensOf
<1>3. /\ req'[r] = IdleRequest
      /\ \A s \in Requests \ {r} :
           /\ SameBut(req'[s], req[s])
           /\ s \in Issuers /\ req[s].family = fam => req'[s].strayed
           /\ s \notin Issuers \/ req[s].family # fam => req'[s] = req[s]
  BY <1>1, RefreshReusedFacts
<1>. HIDE DEF fam
<1>4. ASSUME NEW s \in Requests, Issues(req'[s])
      PROVE  Knows(req'[s], killed', suspended', machines')
  <2>1. s # r /\ Issues(req[s])
    BY <1>3, <1>4, IdleIssuesNothing DEF SameBut, Issues
  <2>2. Knows(req[s], killed, suspended, machines) /\ s \in Issuers
    BY <2>1, SurvivorsIff DEF Survivors, Issues, Issuers
  <2>3. CASE req[s].family = fam
    BY <1>3, <2>1, <2>2, <2>3 DEF Knows
  <2>4. CASE req[s].family # fam
    <3>1. req'[s] = req[s]
      BY <1>3, <2>1, <2>4
    <3>. QED BY <1>1, <2>2, <2>4, <3>1 DEF Knows
  <2>. QED BY <2>3, <2>4
<1>5. ASSUME NEW i \in DOMAIN tokens', tokens'[i].state = "live"
      PROVE  Lives(tokens'[i], killed', suspended', machines')
  <2>1. i \in DOMAIN tokens /\ tokens[i].family # fam /\ tokens[i].state = "live"
    BY <1>2, <1>5
  <2>2. Lives(tokens[i], killed, suspended, machines)
    BY <2>1, SurvivorsIff DEF Survivors
  <2>. QED BY <1>1, <1>2, <2>1, <2>2 DEF Lives
<1>. QED BY <1>4, <1>5, SurvivorsIffPrime

\* The requests go on as they are, and no token becomes good.
LEMMA RestSurvivors ==
  ASSUME Survivors, (\E c \in Codes, f \in Prints, e \in BOOLEAN : DeviceStart(c, f, e))
                      \/ (\E u \in Users : ReactivateUser(u)) \/ CloseEnrollment \/ Elapse \/ UNCHANGED vars
  PROVE  IssuersInv' /\ SurvivorsStrayed'
<1>1. Base /\ Calm /\ UNCHANGED req
  BY DEF Survivors, Calm, DeviceStart, ReactivateUser, CloseEnrollment, Elapse, ExpireCode, ExpireToken, vars
<1>2. UNCHANGED tokens \/ \E i \in DOMAIN tokens : ExpireToken(i)
  BY DEF DeviceStart, ReactivateUser, CloseEnrollment, Elapse, ExpireCode, vars
<1>3. \A r \in Requests : Issues(req'[r]) => Knows(req'[r], killed', suspended', machines')
  BY <1>1, CalmKeeps, SurvivorsIff DEF Survivors
<1>4. \A j \in DOMAIN tokens' : tokens'[j].state = "live" => j \in DOMAIN tokens /\ tokens'[j] = tokens[j]
  BY <1>1, <1>2, ExpireTokenFacts DEF Base
<1>5. \A j \in DOMAIN tokens' : tokens'[j].state = "live" => Lives(tokens'[j], killed', suspended', machines')
  BY <1>1, <1>4, CalmKeeps, SurvivorsIff DEF Survivors
<1>. QED BY <1>3, <1>5, SurvivorsIffPrime

LEMMA NextSurvivors == Survivors /\ [Next]_vars => Survivors'
<1>. SUFFICES ASSUME Survivors, [Next]_vars PROVE IssuersInv' /\ SurvivorsStrayed'
  BY NextBase DEF Survivors
<1>1. ASSUME NEW r \in Requests, Begin(r) \/ Serve(r)
      PROVE  IssuersInv' /\ SurvivorsStrayed'
  BY <1>1, ServeSurvivors, ReusedSurvivors DEF Begin, Serve
<1>2. CASE Administer
  BY <1>2, AdministerSurvivors, RestSurvivors DEF Administer
<1>3. CASE (\E c \in Codes, f \in Prints, e \in BOOLEAN : DeviceStart(c, f, e)) \/ Elapse \/ UNCHANGED vars
  BY <1>3, RestSurvivors
<1>. QED BY <1>1, <1>2, <1>3 DEF Next

\* A refresh token that is good although its family, its machine or its owner was
\* signed out comes from a request that was being served at that moment: for any
\* number of tokens, requests and sign-outs, in any order.
THEOREM SignOutReaches == Spec => []SurvivorsStrayed
<1>1. Init => Survivors
  <2>. SUFFICES ASSUME Init PROVE Survivors
    OBVIOUS
  <2>1. \A r \in Requests : req[r].step = "idle"
    BY IdleType DEF Init
  <2>2. IssuersInv
    BY <2>1 DEF IssuersInv, Issuers, Issuing
  <2>3. SurvivorsStrayed
    BY DEF Init, SurvivorsStrayed, Live
  <2>. QED BY <2>2, <2>3, InitBase DEF Survivors
<1>2. Survivors => SurvivorsStrayed
  BY DEF Survivors
<1>. QED BY <1>1, <1>2, NextSurvivors, PTL DEF Spec

-------------------------------------------------------------------------------
(* The promise of DeviceGrant *)

\* The refinement mapping of Grant.
Stage     == [c \in Codes |-> codes[c].status]
Approved  == [c \in Codes |-> codes[c].machine]
SessionOf(t) == [code |-> t.family[1], machine |-> t.machine, poll |-> t.family[2]]
Sessions  == {SessionOf(tokens[i]) : i \in DOMAIN tokens}

LEMMA SessionsSame ==
  ASSUME DOMAIN tokens' = DOMAIN tokens, TokensGrow
  PROVE  Sessions' = Sessions
  BY DEF TokensGrow, Sessions, SessionOf

\* Only DeviceStart, ApproveSet, Poll and IssueToken move the grant.
LEMMA GrantStutters ==
  ASSUME Base,
         (\E r \in Requests : \/ \E u \in Users, c \in Codes : Activate(r, u, c)
                              \/ \E i \in DOMAIN tokens : RefreshRead(r, i)
                              \/ ApproveEnroll(r) \/ ApproveMachine(r) \/ RefreshReused(r) \/ RefreshRotate(r)
                              \/ IssueMember(r) \/ IssueMachine(r) \/ Abandon(r))
           \/ Administer \/ Elapse \/ UNCHANGED vars
  PROVE  UNCHANGED <<Stage, Approved, Sessions>>
<1>1. UNCHANGED codes \/ \E c \in Codes : ExpireCode(c)
  BY DEF Activate, RefreshRead, ApproveEnroll, ApproveMachine, RefreshReused, RefreshRotate, IssueMember,
         IssueMachine, Abandon, Administer, Logout, RevokeMachine, SuspendUser, ReactivateUser, CloseEnrollment,
         Elapse, ExpireToken, vars
<1>2. UNCHANGED tokens \/ (\E S : RevokeTokens(S)) \/ \E i \in DOMAIN tokens : ExpireToken(i)
  BY DEF Activate, RefreshRead, ApproveEnroll, ApproveMachine, RefreshReused, RefreshRotate, IssueMember,
         IssueMachine, Abandon, Administer, Logout, RevokeMachine, SuspendUser, ReactivateUser, CloseEnrollment,
         Elapse, ExpireCode, vars
<1>3. \A c \in Codes : codes'[c].status = codes[c].status /\ codes'[c].machine = codes[c].machine
  BY <1>1, ExpireCodeFacts DEF Base
<1>4. DOMAIN tokens' = DOMAIN tokens /\ TokensGrow
  BY <1>2, RevokeTokensFacts, ExpireTokenFacts, TokensSame DEF Base
<1>5. UNCHANGED <<Stage, Approved>>
  BY <1>3 DEF Stage, Approved
<1>. QED BY <1>4, <1>5, SessionsSame

\* A code moves on; its tokens, and the other codes, stay.
LEMMA GrantMoves ==
  ASSUME Base, Base', UNCHANGED tokens, NEW c \in Codes, NEW to,
         codes'[c].status = to, \A d \in Codes : d # c => codes'[d] = codes[d]
  PROVE  /\ Stage' = [Stage EXCEPT ![c] = to] /\ Sessions' = Sessions
         /\ codes'[c].machine = codes[c].machine => Approved' = Approved
         /\ Approved' = [Approved EXCEPT ![c] = codes'[c].machine]
<1>1. Sessions' = Sessions
  BY DEF Sessions
<1>. QED BY <1>1 DEF Stage, Approved

LEMMA GrantIs == Grant!Next <=>
  \E c \in Codes :
    \/ /\ Stage[c] = "none" /\ Stage' = [Stage EXCEPT ![c] = "pending"]
       /\ UNCHANGED <<Approved, Sessions>>
    \/ /\ Stage[c] = "approved" /\ Stage' = [Stage EXCEPT ![c] = "consumed"]
       /\ UNCHANGED <<Approved, Sessions>>
    \/ /\ Stage[c] = "consumed" /\ UNCHANGED <<Stage, Approved>>
       /\ \E s \in Sessions' : /\ s \in Grant!Session /\ s.code = c /\ s.machine = Approved[c]
                               /\ Sessions' = Sessions \cup {s}
       /\ \A s \in Sessions : s.code # c
    \/ \E m \in Machines : /\ Stage[c] = "pending" /\ Stage' = [Stage EXCEPT ![c] = "approved"]
                           /\ Approved' = [Approved EXCEPT ![c] = m] /\ UNCHANGED Sessions
  BY DEF Grant!Next, Grant!Start, Grant!Spend, Grant!Open, Grant!Approve, Grant!Move, Stage, Approved, Sessions, SessionOf

LEMMA IssueTokenGrants ==
  ASSUME Base, NEW r \in Requests, IssueToken(r)
  PROVE  Grant!Next \/ UNCHANGED <<Stage, Approved, Sessions>>
<1>. DEFINE fam == req[r].family
            m == req[r].machine
            n == Len(tokens) + 1
            s == [code |-> fam[1], machine |-> m, poll |-> fam[2]]
<1>1. /\ Opened(codes, fam, m)
      /\ DOMAIN tokens' = DOMAIN tokens \cup {n} /\ n \notin DOMAIN tokens
      /\ \A i \in DOMAIN tokens : tokens'[i] = tokens[i]
      /\ tokens'[n].family = fam /\ tokens'[n].machine = m
  BY IssueTokenFacts
<1>2. UNCHANGED <<Stage, Approved>>
  BY DEF IssueToken, Stage, Approved
<1>3. Sessions' = Sessions \cup {s}
  <2>1. SessionOf(tokens'[n]) = s
    BY <1>1 DEF SessionOf
  <2>2. Sessions' = {SessionOf(tokens'[i]) : i \in DOMAIN tokens'}
    BY DEF Sessions, SessionOf
  <2>. HIDE DEF n, s
  <2>. QED BY <1>1, <2>1, <2>2 DEF Sessions
<1>4. CASE \E i \in DOMAIN tokens : tokens[i].family = fam
  <2>1. PICK i \in DOMAIN tokens : tokens[i].family = fam
    BY <1>4
  <2>2. tokens[i].machine = m
    BY <1>1, <2>1 DEF Base, TokensInv, Opened
  <2>3. s \in Sessions
    BY <2>1, <2>2 DEF Sessions, SessionOf
  <2>. HIDE DEF s
  <2>. QED BY <1>2, <1>3, <2>3
<1>5. CASE \A i \in DOMAIN tokens : tokens[i].family # fam
  <2>1. /\ fam[1] \in Codes /\ fam = <<fam[1], 1>> /\ fam[2] = 1 /\ m \in Machines
        /\ codes[fam[1]].status = "consumed" /\ codes[fam[1]].machine = m
    BY <1>1 DEF Opened, Families
  <2>2. \A i \in DOMAIN tokens : tokens[i].family[1] # fam[1]
    <3>. SUFFICES ASSUME NEW i \in DOMAIN tokens, tokens[i].family[1] = fam[1] PROVE FALSE
      OBVIOUS
    <3>1. tokens[i].family \in Families /\ tokens[i].family[2] = 1
      BY DEF Base, TokensInv, Opened
    <3>2. tokens[i].family = <<fam[1], 1>>
      BY <3>1 DEF Families
    <3>. QED BY <1>5, <2>1, <3>2
  <2>3. \A t \in Sessions : t.code # fam[1]
    BY <2>2 DEF Sessions, SessionOf
  <2>4. s \in Grant!Session /\ s.code = fam[1] /\ s.machine = Approved[fam[1]]
    BY <2>1 DEF Grant!Session, Approved
  <2>5. Stage[fam[1]] = "consumed" /\ s \in Sessions'
    BY <1>3, <2>1 DEF Stage
  <2>. HIDE DEF s, fam, m
  <2>. QED BY <1>2, <1>3, <2>1, <2>3, <2>4, <2>5, GrantIs
<1>. QED BY <1>4, <1>5

\* Every step of the service is a step of DeviceGrant, or leaves the grant as it is.
LEMMA NextGrants == Base /\ Base' /\ [Next]_vars => [Grant!Next]_(Grant!vars)
<1>. SUFFICES ASSUME Base, Base', [Next]_vars
              PROVE  Grant!Next \/ UNCHANGED <<Stage, Approved, Sessions>>
  BY DEF Grant!vars, Stage, Approved, Sessions, SessionOf
<1>1. ASSUME NEW c \in Codes, NEW f \in Prints, NEW e \in BOOLEAN, DeviceStart(c, f, e)
      PROVE  Grant!Next
  <2>1. codes[c].status = "none" /\ codes'[c].status = "pending" /\ \A d \in Codes : d # c => codes'[d] = codes[d]
    BY <1>1 DEF DeviceStart, CreateDeviceCode, Base, TypeOK
  <2>2. codes'[c].machine = NoMachine /\ codes[c].machine = NoMachine /\ UNCHANGED tokens
    BY <1>1, <2>1 DEF DeviceStart, Base, CodesInv
  <2>3. Stage[c] = "none"
    BY <2>1 DEF Stage
  <2>4. Stage' = [Stage EXCEPT ![c] = "pending"] /\ Sessions' = Sessions /\ Approved' = Approved
    BY <2>1, <2>2, GrantMoves
  <2>. QED BY <2>3, <2>4, GrantIs
<1>2. ASSUME NEW r \in Requests, ApproveSet(r)
      PROVE  Grant!Next \/ UNCHANGED <<Stage, Approved, Sessions>>
  <2>. DEFINE c == req[r].code
              m == req[r].machine
  <2>1. c \in Codes /\ m \in Machines /\ UNCHANGED tokens
    BY <1>2 DEF ApproveSet, Base, ReqsInv, ReqOk, Approving
  <2>2. CASE ~Pending(c)
    BY <1>2, <2>2 DEF ApproveSet, Stage, Approved, Sessions
  <2>3. CASE Pending(c)
    <3>. DEFINE y == [codes[c] EXCEPT !.status = "approved"]
                x == [y EXCEPT !.machine = m]
    <3>1. codes' = [codes EXCEPT ![c] = x] /\ codes[c].status = "pending"
      BY <1>2, <2>1, <2>3 DEF ApproveSet, ApproveDeviceCode, Pending, Base, TypeOK
    <3>2. y \in Code /\ y.status = "approved"
      BY <2>1, CodeType DEF Base, Code
    <3>. HIDE DEF y
    <3>3. x.status = "approved" /\ x.machine = m
      BY <3>2 DEF Code
    <3>. HIDE DEF x
    <3>4. codes'[c] = x /\ \A d \in Codes : d # c => codes'[d] = codes[d]
      BY <2>1, <3>1 DEF Base, TypeOK
    <3>5. Stage[c] = "pending"
      BY <2>1, <3>1 DEF Stage
    <3>6. codes'[c].status = "approved" /\ codes'[c].machine = m
      BY <3>3, <3>4
    <3>. HIDE DEF c, m
    <3>7. Stage' = [Stage EXCEPT ![c] = "approved"] /\ Sessions' = Sessions /\ Approved' = [Approved EXCEPT ![c] = m]
      BY <2>1, <3>4, <3>6, GrantMoves
    <3>. QED BY <2>1, <3>5, <3>7, GrantIs
  <2>. QED BY <2>2, <2>3
<1>3. ASSUME NEW r \in Requests, NEW c \in Codes, Poll(r, c)
      PROVE  Grant!Next
  <2>1. /\ codes[c].status = "approved" /\ codes'[c].status = "consumed" /\ codes'[c].machine = codes[c].machine
        /\ \A d \in Codes : d # c => codes'[d] = codes[d]
    BY <1>3, PollFacts
  <2>2. UNCHANGED tokens /\ Stage[c] = "approved"
    BY <1>3, <2>1 DEF Poll, Stage
  <2>3. Stage' = [Stage EXCEPT ![c] = "consumed"] /\ Sessions' = Sessions /\ Approved' = Approved
    BY <2>1, <2>2, GrantMoves
  <2>. QED BY <2>2, <2>3, GrantIs
<1>4. ASSUME NEW r \in Requests, Begin(r) \/ Serve(r)
      PROVE  Grant!Next \/ UNCHANGED <<Stage, Approved, Sessions>>
  BY <1>2, <1>3, <1>4, IssueTokenGrants, GrantStutters DEF Begin, Serve
<1>5. CASE Administer \/ Elapse \/ UNCHANGED vars
  BY <1>5, GrantStutters
<1>. QED BY <1>1, <1>4, <1>5 DEF Next

\* DeviceStart, DeviceApprove, DevicePoll and Refresh implement DeviceGrant: a code is
\* approved for one machine, is spent once, and opens one family of refresh tokens,
\* on that machine, however the statements of requests interleave.
THEOREM GrantIsKept == Spec => ImplementsDeviceGrant
<1>1. Init => Grant!Init
  BY DEF Init, Grant!Init
<1>. QED BY <1>1, BaseInvariant, NextGrants, PTL DEF Spec, ImplementsDeviceGrant, Grant!Spec

-------------------------------------------------------------------------------
(* Counting *)

LEMMA NoMore ==
  ASSUME NEW T, IsFiniteSet(T), NEW S \in SUBSET T
  PROVE  IsFiniteSet(S) /\ Cardinality(S) \in Nat /\ Cardinality(T) \in Nat /\ Cardinality(S) <= Cardinality(T)
  BY FS_Subset, FS_CardinalityType

LEMMA OneMore ==
  ASSUME NEW T, IsFiniteSet(T), NEW x, NEW S, S \subseteq T \cup {x}
  PROVE  IsFiniteSet(S) /\ Cardinality(S) \in Nat /\ Cardinality(T) \in Nat /\ Cardinality(S) <= Cardinality(T) + 1
<1>1. /\ IsFiniteSet(T \cup {x}) /\ Cardinality(T) \in Nat
      /\ Cardinality(T \cup {x}) = IF x \in T THEN Cardinality(T) ELSE Cardinality(T) + 1
  BY FS_AddElement, FS_CardinalityType
<1>2. IsFiniteSet(S) /\ Cardinality(S) \in Nat /\ Cardinality(S) <= Cardinality(T \cup {x})
  BY <1>1, NoMore
<1>. QED BY <1>1, <1>2

LEMMA OneLess ==
  ASSUME NEW T, IsFiniteSet(T), NEW x \in T, NEW S, S \subseteq T \ {x}
  PROVE  IsFiniteSet(S) /\ Cardinality(S) \in Nat /\ Cardinality(T) \in Nat /\ Cardinality(S) + 1 <= Cardinality(T)
<1>1. /\ IsFiniteSet(T \ {x}) /\ Cardinality(T) \in Nat
      /\ Cardinality(T \ {x}) = Cardinality(T) - 1
  BY FS_RemoveElement, FS_CardinalityType
<1>2. IsFiniteSet(S) /\ Cardinality(S) \in Nat /\ Cardinality(S) <= Cardinality(T \ {x})
  BY <1>1, NoMore
<1>. QED BY <1>1, <1>2

-------------------------------------------------------------------------------
(* Rotation *)

Unrevoked(fam)  == {i \in DOMAIN tokens : tokens[i].family = fam /\ tokens[i].state # "revoked"}
IssuingFor(fam) == {r \in Requests : req[r].step \in Issuing /\ req[r].family = fam}

\* A family holds one token that was not revoked, or one request that will issue it.
FamilyInv ==
  \A fam \in Families \ forked : Cardinality(Unrevoked(fam)) + Cardinality(IssuingFor(fam)) <= 1

Rotating == Base /\ FamilyInv

LEMMA FamilyFinite ==
  ASSUME TypeOK, NEW fam
  PROVE  IsFiniteSet(Unrevoked(fam)) /\ IsFiniteSet(IssuingFor(fam))
<1>1. DOMAIN tokens = 1..Len(tokens) /\ Len(tokens) \in Nat
  BY DEF TypeOK
<1>2. IsFiniteSet(DOMAIN tokens)
  BY <1>1, FS_Interval
<1>3. Unrevoked(fam) \subseteq DOMAIN tokens /\ IssuingFor(fam) \subseteq Requests
  BY DEF Unrevoked, IssuingFor
<1>. QED BY <1>2, <1>3, FS_Subset, FiniteAssumption

\* What may happen to the count of one family in a step.
LEMMA FamilyCount ==
  ASSUME TypeOK, FamilyInv, NEW fam \in Families \ forked,
         \/ Unrevoked(fam)' \subseteq Unrevoked(fam) /\ IssuingFor(fam)' \subseteq IssuingFor(fam)
         \/ \E x \in Unrevoked(fam) : \E y : /\ Unrevoked(fam)' \subseteq Unrevoked(fam) \ {x}
                                         /\ IssuingFor(fam)' \subseteq IssuingFor(fam) \cup {y}
         \/ \E x : \E y \in IssuingFor(fam) : /\ Unrevoked(fam)' \subseteq Unrevoked(fam) \cup {x}
                                          /\ IssuingFor(fam)' \subseteq IssuingFor(fam) \ {y}
  PROVE  Cardinality(Unrevoked(fam)') + Cardinality(IssuingFor(fam)') <= 1
<1>. DEFINE U == Unrevoked(fam)
            I == IssuingFor(fam)
            V == Unrevoked(fam)'
            J == IssuingFor(fam)'
<1>1. IsFiniteSet(U) /\ IsFiniteSet(I) /\ Cardinality(U) + Cardinality(I) <= 1
  BY FamilyFinite DEF FamilyInv
<1>2. \/ V \subseteq U /\ J \subseteq I
      \/ \E x \in U : \E y : V \subseteq U \ {x} /\ J \subseteq I \cup {y}
      \/ \E x : \E y \in I : V \subseteq U \cup {x} /\ J \subseteq I \ {y}
  OBVIOUS
<1>. HIDE DEF U, I, V, J
<1>3. CASE V \subseteq U /\ J \subseteq I
  <2>1. Cardinality(V) \in Nat /\ Cardinality(U) \in Nat /\ Cardinality(V) <= Cardinality(U)
    BY <1>1, <1>3, NoMore
  <2>2. Cardinality(J) \in Nat /\ Cardinality(I) \in Nat /\ Cardinality(J) <= Cardinality(I)
    BY <1>1, <1>3, NoMore
  <2>3. Cardinality(V) + Cardinality(J) <= 1
    BY <1>1, <2>1, <2>2
  <2>. QED BY <2>3 DEF V, J
<1>4. CASE \E x \in U : \E y : V \subseteq U \ {x} /\ J \subseteq I \cup {y}
  <2>0. PICK x \in U : \E y : V \subseteq U \ {x} /\ J \subseteq I \cup {y}
    BY <1>4
  <2>1. PICK y : V \subseteq U \ {x} /\ J \subseteq I \cup {y}
    BY <2>0
  <2>2. Cardinality(V) \in Nat /\ Cardinality(U) \in Nat /\ Cardinality(V) + 1 <= Cardinality(U)
    BY <1>1, <2>1, OneLess
  <2>3. Cardinality(J) \in Nat /\ Cardinality(I) \in Nat /\ Cardinality(J) <= Cardinality(I) + 1
    BY <1>1, <2>1, OneMore
  <2>4. Cardinality(V) + Cardinality(J) <= 1
    BY <1>1, <2>2, <2>3
  <2>. QED BY <2>4 DEF V, J
<1>5. CASE \E x : \E y \in I : V \subseteq U \cup {x} /\ J \subseteq I \ {y}
  <2>0. PICK x : \E y \in I : V \subseteq U \cup {x} /\ J \subseteq I \ {y}
    BY <1>5
  <2>1. PICK y \in I : V \subseteq U \cup {x} /\ J \subseteq I \ {y}
    BY <2>0
  <2>2. Cardinality(V) \in Nat /\ Cardinality(U) \in Nat /\ Cardinality(V) <= Cardinality(U) + 1
    BY <1>1, <2>1, OneMore
  <2>3. Cardinality(J) \in Nat /\ Cardinality(I) \in Nat /\ Cardinality(J) + 1 <= Cardinality(I)
    BY <1>1, <2>1, OneLess
  <2>4. Cardinality(V) + Cardinality(J) <= 1
    BY <1>1, <2>2, <2>3
  <2>. QED BY <2>4 DEF V, J
<1>. QED BY <1>2, <1>3, <1>4, <1>5


\* A token, and a request, that the count of its family knows already.
TokenCounted(i)   == i \in Unrevoked(tokens'[i].family)
RequestCounted(r) == r \in IssuingFor(req'[r].family)

LEMMA CountedBefore ==
  ASSUME NEW fam,
         \A i \in DOMAIN tokens' : tokens'[i].family = fam /\ tokens'[i].state # "revoked" => TokenCounted(i),
         \A r \in Requests : req'[r].step \in Issuing /\ req'[r].family = fam => RequestCounted(r)
  PROVE  Unrevoked(fam)' \subseteq Unrevoked(fam) /\ IssuingFor(fam)' \subseteq IssuingFor(fam)
  BY DEF Unrevoked, IssuingFor, TokenCounted, RequestCounted

LEMMA NothingCounted ==
  ASSUME Rotating, forked \subseteq forked',
         \A i \in DOMAIN tokens' : tokens'[i].state # "revoked" => TokenCounted(i),
         \A r \in Requests : req'[r].step \in Issuing => RequestCounted(r)
  PROVE  FamilyInv'
<1>. SUFFICES ASSUME NEW fam \in Families \ forked'
              PROVE  Cardinality(Unrevoked(fam)') + Cardinality(IssuingFor(fam)') <= 1
  BY DEF FamilyInv
<1>1. Unrevoked(fam)' \subseteq Unrevoked(fam) /\ IssuingFor(fam)' \subseteq IssuingFor(fam)
  BY CountedBefore
<1>2. TypeOK /\ FamilyInv /\ fam \in Families \ forked
  BY DEF Rotating, Base
<1>. QED BY <1>1, <1>2, FamilyCount

\* A step that only the family fam notices.
LEMMA OneFamilyCounted ==
  ASSUME Rotating, forked \subseteq forked', NEW fam,
         \A i \in DOMAIN tokens' : tokens'[i].family # fam /\ tokens'[i].state # "revoked" => TokenCounted(i),
         \A r \in Requests : req'[r].family # fam /\ req'[r].step \in Issuing => RequestCounted(r),
         fam \in Families \ forked' => Cardinality(Unrevoked(fam)') + Cardinality(IssuingFor(fam)') <= 1
  PROVE  FamilyInv'
<1>. SUFFICES ASSUME NEW g \in Families \ forked', g # fam
              PROVE  Cardinality(Unrevoked(g)') + Cardinality(IssuingFor(g)') <= 1
  BY DEF FamilyInv
<1>1. Unrevoked(g)' \subseteq Unrevoked(g) /\ IssuingFor(g)' \subseteq IssuingFor(g)
  BY CountedBefore
<1>2. TypeOK /\ FamilyInv /\ g \in Families \ forked
  BY DEF Rotating, Base
<1>. QED BY <1>1, <1>2, FamilyCount

\* A token or a request that stays as it is.
LEMMA StaysCounted ==
  /\ \A i \in DOMAIN tokens : tokens[i].state # "revoked" /\ tokens'[i].family = tokens[i].family => TokenCounted(i)
  /\ \A r \in Requests : req[r].step \in Issuing /\ req'[r].family = req[r].family => RequestCounted(r)
  BY DEF TokenCounted, RequestCounted, Unrevoked, IssuingFor

LEMMA OtherRequests ==
  ASSUME TypeOK, NEW r \in Requests, NEW q, req' = [req EXCEPT ![r] = q]
  PROVE  req'[r] = q /\ \A s \in Requests : s # r => req'[s] = req[s]
  BY DEF TypeOK

\* A poll opens a family, and no one knows it yet.
LEMMA PollFamily ==
  ASSUME Rotating, NEW r \in Requests, NEW c \in Codes, Poll(r, c)
  PROVE  FamilyInv'
<1>. SUFFICES ASSUME NEW fam, fam = FamilyOf(c) PROVE FamilyInv'
  OBVIOUS
<1>1. Base /\ TypeOK /\ UNCHANGED <<tokens, forked>>
  BY DEF Rotating, Base, Poll
<1>2. codes[c].status = "approved" /\ fam = <<c, 1>> /\ fam[1] = c
  BY <1>1, PollFacts DEF FamilyOf
<1>3. PICK q \in Request : req' = [req EXCEPT ![r] = q] /\ q.family = fam
  BY <1>1, PollFacts
<1>4. req'[r] = q /\ \A s \in Requests : s # r => req'[s] = req[s]
  BY <1>1, <1>3, OtherRequests
<1>5. \A m : ~Opened(codes, fam, m)
  BY <1>2 DEF Opened
<1>6. \A i \in DOMAIN tokens : tokens[i].family # fam
  BY <1>1, <1>5 DEF Base, TokensInv
<1>7. \A s \in Requests : req[s].step \in Issuing => req[s].family # fam
  BY <1>1, <1>5 DEF Base, ReqsInv, ReqOk
<1>8. Unrevoked(fam) = {} /\ IssuingFor(fam) = {}
  BY <1>6, <1>7 DEF Unrevoked, IssuingFor
<1>9. Unrevoked(fam)' = {} /\ IssuingFor(fam)' \subseteq {} \cup {r}
  BY <1>1, <1>4, <1>6, <1>7 DEF Unrevoked, IssuingFor
<1>10. Cardinality(Unrevoked(fam)') + Cardinality(IssuingFor(fam)') <= 1
  <2>1. IsFiniteSet({}) /\ Cardinality({}) = 0
    BY FS_EmptySet
  <2>2. Cardinality(IssuingFor(fam)') \in Nat /\ Cardinality(IssuingFor(fam)') <= Cardinality({}) + 1
    BY <1>9, <2>1, OneMore
  <2>3. Cardinality(Unrevoked(fam)') = 0
    BY <1>9, <2>1
  <2>. QED BY <2>1, <2>2, <2>3
<1>11. \A s \in Requests : req'[s].family # fam /\ req'[s].step \in Issuing => RequestCounted(s)
  BY <1>3, <1>4, StaysCounted
<1>12. \A i \in DOMAIN tokens' : tokens'[i].family # fam /\ tokens'[i].state # "revoked" => TokenCounted(i)
  BY <1>1, StaysCounted
<1>. QED BY <1>1, <1>10, <1>11, <1>12, OneFamilyCounted

\* A rotation takes the good token of its family away, or forks the family.
LEMMA RotateFamily ==
  ASSUME Rotating, NEW r \in Requests, RefreshRotate(r)
  PROVE  FamilyInv'
<1>. SUFFICES ASSUME NEW fam, fam = req[r].family PROVE FamilyInv'
  OBVIOUS
<1>. DEFINE t == req[r].token
            q == [req[r] EXCEPT !.step = "issue_member"]
<1>1. /\ Base /\ TypeOK /\ FamilyInv /\ RevokeTokens({t}) /\ req[r].step = "rotate"
      /\ forked' = IF tokens[t].state = "revoked" THEN forked \cup {fam} ELSE forked
  BY DEF Rotating, Base, RefreshRotate
<1>2. req' = [req EXCEPT ![r] = q]
  BY <1>1 DEF RefreshRotate, Goto, TypeOK
<1>3. q.family = fam
  BY <1>1, RequestType, GotoType DEF Issuing
<1>4. t \in DOMAIN tokens /\ tokens[t].family = fam
  BY <1>1 DEF Base, ReqsInv, ReqOk, Refreshing
<1>5. /\ DOMAIN tokens' = DOMAIN tokens
      /\ \A i \in DOMAIN tokens : /\ tokens'[i].family = tokens[i].family
                                  /\ tokens'[i].state = IF i = t THEN "revoked" ELSE tokens[i].state
  BY <1>1, RevokeTokensFacts
<1>. HIDE DEF t, q
<1>6. req'[r] = q /\ \A s \in Requests : s # r => req'[s] = req[s]
  BY <1>1, <1>2, OtherRequests
<1>7. \A i \in DOMAIN tokens' : tokens'[i].family # fam /\ tokens'[i].state # "revoked" => TokenCounted(i)
  BY <1>5, StaysCounted
<1>8. \A s \in Requests : req'[s].family # fam /\ req'[s].step \in Issuing => RequestCounted(s)
  BY <1>3, <1>6, StaysCounted
<1>9. ASSUME fam \in Families \ forked'
      PROVE  Cardinality(Unrevoked(fam)') + Cardinality(IssuingFor(fam)') <= 1
  <2>1. tokens[t].state # "revoked" /\ fam \in Families \ forked
    BY <1>1, <1>9
  <2>2. t \in Unrevoked(fam)
    BY <1>4, <2>1 DEF Unrevoked
  <2>3. Unrevoked(fam)' \subseteq Unrevoked(fam) \ {t}
    BY <1>5 DEF Unrevoked
  <2>4. IssuingFor(fam)' \subseteq IssuingFor(fam) \cup {r}
    BY <1>6 DEF IssuingFor
  <2>5. \E x \in Unrevoked(fam) : \E y : /\ Unrevoked(fam)' \subseteq Unrevoked(fam) \ {x}
                                         /\ IssuingFor(fam)' \subseteq IssuingFor(fam) \cup {y}
    BY <2>2, <2>3, <2>4
  <2>. QED BY <1>1, <2>1, <2>5, FamilyCount
<1>10. forked \subseteq forked'
  BY <1>1
<1>. QED BY <1>7, <1>8, <1>9, <1>10, OneFamilyCounted

\* The request that was to issue a token has issued it.
LEMMA IssueFamily ==
  ASSUME Rotating, NEW r \in Requests, IssueToken(r)
  PROVE  FamilyInv'
<1>. SUFFICES ASSUME NEW fam, fam = req[r].family PROVE FamilyInv'
  OBVIOUS
<1>. DEFINE n == Len(tokens) + 1
<1>1. Base /\ TypeOK /\ FamilyInv /\ forked' = forked /\ req[r].step \in Issuing
  BY DEF Rotating, Base, IssueToken, Issuing
<1>2. /\ DOMAIN tokens' = DOMAIN tokens \cup {n}
      /\ \A i \in DOMAIN tokens : tokens'[i] = tokens[i]
      /\ tokens'[n].family = fam
      /\ req' = [req EXCEPT ![r] = IdleRequest]
  BY <1>1, IssueTokenFacts
<1>3. req'[r] = IdleRequest /\ \A s \in Requests : s # r => req'[s] = req[s]
  BY <1>1, <1>2, OtherRequests
<1>4. IdleRequest.step \notin Issuing
  BY IdleType DEF Issuing
<1>5. r \in IssuingFor(fam)
  BY <1>1 DEF IssuingFor
<1>. HIDE DEF n
<1>6. Unrevoked(fam)' \subseteq Unrevoked(fam) \cup {n}
  BY <1>2 DEF Unrevoked
<1>7. IssuingFor(fam)' \subseteq IssuingFor(fam) \ {r}
  BY <1>3, <1>4 DEF IssuingFor
<1>8. \E x : \E y \in IssuingFor(fam) : /\ Unrevoked(fam)' \subseteq Unrevoked(fam) \cup {x}
                                        /\ IssuingFor(fam)' \subseteq IssuingFor(fam) \ {y}
  BY <1>5, <1>6, <1>7
<1>9. fam \in Families \ forked' => Cardinality(Unrevoked(fam)') + Cardinality(IssuingFor(fam)') <= 1
  BY <1>1, <1>8, FamilyCount
<1>10. \A i \in DOMAIN tokens' : tokens'[i].family # fam /\ tokens'[i].state # "revoked" => TokenCounted(i)
  BY <1>2, StaysCounted
<1>11. \A s \in Requests : req'[s].family # fam /\ req'[s].step \in Issuing => RequestCounted(s)
  BY <1>3, <1>4, StaysCounted
<1>. QED BY <1>1, <1>9, <1>10, <1>11, OneFamilyCounted

\* The steps of a request that issue nothing and take no token.
LEMMA ServeFamily ==
  ASSUME Rotating, NEW r \in Requests,
         (\E u \in Users, c \in Codes : Activate(r, u, c)) \/ (\E i \in DOMAIN tokens : RefreshRead(r, i))
           \/ ApproveEnroll(r) \/ ApproveMachine(r) \/ ApproveSet(r)
           \/ IssueMember(r) \/ IssueMachine(r) \/ Abandon(r)
  PROVE  FamilyInv'
<1>1. TypeOK /\ UNCHANGED <<tokens, forked>>
  BY DEF Rotating, Base, Activate, RefreshRead, ApproveEnroll, ApproveMachine, ApproveSet, IssueMember,
         IssueMachine, Abandon
<1>2. \A i \in DOMAIN tokens' : tokens'[i].state # "revoked" => TokenCounted(i)
  BY <1>1, StaysCounted
<1>3. ASSUME NEW q, req' = [req EXCEPT ![r] = q],
             q.step \in Issuing => req[r].step \in Issuing /\ q.family = req[r].family
      PROVE  FamilyInv'
  <2>1. req'[r] = q /\ \A s \in Requests : s # r => req'[s] = req[s]
    BY <1>1, <1>3, OtherRequests
  <2>2. \A s \in Requests : req'[s].step \in Issuing => RequestCounted(s)
    BY <1>3, <2>1, StaysCounted
  <2>. QED BY <1>1, <1>2, <2>2, NothingCounted
<1>4. ASSUME Return(r) PROVE FamilyInv'
  BY <1>3, <1>4, IdleType DEF Return, Issuing
<1>5. ASSUME NEW step \in Approving \cup Issuing, Goto(r, step), step \in Issuing => req[r].step \in Issuing
      PROVE  FamilyInv'
  <2>. DEFINE q == [req[r] EXCEPT !.step = step]
  <2>1. req' = [req EXCEPT ![r] = q]
    BY <1>1, <1>5 DEF Goto, TypeOK
  <2>2. q.step = step /\ q.family = req[r].family
    BY <1>1, RequestType, GotoType
  <2>. HIDE DEF q
  <2>. QED BY <1>3, <1>5, <2>1, <2>2
<1>6. ASSUME NEW u \in Users, NEW c \in Codes, Activate(r, u, c)
      PROVE  FamilyInv'
  <2>. DEFINE q == [IdleRequest EXCEPT !.step = IF codes[c].enrolled THEN "approve_enroll" ELSE "approve_machine",
                                       !.code = c, !.machine = <<u, codes[c].print>>]
  <2>1. req' = [req EXCEPT ![r] = q]
    BY <1>6 DEF Activate
  <2>2. q.step \notin Issuing
    BY DEF IdleRequest, Issuing
  <2>. HIDE DEF q
  <2>. QED BY <1>3, <2>1, <2>2
<1>7. ASSUME NEW i \in DOMAIN tokens, RefreshRead(r, i)
      PROVE  FamilyInv'
  <2>. DEFINE q == [step |-> IF tokens[i].state = "live" THEN "rotate" ELSE "reused",
                    code |-> NoCode, machine |-> tokens[i].machine, family |-> tokens[i].family,
                    token |-> i, strayed |-> tokens[i].strayed]
  <2>1. req' = [req EXCEPT ![r] = q]
    BY <1>7 DEF RefreshRead
  <2>2. q.step \notin Issuing
    BY DEF Issuing
  <2>. HIDE DEF q
  <2>. QED BY <1>3, <2>1, <2>2
<1>8. CASE ApproveEnroll(r) \/ ApproveMachine(r)
  BY <1>4, <1>5, <1>8 DEF ApproveEnroll, ApproveMachine, Approving, Issuing
<1>9. CASE ApproveSet(r) \/ Abandon(r)
  BY <1>4, <1>9 DEF ApproveSet, Abandon
<1>10. CASE IssueMember(r) \/ IssueMachine(r)
  BY <1>4, <1>5, <1>10 DEF IssueMember, IssueMachine, Issuing
<1>. QED BY <1>6, <1>7, <1>8, <1>9, <1>10

\* Tokens are revoked or expire, requests end or stray.
LEMMA RestFamily ==
  ASSUME Rotating, (\E r \in Requests : RefreshReused(r)) \/ Administer \/ Elapse \/ UNCHANGED vars
                     \/ (\E c \in Codes, f \in Prints, e \in BOOLEAN : DeviceStart(c, f, e))
  PROVE  FamilyInv'
<1>1. Base /\ TypeOK /\ forked' = forked
  BY DEF Rotating, Base, RefreshReused, Administer, Logout, RevokeMachine, SuspendUser, ReactivateUser,
         CloseEnrollment, Elapse, ExpireCode, ExpireToken, DeviceStart, vars
<1>2. UNCHANGED tokens \/ (\E S : RevokeTokens(S)) \/ \E i \in DOMAIN tokens : ExpireToken(i)
  BY DEF RefreshReused, Administer, Logout, RevokeMachine, SuspendUser, ReactivateUser, CloseEnrollment, Elapse,
         ExpireCode, DeviceStart, vars
<1>3. \A i \in DOMAIN tokens' : tokens'[i].state # "revoked" => TokenCounted(i)
  <2>1. CASE UNCHANGED tokens
    BY <2>1, StaysCounted
  <2>2. ASSUME NEW S, RevokeTokens(S), NEW i \in DOMAIN tokens', tokens'[i].state # "revoked"
        PROVE  TokenCounted(i)
    <3>1. i \in DOMAIN tokens /\ tokens'[i].family = tokens[i].family /\ tokens[i].state # "revoked"
      BY <1>1, <2>2, RevokeTokensFacts
    <3>. QED BY <3>1, StaysCounted
  <2>3. ASSUME NEW e \in DOMAIN tokens, ExpireToken(e), NEW i \in DOMAIN tokens', tokens'[i].state # "revoked"
        PROVE  TokenCounted(i)
    <3>1. i \in DOMAIN tokens /\ tokens'[i].family = tokens[i].family
      BY <1>1, <2>3, ExpireTokenFacts DEF TokensGrow
    <3>2. tokens[i].state # "revoked"
      BY <1>1, <2>3, <3>1, ExpireTokenFacts DEF ExpireToken
    <3>. QED BY <3>1, <3>2, StaysCounted
  <2>. QED BY <1>2, <2>1, <2>2, <2>3
<1>4. \A s \in Requests : req'[s] = IdleRequest \/ SameBut(req'[s], req[s])
  <2>1. ASSUME NEW r \in Requests, RefreshReused(r)
        PROVE  \A s \in Requests : req'[s] = IdleRequest \/ SameBut(req'[s], req[s])
    BY <1>1, <2>1, RefreshReusedFacts
  <2>2. ASSUME NEW S, NEW R, SignOut(S, R)
        PROVE  \A s \in Requests : SameBut(req'[s], req[s])
    BY <1>1, <2>2, StrayReqs DEF SignOut
  <2>3. UNCHANGED req \/ (\E r \in Requests : RefreshReused(r)) \/ \E S, R : SignOut(S, R)
    BY DEF Administer, Logout, RevokeMachine, SuspendUser, ReactivateUser, CloseEnrollment, Elapse, ExpireCode,
           ExpireToken, DeviceStart, vars
  <2>. QED BY <2>1, <2>2, <2>3 DEF SameBut
<1>5. \A s \in Requests : req'[s].step \in Issuing => RequestCounted(s)
  BY <1>4, IdleType, StaysCounted DEF SameBut, Issuing
<1>. QED BY <1>1, <1>3, <1>5, NothingCounted

LEMMA NextRotating == Rotating /\ [Next]_vars => Rotating'
<1>. SUFFICES ASSUME Rotating, [Next]_vars PROVE FamilyInv'
  BY NextBase DEF Rotating
<1>1. ASSUME NEW r \in Requests, Begin(r) \/ Serve(r)
      PROVE  FamilyInv'
  BY <1>1, PollFamily, RotateFamily, IssueFamily, ServeFamily, RestFamily DEF Begin, Serve
<1>2. CASE (\E c \in Codes, f \in Prints, e \in BOOLEAN : DeviceStart(c, f, e)) \/ Administer \/ Elapse \/ UNCHANGED vars
  BY <1>2, RestFamily
<1>. QED BY <1>1, <1>2 DEF Next

LEMMA OneGoodToken == Rotating => RotationForksExplained
<1>. SUFFICES ASSUME Rotating, NEW fam \in {tokens[i].family : i \in DOMAIN tokens} \ forked
              PROVE  Cardinality({i \in Live : tokens[i].family = fam})
                       + Cardinality({r \in Issuers : req[r].step \in Issuing /\ req[r].family = fam}) <= 1
  BY DEF RotationForksExplained
<1>. DEFINE L == {i \in Live : tokens[i].family = fam}
            I == {r \in Issuers : req[r].step \in Issuing /\ req[r].family = fam}
<1>1. TypeOK /\ fam \in Families \ forked
  BY TokenType DEF Rotating, Base
<1>2. Cardinality(Unrevoked(fam)) + Cardinality(IssuingFor(fam)) <= 1
  BY <1>1 DEF Rotating, FamilyInv
<1>3. IsFiniteSet(Unrevoked(fam)) /\ IsFiniteSet(IssuingFor(fam))
  BY <1>1, FamilyFinite
<1>4. L \in SUBSET Unrevoked(fam) /\ I \in SUBSET IssuingFor(fam)
  BY DEF Unrevoked, IssuingFor, Live, Issuers
<1>. HIDE DEF L, I
<1>5. Cardinality(L) \in Nat /\ Cardinality(Unrevoked(fam)) \in Nat /\ Cardinality(L) <= Cardinality(Unrevoked(fam))
  BY <1>3, <1>4, NoMore
<1>6. Cardinality(I) \in Nat /\ Cardinality(IssuingFor(fam)) \in Nat /\ Cardinality(I) <= Cardinality(IssuingFor(fam))
  BY <1>3, <1>4, NoMore
<1>7. Cardinality(L) + Cardinality(I) <= 1
  BY <1>2, <1>5, <1>6
<1>. QED BY <1>7 DEF L, I

\* Refresh keeps one good token in a family, with those about to be issued, until two
\* refreshes have read the same token before either revoked it: for any number of
\* tokens, families and requests.
THEOREM RotationKeepsOne == Spec => []RotationForksExplained
<1>1. Init => Rotating
  <2>. SUFFICES ASSUME Init PROVE Rotating
    OBVIOUS
  <2>1. Base
    BY InitBase
  <2>2. \A fam : Unrevoked(fam) = {} /\ IssuingFor(fam) = {}
    BY IdleType DEF Init, Unrevoked, IssuingFor, Issuing
  <2>. QED BY <2>1, <2>2, FS_EmptySet DEF Rotating, FamilyInv
<1>. QED BY <1>1, NextRotating, OneGoodToken, PTL DEF Spec

-------------------------------------------------------------------------------
(* Enrollment codes *)

ApprovedStages == {"approved", "consumed"}
Counted        == {"approve_machine", "approve_set"}

\* The codes that were approved with the enrollment code, and the approvals that have
\* taken a use of it for one.
Admitted  == {c \in Codes : codes[c].enrolled /\ codes[c].status \in ApprovedStages}
Admitting == {r \in Requests : req[r].step \in Counted /\ codes[req[r].code].enrolled}

EnrolInv == Cardinality(Admitted) + Cardinality(Admitting) <= enrol.used /\ enrol.used <= MaxUses

Enrolling == Base /\ EnrolInv

\* What may happen to the count in a step.
LEMMA EnrolCount ==
  ASSUME Enrolling, enrol'.used \in Nat,
         \/ UNCHANGED enrol.used /\ Admitted' \subseteq Admitted /\ Admitting' \subseteq Admitting
         \/ \E x : /\ CanConsumeEnrollment /\ enrol'.used = enrol.used + 1
                   /\ Admitted' \subseteq Admitted /\ Admitting' \subseteq Admitting \cup {x}
         \/ \E x : \E y \in Admitting : /\ UNCHANGED enrol.used
                                        /\ Admitted' \subseteq Admitted \cup {x} /\ Admitting' \subseteq Admitting \ {y}
  PROVE  EnrolInv'
<1>. DEFINE A == Admitted
            I == Admitting
            B == Admitted'
            J == Admitting'
            u == enrol.used
            v == enrol'.used
<1>1. /\ IsFiniteSet(A) /\ IsFiniteSet(I) /\ u \in Nat /\ MaxUses \in Nat
      /\ Cardinality(A) + Cardinality(I) <= u /\ u <= MaxUses
  <2>1. A \subseteq Codes /\ I \subseteq Requests
    BY DEF Admitted, Admitting
  <2>. QED BY <2>1, FS_Subset, FiniteAssumption, BoundAssumption DEF Enrolling, EnrolInv, Base, TypeOK
<1>2. \/ v = u /\ B \subseteq A /\ J \subseteq I
      \/ \E x : u < MaxUses /\ v = u + 1 /\ B \subseteq A /\ J \subseteq I \cup {x}
      \/ \E x : \E y \in I : v = u /\ B \subseteq A \cup {x} /\ J \subseteq I \ {y}
  BY DEF CanConsumeEnrollment
<1>3. SUFFICES Cardinality(B) + Cardinality(J) <= v /\ v <= MaxUses
  BY DEF EnrolInv
<1>. HIDE DEF A, I, B, J, u, v
<1>4. CASE v = u /\ B \subseteq A /\ J \subseteq I
  <2>1. Cardinality(B) \in Nat /\ Cardinality(A) \in Nat /\ Cardinality(B) <= Cardinality(A)
    BY <1>1, <1>4, NoMore
  <2>2. Cardinality(J) \in Nat /\ Cardinality(I) \in Nat /\ Cardinality(J) <= Cardinality(I)
    BY <1>1, <1>4, NoMore
  <2>. QED BY <1>1, <1>4, <2>1, <2>2
<1>5. ASSUME NEW x, u < MaxUses, v = u + 1, B \subseteq A, J \subseteq I \cup {x}
      PROVE  Cardinality(B) + Cardinality(J) <= v /\ v <= MaxUses
  <2>1. Cardinality(B) \in Nat /\ Cardinality(A) \in Nat /\ Cardinality(B) <= Cardinality(A)
    BY <1>1, <1>5, NoMore
  <2>2. Cardinality(J) \in Nat /\ Cardinality(I) \in Nat /\ Cardinality(J) <= Cardinality(I) + 1
    BY <1>1, <1>5, OneMore
  <2>. QED BY <1>1, <1>5, <2>1, <2>2
<1>6. ASSUME NEW x, NEW y \in I, v = u, B \subseteq A \cup {x}, J \subseteq I \ {y}
      PROVE  Cardinality(B) + Cardinality(J) <= v /\ v <= MaxUses
  <2>1. Cardinality(B) \in Nat /\ Cardinality(A) \in Nat /\ Cardinality(B) <= Cardinality(A) + 1
    BY <1>1, <1>6, OneMore
  <2>2. Cardinality(J) \in Nat /\ Cardinality(I) \in Nat /\ Cardinality(J) + 1 <= Cardinality(I)
    BY <1>1, <1>6, OneLess
  <2>. QED BY <1>1, <1>6, <2>1, <2>2
<1>. QED BY <1>2, <1>4, <1>5, <1>6

\* A request that is counted, given the device codes.
EnrolledOf(cs, q) == q.step \in Counted /\ cs[q.code].enrolled

LEMMA AdmittedBefore ==
  /\ (\A c \in Codes : codes'[c].enrolled /\ codes'[c].status \in ApprovedStages => c \in Admitted)
       => Admitted' \subseteq Admitted
  /\ (\A r \in Requests : EnrolledOf(codes', req'[r]) => r \in Admitting) => Admitting' \subseteq Admitting
  BY DEF Admitted, Admitting, EnrolledOf

\* Nothing is approved, and no approval has taken a use.
LEMMA NothingAdmitted ==
  ASSUME Enrolling, enrol' \in [used: Nat, open: BOOLEAN], enrol'.used = enrol.used,
         \A c \in Codes : codes'[c].enrolled /\ codes'[c].status \in ApprovedStages => c \in Admitted,
         \A r \in Requests : EnrolledOf(codes', req'[r]) => r \in Admitting
  PROVE  EnrolInv'
<1>1. Admitted' \subseteq Admitted /\ Admitting' \subseteq Admitting
  BY AdmittedBefore
<1>2. enrol'.used \in Nat
  OBVIOUS
<1>. QED BY <1>1, <1>2, EnrolCount

\* A held code was started, and stays limited to the enrollment code or not.
LEMMA HeldCode ==
  ASSUME Base, NEW r \in Requests, req[r].step \in Approving
  PROVE  req[r].code \in Codes /\ codes[req[r].code].status # "none"
  BY DEF Base, ReqsInv, ReqOk

LEMMA CountedApprove == Counted \subseteq Approving /\ IdleRequest.step \notin Counted
  BY IdleType DEF Counted, Approving

\* How codes change when DeviceStart and ApproveSet do not run.
LEMMA EnrolledStays ==
  ASSUME TypeOK, UNCHANGED codes \/ (\E c \in Codes : ExpireCode(c) \/ (ConsumeDeviceCode(c) /\ CanConsume(c)))
  PROVE  \A c \in Codes : /\ codes'[c].enrolled = codes[c].enrolled
                          /\ codes'[c].status \in ApprovedStages => codes[c].status \in ApprovedStages
<1>1. ASSUME NEW c \in Codes, ExpireCode(c) \/ (ConsumeDeviceCode(c) /\ CanConsume(c))
      PROVE  \A d \in Codes : /\ codes'[d].enrolled = codes[d].enrolled
                              /\ codes'[d].status \in ApprovedStages => codes[d].status \in ApprovedStages
  <2>1. PICK x : /\ codes' = [codes EXCEPT ![c] = x] /\ x.enrolled = codes[c].enrolled
                 /\ x.status \in ApprovedStages => codes[c].status \in ApprovedStages
    <3>. DEFINE e == [codes[c] EXCEPT !.old = TRUE]
                s == [codes[c] EXCEPT !.status = "consumed"]
    <3>0. codes[c] \in Code
      BY CodeType
    <3>1. CASE ExpireCode(c)
      <4>1. codes' = [codes EXCEPT ![c] = e]
        BY <3>1 DEF ExpireCode
      <4>2. e.enrolled = codes[c].enrolled /\ e.status = codes[c].status
        BY <3>0 DEF Code
      <4>. HIDE DEF e
      <4>. QED BY <4>1, <4>2
    <3>2. CASE ConsumeDeviceCode(c) /\ CanConsume(c)
      <4>1. codes' = [codes EXCEPT ![c] = s] /\ codes[c].status \in ApprovedStages
        BY <3>2 DEF ConsumeDeviceCode, CanConsume, ApprovedStages
      <4>2. s.enrolled = codes[c].enrolled
        BY <3>0 DEF Code
      <4>. HIDE DEF s
      <4>. QED BY <4>1, <4>2
    <3>. QED BY <1>1, <3>1, <3>2
  <2>2. codes \in [Codes -> Code]
    BY DEF TypeOK
  <2>3. codes'[c] = x /\ \A d \in Codes : d # c => codes'[d] = codes[d]
    BY <2>1, <2>2
  <2>. QED BY <2>1, <2>3
<1>. QED BY <1>1

\* A code is started: no approval holds it.
LEMMA StartEnrol ==
  ASSUME Enrolling, NEW c \in Codes, NEW f \in Prints, NEW e \in BOOLEAN, DeviceStart(c, f, e)
  PROVE  EnrolInv'
<1>1. /\ Base /\ codes[c].status = "none" /\ UNCHANGED <<enrol, req>>
      /\ enrol \in [used: Nat, open: BOOLEAN] /\ codes \in [Codes -> Code]
  BY DEF Enrolling, Base, TypeOK, DeviceStart
<1>2. codes'[c].status = "pending" /\ \A d \in Codes : d # c => codes'[d] = codes[d]
  BY <1>1 DEF DeviceStart, CreateDeviceCode
<1>3. \A d \in Codes : codes'[d].enrolled /\ codes'[d].status \in ApprovedStages => d \in Admitted
  BY <1>2 DEF Admitted, ApprovedStages
<1>4. \A r \in Requests : EnrolledOf(codes', req'[r]) => r \in Admitting
  <2>. SUFFICES ASSUME NEW r \in Requests, EnrolledOf(codes', req[r]) PROVE r \in Admitting
    BY <1>1
  <2>1. req[r].code \in Codes /\ req[r].code # c
    BY <1>1, HeldCode, CountedApprove DEF EnrolledOf
  <2>. QED BY <1>2, <2>1 DEF EnrolledOf, Admitting
<1>. QED BY <1>1, <1>3, <1>4, NothingAdmitted

\* An approval takes a use before its code is approved.
LEMMA TakeEnrol ==
  ASSUME Enrolling, NEW r \in Requests, ApproveEnroll(r)
  PROVE  EnrolInv'
<1>1. /\ Base /\ TypeOK /\ UNCHANGED codes
      /\ enrol \in [used: Nat, open: BOOLEAN]
  BY DEF Enrolling, Base, TypeOK, ApproveEnroll
<1>2. ASSUME NEW q, req' = [req EXCEPT ![r] = q]
      PROVE  req'[r] = q /\ \A s \in Requests : s # r => req'[s] = req[s]
  BY <1>1, <1>2, OtherRequests
<1>3. CASE CanConsumeEnrollment
  <2>. DEFINE q == [req[r] EXCEPT !.step = "approve_machine"]
  <2>1. req' = [req EXCEPT ![r] = q] /\ enrol' = [enrol EXCEPT !.used = @ + 1]
    BY <1>1, <1>3 DEF ApproveEnroll, Goto, TypeOK
  <2>. HIDE DEF q
  <2>2. \A s \in Requests : s # r => req'[s] = req[s]
    BY <1>2, <2>1
  <2>3. Admitted' \subseteq Admitted /\ Admitting' \subseteq Admitting \cup {r}
    BY <1>1, <2>2 DEF Admitted, Admitting
  <2>4. enrol'.used = enrol.used + 1 /\ enrol'.used \in Nat
    BY <1>1, <2>1
  <2>. QED BY <1>3, <2>3, <2>4, EnrolCount
<1>4. CASE ~CanConsumeEnrollment
  <2>1. req' = [req EXCEPT ![r] = IdleRequest] /\ UNCHANGED enrol
    BY <1>4 DEF ApproveEnroll, Return
  <2>2. \A s \in Requests : EnrolledOf(codes', req'[s]) => s \in Admitting
    BY <1>1, <1>2, <2>1, CountedApprove DEF EnrolledOf, Admitting
  <2>3. \A d \in Codes : codes'[d].enrolled /\ codes'[d].status \in ApprovedStages => d \in Admitted
    BY <1>1 DEF Admitted
  <2>. QED BY <1>1, <2>1, <2>2, <2>3, NothingAdmitted
<1>. QED BY <1>3, <1>4

\* A code is approved by a request that has taken a use for it.
LEMMA SetEnrol ==
  ASSUME Enrolling, NEW r \in Requests, ApproveSet(r)
  PROVE  EnrolInv'
<1>. DEFINE c == req[r].code
            m == req[r].machine
<1>1. /\ Base /\ TypeOK /\ UNCHANGED enrol /\ req[r].step \in Counted
      /\ enrol \in [used: Nat, open: BOOLEAN] /\ codes \in [Codes -> Code]
      /\ req' = [req EXCEPT ![r] = IdleRequest]
  BY DEF Enrolling, Base, TypeOK, ApproveSet, Return, Counted
<1>2. c \in Codes
  BY <1>1, HeldCode, CountedApprove
<1>3. req'[r] = IdleRequest /\ \A s \in Requests : s # r => req'[s] = req[s]
  BY <1>1, OtherRequests
<1>4. /\ \A d \in Codes : codes'[d].enrolled = codes[d].enrolled
      /\ \A d \in Codes : d # c => codes'[d] = codes[d]
  <2>1. CASE ~Pending(c)
    BY <2>1 DEF ApproveSet
  <2>2. CASE Pending(c)
    <3>. DEFINE y == [codes[c] EXCEPT !.status = "approved"]
                x == [y EXCEPT !.machine = m]
    <3>1. codes' = [codes EXCEPT ![c] = x]
      BY <1>1, <1>2, <2>2 DEF ApproveSet, ApproveDeviceCode, Pending
    <3>2. codes[c] \in Code
      BY <1>1, <1>2, CodeType
    <3>3. y \in Code /\ y.enrolled = codes[c].enrolled
      BY <3>2 DEF Code
    <3>. HIDE DEF y
    <3>4. x.enrolled = y.enrolled
      BY <3>3 DEF Code
    <3>. HIDE DEF x, c
    <3>. QED BY <1>1, <1>2, <3>1, <3>3, <3>4
  <2>. QED BY <2>1, <2>2
<1>. HIDE DEF c, m
<1>5. \A s \in Requests : req[s].step \in Counted => req[s].code \in Codes
  BY <1>1, HeldCode, CountedApprove
<1>6. Admitting' \subseteq Admitting \ {r}
  BY <1>3, <1>4, <1>5, CountedApprove DEF Admitting
<1>7. CASE codes[c].enrolled
  <2>1. r \in Admitting
    BY <1>1, <1>7 DEF Admitting, c
  <2>2. Admitted' \subseteq Admitted \cup {c}
    BY <1>4 DEF Admitted
  <2>3. enrol'.used \in Nat /\ enrol'.used = enrol.used
    BY <1>1
  <2>. QED BY <1>6, <2>1, <2>2, <2>3, EnrolCount
<1>8. CASE ~codes[c].enrolled
  <2>1. Admitted' \subseteq Admitted
    BY <1>2, <1>4, <1>8 DEF Admitted
  <2>2. enrol'.used \in Nat /\ enrol'.used = enrol.used /\ Admitting' \subseteq Admitting
    BY <1>1, <1>6
  <2>. QED BY <2>1, <2>2, EnrolCount
<1>. QED BY <1>7, <1>8

\* No use is taken, nothing is started and nothing is approved.
LEMMA RestEnrol ==
  ASSUME Enrolling,
         (\E r \in Requests :
            \/ (\E u \in Users, c \in Codes : Activate(r, u, c)) \/ (\E c \in Codes : Poll(r, c))
            \/ (\E i \in DOMAIN tokens : RefreshRead(r, i)) \/ ApproveMachine(r) \/ RefreshReused(r)
            \/ RefreshRotate(r) \/ IssueMember(r) \/ IssueMachine(r) \/ IssueToken(r) \/ Abandon(r))
           \/ Administer \/ Elapse \/ UNCHANGED vars
  PROVE  EnrolInv'
<1>1. Base /\ TypeOK /\ enrol \in [used: Nat, open: BOOLEAN]
  BY DEF Enrolling, Base, TypeOK
<1>2. UNCHANGED enrol \/ CloseEnrollment
  BY DEF Activate, Poll, RefreshRead, ApproveMachine, RefreshReused, RefreshRotate, IssueMember, IssueMachine,
         IssueToken, Abandon, Administer, Logout, RevokeMachine, SuspendUser, ReactivateUser, Elapse, ExpireCode,
         ExpireToken, vars
<1>3. enrol' \in [used: Nat, open: BOOLEAN] /\ enrol'.used = enrol.used
  <2>1. CASE UNCHANGED enrol
    BY <1>1, <2>1
  <2>2. CASE CloseEnrollment
    <3>1. enrol' = [enrol EXCEPT !.open = FALSE]
      BY <2>2 DEF CloseEnrollment
    <3>. QED BY <1>1, <3>1
  <2>. QED BY <1>2, <2>1, <2>2
<1>4. UNCHANGED codes \/ (\E c \in Codes : ExpireCode(c) \/ (ConsumeDeviceCode(c) /\ CanConsume(c)))
  <2>1. UNCHANGED codes \/ Elapse \/ \E r \in Requests, c \in Codes : Poll(r, c)
    BY DEF Activate, RefreshRead, ApproveMachine, RefreshReused, RefreshRotate, IssueMember, IssueMachine,
           IssueToken, Abandon, Administer, Logout, RevokeMachine, SuspendUser, ReactivateUser, CloseEnrollment, vars
  <2>2. ASSUME NEW r \in Requests, NEW c \in Codes, Poll(r, c)
        PROVE  ConsumeDeviceCode(c) /\ CanConsume(c)
    BY <2>2 DEF Poll
  <2>3. Elapse => UNCHANGED codes \/ \E c \in Codes : ExpireCode(c)
    BY DEF Elapse, ExpireToken
  <2>. QED BY <2>1, <2>2, <2>3
<1>5. \A c \in Codes : /\ codes'[c].enrolled = codes[c].enrolled
                       /\ codes'[c].status \in ApprovedStages => codes[c].status \in ApprovedStages
  BY <1>1, <1>4, EnrolledStays
<1>6. \A c \in Codes : codes'[c].enrolled /\ codes'[c].status \in ApprovedStages => c \in Admitted
  BY <1>5 DEF Admitted
\* A request that is counted afterwards was counted before.
<1>7. ASSUME NEW s \in Requests, req[s].step \in Counted, codes'[req[s].code].enrolled
      PROVE  s \in Admitting
  <2>1. req[s].code \in Codes
    BY <1>1, <1>7, HeldCode, CountedApprove
  <2>. QED BY <1>5, <1>7, <2>1 DEF Admitting
<1>8. ASSUME \A s \in Requests : req'[s].step \notin Counted \/ SameBut(req'[s], req[s])
      PROVE  EnrolInv'
  <2>1. \A s \in Requests : EnrolledOf(codes', req'[s]) => s \in Admitting
    BY <1>7, <1>8 DEF EnrolledOf, SameBut
  <2>. QED BY <1>3, <1>6, <2>1, NothingAdmitted
<1>9. ASSUME NEW r \in Requests, NEW q, req' = [req EXCEPT ![r] = q], q.step \notin Counted
      PROVE  EnrolInv'
  <2>1. req'[r] = q /\ \A s \in Requests : s # r => req'[s] = req[s]
    BY <1>1, <1>9, OtherRequests
  <2>2. \A s \in Requests : req'[s].step \notin Counted \/ SameBut(req'[s], req[s])
    BY <1>9, <2>1 DEF SameBut
  <2>. QED BY <1>8, <2>2
<1>10. ASSUME NEW r \in Requests, Return(r) PROVE EnrolInv'
  BY <1>9, <1>10, CountedApprove DEF Return
<1>11. ASSUME NEW r \in Requests, NEW step \in Issuing, Goto(r, step)
       PROVE  EnrolInv'
  <2>. DEFINE q == [req[r] EXCEPT !.step = step]
  <2>1. req' = [req EXCEPT ![r] = q]
    BY <1>1, <1>11 DEF Goto, TypeOK
  <2>2. q.step \notin Counted
    BY <1>1, RequestType, GotoType DEF Counted, Issuing
  <2>. HIDE DEF q
  <2>. QED BY <1>9, <2>1, <2>2
<1>12. ASSUME NEW r \in Requests, NEW u \in Users, NEW c \in Codes, Activate(r, u, c)
       PROVE  EnrolInv'
  <2>. DEFINE q == [IdleRequest EXCEPT !.step = IF codes[c].enrolled THEN "approve_enroll" ELSE "approve_machine",
                                       !.code = c, !.machine = <<u, codes[c].print>>]
  <2>1. req' = [req EXCEPT ![r] = q] /\ codes' = codes
    BY <1>12 DEF Activate
  <2>2. q.step \in Counted => ~codes[q.code].enrolled
    BY DEF IdleRequest, Counted
  <2>. HIDE DEF q
  <2>3. req'[r] = q /\ \A s \in Requests : s # r => req'[s] = req[s]
    BY <1>1, <2>1, OtherRequests
  <2>4. \A s \in Requests : EnrolledOf(codes', req'[s]) => s \in Admitting
    BY <2>1, <2>2, <2>3 DEF EnrolledOf, Admitting
  <2>. QED BY <1>3, <1>6, <2>4, NothingAdmitted
<1>13. ASSUME NEW r \in Requests, ApproveMachine(r)
       PROVE  EnrolInv'
  <2>. DEFINE q == [req[r] EXCEPT !.step = "approve_set"]
  <2>1. req' = [req EXCEPT ![r] = q] /\ codes' = codes /\ req[r].step \in Counted
    BY <1>1, <1>13 DEF ApproveMachine, Goto, TypeOK, Counted
  <2>2. q.code = req[r].code
    BY <1>1, RequestType, GotoType DEF Approving
  <2>. HIDE DEF q
  <2>3. req'[r] = q /\ \A s \in Requests : s # r => req'[s] = req[s]
    BY <1>1, <2>1, OtherRequests
  <2>4. \A s \in Requests : EnrolledOf(codes', req'[s]) => s \in Admitting
    BY <2>1, <2>2, <2>3 DEF EnrolledOf, Admitting
  <2>. QED BY <1>3, <1>6, <2>4, NothingAdmitted
<1>14. ASSUME NEW r \in Requests, NEW i \in DOMAIN tokens, RefreshRead(r, i)
       PROVE  EnrolInv'
  <2>. DEFINE q == [step |-> IF tokens[i].state = "live" THEN "rotate" ELSE "reused",
                    code |-> NoCode, machine |-> tokens[i].machine, family |-> tokens[i].family,
                    token |-> i, strayed |-> tokens[i].strayed]
  <2>1. req' = [req EXCEPT ![r] = q]
    BY <1>14 DEF RefreshRead
  <2>2. q.step \notin Counted
    BY DEF Counted
  <2>. HIDE DEF q
  <2>. QED BY <1>9, <2>1, <2>2
<1>15. ASSUME NEW r \in Requests, NEW c \in Codes, Poll(r, c)
       PROVE  EnrolInv'
  <2>1. PICK q \in Request : req' = [req EXCEPT ![r] = q] /\ q.step = "issue_member"
    BY <1>1, <1>15, PollFacts
  <2>2. q.step \notin Counted
    BY <2>1 DEF Counted
  <2>. QED BY <1>9, <2>1, <2>2
<1>16. ASSUME NEW r \in Requests, RefreshReused(r)
       PROVE  EnrolInv'
  <2>1. \A s \in Requests : req'[s].step \notin Counted \/ SameBut(req'[s], req[s])
    BY <1>1, <1>16, RefreshReusedFacts, CountedApprove
  <2>. QED BY <1>8, <2>1
<1>17. ASSUME NEW S, NEW R, SignOut(S, R)
       PROVE  EnrolInv'
  <2>1. \A s \in Requests : SameBut(req'[s], req[s])
    BY <1>1, <1>17, StrayReqs DEF SignOut
  <2>. QED BY <1>8, <2>1
<1>18. ASSUME UNCHANGED req
       PROVE  EnrolInv'
  BY <1>8, <1>18 DEF SameBut
<1>19. ASSUME NEW r \in Requests,
              RefreshRotate(r) \/ IssueMember(r) \/ IssueMachine(r) \/ IssueToken(r) \/ Abandon(r)
       PROVE  EnrolInv'
  BY <1>10, <1>11, <1>19 DEF RefreshRotate, IssueMember, IssueMachine, IssueToken, Abandon, Issuing
<1>20. CASE Administer \/ Elapse \/ UNCHANGED vars
  BY <1>17, <1>18, <1>20 DEF Administer, Logout, RevokeMachine, SuspendUser, ReactivateUser, CloseEnrollment, Elapse,
                             ExpireCode, ExpireToken, vars
<1>. QED BY <1>12, <1>13, <1>14, <1>15, <1>16, <1>19, <1>20

LEMMA NextEnrolling == Enrolling /\ [Next]_vars => Enrolling'
<1>. SUFFICES ASSUME Enrolling, [Next]_vars PROVE EnrolInv'
  BY NextBase DEF Enrolling
<1>1. CASE \E c \in Codes, f \in Prints, e \in BOOLEAN : DeviceStart(c, f, e)
  BY <1>1, StartEnrol
<1>2. ASSUME NEW r \in Requests, Begin(r) \/ Serve(r)
      PROVE  EnrolInv'
  BY <1>2, TakeEnrol, SetEnrol, RestEnrol DEF Begin, Serve
<1>3. CASE Administer \/ Elapse \/ UNCHANGED vars
  BY <1>3, RestEnrol
<1>. QED BY <1>1, <1>2, <1>3 DEF Next

\* An enrollment code approves no more device codes than it has uses, and each of them
\* took a use of its own: however many approvals run together, abandoned ones included.
THEOREM EnrollmentIsCounted == Spec => []EnrollmentCounts
<1>1. Init => Enrolling
  <2>. SUFFICES ASSUME Init PROVE Enrolling
    OBVIOUS
  <2>1. Admitted = {} /\ Admitting = {}
    BY IdleType, CountedApprove DEF Init, Admitted, Admitting
  <2>2. enrol.used = 0 /\ MaxUses \in Nat
    BY BoundAssumption DEF Init
  <2>. QED BY <2>1, <2>2, InitBase, FS_EmptySet DEF Enrolling, EnrolInv
<1>2. Enrolling => EnrollmentCounts
  <2>. SUFFICES ASSUME Enrolling PROVE EnrollmentCounts
    OBVIOUS
  <2>1. Admitted \subseteq Codes /\ Admitting \subseteq Requests
    BY DEF Admitted, Admitting
  <2>2. Cardinality(Admitted) \in Nat /\ Cardinality(Admitting) \in Nat
    BY <2>1, FS_Subset, FS_CardinalityType, FiniteAssumption
  <2>3. enrol.used \in Nat
    BY DEF Enrolling, Base, TypeOK
  <2>4. Cardinality(Admitted) <= enrol.used /\ enrol.used <= MaxUses
    BY <2>2, <2>3 DEF Enrolling, EnrolInv
  <2>. QED BY <2>4 DEF EnrollmentCounts, Admitted, ApprovedStages
<1>. QED BY <1>1, <1>2, NextEnrolling, PTL DEF Spec

===============================================================================
