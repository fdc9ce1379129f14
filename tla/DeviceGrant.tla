----------------------------- MODULE DeviceGrant ------------------------------
(***************************************************************************)
(* What the device authorization flow of internal/identity promises: a     *)
(* device code waits for one approval, is spent once, and opens at most    *)
(* one session - a family of refresh tokens - on the machine that was      *)
(* approved with it. How sessions go on and end is left open.              *)
(***************************************************************************)
EXTENDS Naturals

CONSTANTS
  Codes,      \* device codes
  Machines,   \* rows of machines
  NoMachine   \* a code that no one has approved

VARIABLES
  stage,     \* how far each code is
  approved,  \* the machine each code was approved for
  sessions   \* the sessions opened, each with its code, machine and poll

vars == <<stage, approved, sessions>>

Stages == {"none", "pending", "approved", "consumed"}

\* poll: which of the polls that spent the code opened it.
Session == [code: Codes, machine: Machines, poll: Nat]

Init ==
  /\ stage = [c \in Codes |-> "none"]
  /\ approved = [c \in Codes |-> NoMachine]
  /\ sessions = {}

\* A code moves to a later stage and to no other.
Move(c, from, to) == stage[c] = from /\ stage' = [stage EXCEPT ![c] = to]

Start(c) == Move(c, "none", "pending") /\ UNCHANGED <<approved, sessions>>

Approve(c, m) ==
  /\ Move(c, "pending", "approved")
  /\ approved' = [approved EXCEPT ![c] = m]
  /\ UNCHANGED sessions

Spend(c) == Move(c, "approved", "consumed") /\ UNCHANGED <<approved, sessions>>

\* A spent code opens its one session.
Open(c) ==
  /\ stage[c] = "consumed"
  /\ \E s \in sessions' :
        /\ s \in Session /\ s.code = c /\ s.machine = approved[c]
        /\ sessions' = sessions \cup {s}
  /\ \A s \in sessions : s.code # c
  /\ UNCHANGED <<stage, approved>>

Next == \E c \in Codes : Start(c) \/ Spend(c) \/ Open(c) \/ \E m \in Machines : Approve(c, m)

Spec == Init /\ [][Next]_vars

===============================================================================
