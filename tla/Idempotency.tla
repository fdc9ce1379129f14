----------------------------- MODULE Idempotency ------------------------------
(***************************************************************************)
(* Write requests that carry an Idempotency-Key, as the middleware of      *)
(* internal/api serves them with the table idempotency_keys. Rows of       *)
(* different (org, user, key) never meet, so there is one key: a client    *)
(* sends it with some request and may send it again, with the same or with *)
(* another request, while earlier attempts are still running. Each         *)
(* statement of the store is one action; the handler is another.           *)
(***************************************************************************)
EXTENDS Integers, Sequences, FiniteSets

CONSTANTS
  Bodies,       \* the (method, route, body hash) triples clients send
  Answers,      \* what handlers answer: status and body
  Attempts,     \* slots for attempts that are being served together
  MaxAttempts,  \* bound: attempts in a behaviour
  NoAnswer,     \* SQL NULL in status
  NoRow         \* no row for the key

ASSUME BoundAssumption == MaxAttempts \in Nat
ASSUME NoAnswerAssumption == NoAnswer \notin Answers
ASSUME NoRowAssumption == NoRow \notin [body: Bodies, answer: {NoAnswer} \cup Answers, era: Nat, old: BOOLEAN]

VARIABLES
  row,      \* the row of idempotency_keys
  att,      \* what each attempt is doing
  started,  \* attempts so far
  era,      \* rows inserted so far: the number of the present or last one
  runs,     \* history: the runs of the handler
  replies   \* history: what attempts that did not run the handler were answered

keyVars == <<row, att, started, era, runs, replies>>

-------------------------------------------------------------------------------

\* old: expires_at has passed. era is no column; it tells rows apart.
Row == [body: Bodies, answer: {NoAnswer} \cup Answers, era: Nat, old: BOOLEAN]

Steps == {"idle", "purge", "insert", "read", "handle", "complete"}

Attempt == [step: Steps, body: Bodies, answer: {NoAnswer} \cup Answers, era: Nat]

Run == [body: Bodies, answer: Answers, era: Nat]

\* What an attempt is answered from the row: a replay, or one of two conflicts.
Reply == [kind: {"replay", "other_request", "in_progress", "missing"}, body: Bodies,
          answer: {NoAnswer} \cup Answers, era: Nat]

IdleAttempt(body) == [step |-> "idle", body |-> body, answer |-> NoAnswer, era |-> 0]

KeyTypeOK ==
  /\ row \in {NoRow} \cup Row
  /\ att \in [Attempts -> Attempt]
  /\ started \in Nat
  /\ era \in Nat
  /\ runs \in Seq(Run)
  /\ replies \in Seq(Reply)

EndAttempt(a) == att' = [att EXCEPT ![a] = IdleAttempt(att[a].body)]

\* An attempt that has taken the key and is running.
Running(a) == att[a].step \in {"handle", "complete"}

-------------------------------------------------------------------------------

SendKey(a, body) ==
  /\ att[a].step = "idle"
  /\ started < MaxAttempts
  /\ started' = started + 1
  /\ att' = [att EXCEPT ![a] = [IdleAttempt(body) EXCEPT !.step = "purge"]]
  /\ UNCHANGED <<row, era, runs, replies>>

\* Begin: DELETE what has expired
BeginPurge(a) ==
  /\ att[a].step = "purge"
  /\ row' = IF row # NoRow /\ row.old THEN NoRow ELSE row
  /\ att' = [att EXCEPT ![a].step = "insert"]
  /\ UNCHANGED <<started, era, runs, replies>>

\* Mutant: the row is inserted without its expires_at.
BeginInsertNoExpiry(a) ==
  /\ att[a].step = "insert"
  /\ IF row = NoRow
       THEN /\ era' = era + 1
            /\ row' = [body |-> att[a].body, answer |-> NoAnswer, era |-> era + 1, old |-> NoAnswer]
            /\ att' = [att EXCEPT ![a].step = "handle", ![a].era = era + 1]
       ELSE /\ att' = [att EXCEPT ![a].step = "read"]
            /\ UNCHANGED <<era, row>>
  /\ UNCHANGED <<started, runs, replies>>

\* Mutant: an attempt that finds the key taken by the same request goes on as well.
BeginInsertJoins(a) ==
  /\ att[a].step = "insert"
  /\ IF row = NoRow
       THEN /\ era' = era + 1
            /\ row' = [body |-> att[a].body, answer |-> NoAnswer, era |-> era + 1, old |-> FALSE]
            /\ att' = [att EXCEPT ![a].step = "handle", ![a].era = era + 1]
       ELSE /\ att' = IF row.body = att[a].body /\ row.answer = NoAnswer
                         THEN [att EXCEPT ![a].step = "handle", ![a].era = row.era]
                         ELSE [att EXCEPT ![a].step = "read"]
            /\ UNCHANGED <<era, row>>
  /\ UNCHANGED <<started, runs, replies>>

\* Begin: INSERT ... ON CONFLICT DO NOTHING
BeginInsert(a) ==
  /\ att[a].step = "insert"
  /\ IF row = NoRow
       THEN /\ era' = era + 1
            /\ row' = [body |-> att[a].body, answer |-> NoAnswer, era |-> era + 1, old |-> FALSE]
            /\ att' = [att EXCEPT ![a].step = "handle", ![a].era = era + 1]
       ELSE /\ att' = [att EXCEPT ![a].step = "read"]
            /\ UNCHANGED <<era, row>>
  /\ UNCHANGED <<started, runs, replies>>

\* Mutant: the stored request is not compared with the one that is sent.
JudgeAnyRequest(r, body) ==
  CASE r = NoRow -> "missing"
    [] r # NoRow /\ r.answer = NoAnswer -> "in_progress"
    [] OTHER -> "replay"

\* replay: another request, still in progress, or the answer of the first
Judge(r, body) ==
  CASE r = NoRow -> "missing"
    [] r # NoRow /\ r.body # body -> "other_request"
    [] r # NoRow /\ r.body = body /\ r.answer = NoAnswer -> "in_progress"
    [] OTHER -> "replay"

\* Begin: SELECT the row that was in the way, and replay
BeginRead(a) ==
  /\ att[a].step = "read"
  /\ LET kind == Judge(row, att[a].body)
     IN replies' = Append(replies,
          [kind |-> kind, body |-> att[a].body,
           answer |-> IF kind = "replay" THEN row.answer ELSE NoAnswer,
           era |-> IF row = NoRow THEN 0 ELSE row.era])
  /\ EndAttempt(a)
  /\ UNCHANGED <<row, started, era, runs>>

\* next.ServeHTTP: the handler does its work and its answer goes out
Handle(a, answer) ==
  /\ att[a].step = "handle"
  /\ runs' = Append(runs, [body |-> att[a].body, answer |-> answer, era |-> att[a].era])
  /\ att' = [att EXCEPT ![a].step = "complete", ![a].answer = answer]
  /\ UNCHANGED <<row, started, era, replies>>

\* Complete: UPDATE the row of the key
Complete(a) ==
  /\ att[a].step = "complete"
  /\ row' = IF row = NoRow THEN NoRow ELSE [row EXCEPT !.answer = att[a].answer]
  /\ EndAttempt(a)
  /\ UNCHANGED <<started, era, runs, replies>>

\* The write-back fails, or the client hangs up and cancels the request's context,
\* or the server dies, before or after the handler has done its work.
Lose(a) ==
  /\ att[a].step # "idle"
  /\ EndAttempt(a)
  /\ UNCHANGED <<row, started, era, runs, replies>>

\* A day passes: far longer than a request takes, so none that runs outlives its row.
Expire ==
  /\ row # NoRow
  /\ ~row.old
  /\ \A a \in Attempts : ~Running(a)
  /\ row' = [row EXCEPT !.old = TRUE]
  /\ UNCHANGED <<att, started, era, runs, replies>>

\* The maintenance task: DELETE what has expired, of whatever key
PurgeLedgers ==
  /\ row # NoRow
  /\ row.old
  /\ row' = NoRow
  /\ UNCHANGED <<att, started, era, runs, replies>>

-------------------------------------------------------------------------------

KeyInit ==
  /\ row = NoRow
  /\ \E body \in Bodies : att = [a \in Attempts |-> IdleAttempt(body)]
  /\ started = 0
  /\ era = 0
  /\ runs = <<>>
  /\ replies = <<>>

KeyNext ==
  \/ \E a \in Attempts :
       \/ \E body \in Bodies : SendKey(a, body)
       \/ BeginPurge(a)
       \/ BeginInsert(a)
       \/ BeginRead(a)
       \/ \E answer \in Answers : Handle(a, answer)
       \/ Complete(a)
       \/ Lose(a)
  \/ Expire
  \/ PurgeLedgers

KeySpec == KeyInit /\ [][KeyNext]_keyVars

-------------------------------------------------------------------------------
(* Properties *)

\* Of attempts with the same key, however they overlap, at most one runs the
\* handler until the key expires (Begin).
RunsOnce ==
  \A j, k \in DOMAIN runs : runs[j].era = runs[k].era => j = k

\* A replay is the answer the handler gave to this very request under this row of
\* the key, never to another body and never an answer from before the key expired.
ReplaysAreFaithful ==
  \A k \in DOMAIN replies :
    replies[k].kind = "replay" =>
      \E j \in DOMAIN runs : /\ runs[j].body = replies[k].body
                             /\ runs[j].answer = replies[k].answer
                             /\ runs[j].era = replies[k].era

===============================================================================
