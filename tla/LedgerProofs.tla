----------------------------- MODULE LedgerProofs -----------------------------
(***************************************************************************)
(* Proofs about the two ledgers that make it safe to send a request again  *)
(* and that the janitor empties together (PurgeLedgers): Idempotency and   *)
(* Telemetry, for any number of attempts and requests in flight, any       *)
(* answers, events, batches and window. The argument about a key is that   *)
(* an attempt that runs the handler has the key to itself: the row it      *)
(* inserted is still there. The argument about events is that a            *)
(* transaction holds only events the ledger does not know, that no two     *)
(* hold the same event, and that what the ledger has forgotten is older    *)
(* than any request may be about.                                          *)
(***************************************************************************)
EXTENDS Idempotency, Telemetry, FiniteSetTheorems, TLAPS

-------------------------------------------------------------------------------
(* The key of a request: the inductive invariant *)

\* The handler ran for this request under this row of the key and gave this answer.
Ran(rs, body, answer, e) ==
  \E j \in DOMAIN rs : rs[j].body = body /\ rs[j].answer = answer /\ rs[j].era = e

\* While an attempt runs, the row it inserted is the row of the key; no other runs.
Exclusive ==
  /\ \A a \in Attempts : Running(a) =>
       row # NoRow /\ ~row.old /\ row.body = att[a].body /\ row.era = att[a].era
  /\ \A a, b \in Attempts : Running(a) /\ Running(b) => a = b

\* Rows are numbered in the order they are inserted, and an attempt that has yet to run
\* the handler is the first to do so under its row.
ErasInv ==
  /\ row # NoRow => row.era <= era
  /\ \A j \in DOMAIN runs : runs[j].era <= era
  /\ \A a \in Attempts, j \in DOMAIN runs : att[a].step = "handle" => runs[j].era # att[a].era

\* An answer that was, or is about to be, written to the row is the handler's.
AnswersInv ==
  /\ row # NoRow /\ row.answer # NoAnswer => Ran(runs, row.body, row.answer, row.era)
  /\ \A a \in Attempts : att[a].step = "complete" => Ran(runs, att[a].body, att[a].answer, att[a].era)

KeyInv == KeyTypeOK /\ Exclusive /\ ErasInv /\ AnswersInv /\ RunsOnce /\ ReplaysAreFaithful

-------------------------------------------------------------------------------
(* The key: lemmas *)

LEMMA AppendFacts ==
  ASSUME NEW S, NEW q \in Seq(S), NEW x \in S
  PROVE  /\ Append(q, x) \in Seq(S)
         /\ DOMAIN Append(q, x) = DOMAIN q \cup {Len(q) + 1}
         /\ Len(q) + 1 \notin DOMAIN q
         /\ \A j \in DOMAIN q : Append(q, x)[j] = q[j]
         /\ Append(q, x)[Len(q) + 1] = x
  OBVIOUS

LEMMA AttemptType ==
  ASSUME KeyTypeOK, NEW a \in Attempts
  PROVE  /\ att[a] \in Attempt /\ att[a].step \in Steps /\ att[a].body \in Bodies
         /\ att[a].answer \in {NoAnswer} \cup Answers /\ att[a].era \in Nat
  BY DEF KeyTypeOK, Attempt

LEMMA IdleType ==
  ASSUME NEW body \in Bodies
  PROVE  IdleAttempt(body) \in Attempt
  BY DEF IdleAttempt, Attempt, Steps

LEMMA RowType ==
  ASSUME KeyTypeOK, row # NoRow
  PROVE  /\ row \in Row /\ row.body \in Bodies /\ row.answer \in {NoAnswer} \cup Answers
         /\ row.era \in Nat /\ row.old \in BOOLEAN
  BY DEF KeyTypeOK, Row

LEMMA RunType ==
  ASSUME KeyTypeOK, NEW j \in DOMAIN runs
  PROVE  runs[j] \in Run
  BY DEF KeyTypeOK

\* Another attempt is where it was.
LEMMA OthersStay ==
  ASSUME KeyTypeOK, NEW a \in Attempts, NEW x \in Attempt, att' = [att EXCEPT ![a] = x]
  PROVE  /\ att' \in [Attempts -> Attempt]
         /\ att'[a] = x
         /\ \A b \in Attempts : b # a => att'[b] = att[b]
  BY DEF KeyTypeOK

LEMMA InitKeyInv == KeyInit => KeyInv
<1>. SUFFICES ASSUME KeyInit PROVE KeyInv
  OBVIOUS
<1>1. PICK body \in Bodies : att = [a \in Attempts |-> IdleAttempt(body)]
  BY DEF KeyInit
<1>2. \A a \in Attempts : att[a] \in Attempt /\ att[a].step = "idle"
  BY <1>1, IdleType DEF IdleAttempt
<1>3. KeyTypeOK
  BY <1>1, <1>2 DEF KeyInit, KeyTypeOK
<1>4. Exclusive /\ AnswersInv
  BY <1>2 DEF KeyInit, Exclusive, AnswersInv, Running
<1>5. ErasInv /\ RunsOnce /\ ReplaysAreFaithful
  BY <1>2 DEF KeyInit, ErasInv, RunsOnce, ReplaysAreFaithful
<1>. QED BY <1>3, <1>4, <1>5 DEF KeyInv

\* A step of an attempt that is not running, before or after, and leaves the row.
LEMMA QuietStep ==
  ASSUME KeyInv, NEW a \in Attempts, NEW x \in Attempt, att' = [att EXCEPT ![a] = x],
         x.step \notin {"handle", "complete"}, started' \in Nat,
         UNCHANGED <<row, era, runs, replies>>
  PROVE  KeyInv'
<1>1. /\ att' \in [Attempts -> Attempt] /\ att'[a] = x
      /\ \A b \in Attempts : b # a => att'[b] = att[b]
  BY OthersStay DEF KeyInv
<1>2. KeyTypeOK'
  BY <1>1 DEF KeyInv, KeyTypeOK
<1>3. Exclusive'
  BY <1>1 DEF KeyInv, Exclusive, Running
<1>4. ErasInv'
  BY <1>1 DEF KeyInv, ErasInv
<1>5. AnswersInv'
  BY <1>1 DEF KeyInv, AnswersInv, Ran
<1>6. RunsOnce' /\ ReplaysAreFaithful'
  BY DEF KeyInv, RunsOnce, ReplaysAreFaithful
<1>. QED BY <1>2, <1>3, <1>4, <1>5, <1>6 DEF KeyInv

\* What is known of the runs stays known when the handler runs once more.
LEMMA RanStays ==
  ASSUME KeyInv, NEW x \in Run, runs' = Append(runs, x), NEW body, NEW answer, NEW e,
         Ran(runs, body, answer, e)
  PROVE  Ran(runs', body, answer, e)
  BY AppendFacts DEF KeyInv, KeyTypeOK, Ran

\* No attempt is running when the row is absent, or old.
LEMMA RunningHasRow ==
  ASSUME KeyInv, row = NoRow \/ row.old
  PROVE  \A a \in Attempts : ~Running(a)
  BY DEF KeyInv, Exclusive

\* A step that takes the row away, or lets it expire, while no attempt runs.
LEMMA RowGoes ==
  ASSUME KeyInv, \A a \in Attempts : ~Running(a), UNCHANGED <<started, era, runs, replies>>,
         row' = NoRow \/ (row # NoRow /\ row' = [row EXCEPT !.old = TRUE]),
         att' \in [Attempts -> Attempt], \A a \in Attempts : ~Running(a)'
  PROVE  KeyInv'
<1>1. row' # NoRow => /\ row # NoRow /\ row' \in Row
                      /\ row'.body = row.body /\ row'.answer = row.answer /\ row'.era = row.era
  BY RowType DEF KeyInv, Row
<1>2. KeyTypeOK'
  BY <1>1 DEF KeyInv, KeyTypeOK
<1>3. Exclusive'
  BY DEF Exclusive
<1>4. \A a \in Attempts : att'[a].step \notin {"handle", "complete"}
  BY DEF Running
<1>5. ErasInv'
  BY <1>1, <1>4 DEF KeyInv, ErasInv
<1>6. AnswersInv'
  BY <1>1, <1>4 DEF KeyInv, AnswersInv, Ran
<1>7. RunsOnce' /\ ReplaysAreFaithful'
  BY DEF KeyInv, RunsOnce, ReplaysAreFaithful
<1>. QED BY <1>2, <1>3, <1>5, <1>6, <1>7 DEF KeyInv

-------------------------------------------------------------------------------
(* The key: one lemma for each action *)

LEMMA SendInv ==
  ASSUME KeyInv, NEW a \in Attempts, NEW body \in Bodies, SendKey(a, body)
  PROVE  KeyInv'
<1>. DEFINE x == [IdleAttempt(body) EXCEPT !.step = "purge"]
<1>1. x \in Attempt /\ x.step = "purge"
  BY DEF IdleAttempt, Attempt, Steps
<1>2. started' \in Nat
  BY DEF SendKey, KeyInv, KeyTypeOK
<1>. QED BY <1>1, <1>2, QuietStep DEF SendKey

LEMMA ReturnInv ==
  ASSUME KeyInv, NEW a \in Attempts, EndAttempt(a), UNCHANGED <<row, started, era, runs, replies>>
  PROVE  KeyInv'
<1>. DEFINE x == IdleAttempt(att[a].body)
<1>1. x \in Attempt /\ x.step = "idle"
  BY AttemptType, IdleType DEF KeyInv, IdleAttempt
<1>. QED BY <1>1, QuietStep DEF EndAttempt, KeyInv, KeyTypeOK

LEMMA BeginPurgeInv ==
  ASSUME KeyInv, NEW a \in Attempts, BeginPurge(a)
  PROVE  KeyInv'
<1>. DEFINE x == [att[a] EXCEPT !.step = "insert"]
<1>1. x \in Attempt /\ x.step = "insert" /\ att' = [att EXCEPT ![a] = x]
  BY AttemptType DEF BeginPurge, KeyInv, KeyTypeOK, Attempt, Steps
<1>2. CASE row # NoRow /\ row.old
  <2>1. \A b \in Attempts : ~Running(b)
    BY <1>2, RunningHasRow
  <2>2. att' \in [Attempts -> Attempt] /\ \A b \in Attempts : ~Running(b)'
    BY <1>1, <2>1, OthersStay DEF KeyInv, Running
  <2>. QED BY <1>2, <2>1, <2>2, RowGoes DEF BeginPurge
<1>3. CASE ~(row # NoRow /\ row.old)
  BY <1>1, <1>3, QuietStep DEF BeginPurge, KeyInv, KeyTypeOK
<1>. QED BY <1>2, <1>3

LEMMA BeginInsertInv ==
  ASSUME KeyInv, NEW a \in Attempts, BeginInsert(a)
  PROVE  KeyInv'
<1>1. CASE row # NoRow
  <2>. DEFINE x == [att[a] EXCEPT !.step = "read"]
  <2>1. x \in Attempt /\ x.step = "read" /\ att' = [att EXCEPT ![a] = x]
    BY <1>1, AttemptType DEF BeginInsert, KeyInv, KeyTypeOK, Attempt, Steps
  <2>. QED BY <1>1, <2>1, QuietStep DEF BeginInsert, KeyInv, KeyTypeOK
<1>2. CASE row = NoRow
  <2>. DEFINE x == [att[a] EXCEPT !.step = "handle", !.era = era + 1]
              n == [body |-> att[a].body, answer |-> NoAnswer, era |-> era + 1, old |-> FALSE]
  <2>1. era' = era + 1 /\ era \in Nat /\ row' = n /\ att' = [att EXCEPT ![a] = x]
        /\ UNCHANGED <<started, runs, replies>>
    BY <1>2 DEF BeginInsert, KeyInv, KeyTypeOK
  <2>2. era + 1 \in Nat /\ att[a].body \in Bodies /\ att[a] \in Attempt
    BY <2>1, AttemptType DEF KeyInv
  <2>3. x \in Attempt /\ x.step = "handle" /\ x.body = att[a].body /\ x.era = era + 1
    <3>. DEFINE y == [att[a] EXCEPT !.step = "handle"]
    <3>1. y \in Attempt /\ y.step = "handle" /\ y.body = att[a].body
      BY <2>2 DEF Attempt, Steps
    <3>2. x = [y EXCEPT !.era = era + 1]
      OBVIOUS
    <3>. HIDE DEF x, y
    <3>. QED BY <2>2, <3>1, <3>2 DEF Attempt
  <2>4. n \in Row /\ n # NoRow
    <3>1. n \in Row
      BY <2>2 DEF Row
    <3>. QED BY <3>1, NoRowAssumption DEF Row
  <2>5. /\ att' \in [Attempts -> Attempt] /\ att'[a] = x
        /\ \A b \in Attempts : b # a => att'[b] = att[b]
    BY <2>1, <2>3, OthersStay DEF KeyInv
  <2>6. \A b \in Attempts : ~Running(b)
    BY <1>2, RunningHasRow
  <2>7. KeyTypeOK'
    BY <2>1, <2>4, <2>5 DEF KeyInv, KeyTypeOK, Row
  <2>8. Exclusive'
    BY <2>1, <2>3, <2>4, <2>5, <2>6 DEF Exclusive, Running
  <2>9. ErasInv'
    <3>1. \A j \in DOMAIN runs : runs[j].era \in Nat /\ runs[j].era <= era
      BY RunType DEF KeyInv, ErasInv, Run
    <3>2. \A b \in Attempts : b # a => att'[b].step # "handle"
      BY <2>5, <2>6 DEF Running
    <3>. QED BY <2>1, <2>3, <2>5, <3>1, <3>2 DEF ErasInv
  <2>10. AnswersInv'
    <3>1. row'.answer = NoAnswer
      BY <2>1
    <3>2. \A b \in Attempts : att'[b].step # "complete"
      BY <2>3, <2>5, <2>6 DEF Running
    <3>. QED BY <3>1, <3>2 DEF AnswersInv
  <2>11. RunsOnce' /\ ReplaysAreFaithful'
    BY <2>1 DEF KeyInv, RunsOnce, ReplaysAreFaithful
  <2>. QED BY <2>7, <2>8, <2>9, <2>10, <2>11 DEF KeyInv
<1>. QED BY <1>1, <1>2

LEMMA BeginReadInv ==
  ASSUME KeyInv, NEW a \in Attempts, BeginRead(a)
  PROVE  KeyInv'
<1>. DEFINE kind == Judge(row, att[a].body)
            r == [kind |-> kind, body |-> att[a].body,
                  answer |-> IF kind = "replay" THEN row.answer ELSE NoAnswer,
                  era |-> IF row = NoRow THEN 0 ELSE row.era]
            x == IdleAttempt(att[a].body)
<1>1. kind \in {"replay", "other_request", "in_progress", "missing"}
      /\ (kind = "replay" => row # NoRow /\ row.body = att[a].body /\ row.answer # NoAnswer)
  BY DEF Judge
<1>2. r \in Reply
  BY <1>1, RowType, AttemptType DEF KeyInv, Reply
<1>3. kind = "replay" => Ran(runs, r.body, r.answer, r.era)
  BY <1>1 DEF KeyInv, AnswersInv
<1>4. replies' = Append(replies, r) /\ att' = [att EXCEPT ![a] = x] /\ UNCHANGED <<row, started, era, runs>>
  BY DEF BeginRead, EndAttempt
<1>5. x \in Attempt /\ x.step = "idle"
  BY AttemptType, IdleType DEF KeyInv, IdleAttempt
<1>6. r.kind = kind
  OBVIOUS
<1>. HIDE DEF r, x, kind
<1>7. /\ att' \in [Attempts -> Attempt] /\ att'[a] = x
      /\ \A b \in Attempts : b # a => att'[b] = att[b]
  BY <1>4, <1>5, OthersStay DEF KeyInv
<1>8. KeyTypeOK'
  BY <1>2, <1>4, <1>7, AppendFacts DEF KeyInv, KeyTypeOK
<1>9. Exclusive' /\ ErasInv' /\ AnswersInv' /\ RunsOnce'
  <2>1. Exclusive'
    BY <1>4, <1>5, <1>7 DEF KeyInv, Exclusive, Running
  <2>2. ErasInv'
    BY <1>4, <1>5, <1>7 DEF KeyInv, ErasInv
  <2>3. AnswersInv'
    BY <1>4, <1>5, <1>7 DEF KeyInv, AnswersInv, Ran
  <2>. QED BY <1>4, <2>1, <2>2, <2>3 DEF KeyInv, RunsOnce
<1>10. ReplaysAreFaithful'
  <2>. SUFFICES ASSUME NEW k \in DOMAIN replies', replies'[k].kind = "replay"
                PROVE  Ran(runs, replies'[k].body, replies'[k].answer, replies'[k].era)
    BY <1>4 DEF ReplaysAreFaithful, Ran
  <2>1. replies \in Seq(Reply)
    BY DEF KeyInv, KeyTypeOK
  <2>2. CASE k \in DOMAIN replies
    <3>1. replies'[k] = replies[k]
      BY <1>2, <1>4, <2>1, <2>2, AppendFacts
    <3>. QED BY <2>2, <3>1 DEF KeyInv, ReplaysAreFaithful, Ran
  <2>3. CASE k \notin DOMAIN replies
    <3>1. replies'[k] = r
      BY <1>2, <1>4, <2>1, <2>3, AppendFacts
    <3>. QED BY <1>3, <1>6, <3>1
  <2>. QED BY <2>2, <2>3
<1>. QED BY <1>8, <1>9, <1>10 DEF KeyInv

LEMMA HandleInv ==
  ASSUME KeyInv, NEW a \in Attempts, NEW answer \in Answers, Handle(a, answer)
  PROVE  KeyInv'
<1>. DEFINE n == [body |-> att[a].body, answer |-> answer, era |-> att[a].era]
            x == [att[a] EXCEPT !.step = "complete", !.answer = answer]
<1>1. /\ runs' = Append(runs, n) /\ att' = [att EXCEPT ![a] = x] /\ att[a].step = "handle"
      /\ UNCHANGED <<row, started, era, replies>>
  BY DEF Handle, KeyInv, KeyTypeOK
<1>2. n \in Run /\ n.era = att[a].era /\ n.body = att[a].body /\ n.answer = answer
  BY AttemptType DEF KeyInv, Run
<1>3. /\ x \in Attempt /\ x.step = "complete" /\ x.answer = answer
      /\ x.body = att[a].body /\ x.era = att[a].era
  <2>. DEFINE y == [att[a] EXCEPT !.step = "complete"]
  <2>1. y \in Attempt /\ y.step = "complete" /\ y.body = att[a].body /\ y.era = att[a].era
    BY AttemptType DEF KeyInv, Attempt, Steps
  <2>2. x = [y EXCEPT !.answer = answer]
    OBVIOUS
  <2>. HIDE DEF x, y
  <2>. QED BY <2>1, <2>2 DEF Attempt
<1>. HIDE DEF n, x
<1>4. /\ att' \in [Attempts -> Attempt] /\ att'[a] = x
      /\ \A b \in Attempts : b # a => att'[b] = att[b]
  BY <1>1, <1>3, OthersStay DEF KeyInv
<1>5. /\ runs \in Seq(Run) /\ runs' \in Seq(Run)
      /\ DOMAIN runs' = DOMAIN runs \cup {Len(runs) + 1}
      /\ \A j \in DOMAIN runs : runs'[j] = runs[j]
      /\ runs'[Len(runs) + 1] = n
  BY <1>1, <1>2, AppendFacts DEF KeyInv, KeyTypeOK
<1>6. Ran(runs', n.body, n.answer, n.era)
  BY <1>5 DEF Ran
<1>7. \A j \in DOMAIN runs : runs[j].era # n.era
  BY <1>1, <1>2 DEF KeyInv, ErasInv
<1>8. \A b \in Attempts : b # a => att'[b].step \notin {"handle", "complete"}
  BY <1>1, <1>4 DEF KeyInv, Exclusive, Running
<1>9. KeyTypeOK'
  BY <1>1, <1>4, <1>5 DEF KeyInv, KeyTypeOK
<1>10. Exclusive'
  BY <1>1, <1>3, <1>4, <1>8 DEF KeyInv, Exclusive, Running
<1>11. ErasInv'
  <2>1. n.era <= era
    <3>1. row # NoRow /\ row.era = att[a].era /\ row.era <= era
      BY <1>1 DEF KeyInv, Exclusive, ErasInv, Running
    <3>. QED BY <1>2, <3>1
  <2>2. \A j \in DOMAIN runs' : runs'[j].era <= era'
    BY <1>1, <1>5, <2>1 DEF KeyInv, ErasInv
  <2>3. \A b \in Attempts : att'[b].step # "handle"
    BY <1>3, <1>4, <1>8
  <2>. QED BY <1>1, <2>2, <2>3 DEF KeyInv, ErasInv
<1>12. AnswersInv'
  <2>1. row' # NoRow /\ row'.answer # NoAnswer => Ran(runs', row'.body, row'.answer, row'.era)
    BY <1>1, <1>2, RanStays DEF KeyInv, AnswersInv
  <2>2. \A b \in Attempts : att'[b].step = "complete" => Ran(runs', att'[b].body, att'[b].answer, att'[b].era)
    BY <1>2, <1>3, <1>4, <1>6, <1>8
  <2>. QED BY <2>1, <2>2 DEF AnswersInv, Ran
<1>13. RunsOnce'
  BY <1>5, <1>7 DEF KeyInv, RunsOnce
<1>14. ReplaysAreFaithful'
  <2>. SUFFICES ASSUME NEW k \in DOMAIN replies, replies[k].kind = "replay"
                PROVE  Ran(runs', replies[k].body, replies[k].answer, replies[k].era)
    BY <1>1 DEF ReplaysAreFaithful, Ran
  <2>1. Ran(runs, replies[k].body, replies[k].answer, replies[k].era)
    BY DEF KeyInv, ReplaysAreFaithful, Ran
  <2>. QED BY <1>1, <1>5, <2>1 DEF Ran
<1>. QED BY <1>9, <1>10, <1>11, <1>12, <1>13, <1>14 DEF KeyInv

LEMMA CompleteInv ==
  ASSUME KeyInv, NEW a \in Attempts, Complete(a)
  PROVE  KeyInv'
<1>. DEFINE x == IdleAttempt(att[a].body)
            n == [row EXCEPT !.answer = att[a].answer]
<1>1. /\ att[a].step = "complete" /\ att' = [att EXCEPT ![a] = x]
      /\ UNCHANGED <<started, era, runs, replies>>
  BY DEF Complete, EndAttempt
<1>2. row # NoRow /\ row.body = att[a].body /\ row.era = att[a].era
      /\ Ran(runs, att[a].body, att[a].answer, att[a].era)
  BY <1>1 DEF KeyInv, Exclusive, AnswersInv, Running
<1>3. row' = n
  BY <1>2 DEF Complete
<1>4. /\ n \in Row /\ n.body = row.body /\ n.era = row.era /\ n.answer = att[a].answer
  BY <1>2, RowType, AttemptType DEF KeyInv, Row
<1>5. x \in Attempt /\ x.step = "idle"
  BY AttemptType, IdleType DEF KeyInv, IdleAttempt
<1>. HIDE DEF x, n
<1>6. /\ att' \in [Attempts -> Attempt] /\ att'[a] = x
      /\ \A b \in Attempts : b # a => att'[b] = att[b]
  BY <1>1, <1>5, OthersStay DEF KeyInv
<1>7. \A b \in Attempts : att'[b].step \notin {"handle", "complete"}
  BY <1>1, <1>5, <1>6 DEF KeyInv, Exclusive, Running
<1>8. KeyTypeOK'
  BY <1>1, <1>3, <1>4, <1>6 DEF KeyInv, KeyTypeOK
<1>9. Exclusive'
  BY <1>7 DEF Exclusive, Running
<1>10. ErasInv'
  BY <1>1, <1>2, <1>3, <1>4, <1>7 DEF KeyInv, ErasInv
<1>11. AnswersInv'
  BY <1>1, <1>2, <1>3, <1>4, <1>7 DEF AnswersInv, Ran
<1>12. RunsOnce' /\ ReplaysAreFaithful'
  BY <1>1 DEF KeyInv, RunsOnce, ReplaysAreFaithful
<1>. QED BY <1>8, <1>9, <1>10, <1>11, <1>12 DEF KeyInv

LEMMA ExpiryInv ==
  ASSUME KeyInv, Expire \/ PurgeLedgers
  PROVE  KeyInv'
<1>1. \A a \in Attempts : ~Running(a)
  BY RunningHasRow DEF Expire, PurgeLedgers
<1>2. att' \in [Attempts -> Attempt] /\ \A a \in Attempts : ~Running(a)'
  BY <1>1 DEF Expire, PurgeLedgers, KeyInv, KeyTypeOK, Running
<1>. QED BY <1>1, <1>2, RowGoes DEF Expire, PurgeLedgers

LEMMA NextKeyInv == KeyInv /\ [KeyNext]_keyVars => KeyInv'
<1>. SUFFICES ASSUME KeyInv, [KeyNext]_keyVars PROVE KeyInv'
  OBVIOUS
<1>1. ASSUME NEW a \in Attempts, Lose(a) PROVE KeyInv'
  BY <1>1, ReturnInv DEF Lose
<1>2. CASE UNCHANGED keyVars
  BY <1>2 DEF keyVars, KeyInv, KeyTypeOK, Exclusive, ErasInv, AnswersInv, RunsOnce, ReplaysAreFaithful, Running, Ran
<1>. QED
  BY <1>1, <1>2, SendInv, BeginPurgeInv, BeginInsertInv, BeginReadInv, HandleInv, CompleteInv, ExpiryInv
  DEF KeyNext

-------------------------------------------------------------------------------
(* The key: theorems *)

THEOREM KeyInvariance == KeySpec => []KeyInv
  BY InitKeyInv, NextKeyInv, PTL DEF KeySpec

\* The rows, attempts, runs and replies have their types.
THEOREM KeyTypeCorrect == KeySpec => []KeyTypeOK
<1>1. KeyInv => KeyTypeOK
  BY DEF KeyInv
<1>. QED BY <1>1, KeyInvariance, PTL

\* However attempts with the same key overlap, fail and come again, at most one runs
\* the handler in each life of the key.
THEOREM HandlerRunsOnce == KeySpec => []RunsOnce
<1>1. KeyInv => RunsOnce
  BY DEF KeyInv
<1>. QED BY <1>1, KeyInvariance, PTL

\* Whoever is answered from the row of the key is answered what the handler answered to
\* this very request, in this life of the key.
THEOREM ReplaysFaithful == KeySpec => []ReplaysAreFaithful
<1>1. KeyInv => ReplaysAreFaithful
  BY DEF KeyInv
<1>. QED BY <1>1, KeyInvariance, PTL

-------------------------------------------------------------------------------
(* The events of reports: the inductive invariant *)

Types ==
  /\ now \in Nat
  /\ ledger \in [Events -> Nat \cup {None}] /\ first \in [Events -> Nat \cup {None}]
  /\ answered \subseteq Events
  /\ req \in [Requests -> [step: {"idle", "insert", "apply"}, batch: {<<>>} \cup Batches, at: Nat,
                           left: Seq(Events), new: Seq(Events)]]

\* A request: what it has yet to look at, and what it holds, is of its batch; an event
\* of its batch that is neither was stored before; its batch is not too old.
ReqInv(q, stored, clock) ==
  /\ Range(q.left) \subseteq Range(q.batch) /\ Range(q.new) \subseteq Range(q.batch)
  /\ q.step = "idle" => q.batch = <<>>
  /\ q.step = "apply" => q.left # <<>> /\ Head(q.left) \in Range(q.new)
  /\ \A e \in Range(q.batch) : e \in Range(q.left) \cup Range(q.new) \/ stored[e] # None
  /\ q.at <= clock /\ \A e \in Range(q.batch) : q.at - OccurredAt[e] <= Window

ReqsInv == \A r \in Requests : ReqInv(req[r], first, now)

\* An event is held by one transaction at most, and then the ledger does not have it.
HeldInv ==
  \A r \in Requests : \A e \in Range(req[r].new) :
    ledger[e] = None /\ \A s \in Requests : e \in Range(req[s].new) => s = r

\* What was stored is in the ledger until it is older than the window.
LedgerInv ==
  \A e \in Events :
    /\ ledger[e] # None => first[e] # None
    /\ first[e] # None => \/ ledger[e] # None /\ first[e] <= ledger[e]
                          \/ first[e] < now - Window

IInv == Types /\ ReqsInv /\ HeldInv /\ LedgerInv /\ AnsweredIsStored

-------------------------------------------------------------------------------
(* Lemmas *)

LEMMA EmptySet == Range(<<>>) = {}
  BY DEF Range

LEMMA AppendSet ==
  ASSUME NEW s \in Seq(Events), NEW e \in Events
  PROVE  Append(s, e) \in Seq(Events) /\ Range(Append(s, e)) = Range(s) \cup {e}
<1>1. /\ Append(s, e) \in Seq(Events) /\ DOMAIN Append(s, e) = DOMAIN s \cup {Len(s) + 1}
      /\ \A i \in DOMAIN s : Append(s, e)[i] = s[i]
      /\ Append(s, e)[Len(s) + 1] = e /\ Len(s) + 1 \notin DOMAIN s
  OBVIOUS
<1>. QED BY <1>1 DEF Range

LEMMA TailSet ==
  ASSUME NEW s \in Seq(Events), s # <<>>
  PROVE  /\ Head(s) \in Events /\ Tail(s) \in Seq(Events)
         /\ Range(s) = {Head(s)} \cup Range(Tail(s))
<1>1. /\ Head(s) \in Events /\ Tail(s) \in Seq(Events) /\ Head(s) = s[1]
      /\ Len(s) \in Nat /\ Len(s) > 0 /\ DOMAIN s = 1 .. Len(s) /\ DOMAIN Tail(s) = 1 .. (Len(s) - 1)
      /\ \A i \in 1 .. (Len(s) - 1) : Tail(s)[i] = s[i + 1]
  OBVIOUS
<1>2. ASSUME NEW e \in Range(s)
      PROVE  e = Head(s) \/ e \in Range(Tail(s))
  <2>1. PICK i \in 1 .. Len(s) : s[i] = e
    BY <1>1 DEF Range
  <2>2. CASE i = 1
    BY <1>1, <2>1, <2>2
  <2>3. CASE i # 1
    <3>1. i - 1 \in 1 .. (Len(s) - 1) /\ Tail(s)[i - 1] = e
      BY <1>1, <2>1, <2>3
    <3>. QED BY <1>1, <3>1 DEF Range
  <2>. QED BY <2>2, <2>3
<1>3. ASSUME NEW e \in {Head(s)} \cup Range(Tail(s))
      PROVE  e \in Range(s)
  <2>1. CASE e = Head(s)
    BY <1>1, <2>1 DEF Range
  <2>2. CASE e \in Range(Tail(s))
    <3>1. PICK i \in 1 .. (Len(s) - 1) : Tail(s)[i] = e
      BY <1>1, <2>2 DEF Range
    <3>2. i + 1 \in 1 .. Len(s) /\ s[i + 1] = e
      BY <1>1, <3>1
    <3>. QED BY <1>1, <3>2 DEF Range
  <2>. QED BY <2>1, <2>2
<1>. QED BY <1>1, <1>2, <1>3

LEMMA EventsOf ==
  ASSUME NEW s \in Seq(Events)
  PROVE  Range(s) \subseteq Events
  BY DEF Range

-------------------------------------------------------------------------------
(* The steps *)

Slot == [step: {"idle", "insert", "apply"}, batch: {<<>>} \cup Batches, at: Nat, left: Seq(Events), new: Seq(Events)]

LEMMA SlotType ==
  ASSUME IInv, NEW r \in Requests
  PROVE  /\ req[r] \in Slot /\ ReqInv(req[r], first, now)
         /\ req[r].step \in {"idle", "insert", "apply"} /\ req[r].batch \in {<<>>} \cup Batches
         /\ req[r].at \in Nat /\ req[r].left \in Seq(Events) /\ req[r].new \in Seq(Events)
         /\ Range(req[r].left) \subseteq Events /\ Range(req[r].new) \subseteq Events
  BY EventsOf DEF IInv, Types, Slot, ReqsInv

\* A statement of one request, which goes on as q.
LEMMA StepKeeps ==
  ASSUME IInv, NEW r \in Requests, NEW q \in Slot, req' = [req EXCEPT ![r] = q],
         UNCHANGED <<now, ledger, first, answered>>, ReqInv(q, first, now),
         \A e \in Range(q.new) :
           ledger[e] = None /\ \A s \in Requests \ {r} : e \notin Range(req[s].new)
  PROVE  IInv'
<1>1. req \in [Requests -> Slot]
  BY DEF IInv, Types, Slot
<1>2. req' \in [Requests -> Slot] /\ req'[r] = q /\ \A s \in Requests \ {r} : req'[s] = req[s]
  BY <1>1
<1>3. Types'
  BY <1>2 DEF IInv, Types, Slot
<1>4. ReqsInv'
  BY <1>2 DEF IInv, ReqsInv
<1>5. HeldInv'
  <2>. SUFFICES ASSUME NEW s \in Requests, NEW e \in Range(req'[s].new)
                PROVE  ledger[e] = None /\ \A t \in Requests : e \in Range(req'[t].new) => t = s
    BY DEF HeldInv
  <2>1. CASE s = r
    BY <1>2, <2>1
  <2>2. CASE s # r
    BY <1>2, <2>2 DEF IInv, HeldInv
  <2>. QED BY <2>1, <2>2
<1>6. LedgerInv' /\ AnsweredIsStored'
  BY DEF IInv, LedgerInv, AnsweredIsStored
<1>. QED BY <1>3, <1>4, <1>5, <1>6 DEF IInv

LEMMA IdleSlot ==
  ASSUME NEW clock \in Nat, NEW stored
  PROVE  IdleRequest \in Slot /\ ReqInv(IdleRequest, stored, clock) /\ Range(IdleRequest.new) = {}
  BY EmptySet DEF IdleRequest, Slot, ReqInv

LEMMA SendKeeps ==
  ASSUME IInv, NEW r \in Requests, NEW batch \in Batches, Send(r, batch)
  PROVE  IInv'
<1>. DEFINE q == [step |-> "insert", batch |-> batch, at |-> now, left |-> batch, new |-> <<>>]
<1>1. /\ req' = [req EXCEPT ![r] = q] /\ UNCHANGED <<now, ledger, first, answered>>
      /\ \A i \in DOMAIN batch : now - OccurredAt[batch[i]] <= Window
  BY DEF Send, InWindow
<1>2. batch \in Seq(Events) /\ now \in Nat
  BY BatchesAssumption DEF IInv, Types
<1>3. q \in Slot
  BY <1>2 DEF Slot
<1>4. \A e \in Range(batch) : now - OccurredAt[e] <= Window
  BY <1>1 DEF Range
<1>5. ReqInv(q, first, now) /\ Range(q.new) = {}
  BY <1>2, <1>4, EmptySet DEF ReqInv
<1>. QED BY <1>1, <1>3, <1>5, StepKeeps

LEMMA InsertKeeps ==
  ASSUME IInv, NEW r \in Requests, Insert(r)
  PROVE  IInv'
<1>. DEFINE e == Head(req[r].left)
<1>1. /\ req[r].step = "insert" /\ req[r].left # <<>> /\ \A s \in Requests : ~Waits(r, s)
      /\ UNCHANGED <<now, ledger, first, answered>>
  BY DEF Insert, Proceeds
<1>2. /\ req[r] \in Slot /\ ReqInv(req[r], first, now)
      /\ req[r].left \in Seq(Events) /\ req[r].new \in Seq(Events)
  BY SlotType
<1>3. /\ e \in Events /\ Tail(req[r].left) \in Seq(Events)
      /\ Range(req[r].left) = {e} \cup Range(Tail(req[r].left))
  BY <1>1, <1>2, TailSet
<1>4. \A x \in Range(req[r].new) :
        ledger[x] = None /\ \A s \in Requests \ {r} : x \notin Range(req[s].new)
  BY DEF IInv, HeldInv
<1>5. CASE ledger[e] # None \/ HoldsEvent(r, e)
  <2>. DEFINE q == [req[r] EXCEPT !.left = Tail(@)]
  <2>1. req' = [req EXCEPT ![r] = q]
    BY <1>5 DEF Insert, IInv, Types
  <2>2. /\ q \in Slot /\ q.step = "insert" /\ q.batch = req[r].batch /\ q.at = req[r].at
        /\ q.left = Tail(req[r].left) /\ q.new = req[r].new
    BY <1>1, <1>2, <1>3 DEF Slot
  <2>. HIDE DEF q
  <2>3. first[e] # None \/ e \in Range(req[r].new)
    BY <1>3, <1>5 DEF IInv, LedgerInv, HoldsEvent
  <2>4. ReqInv(q, first, now)
    BY <1>2, <1>3, <2>2, <2>3 DEF ReqInv
  <2>. QED BY <1>1, <1>4, <2>1, <2>2, <2>4, StepKeeps
<1>6. CASE ledger[e] = None /\ ~HoldsEvent(r, e)
  <2>. DEFINE p == [req[r] EXCEPT !.step = "apply"]
              n == Append(req[r].new, e)
              q == [p EXCEPT !.new = n]
  <2>1. req' = [req EXCEPT ![r] = q]
    BY <1>6 DEF Insert, IInv, Types
  <2>2. /\ p \in Slot /\ p.step = "apply" /\ p.batch = req[r].batch /\ p.at = req[r].at
        /\ p.left = req[r].left
    BY <1>2 DEF Slot
  <2>3. n \in Seq(Events) /\ Range(n) = Range(req[r].new) \cup {e}
    BY <1>2, <1>3, AppendSet
  <2>. HIDE DEF p, n
  <2>4. /\ q \in Slot /\ q.step = "apply" /\ q.batch = req[r].batch /\ q.at = req[r].at
        /\ q.left = req[r].left /\ q.new = n
    BY <2>2, <2>3 DEF Slot
  <2>. HIDE DEF q
  <2>5. ReqInv(q, first, now)
    BY <1>1, <1>2, <1>3, <2>3, <2>4 DEF ReqInv
  <2>6. \A s \in Requests \ {r} : e \notin Range(req[s].new)
    BY <1>1 DEF Waits, HoldsEvent
  <2>. QED BY <1>1, <1>4, <1>6, <2>1, <2>3, <2>4, <2>5, <2>6, StepKeeps
<1>. QED BY <1>5, <1>6

LEMMA ApplyKeeps ==
  ASSUME IInv, NEW r \in Requests, Apply(r)
  PROVE  IInv'
<1>. DEFINE p == [req[r] EXCEPT !.step = "insert"]
            q == [p EXCEPT !.left = Tail(req[r].left)]
<1>1. req[r].step = "apply" /\ UNCHANGED <<now, ledger, first, answered>>
  BY DEF Apply
<1>2. req[r] \in Slot /\ ReqInv(req[r], first, now) /\ req[r].left \in Seq(Events)
  BY SlotType
<1>3. req[r].left # <<>> /\ Head(req[r].left) \in Range(req[r].new)
  BY <1>1, <1>2 DEF ReqInv
<1>4. /\ Tail(req[r].left) \in Seq(Events)
      /\ Range(req[r].left) = {Head(req[r].left)} \cup Range(Tail(req[r].left))
  BY <1>2, <1>3, TailSet
<1>5. req' = [req EXCEPT ![r] = q]
  BY DEF Apply, IInv, Types
<1>6. /\ p \in Slot /\ p.step = "insert" /\ p.batch = req[r].batch /\ p.at = req[r].at
      /\ p.new = req[r].new
  BY <1>2 DEF Slot
<1>. HIDE DEF p
<1>7. /\ q \in Slot /\ q.step = "insert" /\ q.batch = req[r].batch /\ q.at = req[r].at
      /\ q.left = Tail(req[r].left) /\ q.new = req[r].new
  BY <1>4, <1>6 DEF Slot
<1>. HIDE DEF q
<1>8. ReqInv(q, first, now)
  BY <1>2, <1>3, <1>4, <1>7 DEF ReqInv
<1>9. \A e \in Range(q.new) : ledger[e] = None /\ \A s \in Requests \ {r} : e \notin Range(req[s].new)
  BY <1>7 DEF IInv, HeldInv
<1>. QED BY <1>1, <1>5, <1>7, <1>8, <1>9, StepKeeps

\* The transaction becomes visible.
LEMMA CommitKeeps ==
  ASSUME IInv, NEW r \in Requests, Commit(r)
  PROVE  IInv'
<1>. DEFINE N == Range(req[r].new)
            at == req[r].at
<1>1. /\ req[r].left = <<>> /\ req[r].step = "insert"
      /\ ledger' = [e \in Events |-> IF e \in N THEN at ELSE ledger[e]]
      /\ first' = [e \in Events |-> IF e \in N /\ first[e] = None THEN at ELSE first[e]]
      /\ answered' = answered \cup Range(req[r].batch)
      /\ req' = [req EXCEPT ![r] = IdleRequest] /\ now' = now
  BY DEF Commit, Return
<1>2. /\ N \subseteq Events /\ at \in Nat /\ ReqInv(req[r], first, now) /\ now \in Nat
  BY SlotType DEF IInv, Types
<1>3. None \notin Nat /\ Window \in Nat
  BY TimeAssumption
<1>. HIDE DEF at
<1>4. /\ \A e \in Events : ledger'[e] = IF e \in N THEN at ELSE ledger[e]
      /\ \A e \in Events : first'[e] = IF e \in N /\ first[e] = None THEN at ELSE first[e]
      /\ ledger' \in [Events -> Nat \cup {None}] /\ first' \in [Events -> Nat \cup {None}]
  BY <1>1, <1>2 DEF IInv, Types
<1>5. \A e \in Events : first[e] # None \/ e \in N => first'[e] # None
  BY <1>2, <1>3, <1>4
<1>6. Range(req[r].batch) \subseteq Events
  <2>1. req[r].batch \in {<<>>} \cup Batches
    BY SlotType
  <2>. QED BY <2>1, BatchesAssumption, EventsOf, EmptySet
<1>7. AnsweredIsStored'
  <2>1. \A e \in Range(req[r].batch) : e \in N \/ first[e] # None
    BY <1>1, <1>2, EmptySet DEF ReqInv
  <2>. QED BY <1>1, <1>5, <1>6, <2>1 DEF IInv, AnsweredIsStored, Types
<1>8. /\ req' \in [Requests -> Slot] /\ req'[r] = IdleRequest
      /\ \A s \in Requests \ {r} : req'[s] = req[s]
  BY <1>1, <1>2, IdleSlot DEF IInv, Types, Slot
<1>9. Types'
  BY <1>1, <1>4, <1>6, <1>8 DEF IInv, Types, Slot
<1>10. ReqsInv'
  <2>. SUFFICES ASSUME NEW s \in Requests \ {r} PROVE ReqInv(req[s], first', now)
    BY <1>1, <1>2, <1>8, IdleSlot DEF ReqsInv
  <2>1. ReqInv(req[s], first, now) /\ Range(req[s].batch) \subseteq Events
    <3>1. req[s].batch \in {<<>>} \cup Batches
      BY SlotType
    <3>. QED BY <3>1, SlotType, BatchesAssumption, EventsOf, EmptySet
  <2>. QED BY <1>5, <2>1 DEF ReqInv
<1>11. HeldInv'
  <2>. SUFFICES ASSUME NEW s \in Requests, NEW e \in Range(req'[s].new)
                PROVE  ledger'[e] = None /\ \A t \in Requests : e \in Range(req'[t].new) => t = s
    BY DEF HeldInv
  <2>1. s # r /\ e \in Range(req[s].new)
    BY <1>2, <1>8, IdleSlot
  <2>2. e \in Events /\ ledger[e] = None /\ \A t \in Requests : e \in Range(req[t].new) => t = s
    BY <2>1, SlotType DEF IInv, HeldInv
  <2>3. e \notin N
    BY <2>1, <2>2
  <2>. QED BY <1>2, <1>4, <1>8, <2>2, <2>3, IdleSlot
<1>12. LedgerInv'
  <2>. SUFFICES ASSUME NEW e \in Events
                PROVE  /\ ledger'[e] # None => first'[e] # None
                       /\ first'[e] # None => \/ ledger'[e] # None /\ first'[e] <= ledger'[e]
                                              \/ first'[e] < now - Window
    BY <1>1 DEF LedgerInv
  <2>1. /\ ledger[e] # None => first[e] # None
        /\ first[e] # None => \/ ledger[e] # None /\ first[e] <= ledger[e]
                              \/ first[e] < now - Window
    BY DEF IInv, LedgerInv
  <2>2. CASE e \in N
    <3>1. ledger[e] = None /\ ledger'[e] = at
      BY <1>4, <2>2 DEF IInv, HeldInv
    <3>2. first'[e] = IF first[e] = None THEN at ELSE first[e]
      BY <1>4, <2>2
    <3>. QED BY <1>2, <1>3, <2>1, <3>1, <3>2
  <2>3. CASE e \notin N
    BY <1>4, <2>1, <2>3
  <2>. QED BY <2>2, <2>3
<1>. QED BY <1>7, <1>9, <1>10, <1>11, <1>12 DEF IInv

LEMMA AbortKeeps ==
  ASSUME IInv, NEW r \in Requests, Abort(r)
  PROVE  IInv'
<1>1. req' = [req EXCEPT ![r] = IdleRequest] /\ UNCHANGED <<now, ledger, first, answered>>
  BY DEF Abort, Return
<1>2. IdleRequest \in Slot /\ ReqInv(IdleRequest, first, now) /\ Range(IdleRequest.new) = {}
  BY IdleSlot DEF IInv, Types
<1>. QED BY <1>1, <1>2, StepKeeps

\* What the ledger forgets is older than the window.
LEMMA PurgeKeeps ==
  ASSUME IInv, Purge
  PROVE  IInv'
<1>1. /\ ledger' = [e \in Events |-> IF ledger[e] # None /\ ledger[e] < now - Window THEN None ELSE ledger[e]]
      /\ UNCHANGED <<now, req, first, answered>>
  BY DEF Purge
<1>2. \A e \in Events : ledger'[e] = IF ledger[e] # None /\ ledger[e] < now - Window THEN None ELSE ledger[e]
  BY <1>1
<1>3. None \notin Nat /\ Window \in Nat /\ now \in Nat
  BY TimeAssumption DEF IInv, Types
<1>4. Types'
  BY <1>1 DEF IInv, Types
<1>5. ReqsInv'
  BY <1>1 DEF IInv, ReqsInv
<1>6. HeldInv'
  <2>. SUFFICES ASSUME NEW r \in Requests, NEW e \in Range(req[r].new)
                PROVE  ledger'[e] = None /\ \A s \in Requests : e \in Range(req[s].new) => s = r
    BY <1>1 DEF HeldInv
  <2>1. e \in Events
    BY SlotType
  <2>. QED BY <1>2, <2>1 DEF IInv, HeldInv
<1>7. LedgerInv'
  <2>. SUFFICES ASSUME NEW e \in Events
                PROVE  /\ ledger'[e] # None => first[e] # None
                       /\ first[e] # None => \/ ledger'[e] # None /\ first[e] <= ledger'[e]
                                             \/ first[e] < now - Window
    BY <1>1 DEF LedgerInv
  <2>1. /\ ledger[e] # None => first[e] # None
        /\ first[e] # None => \/ ledger[e] # None /\ first[e] <= ledger[e]
                              \/ first[e] < now - Window
    BY DEF IInv, LedgerInv
  <2>2. ledger[e] \in Nat \cup {None} /\ first[e] \in Nat \cup {None}
    BY DEF IInv, Types
  <2>3. CASE ledger[e] # None /\ ledger[e] < now - Window
    BY <1>2, <1>3, <2>1, <2>2, <2>3
  <2>4. CASE ~(ledger[e] # None /\ ledger[e] < now - Window)
    BY <1>2, <2>1, <2>4
  <2>. QED BY <2>3, <2>4
<1>8. AnsweredIsStored'
  BY <1>1 DEF IInv, AnsweredIsStored
<1>. QED BY <1>4, <1>5, <1>6, <1>7, <1>8 DEF IInv

LEMMA TickKeeps ==
  ASSUME IInv, Tick
  PROVE  IInv'
<1>1. now' = now + 1 /\ UNCHANGED <<ledger, req, first, answered>>
  BY DEF Tick
<1>2. None \notin Nat /\ Window \in Nat /\ now \in Nat
  BY TimeAssumption DEF IInv, Types
<1>3. Types'
  BY <1>1, <1>2 DEF IInv, Types
<1>4. ReqsInv'
  <2>. SUFFICES ASSUME NEW r \in Requests PROVE ReqInv(req[r], first, now + 1)
    BY <1>1 DEF ReqsInv
  <2>1. ReqInv(req[r], first, now) /\ req[r].at \in Nat
    BY SlotType
  <2>2. req[r].at <= now => req[r].at <= now + 1
    BY <1>2, <2>1
  <2>. QED BY <2>1, <2>2 DEF ReqInv
<1>5. HeldInv'
  BY <1>1 DEF IInv, HeldInv
<1>6. LedgerInv'
  <2>. SUFFICES ASSUME NEW e \in Events, first[e] # None
                PROVE  \/ ledger[e] # None /\ first[e] <= ledger[e]
                       \/ first[e] < now' - Window
    BY <1>1 DEF IInv, LedgerInv
  <2>1. first[e] \in Nat /\ now' = now + 1
    BY <1>1 DEF IInv, Types
  <2>2. first[e] < now - Window => first[e] < now' - Window
    BY <1>2, <2>1
  <2>. QED BY <2>2 DEF IInv, LedgerInv
<1>7. AnsweredIsStored'
  BY <1>1 DEF IInv, AnsweredIsStored
<1>. QED BY <1>3, <1>4, <1>5, <1>6, <1>7 DEF IInv

-------------------------------------------------------------------------------
(* The theorems *)

LEMMA InitIInv == Init => IInv
<1>. SUFFICES ASSUME Init PROVE IInv
  OBVIOUS
<1>1. IdleRequest \in Slot /\ ReqInv(IdleRequest, first, now) /\ Range(IdleRequest.new) = {} /\ now \in Nat
  BY IdleSlot DEF Init
<1>2. \A r \in Requests : req[r] = IdleRequest
  BY DEF Init
<1>3. Types
  BY <1>1 DEF Init, Types, Slot
<1>4. ReqsInv /\ HeldInv
  BY <1>1, <1>2 DEF ReqsInv, HeldInv
<1>5. LedgerInv /\ AnsweredIsStored
  BY DEF Init, LedgerInv, AnsweredIsStored
<1>. QED BY <1>3, <1>4, <1>5 DEF IInv

LEMMA NextIInv == IInv /\ [Next]_vars => IInv'
<1>. SUFFICES ASSUME IInv, [Next]_vars PROVE IInv'
  OBVIOUS
<1>1. ASSUME NEW r \in Requests, NEW batch \in Batches, Send(r, batch)
      PROVE  IInv'
  BY <1>1, SendKeeps
<1>2. ASSUME NEW r \in Requests, Insert(r)
      PROVE  IInv'
  BY <1>2, InsertKeeps
<1>3. ASSUME NEW r \in Requests, Apply(r)
      PROVE  IInv'
  BY <1>3, ApplyKeeps
<1>4. ASSUME NEW r \in Requests, Commit(r)
      PROVE  IInv'
  BY <1>4, CommitKeeps
<1>5. ASSUME NEW r \in Requests, Abort(r)
      PROVE  IInv'
  BY <1>5, AbortKeeps
<1>6. CASE Purge
  BY <1>6, PurgeKeeps
<1>7. CASE Tick
  BY <1>7, TickKeeps
<1>8. CASE UNCHANGED vars
  BY <1>8 DEF vars, IInv, Types, ReqsInv, HeldInv, LedgerInv, AnsweredIsStored
<1>. QED BY <1>1, <1>2, <1>3, <1>4, <1>5, <1>6, <1>7, <1>8 DEF Next

LEMMA IInvAlways == Spec => []IInv
  BY InitIInv, NextIInv, PTL DEF Spec

\* A commit that stores an event once more: the ledger had forgotten it, so its first
\* arrival is older than the window, and than the event itself if no time has passed.
LEMMA CommitCounts ==
  ASSUME IInv, NEW r \in Requests, NEW e \in Events, HoldsEvent(r, e), first[e] # None
  PROVE  first[e] < OccurredAt[e] \/ req[r].at < now
<1>1. e \in Range(req[r].new) /\ ReqInv(req[r], first, now) /\ req[r].at \in Nat
  BY SlotType DEF HoldsEvent
<1>2. first[e] < now - Window
  BY <1>1 DEF IInv, HeldInv, LedgerInv
<1>3. req[r].at <= now /\ req[r].at - OccurredAt[e] <= Window
  BY <1>1 DEF ReqInv
<1>4. now \in Nat /\ Window \in Nat /\ first[e] \in Nat /\ OccurredAt[e] \in Nat
  BY TimeAssumption, EventsAssumption DEF IInv, Types
<1>. QED BY <1>1, <1>2, <1>3, <1>4

\* When a batch is answered its events are stored, those too that this transaction skipped
\* because another had them in hand: the client may forget the batch (Service.Ingest).
THEOREM AnsweredStays == Spec => []AnsweredIsStored
<1>1. IInv => AnsweredIsStored
  BY DEF IInv
<1>. QED BY <1>1, IInvAlways, PTL

\* However often an event is sent, and by however many requests at once, it is stored a
\* second time only when its client had dated it after its first arrival, or when the
\* ledger was purged after the request had judged its age (Ingest and PurgeLedgers).
THEOREM CountsOnce == Spec => CountedOnce
<1>1. IInv => \A r \in Requests, e \in Events :
        (HoldsEvent(r, e) /\ first[e] # None) => (first[e] < OccurredAt[e] \/ req[r].at < now)
  BY CommitCounts
<1>2. IInv /\ [Next]_vars =>
        [\A r \in Requests, e \in Events :
           (Commit(r) /\ HoldsEvent(r, e) /\ first[e] # None) => (first[e] < OccurredAt[e] \/ req[r].at < now)]_vars
  BY <1>1
<1>. QED BY <1>2, IInvAlways, PTL DEF Spec, CountedOnce

-------------------------------------------------------------------------------
(* Counters *)

\* The events that have been stored, and those among them that count in a row.
StoredEvents == {e \in Events : first[e] # None}
StoredOn(c)  == {e \in Events : RowOf[e] = c /\ first[e] # None}

\* Where the events of a row are in a sequence.
PlacesOf(s, w) == {i \in DOMAIN s : RowOf[s[i]] = w}

TimesInv ==
  /\ now \in Times /\ \A r \in Requests : req[r].at \in Times
  /\ ledger \in [Events -> Times \cup {None}] /\ first \in [Events -> Times \cup {None}]

LatestInv == \A w \in Rows \ Counters : latest[w] \in {e \in Events : RowOf[e] = w} \cup {None}

CountsInv ==
  /\ IsFiniteSet(StoredEvents) /\ counts \in [Counters -> Nat]
  /\ \A c \in Counters : counts[c] >= Cardinality(StoredOn(c))

Counting == IInv /\ TimesInv /\ LatestInv /\ CountsInv

\* The last place of a row.
LEMMA SomeMax ==
  ASSUME NEW S \in SUBSET Nat, IsFiniteSet(S), S # {}
  PROVE  Max(S) \in S
<1>. DEFINE Above(i) == {j \in S : i < j}
            T == {Above(i) : i \in S}
<1>1. T \subseteq FiniteSubsetsOf(S) /\ T # {}
  <2>1. \A i \in S : Above(i) \in SUBSET S /\ IsFiniteSet(Above(i))
    BY FS_Subset
  <2>2. \A i \in S : Above(i) \in FiniteSubsetsOf(S)
    <3>. HIDE DEF Above
    <3>. QED BY <2>1 DEF FiniteSubsetsOf
  <2>. HIDE DEF Above
  <2>. QED BY <2>2
<1>2. \E A \in T : \A B \in T : <<B, A>> \notin StrictSubsetOrdering(S)
  <2>. HIDE DEF T
  <2>. QED BY <1>1, FS_StrictSubsetOrderingWellFounded, WFMin
<1>3. PICK i \in S : \A B \in T : <<B, Above(i)>> \notin StrictSubsetOrdering(S)
  BY <1>2
<1>4. ASSUME NEW j \in S
      PROVE  i >= j
  <2>0. i \in Nat /\ j \in Nat
    OBVIOUS
  <2>. SUFFICES ASSUME i < j PROVE FALSE
    BY <2>0
  <2>1. Above(j) \subseteq Above(i) /\ j \in Above(i) /\ j \notin Above(j)
    <3>1. \A k \in S : j < k => i < k
      <4>. SUFFICES ASSUME NEW k \in S, j < k PROVE i < k
        OBVIOUS
      <4>1. k \in Nat
        OBVIOUS
      <4>. QED BY <2>0, <4>1
    <3>2. Above(j) \subseteq Above(i)
      BY <3>1
    <3>3. j \in Above(i) /\ ~(j < j)
      BY <2>0
    <3>. QED BY <3>2, <3>3
  <2>2. Above(j) \in T /\ Above(j) \subseteq S /\ Above(i) \subseteq S
    OBVIOUS
  <2>. QED BY <2>1, <2>2, <1>3 DEF StrictSubsetOrdering
<1>. QED BY <1>4 DEF Max

LEMMA PlacesFinite ==
  ASSUME NEW s \in Seq(Events), NEW w
  PROVE  IsFiniteSet(DOMAIN s) /\ IsFiniteSet(PlacesOf(s, w)) /\ PlacesOf(s, w) \in SUBSET Nat
<1>1. DOMAIN s = 1..Len(s) /\ Len(s) \in Nat
  OBVIOUS
<1>2. IsFiniteSet(DOMAIN s)
  BY <1>1, FS_Interval
<1>3. PlacesOf(s, w) \subseteq DOMAIN s /\ PlacesOf(s, w) \in SUBSET Nat
  BY <1>1 DEF PlacesOf
<1>. QED BY <1>2, <1>3, FS_Subset

\* The events of a transaction that count in a row are no more than their places.
LEMMA PlacesCount ==
  ASSUME NEW s \in Seq(Events), NEW w
  PROVE  LET N == {e \in Range(s) : RowOf[e] = w}
         IN /\ IsFiniteSet(Range(s)) /\ IsFiniteSet(N)
            /\ Cardinality(N) \in Nat /\ Cardinality(PlacesOf(s, w)) \in Nat
            /\ Cardinality(N) <= Cardinality(PlacesOf(s, w))
<1>. DEFINE N == {e \in Range(s) : RowOf[e] = w}
            P == PlacesOf(s, w)
            f == [i \in DOMAIN s |-> s[i]]
            g == [i \in P |-> s[i]]
<1>1. IsFiniteSet(DOMAIN s) /\ IsFiniteSet(P)
  BY PlacesFinite
<1>2. f \in Surjection(DOMAIN s, Range(s))
  BY DEF Surjection, Range
<1>3. IsFiniteSet(Range(s))
  <2>. HIDE DEF f
  <2>. QED BY <1>1, <1>2, FS_Surjection
<1>4. g \in Surjection(P, N)
  BY DEF Surjection, Range, PlacesOf
<1>5. IsFiniteSet(N) /\ Cardinality(N) <= Cardinality(P)
  <2>. HIDE DEF g, P, N
  <2>. QED BY <1>1, <1>4, FS_Surjection
<1>6. Cardinality(N) \in Nat /\ Cardinality(P) \in Nat
  <2>. HIDE DEF P, N
  <2>. QED BY <1>1, <1>5, FS_CardinalityType
<1>. QED BY <1>3, <1>5, <1>6

\* Sets that grow by what a set holds.
LEMMA GrowsBy ==
  ASSUME NEW S, NEW T, NEW U, IsFiniteSet(S), IsFiniteSet(T), U \subseteq S \cup T
  PROVE  /\ IsFiniteSet(U) /\ Cardinality(U) \in Nat /\ Cardinality(S) \in Nat /\ Cardinality(T) \in Nat
         /\ Cardinality(U) <= Cardinality(S) + Cardinality(T)
<1>1. /\ IsFiniteSet(S \cup T) /\ IsFiniteSet(S \cap T)
      /\ Cardinality(S \cup T) = Cardinality(S) + Cardinality(T) - Cardinality(S \cap T)
  BY FS_Union, FS_Intersection
<1>2. Cardinality(S) \in Nat /\ Cardinality(T) \in Nat /\ Cardinality(S \cap T) \in Nat
  BY <1>1, FS_CardinalityType
<1>3. IsFiniteSet(U) /\ Cardinality(U) <= Cardinality(S \cup T) /\ Cardinality(U) \in Nat
  BY <1>1, FS_Subset, FS_CardinalityType
<1>. QED BY <1>1, <1>2, <1>3

LEMMA CommitCounting ==
  ASSUME Counting, NEW r \in Requests, Commit(r)
  PROVE  TimesInv' /\ LatestInv' /\ CountsInv'
<1>. DEFINE new == req[r].new
            N == Range(new)
            at == req[r].at
<1>1. /\ ledger' = [e \in Events |-> IF e \in N THEN at ELSE ledger[e]]
      /\ first' = [e \in Events |-> IF e \in N /\ first[e] = None THEN at ELSE first[e]]
      /\ req' = [req EXCEPT ![r] = IdleRequest] /\ now' = now
  BY DEF Commit, Return
<1>2. /\ new \in Seq(Events) /\ N \subseteq Events /\ at \in Times /\ at # None
      /\ req \in [Requests -> Slot] /\ now \in Times /\ 0 \in Times
      /\ \A e \in Events : ledger[e] \in Times \cup {None} /\ first[e] \in Times \cup {None}
  BY SlotType, TimeAssumption DEF Counting, IInv, Types, Slot, TimesInv, Times
<1>3. counts' = [c \in Counters |-> counts[c] + Cardinality(PlacesOf(new, c))]
  BY DEF Commit, Plus, PlacesOf
<1>4. latest' = [w \in Rows \ Counters |->
                   IF PlacesOf(new, w) = {} THEN latest[w] ELSE new[Max(PlacesOf(new, w))]]
  BY DEF Commit, PlacesOf
<1>. HIDE DEF new, N, at
<1>5. TimesInv'
  <2>1. \A s \in Requests : req'[s].at \in Times
    BY <1>1, <1>2 DEF Counting, TimesInv, IdleRequest
  <2>. QED BY <1>1, <1>2, <2>1 DEF TimesInv, Times
<1>6. LatestInv'
  <2>. SUFFICES ASSUME NEW w \in Rows \ Counters
                PROVE  latest'[w] \in {e \in Events : RowOf[e] = w} \cup {None}
    BY DEF LatestInv
  <2>1. CASE PlacesOf(new, w) = {}
    BY <1>4, <2>1 DEF Counting, LatestInv
  <2>2. CASE PlacesOf(new, w) # {}
    <3>1. Max(PlacesOf(new, w)) \in PlacesOf(new, w)
      BY <1>2, <2>2, PlacesFinite, SomeMax
    <3>2. latest'[w] = new[Max(PlacesOf(new, w))]
      BY <1>4, <2>2
    <3>3. \A i \in PlacesOf(new, w) : new[i] \in Events /\ RowOf[new[i]] = w
      BY <1>2 DEF PlacesOf
    <3>. QED BY <3>1, <3>2, <3>3
  <2>. QED BY <2>1, <2>2
<1>7. \A e \in Events : first'[e] # None => first[e] # None \/ e \in N
  BY <1>1
<1>8. IsFiniteSet(StoredEvents')
  <2>1. IsFiniteSet(N) /\ IsFiniteSet(StoredEvents)
    BY <1>2, PlacesCount DEF N, Counting, CountsInv
  <2>2. StoredEvents' \subseteq StoredEvents \cup N
    BY <1>7 DEF StoredEvents
  <2>. QED BY <2>1, <2>2, GrowsBy
<1>9. ASSUME NEW c \in Counters
      PROVE  counts'[c] \in Nat /\ counts'[c] >= Cardinality(StoredOn(c)')
  <2>. DEFINE M == {e \in N : RowOf[e] = c}
  <2>1. /\ IsFiniteSet(M) /\ Cardinality(PlacesOf(new, c)) \in Nat
        /\ Cardinality(M) <= Cardinality(PlacesOf(new, c))
    BY <1>2, PlacesCount DEF N
  <2>2. IsFiniteSet(StoredOn(c))
    <3>1. StoredOn(c) \subseteq StoredEvents
      BY DEF StoredOn, StoredEvents
    <3>. QED BY <3>1, FS_Subset DEF Counting, CountsInv
  <2>3. StoredOn(c)' \subseteq StoredOn(c) \cup M
    BY <1>7 DEF StoredOn
  <2>. HIDE DEF M
  <2>4. /\ Cardinality(StoredOn(c)') \in Nat /\ Cardinality(StoredOn(c)) \in Nat /\ Cardinality(M) \in Nat
        /\ Cardinality(StoredOn(c)') <= Cardinality(StoredOn(c)) + Cardinality(M)
    BY <2>1, <2>2, <2>3, GrowsBy
  <2>5. counts[c] \in Nat /\ counts[c] >= Cardinality(StoredOn(c))
    BY DEF Counting, CountsInv
  <2>6. counts'[c] = counts[c] + Cardinality(PlacesOf(new, c))
    BY <1>3
  <2>. QED BY <2>1, <2>4, <2>5, <2>6
<1>10. counts' \in [Counters -> Nat]
  BY <1>3, <1>9
<1>. QED BY <1>5, <1>6, <1>8, <1>9, <1>10 DEF CountsInv

\* Other steps store nothing.
LEMMA RestCounting ==
  ASSUME Counting, [Next]_vars, ~ \E r \in Requests : Commit(r)
  PROVE  TimesInv' /\ LatestInv' /\ CountsInv'
<1>1. UNCHANGED <<counts, latest, first>>
  BY DEF Next, Send, Insert, Apply, Abort, Purge, Tick, vars
<1>2. LatestInv' /\ CountsInv'
  BY <1>1 DEF Counting, LatestInv, CountsInv, StoredEvents, StoredOn
<1>3. /\ req \in [Requests -> Slot] /\ now \in Times /\ 0 \in Times /\ MaxTime \in Nat
      /\ \A r \in Requests : req[r].at \in Times
      /\ ledger \in [Events -> Times \cup {None}] /\ first \in [Events -> Times \cup {None}]
  BY TimeAssumption DEF Counting, IInv, Types, Slot, TimesInv, Times
<1>4. now' \in Times
  <2>1. UNCHANGED now \/ Tick
    BY DEF Next, Send, Insert, Apply, Abort, Purge, vars
  <2>. QED BY <1>3, <2>1 DEF Tick, Times
<1>5. ledger' \in [Events -> Times \cup {None}]
  <2>1. UNCHANGED ledger \/ Purge
    BY DEF Next, Send, Insert, Apply, Abort, Tick, vars
  <2>. QED BY <1>3, <2>1 DEF Purge
<1>6. \A r \in Requests : req'[r].at \in Times
  <2>1. UNCHANGED req \/ \E s \in Requests : (\E batch \in Batches : Send(s, batch)) \/ Insert(s) \/ Apply(s) \/ Abort(s)
    BY DEF Next, Purge, Tick, vars
  <2>2. ASSUME NEW s \in Requests, NEW q, q.at \in Times, req' = [req EXCEPT ![s] = q]
        PROVE  \A r \in Requests : req'[r].at \in Times
    BY <1>3, <2>2
  <2>3. ASSUME NEW s \in Requests, NEW batch \in Batches, Send(s, batch)
        PROVE  \A r \in Requests : req'[r].at \in Times
    BY <1>3, <2>2, <2>3 DEF Send
  <2>4. ASSUME NEW s \in Requests, Insert(s)
        PROVE  \A r \in Requests : req'[r].at \in Times
    <3>. DEFINE e == Head(req[s].left)
                p == [req[s] EXCEPT !.left = Tail(@)]
                o == [req[s] EXCEPT !.step = "apply"]
                q == [o EXCEPT !.new = Append(req[s].new, e)]
    <3>1. req' = [req EXCEPT ![s] = p] \/ req' = [req EXCEPT ![s] = q]
      BY <1>3, <2>4 DEF Insert
    <3>2. req[s] \in Slot
      BY <1>3
    <3>3. p.at = req[s].at /\ o.at = req[s].at
      BY <3>2 DEF Slot
    <3>4. q.at = req[s].at
      BY <3>2 DEF Slot
    <3>. HIDE DEF p, q
    <3>. QED BY <1>3, <2>2, <3>1, <3>3, <3>4
  <2>5. ASSUME NEW s \in Requests, Apply(s)
        PROVE  \A r \in Requests : req'[r].at \in Times
    <3>. DEFINE o == [req[s] EXCEPT !.step = "insert"]
                q == [o EXCEPT !.left = Tail(req[s].left)]
    <3>1. req' = [req EXCEPT ![s] = q]
      BY <1>3, <2>5 DEF Apply
    <3>2. req[s] \in Slot
      BY <1>3
    <3>3. q.at = req[s].at
      BY <3>2 DEF Slot
    <3>. HIDE DEF q
    <3>. QED BY <1>3, <2>2, <3>1, <3>3
  <2>6. ASSUME NEW s \in Requests, Abort(s)
        PROVE  \A r \in Requests : req'[r].at \in Times
    BY <1>3, <2>2, <2>6 DEF Abort, Return, IdleRequest
  <2>. QED BY <1>3, <2>1, <2>3, <2>4, <2>5, <2>6
<1>. QED BY <1>1, <1>2, <1>3, <1>4, <1>5, <1>6 DEF TimesInv, Times

LEMMA CountingAlways == Spec => []Counting
<1>1. Init => Counting
  <2>. SUFFICES ASSUME Init PROVE Counting
    OBVIOUS
  <2>1. 0 \in Times
    BY TimeAssumption DEF Times
  <2>2. TimesInv /\ LatestInv
    BY <2>1 DEF Init, TimesInv, LatestInv, IdleRequest
  <2>3. StoredEvents = {} /\ \A c : StoredOn(c) = {}
    BY DEF Init, StoredEvents, StoredOn
  <2>4. CountsInv
    BY <2>3, FS_EmptySet DEF Init, CountsInv
  <2>. QED BY <2>2, <2>4, InitIInv DEF Counting
<1>2. Counting /\ [Next]_vars => Counting'
  BY NextIInv, CommitCounting, RestCounting DEF Counting
<1>. QED BY <1>1, <1>2, PTL DEF Spec

\* The state of the reports keeps its types, and a transaction holds only events of its
\* own batch that no transaction has stored (Ingest and the INSERT into report_events).
THEOREM TypeCorrect == Spec => []TypeOK
<1>1. Counting => TypeOK
  <2>. SUFFICES ASSUME Counting PROVE TypeOK
    OBVIOUS
  <2>1. req \in [Requests -> Request]
    <3>1. \A r \in Requests : req[r] \in Slot /\ req[r].at \in Times
      BY DEF Counting, IInv, Types, Slot, TimesInv
    <3>2. \A r \in Requests : req[r] \in Request
      BY <3>1 DEF Slot, Request
    <3>. QED BY <3>2 DEF Counting, IInv, Types
  <2>2. \A r \in Requests : Range(req[r].new) \subseteq Range(req[r].batch)
    BY DEF Counting, IInv, ReqsInv, ReqInv
  <2>3. \A r \in Requests, e \in Events : e \in Range(req[r].new) => ledger[e] = None
    BY DEF Counting, IInv, HeldInv
  <2>. QED BY <2>1, <2>2, <2>3 DEF Counting, IInv, Types, TimesInv, LatestInv, CountsInv, TypeOK
<1>. QED BY <1>1, CountingAlways, PTL

\* An event that was stored at all is in its counter, at least once: no request undoes
\* or overwrites what another has added, and a purge of the ledger takes nothing away.
THEOREM CountersKeep == Spec => []CountersComplete
<1>1. Counting => CountersComplete
  BY DEF Counting, CountsInv, CountersComplete, StoredOn
<1>. QED BY <1>1, CountingAlways, PTL

===============================================================================
