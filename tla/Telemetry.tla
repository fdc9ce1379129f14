------------------------------ MODULE Telemetry -------------------------------
(***************************************************************************)
(* The reports of clients: internal/telemetry, the transaction of          *)
(* internal/db/telemetry_store.go and the purge of its ledger. A client    *)
(* sends a batch until it is answered, in any order and as often as it     *)
(* likes, from several processes at once; the ledger of event ids makes    *)
(* the second arrival of an event do nothing, for as long as it remembers. *)
(***************************************************************************)
EXTENDS Integers, Sequences, FiniteSets, FiniteSetsExt, Functions

CONSTANTS
  Events,      \* events, each by its machine and event_id
  RowOf,       \* the row an event counts in: a vote, a day's usage, a session
  Counters,    \* rows that events are added to; in others they replace each other
  OccurredAt,  \* when the client says an event occurred
  Batches,     \* what clients may send together
  Requests,    \* slots for requests that are being served together
  Window,      \* DedupeWindow and LedgerWindow, in ticks
  Ahead,       \* how far the clock of a client may be ahead
  MaxTime,     \* bound: ticks
  None         \* no row, never

ASSUME EventsAssumption == Counters \subseteq {RowOf[e] : e \in Events} /\ OccurredAt \in [Events -> Nat]
ASSUME BatchesAssumption == \A b \in Batches : b \in Seq(Events) /\ b # <<>>
ASSUME TimeAssumption == Window \in Nat /\ Ahead \in Nat /\ MaxTime \in Nat /\ None \notin Nat \cup Events

VARIABLES
  now,       \* the clock
  ledger,    \* report_events: received_at
  counts,    \* knowledge_votes, skill_usage
  latest,    \* sessions, usage_daily: the event a row was last replaced by
  req,       \* the requests that are being served
  first,     \* history: when an event was received that was stored for the first time
  answered   \* history: events whose batch was answered 200

vars == <<now, ledger, counts, latest, req, first, answered>>

-------------------------------------------------------------------------------

Rows == {RowOf[e] : e \in Events}
Times == 0..MaxTime

\* at: the time of the request. left: events still to go, the first in hand.
\* new: those that were not in the ledger; they and their rows are locked.
Request == [step: {"idle", "insert", "apply"}, batch: {<<>>} \cup Batches, at: Times, left: Seq(Events), new: Seq(Events)]

IdleRequest == [step |-> "idle", batch |-> <<>>, at |-> 0, left |-> <<>>, new |-> <<>>]

\* The types, and a transaction holds events of its own batch only, which no
\* transaction before it has stored.
TypeOK ==
  /\ now \in Times
  /\ ledger \in [Events -> Times \cup {None}] /\ first \in [Events -> Times \cup {None}]
  /\ counts \in [Counters -> Nat]
  /\ \A row \in Rows \ Counters : latest[row] \in {e \in Events : RowOf[e] = row} \cup {None}
  /\ req \in [Requests -> Request]
  /\ \A r \in Requests : Range(req[r].new) \subseteq Range(req[r].batch)
  /\ \A r \in Requests, e \in Events : e \in Range(req[r].new) => ledger[e] = None
  /\ answered \subseteq Events

Init ==
  /\ now = 0
  /\ ledger = [e \in Events |-> None]
  /\ counts = [c \in Counters |-> 0]
  /\ latest = [row \in Rows \ Counters |-> None]
  /\ req = [r \in Requests |-> IdleRequest]
  /\ first = [e \in Events |-> None]
  /\ answered = {}

-------------------------------------------------------------------------------

\* Mutant: an event of any age is taken.
InWindowAny(e) == TRUE

\* Service.Ingest: an event older than the ledger remembers is refused.
InWindow(e) == now - OccurredAt[e] <= Window

\* Service.Ingest: the whole batch is refused or goes on to the transaction.
Send(r, batch) ==
  /\ req[r].step = "idle"
  /\ \A i \in DOMAIN batch : OccurredAt[batch[i]] <= now + Ahead
  /\ \A i \in DOMAIN batch : InWindow(batch[i])
  /\ req' = [req EXCEPT ![r] = [step |-> "insert", batch |-> batch, at |-> now, left |-> batch, new |-> <<>>]]
  /\ UNCHANGED <<now, ledger, counts, latest, first, answered>>

\* Events in the hands of a transaction, and rows: those of its events but for one
\* it has not applied yet.
HoldsEvent(r, e) == e \in Range(req[r].new)
HoldsRow(r, row) ==
  \E i \in DOMAIN req[r].new : RowOf[req[r].new[i]] = row /\ (i < Len(req[r].new) \/ req[r].step # "apply")

\* The statement of r waits for the transaction s to end: it inserts an event that
\* s has inserted, or updates a row that s has changed.
Waits(r, s) ==
  /\ s # r
  /\ \/ req[r].step = "insert" /\ req[r].left # <<>> /\ HoldsEvent(s, Head(req[r].left))
     \/ req[r].step = "apply" /\ HoldsRow(s, RowOf[Head(req[r].left)])

Proceeds(r) == \A s \in Requests : ~Waits(r, s)

\* Mutant: a duplicate is applied again.
InsertAny(r) ==
  /\ req[r].step = "insert" /\ req[r].left # <<>> /\ Proceeds(r)
  /\ req' = [req EXCEPT ![r].step = "apply", ![r].new = Append(@, Head(req[r].left))]
  /\ UNCHANGED <<now, ledger, counts, latest, first, answered>>

\* Mutant: an event that another transaction is storing counts as stored.
InsertOrSkip(r) ==
  /\ req[r].step = "insert" /\ req[r].left # <<>>
  /\ LET e == Head(req[r].left)
     IN req' = IF ledger[e] # None \/ \E s \in Requests : HoldsEvent(s, e)
                 THEN [req EXCEPT ![r].left = Tail(@)]
                 ELSE [req EXCEPT ![r].step = "apply", ![r].new = Append(@, e)]
  /\ UNCHANGED <<now, ledger, counts, latest, first, answered>>

\* INSERT INTO report_events ... ON CONFLICT DO NOTHING: a duplicate is skipped.
Insert(r) ==
  /\ req[r].step = "insert" /\ req[r].left # <<>> /\ Proceeds(r)
  /\ LET e == Head(req[r].left)
     IN req' = IF ledger[e] # None \/ HoldsEvent(r, e)
                 THEN [req EXCEPT ![r].left = Tail(@)]
                 ELSE [req EXCEPT ![r].step = "apply", ![r].new = Append(@, e)]
  /\ UNCHANGED <<now, ledger, counts, latest, first, answered>>

\* apply: the row is locked, and changed when the transaction commits.
Apply(r) ==
  /\ req[r].step = "apply" /\ Proceeds(r)
  /\ req' = [req EXCEPT ![r].step = "insert", ![r].left = Tail(@)]
  /\ UNCHANGED <<now, ledger, counts, latest, first, answered>>

Return(r) == [req EXCEPT ![r] = IdleRequest]

\* Mutant: a counter is replaced, like a summary.
PlusReplace(c, n) == IF n = 0 THEN counts[c] ELSE n

\* recalled_count + EXCLUDED.recalled_count
Plus(c, n) == counts[c] + n

\* Counters add up the events of a transaction, other rows keep the last of them.
Commit(r) ==
  /\ req[r].step = "insert" /\ req[r].left = <<>>
  /\ LET new == req[r].new
         On(row) == {i \in DOMAIN new : RowOf[new[i]] = row}
     IN /\ ledger' = [e \in Events |-> IF e \in Range(new) THEN req[r].at ELSE ledger[e]]
        /\ counts' = [c \in Counters |-> Plus(c, Cardinality(On(c)))]
        /\ latest' = [row \in Rows \ Counters |-> IF On(row) = {} THEN latest[row] ELSE new[Max(On(row))]]
        /\ first' = [e \in Events |-> IF e \in Range(new) /\ first[e] = None THEN req[r].at ELSE first[e]]
  /\ answered' = answered \cup Range(req[r].batch)
  /\ req' = Return(r)
  /\ UNCHANGED now

\* Mutant: PostgreSQL does not look for deadlocks.
DeadlockedNever(r) == FALSE

Deadlocked(r) ==
  \E D \in SUBSET Requests : r \in D /\ \A x \in D : \E y \in D : Waits(x, y)

\* The transaction is aborted, for a deadlock or because the connection, the
\* server or the client is gone: what it did is undone. The client tries again.
Abort(r) ==
  /\ req[r].step # "idle"
  /\ req' = Return(r)
  /\ UNCHANGED <<now, ledger, counts, latest, first, answered>>

AbortDeadlock(r) == Deadlocked(r) /\ Abort(r)

-------------------------------------------------------------------------------

\* Mutant: the ledger forgets a tick too early.
PurgeEarly ==
  /\ ledger' = [e \in Events |-> IF ledger[e] # None /\ ledger[e] <= now - Window THEN None ELSE ledger[e]]
  /\ UNCHANGED <<now, counts, latest, req, first, answered>>

\* Janitor.RunOnce: PurgeLedgers
Purge ==
  /\ ledger' = [e \in Events |-> IF ledger[e] # None /\ ledger[e] < now - Window THEN None ELSE ledger[e]]
  /\ UNCHANGED <<now, counts, latest, req, first, answered>>

Tick ==
  /\ now < MaxTime
  /\ now' = now + 1
  /\ UNCHANGED <<ledger, counts, latest, req, first, answered>>

Next ==
  \/ \E r \in Requests :
        \/ \E batch \in Batches : Send(r, batch)
        \/ Insert(r) \/ Apply(r) \/ Commit(r) \/ Abort(r)
  \/ Purge \/ Tick

Spec == Init /\ [][Next]_vars

\* PostgreSQL hands a lock to the statement that has waited longest, and breaks deadlocks.
FairSpec ==
  /\ Spec
  /\ \A r \in Requests : SF_vars(Insert(r) \/ Apply(r) \/ Commit(r)) /\ WF_vars(AbortDeadlock(r))

-------------------------------------------------------------------------------
(* Properties *)

\* However often and however concurrently an event is sent, it is counted once. It
\* is stored a second time only when its client had dated it after its first
\* arrival, or when the ledger was purged while the request, which had judged its
\* age before, was in flight. So a retransmission of an older summary does not
\* replace a newer one either: only a summary that arrives late for the first time does.
CountedOnce ==
  [][\A r \in Requests, e \in Events :
       (Commit(r) /\ HoldsEvent(r, e) /\ first[e] # None) => (first[e] < OccurredAt[e] \/ req[r].at < now)]_vars

\* Counters are the sums of what the ledger has taken in, purged or not: an event
\* that was stored at all is in them, at least once.
CountersComplete ==
  \A c \in Counters : counts[c] >= Cardinality({e \in Events : RowOf[e] = c /\ first[e] # None})

\* When a batch is answered its events are stored, those too that another request
\* was storing at the time and that this one skipped: the client may forget them.
AnsweredIsStored == \A e \in answered : first[e] # None

\* Batches that wait for each other's rows do not wait forever.
BatchesEnd == \A r \in Requests : req[r].step # "idle" ~> req[r].step = "idle"

===============================================================================
