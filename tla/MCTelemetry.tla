----------------------------- MODULE MCTelemetry ------------------------------
(* Values for TLC. *)
EXTENDS Telemetry, TLC

CONSTANTS v1, v2, u1, u2, votes, usage, r1, r2

\* Two votes for one article, and a day's usage reported twice.
MCRowOf == v1 :> votes @@ v2 :> votes @@ u1 :> usage @@ u2 :> usage
MCOccurredAt == v1 :> 0 @@ v2 :> 1 @@ u1 :> 0 @@ u2 :> 1
\* Batches that touch the rows in opposite orders, and a part of one again.
MCBatches == {<<v1, u1>>, <<u2, v2>>, <<v1>>}
===============================================================================
