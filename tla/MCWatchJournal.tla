--------------------------- MODULE MCWatchJournal ---------------------------
(* Instances of WatchJournal for TLC. *)
EXTENDS WatchJournal

CONSTANTS w1, w3, b1, a1, a2

\* w1 follows an order, w3 a position.
MCJobOf == [w \in Watches |-> IF w = w3 THEN NoWatchedJob ELSE b1]

\* Bound: one watch is resumed in a unit of time.
OneResumption == Cardinality(resumed') <= 1
WatchServesSpec == WatchInit /\ [][WatchNext /\ OneResumption]_watchVars /\ WatchFairness
=============================================================================
