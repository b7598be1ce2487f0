---------------------------- MODULE MCCollector ----------------------------
(***************************************************************************)
(* Collector on small instances: two worker processes or one, and a handful *)
(* of spend logs of which several share a start time.                       *)
(***************************************************************************)
EXTENDS Collector, TLC

CONSTANTS w1, w2, r1, r2, r3, r4

\* Two rows share the middle instant, so a batch of two can end inside a tie
\* when it starts before it, and a batch of three never holds less than a tie.
Start == r1 :> 1 @@ r2 :> 2 @@ r3 :> 2 @@ r4 :> 3

\* Two rows share the first instant and a batch is no larger: the window of the
\* next read is served by the same two rows.
StartTied == r1 :> 1 @@ r2 :> 1 @@ r3 :> 2

OneWorker == {w1}
=============================================================================
