----------------------------- MODULE Ingestion -----------------------------
(***************************************************************************)
(* What ingestion promises about the warehouse, with no batches, windows,  *)
(* workers or transactions in sight.                                       *)
(*                                                                         *)
(* A spend log is entered in the warehouse at most once and never removed, *)
(* and at every moment there is a horizon behind which nothing is missing: *)
(* every spend log that started before the horizon is in the warehouse.    *)
(* Collector.tla is the program's way of keeping that promise; its stored  *)
(* watermark plays the horizon (docs/architecture/data-model.md, "the      *)
(* window can never advance past unwritten spend").                        *)
(***************************************************************************)
EXTENDS Integers

CONSTANTS Rows,       \* spend logs the proxy may ever write
          StartTime   \* the instant each of them started

VARIABLES logged,     \* spend logs the proxy has written
          stored,     \* spend logs entered in the warehouse
          horizon     \* nothing that started before it is missing

\* A horizon is the instant of a log, or before them all.
Horizons == {0} \cup {StartTime[r] : r \in Rows}

vars == <<logged, stored, horizon>>

Init ==
    /\ logged = {}
    /\ stored = {}
    /\ horizon = 0

\* The proxy writes one more spend log, never behind the horizon.
LogSpend(r) ==
    /\ r \notin logged
    /\ StartTime[r] >= horizon
    /\ logged' = logged \cup {r}
    /\ UNCHANGED <<stored, horizon>>

\* A set of logs not yet in the warehouse is entered together with a horizon.
Record(new, h) ==
    /\ new \subseteq logged \ stored
    /\ \A r \in logged : StartTime[r] < h => r \in stored \cup new
    /\ stored' = stored \cup new
    /\ horizon' = h
    /\ UNCHANGED logged

Next ==
    \/ \E r \in Rows : LogSpend(r)
    \/ \E new \in SUBSET Rows, h \in Horizons : Record(new, h)

Spec == Init /\ [][Next]_vars
=============================================================================
