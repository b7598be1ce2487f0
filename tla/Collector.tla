----------------------------- MODULE Collector -----------------------------
(***************************************************************************)
(* The LiteLLM spend collector on top of BaseCollector: the cycle           *)
(*     read_watermark -> _fetch_rows -> persist                             *)
(* of every worker process that runs it, against the one warehouse they     *)
(* share (src/src/finopsai/collectors/base.py, litellm_spend.py).           *)
(*                                                                         *)
(* A cycle awaits the databases five times; between two awaits the proxy,   *)
(* other workers, a failure or a crash may come first, so each await is an  *)
(* action.  A spend log is a row with a start time and a request id; the    *)
(* request id is the dedup key, so a row stands for its own key.            *)
(***************************************************************************)
EXTENDS Integers, FiniteSets

CONSTANTS
    Workers,      \* processes running the collector (a second one, or an overlap)
    Rows,         \* spend logs the proxy may ever write
    StartTime,    \* LiteLLM_SpendLogs."startTime"
    BatchSize,    \* LIMIT of one read
    LateLogs      \* may the proxy flush a log older than one already visible?

ASSUME RowsAssumption == StartTime \in [Rows -> Nat \ {0}]
ASSUME BatchSizeAssumption == BatchSize \in Nat \ {0}
ASSUME LateLogsAssumption == LateLogs \in BOOLEAN

VARIABLES
    logged,      \* rows visible in LiteLLM_SpendLogs
    stored,      \* cost_records per dedup key, committed
    watermark,   \* the collector_watermarks row, committed
    pc,          \* where each worker's cycle is suspended
    since,       \* the window start its cycle read
    batch,       \* the rows its cycle fetched
    fresh,       \* those of them its transaction adds
    loaded       \* the watermark row its transaction loaded

vars == <<logged, stored, watermark, pc, since, batch, fresh, loaded>>

----------------------------------------------------------------------------
(* The watermark row: absent, present with a NULL instant, or an instant.   *)
(* Every start time is larger than both, so the window that has no WHERE    *)
(* clause is the window that starts at NullMark.                            *)

NoRow    == -1
NullMark == 0

Marks == {NoRow, NullMark} \cup Nat

Steps == {"idle", "reading", "fetched", "deduped", "loaded"}

\* read_watermark hands out "no instant" for a missing row as for a NULL one.
SinceRaw(mark) == mark      \* mutant: the missing row is not special
Since(mark) == IF mark = NoRow THEN NullMark ELSE mark

\* The window of _fetch_rows includes the watermark instant.
EligibleExclusive(start) == {r \in logged : StartTime[r] > start}   \* mutant
Eligible(start) == {r \in logged : StartTime[r] >= start}

\* ORDER BY "startTime" ASC LIMIT batch_size: the oldest rows of the window,
\* rows of equal start time in whatever order the database returns them.
FirstRowsUnordered(window) ==                                       \* mutant
    {rows \in SUBSET window : /\ Cardinality(rows) <= BatchSize
                              /\ rows = window \/ Cardinality(rows) = BatchSize}
FirstRows(window) ==
    {rows \in SUBSET window :
        /\ Cardinality(rows) <= BatchSize
        /\ rows = window \/ Cardinality(rows) = BatchSize
        /\ \A r \in rows, q \in window \ rows : StartTime[r] <= StartTime[q]}

NotStored(rows) == {r \in rows : stored[r] = 0}

----------------------------------------------------------------------------
TypeOK ==
    /\ logged \subseteq Rows
    /\ stored \in [Rows -> Nat]
    /\ watermark \in Marks
    /\ pc \in [Workers -> Steps]
    /\ since \in [Workers -> Nat]
    /\ batch \in [Workers -> SUBSET Rows]
    /\ fresh \in [Workers -> SUBSET Rows]
    /\ loaded \in [Workers -> Marks]

Init ==
    /\ logged = {}
    /\ stored = [r \in Rows |-> 0]
    /\ watermark = NoRow
    /\ pc = [w \in Workers |-> "idle"]
    /\ since = [w \in Workers |-> NullMark]
    /\ batch = [w \in Workers |-> {}]
    /\ fresh = [w \in Workers |-> {}]
    /\ loaded = [w \in Workers |-> NoRow]

----------------------------------------------------------------------------
(* The proxy.                                                               *)

\* A spend log becomes visible.  The proxy flushes asynchronously and stamps
\* the start of the request: only without LateLogs do rows appear in order.
LogSpend(r) ==
    /\ r \notin logged
    /\ LateLogs \/ \A q \in logged : StartTime[q] <= StartTime[r]
    /\ logged' = logged \cup {r}
    /\ UNCHANGED <<stored, watermark, pc, since, batch, fresh, loaded>>

----------------------------------------------------------------------------
(* One cycle of a worker.                                                   *)

\* The cycle is over and its locals are gone.
EndCycle(w) ==
    /\ pc' = [pc EXCEPT ![w] = "idle"]
    /\ since' = [since EXCEPT ![w] = NullMark]
    /\ batch' = [batch EXCEPT ![w] = {}]
    /\ fresh' = [fresh EXCEPT ![w] = {}]
    /\ loaded' = [loaded EXCEPT ![w] = NoRow]

ReadWatermark(w) ==
    /\ pc[w] = "idle"
    /\ pc' = [pc EXCEPT ![w] = "reading"]
    /\ since' = [since EXCEPT ![w] = Since(watermark)]
    /\ UNCHANGED <<logged, stored, watermark, batch, fresh, loaded>>

FetchRows(w) ==
    /\ pc[w] = "reading"
    /\ \E rows \in FirstRows(Eligible(since[w])) : batch' = [batch EXCEPT ![w] = rows]
    /\ pc' = [pc EXCEPT ![w] = "fetched"]
    /\ UNCHANGED <<logged, stored, watermark, since, fresh, loaded>>

\* First statement of the transaction of persist: the keys already stored.
DropDuplicates(w) ==
    /\ pc[w] = "fetched"
    /\ pc' = [pc EXCEPT ![w] = "deduped"]
    /\ fresh' = [fresh EXCEPT ![w] = NotStored(batch[w])]
    /\ UNCHANGED <<logged, stored, watermark, since, batch, loaded>>

\* _store_watermark loads the row it is about to insert or update.
LoadWatermark(w) ==
    /\ pc[w] = "deduped"
    /\ pc' = [pc EXCEPT ![w] = "loaded"]
    /\ loaded' = [loaded EXCEPT ![w] = watermark]
    /\ UNCHANGED <<logged, stored, watermark, since, batch, fresh>>

\* uq_cost_record_source_dedup_key and the primary key of collector_watermark,
\* enforced when the transaction's inserts reach the database.
UniqueDedupKeyDropped(w) == TRUE      \* mutant: no unique constraint
UniqueDedupKey(w) == \A r \in fresh[w] : stored[r] = 0
UniqueMarkRow(w) == loaded[w] = NoRow => watermark = NoRow

\* next_watermark names the newest row of the batch.  The UPDATE leaves out a
\* column whose value is the one that was loaded, so it does not undo another
\* worker's change; with nothing fetched only a missing row is inserted.
WriteMarkPastLogs(w) ==               \* mutant: the newest log, read or not
    \E newest \in logged :
        /\ \A r \in logged : StartTime[r] <= StartTime[newest]
        /\ watermark' = StartTime[newest]
WriteMark(w) ==
    \/ /\ batch[w] = {}
       /\ watermark' = IF loaded[w] = NoRow THEN NullMark ELSE watermark
    \/ \E newest \in batch[w] :
          /\ \A r \in batch[w] : StartTime[r] <= StartTime[newest]
          /\ watermark' = IF loaded[w] = StartTime[newest]
                            THEN watermark ELSE StartTime[newest]

\* session.begin() commits records and watermark together.
Transaction(w) ==
    /\ UniqueDedupKey(w)
    /\ UniqueMarkRow(w)
    /\ stored' = [r \in Rows |-> IF r \in fresh[w] THEN stored[r] + 1 ELSE stored[r]]
    /\ WriteMark(w)

\* The commit takes effect.  run_once counts a success, or a failure when the
\* acknowledgement is lost; the tables and the next cycle are the same.
Commit(w) ==
    /\ pc[w] = "loaded"
    /\ Transaction(w)
    /\ EndCycle(w)
    /\ UNCHANGED logged

\* A unique violation rolls the whole transaction back.
ConflictRewinds(w) ==                 \* mutant: and the source is read anew
    /\ pc[w] = "loaded"
    /\ ~(UniqueDedupKey(w) /\ UniqueMarkRow(w))
    /\ watermark' = NullMark
    /\ EndCycle(w)
    /\ UNCHANGED <<logged, stored>>
Conflict(w) ==
    /\ pc[w] = "loaded"
    /\ ~(UniqueDedupKey(w) /\ UniqueMarkRow(w))
    /\ EndCycle(w)
    /\ UNCHANGED <<logged, stored, watermark>>

\* Any await raises, or the process dies and is restarted: the transaction is
\* rolled back, and the next cycle starts over with no locals of this one.
CycleFailsMarkKept(w) ==              \* mutant: the mark in its own transaction
    /\ pc[w] # "idle"
    /\ EndCycle(w)
    /\ IF pc[w] = "loaded" THEN WriteMark(w) ELSE UNCHANGED watermark
    /\ UNCHANGED <<logged, stored>>
CycleFails(w) ==
    /\ pc[w] # "idle"
    /\ EndCycle(w)
    /\ UNCHANGED <<logged, stored, watermark>>

----------------------------------------------------------------------------
Cycle(w) ==
    \/ ReadWatermark(w)
    \/ FetchRows(w)
    \/ DropDuplicates(w)
    \/ LoadWatermark(w)
    \/ Commit(w)
    \/ Conflict(w)
    \/ CycleFails(w)

Next ==
    \/ \E r \in Rows : LogSpend(r)
    \/ \E w \in Workers : Cycle(w)

Spec == Init /\ [][Next]_vars

\* run_forever starts a cycle after every cycle, and no failure is permanent:
\* an await that is reached again and again succeeds in the end.
Fairness ==
    \A w \in Workers :
        /\ WF_vars(ReadWatermark(w))
        /\ SF_vars(FetchRows(w))
        /\ SF_vars(DropDuplicates(w))
        /\ SF_vars(LoadWatermark(w))
        /\ SF_vars(Commit(w))

FairSpec == Spec /\ Fairness

----------------------------------------------------------------------------
(* Properties.                                                              *)

\* Whatever two workers, failures and lost acknowledgements do, a spend log is
\* in the warehouse at most once (persist: "cannot double-count spend").
StoredOnce == \A r \in Rows : stored[r] <= 1

\* No visible spend log that started before the window is missing from the
\* warehouse: the next cycle will never look there again
\* (docs/architecture/data-model.md, "the window can never advance past unwritten spend").
WindowNeverPassesSpend ==
    \A r \in logged : StartTime[r] < watermark => stored[r] > 0

\* The stored mark is always the instant of a row that is itself stored:
\* records and watermark are one transaction, for late logs too.
MarkOnStoredRow ==
    watermark > NullMark => \E r \in logged : stored[r] > 0 /\ StartTime[r] = watermark

\* Two workers may move the mark back, but never behind the window of the cycle
\* that moves it: what that worker had already found stored stays behind it.
MarkRegressesOnlyToOwnWindow ==
    [][watermark' < watermark =>
         \E w \in Workers : pc[w] = "loaded" /\ pc'[w] = "idle" /\ since[w] <= watermark']_vars

\* Every spend log the proxy writes is in the warehouse in the end.
EveryLogIngested == \A r \in Rows : r \in logged ~> stored[r] > 0

\* A lone worker's transaction never meets a unique constraint: the dedup filter
\* alone keeps the warehouse free of duplicates, and the constraints are there
\* for the second worker (StoredOnce needs them then).
DedupFilterSuffices ==
    \A w \in Workers : pc[w] = "loaded" => UniqueDedupKey(w) /\ UniqueMarkRow(w)

\* The collector keeps the promise of Ingestion, its mark being the horizon.
Warehouse == INSTANCE Ingestion WITH
    stored <- {r \in Rows : stored[r] > 0},
    horizon <- Since(watermark)

Ingests == Warehouse!Init /\ [][Warehouse!Next]_(Warehouse!vars)
----------------------------------------------------------------------------
(* Why the window is safe: the inductive invariant behind the properties.   *)

\* Everything visible that started before t is stored.
Passed(t) == \A r \in logged : StartTime[r] < t => stored[r] > 0

\* What the locals of a cycle say about the tables, whatever came in between:
\* the batch lies in the window, and what the transaction will not add is there.
CycleInv(w) ==
    /\ batch[w] \subseteq logged
    /\ fresh[w] \subseteq batch[w]
    /\ \A r \in batch[w] : since[w] <= StartTime[r]
    /\ pc[w] \in {"idle", "reading"} => batch[w] = {}
    /\ pc[w] = "fetched" => fresh[w] = {}
    /\ pc[w] \in {"deduped", "loaded"} => \A r \in batch[w] \ fresh[w] : stored[r] > 0

\* Only visible rows are stored, once, and the mark is the instant of one.
StoreInv ==
    /\ \A r \in Rows : stored[r] > 0 => r \in logged
    /\ StoredOnce
    /\ MarkOnStoredRow
    /\ \A w \in Workers : CycleInv(w)

\* With rows appearing in order, a cycle's window starts at an instant that is
\* reached and passed, and its batch has no hole below its newest row.
WindowInv ==
    /\ WindowNeverPassesSpend
    /\ \A w \in Workers :
          /\ Passed(since[w])
          /\ since[w] > NullMark => \E r \in logged : StartTime[r] >= since[w]
          /\ \A r \in logged, q \in batch[w] :
                since[w] <= StartTime[r] /\ StartTime[r] < StartTime[q] => r \in batch[w]

\* The two together, inductive when LateLogs is FALSE.
IngestionInv == StoreInv /\ WindowInv
=============================================================================
