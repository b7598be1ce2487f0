-------------------------- MODULE CollectorProofs --------------------------
(***************************************************************************)
(* Theorems about Collector for every number of workers, every set of spend *)
(* logs, every assignment of start times and every batch size.              *)
(*                                                                         *)
(* StoreInv needs nothing of the proxy; WindowInv, and with it the          *)
(* refinement of Ingestion, needs rows to appear in start-time order.       *)
(***************************************************************************)
EXTENDS Collector, TLAPS

----------------------------------------------------------------------------
(* Type correctness.                                                        *)

\* Each variable stays in its type under every step.
LEMMA TypeStep == TypeOK /\ [Next]_vars => TypeOK'
<1> SUFFICES ASSUME TypeOK, [Next]_vars PROVE TypeOK'
  OBVIOUS
<1> USE RowsAssumption DEF TypeOK, Marks, Steps, NoRow, NullMark
<1>1. CASE \E r \in Rows : LogSpend(r)
  BY <1>1 DEF LogSpend
<1>2. ASSUME NEW w \in Workers, ReadWatermark(w) PROVE TypeOK'
  BY <1>2 DEF ReadWatermark, Since
<1>3. ASSUME NEW w \in Workers, FetchRows(w) PROVE TypeOK'
  <2>1. PICK rows \in FirstRows(Eligible(since[w])) : batch' = [batch EXCEPT ![w] = rows]
    BY <1>3 DEF FetchRows
  <2>2. rows \subseteq Rows
    BY <2>1 DEF FirstRows, Eligible
  <2> QED
    BY <1>3, <2>1, <2>2 DEF FetchRows
<1>4. ASSUME NEW w \in Workers, DropDuplicates(w) PROVE TypeOK'
  BY <1>4 DEF DropDuplicates, NotStored
<1>5. ASSUME NEW w \in Workers, LoadWatermark(w) PROVE TypeOK'
  BY <1>5 DEF LoadWatermark
<1>6. ASSUME NEW w \in Workers, Transaction(w) PROVE stored' \in [Rows -> Nat] /\ watermark' \in Marks
  <2>1. stored' \in [Rows -> Nat]
    BY <1>6 DEF Transaction
  <2>2. watermark' \in Marks
    BY <1>6 DEF Transaction, WriteMark
  <2> QED
    BY <2>1, <2>2
<1>7. ASSUME NEW w \in Workers, EndCycle(w)
      PROVE /\ pc' \in [Workers -> Steps]
            /\ since' \in [Workers -> Nat]
            /\ batch' \in [Workers -> SUBSET Rows]
            /\ fresh' \in [Workers -> SUBSET Rows]
            /\ loaded' \in [Workers -> Marks]
  BY <1>7 DEF EndCycle
<1>8. ASSUME NEW w \in Workers, Commit(w) PROVE TypeOK'
  BY <1>8, <1>6, <1>7 DEF Commit
<1>9. ASSUME NEW w \in Workers, Conflict(w) PROVE TypeOK'
  BY <1>9, <1>7 DEF Conflict
<1>10. ASSUME NEW w \in Workers, CycleFails(w) PROVE TypeOK'
  BY <1>10, <1>7 DEF CycleFails
<1>11. CASE UNCHANGED vars
  BY <1>11 DEF vars
<1> QED
  BY <1>1, <1>2, <1>3, <1>4, <1>5, <1>8, <1>9, <1>10, <1>11 DEF Next, Cycle

\* The tables and every worker's locals keep their types (the schema and the
\* dataclasses of base.py).
THEOREM TypeCorrect == Spec => []TypeOK
<1>1. Init => TypeOK
  BY DEF Init, TypeOK, Marks, Steps, NoRow, NullMark
<1> QED
  BY <1>1, TypeStep, PTL DEF Spec

----------------------------------------------------------------------------
(* The tables: stored once, and the mark on a stored row.                   *)

\* What a committed transaction does to the tables: the batch is stored, once,
\* nothing is removed and the mark, if it moves, moves to the batch's newest row.
LEMMA TransactionStores ==
    ASSUME TypeOK, StoreInv, NEW w \in Workers, pc[w] = "loaded", Transaction(w)
    PROVE  /\ \A r \in Rows : stored[r] > 0 => stored'[r] > 0
           /\ \A r \in Rows : stored'[r] > 0 => stored[r] > 0 \/ r \in batch[w]
           /\ \A r \in batch[w] : stored'[r] > 0
           /\ \A r \in Rows : stored'[r] <= 1
           /\ \/ watermark' = watermark
              \/ watermark' = NullMark
              \/ \E n \in batch[w] : /\ watermark' = StartTime[n]
                                     /\ \A r \in batch[w] : StartTime[r] <= StartTime[n]
<1> USE DEF TypeOK
<1>1. \A r \in Rows : stored'[r] = IF r \in fresh[w] THEN stored[r] + 1 ELSE stored[r]
  BY DEF Transaction
<1>2. \A r \in fresh[w] : stored[r] = 0
  BY DEF Transaction, UniqueDedupKey
<1>3. fresh[w] \subseteq batch[w] /\ \A r \in batch[w] \ fresh[w] : stored[r] > 0
  BY DEF StoreInv, CycleInv
<1>4. \A r \in Rows : stored[r] \in Nat /\ stored[r] <= 1
  BY DEF StoreInv, StoredOnce
<1>5. \/ watermark' = watermark
      \/ watermark' = NullMark
      \/ \E n \in batch[w] : /\ watermark' = StartTime[n]
                             /\ \A r \in batch[w] : StartTime[r] <= StartTime[n]
  BY DEF Transaction, WriteMark
<1> QED
  BY <1>1, <1>2, <1>3, <1>4, <1>5

\* A step that only removes nothing from the tables and the log leaves the
\* cycles of the workers it does not touch as they were.
LEMMA CycleInvKept ==
    ASSUME TypeOK, NEW v \in Workers, CycleInv(v),
           logged \subseteq logged', \A r \in Rows : stored[r] > 0 => stored'[r] > 0,
           pc'[v] = pc[v], since'[v] = since[v], batch'[v] = batch[v], fresh'[v] = fresh[v]
    PROVE  CycleInv(v)'
  BY DEF CycleInv, TypeOK

\* A cycle that has ended satisfies its invariant whatever the tables hold.
LEMMA EndCycleInv ==
    ASSUME TypeOK, NEW w \in Workers, EndCycle(w)
    PROVE  /\ CycleInv(w)'
           /\ batch'[w] = {} /\ since'[w] = NullMark
           /\ \A v \in Workers \ {w} : /\ pc'[v] = pc[v] /\ since'[v] = since[v]
                                       /\ batch'[v] = batch[v] /\ fresh'[v] = fresh[v]
  BY DEF EndCycle, CycleInv, TypeOK

\* StoreInv is inductive, in whatever order the proxy's rows appear.
LEMMA StoreInvStep == TypeOK /\ StoreInv /\ [Next]_vars => StoreInv'
<1> SUFFICES ASSUME TypeOK, StoreInv, [Next]_vars PROVE StoreInv'
  OBVIOUS
<1>1. ASSUME logged \subseteq logged', UNCHANGED <<stored, watermark>>, \A w \in Workers : CycleInv(w)'
      PROVE  StoreInv'
  BY <1>1 DEF StoreInv, StoredOnce, MarkOnStoredRow
<1>2. CASE \E r \in Rows : LogSpend(r)
  <2>1. logged \subseteq logged' /\ UNCHANGED <<stored, watermark, pc, since, batch, fresh>>
    BY <1>2 DEF LogSpend
  <2>2. \A w \in Workers : CycleInv(w)'
    BY <2>1, CycleInvKept DEF StoreInv
  <2> QED
    BY <1>1, <2>1, <2>2
<1>3. ASSUME NEW w \in Workers, ReadWatermark(w) PROVE StoreInv'
  <2>1. /\ UNCHANGED <<logged, stored, watermark, batch, fresh>>
        /\ \A v \in Workers \ {w} : pc'[v] = pc[v] /\ since'[v] = since[v]
        /\ pc[w] = "idle" /\ pc'[w] = "reading"
    BY <1>3 DEF ReadWatermark, TypeOK
  <2>2. ASSUME NEW v \in Workers \ {w} PROVE CycleInv(v)'
    BY <2>1, CycleInvKept DEF StoreInv
  <2>3. CycleInv(w)'
    BY <2>1 DEF StoreInv, CycleInv
  <2> QED
    BY <1>1, <2>1, <2>2, <2>3
<1>4. ASSUME NEW w \in Workers, FetchRows(w) PROVE StoreInv'
  <2>1. /\ UNCHANGED <<logged, stored, watermark, since, fresh>>
        /\ \A v \in Workers \ {w} : pc'[v] = pc[v] /\ batch'[v] = batch[v]
        /\ pc[w] = "reading" /\ pc'[w] = "fetched"
    BY <1>4 DEF FetchRows, TypeOK
  <2>2. ASSUME NEW v \in Workers \ {w} PROVE CycleInv(v)'
    BY <2>1, CycleInvKept DEF StoreInv
  <2>3. PICK rows \in FirstRows(Eligible(since[w])) : batch' = [batch EXCEPT ![w] = rows]
    BY <1>4 DEF FetchRows
  <2>4. batch'[w] \subseteq logged /\ \A r \in batch'[w] : since[w] <= StartTime[r]
    BY <2>3, RowsAssumption DEF FirstRows, Eligible, TypeOK
  <2>5. CycleInv(w)'
    BY <2>1, <2>4 DEF StoreInv, CycleInv
  <2> QED
    BY <1>1, <2>1, <2>2, <2>5
<1>5. ASSUME NEW w \in Workers, DropDuplicates(w) PROVE StoreInv'
  <2>1. /\ UNCHANGED <<logged, stored, watermark, since, batch>>
        /\ \A v \in Workers \ {w} : pc'[v] = pc[v] /\ fresh'[v] = fresh[v]
        /\ pc'[w] = "deduped" /\ fresh'[w] = {r \in batch[w] : stored[r] = 0}
    BY <1>5 DEF DropDuplicates, NotStored, TypeOK
  <2>2. ASSUME NEW v \in Workers \ {w} PROVE CycleInv(v)'
    BY <2>1, CycleInvKept DEF StoreInv
  <2>3. \A r \in batch[w] \ fresh'[w] : stored[r] > 0
    BY <2>1 DEF TypeOK
  <2>4. CycleInv(w)'
    BY <2>1, <2>3 DEF StoreInv, CycleInv
  <2> QED
    BY <1>1, <2>1, <2>2, <2>4
<1>6. ASSUME NEW w \in Workers, LoadWatermark(w) PROVE StoreInv'
  <2>1. /\ UNCHANGED <<logged, stored, watermark, since, batch, fresh>>
        /\ \A v \in Workers \ {w} : pc'[v] = pc[v]
        /\ pc[w] = "deduped" /\ pc'[w] = "loaded"
    BY <1>6 DEF LoadWatermark, TypeOK
  <2>2. ASSUME NEW v \in Workers \ {w} PROVE CycleInv(v)'
    BY <2>1, CycleInvKept DEF StoreInv
  <2>3. CycleInv(w)'
    BY <2>1 DEF StoreInv, CycleInv
  <2> QED
    BY <1>1, <2>1, <2>2, <2>3
<1>7. ASSUME NEW w \in Workers, EndCycle(w), logged' = logged, UNCHANGED <<stored, watermark>>
      PROVE  StoreInv'
  <2>1. ASSUME NEW v \in Workers \ {w} PROVE CycleInv(v)'
    BY <1>7, EndCycleInv, CycleInvKept DEF StoreInv
  <2> QED
    BY <1>1, <1>7, <2>1, EndCycleInv
<1>8. ASSUME NEW w \in Workers, pc[w] = "loaded", Transaction(w), EndCycle(w), logged' = logged
      PROVE  StoreInv'
  <2> USE <1>8
  <2>1. \A r \in Rows : stored'[r] > 0 => r \in logged'
    BY TransactionStores DEF StoreInv, CycleInv
  <2>2. StoredOnce'
    BY TransactionStores DEF StoredOnce
  <2>3. MarkOnStoredRow'
    <3>1. CASE watermark' = watermark
      BY <3>1, TransactionStores DEF StoreInv, MarkOnStoredRow, TypeOK
    <3>2. CASE watermark' = NullMark
      BY <3>2 DEF MarkOnStoredRow, NullMark
    <3>3. ASSUME NEW n \in batch[w], watermark' = StartTime[n] PROVE MarkOnStoredRow'
      BY <3>3, TransactionStores DEF StoreInv, CycleInv, MarkOnStoredRow
    <3> QED
      BY <3>1, <3>2, <3>3, TransactionStores
  <2>4. ASSUME NEW v \in Workers PROVE CycleInv(v)'
    <3>1. CASE v = w
      BY <3>1, EndCycleInv
    <3>2. CASE v # w
      BY <3>2, EndCycleInv, TransactionStores, CycleInvKept DEF StoreInv
    <3> QED
      BY <3>1, <3>2
  <2> QED
    BY <2>1, <2>2, <2>3, <2>4 DEF StoreInv
<1>9. ASSUME NEW w \in Workers, Commit(w) PROVE StoreInv'
  BY <1>9, <1>8 DEF Commit
<1>10. ASSUME NEW w \in Workers, Conflict(w) PROVE StoreInv'
  BY <1>10, <1>7 DEF Conflict
<1>11. ASSUME NEW w \in Workers, CycleFails(w) PROVE StoreInv'
  BY <1>11, <1>7 DEF CycleFails
<1>12. CASE UNCHANGED vars
  BY <1>12, <1>1, CycleInvKept DEF vars, StoreInv
<1> QED
  BY <1>2, <1>3, <1>4, <1>5, <1>6, <1>9, <1>10, <1>11, <1>12 DEF Next, Cycle

\* Initially nothing is visible, stored or fetched.
LEMMA StoreInvInit == Init => StoreInv
  BY DEF Init, StoreInv, StoredOnce, MarkOnStoredRow, CycleInv, NoRow, NullMark

\* StoreInv holds in every state, in whatever order the proxy's rows appear.
THEOREM StoreInvariant == Spec => []StoreInv
  BY TypeCorrect, StoreInvInit, StoreInvStep, PTL DEF Spec

\* A spend log is in the warehouse at most once, whatever the workers, failures,
\* crashes and lost acknowledgements (persist: "cannot double-count spend").
THEOREM NeverDoubleCounted == Spec => []StoredOnce
<1>1. StoreInv => StoredOnce
  BY DEF StoreInv
<1> QED
  BY <1>1, StoreInvariant, PTL

\* The stored mark is the instant of a stored row: records and watermark are one
\* transaction (docs/architecture/data-model.md), even when logs arrive late.
THEOREM MarkNeverAhead == Spec => []MarkOnStoredRow
<1>1. StoreInv => MarkOnStoredRow
  BY DEF StoreInv
<1> QED
  BY <1>1, StoreInvariant, PTL

----------------------------------------------------------------------------
(* The window, when rows appear in start-time order.                        *)

\* The part of WindowInv that is about one worker.
WorkerWindow(w) ==
    /\ Passed(since[w])
    /\ since[w] > NullMark => \E r \in logged : StartTime[r] >= since[w]
    /\ \A r \in logged, q \in batch[w] :
          since[w] <= StartTime[r] /\ StartTime[r] < StartTime[q] => r \in batch[w]

\* What was passed stays passed while the log stands still and nothing is
\* removed from the warehouse.
LEMMA WorkerWindowKept ==
    ASSUME TypeOK, NEW v \in Workers, WorkerWindow(v),
           logged' = logged, \A r \in Rows : stored[r] > 0 => stored'[r] > 0,
           since'[v] = since[v], batch'[v] = batch[v]
    PROVE  WorkerWindow(v)'
  BY DEF WorkerWindow, Passed, TypeOK

\* No log starts before NullMark, so the cycle that has not begun has nothing
\* behind its window.
LEMMA WorkerWindowIdle ==
    ASSUME TypeOK, NEW w \in Workers, since'[w] = NullMark, batch'[w] = {}, logged' \subseteq Rows
    PROVE  WorkerWindow(w)'
  BY RowsAssumption DEF WorkerWindow, Passed, NullMark

\* A committed batch has no hole: whatever started before its newest row was
\* stored before the window or is in the batch.
LEMMA TransactionPasses ==
    ASSUME TypeOK, StoreInv, WindowInv, NEW w \in Workers, pc[w] = "loaded", Transaction(w),
           logged' = logged
    PROVE  WindowNeverPassesSpend'
<1> USE DEF TypeOK
<1> SUFFICES ASSUME NEW r \in logged, StartTime[r] < watermark' PROVE stored'[r] > 0
  BY DEF WindowNeverPassesSpend
<1>1. StartTime[r] \in Nat \ {0}
  BY RowsAssumption
<1>2. stored[r] > 0 => stored'[r] > 0
  BY TransactionStores
<1>3. CASE watermark' = watermark
  BY <1>2, <1>3 DEF WindowInv, WindowNeverPassesSpend
<1>4. CASE watermark' = NullMark
  BY <1>1, <1>4 DEF NullMark
<1>5. ASSUME NEW n \in batch[w], watermark' = StartTime[n] PROVE stored'[r] > 0
  <2>1. CASE StartTime[r] < since[w]
    BY <2>1, <1>2 DEF WindowInv, Passed
  <2>2. CASE since[w] <= StartTime[r]
    <3>1. r \in batch[w]
      BY <2>2, <1>5 DEF WindowInv
    <3> QED
      BY <3>1, TransactionStores
  <2> QED
    BY <1>1, <2>1, <2>2
<1> QED
  BY <1>3, <1>4, <1>5, TransactionStores

\* WindowInv is inductive relative to StoreInv when no log arrives late.
LEMMA WindowInvStep ==
    ASSUME LateLogs = FALSE
    PROVE  TypeOK /\ StoreInv /\ WindowInv /\ [Next]_vars => WindowInv'
<1> SUFFICES ASSUME TypeOK, StoreInv, WindowInv, [Next]_vars PROVE WindowInv'
  OBVIOUS
<1>1. \A w \in Workers : WorkerWindow(w)
  BY DEF WindowInv, WorkerWindow
<1>2. ASSUME WindowNeverPassesSpend', \A w \in Workers : WorkerWindow(w)' PROVE WindowInv'
  BY <1>2 DEF WindowInv, WorkerWindow
<1>3. ASSUME UNCHANGED <<logged, stored, watermark>> PROVE WindowNeverPassesSpend'
  BY <1>3 DEF WindowInv, WindowNeverPassesSpend
<1>4. CASE \E r \in Rows : LogSpend(r)
  <2>1. PICK r \in Rows : LogSpend(r)
    BY <1>4
  <2>2. /\ logged' = logged \cup {r}
        /\ UNCHANGED <<stored, watermark, pc, since, batch, fresh>>
        /\ \A q \in logged : StartTime[q] <= StartTime[r]
    BY <2>1 DEF LogSpend
  <2>3. \A q \in Rows : StartTime[q] \in Nat \ {0}
    BY RowsAssumption
  <2>4. StartTime[r] >= watermark
    BY <2>2, <2>3 DEF StoreInv, MarkOnStoredRow, TypeOK, Marks, NullMark, NoRow
  <2>5. WindowNeverPassesSpend'
    BY <2>2, <2>3, <2>4 DEF WindowInv, WindowNeverPassesSpend, TypeOK, Marks, NoRow, NullMark
  <2>6. ASSUME NEW w \in Workers PROVE WorkerWindow(w)'
    <3>1. StartTime[r] >= since[w]
      BY <2>2, <2>3, <1>1 DEF WorkerWindow, TypeOK, NullMark
    <3>2. Passed(since[w])'
      BY <2>2, <2>3, <3>1, <1>1 DEF WorkerWindow, Passed, TypeOK
    <3>3. \A q \in batch[w] : StartTime[q] <= StartTime[r]
      BY <2>2 DEF StoreInv, CycleInv
    <3> QED
      BY <2>2, <2>3, <3>2, <3>3, <1>1 DEF WorkerWindow, TypeOK
  <2> QED
    BY <1>2, <2>5, <2>6
<1>5. ASSUME NEW w \in Workers, ReadWatermark(w) PROVE WindowInv'
  <2>1. /\ UNCHANGED <<logged, stored, watermark, batch>>
        /\ \A v \in Workers \ {w} : since'[v] = since[v]
        /\ pc[w] = "idle" /\ since'[w] = Since(watermark)
    BY <1>5 DEF ReadWatermark, TypeOK
  <2>2. ASSUME NEW v \in Workers \ {w} PROVE WorkerWindow(v)'
    BY <2>1, <1>1, WorkerWindowKept
  <2>3. batch'[w] = {}
    BY <2>1 DEF StoreInv, CycleInv
  <2>4. WorkerWindow(w)'
    <3>1. Passed(Since(watermark))
      BY RowsAssumption DEF WindowInv, WindowNeverPassesSpend, Passed, Since, TypeOK, Marks, NoRow, NullMark
    <3>2. Since(watermark) > NullMark => \E r \in logged : StartTime[r] >= Since(watermark)
      BY RowsAssumption DEF StoreInv, MarkOnStoredRow, Since, TypeOK, Marks, NoRow, NullMark
    <3> QED
      BY <2>1, <2>3, <3>1, <3>2 DEF WorkerWindow, Passed
  <2> QED
    BY <1>2, <1>3, <2>1, <2>2, <2>4
<1>6. ASSUME NEW w \in Workers, FetchRows(w) PROVE WindowInv'
  <2>1. /\ UNCHANGED <<logged, stored, watermark, since>>
        /\ \A v \in Workers \ {w} : batch'[v] = batch[v]
    BY <1>6 DEF FetchRows, TypeOK
  <2>2. ASSUME NEW v \in Workers \ {w} PROVE WorkerWindow(v)'
    BY <2>1, <1>1, WorkerWindowKept
  <2>3. PICK rows \in FirstRows(Eligible(since[w])) : batch' = [batch EXCEPT ![w] = rows]
    BY <1>6 DEF FetchRows
  <2>4. \A q \in rows, r \in Eligible(since[w]) \ rows : StartTime[q] <= StartTime[r]
    BY <2>3 DEF FirstRows
  <2>5. batch'[w] = rows /\ rows \subseteq Rows
    BY <2>3 DEF TypeOK, FirstRows, Eligible
  <2>6. \A r \in Rows, q \in Rows : StartTime[r] \in Nat /\ StartTime[q] \in Nat
    BY RowsAssumption
  <2>7. ASSUME NEW r \in logged, NEW q \in rows, since[w] <= StartTime[r], StartTime[r] < StartTime[q]
        PROVE  r \in rows
    <3>1. r \in Eligible(since[w])
      BY <2>7, <2>6 DEF Eligible, TypeOK
    <3> QED
      BY <3>1, <2>4, <2>5, <2>6, <2>7 DEF TypeOK
  <2>8. WorkerWindow(w)'
    BY <2>1, <2>5, <2>7, <1>1 DEF WorkerWindow, Passed
  <2> QED
    BY <1>2, <1>3, <2>1, <2>2, <2>8
<1>7. ASSUME NEW w \in Workers, UNCHANGED <<logged, stored, watermark, since, batch>> PROVE WindowInv'
  BY <1>7, <1>1, <1>2, <1>3, WorkerWindowKept
<1>8. ASSUME NEW w \in Workers, DropDuplicates(w) PROVE WindowInv'
  BY <1>8, <1>7 DEF DropDuplicates
<1>9. ASSUME NEW w \in Workers, LoadWatermark(w) PROVE WindowInv'
  BY <1>9, <1>7 DEF LoadWatermark
<1>10. ASSUME NEW w \in Workers, EndCycle(w), UNCHANGED <<logged, stored, watermark>> PROVE WindowInv'
  <2>1. ASSUME NEW v \in Workers \ {w} PROVE WorkerWindow(v)'
    BY <1>10, <1>1, EndCycleInv, WorkerWindowKept
  <2>2. WorkerWindow(w)'
    BY <1>10, EndCycleInv, WorkerWindowIdle DEF TypeOK
  <2> QED
    BY <1>2, <1>3, <1>10, <2>1, <2>2
<1>11. ASSUME NEW w \in Workers, pc[w] = "loaded", Transaction(w), EndCycle(w), logged' = logged
       PROVE  WindowInv'
  <2>1. WindowNeverPassesSpend'
    BY <1>11, TransactionPasses
  <2>2. ASSUME NEW v \in Workers \ {w} PROVE WorkerWindow(v)'
    BY <1>11, <1>1, EndCycleInv, TransactionStores, WorkerWindowKept
  <2>3. WorkerWindow(w)'
    BY <1>11, EndCycleInv, WorkerWindowIdle DEF TypeOK
  <2> QED
    BY <1>2, <2>1, <2>2, <2>3
<1>12. ASSUME NEW w \in Workers, Commit(w) PROVE WindowInv'
  BY <1>12, <1>11 DEF Commit
<1>13. ASSUME NEW w \in Workers, Conflict(w) PROVE WindowInv'
  BY <1>13, <1>10 DEF Conflict
<1>14. ASSUME NEW w \in Workers, CycleFails(w) PROVE WindowInv'
  BY <1>14, <1>10 DEF CycleFails
<1>15. CASE UNCHANGED vars
  BY <1>15, <1>1, <1>2, <1>3, WorkerWindowKept DEF vars
<1> QED
  BY <1>4, <1>5, <1>6, <1>8, <1>9, <1>12, <1>13, <1>14, <1>15 DEF Next, Cycle

\* Initially the window starts before everything.
LEMMA WindowInvInit == Init => WindowInv
  BY RowsAssumption DEF Init, WindowInv, WindowNeverPassesSpend, Passed, NoRow, NullMark

\* The inductive invariant of ingestion, when no log arrives late.
THEOREM IngestionInvariant ==
    ASSUME LateLogs = FALSE
    PROVE  Spec => []IngestionInv
<1>1. TypeOK /\ StoreInv /\ WindowInv /\ [Next]_vars => WindowInv'
  BY WindowInvStep
<1>2. Spec => []WindowInv
  BY <1>1, TypeCorrect, StoreInvariant, WindowInvInit, PTL DEF Spec
<1> QED
  BY <1>2, StoreInvariant, PTL DEF IngestionInv

\* The window never passes a visible log that is not stored
\* (docs/architecture/data-model.md, "the window can never advance past unwritten spend").
THEOREM WindowSafe ==
    ASSUME LateLogs = FALSE
    PROVE  Spec => []WindowNeverPassesSpend
<1>1. IngestionInv => WindowNeverPassesSpend
  BY DEF IngestionInv, WindowInv
<1> QED
  BY <1>1, IngestionInvariant, PTL

----------------------------------------------------------------------------
(* The collector implements Ingestion.                                      *)

\* The warehouse of the abstract specification, and its horizon.
StoredSet == {r \in Rows : stored[r] > 0}

\* A committed transaction is one Record of the abstract specification.
LEMMA TransactionRecords ==
    ASSUME TypeOK, StoreInv, WindowInv, TypeOK', StoreInv', WindowNeverPassesSpend',
           NEW w \in Workers, pc[w] = "loaded", Transaction(w), logged' = logged
    PROVE  Warehouse!Next
<1> DEFINE new == StoredSet' \ StoredSet
<1>1. new \in SUBSET Rows /\ new \subseteq logged \ StoredSet
  BY DEF StoredSet, StoreInv
<1>2. StoredSet' = StoredSet \cup new
  BY TransactionStores DEF StoredSet
<1>3. \A r \in logged : StartTime[r] < Since(watermark)' => r \in StoredSet \cup new
  <2> SUFFICES ASSUME NEW r \in logged, StartTime[r] < Since(watermark)' PROVE r \in StoredSet'
    BY <1>2
  <2>1. StartTime[r] \in Nat \ {0}
    BY RowsAssumption DEF TypeOK
  <2>2. StartTime[r] < watermark'
    BY <2>1 DEF Since, NoRow, NullMark
  <2> QED
    BY <2>2 DEF WindowNeverPassesSpend, StoredSet, TypeOK
<1>4. Since(watermark)' \in Warehouse!Horizons
  BY RowsAssumption
  DEF TypeOK, StoreInv, MarkOnStoredRow, Since, Marks, NoRow, NullMark, Warehouse!Horizons
<1> HIDE DEF new
<1>5. \E n \in SUBSET Rows, h \in Warehouse!Horizons : Warehouse!Record(n, h)
  BY <1>1, <1>2, <1>3, <1>4 DEF Warehouse!Record, StoredSet
<1> QED
  BY <1>5 DEF Warehouse!Next

\* Every step of the collector is a step of Ingestion or leaves it unchanged.
LEMMA StepIngests ==
    ASSUME LateLogs = FALSE
    PROVE  TypeOK /\ IngestionInv /\ TypeOK' /\ IngestionInv' /\ [Next]_vars
             => [Warehouse!Next]_(Warehouse!vars)
<1> SUFFICES ASSUME TypeOK, StoreInv, WindowInv, TypeOK', StoreInv', WindowInv', [Next]_vars
             PROVE  [Warehouse!Next]_(Warehouse!vars)
  BY DEF IngestionInv
<1>1. ASSUME UNCHANGED <<logged, stored, watermark>> PROVE UNCHANGED Warehouse!vars
  BY <1>1 DEF Warehouse!vars, Since
<1>2. CASE \E r \in Rows : LogSpend(r)
  <2>1. PICK r \in Rows : LogSpend(r)
    BY <1>2
  <2>2. StartTime[r] >= Since(watermark)
    <3>1. \A q \in logged : StartTime[q] <= StartTime[r]
      BY <2>1 DEF LogSpend
    <3> QED
      BY <3>1, RowsAssumption
      DEF StoreInv, MarkOnStoredRow, Since, TypeOK, Marks, NullMark, NoRow
  <2>3. Warehouse!LogSpend(r)
    BY <2>1, <2>2 DEF LogSpend, Warehouse!LogSpend, Since
  <2> QED
    BY <2>3 DEF Warehouse!Next
<1>3. ASSUME NEW w \in Workers, Commit(w) PROVE Warehouse!Next
  <2>1. pc[w] = "loaded" /\ Transaction(w) /\ logged' = logged
    BY <1>3 DEF Commit
  <2> QED
    BY <2>1, TransactionRecords DEF WindowInv
<1>4. ASSUME NEW w \in Workers, Cycle(w), ~Commit(w)
      PROVE  UNCHANGED <<logged, stored, watermark>>
  BY <1>4 DEF Cycle, ReadWatermark, FetchRows, DropDuplicates, LoadWatermark, Conflict, CycleFails
<1>5. CASE UNCHANGED vars
  BY <1>1, <1>5 DEF vars
<1> QED
  BY <1>1, <1>2, <1>3, <1>4, <1>5 DEF Next

\* The collector keeps the promise of Ingestion: a log enters the warehouse at
\* most once, never leaves it, and nothing behind the stored mark is missing.
THEOREM CollectorIngests ==
    ASSUME LateLogs = FALSE
    PROVE  Spec => Ingests
<1>1. Init => Warehouse!Init
  BY DEF Init, Warehouse!Init, Since, NoRow, NullMark
<1>2. TypeOK /\ IngestionInv /\ TypeOK' /\ IngestionInv' /\ [Next]_vars
        => [Warehouse!Next]_(Warehouse!vars)
  BY StepIngests
<1> QED
  BY <1>1, <1>2, TypeCorrect, IngestionInvariant, PTL DEF Spec, Ingests

----------------------------------------------------------------------------
(* Two workers and the mark.                                                *)

\* A step that moves the mark back is the commit of a worker whose own window
\* started no later than where the mark now stands.
THEOREM RegressBounded == Spec => MarkRegressesOnlyToOwnWindow
<1> DEFINE Bounded == watermark' < watermark =>
         \E w \in Workers : pc[w] = "loaded" /\ pc'[w] = "idle" /\ since[w] <= watermark'
<1>1. TypeOK /\ StoreInv /\ [Next]_vars => Bounded
  <2> SUFFICES ASSUME TypeOK, StoreInv, [Next]_vars, watermark' < watermark PROVE Bounded
    BY DEF Bounded
  <2>1. \A m \in Marks : ~(m < m)
    BY DEF Marks, NoRow, NullMark
  <2>2. watermark' # watermark
    BY <2>1 DEF TypeOK
  <2>3. PICK w \in Workers : Commit(w)
    BY <2>2 DEF Next, Cycle, vars, LogSpend, ReadWatermark, FetchRows, DropDuplicates,
                LoadWatermark, Conflict, CycleFails
  <2>4. pc[w] = "loaded" /\ Transaction(w) /\ EndCycle(w)
    BY <2>3 DEF Commit
  <2>5. pc'[w] = "idle"
    BY <2>4 DEF EndCycle, TypeOK
  <2>6. CASE batch[w] = {}
    <3>1. loaded[w] = NoRow /\ watermark' = NullMark
      BY <2>2, <2>4, <2>6 DEF Transaction, WriteMark
    <3>2. watermark = NoRow
      BY <3>1, <2>4 DEF Transaction, UniqueMarkRow
    <3> QED
      BY <3>1, <3>2 DEF NoRow, NullMark
  <2>7. CASE batch[w] # {}
    <3>1. PICK n \in batch[w] : watermark' = StartTime[n]
      BY <2>2, <2>4, <2>7 DEF Transaction, WriteMark
    <3>2. since[w] <= StartTime[n]
      BY <3>1 DEF StoreInv, CycleInv
    <3> QED
      BY <2>4, <2>5, <3>1, <3>2
  <2> QED
    BY <2>6, <2>7
<1> QED
  BY <1>1, TypeCorrect, StoreInvariant, PTL DEF Spec, MarkRegressesOnlyToOwnWindow

----------------------------------------------------------------------------
(* The lone worker.                                                         *)

\* With one worker nobody else writes the tables, so what its transaction found
\* missing is still missing when it commits.
THEOREM LoneWorkerNeverConflicts ==
    ASSUME NEW lone, Workers = {lone}
    PROVE  Spec => []DedupFilterSuffices
<1> DEFINE Found == /\ pc[lone] \in {"deduped", "loaded"} => \A r \in fresh[lone] : stored[r] = 0
                    /\ pc[lone] = "loaded" => loaded[lone] = watermark
<1>1. Init => Found
  BY DEF Init
<1>2. TypeOK /\ Found /\ [Next]_vars => Found'
  <2> SUFFICES ASSUME TypeOK, Found, [Next]_vars PROVE Found'
    OBVIOUS
  <2>1. CASE UNCHANGED vars
    BY <2>1 DEF vars
  <2>2. CASE \E r \in Rows : LogSpend(r)
    BY <2>2 DEF LogSpend
  <2>3. CASE ReadWatermark(lone) \/ FetchRows(lone)
    BY <2>3 DEF ReadWatermark, FetchRows, TypeOK
  <2>4. CASE DropDuplicates(lone)
    BY <2>4 DEF DropDuplicates, NotStored, TypeOK
  <2>5. CASE LoadWatermark(lone)
    BY <2>5 DEF LoadWatermark, TypeOK
  <2>6. ASSUME EndCycle(lone) PROVE Found'
    BY <2>6 DEF EndCycle, TypeOK
  <2>7. CASE Commit(lone) \/ Conflict(lone) \/ CycleFails(lone)
    BY <2>6, <2>7 DEF Commit, Conflict, CycleFails
  <2> QED
    BY <2>1, <2>2, <2>3, <2>4, <2>5, <2>7 DEF Next, Cycle
<1>3. Found => DedupFilterSuffices
  BY DEF DedupFilterSuffices, UniqueDedupKey, UniqueMarkRow
<1> QED
  BY <1>1, <1>2, <1>3, TypeCorrect, PTL DEF Spec
=============================================================================
