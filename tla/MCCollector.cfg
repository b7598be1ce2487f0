SPECIFICATION FairSpec
CONSTANTS
  w1 = w1
  w2 = w2
  r1 = r1
  r2 = r2
  r3 = r3
  r4 = r4
  Workers = {w1, w2}
  Rows = {r1, r2, r3, r4}
  StartTime <- Start
  BatchSize = 3
  LateLogs = FALSE
INVARIANTS
  TypeOK
  StoredOnce
  WindowNeverPassesSpend
  MarkOnStoredRow
  IngestionInv
PROPERTIES
  MarkRegressesOnlyToOwnWindow
  Ingests
  EveryLogIngested
