SPECIFICATION Spec
CONSTANTS
  w1 = w1
  w2 = w2
  r1 = r1
  r2 = r2
  r3 = r3
  r4 = r4
  Workers <- OneWorker
  Rows = {r1, r2, r3, r4}
  StartTime <- Start
  BatchSize = 3
  LateLogs = TRUE
INVARIANT WindowNeverPassesSpend
