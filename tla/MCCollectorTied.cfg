SPECIFICATION FairSpec
CONSTANTS
  w1 = w1
  w2 = w2
  r1 = r1
  r2 = r2
  r3 = r3
  r4 = r4
  Workers <- OneWorker
  Rows = {r1, r2, r3}
  StartTime <- StartTied
  BatchSize = 2
  LateLogs = FALSE
PROPERTY EveryLogIngested
