SPECIFICATION FairSpec
CONSTANTS
  compute = compute
  vectordb = vectordb
  t1 = t1
  t2 = t2
  NoMark = NoMark
  Hour = 2
  BackfillParts = 3
  MaxBuckets = 2
  Collectors = {compute, vectordb}
  Profiles = {t1, t2}
  Broken = {vectordb}
  MaxTime = 8
  MaxFailures = 1
  MaxCrashes = 1
\* The process exits and time ends.
CHECK_DEADLOCK FALSE
INVARIANTS
  TypeOK
  HoursContiguous
PROPERTIES
  ShutdownIsOrderly
  FeedsHours
  StopEndsWorker
  CatchesUp
