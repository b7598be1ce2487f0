SPECIFICATION FairSpec
CONSTANTS
  Count = 6
  Concurrency = 2
  Ceiling = 4
  MaxCost = 2
\* A run ends.
CHECK_DEADLOCK FALSE
INVARIANTS
  TypeOK
  OvershootBounded
  ReportIsHonest
PROPERTY RunEnds
