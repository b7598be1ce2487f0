SPECIFICATION Spec
CONSTANTS
  s1 = s1
  s2 = s2
  None = None
  NoModel = NoModel
  Unattributed = "unattributed"
  Slots = {s1, s2}
  Requests <- Asked
  CostRecords <- Records
  Sources = {"llm", "infra"}
  Moments <- Clock
  UnitLength <- Units
  MaxUnits = 9
  MonthStarts = {0, 12, 24}
  MinElapsed = 2
  LowConfidence = 3
  MediumConfidence = 7
  MaxRequests = 4
SYMMETRY EitherSlot
\* The requests end.
CHECK_DEADLOCK FALSE
INVARIANTS
  TypeOK
  OneBudgetPerTeam
  AnswersAreHonest
  ForecastAgrees
  CostsAddUp
  SeriesAddsUp
PROPERTY PatchTouchesOnlyNamed
