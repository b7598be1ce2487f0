SPECIFICATION ReportSpec
CONSTANTS
  p1 = p1
  p2 = p2
  Nothing = Nothing
  Malformed = Malformed
  NoModel = NoModel
  Unattributed = "unattributed"
  Passes = {p1, p2}
  Rules <- RuleSet
  NameRank <- Order
  SpendLogs <- Logs
  SharedCosts <- CostsOnly
  Collected <- Early
  Texts <- RawTexts
  Normalize <- Cleaned
  TopN = 3
  PassesWithReports = 1
  MaxPasses = 2
  MaxFailures = 1
SYMMETRY EitherPass
\* Arrivals, passes and the report end.
CHECK_DEADLOCK FALSE
INVARIANT ShareIsFraction
