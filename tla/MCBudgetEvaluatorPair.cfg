SPECIFICATION Spec
CONSTANTS
  Evaluators = {e1, e2}
  b1 = b1
  b2 = b2
  Budgets = {b1}
  NoBudget = NoBudget
  Thresholds = {50, 100}
  Terms <- TermsOfOne
  Null = Null
  Periods = 1
  MaxSpend <- SpendOf
  MaxFailures = 0
  SendCap = 2
  WatchSlack = FALSE
INVARIANT AnnouncedOnce
