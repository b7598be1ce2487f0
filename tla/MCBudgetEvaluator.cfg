SPECIFICATION FairSpec
CONSTANTS
  Evaluators = {e1}
  b1 = b1
  b2 = b2
  Budgets = {b1, b2}
  NoBudget = NoBudget
  Thresholds = {50, 100}
  Terms <- TermsOfBoth
  Null = Null
  Periods = 2
  MaxSpend <- SpendOf
  MaxFailures = 1
  SendCap = 1
  WatchSlack = FALSE
INVARIANTS
  TypeOK
  MarkFollowsSend
  AlertIsJustified
  AnnouncingInv
PROPERTIES
  AnnouncesUpwards
  MarkFallsOnlyAfterFault
  CrossingAnnounced
