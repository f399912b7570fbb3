SPECIFICATION Spec
CONSTANTS
  None = None
  t1 = t1
  t2 = t2
  c1 = c1
  c2 = c2
  m1 = m1
  Clients = {c1, c2}
  Maintainers = {}
  Crashable = {c1, c2}
  TaskIds = {t1}
  Submissions <- RivalSubmissions
  Targets = {"paused", "open", "cancelled", "completed"}
  Expectations = {None, 1}
  Content <- MCContent
  InitialContent <- MCInitialContent
  PolicyEligible <- MCMayPropose
  PolicyDecide <- MCDecide
  PolicyComplete <- MCMayComplete
  MaxAbsoluteAge <- AgeOne
  MaxNoProgressAge <- NoAge
  RebuildLimit = 1000
  ScanLimit = 1
  ReuseIds = FALSE
  MaxRevision = 3
  MaxNow = 1
SYMMETRY ClientSymmetry
INVARIANTS HistoryIsLinear ViewsAreHistory RowAgreesWithHistory DecisionsAreAccountable
PROPERTIES TerminalIsFinal RefusalChangesNothing TasksAreAtomic
