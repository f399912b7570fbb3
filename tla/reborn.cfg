SPECIFICATION Spec
CONSTANTS
  None = None
  t1 = t1
  t2 = t2
  c1 = c1
  c2 = c2
  m1 = m1
  Clients = {c1, c2}
  Maintainers = {}
  Crashable = {}
  TaskIds = {t1}
  Submissions <- ReuseSubmissions
  Targets = {"paused", "open"}
  Expectations = {None}
  Content <- MCContent
  InitialContent <- MCInitialContent
  PolicyEligible <- MCMayPropose
  PolicyDecide <- MCDecide
  PolicyComplete <- MCMayComplete
  MaxAbsoluteAge <- AgeTwo
  MaxNoProgressAge <- AgeOne
  RebuildLimit = 3
  ScanLimit = 1
  ReuseIds = TRUE
  MaxRevision = 4
  MaxNow = 2
SYMMETRY ClientSymmetry
INVARIANTS TypeOK HeadRevisionStored PauseAccountingAgrees ExpiryCitesDueRule
PROPERTIES HistoryIsAppendOnly
