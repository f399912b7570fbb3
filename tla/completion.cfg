SPECIFICATION Spec
CONSTANTS
  None = None
  t1 = t1
  t2 = t2
  c1 = c1
  c2 = c2
  m1 = m1
  Clients = {c1, c2}
  Maintainers = {}
  Crashable = {c1}
  TaskIds = {t1}
  Submissions <- LateWorkSubmissions
  Targets = {"completed"}
  Expectations = {None}
  Content <- MCContent
  InitialContent <- MCInitialContent
  PolicyEligible <- MCMayPropose
  PolicyDecide <- MCDecide
  PolicyComplete <- MCMayComplete
  MaxAbsoluteAge <- NoAge
  MaxNoProgressAge <- NoAge
  RebuildLimit = 1000
  ScanLimit = 1
  ReuseIds = FALSE
  MaxRevision = 4
  MaxNow = 0
INVARIANT CompletedMeansGatesMet
