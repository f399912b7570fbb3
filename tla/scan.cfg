SPECIFICATION FairSpec
CONSTANTS
  None = None
  t1 = t1
  t2 = t2
  c1 = c1
  c2 = c2
  m1 = m1
  Clients = {c1}
  Maintainers = {m1}
  Crashable = {c1}
  TaskIds = {t1, t2}
  Submissions <- BrokenSubmissions
  Targets = {}
  Expectations = {None}
  Content <- MCContent
  InitialContent <- MCInitialContent
  PolicyEligible <- MCMayPropose
  PolicyDecide <- MCDecide
  PolicyComplete <- MCMayComplete
  MaxAbsoluteAge <- SecondAges
  MaxNoProgressAge <- NoAge
  RebuildLimit = 1000
  ScanLimit = 2
  ReuseIds = FALSE
  MaxRevision = 3
  MaxNow = 3
PROPERTY DueTaskExpires
