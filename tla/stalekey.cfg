CONSTANTS
  Requests = {r1, r2}
  Runs = {"run"}
  Workflows = {"workflow"}
  NoRequest = NoRequest
  MaxKeys = 2
SPECIFICATION Spec
INVARIANT EvidenceRecoverable
