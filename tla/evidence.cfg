CONSTANTS
  Requests = {r1}
  Runs = {"run"}
  Workflows = {"workflow"}
  NoRequest = NoRequest
  MaxKeys = 3
SPECIFICATION Spec
INVARIANTS TypeOK EvidenceRecoverable ControlRecoverable OpenServiceReads OldKeyRetired
