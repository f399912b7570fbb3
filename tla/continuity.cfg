SPECIFICATION Spec
CONSTANTS
  N = 2
  Capability <- MCCapability
  Retention <- MCRetention
  Timeout = 1
  Lease = 1
  Margin = 2
  MaxRevisions = 6
  MaxAttempts = 3
  MaxRenewals = 1
  MaxLate = 1
  Attempts = {a1, a2}
  NoAttempt = NoAttempt
  HostDelay = 1
  MaxBack = 1
  MaxIdle = 0
  MaxTime = 7
SYMMETRY Symmetry
INVARIANTS
  TypeOK
  EffectAtMostOnce
  ResultsAreReal
  EffectsInOrder
  RoomToFinish
PROPERTY SettledIsFinal
CHECK_DEADLOCK FALSE
