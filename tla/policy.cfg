SPECIFICATION Spec
CONSTANTS
  None = None
  Profile <- MCProfile
  MaxItems = 3
  StartSnapshot <- MCStart
  Requests <- PolicyRequests
CHECK_DEADLOCK FALSE
INVARIANTS SnapshotReadable DependenciesAcyclic LockedSchemaIsFrozen
PROPERTY RequiredSkipIsPrivileged
