CONSTANTS
  PullCount = 2
  Jobs = {1, 2}
  MaxMoves = 1
  MaxEvents = 3
  MaxCrashes = 1
SPECIFICATION MCSpec
CHECK_DEADLOCK FALSE
INVARIANTS
  TypeOK
  MergedIsTrue
  AuditedWasDone
PROPERTIES
  NoStaleReconciliation
  MergeIsRecorded
