SPECIFICATION FairSpec
CONSTANTS
  Runs = {r1}
  Workers = {w1, w2}
  Idle = Idle
  MaxSegments = 1
  MaxAttempts = 3
  LeaseTTL = 1
INVARIANTS
  TypeOK
  AtMostOneExecutor
  ExecutionOwnership
  WakeupPending
  SessionsResume
PROPERTIES
  HistoryIsFinal
  ExecutionEnds
CHECK_DEADLOCK FALSE
