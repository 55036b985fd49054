SPECIFICATION FairSpec
CONSTANTS
  Runs = {r1}
  Workers = {w1, w2}
  Idle = Idle
  MaxSegments = 2
  MaxAttempts = 1
  LeaseTTL = 2
INVARIANTS
  WaitsFollowRun
  CancellationWins
PROPERTIES
  ImplementsAbstractRun
  EveryWaitEnds
CHECK_DEADLOCK FALSE
