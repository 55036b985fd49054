SPECIFICATION OverlapSpec
CONSTANTS
  Runs = {r1}
  Workers = {w1, w2}
  Idle = Idle
  MaxSegments = 1
  MaxAttempts = 2
  LeaseTTL = 1
  Sweepers = {x1}
PROPERTY NoDoubleTransition
CHECK_DEADLOCK FALSE
