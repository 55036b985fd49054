SPECIFICATION FairSpec
CONSTANTS
  Jobs = {j1, j2}
  NoJob = NoJob
  MaxAttempts = 2
  LeaseTTL = 1
PROPERTY ApprovedEffectEnds
CHECK_DEADLOCK FALSE
