SPECIFICATION FairSpec
CONSTANTS
  Jobs = {j1, j2}
  NoJob = NoJob
  MaxAttempts = 3
  LeaseTTL = 2
INVARIANTS TypeOK RowsAgree HonestContinuation EffectWakeup
PROPERTIES OutcomeWrittenOnce LeaseNotStolen EffectEnds
CHECK_DEADLOCK FALSE
