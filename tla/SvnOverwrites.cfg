SPECIFICATION WriteSpec
CONSTANTS
  Providers = {"svn_direct"}
  MaxWriteAttempts = 1
  MaxOutside = 1
INVARIANT SvnRefusesWhenOutOfDate
CHECK_DEADLOCK FALSE
