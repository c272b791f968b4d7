SPECIFICATION FairSpec
CONSTANTS
  Req = {r1, r2, r3}
  Proxy = {r2, r3}
CHECK_DEADLOCK FALSE
PROPERTY
  DestructorReturns
