SPECIFICATION FairSpec
CONSTANTS
  Req = {r1, r2, r3, r4}
  Proxy = {r2, r3}
CHECK_DEADLOCK FALSE
INVARIANTS
  TypeOK
  SleepsOnlyWhenIdle
  ServedInOrder
PROPERTIES
  RequestsAreAnswered
