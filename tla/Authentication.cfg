CONSTANTS
  Requests = {r1, r2}
  Kids = {k1, k2}
  Ttl = 2
  Timeout = 1
  MaxClock = 5
SPECIFICATION Spec
INVARIANTS WithdrawnKeysExpire RightTokensPass
SYMMETRY Symmetry
CHECK_DEADLOCK FALSE
