\* Repeated creates; launches of two machines racing two stops.
SPECIFICATION Spec
CONSTANTS
  u1 = u1
  u2 = u2
  s1 = s1
  k1 = k1
  Owners = {u1, u2}
  ClientIds = {s1}
  Keys = {k1}
  MaxRequests = 4
  Loads <- Mixed
  Nobody = Nobody
  NoKey = NoKey
  Generated = Generated
  NoCall = NoCall
INVARIANTS
  CreateIsIdempotent
  NoOrphans
CHECK_DEADLOCK FALSE
