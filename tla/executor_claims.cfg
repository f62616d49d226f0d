\* Every choice of three requests to an executor and a desktop, some of four.
SPECIFICATION FairSpec
CONSTANTS
  e1 = e1
  d1 = d1
  u1 = u1
  u2 = u2
  c1 = c1
  c2 = c2
  c3 = c3
  t1 = t1
  t2 = t2
  t3 = t3
  k1 = k1
  w1 = w1
  w2 = w2
  Executors = {e1}
  Desktops = {d1}
  Users = {u1, u2}
  ClaimIds = {c1, c2, c3}
  Tokens = {t1, t2, t3}
  Keys = {k1}
  Isolates = {w1, w2}
  MaxRequests = 4
  Loads <- Every
  Nobody = Nobody
  NoClaim = NoClaim
  NoToken = NoToken
  NoKey = NoKey
  NoCall = NoCall
  Website = Website
INVARIANTS
  IdentityAgrees
PROPERTIES
  KeepsOwnership
  RequestsSettle
CHECK_DEADLOCK FALSE
