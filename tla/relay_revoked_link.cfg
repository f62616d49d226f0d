SPECIFICATION Spec
CONSTANTS
  d1 = d1
  d2 = d2
  e1 = e1
  e2 = e2
  m1 = m1
  m2 = m2
  k1 = k1
  k2 = k2
  y1 = y1
  y2 = y2
  Executors = {e1}
  Desktops = {d1}
  Calls <- Retry
  Loads <- RetryOnly
  CommandIds = {m1}
  CorrelationIds = {k1}
  IdempotencyKeys = {y1}
  MaxConnections = 1
  MaxRoutes = 2
  MaxPending = 2
  MaxInFlight = 2
  MaxRate = 1
  MaxStreams = 1
  MaxLinks = 2
  MaxRevoked = 1
  NoCall = NoCall
  NoRow = NoRow
INVARIANTS
  RevokedHasNoLink
CHECK_DEADLOCK FALSE
