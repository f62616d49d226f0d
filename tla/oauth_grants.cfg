SPECIFICATION Spec
CONSTANTS
  c1 = c1
  c2 = c2
  c3 = c3
  app = app
  Connections = {c1, c2, c3}
  Apps = {app}
  AppOf <- OneApp
  MaxRequests = 6
  Loads <- Mixed
  Unnamed = Unnamed
  NoCall = NoCall
INVARIANTS
  SingleChain
  RevocationHolds
  SupersedesOlder
CHECK_DEADLOCK FALSE
