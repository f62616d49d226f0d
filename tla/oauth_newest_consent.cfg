SPECIFICATION Spec
CONSTANTS
  c1 = c1
  c2 = c2
  c3 = c3
  app = app
  Connections = {c1, c2, c3}
  Apps = {app}
  AppOf <- OneApp
  MaxRequests = 2
  Loads <- Both
  Unnamed = Unnamed
  NoCall = NoCall
INVARIANTS
  NewestConsentSurvives
CHECK_DEADLOCK FALSE
