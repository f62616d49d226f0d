SPECIFICATION Spec
CONSTANTS
  ann = ann
  bob = bob
  Usernames = {ann, bob}
  MaxRequests = 6
  Loads <- Mixed
  ByEmail = ByEmail
  UserId = UserId
  NoCall = NoCall
  IdleTime = 1
  AbsoluteTime = 2
  HandoffTime = 1
  MaxTime = 2
INVARIANTS
  SignupIsGood
  SameAccountAgain
  EndIsFinal
  AgentComesBackByRace
  HandoffIsRedeemedOnce
PROPERTY PasswordIsKept
CHECK_DEADLOCK FALSE
