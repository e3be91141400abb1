SPECIFICATION Spec
CONSTANTS
  L1 = L1  L2 = L2  A1 = A1  A2 = A2
  LoginThreads <- OneLogin
  AppThreads <- OneApp
  NoThread = NoThread
  MaxLogins = 1
  MaxLogouts = 1
  MaxSockets = 1
  MaxPlain = 1
  Kinds <- AllKinds
  Calm = TRUE
INVARIANT LogoutDisconnects
