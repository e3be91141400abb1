SPECIFICATION Spec
CONSTANTS
  L1 = L1  L2 = L2  A1 = A1  A2 = A2
  LoginThreads <- TwoLogins
  AppThreads <- OneApp
  NoThread = NoThread
  MaxLogins = 2
  MaxLogouts = 1
  MaxSockets = 2
  MaxPlain = 0
  Kinds <- FewKinds
  Calm = FALSE
INVARIANTS TypeOK EndIsReported
PROPERTY ImplementsSocketUse
SYMMETRY Symmetry
