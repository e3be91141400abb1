SPECIFICATION Spec
CONSTANTS
  A = A  N1 = N1  N2 = N2  G1 = G1  G2 = G2
  None = None
  Contacts <- OneContact
  Names <- TwoNames
  Groups <- OneGroup
  MaxCalls = 1
  MaxRemote = 2
  MaxLogins = 2
INVARIANTS TypeOK Mirrors FriendsAgree PresenceKnown
CHECK_DEADLOCK FALSE
PROPERTY EditsKeepTheRest
SYMMETRY Alike
