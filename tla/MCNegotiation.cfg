SPECIFICATION FairSpec
CONSTANTS
  HaveTls = TRUE
  HaveZlib = TRUE
  Refusals <- AnyRefusal
  MaxLogins = 2
  MaxLogouts = 2
  PatientLogins = 1
INVARIANTS TypeOK EndsAgreeOnEncoding AuthAfterTls EndIsTold
PROPERTIES LoginSettles ImplementsLoginPhases
