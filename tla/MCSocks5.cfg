SPECIFICATION FairSpec
CONSTANTS
  Senders <- OnlyInitiator
  Closers <- OnlyInitiator
  MaxData = 3
  Early = FALSE
INVARIANTS TypeOK NothingLost
PROPERTIES ImplementsContract TransferOpens
CHECK_DEADLOCK FALSE
