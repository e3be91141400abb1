SPECIFICATION FairSpec
CONSTANTS
  Senders <- OnlyInitiator
  Closers <- OnlyInitiator
  MaxData = 3
  Early = FALSE
INVARIANT NoNullCall
CHECK_DEADLOCK FALSE
