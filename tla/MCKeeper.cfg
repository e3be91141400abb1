SPECIFICATION FairSpec
CONSTANTS
  Stacks <- TwoStacks
  DomainAnswers = FALSE
  MaxQueue = 2
  MaxTroubles = 2
  MaxOutages = 1
  MaxUser = 1
INVARIANTS TypeOK FlagTellsTruth
PROPERTY ComesBack
CHECK_DEADLOCK FALSE
