SPECIFICATION FairSpec
CONSTANTS
  C1 = C1  C2 = C2
  Callers <- TwoCallers
  Kinds <- EveryKind
  MaxIds = 2
  MaxDrops = 1
INVARIANTS ToldTruth NoLeftover OnlyOvertakenUntold
PROPERTIES ImplementsContract OutcomeTold
