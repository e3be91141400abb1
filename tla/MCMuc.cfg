SPECIFICATION FairSpec
CONSTANTS
  R1 = R1
  Rooms <- OneRoom
  MaxObjs = 2
  MaxCalls = 4
  MaxEnds = 1
INVARIANTS JoinedIsIn NoGhost ToldOnce CreationInHand
PROPERTY CreatedIsConfigured
