SPECIFICATION Spec
CONSTANTS
  Stanzas <- SomeStanzas
  DeclQuote <- DoubleQuote
  Quote <- DoubleQuote
  ReadSizes <- SmallReads
  MaxItems = 3
  MaxBreaks = 1
  MaxConnections = 3
INVARIANTS
  TypeOK
  HeardExactly
PROPERTIES
  RefusedOnlyAfterCut
CHECK_DEADLOCK FALSE
