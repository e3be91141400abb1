SPECIFICATION FairSpec
CONSTANTS
  S1 = S1  S2 = S2  S3 = S3
  Senders <- ThreeSenders
  NoSender = NoSender
  Modes <- EveryMode
  MaxStanzas = 2
  Pieces = 2
  Serial = TRUE
INVARIANTS BlocksContiguous ReturnedIsSent EncryptedOnce
PROPERTIES SendReturns
