SPECIFICATION FairSpec
CONSTANTS
  Size = 4
  MaxBytes = 13
INVARIANTS TypeOK RingIntact IdleMeansSent
PROPERTIES ImplementsStream EveryByteLeaves
