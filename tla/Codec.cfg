SPECIFICATION MCSpec
CONSTANTS
  SizeDataLength = 2
  SizeCasInfo = 1
  MaxFrameLength = 2
  Announced <- AnnouncedLengths
  MaxRequests = 3
  MaxDamage = 2
  Alphabet <- AllCharacters
  MaxText = 5
INVARIANTS
  FramesIntact
  RepliesReadAsMeant
  BoundAsWritten
CHECK_DEADLOCK FALSE
