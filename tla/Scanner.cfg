SPECIFICATION MCSpec
CONSTANTS
  SizeDataLength = 2
  SizeCasInfo = 1
  MaxFrameLength = 2
  Announced <- AnnouncedLengths
  MaxRequests = 1
  MaxDamage = 0
  Alphabet <- AllCharacters
  MaxText = 4
INVARIANT LiteralModeFollowed
CHECK_DEADLOCK FALSE
