SPECIFICATION Spec
CONSTANTS
  a = a
  b = b
  Sock <- TwoSocks
  None = None
  Scripts <- MCScripts
  ShortHeader = 2
  MaxControl = 2
  MaxPayload = 5
  MaxSends = 2
INVARIANTS
  QueueIsWatched
  PreparedLives
  HeardIsSaid
  DeadlinesAreRight
PROPERTIES
  IsAChannel
CHECK_DEADLOCK FALSE
