SPECIFICATION FairPlayer
CONSTANTS
  Total = 7
  Block = 2
  Channels = 2
  BytesPerValue = 2
  MaxSeeks = 4
  SeekMayFail = TRUE
  Damageable = {2, 6}
  SampleRate = 1500
  Positions = {0, 2, 4}
  MaxRequests = 4
CHECK_DEADLOCK FALSE
INVARIANTS
  PlayerTypeOK
  HeardInOrder
  PausesWithinABlock
  SeekIsKept
PROPERTIES
  PlayerEnds
