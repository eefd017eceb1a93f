SPECIFICATION Spec
CONSTANTS
  Total = 6
  Block = 2
  Channels = 2
  BytesPerValue = 2
  MaxSeeks = 0
  SeekMayFail = FALSE
  Damageable = {}
CHECK_DEADLOCK FALSE
INVARIANT
  PositionInSamples
