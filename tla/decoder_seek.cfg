SPECIFICATION Spec
CONSTANTS
  Total = 6
  Block = 2
  Channels = 1
  BytesPerValue = 2
  MaxSeeks = 1
  SeekMayFail = FALSE
  Damageable = {}
CHECK_DEADLOCK FALSE
INVARIANT
  SeeksToSample
