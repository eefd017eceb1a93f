SPECIFICATION Spec
CONSTANTS
  WriteBufferSize = 2
  WriteSizes = {1, 2}
  MaxSamples = 3
  Channels = 2
  RetryLimit = 3
  EncoderMayFail = FALSE
CHECK_DEADLOCK FALSE
INVARIANT
  EncodesStoredValues
