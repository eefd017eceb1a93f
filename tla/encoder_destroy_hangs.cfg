SPECIFICATION FairSpec
CONSTANTS
  WriteBufferSize = 2
  WriteSizes = {1, 2}
  MaxSamples = 2
  Channels = 1
  RetryLimit = 3
  EncoderMayFail = FALSE
CHECK_DEADLOCK FALSE
PROPERTY
  DestroyReturns
