SPECIFICATION FairSpec
CONSTANTS
  WriteBufferSize = 2
  WriteSizes = {1, 2, 3}
  MaxSamples = 3
  Channels = 1
  RetryLimit = 3
  EncoderMayFail = TRUE
CHECK_DEADLOCK FALSE
INVARIANTS
  TypeOK
  NoBufferOverrun
  AccountedForAtClose
PROPERTIES
  StreamSpec
  DestroyReturnsOnceWriterWaited
  SignalReachesEncoder
