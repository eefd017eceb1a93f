SPECIFICATION FairRoundTrip
CONSTANTS
  Block = 2
  MaxSamples = 7
  EntrySizes = {1, 3}
  RetryLimit = 3
  FrameSizes = {8, 90}
  MetadataBytes = 10
  first_frame_offset = 10
  Chunk = 60
  GuessBytes = 24
  SeekMayFail = TRUE
  TailBytes = {1, 2}
CHECK_DEADLOCK FALSE
INVARIANTS
  RoundTripTypeOK
  NumbersGivePositions
  FifoHoldsSignal
  NothingLost
  TotalIsTrue
  BoundsHoldTarget
  FindsTarget
  HearsWhatWasRecorded
PROPERTIES
  WriteFailureIsFinal
  CallsReturn
  SeekReturns
