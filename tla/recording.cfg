SPECIFICATION RunSpec
CONSTANTS
  Formats = 2
  Rates = 5
  Layouts = 2
  MaxTick = 2400
  Strides = {0, 1}
  EncoderMayThrow = TRUE
CHECK_DEADLOCK FALSE
INVARIANTS
  SearchTypeOK
  FirstWorkingConfig
  TypeOK
  NoEncoderLost
  AnnouncedOnceClosed
  ChunksCoverRecording
