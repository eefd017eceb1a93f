SPECIFICATION FairSpec
CONSTANTS
  MaxRecordings = 1
  MaxErrors = 0
  EncoderMayThrow = FALSE
  WritersMayLag = FALSE
CHECK_DEADLOCK FALSE
PROPERTY
  StopKillsRecorder
