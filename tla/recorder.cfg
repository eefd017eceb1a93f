SPECIFICATION FairSpec
CONSTANTS
  MaxRecordings = 2
  MaxErrors = 2
  EncoderMayThrow = TRUE
  WritersMayLag = TRUE
CHECK_DEADLOCK FALSE
INVARIANTS
  TypeOK
  NoOrphanThread
  StartFindsNoRecorder
  DeviceReleased
PROPERTIES
  StopReturnsOnceRunning
  ErrorEndsRecording
