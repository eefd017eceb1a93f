SPECIFICATION FairSpec
CONSTANTS
  MaxRecordings = 2
  MaxCalls = 3
  Objects = {m1, m2}
  Words = {w1, w2}
CHECK_DEADLOCK FALSE
INVARIANTS
  TypeOK
  OneArchivePerFile
PROPERTIES
  FiledUnderOwnRecording
  AnnouncedIsAnswered
