CONSTANTS
  Packets <- MCPackets
  MAX_COUNT = 5
  MAX_EXTRA = 2
  MAX_GOT = 12
  Streams <- MCStreams
  BYTE = 2
  WORD = 16
SPECIFICATION MCSpec
INVARIANTS DecodersTypeOK WalkReturnsMessages InsideData BusWordsFound FramesAreRecorded FramesAllFound
PROPERTIES StopIsFinal WalkEnds
CHECK_DEADLOCK FALSE
