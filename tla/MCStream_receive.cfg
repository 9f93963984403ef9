CONSTANTS
  HEADER_SIZE = 2
  SEC_HEADER_SIZE = 1
  HEADER_STRUCT = 3
  MAX_UDP_WRITE_SIZE = 4
  RCV_BUFFER_START_SIZE = 5
  RCV_BUFFER_SLACK = 1
  SEQ_MOD = 16777216
  MAX_UDP = 6
  MAX_LOAD = 4
  BuffSizes = {0, 20}
  Packets <- MCPackets
  FirstSeqs <- MCFirstSeqs
  Bursts <- MCBursts
  Bundles <- MCBundles
SPECIFICATION Spec
INVARIANTS BufferIntact DataOfHeader
PROPERTIES OrderKept NothingSkipped
CHECK_DEADLOCK FALSE
