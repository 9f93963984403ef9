CONSTANTS
  HEADER_SIZE = 2
  SEC_HEADER_SIZE = 1
  BACKUP_SIZE = 3
  UINT32 = 32
  Files <- MCRecFiles
  Offsets = {3}
  BuffSizes = {3}
  Modes = {"READ", "READ_IN_ORDER"}
  Content <- MCContent
  Channels = {1}
  TIME_LIMIT = 2
  INCREMENT = 1
  MAX_NODES = 1
SPECIFICATION RecSpec
INVARIANTS IndexIsRecorded IndexKeepsPlace MakeIndexFindsAll
PROPERTIES ReadIndexesReturns
CHECK_DEADLOCK FALSE
