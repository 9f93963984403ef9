CONSTANTS
  HEADER_SIZE = 2
  SEC_HEADER_SIZE = 1
  BACKUP_SIZE = 3
  UINT32 = 16
  Files <- MCInOrderFiles
  Offsets <- MCInOrderOffsets
  BuffSizes = {3}
  Modes = {"READ", "READ_IN_ORDER"}
  RefTime <- MCSeekRefTime
  CHUNK = 2
  SeekTimes = {8}
  MAX_ENTRIES = 6
SPECIFICATION IndexSpec
PROPERTIES SeekFindsTime
CHECK_DEADLOCK FALSE
