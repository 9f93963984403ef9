CONSTANTS
  HEADER_SIZE = 2
  SEC_HEADER_SIZE = 1
  BACKUP_SIZE = 3
  UINT32 = 16
  Files <- MCInOrderFiles
  Offsets <- MCInOrderOffsets
  BuffSizes = {3}
  Modes = {"READ", "READ_IN_ORDER"}
  RefTime <- MCRefTime
  CHUNK = 2
  SeekTimes = {2}
  MAX_ENTRIES = 6
SPECIFICATION IndexSpec
INVARIANTS IndexIsSortedPermutation InOrderOnce
CHECK_DEADLOCK FALSE
