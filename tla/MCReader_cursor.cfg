CONSTANTS
  HEADER_SIZE = 2
  SEC_HEADER_SIZE = 1
  BACKUP_SIZE = 3
  UINT32 = 16
  Files <- MCFilesRec
  Offsets <- MCOffsets
  BuffSizes = {1, 3}
  Modes = {"READ"}
SPECIFICATION Spec
PROPERTIES ImplementsCursor PrevIsPredecessor LastMsgFindsLast
