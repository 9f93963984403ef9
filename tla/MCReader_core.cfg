CONSTANTS
  HEADER_SIZE = 2
  SEC_HEADER_SIZE = 1
  BACKUP_SIZE = 3
  UINT32 = 16
  Files <- MCFilesCore
  Offsets <- MCOffsets
  BuffSizes = {1, 3}
  Modes = {"READ", "READ_IN_ORDER"}
SPECIFICATION Spec
INVARIANTS TypeOK PositionConsistent NeverAborts
PROPERTIES NoIntactPacketSkipped ReachesEof
