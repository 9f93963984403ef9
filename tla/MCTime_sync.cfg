CONSTANTS
  HEADER_SIZE = 2
  SEC_HEADER_SIZE = 1
  BACKUP_SIZE = 3
  UINT32 = 32
  Files <- MCTimeFiles
  Offsets = {5}
  BuffSizes = {3}
  Modes = {"READ", "READ_IN_ORDER"}
  TICKS = 10000000
  FRAC32 = 1073741824
  TIME48 = 2000000000
  NTP_ONE = 128
  Stamps <- MCStamps
  Epoch <- MCEpoch
  SetTimes <- MCSetTimes
  Rels = {95000000}
  Limits = {0, 5}
SPECIFICATION TimeSpec
INVARIANTS SyncedClock TimeReadBack BestTime
PROPERTIES SyncKeepsPlace SyncFindsTime
CHECK_DEADLOCK FALSE
