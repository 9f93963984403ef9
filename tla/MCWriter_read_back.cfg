CONSTANTS
  HEADER_SIZE = 4
  SEC_HEADER_SIZE = 4
  SYNC_SIZE = 2
  BYTE = 8
  UINT32 = 4096
  Messages <- MCMessages
  TRUNCATES = FALSE
  MAX_SESSIONS = 2
  MAX_WRITES = 4
  MAX_FAILURES = 1
SPECIFICATION Spec
INVARIANTS ReadsBack OldOnlyBehind ChecksumReadBack
CHECK_DEADLOCK FALSE
