CONSTANTS
  MAX_HANDLES = 2
  MAX_FDS = 3
SPECIFICATION Spec
INVARIANTS TouchesOwnFd HoldsOwnFd NoFdLeaked
