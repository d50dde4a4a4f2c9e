SPECIFICATION FairSpec
CONSTANTS
  Keys = {k1, k2, k3, k4}
  TUPLE_SIZE = 2
  HASHES = 4
  INIT_SIZE = 1
  MAX_SIZE = 4
  CALLS = 4
  NoKey = NoKey
  k1 = k1
  k2 = k2
  k3 = k3
  k4 = k4
INVARIANT NothingLost
INVARIANT WellPlaced
INVARIANT NoClashWhileMoving
PROPERTY IncrementEnds
CHECK_DEADLOCK FALSE
