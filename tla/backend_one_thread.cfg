SPECIFICATION FairSpec
CONSTANTS
  Threads = {main}
  Main = main
  Kinds = {"edge"}
  TASK_SIZE = 2
  BIN_SLOTS = 7
  CAPACITY = 1
  Slow = FALSE
  CALLS = 11
  NoEvent = NoEvent
  Wild = Wild
  NoOne = NoOne
  main = main
INVARIANT ProfileComplete
PROPERTY DestroyEnds
CHECK_DEADLOCK FALSE
