SPECIFICATION Spec
CONSTANTS
  Threads = {main, t1}
  Main = main
  Kinds = {"edge", "call"}
  TASK_SIZE = 2
  BIN_SLOTS = 8
  CAPACITY = 1
  Slow = TRUE
  CALLS = 2
  NoEvent = NoEvent
  Wild = Wild
  NoOne = NoOne
  main = main
  t1 = t1
INVARIANT ProfileComplete
CHECK_DEADLOCK FALSE
