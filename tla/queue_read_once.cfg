SPECIFICATION Spec
CONSTANTS
  Writers = {w1}
  Readers = {r1}
  QUEUE_SIZE = 3
  TRIES_MAX = 0
  Blocking = {TRUE}
  PUSHES = 2
  None = None
  w1 = w1
  r1 = r1
SYMMETRY ThreadSymmetry
INVARIANT EachReadOnce
