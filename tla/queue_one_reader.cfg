SPECIFICATION WritersFairSpec
CONSTANTS
  Writers = {w1, w2}
  Readers = {r1}
  QUEUE_SIZE = 3
  TRIES_MAX = 1
  Blocking = {TRUE}
  PUSHES = 2
  None = None
  w1 = w1
  w2 = w2
  r1 = r1
INVARIANT TypeOK
INVARIANT PointersAgree
INVARIANT UnreadKept
INVARIANT WrongOnlyIfRaced
PROPERTY ImplementsQueue
PROPERTY PushReturns
PROPERTY AcceptedDelivered
