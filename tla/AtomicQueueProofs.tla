-------------------------- MODULE AtomicQueueProofs --------------------------
(***************************************************************************)
(* Theorems about the event queue, for every set of writers and readers,   *)
(* every size of the ring and every number of tries: its lock and its      *)
(* counters, its refinement of a bounded FIFO queue, then what is in the   *)
(* slots of the ring, where the two pointers stand, that no unread task is *)
(* overwritten, and what a lone reader copies.                             *)
(***************************************************************************)
EXTENDS AtomicQueue, TLAPS, FiniteSetTheorems

-----------------------------------------------------------------------------
(* The inductive invariant *)

\* A thread is between lock and unlock exactly while it owns the mutex.
LocksHeld ==
  /\ \A p \in Writers : pc[p] \in WriterLocs <=> QL_writer = p
  /\ \A q \in Readers : pc[q] \in LockedReaderLocs <=> QL_reader = q

\* The room a writer saw cannot go away: only it may increment entries.
RoomStays == \A p \in Writers : pc[p] \in {"push_w", "push_n"} => entries < QUEUE_SIZE - 1

\* The task a reader saw cannot go away: only it may decrement entries.
TaskStays == \A q \in Readers : pc[q] \in {"pop_r", "pop_n"} => entries > 0

\* A writer inside push has a task to push.
PushingHasTask == \A p \in Writers : pc[p] \in WriterLocs => next[p] <= PUSHES

\* entries counts the tasks that were counted in and not yet counted out.
Accounted == entries = Len(log) - taken

Guarded == LocksHeld /\ RoomStays /\ TaskStays /\ PushingHasTask /\ Accounted
QueueInv == TypeOK /\ Guarded

USE ThreadsAssumption, NoneAssumption, SizeAssumption

\* The pointers wrap inside the array.
LEMMA WrapInArray == ASSUME NEW i \in Offset PROVE Wrap(i) \in Offset
  BY DEF Wrap, Offset

\* The task a writer pushes is one of the tasks.
LEMMA NewTaskType ==
  ASSUME NEW p \in Writers, next[p] \in 1..PUSHES PROVE NewTask(p) \in Task
  BY DEF NewTask, Task

\* Whatever a caller passes for "block", its tries are within bounds.
LEMMA TriesType ==
  ASSUME NEW p \in Threads, left \in [Threads -> 0..TRIES_MAX], SetTries(p)
  PROVE  left' \in [Threads -> 0..TRIES_MAX]
  <1>1. PICK block \in Blocking :
          left' = [left EXCEPT ![p] = IF block THEN TRIES_MAX ELSE 0]
    BY DEF SetTries
  <1>2. (IF block THEN TRIES_MAX ELSE 0) \in 0..TRIES_MAX
    OBVIOUS
  <1> QED
    BY <1>1

\* The queue starts with nothing locked and nothing counted.
LEMMA QueueInvInit == Init => QueueInv
  <1> SUFFICES ASSUME Init PROVE QueueInv
    OBVIOUS
  <1> USE DEF Init
  <1>1. TypeOK
     BY DEF TypeOK, SharedType, LocationType, LocalType, HistoryType, Offset, Threads,
       Whole
  <1>2. LocksHeld
    BY DEF LocksHeld, WriterLocs, LockedReaderLocs
  <1>3. RoomStays /\ TaskStays /\ Accounted /\ PushingHasTask
    BY DEF RoomStays, TaskStays, Accounted, PushingHasTask, WriterLocs
  <1> QED
    BY <1>1, <1>2, <1>3 DEF QueueInv, Guarded

\* A step of push preserves the invariant.
LEMMA PushPreserves ==
  ASSUME QueueInv, NEW p \in Writers, PushLock(p) \/ PushStep(p)
  PROVE  QueueInv'
  <1> USE DEF QueueInv, TypeOK, Guarded, Threads, Goto, shared, history
  <1>1. CASE PushLock(p)
    <2>2. SharedType'
      BY <1>1 DEF PushLock, SharedType, LocksHeld
    <2>3. LocationType'
      BY <1>1 DEF PushLock, LocationType, WriterLocs
    <2>4. LocalType'
      BY <1>1, TriesType DEF PushLock, LocalType, SharedType
    <2>5. HistoryType'
      BY <1>1 DEF PushLock, HistoryType
    <2>6. LocksHeld'
      BY <1>1 DEF PushLock, LocksHeld, LocationType, WriterLocs
    <2>7. (RoomStays /\ TaskStays)'
      BY <1>1 DEF PushLock, RoomStays, TaskStays, LocksHeld, LocationType, SharedType
    <2>8. PushingHasTask'
      BY <1>1 DEF PushLock, PushingHasTask
    <2>9. Accounted'
      BY <1>1 DEF PushLock, Accounted
    <2> QED BY <2>2, <2>3, <2>4, <2>5, <2>6, <2>7, <2>8, <2>9
  <1>2. CASE PushLoadRead(p)
    <2>2. SharedType'
      BY <1>2 DEF PushLoadRead, SharedType, LocksHeld
    <2>3. LocationType'
      BY <1>2 DEF PushLoadRead, LocationType, WriterLocs
    <2>4. LocalType'
      BY <1>2 DEF PushLoadRead, LocalType, SharedType
    <2>5. HistoryType'
      BY <1>2 DEF PushLoadRead, HistoryType
    <2>6. LocksHeld'
      BY <1>2 DEF PushLoadRead, LocksHeld, WriterLocs
    <2>7. (RoomStays /\ TaskStays)'
      BY <1>2 DEF PushLoadRead, RoomStays, TaskStays, LocksHeld, LocationType, SharedType
    <2>8. PushingHasTask'
      BY <1>2 DEF PushLoadRead, PushingHasTask, LocationType
    <2>9. Accounted'
      BY <1>2 DEF PushLoadRead, Accounted
    <2> QED BY <2>2, <2>3, <2>4, <2>5, <2>6, <2>7, <2>8, <2>9
  <1>3. CASE PushRoom(p)
    <2>2. SharedType'
      BY <1>3 DEF PushRoom, SharedType, LocksHeld
    <2>3. LocationType'
      BY <1>3 DEF PushRoom, LocationType, WriterLocs
    <2>4. LocalType'
      BY <1>3 DEF PushRoom, LocalType
    <2>5. HistoryType'
      BY <1>3 DEF PushRoom, HistoryType
    <2>6. LocksHeld'
      BY <1>3 DEF PushRoom, LocksHeld, WriterLocs
    <2>7. (RoomStays /\ TaskStays)'
       BY <1>3 DEF PushRoom, RoomStays, TaskStays, LocksHeld, LocationType,
         SharedType, Offset, full
    <2>8. PushingHasTask'
      BY <1>3 DEF PushRoom, PushingHasTask, LocationType
    <2>9. Accounted'
      BY <1>3 DEF PushRoom, Accounted
    <2> QED BY <2>2, <2>3, <2>4, <2>5, <2>6, <2>7, <2>8, <2>9
  <1>4. CASE PushRetry(p)
    <2>2. SharedType'
      BY <1>4 DEF PushRetry, SharedType, LocksHeld
    <2>3. LocationType'
      BY <1>4 DEF PushRetry, LocationType, WriterLocs
    <2>4. LocalType'
      BY <1>4 DEF PushRetry, LocalType
    <2>5. HistoryType'
      BY <1>4 DEF PushRetry, HistoryType
    <2>6. LocksHeld'
      BY <1>4 DEF PushRetry, LocksHeld, WriterLocs
    <2>7. (RoomStays /\ TaskStays)'
      BY <1>4 DEF PushRetry, RoomStays, TaskStays, LocksHeld, LocationType, SharedType
    <2>8. PushingHasTask'
      BY <1>4 DEF PushRetry, PushingHasTask, LocationType
    <2>9. Accounted'
      BY <1>4 DEF PushRetry, Accounted
    <2> QED BY <2>2, <2>3, <2>4, <2>5, <2>6, <2>7, <2>8, <2>9
  <1>5. CASE PushGiveUp(p)
    <2>2. SharedType'
      BY <1>5 DEF PushGiveUp, SharedType, LocksHeld
    <2>3. LocationType'
      BY <1>5 DEF PushGiveUp, LocationType
    <2>4. LocalType'
      BY <1>5 DEF PushGiveUp, LocalType, PushingHasTask, WriterLocs
    <2>5. HistoryType'
      BY <1>5 DEF PushGiveUp, HistoryType
    <2>6. LocksHeld'
      BY <1>5 DEF PushGiveUp, LocksHeld, LocationType, WriterLocs
    <2>7. (RoomStays /\ TaskStays)'
      BY <1>5 DEF PushGiveUp, RoomStays, TaskStays, LocksHeld, LocationType, SharedType
    <2>8. PushingHasTask'
      BY <1>5 DEF PushGiveUp, PushingHasTask, LocationType, WriterLocs
    <2>9. Accounted'
      BY <1>5 DEF PushGiveUp, Accounted
    <2> QED BY <2>2, <2>3, <2>4, <2>5, <2>6, <2>7, <2>8, <2>9
  <1>6. CASE PushAdvance(p)
    <2>2. SharedType'
      BY <1>6, WrapInArray DEF PushAdvance, SharedType, LocksHeld
    <2>3. LocationType'
      BY <1>6 DEF PushAdvance, LocationType, WriterLocs
    <2>4. LocalType'
      BY <1>6 DEF PushAdvance, LocalType
    <2>5. HistoryType'
      BY <1>6 DEF PushAdvance, HistoryType
    <2>6. LocksHeld'
      BY <1>6 DEF PushAdvance, LocksHeld, WriterLocs
    <2>7. (RoomStays /\ TaskStays)'
      BY <1>6 DEF PushAdvance, RoomStays, TaskStays, LocksHeld, LocationType, SharedType
    <2>8. PushingHasTask'
      BY <1>6 DEF PushAdvance, PushingHasTask, LocationType
    <2>9. Accounted'
      BY <1>6 DEF PushAdvance, Accounted
    <2> QED BY <2>2, <2>3, <2>4, <2>5, <2>6, <2>7, <2>8, <2>9
  <1>7. CASE PushCount(p)
    <2>1. NewTask(p) \in Task
      BY <1>7, NewTaskType DEF PushCount, PushingHasTask, LocalType, WriterLocs
    <2>2. SharedType'
      BY <1>7 DEF PushCount, SharedType, LocksHeld, RoomStays, Offset
    <2>3. LocationType'
      BY <1>7 DEF PushCount, LocationType, WriterLocs
    <2>4. LocalType'
      BY <1>7 DEF PushCount, LocalType
    <2>5. HistoryType'
      BY <1>7, <2>1 DEF PushCount, HistoryType
    <2>6. LocksHeld'
      BY <1>7 DEF PushCount, LocksHeld, WriterLocs
    <2>7. (RoomStays /\ TaskStays)'
       BY <1>7 DEF PushCount, RoomStays, TaskStays, LocksHeld, LocationType,
         SharedType, Offset, WriterLocs
    <2>8. PushingHasTask'
      BY <1>7 DEF PushCount, PushingHasTask, LocationType
    <2>9. Accounted'
      BY <1>7 DEF PushCount, Accounted, HistoryType
    <2> QED BY <2>2, <2>3, <2>4, <2>5, <2>6, <2>7, <2>8, <2>9
  <1>8. CASE PushStore(p)
    <2>1. NewTask(p) \in Task
      BY <1>8, NewTaskType DEF PushStore, PushingHasTask, LocalType, WriterLocs
    <2>2. SharedType'
       BY <1>8, <2>1, SMTT(30) DEF PushStore, SharedType, LocksHeld, RoomStays, TaskStays,
         Offset, LocalType
    <2>3. LocationType'
      BY <1>8 DEF PushStore, LocationType
    <2>4. LocalType'
      BY <1>8 DEF PushStore, LocalType
    <2>5. HistoryType'
      BY <1>8 DEF PushStore, HistoryType
    <2>6. LocksHeld'
      BY <1>8 DEF PushStore, LocksHeld
    <2>7. (RoomStays /\ TaskStays)'
      BY <1>8 DEF PushStore, RoomStays, TaskStays, LocksHeld, LocationType, SharedType
    <2>8. PushingHasTask'
      BY <1>8 DEF PushStore, PushingHasTask
    <2>9. Accounted'
      BY <1>8 DEF PushStore, Accounted
    <2> QED BY <2>2, <2>3, <2>4, <2>5, <2>6, <2>7, <2>8, <2>9
  <1>9. CASE PushReturn(p)
    <2>2. SharedType'
      BY <1>9 DEF PushReturn, SharedType, LocksHeld
    <2>3. LocationType'
      BY <1>9 DEF PushReturn, LocationType
    <2>4. LocalType'
      BY <1>9 DEF PushReturn, LocalType, PushingHasTask, WriterLocs
    <2>5. HistoryType'
      BY <1>9 DEF PushReturn, HistoryType
    <2>6. LocksHeld'
      BY <1>9 DEF PushReturn, LocksHeld, LocationType, WriterLocs
    <2>7. (RoomStays /\ TaskStays)'
      BY <1>9 DEF PushReturn, RoomStays, TaskStays, LocksHeld, LocationType, SharedType
    <2>8. PushingHasTask'
      BY <1>9 DEF PushReturn, PushingHasTask, LocationType, WriterLocs
    <2>9. Accounted'
      BY <1>9 DEF PushReturn, Accounted
    <2> QED BY <2>2, <2>3, <2>4, <2>5, <2>6, <2>7, <2>8, <2>9
  <1> QED
    BY <1>1, <1>2, <1>3, <1>4, <1>5, <1>6, <1>7, <1>8, <1>9 DEF PushStep

\* A step of pop preserves the invariant.
LEMMA PopPreserves ==
  ASSUME QueueInv, NEW q \in Readers, PopLock(q) \/ PopStep(q)
  PROVE  QueueInv'
  <1> USE DEF QueueInv, TypeOK, Guarded, Threads, Goto, shared, history
  <1>1. CASE PopLock(q)
    <2>2. SharedType'
      BY <1>1 DEF PopLock, SharedType, LocksHeld
    <2>3. LocationType'
      BY <1>1 DEF PopLock, LocationType, ReaderLocs, LockedReaderLocs
    <2>4. LocalType'
      BY <1>1, TriesType DEF PopLock, LocalType, SharedType
    <2>5. HistoryType'
      BY <1>1 DEF PopLock, HistoryType
    <2>6. LocksHeld'
      BY <1>1 DEF PopLock, LocksHeld, LocationType, LockedReaderLocs
    <2>7. (RoomStays /\ TaskStays)'
      BY <1>1 DEF PopLock, RoomStays, TaskStays, LocksHeld, LocationType, SharedType
    <2>8. PushingHasTask'
      BY <1>1 DEF PopLock, PushingHasTask
    <2>9. Accounted'
      BY <1>1 DEF PopLock, Accounted
    <2> QED BY <2>2, <2>3, <2>4, <2>5, <2>6, <2>7, <2>8, <2>9
  <1>2. CASE PopLoadWrite(q)
    <2>2. SharedType'
      BY <1>2 DEF PopLoadWrite, SharedType, LocksHeld
    <2>3. LocationType'
      BY <1>2 DEF PopLoadWrite, LocationType, ReaderLocs, LockedReaderLocs
    <2>4. LocalType'
      BY <1>2 DEF PopLoadWrite, LocalType, SharedType
    <2>5. HistoryType'
      BY <1>2 DEF PopLoadWrite, HistoryType
    <2>6. LocksHeld'
      BY <1>2 DEF PopLoadWrite, LocksHeld, LockedReaderLocs
    <2>7. (RoomStays /\ TaskStays)'
      BY <1>2 DEF PopLoadWrite, RoomStays, TaskStays, LocksHeld, LocationType, SharedType
    <2>8. PushingHasTask'
      BY <1>2 DEF PopLoadWrite, PushingHasTask
    <2>9. Accounted'
      BY <1>2 DEF PopLoadWrite, Accounted
    <2> QED BY <2>2, <2>3, <2>4, <2>5, <2>6, <2>7, <2>8, <2>9
  <1>3. CASE PopFound(q)
    <2>2. SharedType'
      BY <1>3 DEF PopFound, SharedType, LocksHeld
    <2>3. LocationType'
      BY <1>3 DEF PopFound, LocationType, ReaderLocs, LockedReaderLocs
    <2>4. LocalType'
      BY <1>3 DEF PopFound, LocalType
    <2>5. HistoryType'
      BY <1>3 DEF PopFound, HistoryType
    <2>6. LocksHeld'
      BY <1>3 DEF PopFound, LocksHeld, LockedReaderLocs
    <2>7. (RoomStays /\ TaskStays)'
       BY <1>3 DEF PopFound, RoomStays, TaskStays, LocksHeld, LocationType,
         SharedType, Offset, empty
    <2>8. PushingHasTask'
      BY <1>3 DEF PopFound, PushingHasTask
    <2>9. Accounted'
      BY <1>3 DEF PopFound, Accounted
    <2> QED BY <2>2, <2>3, <2>4, <2>5, <2>6, <2>7, <2>8, <2>9
  <1>4. CASE PopRetry(q)
    <2>2. SharedType'
      BY <1>4 DEF PopRetry, SharedType, LocksHeld
    <2>3. LocationType'
      BY <1>4 DEF PopRetry, LocationType, ReaderLocs, LockedReaderLocs
    <2>4. LocalType'
      BY <1>4 DEF PopRetry, LocalType
    <2>5. HistoryType'
      BY <1>4 DEF PopRetry, HistoryType
    <2>6. LocksHeld'
      BY <1>4 DEF PopRetry, LocksHeld, LockedReaderLocs
    <2>7. (RoomStays /\ TaskStays)'
      BY <1>4 DEF PopRetry, RoomStays, TaskStays, LocksHeld, LocationType, SharedType
    <2>8. PushingHasTask'
      BY <1>4 DEF PopRetry, PushingHasTask
    <2>9. Accounted'
      BY <1>4 DEF PopRetry, Accounted
    <2> QED BY <2>2, <2>3, <2>4, <2>5, <2>6, <2>7, <2>8, <2>9
  <1>5. CASE PopGiveUp(q)
    <2>2. SharedType'
      BY <1>5 DEF PopGiveUp, SharedType, LocksHeld
    <2>3. LocationType'
      BY <1>5 DEF PopGiveUp, LocationType
    <2>4. LocalType'
      BY <1>5 DEF PopGiveUp, LocalType
    <2>5. HistoryType'
      BY <1>5 DEF PopGiveUp, HistoryType
    <2>6. LocksHeld'
      BY <1>5 DEF PopGiveUp, LocksHeld, LocationType, LockedReaderLocs
    <2>7. (RoomStays /\ TaskStays)'
      BY <1>5 DEF PopGiveUp, RoomStays, TaskStays, LocksHeld, LocationType, SharedType
    <2>8. PushingHasTask'
      BY <1>5 DEF PopGiveUp, PushingHasTask
    <2>9. Accounted'
      BY <1>5 DEF PopGiveUp, Accounted
    <2> QED BY <2>2, <2>3, <2>4, <2>5, <2>6, <2>7, <2>8, <2>9
  <1>6. CASE PopAdvance(q)
    <2>2. SharedType'
      BY <1>6, WrapInArray DEF PopAdvance, SharedType, LocksHeld
    <2>3. LocationType'
      BY <1>6 DEF PopAdvance, LocationType, ReaderLocs, LockedReaderLocs
    <2>4. LocalType'
      BY <1>6 DEF PopAdvance, LocalType
    <2>5. HistoryType'
      BY <1>6 DEF PopAdvance, HistoryType
    <2>6. LocksHeld'
      BY <1>6 DEF PopAdvance, LocksHeld, LockedReaderLocs
    <2>7. (RoomStays /\ TaskStays)'
      BY <1>6 DEF PopAdvance, RoomStays, TaskStays, LocksHeld, LocationType, SharedType
    <2>8. PushingHasTask'
      BY <1>6 DEF PopAdvance, PushingHasTask
    <2>9. Accounted'
      BY <1>6 DEF PopAdvance, Accounted
    <2> QED BY <2>2, <2>3, <2>4, <2>5, <2>6, <2>7, <2>8, <2>9
  <1>7. CASE PopCount(q)
    <2>2. SharedType'
      BY <1>7 DEF PopCount, SharedType, LocksHeld, TaskStays, Offset
    <2>3. LocationType'
      BY <1>7 DEF PopCount, LocationType, ReaderLocs
    <2>4. LocalType'
      BY <1>7 DEF PopCount, LocalType
    <2>5. HistoryType'
      BY <1>7 DEF PopCount, HistoryType
    <2>6. LocksHeld'
      BY <1>7 DEF PopCount, LocksHeld, LocationType, LockedReaderLocs
    <2>7. (RoomStays /\ TaskStays)'
       BY <1>7 DEF PopCount, RoomStays, TaskStays, LocksHeld, LocationType,
         SharedType, Offset, LockedReaderLocs
    <2>8. PushingHasTask'
      BY <1>7 DEF PopCount, PushingHasTask
    <2>9. Accounted'
      BY <1>7 DEF PopCount, Accounted, HistoryType
    <2> QED BY <2>2, <2>3, <2>4, <2>5, <2>6, <2>7, <2>8, <2>9
  <1>8. CASE PopCopy(q)
    <2>2. SharedType'
      BY <1>8 DEF PopCopy, SharedType, LocksHeld
    <2>3. LocationType'
      BY <1>8 DEF PopCopy, LocationType
    <2>4. LocalType'
      BY <1>8 DEF PopCopy, LocalType, SharedType
    <2>5. HistoryType'
      BY <1>8 DEF PopCopy, HistoryType
    <2>6. LocksHeld'
      BY <1>8 DEF PopCopy, LocksHeld
    <2>7. (RoomStays /\ TaskStays)'
      BY <1>8 DEF PopCopy, RoomStays, TaskStays, LocksHeld, LocationType, SharedType
    <2>8. PushingHasTask'
      BY <1>8 DEF PopCopy, PushingHasTask
    <2>9. Accounted'
      BY <1>8 DEF PopCopy, Accounted
    <2> QED BY <2>2, <2>3, <2>4, <2>5, <2>6, <2>7, <2>8, <2>9
  <1>9. CASE PopReturn(q)
    <2>2. SharedType'
      BY <1>9 DEF PopReturn, SharedType, LocksHeld
    <2>3. LocationType'
      BY <1>9 DEF PopReturn, LocationType
    <2>4. LocalType'
      BY <1>9 DEF PopReturn, LocalType
    <2>5. HistoryType'
      BY <1>9 DEF PopReturn, HistoryType
    <2>6. LocksHeld'
      BY <1>9 DEF PopReturn, LocksHeld, LockedReaderLocs
    <2>7. (RoomStays /\ TaskStays)'
      BY <1>9 DEF PopReturn, RoomStays, TaskStays, LocksHeld, LocationType, SharedType
    <2>8. PushingHasTask'
      BY <1>9 DEF PopReturn, PushingHasTask
    <2>9. Accounted'
      BY <1>9 DEF PopReturn, Accounted
    <2> QED BY <2>2, <2>3, <2>4, <2>5, <2>6, <2>7, <2>8, <2>9
  <1> QED
    BY <1>1, <1>2, <1>3, <1>4, <1>5, <1>6, <1>7, <1>8, <1>9 DEF PopStep

\* The invariant holds in every reachable state.
THEOREM QueueInvariance == Spec => []QueueInv
  <1>1. QueueInv /\ [Next]_vars => QueueInv'
    <2> SUFFICES ASSUME QueueInv, [Next]_vars PROVE QueueInv'
      OBVIOUS
    <2>1. CASE Next
      BY <2>1, PushPreserves, PopPreserves DEF Next
    <2>2. CASE UNCHANGED vars
       BY <2>2 DEF vars, shared, history, QueueInv, Guarded, TypeOK, SharedType,
         LocationType, LocalType, HistoryType, LocksHeld, RoomStays, TaskStays,
         Accounted, PushingHasTask
    <2> QED BY <2>1, <2>2
  <1> QED
    BY <1>1, QueueInvInit, PTL DEF Spec

\* Type correctness; with it, entries never leaves 0..QUEUE_SIZE-1: the ring is
\* never overfull and the counter never underflows (AtomicQueue.cpp:51, 116).
THEOREM TypeCorrect == Spec => []TypeOK
  BY QueueInvariance, PTL DEF QueueInv

-----------------------------------------------------------------------------
(* The refinement *)

\* push takes effect at entries++, where there is room for the task.
LEMMA CountIsAccept ==
  ASSUME QueueInv, NEW p \in Writers, PushCount(p) PROVE Q!Accept(NewTask(p))
  <1>1. entries < QUEUE_SIZE - 1
    BY DEF QueueInv, Guarded, RoomStays, PushCount
  <1> QED
    BY <1>1 DEF Q!Accept, PushCount, QueueInv, Guarded, Accounted

\* pop takes effect at entries--, where a task waits.
LEMMA CountIsDeliver ==
  ASSUME QueueInv, NEW q \in Readers, PopCount(q) PROVE Q!Deliver
  <1>1. entries > 0
    BY DEF QueueInv, Guarded, TaskStays, PopCount
  <1> QED
    BY <1>1 DEF Q!Deliver, PopCount, QueueInv, Guarded, Accounted, TypeOK, HistoryType

\* The ring is a FIFO of at most QUEUE_SIZE-1 tasks: every task that push
\* accepted is handed out by at most one pop, in order.
THEOREM RingIsBoundedQueue == Spec => ImplementsQueue
  <1>1. Init => Q!QInit
    BY DEF Init, Q!QInit
  <1>2. QueueInv /\ [Next]_vars => [Q!QNext]_Q!qvars
    <2> SUFFICES ASSUME QueueInv, [Next]_vars PROVE [Q!QNext]_Q!qvars
      OBVIOUS
    <2>1. ASSUME NEW p \in Writers, PushLock(p) \/ PushStep(p) PROVE [Q!QNext]_Q!qvars
      <3>1. CASE PushCount(p)
        <4>1. NewTask(p) \in Task
           BY <3>1, NewTaskType DEF PushCount, QueueInv, Guarded, PushingHasTask,
             TypeOK, LocalType, WriterLocs
        <4> QED BY <3>1, <4>1, CountIsAccept DEF Q!QNext
      <3>2. CASE ~PushCount(p)
         BY <2>1, <3>2 DEF PushStep, PushLock, PushLoadRead, PushRoom, PushRetry,
           PushGiveUp, PushAdvance, PushStore, PushReturn, history, Q!qvars
      <3> QED BY <3>1, <3>2
    <2>2. ASSUME NEW q \in Readers, PopLock(q) \/ PopStep(q) PROVE [Q!QNext]_Q!qvars
      <3>1. CASE PopCount(q)
        BY <3>1, CountIsDeliver DEF Q!QNext
      <3>2. CASE ~PopCount(q)
         BY <2>2, <3>2 DEF PopStep, PopLock, PopLoadWrite, PopFound, PopRetry,
           PopGiveUp, PopAdvance, PopCopy, PopReturn, history, Q!qvars
      <3> QED BY <3>1, <3>2
    <2>3. CASE UNCHANGED vars
      BY <2>3 DEF vars, history, Q!qvars
    <2> QED BY <2>1, <2>2, <2>3 DEF Next
  <1> QED
    BY <1>1, <1>2, QueueInvariance, PTL DEF Spec, ImplementsQueue, Q!QSpec

-----------------------------------------------------------------------------
(* What is in the slots: a slot is named by the place of its task in the log *)

\* The slot of the task that n tasks precede.
Slot(n) == n % QUEUE_SIZE

\* A writer that has advanced p_write, a reader that has advanced p_read, and
\* neither has changed entries yet.
WriterAhead == \E p \in Writers : pc[p] = "push_n"
ReaderAhead == \E q \in Readers : pc[q] = "pop_n"

\* p_write and the writers' copies of it stand behind the last task counted in.
WritersPlaced ==
  /\ WriterAhead => p_write = Slot(Len(log) + 1)
  /\ ~WriterAhead => p_write = Slot(Len(log))
  /\ \A p \in Writers : pc[p] \in WriterLocs \ {"store"} => at[p] = Slot(Len(log))
  /\ \A p \in Writers : pc[p] = "store" =>
       Len(log) > 0 /\ at[p] = Slot(Len(log) - 1) /\ log[Len(log)] = NewTask(p)

\* p_read and the readers' copies of it stand behind the last task counted out;
\* a reader outside of the lock has the slot of the task it was given.
ReadersPlaced ==
  /\ ReaderAhead => p_read = Slot(taken + 1)
  /\ ~ReaderAhead => p_read = Slot(taken)
  /\ \A q \in Readers : pc[q] \in LockedReaderLocs => at[q] = Slot(taken)
  /\ \A q \in Readers : pc[q] = "copy" =>
       ticket[q] \in 1..taken /\ at[q] = Slot(ticket[q] - 1)

\* Task n of the log is in its slot, or a writer is still storing it.
InPlace(n) == \/ \E p \in Writers : StoreOpen(p, n)
              \/ array[Slot(n - 1)] = Whole(log[n])

\* What a writer has stored is in its slot, and the unread tasks are in theirs.
UnreadInPlace ==
  /\ \A p \in Writers : pc[p] = "store" =>
       \A k \in Words \ todo[p] : array[at[p]][k] = NewTask(p)
  /\ \A n \in (taken + 1)..Len(log) : InPlace(n)

ContentsInv == WritersPlaced /\ ReadersPlaced /\ UnreadInPlace

\* What a lone reader copies cannot be overwritten: no other reader can give
\* writers the room to come round to its slot.
CopyInPlace ==
  \A q \in Readers : pc[q] = "copy" =>
    /\ ticket[q] = taken /\ InPlace(taken)
    /\ ~raced[q] => \A k \in Words \ todo[q] : copy[q][k] = log[taken]

-----------------------------------------------------------------------------
(* Slots *)

\* A number is a multiple of QUEUE_SIZE and a slot, in one way.
LEMMA SlotOf ==
  ASSUME NEW n \in Nat
  PROVE  Slot(n) \in Offset /\ \E a \in Nat : n = QUEUE_SIZE * a + Slot(n)
  <1>1. n \div QUEUE_SIZE \in Nat
    OBVIOUS
  <1>2. n % QUEUE_SIZE \in Offset
    BY DEF Offset
  <1>3. n = QUEUE_SIZE * (n \div QUEUE_SIZE) + (n % QUEUE_SIZE)
    OBVIOUS
  <1> QED
    BY <1>1, <1>2, <1>3 DEF Slot

LEMMA SlotUnique ==
  ASSUME NEW a \in Int, NEW b \in Int, NEW i \in Offset, NEW j \in Offset,
         QUEUE_SIZE * a + i = QUEUE_SIZE * b + j
  PROVE  i = j
  BY DEF Offset

LEMMA SlotIs ==
  ASSUME NEW n \in Nat, NEW a \in Int, NEW i \in Offset, n = QUEUE_SIZE * a + i
  PROVE  Slot(n) = i
  <1>1. PICK b \in Nat : n = QUEUE_SIZE * b + Slot(n)
    BY SlotOf
  <1>2. PICK j \in Offset : j = Slot(n)
    BY SlotOf
  <1>3. QUEUE_SIZE * a + i = QUEUE_SIZE * b + j
    BY <1>1, <1>2
  <1>4. i = j
    <2>1. a \in Int /\ b \in Int /\ i \in Offset /\ j \in Offset
      OBVIOUS
    <2> QED BY <1>3, <2>1, SlotUnique, Zenon
  <1> QED
    BY <1>2, <1>4

\* One step further in the log is one step further in the ring.
LEMMA SlotNext == ASSUME NEW n \in Nat PROVE Wrap(Slot(n)) = Slot(n + 1)
  <1>1. PICK a \in Nat : n = QUEUE_SIZE * a + Slot(n)
    BY SlotOf
  <1>2. PICK i \in Offset : i = Slot(n)
    BY SlotOf
  <1>3. CASE i + 1 < QUEUE_SIZE
    <2>1. i + 1 \in Offset /\ n + 1 = QUEUE_SIZE * a + (i + 1)
      BY <1>1, <1>2, <1>3 DEF Offset
    <2>2. Slot(n + 1) = i + 1
      BY <2>1, SlotIs
    <2> QED BY <1>2, <1>3, <2>2 DEF Wrap, Offset
  <1>4. CASE i + 1 = QUEUE_SIZE
    <2>1. n + 1 = QUEUE_SIZE * (a + 1) + 0
      BY <1>1, <1>2, <1>4 DEF Offset
    <2>2. Slot(n + 1) = 0
      <3>1. PICK b \in Int, c \in Nat, j \in Offset : b = a + 1 /\ c = n + 1 /\ j = 0
        BY DEF Offset
      <3>2. c = QUEUE_SIZE * b + j
        BY <2>1, <3>1
      <3> QED BY <3>1, <3>2, SlotIs
    <2>3. QUEUE_SIZE % QUEUE_SIZE = 0
      OBVIOUS
    <2> QED BY <1>2, <1>4, <2>2, <2>3 DEF Wrap
  <1> QED
    BY <1>3, <1>4 DEF Offset

\* Fewer than QUEUE_SIZE tasks after one another have slots of their own.
LEMMA SlotsApart ==
  ASSUME NEW m \in Nat, NEW n \in Nat, m <= n, n - m < QUEUE_SIZE, Slot(m) = Slot(n)
  PROVE  m = n
  <1>1. PICK a \in Nat : m = QUEUE_SIZE * a + Slot(m)
    BY SlotOf
  <1>2. PICK b \in Nat : n = QUEUE_SIZE * b + Slot(n)
    BY SlotOf
  <1>3. PICK i \in Offset : i = Slot(n)
    BY SlotOf
  <1>4. n - m = QUEUE_SIZE * (b - a)
    BY <1>1, <1>2, <1>3 DEF Offset
  <1>5. n - m \in Offset /\ 0 \in Offset /\ QUEUE_SIZE * (b - a) + 0 = QUEUE_SIZE * 0 + (n - m)
    BY <1>4 DEF Offset
  <1> QED
    BY <1>5, SlotUnique

\* The distance between two pointers is the number of tasks between them.
LEMMA SlotDistance ==
  ASSUME NEW m \in Nat, NEW n \in Nat, m <= n, n - m < QUEUE_SIZE
  PROVE  (Slot(n) + QUEUE_SIZE - Slot(m)) % QUEUE_SIZE = n - m
  <1>1. PICK a \in Nat : m = QUEUE_SIZE * a + Slot(m)
    BY SlotOf
  <1>2. PICK b \in Nat : n = QUEUE_SIZE * b + Slot(n)
    BY SlotOf
  <1>3. PICK i \in Offset, j \in Offset : i = Slot(m) /\ j = Slot(n)
    BY SlotOf
  <1>4. PICK d \in Nat : d = j + QUEUE_SIZE - i
    BY DEF Offset
  <1>5. d = QUEUE_SIZE * (a - b + 1) + (n - m)
    BY <1>1, <1>2, <1>3, <1>4 DEF Offset
  <1>6. n - m \in Offset /\ a - b + 1 \in Int
    BY DEF Offset
  <1>7. Slot(d) = n - m
    BY <1>5, <1>6, SlotIs
  <1> QED
    BY <1>3, <1>4, <1>7 DEF Slot

-----------------------------------------------------------------------------
(* Steps of push *)

USE ThreadsAssumption

\* What the type invariant and the counter say of the log.
LEMMA LogBounds ==
  ASSUME QueueInv
  PROVE  /\ log \in Seq(Task) /\ Len(log) \in Nat /\ taken \in Nat
         /\ taken <= Len(log) /\ Len(log) - taken = entries /\ entries < QUEUE_SIZE
  <1>1. log \in Seq(Task) /\ taken \in Nat /\ entries \in 0..(QUEUE_SIZE - 1)
    BY DEF QueueInv, TypeOK, HistoryType, SharedType, Offset
  <1>2. entries = Len(log) - taken
    BY DEF QueueInv, Guarded, Accounted
  <1> QED
    BY <1>1, <1>2

\* Only one writer is between lock and unlock, and only one reader.
LEMMA LoneWriter ==
  ASSUME QueueInv, NEW p \in Writers, pc[p] \in WriterLocs
  PROVE  \A o \in Writers : o # p => pc[o] \notin WriterLocs
  BY DEF QueueInv, Guarded, LocksHeld

LEMMA LoneReader ==
  ASSUME QueueInv, NEW q \in Readers, pc[q] \in LockedReaderLocs
  PROVE  \A o \in Readers : o # q => pc[o] \notin LockedReaderLocs
  BY DEF QueueInv, Guarded, LocksHeld

\* The steps that only look: push moves within the loop, and nothing else.
LEMMA PushLooks ==
  ASSUME QueueInv, ContentsInv, NEW p \in Writers,
         pc[p] \in {"push_r", "push_e"},
         pc' = [pc EXCEPT ![p] = "push_r"] \/ pc' = [pc EXCEPT ![p] = "push_e"]
           \/ pc' = [pc EXCEPT ![p] = "push_w"],
         UNCHANGED <<shared, at, todo, next, history>>
  PROVE  ContentsInv'
  <1> USE DEF shared, history, ContentsInv
  <1>1. /\ pc \in [Threads -> {"idle"} \cup WriterLocs \cup ReaderLocs]
        /\ \A o \in Threads : o # p => pc'[o] = pc[o]
        /\ pc'[p] \in {"push_r", "push_e", "push_w"}
    BY DEF QueueInv, TypeOK, LocationType, Threads
  <1>2. WritersPlaced'
    <2>1. WriterAhead' <=> WriterAhead
      BY <1>1 DEF WriterAhead, Threads
    <2> QED BY <1>1, <2>1 DEF WritersPlaced, WriterLocs, NewTask, Threads
  <1>3. ReadersPlaced'
    BY <1>1 DEF ReadersPlaced, ReaderAhead, Threads
  <1>4. UnreadInPlace'
    <2>1. \A o \in Writers : pc'[o] = "store" <=> pc[o] = "store"
      BY <1>1 DEF Threads
    <2>2. \A n : InPlace(n)' <=> InPlace(n)
      BY <2>1 DEF InPlace, StoreOpen
    <2>3. \A o \in Writers : NewTask(o)' = NewTask(o)
      BY DEF NewTask
    <2> QED BY <2>1, <2>2, <2>3 DEF UnreadInPlace
  <1> QED
    BY <1>2, <1>3, <1>4

\* A step of push keeps the pointers and the slots in order.
LEMMA PushKeepsContents ==
  ASSUME QueueInv, ContentsInv, NEW p \in Writers, PushLock(p) \/ PushStep(p)
  PROVE  ContentsInv'
  <1> USE DEF ContentsInv, shared, history, Goto
  <1>0. /\ pc \in [Threads -> {"idle"} \cup WriterLocs \cup ReaderLocs]
        /\ at \in [Threads -> Offset] /\ todo \in [Threads -> SUBSET Words]
        /\ next \in [Writers -> 1..(PUSHES + 1)] /\ p \in Threads /\ p \notin Readers
        /\ array \in [Offset -> [Words -> Task \cup {None}]]
    BY DEF QueueInv, TypeOK, LocationType, LocalType, SharedType, Threads
  <1>1. CASE PushLock(p)
    <2>1. ~WriterAhead /\ ~WriterAhead'
      <3>1. \A o \in Writers : pc[o] \notin WriterLocs
        BY <1>1, NoneAssumption DEF PushLock, QueueInv, Guarded, LocksHeld
      <3> QED BY <1>0, <1>1, <3>1 DEF PushLock, WriterAhead, WriterLocs, Threads
    <2>2. WritersPlaced'
      BY <1>0, <1>1, <2>1 DEF PushLock, WritersPlaced, WriterLocs, NewTask, Threads
    <2>3. ReadersPlaced'
      BY <1>0, <1>1 DEF PushLock, ReadersPlaced, ReaderAhead, Threads
    <2>4. UnreadInPlace'
      BY <1>0, <1>1 DEF PushLock, UnreadInPlace, InPlace, StoreOpen, NewTask, Threads
    <2> QED BY <2>2, <2>3, <2>4
  <1>2. CASE PushLoadRead(p) \/ PushRoom(p) \/ PushRetry(p)
    BY <1>2, PushLooks DEF PushLoadRead, PushRoom, PushRetry
  <1>3. CASE PushGiveUp(p)
    <2>1. ~WriterAhead /\ ~WriterAhead'
      BY <1>0, <1>3, LoneWriter DEF PushGiveUp, WriterAhead, WriterLocs, Threads
    <2>2. WritersPlaced'
      <3>1. \A o \in Writers : o # p => pc[o] \notin WriterLocs
        BY <1>3, LoneWriter DEF PushGiveUp, WriterLocs
      <3> QED BY <1>0, <1>3, <2>1, <3>1 DEF PushGiveUp, WritersPlaced, WriterLocs, Threads
    <2>3. ReadersPlaced'
      BY <1>0, <1>3 DEF PushGiveUp, ReadersPlaced, ReaderAhead, Threads
    <2>4. UnreadInPlace'
      <3>1. \A o \in Writers : pc[o] # "store"
        BY <1>3, LoneWriter DEF PushGiveUp, WriterLocs
      <3> QED BY <1>0, <1>3, <3>1 DEF PushGiveUp, UnreadInPlace, InPlace, StoreOpen, Threads
    <2> QED BY <2>2, <2>3, <2>4
  <1>4. CASE PushAdvance(p)
    <2>1. \A o \in Writers : o # p => pc[o] \notin WriterLocs
      BY <1>4, LoneWriter DEF PushAdvance, WriterLocs
    <2>2. WritersPlaced'
      <3>1. ~WriterAhead /\ WriterAhead'
        BY <1>0, <1>4, <2>1 DEF PushAdvance, WriterAhead, WriterLocs, Threads
      <3>2. p_write' = Slot(Len(log) + 1)
        BY <1>4, <3>1, LogBounds, SlotNext DEF PushAdvance, WritersPlaced
      <3> QED
        BY <1>0, <1>4, <2>1, <3>1, <3>2 DEF PushAdvance, WritersPlaced, WriterLocs, Threads
    <2>3. ReadersPlaced'
      BY <1>0, <1>4 DEF PushAdvance, ReadersPlaced, ReaderAhead, Threads
    <2>4. UnreadInPlace'
      BY <1>0, <1>4 DEF PushAdvance, UnreadInPlace, InPlace, StoreOpen, NewTask, Threads
    <2> QED BY <2>2, <2>3, <2>4
  <1>5. CASE PushCount(p)
    <2>1. \A o \in Writers : o # p => pc[o] \notin WriterLocs
      BY <1>5, LoneWriter DEF PushCount, WriterLocs
    <2>2. NewTask(p) \in Task
      BY <1>0, <1>5, NewTaskType DEF PushCount, QueueInv, Guarded, PushingHasTask, WriterLocs
    <2>3. /\ Len(log') = Len(log) + 1 /\ log'[Len(log')] = NewTask(p)
          /\ \A n \in 1..Len(log) : log'[n] = log[n]
      BY <1>5, <2>2, LogBounds DEF PushCount
    <2>4. WritersPlaced'
      <3>1. WriterAhead /\ ~WriterAhead'
        BY <1>0, <1>5, <2>1 DEF PushCount, WriterAhead, WriterLocs, Threads
      <3>2. p_write' = Slot(Len(log')) /\ at[p] = Slot(Len(log') - 1)
        BY <1>5, <2>3, <3>1, LogBounds DEF PushCount, WritersPlaced, WriterLocs
      <3> QED
        BY <1>0, <1>5, <2>1, <2>3, <3>1, <3>2, LogBounds
        DEF PushCount, WritersPlaced, WriterLocs, NewTask, Threads
    <2>5. ReadersPlaced'
      BY <1>0, <1>5 DEF PushCount, ReadersPlaced, ReaderAhead, Threads
    <2>6. UnreadInPlace'
      <3>1. \A o \in Writers : pc'[o] = "store" => o = p /\ todo'[o] = Words
        BY <1>0, <1>5, <2>1 DEF PushCount, WriterLocs, Threads
      <3>2. StoreOpen(p, Len(log))'
        BY <1>0, <1>5 DEF PushCount, StoreOpen, Words
      <3>3. \A n \in (taken + 1)..Len(log) : array[Slot(n - 1)] = Whole(log[n])
        BY <1>5, <2>1 DEF PushCount, UnreadInPlace, InPlace, StoreOpen, WriterLocs
      <3>4. \A n \in (taken' + 1)..Len(log') : InPlace(n)'
        <4> SUFFICES ASSUME NEW n \in (taken + 1)..(Len(log) + 1) PROVE InPlace(n)'
          BY <1>5, <2>3 DEF PushCount
        <4>1. CASE n = Len(log) + 1
          BY <2>3, <3>2, <4>1 DEF InPlace
        <4>2. CASE n # Len(log) + 1
          <5>1. n \in (taken + 1)..Len(log) /\ n \in 1..Len(log)
            BY <4>2, LogBounds
          <5> QED BY <1>5, <2>3, <3>3, <5>1 DEF PushCount, InPlace
        <4> QED BY <4>1, <4>2
      <3> QED BY <3>1, <3>4 DEF UnreadInPlace
    <2> QED BY <2>4, <2>5, <2>6
  <1>6. CASE PushStore(p)
    <2>1. \A o \in Writers : o # p => pc[o] \notin WriterLocs
      BY <1>6, LoneWriter DEF PushStore, WriterLocs
    <2>2. PICK k \in todo[p] :
            /\ array' = [array EXCEPT ![at[p]][k] = NewTask(p)]
            /\ todo' = [todo EXCEPT ![p] = @ \ {k}]
      BY <1>6 DEF PushStore
    <2>3. /\ at[p] = Slot(Len(log) - 1) /\ Len(log) > 0 /\ log[Len(log)] = NewTask(p)
          /\ at[p] \in Offset /\ k \in Words
      BY <1>0, <1>6, <2>2 DEF PushStore, WritersPlaced
    <2>4. \A l \in Words \ todo'[p] : array'[at[p]][l] = NewTask(p)
      <3>1. \A l \in Words \ todo[p] : array[at[p]][l] = NewTask(p)
        BY <1>6 DEF PushStore, UnreadInPlace
      <3>2. todo'[p] = todo[p] \ {k}
        BY <1>0, <2>2
      <3>3. \A l \in Words : array'[at[p]][l] = IF l = k THEN NewTask(p) ELSE array[at[p]][l]
        <4>1. DOMAIN array = Offset /\ DOMAIN array[at[p]] = Words
          BY <1>0, <2>3
        <4> QED BY <2>2, <2>3, <4>1
      <3> QED BY <3>1, <3>2, <3>3
    <2>5. \A n \in 1..Len(log) : n > taken /\ n # Len(log) =>
            array'[Slot(n - 1)] = array[Slot(n - 1)]
      <3> SUFFICES ASSUME NEW n \in 1..Len(log), n > taken, n # Len(log)
                   PROVE  Slot(n - 1) # at[p]
        BY <1>0, <2>2, <2>3
      <3>1. PICK l \in Nat, k1 \in Nat : l = Len(log) - 1 /\ k1 = n - 1
        BY <2>3, LogBounds
      <3>2. k1 <= l /\ l - k1 < QUEUE_SIZE /\ k1 # l
        BY <3>1, LogBounds
      <3> QED BY <2>3, <3>1, <3>2, SlotsApart
    <2>6. WritersPlaced'
      BY <1>0, <1>6 DEF PushStore, WritersPlaced, WriterAhead, NewTask
    <2>7. ReadersPlaced'
      BY <1>0, <1>6 DEF PushStore, ReadersPlaced, ReaderAhead
    <2>8. InPlace(Len(log))'
      <3>1. CASE todo'[p] = {}
        <4>1. array'[at[p]] = Whole(NewTask(p))
          BY <1>0, <2>2, <2>3, <2>4, <3>1 DEF Whole
        <4> QED BY <1>6, <2>3, <4>1 DEF PushStore, InPlace
      <3>2. CASE todo'[p] # {}
        BY <1>6, <3>2 DEF PushStore, InPlace, StoreOpen
      <3> QED BY <3>1, <3>2
    <2>9. \A n \in (taken + 1)..Len(log) : n # Len(log) => InPlace(n)'
      <3> SUFFICES ASSUME NEW n \in (taken + 1)..Len(log), n # Len(log) PROVE InPlace(n)'
        OBVIOUS
      <3>1. array[Slot(n - 1)] = Whole(log[n])
        BY DEF UnreadInPlace, InPlace, StoreOpen
      <3>2. array'[Slot(n - 1)] = array[Slot(n - 1)]
        BY <2>5, LogBounds
      <3> QED BY <1>6, <3>1, <3>2 DEF PushStore, InPlace
    <2>10. UnreadInPlace'
      BY <1>6, <2>1, <2>4, <2>8, <2>9 DEF PushStore, UnreadInPlace, NewTask, WriterLocs
    <2> QED BY <2>6, <2>7, <2>10
  <1>7. CASE PushReturn(p)
    <2>1. \A o \in Writers : o # p => pc[o] \notin WriterLocs
      BY <1>7, LoneWriter DEF PushReturn, WriterLocs
    <2>2. \A o \in Writers : pc'[o] \notin WriterLocs
      BY <1>0, <1>7, <2>1 DEF PushReturn, WriterLocs, Threads
    <2>3. ~WriterAhead /\ ~WriterAhead'
      BY <1>7, <2>1, <2>2 DEF PushReturn, WriterAhead, WriterLocs
    <2>4. WritersPlaced'
      BY <1>7, <2>2, <2>3 DEF PushReturn, WritersPlaced, WriterLocs
    <2>5. ReadersPlaced'
      BY <1>0, <1>7 DEF PushReturn, ReadersPlaced, ReaderAhead, Threads
    <2>6. UnreadInPlace'
      <3>1. \A o \in Writers : \A n \in Nat : ~StoreOpen(o, n)
        BY <1>7, <2>1 DEF PushReturn, StoreOpen, WriterLocs
      <3>2. \A n \in (taken + 1)..Len(log) : array[Slot(n - 1)] = Whole(log[n])
        BY <3>1, LogBounds DEF UnreadInPlace, InPlace
      <3> QED BY <1>7, <2>2, <3>2 DEF PushReturn, UnreadInPlace, InPlace, WriterLocs
    <2> QED BY <2>4, <2>5, <2>6
  <1> QED
    BY <1>1, <1>2, <1>3, <1>4, <1>5, <1>6, <1>7 DEF PushStep

-----------------------------------------------------------------------------
(* Steps of pop *)

\* A step that leaves the writers alone leaves the writers' side of the invariant.
LEMMA WritersUntouched ==
  ASSUME ContentsInv, \A p \in Writers : pc'[p] = pc[p] /\ at'[p] = at[p] /\ todo'[p] = todo[p],
         UNCHANGED <<p_write, array, log, next>>,
         taken \in Nat, taken' \in Nat, taken <= taken', Len(log) \in Nat
  PROVE  WritersPlaced' /\ UnreadInPlace'
  <1>1. WritersPlaced'
    BY DEF ContentsInv, WritersPlaced, WriterAhead, NewTask, WriterLocs
  <1>2. \A n \in (taken' + 1)..Len(log) : InPlace(n)'
    BY DEF ContentsInv, UnreadInPlace, InPlace, StoreOpen
  <1>3. UnreadInPlace'
    BY <1>2 DEF ContentsInv, UnreadInPlace, NewTask
  <1> QED
    BY <1>1, <1>3

\* A step of pop keeps the pointers and the slots in order.
LEMMA PopKeepsContents ==
  ASSUME QueueInv, ContentsInv, NEW q \in Readers, PopLock(q) \/ PopStep(q)
  PROVE  ContentsInv'
  <1> USE DEF shared, history, Goto
  <1>0. /\ pc \in [Threads -> {"idle"} \cup WriterLocs \cup ReaderLocs]
        /\ at \in [Threads -> Offset] /\ todo \in [Threads -> SUBSET Words]
        /\ ticket \in [Readers -> Nat] /\ q \in Threads /\ q \notin Writers
        /\ ReadersPlaced /\ taken \in Nat /\ Len(log) \in Nat
    BY LogBounds DEF QueueInv, TypeOK, LocationType, LocalType, HistoryType, Threads,
      ContentsInv
  <1>1. WritersPlaced' /\ UnreadInPlace'
    <2>1. /\ \A p \in Writers : pc'[p] = pc[p] /\ at'[p] = at[p] /\ todo'[p] = todo[p]
          /\ UNCHANGED <<p_write, array, log, next>>
      BY <1>0 DEF PopStep, PopLock, PopLoadWrite, PopFound, PopRetry, PopGiveUp, PopAdvance,
        PopCount, PopCopy, PopReturn, Threads
    <2>2. taken' \in Nat /\ taken <= taken'
      BY <1>0 DEF PopStep, PopLock, PopLoadWrite, PopFound, PopRetry, PopGiveUp, PopAdvance,
        PopCount, PopCopy, PopReturn
    <2> QED BY <1>0, <2>1, <2>2, WritersUntouched
  <1>2. CASE PopLock(q)
    <2>1. \A o \in Readers : pc[o] \notin LockedReaderLocs
      BY <1>2, NoneAssumption DEF PopLock, QueueInv, Guarded, LocksHeld
    <2>2. ~ReaderAhead /\ ~ReaderAhead'
      BY <1>0, <1>2, <2>1 DEF PopLock, ReaderAhead, LockedReaderLocs, Threads
    <2>3. ReadersPlaced'
      BY <1>0, <1>2, <2>1, <2>2 DEF PopLock, ReadersPlaced, LockedReaderLocs, Threads
    <2> QED BY <1>1, <2>3 DEF ContentsInv
  <1>3. CASE PopLoadWrite(q) \/ PopFound(q) \/ PopRetry(q)
    <2>1. /\ \A o \in Readers : o # q => pc'[o] = pc[o]
          /\ pc[q] \in {"pop_w", "pop_e"} /\ pc'[q] \in {"pop_w", "pop_e", "pop_r"}
          /\ UNCHANGED <<p_read, at, taken, ticket>>
      BY <1>0, <1>3 DEF PopLoadWrite, PopFound, PopRetry, Threads
    <2>2. ReaderAhead' <=> ReaderAhead
      BY <2>1 DEF ReaderAhead
    <2>3. ReadersPlaced'
      BY <1>0, <2>1, <2>2 DEF ReadersPlaced, LockedReaderLocs
    <2> QED BY <1>1, <2>3 DEF ContentsInv
  <1>4. CASE PopGiveUp(q)
    <2>1. \A o \in Readers : o # q => pc[o] \notin LockedReaderLocs
      BY <1>4, LoneReader DEF PopGiveUp, LockedReaderLocs
    <2>2. ~ReaderAhead /\ ~ReaderAhead'
      BY <1>0, <1>4, <2>1 DEF PopGiveUp, ReaderAhead, LockedReaderLocs, Threads
    <2>3. ReadersPlaced'
      BY <1>0, <1>4, <2>1, <2>2 DEF PopGiveUp, ReadersPlaced, LockedReaderLocs, Threads
    <2> QED BY <1>1, <2>3 DEF ContentsInv
  <1>5. CASE PopAdvance(q)
    <2>1. \A o \in Readers : o # q => pc[o] \notin LockedReaderLocs
      BY <1>5, LoneReader DEF PopAdvance, LockedReaderLocs
    <2>2. ~ReaderAhead /\ ReaderAhead'
      BY <1>0, <1>5, <2>1 DEF PopAdvance, ReaderAhead, LockedReaderLocs, Threads
    <2>3. p_read' = Slot(taken + 1)
      BY <1>0, <1>5, <2>2, SlotNext DEF PopAdvance, ReadersPlaced
    <2>4. ReadersPlaced'
      BY <1>0, <1>5, <2>1, <2>2, <2>3 DEF PopAdvance, ReadersPlaced, LockedReaderLocs, Threads
    <2> QED BY <1>1, <2>4 DEF ContentsInv
  <1>6. CASE PopCount(q)
    <2>1. \A o \in Readers : o # q => pc[o] \notin LockedReaderLocs
      BY <1>6, LoneReader DEF PopCount, LockedReaderLocs
    <2>2. ReaderAhead /\ ~ReaderAhead'
      BY <1>0, <1>6, <2>1 DEF PopCount, ReaderAhead, LockedReaderLocs, Threads
    <2>3. p_read' = Slot(taken') /\ at[q] = Slot(taken' - 1)
      BY <1>0, <1>6, <2>2 DEF PopCount, ReadersPlaced, LockedReaderLocs
    <2>4. \A o \in Readers : pc'[o] = "copy" =>
            ticket'[o] \in 1..taken' /\ at'[o] = Slot(ticket'[o] - 1)
      <3> SUFFICES ASSUME NEW o \in Readers, pc'[o] = "copy"
                   PROVE  ticket'[o] \in 1..taken' /\ at'[o] = Slot(ticket'[o] - 1)
        OBVIOUS
      <3>1. CASE o = q
        BY <1>0, <1>6, <2>3, <3>1 DEF PopCount
      <3>2. CASE o # q
        BY <1>0, <1>6, <3>2 DEF PopCount, ReadersPlaced, Threads
      <3> QED BY <3>1, <3>2
    <2>5. ReadersPlaced'
      BY <1>0, <1>6, <2>1, <2>2, <2>3, <2>4 DEF PopCount, ReadersPlaced, LockedReaderLocs,
        Threads
    <2> QED BY <1>1, <2>5 DEF ContentsInv
  <1>7. CASE PopCopy(q)
    <2>1. ReadersPlaced'
      BY <1>0, <1>7 DEF PopCopy, ReadersPlaced, ReaderAhead
    <2> QED BY <1>1, <2>1 DEF ContentsInv
  <1>8. CASE PopReturn(q)
    <2>1. ReadersPlaced'
      BY <1>0, <1>8 DEF PopReturn, ReadersPlaced, ReaderAhead, LockedReaderLocs, Threads
    <2> QED BY <1>1, <2>1 DEF ContentsInv
  <1> QED
    BY <1>2, <1>3, <1>4, <1>5, <1>6, <1>7, <1>8 DEF PopStep

-----------------------------------------------------------------------------
(* The invariant, and what follows from it *)

LEMMA ContentsInvInit == Init => ContentsInv
  <1> SUFFICES ASSUME Init PROVE ContentsInv
    OBVIOUS
  <1>1. Slot(0) = 0
    BY DEF Slot
  <1>2. \A p \in Threads : pc[p] = "idle"
    BY DEF Init, Threads
  <1>3. WritersPlaced
    BY <1>1, <1>2 DEF Init, WritersPlaced, WriterAhead, WriterLocs, Threads
  <1>4. ReadersPlaced
    BY <1>1, <1>2 DEF Init, ReadersPlaced, ReaderAhead, LockedReaderLocs, Threads
  <1>5. UnreadInPlace
    BY <1>2 DEF Init, UnreadInPlace, Threads
  <1> QED
    BY <1>3, <1>4, <1>5 DEF ContentsInv

THEOREM ContentsInvariance == Spec => []ContentsInv
  <1>1. QueueInv /\ ContentsInv /\ [Next]_vars => ContentsInv'
    <2> SUFFICES ASSUME QueueInv, ContentsInv, [Next]_vars PROVE ContentsInv'
      OBVIOUS
    <2>1. CASE Next
      BY <2>1, PushKeepsContents, PopKeepsContents DEF Next
    <2>2. CASE UNCHANGED vars
      BY <2>2 DEF vars, shared, history, ContentsInv, WritersPlaced, ReadersPlaced,
        UnreadInPlace, WriterAhead, ReaderAhead, InPlace, StoreOpen, NewTask
    <2> QED BY <2>1, <2>2
  <1> QED
    BY <1>1, ContentsInvInit, QueueInvariance, PTL DEF Spec

\* No push laps the reader: a task that was counted in and not yet counted out
\* stays in its slot, for any number of writers and readers
\* (AtomicQueue.cpp:39, 130-137).
THEOREM UnreadTasksKept == Spec => []UnreadKept
  <1>1. ContentsInv => UnreadKept
    BY DEF ContentsInv, UnreadInPlace, InPlace, UnreadKept, Slot
  <1> QED
    BY <1>1, ContentsInvariance, PTL

\* At most one writer has advanced p_write alone, at most one reader p_read.
LEMMA AheadCounted ==
  ASSUME QueueInv
  PROVE  /\ At("push_n") = IF WriterAhead THEN 1 ELSE 0
         /\ At("pop_n") = IF ReaderAhead THEN 1 ELSE 0
  <1>0. /\ \A p \in Writers : pc[p] \in {"idle"} \cup WriterLocs
        /\ \A q \in Readers : pc[q] \in {"idle"} \cup ReaderLocs
    BY DEF QueueInv, TypeOK, LocationType
  <1>1. At("push_n") = IF WriterAhead THEN 1 ELSE 0
    <2>1. CASE WriterAhead
      <3>1. PICK p \in Writers : pc[p] = "push_n"
        BY <2>1 DEF WriterAhead
      <3>2. \A o \in Writers : o # p => pc[o] # "push_n"
        BY <3>1, LoneWriter DEF WriterLocs
      <3>3. {o \in Threads : pc[o] = "push_n"} = {p}
        BY <1>0, <3>1, <3>2 DEF Threads, ReaderLocs, LockedReaderLocs
      <3> QED BY <2>1, <3>3, FS_Singleton DEF At
    <2>2. CASE ~WriterAhead
      <3>1. {o \in Threads : pc[o] = "push_n"} = {}
        BY <1>0, <2>2 DEF WriterAhead, Threads, ReaderLocs, LockedReaderLocs
      <3> QED BY <2>2, <3>1, FS_EmptySet DEF At
    <2> QED BY <2>1, <2>2
  <1>2. At("pop_n") = IF ReaderAhead THEN 1 ELSE 0
    <2>1. CASE ReaderAhead
      <3>1. PICK q \in Readers : pc[q] = "pop_n"
        BY <2>1 DEF ReaderAhead
      <3>2. \A o \in Readers : o # q => pc[o] # "pop_n"
        BY <3>1, LoneReader DEF LockedReaderLocs
      <3>3. {o \in Threads : pc[o] = "pop_n"} = {q}
        BY <1>0, <3>1, <3>2 DEF Threads, WriterLocs
      <3> QED BY <2>1, <3>3, FS_Singleton DEF At
    <2>2. CASE ~ReaderAhead
      <3>1. {o \in Threads : pc[o] = "pop_n"} = {}
        BY <1>0, <2>2 DEF ReaderAhead, Threads, WriterLocs
      <3> QED BY <2>2, <3>1, FS_EmptySet DEF At
    <2> QED BY <2>1, <2>2
  <1> QED
    BY <1>1, <1>2

\* The three atomics tell one story, for any number of writers and readers
\* (AtomicQueue.cpp:50-51, 115-116): p_write is as far ahead of p_read as entries
\* says, but for a push or a pop between its two increments.
THEOREM PointersTellEntries == Spec => []PointersAgree
  <1>1. QueueInv /\ ContentsInv => PointersAgree
    <2> SUFFICES ASSUME QueueInv, ContentsInv PROVE PointersAgree
      OBVIOUS
    <2> DEFINE w == IF WriterAhead THEN 1 ELSE 0
               r == IF ReaderAhead THEN 1 ELSE 0
    <2>1. p_write = Slot(Len(log) + w) /\ p_read = Slot(taken + r)
      BY LogBounds DEF ContentsInv, WritersPlaced, ReadersPlaced
    <2>2. WriterAhead => entries < QUEUE_SIZE - 1
      BY DEF WriterAhead, QueueInv, Guarded, RoomStays
    <2>3. ReaderAhead => entries > 0
      BY DEF ReaderAhead, QueueInv, Guarded, TaskStays
    <2>4. /\ Len(log) + w \in Nat /\ taken + r \in Nat /\ taken + r <= Len(log) + w
          /\ (Len(log) + w) - (taken + r) < QUEUE_SIZE
          /\ (Len(log) + w) - (taken + r) = entries + w - r
      BY <2>2, <2>3, LogBounds
    <2>5. (p_write + QUEUE_SIZE - p_read) % QUEUE_SIZE = entries + w - r
      BY <2>1, <2>4, SlotDistance
    <2> QED BY <2>5, AheadCounted DEF PointersAgree
  <1> QED
    BY <1>1, QueueInvariance, ContentsInvariance, PTL

-----------------------------------------------------------------------------
(* One reader *)

OneReader == \A q \in Readers : \A o \in Readers : o = q

\* A step of push does not disturb the copy: the slot it stores to is the slot of
\* the last task counted in, which is at most QUEUE_SIZE - 1 after the one copied.
LEMMA PushKeepsCopy ==
  ASSUME QueueInv, ContentsInv, CopyInPlace, QueueInv', ContentsInv',
         NEW p \in Writers, PushLock(p) \/ PushStep(p)
  PROVE  CopyInPlace'
  <1> USE DEF shared, history, Goto
  <1>0. /\ pc \in [Threads -> {"idle"} \cup WriterLocs \cup ReaderLocs]
        /\ at \in [Threads -> Offset] /\ todo \in [Threads -> SUBSET Words]
        /\ p \in Threads /\ p \notin Readers
        /\ array \in [Offset -> [Words -> Task \cup {None}]]
        /\ log \in Seq(Task)
    BY DEF QueueInv, TypeOK, LocationType, LocalType, SharedType, HistoryType, Threads
  <1>1. /\ \A q \in Readers : pc'[q] = pc[q] /\ todo'[q] = todo[q]
        /\ UNCHANGED <<taken, ticket, raced, copy>>
    BY <1>0 DEF PushStep, PushLock, PushLoadRead, PushRoom, PushRetry, PushGiveUp, PushAdvance,
      PushCount, PushStore, PushReturn, Threads
  <1> SUFFICES ASSUME NEW q \in Readers, pc[q] = "copy"
               PROVE  InPlace(taken)' /\ log'[taken] = log[taken]
    BY <1>1 DEF CopyInPlace
  <1>2. taken \in 1..Len(log)
    BY LogBounds DEF CopyInPlace, ContentsInv, ReadersPlaced
  <1>3. InPlace(taken)
    BY DEF CopyInPlace
  <1>4. CASE PushCount(p)
    <2>1. log'[taken] = log[taken]
      <3>1. NewTask(p) \in Task
        BY <1>4, NewTaskType DEF PushCount, QueueInv, Guarded, PushingHasTask, TypeOK,
          LocalType, WriterLocs
      <3> QED BY <1>0, <1>2, <1>4, <3>1 DEF PushCount
    <2>2. \A o \in Writers : ~StoreOpen(o, taken)
      BY <1>4, LoneWriter DEF PushCount, StoreOpen, WriterLocs
    <2> QED BY <1>3, <1>4, <2>1, <2>2 DEF PushCount, InPlace
  <1>5. CASE PushStore(p)
    <2>1. UNCHANGED log /\ at[p] = Slot(Len(log) - 1) /\ Len(log) > 0
          /\ log[Len(log)] = NewTask(p)
      BY <1>5 DEF PushStore, ContentsInv, WritersPlaced
    <2>2. CASE taken = Len(log)
      <3>1. CASE todo'[p] = {}
        <4>1. at'[p] = at[p] /\ pc'[p] = "store" /\ at[p] \in Offset
          BY <1>0, <1>5 DEF PushStore
        <4>2. \A k \in Words : array'[at[p]][k] = NewTask(p)
          BY <1>5, <3>1, <4>1 DEF PushStore, ContentsInv, UnreadInPlace, NewTask
        <4>3. array'[at[p]] = Whole(NewTask(p))
          BY <4>1, <4>2 DEF QueueInv, TypeOK, SharedType, Whole
        <4> QED BY <1>1, <2>1, <2>2, <4>3 DEF InPlace
      <3>2. CASE todo'[p] # {}
        BY <1>5, <2>2, <3>2 DEF PushStore, InPlace, StoreOpen
      <3> QED BY <2>1, <3>1, <3>2
    <2>3. CASE taken # Len(log)
      <3>1. array[Slot(taken - 1)] = Whole(log[taken])
        BY <1>3, <2>3 DEF InPlace, StoreOpen
      <3>2. Slot(taken - 1) # at[p]
        BY <1>2, <2>1, <2>3, LogBounds, SlotsApart
      <3>3. array'[Slot(taken - 1)] = array[Slot(taken - 1)]
        BY <1>0, <1>5, <3>2 DEF PushStore
      <3> QED BY <1>1, <2>1, <3>1, <3>3 DEF InPlace
    <2> QED BY <2>2, <2>3
  <1>6. CASE ~PushCount(p) /\ ~PushStore(p)
    <2>1. UNCHANGED <<array, log, todo>>
      BY <1>6 DEF PushStep, PushLock, PushLoadRead, PushRoom, PushRetry, PushGiveUp,
        PushAdvance, PushReturn
    <2>2. \A o \in Writers : StoreOpen(o, taken) => StoreOpen(o, taken)'
      <3> SUFFICES ASSUME NEW o \in Writers, StoreOpen(o, taken) PROVE pc'[o] = "store"
        BY <1>1, <2>1 DEF StoreOpen
      <3>1. CASE o = p
        BY <1>6, <3>1, NoneAssumption DEF StoreOpen, PushStep, PushLock, PushLoadRead, PushRoom,
          PushRetry, PushGiveUp, PushAdvance, PushReturn
      <3>2. CASE o # p
        BY <1>0, <1>6, <3>2 DEF StoreOpen, PushStep, PushLock, PushLoadRead, PushRoom, PushRetry,
          PushGiveUp, PushAdvance, PushReturn, Threads
      <3> QED BY <3>1, <3>2
    <2> QED BY <1>1, <1>3, <2>1, <2>2 DEF InPlace
  <1> QED
    BY <1>4, <1>5, <1>6

\* A step of the reader keeps it: pop is given the slot of the task it took, and
\* what it copies while no store is open is that task.
LEMMA PopKeepsCopy ==
  ASSUME QueueInv, ContentsInv, CopyInPlace, OneReader,
         NEW q \in Readers, PopLock(q) \/ PopStep(q)
  PROVE  CopyInPlace'
  <1> USE DEF shared, history, Goto
  <1>0. /\ pc \in [Threads -> {"idle"} \cup WriterLocs \cup ReaderLocs]
        /\ todo \in [Threads -> SUBSET Words] /\ raced \in [Readers -> BOOLEAN]
        /\ ticket \in [Readers -> Nat] /\ q \in Threads /\ q \notin Writers
        /\ copy \in [Readers -> [Words -> Task \cup {None}]]
        /\ \A o \in Readers : o = q
    BY DEF QueueInv, TypeOK, LocationType, LocalType, HistoryType, Threads, OneReader
  <1>1. /\ UNCHANGED <<array, log>>
        /\ \A p \in Writers : pc'[p] = pc[p] /\ todo'[p] = todo[p]
    BY <1>0 DEF PopStep, PopLock, PopLoadWrite, PopFound, PopRetry, PopGiveUp, PopAdvance,
      PopCount, PopCopy, PopReturn, Threads
  <1>2. \A n \in Nat : InPlace(n)' <=> InPlace(n)
    BY <1>1 DEF InPlace, StoreOpen
  <1>3. CASE PopCount(q)
    <2>1. ticket'[q] = taken' /\ todo'[q] = Words /\ taken' \in (taken + 1)..Len(log)
      BY <1>0, <1>3, LogBounds DEF PopCount, QueueInv, Guarded, TaskStays
    <2>2. InPlace(taken')
      BY <1>3, <2>1 DEF PopCount, ContentsInv, UnreadInPlace
    <2>3. InPlace(taken)'
      BY <1>1, <2>2 DEF InPlace, StoreOpen
    <2> QED BY <1>0, <2>1, <2>3 DEF CopyInPlace
  <1>4. CASE PopCopy(q)
    <2>1. PICK k \in todo[q] :
            /\ copy' = [copy EXCEPT ![q][k] = array[at[q]][k]]
            /\ todo' = [todo EXCEPT ![q] = @ \ {k}]
      BY <1>4 DEF PopCopy
    <2>2. ticket[q] = taken /\ InPlace(taken) /\ at[q] = Slot(taken - 1)
          /\ pc[q] = "copy" /\ UNCHANGED <<pc, taken, ticket>> /\ k \in Words
      BY <1>0, <1>4, <2>1 DEF PopCopy, CopyInPlace, ContentsInv, ReadersPlaced
    <2>3. ASSUME ~raced'[q] PROVE \A l \in Words \ todo'[q] : copy'[q][l] = log[taken]
      <3>1. ~raced[q] /\ \A p \in Writers : ~StoreOpen(p, taken)
        BY <1>0, <1>4, <2>2, <2>3 DEF PopCopy
      <3>2. array[at[q]][k] = log[taken]
        BY <2>2, <3>1 DEF InPlace, Whole
      <3>3. \A l \in Words \ todo[q] : copy[q][l] = log[taken]
        BY <2>2, <3>1 DEF CopyInPlace
      <3> QED BY <1>0, <2>1, <2>2, <3>2, <3>3
    <2>4. InPlace(taken)'
      BY <1>1, <2>2 DEF InPlace, StoreOpen
    <2> QED BY <1>0, <1>1, <2>2, <2>3, <2>4 DEF CopyInPlace
  <1>5. CASE ~PopCount(q) /\ ~PopCopy(q)
    <2>1. pc'[q] # "copy"
      BY <1>0, <1>5 DEF PopStep, PopLock, PopLoadWrite, PopFound, PopRetry, PopGiveUp,
        PopAdvance, PopReturn
    <2> QED BY <1>0, <2>1 DEF CopyInPlace
  <1> QED
    BY <1>3, <1>4, <1>5

\* A lone reader pops the task that was pushed at its place in the order, unless
\* its copy met that push between entries++ and the end of the store: that window
\* is the only one in which the unprotected copy can go wrong.
THEOREM OneReaderWrongOnlyIfRaced == OneReader => (Spec => []WrongOnlyIfRaced)
  <1> SUFFICES ASSUME OneReader PROVE Spec => []WrongOnlyIfRaced
    OBVIOUS
  <1>1. Init => CopyInPlace
    BY DEF Init, CopyInPlace, Threads
  <1>2. QueueInv /\ ContentsInv /\ QueueInv' /\ ContentsInv' /\ CopyInPlace /\ [Next]_vars
          => CopyInPlace'
    <2> SUFFICES ASSUME QueueInv, ContentsInv, QueueInv', ContentsInv', CopyInPlace,
                        [Next]_vars
                 PROVE  CopyInPlace'
      OBVIOUS
    <2>1. CASE Next
      BY <2>1, PushKeepsCopy, PopKeepsCopy DEF Next
    <2>2. CASE UNCHANGED vars
      BY <2>2 DEF vars, shared, history, CopyInPlace, InPlace, StoreOpen
    <2> QED BY <2>1, <2>2
  <1>3. QueueInv /\ CopyInPlace => WrongOnlyIfRaced
    <2> SUFFICES ASSUME QueueInv, CopyInPlace, NEW q \in Readers, pc[q] = "copy",
                        todo[q] = {}, ~raced[q]
                 PROVE  copy[q] = Whole(log[ticket[q]])
      BY DEF WrongOnlyIfRaced
    <2>1. ticket[q] = taken /\ \A k \in Words : copy[q][k] = log[taken]
      BY DEF CopyInPlace
    <2>2. copy[q] \in [Words -> Task \cup {None}]
      BY DEF QueueInv, TypeOK, LocalType
    <2> QED BY <2>1, <2>2 DEF Whole
  <1> QED
    BY <1>1, <1>2, <1>3, QueueInvariance, ContentsInvariance, PTL DEF Spec
=============================================================================
