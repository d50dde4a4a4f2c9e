---------------------------- MODULE AtomicQueue -----------------------------
(***************************************************************************)
(* The ring buffer between the profiled threads and the profile's reader   *)
(* thread: AtomicQueue::push and AtomicQueue::pop                          *)
(* (src/Profile/Backend/ThreadSafe/AtomicQueue.cpp), one action per access *)
(* to shared memory.  Writers exclude each other with QL_writer, readers   *)
(* with QL_reader; a writer and a reader meet only in three atomics and in *)
(* the slots of the array, which nothing protects.                         *)
(*                                                                         *)
(* A slot is a Task object of several machine words.  Two are kept, "id"   *)
(* and "stuff"; they are stored and copied in either order, as a build may *)
(* choose, so that a copy can be torn.                                     *)
(***************************************************************************)
EXTENDS Integers, Sequences, FiniteSets

CONSTANTS Writers,     \* the threads that push
          Readers,     \* the threads that pop
          QUEUE_SIZE,  \* slots in the array; also the modulus of p_offset_t
          TRIES_MAX,   \* how often a blocking call looks again
          Blocking,    \* the values callers pass for "block"
          PUSHES,      \* bound: the tasks each writer has to push
          None         \* no owner of a lock; the invalid Task(false)

Task == Writers \X (1..PUSHES)
Words == {"id", "stuff"}
Offset == 0..(QUEUE_SIZE - 1)

ASSUME ThreadsAssumption == Writers \cap Readers = {}
ASSUME NoneAssumption == None \notin Task \cup Writers \cup Readers
ASSUME SizeAssumption == /\ QUEUE_SIZE \in Nat /\ QUEUE_SIZE >= 2
                         /\ TRIES_MAX \in Nat
                         /\ PUSHES \in Nat
                         /\ Blocking \subseteq BOOLEAN

VARIABLES entries, p_read, p_write,  \* the three atomics
          QL_writer, QL_reader,      \* who holds each mutex
          array,                     \* the ring, word by word
          pc,                        \* where each thread is in push or pop
          at,                        \* its own pointer: a writer's w, a reader's r
          seen,                      \* the other pointer as it last read it
          left,                      \* TRIES_MAX - tries
          todo,                      \* words it has yet to store or copy
          copy,                      \* a reader's copy of the slot
          next,                      \* the task a writer pushes next
          log, taken,                \* history: tasks counted in, tasks counted out
          ticket,                    \* history: which entry of the log a pop took
          raced                      \* history: the copy met an open store

shared == <<entries, p_read, p_write, QL_writer, QL_reader, array>>
history == <<log, taken, ticket, raced>>
vars == <<shared, pc, at, seen, left, todo, copy, next, history>>

-----------------------------------------------------------------------------
WriterLocs == {"push_r", "push_e", "push_w", "push_n", "store"}
LockedReaderLocs == {"pop_w", "pop_e", "pop_r", "pop_n"}
ReaderLocs == LockedReaderLocs \cup {"copy"}

Whole(t) == [k \in Words |-> t]
NewTask(p) == <<p, next[p]>>

\* p_offset_t is uint8_t: its ++ wraps where the array ends.
Wrap(i) == (i + 1) % QUEUE_SIZE

\* Fault: only the pointers are compared.
empty_PointersOnly(r, w, e) == r = w

empty(r, w, e) == r = w \/ e <= 0
\* Fault: one slot too many.
full_OneMore(r, w, e) == r = w + 1 \/ e >= QUEUE_SIZE

\* w+1 is an int in C++: at the last slot it is QUEUE_SIZE and equals no r.
full(r, w, e) == r = w + 1 \/ e >= QUEUE_SIZE - 1

Init ==
  /\ entries = 0 /\ p_read = 0 /\ p_write = 0
  /\ QL_writer = None /\ QL_reader = None
  /\ array = [i \in Offset |-> Whole(None)]
  /\ pc = [p \in Writers \cup Readers |-> "idle"]
  /\ at = [p \in Writers \cup Readers |-> 0]
  /\ seen = [p \in Writers \cup Readers |-> 0]
  /\ left = [p \in Writers \cup Readers |-> 0]
  /\ todo = [p \in Writers \cup Readers |-> {}]
  /\ copy = [q \in Readers |-> Whole(None)]
  /\ next = [p \in Writers |-> 1]
  /\ log = <<>> /\ taken = 0
  /\ ticket = [q \in Readers |-> 0]
  /\ raced = [q \in Readers |-> FALSE]

Goto(p, l) == pc' = [pc EXCEPT ![p] = l]
SetTries(p) == \E block \in Blocking :
                 left' = [left EXCEPT ![p] = IF block THEN TRIES_MAX ELSE 0]

-----------------------------------------------------------------------------
(* push *)

\* Fault: the slot is claimed with the lock, before it is known to be free.
PushLock_ClaimsSlot(p) ==
  /\ pc[p] = "idle" /\ next[p] <= PUSHES
  /\ QL_writer = None
  /\ QL_writer' = p
  /\ at' = [at EXCEPT ![p] = p_write]
  /\ p_write' = Wrap(p_write)
  /\ SetTries(p)
  /\ Goto(p, "push_r")
  /\ UNCHANGED <<entries, p_read, QL_reader, array, seen, todo, copy,
                 next, history>>

\* Take QL_writer; w = p_write (only a writer changes it).
PushLock(p) ==
  /\ pc[p] = "idle" /\ next[p] <= PUSHES
  /\ QL_writer = None
  /\ QL_writer' = p
  /\ at' = [at EXCEPT ![p] = p_write]
  /\ SetTries(p)
  /\ Goto(p, "push_r")
  /\ UNCHANGED <<entries, p_read, p_write, QL_reader, array, seen, todo, copy,
                 next, history>>

\* r = p_read, the first time and before every new try.
PushLoadRead(p) ==
  /\ pc[p] = "push_r"
  /\ seen' = [seen EXCEPT ![p] = p_read]
  /\ Goto(p, "push_e")
  /\ UNCHANGED <<shared, at, left, todo, copy, next, history>>

\* e = entries, and full(r, w, e) says there is room.
PushRoom(p) ==
  /\ pc[p] = "push_e"
  /\ ~full(seen[p], at[p], entries)
  /\ Goto(p, "push_w")
  /\ UNCHANGED <<shared, at, seen, left, todo, copy, next, history>>

\* Fault: tries is never incremented.
PushRetry_Uncounted(p) ==
  /\ pc[p] = "push_e"
  /\ full(seen[p], at[p], entries)
  /\ left[p] > 0
  /\ Goto(p, "push_r")
  /\ UNCHANGED <<shared, at, seen, left, todo, copy, next, history>>

\* Full: sleep, then look again.
PushRetry(p) ==
  /\ pc[p] = "push_e"
  /\ full(seen[p], at[p], entries)
  /\ left[p] > 0
  /\ left' = [left EXCEPT ![p] = @ - 1]
  /\ Goto(p, "push_r")
  /\ UNCHANGED <<shared, at, seen, todo, copy, next, history>>

\* Full and out of tries: unlock, return false.  The caller pushes the same
\* task again (test_Queue.cpp) or drops it (MarkovIncrement).
PushGiveUp(p) ==
  /\ pc[p] = "push_e"
  /\ full(seen[p], at[p], entries)
  /\ left[p] = 0
  /\ QL_writer' = None
  /\ Goto(p, "idle")
  /\ \E n \in {next[p], next[p] + 1} : next' = [next EXCEPT ![p] = n]
  /\ UNCHANGED <<entries, p_read, p_write, QL_reader, array, at, seen, left,
                 todo, copy, history>>

\* p_write++
PushAdvance(p) ==
  /\ pc[p] = "push_w"
  /\ p_write' = Wrap(p_write)
  /\ Goto(p, "push_n")
  /\ UNCHANGED <<entries, p_read, QL_writer, QL_reader, array, at, seen, left,
                 todo, copy, next, history>>

\* entries++: from here on readers count the task in.
PushCount(p) ==
  /\ pc[p] = "push_n"
  /\ entries' = entries + 1
  /\ log' = Append(log, NewTask(p))
  /\ todo' = [todo EXCEPT ![p] = Words]
  /\ Goto(p, "store")
  /\ UNCHANGED <<p_read, p_write, QL_writer, QL_reader, array, at, seen, left,
                 copy, next, taken, ticket, raced>>

\* Fault: the store goes through p_write, which has moved on.
PushStore_AtPointer(p) ==
  /\ pc[p] = "store"
  /\ \E k \in todo[p] :
       /\ array' = [array EXCEPT ![p_write][k] = NewTask(p)]
       /\ todo' = [todo EXCEPT ![p] = @ \ {k}]
  /\ UNCHANGED <<entries, p_read, p_write, QL_writer, QL_reader, pc, at, seen,
                 left, copy, next, history>>

\* array[w] = newTask, a word at a time.
PushStore(p) ==
  /\ pc[p] = "store"
  /\ \E k \in todo[p] :
       /\ array' = [array EXCEPT ![at[p]][k] = NewTask(p)]
       /\ todo' = [todo EXCEPT ![p] = @ \ {k}]
  /\ UNCHANGED <<entries, p_read, p_write, QL_writer, QL_reader, pc, at, seen,
                 left, copy, next, history>>

PushReturn(p) ==
  /\ pc[p] = "store" /\ todo[p] = {}
  /\ QL_writer' = None
  /\ next' = [next EXCEPT ![p] = @ + 1]
  /\ Goto(p, "idle")
  /\ UNCHANGED <<entries, p_read, p_write, QL_reader, array, at, seen, left,
                 todo, copy, history>>

-----------------------------------------------------------------------------
(* pop *)

\* Take QL_reader; r = p_read (only a reader changes it).
PopLock(q) ==
  /\ pc[q] = "idle"
  /\ QL_reader = None
  /\ QL_reader' = q
  /\ at' = [at EXCEPT ![q] = p_read]
  /\ SetTries(q)
  /\ Goto(q, "pop_w")
  /\ UNCHANGED <<entries, p_read, p_write, QL_writer, array, seen, todo, copy,
                 next, history>>

\* w = p_write, the first time and before every new try.
PopLoadWrite(q) ==
  /\ pc[q] = "pop_w"
  /\ seen' = [seen EXCEPT ![q] = p_write]
  /\ Goto(q, "pop_e")
  /\ UNCHANGED <<shared, at, left, todo, copy, next, history>>

\* e = entries, and empty(r, w, e) says there is a task.
PopFound(q) ==
  /\ pc[q] = "pop_e"
  /\ ~empty(at[q], seen[q], entries)
  /\ Goto(q, "pop_r")
  /\ UNCHANGED <<shared, at, seen, left, todo, copy, next, history>>

PopRetry(q) ==
  /\ pc[q] = "pop_e"
  /\ empty(at[q], seen[q], entries)
  /\ left[q] > 0
  /\ left' = [left EXCEPT ![q] = @ - 1]
  /\ Goto(q, "pop_w")
  /\ UNCHANGED <<shared, at, seen, todo, copy, next, history>>

\* Fault: the early return keeps the lock.
PopGiveUp_KeepsLock(q) ==
  /\ pc[q] = "pop_e"
  /\ empty(at[q], seen[q], entries)
  /\ left[q] = 0
  /\ Goto(q, "idle")
  /\ UNCHANGED <<shared, at, seen, left, todo, copy, next, history>>

\* Empty and out of tries: unlock, return Task(false).
PopGiveUp(q) ==
  /\ pc[q] = "pop_e"
  /\ empty(at[q], seen[q], entries)
  /\ left[q] = 0
  /\ QL_reader' = None
  /\ Goto(q, "idle")
  /\ UNCHANGED <<entries, p_read, p_write, QL_writer, array, at, seen, left,
                 todo, copy, next, history>>

\* p_read++
PopAdvance(q) ==
  /\ pc[q] = "pop_r"
  /\ p_read' = Wrap(p_read)
  /\ Goto(q, "pop_n")
  /\ UNCHANGED <<entries, p_write, QL_writer, QL_reader, array, at, seen, left,
                 todo, copy, next, history>>

\* entries--, unlock: writers may count on the slot, which is not copied yet.
PopCount(q) ==
  /\ pc[q] = "pop_n"
  /\ entries' = entries - 1
  /\ QL_reader' = None
  /\ taken' = taken + 1
  /\ ticket' = [ticket EXCEPT ![q] = taken + 1]
  /\ raced' = [raced EXCEPT ![q] = FALSE]
  /\ todo' = [todo EXCEPT ![q] = Words]
  /\ Goto(q, "copy")
  /\ UNCHANGED <<p_read, p_write, QL_writer, array, at, seen, left, copy, next,
                 log>>

\* A writer whose store of log entry n is not complete.
StoreOpen(p, n) == pc[p] = "store" /\ todo[p] # {} /\ n = Len(log)

\* Fault: the copy goes through p_read, which has moved on.
PopCopy_AtPointer(q) ==
  /\ pc[q] = "copy"
  /\ \E k \in todo[q] :
       /\ copy' = [copy EXCEPT ![q][k] = array[p_read][k]]
       /\ todo' = [todo EXCEPT ![q] = @ \ {k}]
  /\ raced' = [raced EXCEPT ![q] = @ \/ \E p \in Writers : StoreOpen(p, ticket[q])]
  /\ UNCHANGED <<shared, pc, at, seen, left, next, log, taken, ticket>>

\* return array[r], a word at a time and outside the lock.
PopCopy(q) ==
  /\ pc[q] = "copy"
  /\ \E k \in todo[q] :
       /\ copy' = [copy EXCEPT ![q][k] = array[at[q]][k]]
       /\ todo' = [todo EXCEPT ![q] = @ \ {k}]
  /\ raced' = [raced EXCEPT ![q] = @ \/ \E p \in Writers : StoreOpen(p, ticket[q])]
  /\ UNCHANGED <<shared, pc, at, seen, left, next, log, taken, ticket>>

PopReturn(q) ==
  /\ pc[q] = "copy" /\ todo[q] = {}
  /\ Goto(q, "idle")
  /\ UNCHANGED <<shared, at, seen, left, todo, copy, next, history>>

-----------------------------------------------------------------------------
PushStep(p) == PushLoadRead(p) \/ PushRoom(p) \/ PushRetry(p) \/ PushGiveUp(p)
               \/ PushAdvance(p) \/ PushCount(p) \/ PushStore(p) \/ PushReturn(p)
PopStep(q) == PopLoadWrite(q) \/ PopFound(q) \/ PopRetry(q) \/ PopGiveUp(q)
              \/ PopAdvance(q) \/ PopCount(q) \/ PopCopy(q) \/ PopReturn(q)

Next == \/ \E p \in Writers : PushLock(p) \/ PushStep(p)
        \/ \E q \in Readers : PopLock(q) \/ PopStep(q)

Spec == Init /\ [][Next]_vars

\* The scheduler runs every thread that can run, and a reader calls pop again
\* for as long as there are members (MarkovPush).  Nothing is assumed of the
\* order in which a mutex admits its waiters.
WritersRun == \A p \in Writers : WF_vars(PushStep(p))
ReadersRun == \A q \in Readers : WF_vars(PopLock(q)) /\ WF_vars(PopStep(q))

\* The writers alone are fair: the readers may do nothing.
WritersFairSpec == Spec /\ WritersRun

-----------------------------------------------------------------------------
(* Properties *)

Threads == Writers \cup Readers
At(l) == Cardinality({p \in Threads : pc[p] = l})

SharedType ==
  /\ entries \in Offset /\ p_read \in Offset /\ p_write \in Offset
  /\ QL_writer \in Writers \cup {None} /\ QL_reader \in Readers \cup {None}
  /\ array \in [Offset -> [Words -> Task \cup {None}]]

LocationType ==
  /\ pc \in [Threads -> {"idle"} \cup WriterLocs \cup ReaderLocs]
  /\ \A p \in Writers : pc[p] \in {"idle"} \cup WriterLocs
  /\ \A q \in Readers : pc[q] \in {"idle"} \cup ReaderLocs

LocalType ==
  /\ at \in [Threads -> Offset] /\ seen \in [Threads -> Offset]
  /\ left \in [Threads -> 0..TRIES_MAX]
  /\ todo \in [Threads -> SUBSET Words]
  /\ copy \in [Readers -> [Words -> Task \cup {None}]]
  /\ next \in [Writers -> 1..(PUSHES + 1)]

HistoryType ==
  /\ log \in Seq(Task) /\ taken \in Nat
  /\ ticket \in [Readers -> Nat] /\ raced \in [Readers -> BOOLEAN]

\* Every variable has its type; entries is never 255 + 1 nor 0 - 1.
TypeOK == SharedType /\ LocationType /\ LocalType /\ HistoryType

\* The three atomics tell one story: the distance between the pointers is
\* entries, but for a push or a pop that has done the first of its two
\* increments (AtomicQueue.cpp:50-51, 115-116).
PointersAgree ==
  (p_write + QUEUE_SIZE - p_read) % QUEUE_SIZE = entries + At("push_n") - At("pop_n")

\* A task that was stored and not yet popped stays in its slot: no push laps
\* the reader (the check of full, AtomicQueue.cpp:39, 130-137).
UnreadKept ==
  \A n \in (taken + 1)..Len(log) :
    \/ \E p \in Writers : StoreOpen(p, n)
    \/ array[(n - 1) % QUEUE_SIZE] = Whole(log[n])

\* With one reader, pop returns exactly the task that was pushed at its place
\* in the order, unless its copy met that push between entries++ and the end
\* of the store.
WrongOnlyIfRaced ==
  \A q \in Readers :
    pc[q] = "copy" /\ todo[q] = {} /\ ~raced[q] => copy[q] = Whole(log[ticket[q]])

\* "all tasks are read exactly once out of the queue" (test_Queue.cpp:21):
\* what a pop returns is the task at its place in the order.  The code does
\* not keep it: entries is incremented before the task is stored.
EachReadOnce ==
  \A q \in Readers :
    pc[q] = "copy" /\ todo[q] = {} => copy[q]["id"] = log[ticket[q]]

\* The queue implements a FIFO of QUEUE_SIZE-1 tasks: push takes effect at
\* entries++, pop at entries--, every other step is invisible.
Q == INSTANCE BoundedQueue WITH Tasks <- Task, Capacity <- QUEUE_SIZE - 1
ImplementsQueue == Q!QSpec

\* A push gives up (or succeeds) after a bounded number of tries, even if no
\* reader ever runs ("number of tries before a blocking operation (push or pop)
\* will give up", AtomicQueue.h:16).
PushReturns == \A p \in Writers : pc[p] = "push_r" ~> pc[p] = "idle"

\* Whatever was counted in is counted out, if the readers run and keep calling
\* pop (MarkovPush, Markov.cpp:218-220).
AcceptedDelivered ==
  ReadersRun => \A n \in 1..(Cardinality(Writers) * PUSHES) : Len(log) >= n ~> taken >= n
=============================================================================
