------------------------- MODULE MarkovBackendProofs -------------------------
(***************************************************************************)
(* A theorem about the way of an event into the profile: a program of one  *)
(* thread gets a complete profile, but for what a copy that came too early *)
(* harmed, if the ring is as long as what may be on its way at once,       *)
(* whatever the number of events.                                          *)
(***************************************************************************)
EXTENDS MarkovBackend, TLAPS

\* The profile of a program of one thread, whose pushes wait for the reader.
OneThread == Threads = {Main} /\ ~Slow

\* Slots for the task in hand, those in the queue, the one that is being filled,
\* and the event that does not fit into it any more.
LongRing == BIN_SLOTS >= (CAPACITY + 2) * TASK_SIZE + 1

-----------------------------------------------------------------------------
(* The inductive invariant *)

Slots == 0..(BIN_SLOTS - 1)
Pointer == [kind : Kinds, slot : Slots, for : Event]
Task == [valid : BOOLEAN, count : 0..TASK_SIZE, stuff : [1..TASK_SIZE -> Pointer \cup {Wild}]]

made == emitted[Main]

BackendType ==
  /\ markovActive \in BOOLEAN /\ wrong \in BOOLEAN
  /\ reader \in {"run", "claimed", "follow", "lost", "done"}
  /\ bin \in [Kinds -> [Slots -> Event \cup {NoEvent}]]
  /\ next \in [Kinds -> Slots]
  /\ buffer \in [Threads -> Task]
  /\ log \in Seq(Task) /\ followed \in Nat
  /\ popped \in 0..Len(log) /\ Len(log) - popped <= CAPACITY
  /\ storing \in {Main, NoOne}
  /\ counted \in [Event -> Nat]
  /\ pc \in [Threads -> {"out", "emit", "add", "drain", "join", "written"}]
  /\ kinds \in [Threads -> Seq(Kinds)]
  /\ DOMAIN at = Threads
  /\ calls \in [Threads -> 0..CALLS] /\ emitted \in [Threads -> Nat]
  /\ rest \subseteq Threads /\ dropped = {}

\* Pointer p is to event n, which is still in its slot: the ring's counter is as
\* far beyond the slot as events of that ring were made since.
Holds(p, n) ==
  /\ p \in Pointer /\ p.for = <<Main, n>> /\ Deref(p) = p.for
  /\ \E d \in 1..(made - n + 1) : next[p.kind] = (p.slot + d) % BIN_SLOTS

\* A task has the events after event n, in order; what was counted of them, up to
\* event c, it need not hold any more.
From(task, n, c) ==
  \A j \in 1..TASK_SIZE : j <= task.count /\ n + j > c => Holds(task.stuff[j], n + j)

\* The events before the i-th task, and those up to its end.
Start(i) == (i - 1) * TASK_SIZE
Finish(i) == IF i = 0 THEN 0 ELSE Start(i) + log[i].count

\* Is the thread's task yet to be pushed, or pushed and yet to be reset?
Filling == \/ pc[Main] \in {"out", "emit"}
           \/ pc[Main] = "add" /\ storing = NoOne
           \/ Main \in rest
Storing == pc[Main] = "add" /\ storing = Main
Final == ~Filling /\ ~Storing

\* Tasks are full, but for the last; the events are in them in order.
Lengths ==
  /\ buffer[Main].valid /\ \A i \in 1..Len(log) : log[i].valid
  /\ \A i \in 1..Len(log) : i < Len(log) \/ ~Final => log[i].count = TASK_SIZE
  /\ Filling => made = Start(Len(log) + 1) + buffer[Main].count
                         + IF pc[Main] = "add" THEN 1 ELSE 0
  /\ Storing => made = Start(Len(log) + 1) + 1 /\ Full(buffer[Main])
  /\ Final => made = Finish(Len(log))

Stages ==
  /\ made + Len(kinds[Main]) <= 3 * calls[Main]
  /\ pc[Main] = "add" => Holds(at[Main], made)
  /\ pc[Main] # "drain" => rest = {}
  /\ pc[Main] \notin {"add", "drain"} => storing = NoOne
  /\ ~markovActive => pc[Main] \in {"join", "written"}
  /\ reader \in {"claimed", "follow"} => popped > 0
  /\ reader = "done" => ~markovActive /\ popped = Len(log)
  /\ pc[Main] = "written" => reader = "done"

\* Events were counted up to event c, but for those harmed, and those after it are
\* in the tasks.
Events(c) ==
  /\ \A n \in 1..(3 * CALLS) : <<Main, n>> \notin harmed =>
       counted[<<Main, n>>] = IF n <= c THEN 1 ELSE 0
  /\ \A i \in 1..Len(log) : From(log[i], Start(i), c)
  /\ Filling => From(buffer[Main], Start(Len(log) + 1), c)

\* Where the reader is with c events counted.  What it has for a task that it
\* copied too early counts as the whole task.
Position(c) ==
  /\ reader \in {"run", "done"} => c = Finish(popped)
  /\ reader = "claimed" => c = Start(popped)
  /\ reader = "follow" /\ wrong => c = Finish(popped)
  /\ reader = "follow" /\ ~wrong =>
       hand = log[popped] /\ followed <= hand.count /\ c = Start(popped) + followed

InFlight == reader # "lost" => \E c \in Nat : Events(c) /\ Position(c)

BackendInv == BackendType /\ Stages /\ Lengths /\ InFlight

-----------------------------------------------------------------------------
(* Arithmetic *)

\* Of l tasks of t events each, the i-th ends before they all do.
LEMMA Multiples ==
  ASSUME NEW t \in Nat, NEW l \in Nat, NEW i \in Nat \ {0}, i <= l
  PROVE  /\ (i - 1) * t \in Nat /\ l * t \in Nat
         /\ (i - 1) * t + t <= l * t
  <1>1. PICK k \in Nat, d \in Nat : k = i - 1 /\ l = k + 1 + d
    OBVIOUS
  <1>2. k * t \in Nat /\ d * t \in Nat /\ l * t \in Nat
    BY <1>1
  <1>3. (k + 1 + d) * t = k * t + t + d * t
    OBVIOUS
  <1> QED
    BY <1>1, <1>2, <1>3

\* A span of at most k tasks.
LEMMA Span ==
  ASSUME NEW t \in Nat, NEW l \in Nat, NEW p \in Nat, NEW k \in Nat, l <= p + k
  PROVE  l * t <= p * t + k * t
  <1>1. PICK d \in Nat : p + k = l + d
    OBVIOUS
  <1>2. d * t \in Nat /\ l * t \in Nat /\ p * t \in Nat /\ k * t \in Nat
    OBVIOUS
  <1>3. (p + k) * t = p * t + k * t /\ (l + d) * t = l * t + d * t
    OBVIOUS
  <1> QED
    BY <1>1, <1>2, <1>3

-----------------------------------------------------------------------------
(* The ring *)

LEMMA Constants ==
  /\ TASK_SIZE \in Nat \ {0} /\ BIN_SLOTS \in Nat \ {0} /\ CAPACITY \in Nat \ {0}
  /\ CALLS \in Nat /\ Main \in Threads
  BY BackendAssumption

LEMMA RemainderUnique ==
  ASSUME NEW s \in Nat \ {0}, NEW p \in Int, NEW q \in Int,
         NEW i \in 0..(s - 1), NEW j \in 0..(s - 1), s * p + i = s * q + j
  PROVE  i = j
  OBVIOUS

LEMMA Remainder ==
  ASSUME NEW s \in Nat \ {0}, NEW n \in Nat
  PROVE  n % s \in 0..(s - 1) /\ \E q \in Nat : n = s * q + (n % s)
  <1>1. n % s \in 0..(s - 1)
    OBVIOUS
  <1>2. n \div s \in Nat
    OBVIOUS
  <1>3. n = s * (n \div s) + (n % s)
    OBVIOUS
  <1> QED
    BY <1>1, <1>2, <1>3

\* It comes back to a slot after a whole round only.
LEMMA NotLapped ==
  ASSUME NEW s \in Slots, NEW d \in Nat \ {0}, d < BIN_SLOTS
  PROVE  (s + d) % BIN_SLOTS # s
  <1>1. BIN_SLOTS \in Nat \ {0} /\ s \in Nat
    BY Constants DEF Slots
  <1>2. PICK n \in Nat : n = s + d
    BY <1>1
  <1>3. SUFFICES ASSUME n % BIN_SLOTS = s PROVE FALSE
    BY <1>2
  <1>0. PICK q \in Nat : n = BIN_SLOTS * q + (n % BIN_SLOTS)
    BY <1>1, Remainder
  <1>4. d = BIN_SLOTS * q
    BY <1>1, <1>2, <1>3, <1>0
  <1>5. CASE q = 0
    BY <1>1, <1>4, <1>5
  <1>6. CASE q >= 1
    <2>1. BIN_SLOTS * q >= BIN_SLOTS
      BY <1>1, <1>6
    <2> QED BY <1>1, <1>4, <2>1
  <1> QED
    BY <1>5, <1>6

LEMMA OneFurther ==
  ASSUME NEW n \in Nat
  PROVE  ((n % BIN_SLOTS) + 1) % BIN_SLOTS = (n + 1) % BIN_SLOTS
  <1>1. PICK s \in Nat \ {0} : s = BIN_SLOTS
    BY Constants
  <1>2. PICK r \in 0..(s - 1), q \in Nat : r = n % s /\ n = s * q + r
    BY Remainder, ZenonT(60)
  <1>0. PICK x \in Nat, y \in Nat : x = r + 1 /\ y = n + 1
    OBVIOUS
  <1>3. PICK u \in 0..(s - 1), o \in Nat : u = x % s /\ x = s * o + u
    <2>1. x % s \in 0..(s - 1) /\ \E o \in Nat : x = s * o + (x % s)
      BY Remainder, Zenon
    <2> QED BY <2>1
  <1>4. PICK v \in 0..(s - 1), w \in Nat : v = y % s /\ y = s * w + v
    BY Remainder, ZenonT(60)
  <1>5. s * (q + o) + u = s * w + v
    <2>1. s * (q + o) = s * q + s * o
      OBVIOUS
    <2> QED BY <1>2, <1>0, <1>3, <1>4, <2>1
  <1>6. PICK z \in Int : z = q + o
    OBVIOUS
  <1>7. u = v
    <2>1. s * z + u = s * w + v /\ w \in Int
      BY <1>5, <1>6
    <2> QED BY <2>1, RemainderUnique
  <1> QED
    BY <1>1, <1>2, <1>0, <1>3, <1>4, <1>7

-----------------------------------------------------------------------------
(* Pointers *)

\* A pointer holds while nothing is written to the ring.
LEMMA HoldsKept ==
  ASSUME NEW p, NEW n, Holds(p, n), UNCHANGED <<bin, next, emitted>>
  PROVE  Holds(p, n)'
  BY DEF Holds, Deref, made

\* And when something is, if it is to one of the last BIN_SLOTS - 1 events.
LEMMA HoldsBeyondGet ==
  ASSUME OneThread, BackendInv, GetPtr(Main),
         NEW p, NEW n \in Nat, Holds(p, n), n <= made, made - n + 1 < BIN_SLOTS
  PROVE  Holds(p, n)'
  <1>1. PICK k, w, e : /\ k = Head(kinds[Main]) /\ w = next[k] /\ e = <<Main, made + 1>>
    OBVIOUS
  <1>2. /\ kinds[Main] \in Seq(Kinds) /\ kinds[Main] # <<>>
        /\ next' = [next EXCEPT ![k] = (w + 1) % BIN_SLOTS]
        /\ bin' = [bin EXCEPT ![k][w] = e]
        /\ emitted' = [emitted EXCEPT ![Main] = @ + 1]
    BY <1>1, Constants DEF GetPtr, BackendInv, BackendType, made
  <1>3. k \in Kinds
    BY <1>1, <1>2
  <1>4. /\ bin \in [Kinds -> [Slots -> Event \cup {NoEvent}]] /\ next \in [Kinds -> Slots]
        /\ emitted \in [Threads -> Nat] /\ made \in Nat
    BY Constants DEF BackendInv, BackendType, made
  <1>5. PICK d \in 1..(made - n + 1) : next[p.kind] = (p.slot + d) % BIN_SLOTS
    BY DEF Holds
  <1>6. p \in Pointer /\ p.kind \in Kinds /\ p.slot \in Slots
    BY DEF Holds, Pointer
  <1>7. made' = made + 1
    BY <1>2, <1>4, Constants DEF made
  <1>8. next[p.kind] # p.slot
    <2>1. d \in Nat \ {0} /\ d < BIN_SLOTS
      BY <1>4, <1>5, Constants
    <2> QED BY <1>5, <1>6, <2>1, NotLapped
  <1>9. Deref(p)' = Deref(p)
    BY <1>1, <1>2, <1>3, <1>4, <1>6, <1>8 DEF Deref
  <1>10. \E f \in 1..(made' - n + 1) : next'[p.kind] = (p.slot + f) % BIN_SLOTS
    <2>1. CASE p.kind = k
      <3>1. p.slot + d \in Nat
        BY <1>5, <1>6, Constants DEF Slots
      <3>2. next'[p.kind] = ((p.slot + d) + 1) % BIN_SLOTS
        BY <1>1, <1>2, <1>3, <1>4, <1>5, <2>1, <3>1, OneFurther
      <3>3. d + 1 \in 1..(made' - n + 1)
        BY <1>4, <1>5, <1>7
      <3>4. p.slot \in Nat /\ d \in Nat
        BY <1>4, <1>5, <1>6, Constants DEF Slots
      <3>5. (p.slot + d) + 1 = p.slot + (d + 1)
        BY <3>4
      <3> QED BY <3>2, <3>3, <3>5
    <2>2. CASE p.kind # k
      <3>1. d \in 1..(made' - n + 1)
        BY <1>4, <1>5, <1>7
      <3>2. next'[p.kind] = next[p.kind]
        BY <1>2, <1>4, <1>6, <2>2
      <3> QED BY <1>5, <3>1, <3>2
    <2> QED BY <2>1, <2>2
  <1> QED
    BY <1>6, <1>9, <1>10 DEF Holds
-----------------------------------------------------------------------------
(* Where tasks begin *)

LEMMA Starts ==
  ASSUME NEW i \in Nat \ {0}
  PROVE  Start(i) \in Nat /\ Start(i + 1) = Start(i) + TASK_SIZE /\ Start(1) = 0
  <1>1. PICK k \in Nat, t \in Nat : k = i - 1 /\ t = TASK_SIZE
    BY Constants
  <1>2. (i + 1) - 1 = k + 1 /\ 1 - 1 = 0
    BY <1>1
  <1>3. k * t \in Nat /\ (k + 1) * t = k * t + t /\ 0 * t = 0
    BY <1>1
  <1> QED
    BY <1>1, <1>2, <1>3 DEF Start

LEMMA StartsInOrder ==
  ASSUME NEW l \in Nat, NEW i \in 1..l
  PROVE  Start(i) \in Nat /\ Start(i) + TASK_SIZE <= Start(l + 1)
  <1>1. PICK t \in Nat : t = TASK_SIZE
    BY Constants
  <1>2. i \in Nat \ {0} /\ i <= l
    OBVIOUS
  <1>3. (i - 1) * t \in Nat /\ (i - 1) * t + t <= l * t
    BY <1>2, Multiples
  <1>4. (l + 1) - 1 = l
    OBVIOUS
  <1> QED
    BY <1>1, <1>3, <1>4 DEF Start

-----------------------------------------------------------------------------
(* Tasks *)

LEMMA AddedTask ==
  ASSUME NEW task \in Task, ~Full(task), NEW p \in Pointer
  PROVE  LET a == Added(task, p)
         IN  /\ a \in Task /\ a.count = task.count + 1 /\ a.valid = task.valid
             /\ a.stuff[task.count + 1] = p
             /\ \A j \in 1..TASK_SIZE : j <= task.count => a.stuff[j] = task.stuff[j]
  <1> DEFINE n == task.count + 1
             s == [task.stuff EXCEPT ![n] = p]
  <1>1. n \in 1..TASK_SIZE /\ task.count \in Nat
    BY Constants DEF Task, Full
  <1>2. s \in [1..TASK_SIZE -> Pointer \cup {Wild}] /\ s[n] = p
    BY <1>1 DEF Task
  <1>3. \A j \in 1..TASK_SIZE : j <= task.count => s[j] = task.stuff[j]
    BY <1>1 DEF Task
  <1>4. Added(task, p) = [valid |-> task.valid, count |-> n, stuff |-> s]
    BY DEF Added
  <1>5. Added(task, p) \in Task
    BY <1>1, <1>2, <1>4 DEF Task
  <1> QED
    BY <1>1, <1>2, <1>3, <1>4, <1>5

LEMMA ResetTask ==
  ASSUME NEW task \in Task
  PROVE  Reset(task) \in Task /\ Reset(task).count = 0 /\ Reset(task).valid /\ ~Full(Reset(task))
  <1>1. task.stuff \in [1..TASK_SIZE -> Pointer \cup {Wild}] /\ 0 \in 0..TASK_SIZE
    BY Constants DEF Task
  <1> QED
    BY <1>1, Constants DEF Reset, Full, Task

\* The log with one more task.
LEMMA Appended ==
  ASSUME NEW b \in Task, log \in Seq(Task), log' = Append(log, b)
  PROVE  /\ log' \in Seq(Task) /\ Len(log) \in Nat /\ Len(log') = Len(log) + 1
         /\ \A i \in 1..Len(log) : log'[i] = log[i]
         /\ log'[Len(log) + 1] = b
  OBVIOUS

LEMMA Logged ==
  ASSUME log \in Seq(Task), NEW i \in 1..Len(log)
  PROVE  /\ log[i] \in Task /\ log[i].count \in 0..TASK_SIZE /\ log[i].valid \in BOOLEAN
         /\ log[i].stuff \in [1..TASK_SIZE -> Pointer \cup {Wild}]
  <1>1. log[i] \in Task
    OBVIOUS
  <1> QED
    BY <1>1 DEF Task

-----------------------------------------------------------------------------
(* Steps that leave most as it is *)

LEMMA FromKept ==
  ASSUME NEW task, NEW n, NEW c, From(task, n, c), UNCHANGED <<bin, next, emitted>>
  PROVE  From(task, n, c)'
  BY HoldsKept DEF From

LEMMA EventsKept ==
  ASSUME NEW c, Events(c), UNCHANGED <<bin, next, emitted, log, buffer, counted, harmed>>,
         Filling' => Filling
  PROVE  Events(c)'
  <1>1. ASSUME NEW i \in 1..Len(log) PROVE From(log[i], Start(i), c)'
    <2>1. PICK task, n : task = log[i] /\ n = Start(i)
      OBVIOUS
    <2>2. From(task, n, c)'
      BY <2>1, FromKept DEF Events
    <2>3. log'[i] = task /\ Start(i)' = n
      BY <2>1 DEF Start
    <2> QED BY <2>2, <2>3
  <1>2. Filling' => From(buffer[Main], Start(Len(log) + 1), c)'
    <2>1. PICK task, n : task = buffer[Main] /\ n = Start(Len(log) + 1)
      OBVIOUS
    <2>2. Filling' => From(task, n, c)'
      BY <2>1, FromKept DEF Events
    <2>3. buffer'[Main] = task /\ Start(Len(log) + 1)' = n
      BY <2>1 DEF Start
    <2> QED BY <2>2, <2>3
  <1> QED
    BY <1>1, <1>2 DEF Events

LEMMA PositionKept ==
  ASSUME NEW c, Position(c), UNCHANGED <<log, popped, hand, followed, reader, wrong>>
  PROVE  Position(c)'
  BY DEF Position, Finish, Start

LEMMA LengthsKept ==
  ASSUME Lengths, UNCHANGED <<emitted, log, buffer>>,
         Filling' <=> Filling, Storing' <=> Storing, (pc'[Main] = "add") <=> (pc[Main] = "add")
  PROVE  Lengths'
  BY DEF Lengths, made, Finish, Start, Final, Full

\* Steps of the thread that move no event.
LEMMA StillKeeps ==
  ASSUME OneThread, BackendInv,
         \/ Increment(Main) \/ Return(Main) \/ DestroyStore \/ Deactivate \/ Write
         \/ UNCHANGED vars
  PROVE  BackendInv'
  <1> USE DEF Goto, queue, readers, ring, threads
  <1>1. BackendType /\ Stages /\ Lengths /\ Main \in Threads
    BY Constants DEF BackendInv
  <1>2. /\ UNCHANGED <<bin, next, emitted, log, popped, hand, followed, reader, counted, wrong,
                       harmed, buffer, at, rest, dropped>>
        /\ (pc'[Main] = "add") <=> (pc[Main] = "add")
    BY <1>1 DEF Increment, Return, DestroyStore, Deactivate, Write, vars, BackendType
  <1>3. (Filling' <=> Filling) /\ (Storing' <=> Storing)
    BY <1>1 DEF Increment, Return, DestroyStore, Deactivate, Write, vars, BackendType, Filling,
                Storing, Stages, OneThread
  <1>4. Lengths'
    BY <1>1, <1>2, <1>3, LengthsKept
  <1>5. InFlight'
    BY <1>2, <1>3, EventsKept, PositionKept DEF BackendInv, InFlight
  <1>6. CASE Increment(Main)
    <2>1. PICK ks \in KindsOfCall : kinds' = [kinds EXCEPT ![Main] = ks]
      BY <1>6 DEF Increment
    <2>2. ks \in Seq(Kinds) /\ Len(ks) <= 3 /\ Len(ks) \in Nat
      <3>1. /\ ks \in {<<Edge>>, <<Edge, "label">>, <<Edge, "call">>, <<Edge, "label", "call">>}
            /\ \A i \in DOMAIN ks : ks[i] \in Kinds
        BY <2>1 DEF KindsOfCall
      <3>2. CASE ks = <<Edge>>
        BY <3>1, <3>2
      <3>3. CASE ks = <<Edge, "label">> \/ ks = <<Edge, "call">>
        BY <3>1, <3>3
      <3>4. CASE ks = <<Edge, "label", "call">>
        BY <3>1, <3>4
      <3> QED BY <3>1, <3>2, <3>3, <3>4
    <2>3. kinds' \in [Threads -> Seq(Kinds)] /\ kinds'[Main] = ks
      BY <1>1, <2>1, <2>2 DEF BackendType
    <2>4. calls' \in [Threads -> 0..CALLS] /\ calls'[Main] = calls[Main] + 1
      BY <1>1, <1>6, Constants DEF Increment, BackendType
    <2>5. BackendType'
      BY <1>1, <1>2, <1>6, <2>3, <2>4 DEF Increment, BackendType
    <2>6. made' = made /\ made \in Nat /\ calls[Main] \in Nat /\ Len(kinds[Main]) \in Nat
      BY <1>1, <1>2, Constants DEF made, BackendType
    <2>7. made' + Len(kinds'[Main]) <= 3 * calls'[Main]
      <3>1. PICK a \in Nat, m \in Nat, k \in Nat :
              a = calls[Main] /\ m = made /\ k = Len(kinds[Main]) /\ m + k <= 3 * a
        <4>1. made + Len(kinds[Main]) <= 3 * calls[Main]
          BY <1>1 DEF Stages
        <4>2. PICK a \in Nat, m \in Nat, k \in Nat :
                a = calls[Main] /\ m = made /\ k = Len(kinds[Main])
          BY <2>6
        <4> QED BY <4>1, <4>2
      <3>2. m + Len(ks) <= 3 * (a + 1)
        <4>1. PICK n \in Nat : n = Len(ks) /\ n <= 3
          BY <2>2
        <4>2. m <= 3 * a /\ 3 * (a + 1) = 3 * a + 3
          BY <3>1
        <4> QED BY <4>1, <4>2
      <3>3. made' = m /\ kinds'[Main] = ks /\ calls'[Main] = a + 1
        BY <2>3, <2>4, <2>6, <3>1
      <3> QED BY <3>2, <3>3
    <2>8. pc'[Main] = "emit" /\ pc[Main] = "out" /\ UNCHANGED <<markovActive, storing>>
      BY <1>1, <1>6 DEF Increment, BackendType
    <2>9. Stages'
      BY <1>1, <1>2, <2>7, <2>8 DEF Stages
    <2> QED BY <1>4, <1>5, <2>5, <2>9 DEF BackendInv
  <1>7. CASE Return(Main) \/ DestroyStore \/ Deactivate \/ Write \/ UNCHANGED vars
    <2>1. BackendType'
      BY <1>1, <1>2, <1>7 DEF Return, DestroyStore, Deactivate, Write, vars, BackendType
    <2>2. UNCHANGED <<kinds, calls>> /\ made' = made
      BY <1>7 DEF Return, DestroyStore, Deactivate, Write, vars, made
    <2>3. pc[Main] = "add" => Holds(at[Main], made)'
      BY <1>1, <1>2, HoldsKept DEF Stages, Holds, Deref, made
    <2>4. Stages'
      BY <1>1, <1>2, <1>7, <2>2, <2>3
         DEF Return, DestroyStore, Deactivate, Write, vars, BackendType, Stages
    <2> QED BY <1>4, <1>5, <2>1, <2>4 DEF BackendInv
  <1> QED
    BY <1>6, <1>7

-----------------------------------------------------------------------------
(* The reader *)

LEMMA ReaderStages ==
  ASSUME OneThread, BackendInv, Reader
  PROVE  /\ BackendType' /\ Stages' /\ Lengths' /\ (Filling' <=> Filling)
         /\ UNCHANGED <<bin, next, emitted, log, buffer>>
  <1> USE DEF queue, readers, ring, threads
  <1>1. BackendType /\ Stages /\ Lengths /\ Main \in Threads /\ Len(log) \in Nat
    BY Constants DEF BackendInv, BackendType
  <1>2. UNCHANGED <<markovActive, bin, next, emitted, log, storing, buffer, pc, kinds, at, calls,
                    rest, dropped>>
    BY DEF Reader, Claim, Copy, Skip, CountEvent, FollowWild, TaskDone, ReaderExit
  <1>3. (Filling' <=> Filling) /\ (Storing' <=> Storing)
    BY <1>2 DEF Filling, Storing
  <1>4. Lengths'
    BY <1>1, <1>2, <1>3, LengthsKept
  <1>5. BackendType'
    <2>1. popped' \in 0..Len(log) /\ Len(log) - popped' <= CAPACITY
      BY <1>1, Constants DEF BackendType, Reader, Claim, Copy, Skip, CountEvent, FollowWild,
                             TaskDone, ReaderExit, Members
    <2>2. counted' \in [Event -> Nat]
      <3>1. CASE CountEvent
        <4>1. PICK x : x = Deref(hand.stuff[followed + 1])
          OBVIOUS
        <4>2. counted' = [counted EXCEPT ![x] = counted[x] + 1] /\ counted \in [Event -> Nat]
          BY <1>1, <3>1, <4>1 DEF CountEvent, BackendType
        <4>3. CASE x \in Event
          BY <4>2, <4>3
        <4>4. CASE x \notin Event
          BY <4>2, <4>4
        <4> QED BY <4>3, <4>4
      <3>2. CASE ~CountEvent
        BY <1>1, <3>2 DEF BackendType, Reader, Claim, Copy, Skip, FollowWild, TaskDone, ReaderExit
      <3> QED BY <3>1, <3>2
    <2>3. wrong' \in BOOLEAN /\ followed' \in Nat
      <3>1. wrong' = wrong \/ wrong' = (hand' # log[popped])
        BY DEF Reader, Claim, Copy, Skip, CountEvent, FollowWild, TaskDone, ReaderExit
      <3>2. wrong' \in BOOLEAN
        BY <1>1, <3>1, Zenon DEF BackendType
      <3>3. followed' \in {0, followed, followed + 1}
        BY DEF Reader, Claim, Copy, Skip, CountEvent, FollowWild, TaskDone, ReaderExit
      <3> QED BY <1>1, <3>2, <3>3 DEF BackendType
    <2>4. reader' \in {"run", "claimed", "follow", "lost", "done"}
      BY <1>1 DEF BackendType, Reader, Claim, Copy, Skip, CountEvent, FollowWild, TaskDone,
                  ReaderExit
    <2> QED BY <1>1, <1>2, <2>1, <2>2, <2>3, <2>4 DEF BackendType
  <1>6. Stages'
    <2>1. pc[Main] = "add" => Holds(at[Main], made)'
      BY <1>1, <1>2, HoldsKept DEF Stages, Holds, Deref, made
    <2>2. reader' \in {"claimed", "follow"} => popped' > 0
      BY <1>1, Constants DEF Stages, BackendType, Reader, Claim, Copy, Skip, CountEvent, FollowWild,
                             TaskDone, ReaderExit
    <2>3. reader # "done" /\ (reader' = "done" => ~markovActive /\ popped' = Len(log))
      BY <1>1 DEF BackendType, Reader, Claim, Copy, Skip, CountEvent, FollowWild, TaskDone,
                  ReaderExit, Members
    <2>4. made' = made
      BY <1>2 DEF made
    <2> QED BY <1>1, <1>2, <2>1, <2>2, <2>3, <2>4 DEF Stages
  <1> QED
    BY <1>2, <1>3, <1>4, <1>5, <1>6

LEMMA FromLater ==
  ASSUME NEW task, NEW n \in Nat, NEW c \in Nat, NEW d \in Nat, c <= d, From(task, n, c)
  PROVE  From(task, n, d)
  <1>1. ASSUME NEW j \in 1..TASK_SIZE, j <= task.count, n + j > d
        PROVE  Holds(task.stuff[j], n + j)
    <2>1. n + j > c
      BY <1>1, Constants
    <2> QED BY <1>1, <2>1 DEF From
  <1> QED
    BY <1>1 DEF From

\* What the tasks need have when more was counted.
LEMMA TasksLater ==
  ASSUME BackendType, NEW c \in Nat, NEW d \in Nat, c <= d, Events(c),
         UNCHANGED <<bin, next, emitted, log, buffer>>, Filling' <=> Filling
  PROVE  /\ \A i \in 1..Len(log') : From(log[i], Start(i), d)'
         /\ Filling' => From(buffer[Main], Start(Len(log) + 1), d)'
  <1>1. Len(log) \in Nat
    BY DEF BackendType
  <1>2. ASSUME NEW i \in 1..Len(log) PROVE From(log[i], Start(i), d)'
    <2>1. PICK t, n : t = log[i] /\ n = Start(i)
      OBVIOUS
    <2>2. n \in Nat /\ From(t, n, c)
      <3>1. i \in Nat \ {0}
        BY <1>1
      <3>2. n \in Nat
        BY <2>1, <3>1, Starts
      <3> QED BY <2>1, <3>2 DEF Events
    <2>3. From(t, n, d)'
      BY <2>2, FromLater, FromKept
    <2>4. log'[i] = t /\ Start(i)' = n
      BY <2>1 DEF Start
    <2> QED BY <2>3, <2>4
  <1>3. ASSUME Filling PROVE From(buffer[Main], Start(Len(log) + 1), d)'
    <2>1. PICK t, n : t = buffer[Main] /\ n = Start(Len(log) + 1)
      OBVIOUS
    <2>2. n \in Nat /\ From(t, n, c)
      BY <1>1, <1>3, <2>1, Starts DEF Events
    <2>3. From(t, n, d)'
      BY <2>2, FromLater, FromKept
    <2>4. buffer'[Main] = t /\ Start(Len(log) + 1)' = n
      BY <2>1 DEF Start
    <2> QED BY <2>3, <2>4
  <1> QED
    BY <1>2, <1>3

\* A task that another follows is full.
LEMMA NextBegins ==
  ASSUME BackendType, Lengths, popped < Len(log)
  PROVE  Finish(popped) = Start(popped + 1)
  <1>1. popped \in Nat /\ Len(log) \in Nat
    BY DEF BackendType
  <1>2. CASE popped = 0
    <2>1. Start(1) = 0 /\ popped + 1 = 1
      BY <1>2, Starts
    <2> QED BY <1>2, <2>1 DEF Finish
  <1>3. CASE popped # 0
    <2>1. log[popped].count = TASK_SIZE
      BY <1>1, <1>3 DEF Lengths
    <2>2. Start(popped + 1) = Start(popped) + TASK_SIZE
      BY <1>1, <1>3, Starts
    <2> QED BY <1>3, <2>1, <2>2 DEF Finish
  <1> QED
    BY <1>2, <1>3

\* A copy that came too early counts as the whole task, whose events are harmed.
LEMMA WrongCopyKeeps ==
  ASSUME OneThread, BackendInv, Copy, wrong', NEW c \in Nat, Events(c), Position(c)
  PROVE  Finish(popped) \in Nat /\ Events(Finish(popped))'
  <1> USE DEF queue, readers, ring, threads
  <1>1. /\ BackendType /\ Stages /\ Lengths /\ popped \in 1..Len(log) /\ Len(log) \in Nat
        /\ reader = "claimed" /\ harmed' = harmed \cup EventsOf(log[popped])
        /\ UNCHANGED <<bin, next, emitted, log, popped, counted, buffer>> /\ (Filling' <=> Filling)
    <2>1. reader = "claimed" /\ BackendType /\ Stages /\ Lengths
      BY DEF Copy, BackendInv
    <2>2. popped \in 1..Len(log) /\ Len(log) \in Nat
      BY <2>1 DEF BackendType, Stages
    <2> QED BY <2>1, <2>2, ReaderStages DEF Copy, Reader
  <1>2. PICK task, s : task = log[popped] /\ s = Start(popped)
    OBVIOUS
  <1>3. s \in Nat /\ task.count \in 0..TASK_SIZE /\ c = s
    BY <1>1, <1>2, Starts, Logged DEF BackendType, Position
  <1>4. Finish(popped) = s + task.count
    BY <1>1, <1>2 DEF Finish
  <1>5. PICK d \in Nat : d = s + task.count
    BY <1>3, Constants
  <1>6. From(task, s, c)
    BY <1>1, <1>2 DEF Events
  <1>7. ASSUME NEW n \in 1..(3 * CALLS), <<Main, n>> \notin harmed'
        PROVE  counted'[<<Main, n>>] = IF n <= d THEN 1 ELSE 0
    <2>1. counted[<<Main, n>>] = IF n <= c THEN 1 ELSE 0
      BY <1>1, <1>7 DEF Events
    <2>2. ASSUME c < n, n <= d PROVE FALSE
      <3>1. PICK j \in 1..TASK_SIZE : n = s + j
        <4>1. PICK j \in Nat : n = s + j /\ j > 0
          BY <1>3, <2>2
        <4>2. j <= TASK_SIZE
          BY <1>3, <1>5, <2>2, <4>1, Constants
        <4> QED BY <4>1, <4>2, Constants
      <3>2. j <= task.count
        BY <1>3, <1>5, <2>2, <3>1, Constants
      <3>3. Holds(task.stuff[j], s + j)
        BY <1>3, <1>6, <2>2, <3>1, <3>2 DEF From
      <3>4. task.stuff[j].for = <<Main, n>> /\ j \in 1..task.count
        BY <1>3, <3>1, <3>2, <3>3, Constants DEF Holds
      <3>5. <<Main, n>> \in EventsOf(task)
        BY <3>4 DEF EventsOf
      <3> QED BY <1>1, <1>2, <1>7, <3>5
    <2>3. n <= c <=> n <= d
      BY <1>3, <1>5, <2>2, Constants
    <2> QED BY <1>1, <2>1, <2>3
  <1>8. /\ \A i \in 1..Len(log') : From(log[i], Start(i), d)'
        /\ Filling' => From(buffer[Main], Start(Len(log) + 1), d)'
    <2>1. c <= d
      BY <1>3, <1>5, Constants
    <2> QED BY <1>1, <2>1, TasksLater
  <1>9. Events(d)'
    BY <1>1, <1>7, <1>8 DEF Events
  <1>10. Finish(popped)' = d
    BY <1>1, <1>2, <1>4, <1>5 DEF Finish, Start
  <1> QED
    BY <1>4, <1>5, <1>9, <1>10

\* The next event is counted: by a pointer that holds, or, of a task that was
\* copied too early, whichever event is there.
LEMMA CountEventKeeps ==
  ASSUME OneThread, BackendInv, CountEvent, NEW c \in Nat, Events(c), Position(c)
  PROVE  InFlight'
  <1> USE DEF queue, readers, ring, threads
  <1>1. /\ BackendType /\ reader = "follow" /\ popped \in 1..Len(log) /\ Len(log) \in Nat
        /\ counted \in [Event -> Nat] /\ followed \in Nat /\ Main \in Threads
    <2>1. BackendType /\ Stages /\ reader = "follow"
      BY DEF BackendInv, CountEvent
    <2>2. popped > 0
      BY <2>1 DEF Stages
    <2> QED BY <2>1, <2>2, Constants DEF BackendType
  <1>2. (Filling' <=> Filling) /\ UNCHANGED <<bin, next, emitted, log, buffer>>
    BY ReaderStages DEF Reader
  <1>3. PICK p, x : p = hand.stuff[followed + 1] /\ x = Deref(p)
    OBVIOUS
  <1>4. /\ counted' = [counted EXCEPT ![x] = counted[x] + 1]
        /\ harmed' = IF wrong THEN harmed \cup {x} ELSE harmed
        /\ followed' = followed + 1 /\ followed < hand.count
        /\ UNCHANGED <<popped, hand, reader, wrong>>
    BY <1>3 DEF CountEvent
  <1>5. \A n \in 1..(3 * CALLS) : <<Main, n>> \in Event
    BY <1>1 DEF Event
  <1>6. CASE wrong
    <2>1. ASSUME NEW n \in 1..(3 * CALLS), <<Main, n>> \notin harmed'
          PROVE  counted'[<<Main, n>>] = IF n <= c THEN 1 ELSE 0
      <3>1. <<Main, n>> # x /\ <<Main, n>> \notin harmed
        BY <1>4, <1>6, <2>1
      <3>2. counted'[<<Main, n>>] = counted[<<Main, n>>]
        BY <1>1, <1>4, <1>5, <3>1
      <3> QED BY <3>1, <3>2 DEF Events
    <2>2. /\ \A i \in 1..Len(log') : From(log[i], Start(i), c)'
          /\ Filling' => From(buffer[Main], Start(Len(log) + 1), c)'
      BY <1>1, <1>2, TasksLater
    <2>3. Events(c)'
      BY <2>1, <2>2 DEF Events
    <2>4. Position(c)'
      BY <1>1, <1>2, <1>4, <1>6 DEF Position, Finish, Start
    <2> QED BY <2>3, <2>4 DEF InFlight
  <1>7. CASE ~wrong
    <2>1. PICK task, s : task = log[popped] /\ s = Start(popped)
      OBVIOUS
    <2>2. /\ hand = task /\ c = s + followed /\ s \in Nat /\ task.count \in 0..TASK_SIZE
      <3>1. hand = task /\ c = s + followed
        BY <1>1, <1>7, <2>1 DEF Position
      <3>2. popped \in Nat \ {0} /\ log \in Seq(Task)
        BY <1>1 DEF BackendType
      <3> QED BY <1>1, <2>1, <3>1, <3>2, Starts, Logged
    <2>3. PICK j \in 1..TASK_SIZE : j = followed + 1 /\ j <= task.count
      BY <1>1, <1>4, <2>2, Constants
    <2>4. PICK d \in Nat : d = c + 1 /\ d = s + j
      BY <1>1, <2>2, <2>3
    <2>5. Holds(p, d)
      <3>1. From(task, s, c)
        BY <1>1, <2>1 DEF Events
      <3>2. s + j > c
        BY <2>4
      <3> QED BY <1>3, <2>2, <2>3, <2>4, <3>1, <3>2 DEF From
    <2>6. x = <<Main, d>> /\ d \in 1..(3 * CALLS)
      <3>1. x = <<Main, d>> /\ x \in Event
        BY <1>3, <2>5 DEF Holds, Pointer
      <3> QED BY <3>1 DEF Event
    <2>7. ASSUME NEW n \in 1..(3 * CALLS), <<Main, n>> \notin harmed'
          PROVE  counted'[<<Main, n>>] = IF n <= d THEN 1 ELSE 0
      <3>1. counted[<<Main, n>>] = IF n <= c THEN 1 ELSE 0
        BY <1>4, <1>7, <2>7 DEF Events
      <3>2. CASE n = d
        <4>1. counted'[x] = counted[x] + 1 /\ <<Main, n>> = x
          BY <1>1, <1>4, <1>5, <2>6, <3>2
        <4>2. ~(n <= c) /\ n <= d
          BY <2>4, <3>2
        <4> QED BY <3>1, <4>1, <4>2
      <3>3. CASE n # d
        <4>1. counted'[<<Main, n>>] = counted[<<Main, n>>]
          BY <1>1, <1>4, <1>5, <2>6, <3>3
        <4>2. n <= c <=> n <= d
          BY <2>4, <3>3
        <4> QED BY <3>1, <4>1, <4>2
      <3> QED BY <3>2, <3>3
    <2>8. /\ \A i \in 1..Len(log') : From(log[i], Start(i), d)'
          /\ Filling' => From(buffer[Main], Start(Len(log) + 1), d)'
      <3>1. c <= d
        BY <2>4
      <3> QED BY <1>1, <1>2, <3>1, TasksLater
    <2>9. Events(d)'
      BY <2>7, <2>8 DEF Events
    <2>10. Position(d)'
      <3>1. Start(popped)' = s /\ log'[popped'] = hand' /\ d = s + followed' /\ followed' <= hand'.count
        BY <1>1, <1>2, <1>4, <2>1, <2>2, <2>3, <2>4 DEF Start
      <3> QED BY <1>1, <1>4, <1>7, <3>1 DEF Position
    <2> QED BY <2>9, <2>10 DEF InFlight
  <1> QED
    BY <1>6, <1>7

LEMMA ReaderKeeps ==
  ASSUME OneThread, BackendInv, Reader
  PROVE  BackendInv'
  <1> USE DEF queue, readers, ring, threads
  <1>1. BackendType /\ Stages /\ Lengths /\ Len(log) \in Nat /\ popped \in 0..Len(log)
    BY DEF BackendInv, BackendType
  <1>2. /\ BackendType' /\ Stages' /\ Lengths' /\ (Filling' <=> Filling)
        /\ UNCHANGED <<bin, next, emitted, log, buffer>>
    BY ReaderStages
  <1>3. CASE reader = "lost" \/ FollowWild
    <2>1. reader' = "lost"
      BY <1>3 DEF Reader, Claim, Copy, Skip, CountEvent, FollowWild, TaskDone, ReaderExit
    <2> QED BY <1>2, <2>1 DEF BackendInv, InFlight
  <1>4. SUFFICES ASSUME reader # "lost", ~FollowWild, NEW c \in Nat, Events(c), Position(c)
                 PROVE  InFlight'
    BY <1>2, <1>3 DEF BackendInv, InFlight
  <1>5. Events(c)' \/ Copy \/ CountEvent
    BY <1>2, <1>4, EventsKept DEF Reader, Claim, Skip, TaskDone, ReaderExit
  <1>6. reader \in {"claimed", "follow"} =>
          /\ popped \in 1..Len(log) /\ Start(popped) \in Nat /\ log[popped].valid
          /\ log[popped].count \in 0..TASK_SIZE /\ Finish(popped) = Start(popped) + log[popped].count
    <2>1. SUFFICES ASSUME reader \in {"claimed", "follow"}
                   PROVE  /\ popped \in 1..Len(log) /\ Start(popped) \in Nat /\ log[popped].valid
                          /\ log[popped].count \in 0..TASK_SIZE
                          /\ Finish(popped) = Start(popped) + log[popped].count
      OBVIOUS
    <2>2. popped \in 1..Len(log) /\ popped \in Nat \ {0} /\ popped # 0 /\ log \in Seq(Task)
      BY <1>1, <2>1 DEF BackendType, Stages
    <2> QED BY <1>1, <2>2, Starts, Logged DEF Lengths, Finish
  <1>7. CASE Claim
    <2>1. popped < Len(log) /\ popped' = popped + 1 /\ reader = "run" /\ reader' = "claimed"
      BY <1>1, <1>7 DEF Claim, Members
    <2>2. c = Start(popped + 1)
      BY <1>1, <1>4, <2>1, NextBegins DEF Position
    <2>3. Position(c)'
      BY <2>1, <2>2 DEF Position, Start
    <2> QED BY <1>4, <1>5, <1>7, <2>3 DEF InFlight, Claim, Copy, CountEvent
  <1>8. CASE Copy /\ wrong'
    <2>1. PICK d : d = Finish(popped)
      OBVIOUS
    <2>2. d \in Nat /\ Events(d)'
      <3>1. Finish(popped) \in Nat /\ Events(Finish(popped))'
        BY <1>4, <1>8, WrongCopyKeeps
      <3>2. Finish(popped)' = d
        BY <1>2, <1>8, <2>1 DEF Copy, Finish, Start
      <3> QED BY <2>1, <3>1, <3>2
    <2>3. Position(d)'
      BY <1>2, <1>8, <2>1 DEF Copy, Position, Finish, Start
    <2> QED BY <2>2, <2>3 DEF InFlight
  <1>9. CASE Copy /\ ~wrong'
    <2>1. reader = "claimed" /\ reader' = "follow" /\ followed' = 0 /\ UNCHANGED <<counted, popped>>
      BY <1>9 DEF Copy
    <2>2. hand' = log[popped] /\ harmed' = harmed
      BY <1>9 DEF Copy
    <2>3. Events(c)'
      BY <1>2, <1>4, <2>1, <2>2, EventsKept
    <2>4. c = Start(popped) + followed' /\ followed' <= hand'.count
      BY <1>4, <1>6, <2>1, <2>2, Constants DEF Position
    <2>5. Position(c)'
      BY <1>2, <1>9, <2>1, <2>2, <2>4 DEF Position, Start
    <2> QED BY <1>4, <2>3, <2>5 DEF InFlight
  <1>10. CASE Skip
    <2>1. reader = "follow" /\ wrong /\ reader' = "run" /\ popped' = popped
      BY <1>4, <1>6, <1>10 DEF Skip, Position
    <2>2. Position(c)'
      BY <1>2, <1>4, <2>1 DEF Position, Finish, Start
    <2> QED BY <1>4, <1>5, <1>10, <2>1, <2>2 DEF InFlight, Skip, Copy, CountEvent
  <1>11. CASE CountEvent
    BY <1>4, <1>11, CountEventKeeps
  <1>12. CASE TaskDone
    <2>1. reader = "follow" /\ followed = hand.count /\ reader' = "run" /\ popped' = popped
      BY <1>12 DEF TaskDone
    <2>2. c = Finish(popped)
      BY <1>4, <1>6, <2>1 DEF Position
    <2>3. Position(c)'
      BY <1>2, <2>1, <2>2 DEF Position, Finish, Start
    <2> QED BY <1>4, <1>5, <2>1, <2>3, <1>12 DEF InFlight, TaskDone, Copy, CountEvent
  <1>13. CASE ReaderExit
    <2>1. reader = "run" /\ reader' = "done" /\ popped' = popped
      BY <1>13 DEF ReaderExit
    <2>2. Position(c)'
      BY <1>2, <1>4, <2>1 DEF Position, Finish, Start
    <2> QED BY <1>4, <1>5, <2>1, <2>2, <1>13 DEF InFlight, ReaderExit, Copy, CountEvent
  <1> QED
    BY <1>4, <1>7, <1>8, <1>9, <1>10, <1>11, <1>12, <1>13 DEF Reader

-----------------------------------------------------------------------------
(* An event into the ring *)

\* How far back events are that are still on their way.
LEMMA OnTheWay ==
  ASSUME LongRing, BackendInv, pc[Main] = "emit", reader # "lost",
         NEW c \in Nat, Events(c), Position(c)
  PROVE  made \in Nat /\ made - c + 1 <= BIN_SLOTS
  <1>1. BackendType /\ Stages /\ Lengths /\ popped \in Nat /\ Len(log) \in Nat /\ made \in Nat
    BY Constants DEF BackendInv, BackendType, made
  <1>2. PICK T \in Nat, l \in Nat, x \in Nat :
          T = TASK_SIZE /\ l = Len(log) /\ x = l * T
    BY <1>1, Constants
  <1>3. made <= x + T
    <2>1. made = Start(l + 1) + buffer[Main].count + 0
      BY <1>1, <1>2 DEF Filling, Lengths
    <2>2. (l + 1) - 1 = l
      BY <1>2
    <2>3. Start(l + 1) = x
      BY <1>2, <2>2 DEF Start
    <2>4. buffer[Main].count \in 0..T
      BY <1>1, <1>2, Constants DEF BackendType, Task
    <2> QED BY <1>2, <2>1, <2>3, <2>4
  <1>4. PICK z \in Nat : z = (CAPACITY + 1) * T /\ z + T + 1 <= BIN_SLOTS
    <2>1. (CAPACITY + 2) * T = (CAPACITY + 1) * T + T /\ (CAPACITY + 1) * T \in Nat
      BY <1>2, Constants
    <2> QED BY <1>2, <2>1, Constants DEF LongRing
  <1>5. l <= popped + CAPACITY
    BY <1>1, <1>2, Constants DEF BackendType
  <1>6. CASE popped = 0
    <2>1. x <= 0 * T + (CAPACITY + 1) * T
      <3>1. l <= 0 + (CAPACITY + 1)
        BY <1>2, <1>5, <1>6, Constants
      <3> QED BY <1>2, <3>1, Span, Constants
    <2> QED BY <1>1, <1>2, <1>3, <1>4, <2>1, Constants
  <1>7. CASE popped # 0
    <2>1. PICK p \in Nat, y \in Nat : p = popped - 1 /\ y = p * T
      BY <1>1, <1>2, <1>7
    <2>2. x <= y + z
      <3>1. l <= p + (CAPACITY + 1)
        BY <1>1, <1>2, <1>5, <2>1, Constants
      <3>2. CAPACITY + 1 \in Nat
        BY Constants
      <3> QED BY <1>2, <1>4, <2>1, <3>1, <3>2, Span
    <2>3. Start(popped) = y
      BY <1>2, <2>1 DEF Start
    <2>4. y <= c
      <3>1. popped \in 1..Len(log) /\ log \in Seq(Task)
        BY <1>1, <1>7 DEF BackendType
      <3>2. PICK m \in Nat : m = log[popped].count
        BY <3>1, Logged, Constants
      <3>3. c = y \/ c = y + m \/ (followed \in Nat /\ c = y + followed)
        BY <1>1, <1>7, <2>3, <3>2 DEF Position, Finish, BackendType
      <3> QED BY <3>3
    <2>5. PICK a \in Nat : a = made
      BY <1>1
    <2>6. a <= y + z + T
      BY <1>2, <1>3, <2>2, <2>5
    <2>7. a - c + 1 <= z + T + 1
      BY <2>4, <2>6
    <2> QED BY <1>1, <1>4, <2>5, <2>7, Constants
  <1> QED
    BY <1>6, <1>7

\* So a new one overwrites none of them.
LEMMA FromBeyondGet ==
  ASSUME OneThread, LongRing, BackendInv, GetPtr(Main), reader # "lost",
         NEW c \in Nat, Events(c), Position(c),
         NEW task, NEW n \in Nat, From(task, n, c),
         \A j \in 1..TASK_SIZE : j <= task.count => n + j <= made
  PROVE  From(task, n, c)'
  <1>1. made \in Nat /\ made - c + 1 <= BIN_SLOTS
    BY OnTheWay DEF GetPtr
  <1>2. ASSUME NEW j \in 1..TASK_SIZE, j <= task.count, n + j > c
        PROVE  Holds(task.stuff[j], n + j)'
    <2>1. PICK m, p : m \in Nat /\ m = n + j /\ p = task.stuff[j]
      OBVIOUS
    <2>2. Holds(p, m) /\ m <= made /\ m > c
      BY <1>2, <2>1 DEF From
    <2>3. made - m + 1 < BIN_SLOTS
      BY <1>1, <2>1, <2>2, Constants
    <2>4. Holds(p, m)'
      BY <2>1, <2>2, <2>3, HoldsBeyondGet
    <2> QED BY <2>1, <2>4
  <1> QED
    BY <1>2 DEF From

LEMMA GetPtrKeeps ==
  ASSUME OneThread, LongRing, BackendInv, GetPtr(Main)
  PROVE  BackendInv'
  <1> USE DEF Goto, queue, readers, ring, threads
  <1>1. BackendType /\ Stages /\ Lengths /\ Main \in Threads /\ Len(log) \in Nat
    BY Constants DEF BackendInv, BackendType
  <1>2. PICK k, w, e : /\ k = Head(kinds[Main]) /\ w = next[k] /\ e = <<Main, made + 1>>
    OBVIOUS
  <1>3. /\ pc[Main] = "emit" /\ kinds[Main] # <<>>
        /\ next' = [next EXCEPT ![k] = (w + 1) % BIN_SLOTS]
        /\ bin' = [bin EXCEPT ![k][w] = e]
        /\ at' = [at EXCEPT ![Main] = [kind |-> k, slot |-> w, for |-> e]]
        /\ emitted' = [emitted EXCEPT ![Main] = @ + 1]
        /\ kinds' = [kinds EXCEPT ![Main] = Tail(@)]
        /\ pc' = [pc EXCEPT ![Main] = "add"]
        /\ UNCHANGED <<markovActive, buffer, log, popped, storing, hand, followed, reader,
                       counted, wrong, harmed, calls, rest, dropped>>
    BY <1>2 DEF GetPtr, made
  <1>4. /\ kinds[Main] \in Seq(Kinds) /\ Len(kinds[Main]) \in Nat \ {0}
        /\ Len(Tail(kinds[Main])) = Len(kinds[Main]) - 1 /\ Tail(kinds[Main]) \in Seq(Kinds)
        /\ k \in Kinds /\ w \in Slots /\ made \in Nat
    <2>1. /\ kinds[Main] \in Seq(Kinds) /\ made \in Nat
          /\ \A kind \in Kinds : next[kind] \in Slots
      BY <1>1 DEF BackendType, made
    <2>2. /\ Len(kinds[Main]) \in Nat \ {0} /\ Tail(kinds[Main]) \in Seq(Kinds)
          /\ Len(Tail(kinds[Main])) = Len(kinds[Main]) - 1 /\ Head(kinds[Main]) \in Kinds
      BY <1>3, <2>1
    <2> QED BY <1>2, <2>1, <2>2
  <1>5. e \in Event
    <2>1. made + 1 <= 3 * calls[Main] /\ calls[Main] \in 0..CALLS
      <3>1. made + Len(kinds[Main]) <= 3 * calls[Main] /\ calls[Main] \in 0..CALLS
        BY <1>1 DEF Stages, BackendType
      <3> QED BY <1>4, <3>1
    <2>2. made + 1 \in 1..(3 * CALLS)
      BY <1>4, <2>1, Constants
    <2> QED BY <1>1, <1>2, <2>2 DEF Event
  <1>6. w + 1 \in Nat /\ (w + 1) % BIN_SLOTS \in Slots
    <2>1. BIN_SLOTS \in Nat \ {0} /\ w + 1 \in Nat
      BY <1>4, Constants DEF Slots
    <2>2. PICK x \in Nat : x = w + 1
      BY <2>1
    <2>3. x % BIN_SLOTS \in 0..(BIN_SLOTS - 1)
      BY <2>1, Remainder
    <2> QED BY <2>1, <2>2, <2>3 DEF Slots
  <1>7. made' = made + 1
    <2>1. emitted \in [Threads -> Nat]
      BY <1>1 DEF BackendType
    <2> QED BY <1>1, <1>3, <2>1 DEF made
  <1>8. Holds(at[Main], made)'
    <2> DEFINE p == [kind |-> k, slot |-> w, for |-> e]
    <2>1. at'[Main] = p /\ p \in Pointer
      BY <1>1, <1>3, <1>4, <1>5 DEF BackendType, Pointer
    <2>2. bin'[k][w] = e /\ next'[k] = (w + 1) % BIN_SLOTS
      BY <1>1, <1>3, <1>4 DEF BackendType
    <2>3. 1 \in 1..(made' - made' + 1)
      BY <1>4, <1>7
    <2>4. p.kind = k /\ p.slot = w /\ p.for = e
      OBVIOUS
    <2> HIDE DEF p
    <2>5. \E d \in 1..(made' - made' + 1) : next'[p.kind] = (p.slot + d) % BIN_SLOTS
      BY <2>2, <2>3, <2>4, Zenon
    <2>6. Deref(p)' = p.for /\ p.for = <<Main, made'>>
      BY <1>2, <1>7, <2>2, <2>4 DEF Deref
    <2> QED BY <2>1, <2>5, <2>6, Zenon DEF Holds
  <1>9. BackendType'
    <2>1. bin' \in [Kinds -> [Slots -> Event \cup {NoEvent}]] /\ next' \in [Kinds -> Slots]
      BY <1>1, <1>3, <1>4, <1>5, <1>6 DEF BackendType
    <2>2. kinds' \in [Threads -> Seq(Kinds)] /\ emitted' \in [Threads -> Nat]
      BY <1>1, <1>3, <1>4 DEF BackendType, made
    <2>3. /\ pc' \in [Threads -> {"out", "emit", "add", "drain", "join", "written"}]
          /\ DOMAIN at' = Threads
      BY <1>1, <1>3 DEF BackendType
    <2> QED BY <1>1, <1>3, <2>1, <2>2, <2>3 DEF BackendType
  <1>10. pc'[Main] = "add" /\ storing = NoOne /\ storing' = NoOne /\ rest = {}
    BY <1>1, <1>3 DEF Stages, BackendType
  <1>11. Stages'
    <2>1. kinds'[Main] = Tail(kinds[Main]) /\ made' + Len(kinds'[Main]) = made + Len(kinds[Main])
      BY <1>1, <1>3, <1>4, <1>7 DEF BackendType
    <2> QED BY <1>1, <1>3, <1>8, <1>10, <2>1 DEF Stages, BackendType
  <1>12. Filling /\ Filling' /\ ~Storing' /\ ~Final /\ ~Final'
    <2>1. Main # NoOne
      BY BackendAssumption
    <2> QED BY <1>3, <1>10, <2>1 DEF Filling, Storing, Final
  <1>13. PICK s \in Nat, m \in 0..TASK_SIZE :
           s = Start(Len(log) + 1) /\ m = buffer[Main].count /\ made = s + m
    <2>1. Start(Len(log) + 1) \in Nat /\ buffer[Main].count \in 0..TASK_SIZE
      <3>1. Len(log) + 1 \in Nat \ {0}
        BY <1>1
      <3>2. Start(Len(log) + 1) \in Nat
        BY <3>1, Starts
      <3> QED BY <1>1, <3>2 DEF BackendType, Task
    <2>2. made = Start(Len(log) + 1) + buffer[Main].count + 0
      BY <1>1, <1>3, <1>12 DEF Lengths
    <2> QED BY <2>1, <2>2, Constants
  <1>14. Lengths'
    <2>1. made' = Start(Len(log) + 1)' + buffer'[Main].count + 1
      <3>1. Start(Len(log) + 1)' = s /\ buffer'[Main].count = m
        BY <1>3, <1>13 DEF Start
      <3> QED BY <1>7, <1>13, <3>1, Constants
    <2>2. \A i \in 1..Len(log') : i < Len(log') \/ ~Final' => log'[i].count = TASK_SIZE
      BY <1>1, <1>3, <1>12 DEF Lengths
    <2> QED BY <1>1, <1>3, <1>10, <1>12, <2>1, <2>2 DEF Lengths
  <1>15. ASSUME reader # "lost", NEW c \in Nat, Events(c), Position(c)
         PROVE  Events(c)' /\ Position(c)'
    <2>1. ASSUME NEW i \in 1..Len(log) PROVE From(log[i], Start(i), c)'
      <3>1. PICK task, n : task = log[i] /\ n = Start(i)
        OBVIOUS
      <3>2. n \in Nat /\ n + TASK_SIZE <= made
        <4>1. n \in Nat /\ n + TASK_SIZE <= s
          BY <1>1, <1>13, <3>1, StartsInOrder
        <4> QED BY <1>13, <4>1, Constants
      <3>3. From(task, n, c) /\ \A j \in 1..TASK_SIZE : j <= task.count => n + j <= made
        BY <1>4, <1>15, <3>1, <3>2, Constants DEF Events
      <3>4. From(task, n, c)'
        BY <1>15, <3>2, <3>3, FromBeyondGet
      <3>5. log'[i] = task /\ Start(i)' = n
        BY <1>3, <3>1 DEF Start
      <3> QED BY <3>4, <3>5
    <2>2. From(buffer[Main], Start(Len(log) + 1), c)'
      <3>1. PICK task : task = buffer[Main]
        OBVIOUS
      <3>2. From(task, s, c) /\ \A j \in 1..TASK_SIZE : j <= task.count => s + j <= made
        BY <1>12, <1>13, <1>15, <3>1, Constants DEF Events
      <3>3. From(task, s, c)'
        BY <1>15, <3>2, FromBeyondGet
      <3>4. buffer'[Main] = task /\ Start(Len(log) + 1)' = s
        BY <1>3, <1>13, <3>1 DEF Start
      <3> QED BY <3>3, <3>4
    <2>3. Events(c)'
      BY <1>3, <1>15, <2>1, <2>2 DEF Events
    <2> QED BY <1>3, <1>15, <2>3, PositionKept
  <1> QED
    BY <1>3, <1>9, <1>11, <1>14, <1>15 DEF BackendInv, InFlight

-----------------------------------------------------------------------------
(* An event into a task *)

LEMMA AddEventKeeps ==
  ASSUME OneThread, BackendInv, AddEvent(Main)
  PROVE  BackendInv'
  <1> USE DEF Goto, queue, readers, ring, threads
  <1>1. /\ BackendType /\ Stages /\ Lengths /\ Main \in Threads /\ Len(log) \in Nat
        /\ Main # NoOne /\ made \in Nat
    BY Constants, BackendAssumption DEF BackendInv, BackendType, made
  <1>2. PICK b, p, a : b = buffer[Main] /\ p = at[Main] /\ a = Added(b, p)
    OBVIOUS
  <1>3. /\ pc[Main] = "add" /\ pc' = [pc EXCEPT ![Main] = "emit"]
        /\ ~Full(b) /\ buffer' = [buffer EXCEPT ![Main] = a]
        /\ UNCHANGED <<markovActive, bin, next, emitted, log, popped, storing, hand, followed, reader,
                       counted, wrong, harmed, kinds, at, calls, rest, dropped>>
    BY <1>2 DEF AddEvent
  <1>4. Holds(p, made) /\ p \in Pointer /\ b \in Task
    BY <1>1, <1>2, <1>3 DEF Stages, Holds, BackendType
  <1>5. /\ a \in Task /\ a.count = b.count + 1 /\ a.valid = b.valid
        /\ a.stuff[b.count + 1] = p /\ b.count \in Nat
        /\ \A j \in 1..TASK_SIZE : j <= b.count => a.stuff[j] = b.stuff[j]
    BY <1>2, <1>3, <1>4, AddedTask DEF Task
  <1>6. ~Storing /\ storing = NoOne /\ rest = {} /\ pc'[Main] = "emit" /\ buffer'[Main] = a
    BY <1>1, <1>2, <1>3 DEF Lengths, Storing, BackendType, Stages
  <1>7. Filling /\ Filling' /\ ~Storing' /\ ~Final /\ ~Final'
    BY <1>1, <1>3, <1>6 DEF Filling, Storing, Final
  <1>8. BackendType'
    BY <1>1, <1>3, <1>5 DEF BackendType
  <1>9. Stages'
    BY <1>1, <1>3, <1>6 DEF Stages, made
  <1>10. PICK s \in Nat : s = Start(Len(log) + 1) /\ made = s + (b.count + 1)
    <2>1. PICK i \in Nat \ {0} : i = Len(log) + 1
      BY <1>1
    <2>2. Start(i) \in Nat
      BY Starts
    <2>3. made = Start(i) + b.count + 1
      BY <1>1, <1>2, <1>3, <1>7, <2>1 DEF Lengths
    <2> QED BY <1>5, <2>1, <2>2, <2>3
  <1>11. Lengths'
    <2>1. made' = Start(Len(log) + 1)' + buffer'[Main].count + 0
      BY <1>3, <1>5, <1>6, <1>10 DEF made, Start
    <2>2. \A i \in 1..Len(log') : i < Len(log') \/ ~Final' => log'[i].count = TASK_SIZE
      BY <1>1, <1>3, <1>7 DEF Lengths
    <2> QED BY <1>1, <1>2, <1>3, <1>5, <1>6, <1>7, <2>1, <2>2 DEF Lengths
  <1>12. ASSUME NEW c \in Nat, Events(c), Position(c)
         PROVE  Events(c)' /\ Position(c)'
    <2>1. ASSUME NEW i \in 1..Len(log) PROVE From(log[i], Start(i), c)'
      <3>1. PICK task, n : task = log[i] /\ n = Start(i)
        OBVIOUS
      <3>2. From(task, n, c)'
        BY <1>3, <1>12, <3>1, FromKept DEF Events
      <3> QED BY <1>3, <3>1, <3>2 DEF Start
    <2>2. From(a, s, c)
      <3>1. ASSUME NEW j \in 1..TASK_SIZE, j <= a.count, s + j > c
            PROVE  Holds(a.stuff[j], s + j)
        <4>1. CASE j <= b.count
          <5>1. From(b, s, c)
            BY <1>2, <1>7, <1>10, <1>12 DEF Events
          <5> QED BY <1>5, <3>1, <4>1, <5>1 DEF From
        <4>2. CASE j = b.count + 1
          BY <1>4, <1>5, <1>10, <4>2
        <4> QED BY <1>5, <3>1, <4>1, <4>2, Constants
      <3> QED BY <3>1 DEF From
    <2>3. From(a, s, c)'
      BY <1>3, <2>2, FromKept
    <2>4. From(buffer[Main], Start(Len(log) + 1), c)'
      BY <1>3, <1>6, <1>10, <2>3 DEF Start
    <2>5. Events(c)'
      BY <1>3, <1>12, <2>1, <2>4 DEF Events
    <2> QED BY <1>3, <1>12, <2>5, PositionKept
  <1> QED
    BY <1>3, <1>8, <1>9, <1>11, <1>12 DEF BackendInv, InFlight

\* The full task was stored: the next one begins with the event.
LEMMA StoreTaskKeeps ==
  ASSUME OneThread, BackendInv, StoreTask(Main)
  PROVE  BackendInv'
  <1> USE DEF Goto, queue, readers, ring, threads
  <1>1. /\ BackendType /\ Stages /\ Lengths /\ Main \in Threads /\ Len(log) \in Nat
        /\ Main # NoOne /\ made \in Nat
    BY Constants, BackendAssumption DEF BackendInv, BackendType, made
  <1>2. PICK b, p, a : b = Reset(buffer[Main]) /\ p = at[Main] /\ a = Added(b, p)
    OBVIOUS
  <1>3. /\ pc[Main] = "add" /\ pc' = [pc EXCEPT ![Main] = "emit"]
        /\ storing = Main /\ storing' = NoOne /\ buffer' = [buffer EXCEPT ![Main] = a]
        /\ UNCHANGED <<markovActive, bin, next, emitted, log, popped, hand, followed, reader,
                       counted, wrong, harmed, kinds, at, calls, rest, dropped>>
    BY <1>2 DEF StoreTask
  <1>4. Holds(p, made) /\ p \in Pointer /\ buffer[Main] \in Task
    BY <1>1, <1>2, <1>3 DEF Stages, Holds, BackendType
  <1>5. b \in Task /\ b.count = 0 /\ b.valid /\ ~Full(b)
    BY <1>2, <1>4, ResetTask
  <1>6. a \in Task /\ a.count = 1 /\ a.valid /\ a.stuff[1] = p
    <2>1. /\ Added(b, p) \in Task /\ Added(b, p).count = b.count + 1 /\ Added(b, p).valid = b.valid
          /\ Added(b, p).stuff[b.count + 1] = p
      BY <1>4, <1>5, AddedTask, Zenon
    <2>2. b.count + 1 = 1
      BY <1>5
    <2> QED BY <1>2, <1>5, <2>1, <2>2
  <1>7. rest = {} /\ pc'[Main] = "emit" /\ buffer'[Main] = a
    BY <1>1, <1>3 DEF BackendType, Stages
  <1>8. Storing /\ Filling' /\ ~Storing' /\ ~Final /\ ~Final'
    BY <1>1, <1>3, <1>7 DEF Filling, Storing, Final
  <1>9. BackendType'
    BY <1>1, <1>3, <1>6 DEF BackendType
  <1>10. Stages'
    BY <1>1, <1>3, <1>7 DEF Stages, made
  <1>11. PICK s \in Nat : s = Start(Len(log) + 1) /\ made = s + 1
    <2>1. PICK i \in Nat \ {0} : i = Len(log) + 1
      BY <1>1
    <2>2. Start(i) \in Nat
      BY Starts
    <2> QED BY <1>1, <1>8, <2>1, <2>2 DEF Lengths
  <1>12. Lengths'
    <2>1. made' = Start(Len(log) + 1)' + buffer'[Main].count + 0
      BY <1>3, <1>6, <1>7, <1>11 DEF made, Start
    <2>2. \A i \in 1..Len(log') : i < Len(log') \/ ~Final' => log'[i].count = TASK_SIZE
      BY <1>1, <1>3, <1>8 DEF Lengths
    <2> QED BY <1>1, <1>3, <1>6, <1>7, <1>8, <2>1, <2>2 DEF Lengths
  <1>13. ASSUME NEW c \in Nat, Events(c), Position(c)
         PROVE  Events(c)' /\ Position(c)'
    <2>1. ASSUME NEW i \in 1..Len(log) PROVE From(log[i], Start(i), c)'
      <3>1. PICK task, n : task = log[i] /\ n = Start(i)
        OBVIOUS
      <3>2. From(task, n, c)'
        BY <1>3, <1>13, <3>1, FromKept DEF Events
      <3> QED BY <1>3, <3>1, <3>2 DEF Start
    <2>2. From(a, s, c)
      <3>1. ASSUME NEW j \in 1..TASK_SIZE, j <= a.count
            PROVE  Holds(a.stuff[j], s + j)
        <4>1. j = 1
          BY <1>6, <3>1, Constants
        <4> QED BY <1>4, <1>6, <1>11, <4>1
      <3> QED BY <3>1 DEF From
    <2>3. From(a, s, c)'
      BY <1>3, <2>2, FromKept
    <2>4. From(buffer[Main], Start(Len(log) + 1), c)'
      BY <1>3, <1>7, <1>11, <2>3 DEF Start
    <2>5. Events(c)'
      BY <1>3, <1>13, <2>1, <2>4 DEF Events
    <2> QED BY <1>3, <1>13, <2>5, PositionKept
  <1> QED
    BY <1>3, <1>9, <1>10, <1>12, <1>13 DEF BackendInv, InFlight

-----------------------------------------------------------------------------
(* A task into the queue *)

LEMMA EventsAppended ==
  ASSUME BackendType, Stages, Filling, ~Filling', log' = Append(log, buffer[Main]),
         UNCHANGED <<bin, next, emitted, counted, harmed, popped, hand, followed, reader, wrong>>,
         NEW c \in Nat, Events(c), Position(c)
  PROVE  Events(c)' /\ Position(c)'
  <1>1. PICK b, l : b = buffer[Main] /\ l = Len(log) + 1
    OBVIOUS
  <1>2. b \in Task /\ log \in Seq(Task) /\ Len(log) \in Nat /\ popped \in 0..Len(log)
    BY <1>1, Constants DEF BackendType
  <1>3. /\ Len(log') = l /\ log'[l] = b
        /\ \A i \in 1..Len(log) : log'[i] = log[i]
    BY <1>1, <1>2, Appended
  <1>4. ASSUME NEW i \in 1..Len(log') PROVE From(log[i], Start(i), c)'
    <2>1. PICK task, n : task = log'[i] /\ n = Start(i)
      OBVIOUS
    <2>2. From(task, n, c)
      <3>1. CASE i \in 1..Len(log)
        BY <1>3, <2>1, <3>1 DEF Events
      <3>2. CASE i = l
        BY <1>1, <1>3, <2>1, <3>2 DEF Events
      <3> QED BY <1>1, <1>2, <1>3, <3>1, <3>2
    <2>3. From(task, n, c)'
      BY <2>2, FromKept
    <2> QED BY <2>1, <2>3 DEF Start
  <1>5. Events(c)'
    BY <1>4 DEF Events
  <1>6. Finish(popped)' = Finish(popped) /\ (popped # 0 => log'[popped] = log[popped])
    BY <1>2, <1>3 DEF Finish, Start
  <1>7. Position(c)'
    <2>1. reader \in {"claimed", "follow"} => popped # 0
      BY <1>2 DEF Stages
    <2> QED BY <1>6, <2>1 DEF Position, Start
  <1> QED
    BY <1>5, <1>7

LEMMA PushTaskKeeps ==
  ASSUME OneThread, BackendInv, PushTask(Main)
  PROVE  BackendInv'
  <1> USE DEF Goto, queue, readers, ring, threads
  <1>1. /\ BackendType /\ Stages /\ Lengths /\ Main \in Threads /\ Len(log) \in Nat
        /\ log \in Seq(Task) /\ Main # NoOne /\ made \in Nat
    BY Constants, BackendAssumption DEF BackendInv, BackendType, made
  <1>2. PICK b : b = buffer[Main]
    OBVIOUS
  <1>3. /\ pc[Main] = "add" /\ Full(b) /\ storing = NoOne /\ storing' = Main
        /\ Len(log) - popped < CAPACITY /\ log' = Append(log, b)
        /\ UNCHANGED <<markovActive, bin, next, emitted, popped, hand, followed, reader, counted,
                       wrong, harmed, buffer, pc, kinds, at, calls, rest, dropped>>
    BY <1>2 DEF PushTask, Members
  <1>4. b \in Task /\ b.valid /\ rest = {}
    BY <1>1, <1>2, <1>3 DEF BackendType, Lengths, Stages
  <1>5. /\ log' \in Seq(Task) /\ Len(log') = Len(log) + 1 /\ log'[Len(log) + 1] = b
        /\ \A i \in 1..Len(log) : log'[i] = log[i]
    BY <1>1, <1>3, <1>4, Appended
  <1>6. Filling /\ ~Filling' /\ Storing' /\ ~Final /\ ~Final'
    BY <1>1, <1>3, <1>4 DEF Filling, Storing, Final
  <1>7. BackendType'
    <2>1. popped' \in 0..Len(log') /\ Len(log') - popped' <= CAPACITY
      BY <1>1, <1>3, <1>5, Constants DEF BackendType
    <2> QED BY <1>1, <1>3, <1>5, <2>1 DEF BackendType
  <1>8. Stages'
    <2>1. reader # "done" /\ Holds(at[Main], made)'
      BY <1>1, <1>3, HoldsKept DEF Stages, made, Holds, Deref
    <2> QED BY <1>1, <1>3, <2>1 DEF Stages, made
  <1>9. Lengths'
    <2>1. ASSUME NEW i \in 1..Len(log')
          PROVE  log'[i].valid /\ log'[i].count = TASK_SIZE
      <3>1. i \in 1..Len(log) \/ i = Len(log) + 1
        BY <1>1, <1>5
      <3> QED BY <1>1, <1>3, <1>4, <1>5, <1>6, <3>1 DEF Lengths, Full
    <2>2. made' = Start(Len(log) + 1)' + 1
      <3>1. PICK i \in Nat \ {0} : i = Len(log) + 1 /\ i = Len(log')
        BY <1>1, <1>5
      <3>2. Start(i) \in Nat /\ Start(i + 1) = Start(i) + TASK_SIZE
        BY Starts
      <3>3. made = Start(i) + TASK_SIZE + 1
        BY <1>1, <1>2, <1>3, <1>6, <3>1 DEF Lengths, Full
      <3>4. made = Start(i + 1) + 1
        BY <3>2, <3>3
      <3> QED BY <1>3, <3>1, <3>4 DEF made, Start
    <2> QED BY <1>1, <1>2, <1>3, <1>6, <2>1, <2>2 DEF Lengths, Full
  <1> QED
    BY <1>1, <1>2, <1>3, <1>6, <1>7, <1>8, <1>9, EventsAppended DEF BackendInv, InFlight

\* MarkovDestroy finds the thread's task, if there is anything in it.
LEMMA DestroyKeeps ==
  ASSUME OneThread, BackendInv, Destroy
  PROVE  BackendInv'
  <1> USE DEF Goto, queue, readers, ring, threads
  <1>1. /\ BackendType /\ Stages /\ Lengths /\ Main \in Threads /\ Len(log) \in Nat
        /\ Main # NoOne /\ buffer[Main].count \in 0..TASK_SIZE
    <2>1. BackendType /\ Stages /\ Lengths /\ Main \in Threads /\ Main # NoOne
      BY BackendAssumption DEF BackendInv
    <2>2. Len(log) \in Nat /\ buffer[Main] \in Task
      BY <2>1 DEF BackendType
    <2> QED BY <2>1, <2>2 DEF Task
  <1>2. /\ pc[Main] = "out" /\ pc' = [pc EXCEPT ![Main] = "drain"]
        /\ rest' = IF buffer[Main].count > 0 THEN {Main} ELSE {}
        /\ UNCHANGED <<markovActive, bin, next, emitted, log, popped, storing, hand, followed, reader,
                       counted, wrong, harmed, buffer, kinds, at, calls, dropped>>
    BY <1>1 DEF Destroy, OneThread
  <1>3. BackendType' /\ pc'[Main] = "drain" /\ storing = NoOne
    BY <1>1, <1>2 DEF BackendType, Stages
  <1>4. Stages'
    BY <1>1, <1>2, <1>3 DEF Stages, made
  <1>5. Filling /\ ~Final /\ ~Storing' /\ (Filling' <=> buffer[Main].count > 0)
    BY <1>1, <1>2, <1>3 DEF Filling, Storing, Final
  <1>6. Lengths'
    <2>1. made = Start(Len(log) + 1) + buffer[Main].count + 0
      BY <1>1, <1>2, <1>5 DEF Lengths
    <2>2. ASSUME Final' PROVE made = Finish(Len(log))
      <3>1. buffer[Main].count = 0
        BY <1>1, <1>5, <2>2, Constants DEF Final
      <3>2. PICK i \in Nat \ {0} : i = Len(log) + 1
        BY <1>1
      <3>3. made = Start(i)
        <4>1. Start(i) \in Nat
          BY Starts
        <4> QED BY <2>1, <3>1, <3>2, <4>1
      <3>4. CASE Len(log) = 0
        BY <3>2, <3>3, <3>4, Starts DEF Finish
      <3>5. CASE Len(log) # 0
        <4>1. PICK k \in Nat \ {0} : k = Len(log) /\ i = k + 1
          BY <1>1, <3>2, <3>5
        <4>2. log[k].count = TASK_SIZE
          BY <1>1, <1>5, <4>1 DEF Lengths
        <4>3. Start(i) = Start(k) + TASK_SIZE
          BY <4>1, Starts
        <4> QED BY <3>3, <4>1, <4>2, <4>3 DEF Finish
      <3> QED BY <3>4, <3>5
    <2> QED BY <1>1, <1>2, <1>3, <1>5, <2>1, <2>2 DEF Lengths, made, Start, Finish
  <1>7. ASSUME NEW c \in Nat, Events(c), Position(c)
        PROVE  Events(c)' /\ Position(c)'
    BY <1>2, <1>5, <1>7, EventsKept, PositionKept
  <1> QED
    BY <1>2, <1>3, <1>4, <1>6, <1>7 DEF BackendInv, InFlight

\* And pushes it: the queue's last task, which need not be full.
LEMMA DestroyPushKeeps ==
  ASSUME OneThread, BackendInv, DestroyPush(Main)
  PROVE  BackendInv'
  <1> USE DEF Goto, queue, readers, ring, threads
  <1>1. /\ BackendType /\ Stages /\ Lengths /\ Main \in Threads /\ Len(log) \in Nat
        /\ log \in Seq(Task) /\ Main # NoOne /\ buffer[Main] \in Task
    BY Constants, BackendAssumption DEF BackendInv, BackendType
  <1>2. PICK b : b = buffer[Main]
    OBVIOUS
  <1>3. /\ pc[Main] = "drain" /\ rest = {Main} /\ rest' = {}
        /\ storing = NoOne /\ storing' = Main
        /\ Len(log) - popped < CAPACITY /\ log' = Append(log, b)
        /\ UNCHANGED <<markovActive, bin, next, emitted, popped, hand, followed, reader, counted,
                       wrong, harmed, buffer, pc, kinds, at, calls, dropped>>
    BY <1>1, <1>2 DEF DestroyPush, Members, BackendType, OneThread
  <1>4. b \in Task /\ b.valid
    BY <1>1, <1>2 DEF Lengths
  <1>5. /\ log' \in Seq(Task) /\ Len(log') = Len(log) + 1 /\ log'[Len(log) + 1] = b
        /\ \A i \in 1..Len(log) : log'[i] = log[i]
    BY <1>1, <1>3, <1>4, Appended
  <1>6. Filling /\ ~Filling' /\ ~Storing' /\ ~Final /\ Final'
    BY <1>1, <1>3 DEF Filling, Storing, Final
  <1>7. BackendType'
    <2>1. popped' \in 0..Len(log') /\ Len(log') - popped' <= CAPACITY
      BY <1>1, <1>3, <1>5, Constants DEF BackendType
    <2> QED BY <1>1, <1>3, <1>5, <2>1 DEF BackendType
  <1>8. Stages'
    <2>1. reader # "done"
      BY <1>1, <1>3 DEF Stages
    <2> QED BY <1>1, <1>3, <2>1 DEF Stages, made
  <1>9. Lengths'
    <2>1. ASSUME NEW i \in 1..Len(log')
          PROVE  log'[i].valid /\ (i < Len(log') => log'[i].count = TASK_SIZE)
      <3>1. i \in 1..Len(log) \/ i = Len(log) + 1
        BY <1>1, <1>5
      <3>2. i = Len(log) + 1 => ~(i < Len(log'))
        BY <1>1, <1>5
      <3> QED BY <1>1, <1>4, <1>5, <1>6, <3>1, <3>2 DEF Lengths
    <2>2. made' = Finish(Len(log))'
      <3>1. PICK i \in Nat \ {0} : i = Len(log) + 1 /\ i = Len(log')
        BY <1>1, <1>5
      <3>2. made = Start(i) + b.count + 0
        BY <1>1, <1>2, <1>3, <1>6, <3>1 DEF Lengths
      <3>3. Start(i) \in Nat /\ b.count \in Nat
        <4>1. Start(i) \in Nat
          BY Starts
        <4>2. b.count \in Nat
          BY <1>4, Constants DEF Task
        <4> QED BY <4>1, <4>2
      <3>4. made = Start(i) + b.count
        BY <3>2, <3>3
      <3> QED BY <1>3, <1>5, <3>1, <3>4 DEF made, Start, Finish
    <2> QED BY <1>1, <1>3, <1>6, <2>1, <2>2 DEF Lengths
  <1> QED
    BY <1>1, <1>2, <1>3, <1>6, <1>7, <1>8, <1>9, EventsAppended DEF BackendInv, InFlight

-----------------------------------------------------------------------------
(* The theorem *)

LEMMA InitBackend ==
  ASSUME OneThread, Init
  PROVE  BackendInv
  <1>1. Slots # {} /\ 0 \in Slots
    BY Constants DEF Slots
  <1>2. Reset(Blank) \in Task /\ Reset(Blank).count = 0 /\ Reset(Blank).valid
    <2>1. Blank \in Task
      BY Constants DEF Blank, Task
    <2> QED BY <2>1, ResetTask
  <1>3. BackendType
    <2>1. bin \in [Kinds -> [Slots -> Event \cup {NoEvent}]] /\ next \in [Kinds -> Slots]
      BY <1>1 DEF Init, Slots
    <2>2. calls \in [Threads -> 0..CALLS] /\ emitted \in [Threads -> Nat]
      BY Constants DEF Init
    <2>3. buffer \in [Threads -> Task] /\ kinds \in [Threads -> Seq(Kinds)]
      BY <1>2 DEF Init
    <2>4. log \in Seq(Task) /\ popped \in 0..Len(log) /\ Len(log) - popped <= CAPACITY
      BY Constants DEF Init
    <2> QED BY <2>1, <2>2, <2>3, <2>4 DEF Init, BackendType
  <1>4. /\ made = 0 /\ Len(log) = 0 /\ Len(kinds[Main]) = 0 /\ buffer[Main].count = 0
        /\ buffer[Main].valid /\ Filling /\ ~Storing /\ ~Final
    BY <1>2, Constants DEF Init, made, Filling, Storing, Final
  <1>5. Stages
    <2>1. made + Len(kinds[Main]) <= 3 * calls[Main]
      BY <1>4, Constants DEF Init
    <2> QED BY <1>4, <2>1, Constants DEF Init, Stages
  <1>6. Lengths
    <2>1. made = Start(Len(log) + 1) + buffer[Main].count + 0
      <3>1. Len(log) + 1 = 1 /\ Start(1) = 0
        BY <1>4, Starts
      <3> QED BY <1>4, <3>1
    <2> QED BY <1>4, <2>1, Constants DEF Init, Lengths
  <1>7. Events(0) /\ Position(0)
    <2>1. \A n \in 1..(3 * CALLS) : counted[<<Main, n>>] = IF n <= 0 THEN 1 ELSE 0
      BY Constants DEF Init, Event
    <2>2. From(buffer[Main], Start(Len(log) + 1), 0)
      BY <1>4, Constants DEF From
    <2> QED BY <1>4, <2>1, <2>2 DEF Init, Events, Position, Finish
  <1> QED
    BY <1>3, <1>5, <1>6, <1>7 DEF BackendInv, InFlight

LEMMA NextBackend ==
  ASSUME OneThread, LongRing, BackendInv, [Next]_vars
  PROVE  BackendInv'
  <1>1. CASE UNCHANGED vars
    BY <1>1, StillKeeps
  <1>2. CASE \E t \in Threads : Increment(t) \/ Run(t)
    <2>1. Increment(Main) \/ Run(Main)
      BY <1>2 DEF OneThread
    <2>2. ~PushTaskFails(Main)
      BY DEF OneThread, PushTaskFails
    <2> QED BY <2>1, <2>2, StillKeeps, GetPtrKeeps, AddEventKeeps, PushTaskKeeps, StoreTaskKeeps
            DEF Run
  <1>3. CASE Reader
    BY <1>3, ReaderKeeps
  <1>4. CASE Destroy
    BY <1>4, DestroyKeeps
  <1>5. CASE Exit
    <2>1. DestroyPush(Main) \/ DestroyPushFails(Main) \/ DestroyStore \/ Deactivate \/ Write
      BY <1>5 DEF OneThread, Exit
    <2>2. ~DestroyPushFails(Main)
      BY DEF OneThread, DestroyPushFails
    <2> QED BY <2>1, <2>2, DestroyPushKeeps, StillKeeps
  <1> QED
    BY <1>1, <1>2, <1>3, <1>4, <1>5 DEF Next

\* When the profile is written nothing is on its way any more, so that the events
\* counted, but for those harmed, are those made.
LEMMA NothingOnTheWay ==
  ASSUME OneThread, BackendInv
  PROVE  ProfileComplete
  <1>1. SUFFICES ASSUME Written, NEW n \in 1..made, <<Main, n>> \notin harmed
                 PROVE  counted[<<Main, n>>] = 1
    BY DEF ProfileComplete, Made, made, OneThread, BackendInv, BackendType
  <1>2. /\ reader = "done" /\ popped = Len(log) /\ rest = {} /\ pc[Main] = "written"
        /\ made + Len(kinds[Main]) <= 3 * calls[Main]
    BY <1>1 DEF BackendInv, Stages, Written
  <1>3. PICK c \in Nat : Events(c) /\ c = Finish(popped)
    BY <1>2 DEF BackendInv, InFlight, Position
  <1>4. made = c
    BY <1>2, <1>3 DEF BackendInv, Lengths, Filling, Storing, Final
  <1>5. n \in 1..(3 * CALLS) /\ n <= c
    <2>1. Len(kinds[Main]) \in Nat /\ calls[Main] \in 0..CALLS
      BY Constants DEF BackendInv, BackendType
    <2> QED BY <1>2, <1>3, <1>4, <2>1, Constants
  <1> QED
    BY <1>1, <1>3, <1>5 DEF Events

\* The profile of a program of one thread is complete, with each event counted
\* once, but for the events of the tasks that the reader copied before they were
\* stored and those it counted for them (Markov.cpp:282-306, AtomicQueue.cpp:51,
\* 115-118).  No task is lost or handed out twice, and a ring of (CAPACITY + 2) *
\* TASK_SIZE + 1 slots is enough for none to be used again while a pointer to it is
\* on its way to the reader (TaskBin::getPtr, Markov.cpp:26-79), if pushes wait.
THEOREM ProfileOfOneThread ==
  ASSUME OneThread, LongRing
  PROVE  Spec => []ProfileComplete
  <1>1. Init => BackendInv
    BY InitBackend
  <1>2. BackendInv /\ [Next]_vars => BackendInv'
    BY NextBackend
  <1>3. BackendInv => ProfileComplete
    BY NothingOnTheWay
  <1> QED
    BY <1>1, <1>2, <1>3, PTL DEF Spec
=============================================================================
