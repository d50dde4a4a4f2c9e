---------------------------- MODULE MarkovBackend ---------------------------
(***************************************************************************)
(* The way of an event from the profiled program into the profile:         *)
(* MarkovIncrement, MarkovPush and MarkovDestroy                           *)
(* (src/Profile/Backend/Markov/Markov.cpp).  A thread copies an event into *)
(* a slot of the TaskBin, a ring, and keeps a pointer to the slot in its   *)
(* task; a full task goes through the queue to the reader, which follows   *)
(* the pointers.  Nothing says when a slot may be used again: the program  *)
(* relies on the ring being long.                                          *)
(*                                                                         *)
(* The queue is what is left of AtomicQueue for one reader: a push counts  *)
(* the task in, then stores it; a pop counts it out, then copies it, early *)
(* perhaps.  A thread's registration (ThreadRegistry) is behind it.        *)
(***************************************************************************)
EXTENDS Integers, Sequences

CONSTANTS Threads,    \* the threads of the profiled program, joined before it ends
          Main,       \* the one that calls MarkovDestroy
          Kinds,      \* the rings: edge events and, of the others, some
          TASK_SIZE,  \* events in a task
          BIN_SLOTS,  \* slots of a ring (BIN_SIZE + 1)
          CAPACITY,   \* tasks the queue holds (QUEUE_SIZE - 1)
          Slow,       \* may the queue stay full for all the tries of a push?
          CALLS,      \* bound: calls of MarkovIncrement by each thread
          NoEvent,    \* the content of a slot never written
          Wild,       \* a pointer never set
          NoOne       \* nobody

Edge == "edge"
\* A call makes at most three events.
Event == Threads \X (1..(3 * CALLS))

ASSUME BackendAssumption ==
  /\ Main \in Threads /\ Edge \in Kinds /\ NoOne \notin Threads
  /\ {TASK_SIZE, BIN_SLOTS, CAPACITY} \subseteq Nat \ {0} /\ CALLS \in Nat
  /\ Slow \in BOOLEAN
  /\ NoEvent \notin Event

VARIABLES markovActive,
          bin, next,     \* the rings, and the counters edge_write, call_write, ...
          buffer,        \* taskBuffer: the task a thread fills
          log,           \* the tasks ever counted in, oldest first
          popped,        \* how many were counted out
          storing,       \* who holds the writers' lock, its task not yet stored
          hand,          \* the task the reader works on
          followed,      \* how many of its pointers it has followed
          reader,        \* where the reader is
          counted,       \* the tables: how often each event was counted
          pc, kinds,     \* a thread's place, and the kinds it has yet to emit
          at,            \* the pointer it has just got
          calls,         \* calls of MarkovIncrement it has begun
          rest,          \* threads whose tasks MarkovDestroy has yet to push
          emitted,       \* history: events it has made
          dropped,       \* history: events of the tasks that push refused
          wrong,         \* history: is what the reader has not the task it popped?
          harmed         \* history: events not, or once more, counted for that

queue == <<log, popped, storing>>
readers == <<hand, followed, reader, counted, wrong, harmed>>
ring == <<bin, next, emitted>>
threads == <<buffer, pc, kinds, at, calls>>
vars == <<markovActive, ring, queue, readers, threads, rest, dropped>>

-----------------------------------------------------------------------------
(* Tasks *)

\* Task(false): not valid, and its pointers are not set.
Blank == [valid |-> FALSE, count |-> 0, stuff |-> [i \in 1..TASK_SIZE |-> Wild]]

\* Task::reset: the pointers stay.
Reset(task) == [valid |-> TRUE, count |-> 0, stuff |-> task.stuff]

Full(task) == task.count = TASK_SIZE

\* Task::addEvent with room.
Added(task, p) ==
  [valid |-> task.valid, count |-> task.count + 1,
   stuff |-> [task.stuff EXCEPT ![task.count + 1] = p]]

\* A pointer is a record of kind, slot and the event it was made for (for, which
\* the program does not keep).
Deref(p) == bin[p.kind][p.slot]
EventsOf(task) == {task.stuff[i].for : i \in 1..task.count}

\* What is in the queue's slot of the n-th task before that is stored.
Former(n) == IF n > CAPACITY + 1 THEN log[n - (CAPACITY + 1)] ELSE Blank

\* A copy of a task that is stored meanwhile: some of it is the new one, some of it
\* the old.
Mixes(old, new) ==
  {[valid |-> v.valid, count |-> c.count, stuff |-> [i \in 1..TASK_SIZE |-> from[i].stuff[i]]] :
     v \in {old, new}, c \in {old, new}, from \in [1..TASK_SIZE -> {old, new}]}

Members == Len(log) - popped

-----------------------------------------------------------------------------
\* An edge always; a label if a kernel is entered; a call at a function's entrance.
KindsOfCall == {ks \in {<<Edge>>, <<Edge, "label">>, <<Edge, "call">>, <<Edge, "label", "call">>} :
                  \A i \in DOMAIN ks : ks[i] \in Kinds}

Init ==
  /\ markovActive = TRUE
  /\ bin = [k \in Kinds |-> [i \in 0..(BIN_SLOTS - 1) |-> NoEvent]]
  /\ next = [k \in Kinds |-> 0]
  /\ buffer = [t \in Threads |-> Reset(Blank)]
  /\ log = <<>> /\ popped = 0 /\ storing = NoOne
  /\ hand = Blank /\ followed = 0 /\ reader = "run"
  /\ counted = [e \in Event |-> 0]
  /\ pc = [t \in Threads |-> "out"]
  /\ kinds = [t \in Threads |-> <<>>]
  /\ at = [t \in Threads |-> Wild]
  /\ calls = [t \in Threads |-> 0] /\ emitted = [t \in Threads |-> 0]
  /\ rest = {} /\ dropped = {} /\ wrong = FALSE /\ harmed = {}

Goto(t, l) == pc' = [pc EXCEPT ![t] = l]

-----------------------------------------------------------------------------
(* MarkovIncrement *)

Increment(t) ==
  /\ markovActive
  /\ pc[t] = "out" /\ calls[t] < CALLS
  /\ calls' = [calls EXCEPT ![t] = @ + 1]
  /\ \E ks \in KindsOfCall : kinds' = [kinds EXCEPT ![t] = ks]
  /\ Goto(t, "emit")
  /\ UNCHANGED <<markovActive, ring, queue, readers, buffer, at, rest, dropped>>

\* TaskBin::getPtr: the next slot of the ring gets the event.
GetPtr(t) ==
  LET k == Head(kinds[t])
      e == <<t, emitted[t] + 1>>
      w == next[k]
  IN
  /\ pc[t] = "emit" /\ kinds[t] # <<>>
  /\ next' = [next EXCEPT ![k] = (w + 1) % BIN_SLOTS]
  /\ bin' = [bin EXCEPT ![k][w] = e]
  /\ at' = [at EXCEPT ![t] = [kind |-> k, slot |-> w, for |-> e]]
  /\ emitted' = [emitted EXCEPT ![t] = @ + 1]
  /\ kinds' = [kinds EXCEPT ![t] = Tail(@)]
  /\ Goto(t, "add")
  /\ UNCHANGED <<markovActive, queue, readers, buffer, calls, rest, dropped>>

\* Task::addEvent has room.
AddEvent(t) ==
  /\ pc[t] = "add" /\ ~Full(buffer[t])
  /\ buffer' = [buffer EXCEPT ![t] = Added(@, at[t])]
  /\ Goto(t, "emit")
  /\ UNCHANGED <<markovActive, ring, queue, readers, kinds, at, calls, rest, dropped>>

\* The task is full: Q.push of it counts it in,
PushTask(t) ==
  /\ pc[t] = "add" /\ Full(buffer[t])
  /\ storing = NoOne /\ Members < CAPACITY
  /\ log' = Append(log, buffer[t])
  /\ storing' = t
  /\ UNCHANGED <<markovActive, ring, popped, readers, threads, rest, dropped>>

\* and stores it; reset, and the event opens the next one.
StoreTask(t) ==
  /\ pc[t] = "add" /\ storing = t
  /\ storing' = NoOne
  /\ buffer' = [buffer EXCEPT ![t] = Added(Reset(@), at[t])]
  /\ Goto(t, "emit")
  /\ UNCHANGED <<markovActive, ring, log, popped, readers, kinds, at, calls, rest, dropped>>

\* Q.push ran out of tries: its result is looked at and the task reset all the same.
PushTaskFails(t) ==
  /\ Slow
  /\ pc[t] = "add" /\ Full(buffer[t])
  /\ storing = NoOne /\ Members = CAPACITY
  /\ dropped' = dropped \cup EventsOf(buffer[t])
  /\ buffer' = [buffer EXCEPT ![t] = Added(Reset(@), at[t])]
  /\ Goto(t, "emit")
  /\ UNCHANGED <<markovActive, ring, queue, readers, kinds, at, calls, rest>>

Return(t) ==
  /\ pc[t] = "emit" /\ kinds[t] = <<>>
  /\ Goto(t, "out")
  /\ UNCHANGED <<markovActive, ring, queue, readers, buffer, kinds, at, calls, rest, dropped>>

-----------------------------------------------------------------------------
(* MarkovPush, the reader's loop.  A pop that finds nothing for all its tries  *)
(* returns Task(false), for which the loop goes on: no step.                   *)

\* Q->pop counts the task out,
Claim ==
  /\ reader = "run" /\ Members > 0
  /\ popped' = popped + 1
  /\ reader' = "claimed"
  /\ UNCHANGED <<markovActive, ring, log, storing, hand, followed, counted, wrong, harmed,
                 threads, rest, dropped>>

\* Fault: the slot is the one p_read points to by now.
Copy_NextSlot ==
  /\ reader = "claimed"
  /\ hand' = IF popped < Len(log) THEN log[popped + 1] ELSE Former(popped + 1)
  /\ followed' = 0
  /\ reader' = "follow"
  /\ UNCHANGED <<markovActive, ring, queue, counted, wrong, harmed, threads, rest, dropped>>

\* and copies its slot, which a writer may be storing it in.
Copy ==
  /\ reader = "claimed"
  /\ hand' \in IF storing # NoOne /\ popped = Len(log)
               THEN Mixes(Former(popped), log[popped]) ELSE {log[popped]}
  /\ wrong' = (hand' # log[popped])
  /\ harmed' = IF wrong' THEN harmed \cup EventsOf(log[popped]) ELSE harmed
  /\ followed' = 0
  /\ reader' = "follow"
  /\ UNCHANGED <<markovActive, ring, queue, counted, threads, rest, dropped>>

\* if( t.ID() == __LONG_MAX__ ) continue.  The exit that follows, for a task of
\* more than TASK_SIZE events, has no step: no task, old, new or mixed, has more.
Skip ==
  /\ reader = "follow" /\ ~hand.valid
  /\ reader' = "run"
  /\ UNCHANGED <<markovActive, ring, queue, hand, followed, counted, wrong, harmed, threads,
                 rest, dropped>>

\* Task::pushTasks: follow the next pointer, count what is there.
CountEvent ==
  LET p == hand.stuff[followed + 1] IN
  /\ reader = "follow" /\ hand.valid
  /\ followed < hand.count /\ p # Wild
  /\ counted' = [counted EXCEPT ![Deref(p)] = @ + 1]
  /\ harmed' = IF wrong THEN harmed \cup {Deref(p)} ELSE harmed
  /\ followed' = followed + 1
  /\ UNCHANGED <<markovActive, ring, queue, hand, reader, wrong, threads, rest, dropped>>

\* The pointer was never set: anything may happen, and nothing is said of it.
FollowWild ==
  /\ reader = "follow" /\ hand.valid
  /\ followed < hand.count /\ hand.stuff[followed + 1] = Wild
  /\ reader' = "lost"
  /\ UNCHANGED <<markovActive, ring, queue, hand, followed, counted, wrong, harmed, threads,
                 rest, dropped>>

TaskDone ==
  /\ reader = "follow" /\ hand.valid /\ followed = hand.count
  /\ reader' = "run"
  /\ UNCHANGED <<markovActive, ring, queue, hand, followed, counted, wrong, harmed, threads,
                 rest, dropped>>

\* Fault: the loop ends as soon as the profile is over, whatever is queued.
ReaderExit_Early ==
  /\ reader = "run" /\ ~markovActive
  /\ reader' = "done"
  /\ UNCHANGED <<markovActive, ring, queue, hand, followed, counted, wrong, harmed, threads,
                 rest, dropped>>

\* while( markovActive || Q->members() )
ReaderExit ==
  /\ reader = "run" /\ ~markovActive /\ Members = 0
  /\ reader' = "done"
  /\ UNCHANGED <<markovActive, ring, queue, hand, followed, counted, wrong, harmed, threads,
                 rest, dropped>>

-----------------------------------------------------------------------------
(* MarkovDestroy, in the main thread *)

Finished(t) == pc[t] = "out" /\ calls[t] = CALLS

Destroy ==
  /\ pc[Main] = "out"
  /\ \A t \in Threads \ {Main} : Finished(t)
  /\ rest' = {t \in Threads : buffer[t].count > 0}
  /\ Goto(Main, "drain")
  /\ UNCHANGED <<markovActive, ring, queue, readers, buffer, kinds, at, calls, dropped>>

\* Push a task that is left: count it in,
DestroyPush(t) ==
  /\ pc[Main] = "drain" /\ t \in rest
  /\ storing = NoOne /\ Members < CAPACITY
  /\ log' = Append(log, buffer[t])
  /\ storing' = Main
  /\ rest' = rest \ {t}
  /\ UNCHANGED <<markovActive, ring, popped, readers, threads, dropped>>

\* and store it.
DestroyStore ==
  /\ pc[Main] = "drain" /\ storing = Main
  /\ storing' = NoOne
  /\ UNCHANGED <<markovActive, ring, log, popped, readers, threads, rest, dropped>>

DestroyPushFails(t) ==
  /\ Slow
  /\ pc[Main] = "drain" /\ t \in rest
  /\ storing = NoOne /\ Members = CAPACITY
  /\ dropped' = dropped \cup EventsOf(buffer[t])
  /\ rest' = rest \ {t}
  /\ UNCHANGED <<markovActive, ring, queue, readers, threads>>

\* Fault: the flag is left as it is.
Deactivate_Not ==
  /\ pc[Main] = "drain" /\ rest = {} /\ storing = NoOne
  /\ Goto(Main, "join")
  /\ UNCHANGED <<markovActive, ring, queue, readers, buffer, kinds, at, calls, rest, dropped>>

\* markovActive = false
Deactivate ==
  /\ pc[Main] = "drain" /\ rest = {} /\ storing = NoOne
  /\ markovActive' = FALSE
  /\ Goto(Main, "join")
  /\ UNCHANGED <<ring, queue, readers, buffer, kinds, at, calls, rest, dropped>>

\* Once the reader has ended, the tables are written to the profile and freed.
Write ==
  /\ pc[Main] = "join" /\ reader = "done"
  /\ Goto(Main, "written")
  /\ UNCHANGED <<markovActive, ring, queue, readers, buffer, kinds, at, calls, rest, dropped>>

-----------------------------------------------------------------------------
Run(t) == GetPtr(t) \/ AddEvent(t) \/ PushTask(t) \/ StoreTask(t) \/ PushTaskFails(t) \/ Return(t)
Reader == Claim \/ Copy \/ Skip \/ CountEvent \/ FollowWild \/ TaskDone \/ ReaderExit
Exit == \/ \E t \in Threads : DestroyPush(t) \/ DestroyPushFails(t)
        \/ DestroyStore \/ Deactivate \/ Write

Next == (\E t \in Threads : Increment(t) \/ Run(t)) \/ Reader \/ Destroy \/ Exit

Spec == Init /\ [][Next]_vars

\* The reader thread and the exiting main thread are scheduled.
FairSpec == Spec /\ WF_vars(Reader) /\ WF_vars(Exit)

-----------------------------------------------------------------------------
(* Properties *)

Written == pc[Main] = "written"
Made(t) == {t} \X (1..emitted[t])

\* When the profile is written, every event is in it exactly once, but for the
\* tasks that push refused and what was harmed by a copy that came too early
\* (Markov.cpp:282-306, 218-242): the events of the task that was copied, and
\* those that what was copied instead points to.  So no other task may be lost
\* or handed out twice, and no slot of the ring used again while a pointer to it
\* waits to be followed: for one thread (CAPACITY + 2) * TASK_SIZE + 1 slots are
\* enough (Markov.cpp:26-79, 381-393).
ProfileComplete ==
  Written => \A t \in Threads : \A e \in Made(t) \ harmed :
               counted[e] = IF e \in dropped THEN 0 ELSE 1

\* MarkovDestroy ends: the reader drains the queue and is joined, unless it was
\* lost following a pointer that was never set.
DestroyEnds == pc[Main] = "drain" ~> (Written \/ reader = "lost")
=============================================================================
