---------------------------- MODULE BoundedQueue ----------------------------
(***************************************************************************)
(* What the profiler's event queue promises its callers: a bounded FIFO.   *)
(* The queue is the log of every task ever accepted together with the      *)
(* number of them that were handed out, so that "in order, each once" is   *)
(* part of the state space and not a property to be stated separately.     *)
(***************************************************************************)
EXTENDS Integers, Sequences

CONSTANTS Tasks,      \* what a producer can push
          Capacity    \* how many tasks may wait at one time

VARIABLES log,        \* the tasks accepted so far, in order of acceptance
          taken       \* how many of them have been handed out

qvars == <<log, taken>>

QInit == log = <<>> /\ taken = 0

\* push returns true: the task is behind every other one.
Accept(t) ==
  /\ Len(log) - taken < Capacity
  /\ log' = Append(log, t)
  /\ UNCHANGED taken

\* pop returns a task: the oldest that waits.
Deliver ==
  /\ taken < Len(log)
  /\ taken' = taken + 1
  /\ UNCHANGED log

QNext == (\E t \in Tasks : Accept(t)) \/ Deliver

QSpec == QInit /\ [][QNext]_qvars
=============================================================================
