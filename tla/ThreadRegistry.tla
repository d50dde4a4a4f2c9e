--------------------------- MODULE ThreadRegistry ---------------------------
(***************************************************************************)
(* How a profiled thread enters the Markov backend: MarkovLaunch and the   *)
(* first and last lines of MarkovIncrement                                 *)
(* (src/Profile/Backend/Markov/Markov.cpp).  A thread that is seen for the *)
(* first time inserts itself into four maps that every thread reads.       *)
(* newThread is meant to keep the others out while it does, miners to say  *)
(* how many are in.  One action per access to the two atomics or the maps. *)
(***************************************************************************)
EXTENDS Integers, FiniteSets

CONSTANTS Threads,   \* the threads of the profiled program
          Main,      \* the one that ran MarkovInit, and launches the others
          Blocks,    \* the basic blocks that launch threads
          NoBlock    \* no block: lastLauncher before the first launch

ASSUME ThreadsAssumption == IsFiniteSet(Threads) /\ Main \in Threads
ASSUME BlockAssumption == NoBlock \notin Blocks

VARIABLES newThread, miners,        \* the two atomics
          registered,               \* the keys of edgeInc, taskBuffer, ...
          lastLauncher, launchers,  \* what MarkovLaunch leaves behind
          src,                      \* edgeInc[t].src of a thread's first edge
          pc                        \* where each thread is in MarkovIncrement

vars == <<newThread, miners, registered, lastLauncher, launchers, src, pc>>

-----------------------------------------------------------------------------
\* Locations from newThread++ to the matching newThread--.
Claimed == {"check", "back", "wait", "insert", "release"}
\* Those of a thread that was not beaten to it.
Holding == {"wait", "insert", "release"}
\* Those where a thread reads the maps.
Reading == {"find", "use", "work"}
Locations == {"unborn", "out", "gate", "regspin", "claim", "join", "count"}
             \cup Claimed \cup Reading

In(L) == {t \in Threads : pc[t] \in L}

\* MarkovInit has run in the main thread.
Init ==
  /\ newThread = 0 /\ miners = 0
  /\ registered = {Main}
  /\ lastLauncher = NoBlock /\ launchers = {}
  /\ src = [t \in Threads |-> NoBlock]
  /\ pc = [t \in Threads |-> IF t = Main THEN "out" ELSE "unborn"]

Step(t, from, to) == pc[t] = from /\ pc' = [pc EXCEPT ![t] = to]

\* MarkovLaunch(a), which the pass puts before the call that creates thread t.
MarkovLaunch(t) ==
  /\ pc[Main] = "out"
  /\ Step(t, "unborn", "out")
  /\ \E a \in Blocks :
       /\ launchers' = launchers \cup {a}
       /\ lastLauncher' = a
  /\ UNCHANGED <<newThread, miners, registered, src>>

\* MarkovIncrement is called with markovActive set.
Call(t) ==
  /\ Step(t, "out", "gate")
  /\ UNCHANGED <<newThread, miners, registered, lastLauncher, launchers, src>>

\* Fault: known threads do not wait for one that registers.
PassGate_Open(t) ==
  /\ Step(t, "gate", "find")
  /\ UNCHANGED <<newThread, miners, registered, lastLauncher, launchers, src>>

\* while( newThread ) {}
PassGate(t) ==
  /\ newThread = 0
  /\ Step(t, "gate", "find")
  /\ UNCHANGED <<newThread, miners, registered, lastLauncher, launchers, src>>

\* Fault: find's answer is not looked at.
FindKnown_Any(t) ==
  /\ Step(t, "find", "use")
  /\ UNCHANGED <<newThread, miners, registered, lastLauncher, launchers, src>>

\* edgeInc.find(this thread): known, or new.
FindKnown(t) ==
  /\ t \in registered
  /\ Step(t, "find", "use")
  /\ UNCHANGED <<newThread, miners, registered, lastLauncher, launchers, src>>

FindNew(t) ==
  /\ t \notin registered
  /\ Step(t, "find", "regspin")
  /\ UNCHANGED <<newThread, miners, registered, lastLauncher, launchers, src>>

\* edgeInc.at(this thread) gets its new source and sink.
UseEdge(t) ==
  /\ Step(t, "use", "count")
  /\ UNCHANGED <<newThread, miners, registered, lastLauncher, launchers, src>>

\* Fault: a thread that has just registered is not counted, yet counts out.
CountIn_KnownOnly(t) ==
  \/ /\ Step(t, "join", "work")
     /\ UNCHANGED <<newThread, miners, registered, lastLauncher, launchers, src>>
  \/ /\ Step(t, "count", "work")
     /\ miners' = miners + 1
     /\ UNCHANGED <<newThread, registered, lastLauncher, launchers, src>>

\* miners++, for a known thread and for one that has just registered.
CountIn(t) ==
  /\ Step(t, "count", "work") \/ Step(t, "join", "work")
  /\ miners' = miners + 1
  /\ UNCHANGED <<newThread, registered, lastLauncher, launchers, src>>

\* The rest of MarkovIncrement, up to miners--.
CountOut(t) ==
  /\ Step(t, "work", "out")
  /\ miners' = miners - 1
  /\ UNCHANGED <<newThread, registered, lastLauncher, launchers, src>>

-----------------------------------------------------------------------------
(* tryAgain: the registration *)

\* while( newThread ) {}
SpinFree(t) ==
  /\ newThread = 0
  /\ Step(t, "regspin", "claim")
  /\ UNCHANGED <<newThread, miners, registered, lastLauncher, launchers, src>>

\* newThread++
Claim(t) ==
  /\ Step(t, "claim", "check")
  /\ newThread' = newThread + 1
  /\ UNCHANGED <<miners, registered, lastLauncher, launchers, src>>

\* Fault: the comparison is off by one.
ClaimAlone_Late(t) ==
  /\ newThread <= 2
  /\ Step(t, "check", "wait")
  /\ UNCHANGED <<newThread, miners, registered, lastLauncher, launchers, src>>

ClaimAlone(t) ==
  /\ newThread <= 1
  /\ Step(t, "check", "wait")
  /\ UNCHANGED <<newThread, miners, registered, lastLauncher, launchers, src>>

ClaimBeaten(t) ==
  /\ newThread > 1
  /\ Step(t, "check", "back")
  /\ UNCHANGED <<newThread, miners, registered, lastLauncher, launchers, src>>

\* Fault: a thread that was beaten leaves its count behind.
BackOff_Counted(t) ==
  /\ Step(t, "back", "regspin")
  /\ UNCHANGED <<newThread, miners, registered, lastLauncher, launchers, src>>

\* newThread--, goto tryAgain
BackOff(t) ==
  /\ Step(t, "back", "regspin")
  /\ newThread' = newThread - 1
  /\ UNCHANGED <<miners, registered, lastLauncher, launchers, src>>

\* while( miners > 1 ) {}
MinersOut(t) ==
  /\ miners <= 1
  /\ Step(t, "wait", "insert")
  /\ UNCHANGED <<newThread, miners, registered, lastLauncher, launchers, src>>

\* The maps get an entry for this thread; its first edge comes from lastLauncher.
Insert(t) ==
  /\ Step(t, "insert", "release")
  /\ registered' = registered \cup {t}
  /\ src' = [src EXCEPT ![t] = lastLauncher]
  /\ UNCHANGED <<newThread, miners, lastLauncher, launchers>>

\* newThread--
Release(t) ==
  /\ Step(t, "release", "join")
  /\ newThread' = newThread - 1
  /\ UNCHANGED <<miners, registered, lastLauncher, launchers, src>>

-----------------------------------------------------------------------------
Register(t) == SpinFree(t) \/ Claim(t) \/ ClaimAlone(t) \/ ClaimBeaten(t) \/ BackOff(t)
               \/ MinersOut(t) \/ Insert(t) \/ Release(t)
Increment(t) == PassGate(t) \/ FindKnown(t) \/ FindNew(t) \/ UseEdge(t) \/ CountIn(t)
                \/ CountOut(t) \/ Register(t)

Next == \E t \in Threads : MarkovLaunch(t) \/ Call(t) \/ Increment(t)

Spec == Init /\ [][Next]_vars

\* The scheduler runs every thread that is inside MarkovIncrement.
FairSpec == Spec /\ \A t \in Threads : WF_vars(Increment(t))

-----------------------------------------------------------------------------
(* Properties *)

\* Every variable has its type.
TypeOK ==
  /\ newThread \in Nat /\ miners \in Nat
  /\ registered \subseteq Threads
  /\ lastLauncher \in Blocks \cup {NoBlock} /\ launchers \subseteq Blocks
  /\ src \in [Threads -> Blocks \cup {NoBlock}]
  /\ pc \in [Threads -> Locations]

\* Two threads never insert into the maps at once (Markov.cpp:336-371).
RegistrantsExclusive ==
  \A t, u \in Threads : pc[t] \in Holding /\ pc[u] \in Holding => t = u

\* miners is the number of threads at work in the backend, and newThread of those
\* that are registering or have yet to back off: both return to 0
\* (Markov.cpp:139-141).
AtomicsCount ==
  /\ miners = Cardinality(In({"work"}))
  /\ newThread = Cardinality(In(Claimed))

\* A thread works only on entries of the maps that are there, and a spawned
\* thread's first edge starts at a block that launches threads
\* (Markov.cpp:360-369, 381).
SpawnedFromLauncher ==
  \A t \in Threads : pc[t] \in {"use", "work"} =>
    t \in registered /\ (t # Main => src[t] \in launchers)

\* A thread that was not beaten to it gets to insert: the threads that are in
\* leave, and newThread keeps the next ones out (Markov.cpp:329, 352).
RegistrantProceeds == \A t \in Threads : pc[t] = "wait" ~> pc[t] = "join"
=============================================================================
