------------------------- MODULE ThreadRegistryProofs ------------------------
(***************************************************************************)
(* Theorems about the registration of threads, for any finite set of       *)
(* threads and any set of blocks.                                          *)
(***************************************************************************)
EXTENDS ThreadRegistry, FiniteSetTheorems, TLAPS

USE ThreadsAssumption, BlockAssumption

-----------------------------------------------------------------------------
(* Sets of threads by location *)

\* The threads at some locations can be counted.
LEMMA InFinite ==
  ASSUME NEW L PROVE IsFiniteSet(In(L)) /\ Cardinality(In(L)) \in Nat
  BY FS_Subset, FS_CardinalityType DEF In

\* A thread that steps into a set of locations makes it one more.
LEMMA StepIn ==
  ASSUME NEW CONSTANT L, NEW t \in Threads, NEW CONSTANT from, NEW CONSTANT to,
         pc \in [Threads -> Locations], Step(t, from, to), from \notin L, to \in L
  PROVE  Cardinality(In(L)') = Cardinality(In(L)) + 1
  <1>1. In(L)' = In(L) \cup {t} /\ t \notin In(L)
    BY DEF In, Step
  <1> QED
    BY <1>1, InFinite, FS_AddElement

\* One that steps out of it makes it one less.
LEMMA StepOut ==
  ASSUME NEW CONSTANT L, NEW t \in Threads, NEW CONSTANT from, NEW CONSTANT to,
         pc \in [Threads -> Locations], Step(t, from, to), from \in L, to \notin L
  PROVE  Cardinality(In(L)') = Cardinality(In(L)) - 1
  <1>1. In(L)' = In(L) \ {t} /\ t \in In(L)
    BY DEF In, Step
  <1> QED
    BY <1>1, InFinite, FS_RemoveElement

\* One that stays inside it, or outside, leaves it as it is.
LEMMA StepWithin ==
  ASSUME NEW CONSTANT L, NEW t \in Threads, NEW CONSTANT from, NEW CONSTANT to,
         pc \in [Threads -> Locations], Step(t, from, to), from \in L <=> to \in L
  PROVE  In(L)' = In(L)
  BY DEF In, Step

-----------------------------------------------------------------------------
(* The inductive invariant *)

\* What is known of the maps and of the launchers, thread by thread.
FirstEdges ==
  /\ \A t \in Threads \ {Main} : pc[t] # "unborn" => lastLauncher \in launchers
  /\ \A t \in registered \ {Main} : src[t] \in launchers
  /\ \A t \in Threads : pc[t] \in {"use", "count", "release", "join", "work"} => t \in registered

RegistryInv == TypeOK /\ AtomicsCount /\ RegistrantsExclusive /\ FirstEdges

\* Only the main thread is in the maps at first, and nobody is inside.
LEMMA RegistryInvInit == Init => RegistryInv
  <1> SUFFICES ASSUME Init PROVE RegistryInv
    OBVIOUS
  <1>1. TypeOK
    BY DEF Init, TypeOK, Locations, Claimed, Reading
  <1>2. AtomicsCount
    <2>1. In(Claimed) = {} /\ In({"work"}) = {}
      BY DEF Init, In, Claimed
    <2> QED
      BY <2>1, FS_EmptySet DEF Init, AtomicsCount
  <1>3. RegistrantsExclusive /\ FirstEdges
    BY DEF Init, RegistrantsExclusive, FirstEdges, Holding
  <1> QED
    BY <1>1, <1>2, <1>3 DEF RegistryInv

Act(t) == MarkovLaunch(t) \/ Call(t) \/ Increment(t)

\* The two atomics go on counting what they count.
LEMMA Counting ==
  ASSUME TypeOK, AtomicsCount, NEW t \in Threads, Act(t) PROVE AtomicsCount'
  <1> USE DEF Claimed, AtomicsCount
  <1>0. pc \in [Threads -> Locations]
    BY DEF TypeOK
  <1>1. CASE CountIn(t)
    BY <1>0, <1>1, StepIn, StepWithin DEF CountIn
  <1>2. CASE CountOut(t)
    BY <1>0, <1>2, StepOut, StepWithin DEF CountOut
  <1>3. CASE Claim(t)
    BY <1>0, <1>3, StepIn, StepWithin DEF Claim
  <1>4. CASE BackOff(t)
    BY <1>0, <1>4, StepOut, StepWithin DEF BackOff
  <1>5. CASE Release(t)
    BY <1>0, <1>5, StepOut, StepWithin DEF Release
  <1>6. CASE MarkovLaunch(t) \/ Call(t)
    BY <1>0, <1>6, StepWithin DEF MarkovLaunch, Call
  <1>7. CASE PassGate(t) \/ FindKnown(t) \/ FindNew(t) \/ UseEdge(t) \/ SpinFree(t)
    BY <1>0, <1>7, StepWithin DEF PassGate, FindKnown, FindNew, UseEdge, SpinFree
  <1>8. CASE ClaimAlone(t) \/ ClaimBeaten(t) \/ MinersOut(t) \/ Insert(t)
    BY <1>0, <1>8, StepWithin DEF ClaimAlone, ClaimBeaten, MinersOut, Insert
  <1> QED
    BY <1>1, <1>2, <1>3, <1>4, <1>5, <1>6, <1>7, <1>8 DEF Act, Increment, Register

\* Every variable keeps its type; the atomics, because they count.
LEMMA Typing ==
  ASSUME TypeOK, AtomicsCount', NEW t \in Threads, Act(t) PROVE TypeOK'
  <1>1. newThread' \in Nat /\ miners' \in Nat
    <2>1. Cardinality(In(Claimed)') \in Nat /\ Cardinality(In({"work"})') \in Nat
      BY FS_Subset, FS_CardinalityType DEF In
    <2> QED
      BY <2>1 DEF AtomicsCount
  <1>2. pc' \in [Threads -> Locations]
    BY DEF TypeOK, Act, Increment, Register, Step, Locations, Claimed, Reading,
           MarkovLaunch, Call, PassGate, FindKnown, FindNew, UseEdge, CountIn, CountOut,
           SpinFree, Claim, ClaimAlone, ClaimBeaten, BackOff, MinersOut, Insert, Release
  <1>3. CASE MarkovLaunch(t)
    BY <1>1, <1>2, <1>3 DEF MarkovLaunch, TypeOK
  <1>4. CASE Insert(t)
    BY <1>1, <1>2, <1>4 DEF Insert, TypeOK
  <1>5. CASE ~MarkovLaunch(t) /\ ~Insert(t)
    BY <1>1, <1>2, <1>5 DEF TypeOK, Act, Increment, Register, Call, PassGate, FindKnown,
           FindNew, UseEdge, CountIn, CountOut, SpinFree, Claim, ClaimAlone, ClaimBeaten,
           BackOff, MinersOut, Release
  <1> QED
    BY <1>3, <1>4, <1>5

\* newThread <= 1 means that the thread that looks is the only one in Claimed,
\* and so that nobody holds the registration.
LEMMA Excluding ==
  ASSUME TypeOK, AtomicsCount, RegistrantsExclusive, NEW t \in Threads, Act(t)
  PROVE  RegistrantsExclusive'
  <1> USE DEF Holding
  <1>1. CASE ClaimAlone(t)
    <2>1. t \in In(Claimed) /\ Cardinality(In(Claimed)) <= 1
      BY <1>1 DEF ClaimAlone, Step, In, Claimed, AtomicsCount
    <2>2. IsFiniteSet(In(Claimed))
      BY InFinite
    <2>3. In(Claimed) \ {t} = {}
      <3>1. /\ IsFiniteSet(In(Claimed) \ {t})
            /\ Cardinality(In(Claimed) \ {t}) = Cardinality(In(Claimed)) - 1
        BY <2>1, <2>2, FS_RemoveElement
      <3>2. Cardinality(In(Claimed) \ {t}) \in Nat /\ Cardinality(In(Claimed)) \in Nat
        BY <2>2, <3>1, FS_CardinalityType
      <3>3. Cardinality(In(Claimed) \ {t}) = 0
        BY <2>1, <3>1, <3>2
      <3> QED
        BY <3>1, <3>3, FS_EmptySet
    <2>4. \A u \in Threads \ {t} : pc[u] \notin Holding
      BY <2>3 DEF In, Claimed
    <2>5. \A u \in Threads \ {t} : pc'[u] = pc[u]
      BY <1>1 DEF ClaimAlone, Step, TypeOK
    <2> QED
      BY <2>4, <2>5 DEF RegistrantsExclusive
  <1>2. CASE ~ClaimAlone(t)
    <2>1. \A u \in Threads : pc'[u] \in Holding => pc[u] \in Holding
      BY <1>2 DEF TypeOK, Act, Increment, Register, Step,
           MarkovLaunch, Call, PassGate, FindKnown, FindNew, UseEdge, CountIn, CountOut,
           SpinFree, Claim, ClaimBeaten, BackOff, MinersOut, Insert, Release
    <2> QED
      BY <2>1 DEF RegistrantsExclusive
  <1> QED
    BY <1>1, <1>2

\* A thread is launched before it runs, and in the maps before it uses them.
LEMMA Launching ==
  ASSUME TypeOK, FirstEdges, NEW t \in Threads, Act(t) PROVE FirstEdges'
  <1>1. CASE MarkovLaunch(t)
    BY <1>1 DEF MarkovLaunch, FirstEdges, Step, TypeOK
  <1>2. CASE Insert(t)
    BY <1>2 DEF Insert, FirstEdges, Step, TypeOK
  <1>3. CASE FindKnown(t)
    BY <1>3 DEF FindKnown, FirstEdges, Step, TypeOK
  <1>4. CASE ~MarkovLaunch(t) /\ ~Insert(t) /\ ~FindKnown(t)
    BY <1>4 DEF TypeOK, Act, Increment, Register, Step, FirstEdges,
           Call, PassGate, FindNew, UseEdge, CountIn, CountOut,
           SpinFree, Claim, ClaimAlone, ClaimBeaten, BackOff, MinersOut, Release
  <1> QED
    BY <1>1, <1>2, <1>3, <1>4

-----------------------------------------------------------------------------
(* The theorems *)

\* The invariant holds in every reachable state.
THEOREM RegistryInvariance == Spec => []RegistryInv
  <1>1. RegistryInv /\ [Next]_vars => RegistryInv'
    <2> SUFFICES ASSUME RegistryInv, [Next]_vars PROVE RegistryInv'
      OBVIOUS
    <2>1. CASE Next
      <3>1. PICK t \in Threads : Act(t)
        BY <2>1 DEF Next, Act
      <3> QED
        BY <3>1, Counting, Typing, Excluding, Launching DEF RegistryInv
    <2>2. CASE UNCHANGED vars
       BY <2>2 DEF vars, RegistryInv, TypeOK, AtomicsCount, RegistrantsExclusive,
         FirstEdges, In
    <2> QED
      BY <2>1, <2>2
  <1> QED
    BY <1>1, RegistryInvInit, PTL DEF Spec

\* Every variable keeps its type: neither atomic is ever decremented below zero
\* (Markov.cpp:349, 370, 446).
THEOREM RegistryTypeCorrect == Spec => []TypeOK
  BY RegistryInvariance, PTL DEF RegistryInv

\* Two threads never insert into the maps at once, however many there are
\* (Markov.cpp:341-370).
THEOREM RegistrationExclusive == Spec => []RegistrantsExclusive
  BY RegistryInvariance, PTL DEF RegistryInv

\* newThread and miners count the threads that they are meant to count.
THEOREM AtomicsCorrect == Spec => []AtomicsCount
  BY RegistryInvariance, PTL DEF RegistryInv

\* A thread works on entries that are there, and a spawned thread's first edge
\* starts at a block that launches threads (Markov.cpp:360).
THEOREM FirstEdgeCorrect == Spec => []SpawnedFromLauncher
  <1>1. RegistryInv => SpawnedFromLauncher
    BY DEF RegistryInv, FirstEdges, SpawnedFromLauncher
  <1> QED
    BY <1>1, RegistryInvariance, PTL
=============================================================================
