---------------------------- MODULE InliningProofs ----------------------------
(***************************************************************************)
(* Theorems about the reader of profiles and the inlining, for all         *)
(* programs and runs: each call knows the edge on which the run returned   *)
(* from it, and functions are scheduled after those they wait for.         *)
(***************************************************************************)
EXTENDS Inlining, TLAPS, FiniteSetTheorems, SequenceTheorems, WellFoundedInduction

-----------------------------------------------------------------------------
(* Runs, and what is called in them *)

\* A set of numbers that has a member has a least one.
LEMMA LeastNat ==
  ASSUME NEW T, T \subseteq Nat, T # {}
  PROVE  \E n \in T : \A m \in T : n <= m
  <1>1. \E n \in T : \A m \in T : ~ (<<m, n>> \in OpToRel(<, Nat))
    BY NatLessThanWellFounded, WFMin, Zenon
  <1>2. PICK n \in T : \A m \in T : ~ (<<m, n>> \in OpToRel(<, Nat))
    BY <1>1, Zenon
  <1>3. ASSUME NEW m \in T PROVE n <= m
    <2>1. ~ (<<m, n>> \in OpToRel(<, Nat))
      BY <1>2, Zenon
    <2>2. m \in Nat /\ n \in Nat
      OBVIOUS
    <2>3. ~(m < n)
      BY <2>1, <2>2 DEF OpToRel
    <2> QED BY <2>2, <2>3
  <1> QED
    BY <1>3

\* How many members of S there are from i to j.
Count(S, i, j) == Cardinality(S \cap (i .. j))

\* There are those before m and those from m on.
LEMMA CountSplit ==
  ASSUME NEW S, NEW i \in Nat, NEW m \in Nat, NEW j \in Nat, i <= m, m <= j + 1
  PROVE  /\ Count(S, i, j) \in Nat /\ Count(S, i, m - 1) \in Nat /\ Count(S, m, j) \in Nat
         /\ Count(S, i, j) = Count(S, i, m - 1) + Count(S, m, j)
  <1>1. PICK A, B, C : A = S \cap (i .. j) /\ B = S \cap (i .. (m - 1)) /\ C = S \cap (m .. j)
    OBVIOUS
  <1>2. IsFiniteSet(A)
    <2>1. IsFiniteSet(i .. j)
      BY FS_Interval
    <2>2. A \subseteq i .. j
      BY <1>1
    <2> QED BY <2>1, <2>2, FS_Subset
  <1>3. B \subseteq A /\ C \subseteq A /\ A = B \cup C /\ B \cap C = {}
    BY <1>1
  <1>4. IsFiniteSet(B) /\ IsFiniteSet(C)
    BY <1>2, <1>3, FS_Subset
  <1>5. Cardinality(A) = Cardinality(B) + Cardinality(C) - Cardinality({})
    BY <1>3, <1>4, FS_Union
  <1>6. Cardinality({}) = 0
    BY FS_EmptySet
  <1>7. Cardinality(A) \in Nat /\ Cardinality(B) \in Nat /\ Cardinality(C) \in Nat
    BY <1>2, <1>4, FS_CardinalityType
  <1> QED
    BY <1>1, <1>5, <1>6, <1>7 DEF Count

\* The steps that enter a function, and those that return from one.
EnteringSteps(p, w) == {k \in Nat : Enters(p, w, k)}
ReturningSteps(p, w) == {k \in Nat : Returns(p, w, k)}

\* Depths are what they differ by.
LEMMA DepthIs ==
  ASSUME NEW p, NEW w, NEW i \in Nat, NEW j
  PROVE  Depth(p, w, i, j) = Count(EnteringSteps(p, w), i, j) - Count(ReturningSteps(p, w), i, j)
  <1>1. i .. j \subseteq Nat
    OBVIOUS
  <1>2. {k \in i .. j : Enters(p, w, k)} = EnteringSteps(p, w) \cap (i .. j)
    BY <1>1 DEF EnteringSteps
  <1>3. {k \in i .. j : Returns(p, w, k)} = ReturningSteps(p, w) \cap (i .. j)
    BY <1>1 DEF ReturningSteps
  <1> QED
    BY <1>2, <1>3 DEF Depth, Count

\* A depth is an integer.
LEMMA DepthType ==
  ASSUME NEW p, NEW w, NEW i \in Nat, NEW j \in Nat
  PROVE  Depth(p, w, i, j) \in Int
  <1>1. PICK E, R : E = EnteringSteps(p, w) \cap (i .. j) /\ R = ReturningSteps(p, w) \cap (i .. j)
    OBVIOUS
  <1>2. IsFiniteSet(E) /\ IsFiniteSet(R)
    <2>1. IsFiniteSet(i .. j)
      BY FS_Interval
    <2>2. E \subseteq i .. j /\ R \subseteq i .. j
      BY <1>1
    <2> QED BY <2>1, <2>2, FS_Subset
  <1>3. Cardinality(E) \in Nat /\ Cardinality(R) \in Nat
    BY <1>2, FS_CardinalityType
  <1>4. Depth(p, w, i, j) = Cardinality(E) - Cardinality(R)
    BY <1>1, DepthIs DEF Count
  <1> QED
    BY <1>3, <1>4

\* Depths add up.
LEMMA DepthSplit ==
  ASSUME NEW p, NEW w, NEW i \in Nat, NEW m \in Nat, NEW j \in Nat, i <= m, m <= j + 1
  PROVE  /\ Depth(p, w, i, j) \in Int /\ Depth(p, w, i, m - 1) \in Int /\ Depth(p, w, m, j) \in Int
         /\ Depth(p, w, i, j) = Depth(p, w, i, m - 1) + Depth(p, w, m, j)
  <1>1. PICK E, R : E = EnteringSteps(p, w) /\ R = ReturningSteps(p, w)
    OBVIOUS
  <1>2. /\ Depth(p, w, i, j) = Count(E, i, j) - Count(R, i, j)
        /\ Depth(p, w, i, m - 1) = Count(E, i, m - 1) - Count(R, i, m - 1)
        /\ Depth(p, w, m, j) = Count(E, m, j) - Count(R, m, j)
    BY <1>1, DepthIs
  <1>3. /\ Count(E, i, j) \in Nat /\ Count(E, i, m - 1) \in Nat /\ Count(E, m, j) \in Nat
        /\ Count(E, i, j) = Count(E, i, m - 1) + Count(E, m, j)
    BY CountSplit
  <1>4. /\ Count(R, i, j) \in Nat /\ Count(R, i, m - 1) \in Nat /\ Count(R, m, j) \in Nat
        /\ Count(R, i, j) = Count(R, i, m - 1) + Count(R, m, j)
    BY CountSplit
  <1> QED
    BY <1>2, <1>3, <1>4

\* A step that enters a function is one deeper, one that returns one less.
LEMMA DepthStep ==
  ASSUME NEW p, NEW w, NEW m \in Nat
  PROVE  Depth(p, w, m, m) = IF Enters(p, w, m) THEN 1 ELSE IF Returns(p, w, m) THEN 0 - 1 ELSE 0
  <1>1. m .. m = {m}
    OBVIOUS
  <1>2. PICK E, R : E = {k \in {m} : Enters(p, w, k)} /\ R = {k \in {m} : Returns(p, w, k)}
    OBVIOUS
  <1>3. Depth(p, w, m, m) = Cardinality(E) - Cardinality(R)
    BY <1>1, <1>2 DEF Depth
  <1>4. /\ E = IF Enters(p, w, m) THEN {m} ELSE {}
        /\ R = IF Returns(p, w, m) THEN {m} ELSE {}
    BY <1>2
  <1>5. Cardinality({m}) = 1 /\ Cardinality({}) = 0
    BY FS_EmptySet, FS_Singleton
  <1>6. ~ (Enters(p, w, m) /\ Returns(p, w, m))
    BY DEF Enters, Returns
  <1> QED
    BY <1>3, <1>4, <1>5, <1>6

\* The depth before the next step.
LEMMA DepthNext ==
  ASSUME NEW p, NEW w, NEW i \in Nat, NEW m \in Nat, i < m
  PROVE  /\ Depth(p, w, i, m - 1) \in Int
         /\ Depth(p, w, i, m) = Depth(p, w, i, m - 1)
                                + IF Enters(p, w, m) THEN 1
                                  ELSE IF Returns(p, w, m) THEN 0 - 1 ELSE 0
  <1>1. m - 1 \in Nat /\ i <= m - 1
    OBVIOUS
  <1>2. Depth(p, w, i, m - 1) \in Int
    BY <1>1, DepthSplit
  <1>3. Depth(p, w, i, m) = Depth(p, w, i, m - 1) + Depth(p, w, m, m)
    BY DepthSplit
  <1> QED
    BY <1>2, <1>3, DepthStep

\* A set of numbers up to n that has a member has a greatest one, which is its Max.
LEMMA MaxIs ==
  ASSUME NEW n \in Nat, NEW T, T \subseteq 0 .. n, T # {}
  PROVE  Max(T) \in T /\ \A m \in T : m <= Max(T)
  <1>1. PICK S : S = {x \in 0 .. n : n - x \in T}
    OBVIOUS
  <1>2. S \subseteq Nat /\ S # {}
    <2>1. PICK t \in T : TRUE
      OBVIOUS
    <2>2. t \in 0 .. n /\ n - t \in 0 .. n /\ n - (n - t) = t
      BY <2>1
    <2> QED BY <1>1, <2>1, <2>2
  <1>3. PICK x \in S : \A y \in S : x <= y
    BY <1>2, LeastNat
  <1>4. x \in 0 .. n /\ n - x \in T
    BY <1>1, <1>3
  <1>5. ASSUME NEW m \in T PROVE m <= n - x
    <2>1. m \in 0 .. n /\ n - m \in 0 .. n /\ n - (n - m) = m
      BY <1>5
    <2>2. n - m \in S
      BY <1>1, <1>5, <2>1
    <2> QED BY <1>3, <1>4, <2>1, <2>2
  <1>6. \A m \in T : n - x >= m
    <2> SUFFICES ASSUME NEW m \in T PROVE n - x >= m
      OBVIOUS
    <2>1. m <= n - x /\ m \in 0 .. n /\ x \in 0 .. n
      BY <1>4, <1>5
    <2> QED BY <2>1
  <1>7. Max(T) \in T /\ \A m \in T : Max(T) >= m
    BY <1>4, <1>6 DEF Max
  <1>8. PICK x1 : x1 = Max(T)
    OBVIOUS
  <1>9. x1 \in T /\ \A m \in T : m <= x1
    <2>1. x1 \in T /\ \A m \in T : x1 >= m
      BY <1>7, <1>8
    <2>2. x1 \in Nat /\ \A m \in T : m \in Nat
      BY <2>1
    <2> QED BY <2>1, <2>2
  <1> QED
    BY <1>8, <1>9

\* As long as a function runs, the depth from its call on is positive.
LEMMA RunningIs ==
  ASSUME NEW p, NEW w, NEW i \in Nat, NEW j \in Nat, Running(p, w, i, j),
         NEW k \in Nat, i <= k, k < j
  PROVE  Depth(p, w, i, k) \in Int /\ Depth(p, w, i, k) >= 1 /\ Running(p, w, i, k)
  <1>1. k \in i .. j - 1
    OBVIOUS
  <1>2. Depth(p, w, i, k) \in Int
    BY DepthType
  <1>3. Depth(p, w, i, k) > 0
    BY <1>1 DEF Running
  <1>4. i .. k - 1 \subseteq i .. j - 1
    OBVIOUS
  <1>5. Running(p, w, i, k)
    BY <1>4 DEF Running
  <1> QED
    BY <1>2, <1>3, <1>5

\* At depth 1 nothing that was called later still runs.
LEMMA Innermost ==
  ASSUME NEW p, NEW w, NEW i \in Nat, NEW j \in Nat, Running(p, w, i, j),
         Depth(p, w, i, j - 1) = 1, NEW m \in Nat, i < m, m < j
  PROVE  ~ Running(p, w, m, j)
  <1>1. SUFFICES ASSUME Running(p, w, m, j) PROVE FALSE
    OBVIOUS
  <1>2. m - 1 \in Nat /\ i <= m - 1 /\ m - 1 < j /\ j - 1 \in Nat /\ m <= j - 1 /\ j - 1 < j
    OBVIOUS
  <1>3. Depth(p, w, i, m - 1) \in Int /\ Depth(p, w, i, m - 1) >= 1
    BY <1>2, RunningIs
  <1>4. Depth(p, w, m, j - 1) \in Int /\ Depth(p, w, m, j - 1) >= 1
    BY <1>1, <1>2, RunningIs
  <1>5. Depth(p, w, i, j - 1) = Depth(p, w, i, m - 1) + Depth(p, w, m, j - 1)
    BY <1>2, DepthSplit
  <1> QED
    BY <1>3, <1>4, <1>5

\* At depth 2 one function does, which was called at depth 1.
LEMMA NextInner ==
  ASSUME NEW p, NEW w, NEW i \in Nat, NEW j \in Nat, Running(p, w, i, j),
         i < j, Depth(p, w, i, j - 1) = 2
  PROVE  \E m \in i + 1 .. j - 1 : Running(p, w, m, j)
  <1>1. PICK T : T = {x \in i + 1 .. j - 1 : Depth(p, w, i, x - 1) = 1}
    OBVIOUS
  <1>2. Depth(p, w, i, i) = 1
    BY DepthStep DEF Running
  <1>3. i + 1 \in T
    <2>1. j - 1 # i
      BY <1>2
    <2>2. i + 1 \in i + 1 .. j - 1 /\ (i + 1) - 1 = i
      BY <2>1
    <2> QED BY <1>1, <1>2, <2>2
  <1>4. T \subseteq 0 .. j
    BY <1>1
  <1>5. PICK m : m = Max(T)
    OBVIOUS
  <1>6. m \in T /\ \A x \in T : x <= m
    BY <1>3, <1>4, <1>5, MaxIs
  <1>7. /\ m \in i + 1 .. j - 1 /\ m \in Nat /\ m - 1 \in Nat /\ i <= m /\ m < j
        /\ Depth(p, w, i, m - 1) = 1
    BY <1>1, <1>6
  <1>8. ASSUME NEW l \in m .. j - 1 PROVE Depth(p, w, m, l) > 0
    <2>1. l \in Nat /\ i <= l /\ l < j /\ m <= l + 1 /\ m <= l
      BY <1>7
    <2>2. Depth(p, w, i, l) \in Int /\ Depth(p, w, i, l) >= 1
      BY <2>1, RunningIs
    <2>3. Depth(p, w, i, l) # 1
      <3>1. CASE l = j - 1
        BY <3>1
      <3>2. CASE l # j - 1
        <4>1. l + 1 \in i + 1 .. j - 1 /\ (l + 1) - 1 = l /\ ~ (l + 1 <= m)
          BY <1>7, <2>1, <3>2
        <4>2. l + 1 \notin T
          BY <1>6, <4>1
        <4> QED BY <1>1, <4>1, <4>2
      <3> QED BY <3>1, <3>2
    <2>4. Depth(p, w, m, l) \in Int /\ Depth(p, w, i, l) = 1 + Depth(p, w, m, l)
      BY <1>7, <2>1, DepthSplit
    <2> QED BY <2>2, <2>3, <2>4
  <1>9. Enters(p, w, m)
    <2>1. m \in m .. j - 1
      BY <1>7
    <2>2. Depth(p, w, m, m) > 0
      BY <1>8, <2>1
    <2> QED BY <1>7, <2>2, DepthStep
  <1> QED
    BY <1>7, <1>8, <1>9 DEF Running

\* A run goes on after the last call that still runs.
LEMMA ReturnsAfter ==
  ASSUME NEW p, NEW w, IsRun(p, w), NEW j \in 1 .. Len(w) - 1, Returns(p, w, j),
         NEW i \in 1 .. j - 1, Running(p, w, i, j),
         \A m \in 1 .. j - 1 : Running(p, w, m, j) => m <= i
  PROVE  w[j + 1] \in p.succ[w[i]]
  <1>1. PICK R : R = {k \in 1 .. j - 1 : Running(p, w, k, j)}
    OBVIOUS
  <1>2. w[j + 1] \in p.succ[w[Max(R)]]
    BY <1>1 DEF IsRun
  <1>3. w \in Seq(DOMAIN p.func) /\ Len(w) \in Nat /\ j \in Nat
    BY DEF IsRun
  <1>4. R \subseteq 0 .. j /\ R # {} /\ i \in R
    BY <1>1, <1>3
  <1>5. Max(R) \in R /\ i <= Max(R)
    BY <1>3, <1>4, MaxIs
  <1>6. Max(R) \in 1 .. j - 1 /\ Max(R) <= i
    BY <1>1, <1>5
  <1>7. Max(R) = i
    <2>1. PICK x : x = Max(R)
      OBVIOUS
    <2>2. x \in Nat /\ i \in Nat /\ x <= i /\ i <= x
      BY <1>3, <1>5, <1>6, <2>1
    <2> QED BY <2>1, <2>2
  <1> QED
    BY <1>2, <1>7

\* Where a run returns with more than one function called since i, it goes on
\* after a call that was made by the one called at i.
LEMMA ReturnsInside ==
  ASSUME NEW p, NEW w, IsRun(p, w), NEW i \in Nat, NEW s \in 1 .. Len(w) - 1, 1 <= i, i < s,
         Running(p, w, i, s), Depth(p, w, i, s - 1) = 2, Returns(p, w, s)
  PROVE  \E m \in i + 1 .. s - 1 : Depth(p, w, i, m - 1) = 1 /\ w[s + 1] \in p.succ[w[m]]
  <1>1. w \in Seq(DOMAIN p.func) /\ Len(w) \in Nat /\ s \in Nat
    BY DEF IsRun
  <1>2. PICK R : R = {k \in 1 .. s - 1 : Running(p, w, k, s)}
    OBVIOUS
  <1>3. PICK x : x = Max(R)
    OBVIOUS
  <1>4. w[s + 1] \in p.succ[w[x]]
    BY <1>2, <1>3 DEF IsRun
  <1>5. PICK m \in i + 1 .. s - 1 : Running(p, w, m, s)
    BY <1>1, NextInner
  <1>6. m \in R /\ R \subseteq 0 .. s
    BY <1>1, <1>2, <1>5
  <1>7. x \in R /\ m <= x
    BY <1>1, <1>3, <1>6, MaxIs
  <1>8. /\ x \in i + 1 .. s - 1 /\ x \in Nat /\ Running(p, w, x, s) /\ i <= x /\ x < s
        /\ x - 1 \in Nat /\ i <= x - 1 /\ x - 1 < s
        /\ s - 1 \in Nat /\ x <= s - 1 /\ s - 1 < s /\ x <= (s - 1) + 1
    BY <1>1, <1>2, <1>5, <1>7
  <1>9. Depth(p, w, i, x - 1) \in Int /\ Depth(p, w, i, x - 1) >= 1
    BY <1>1, <1>8, RunningIs
  <1>10. Depth(p, w, x, s - 1) \in Int /\ Depth(p, w, x, s - 1) >= 1
    BY <1>1, <1>8, RunningIs
  <1>11. 2 = Depth(p, w, i, x - 1) + Depth(p, w, x, s - 1)
    BY <1>8, DepthSplit
  <1> QED
    BY <1>4, <1>8, <1>9, <1>10, <1>11

\* A run whose depth is that of just after a call is in the function called, unless
\* unknown code has called back another since.
LEMMA SameFunction ==
  ASSUME NEW p, NEW w, IsProgram(p), IsRun(p, w),
         NEW i \in 1 .. Len(w) - 1, NEW j \in 1 .. Len(w), Running(p, w, i, j),
         ~ CallsOthers(p, w, i, j),
         NEW k \in i + 1 .. j, Depth(p, w, i, k - 1) = 1
  PROVE  p.func[w[k]] = p.func[w[i + 1]]
  <1>1. w \in Seq(DOMAIN p.func) /\ Len(w) \in Nat /\ i \in Nat /\ j \in Nat
    BY DEF IsRun
  <1>2. PICK T : T = {x \in i + 1 .. j : /\ Depth(p, w, i, x - 1) = 1
                                         /\ p.func[w[x]] # p.func[w[i + 1]]}
    OBVIOUS
  <1>3. SUFFICES ASSUME k \in T PROVE FALSE
    BY <1>2
  <1>4. T \subseteq Nat /\ T # {}
    BY <1>1, <1>2, <1>3
  <1>5. PICK x \in T : \A y \in T : x <= y
    BY <1>4, LeastNat
  <1>6. /\ x \in i + 1 .. j /\ x \in Nat
        /\ Depth(p, w, i, x - 1) = 1 /\ p.func[w[x]] # p.func[w[i + 1]]
    BY <1>1, <1>2, <1>5
  <1>7. x # i + 1
    BY <1>6
  <1>8. PICK s : s = x - 1
    OBVIOUS
  <1>9. /\ s \in Nat /\ s + 1 = x /\ i < s /\ i <= s - 1 /\ s < j /\ s - 1 < j /\ s - 1 \in Nat
        /\ s \in 1 .. Len(w) - 1 /\ s \in i + 1 .. j /\ 1 <= i /\ i <= s
    BY <1>1, <1>6, <1>7, <1>8
  <1>10. \A y \in i + 1 .. j :
             y < x /\ Depth(p, w, i, y - 1) = 1 => p.func[w[y]] = p.func[w[i + 1]]
    <2> SUFFICES ASSUME NEW y \in i + 1 .. j, y < x, Depth(p, w, i, y - 1) = 1,
                        p.func[w[y]] # p.func[w[i + 1]]
                 PROVE  FALSE
      OBVIOUS
    <2>1. y \in T
      BY <1>2
    <2>2. x <= y /\ y \in Nat
      BY <1>1, <1>5, <2>1
    <2> QED BY <1>6, <2>2
  <1>11. Depth(p, w, i, s - 1) \in Int /\ Depth(p, w, i, s - 1) >= 1 /\ Running(p, w, i, s)
    <2>1. Depth(p, w, i, s - 1) \in Int /\ Depth(p, w, i, s - 1) >= 1
      BY <1>1, <1>9, RunningIs
    <2>2. Running(p, w, i, s)
      BY <1>1, <1>9, RunningIs
    <2> QED BY <2>1, <2>2
  <1>12. Depth(p, w, i, s) = 1
    BY <1>6, <1>8
  <1>13. Depth(p, w, i, s) = Depth(p, w, i, s - 1)
                             + IF Enters(p, w, s) THEN 1 ELSE IF Returns(p, w, s) THEN 0 - 1 ELSE 0
    BY <1>1, <1>9, DepthNext
  <1>14. ~ Enters(p, w, s)
    BY <1>11, <1>12, <1>13
  <1>15. \A b \in DOMAIN p.func : \A c \in p.succ[b] : p.func[c] = p.func[b]
    BY DEF IsProgram
  <1>16. CASE Returns(p, w, s)
    <2>1. Depth(p, w, i, s - 1) = 2
      BY <1>11, <1>12, <1>13, <1>14, <1>16
    <2>2. PICK m \in i + 1 .. s - 1 : Depth(p, w, i, m - 1) = 1 /\ w[s + 1] \in p.succ[w[m]]
      BY <1>1, <1>9, <1>11, <1>16, <2>1, ReturnsInside
    <2>3. m \in i + 1 .. j /\ m < x /\ m \in 1 .. Len(w)
      <3>1. PICK n : n = Len(w)
        OBVIOUS
      <3>2. /\ n \in Nat /\ i \in Nat /\ j \in Nat /\ s \in Nat /\ s < j /\ s + 1 = x
            /\ s <= n - 1 /\ m \in i + 1 .. s - 1
        BY <1>1, <1>9, <2>2, <3>1
      <3>3. m \in Nat /\ 1 <= m /\ i + 1 <= m /\ m <= s - 1
        BY <3>2
      <3> QED BY <3>1, <3>2, <3>3
    <2>4. p.func[w[m]] = p.func[w[i + 1]]
      BY <1>10, <2>2, <2>3
    <2>5. w[m] \in DOMAIN p.func
      BY <1>1, <2>3
    <2>6. p.func[w[x]] = p.func[w[m]]
      BY <1>9, <1>15, <2>2, <2>5
    <2> QED BY <1>6, <2>4, <2>6
  <1>17. CASE ~ Returns(p, w, s)
    <2>1. Depth(p, w, i, s - 1) = 1
      BY <1>11, <1>12, <1>13, <1>14, <1>17
    <2>2. p.func[w[s]] = p.func[w[i + 1]]
      BY <1>9, <1>10, <2>1
    <2>3. w[s] \in DOMAIN p.func
      BY <1>1, <1>9
    <2>4. CASE CallsBack(p, w, s)
      <3>1. s \in i + 1 .. j - 1
        BY <1>1, <1>9
      <3>2. p.func[w[s + 1]] = p.func[w[s]]
        BY <1>12, <2>4, <3>1 DEF CallsOthers
      <3> QED BY <1>6, <1>9, <2>2, <3>2
    <2>5. CASE ~ CallsBack(p, w, s)
      <3>1. w[s] \notin p.rets /\ w[s + 1] \notin Starts(p)
        BY <1>14, <1>17, <2>5 DEF Enters, Returns, CallsBack
      <3>2. w[s + 1] \in p.succ[w[s]]
        BY <1>9, <3>1 DEF IsRun
      <3> QED BY <1>6, <1>9, <1>15, <2>2, <2>3, <3>2
    <2> QED BY <2>4, <2>5
  <1> QED
    BY <1>16, <1>17

\* What the run returned on leads from a return to a successor of the block that
\* called. It is an edge the search finds if the return is of the function called.
LEMMA MatchIs ==
  ASSUME NEW p, NEW w, IsProgram(p), IsRun(p, w),
         NEW i \in 1 .. Len(w) - 1, NEW j \in 1 .. Len(w) - 1, i < j, Matches(p, w, i, j)
  PROVE  /\ w[i + 1] \in Starts(p)
         /\ w[j] \in p.rets
         /\ ~ CallsOthers(p, w, i, j) => p.func[w[j]] = p.func[w[i + 1]]
         /\ w[j + 1] \in p.succ[w[i]]
  <1>1. w \in Seq(DOMAIN p.func) /\ Len(w) \in Nat /\ i \in Nat /\ j \in Nat
    BY DEF IsRun
  <1>2. Running(p, w, i, j) /\ Returns(p, w, j) /\ Depth(p, w, i, j) = 0
    BY DEF Matches
  <1>3. w[i + 1] \in Starts(p) /\ w[j] \in p.rets
    BY <1>2 DEF Running, Enters, Returns
  <1>4. Depth(p, w, i, j - 1) = 1
    <2>1. /\ Depth(p, w, i, j - 1) \in Int
          /\ Depth(p, w, i, j) = Depth(p, w, i, j - 1)
                                 + IF Enters(p, w, j) THEN 1
                                   ELSE IF Returns(p, w, j) THEN 0 - 1 ELSE 0
      BY <1>1, DepthNext
    <2>2. ~ Enters(p, w, j)
      BY <1>2 DEF Enters, Returns
    <2> QED BY <1>2, <2>1, <2>2
  <1>5. ~ CallsOthers(p, w, i, j) => p.func[w[j]] = p.func[w[i + 1]]
    <2>1. j \in i + 1 .. j /\ j \in 1 .. Len(w)
      BY <1>1
    <2> QED BY <1>2, <1>4, <2>1, SameFunction
  <1>6. w[j + 1] \in p.succ[w[i]]
    <2>1. \A m \in 1 .. j - 1 : Running(p, w, m, j) => m <= i
      <3> SUFFICES ASSUME NEW m \in 1 .. j - 1, Running(p, w, m, j), ~ (m <= i)
                   PROVE  FALSE
        OBVIOUS
      <3>1. m \in Nat /\ i < m /\ m < j
        BY <1>1
      <3> QED BY <1>1, <1>2, <1>4, <3>1, Innermost
    <2>2. i \in 1 .. j - 1
      BY <1>1
    <2> QED BY <1>2, <2>1, <2>2, ReturnsAfter
  <1> QED
    BY <1>3, <1>5, <1>6
-----------------------------------------------------------------------------
(* The reader *)

\* The steps of a run.
Taken(w) == {<<w[i], w[i + 1]>> : i \in 1 .. Len(w) - 1}

\* The graph g is as far as its nodes and edges go the one BuildCFG made.
IsProfile(g, p, w) ==
    /\ {"nodes", "edges", "pred"} \subseteq DOMAIN g
    /\ g.nodes = Range(w) /\ g.edges = Taken(w)
    /\ \A b \in DOMAIN p.func : g.pred[b] = {e \in Taken(w) : e[2] = b}

\* Whatever becomes conditional, and whatever is weighed, the edges stay.
SameEdges(g, h) ==
    DOMAIN h = DOMAIN g /\ h.nodes = g.nodes /\ h.edges = g.edges /\ h.pred = g.pred

\* BuildCFG makes an edge of each step.
LEMMA GraphOfIs ==
  ASSUME NEW p, NEW w
  PROVE  IsProfile(GraphOf(p, w), p, w)
  <1>1. PICK es : es = Taken(w)
    OBVIOUS
  <1>2. PICK freq : freq = [e \in es |-> Cardinality({i \in 1 .. Len(w) - 1 : <<w[i], w[i + 1]>> = e})]
    OBVIOUS
  <1>3. GraphOf(p, w) =
            [nodes |-> Range(w), edges |-> es, plain |-> es, freq |-> freq, total |-> freq,
             pred |-> [b \in DOMAIN p.func |-> {e \in es : e[2] = b}],
             succ |-> [b \in DOMAIN p.func |-> {e \in es : e[1] = b}],
             block |-> [b \in DOMAIN p.func |-> b]]
    BY <1>1, <1>2 DEF GraphOf, Taken
  <1> QED
    BY <1>1, <1>3 DEF IsProfile

\* Twice the same edges are the same.
LEMMA SameEdgesTwice ==
  ASSUME NEW g, NEW h, NEW k, SameEdges(g, h), SameEdges(h, k)
  PROVE  SameEdges(g, k)
  BY DEF SameEdges

\* To make edges call edges and return edges changes none.
LEMMA AsCallsSame ==
  ASSUME NEW g, NEW C
  PROVE  SameEdges(g, AsCalls(g, C))
  <1>1. PICK rets : rets = UNION {dynamicRets(g, c) : c \in C}
    OBVIOUS
  <1>2. PICK q, t : /\ q = g.plain \ (C \cup rets)
                    /\ t = [e \in DOMAIN g.total |->
                               IF e \in rets THEN TotalFreq(g, g.succ[e[1]]) ELSE g.total[e]]
    OBVIOUS
  <1>3. AsCalls(g, C) = [g EXCEPT !.plain = q, !.total = t]
    BY <1>1, <1>2 DEF AsCalls
  <1>4. SameEdges(g, [g EXCEPT !.plain = q, !.total = t])
    BY DEF SameEdges
  <1> QED
    BY <1>3, <1>4

\* Nor does weighing.
LEMMA WeighSame ==
  ASSUME NEW g, NEW E, NEW sum
  PROVE  SameEdges(g, Weigh(g, E, sum))
  <1>1. PICK t : t = [e \in DOMAIN g.total |-> IF e \in E \ g.plain THEN sum ELSE g.total[e]]
    OBVIOUS
  <1>2. Weigh(g, E, sum) = [g EXCEPT !.total = t]
    BY <1>1 DEF Weigh
  <1>3. SameEdges(g, [g EXCEPT !.total = t])
    BY DEF SameEdges
  <1> QED
    BY <1>2, <1>3

\* A profile stays one.
LEMMA ProfileStays ==
  ASSUME NEW g, NEW h, NEW p, NEW w, IsProfile(g, p, w), SameEdges(g, h)
  PROVE  IsProfile(h, p, w)
  BY DEF IsProfile, SameEdges

\* What a call returned on depends on the edges only.
LEMMA RetsStay ==
  ASSUME NEW g, NEW h, NEW c, SameEdges(g, h)
  PROVE  dynamicRets(h, c) = dynamicRets(g, c)
  BY DEF dynamicRets, SameEdges

(***************************************************************************)
(* While the profile is read, the call edges know what the graph has. Each *)
(* function but main that the run entered is still to be patched, or all   *)
(* that leads to its first block are call edges.                           *)
(***************************************************************************)
ReaderInv ==
    /\ \E pr \in Profiled : program = pr[1] /\ run = pr[2]
    /\ phase \in {"branches", "calls", "patch"} =>
           /\ IsProfile(graph, program, run)
           /\ \A c \in DOMAIN calls : calls[c] = dynamicRets(graph, c)
    /\ phase = "patch" =>
           \A f \in Functions \ {Main} :
               EntryOf(f) \in graph.nodes =>
                   f \in todo \/ graph.pred[EntryOf(f)] \subseteq DOMAIN calls

LEMMA InitReaderInv ==
  ASSUME InlineInit
  PROVE  ReaderInv
  <1>1. Init
    BY DEF InlineInit
  <1>2. \E pr \in Profiled : program = pr[1] /\ run = pr[2]
    BY <1>1 DEF Init
  <1>3. phase = "branches" /\ DOMAIN calls = {}
    <2>1. phase = "branches" /\ calls = <<>>
      BY <1>1 DEF Init
    <2> QED BY <2>1
  <1>4. IsProfile(graph, program, run)
    BY <1>1, GraphOfIs DEF Init
  <1> QED
    BY <1>2, <1>3, <1>4 DEF ReaderInv

\* A step that keeps the edges, and adds what the call edges C returned on.
LEMMA CallsWithIs ==
  ASSUME NEW C, calls' = CallsWith(C), SameEdges(graph, graph'),
         UNCHANGED <<program, run>>,
         IsProfile(graph, program, run),
         \A c \in DOMAIN calls : calls[c] = dynamicRets(graph, c)
  PROVE  /\ IsProfile(graph, program, run)'
         /\ DOMAIN calls' = DOMAIN calls \cup C
         /\ \A c \in DOMAIN calls' : calls'[c] = dynamicRets(graph, c)'
  <1>1. IsProfile(graph, program, run)'
    <2>1. IsProfile(graph', program, run)
      BY ProfileStays
    <2> QED BY <2>1
  <1>2. /\ DOMAIN calls' = DOMAIN calls \cup C
        /\ \A c \in DOMAIN calls' : calls'[c] = IF c \in DOMAIN calls THEN calls[c]
                                                ELSE dynamicRets(graph, c)
    BY DEF CallsWith
  <1>3. ASSUME NEW c PROVE dynamicRets(graph, c)' = dynamicRets(graph, c)
    BY DEF dynamicRets, SameEdges, FuncOf
  <1> QED
    BY <1>1, <1>2, <1>3

LEMMA UpgradeBranchesInv ==
  ASSUME ReaderInv, UpgradeBranches
  PROVE  ReaderInv'
  <1>1. phase = "branches" /\ phase' = "calls" /\ UNCHANGED <<program, run, calls>>
    BY DEF UpgradeBranches
  <1>2. /\ IsProfile(graph, program, run)
        /\ \A c \in DOMAIN calls : calls[c] = dynamicRets(graph, c)
    BY <1>1 DEF ReaderInv
  <1>3. SameEdges(graph, graph')
    <2>1. PICK h : h = Counted(graph)
      OBVIOUS
    <2>2. PICK f : f = [e \in DOMAIN graph.freq |->
                           IF e \in program.twice THEN 2 * graph.freq[e] ELSE graph.freq[e]]
      OBVIOUS
    <2>3. h = [graph EXCEPT !.freq = f]
      BY <2>1, <2>2 DEF Counted
    <2>4. PICK q, t : /\ q = {e \in h.plain : e \notin Branches(graph, e[1])}
                      /\ t = [e \in DOMAIN h.total |->
                                 IF e \in Branches(graph, e[1])
                                 THEN TotalFreq(h, Branches(graph, e[1]))
                                 ELSE h.total[e]]
      OBVIOUS
    <2>5. graph' = [h EXCEPT !.plain = q, !.total = t]
      BY <2>1, <2>4 DEF UpgradeBranches
    <2> QED BY <2>3, <2>5 DEF SameEdges
  <1>4. IsProfile(graph', program, run)
    BY <1>2, <1>3, ProfileStays
  <1>5. ASSUME NEW c PROVE dynamicRets(graph, c)' = dynamicRets(graph, c)
    BY <1>1, <1>3 DEF dynamicRets, SameEdges, FuncOf
  <1>6. \A c \in DOMAIN calls' : calls'[c] = dynamicRets(graph, c)'
    BY <1>1, <1>2, <1>5
  <1>7. \E pr \in Profiled : program' = pr[1] /\ run' = pr[2]
    BY <1>1 DEF ReaderInv
  <1> QED
    BY <1>1, <1>4, <1>6, <1>7 DEF ReaderInv

LEMMA UpgradeCallInv ==
  ASSUME ReaderInv, UpgradeCall
  PROVE  ReaderInv'
  <1>1. phase = "calls" /\ phase' = "calls" /\ UNCHANGED <<program, run>>
    BY DEF UpgradeCall
  <1>2. /\ IsProfile(graph, program, run)
        /\ \A c \in DOMAIN calls : calls[c] = dynamicRets(graph, c)
    BY <1>1 DEF ReaderInv
  <1>3. PICK C, g, E, sum : /\ g = AsCalls(graph, C)
                            /\ graph' = Weigh(g, E, sum)
                            /\ calls' = CallsWith(C)
    BY DEF UpgradeCall
  <1>4. SameEdges(graph, graph')
    BY <1>3, AsCallsSame, WeighSame, SameEdgesTwice
  <1>5. /\ IsProfile(graph, program, run)'
        /\ \A c \in DOMAIN calls' : calls'[c] = dynamicRets(graph, c)'
    BY <1>1, <1>2, <1>3, <1>4, CallsWithIs
  <1>6. \E pr \in Profiled : program' = pr[1] /\ run' = pr[2]
    BY <1>1 DEF ReaderInv
  <1> QED
    BY <1>1, <1>5, <1>6 DEF ReaderInv

LEMMA CallsDoneInv ==
  ASSUME ReaderInv, CallsDone
  PROVE  ReaderInv'
  <1>1. /\ phase = "calls" /\ phase' = "patch" /\ UNCHANGED <<program, run, graph, calls>>
        /\ todo' = {f \in Functions \ {Main} : EntryOf(f) \in graph.nodes}
    BY DEF CallsDone
  <1>2. /\ IsProfile(graph, program, run)
        /\ \A c \in DOMAIN calls : calls[c] = dynamicRets(graph, c)
    BY <1>1 DEF ReaderInv
  <1>3. IsProfile(graph, program, run)'
    BY <1>1, <1>2
  <1>4. ASSUME NEW c PROVE dynamicRets(graph, c)' = dynamicRets(graph, c)
    BY <1>1 DEF dynamicRets, FuncOf
  <1>5. \A c \in DOMAIN calls' : calls'[c] = dynamicRets(graph, c)'
    BY <1>1, <1>2, <1>4
  <1>6. \A f \in (Functions \ {Main})' : EntryOf(f)' \in graph'.nodes => f \in todo'
    BY <1>1 DEF Functions, EntryOf, Main
  <1>7. \E pr \in Profiled : program' = pr[1] /\ run' = pr[2]
    BY <1>1 DEF ReaderInv
  <1> QED
    BY <1>1, <1>3, <1>5, <1>6, <1>7 DEF ReaderInv

LEMMA PatchInv ==
  ASSUME ReaderInv, Patch
  PROVE  ReaderInv'
  <1>1. phase = "patch" /\ phase' = "patch" /\ UNCHANGED <<program, run>>
    BY DEF Patch
  <1>2. /\ IsProfile(graph, program, run)
        /\ \A c \in DOMAIN calls : calls[c] = dynamicRets(graph, c)
    BY <1>1 DEF ReaderInv
  <1>3. PICK f0 \in todo : \E C, t, g :
            /\ C = graph.pred[EntryOf(f0)] \ DOMAIN calls
            /\ g = [graph EXCEPT !.total = t]
            /\ graph' = AsCalls(g, C)
            /\ calls' = CallsWith(C)
            /\ todo' = todo \ {f0}
    BY DEF Patch
  <1>4. PICK C, t, g : /\ C = graph.pred[EntryOf(f0)] \ DOMAIN calls
                       /\ g = [graph EXCEPT !.total = t]
                       /\ graph' = AsCalls(g, C)
                       /\ calls' = CallsWith(C)
                       /\ todo' = todo \ {f0}
    BY <1>3
  <1>5. SameEdges(graph, graph')
    <2>1. SameEdges(graph, g)
      BY <1>4 DEF SameEdges
    <2> QED BY <1>4, <2>1, AsCallsSame, SameEdgesTwice
  <1>6. /\ IsProfile(graph, program, run)'
        /\ DOMAIN calls' = DOMAIN calls \cup C
        /\ \A c \in DOMAIN calls' : calls'[c] = dynamicRets(graph, c)'
    BY <1>1, <1>2, <1>4, <1>5, CallsWithIs
  <1>7. graph'.nodes = graph.nodes /\ graph'.pred = graph.pred
    BY <1>5 DEF SameEdges
  <1>8. ASSUME NEW f \in (Functions \ {Main})', EntryOf(f)' \in graph'.nodes
        PROVE  f \in todo' \/ graph'.pred[EntryOf(f)'] \subseteq DOMAIN calls'
    <2>1. f \in Functions \ {Main} /\ EntryOf(f)' = EntryOf(f)
      BY <1>1 DEF Functions, EntryOf, Main
    <2>2. f \in todo \/ graph.pred[EntryOf(f)] \subseteq DOMAIN calls
      BY <1>1, <1>7, <1>8, <2>1 DEF ReaderInv
    <2>3. CASE f = f0
      BY <1>4, <1>6, <1>7, <2>1, <2>3
    <2>4. CASE f # f0
      BY <1>4, <1>6, <1>7, <2>1, <2>2, <2>4
    <2> QED BY <2>3, <2>4
  <1>9. \E pr \in Profiled : program' = pr[1] /\ run' = pr[2]
    BY <1>1 DEF ReaderInv
  <1> QED
    BY <1>1, <1>6, <1>8, <1>9 DEF ReaderInv

\* When all is patched, every step that enters a function is a call edge, and
\* knows the edge on which the run returned from it.
LEMMA ReadIs ==
  ASSUME ReaderInv, phase = "patch", todo = {},
         NEW i \in 1 .. Len(run) - 1, NEW j \in 1 .. Len(run) - 1, i < j,
         Matches(program, run, i, j)
  PROVE  /\ <<run[i], run[i + 1]>> \in DOMAIN calls
         /\ \/ CallsOthers(program, run, i, j)
            \/ <<run[j], run[j + 1]>> \in calls[<<run[i], run[i + 1]>>]
  <1>1. IsProgram(program) /\ IsRun(program, run)
    <2>1. PICK pr \in Profiled : program = pr[1] /\ run = pr[2]
      BY DEF ReaderInv
    <2> QED BY <2>1, ProfiledAssumption
  <1>2. /\ run[i + 1] \in Starts(program)
        /\ run[j] \in program.rets
        /\ ~ CallsOthers(program, run, i, j) => program.func[run[j]] = program.func[run[i + 1]]
        /\ run[j + 1] \in program.succ[run[i]]
    BY <1>1, MatchIs
  <1>3. run \in Seq(DOMAIN program.func) /\ Len(run) \in Nat /\ i + 1 \in 1 .. Len(run)
    BY <1>1 DEF IsRun
  <1>4. run[i + 1] \in DOMAIN program.func /\ run[i + 1] \in Range(run)
    BY <1>3 DEF Range
  <1>5. PICK f \in DOMAIN program.entry : run[i + 1] = program.entry[f]
    BY <1>2 DEF Starts, Range
  <1>6. run[i + 1] # program.entry[Main]
    BY <1>1 DEF IsRun
  <1>7. f \in Functions \ {Main} /\ EntryOf(f) = run[i + 1]
    BY <1>5, <1>6 DEF Functions, EntryOf
  <1>8. IsProfile(graph, program, run)
    BY DEF ReaderInv
  <1>9. graph.pred[run[i + 1]] \subseteq DOMAIN calls
    <2>1. EntryOf(f) \in graph.nodes
      BY <1>4, <1>7, <1>8 DEF IsProfile
    <2> QED BY <1>7, <2>1 DEF ReaderInv
  <1>10. PICK c, d : c = <<run[i], run[i + 1]>> /\ d = <<run[j], run[j + 1]>>
    OBVIOUS
  <1>11. c \in Taken(run) /\ d \in Taken(run)
    BY <1>10 DEF Taken
  <1>12. c \in DOMAIN calls
    <2>1. c \in graph.pred[run[i + 1]]
      BY <1>4, <1>8, <1>10, <1>11 DEF IsProfile
    <2> QED BY <1>9, <2>1
  <1>13. ~ CallsOthers(program, run, i, j) => d \in dynamicRets(graph, c)
    <2>1. d \in graph.edges
      BY <1>8, <1>11 DEF IsProfile
    <2>2. d[1] = run[j] /\ d[2] = run[j + 1] /\ c[1] = run[i] /\ c[2] = run[i + 1]
      BY <1>10
    <2> QED BY <1>2, <2>1, <2>2 DEF dynamicRets, FuncOf
  <1>14. calls[c] = dynamicRets(graph, c)
    BY <1>12 DEF ReaderInv
  <1> QED
    BY <1>10, <1>12, <1>13, <1>14

LEMMA ReadCallGraphInv ==
  ASSUME ReaderInv, ReadCallGraph
  PROVE  /\ ReaderInv'
         /\ ReturnsFound'
  <1>1. /\ phase = "patch" /\ todo = {} /\ phase' = "callgraph"
        /\ UNCHANGED <<program, run, calls>>
    BY DEF ReadCallGraph
  <1>2. \A i, j \in 1 .. Len(run) - 1 :
            i < j /\ Matches(program, run, i, j) =>
                /\ <<run[i], run[i + 1]>> \in DOMAIN calls
                /\ \/ CallsOthers(program, run, i, j)
                   \/ <<run[j], run[j + 1]>> \in calls[<<run[i], run[i + 1]>>]
    BY <1>1, ReadIs
  <1>3. ReturnsFound'
    BY <1>1, <1>2 DEF ReturnsFound
  <1>4. \E pr \in Profiled : program' = pr[1] /\ run' = pr[2]
    BY <1>1 DEF ReaderInv
  <1> QED
    BY <1>1, <1>3, <1>4 DEF ReaderInv

\* Nothing that comes later is of the reader.
LEMMA LaterInv ==
  ASSUME ReaderInv, UNCHANGED <<program, run>>,
         phase' \notin {"branches", "calls", "patch", "callgraph"}
  PROVE  ReaderInv'
  BY DEF ReaderInv

LEMMA ReaderStep ==
  ASSUME ReaderInv, [Next]_vars
  PROVE  ReaderInv'
  <1>1. CASE ReaderNext
    BY <1>1, UpgradeBranchesInv, UpgradeCallInv, CallsDoneInv, PatchInv, ReadCallGraphInv
       DEF ReaderNext
  <1>2. CASE \/ StartInlining \/ ScheduleStep \/ Descend \/ DropCovered \/ Scheduled
             \/ NextEntry \/ InlineSite \/ CleanUp \/ InlineDone
    <2>1. UNCHANGED <<program, run>> /\ phase' \notin {"branches", "calls", "patch", "callgraph"}
      BY <1>2 DEF StartInlining, ScheduleStep, Schedule, Scheduling, Descend, DropCovered,
                  Scheduled, NextEntry, InlineSite, CleanUp, InlineDone
    <2> QED BY <2>1, LaterInv
  <1>3. CASE UNCHANGED vars
    <2>1. UNCHANGED <<program, run, phase, graph, calls, todo>>
      BY <1>3 DEF vars, readerVars
    <2>2. ASSUME NEW c PROVE dynamicRets(graph, c)' = dynamicRets(graph, c)
      BY <2>1 DEF dynamicRets, FuncOf
    <2> QED
      BY <2>1, <2>2 DEF ReaderInv, Functions, EntryOf
  <1> QED
    BY <1>1, <1>2, <1>3 DEF Next, Ended

\* ReturnsFound speaks of the call graph as it has just been read.
LEMMA ReturnsFoundStep ==
  ASSUME ReaderInv, ReturnsFound, [Next]_vars
  PROVE  ReturnsFound'
  <1>1. CASE ReadCallGraph
    BY <1>1, ReadCallGraphInv
  <1>2. CASE UNCHANGED vars
    BY <1>2 DEF ReturnsFound, vars, readerVars
  <1>3. CASE \/ UpgradeBranches \/ UpgradeCall \/ CallsDone \/ Patch
             \/ StartInlining \/ ScheduleStep \/ Descend \/ DropCovered \/ Scheduled
             \/ NextEntry \/ InlineSite \/ CleanUp \/ InlineDone
    <2>1. phase' # "callgraph"
      BY <1>3 DEF UpgradeBranches, UpgradeCall, CallsDone, Patch, StartInlining, ScheduleStep,
                  Schedule, Scheduling, Descend, DropCovered, Scheduled, NextEntry, InlineSite,
                  CleanUp, InlineDone
    <2> QED BY <2>1 DEF ReturnsFound
  <1> QED
    BY <1>1, <1>2, <1>3 DEF Next, ReaderNext, Ended

(***************************************************************************)
(* For every program and run of it: all steps into a function are call     *)
(* edges, and each knows the edge on which the run returned from it,       *)
(* however deep the recursion and whatever returns a function has          *)
(* (UpgradeEdges and PatchFunctionEdges, src/Graph/IO.cpp). Only where     *)
(* code that was not profiled called back another function after it        *)
(* (CallsOthers) nothing is said of the return: it may lead to no          *)
(* successor of the block that called.                                     *)
(***************************************************************************)
THEOREM ReturnsFoundAlways == Spec => []ReturnsFound
  <1>1. InlineInit => ReaderInv /\ ReturnsFound
    <2>1. InlineInit => phase = "branches"
      BY DEF InlineInit, Init
    <2> QED BY <2>1, InitReaderInv DEF ReturnsFound
  <1>2. ReaderInv /\ ReturnsFound /\ [Next]_vars => (ReaderInv /\ ReturnsFound)'
    BY ReaderStep, ReturnsFoundStep
  <1> QED
    BY <1>1, <1>2, PTL DEF Spec

-----------------------------------------------------------------------------
(* What is reached along edges *)

\* Of the numbers up to N all are in S, if 0 is and each comes with the one before.
LEMMA UpTo ==
  ASSUME NEW N \in Nat, NEW S, 0 \in S, \A n \in 1 .. N : n - 1 \in S => n \in S
  PROVE  \A n \in 0 .. N : n \in S
  <1>1. PICK T : T = {n \in 0 .. N : n \notin S}
    OBVIOUS
  <1>2. SUFFICES ASSUME T # {} PROVE FALSE
    BY <1>1
  <1>3. T \subseteq Nat
    BY <1>1
  <1>4. PICK n \in T : \A m \in T : n <= m
    BY <1>2, <1>3, LeastNat
  <1>5. n # 0 /\ n \in 1 .. N /\ n - 1 \in 0 .. N /\ ~ (n <= n - 1)
    BY <1>1
  <1> QED
    BY <1>1, <1>4, <1>5

\* The rounds of Reach.
Rounds(E, S, n, f) == f = [i \in 0 .. n |-> IF i = 0 THEN S ELSE Onward(E, f[i - 1])]

LEMMA RoundsExist ==
  ASSUME NEW E, NEW S, NEW n \in Nat
  PROVE  \E f : Rounds(E, S, n, f)
  <1>1. PICK T : T = {k \in 0 .. n : \E f : Rounds(E, S, k, f)}
    OBVIOUS
  <1>2. 0 \in T
    <2>1. PICK f : f = [i \in 0 .. 0 |-> S]
      OBVIOUS
    <2>2. Rounds(E, S, 0, f)
      BY <2>1 DEF Rounds
    <2> QED BY <1>1, <2>2
  <1>3. ASSUME NEW k \in 1 .. n, k - 1 \in T PROVE k \in T
    <2>1. PICK f : Rounds(E, S, k - 1, f)
      BY <1>1, <1>3
    <2>2. PICK last : last = Onward(E, f[k - 1])
      OBVIOUS
    <2>3. PICK h : h = [i \in 0 .. k |-> IF i = k THEN last ELSE f[i]]
      OBVIOUS
    <2>4. ASSUME NEW i \in 0 .. k
          PROVE  h[i] = IF i = 0 THEN S ELSE Onward(E, h[i - 1])
      <3>1. i # 0 => i - 1 \in 0 .. k - 1 /\ i - 1 \in 0 .. k /\ i - 1 # k
        OBVIOUS
      <3>2. CASE i = k
        BY <2>2, <2>3, <3>1, <3>2
      <3>3. CASE i # k
        <4>1. i \in 0 .. k - 1
          BY <3>3
        <4>2. f[i] = IF i = 0 THEN S ELSE Onward(E, f[i - 1])
          BY <2>1, <4>1 DEF Rounds
        <4>3. h[i] = f[i] /\ (i # 0 => h[i - 1] = f[i - 1])
          BY <2>3, <3>1, <3>3
        <4> QED BY <4>2, <4>3
      <3> QED BY <3>2, <3>3
    <2>5. PICK q : q = [i \in 0 .. k |-> IF i = 0 THEN S ELSE Onward(E, h[i - 1])]
      OBVIOUS
    <2>6. h = q
      BY <2>3, <2>4, <2>5
    <2>7. Rounds(E, S, k, h)
      BY <2>5, <2>6 DEF Rounds
    <2> QED BY <1>1, <2>7
  <1>4. \A k \in 0 .. n : k \in T
    BY <1>2, <1>3, UpTo
  <1> QED
    BY <1>1, <1>4

\* The ends of finitely many edges.
LEMMA SinksFinite ==
  ASSUME NEW E, IsFiniteSet(E)
  PROVE  IsFiniteSet({e[2] : e \in E}) /\ Cardinality({e[2] : e \in E}) \in Nat
  <1>1. PICK f : f = [e \in E |-> e[2]]
    OBVIOUS
  <1>2. f \in Surjection(E, {e[2] : e \in E})
    BY <1>1 DEF Surjection
  <1>3. IsFiniteSet({e[2] : e \in E})
    BY <1>2, FS_Surjection
  <1> QED
    BY <1>3, FS_CardinalityType

\* The n rounds f of Reach: as many as there are nodes that edges lead to.
ReachesBy(E, S, n, f) ==
    /\ n \in Nat /\ n = Cardinality({e[2] : e \in E})
    /\ f[0] = S /\ f[n] = Reach(E, S)
    /\ \A i \in 1 .. n : f[i] = Onward(E, f[i - 1])

LEMMA ReachIs ==
  ASSUME NEW E, NEW S, IsFiniteSet(E)
  PROVE  \E n, f : ReachesBy(E, S, n, f)
  <1>1. PICK n : n = Cardinality({e[2] : e \in E}) /\ n \in Nat
    BY SinksFinite
  <1>2. PICK f : f = CHOOSE g : g = [i \in 0 .. n |-> IF i = 0 THEN S ELSE Onward(E, g[i - 1])]
    OBVIOUS
  <1>3. \E g : g = [i \in 0 .. n |-> IF i = 0 THEN S ELSE Onward(E, g[i - 1])]
    <2>1. PICK g : Rounds(E, S, n, g)
      BY <1>1, RoundsExist
    <2> QED BY <2>1 DEF Rounds
  <1>4. f = [i \in 0 .. n |-> IF i = 0 THEN S ELSE Onward(E, f[i - 1])]
    BY <1>2, <1>3
  <1>5. Reach(E, S) = f[n]
    BY <1>1, <1>2 DEF Reach
  <1>6. f[0] = S
    BY <1>1, <1>4
  <1>7. ASSUME NEW i \in 1 .. n PROVE f[i] = Onward(E, f[i - 1])
    <2>1. i \in 0 .. n /\ i # 0
      BY <1>1
    <2> QED BY <1>4, <2>1
  <1> QED
    BY <1>1, <1>5, <1>6, <1>7 DEF ReachesBy

\* Edges do not lead out of C.
Closed(E, C) == \A e \in E : e[1] \in C => e[2] \in C


\* What is reached is in every set that has S and that no edge leads out of.
LEMMA ReachLeast ==
  ASSUME NEW E, NEW S, NEW C, IsFiniteSet(E), S \subseteq C, Closed(E, C)
  PROVE  Reach(E, S) \subseteq C
  <1>1. PICK n, f : ReachesBy(E, S, n, f)
    BY ReachIs
  <1>2. /\ n \in Nat /\ f[0] = S /\ f[n] = Reach(E, S)
        /\ \A i \in 1 .. n : f[i] = Onward(E, f[i - 1])
    BY <1>1 DEF ReachesBy
  <1>3. PICK T : T = {i \in 0 .. n : f[i] \subseteq C}
    OBVIOUS
  <1>4. 0 \in T
    BY <1>2, <1>3
  <1>5. ASSUME NEW i \in 1 .. n, i - 1 \in T PROVE i \in T
    <2>1. f[i - 1] \subseteq C
      BY <1>3, <1>5
    <2>2. f[i] \subseteq C
      BY <1>2, <2>1 DEF Onward, Closed
    <2> QED BY <1>2, <1>3, <2>2
  <1>6. n \in T
    <2>1. \A i \in 0 .. n : i \in T
      BY <1>2, <1>4, <1>5, UpTo
    <2> QED BY <1>2, <2>1
  <1> QED
    BY <1>2, <1>3, <1>6

\* As many rounds as there are nodes to reach are enough.
LEMMA ReachClosed ==
  ASSUME NEW E, NEW S, IsFiniteSet(E)
  PROVE  S \subseteq Reach(E, S) /\ Closed(E, Reach(E, S))
  <1>0. PICK n, f : ReachesBy(E, S, n, f)
    BY ReachIs
  <1>1. PICK sinks : sinks = {e[2] : e \in E} /\ n = Cardinality(sinks)
    BY <1>0 DEF ReachesBy
  <1>2. n \in Nat /\ IsFiniteSet(sinks)
    BY <1>0, <1>1, SinksFinite DEF ReachesBy
  <1>3. /\ f[0] = S /\ Reach(E, S) = f[n]
        /\ \A i \in 1 .. n : f[i] = Onward(E, f[i - 1])
    BY <1>0 DEF ReachesBy
  <1>4. PICK T : T = {i \in 0 .. n : /\ S \subseteq f[i] /\ f[i] \ S \subseteq sinks
                                     /\ Closed(E, f[i]) \/ Cardinality(f[i] \ S) >= i}
    OBVIOUS
  <1>5. 0 \in T
    <2>1. f[0] \ S = {}
      BY <1>3
    <2>2. Cardinality(f[0] \ S) = 0
      BY <2>1, FS_EmptySet
    <2> QED BY <1>2, <1>3, <1>4, <2>1, <2>2
  <1>6. ASSUME NEW i \in 1 .. n, i - 1 \in T PROVE i \in T
    <2>1. PICK old, new : old = f[i - 1] /\ new = f[i]
      OBVIOUS
    <2>2. /\ S \subseteq old /\ old \ S \subseteq sinks
          /\ Closed(E, old) \/ Cardinality(old \ S) >= i - 1
      BY <1>4, <1>6, <2>1
    <2>3. new = old \cup {e[2] : e \in {d \in E : d[1] \in old}}
      BY <1>3, <2>1 DEF Onward
    <2>4. S \subseteq new /\ new \ S \subseteq sinks
      BY <1>1, <2>2, <2>3
    <2>5. CASE Closed(E, old)
      <3>1. new = old
        BY <2>3, <2>5 DEF Closed
      <3>2. Closed(E, new)
        BY <2>5, <3>1
      <3> QED BY <1>2, <1>4, <2>1, <2>4, <3>2
    <2>6. CASE ~ Closed(E, old)
      <3>1. PICK e \in E : e[1] \in old /\ e[2] \notin old
        BY <2>6 DEF Closed
      <3>2. PICK A, B : A = old \ S /\ B = new \ S
        OBVIOUS
      <3>3. A \cup {e[2]} \subseteq B /\ e[2] \notin A
        BY <2>2, <2>3, <3>1, <3>2
      <3>4. IsFiniteSet(A) /\ IsFiniteSet(B)
        BY <1>2, <2>2, <2>4, <3>2, FS_Subset
      <3>5. Cardinality(A \cup {e[2]}) = Cardinality(A) + 1
        BY <3>3, <3>4, FS_AddElement
      <3>6. Cardinality(A \cup {e[2]}) <= Cardinality(B)
        BY <3>3, <3>4, FS_Subset
      <3>7. Cardinality(A) \in Nat /\ Cardinality(B) \in Nat
        BY <3>4, FS_CardinalityType
      <3>8. Cardinality(A) >= i - 1
        BY <2>2, <2>6, <3>2
      <3>9. Cardinality(B) >= i
        BY <1>2, <3>5, <3>6, <3>7, <3>8
      <3> QED BY <1>2, <1>4, <2>1, <2>4, <3>2, <3>9
    <2> QED BY <2>5, <2>6
  <1>7. n \in T
    <2>1. \A i \in 0 .. n : i \in T
      BY <1>2, <1>5, <1>6, UpTo
    <2> QED BY <1>2, <2>1
  <1>8. PICK R : R = f[n]
    OBVIOUS
  <1>9. S \subseteq R /\ R \ S \subseteq sinks /\ (Closed(E, R) \/ Cardinality(R \ S) >= n)
    BY <1>4, <1>7, <1>8
  <1>10. Closed(E, R)
    <2>1. CASE Cardinality(R \ S) >= n
      <3>1. /\ IsFiniteSet(R \ S) /\ Cardinality(R \ S) <= n
            /\ n = Cardinality(R \ S) => sinks = R \ S
        BY <1>1, <1>2, <1>9, FS_Subset
      <3>2. Cardinality(R \ S) \in Nat
        BY <3>1, FS_CardinalityType
      <3>3. sinks = R \ S
        BY <1>2, <2>1, <3>1, <3>2
      <3> QED BY <1>1, <3>3 DEF Closed
    <2> QED BY <1>9, <2>1
  <1> QED
    BY <1>3, <1>8, <1>9, <1>10

-----------------------------------------------------------------------------
(* The call graph *)

\* Main calls all functions in the end, and none calls main.
CallGraphIs ==
    /\ IsFiniteSet(CallEdges)
    /\ \A e \in CallEdges : e = <<e[1], e[2]>> /\ e[2] \in Live /\ e[2] # Main
    /\ Main \in Live
    /\ Live \subseteq Reach(CallEdges, {Main})

\* What f calls, directly or not, and not itself in between.
Callees(f) == Reach(Others, {e[2] : e \in {d \in Others : d[1] = f}})

LEMMA OthersFinite ==
  ASSUME CallGraphIs
  PROVE  /\ IsFiniteSet(Others) /\ Others \subseteq CallEdges
         /\ \A e \in Others : e[1] # e[2]
  <1>1. Others \subseteq CallEdges
    BY DEF Others
  <1> QED
    BY <1>1, FS_Subset DEF CallGraphIs, Others

LEMMA CalleesClosed ==
  ASSUME CallGraphIs, NEW f
  PROVE  /\ \A e \in Others : e[1] = f => e[2] \in Callees(f)
         /\ \A e \in Others : e[1] \in Callees(f) => e[2] \in Callees(f)
  <1>1. PICK S : S = {e[2] : e \in {d \in Others : d[1] = f}}
    OBVIOUS
  <1>2. S \subseteq Callees(f) /\ Closed(Others, Callees(f))
    BY <1>1, OthersFinite, ReachClosed DEF Callees
  <1> QED
    BY <1>1, <1>2 DEF Closed

LEMMA CalleesLeast ==
  ASSUME CallGraphIs, NEW f, NEW C, Closed(Others, C),
         \A e \in Others : e[1] = f => e[2] \in C
  PROVE  Callees(f) \subseteq C
  <1>1. PICK S : S = {e[2] : e \in {d \in Others : d[1] = f}}
    OBVIOUS
  <1>2. S \subseteq C
    BY <1>1
  <1> QED
    BY <1>1, <1>2, OthersFinite, ReachLeast DEF Callees

LEMMA CalleesIn ==
  ASSUME CallGraphIs, NEW f, NEW g \in Callees(f)
  PROVE  Callees(g) \subseteq Callees(f)
  <1>1. Closed(Others, Callees(f))
    BY CalleesClosed DEF Closed
  <1>2. \A e \in Others : e[1] = g => e[2] \in Callees(f)
    BY CalleesClosed
  <1> QED
    BY <1>1, <1>2, CalleesLeast

\* A function is recursive with others if it calls itself through them.
LEMMA IndirectIs ==
  ASSUME CallGraphIs, NEW f
  PROVE  Indirect(f) <=> f \in Callees(f)
  <1>1. PICK E, S : /\ E = {e \in CallEdges : e # <<f, f>>}
                    /\ S = {e[2] : e \in {d \in CallEdges : d[1] = f /\ d[2] # f}}
    OBVIOUS
  <1>2. Indirect(f) <=> f \in Reach(E, S)
    BY <1>1 DEF Indirect, hasIndirectRecursion
  <1>3. IsFiniteSet(E)
    BY <1>1, FS_Subset DEF CallGraphIs
  <1>4. Reach(E, S) \subseteq Callees(f)
    <2>1. S \subseteq Callees(f)
      BY <1>1, CalleesClosed DEF Others
    <2>2. Closed(E, Callees(f))
      BY <1>1, CalleesClosed DEF Closed, Others
    <2> QED BY <1>3, <2>1, <2>2, ReachLeast
  <1>5. Callees(f) \subseteq Reach(E, S)
    <2>1. S \subseteq Reach(E, S) /\ Closed(E, Reach(E, S))
      BY <1>3, ReachClosed
    <2>2. Others \subseteq E
      BY <1>1 DEF Others
    <2>3. Closed(Others, Reach(E, S))
      BY <2>1, <2>2 DEF Closed
    <2>4. \A e \in Others : e[1] = f => e[2] \in Reach(E, S)
      BY <1>1, <2>1 DEF Others
    <2> QED BY <2>3, <2>4, CalleesLeast
  <1> QED
    BY <1>2, <1>4, <1>5

\* The edges of cycles.
CycleEdges == {e \in Others : e[2] \in IndirectOnes}

LEMMA CycleIs ==
  ASSUME CallGraphIs, NEW f
  PROVE  /\ \A e \in CycleEdges : e[1] = f => e[2] \in getIndirectRecursionCycle(f)
         /\ \A e \in CycleEdges : e[1] \in getIndirectRecursionCycle(f)
                                      => e[2] \in getIndirectRecursionCycle(f)
         /\ \A C : /\ Closed(CycleEdges, C)
                   /\ \A e \in CycleEdges : e[1] = f => e[2] \in C
                   => getIndirectRecursionCycle(f) \subseteq C
  <1>1. PICK S : S = {e[2] : e \in {d \in CycleEdges : d[1] = f}}
    OBVIOUS
  <1>2. getIndirectRecursionCycle(f) = Reach(CycleEdges, S)
    BY <1>1 DEF getIndirectRecursionCycle, CycleEdges
  <1>3. IsFiniteSet(CycleEdges)
    <2>1. CycleEdges \subseteq Others
      BY DEF CycleEdges
    <2> QED BY <2>1, OthersFinite, FS_Subset
  <1>4. S \subseteq Reach(CycleEdges, S) /\ Closed(CycleEdges, Reach(CycleEdges, S))
    BY <1>3, ReachClosed
  <1>5. ASSUME NEW C, Closed(CycleEdges, C), \A e \in CycleEdges : e[1] = f => e[2] \in C
        PROVE  Reach(CycleEdges, S) \subseteq C
    <2>1. S \subseteq C
      BY <1>1, <1>5
    <2> QED BY <1>3, <1>5, <2>1, ReachLeast
  <1> QED
    BY <1>1, <1>2, <1>4, <1>5 DEF Closed

\* A cycle has functions that are recursive with others only.
LEMMA CycleIndirect ==
  ASSUME CallGraphIs, NEW f
  PROVE  getIndirectRecursionCycle(f) \subseteq IndirectOnes
  <1>1. Closed(CycleEdges, IndirectOnes) /\ \A e \in CycleEdges : e[2] \in IndirectOnes
    BY DEF Closed, CycleEdges
  <1> QED
    BY <1>1, CycleIs

LEMMA CycleIn ==
  ASSUME CallGraphIs, NEW f, NEW g \in getIndirectRecursionCycle(f)
  PROVE  getIndirectRecursionCycle(g) \subseteq getIndirectRecursionCycle(f)
  <1>1. PICK C : C = getIndirectRecursionCycle(f)
    OBVIOUS
  <1>2. Closed(CycleEdges, C) /\ \A e \in CycleEdges : e[1] = g => e[2] \in C
    BY <1>1, CycleIs DEF Closed
  <1> QED
    BY <1>1, <1>2, CycleIs

\* A function that is recursive with others is in its own cycle.
LEMMA InItsCycle ==
  ASSUME CallGraphIs, NEW f, Indirect(f)
  PROVE  f \in getIndirectRecursionCycle(f)
  <1>1. PICK C, R : C = getIndirectRecursionCycle(f) /\ R = Callees(f)
    OBVIOUS
  <1>2. f \in R
    BY <1>1, IndirectIs
  <1>3. PICK T : T = {x \in R : f \in Callees(x) \/ x = f => x \in C}
    OBVIOUS
  <1>4. ASSUME NEW x \in R, f \in Callees(x) \/ x = f PROVE Indirect(x)
    <2>1. CASE f \in Callees(x)
      <3>1. x \in Callees(x)
        BY <1>1, <2>1, CalleesIn
      <3> QED BY <3>1, IndirectIs
    <2> QED BY <1>4, <2>1
  <1>5. ASSUME NEW e \in Others, e[2] \in R, f \in Callees(e[2]) \/ e[2] = f
        PROVE  e \in CycleEdges
    <2>1. Indirect(e[2])
      BY <1>4, <1>5
    <2>2. e[2] \in Live
      BY OthersFinite DEF CallGraphIs
    <2> QED BY <2>1, <2>2 DEF CycleEdges, IndirectOnes
  <1>6. ASSUME NEW e \in Others, e[1] = f PROVE e[2] \in T
    <2>1. e[2] \in R
      BY <1>1, <1>6, CalleesClosed
    <2>2. f \in Callees(e[2]) \/ e[2] = f => e[2] \in C
      BY <1>1, <1>5, <1>6, <2>1, CycleIs
    <2> QED BY <1>3, <2>1, <2>2
  <1>7. ASSUME NEW e \in Others, e[1] \in T PROVE e[2] \in T
    <2>1. e[1] \in R /\ e[2] \in R
      BY <1>1, <1>3, <1>7, CalleesClosed
    <2>2. ASSUME f \in Callees(e[2]) \/ e[2] = f PROVE e[2] \in C
      <3>1. e[2] \in Callees(e[1])
        BY CalleesClosed
      <3>2. f \in Callees(e[1])
        BY <2>2, <3>1, CalleesIn
      <3>3. e[1] \in C
        BY <1>3, <1>7, <3>2
      <3>4. e \in CycleEdges
        BY <1>5, <2>1, <2>2
      <3> QED BY <1>1, <3>3, <3>4, CycleIs
    <2> QED BY <1>3, <2>1, <2>2
  <1>8. R \subseteq T
    <2>1. Closed(Others, T)
      BY <1>7 DEF Closed
    <2> QED BY <1>1, <1>6, <2>1, CalleesLeast
  <1> QED
    BY <1>1, <1>2, <1>3, <1>8

\* Functions in each other's cycles have the same calls from outside.
LEMMA SameCalls ==
  ASSUME CallGraphIs, NEW f, NEW g,
         f \in getIndirectRecursionCycle(g), g \in getIndirectRecursionCycle(f)
  PROVE  /\ Indirect(f) /\ Indirect(g) /\ f \in Live /\ g \in Live
         /\ CallsOf(f) = CallsOf(g)
  <1>1. getIndirectRecursionCycle(f) = getIndirectRecursionCycle(g)
    BY CycleIn
  <1>2. Indirect(f) /\ Indirect(g) /\ f \in Live /\ g \in Live
    BY CycleIndirect DEF IndirectOnes
  <1> QED
    BY <1>1, <1>2 DEF CallsOf

\* The functions of an inlined function's cycle are inlined with it.
LEMMA SameInlined ==
  ASSUME CallGraphIs, NEW f \in Inlinable, NEW g,
         f \in getIndirectRecursionCycle(g), g \in getIndirectRecursionCycle(f)
  PROVE  g \in Inlinable /\ CallsOf(g) = CallsOf(f)
  BY SameCalls DEF Inlinable

\* When all that a function k waits for is scheduled, so is all it leads to. (k waits
\* for what it calls, and of functions that are recursive together for those that
\* are called from outside.)
LEMMA AllBelow ==
  ASSUME CallGraphIs, NEW k, ~ Indirect(k), NEW Q,
         \A f \in FindEmbeddedFunctions(k) : f \in Inlinable => CallsOf(f) \in Q,
         NEW f \in Reach(CallEdges, {k}), f \in Inlinable, f # k
  PROVE  CallsOf(f) \in Q
  <1>1. PICK R, W : R = Reach(CallEdges, {k}) /\ W = FindEmbeddedFunctions(k)
    OBVIOUS
  <1>2. k \in R /\ \A e \in CallEdges : e[1] \in R => e[2] \in R
    BY <1>1, ReachClosed DEF CallGraphIs, Closed
  <1>3. \A v : v \in W <=> \E e \in Others : /\ e[1] \in R /\ e[2] = v
                                             /\ Indirect(v) => e \in CallsOf(v)
    BY <1>1 DEF FindEmbeddedFunctions
  <1>4. PICK T : T = {v \in R : v = k \/ \E g \in W : \/ v = g
                                                      \/ /\ v \in getIndirectRecursionCycle(g)
                                                         /\ g \in getIndirectRecursionCycle(v)}
    OBVIOUS
  <1>5. k \in T
    BY <1>2, <1>4
  <1>6. ASSUME NEW e \in CallEdges, e[1] \in T PROVE e[2] \in T
    <2>1. PICK u, v : u = e[1] /\ v = e[2]
      OBVIOUS
    <2>2. u \in R /\ v \in R
      BY <1>2, <1>4, <1>6, <2>1
    <2>3. CASE u = v
      BY <1>6, <2>1, <2>3
    <2>4. CASE u # v
      <3>1. e \in Others
        BY <2>1, <2>4 DEF Others
      <3>2. CASE ~ Indirect(v)
        <4>1. v \in W
          BY <1>3, <2>1, <2>2, <3>1, <3>2
        <4> QED BY <1>4, <2>1, <2>2, <4>1
      <3>3. CASE Indirect(v) /\ u \notin getIndirectRecursionCycle(v)
        <4>1. v \in getIndirectRecursionCycle(v)
          BY <3>3, InItsCycle
        <4>2. e \in CallsOf(v)
          BY <2>1, <3>3, <4>1 DEF CallsOf
        <4>3. v \in W
          BY <1>3, <2>1, <2>2, <3>1, <4>2
        <4> QED BY <1>4, <2>1, <2>2, <4>3
      <3>4. CASE Indirect(v) /\ u \in getIndirectRecursionCycle(v)
        <4>1. Indirect(u)
          BY <3>4, CycleIndirect DEF IndirectOnes
        <4>2. u # k
          BY <4>1
        <4>3. PICK g \in W : /\ u \in getIndirectRecursionCycle(g)
                             /\ g \in getIndirectRecursionCycle(u)
          <5>1. PICK g \in W : \/ u = g
                               \/ /\ u \in getIndirectRecursionCycle(g)
                                  /\ g \in getIndirectRecursionCycle(u)
            BY <1>4, <1>6, <2>1, <4>2
          <5>2. u \in getIndirectRecursionCycle(u)
            BY <4>1, InItsCycle
          <5> QED BY <5>1, <5>2
        <4>4. e \in CycleEdges
          <5>1. v \in IndirectOnes
            BY <2>1, <3>4 DEF CallGraphIs, IndirectOnes
          <5> QED BY <2>1, <3>1, <5>1 DEF CycleEdges
        <4>5. v \in getIndirectRecursionCycle(g)
          BY <2>1, <4>3, <4>4, CycleIs
        <4>6. g \in getIndirectRecursionCycle(v)
          BY <3>4, <4>3, CycleIn
        <4> QED BY <1>4, <2>1, <2>2, <4>5, <4>6
      <3> QED BY <3>2, <3>3, <3>4
    <2> QED BY <2>3, <2>4
  <1>7. R \subseteq T
    <2>1. Closed(CallEdges, T) /\ {k} \subseteq T
      BY <1>5, <1>6 DEF Closed
    <2> QED BY <1>1, <2>1, ReachLeast DEF CallGraphIs
  <1>8. PICK g \in W : \/ f = g
                       \/ /\ f \in getIndirectRecursionCycle(g)
                          /\ g \in getIndirectRecursionCycle(f)
    BY <1>1, <1>4, <1>7
  <1>9. g \in Inlinable /\ CallsOf(g) = CallsOf(f)
    BY <1>8, SameInlined
  <1> QED
    BY <1>1, <1>9

\* What a function in a cycle waits for.
LEMMA EmbeddedIs ==
  ASSUME CallGraphIs, NEW f, Indirect(f), NEW cycle, cycle = getIndirectRecursionCycle(f)
  PROVE  /\ \A e \in Others : e[2] \notin cycle /\ (e[1] \in cycle \/ e[1] \in FindEmbeddedFunctions(f))
                                  => e[2] \in FindEmbeddedFunctions(f)
         /\ \A C : (\A e \in Others : e[2] \notin cycle /\ (e[1] \in cycle \/ e[1] \in C)
                                          => e[2] \in C)
                   => FindEmbeddedFunctions(f) \subseteq C
  <1>1. PICK out, S : /\ out = {e \in Others : e[2] \notin cycle}
                      /\ S = {e[2] : e \in {d \in out : d[1] \in cycle}}
    OBVIOUS
  <1>2. FindEmbeddedFunctions(f) = Reach(out, S)
    BY <1>1 DEF FindEmbeddedFunctions
  <1>3. IsFiniteSet(out)
    BY <1>1, OthersFinite, FS_Subset
  <1>4. S \subseteq Reach(out, S) /\ Closed(out, Reach(out, S))
    BY <1>3, ReachClosed
  <1>5. ASSUME NEW C,
               \A e \in Others : e[2] \notin cycle /\ (e[1] \in cycle \/ e[1] \in C) => e[2] \in C
        PROVE  Reach(out, S) \subseteq C
    <2>1. S \subseteq C /\ Closed(out, C)
      BY <1>1, <1>5 DEF Closed
    <2> QED BY <1>3, <2>1, ReachLeast
  <1>6. \A e \in Others : e[2] \notin cycle /\ (e[1] \in cycle \/ e[1] \in Reach(out, S))
                              => e[2] \in Reach(out, S)
    BY <1>1, <1>4 DEF Closed
  <1> QED
    BY <1>2, <1>5, <1>6

\* When all that g waits for has been scheduled, and what that waits for, then
\* everything that the functions wait for that calls of g enter.
LEMMA ReadyIsReady ==
  ASSUME CallGraphIs, NEW g, NEW C, NEW Q, FindEmbeddedFunctions(g) \subseteq C,
         \A f \in C : FindEmbeddedFunctions(f) \subseteq C /\ (f \in Inlinable => CallsOf(f) \in Q),
         NEW e \in CallsOf(g), NEW f \in FindEmbeddedFunctions(e[2]), f \in Inlinable
  PROVE  CallsOf(f) \in Q
  <1>1. CASE ~ Indirect(g)
    <2>1. e[2] = g
      BY <1>1 DEF CallsOf
    <2> QED BY <2>1
  <1>2. CASE Indirect(g)
    <2>1. PICK z, cz, cg : z = e[2] /\ cz = getIndirectRecursionCycle(z)
                           /\ cg = getIndirectRecursionCycle(g)
      OBVIOUS
    <2>2. z \in cg
      BY <1>2, <2>1 DEF CallsOf
    <2>3. cz \subseteq cg /\ Indirect(z)
      BY <2>1, <2>2, CycleIn, CycleIndirect DEF IndirectOnes
    <2>4. FindEmbeddedFunctions(z) \subseteq cg \cup FindEmbeddedFunctions(g)
      <3>1. PICK Y : Y = cg \cup FindEmbeddedFunctions(g)
        OBVIOUS
      <3>2. ASSUME NEW d \in Others, d[2] \notin cz, d[1] \in cz \/ d[1] \in Y PROVE d[2] \in Y
        BY <1>2, <2>1, <2>3, <3>1, <3>2, EmbeddedIs
      <3> QED BY <2>1, <2>3, <3>1, <3>2, EmbeddedIs
    <2>5. PICK k \in FindEmbeddedFunctions(z) : ~ Indirect(k) /\ f \in Reach(CallEdges, {k})
      <3>1. PICK W : W = FindEmbeddedFunctions(z)
        OBVIOUS
      <3>2. PICK X : X = {v \in W : \E k \in W : ~ Indirect(k) /\ v \in Reach(CallEdges, {k})}
        OBVIOUS
      <3>3. ASSUME NEW d \in Others, d[2] \notin cz, d[1] \in cz \/ d[1] \in X PROVE d[2] \in X
        <4>1. d[2] \in W
          BY <2>1, <2>3, <3>1, <3>2, <3>3, EmbeddedIs
        <4>2. d \in CallEdges /\ d[2] \in Live
          BY OthersFinite DEF CallGraphIs
        <4>3. CASE ~ Indirect(d[2])
          <5>1. d[2] \in Reach(CallEdges, {d[2]})
            BY ReachClosed DEF CallGraphIs
          <5> QED BY <3>2, <4>1, <4>3, <5>1
        <4>4. CASE Indirect(d[2])
          <5>1. d \in CycleEdges
            BY <4>2, <4>4 DEF CycleEdges, IndirectOnes
          <5>2. d[1] \notin cz
            BY <2>1, <3>3, <5>1, CycleIs
          <5>3. PICK k \in W : ~ Indirect(k) /\ d[1] \in Reach(CallEdges, {k})
            BY <3>2, <3>3, <5>2
          <5>4. d[2] \in Reach(CallEdges, {k})
            BY <4>2, <5>3, ReachClosed DEF CallGraphIs, Closed
          <5> QED BY <3>2, <4>1, <5>3, <5>4
        <4> QED BY <4>3, <4>4
      <3>4. W \subseteq X
        BY <2>1, <2>3, <3>1, <3>3, EmbeddedIs
      <3> QED BY <2>1, <3>1, <3>2, <3>4
    <2>6. k \in C
      <3>1. k \notin cg
        BY <2>1, <2>5, CycleIndirect DEF IndirectOnes
      <3> QED BY <2>4, <2>5, <3>1
    <2>7. CASE f = k
      BY <2>6, <2>7
    <2>8. CASE f # k
      <3>1. \A h \in FindEmbeddedFunctions(k) : h \in Inlinable => CallsOf(h) \in Q
        BY <2>6
      <3> QED BY <2>5, <2>8, <3>1, AllBelow
    <2> QED BY <2>7, <2>8
  <1> QED
    BY <1>1, <1>2

-----------------------------------------------------------------------------
(* The call graph that is read *)

\* When all is patched, each step to the first block of a function is a call edge.
LEMMA EntriesCalled ==
  ASSUME ReaderInv, phase = "patch", todo = {},
         NEW i \in 1 .. Len(run) - 1, NEW f \in Functions, run[i + 1] = EntryOf(f)
  PROVE  /\ f # Main /\ <<run[i], run[i + 1]>> \in graph.pred[EntryOf(f)] \cap DOMAIN calls
  <1>1. IsProgram(program) /\ IsRun(program, run)
    <2>1. PICK pr \in Profiled : program = pr[1] /\ run = pr[2]
      BY DEF ReaderInv
    <2> QED BY <2>1, ProfiledAssumption
  <1>2. run \in Seq(DOMAIN program.func) /\ Len(run) \in Nat /\ i + 1 \in 1 .. Len(run)
    BY <1>1 DEF IsRun
  <1>3. run[i + 1] \in DOMAIN program.func /\ run[i + 1] \in Range(run)
    BY <1>2 DEF Range
  <1>4. run[i + 1] # program.entry[Main]
    BY <1>1 DEF IsRun
  <1>5. f \in Functions \ {Main}
    BY <1>4 DEF EntryOf
  <1>6. IsProfile(graph, program, run)
    BY DEF ReaderInv
  <1>7. graph.pred[EntryOf(f)] \subseteq DOMAIN calls
    <2>1. EntryOf(f) \in graph.nodes
      BY <1>3, <1>6 DEF IsProfile
    <2> QED BY <1>5, <2>1 DEF ReaderInv
  <1>8. <<run[i], run[i + 1]>> \in Taken(run)
    BY DEF Taken
  <1>9. <<run[i], run[i + 1]>> \in graph.pred[EntryOf(f)]
    BY <1>3, <1>6, <1>8 DEF IsProfile
  <1> QED
    BY <1>5, <1>7, <1>9

\* The edges of the call graph that is read.
ReadEdges == DOMAIN getDynamicCallGraph

LEMMA ReadEdgesAre ==
  ASSUME NEW f, NEW h
  PROVE  <<f, h>> \in ReadEdges <=> /\ f \in Functions /\ h \in Functions
                                    /\ StaticCalls(f, h) \cup OtherCalls(f, h) # {}
  <1>1. ReadEdges = {fh \in Functions \X Functions :
                        StaticCalls(fh[1], fh[2]) \cup OtherCalls(fh[1], fh[2]) # {}}
    BY DEF ReadEdges, getDynamicCallGraph
  <1> QED
    BY <1>1

\* Each stands for a step of the run to the first block of a function.
LEMMA ReadEdgesTaken ==
  ASSUME ReaderInv, phase = "patch", NEW e \in ReadEdges
  PROVE  /\ e = <<e[1], e[2]>> /\ e[2] \in Live /\ e[2] # Main
         /\ \E d \in Taken(run) : e = <<FuncOf(d[1]), FuncOf(d[2])>>
  <1>1. IsProgram(program) /\ IsRun(program, run)
    <2>1. PICK pr \in Profiled : program = pr[1] /\ run = pr[2]
      BY DEF ReaderInv
    <2> QED BY <2>1, ProfiledAssumption
  <1>2. PICK f \in Functions, h \in Functions : e = <<f, h>>
    BY DEF ReadEdges, getDynamicCallGraph
  <1>3. EntryOf(h) \in DOMAIN program.func /\ FuncOf(EntryOf(h)) = h
    BY <1>1 DEF IsProgram, EntryOf, FuncOf, Functions
  <1>4. IsProfile(graph, program, run)
    BY DEF ReaderInv
  <1>5. PICK d \in Taken(run) : FuncOf(d[1]) = f /\ d[2] = EntryOf(h)
    <2>1. PICK d \in StaticCalls(f, h) \cup OtherCalls(f, h) : TRUE
      BY <1>2, ReadEdgesAre
    <2>2. d \in Taken(run) /\ FuncOf(d[1]) = f /\ d[2] = EntryOf(h)
      BY <1>3, <1>4, <2>1 DEF StaticCalls, OtherCalls, IsProfile
    <2> QED BY <2>2
  <1>6. PICK i \in 1 .. Len(run) - 1 : d = <<run[i], run[i + 1]>>
    BY <1>5 DEF Taken
  <1>7. run \in Seq(DOMAIN program.func) /\ Len(run) \in Nat /\ i + 1 \in 1 .. Len(run)
    BY <1>1 DEF IsRun
  <1>8. run[i + 1] = EntryOf(h) /\ run[i + 1] \in Range(run)
    BY <1>5, <1>6, <1>7 DEF Range
  <1>9. h \in Live
    BY <1>8 DEF Live
  <1>10. h # Main
    BY <1>1, <1>8 DEF IsRun, EntryOf
  <1> QED
    BY <1>2, <1>3, <1>5, <1>9, <1>10

\* There are finitely many.
LEMMA ReadEdgesFinite ==
  ASSUME ReaderInv, phase = "patch"
  PROVE  IsFiniteSet(ReadEdges)
  <1>1. IsRun(program, run)
    <2>1. PICK pr \in Profiled : program = pr[1] /\ run = pr[2]
      BY DEF ReaderInv
    <2> QED BY <2>1, ProfiledAssumption
  <1>2. Len(run) \in Nat
    BY <1>1 DEF IsRun
  <1>3. PICK I : I = 1 .. Len(run) - 1
    OBVIOUS
  <1>4. IsFiniteSet(I)
    BY <1>2, <1>3, FS_Interval
  <1>5. PICK g, T : /\ g = [i \in I |-> <<FuncOf(run[i]), FuncOf(run[i + 1])>>]
                    /\ T = {g[i] : i \in I}
    OBVIOUS
  <1>6. IsFiniteSet(T)
    <2>1. g \in Surjection(I, T)
      BY <1>5 DEF Surjection
    <2> QED BY <1>4, <2>1, FS_Surjection
  <1>7. ASSUME NEW e \in ReadEdges PROVE e \in T
    <2>1. PICK d \in Taken(run) : e = <<FuncOf(d[1]), FuncOf(d[2])>>
      BY <1>7, ReadEdgesTaken
    <2>2. PICK i \in I : d = <<run[i], run[i + 1]>>
      BY <1>3, <2>1 DEF Taken
    <2>3. e = g[i]
      BY <1>5, <2>1, <2>2
    <2> QED BY <1>5, <2>3
  <1> QED
    BY <1>6, <1>7, FS_Subset

\* A run goes on from a block it has been at, to a successor of it or the first block
\* of a function.
LEMMA RunGoesOn ==
  ASSUME NEW p, NEW w, IsRun(p, w), NEW s \in 1 .. Len(w) - 1, w[s + 1] \notin Starts(p)
  PROVE  \E k \in 1 .. s : w[s + 1] \in p.succ[w[k]]
  <1>1. CASE w[s] \notin p.rets
    <2>1. s \in 1 .. s
      BY DEF IsRun
    <2>2. w[s + 1] \in p.succ[w[s]]
      BY <1>1 DEF IsRun
    <2> QED BY <2>1, <2>2
  <1>2. CASE w[s] \in p.rets
    <2>1. Returns(p, w, s)
      BY <1>2 DEF Returns
    <2>2. PICK R, m : R = {k \in 1 .. s - 1 : Running(p, w, k, s)} /\ m = Max(R)
      OBVIOUS
    <2>3. R # {} /\ w[s + 1] \in p.succ[w[m]]
      BY <2>1, <2>2 DEF IsRun
    <2>4. s \in Nat /\ R \subseteq 0 .. s
      BY <2>2 DEF IsRun
    <2>5. m \in R
      BY <2>2, <2>3, <2>4, MaxIs
    <2>6. m \in 1 .. s
      BY <2>2, <2>4, <2>5
    <2> QED BY <2>3, <2>6
  <1> QED
    BY <1>1, <1>2

\* Main leads to every function the run was in.
LEMMA LiveIsReached ==
  ASSUME ReaderInv, phase = "patch", todo = {}
  PROVE  Live \subseteq Reach(ReadEdges, {Main}) /\ Main \in Live
  <1>1. IsProgram(program) /\ IsRun(program, run)
    <2>1. PICK pr \in Profiled : program = pr[1] /\ run = pr[2]
      BY DEF ReaderInv
    <2> QED BY <2>1, ProfiledAssumption
  <1>2. /\ run \in Seq(DOMAIN program.func) /\ Len(run) \in Nat /\ 1 \in 1 .. Len(run)
        /\ run[1] = EntryOf(Main) /\ Main \in Functions
    BY <1>1 DEF IsRun, IsProgram, EntryOf, Functions
  <1>3. /\ \A f \in Functions : FuncOf(EntryOf(f)) = f
        /\ \A b \in DOMAIN program.func : \A c \in program.succ[b] : FuncOf(c) = FuncOf(b)
    BY <1>1 DEF IsProgram, EntryOf, FuncOf, Functions
  <1>4. PICK R : R = Reach(ReadEdges, {Main})
    OBVIOUS
  <1>5. Main \in R /\ \A e \in ReadEdges : e[1] \in R => e[2] \in R
    BY <1>4, ReadEdgesFinite, ReachClosed DEF Closed
  <1>6. PICK T : T = {i \in 1 .. Len(run) : FuncOf(run[i]) \notin R \cap Functions}
    OBVIOUS
  <1>7. T = {}
    <2>1. SUFFICES ASSUME T # {} PROVE FALSE
      OBVIOUS
    <2>2. T \subseteq Nat
      BY <1>6
    <2>3. PICK i \in T : \A j \in T : i <= j
      BY <2>1, <2>2, LeastNat
    <2>4. i # 1
      BY <1>2, <1>3, <1>5, <1>6
    <2>5. PICK s : s = i - 1
      OBVIOUS
    <2>6. s \in 1 .. Len(run) - 1 /\ s + 1 = i /\ i \in Nat
      BY <1>2, <1>6, <2>4, <2>5
    <2>7. \A k \in 1 .. s : FuncOf(run[k]) \in R \cap Functions /\ run[k] \in DOMAIN program.func
      <3>1. ASSUME NEW k \in 1 .. s PROVE k \in 1 .. Len(run) /\ ~ (i <= k)
        BY <1>2, <2>6
      <3> QED BY <1>2, <1>6, <2>3, <3>1
    <2>8. CASE run[i] \in Starts(program)
      <3>1. PICK h \in Functions : run[i] = EntryOf(h)
        BY <2>8 DEF Starts, Range, Functions, EntryOf
      <3>2. PICK f, e : f = FuncOf(run[s]) /\ e = <<run[s], run[s + 1]>>
        OBVIOUS
      <3>3. f \in R /\ f \in Functions
        BY <2>6, <2>7, <3>2
      <3>4. e \in graph.pred[EntryOf(h)] \cap DOMAIN calls
        BY <2>6, <3>1, <3>2, EntriesCalled
      <3>5. h \in R
        <4>1. CASE f = h
          BY <3>3, <4>1
        <4>2. CASE f # h
          <5>1. FuncOf(e[1]) = f
            BY <3>2
          <5>2. e \in OtherCalls(f, h)
            BY <3>4, <4>2, <5>1 DEF OtherCalls
          <5>3. <<f, h>> \in ReadEdges
            BY <3>1, <3>3, <5>2, ReadEdgesAre
          <5> QED BY <1>5, <3>3, <5>3
        <4> QED BY <4>1, <4>2
      <3>6. FuncOf(run[i]) = h
        BY <1>3, <3>1
      <3> QED BY <1>6, <2>3, <3>1, <3>5, <3>6
    <2>9. CASE run[i] \notin Starts(program)
      <3>1. PICK k \in 1 .. s : run[i] \in program.succ[run[k]]
        BY <1>1, <2>6, <2>9, RunGoesOn
      <3>2. FuncOf(run[i]) = FuncOf(run[k])
        BY <1>3, <2>7, <3>1
      <3> QED BY <1>6, <2>3, <2>7, <3>1, <3>2
    <2> QED BY <2>8, <2>9
  <1>8. ASSUME NEW f \in Live PROVE f \in R
    <2>1. f \in Functions /\ EntryOf(f) \in Range(run)
      BY <1>8 DEF Live
    <2>2. PICK i \in 1 .. Len(run) : EntryOf(f) = run[i]
      BY <1>2, <2>1 DEF Range
    <2>3. FuncOf(run[i]) \in R
      BY <1>6, <1>7
    <2> QED BY <1>3, <2>1, <2>2, <2>3
  <1>9. Main \in Live
    BY <1>2 DEF Live, Range
  <1> QED
    BY <1>4, <1>8, <1>9

\* What is read is a call graph.
LEMMA CallGraphRead ==
  ASSUME ReaderInv, ReadCallGraph
  PROVE  CallGraphIs'
  <1>1. /\ phase = "patch" /\ todo = {} /\ UNCHANGED <<program, run>>
        /\ callGraph' = getDynamicCallGraph
    BY DEF ReadCallGraph
  <1>2. CallEdges' = ReadEdges /\ Live' = Live
    BY <1>1 DEF CallEdges, ReadEdges, Live, Functions, EntryOf
  <1>3. IsFiniteSet(ReadEdges)
    BY <1>1, ReadEdgesFinite
  <1>4. \A e \in ReadEdges : e = <<e[1], e[2]>> /\ e[2] \in Live /\ e[2] # Main
    BY <1>1, ReadEdgesTaken
  <1>5. Live \subseteq Reach(ReadEdges, {Main}) /\ Main \in Live
    BY <1>1, LiveIsReached
  <1> QED
    BY <1>2, <1>3, <1>4, <1>5 DEF CallGraphIs

-----------------------------------------------------------------------------
(* The search of the call graph *)

\* What is inlined is called.
LEMMA InlinableCalled ==
  ASSUME NEW f \in Inlinable
  PROVE  CallsOf(f) # {}
  <1>1. SUFFICES ASSUME CallsOf(f) = {} PROVE FALSE
    OBVIOUS
  <1>2. Sites({}) = {}
    BY DEF Sites
  <1>3. Cardinality(Sites(CallsOf(f))) = 0
    BY <1>1, <1>2, FS_EmptySet
  <1> QED
    BY <1>3 DEF Inlinable

\* Functions that are inlined by the same entry, but for those that are recursive
\* together, are the same.
LEMMA OwnCalls ==
  ASSUME CallGraphIs, NEW g \in Inlinable, ~ Indirect(g), NEW h, CallsOf(h) = CallsOf(g)
  PROVE  h = g
  <1>1. PICK e \in CallsOf(g) : TRUE
    BY InlinableCalled
  <1>2. e[2] = g
    BY <1>1 DEF CallsOf
  <1>3. CASE Indirect(h)
    <2>1. e[2] \in getIndirectRecursionCycle(h)
      BY <1>1, <1>3 DEF CallsOf
    <2> QED BY <1>2, <2>1, CycleIndirect DEF IndirectOnes
  <1>4. CASE ~ Indirect(h)
    <2>1. e[2] = h
      BY <1>1, <1>4 DEF CallsOf
    <2> QED BY <1>2, <2>1
  <1> QED
    BY <1>3, <1>4

\* A function waits for functions the run was in.
LEMMA EmbeddedLive ==
  ASSUME CallGraphIs, NEW f
  PROVE  FindEmbeddedFunctions(f) \subseteq Live
  <1>1. \A e \in Others : e[2] \in Live
    BY OthersFinite DEF CallGraphIs
  <1>2. CASE Indirect(f)
    BY <1>1, <1>2, EmbeddedIs
  <1>3. CASE ~ Indirect(f)
    BY <1>1, <1>3 DEF FindEmbeddedFunctions
  <1> QED
    BY <1>2, <1>3

\* Main is not inlined, and not recursive.
LEMMA MainIsNot ==
  ASSUME CallGraphIs
  PROVE  ~ Indirect(Main) /\ Main \notin Inlinable
  <1>1. ~ Indirect(Main)
    <2>1. PICK C : C = {v \in IndirectOnes : v # Main}
      OBVIOUS
    <2>2. \A e \in CycleEdges : e[2] \in C
      BY <2>1, OthersFinite DEF CycleEdges, CallGraphIs
    <2>3. getIndirectRecursionCycle(Main) \subseteq C
      BY <2>2, CycleIs DEF Closed
    <2> QED BY <2>1, <2>3, InItsCycle
  <1>2. CallsOf(Main) = {}
    BY <1>1 DEF CallsOf, CallGraphIs
  <1> QED
    BY <1>1, <1>2, InlinableCalled

\* The order of what has been scheduled: entries are of functions that wait for
\* nothing, different from each other, and after those their functions wait for.
OrderIs(cov, order) ==
    /\ order \in Seq(SUBSET CallEdges)
    /\ \A i, j \in 1 .. Len(order) : order[i] = order[j] => i = j
    /\ \A i \in 1 .. Len(order) : \E g \in cov \cap Inlinable : order[i] = CallsOf(g)
    /\ \A i \in 1 .. Len(order) : \A e \in order[i] : \A f \in FindEmbeddedFunctions(e[2]) :
           f \in Inlinable => \E j \in 1 .. i - 1 : order[j] = CallsOf(f)

\* Main has not been given up, and functions that wait for nothing any more have the
\* same said of what they waited for, and their entries.
SearchIs(st, cov, order) ==
    /\ st \in Seq(Live) /\ Main \in Range(st) \cup cov
    /\ \A f \in cov : /\ FindEmbeddedFunctions(f) \subseteq cov
                      /\ f \in Inlinable => CallsOf(f) \in Range(order)
    /\ OrderIs(cov, order)

\* The last of a sequence and those before it are all it has.
LEMMA FrontAndLast ==
  ASSUME NEW S, NEW st \in Seq(S), st # <<>>
  PROVE  /\ Front(st) \in Seq(S) /\ Last(st) \in S
         /\ Range(st) \subseteq Range(Front(st)) \cup {Last(st)}
  <1>1. Len(st) \in Nat \ {0}
    OBVIOUS
  <1>2. Last(st) = st[Len(st)] /\ Last(st) \in S
    BY <1>1 DEF Last
  <1>3. /\ Front(st) \in Seq(S) /\ Len(Front(st)) = Len(st) - 1
        /\ \A i \in 1 .. Len(st) - 1 : Front(st)[i] = st[i]
    <2>1. PICK n, t : n = Len(st) - 1 /\ t = Front(st)
      OBVIOUS
    <2>2. n \in Nat /\ 1 \in Int /\ \A i \in 1 .. n : st[i] \in S
      BY <1>1, <2>1
    <2>3. t = SubSeq(st, 1, n)
      BY <2>1 DEF Front
    <2>4. /\ t \in Seq(S)
          /\ Len(t) = IF 1 <= n THEN n - 1 + 1 ELSE 0
          /\ \A i \in 1 .. n - 1 + 1 : t[i] = st[1 + i - 1]
      BY <2>2, <2>3, SubSeqProperties
    <2>5. Len(t) = n /\ \A i \in 1 .. n : i \in 1 .. n - 1 + 1 /\ 1 + i - 1 = i
      BY <2>2, <2>4
    <2> QED BY <2>1, <2>4, <2>5
  <1>4. ASSUME NEW x \in Range(st) PROVE x \in Range(Front(st)) \cup {Last(st)}
    <2>1. PICK i \in 1 .. Len(st) : x = st[i]
      BY DEF Range
    <2>2. CASE i = Len(st)
      BY <1>2, <2>1, <2>2
    <2>3. CASE i # Len(st)
      <3>1. i \in 1 .. Len(Front(st)) /\ Front(st)[i] = x
        BY <1>1, <1>3, <2>1, <2>3
      <3> QED BY <1>3, <3>1 DEF Range
    <2> QED BY <2>2, <2>3
  <1> QED
    BY <1>1, <1>2, <1>3, <1>4

\* A sequence that is one longer.
LEMMA AppendRange ==
  ASSUME NEW S, NEW st \in Seq(S), NEW x \in S
  PROVE  /\ st \o <<x>> \in Seq(S) /\ Append(st, x) = st \o <<x>>
         /\ Len(st \o <<x>>) = Len(st) + 1 /\ (st \o <<x>>)[Len(st) + 1] = x
         /\ \A i \in 1 .. Len(st) : (st \o <<x>>)[i] = st[i]
         /\ Range(st \o <<x>>) = Range(st) \cup {x}
  <1>1. PICK t : t = st \o <<x>>
    OBVIOUS
  <1>2. /\ t \in Seq(S) /\ Len(t) = Len(st) + 1 /\ t[Len(st) + 1] = x
        /\ \A i \in 1 .. Len(st) : t[i] = st[i]
    BY <1>1
  <1>3. Append(st, x) = t
    BY <1>1
  <1>4. Len(st) \in Nat
    OBVIOUS
  <1>5. Range(t) = Range(st) \cup {x}
    <2>1. ASSUME NEW y \in Range(t) PROVE y \in Range(st) \cup {x}
      <3>1. PICK i \in 1 .. Len(t) : y = t[i]
        BY <1>2 DEF Range
      <3>2. i \in 1 .. Len(st) \/ i = Len(st) + 1
        BY <1>2, <1>4
      <3> QED BY <1>2, <3>1, <3>2 DEF Range
    <2>2. ASSUME NEW y \in Range(st) \cup {x} PROVE y \in Range(t)
      <3>1. PICK i \in 1 .. Len(st) + 1 : y = t[i]
        <4>1. CASE y \in Range(st)
          <5>1. PICK i \in 1 .. Len(st) : y = st[i]
            BY <4>1 DEF Range
          <5>2. i \in 1 .. Len(st) + 1
            BY <1>4
          <5> QED BY <1>2, <5>1, <5>2
        <4>2. CASE y = x
          <5>1. Len(st) + 1 \in 1 .. Len(st) + 1
            BY <1>4
          <5> QED BY <1>2, <4>2, <5>1
        <4> QED BY <2>2, <4>1, <4>2
      <3> QED BY <1>2, <3>1 DEF Range
    <2> QED BY <2>1, <2>2
  <1> QED
    BY <1>1, <1>2, <1>3, <1>5

\* A function whose calls are not scheduled yet goes to the end of the order when all
\* it waits for is covered.
LEMMA OrderGrows ==
  ASSUME CallGraphIs, NEW st, NEW cov, NEW order, SearchIs(st, cov, order),
         NEW g \in Inlinable, g \notin cov, FindEmbeddedFunctions(g) \subseteq cov,
         ~ (Indirect(g) /\ CallsOf(g) \in Range(order))
  PROVE  /\ OrderIs(cov \cup {g}, order \o <<CallsOf(g)>>)
         /\ Range(order \o <<CallsOf(g)>>) = Range(order) \cup {CallsOf(g)}
  <1>1. PICK x, q, n : x = CallsOf(g) /\ q = order \o <<x>> /\ n = Len(order)
    OBVIOUS
  <1>2. OrderIs(cov, order)
    BY DEF SearchIs
  <1>3. order \in Seq(SUBSET CallEdges) /\ x \in SUBSET CallEdges
    BY <1>1, <1>2 DEF OrderIs, CallsOf
  <1>4. /\ q \in Seq(SUBSET CallEdges) /\ Len(q) = n + 1 /\ q[n + 1] = x /\ n \in Nat
        /\ \A i \in 1 .. n : q[i] = order[i]
        /\ Range(q) = Range(order) \cup {x}
    BY <1>1, <1>3, AppendRange
  <1>5. \A i \in 1 .. n : order[i] # x
    <2>1. SUFFICES ASSUME NEW i \in 1 .. n, order[i] = x PROVE FALSE
      OBVIOUS
    <2>2. PICK h \in cov \cap Inlinable : CallsOf(h) = x
      BY <1>1, <1>2, <2>1 DEF OrderIs
    <2>3. x \in Range(order)
      BY <1>1, <1>3, <2>1 DEF Range
    <2>4. h = g
      BY <1>1, <2>2, <2>3, OwnCalls
    <2> QED BY <2>2, <2>4
  <1>6. ASSUME NEW i \in 1 .. n + 1 PROVE i \in 1 .. n \/ i = n + 1
    BY <1>4
  <1>7. ASSUME NEW i \in 1 .. n + 1, NEW j \in 1 .. n + 1, q[i] = q[j] PROVE i = j
    <2>1. i \in 1 .. n /\ j \in 1 .. n => i = j
      BY <1>1, <1>2, <1>4, <1>7 DEF OrderIs
    <2>2. i \in 1 .. n => j # n + 1
      BY <1>4, <1>5, <1>7
    <2>3. j \in 1 .. n => i # n + 1
      BY <1>4, <1>5, <1>7
    <2> QED BY <1>6, <2>1, <2>2, <2>3
  <1>8. ASSUME NEW i \in 1 .. n + 1 PROVE \E h \in (cov \cup {g}) \cap Inlinable : q[i] = CallsOf(h)
    <2>1. CASE i \in 1 .. n
      BY <1>1, <1>2, <1>4, <2>1 DEF OrderIs
    <2>2. CASE i = n + 1
      BY <1>1, <1>4, <2>2
    <2> QED BY <1>6, <2>1, <2>2
  <1>9. ASSUME NEW i \in 1 .. n + 1, NEW e \in q[i], NEW f \in FindEmbeddedFunctions(e[2]),
               f \in Inlinable
        PROVE  \E j \in 1 .. i - 1 : q[j] = CallsOf(f)
    <2>1. CASE i \in 1 .. n
      <3>1. e \in order[i]
        BY <1>4, <1>9, <2>1
      <3>2. PICK j \in 1 .. i - 1 : order[j] = CallsOf(f)
        BY <1>1, <1>2, <1>9, <2>1, <3>1 DEF OrderIs
      <3>3. j \in 1 .. n
        BY <1>4, <2>1
      <3> QED BY <1>4, <3>2, <3>3
    <2>2. CASE i = n + 1
      <3>1. e \in CallsOf(g)
        BY <1>1, <1>4, <1>9, <2>2
      <3>2. \A h \in cov : /\ FindEmbeddedFunctions(h) \subseteq cov
                           /\ h \in Inlinable => CallsOf(h) \in Range(order)
        BY DEF SearchIs
      <3>3. CallsOf(f) \in Range(order)
        BY <1>9, <3>1, <3>2, ReadyIsReady
      <3>4. PICK j \in 1 .. n : order[j] = CallsOf(f)
        BY <1>1, <1>3, <3>3 DEF Range
      <3>5. j \in 1 .. i - 1
        BY <1>4, <2>2
      <3> QED BY <1>4, <3>4, <3>5
    <2> QED BY <1>6, <2>1, <2>2
  <1>10. OrderIs(cov \cup {g}, q)
    BY <1>4, <1>7, <1>8, <1>9 DEF OrderIs
  <1> QED
    BY <1>1, <1>4, <1>10

\* More may be covered.
LEMMA OrderStays ==
  ASSUME NEW cov, NEW more, NEW order, OrderIs(cov, order), cov \subseteq more
  PROVE  OrderIs(more, order)
  BY DEF OrderIs

\* The function at the back of the queue is scheduled.
LEMMA ScheduleIs ==
  ASSUME CallGraphIs, SearchIs(stack, covered, schedule), Schedule
  PROVE  SearchIs(stack', covered', schedule')
  <1>1. PICK g, x, st, cov, order :
            /\ g = Last(stack) /\ x = CallsOf(g)
            /\ st = stack' /\ cov = covered' /\ order = schedule'
    OBVIOUS
  <1>2. /\ stack # <<>> /\ g \notin covered /\ FindEmbeddedFunctions(g) \subseteq covered
        /\ cov = covered \cup {g} /\ order = schedule \o Entry(g)
        /\ st = IF g \in Inlinable THEN Front(stack) ELSE stack
    BY <1>1 DEF Schedule, Scheduling, Waiting
  <1>3. stack \in Seq(Live) /\ Main \in Range(stack) \cup covered
    BY DEF SearchIs
  <1>4. Front(stack) \in Seq(Live) /\ Range(stack) \subseteq Range(Front(stack)) \cup {g}
    BY <1>1, <1>2, <1>3, FrontAndLast
  <1>5. st \in Seq(Live) /\ Main \in Range(st) \cup cov
    BY <1>2, <1>3, <1>4
  <1>6. schedule \in Seq(SUBSET CallEdges)
    BY DEF SearchIs, OrderIs
  <1>7. /\ OrderIs(cov, order)
        /\ Range(schedule) \subseteq Range(order)
        /\ g \in Inlinable => x \in Range(order)
    <2>1. CASE g \in Inlinable /\ ~ (Indirect(g) /\ x \in Range(schedule))
      <3>1. order = schedule \o <<x>>
        BY <1>1, <1>2, <2>1 DEF Entry
      <3>2. /\ g \in Inlinable /\ g \notin covered /\ FindEmbeddedFunctions(g) \subseteq covered
            /\ ~ (Indirect(g) /\ CallsOf(g) \in Range(schedule))
        BY <1>1, <1>2, <2>1
      <3>3. /\ OrderIs(covered \cup {g}, schedule \o <<CallsOf(g)>>)
            /\ Range(schedule \o <<CallsOf(g)>>) = Range(schedule) \cup {CallsOf(g)}
        BY <3>2, OrderGrows
      <3> QED BY <1>1, <1>2, <3>1, <3>3
    <2>2. CASE ~ (g \in Inlinable /\ ~ (Indirect(g) /\ x \in Range(schedule)))
      <3>1. order = schedule \o <<>>
        BY <1>1, <1>2, <2>2 DEF Entry
      <3>2. order = schedule
        BY <1>6, <3>1
      <3>3. OrderIs(cov, order)
        BY <1>2, <3>2, OrderStays DEF SearchIs
      <3> QED BY <2>2, <3>2, <3>3
    <2> QED BY <2>1, <2>2
  <1>8. ASSUME NEW f \in cov
        PROVE  /\ FindEmbeddedFunctions(f) \subseteq cov
               /\ f \in Inlinable => CallsOf(f) \in Range(order)
    <2>1. CASE f \in covered
      BY <1>2, <1>7, <2>1 DEF SearchIs
    <2>2. CASE f = g
      BY <1>1, <1>2, <1>7, <2>2
    <2> QED BY <1>2, <2>1, <2>2
  <1>9. SearchIs(st, cov, order)
    BY <1>5, <1>7, <1>8 DEF SearchIs
  <1> QED
    BY <1>1, <1>9

\* One of those it waits for goes first.
LEMMA DescendIs ==
  ASSUME CallGraphIs, SearchIs(stack, covered, schedule), Descend
  PROVE  SearchIs(stack', covered', schedule')
  <1>1. PICK f \in FindEmbeddedFunctions(Last(stack)) : stack' = Append(stack, f)
    BY DEF Descend, Waiting
  <1>2. f \in Live
    BY <1>1, EmbeddedLive
  <1>3. stack \in Seq(Live) /\ Main \in Range(stack) \cup covered
    BY DEF SearchIs
  <1>4. stack' \in Seq(Live) /\ Main \in Range(stack') \cup covered
    <2>1. PICK t : t = stack \o <<f>>
      OBVIOUS
    <2>2. t \in Seq(Live) /\ Append(stack, f) = t /\ Range(t) = Range(stack) \cup {f}
      BY <1>2, <1>3, <2>1, AppendRange
    <2> QED BY <1>1, <1>3, <2>2
  <1> QED
    BY <1>4 DEF SearchIs, Descend

\* What is covered goes.
LEMMA DropIs ==
  ASSUME SearchIs(stack, covered, schedule), DropCovered
  PROVE  SearchIs(stack', covered', schedule')
  <1>1. /\ stack # <<>> /\ Last(stack) \in covered /\ stack' = Front(stack)
        /\ UNCHANGED <<covered, schedule>>
    BY DEF DropCovered, Scheduling
  <1>2. stack \in Seq(Live) /\ Main \in Range(stack) \cup covered
    BY DEF SearchIs
  <1>3. stack' \in Seq(Live) /\ Main \in Range(stack') \cup covered
    BY <1>1, <1>2, FrontAndLast
  <1> QED
    BY <1>1, <1>3 DEF SearchIs

\* It starts with main, that no other function calls.
LEMMA StartIs ==
  ASSUME CallGraphIs, StartInlining, phase' = "schedule", covered = {}, schedule = <<>>
  PROVE  SearchIs(stack', covered', schedule')
  <1>1. PICK f \in Live : MainNodes = {f} /\ stack' = <<f>>
    BY DEF StartInlining
  <1>2. Main \in MainNodes
    BY DEF MainNodes, CallGraphIs
  <1>3. stack' = <<Main>> /\ Main \in Live
    BY <1>1, <1>2
  <1>4. covered' = {} /\ schedule' = <<>>
    BY DEF StartInlining
  <1>5. <<Main>> \in Seq(Live) /\ Main \in Range(<<Main>>)
    <2>1. <<Main>> \in Seq(Live)
      BY <1>3
    <2>2. 1 \in DOMAIN <<Main>> /\ <<Main>>[1] = Main
      OBVIOUS
    <2> QED BY <2>1, <2>2 DEF Range
  <1>6. OrderIs({}, <<>>)
    BY DEF OrderIs
  <1> QED
    BY <1>3, <1>4, <1>5, <1>6 DEF SearchIs

\* When the queue is empty all that is inlined has been scheduled.
LEMMA SearchEnds ==
  ASSUME CallGraphIs, SearchIs(stack, covered, schedule), stack = <<>>
  PROVE  {CallsOf(f) : f \in Inlinable} = Range(schedule)
  <1>1. Main \in covered
    BY DEF SearchIs, Range
  <1>2. \A f \in covered : /\ FindEmbeddedFunctions(f) \subseteq covered
                           /\ f \in Inlinable => CallsOf(f) \in Range(schedule)
    BY DEF SearchIs
  <1>3. ~ Indirect(Main) /\ Main \notin Inlinable
    BY MainIsNot
  <1>4. ASSUME NEW f \in Inlinable PROVE CallsOf(f) \in Range(schedule)
    <2>1. f \in Reach(CallEdges, {Main})
      BY DEF Inlinable, CallGraphIs
    <2>2. \A g \in FindEmbeddedFunctions(Main) : g \in Inlinable => CallsOf(g) \in Range(schedule)
      BY <1>1, <1>2
    <2> QED BY <1>3, <2>1, <2>2, AllBelow
  <1>5. ASSUME NEW x \in Range(schedule) PROVE \E f \in Inlinable : x = CallsOf(f)
    <2>1. OrderIs(covered, schedule)
      BY DEF SearchIs
    <2>2. PICK i \in 1 .. Len(schedule) : x = schedule[i]
      BY <2>1 DEF Range, OrderIs
    <2> QED BY <2>1, <2>2 DEF OrderIs
  <1> QED
    BY <1>4, <1>5

(***************************************************************************)
(* The call graph is one while it is searched, and the search is one.      *)
(***************************************************************************)
ScheduleInv ==
    /\ phase \in {"branches", "calls", "patch", "callgraph"} => covered = {} /\ schedule = <<>>
    /\ phase \in {"callgraph", "schedule"} => CallGraphIs
    /\ phase = "schedule" => SearchIs(stack, covered, schedule)

\* All that is said of the call graph depends on it and the run alone.
LEMMA CallGraphStays ==
  ASSUME UNCHANGED <<program, run, callGraph>>
  PROVE  /\ CallGraphIs => CallGraphIs'
         /\ \A st, cov, order : SearchIs(st, cov, order) => SearchIs(st, cov, order)'
  <1>1. CallEdges' = CallEdges /\ Live' = Live
    BY DEF CallEdges, Live, Functions, EntryOf
  <1>2. Others' = Others
    BY <1>1 DEF Others
  <1>3. ASSUME NEW f PROVE Indirect(f)' = Indirect(f) /\ Direct(f)' = Direct(f)
    BY <1>1 DEF Indirect, Direct
  <1>4. IndirectOnes' = IndirectOnes
    BY <1>1, <1>3 DEF IndirectOnes
  <1>5. ASSUME NEW f PROVE getIndirectRecursionCycle(f)' = getIndirectRecursionCycle(f)
    BY <1>2, <1>4 DEF getIndirectRecursionCycle
  <1>6. ASSUME NEW f PROVE CallsOf(f)' = CallsOf(f)
    BY <1>1, <1>3, <1>5 DEF CallsOf
  <1>7. ASSUME NEW f PROVE FindEmbeddedFunctions(f)' = FindEmbeddedFunctions(f)
    BY <1>1, <1>2, <1>3, <1>5, <1>6 DEF FindEmbeddedFunctions
  <1>8. Inlinable' = Inlinable
    <2>1. ASSUME NEW E PROVE Sites(E)' = Sites(E)
      BY DEF Sites
    <2> QED BY <1>1, <1>6, <2>1 DEF Inlinable
  <1>9. ASSUME NEW cov, NEW order PROVE OrderIs(cov, order)' = OrderIs(cov, order)
    BY <1>1, <1>6, <1>7, <1>8 DEF OrderIs
  <1>10. ASSUME NEW st, NEW cov, NEW order, SearchIs(st, cov, order)
         PROVE  SearchIs(st, cov, order)'
    BY <1>1, <1>6, <1>7, <1>8, <1>9, <1>10 DEF SearchIs
  <1> QED
    BY <1>1, <1>10 DEF CallGraphIs

\* A step of the search goes on with it.
LEMMA SearchGoesOn ==
  ASSUME UNCHANGED <<program, run, phase, callGraph>>, ScheduleInv, phase = "schedule",
         SearchIs(stack', covered', schedule')
  PROVE  ScheduleInv'
  <1>1. PICK st, cov, order : st = stack' /\ cov = covered' /\ order = schedule'
    OBVIOUS
  <1>2. SearchIs(st, cov, order)
    BY <1>1
  <1>3. SearchIs(st, cov, order)'
    BY <1>2, CallGraphStays
  <1>4. CallGraphIs'
    BY CallGraphStays DEF ScheduleInv
  <1> QED
    BY <1>1, <1>3, <1>4 DEF ScheduleInv

LEMMA ScheduleStepInv ==
  ASSUME ReaderInv, ScheduleInv, [Next]_vars
  PROVE  ScheduleInv'
  <1>1. CASE ReaderNext /\ UNCHANGED inlineVars
    <2>1. phase \in {"branches", "calls", "patch"} /\ covered' = {} /\ schedule' = <<>>
      BY <1>1 DEF ReaderNext, UpgradeBranches, UpgradeCall, CallsDone, Patch, ReadCallGraph,
                  inlineVars, ScheduleInv
    <2>2. CASE ReadCallGraph
      <3>1. phase' = "callgraph"
        BY <2>2 DEF ReadCallGraph
      <3> QED BY <2>1, <2>2, <3>1, CallGraphRead DEF ScheduleInv
    <2>3. CASE ~ ReadCallGraph
      <3>1. phase' \in {"branches", "calls", "patch"}
        BY <1>1, <2>3 DEF ReaderNext, UpgradeBranches, UpgradeCall, CallsDone, Patch
      <3> QED BY <2>1, <3>1 DEF ScheduleInv
    <2> QED BY <2>2, <2>3
  <1>2. CASE StartInlining
    <2>1. /\ phase = "callgraph" /\ phase' \in {"schedule", "done"}
          /\ UNCHANGED <<program, run, callGraph, covered, schedule>>
      BY <1>2 DEF StartInlining
    <2>2. CallGraphIs /\ CallGraphIs' /\ covered = {} /\ schedule = <<>>
      BY <2>1, CallGraphStays DEF ScheduleInv
    <2>3. CASE phase' = "schedule"
      <3>1. SearchIs(stack', covered', schedule')
        BY <1>2, <2>2, <2>3, StartIs
      <3>2. PICK st, cov, order : st = stack' /\ cov = covered' /\ order = schedule'
        OBVIOUS
      <3>3. SearchIs(st, cov, order)'
        BY <2>1, <3>1, <3>2, CallGraphStays
      <3> QED BY <2>2, <2>3, <3>2, <3>3 DEF ScheduleInv
    <2>4. CASE phase' = "done"
      BY <2>4 DEF ScheduleInv
    <2> QED BY <2>1, <2>3, <2>4
  <1>3. CASE ScheduleStep \/ Descend \/ DropCovered
    <2>1. phase = "schedule" /\ UNCHANGED <<program, run, phase, callGraph>>
      BY <1>3 DEF ScheduleStep, Schedule, Descend, DropCovered, Scheduling
    <2>2. CallGraphIs /\ SearchIs(stack, covered, schedule)
      BY <2>1 DEF ScheduleInv
    <2>3. SearchIs(stack', covered', schedule')
      BY <1>3, <2>2, ScheduleIs, DescendIs, DropIs DEF ScheduleStep
    <2> QED BY <2>1, <2>3, SearchGoesOn
  <1>4. CASE Scheduled \/ NextEntry \/ InlineSite \/ CleanUp \/ InlineDone
    <2>1. phase' \in {"inline", "sites", "failed", "done"}
      BY <1>4 DEF Scheduled, NextEntry, InlineSite, CleanUp, InlineDone
    <2> QED BY <2>1 DEF ScheduleInv
  <1>5. CASE UNCHANGED vars
    <2>1. UNCHANGED <<program, run, phase, callGraph, stack, covered, schedule>>
      BY <1>5 DEF vars, readerVars, inlineVars
    <2>2. CallGraphIs => CallGraphIs'
      BY <2>1, CallGraphStays
    <2>3. CASE phase = "schedule"
      BY <2>1, <2>3, SearchGoesOn DEF ScheduleInv
    <2>4. CASE phase # "schedule"
      BY <2>1, <2>2, <2>4 DEF ScheduleInv
    <2> QED BY <2>3, <2>4
  <1> QED
    BY <1>1, <1>2, <1>3, <1>4, <1>5 DEF Next, Ended

(***************************************************************************)
(* For every program and run of it, also where library code calls back     *)
(* several functions: in whatever order the call graph is searched, a      *)
(* function is scheduled after all that is to be inlined before it, and in *)
(* the end everything that is inlined has been, once. (The debug checks of *)
(* ScheduleInlineTransforms, src/Graph/Transforms.cpp.)                    *)
(***************************************************************************)
THEOREM ScheduleAlwaysSound == Spec => []ScheduleSound
  <1>1. InlineInit => ReaderInv /\ ScheduleInv
    <2>1. InlineInit => phase = "branches" /\ covered = {} /\ schedule = <<>>
      BY DEF InlineInit, Init
    <2> QED BY <2>1, InitReaderInv DEF ScheduleInv
  <1>2. ReaderInv /\ ScheduleInv /\ [Next]_vars => (ReaderInv /\ ScheduleInv)'
    BY ReaderStep, ScheduleStepInv
  <1>3. ScheduleInv => ScheduleSound
    <2>1. SUFFICES ASSUME ScheduleInv, phase = "schedule" PROVE ScheduleSound
      BY DEF ScheduleSound
    <2>2. CallGraphIs /\ SearchIs(stack, covered, schedule) /\ OrderIs(covered, schedule)
      BY <2>1 DEF ScheduleInv, SearchIs
    <2>3. DOMAIN schedule = 1 .. Len(schedule)
      BY <2>2 DEF OrderIs
    <2>4. IsInjective(schedule)
      BY <2>2, <2>3 DEF IsInjective, OrderIs
    <2>5. \A i \in DOMAIN schedule : \A e \in schedule[i] :
              \A f \in FindEmbeddedFunctions(e[2]) :
                  f \in Inlinable => \E j \in 1 .. i - 1 : schedule[j] = CallsOf(f)
      BY <2>2, <2>3 DEF OrderIs
    <2>6. stack = <<>> => {CallsOf(f) : f \in Inlinable} = Range(schedule)
      BY <2>2, SearchEnds
    <2> QED BY <2>4, <2>5, <2>6 DEF ScheduleSound
  <1> QED
    BY <1>1, <1>2, <1>3, PTL DEF Spec
===============================================================================
