-------------------------- MODULE MemoryEpochsProofs --------------------------
(***************************************************************************)
(* Theorems about the memory backend for every program, kernel file and    *)
(* number of accesses, and first about memory tuples of any base and       *)
(* offset, where the bytes a new offset spans are assumed to fit uint32_t. *)
(* One of those about the backend states what it needs:                    *)
(*                                                                         *)
(*   ShortRuns(Touchable)  no run of bytes the program may touch is as     *)
(*                         long as an offset counts                        *)
(***************************************************************************)
EXTENDS MemoryEpochs, FiniteSetTheorems, WellFoundedInduction, TLAPS

-----------------------------------------------------------------------------
(* Memory tuples and sets of them *)

USE OffsetAssumption

Overlap(lhs, rhs) == Bytes(lhs) \cap Bytes(rhs) # {}

\* An offset that fits is stored as it is.
LEMMA OffsetFits == \A n \in 0..(OFFSET_SPAN - 1) : Offset32(n) = n
  BY DEF Offset32

\* Tuples overlap where one's base is inside the other.
LEMMA OverlapAtBase ==
  ASSUME NEW lhs \in MemTuple, NEW rhs \in MemTuple
  PROVE  Overlap(lhs, rhs) <=> rhs.base \in Bytes(lhs) \/ lhs.base \in Bytes(rhs)
  BY DEF Overlap, Bytes, LastByte, MemTuple

-----------------------------------------------------------------------------
(* The order *)

\* The set takes two tuples for equal exactly if they have a byte in common
\* (MemoryTuple.hpp:61-92): so looking a tuple up finds what it overlaps.
THEOREM EqualIsOverlap ==
  ASSUME NEW lhs \in MemTuple, NEW rhs \in MemTuple
  PROVE  Equivalent(lhs, rhs) <=> Overlap(lhs, rhs)
  BY DEF Equivalent, MTCompare, Overlap, Bytes, LastByte, MemTuple

\* On tuples that do not overlap the order is strict and total, as std::set
\* asks; of overlapping ones "equal" is not even transitive.
THEOREM OrderOfDisjoint ==
  ASSUME NEW array, array \subseteq MemTuple, Disjoint(array)
  PROVE  /\ \A t \in array : ~MTCompare(t, t)
         /\ \A s, t \in array : s # t => (MTCompare(s, t) <=> ~MTCompare(t, s))
         /\ \A s, t, u \in array : MTCompare(s, t) /\ MTCompare(t, u) => MTCompare(s, u)
  <1>1. ASSUME NEW s \in array, NEW t \in array, s # t
        PROVE  MTCompare(s, t) <=> ~MTCompare(t, s)
    <2>1. ~Equivalent(s, t)
      BY <1>1, EqualIsOverlap DEF Disjoint, Overlap
    <2> QED
      BY <2>1 DEF Equivalent, MTCompare, LastByte, MemTuple
  <1>2. \A t \in array : ~MTCompare(t, t)
    BY DEF MTCompare, MemTuple
  <1>3. \A s, t, u \in array : MTCompare(s, t) /\ MTCompare(t, u) => MTCompare(s, u)
    BY DEF MTCompare, LastByte, MemTuple
  <1> QED
    BY <1>1, <1>2, <1>3

-----------------------------------------------------------------------------
(* Merging, overlap and exclusion *)

\* Merging two tuples that overlap neither loses a byte nor adds one
\* (MemoryTuple.hpp:175-226).
THEOREM MergeIsUnion ==
  ASSUME NEW lhs \in MemTuple, NEW rhs \in MemTuple, Overlap(lhs, rhs),
         GreaterLast(lhs, rhs) - LesserBase(lhs, rhs) < OFFSET_SPAN
  PROVE  /\ merge_tuples(lhs, rhs) \in MemTuple
         /\ Bytes(merge_tuples(lhs, rhs)) = Bytes(lhs) \cup Bytes(rhs)
  <1> DEFINE m == merge_tuples(lhs, rhs)
             low == LesserBase(lhs, rhs)
             high == GreaterLast(lhs, rhs)
  <1>1. low \in Nat /\ high \in Nat /\ low <= high
    BY DEF LesserBase, GreaterLast, LastByte, MemTuple
  <1>2. Offset32(high - low) = high - low
    BY <1>1, OffsetFits
  <1>3. m.base = low /\ m.offset = high - low
    BY <1>2 DEF merge_tuples
  <1>4. Bytes(m) = low..high
    BY <1>1, <1>3 DEF Bytes, LastByte
  <1>5. low..high = Bytes(lhs) \cup Bytes(rhs)
    BY OverlapAtBase DEF LesserBase, GreaterLast, Bytes, LastByte, MemTuple
  <1>6. m \in MemTuple
    BY <1>1, <1>2 DEF merge_tuples, MemTuple
  <1> QED
    BY <1>4, <1>5, <1>6

\* The overlap is the intersection, and has base 0 if there is none
\* (MemoryTuple.hpp:235-258).
THEOREM OverlapIsIntersection ==
  ASSUME NEW lhs \in MemTuple, NEW rhs \in MemTuple, lhs.base > 0, rhs.base > 0,
         lhs.offset < OFFSET_SPAN
  PROVE  LET o == mem_tuple_overlap(lhs, rhs) IN
         /\ o \in MemTuple
         /\ Overlap(lhs, rhs) => o.base > 0 /\ Bytes(o) = Bytes(lhs) \cap Bytes(rhs)
         /\ ~Overlap(lhs, rhs) => o.base = 0 /\ LastByte(o) = 0
  <1> DEFINE o == mem_tuple_overlap(lhs, rhs)
             low == OverlapBase(lhs, rhs)
             high == LesserLast(lhs, rhs)
  <1> HIDE DEF o, low, high
  <1>1. o.base = low /\ o.offset = IF low = 0 THEN 0 ELSE Offset32(high - low)
    BY DEF o, low, high, mem_tuple_overlap
  <1>2. CASE Overlap(lhs, rhs)
    <2>1. low \in Nat /\ high \in Nat /\ low > 0 /\ low <= high /\ high - low < OFFSET_SPAN
      BY <1>2, OverlapAtBase DEF low, high, OverlapBase, LesserLast, Bytes, LastByte, MemTuple
    <2>2. o.offset = high - low
      BY <1>1, <2>1, OffsetFits
    <2>3. Bytes(o) = low..high
      BY <1>1, <2>1, <2>2 DEF Bytes, LastByte
    <2>4. low..high = Bytes(lhs) \cap Bytes(rhs)
      BY <1>2, OverlapAtBase DEF low, high, OverlapBase, LesserLast, Bytes, LastByte, MemTuple
    <2>5. o \in MemTuple
      BY <1>1, <2>1, <2>2 DEF o, low, mem_tuple_overlap, MemTuple, __TA_MemType, __TA_TemporalAccess
    <2> QED
      BY <1>1, <1>2, <2>1, <2>3, <2>4, <2>5 DEF o
  <1>3. CASE ~Overlap(lhs, rhs)
    <2>1. low = 0
      BY <1>3, OverlapAtBase DEF low, OverlapBase
    <2>2. o.base = 0 /\ o.offset = 0 /\ o \in MemTuple
      BY <1>1, <2>1 DEF o, low, mem_tuple_overlap, MemTuple, __TA_MemType, __TA_TemporalAccess
    <2> QED
      BY <1>3, <2>2 DEF o, LastByte
  <1> QED
    BY <1>2, <1>3

\* The exclusion gives tuples of lhs without a byte of rhs, and all there are if
\* rhs does not lie strictly inside lhs: what is to the right of it is then lost
\* (MemoryTuple.hpp:266-330).
THEOREM ExclusionIsOutside ==
  ASSUME NEW lhs \in MemTuple, NEW rhs \in MemTuple, lhs.base > 0, rhs.base > 0,
         lhs.offset < OFFSET_SPAN
  PROVE  LET parts == mem_tuple_exclusion(lhs, rhs) IN
         /\ parts \subseteq MemTuple /\ Disjoint(parts)
         /\ AllBytes(parts) \subseteq Bytes(lhs) \ Bytes(rhs)
         /\ rhs.base <= lhs.base \/ LastByte(lhs) <= LastByte(rhs)
              => AllBytes(parts) = Bytes(lhs) \ Bytes(rhs)
  <1> DEFINE o == mem_tuple_overlap(lhs, rhs)
             parts == mem_tuple_exclusion(lhs, rhs)
             left == LeftPart(lhs, o)
             right == RightPart(lhs, rhs, o)
  <1>1. /\ o \in MemTuple
        /\ Overlap(lhs, rhs) => o.base > 0 /\ Bytes(o) = Bytes(lhs) \cap Bytes(rhs)
        /\ ~Overlap(lhs, rhs) => o.base = 0 /\ LastByte(o) = 0
    BY OverlapIsIntersection
  <1> HIDE DEF o
  <1>2. parts = IF LastByte(o) = 0 THEN {lhs}
                ELSE IF o.base <= lhs.base /\ LastByte(lhs) <= LastByte(o) THEN {}
                ELSE IF lhs.base < o.base THEN {left} ELSE {right}
    BY DEF o, mem_tuple_exclusion
  <1> DEFINE Outside(set) ==
               /\ set \subseteq MemTuple /\ Disjoint(set)
               /\ AllBytes(set) \subseteq Bytes(lhs) \ Bytes(rhs)
               /\ rhs.base <= lhs.base \/ LastByte(lhs) <= LastByte(rhs)
                    => AllBytes(set) = Bytes(lhs) \ Bytes(rhs)
  <1> SUFFICES Outside(parts)
    OBVIOUS
  <1> HIDE DEF parts
  <1>3. \A t : AllBytes({t}) = Bytes(t) /\ Disjoint({t})
    BY DEF AllBytes, Disjoint
  <1>4. AllBytes({}) = {} /\ Disjoint({})
    BY DEF AllBytes, Disjoint
  <1>5. CASE ~Overlap(lhs, rhs)
    <2>1. parts = {lhs} /\ Bytes(lhs) \ Bytes(rhs) = Bytes(lhs)
      BY <1>1, <1>2, <1>5 DEF Overlap
    <2> QED
      BY <1>3, <2>1
  <1>6. CASE Overlap(lhs, rhs)
    <2>1. /\ o.base \in Nat /\ o.offset \in Nat /\ o.base > 0
          /\ o.base = IF lhs.base < rhs.base THEN rhs.base ELSE lhs.base
          /\ LastByte(o) = LesserLast(lhs, rhs)
      <3>1. Bytes(o) = Bytes(lhs) \cap Bytes(rhs) /\ o.base > 0
        BY <1>1, <1>6
      <3>2. o.base \in Bytes(o) /\ LastByte(o) \in Bytes(o)
        BY <1>1 DEF Bytes, LastByte, MemTuple
      <3> QED
        BY <1>1, <1>6, <3>1, <3>2, OverlapAtBase DEF LesserLast, Bytes, LastByte, MemTuple
    <2>2. CASE o.base <= lhs.base /\ LastByte(lhs) <= LastByte(o)
      <3>1. parts = {}
        BY <1>2, <2>1, <2>2 DEF LastByte
      <3>2. Bytes(lhs) \ Bytes(rhs) = {}
        BY <2>1, <2>2 DEF LesserLast, Bytes, LastByte, MemTuple
      <3> QED
        BY <1>4, <3>1, <3>2
    <2>3. CASE lhs.base < o.base
      <3>1. parts = {left}
        BY <1>2, <2>1, <2>3 DEF LastByte, MemTuple
      <3>2. Offset32(o.base - lhs.base - 1) = o.base - lhs.base - 1
        <4>1. o.base - lhs.base - 1 \in 0..(OFFSET_SPAN - 1)
          BY <1>6, <2>1, <2>3, OverlapAtBase DEF LesserLast, Bytes, LastByte, MemTuple
        <4> QED
          BY <4>1, OffsetFits
      <3>3. left \in MemTuple /\ Bytes(left) = lhs.base .. (o.base - 1)
        BY <2>1, <2>3, <3>2 DEF LeftPart, Bytes, LastByte, MemTuple
      <3>4. o.base = rhs.base /\ rhs.base \in Bytes(lhs)
        BY <1>6, <2>1, <2>3, OverlapAtBase DEF Bytes, LastByte, MemTuple
      <3>5. Bytes(left) \subseteq Bytes(lhs) \ Bytes(rhs)
        BY <3>3, <3>4 DEF Bytes, LastByte, MemTuple
      <3>6. LastByte(lhs) <= LastByte(rhs) => Bytes(left) = Bytes(lhs) \ Bytes(rhs)
        BY <3>3, <3>4 DEF Bytes, LastByte, MemTuple
      <3>7. ~(rhs.base <= lhs.base)
        BY <2>3, <3>4 DEF MemTuple
      <3> QED
        BY <1>3, <3>1, <3>3, <3>5, <3>6, <3>7
    <2>4. CASE lhs.base = o.base /\ LastByte(o) < LastByte(lhs)
      <3>1. parts = {right}
        BY <1>2, <2>1, <2>4 DEF LastByte, MemTuple
      <3>2. Offset32(LastByte(lhs) - (LastByte(o) + 1)) = LastByte(lhs) - (LastByte(o) + 1)
        <4>1. LastByte(lhs) - (LastByte(o) + 1) \in 0..(OFFSET_SPAN - 1)
          BY <2>1, <2>4 DEF LastByte, MemTuple
        <4> QED
          BY <4>1, OffsetFits
      <3>3. right \in MemTuple /\ Bytes(right) = (LastByte(o) + 1) .. LastByte(lhs)
        BY <2>1, <2>4, <3>2 DEF RightPart, Bytes, LastByte, MemTuple
      <3>4. rhs.base <= lhs.base /\ LastByte(o) = LastByte(rhs)
        BY <2>1, <2>4 DEF LesserLast, LastByte, MemTuple
      <3>5. Bytes(lhs) \ Bytes(rhs) = (LastByte(rhs) + 1) .. LastByte(lhs)
        BY <1>6, <3>4, OverlapAtBase DEF Bytes, LastByte, MemTuple
      <3>6. Bytes(right) = Bytes(lhs) \ Bytes(rhs)
        BY <3>3, <3>4, <3>5
      <3> QED
        BY <1>3, <3>1, <3>3, <3>6
    <2> QED
      BY <2>1, <2>2, <2>3, <2>4 DEF LesserLast, LastByte, MemTuple
  <1> QED
    BY <1>5, <1>6
-----------------------------------------------------------------------------
(* Induction and recursion over the natural numbers *)

LEMMA LeastNat ==
  ASSUME NEW T, T \subseteq Nat, T # {}
  PROVE  \E n \in T : \A m \in T : n <= m
  <1>1. \E n \in T : \A m \in T : ~ (<<m, n>> \in OpToRel(<, Nat))
    BY NatLessThanWellFounded, WFMin, Zenon
  <1>2. PICK n \in T : \A m \in T : ~ (<<m, n>> \in OpToRel(<, Nat))
    BY <1>1, Zenon
  <1>3. ASSUME NEW m \in T PROVE n <= m
    <2>1. ~ (<<m, n>> \in OpToRel(<, Nat))
      BY <1>2, Zenon
    <2>2. m \in Nat /\ n \in Nat
      OBVIOUS
    <2>3. ~(m < n)
      BY <2>1, <2>2 DEF OpToRel
    <2> QED BY <2>2, <2>3
  <1> QED
    BY <1>3

\* Induction up to N, with a set in place of a predicate.
LEMMA UpTo ==
  ASSUME NEW N \in Nat, NEW S, 0 \in S, \A n \in 1..N : n - 1 \in S => n \in S
  PROVE  \A n \in 0..N : n \in S
  <1>1. PICK T : T = {n \in 0..N : n \notin S}
    OBVIOUS
  <1>2. SUFFICES ASSUME T # {} PROVE FALSE
    BY <1>1
  <1>3. T \subseteq Nat
    BY <1>1
  <1>4. PICK n \in T : \A m \in T : n <= m
    BY <1>2, <1>3, LeastNat
  <1>5. n # 0 /\ n \in 1..N /\ n - 1 \in 0..N /\ ~(n <= n - 1)
    BY <1>1
  <1>6. n - 1 \in S
    BY <1>1, <1>4, <1>5
  <1> QED
    BY <1>1, <1>5, <1>6

Iterates(g, S, x, N, f) ==
  g \in [0..N -> S] /\ g[0] = x /\ \A n \in 1..N : g[n - 1] \in S /\ g[n] = f[n][g[n - 1]]

\* Steps that stay in S can be taken one after the other.
LEMMA Iteration ==
  ASSUME NEW S, NEW x \in S, NEW N \in Nat, NEW f \in [1..N -> [S -> S]]
  PROVE  \E g : Iterates(g, S, x, N, f)
  <1> DEFINE Walks(k, g) == /\ g \in [0..k -> S]
                            /\ \A n \in 0..k : g[n] = IF n = 0 THEN x ELSE f[n][g[n - 1]]
             T == {k \in 0..N : \E g : Walks(k, g)}
  <1>1. 0 \in T
    <2>1. PICK g : g = [n \in 0..0 |-> x]
      OBVIOUS
    <2>2. Walks(0, g)
      BY <2>1
    <2> HIDE DEF Walks
    <2> QED BY <2>2
  <1>2. ASSUME NEW k \in 1..N, k - 1 \in T PROVE k \in T
    <2>1. PICK g : Walks(k - 1, g)
      BY <1>2
    <2> DEFINE h == [n \in 0..k |-> IF n = k THEN f[k][g[k - 1]] ELSE g[n]]
    <2>2. k - 1 \in 0..(k - 1) /\ g[k - 1] \in S
      BY <2>1
    <2>3. f[k][g[k - 1]] \in S
      BY <2>2
    <2>4. h \in [0..k -> S]
      BY <2>1, <2>3
    <2>5. ASSUME NEW n \in 0..k PROVE h[n] = IF n = 0 THEN x ELSE f[n][h[n - 1]]
      <3>1. CASE n = k
        <4>1. h[n] = f[k][g[k - 1]] /\ n # 0 /\ n - 1 \in 0..k /\ n - 1 # k
          BY <3>1
        <4> QED BY <3>1, <4>1
      <3>2. CASE n # k
        <4>1. n \in 0..(k - 1) /\ h[n] = g[n]
          BY <3>2
        <4>2. g[n] = IF n = 0 THEN x ELSE f[n][g[n - 1]]
          BY <2>1, <4>1
        <4>3. n # 0 => n - 1 \in 0..k /\ n - 1 # k
          BY <3>2
        <4> QED BY <4>1, <4>2, <4>3
      <3> QED BY <3>1, <3>2
    <2>6. Walks(k, h)
      BY <2>4, <2>5
    <2> HIDE DEF h, Walks
    <2> QED BY <2>6
  <1> HIDE DEF T
  <1>3. \A n \in 0..N : n \in T
    BY <1>1, <1>2, UpTo
  <1>4. PICK g : Walks(N, g)
    BY <1>3 DEF T
  <1>5. \A n \in 1..N : n \in 0..N /\ n - 1 \in 0..N /\ n # 0
    OBVIOUS
  <1>6. Iterates(g, S, x, N, f)
    BY <1>4, <1>5 DEF Iterates
  <1> QED
    BY <1>6

-----------------------------------------------------------------------------
(* Sets of tuples *)

\* What the backend keeps in its sets: an offset always fits.
Fitting == {t \in MemTuple : t.base > 0 /\ t.offset < OFFSET_SPAN}

TupleSets == {array \in SUBSET Fitting : IsFiniteSet(array) /\ Disjoint(array)}

LEMMA FindFinds ==
  ASSUME NEW array, array \subseteq Fitting, NEW t
  PROVE  /\ \A e \in Find(array, t) : e \in array /\ Equivalent(e, t)
         /\ Find(array, t) = {} => \A e \in array : ~Equivalent(e, t)
  <1>1. PICK equals : equals = {e \in array : Equivalent(e, t)}
    OBVIOUS
  <1>2. Find(array, t) = {e \in equals : \A o \in equals : e.base <= o.base}
    BY <1>1 DEF Find
  <1>3. ASSUME equals # {} PROVE Find(array, t) # {}
    <2>1. PICK bases : bases = {e.base : e \in equals}
      OBVIOUS
    <2>2. bases \subseteq Nat /\ bases # {}
      BY <1>1, <1>3, <2>1 DEF Fitting, MemTuple
    <2>3. PICK b \in bases : \A c \in bases : b <= c
      BY <2>2, LeastNat
    <2>4. PICK e \in equals : e.base = b
      BY <2>1
    <2> QED BY <1>2, <2>1, <2>3, <2>4
  <1> QED
    BY <1>1, <1>2, <1>3

LEMMA InsertKeeps ==
  ASSUME NEW array \in TupleSets, NEW t \in Fitting
  PROVE  /\ Insert(array, t) \in TupleSets
         /\ Find(array, t) = {} => AllBytes(Insert(array, t)) = AllBytes(array) \cup Bytes(t)
  <1>1. /\ array \subseteq Fitting /\ IsFiniteSet(array) /\ Disjoint(array)
        /\ array \subseteq MemTuple /\ t \in MemTuple
    BY DEF TupleSets, Fitting
  <1>2. CASE Find(array, t) # {}
    BY <1>2 DEF Insert
  <1>3. CASE Find(array, t) = {}
    <2>1. Insert(array, t) = array \cup {t}
      BY <1>3 DEF Insert
    <2>2. \A e \in array : Bytes(e) \cap Bytes(t) = {}
      BY <1>1, <1>3, FindFinds, EqualIsOverlap DEF Overlap
    <2>3. Disjoint(array \cup {t})
      BY <1>1, <2>2 DEF Disjoint
    <2>4. IsFiniteSet(array \cup {t})
      BY <1>1, FS_AddElement
    <2>5. AllBytes(array \cup {t}) = AllBytes(array) \cup Bytes(t)
      BY DEF AllBytes
    <2> QED BY <1>1, <2>1, <2>3, <2>4, <2>5 DEF TupleSets
  <1> QED
    BY <1>2, <1>3

-----------------------------------------------------------------------------
(* merge_tuple_set *)

\* A merge never owns a byte that neither had.
LEMMA MergeOfFitting ==
  ASSUME NEW lhs \in Fitting, NEW rhs \in Fitting, Overlap(lhs, rhs), NEW new \in MemTuple
  PROVE  LET m == merge_tuples(Observed(lhs, new), rhs) IN
         /\ m \in Fitting /\ Bytes(m) \subseteq Bytes(lhs) \cup Bytes(rhs)
         /\ GreaterLast(lhs, rhs) - LesserBase(lhs, rhs) < OFFSET_SPAN
              => Bytes(m) = Bytes(lhs) \cup Bytes(rhs)
  <1> DEFINE l == Observed(lhs, new)
             m == merge_tuples(l, rhs)
             low == LesserBase(lhs, rhs)
             high == GreaterLast(lhs, rhs)
  <1>1. /\ l \in MemTuple /\ l.base = lhs.base /\ l.offset = lhs.offset /\ l.type = lhs.type
        /\ l.base > 0 /\ rhs \in MemTuple /\ rhs.base > 0
    BY DEF Observed, Fitting, MemTuple, __TA_TemporalAccess
  <1> HIDE DEF l
  <1>2. LesserBase(l, rhs) = low /\ GreaterLast(l, rhs) = high
    BY <1>1 DEF LesserBase, GreaterLast, LastByte
  <1> HIDE DEF low, high
  <1>3. low \in Nat /\ low > 0 /\ high \in Nat /\ low <= high
    BY <1>1 DEF low, high, LesserBase, GreaterLast, LastByte, MemTuple, Fitting
  <1>4. m.base = low /\ m.offset = Offset32(high - low)
    BY <1>2 DEF merge_tuples
  <1>5. m.type \in __TA_MemType /\ m.AP \in __TA_TemporalAccess /\
        m = [base |-> m.base, offset |-> m.offset, type |-> m.type, AP |-> m.AP]
    BY <1>1 DEF merge_tuples, MemTuple
  <1>6. Offset32(high - low) \in Nat /\ Offset32(high - low) < OFFSET_SPAN
        /\ Offset32(high - low) <= high - low
    <2>1. PICK n \in Nat : n = high - low
      BY <1>3
    <2>2. n % OFFSET_SPAN \in 0..(OFFSET_SPAN - 1)
      BY OffsetAssumption
    <2>3. n % OFFSET_SPAN <= n
      BY OffsetAssumption
    <2> QED BY <2>1, <2>2, <2>3, OffsetAssumption DEF Offset32
  <1>7. m \in Fitting
    BY <1>3, <1>4, <1>5, <1>6 DEF Fitting, MemTuple
  <1>8. low..high = Bytes(lhs) \cup Bytes(rhs)
    BY <1>1, OverlapAtBase DEF low, high, LesserBase, GreaterLast, Bytes, LastByte, MemTuple, Fitting
  <1>9. Bytes(m) = low..(low + Offset32(high - low))
    BY <1>4 DEF Bytes, LastByte
  <1>10. Bytes(m) \subseteq low..high
    BY <1>3, <1>6, <1>9
  <1>11. high - low < OFFSET_SPAN => Bytes(m) = low..high
    <2>1. high - low < OFFSET_SPAN => Offset32(high - low) = high - low
      BY <1>3, OffsetFits
    <2> QED BY <1>3, <1>9, <2>1
  <1> HIDE DEF m
  <1>12. /\ m \in Fitting /\ Bytes(m) \subseteq Bytes(lhs) \cup Bytes(rhs)
         /\ high - low < OFFSET_SPAN => Bytes(m) = Bytes(lhs) \cup Bytes(rhs)
    BY <1>7, <1>8, <1>10, <1>11
  <1> QED
    BY <1>12 DEF m, l, low, high
MergesBy(g, array, tuple, S) ==
  /\ \A n \in 0..Cardinality(array) : g[n] \in S
  /\ g[0] = [array |-> array, tuple |-> tuple]
  /\ \A n \in 1..Cardinality(array) : g[n] = MergeNext(tuple, g[n - 1])
  /\ Merging(array, tuple) = g[Cardinality(array)]

\* Its rounds, as long as they stay in S.
LEMMA MergingRounds ==
  ASSUME NEW array, IsFiniteSet(array), NEW tuple, NEW S,
         [array |-> array, tuple |-> tuple] \in S, \A s \in S : MergeNext(tuple, s) \in S
  PROVE  \E g : MergesBy(g, array, tuple, S)
  <1> DEFINE N == Cardinality(array)
             x == [array |-> array, tuple |-> tuple]
             f == [n \in 1..N |-> [s \in S |-> MergeNext(tuple, s)]]
             After(a) == a = [n \in 0..N |-> IF n = 0 THEN x ELSE MergeNext(tuple, a[n - 1])]
             h == CHOOSE a : After(a)
  <1>1. N \in Nat
    BY FS_CardinalityType
  <1>2. Merging(array, tuple) = h[N]
    BY DEF Merging
  <1> HIDE DEF N, x
  <1>3. \E a : After(a)
    <2>1. f \in [1..N -> [S -> S]]
      OBVIOUS
    <2>2. PICK g : Iterates(g, S, x, N, f)
      <3> HIDE DEF f
      <3>1. x \in S
        BY DEF x
      <3> QED BY <1>1, <2>1, <3>1, Iteration
    <2>3. \A n \in 1..N : g[n] = MergeNext(tuple, g[n - 1])
      BY <2>2 DEF Iterates
    <2>4. After(g)
      BY <1>1, <2>2, <2>3 DEF Iterates
    <2> QED BY <2>4
  <1>4. After(h)
    <2> HIDE DEF After
    <2> QED BY <1>3
  <1> HIDE DEF h
  <1>5. /\ h[0] = x
        /\ \A n \in 1..N : n \in 0..N /\ n - 1 \in 0..N /\ h[n] = MergeNext(tuple, h[n - 1])
    BY <1>1, <1>4
  <1>6. \A n \in 0..N : h[n] \in S
    <2>1. PICK T : T = {n \in 0..N : h[n] \in S}
      OBVIOUS
    <2>2. 0 \in T
      BY <1>1, <1>5, <2>1 DEF x
    <2>3. \A n \in 1..N : n - 1 \in T => n \in T
      BY <1>5, <2>1
    <2> QED BY <1>1, <2>1, <2>2, <2>3, UpTo
  <1> QED
    <2>1. MergesBy(h, array, tuple, S)
      BY <1>2, <1>5, <1>6 DEF MergesBy, N, x
    <2> QED BY <2>1

RemovesBy(g, array, tuple, S) ==
  /\ \A n \in 0..Cardinality(array) : g[n] \in S
  /\ g[0] = array
  /\ \A n \in 1..Cardinality(array) : g[n] = RemoveNext(tuple, g[n - 1])
  /\ remove_tuple_set(array, tuple) = g[Cardinality(array)]

LEMMA RemovingRounds ==
  ASSUME NEW array, IsFiniteSet(array), NEW tuple, NEW S,
         array \in S, \A s \in S : RemoveNext(tuple, s) \in S
  PROVE  \E g : RemovesBy(g, array, tuple, S)
  <1> DEFINE N == Cardinality(array)
             f == [n \in 1..N |-> [s \in S |-> RemoveNext(tuple, s)]]
             After(a) == a = [n \in 0..N |-> IF n = 0 THEN array ELSE RemoveNext(tuple, a[n - 1])]
             h == CHOOSE a : After(a)
  <1>1. N \in Nat
    BY FS_CardinalityType
  <1>2. remove_tuple_set(array, tuple) = h[N]
    BY DEF remove_tuple_set
  <1> HIDE DEF N
  <1>3. \E a : After(a)
    <2>1. f \in [1..N -> [S -> S]]
      OBVIOUS
    <2>2. PICK g : Iterates(g, S, array, N, f)
      <3> HIDE DEF f
      <3>1. array \in S
        OBVIOUS
      <3> QED BY <1>1, <2>1, <3>1, Iteration
    <2>3. \A n \in 1..N : g[n] = RemoveNext(tuple, g[n - 1])
      BY <2>2 DEF Iterates
    <2>4. After(g)
      BY <1>1, <2>2, <2>3 DEF Iterates
    <2> QED BY <2>4
  <1>4. After(h)
    <2> HIDE DEF After
    <2> QED BY <1>3
  <1> HIDE DEF h
  <1>5. /\ h[0] = array
        /\ \A n \in 1..N : n \in 0..N /\ n - 1 \in 0..N /\ h[n] = RemoveNext(tuple, h[n - 1])
    BY <1>1, <1>4
  <1>6. \A n \in 0..N : h[n] \in S
    <2>1. PICK T : T = {n \in 0..N : h[n] \in S}
      OBVIOUS
    <2>2. 0 \in T
      BY <1>1, <1>5, <2>1
    <2>3. \A n \in 1..N : n - 1 \in T => n \in T
      BY <1>5, <2>1
    <2> QED BY <1>1, <2>1, <2>2, <2>3, UpTo
  <1> QED
    <2>1. RemovesBy(h, array, tuple, S)
      BY <1>2, <1>5, <1>6 DEF RemovesBy, N
    <2> QED BY <2>1

\* What a merge into the array may be at after some rounds.
MergeStates(array, bytes) ==
  {s \in [array : SUBSET array, tuple : Fitting] :
     /\ AllBytes(s.array) \cup Bytes(s.tuple) \subseteq bytes
     /\ ShortRuns(bytes) => AllBytes(s.array) \cup Bytes(s.tuple) = bytes}

LEMMA MergeRound ==
  ASSUME NEW array \in TupleSets, NEW tuple \in Fitting, NEW bytes,
         NEW s \in MergeStates(array, bytes), Find(s.array, s.tuple) # {}
  PROVE  /\ MergeNext(tuple, s) \in MergeStates(array, bytes)
         /\ \E e \in s.array : MergeNext(tuple, s).array = s.array \ {e}
  <1>1. /\ s.array \subseteq array /\ s.array \subseteq Fitting /\ s.tuple \in Fitting
        /\ AllBytes(s.array) \cup Bytes(s.tuple) \subseteq bytes
        /\ ShortRuns(bytes) => AllBytes(s.array) \cup Bytes(s.tuple) = bytes
    BY DEF MergeStates, TupleSets
  <1>2. PICK e : e = CHOOSE x \in Find(s.array, s.tuple) : TRUE
    OBVIOUS
  <1>3. e \in Find(s.array, s.tuple)
    BY <1>2
  <1>4. e \in s.array /\ Equivalent(e, s.tuple) /\ e \in Fitting
    BY <1>1, <1>3, FindFinds
  <1>5. PICK m : m = merge_tuples(Observed(e, tuple), s.tuple)
    OBVIOUS
  <1>6. MergeNext(tuple, s) = [array |-> s.array \ {e}, tuple |-> m]
    BY <1>2, <1>5 DEF MergeNext
  <1>7. Overlap(e, s.tuple) /\ tuple \in MemTuple /\ e \in MemTuple /\ s.tuple \in MemTuple
    BY <1>1, <1>4, EqualIsOverlap DEF Fitting
  <1>8. /\ m \in Fitting /\ Bytes(m) \subseteq Bytes(e) \cup Bytes(s.tuple)
        /\ GreaterLast(e, s.tuple) - LesserBase(e, s.tuple) < OFFSET_SPAN
             => Bytes(m) = Bytes(e) \cup Bytes(s.tuple)
    BY <1>1, <1>4, <1>5, <1>7, MergeOfFitting
  <1>9. AllBytes(s.array) = AllBytes(s.array \ {e}) \cup Bytes(e)
    BY <1>4 DEF AllBytes
  <1>10. ShortRuns(bytes) => Bytes(m) = Bytes(e) \cup Bytes(s.tuple)
    <2>1. PICK low, high : low = LesserBase(e, s.tuple) /\ high = GreaterLast(e, s.tuple)
      OBVIOUS
    <2>2. low \in Nat /\ high \in Nat
      BY <1>7, <2>1 DEF LesserBase, GreaterLast, LastByte, MemTuple
    <2>3. low..high \subseteq Bytes(e) \cup Bytes(s.tuple)
      BY <1>7, <2>1, OverlapAtBase DEF LesserBase, GreaterLast, Bytes, LastByte, MemTuple
    <2>4. low..high \subseteq bytes
      BY <1>1, <1>9, <2>3
    <2>5. low <= high
      BY <1>7, <2>1, OverlapAtBase DEF LesserBase, GreaterLast, Bytes, LastByte, MemTuple
    <2>6. low \in bytes /\ high \in bytes
      BY <2>2, <2>4, <2>5
    <2> QED BY <1>8, <2>1, <2>4, <2>6 DEF ShortRuns
  <1>11. PICK rest : rest = s.array \ {e}
    OBVIOUS
  <1>12. [array |-> rest, tuple |-> m] \in MergeStates(array, bytes)
    <2>1. [array |-> rest, tuple |-> m] \in [array : SUBSET array, tuple : Fitting]
      BY <1>1, <1>8, <1>11
    <2>2. AllBytes(rest) \cup Bytes(m) \subseteq bytes
      BY <1>1, <1>8, <1>9, <1>11
    <2>3. ShortRuns(bytes) => AllBytes(rest) \cup Bytes(m) = bytes
      BY <1>1, <1>9, <1>10, <1>11
    <2> QED BY <2>1, <2>2, <2>3 DEF MergeStates
  <1> QED
    BY <1>4, <1>6, <1>11, <1>12

\* merge_tuple_set keeps the tuples of a set disjoint, owns no byte that was not
\* there or in the new tuple, and loses none as long as no run of bytes is too long
\* for an offset (MemoryTuple.hpp:338-379).
THEOREM MergeSetIsUnion ==
  ASSUME NEW array \in TupleSets, NEW tuple \in Fitting
  PROVE  LET after == merge_tuple_set(array, tuple)
             bytes == AllBytes(array) \cup Bytes(tuple)
         IN  /\ after \in TupleSets /\ AllBytes(after) \subseteq bytes
             /\ ShortRuns(bytes) => AllBytes(after) = bytes
  <1>1. PICK bytes, N, S : /\ bytes = AllBytes(array) \cup Bytes(tuple)
                           /\ N = Cardinality(array) /\ S = MergeStates(array, bytes)
    OBVIOUS
  <1>2. IsFiniteSet(array) /\ N \in Nat
    BY <1>1, FS_CardinalityType DEF TupleSets
  <1>3. [array |-> array, tuple |-> tuple] \in S
    BY <1>1 DEF MergeStates
  <1>4. \A s \in S : MergeNext(tuple, s) \in S
    <2>1. SUFFICES ASSUME NEW s \in S PROVE MergeNext(tuple, s) \in S
      OBVIOUS
    <2>2. CASE Find(s.array, s.tuple) = {}
      BY <2>2 DEF MergeNext
    <2>3. CASE Find(s.array, s.tuple) # {}
      BY <1>1, <2>3, MergeRound
    <2> QED BY <2>2, <2>3
  <1>rounds. PICK g : MergesBy(g, array, tuple, S)
    BY <1>2, <1>3, <1>4, MergingRounds
  <1>5. /\ \A n \in 0..N : g[n] \in S
        /\ g[0] = [array |-> array, tuple |-> tuple]
        /\ \A n \in 1..N : g[n] = MergeNext(tuple, g[n - 1])
        /\ Merging(array, tuple) = g[N]
    BY <1>1, <1>rounds DEF MergesBy
  <1>6. PICK T : T = {n \in 0..N : \/ Find(g[n].array, g[n].tuple) = {}
                                   \/ Cardinality(g[n].array) + n <= N}
    OBVIOUS
  <1>7. 0 \in T
    BY <1>1, <1>2, <1>5, <1>6
  <1>8. ASSUME NEW n \in 1..N, n - 1 \in T PROVE n \in T
    <2>1. n \in 0..N /\ n - 1 \in 0..N /\ n \in Int /\ n >= 1
      BY <1>2
    <2>2. PICK s : s = g[n - 1] /\ s \in S /\ g[n] = MergeNext(tuple, s)
      BY <1>5, <2>1
    <2>3. CASE Find(s.array, s.tuple) = {}
      BY <1>6, <2>1, <2>2, <2>3 DEF MergeNext
    <2>4. CASE Find(s.array, s.tuple) # {}
      <3>1. Cardinality(s.array) + (n - 1) <= N
        BY <1>6, <1>8, <2>2, <2>4
      <3>2. PICK e \in s.array : g[n].array = s.array \ {e}
        BY <1>1, <2>2, <2>4, MergeRound
      <3>3. IsFiniteSet(s.array) /\ Cardinality(s.array) \in Nat
        <4>1. s.array \in SUBSET array
          BY <1>1, <2>2 DEF MergeStates
        <4> QED BY <1>2, <4>1, FS_Subset, FS_CardinalityType
      <3>4. Cardinality(g[n].array) = Cardinality(s.array) - 1
        <4>1. PICK a : a = s.array
          OBVIOUS
        <4>2. Cardinality(a \ {e}) = Cardinality(a) - 1
          BY <3>2, <3>3, <4>1, FS_RemoveElement
        <4> QED BY <3>2, <4>1, <4>2
      <3>5. Cardinality(g[n].array) + n <= N
        BY <1>2, <2>1, <3>1, <3>3, <3>4
      <3> QED BY <1>6, <2>1, <3>5
    <2> QED BY <2>3, <2>4
  <1>9. PICK end : end = g[N] /\ end \in S
    BY <1>2, <1>5
  <1>10. /\ end.array \in SUBSET array /\ end.tuple \in Fitting
         /\ AllBytes(end.array) \cup Bytes(end.tuple) \subseteq bytes
         /\ ShortRuns(bytes) => AllBytes(end.array) \cup Bytes(end.tuple) = bytes
    BY <1>1, <1>9 DEF MergeStates
  <1>11. end.array \in TupleSets
    <2>1. IsFiniteSet(end.array)
      BY <1>2, <1>10, FS_Subset
    <2> QED BY <1>10, <2>1 DEF TupleSets, Disjoint
  <1>12. Find(end.array, end.tuple) = {}
    <2>1. \A n \in 0..N : n \in T
      BY <1>2, <1>7, <1>8, UpTo
    <2>2. N \in T
      BY <1>2, <2>1
    <2>3. CASE Cardinality(end.array) + N <= N
      <3>1. IsFiniteSet(end.array) /\ Cardinality(end.array) \in Nat
        BY <1>11, FS_CardinalityType DEF TupleSets
      <3>2. Cardinality(end.array) = 0
        BY <1>2, <2>3, <3>1
      <3>3. end.array = {}
        BY <3>1, <3>2, FS_EmptySet
      <3> QED BY <3>3 DEF Find
    <2> QED BY <1>6, <1>9, <2>2, <2>3
  <1>13. merge_tuple_set(array, tuple) = Insert(end.array, end.tuple)
    BY <1>5, <1>9 DEF merge_tuple_set
  <1>14. /\ Insert(end.array, end.tuple) \in TupleSets
         /\ AllBytes(Insert(end.array, end.tuple)) = AllBytes(end.array) \cup Bytes(end.tuple)
    BY <1>10, <1>11, <1>12, InsertKeeps
  <1> QED
    BY <1>1, <1>10, <1>13, <1>14
-----------------------------------------------------------------------------
(* remove_tuple_set *)

LEMMA PartsFit ==
  ASSUME NEW lhs \in Fitting, NEW rhs \in Fitting
  PROVE  LET parts == mem_tuple_exclusion(lhs, rhs) IN
         /\ parts \subseteq Fitting /\ IsFiniteSet(parts) /\ Disjoint(parts)
         /\ AllBytes(parts) \subseteq Bytes(lhs) \ Bytes(rhs)
  <1> DEFINE o == mem_tuple_overlap(lhs, rhs)
             parts == mem_tuple_exclusion(lhs, rhs)
             left == LeftPart(lhs, o)
             right == RightPart(lhs, rhs, o)
  <1>1. lhs \in MemTuple /\ rhs \in MemTuple /\ lhs.base > 0 /\ rhs.base > 0 /\ lhs.offset < OFFSET_SPAN
    BY DEF Fitting
  <1>2. /\ parts \subseteq MemTuple /\ Disjoint(parts)
        /\ AllBytes(parts) \subseteq Bytes(lhs) \ Bytes(rhs)
    BY <1>1, ExclusionIsOutside
  <1>3. o \in MemTuple
    BY <1>1, OverlapIsIntersection
  <1>4. parts \in {{lhs}, {}, {left}, {right}}
    BY DEF mem_tuple_exclusion
  <1>5. \A n \in Int : Offset32(n) < OFFSET_SPAN
    <2>1. SUFFICES ASSUME NEW n \in Int PROVE n % OFFSET_SPAN < OFFSET_SPAN
      BY DEF Offset32
    <2>2. n % OFFSET_SPAN \in 0..(OFFSET_SPAN - 1)
      BY OffsetAssumption
    <2> QED BY <2>2, OffsetAssumption
  <1>6. left.base = lhs.base /\ left.offset = Offset32(o.base - lhs.base - 1)
    BY DEF LeftPart
  <1>7. right.base = LastByte(o) + 1 /\ right.offset = Offset32(LastByte(lhs) - (LastByte(o) + 1))
    BY DEF RightPart
  <1>8. left.base > 0 /\ left.offset < OFFSET_SPAN
    BY <1>1, <1>3, <1>5, <1>6 DEF MemTuple
  <1>9. right.base > 0 /\ right.offset < OFFSET_SPAN
    BY <1>1, <1>3, <1>5, <1>7 DEF MemTuple, LastByte
  <1> HIDE DEF parts, left, right
  <1>10. \A t \in parts : t.base > 0 /\ t.offset < OFFSET_SPAN
    BY <1>1, <1>4, <1>8, <1>9
  <1>11. IsFiniteSet(parts)
    <2>1. parts = {lhs} \/ parts = {} \/ parts = {left} \/ parts = {right}
      BY <1>4
    <2>2. IsFiniteSet({}) /\ IsFiniteSet({lhs}) /\ IsFiniteSet({left}) /\ IsFiniteSet({right})
      BY FS_EmptySet, FS_Singleton
    <2> QED BY <2>1, <2>2, Zenon
  <1> QED
    BY <1>2, <1>10, <1>11 DEF parts, Fitting

\* A round replaces an entry that is equal to the tuple by parts that are not.
LEMMA RemoveRound ==
  ASSUME NEW array \in TupleSets, NEW tuple \in Fitting, Find(array, tuple) # {}
  PROVE  \E e \in array :
           /\ Equivalent(e, tuple) /\ RemoveNext(tuple, array) \in TupleSets
           /\ AllBytes(RemoveNext(tuple, array)) \subseteq AllBytes(array)
           /\ {t \in RemoveNext(tuple, array) : Equivalent(t, tuple)}
                = {t \in array : Equivalent(t, tuple)} \ {e}
  <1>1. array \subseteq Fitting /\ IsFiniteSet(array) /\ Disjoint(array)
    BY DEF TupleSets
  <1>2. PICK e : e = CHOOSE x \in Find(array, tuple) : TRUE
    OBVIOUS
  <1>3. e \in Find(array, tuple)
    BY <1>2
  <1>4. e \in array /\ Equivalent(e, tuple) /\ e \in Fitting
    BY <1>1, <1>3, FindFinds
  <1>5. PICK parts, after : /\ parts = mem_tuple_exclusion(e, tuple)
                            /\ after = (array \ {e}) \cup parts
    OBVIOUS
  <1>6. RemoveNext(tuple, array) = after
    BY <1>2, <1>5 DEF RemoveNext
  <1>7. /\ parts \subseteq Fitting /\ IsFiniteSet(parts) /\ Disjoint(parts)
        /\ AllBytes(parts) \subseteq Bytes(e) \ Bytes(tuple)
    BY <1>4, <1>5, PartsFit
  <1>8. \A p \in parts : Bytes(p) \subseteq Bytes(e) \ Bytes(tuple)
    BY <1>7 DEF AllBytes
  <1>9. after \in TupleSets
    <2>1. IsFiniteSet(after)
      BY <1>1, <1>5, <1>7, FS_RemoveElement, FS_Union
    <2>2. \A t \in array \ {e} : \A p \in parts : Bytes(t) \cap Bytes(p) = {}
      BY <1>1, <1>4, <1>8 DEF Disjoint
    <2>3. Disjoint(after)
      BY <1>1, <1>5, <1>7, <2>2 DEF Disjoint
    <2> QED BY <1>1, <1>5, <1>7, <2>1, <2>3 DEF TupleSets
  <1>10. AllBytes(after) \subseteq AllBytes(array)
    <2>1. \A t \in after : Bytes(t) \subseteq AllBytes(array)
      BY <1>4, <1>5, <1>8 DEF AllBytes
    <2> QED BY <2>1 DEF AllBytes
  <1>11. \A p \in parts : ~Equivalent(p, tuple)
    <2>1. SUFFICES ASSUME NEW p \in parts PROVE ~Overlap(p, tuple)
      BY <1>7, EqualIsOverlap DEF Fitting
    <2> QED BY <1>8 DEF Overlap
  <1>12. {t \in after : Equivalent(t, tuple)} = {t \in array : Equivalent(t, tuple)} \ {e}
    BY <1>5, <1>11
  <1> QED
    BY <1>4, <1>6, <1>9, <1>10, <1>12

\* remove_tuple_set keeps the tuples of a set disjoint, and afterwards they own no
\* byte of the tuple, nor any that was not there (MemoryTuple.hpp:383-420).
THEOREM RemoveSetIsOutside ==
  ASSUME NEW array \in TupleSets, NEW tuple \in Fitting
  PROVE  LET after == remove_tuple_set(array, tuple)
         IN  after \in TupleSets /\ AllBytes(after) \subseteq AllBytes(array) \ Bytes(tuple)
  <1>1. PICK N, S : /\ N = Cardinality(array)
                    /\ S = {a \in TupleSets : AllBytes(a) \subseteq AllBytes(array)}
    OBVIOUS
  <1>2. IsFiniteSet(array) /\ N \in Nat
    BY <1>1, FS_CardinalityType DEF TupleSets
  <1>3. array \in S
    BY <1>1
  <1>4. \A s \in S : RemoveNext(tuple, s) \in S
    <2>1. SUFFICES ASSUME NEW s \in S PROVE RemoveNext(tuple, s) \in S
      OBVIOUS
    <2>2. CASE Find(s, tuple) = {}
      BY <2>2 DEF RemoveNext
    <2>3. CASE Find(s, tuple) # {}
      <3>1. s \in TupleSets /\ AllBytes(s) \subseteq AllBytes(array)
        BY <1>1
      <3>2. /\ RemoveNext(tuple, s) \in TupleSets
            /\ AllBytes(RemoveNext(tuple, s)) \subseteq AllBytes(s)
        BY <2>3, <3>1, RemoveRound
      <3> QED BY <1>1, <3>1, <3>2
    <2> QED BY <2>2, <2>3
  <1>5. PICK g : RemovesBy(g, array, tuple, S)
    BY <1>2, <1>3, <1>4, RemovingRounds
  <1>6. /\ \A n \in 0..N : g[n] \in S
        /\ g[0] = array
        /\ \A n \in 1..N : g[n] = RemoveNext(tuple, g[n - 1])
        /\ remove_tuple_set(array, tuple) = g[N]
    BY <1>1, <1>5 DEF RemovesBy
  <1> DEFINE Equals(a) == {t \in a : Equivalent(t, tuple)}
  <1>7. \A a \in TupleSets : IsFiniteSet(Equals(a)) /\ Cardinality(Equals(a)) \in Nat
    <2>1. SUFFICES ASSUME NEW a \in TupleSets
                   PROVE  IsFiniteSet(Equals(a)) /\ Cardinality(Equals(a)) \in Nat
      OBVIOUS
    <2>2. Equals(a) \in SUBSET a /\ IsFiniteSet(a)
      BY DEF TupleSets
    <2> HIDE DEF Equals
    <2> QED BY <2>2, FS_Subset, FS_CardinalityType
  <1>8. PICK T : T = {n \in 0..N : Find(g[n], tuple) = {} \/ Cardinality(Equals(g[n])) + n <= N}
    OBVIOUS
  <1>9. 0 \in T
    <2>1. Equals(array) \in SUBSET array
      OBVIOUS
    <2>2. Cardinality(Equals(array)) <= N
      <3> HIDE DEF Equals
      <3> QED BY <1>1, <1>2, <2>1, FS_Subset
    <2>3. Cardinality(Equals(array)) \in Nat
      <3> HIDE DEF Equals
      <3> QED BY <1>7
    <2> HIDE DEF Equals
    <2> QED BY <1>2, <1>6, <1>8, <2>2, <2>3
  <1>10. ASSUME NEW n \in 1..N, n - 1 \in T PROVE n \in T
    <2>1. n \in 0..N /\ n - 1 \in 0..N /\ n \in Int /\ n >= 1
      BY <1>2
    <2>2. PICK s : s = g[n - 1] /\ s \in S /\ g[n] = RemoveNext(tuple, s) /\ s \in TupleSets
      BY <1>1, <1>6, <2>1
    <2>3. CASE Find(s, tuple) = {}
      BY <1>8, <2>1, <2>2, <2>3 DEF RemoveNext
    <2>4. CASE Find(s, tuple) # {}
      <3>1. Cardinality(Equals(s)) + (n - 1) <= N
        BY <1>8, <1>10, <2>2, <2>4
      <3>2. PICK e \in s : Equivalent(e, tuple) /\ Equals(g[n]) = Equals(s) \ {e}
        BY <2>2, <2>4, RemoveRound
      <3>3. e \in Equals(s)
        BY <3>2
      <3> HIDE DEF Equals
      <3>4. IsFiniteSet(Equals(s)) /\ Cardinality(Equals(s)) \in Nat
        BY <1>7, <2>2
      <3>5. Cardinality(Equals(g[n])) = Cardinality(Equals(s)) - 1
        BY <3>2, <3>3, <3>4, FS_RemoveElement
      <3>6. Cardinality(Equals(g[n])) + n <= N
        BY <1>2, <2>1, <3>1, <3>4, <3>5
      <3> QED BY <1>8, <2>1, <3>6
    <2> QED BY <2>3, <2>4
  <1>11. PICK end : end = g[N] /\ end \in TupleSets /\ AllBytes(end) \subseteq AllBytes(array)
    BY <1>1, <1>2, <1>6
  <1>12. \A e \in end : ~Equivalent(e, tuple)
    <2>1. \A n \in 0..N : n \in T
      BY <1>2, <1>9, <1>10, UpTo
    <2>2. N \in T
      BY <1>2, <2>1
    <2>3. CASE Find(end, tuple) = {}
      BY <1>11, <2>3, FindFinds DEF TupleSets
    <2>4. CASE Cardinality(Equals(end)) + N <= N
      <3>1. Equals(end) = {}
        <4> HIDE DEF Equals
        <4>1. IsFiniteSet(Equals(end)) /\ Cardinality(Equals(end)) \in Nat
          BY <1>7, <1>11
        <4>2. Cardinality(Equals(end)) = 0
          BY <1>2, <2>4, <4>1
        <4> QED BY <4>1, <4>2, FS_EmptySet
      <3> QED BY <3>1
    <2> QED
      <3> HIDE DEF Equals
      <3> QED BY <1>8, <1>11, <2>2, <2>3, <2>4
  <1>13. AllBytes(end) \cap Bytes(tuple) = {}
    <2>1. \A e \in end : Bytes(e) \cap Bytes(tuple) = {}
      BY <1>11, <1>12, EqualIsOverlap DEF TupleSets, Fitting, Overlap
    <2> QED BY <2>1 DEF AllBytes
  <1> QED
    BY <1>6, <1>11, <1>13

-----------------------------------------------------------------------------
(* Walks over a set *)

\* A set of disjoint tuples is walked from end to end.
LEMMA SortedWalks ==
  ASSUME NEW array \in TupleSets
  PROVE  /\ Cardinality(array) \in Nat
         /\ \A n \in 1..Cardinality(array) : Sorted(array)[n] \in array
         /\ \A t \in array : \E n \in 1..Cardinality(array) : Sorted(array)[n] = t
  <1> DEFINE Before(t) == {u \in array : u.base < t.base}
             N == Cardinality(array)
             rank == [t \in array |-> Cardinality(Before(t))]
  <1>1. /\ IsFiniteSet(array) /\ N \in Nat
        /\ array \subseteq MemTuple /\ Disjoint(array)
    BY FS_CardinalityType DEF TupleSets, Fitting
  <1>2. \A s, t \in array : s # t => s.base # t.base
    BY <1>1 DEF Disjoint, Bytes, LastByte, MemTuple
  <1>3. ASSUME NEW t \in array
        PROVE  IsFiniteSet(Before(t)) /\ Cardinality(Before(t)) \in 0..(N - 1)
    <2>1. Before(t) \in SUBSET array /\ t \notin Before(t)
      BY <1>1 DEF MemTuple
    <2> HIDE DEF Before
    <2>2. /\ IsFiniteSet(Before(t)) /\ Cardinality(Before(t)) <= N
          /\ (N = Cardinality(Before(t)) => array = Before(t))
      BY <1>1, <2>1, FS_Subset
    <2>3. Cardinality(Before(t)) \in Nat
      BY <2>2, FS_CardinalityType
    <2>4. N # Cardinality(Before(t))
      BY <2>1, <2>2
    <2> QED BY <1>1, <2>2, <2>3, <2>4
  <1>4. ASSUME NEW s \in array, NEW t \in array, s.base < t.base
        PROVE  Cardinality(Before(s)) # Cardinality(Before(t))
    <2>1. Before(s) \in SUBSET Before(t) /\ s \in Before(t) /\ s \notin Before(s)
      BY <1>1, <1>4 DEF MemTuple
    <2>2. IsFiniteSet(Before(t))
      BY <1>3
    <2> HIDE DEF Before
    <2> QED BY <2>1, <2>2, FS_Subset
  <1> HIDE DEF Before
  <1>5. rank \in Injection(array, 0..(N - 1))
    <2>1. rank \in [array -> 0..(N - 1)]
      BY <1>3
    <2>2. ASSUME NEW s \in array, NEW t \in array, rank[s] = rank[t] PROVE s = t
      <3>1. s.base \in Nat /\ t.base \in Nat
        BY <1>1 DEF MemTuple
      <3>2. ~(s.base < t.base) /\ ~(t.base < s.base)
        BY <1>4, <2>2
      <3> QED BY <1>2, <3>1, <3>2
    <2> HIDE DEF rank
    <2>3. IsInjective(rank)
      BY <2>1, <2>2 DEF IsInjective
    <2>4. PICK f, S : f = rank /\ S = 0..(N - 1)
      OBVIOUS
    <2>5. f \in [array -> S] /\ IsInjective(f)
      BY <2>1, <2>3, <2>4
    <2>6. f \in Injection(array, S)
      BY <2>5, Zenon DEF Injection
    <2> QED BY <2>4, <2>6
  <1>6. IsFiniteSet(0..(N - 1)) /\ Cardinality(0..(N - 1)) = N
    <2>1. PICK b \in Int : b = N - 1 /\ 0 \in Int
      BY <1>1
    <2>2. IsFiniteSet(0..b) /\ Cardinality(0..b) = IF 0 > b THEN 0 ELSE b - 0 + 1
      BY <2>1, FS_Interval, Zenon
    <2> QED BY <1>1, <2>1, <2>2
  <1>7. rank \in Surjection(array, 0..(N - 1))
    <2> HIDE DEF rank
    <2> QED BY <1>5, <1>6, FS_Injection
  <1>8. \A n \in 0..(N - 1) : \E t \in array : Cardinality(Before(t)) = n
    BY <1>7 DEF Surjection
  <1>9. \A n \in 1..N : Sorted(array)[n] = CHOOSE t \in array : Cardinality(Before(t)) = n - 1
    BY DEF Sorted, Before
  <1> HIDE DEF N
  <1>10. ASSUME NEW n \in 1..N
         PROVE  Sorted(array)[n] \in array /\ Cardinality(Before(Sorted(array)[n])) = n - 1
    <2>1. n - 1 \in 0..(N - 1)
      BY <1>1
    <2>2. \E t \in array : Cardinality(Before(t)) = n - 1
      BY <1>8, <2>1
    <2>3. Sorted(array)[n] = CHOOSE t \in array : Cardinality(Before(t)) = n - 1
      BY <1>9
    <2> QED BY <2>2, <2>3
  <1>11. ASSUME NEW t \in array PROVE \E n \in 1..N : Sorted(array)[n] = t
    <2>1. PICK n : n = Cardinality(Before(t)) + 1
      OBVIOUS
    <2>2. n \in 1..N /\ Cardinality(Before(t)) = n - 1
      BY <1>1, <1>3, <2>1
    <2>3. PICK s \in array : s = Sorted(array)[n] /\ Cardinality(Before(s)) = n - 1
      BY <1>10, <2>2
    <2>4. rank[s] = rank[t]
      BY <2>2, <2>3
    <2>5. s = t
      <3> HIDE DEF rank
      <3> QED BY <1>5, <2>4 DEF Injection, IsInjective
    <2> QED BY <2>2, <2>3, <2>5
  <1> QED
    BY <1>1, <1>10, <1>11 DEF N

-----------------------------------------------------------------------------
(* The backend *)

USE KernelFileAssumption

Places == Blocks \cup {FirstBlock}

Epoch == [blocks : SUBSET Places, entrances : SUBSET (Places \X Places),
          exits : SUBSET (Places \X Places), kernel : DOMAIN KernelFile \cup {NoKernel},
          rTuples : TupleSets, wTuples : TupleSets, malloc_ptrs : TupleSets,
          free_ptrs : SUBSET Addresses]

Touched == [r : SUBSET Nat, w : SUBSET Nat]

History == [strayed : SUBSET DOMAIN taskCandidates, live : SUBSET MemTuple, temporary : SUBSET MemTuple]

TypeOK ==
  /\ memoryActive \in BOOLEAN
  /\ epochs \in Seq(Epoch) /\ touched \in Seq(Touched) /\ Len(touched) = Len(epochs)
  /\ history \in Seq(History) /\ Len(history) = Len(epochs)
  /\ lastBlock \in Places
  /\ instToTuple \in [{LoadInst, StoreInst} -> TupleSets]
  /\ memoryActive => epochs # <<>>
  /\ epochs = <<>> => lastBlock = FirstBlock
  /\ memoryActive \/ epochs = <<>> => taskCommunication = <<>>

-----------------------------------------------------------------------------
(* Access patterns *)

\* Read tuples are merged with read tuples only, so they get no access pattern.
ReadTypes == {"Reader", "Memcpy", "Memmov"}
PlainReads(array) == \A t \in array : t.type \in ReadTypes /\ t.AP = "NA"

Plain(array) == \A t \in array : t.AP = "NA"

LEMMA MergePlain ==
  ASSUME NEW array \in TupleSets, NEW tuple \in Fitting, PlainReads(array), PlainReads({tuple})
  PROVE  PlainReads(merge_tuple_set(array, tuple))
  <1>1. PICK bytes, S : /\ bytes = AllBytes(array) \cup Bytes(tuple)
                        /\ S = {s \in MergeStates(array, bytes) : PlainReads(s.array) /\ PlainReads({s.tuple})}
    OBVIOUS
  <1>2. IsFiniteSet(array)
    BY DEF TupleSets
  <1>3. [array |-> array, tuple |-> tuple] \in S
    BY <1>1 DEF MergeStates
  <1>4. ASSUME NEW s \in S PROVE MergeNext(tuple, s) \in S
    <2>1. CASE Find(s.array, s.tuple) = {}
      BY <2>1 DEF MergeNext
    <2>2. CASE Find(s.array, s.tuple) # {}
      <3>1. MergeNext(tuple, s) \in MergeStates(array, bytes)
        BY <1>1, <2>2, MergeRound
      <3>2. PICK e : e = CHOOSE x \in Find(s.array, s.tuple) : TRUE
        OBVIOUS
      <3>3. e \in s.array
        BY <2>2, <3>2 DEF Find
      <3>4. PICK m : m = merge_tuples(Observed(e, tuple), s.tuple)
        OBVIOUS
      <3>5. MergeNext(tuple, s) = [array |-> s.array \ {e}, tuple |-> m]
        BY <2>2, <3>2, <3>4 DEF MergeNext
      <3>6. /\ e.type \in ReadTypes /\ e.AP = "NA" /\ s.tuple.type \in ReadTypes /\ s.tuple.AP = "NA"
            /\ tuple.type \in ReadTypes /\ PlainReads(s.array \ {e})
        BY <1>1, <3>3 DEF PlainReads
      <3>7. Observed(e, tuple).type = e.type /\ Observed(e, tuple).AP = "NA"
        <4>1. e \in MemTuple
          BY <1>1, <3>3 DEF MergeStates, TupleSets, Fitting
        <4> QED BY <3>6, <4>1 DEF Observed, ReadTypes, Readers, Writers, MemTuple
      <3>8. m.type \in ReadTypes /\ m.AP = "NA"
        BY <3>4, <3>6, <3>7 DEF merge_tuples
      <3>9. PICK after : after = MergeNext(tuple, s)
        OBVIOUS
      <3>10. after.array = s.array \ {e} /\ after.tuple = m
        BY <3>5, <3>9
      <3>11. PlainReads(after.array) /\ PlainReads({after.tuple})
        BY <3>6, <3>8, <3>10 DEF PlainReads
      <3> QED BY <1>1, <3>1, <3>9, <3>11
    <2> QED BY <2>1, <2>2
  <1>5. PICK g : MergesBy(g, array, tuple, S)
    BY <1>2, <1>3, <1>4, MergingRounds
  <1>6. PICK end : end = Merging(array, tuple) /\ end \in S
    <2>1. Cardinality(array) \in 0..Cardinality(array)
      BY <1>2, FS_CardinalityType
    <2> QED BY <1>5, <2>1 DEF MergesBy
  <1>7. merge_tuple_set(array, tuple) = Insert(end.array, end.tuple)
    BY <1>6 DEF merge_tuple_set
  <1> QED
    BY <1>1, <1>6, <1>7 DEF Insert, PlainReads

\* What is left of plain tuples is plain if the tuple taken out is.
LEMMA ExclusionPlain ==
  ASSUME NEW e, e.AP = "NA", NEW tuple, tuple.AP = "NA"
  PROVE  Plain(mem_tuple_exclusion(e, tuple))
  <1>1. PICK o : o = mem_tuple_overlap(e, tuple)
    OBVIOUS
  <1>2. mem_tuple_exclusion(e, tuple) \in {{e}, {}, {LeftPart(e, o)}, {RightPart(e, tuple, o)}}
    BY <1>1 DEF mem_tuple_exclusion
  <1>3. LeftPart(e, o).AP = "NA" /\ RightPart(e, tuple, o).AP = "NA"
    BY DEF LeftPart, RightPart
  <1> HIDE DEF LeftPart, RightPart
  <1> QED
    BY <1>2, <1>3 DEF Plain

LEMMA RemoveNextPlain ==
  ASSUME NEW array \in TupleSets, Plain(array), NEW tuple \in Fitting, tuple.AP = "NA"
  PROVE  RemoveNext(tuple, array) \in TupleSets /\ Plain(RemoveNext(tuple, array))
  <1>1. CASE Find(array, tuple) = {}
    BY <1>1 DEF RemoveNext
  <1>2. CASE Find(array, tuple) # {}
    <2>1. RemoveNext(tuple, array) \in TupleSets
      BY <1>2, RemoveRound
    <2>2. PICK e : e = CHOOSE x \in Find(array, tuple) : TRUE
      OBVIOUS
    <2>3. e \in array
      BY <1>2, <2>2 DEF Find
    <2>4. RemoveNext(tuple, array) = (array \ {e}) \cup mem_tuple_exclusion(e, tuple)
      BY <1>2, <2>2 DEF RemoveNext
    <2>5. Plain(mem_tuple_exclusion(e, tuple))
      BY <2>3, ExclusionPlain DEF Plain
    <2> QED BY <2>1, <2>4, <2>5 DEF Plain
  <1> QED BY <1>1, <1>2

LEMMA RemovePlain ==
  ASSUME NEW array \in TupleSets, Plain(array), NEW tuple \in Fitting, tuple.AP = "NA"
  PROVE  Plain(remove_tuple_set(array, tuple))
  <1>1. PICK S : S = {a \in TupleSets : Plain(a)}
    OBVIOUS
  <1>2. \A s \in S : RemoveNext(tuple, s) \in S
    BY <1>1, RemoveNextPlain
  <1>3. IsFiniteSet(array) /\ array \in S
    BY <1>1 DEF TupleSets
  <1>4. PICK g : RemovesBy(g, array, tuple, S)
    BY <1>2, <1>3, RemovingRounds
  <1>5. Cardinality(array) \in 0..Cardinality(array)
    BY <1>3, FS_CardinalityType
  <1> QED
    BY <1>1, <1>4, <1>5 DEF RemovesBy

LEMMA TupleFits ==
  ASSUME NEW type \in __TA_MemType, NEW address \in Addresses, NEW offset \in Nat
  PROVE  /\ Tuple(type, address, offset) \in Fitting
         /\ offset < OFFSET_SPAN => Bytes(Tuple(type, address, offset)) = address..(address + offset)
  <1> DEFINE t == Tuple(type, address, offset)
  <1>1. offset % OFFSET_SPAN \in 0..(OFFSET_SPAN - 1)
    BY OffsetAssumption
  <1>2. Offset32(offset) \in Nat /\ Offset32(offset) < OFFSET_SPAN
    BY <1>1, OffsetAssumption DEF Offset32
  <1>3. t = [type |-> type, AP |-> "NA", base |-> address, offset |-> Offset32(offset)]
    BY DEF Tuple
  <1>4. address \in Nat /\ address > 0
    OBVIOUS
  <1>5. t \in Fitting
    BY <1>2, <1>3, <1>4 DEF Fitting, MemTuple, __TA_TemporalAccess
  <1>6. offset < OFFSET_SPAN => Offset32(offset) = offset
    <2>1. offset < OFFSET_SPAN => offset \in 0..(OFFSET_SPAN - 1)
      BY OffsetAssumption
    <2> QED BY <2>1, OffsetFits
  <1> QED
    BY <1>3, <1>5, <1>6 DEF Bytes, LastByte

\* An access of the reading kind gives a read tuple.
LEMMA ReadPlain ==
  ASSUME NEW a \in TupleSets, PlainReads(a), NEW type \in ReadTypes,
         NEW address \in Addresses, NEW offset \in Nat
  PROVE  PlainReads(merge_tuple_set(a, Tuple(type, address, offset)))
  <1>1. PICK t : t = Tuple(type, address, offset)
    OBVIOUS
  <1>2. t \in Fitting
    BY <1>1, TupleFits DEF ReadTypes, __TA_MemType
  <1>3. PlainReads({t})
    BY <1>1 DEF PlainReads, Tuple
  <1> QED
    BY <1>1, <1>2, <1>3, MergePlain

\* No read tuple of the epoch has an access pattern, and no allocation.
PlainEpoch(e) == PlainReads(e.rTuples) /\ Plain(e.malloc_ptrs)

-----------------------------------------------------------------------------
(* What an access does *)

\* A working set a that owns what was touched becomes b, which owns these bytes too.
Grows(a, b, bytes) ==
  ShortRuns(Touchable) /\ AllBytes(a) \subseteq Touchable
    => /\ AllBytes(b) \subseteq Touchable
       /\ \A before \in SUBSET Nat : Records(a, before) => Records(b, before \cup bytes)

\* What an epoch allocated it remembers, or forgot where something else had been.
Kept(e, h) ==
  /\ \A m \in h.live \cup h.temporary : m \in e.malloc_ptrs \/ Forgotten(e, m)
  /\ \A m \in h.temporary : m.base \in e.free_ptrs

\* The history of the heap after an access that replaces the last epoch by n.
HeapKept(n) ==
  /\ history' \in Seq(History) /\ Len(history') = Len(history)
  /\ \A i \in DOMAIN epochs :
       /\ history'[i].strayed = history[i].strayed
       /\ Kept(epochs[i], history[i]) => Kept(IF i = current THEN n ELSE epochs[i], history'[i])

\* Every access replaces the last epoch by one that grew.
AccessOf(n, reads, writes) ==
  /\ memoryActive /\ n \in Epoch /\ n.blocks = epochs[current].blocks
  /\ reads \in SUBSET Nat /\ writes \in SUBSET Nat
  /\ Grows(epochs[current].rTuples, n.rTuples, reads)
  /\ Grows(epochs[current].wTuples, n.wTuples, writes)
  /\ PlainEpoch(epochs[current]) => PlainEpoch(n)
  /\ epochs' = [epochs EXCEPT ![current] = n]
  /\ touched' = [touched EXCEPT ![current] = [r |-> @.r \cup reads, w |-> @.w \cup writes]]
  /\ HeapKept(n)
  /\ instToTuple' \in [{LoadInst, StoreInst} -> TupleSets]
  /\ UNCHANGED <<memoryActive, lastBlock, taskCommunication>>

LEMMA ShortParts ==
  ASSUME NEW bytes, ShortRuns(bytes), NEW part, part \subseteq bytes
  PROVE  ShortRuns(part)
  BY DEF ShortRuns

LEMMA MergeGrows ==
  ASSUME NEW a \in TupleSets, NEW type \in __TA_MemType,
         NEW address \in Addresses, NEW size \in Sizes, NEW offset \in {size - 1, size}
  PROVE  /\ merge_tuple_set(a, Tuple(type, address, offset)) \in TupleSets
         /\ Grows(a, merge_tuple_set(a, Tuple(type, address, offset)), address..(address + size - 1))
  <1>1. PICK t, b : t = Tuple(type, address, offset) /\ b = merge_tuple_set(a, t)
    OBVIOUS
  <1>2. size \in Nat /\ size > 0 /\ offset \in Nat /\ address \in Nat /\ offset <= size
    OBVIOUS
  <1>3. t \in Fitting /\ (offset < OFFSET_SPAN => Bytes(t) = address..(address + offset))
    BY <1>1, <1>2, TupleFits
  <1>4. /\ b \in TupleSets /\ AllBytes(b) \subseteq AllBytes(a) \cup Bytes(t)
        /\ ShortRuns(AllBytes(a) \cup Bytes(t)) => AllBytes(b) = AllBytes(a) \cup Bytes(t)
    BY <1>1, <1>3, MergeSetIsUnion
  <1>5. ASSUME ShortRuns(Touchable), AllBytes(a) \subseteq Touchable,
               NEW before \in SUBSET Nat
        PROVE  /\ AllBytes(b) \subseteq Touchable
               /\ Records(a, before) => Records(b, before \cup address..(address + size - 1))
    <2>1. address..(address + size) \subseteq Touchable
      BY <1>2 DEF Touchable
    <2>2. size < OFFSET_SPAN
      <3>1. PICK last \in Nat : last = address + size
        BY <1>2
      <3>2. address \in Touchable /\ last \in Touchable
        BY <1>2, <2>1, <3>1
      <3>3. last - address < OFFSET_SPAN
        BY <1>5, <2>1, <3>1, <3>2 DEF ShortRuns
      <3> QED BY <1>2, <3>1, <3>3, OffsetAssumption
    <2>3. Bytes(t) = address..(address + offset)
      BY <1>2, <1>3, <2>2, OffsetAssumption
    <2>4. Bytes(t) \subseteq address..(address + size)
      BY <1>2, <2>3
    <2>5. AllBytes(b) = AllBytes(a) \cup Bytes(t) /\ AllBytes(b) \subseteq Touchable
      <3>1. AllBytes(a) \cup Bytes(t) \subseteq Touchable
        BY <1>5, <2>1, <2>4
      <3>2. ShortRuns(AllBytes(a) \cup Bytes(t))
        BY <1>5, <3>1, ShortParts
      <3> QED BY <1>4, <3>1, <3>2
    <2>6. ASSUME Records(a, before)
          PROVE  Records(b, before \cup address..(address + size - 1))
      <3>1. /\ before \subseteq AllBytes(a)
            /\ \A x \in AllBytes(a) : {x, x - 1} \cap before # {}
        BY <2>6 DEF Records
      <3>2. address..(address + size - 1) \subseteq Bytes(t)
        BY <1>2, <2>3
      <3>3. \A x \in Bytes(t) : {x, x - 1} \cap (address..(address + size - 1)) # {}
        <4>1. SUFFICES ASSUME NEW x \in Bytes(t)
                       PROVE  x \in address..(address + size - 1) \/ x - 1 \in address..(address + size - 1)
          OBVIOUS
        <4> QED BY <1>2, <2>3
      <3> QED BY <2>5, <3>1, <3>2, <3>3 DEF Records
    <2> QED BY <2>5, <2>6
  <1>6. Grows(a, b, address..(address + size - 1))
    BY <1>5 DEF Grows
  <1> QED
    BY <1>1, <1>4, <1>6

LEMMA StaysSo ==
  ASSUME NEW a PROVE Grows(a, a, {})
  BY DEF Grows

\* The last epoch, and what replaces it.
LEMMA LastEpoch ==
  ASSUME TypeOK, memoryActive
  PROVE  /\ current \in DOMAIN epochs /\ epochs[current] \in Epoch
         /\ DOMAIN touched = DOMAIN epochs /\ touched[current] \in Touched
         /\ DOMAIN history = DOMAIN epochs /\ history[current] \in History
  BY DEF TypeOK, current

\* What the heap does not do.
LEMMA SameHeap ==
  ASSUME TypeOK, memoryActive, UNCHANGED history, NEW n,
         n.malloc_ptrs = epochs[current].malloc_ptrs, n.free_ptrs = epochs[current].free_ptrs
  PROVE  HeapKept(n)
  BY DEF HeapKept, Kept, Forgotten, TypeOK

\* A tuple that is inserted is there, or another that overlaps it.
LEMMA InsertRemembers ==
  ASSUME NEW array \in TupleSets, NEW t \in Fitting
  PROVE  /\ array \subseteq Insert(array, t)
         /\ t \in Insert(array, t) \/ \E o \in Insert(array, t) : o # t /\ Bytes(o) \cap Bytes(t) # {}
  <1>1. array \subseteq MemTuple /\ t \in MemTuple
    BY DEF TupleSets, Fitting
  <1>2. CASE Find(array, t) = {}
    BY <1>2 DEF Insert
  <1>3. CASE Find(array, t) # {}
    <2>1. PICK o \in array : Equivalent(o, t)
      <3>1. array \subseteq Fitting
        BY DEF TupleSets
      <3>2. PICK o : o \in Find(array, t)
        BY <1>3
      <3> QED BY <3>1, <3>2, FindFinds
    <2>2. Bytes(o) \cap Bytes(t) # {} /\ Insert(array, t) = array
      BY <1>1, <1>3, <2>1, EqualIsOverlap DEF Overlap, Insert
    <2> QED BY <2>1, <2>2
  <1> QED BY <1>2, <1>3

LEMMA MallocKeeps ==
  ASSUME TypeOK, NEW address \in Addresses, NEW size \in Sizes, size - 1 \in Nat,
         MemoryMalloc(address, size), NEW n,
         n.malloc_ptrs = Insert(epochs[current].malloc_ptrs, Tuple("Malloc", address, size - 1)),
         n.free_ptrs = epochs[current].free_ptrs
  PROVE  HeapKept(n)
  <1>1. PICK c, e, h, m : /\ c = current /\ e = epochs[c] /\ h = history[c]
                          /\ m = Tuple("Malloc", address, size - 1)
    OBVIOUS
  <1>2. c \in DOMAIN epochs /\ e \in Epoch /\ h \in History /\ DOMAIN history = DOMAIN epochs
    BY <1>1, LastEpoch DEF MemoryMalloc, Access
  <1>3. m \in Fitting /\ m \in MemTuple
    <2>1. "Malloc" \in __TA_MemType
      BY DEF __TA_MemType
    <2> QED BY <1>1, <2>1, TupleFits DEF Fitting
  <1>4. PICK g : g = [h EXCEPT !.live = @ \cup {m}]
    OBVIOUS
  <1>5. /\ g \in History /\ g.strayed = h.strayed
        /\ g.live = h.live \cup {m} /\ g.temporary = h.temporary
    BY <1>2, <1>3, <1>4 DEF History
  <1>6. history' = [history EXCEPT ![c] = g]
    BY <1>1, <1>4 DEF MemoryMalloc
  <1>7. history' \in Seq(History) /\ Len(history') = Len(history)
    BY <1>2, <1>5, <1>6 DEF TypeOK
  <1>8. /\ e.malloc_ptrs \subseteq n.malloc_ptrs
        /\ m \in n.malloc_ptrs \/ Forgotten(n, m)
    <2>1. e.malloc_ptrs \in TupleSets
      BY <1>2 DEF Epoch
    <2> QED BY <1>1, <1>3, <2>1, InsertRemembers DEF Forgotten
  <1>9. Kept(e, h) => Kept(n, g)
    BY <1>1, <1>5, <1>8 DEF Kept, Forgotten
  <1>10. \A i \in DOMAIN epochs : history'[i] = IF i = c THEN g ELSE history[i]
    BY <1>2, <1>6
  <1> QED
    BY <1>1, <1>5, <1>7, <1>9, <1>10 DEF HeapKept

LEMMA FreeKeeps ==
  ASSUME TypeOK, NEW address \in Addresses, MemoryFree(address), NEW n,
         n.malloc_ptrs = epochs[current].malloc_ptrs,
         n.free_ptrs = epochs[current].free_ptrs \cup {address}
  PROVE  HeapKept(n)
  <1>1. PICK block : /\ \A m \in block : m.base = address
                     /\ history' = [i \in DOMAIN history |-> Released(i, block)]
    BY DEF MemoryFree
  <1>2. /\ memoryActive /\ DOMAIN history = DOMAIN epochs
        /\ \A i \in DOMAIN epochs : history[i] \in History
    BY LastEpoch DEF MemoryFree, Access, TypeOK
  <1>3. ASSUME NEW i \in DOMAIN epochs
        PROVE  /\ Released(i, block) \in History /\ Released(i, block).strayed = history[i].strayed
               /\ Released(i, block).live \subseteq history[i].live
               /\ i # current => Released(i, block).temporary = history[i].temporary
               /\ i = current => /\ Released(i, block).temporary \subseteq history[i].temporary \cup history[i].live
                                 /\ \A m \in Released(i, block).temporary :
                                      m \in history[i].temporary \/ m.base = address
    <2>1. PICK live, temporary :
            /\ live = history[i].live \ block
            /\ temporary = history[i].temporary
                              \cup IF i = current THEN history[i].live \cap block ELSE {}
      OBVIOUS
    <2>2. Released(i, block) = [strayed |-> history[i].strayed, live |-> live, temporary |-> temporary]
      BY <2>1 DEF Released
    <2>3. history[i] \in History
      BY <1>2
    <2>4. live \subseteq MemTuple /\ temporary \subseteq MemTuple /\ history[i].strayed \subseteq DOMAIN taskCandidates
      BY <2>1, <2>3 DEF History
    <2> QED BY <1>1, <2>1, <2>2, <2>4 DEF History
  <1>4. history' \in Seq(History) /\ Len(history') = Len(history)
    <2>1. \A i \in DOMAIN history : Released(i, block) \in History
      BY <1>2, <1>3
    <2> QED BY <1>1, <2>1 DEF TypeOK
  <1>5. ASSUME NEW i \in DOMAIN epochs, Kept(epochs[i], history[i])
        PROVE  Kept(IF i = current THEN n ELSE epochs[i], Released(i, block))
    <2>1. CASE i = current
      BY <1>3, <1>5, <2>1 DEF Kept, Forgotten
    <2>2. CASE i # current
      BY <1>3, <1>5, <2>2 DEF Kept
    <2> QED BY <2>1, <2>2
  <1> QED
    BY <1>1, <1>2, <1>3, <1>4, <1>5 DEF HeapKept

LEMMA FreeAccess ==
  ASSUME TypeOK, NEW address \in Addresses, MemoryFree(address)
  PROVE  \E n : AccessOf(n, {}, {})
  <1>1. PICK e : e = epochs[current]
    OBVIOUS
  <1>2. memoryActive /\ e \in Epoch /\ touched[current] \in Touched
    BY <1>1, LastEpoch DEF MemoryFree, Access
  <1>3. PICK n : n = [e EXCEPT !.free_ptrs = @ \cup {address}]
    OBVIOUS
  <1>4. /\ n \in Epoch /\ n.blocks = e.blocks /\ n.rTuples = e.rTuples /\ n.wTuples = e.wTuples
        /\ n.malloc_ptrs = e.malloc_ptrs /\ n.free_ptrs = e.free_ptrs \cup {address}
    BY <1>2, <1>3 DEF Epoch
  <1>5. epochs' = [epochs EXCEPT ![current] = n]
    BY <1>1, <1>3 DEF MemoryFree
  <1>6. touched' = [touched EXCEPT ![current] = [r |-> @.r \cup {}, w |-> @.w \cup {}]]
    BY <1>2 DEF MemoryFree, Touched, TypeOK
  <1>heap. HeapKept(n)
    BY <1>1, <1>4, FreeKeeps
  <1>7. AccessOf(n, {}, {})
    BY <1>1, <1>2, <1>4, <1>5, <1>6, <1>heap, StaysSo DEF AccessOf, PlainEpoch, MemoryFree, Access, TypeOK
  <1> QED BY <1>7

LEMMA Accesses ==
  ASSUME TypeOK, NEW address \in Addresses, NEW size \in Sizes, NEW snk \in Addresses,
         \/ MemoryStore(address, size) \/ MemoryLoad(address, size)
         \/ MemorySet(address, size) \/ MemoryMalloc(address, size)
         \/ MemoryCpy(address, snk, size) \/ MemoryMov(address, snk, size)
  PROVE  \E n, reads, writes : AccessOf(n, reads, writes)
  <1>1. PICK e : e = epochs[current]
    OBVIOUS
  <1>active. memoryActive
    BY DEF MemoryStore, MemoryLoad, MemorySet, MemoryMalloc, MemoryCpy, MemoryMov, CopyRange, Access
  <1>2. e \in Epoch /\ touched[current] \in Touched /\ current \in DOMAIN touched
    BY <1>1, <1>active, LastEpoch
  <1>3. size \in Nat /\ size > 0 /\ size - 1 \in {size - 1, size} /\ size \in {size - 1, size}
    OBVIOUS
  <1>4. e.rTuples \in TupleSets /\ e.wTuples \in TupleSets /\ e.malloc_ptrs \in TupleSets
    BY <1>2 DEF Epoch
  <1>5. \A t \in {"Reader", "Writer", "Memset", "Memmov", "Memcpy", "Malloc"} : t \in __TA_MemType
    BY DEF __TA_MemType
  <1>6. PICK first, sink : /\ first = address..(address + size - 1)
                           /\ sink = snk..(snk + size - 1)
    OBVIOUS
  <1>7. first \in SUBSET Nat /\ sink \in SUBSET Nat
    BY <1>3, <1>6
  <1> DEFINE In(array, t, a, offset) == merge_tuple_set(array, Tuple(t, a, offset))
  <1>8. \A array \in TupleSets, t \in __TA_MemType : \A offset \in {size - 1, size} :
          /\ In(array, t, address, offset) \in TupleSets /\ Grows(array, In(array, t, address, offset), first)
          /\ In(array, t, snk, offset) \in TupleSets /\ Grows(array, In(array, t, snk, offset), sink)
    BY <1>6, MergeGrows
  <1>plain. \A t \in ReadTypes : \A offset \in {size - 1, size} :
          PlainReads(e.rTuples) => PlainReads(In(e.rTuples, t, address, offset))
    <2>1. \A offset \in {size - 1, size} : offset \in Nat
      BY <1>3
    <2> QED BY <1>4, <2>1, ReadPlain
  <1> HIDE DEF In
  <1>9. instToTuple \in [{LoadInst, StoreInst} -> TupleSets]
    BY DEF TypeOK
  <1>10. CASE MemoryStore(address, size)
    <2>1. PICK w : w = In(e.wTuples, "Writer", address, size)
      OBVIOUS
    <2>2. w \in TupleSets /\ Grows(e.wTuples, w, first)
      BY <1>3, <1>4, <1>5, <1>8, <2>1
    <2>3. PICK n : n = [e EXCEPT !.wTuples = w]
      OBVIOUS
    <2>4. /\ n \in Epoch /\ n.blocks = e.blocks /\ n.rTuples = e.rTuples /\ n.wTuples = w
          /\ n.malloc_ptrs = e.malloc_ptrs /\ n.free_ptrs = e.free_ptrs
      BY <1>2, <2>2, <2>3 DEF Epoch
    <2>5. epochs' = [epochs EXCEPT ![current] = n]
      BY <1>1, <1>10, <2>1, <2>3 DEF MemoryStore, In
    <2>6. touched' = [touched EXCEPT ![current] = [r |-> @.r \cup {}, w |-> @.w \cup first]]
      BY <1>6, <1>10 DEF MemoryStore, Touch
    <2>7. instToTuple' \in [{LoadInst, StoreInst} -> TupleSets]
      <3>1. PICK i : i = In(instToTuple[StoreInst], "Writer", address, size)
        OBVIOUS
      <3>2. i \in TupleSets
        BY <1>3, <1>5, <1>8, <1>9, <3>1
      <3>3. instToTuple' = [instToTuple EXCEPT ![StoreInst] = i]
        BY <1>10, <3>1 DEF MemoryStore, In
      <3> QED BY <1>9, <3>2, <3>3
    <2>9. PlainEpoch(e) => PlainEpoch(n)
      BY <2>4 DEF PlainEpoch
    <2>heap. UNCHANGED history /\ HeapKept(n)
      <3>1. UNCHANGED history
        BY <1>10 DEF MemoryStore, Touch
      <3> QED BY <1>1, <1>active, <2>4, <3>1, SameHeap
    <2>8. AccessOf(n, {}, first)
      BY <1>1, <1>7, <1>10, <1>active, <2>2, <2>4, <2>5, <2>6, <2>7, <2>heap, <2>9, StaysSo DEF AccessOf, MemoryStore, Access
    <2> QED BY <2>8
  <1>11. CASE MemoryLoad(address, size)
    <2>1. PICK r : r = In(e.rTuples, "Reader", address, size)
      OBVIOUS
    <2>2. r \in TupleSets /\ Grows(e.rTuples, r, first)
      BY <1>3, <1>4, <1>5, <1>8, <2>1
    <2>3. PICK n : n = [e EXCEPT !.rTuples = r]
      OBVIOUS
    <2>4. /\ n \in Epoch /\ n.blocks = e.blocks /\ n.rTuples = r /\ n.wTuples = e.wTuples
          /\ n.malloc_ptrs = e.malloc_ptrs /\ n.free_ptrs = e.free_ptrs
      BY <1>2, <2>2, <2>3 DEF Epoch
    <2>5. epochs' = [epochs EXCEPT ![current] = n]
      BY <1>1, <1>11, <2>1, <2>3 DEF MemoryLoad, In
    <2>6. touched' = [touched EXCEPT ![current] = [r |-> @.r \cup first, w |-> @.w \cup {}]]
      BY <1>6, <1>11 DEF MemoryLoad, Touch
    <2>7. instToTuple' \in [{LoadInst, StoreInst} -> TupleSets]
      <3>1. PICK i : i = In(instToTuple[LoadInst], "Reader", address, size)
        OBVIOUS
      <3>2. i \in TupleSets
        BY <1>3, <1>5, <1>8, <1>9, <3>1
      <3>3. instToTuple' = [instToTuple EXCEPT ![LoadInst] = i]
        BY <1>11, <3>1 DEF MemoryLoad, In
      <3> QED BY <1>9, <3>2, <3>3
    <2>9. PlainEpoch(e) => PlainEpoch(n)
      <3>1. "Reader" \in ReadTypes
        BY DEF ReadTypes
      <3> QED BY <1>3, <1>plain, <2>1, <2>4, <3>1 DEF PlainEpoch
    <2>heap. UNCHANGED history /\ HeapKept(n)
      <3>1. UNCHANGED history
        BY <1>11 DEF MemoryLoad, Touch
      <3> QED BY <1>1, <1>active, <2>4, <3>1, SameHeap
    <2>8. AccessOf(n, first, {})
      BY <1>1, <1>7, <1>11, <1>active, <2>2, <2>4, <2>5, <2>6, <2>7, <2>heap, <2>9, StaysSo DEF AccessOf, MemoryLoad, Access
    <2> QED BY <2>8
  <1>12. CASE MemorySet(address, size)
    <2>1. PICK w : w = In(e.wTuples, "Memset", address, size - 1)
      OBVIOUS
    <2>2. w \in TupleSets /\ Grows(e.wTuples, w, first)
      BY <1>3, <1>4, <1>5, <1>8, <2>1
    <2>3. PICK n : n = [e EXCEPT !.wTuples = w]
      OBVIOUS
    <2>4. /\ n \in Epoch /\ n.blocks = e.blocks /\ n.rTuples = e.rTuples /\ n.wTuples = w
          /\ n.malloc_ptrs = e.malloc_ptrs /\ n.free_ptrs = e.free_ptrs
      BY <1>2, <2>2, <2>3 DEF Epoch
    <2>5. epochs' = [epochs EXCEPT ![current] = n]
      BY <1>1, <1>12, <2>1, <2>3 DEF MemorySet, In
    <2>6. touched' = [touched EXCEPT ![current] = [r |-> @.r \cup {}, w |-> @.w \cup first]]
      BY <1>6, <1>12 DEF MemorySet, Touch
    <2>9. PlainEpoch(e) => PlainEpoch(n)
      BY <2>4 DEF PlainEpoch
    <2>heap. UNCHANGED history /\ HeapKept(n)
      <3>1. UNCHANGED history
        BY <1>12 DEF MemorySet, Touch
      <3> QED BY <1>1, <1>active, <2>4, <3>1, SameHeap
    <2>8. AccessOf(n, {}, first)
      BY <1>1, <1>7, <1>9, <1>12, <1>active, <2>2, <2>4, <2>5, <2>6, <2>heap, <2>9, StaysSo DEF AccessOf, MemorySet, Access
    <2> QED BY <2>8
  <1>13. ASSUME NEW call, NEW t \in {"Memcpy", "Memmov"}, CopyRange(call, t, address, snk, size)
         PROVE  \E n, reads, writes : AccessOf(n, reads, writes)
    <2>1. PICK r, w : /\ r = In(e.rTuples, t, address, size - 1)
                      /\ w = In(e.wTuples, t, snk, size - 1)
      OBVIOUS
    <2>2. /\ r \in TupleSets /\ Grows(e.rTuples, r, first)
          /\ w \in TupleSets /\ Grows(e.wTuples, w, sink)
      BY <1>3, <1>4, <1>5, <1>8, <2>1
    <2>3. PICK n : n = [e EXCEPT !.rTuples = r, !.wTuples = w]
      OBVIOUS
    <2>4. /\ n \in Epoch /\ n.blocks = e.blocks /\ n.rTuples = r /\ n.wTuples = w
          /\ n.malloc_ptrs = e.malloc_ptrs /\ n.free_ptrs = e.free_ptrs
      BY <1>2, <2>2, <2>3 DEF Epoch
    <2>5. epochs' = [epochs EXCEPT ![current] = n]
      BY <1>1, <1>2, <1>13, <2>1, <2>3, <1>active, LastEpoch DEF CopyRange, In, Epoch
    <2>6. touched' = [touched EXCEPT ![current] = [r |-> @.r \cup first, w |-> @.w \cup sink]]
      BY <1>6, <1>13 DEF CopyRange, Touch
    <2>9. PlainEpoch(e) => PlainEpoch(n)
      <3>1. t \in ReadTypes
        BY DEF ReadTypes
      <3> QED BY <1>3, <1>plain, <2>1, <2>4, <3>1 DEF PlainEpoch
    <2>heap. UNCHANGED history /\ HeapKept(n)
      <3>1. UNCHANGED history
        BY <1>13 DEF CopyRange, Touch
      <3> QED BY <1>1, <1>active, <2>4, <3>1, SameHeap
    <2>8. AccessOf(n, first, sink)
      BY <1>1, <1>7, <1>9, <1>13, <1>active, <2>2, <2>4, <2>5, <2>6, <2>heap, <2>9 DEF AccessOf, CopyRange, Access
    <2> QED BY <2>8
  <1>14. CASE MemoryMalloc(address, size)
    <2>1. PICK m : m = Insert(e.malloc_ptrs, Tuple("Malloc", address, size - 1))
      OBVIOUS
    <2>2. m \in TupleSets
      <3>1. PICK t : t = Tuple("Malloc", address, size - 1)
        OBVIOUS
      <3>2. t \in Fitting
        BY <1>3, <1>5, <3>1, TupleFits
      <3> QED BY <1>4, <2>1, <3>1, <3>2, InsertKeeps
    <2>3. PICK n : n = [e EXCEPT !.malloc_ptrs = m]
      OBVIOUS
    <2>4. /\ n \in Epoch /\ n.blocks = e.blocks /\ n.rTuples = e.rTuples /\ n.wTuples = e.wTuples
          /\ n.malloc_ptrs = m /\ n.free_ptrs = e.free_ptrs
      BY <1>2, <2>2, <2>3 DEF Epoch
    <2>5. epochs' = [epochs EXCEPT ![current] = n]
      BY <1>1, <1>14, <2>1, <2>3 DEF MemoryMalloc
    <2>6. touched' = [touched EXCEPT ![current] = [r |-> @.r \cup {}, w |-> @.w \cup {}]]
      BY <1>2, <1>14 DEF MemoryMalloc, Touched, TypeOK
    <2>9. PlainEpoch(e) => PlainEpoch(n)
      <3>1. Tuple("Malloc", address, size - 1).AP = "NA"
        BY DEF Tuple
      <3> QED BY <2>1, <2>4, <3>1 DEF PlainEpoch, Plain, Insert
    <2>heap. HeapKept(n)
      BY <1>1, <1>3, <1>14, <2>1, <2>4, MallocKeeps
    <2>8. AccessOf(n, {}, {})
      BY <1>1, <1>9, <1>14, <1>active, <2>4, <2>5, <2>6, <2>heap, <2>9, StaysSo DEF AccessOf, MemoryMalloc, Access
    <2> QED BY <2>8
  <1> QED
    BY <1>10, <1>11, <1>12, <1>13, <1>14 DEF MemoryCpy, MemoryMov

-----------------------------------------------------------------------------
(* Loops over sets of tuples *)

LEMMA StaysIn ==
  ASSUME NEW N \in Nat, NEW S, NEW h, h[0] \in S,
         \A n \in 1..N : h[n - 1] \in S => h[n] \in S
  PROVE  \A n \in 0..N : h[n] \in S
  <1>1. PICK T : T = {n \in 0..N : h[n] \in S}
    OBVIOUS
  <1>2. 0 \in T
    BY <1>1
  <1>3. \A n \in 1..N : n \in 0..N
    OBVIOUS
  <1>4. \A n \in 1..N : n - 1 \in T => n \in T
    BY <1>1, <1>3
  <1> QED
    BY <1>1, <1>2, <1>4, UpTo

\* What every round takes away is gone in the end.
LEMMA Shrinking ==
  ASSUME NEW N \in Nat, NEW h, NEW K,
         \A n \in 1..N : AllBytes(h[n]) \subseteq AllBytes(h[n - 1]) \ K[n]
  PROVE  /\ AllBytes(h[N]) \subseteq AllBytes(h[0])
         /\ \A n \in 1..N : AllBytes(h[N]) \cap K[n] = {}
  <1>1. PICK T : T = {n \in 0..N : /\ AllBytes(h[n]) \subseteq AllBytes(h[0])
                                   /\ \A m \in 1..n : AllBytes(h[n]) \cap K[m] = {}}
    OBVIOUS
  <1>2. 0 \in T
    BY <1>1
  <1>3. ASSUME NEW n \in 1..N, n - 1 \in T PROVE n \in T
    <2>1. n \in 0..N /\ \A m \in 1..n : m = n \/ m \in 1..(n - 1)
      OBVIOUS
    <2>2. AllBytes(h[n]) \subseteq AllBytes(h[n - 1]) \ K[n]
      OBVIOUS
    <2>3. /\ AllBytes(h[n - 1]) \subseteq AllBytes(h[0])
          /\ \A m \in 1..(n - 1) : AllBytes(h[n - 1]) \cap K[m] = {}
      BY <1>1, <1>3
    <2> HIDE DEF AllBytes
    <2> QED BY <1>1, <2>1, <2>2, <2>3
  <1>4. N \in T
    <2>1. \A n \in 0..N : n \in T
      BY <1>2, <1>3, UpTo
    <2> QED BY <2>1
  <1> QED
    BY <1>1, <1>4

CleansBy(g, start, array) ==
  /\ g[0] = start /\ \A n \in 0..Cardinality(array) : g[n] \in TupleSets
  /\ \A n \in 1..Cardinality(array) : g[n] = remove_tuple_set(g[n - 1], Sorted(array)[n])
  /\ Walk(remove_tuple_set, start, array) = g[Cardinality(array)]

LEMMA CleaningRounds ==
  ASSUME NEW start \in TupleSets, NEW array \in TupleSets
  PROVE  \E g : CleansBy(g, start, array)
  <1> DEFINE N == Cardinality(array)
             Op(s, n) == remove_tuple_set(s, Sorted(array)[n])
             f == [n \in 1..N |-> [s \in TupleSets |-> Op(s, n)]]
             After(a) == a = [n \in 0..N |-> IF n = 0 THEN start ELSE Op(a[n - 1], n)]
             h == CHOOSE a : After(a)
  <1>1. N \in Nat /\ \A n \in 1..N : Sorted(array)[n] \in Fitting
    BY SortedWalks DEF TupleSets
  <1>2. \A s \in TupleSets, n \in 1..N : Op(s, n) \in TupleSets
    BY <1>1, RemoveSetIsOutside
  <1>3. Walk(remove_tuple_set, start, array) = h[N]
    BY DEF Walk
  <1> HIDE DEF N, Op
  <1>4. \E a : After(a)
    <2>1. f \in [1..N -> [TupleSets -> TupleSets]]
      BY <1>2
    <2>2. PICK g : Iterates(g, TupleSets, start, N, f)
      <3> HIDE DEF f
      <3> QED BY <1>1, <2>1, Iteration
    <2>3. \A n \in 1..N : g[n] = Op(g[n - 1], n)
      BY <2>2 DEF Iterates
    <2>4. After(g)
      BY <1>1, <2>2, <2>3 DEF Iterates
    <2> QED BY <2>4
  <1>5. After(h)
    <2> HIDE DEF After
    <2> QED BY <1>4
  <1> HIDE DEF h
  <1>6. /\ h[0] = start
        /\ \A n \in 1..N : n \in 0..N /\ n - 1 \in 0..N /\ h[n] = Op(h[n - 1], n)
    BY <1>1, <1>5
  <1>7. \A n \in 0..N : h[n] \in TupleSets
    <2>1. h[0] \in TupleSets /\ \A n \in 1..N : h[n - 1] \in TupleSets => h[n] \in TupleSets
      BY <1>2, <1>6
    <2> HIDE DEF f, After
    <2> QED BY <1>1, <2>1, StaysIn, Zenon
  <1> QED
    <2>1. CleansBy(h, start, array)
      BY <1>3, <1>6, <1>7 DEF CleansBy, N, Op
    <2> QED BY <2>1

\* Cleaning leaves no byte of a temporary.
LEMMA CleanedIsOutside ==
  ASSUME NEW e \in Epoch, NEW array \in TupleSets
  PROVE  /\ Cleaned(e, array) \in TupleSets
         /\ \A m \in Temporaries(e) : AllBytes(Cleaned(e, array)) \cap Bytes(m) = {}
  <1>1. PICK start, temps : start = LargeEnough(array) /\ temps = Temporaries(e)
    OBVIOUS
  <1>2. start \in TupleSets
    <2>1. {} \in TupleSets
      BY FS_EmptySet DEF TupleSets, Disjoint
    <2> QED BY <1>1, <2>1 DEF LargeEnough
  <1>3. temps \in TupleSets
    <2>1. e.malloc_ptrs \in TupleSets /\ temps \in SUBSET e.malloc_ptrs
      BY <1>1 DEF Epoch, Temporaries
    <2>2. IsFiniteSet(temps)
      BY <2>1, FS_Subset DEF TupleSets
    <2> QED BY <2>1, <2>2 DEF TupleSets, Disjoint
  <1>4. PICK g : CleansBy(g, start, temps)
    BY <1>2, <1>3, CleaningRounds
  <1>5. PICK N : N = Cardinality(temps)
    OBVIOUS
  <1>6. /\ N \in Nat /\ \A n \in 1..N : Sorted(temps)[n] \in temps
        /\ \A t \in temps : \E n \in 1..N : Sorted(temps)[n] = t
    BY <1>3, <1>5, SortedWalks
  <1>7. /\ g[0] = start /\ \A n \in 0..N : g[n] \in TupleSets
        /\ \A n \in 1..N : g[n] = remove_tuple_set(g[n - 1], Sorted(temps)[n])
        /\ Cleaned(e, array) = g[N]
    BY <1>1, <1>4, <1>5 DEF CleansBy, Cleaned
  <1>8. PICK K : K = [n \in 1..N |-> Bytes(Sorted(temps)[n])]
    OBVIOUS
  <1>9. ASSUME NEW n \in 1..N PROVE AllBytes(g[n]) \subseteq AllBytes(g[n - 1]) \ K[n]
    <2>1. n - 1 \in 0..N
      BY <1>6
    <2>2. g[n - 1] \in TupleSets /\ Sorted(temps)[n] \in Fitting
      BY <1>3, <1>6, <1>7, <2>1 DEF TupleSets
    <2> QED BY <1>7, <1>8, <2>2, RemoveSetIsOutside
  <1>10. \A n \in 1..N : AllBytes(g[N]) \cap K[n] = {}
    BY <1>6, <1>9, Shrinking
  <1>11. N \in 0..N
    BY <1>6
  <1> QED
    BY <1>1, <1>6, <1>7, <1>8, <1>10, <1>11

-----------------------------------------------------------------------------
(* The kernel of an epoch *)

LEMMA KernelOfMatches ==
  ASSUME NEW e
  PROVE  \/ KernelOf(e) = NoKernel /\ \A k \in DOMAIN taskCandidates : ~Matches(e, k)
         \/ KernelOf(e) \in DOMAIN taskCandidates /\ Matches(e, KernelOf(e))
  <1>1. PICK matching : matching = {k \in DOMAIN taskCandidates : Matches(e, k)}
    OBVIOUS
  <1>2. KernelOf(e) = IF matching = {} THEN NoKernel
                      ELSE CHOOSE k \in matching : \A o \in matching : k <= o
    BY <1>1 DEF KernelOf
  <1>3. DOMAIN taskCandidates \subseteq DOMAIN KernelFile
    BY DEF taskCandidates, kernels
  <1>4. matching \subseteq Nat
    BY <1>1, <1>3
  <1>5. CASE matching = {}
    BY <1>1, <1>2, <1>5
  <1>6. CASE matching # {}
    <2>1. \E k \in matching : \A o \in matching : k <= o
      BY <1>4, <1>6, LeastNat
    <2>2. KernelOf(e) \in matching
      BY <1>2, <1>6, <2>1
    <2> QED BY <1>1, <2>2
  <1> QED BY <1>5, <1>6

LEMMA ProcessedIs ==
  ASSUME NEW e \in Epoch
  PROVE  LET p == Processed(e) IN
         /\ p \in Epoch /\ p.kernel = KernelOf(e) /\ p.blocks = e.blocks
         /\ p.malloc_ptrs = e.malloc_ptrs /\ p.free_ptrs = e.free_ptrs
         /\ \A m \in Temporaries(e) : AllBytes(TuplesOf(p)) \cap Bytes(m) = {}
  <1>1. PICK r, w, k, p : /\ r = Cleaned(e, e.rTuples) /\ w = Cleaned(e, e.wTuples)
                          /\ k = KernelOf(e) /\ p = Processed(e)
    OBVIOUS
  <1>2. /\ r \in TupleSets /\ w \in TupleSets
        /\ \A m \in Temporaries(e) : AllBytes(r) \cap Bytes(m) = {} /\ AllBytes(w) \cap Bytes(m) = {}
    BY <1>1, CleanedIsOutside DEF Epoch
  <1>3. k \in DOMAIN KernelFile \cup {NoKernel}
    BY <1>1, KernelOfMatches DEF taskCandidates, kernels
  <1>4. p = [e EXCEPT !.kernel = k, !.rTuples = r, !.wTuples = w]
    BY <1>1 DEF Processed, Epoch
  <1>5. /\ p \in Epoch /\ p.kernel = k /\ p.blocks = e.blocks
        /\ p.malloc_ptrs = e.malloc_ptrs /\ p.free_ptrs = e.free_ptrs
        /\ p.rTuples = r /\ p.wTuples = w
    BY <1>2, <1>3, <1>4 DEF Epoch
  <1>6. AllBytes(TuplesOf(p)) = AllBytes(r) \cup AllBytes(w)
    BY <1>5 DEF AllBytes, TuplesOf
  <1> QED
    BY <1>1, <1>2, <1>5, <1>6

-----------------------------------------------------------------------------
(* The invariant *)

\* What a step is: the seven accesses have one form.
LEMMA Steps ==
  ASSUME TypeOK, [Next]_vars
  PROVE  \/ MemoryInit
         \/ \E a \in Blocks : IncrementInside(a) \/ IncrementAcross(a)
         \/ \E n, reads, writes : AccessOf(n, reads, writes)
         \/ MemoryDestroy
         \/ UNCHANGED vars
  <1>1. ASSUME NEW address \in Addresses, NEW size \in Sizes,
               \/ MemoryStore(address, size) \/ MemoryLoad(address, size)
               \/ MemorySet(address, size) \/ MemoryMalloc(address, size)
               \/ \E snk \in Addresses : MemoryCpy(address, snk, size) \/ MemoryMov(address, snk, size)
        PROVE  \E n, reads, writes : AccessOf(n, reads, writes)
    BY <1>1, Accesses
  <1>2. ASSUME NEW address \in Addresses, MemoryFree(address)
        PROVE  \E n, reads, writes : AccessOf(n, reads, writes)
    BY <1>2, FreeAccess
  <1> QED
    BY <1>1, <1>2 DEF Next

LEMMA InitType == Init => TypeOK
  <1> SUFFICES ASSUME Init PROVE TypeOK
    OBVIOUS
  <1>1. {} \in TupleSets
    BY FS_EmptySet DEF TupleSets, Disjoint
  <1>2. instToTuple \in [{LoadInst, StoreInst} -> TupleSets]
    BY <1>1 DEF Init
  <1>3. /\ epochs \in Seq(Epoch) /\ touched \in Seq(Touched) /\ Len(touched) = Len(epochs)
        /\ history \in Seq(History) /\ Len(history) = Len(epochs)
    BY DEF Init
  <1> QED
    BY <1>2, <1>3 DEF Init, TypeOK, Places

LEMMA NewEpochFits ==
  ASSUME NEW from \in Places, NEW to \in Places
  PROVE  NewEpoch(from, to) \in Epoch
  <1>1. {} \in TupleSets
    BY FS_EmptySet DEF TupleSets, Disjoint
  <1> QED
    BY <1>1 DEF NewEpoch, Epoch

LEMMA NewHistoryFits == NothingDone \in History
  BY DEF NothingDone, History

\* A block that joins the last epoch.
LEMMA InsideEpoch ==
  ASSUME TypeOK, NEW a \in Blocks, IncrementInside(a)
  PROVE  \E h : /\ h \in History /\ h.strayed = history[current].strayed \cup Strays(<<lastBlock, a>>)
                /\ h.live = history[current].live /\ h.temporary = history[current].temporary
                /\ history' = [history EXCEPT ![current] = h]
                /\ history' \in Seq(History) /\ Len(history') = Len(history)
  <1>1. current \in DOMAIN history /\ history[current] \in History
    BY LastEpoch DEF IncrementInside
  <1>2. PICK s : s = Strays(<<lastBlock, a>>) /\ s \subseteq DOMAIN taskCandidates
    BY DEF Strays
  <1>3. PICK h : h = [history[current] EXCEPT !.strayed = @ \cup s]
    OBVIOUS
  <1>4. /\ h \in History /\ h.strayed = history[current].strayed \cup s
        /\ h.live = history[current].live /\ h.temporary = history[current].temporary
    BY <1>1, <1>2, <1>3 DEF History
  <1>5. history' = [history EXCEPT ![current] = h]
    BY <1>2, <1>3 DEF IncrementInside
  <1>6. history' \in Seq(History) /\ Len(history') = Len(history)
    BY <1>1, <1>4, <1>5 DEF TypeOK
  <1> QED BY <1>2, <1>4, <1>5, <1>6

\* An edge that matters ends the last epoch and starts one.
LEMMA EndOfEpoch ==
  ASSUME TypeOK, NEW a \in Blocks, IncrementAcross(a)
  PROVE  \E n, es :
           /\ n \in Epoch /\ n.blocks = epochs[current].blocks
           /\ n.rTuples = epochs[current].rTuples /\ n.wTuples = epochs[current].wTuples
           /\ n.malloc_ptrs = epochs[current].malloc_ptrs /\ n.free_ptrs = epochs[current].free_ptrs
           /\ es = [epochs EXCEPT ![current] = n]
           /\ es \in Seq(Epoch) /\ Len(es) = Len(epochs) /\ DOMAIN es = DOMAIN epochs
           /\ epochs' = Append(es, NewEpoch(lastBlock, a))
           /\ history' = Append(history, NothingDone)
           /\ history' \in Seq(History) /\ Len(history') = Len(history) + 1
  <1>1. /\ current \in DOMAIN epochs /\ epochs[current] \in Epoch
        /\ a \in Places /\ lastBlock \in Places
    BY LastEpoch DEF IncrementAcross, Places, TypeOK
  <1>2. PICK n, es : /\ n = [epochs[current] EXCEPT !.exits = @ \cup {<<lastBlock, a>>}]
                     /\ es = [epochs EXCEPT ![current] = n]
    OBVIOUS
  <1>3. /\ n \in Epoch /\ n.blocks = epochs[current].blocks
        /\ n.rTuples = epochs[current].rTuples /\ n.wTuples = epochs[current].wTuples
        /\ n.malloc_ptrs = epochs[current].malloc_ptrs /\ n.free_ptrs = epochs[current].free_ptrs
    BY <1>1, <1>2 DEF Epoch
  <1>4. epochs' = Append(es, NewEpoch(lastBlock, a))
    BY <1>2 DEF IncrementAcross
  <1>6. history' = Append(history, NothingDone)
    BY DEF IncrementAcross
  <1>7. history' \in Seq(History) /\ Len(history') = Len(history) + 1
    BY <1>6, NewHistoryFits DEF TypeOK
  <1>5. es \in Seq(Epoch) /\ Len(es) = Len(epochs) /\ DOMAIN es = DOMAIN epochs
    BY <1>1, <1>2, <1>3 DEF TypeOK, current
  <1> QED
    BY <1>2, <1>3, <1>4, <1>5, <1>6, <1>7

LEMMA NextType ==
  ASSUME TypeOK, [Next]_vars
  PROVE  TypeOK'
  <1>1. CASE MemoryInit
    <2>1. NewEpoch(FirstBlock, FirstBlock) \in Epoch /\ NothingTouched \in Touched
      BY NewEpochFits DEF Places, NothingTouched, Touched
    <2> QED BY <1>1, <2>1, NewHistoryFits DEF MemoryInit, TypeOK
  <1>2. ASSUME NEW a \in Blocks, IncrementInside(a) PROVE TypeOK'
    <2>1. current \in DOMAIN epochs /\ epochs[current] \in Epoch /\ a \in Places
      BY <1>2, LastEpoch DEF IncrementInside, Places
    <2>2. PICK n : n = [epochs[current] EXCEPT !.blocks = @ \cup {a}]
      OBVIOUS
    <2>3. n \in Epoch
      BY <2>1, <2>2 DEF Epoch
    <2>4. epochs' = [epochs EXCEPT ![current] = n]
      BY <1>2, <2>2 DEF IncrementInside
    <2>5. epochs' \in Seq(Epoch) /\ Len(epochs') = Len(epochs) /\ epochs' # <<>>
      BY <2>1, <2>3, <2>4 DEF TypeOK, current
    <2>6. history' \in Seq(History) /\ Len(history') = Len(history)
      BY <1>2, InsideEpoch
    <2> QED BY <1>2, <2>1, <2>5, <2>6 DEF IncrementInside, TypeOK
  <1>3. ASSUME NEW a \in Blocks, IncrementAcross(a) PROVE TypeOK'
    <2>1. PICK n, es : /\ es \in Seq(Epoch) /\ Len(es) = Len(epochs)
                       /\ epochs' = Append(es, NewEpoch(lastBlock, a))
                       /\ history' \in Seq(History) /\ Len(history') = Len(history) + 1
      BY <1>3, EndOfEpoch
    <2>2. NewEpoch(lastBlock, a) \in Epoch /\ a \in Places
      BY NewEpochFits DEF Places, TypeOK
    <2>3. epochs' \in Seq(Epoch) /\ Len(epochs') = Len(epochs) + 1 /\ epochs' # <<>>
      <3>1. PICK new : new = NewEpoch(lastBlock, a) /\ new \in Epoch /\ epochs' = Append(es, new)
        BY <2>1, <2>2
      <3>2. Append(es, new) \in Seq(Epoch) /\ Len(Append(es, new)) = Len(es) + 1 /\ Len(es) \in Nat
        BY <2>1, <3>1
      <3>3. Append(es, new) # <<>>
        <4>1. Len(Append(es, new)) # 0
          BY <3>2
        <4>2. Len(<<>>) = 0
          OBVIOUS
        <4> QED BY <4>1, <4>2
      <3> QED BY <2>1, <3>1, <3>2, <3>3
    <2>4. touched' \in Seq(Touched) /\ Len(touched') = Len(epochs) + 1
      <3>1. NothingTouched \in Touched
        BY DEF NothingTouched, Touched
      <3>2. touched' = Append(touched, NothingTouched)
        BY <1>3 DEF IncrementAcross
      <3> QED BY <3>1, <3>2 DEF TypeOK
    <2> QED BY <1>3, <2>1, <2>2, <2>3, <2>4 DEF IncrementAcross, TypeOK
  <1>4. ASSUME NEW n, NEW reads, NEW writes, AccessOf(n, reads, writes) PROVE TypeOK'
    <2>1. /\ current \in DOMAIN epochs /\ touched[current] \in Touched
          /\ DOMAIN touched = DOMAIN epochs
      BY <1>4, LastEpoch DEF AccessOf
    <2>2. epochs' \in Seq(Epoch) /\ Len(epochs') = Len(epochs) /\ epochs' # <<>>
      BY <1>4, <2>1 DEF AccessOf, TypeOK, current
    <2>3. PICK t : t = [r |-> touched[current].r \cup reads, w |-> touched[current].w \cup writes]
      OBVIOUS
    <2>4. t \in Touched /\ touched' = [touched EXCEPT ![current] = t]
      BY <1>4, <2>1, <2>3 DEF AccessOf, Touched
    <2>5. touched' \in Seq(Touched) /\ Len(touched') = Len(touched)
      BY <2>1, <2>4 DEF TypeOK, current
    <2> QED BY <1>4, <2>2, <2>5 DEF AccessOf, HeapKept, TypeOK
  <1>5. CASE MemoryDestroy
    <2>1. epochs' = [i \in DOMAIN epochs |-> Processed(epochs[i])]
      BY <1>5 DEF MemoryDestroy
    <2>2. \A i \in DOMAIN epochs : Processed(epochs[i]) \in Epoch
      BY ProcessedIs DEF TypeOK
    <2>3. epochs' \in Seq(Epoch) /\ Len(epochs') = Len(epochs) /\ epochs' # <<>>
      BY <1>5, <2>1, <2>2 DEF TypeOK, MemoryDestroy
    <2> QED BY <1>5, <2>3 DEF MemoryDestroy, TypeOK
  <1>6. CASE UNCHANGED vars
    BY <1>6 DEF vars, TypeOK
  <1> QED
    BY <1>1, <1>2, <1>3, <1>4, <1>5, <1>6, Steps

LEMMA TypeAlways == Spec => []TypeOK
  BY InitType, NextType, PTL DEF Spec

\* The tuples of every set stay disjoint, so that the order of the sets is one.
THEOREM SetsStayDisjoint == Spec => []WorkingSetsDisjoint
  <1>1. TypeOK => WorkingSetsDisjoint
    <2> SUFFICES ASSUME TypeOK PROVE WorkingSetsDisjoint
      OBVIOUS
    <2>1. \A i \in DOMAIN epochs : epochs[i] \in Epoch
      BY DEF TypeOK
    <2>2. \A v \in DOMAIN instToTuple : instToTuple[v] \in TupleSets
      BY DEF TypeOK
    <2> QED BY <2>1, <2>2 DEF WorkingSetsDisjoint, Epoch, TupleSets
  <1> QED
    BY <1>1, TypeAlways, PTL

-----------------------------------------------------------------------------
(* What the epochs record *)

Known(e, t) ==
  /\ AllBytes(e.rTuples) \subseteq Touchable /\ Records(e.rTuples, t.r)
  /\ AllBytes(e.wTuples) \subseteq Touchable /\ Records(e.wTuples, t.w)

RecordsInv == memoryActive => \A i \in DOMAIN epochs : Known(epochs[i], touched[i])

LEMMA NewIsKnown ==
  ASSUME NEW from, NEW to
  PROVE  Known(NewEpoch(from, to), NothingTouched)
  BY DEF Known, Records, AllBytes, NewEpoch, NothingTouched

LEMMA NextRecords ==
  ASSUME ShortRuns(Touchable), TypeOK, RecordsInv, [Next]_vars
  PROVE  RecordsInv'
  <1>1. CASE MemoryInit
    <2>1. /\ epochs' = <<NewEpoch(FirstBlock, FirstBlock)>>
          /\ touched' = <<NothingTouched>>
      BY <1>1 DEF MemoryInit
    <2>2. \A i \in DOMAIN epochs' : epochs'[i] = NewEpoch(FirstBlock, FirstBlock) /\ touched'[i] = NothingTouched
      BY <2>1
    <2> QED BY <2>2, NewIsKnown DEF RecordsInv
  <1>2. ASSUME NEW a \in Blocks, IncrementInside(a) PROVE RecordsInv'
    <2>1. \A i \in DOMAIN epochs : epochs[i] \in Epoch /\ Known(epochs[i], touched[i])
      BY <1>2 DEF IncrementInside, RecordsInv, TypeOK
    <2>2. PICK n : n = [epochs[current] EXCEPT !.blocks = @ \cup {a}]
      OBVIOUS
    <2>3. current \in DOMAIN epochs
      BY <1>2, LastEpoch DEF IncrementInside
    <2>4. n.rTuples = epochs[current].rTuples /\ n.wTuples = epochs[current].wTuples
      BY <2>1, <2>2, <2>3 DEF Epoch
    <2>5. Known(n, touched[current])
      BY <2>1, <2>3, <2>4 DEF Known
    <2>6. epochs' = [epochs EXCEPT ![current] = n] /\ touched' = touched
      BY <1>2, <2>2 DEF IncrementInside
    <2> QED BY <2>1, <2>5, <2>6 DEF RecordsInv
  <1>3. ASSUME NEW a \in Blocks, IncrementAcross(a) PROVE RecordsInv'
    <2>1. PICK n, es :
            /\ n.rTuples = epochs[current].rTuples /\ n.wTuples = epochs[current].wTuples
            /\ es = [epochs EXCEPT ![current] = n]
            /\ es \in Seq(Epoch) /\ Len(es) = Len(epochs) /\ DOMAIN es = DOMAIN epochs
            /\ epochs' = Append(es, NewEpoch(lastBlock, a))
      BY <1>3, EndOfEpoch
    <2>2. /\ \A i \in DOMAIN epochs : Known(epochs[i], touched[i])
          /\ touched' = Append(touched, NothingTouched)
      BY <1>3 DEF IncrementAcross, RecordsInv
    <2>3. current \in DOMAIN epochs
      BY <1>3, LastEpoch DEF IncrementAcross
    <2>4. Known(n, touched[current])
      BY <2>1, <2>2, <2>3 DEF Known
    <2>5. \A i \in DOMAIN epochs : Known(es[i], touched[i])
      BY <2>1, <2>2, <2>4
    <2>6. ASSUME NEW i \in DOMAIN epochs'
          PROVE  \/ i \in DOMAIN epochs /\ epochs'[i] = es[i] /\ touched'[i] = touched[i]
                 \/ epochs'[i] = NewEpoch(lastBlock, a) /\ touched'[i] = NothingTouched
      BY <2>1, <2>2 DEF TypeOK
    <2> QED BY <2>5, <2>6, NewIsKnown DEF RecordsInv
  <1>4. ASSUME NEW n, NEW reads, NEW writes, AccessOf(n, reads, writes) PROVE RecordsInv'
    <2>1. \A i \in DOMAIN epochs : Known(epochs[i], touched[i])
      BY <1>4 DEF AccessOf, RecordsInv
    <2>2. PICK c, e, t : c = current /\ e = epochs[c] /\ t = touched[c]
      OBVIOUS
    <2>3. c \in DOMAIN epochs /\ t \in Touched /\ DOMAIN touched = DOMAIN epochs
      BY <1>4, <2>2, LastEpoch DEF AccessOf
    <2>4. Known(e, t) /\ t.r \in SUBSET Nat /\ t.w \in SUBSET Nat
      BY <2>1, <2>2, <2>3 DEF Touched
    <2>5. /\ Grows(e.rTuples, n.rTuples, reads) /\ Grows(e.wTuples, n.wTuples, writes)
      BY <1>4, <2>2 DEF AccessOf
    <2>6. PICK u : u = [r |-> t.r \cup reads, w |-> t.w \cup writes]
      OBVIOUS
    <2>7. Known(n, u)
      BY <2>4, <2>5, <2>6 DEF Known, Grows
    <2>8. epochs' = [epochs EXCEPT ![c] = n] /\ touched' = [touched EXCEPT ![c] = u]
      BY <1>4, <2>2, <2>3, <2>6 DEF AccessOf
    <2> QED BY <2>1, <2>3, <2>7, <2>8 DEF RecordsInv
  <1>5. CASE MemoryDestroy
    BY <1>5 DEF MemoryDestroy, RecordsInv
  <1>6. CASE UNCHANGED vars
    BY <1>6 DEF vars, RecordsInv
  <1> QED
    BY <1>1, <1>2, <1>3, <1>4, <1>5, <1>6, Steps

\* The working sets own what was touched, however the accesses overlap.
THEOREM WorkingSetsKnown ==
  ASSUME ShortRuns(Touchable)
  PROVE  Spec => []WorkingSetsRecord
  <1>1. Init => RecordsInv
    BY DEF Init, RecordsInv
  <1>2. RecordsInv => WorkingSetsRecord
    BY DEF RecordsInv, WorkingSetsRecord, Known
  <1>3. TypeOK /\ RecordsInv /\ [Next]_vars => RecordsInv'
    BY NextRecords
  <1> QED
    BY <1>1, <1>2, <1>3, TypeAlways, PTL DEF Spec

-----------------------------------------------------------------------------
(* The kernels and the temporaries of the processed epochs *)

\* An epoch runs inside of a hierarchy or outside of it, or strayed over its border.
OnOneSide(e, strayed) ==
  /\ IsFiniteSet(e.blocks) /\ e.blocks # {}
  /\ \A k \in DOMAIN taskCandidates \ strayed :
       e.blocks \subseteq taskCandidates[k] \/ e.blocks \cap taskCandidates[k] = {}

SidesInv ==
  memoryActive => /\ \A i \in DOMAIN epochs : OnOneSide(epochs[i], history[i].strayed)
                  /\ lastBlock \in epochs[current].blocks

LEMMA NewOnOneSide ==
  ASSUME NEW from, NEW to, NEW strayed
  PROVE  OnOneSide(NewEpoch(from, to), strayed) /\ to \in NewEpoch(from, to).blocks
  <1>1. IsFiniteSet({to})
    BY FS_Singleton
  <1> QED BY <1>1 DEF OnOneSide, NewEpoch

LEMMA NextSides ==
  ASSUME TypeOK, SidesInv, [Next]_vars
  PROVE  SidesInv'
  <1>1. CASE MemoryInit
    <2>1. PICK new : new = NewEpoch(FirstBlock, FirstBlock)
      OBVIOUS
    <2>2. epochs = <<>> /\ epochs' = <<new>> /\ lastBlock' = lastBlock
      BY <1>1, <2>1 DEF MemoryInit
    <2>3. /\ lastBlock' = FirstBlock /\ FirstBlock \in new.blocks
          /\ \A strayed : OnOneSide(new, strayed)
      BY <2>1, <2>2, NewOnOneSide DEF TypeOK
    <2>4. Len(epochs') = 1 /\ \A i \in DOMAIN epochs' : epochs'[i] = new
      BY <2>2
    <2>5. current' = 1 /\ epochs'[current'] = new
      BY <2>2, <2>4 DEF current
    <2> QED BY <2>3, <2>4, <2>5 DEF SidesInv
  <1>2. ASSUME NEW a \in Blocks, IncrementInside(a) PROVE SidesInv'
    <2>1. PICK c, e, n : c = current /\ e = epochs[c] /\ n = [e EXCEPT !.blocks = @ \cup {a}]
      OBVIOUS
    <2>2. /\ c \in DOMAIN epochs /\ e \in Epoch /\ OnOneSide(e, history[c].strayed)
          /\ lastBlock \in e.blocks /\ DOMAIN history = DOMAIN epochs
      BY <1>2, <2>1, LastEpoch DEF IncrementInside, SidesInv
    <2>3. n.blocks = e.blocks \cup {a}
      BY <2>1, <2>2 DEF Epoch
    <2>4. /\ <<lastBlock, a>> \in Flow /\ <<lastBlock, a>> \notin epochBoundaries
          /\ epochs' = [epochs EXCEPT ![c] = n] /\ lastBlock' = a /\ memoryActive
      BY <1>2, <2>1 DEF IncrementInside
    <2>5. PICK h : /\ h.strayed = history[c].strayed \cup Strays(<<lastBlock, a>>)
                   /\ history' = [history EXCEPT ![c] = h]
      BY <1>2, <2>1, InsideEpoch
    <2>10. \A k \in DOMAIN taskCandidates \ h.strayed :
             /\ k \notin history[c].strayed
             /\ lastBlock \in taskCandidates[k] <=> a \in taskCandidates[k]
      <3>1. <<lastBlock, a>> \notin KnownEdges
        BY <2>4 DEF KnownEdges, epochBoundaries
      <3> QED BY <2>5, <3>1 DEF Strays
    <2>6. IsFiniteSet(n.blocks) /\ n.blocks # {}
      BY <2>2, <2>3, FS_AddElement DEF OnOneSide
    <2>7. OnOneSide(n, h.strayed)
      <3>1. ASSUME NEW k \in DOMAIN taskCandidates \ h.strayed
            PROVE  n.blocks \subseteq taskCandidates[k] \/ n.blocks \cap taskCandidates[k] = {}
        <4>1. e.blocks \subseteq taskCandidates[k] \/ e.blocks \cap taskCandidates[k] = {}
          BY <2>2, <2>10 DEF OnOneSide
        <4> QED BY <2>2, <2>3, <2>10, <4>1
      <3> QED BY <2>6, <3>1 DEF OnOneSide
    <2>8. current' = c /\ epochs'[c] = n
      BY <2>1, <2>2, <2>4 DEF current, TypeOK
    <2>9. \A i \in DOMAIN epochs' : OnOneSide(epochs'[i], history'[i].strayed)
      <3>1. \A i \in DOMAIN epochs' :
              /\ i \in DOMAIN epochs /\ i \in DOMAIN history
              /\ \/ i = c /\ epochs'[i] = n /\ history'[i] = h
                 \/ epochs'[i] = epochs[i] /\ history'[i] = history[i]
        BY <2>2, <2>4, <2>5
      <3>2. \A i \in DOMAIN epochs : OnOneSide(epochs[i], history[i].strayed)
        BY <2>4 DEF SidesInv
      <3> QED BY <2>7, <3>1, <3>2
    <2> QED BY <2>3, <2>4, <2>8, <2>9 DEF SidesInv
  <1>3. ASSUME NEW a \in Blocks, IncrementAcross(a) PROVE SidesInv'
    <2>1. PICK n, es :
            /\ n.blocks = epochs[current].blocks /\ es = [epochs EXCEPT ![current] = n]
            /\ es \in Seq(Epoch) /\ Len(es) = Len(epochs) /\ DOMAIN es = DOMAIN epochs
            /\ epochs' = Append(es, NewEpoch(lastBlock, a))
            /\ history' = Append(history, NothingDone)
      BY <1>3, EndOfEpoch
    <2>2. /\ current \in DOMAIN epochs
          /\ \A i \in DOMAIN epochs : OnOneSide(epochs[i], history[i].strayed)
      BY <1>3, LastEpoch DEF IncrementAcross, SidesInv
    <2>3. OnOneSide(n, history[current].strayed)
      BY <2>1, <2>2 DEF OnOneSide
    <2>4. \A i \in DOMAIN es : OnOneSide(es[i], history[i].strayed)
      BY <2>1, <2>2, <2>3
    <2>5. PICK new : new = NewEpoch(lastBlock, a)
      OBVIOUS
    <2>6. lastBlock' = a /\ (\A strayed : OnOneSide(new, strayed)) /\ a \in new.blocks
      BY <1>3, <2>5, NewOnOneSide DEF IncrementAcross
    <2>7. /\ Len(epochs') = Len(epochs) + 1 /\ epochs'[Len(epochs) + 1] = new
          /\ \A i \in DOMAIN epochs' : \/ i \in DOMAIN es /\ epochs'[i] = es[i] /\ history'[i] = history[i]
                                       \/ epochs'[i] = new
      BY <2>1, <2>5 DEF TypeOK
    <2>8. epochs'[current'] = new
      BY <2>7 DEF current
    <2> QED BY <2>4, <2>6, <2>7, <2>8 DEF SidesInv
  <1>4. ASSUME NEW n, NEW reads, NEW writes, AccessOf(n, reads, writes) PROVE SidesInv'
    <2>1. PICK c, e : c = current /\ e = epochs[c]
      OBVIOUS
    <2>2. c \in DOMAIN epochs /\ OnOneSide(e, history[c].strayed) /\ lastBlock \in e.blocks
      BY <1>4, <2>1, LastEpoch DEF AccessOf, SidesInv
    <2>3. /\ n.blocks = e.blocks /\ epochs' = [epochs EXCEPT ![c] = n]
          /\ lastBlock' = lastBlock /\ memoryActive
      BY <1>4, <2>1 DEF AccessOf
    <2>4. OnOneSide(n, history[c].strayed)
      BY <2>2, <2>3 DEF OnOneSide
    <2>5. current' = c /\ epochs'[c] = n
      BY <2>1, <2>2, <2>3 DEF current, TypeOK
    <2>6. \A i \in DOMAIN epochs' : OnOneSide(epochs'[i], history'[i].strayed)
      <3>1. \A i \in DOMAIN epochs : history'[i].strayed = history[i].strayed
        BY <1>4 DEF AccessOf, HeapKept
      <3> QED BY <2>3, <2>4, <3>1 DEF SidesInv
    <2> QED BY <2>2, <2>3, <2>5, <2>6 DEF SidesInv
  <1>5. CASE MemoryDestroy
    BY <1>5 DEF MemoryDestroy, SidesInv
  <1>6. CASE UNCHANGED vars
    BY <1>6 DEF vars, SidesInv, current
  <1> QED
    BY <1>1, <1>2, <1>3, <1>4, <1>5, <1>6, Steps

\* What holds of the processed epochs stays: nothing happens after MemoryDestroy.
LEMMA OnlyDestroyed ==
  ASSUME TypeOK, [Next]_vars, Destroyed'
  PROVE  \/ MemoryDestroy
         \/ /\ Destroyed /\ epochs' = epochs /\ taskCommunication' = taskCommunication
            /\ history' = history
  BY Steps DEF Destroyed, MemoryInit, IncrementInside, IncrementAcross, AccessOf, vars, TypeOK

\* Unless it strayed over the kernel's border, an epoch is given a kernel exactly
\* if it ran in the kernel's hierarchy.
LEMMA KernelOfSide ==
  ASSUME NEW e \in Epoch, NEW strayed, OnOneSide(e, strayed), NEW k \in DOMAIN taskCandidates \ strayed
  PROVE  /\ KernelOf(e) = k => e.blocks \subseteq taskCandidates[k]
         /\ KernelOf(e) = NoKernel => e.blocks \cap taskCandidates[k] = {}
  <1>1. PICK b, both : b = e.blocks /\ both = taskCandidates[k] \cap b
    OBVIOUS
  <1>2. IsFiniteSet(b) /\ b # {} /\ (b \subseteq taskCandidates[k] \/ both = {})
    BY <1>1 DEF OnOneSide
  <1>3. Cardinality(b) \in Nat /\ Cardinality(b) # 0
    BY <1>2, FS_CardinalityType, FS_EmptySet
  <1>4. Matches(e, k) <=> 2 * Cardinality(both) > Cardinality(b)
    BY <1>1 DEF Matches
  <1>5. Cardinality({}) = 0
    BY FS_EmptySet
  <1>6. Matches(e, k) => both # {}
    <2>1. 2 * Cardinality({}) = 0
      BY <1>5
    <2>2. both = {} => ~(2 * Cardinality(both) > Cardinality(b))
      BY <1>3, <2>1
    <2> QED BY <1>4, <2>2
  <1>7. b \subseteq taskCandidates[k] => Matches(e, k)
    <2>1. b \subseteq taskCandidates[k] => both = b
      BY <1>1
    <2> QED BY <1>3, <1>4, <2>1
  <1>8. NoKernel # k
    BY DEF taskCandidates, kernels
  <1>9. KernelOf(e) = k => Matches(e, k)
    BY <1>8, KernelOfMatches
  <1>10. KernelOf(e) = NoKernel => ~Matches(e, k)
    <2>1. NoKernel \notin DOMAIN taskCandidates
      BY DEF taskCandidates, kernels
    <2> QED BY <2>1, KernelOfMatches
  <1> QED
    BY <1>1, <1>2, <1>6, <1>7, <1>9, <1>10

THEOREM KernelsAreMatched == Spec => []KernelsMatch
  <1>1. Init => SidesInv /\ KernelsMatch
    BY DEF Init, SidesInv, KernelsMatch, Destroyed
  <1>2. ASSUME TypeOK, SidesInv, KernelsMatch, [Next]_vars
        PROVE  SidesInv' /\ KernelsMatch'
    <2>1. SUFFICES ASSUME Destroyed' PROVE KernelsMatch'
      BY <1>2, NextSides DEF KernelsMatch
    <2>2. CASE Destroyed /\ epochs' = epochs /\ history' = history
      BY <1>2, <2>2 DEF KernelsMatch
    <2>3. CASE MemoryDestroy
      <3>1. epochs' = [i \in DOMAIN epochs |-> Processed(epochs[i])] /\ history' = history
        BY <2>3 DEF MemoryDestroy
      <3>2. \A i \in DOMAIN epochs : OnOneSide(epochs[i], history[i].strayed) /\ epochs[i] \in Epoch
        BY <1>2, <2>3 DEF SidesInv, MemoryDestroy, TypeOK
      <3>3. ASSUME NEW i \in DOMAIN epochs, NEW k \in DOMAIN taskCandidates \ history[i].strayed
            PROVE  /\ epochs'[i].kernel = k => epochs'[i].blocks \subseteq taskCandidates[k]
                   /\ epochs'[i].kernel = NoKernel => epochs'[i].blocks \cap taskCandidates[k] = {}
        <4>1. epochs'[i].kernel = KernelOf(epochs[i]) /\ epochs'[i].blocks = epochs[i].blocks
          BY <3>1, <3>2, ProcessedIs
        <4> QED BY <3>2, <4>1, KernelOfSide
      <3>4. DOMAIN epochs' = DOMAIN epochs
        BY <3>1
      <3> QED BY <3>1, <3>3, <3>4 DEF KernelsMatch
    <2> QED BY <1>2, <2>1, <2>2, <2>3, OnlyDestroyed
  <1>3. TypeOK /\ SidesInv /\ KernelsMatch /\ [Next]_vars => SidesInv' /\ KernelsMatch'
    BY <1>2
  <1> QED
    BY <1>1, <1>3, TypeAlways, PTL DEF Spec

HeapInv == memoryActive => \A i \in DOMAIN epochs : Kept(epochs[i], history[i])

\* An epoch's list of allocations and frees has what the heap did in it, except
\* for the allocations forgotten.
LEMMA NextHeap ==
  ASSUME TypeOK, HeapInv, [Next]_vars
  PROVE  HeapInv'
  <1>1. CASE MemoryInit
    <2>1. epochs' = <<NewEpoch(FirstBlock, FirstBlock)>> /\ history' = <<NothingDone>>
      BY <1>1 DEF MemoryInit
    <2>2. \A i \in DOMAIN epochs' : history'[i] = NothingDone
      BY <2>1
    <2> QED BY <2>2 DEF HeapInv, Kept, NothingDone
  <1>2. ASSUME NEW a \in Blocks, IncrementInside(a) PROVE HeapInv'
    <2>1. PICK c, e, n : c = current /\ e = epochs[c] /\ n = [e EXCEPT !.blocks = @ \cup {a}]
      OBVIOUS
    <2>2. /\ c \in DOMAIN epochs /\ e \in Epoch /\ DOMAIN history = DOMAIN epochs
          /\ epochs' = [epochs EXCEPT ![c] = n]
      BY <1>2, <2>1, LastEpoch DEF IncrementInside
    <2>3. n.malloc_ptrs = e.malloc_ptrs /\ n.free_ptrs = e.free_ptrs
      BY <2>1, <2>2 DEF Epoch
    <2>4. PICK h : /\ h.live = history[c].live /\ h.temporary = history[c].temporary
                   /\ history' = [history EXCEPT ![c] = h]
      BY <1>2, <2>1, InsideEpoch
    <2>5. \A i \in DOMAIN epochs : Kept(epochs[i], history[i])
      BY <1>2 DEF HeapInv, IncrementInside
    <2>6. Kept(n, h)
      BY <2>1, <2>2, <2>3, <2>4, <2>5 DEF Kept, Forgotten
    <2> QED BY <2>2, <2>4, <2>5, <2>6 DEF HeapInv
  <1>3. ASSUME NEW a \in Blocks, IncrementAcross(a) PROVE HeapInv'
    <2>1. PICK n, es :
            /\ n.malloc_ptrs = epochs[current].malloc_ptrs /\ n.free_ptrs = epochs[current].free_ptrs
            /\ es = [epochs EXCEPT ![current] = n]
            /\ es \in Seq(Epoch) /\ Len(es) = Len(epochs) /\ DOMAIN es = DOMAIN epochs
            /\ epochs' = Append(es, NewEpoch(lastBlock, a))
            /\ history' = Append(history, NothingDone)
      BY <1>3, EndOfEpoch
    <2>2. current \in DOMAIN epochs /\ \A i \in DOMAIN epochs : Kept(epochs[i], history[i])
      BY <1>3, LastEpoch DEF IncrementAcross, HeapInv
    <2>3. Kept(n, history[current])
      BY <2>1, <2>2 DEF Kept, Forgotten
    <2>4. \A i \in DOMAIN es : Kept(es[i], history[i])
      BY <2>1, <2>2, <2>3
    <2>5. \A i \in DOMAIN epochs' : \/ i \in DOMAIN es /\ epochs'[i] = es[i] /\ history'[i] = history[i]
                                    \/ history'[i] = NothingDone
      BY <2>1 DEF TypeOK
    <2>6. \A e : Kept(e, NothingDone)
      BY DEF Kept, NothingDone
    <2> QED BY <2>4, <2>5, <2>6 DEF HeapInv
  <1>4. ASSUME NEW n, NEW reads, NEW writes, AccessOf(n, reads, writes) PROVE HeapInv'
    <2>1. \A i \in DOMAIN epochs : Kept(IF i = current THEN n ELSE epochs[i], history'[i])
      BY <1>4 DEF AccessOf, HeapKept, HeapInv
    <2>2. epochs' = [epochs EXCEPT ![current] = n]
      BY <1>4 DEF AccessOf
    <2>3. \A i \in DOMAIN epochs' : /\ i \in DOMAIN epochs
                                    /\ epochs'[i] = IF i = current THEN n ELSE epochs[i]
      BY <2>2
    <2> QED BY <2>1, <2>3 DEF HeapInv
  <1>5. CASE MemoryDestroy
    BY <1>5 DEF MemoryDestroy, HeapInv
  <1>6. CASE UNCHANGED vars
    BY <1>6 DEF vars, HeapInv
  <1> QED
    BY <1>1, <1>2, <1>3, <1>4, <1>5, <1>6, Steps

\* Of an array that the program allocated and freed in one epoch nothing stays,
\* unless an earlier allocation of the epoch overlaps it.
THEOREM TemporariesStayOut == Spec => []TemporariesRemoved
  <1>1. Init => HeapInv /\ TemporariesRemoved
    BY DEF Init, HeapInv, TemporariesRemoved, Destroyed
  <1>2. ASSUME TypeOK, HeapInv, TemporariesRemoved, [Next]_vars
        PROVE  HeapInv' /\ TemporariesRemoved'
    <2>1. SUFFICES ASSUME Destroyed' PROVE TemporariesRemoved'
      BY <1>2, NextHeap DEF TemporariesRemoved
    <2>2. CASE Destroyed /\ epochs' = epochs /\ history' = history
      BY <1>2, <2>2 DEF TemporariesRemoved
    <2>3. CASE MemoryDestroy
      <3>1. /\ epochs' = [i \in DOMAIN epochs |-> Processed(epochs[i])]
            /\ history' = history /\ memoryActive
        BY <2>3 DEF MemoryDestroy
      <3>2. ASSUME NEW i \in DOMAIN epochs', NEW m \in history'[i].temporary
            PROVE  \/ Forgotten(epochs'[i], m)
                   \/ AllBytes(TuplesOf(epochs'[i])) \cap Bytes(m) = {}
        <4>1. PICK e, p : e = epochs[i] /\ p = Processed(e)
          OBVIOUS
        <4>2. e \in Epoch /\ epochs'[i] = p /\ Kept(e, history[i])
          BY <1>2, <3>1, <4>1 DEF TypeOK, HeapInv
        <4>3. /\ p.malloc_ptrs = e.malloc_ptrs
              /\ \A t \in Temporaries(e) : AllBytes(TuplesOf(p)) \cap Bytes(t) = {}
          BY <4>1, <4>2, ProcessedIs
        <4>4. m \in Temporaries(e) \/ Forgotten(p, m)
          BY <3>1, <3>2, <4>2, <4>3 DEF Kept, Temporaries, Forgotten
        <4> QED BY <4>2, <4>3, <4>4
      <3> QED BY <3>2 DEF TemporariesRemoved
    <2> QED BY <1>2, <2>1, <2>2, <2>3, OnlyDestroyed
  <1>3. TypeOK /\ HeapInv /\ TemporariesRemoved /\ [Next]_vars => HeapInv' /\ TemporariesRemoved'
    BY <1>2
  <1> QED
    BY <1>1, <1>3, TypeAlways, PTL DEF Spec

-----------------------------------------------------------------------------
(* What a producer leaves to explain *)

LEMMA OverlapFits ==
  ASSUME NEW p \in Fitting, NEW c \in Fitting
  PROVE  LET o == mem_tuple_overlap(p, c) IN
         /\ o.base > 0 => o \in Fitting /\ Bytes(o) = Bytes(p) \cap Bytes(c)
         /\ ~(o.base > 0) => Bytes(p) \cap Bytes(c) = {}
         /\ o.offset \in Nat /\ (o.offset > 0 => Bytes(p) \cap Bytes(c) # {})
  <1>1. PICK o : o = mem_tuple_overlap(p, c)
    OBVIOUS
  <1>2. /\ o \in MemTuple
        /\ Overlap(p, c) => o.base > 0 /\ Bytes(o) = Bytes(p) \cap Bytes(c)
        /\ ~Overlap(p, c) => o.base = 0 /\ LastByte(o) = 0
    BY <1>1, OverlapIsIntersection DEF Fitting
  <1>3. o.offset < OFFSET_SPAN
    <2>1. PICK n : o.offset = IF o.base = 0 THEN 0 ELSE Offset32(n - o.base)
      BY <1>1 DEF mem_tuple_overlap
    <2>2. o.offset = 0 \/ Overlap(p, c)
      BY <1>2 DEF LastByte, MemTuple
    <2>3. CASE Overlap(p, c)
      <3>1. Bytes(o) \subseteq Bytes(p)
        BY <1>2, <2>3
      <3>2. o.base \in Bytes(o) /\ LastByte(o) \in Bytes(o)
        BY <1>2 DEF Bytes, LastByte, MemTuple
      <3> QED BY <1>2, <3>1, <3>2, OffsetAssumption DEF Fitting, Bytes, LastByte, MemTuple
    <2> QED BY <2>2, <2>3, OffsetAssumption
  <1>4. o.base > 0 => o \in Fitting /\ Overlap(p, c)
    BY <1>2, <1>3 DEF Fitting
  <1>5. o.offset \in Nat /\ (o.offset > 0 => Overlap(p, c))
    BY <1>2 DEF MemTuple, LastByte
  <1> QED
    BY <1>1, <1>2, <1>4, <1>5 DEF Overlap

LEMMA CutOutside ==
  ASSUME NEW left \in TupleSets, NEW p \in Fitting, NEW c \in Fitting
  PROVE  /\ Cut(left, p, c) \in TupleSets
         /\ AllBytes(Cut(left, p, c)) \subseteq AllBytes(left) \ (Bytes(p) \cap Bytes(c))
  <1>1. PICK o : o = mem_tuple_overlap(p, c)
    OBVIOUS
  <1>2. /\ o.base > 0 => o \in Fitting /\ Bytes(o) = Bytes(p) \cap Bytes(c)
        /\ ~(o.base > 0) => Bytes(p) \cap Bytes(c) = {}
    BY <1>1, OverlapFits
  <1>3. Cut(left, p, c) = IF Static(p, c) THEN remove_tuple_set(left, c)
                          ELSE IF o.base > 0 THEN remove_tuple_set(left, o) ELSE left
    BY <1>1 DEF Cut
  <1>4. \A t \in Fitting : /\ remove_tuple_set(left, t) \in TupleSets
                           /\ AllBytes(remove_tuple_set(left, t)) \subseteq AllBytes(left) \ Bytes(t)
    BY RemoveSetIsOutside
  <1>5. CASE Static(p, c)
    BY <1>3, <1>4, <1>5
  <1>6. CASE ~Static(p, c) /\ o.base > 0
    BY <1>2, <1>3, <1>4, <1>6
  <1>7. CASE ~Static(p, c) /\ ~(o.base > 0)
    BY <1>2, <1>3, <1>7
  <1> QED BY <1>5, <1>6, <1>7

CutsBy(g, left, p, consumer) ==
  /\ g[0] = left /\ \A n \in 0..Cardinality(consumer) : g[n] \in TupleSets
  /\ \A n \in 1..Cardinality(consumer) : g[n] = Cut(g[n - 1], p, Sorted(consumer)[n])
  /\ CutAll(left, p, consumer) = g[Cardinality(consumer)]

LEMMA CuttingRounds ==
  ASSUME NEW left \in TupleSets, NEW p \in Fitting, NEW consumer \in TupleSets
  PROVE  \E g : CutsBy(g, left, p, consumer)
  <1> DEFINE N == Cardinality(consumer)
             Op(s, n) == Cut(s, p, Sorted(consumer)[n])
             f == [n \in 1..N |-> [s \in TupleSets |-> Op(s, n)]]
             After(a) == a = [n \in 0..N |-> IF n = 0 THEN left ELSE Op(a[n - 1], n)]
             h == CHOOSE a : After(a)
  <1>1. N \in Nat /\ \A n \in 1..N : Sorted(consumer)[n] \in Fitting
    BY SortedWalks DEF TupleSets
  <1>2. \A s \in TupleSets, n \in 1..N : Op(s, n) \in TupleSets
    BY <1>1, CutOutside
  <1>3. CutAll(left, p, consumer) = h[N]
    BY DEF Walk, CutAll
  <1> HIDE DEF N, Op
  <1>4. \E a : After(a)
    <2>1. f \in [1..N -> [TupleSets -> TupleSets]]
      BY <1>2
    <2>2. PICK g : Iterates(g, TupleSets, left, N, f)
      <3> HIDE DEF f
      <3> QED BY <1>1, <2>1, Iteration
    <2>3. \A n \in 1..N : g[n] = Op(g[n - 1], n)
      BY <2>2 DEF Iterates
    <2>4. After(g)
      BY <1>1, <2>2, <2>3 DEF Iterates
    <2> QED BY <2>4
  <1>5. After(h)
    <2> HIDE DEF After
    <2> QED BY <1>4
  <1> HIDE DEF h
  <1>6. /\ h[0] = left
        /\ \A n \in 1..N : n \in 0..N /\ n - 1 \in 0..N /\ h[n] = Op(h[n - 1], n)
    BY <1>1, <1>5
  <1>7. \A n \in 0..N : h[n] \in TupleSets
    <2>1. h[0] \in TupleSets /\ \A n \in 1..N : h[n - 1] \in TupleSets => h[n] \in TupleSets
      BY <1>2, <1>6
    <2> HIDE DEF f, After
    <2> QED BY <1>1, <2>1, StaysIn, Zenon
  <1> QED
    <2>1. CutsBy(h, left, p, consumer)
      BY <1>3, <1>6, <1>7 DEF CutsBy, N, Op
    <2> QED BY <2>1

LEMMA CutAllOutside ==
  ASSUME NEW left \in TupleSets, NEW p \in Fitting, NEW consumer \in TupleSets
  PROVE  /\ CutAll(left, p, consumer) \in TupleSets
         /\ AllBytes(CutAll(left, p, consumer)) \subseteq AllBytes(left) \ (Bytes(p) \cap AllBytes(consumer))
  <1>1. PICK g, N : CutsBy(g, left, p, consumer) /\ N = Cardinality(consumer)
    BY CuttingRounds
  <1>2. /\ g[0] = left /\ \A n \in 0..N : g[n] \in TupleSets
        /\ \A n \in 1..N : g[n] = Cut(g[n - 1], p, Sorted(consumer)[n])
        /\ CutAll(left, p, consumer) = g[N]
    BY <1>1 DEF CutsBy
  <1>3. /\ N \in Nat /\ \A n \in 1..N : Sorted(consumer)[n] \in consumer
        /\ \A c \in consumer : \E n \in 1..N : Sorted(consumer)[n] = c
    BY <1>1, SortedWalks
  <1>4. PICK K : K = [n \in 1..N |-> Bytes(p) \cap Bytes(Sorted(consumer)[n])]
    OBVIOUS
  <1>5. ASSUME NEW n \in 1..N PROVE AllBytes(g[n]) \subseteq AllBytes(g[n - 1]) \ K[n]
    <2>1. n - 1 \in 0..N
      BY <1>3
    <2>2. g[n - 1] \in TupleSets /\ Sorted(consumer)[n] \in Fitting
      BY <1>2, <1>3, <2>1 DEF TupleSets
    <2> QED BY <1>2, <1>4, <2>2, CutOutside
  <1>6. AllBytes(g[N]) \subseteq AllBytes(left) /\ \A n \in 1..N : AllBytes(g[N]) \cap K[n] = {}
    BY <1>2, <1>3, <1>5, Shrinking
  <1>7. \A c \in consumer : AllBytes(g[N]) \cap (Bytes(p) \cap Bytes(c)) = {}
    BY <1>3, <1>4, <1>6
  <1>8. AllBytes(g[N]) \cap (Bytes(p) \cap AllBytes(consumer)) = {}
    <2>1. PICK left_over : left_over = AllBytes(g[N])
      OBVIOUS
    <2> QED BY <1>7, <2>1 DEF AllBytes
  <1>9. N \in 0..N
    BY <1>3
  <1> QED
    BY <1>2, <1>6, <1>8, <1>9

ExplainsBy(g, producer, consumer) ==
  /\ g[0] = consumer /\ \A n \in 0..Cardinality(producer) : g[n] \in TupleSets
  /\ \A n \in 1..Cardinality(producer) : g[n] = CutAll(g[n - 1], Sorted(producer)[n], consumer)
  /\ Unexplained(producer, consumer) = g[Cardinality(producer)]

LEMMA ExplainingRounds ==
  ASSUME NEW producer \in TupleSets, NEW consumer \in TupleSets
  PROVE  \E g : ExplainsBy(g, producer, consumer)
  <1> DEFINE N == Cardinality(producer)
             Op(s, n) == CutAll(s, Sorted(producer)[n], consumer)
             f == [n \in 1..N |-> [s \in TupleSets |-> Op(s, n)]]
             After(a) == a = [n \in 0..N |-> IF n = 0 THEN consumer ELSE Op(a[n - 1], n)]
             h == CHOOSE a : After(a)
  <1>1. N \in Nat /\ \A n \in 1..N : Sorted(producer)[n] \in Fitting
    BY SortedWalks DEF TupleSets
  <1>2. \A s \in TupleSets, n \in 1..N : Op(s, n) \in TupleSets
    BY <1>1, CutAllOutside
  <1>3. Unexplained(producer, consumer) = h[N]
    BY DEF Walk, Unexplained
  <1> HIDE DEF N, Op
  <1>4. \E a : After(a)
    <2>1. f \in [1..N -> [TupleSets -> TupleSets]]
      BY <1>2
    <2>2. PICK g : Iterates(g, TupleSets, consumer, N, f)
      <3> HIDE DEF f
      <3> QED BY <1>1, <2>1, Iteration
    <2>3. \A n \in 1..N : g[n] = Op(g[n - 1], n)
      BY <2>2 DEF Iterates
    <2>4. After(g)
      BY <1>1, <2>2, <2>3 DEF Iterates
    <2> QED BY <2>4
  <1>5. After(h)
    <2> HIDE DEF After
    <2> QED BY <1>4
  <1> HIDE DEF h
  <1>6. /\ h[0] = consumer
        /\ \A n \in 1..N : n \in 0..N /\ n - 1 \in 0..N /\ h[n] = Op(h[n - 1], n)
    BY <1>1, <1>5
  <1>7. \A n \in 0..N : h[n] \in TupleSets
    <2>1. h[0] \in TupleSets /\ \A n \in 1..N : h[n - 1] \in TupleSets => h[n] \in TupleSets
      BY <1>2, <1>6
    <2> HIDE DEF f, After
    <2> QED BY <1>1, <2>1, StaysIn, Zenon
  <1> QED
    <2>1. ExplainsBy(h, producer, consumer)
      BY <1>3, <1>6, <1>7 DEF ExplainsBy, N, Op
    <2> QED BY <2>1

\* What is left is of the consumer and not of the producer.
LEMMA UnexplainedIsOutside ==
  ASSUME NEW producer \in TupleSets, NEW consumer \in TupleSets
  PROVE  /\ Unexplained(producer, consumer) \in TupleSets
         /\ AllBytes(Unexplained(producer, consumer)) \subseteq AllBytes(consumer) \ AllBytes(producer)
  <1>1. PICK g, N : ExplainsBy(g, producer, consumer) /\ N = Cardinality(producer)
    BY ExplainingRounds
  <1>2. /\ g[0] = consumer /\ \A n \in 0..N : g[n] \in TupleSets
        /\ \A n \in 1..N : g[n] = CutAll(g[n - 1], Sorted(producer)[n], consumer)
        /\ Unexplained(producer, consumer) = g[N]
    BY <1>1 DEF ExplainsBy
  <1>3. /\ N \in Nat /\ \A n \in 1..N : Sorted(producer)[n] \in producer
        /\ \A p \in producer : \E n \in 1..N : Sorted(producer)[n] = p
    BY <1>1, SortedWalks
  <1>4. PICK K : K = [n \in 1..N |-> Bytes(Sorted(producer)[n]) \cap AllBytes(consumer)]
    OBVIOUS
  <1>5. ASSUME NEW n \in 1..N PROVE AllBytes(g[n]) \subseteq AllBytes(g[n - 1]) \ K[n]
    <2>1. n - 1 \in 0..N
      BY <1>3
    <2>2. g[n - 1] \in TupleSets /\ Sorted(producer)[n] \in Fitting
      BY <1>2, <1>3, <2>1 DEF TupleSets
    <2> QED BY <1>2, <1>4, <2>2, CutAllOutside
  <1>6. AllBytes(g[N]) \subseteq AllBytes(consumer) /\ \A n \in 1..N : AllBytes(g[N]) \cap K[n] = {}
    BY <1>2, <1>3, <1>5, Shrinking
  <1>7. \A p \in producer : AllBytes(g[N]) \cap Bytes(p) = {}
    BY <1>3, <1>4, <1>6
  <1>8. AllBytes(g[N]) \cap AllBytes(producer) = {}
    <2>1. PICK left_over : left_over = AllBytes(g[N])
      OBVIOUS
    <2> QED BY <1>7, <2>1 DEF AllBytes
  <1>9. N \in 0..N
    BY <1>3
  <1> QED
    BY <1>2, <1>6, <1>8, <1>9

\* What the epoch's copies may hand on.
HandedOn(e) == IF Copies(e) THEN AllBytes(e.rTuples) ELSE {}

\* The tuples a consumer may hold after some copies.
PassStates(e, consumed) ==
  {c \in TupleSets : AllBytes(c) \subseteq AllBytes(consumed) \cup HandedOn(e)}

LEMMA PassOnStays ==
  ASSUME NEW e \in Epoch, NEW consumed \in TupleSets, NEW c \in PassStates(e, consumed),
         NEW t \in e.wTuples
  PROVE  PassOn(e, c, t) \in PassStates(e, consumed)
  <1>1. PICK hands : hands = HandsOn(e, t)
    OBVIOUS
  <1>2. CASE hands = {}
    BY <1>1, <1>2 DEF PassOn
  <1>3. CASE hands # {}
    <2>1. t.type \in {"Memcpy", "Memmov"} /\ hands \in SUBSET e.rTuples
      BY <1>1, <1>3 DEF HandsOn
    <2>2. HandedOn(e) = AllBytes(e.rTuples)
      BY <2>1 DEF HandedOn, Copies
    <2>3. e.rTuples \in TupleSets
      BY DEF Epoch
    <2>4. hands \in TupleSets
      <3>1. IsFiniteSet(hands)
        BY <2>1, <2>3, FS_Subset DEF TupleSets
      <3> QED BY <2>1, <2>3, <3>1 DEF TupleSets, Disjoint
    <2>5. PICK r : r = Sorted(hands)[1]
      OBVIOUS
    <2>6. r \in hands
      <3>1. Cardinality(hands) \in Nat /\ Cardinality(hands) # 0
        BY <1>3, <2>4, FS_CardinalityType, FS_EmptySet DEF TupleSets
      <3>2. 1 \in 1..Cardinality(hands)
        BY <3>1
      <3> QED BY <2>4, <2>5, <3>2, SortedWalks
    <2>7. r \in Fitting /\ Bytes(r) \subseteq HandedOn(e)
      BY <2>1, <2>2, <2>3, <2>6 DEF AllBytes, TupleSets
    <2>8. PassOn(e, c, t) = merge_tuple_set(c, r)
      BY <1>1, <1>3, <2>5 DEF PassOn
    <2>9. c \in TupleSets /\ AllBytes(c) \subseteq AllBytes(consumed) \cup HandedOn(e)
      BY DEF PassStates
    <2>10. /\ merge_tuple_set(c, r) \in TupleSets
           /\ AllBytes(merge_tuple_set(c, r)) \subseteq AllBytes(c) \cup Bytes(r)
      BY <2>7, <2>9, MergeSetIsUnion
    <2> QED BY <2>7, <2>8, <2>9, <2>10 DEF PassStates
  <1> QED BY <1>2, <1>3

PassesBy(g, e, consumed) ==
  /\ g[0] = consumed /\ \A n \in 0..Cardinality(e.wTuples) : g[n] \in PassStates(e, consumed)
  /\ \A n \in 1..Cardinality(e.wTuples) : g[n] = PassOn(e, g[n - 1], Sorted(e.wTuples)[n])
  /\ PassedOn(e, consumed) = g[Cardinality(e.wTuples)]

LEMMA PassingRounds ==
  ASSUME NEW e \in Epoch, NEW consumed \in TupleSets
  PROVE  \E g : PassesBy(g, e, consumed)
  <1> DEFINE N == Cardinality(e.wTuples)
             Op(s, n) == PassOn(e, s, Sorted(e.wTuples)[n])
             f == [n \in 1..N |-> [s \in PassStates(e, consumed) |-> Op(s, n)]]
             After(a) == a = [n \in 0..N |-> IF n = 0 THEN consumed ELSE Op(a[n - 1], n)]
             h == CHOOSE a : After(a)
  <1>1. N \in Nat /\ \A n \in 1..N : Sorted(e.wTuples)[n] \in e.wTuples
    BY SortedWalks DEF Epoch
  <1>2. \A s \in PassStates(e, consumed), n \in 1..N : Op(s, n) \in PassStates(e, consumed)
    BY <1>1, PassOnStays
  <1>3. PassedOn(e, consumed) = h[N]
    BY DEF Walk, PassedOn
  <1> HIDE DEF N, Op
  <1>4. \E a : After(a)
    <2>1. f \in [1..N -> [PassStates(e, consumed) -> PassStates(e, consumed)]]
      BY <1>2
    <2>2. PICK g : Iterates(g, PassStates(e, consumed), consumed, N, f)
      <3> HIDE DEF f
      <3>1. consumed \in PassStates(e, consumed)
        BY DEF PassStates
      <3> QED BY <1>1, <2>1, <3>1, Iteration
    <2>3. \A n \in 1..N : g[n] = Op(g[n - 1], n)
      BY <2>2 DEF Iterates
    <2>4. After(g)
      BY <1>1, <2>2, <2>3 DEF Iterates
    <2> QED BY <2>4
  <1>5. After(h)
    <2> HIDE DEF After
    <2> QED BY <1>4
  <1> HIDE DEF h
  <1>6. /\ h[0] = consumed
        /\ \A n \in 1..N : n \in 0..N /\ n - 1 \in 0..N /\ h[n] = Op(h[n - 1], n)
    BY <1>1, <1>5
  <1>7. \A n \in 0..N : h[n] \in PassStates(e, consumed)
    <2>1. h[0] \in PassStates(e, consumed) /\ \A n \in 1..N : h[n - 1] \in PassStates(e, consumed) => h[n] \in PassStates(e, consumed)
      BY <1>2, <1>6 DEF PassStates
    <2> HIDE DEF f, After
    <2> QED BY <1>1, <2>1, StaysIn, Zenon
  <1> QED
    <2>1. PassesBy(h, e, consumed)
      BY <1>3, <1>6, <1>7 DEF PassesBy, N, Op
    <2> QED BY <2>1

LEMMA PassedOnIsRead ==
  ASSUME NEW e \in Epoch, NEW consumed \in TupleSets
  PROVE  /\ PassedOn(e, consumed) \in TupleSets
         /\ AllBytes(PassedOn(e, consumed)) \subseteq AllBytes(consumed) \cup HandedOn(e)
  <1>1. PICK g, N : PassesBy(g, e, consumed) /\ N = Cardinality(e.wTuples)
    BY PassingRounds
  <1>2. PassedOn(e, consumed) = g[N] /\ \A n \in 0..N : g[n] \in PassStates(e, consumed)
    BY <1>1 DEF PassesBy
  <1>3. N \in 0..N
    <2>1. N \in Nat
      BY <1>1, SortedWalks DEF Epoch
    <2> QED BY <2>1
  <1> QED
    BY <1>2, <1>3 DEF PassStates

-----------------------------------------------------------------------------
(* The producers of an epoch *)

Written(es, m) == AllBytes(es[m].wTuples)

\* b is asked for by epoch i, or by a copying epoch from m on, and no epoch from k on
\* to there writes it.
Asked(b, es, i, tuples, RAW, m, k) ==
  \E s \in {i} \cup {n \in m..(i - 1) : RAW /\ Copies(es[n])} :
    /\ b \in IF s = i THEN AllBytes(tuples) ELSE AllBytes(es[s].rTuples)
    /\ \A q \in k..(s - 1) : b \notin Written(es, q)

LookStates(i) == [left : TupleSets, found : SUBSET (1..(i - 1))]

\* Everything left at epoch j is asked for from there on, and so is what each
\* producer was found for.
Real(was, es, i, tuples, RAW, j) ==
  /\ \A b \in AllBytes(was.left) : Asked(b, es, i, tuples, RAW, j, j)
  /\ \A m \in was.found : \E b \in Written(es, m) : Asked(b, es, i, tuples, RAW, m, m + 1)

LEMMA LookAtReal ==
  ASSUME NEW es \in Seq(Epoch), NEW i \in DOMAIN es, NEW tuples \in TupleSets,
         NEW RAW \in BOOLEAN, NEW j \in 1..(i - 1), NEW was \in LookStates(i)
  PROVE  /\ LookAt(es[j], j, was, RAW) \in LookStates(i)
         /\ Real(was, es, i, tuples, RAW, j + 1) => Real(LookAt(es[j], j, was, RAW), es, i, tuples, RAW, j)
  <1>1. PICK e, w, left, found : e = es[j] /\ w = e.wTuples /\ left = was.left /\ found = was.found
    OBVIOUS
  <1>2. /\ j \in DOMAIN es /\ e \in Epoch /\ w \in TupleSets /\ left \in TupleSets
        /\ found \subseteq 1..(i - 1) /\ i \in Nat /\ j \in Nat /\ j < i
    <2>1. /\ i \in 1..Len(es) /\ Len(es) \in Nat
      OBVIOUS
    <2>2. j \in DOMAIN es /\ i \in Nat /\ j \in Nat /\ j < i
      BY <2>1
    <2>3. e \in Epoch
      BY <1>1, <2>2
    <2>4. w \in TupleSets
      BY <1>1, <2>3 DEF Epoch
    <2> QED BY <1>1, <2>2, <2>3, <2>4 DEF LookStates
  <1>3. PICK consumed : consumed = IF RAW THEN PassedOn(e, left) ELSE left
    OBVIOUS
  <1>4. /\ consumed \in TupleSets
        /\ AllBytes(consumed) \subseteq AllBytes(left) \cup (IF RAW THEN HandedOn(e) ELSE {})
    BY <1>2, <1>3, PassedOnIsRead
  <1>5. PICK rest, new : /\ rest = Unexplained(w, consumed)
                         /\ new = IF Explains(w, consumed) THEN {j} ELSE {}
    OBVIOUS
  <1>6. rest \in TupleSets /\ AllBytes(rest) \subseteq AllBytes(consumed) \ AllBytes(w)
    BY <1>2, <1>4, <1>5, UnexplainedIsOutside
  <1>7. LookAt(e, j, was, RAW) = IF left = {} THEN was ELSE [left |-> rest, found |-> found \cup new]
    BY <1>1, <1>3, <1>5 DEF LookAt
  <1>8. LookAt(e, j, was, RAW) \in LookStates(i)
    <2>1. [left |-> rest, found |-> found \cup new] \in LookStates(i)
      BY <1>2, <1>5, <1>6 DEF LookStates
    <2> QED BY <1>7, <2>1
  <1>9. ASSUME Real(was, es, i, tuples, RAW, j + 1)
        PROVE  Real(LookAt(e, j, was, RAW), es, i, tuples, RAW, j)
    <2>1. /\ \A b \in AllBytes(left) : Asked(b, es, i, tuples, RAW, j + 1, j + 1)
          /\ \A m \in found : \E b \in Written(es, m) : Asked(b, es, i, tuples, RAW, m, m + 1)
      BY <1>1, <1>9 DEF Real
    <2>2. ASSUME NEW b \in AllBytes(consumed)
          PROVE  Asked(b, es, i, tuples, RAW, j, j + 1)
      <3>1. CASE b \in AllBytes(left)
        <4>1. Asked(b, es, i, tuples, RAW, j + 1, j + 1)
          BY <2>1, <3>1
        <4>2. (j + 1)..(i - 1) \subseteq j..(i - 1)
          BY <1>2
        <4> QED BY <4>1, <4>2 DEF Asked
      <3>2. CASE b \in (IF RAW THEN HandedOn(e) ELSE {})
        <4>1. RAW /\ Copies(e) /\ b \in AllBytes(e.rTuples)
          BY <3>2 DEF HandedOn
        <4>2. j \in {n \in j..(i - 1) : RAW /\ Copies(es[n])} /\ j # i
          BY <1>1, <1>2, <4>1
        <4>3. \A q \in (j + 1)..(j - 1) : FALSE
          BY <1>2
        <4> QED BY <1>1, <4>1, <4>2, <4>3 DEF Asked
      <3> QED BY <1>4, <3>1, <3>2
    <2>3. ASSUME NEW b \in AllBytes(rest) PROVE Asked(b, es, i, tuples, RAW, j, j)
      <3>1. b \notin Written(es, j) /\ Asked(b, es, i, tuples, RAW, j, j + 1)
        BY <1>1, <1>6, <2>2 DEF Written
      <3>2. PICK s \in {i} \cup {n \in j..(i - 1) : RAW /\ Copies(es[n])} :
              /\ b \in IF s = i THEN AllBytes(tuples) ELSE AllBytes(es[s].rTuples)
              /\ \A q \in (j + 1)..(s - 1) : b \notin Written(es, q)
        BY <3>1 DEF Asked
      <3>3. \A q \in j..(s - 1) : q = j \/ q \in (j + 1)..(s - 1)
        BY <1>2
      <3>4. \A q \in j..(s - 1) : b \notin Written(es, q)
        BY <3>1, <3>2, <3>3
      <3> QED BY <3>2, <3>4 DEF Asked
    <2>4. ASSUME NEW m \in new
          PROVE  \E b \in Written(es, m) : Asked(b, es, i, tuples, RAW, m, m + 1)
      <3>1. m = j /\ Explains(w, consumed)
        BY <1>5
      <3>2. PICK p \in w, c \in consumed : mem_tuple_overlap(p, c).offset > MIN_TUPLE_OFFSET
        BY <3>1 DEF Explains
      <3>3. p \in Fitting /\ c \in Fitting
        BY <1>2, <1>4 DEF TupleSets
      <3>4. Bytes(p) \cap Bytes(c) # {}
        <4>1. PICK o : o = mem_tuple_overlap(p, c).offset
          OBVIOUS
        <4>2. o \in Nat /\ (o > 0 => Bytes(p) \cap Bytes(c) # {})
          BY <3>3, <4>1, OverlapFits
        <4>3. o > 0
          BY <3>2, <4>1, <4>2
        <4> QED BY <4>2, <4>3
      <3>5. PICK b : b \in Bytes(p) /\ b \in Bytes(c)
        BY <3>4
      <3>6. b \in AllBytes(w) /\ b \in AllBytes(consumed)
        BY <3>2, <3>5 DEF AllBytes
      <3> QED BY <1>1, <2>2, <3>1, <3>6 DEF Written
    <2>5. CASE left = {}
      <3>1. AllBytes(was.left) = {}
        BY <1>1, <2>5 DEF AllBytes
      <3>2. LookAt(e, j, was, RAW) = was
        BY <1>7, <2>5
      <3> QED BY <1>1, <2>1, <3>1, <3>2 DEF Real
    <2>6. CASE left # {}
      <3>1. PICK after : after = LookAt(e, j, was, RAW)
        OBVIOUS
      <3>2. after.left = rest /\ after.found = found \cup new
        BY <1>7, <2>6, <3>1
      <3>3. Real(after, es, i, tuples, RAW, j)
        BY <2>1, <2>3, <2>4, <3>2 DEF Real
      <3> QED BY <3>1, <3>3
    <2> QED BY <2>5, <2>6
  <1> QED
    BY <1>1, <1>8, <1>9

FindsBy(g, es, i, tuples, RAW) ==
  /\ g[0] = [left |-> tuples, found |-> {}] /\ \A n \in 0..(i - 1) : g[n] \in LookStates(i)
  /\ \A n \in 1..(i - 1) : g[n] = LookAt(es[i - n], i - n, g[n - 1], RAW)
  /\ Producers(es, i, tuples, RAW) = g[i - 1].found

LEMMA FindingRounds ==
  ASSUME NEW es \in Seq(Epoch), NEW i \in DOMAIN es, NEW tuples \in TupleSets, NEW RAW \in BOOLEAN
  PROVE  \E g : FindsBy(g, es, i, tuples, RAW)
  <1> DEFINE N == i - 1
             S == LookStates(i)
             x == [left |-> tuples, found |-> {}]
             Op(s, n) == LookAt(es[i - n], i - n, s, RAW)
             f == [n \in 1..N |-> [s \in S |-> Op(s, n)]]
             After(a) == a = [n \in 0..N |-> IF n = 0 THEN x ELSE Op(a[n - 1], n)]
             h == CHOOSE a : After(a)
  <1>1. N \in Nat /\ x \in S /\ \A n \in 1..N : i - n \in 1..(i - 1)
    BY DEF LookStates
  <1>2. \A s \in S, n \in 1..N : Op(s, n) \in S
    BY <1>1, LookAtReal
  <1>3. Producers(es, i, tuples, RAW) = h[N].found
    BY DEF Producers
  <1> HIDE DEF N, Op, S, x
  <1>4. \E a : After(a)
    <2>1. f \in [1..N -> [S -> S]]
      BY <1>2
    <2>2. PICK g : Iterates(g, S, x, N, f)
      <3> HIDE DEF f
      <3> QED BY <1>1, <2>1, Iteration
    <2>3. \A n \in 1..N : g[n] = Op(g[n - 1], n)
      BY <2>2 DEF Iterates
    <2>4. After(g)
      BY <1>1, <2>2, <2>3 DEF Iterates
    <2> QED BY <2>4
  <1>5. After(h)
    <2> HIDE DEF After
    <2> QED BY <1>4
  <1> HIDE DEF h
  <1>6. /\ h[0] = x
        /\ \A n \in 1..N : n \in 0..N /\ n - 1 \in 0..N /\ h[n] = Op(h[n - 1], n)
    BY <1>1, <1>5
  <1>7. \A n \in 0..N : h[n] \in S
    <2>1. h[0] \in S /\ \A n \in 1..N : h[n - 1] \in S => h[n] \in S
      BY <1>1, <1>2, <1>6
    <2> HIDE DEF f, After
    <2> QED BY <1>1, <2>1, StaysIn, Zenon
  <1> QED
    <2>1. FindsBy(h, es, i, tuples, RAW)
      BY <1>3, <1>6, <1>7 DEF FindsBy, N, Op, S, x
    <2> QED BY <2>1

LEMMA ProducersAreReal ==
  ASSUME NEW es \in Seq(Epoch), NEW i \in DOMAIN es, NEW tuples \in TupleSets, NEW RAW \in BOOLEAN
  PROVE  \A j \in Producers(es, i, tuples, RAW) :
           /\ j \in 1..(i - 1)
           /\ \E b \in Written(es, j) : Asked(b, es, i, tuples, RAW, j, j + 1)
  <1>1. PICK g : FindsBy(g, es, i, tuples, RAW)
    BY FindingRounds
  <1>2. PICK N, T : /\ N = i - 1 /\ N \in Nat
                    /\ T = {n \in 0..N : Real(g[n], es, i, tuples, RAW, i - n)}
    <2>1. i \in 1..Len(es) /\ Len(es) \in Nat
      OBVIOUS
    <2>2. i - 1 \in Nat
      BY <2>1
    <2> QED BY <2>2
  <1>3. /\ g[0] = [left |-> tuples, found |-> {}] /\ \A n \in 0..N : g[n] \in LookStates(i)
        /\ \A n \in 1..N : g[n] = LookAt(es[i - n], i - n, g[n - 1], RAW)
        /\ Producers(es, i, tuples, RAW) = g[N].found
    BY <1>1, <1>2 DEF FindsBy
  <1>4. 0 \in T
    <2>1. \A q \in i..(i - 1) : FALSE
      BY <1>2
    <2>2. \A b \in AllBytes(tuples) : Asked(b, es, i, tuples, RAW, i, i)
      BY <2>1 DEF Asked
    <2>3. Real(g[0], es, i, tuples, RAW, i)
      BY <1>3, <2>2 DEF Real
    <2>4. i - 0 = i /\ 0 \in 0..N
      BY <1>2
    <2> QED BY <1>2, <2>3, <2>4
  <1>5. ASSUME NEW n \in 1..N, n - 1 \in T PROVE n \in T
    <2>1. PICK j : j = i - n
      OBVIOUS
    <2>2. /\ j \in 1..(i - 1) /\ i - (n - 1) = j + 1 /\ n \in 0..N /\ n - 1 \in 0..N
      BY <1>2, <2>1
    <2>3. PICK was : was = g[n - 1] /\ was \in LookStates(i) /\ Real(was, es, i, tuples, RAW, j + 1)
      BY <1>2, <1>3, <1>5, <2>2
    <2>4. g[n] = LookAt(es[j], j, was, RAW)
      BY <1>3, <2>1, <2>3
    <2>5. Real(g[n], es, i, tuples, RAW, j)
      BY <2>2, <2>3, <2>4, LookAtReal
    <2> QED BY <1>2, <2>1, <2>2, <2>5
  <1>6. N \in T /\ N \in 0..N
    <2>1. \A n \in 0..N : n \in T
      BY <1>2, <1>4, <1>5, UpTo
    <2> QED BY <1>2, <2>1
  <1>7. \A j \in g[N].found : \E b \in Written(es, j) : Asked(b, es, i, tuples, RAW, j, j + 1)
    BY <1>2, <1>6 DEF Real
  <1>8. g[N].found \subseteq 1..(i - 1)
    BY <1>3, <1>6 DEF LookStates
  <1> QED
    BY <1>3, <1>7, <1>8

LEMMA DependencyIsReal ==
  ASSUME NEW es \in Seq(Epoch), NEW i \in DOMAIN es
  PROVE  /\ \A j \in Producers(es, i, es[i].rTuples, TRUE) :
              AllBytes(es[j].wTuples) \cap ReadFor(es, j, i) # {}
         /\ \A j \in Producers(es, i, es[i].wTuples, FALSE) :
              (AllBytes(es[j].wTuples) \cap AllBytes(es[i].wTuples)) \ WrittenBetween(es, j, i) # {}
  <1>1. es[i].rTuples \in TupleSets /\ es[i].wTuples \in TupleSets
    <2>1. es[i] \in Epoch
      OBVIOUS
    <2> QED BY <2>1 DEF Epoch
  <1>2. ASSUME NEW j \in Producers(es, i, es[i].rTuples, TRUE)
        PROVE  AllBytes(es[j].wTuples) \cap ReadFor(es, j, i) # {}
    <2>1. PICK b \in Written(es, j) : Asked(b, es, i, es[i].rTuples, TRUE, j, j + 1)
      BY <1>1, ProducersAreReal
    <2>2. PICK s \in {i} \cup {n \in j..(i - 1) : Copies(es[n])} :
            /\ b \in AllBytes(es[s].rTuples)
            /\ \A q \in (j + 1)..(s - 1) : b \notin Written(es, q)
      BY <2>1 DEF Asked
    <2>3. b \notin WrittenBetween(es, j, s)
      BY <2>2 DEF WrittenBetween, Written
    <2>4. b \in ReadFor(es, j, i)
      BY <2>2, <2>3 DEF ReadFor
    <2> QED BY <2>1, <2>4 DEF Written
  <1>3. ASSUME NEW j \in Producers(es, i, es[i].wTuples, FALSE)
        PROVE  (AllBytes(es[j].wTuples) \cap AllBytes(es[i].wTuples)) \ WrittenBetween(es, j, i) # {}
    <2>1. PICK b \in Written(es, j) : Asked(b, es, i, es[i].wTuples, FALSE, j, j + 1)
      BY <1>1, ProducersAreReal
    <2>2. /\ b \in AllBytes(es[i].wTuples)
          /\ \A q \in (j + 1)..(i - 1) : b \notin Written(es, q)
      BY <2>1 DEF Asked
    <2>3. b \notin WrittenBetween(es, j, i)
      BY <2>2 DEF WrittenBetween, Written
    <2> QED BY <2>1, <2>2, <2>3 DEF Written
  <1> QED
    BY <1>2, <1>3

\* A dependency is one of data: the producer wrote what is read, no epoch between did.
THEOREM DependenciesAreReal == Spec => []DependenciesReal
  <1>1. Init => DependenciesReal
    BY DEF Init, DependenciesReal
  <1>2. ASSUME TypeOK, DependenciesReal, [Next]_vars PROVE DependenciesReal'
    <2>1. CASE ~Destroyed'
      <3>1. TypeOK'
        BY <1>2, NextType
      <3>2. taskCommunication' = <<>>
        BY <2>1, <3>1 DEF TypeOK, Destroyed
      <3> QED BY <3>2 DEF DependenciesReal
    <2>2. CASE Destroyed /\ epochs' = epochs /\ taskCommunication' = taskCommunication
      BY <1>2, <2>2 DEF DependenciesReal
    <2>3. CASE MemoryDestroy
      <3>1. PICK es : es = epochs' /\ es \in Seq(Epoch)
        BY <1>2, NextType DEF TypeOK
      <3>2. /\ taskCommunication' = GenerateTaskCommunication(es)
            /\ epochs' = es
        BY <2>3, <3>1 DEF MemoryDestroy
      <3>3. DOMAIN taskCommunication' = DOMAIN es
        BY <3>2 DEF GenerateTaskCommunication
      <3>4. \A i \in DOMAIN es :
              /\ taskCommunication'[i].RAW = Producers(es, i, es[i].rTuples, TRUE)
              /\ taskCommunication'[i].WAW = Producers(es, i, es[i].wTuples, FALSE)
        BY <3>2 DEF GenerateTaskCommunication
      <3>5. \A i \in DOMAIN es :
              /\ \A j \in taskCommunication'[i].RAW : AllBytes(es[j].wTuples) \cap ReadFor(es, j, i) # {}
              /\ \A j \in taskCommunication'[i].WAW :
                   (AllBytes(es[j].wTuples) \cap AllBytes(es[i].wTuples)) \ WrittenBetween(es, j, i) # {}
        <4>1. SUFFICES ASSUME NEW i \in DOMAIN es
                       PROVE  /\ \A j \in Producers(es, i, es[i].rTuples, TRUE) :
                                   AllBytes(es[j].wTuples) \cap ReadFor(es, j, i) # {}
                              /\ \A j \in Producers(es, i, es[i].wTuples, FALSE) :
                                   (AllBytes(es[j].wTuples) \cap AllBytes(es[i].wTuples))
                                     \ WrittenBetween(es, j, i) # {}
          BY <3>4
        <4> QED BY <3>1, DependencyIsReal
      <3> QED BY <3>2, <3>3, <3>5 DEF DependenciesReal
    <2> QED BY <1>2, <2>1, <2>2, <2>3, OnlyDestroyed
  <1>3. TypeOK /\ DependenciesReal /\ [Next]_vars => DependenciesReal'
    BY <1>2
  <1> QED
    BY <1>1, <1>3, TypeAlways, PTL DEF Spec

-----------------------------------------------------------------------------
(* What stays of a tuple whose left end nobody writes *)

\* A tuple of these bytes has all from first to last.
Carries(array, first, last, bytes) ==
  \E l \in array : first..last \subseteq Bytes(l) /\ Bytes(l) \subseteq bytes

Carriers(first, last, bytes) ==
  {array \in TupleSets : Plain(array) /\ Carries(array, first, last, bytes)}

\* Of these bytes the tuple has only what is to the right of last.
Right(tuple, last, bytes) == \A b \in Bytes(tuple) \cap bytes : b > last

\* Of a tuple that is hit to the right of last the left part stays.
LEMMA LeftPartStays ==
  ASSUME NEW l \in Fitting, NEW tuple \in Fitting, Overlap(l, tuple),
         NEW first \in Nat, NEW last \in Nat, first <= last, NEW bytes,
         first..last \subseteq Bytes(l), Bytes(l) \subseteq bytes, Right(tuple, last, bytes)
  PROVE  Carries(mem_tuple_exclusion(l, tuple), first, last, bytes)
  <1>1. PICK o : o = mem_tuple_overlap(l, tuple)
    OBVIOUS
  <1>2. o \in MemTuple /\ o.base > 0 /\ Bytes(o) = Bytes(l) \cap Bytes(tuple)
    BY <1>1, OverlapIsIntersection DEF Fitting
  <1>3. o.base \in Bytes(o) /\ o.base \in Nat
    BY <1>2 DEF Bytes, LastByte, MemTuple
  <1>4. o.base > last /\ o.base \in Bytes(l)
    BY <1>2, <1>3 DEF Right
  <1>5. l.base \in Nat /\ l.offset \in Nat /\ l.offset < OFFSET_SPAN /\ first \in Bytes(l)
    BY DEF Fitting, MemTuple
  <1>6. l.base <= first /\ l.base < o.base /\ o.base - l.base - 1 \in 0..(OFFSET_SPAN - 1)
    BY <1>3, <1>4, <1>5, OffsetAssumption DEF Bytes, LastByte
  <1>7. LastByte(o) # 0
    BY <1>2, <1>3 DEF LastByte, MemTuple
  <1>8. mem_tuple_exclusion(l, tuple) = {LeftPart(l, o)}
    BY <1>1, <1>3, <1>5, <1>6, <1>7 DEF mem_tuple_exclusion
  <1>9. PICK part : part = LeftPart(l, o)
    OBVIOUS
  <1>10. Bytes(part) = l.base..(o.base - 1)
    <2>1. Offset32(o.base - l.base - 1) = o.base - l.base - 1
      BY <1>6, OffsetFits
    <2> QED BY <1>3, <1>5, <1>9, <2>1 DEF LeftPart, Bytes, LastByte
  <1>11. first..last \subseteq Bytes(part)
    BY <1>3, <1>4, <1>5, <1>6, <1>10
  <1>12. Bytes(part) \subseteq Bytes(l)
    <2>1. o.base <= l.base + l.offset /\ Bytes(l) = l.base..(l.base + l.offset)
      BY <1>4, <1>5 DEF Bytes, LastByte
    <2> QED BY <1>3, <1>5, <1>10, <2>1
  <1> QED
    BY <1>8, <1>9, <1>11, <1>12 DEF Carries

LEMMA RemoveCarries ==
  ASSUME NEW first \in Nat, NEW last \in Nat, first <= last, NEW bytes,
         NEW array \in Carriers(first, last, bytes),
         NEW tuple \in Fitting, tuple.AP = "NA", Right(tuple, last, bytes)
  PROVE  remove_tuple_set(array, tuple) \in Carriers(first, last, bytes)
  <1>1. PICK S : S = Carriers(first, last, bytes)
    OBVIOUS
  <1>2. ASSUME NEW s \in S PROVE RemoveNext(tuple, s) \in S
    <2>1. s \in TupleSets /\ Plain(s) /\ Carries(s, first, last, bytes)
      BY <1>1 DEF Carriers
    <2>2. RemoveNext(tuple, s) \in TupleSets /\ Plain(RemoveNext(tuple, s))
      BY <2>1, RemoveNextPlain
    <2>3. Carries(RemoveNext(tuple, s), first, last, bytes)
      <3>1. CASE Find(s, tuple) = {}
        BY <2>1, <3>1 DEF RemoveNext
      <3>2. CASE Find(s, tuple) # {}
        <4>1. PICK e : e = CHOOSE x \in Find(s, tuple) : TRUE
          OBVIOUS
        <4>2. e \in Find(s, tuple)
          BY <3>2, <4>1
        <4>3. e \in s /\ Equivalent(e, tuple) /\ e \in Fitting
          BY <2>1, <4>2, FindFinds DEF TupleSets
        <4>4. RemoveNext(tuple, s) = (s \ {e}) \cup mem_tuple_exclusion(e, tuple)
          BY <3>2, <4>1 DEF RemoveNext
        <4>5. PICK l \in s : first..last \subseteq Bytes(l) /\ Bytes(l) \subseteq bytes
          BY <2>1 DEF Carries
        <4>6. CASE l # e
          BY <4>4, <4>5, <4>6 DEF Carries
        <4>7. CASE l = e
          <5>1. Overlap(e, tuple)
            BY <4>3, EqualIsOverlap DEF Fitting
          <5>2. Carries(mem_tuple_exclusion(e, tuple), first, last, bytes)
            BY <4>3, <4>5, <4>7, <5>1, LeftPartStays
          <5> QED BY <4>4, <5>2 DEF Carries
        <4> QED BY <4>6, <4>7
      <3> QED BY <3>1, <3>2
    <2> QED BY <1>1, <2>2, <2>3 DEF Carriers
  <1>3. array \in S /\ IsFiniteSet(array)
    BY <1>1 DEF Carriers, TupleSets
  <1>4. PICK g : RemovesBy(g, array, tuple, S)
    BY <1>2, <1>3, RemovingRounds
  <1>5. Cardinality(array) \in 0..Cardinality(array)
    BY <1>3, FS_CardinalityType
  <1> QED
    BY <1>1, <1>4, <1>5 DEF RemovesBy

LEMMA CutCarries ==
  ASSUME NEW first \in Nat, NEW last \in Nat, first <= last, NEW bytes,
         NEW left \in Carriers(first, last, bytes),
         NEW p \in Fitting, Right(p, last, bytes), NEW c \in Fitting, c.AP = "NA"
  PROVE  Cut(left, p, c) \in Carriers(first, last, bytes)
  <1>1. PICK o : o = mem_tuple_overlap(p, c)
    OBVIOUS
  <1>2. ~Static(p, c) /\ o.AP = "NA"
    BY <1>1 DEF Static, mem_tuple_overlap
  <1>3. Cut(left, p, c) = IF o.base > 0 THEN remove_tuple_set(left, o) ELSE left
    BY <1>1, <1>2 DEF Cut
  <1>4. o.base > 0 => o \in Fitting /\ Right(o, last, bytes)
    BY <1>1, OverlapFits DEF Right
  <1> QED
    BY <1>2, <1>3, <1>4, RemoveCarries

LEMMA CutAllCarries ==
  ASSUME NEW first \in Nat, NEW last \in Nat, first <= last, NEW bytes,
         NEW left \in Carriers(first, last, bytes),
         NEW p \in Fitting, Right(p, last, bytes), NEW consumer \in TupleSets, Plain(consumer)
  PROVE  CutAll(left, p, consumer) \in Carriers(first, last, bytes)
  <1>1. PICK N, S : N = Cardinality(consumer) /\ S = Carriers(first, last, bytes)
    OBVIOUS
  <1>2. PICK g : CutsBy(g, left, p, consumer)
    BY CuttingRounds DEF Carriers
  <1>3. /\ g[0] = left /\ CutAll(left, p, consumer) = g[N]
        /\ \A n \in 1..N : g[n] = Cut(g[n - 1], p, Sorted(consumer)[n])
    BY <1>1, <1>2 DEF CutsBy
  <1>4. N \in Nat /\ \A n \in 1..N : Sorted(consumer)[n] \in consumer
    BY <1>1, SortedWalks
  <1>5. ASSUME NEW n \in 1..N, g[n - 1] \in S PROVE g[n] \in S
    <2>1. PICK c : c = Sorted(consumer)[n] /\ c \in Fitting /\ c.AP = "NA"
      BY <1>4 DEF TupleSets, Plain
    <2>2. g[n] = Cut(g[n - 1], p, c)
      BY <1>3, <2>1
    <2> QED BY <1>1, <1>5, <2>1, <2>2, CutCarries
  <1>6. \A n \in 0..N : g[n] \in S
    <2>1. /\ N \in Nat /\ g[0] \in S
          /\ \A n \in 1..N : g[n - 1] \in S => g[n] \in S
      BY <1>1, <1>3, <1>4, <1>5
    <2> QED BY <2>1, StaysIn, Zenon
  <1> QED
    BY <1>1, <1>3, <1>4, <1>6

LEMMA UnexplainedCarries ==
  ASSUME NEW first \in Nat, NEW last \in Nat, first <= last, NEW bytes,
         NEW consumer \in Carriers(first, last, bytes),
         NEW producer \in TupleSets, \A p \in producer : Right(p, last, bytes)
  PROVE  Unexplained(producer, consumer) \in Carriers(first, last, bytes)
  <1>1. PICK N, S : N = Cardinality(producer) /\ S = Carriers(first, last, bytes)
    OBVIOUS
  <1>2. consumer \in TupleSets /\ Plain(consumer) /\ consumer \in S
    BY <1>1 DEF Carriers
  <1>3. PICK g : ExplainsBy(g, producer, consumer)
    BY <1>2, ExplainingRounds
  <1>4. /\ g[0] = consumer /\ Unexplained(producer, consumer) = g[N]
        /\ \A n \in 1..N : g[n] = CutAll(g[n - 1], Sorted(producer)[n], consumer)
    BY <1>1, <1>3 DEF ExplainsBy
  <1>5. N \in Nat /\ \A n \in 1..N : Sorted(producer)[n] \in producer
    BY <1>1, SortedWalks
  <1>6. ASSUME NEW n \in 1..N, g[n - 1] \in S PROVE g[n] \in S
    <2>1. PICK p : p = Sorted(producer)[n] /\ p \in Fitting /\ Right(p, last, bytes)
      BY <1>5 DEF TupleSets
    <2>2. g[n] = CutAll(g[n - 1], p, consumer)
      BY <1>4, <2>1
    <2> QED BY <1>1, <1>2, <1>6, <2>1, <2>2, CutAllCarries
  <1>7. \A n \in 0..N : g[n] \in S
    <2>1. /\ N \in Nat /\ g[0] \in S
          /\ \A n \in 1..N : g[n - 1] \in S => g[n] \in S
      BY <1>2, <1>4, <1>5, <1>6
    <2> QED BY <2>1, StaysIn, Zenon
  <1> QED
    BY <1>1, <1>4, <1>5, <1>7

-----------------------------------------------------------------------------
(* The last writer *)

PlainInv == memoryActive => \A i \in DOMAIN epochs : PlainEpoch(epochs[i])

LEMMA NewIsPlain ==
  ASSUME NEW from, NEW to
  PROVE  PlainEpoch(NewEpoch(from, to))
  BY DEF PlainEpoch, PlainReads, Plain, NewEpoch

LEMMA NextPlain ==
  ASSUME TypeOK, PlainInv, [Next]_vars
  PROVE  PlainInv'
  <1>1. CASE MemoryInit
    <2>1. \A i \in DOMAIN epochs' : epochs'[i] = NewEpoch(FirstBlock, FirstBlock)
      BY <1>1 DEF MemoryInit
    <2> QED BY <2>1, NewIsPlain DEF PlainInv
  <1>2. ASSUME NEW a \in Blocks, IncrementInside(a) PROVE PlainInv'
    <2>1. \A i \in DOMAIN epochs : epochs[i] \in Epoch /\ PlainEpoch(epochs[i])
      BY <1>2 DEF IncrementInside, PlainInv, TypeOK
    <2>2. PICK n : n = [epochs[current] EXCEPT !.blocks = @ \cup {a}]
      OBVIOUS
    <2>3. current \in DOMAIN epochs
      BY <1>2, LastEpoch DEF IncrementInside
    <2>4. n.rTuples = epochs[current].rTuples /\ n.malloc_ptrs = epochs[current].malloc_ptrs
      BY <2>1, <2>2, <2>3 DEF Epoch
    <2>5. PlainEpoch(n)
      BY <2>1, <2>3, <2>4 DEF PlainEpoch
    <2>6. epochs' = [epochs EXCEPT ![current] = n]
      BY <1>2, <2>2 DEF IncrementInside
    <2> QED BY <2>1, <2>5, <2>6 DEF PlainInv
  <1>3. ASSUME NEW a \in Blocks, IncrementAcross(a) PROVE PlainInv'
    <2>1. PICK n, es :
            /\ n.rTuples = epochs[current].rTuples /\ n.malloc_ptrs = epochs[current].malloc_ptrs
            /\ es = [epochs EXCEPT ![current] = n]
            /\ es \in Seq(Epoch) /\ Len(es) = Len(epochs) /\ DOMAIN es = DOMAIN epochs
            /\ epochs' = Append(es, NewEpoch(lastBlock, a))
      BY <1>3, EndOfEpoch
    <2>2. \A i \in DOMAIN epochs : PlainEpoch(epochs[i])
      BY <1>3 DEF IncrementAcross, PlainInv
    <2>3. current \in DOMAIN epochs
      BY <1>3, LastEpoch DEF IncrementAcross
    <2>4. PlainEpoch(n)
      BY <2>1, <2>2, <2>3 DEF PlainEpoch
    <2>5. \A i \in DOMAIN epochs : PlainEpoch(es[i])
      BY <2>1, <2>2, <2>4
    <2>6. PICK new : new = NewEpoch(lastBlock, a) /\ PlainEpoch(new)
      BY NewIsPlain
    <2>7. \A i \in DOMAIN epochs' : (i \in DOMAIN epochs /\ epochs'[i] = es[i]) \/ epochs'[i] = new
      BY <2>1, <2>6
    <2> QED BY <2>5, <2>6, <2>7 DEF PlainInv
  <1>4. ASSUME NEW n, NEW reads, NEW writes, AccessOf(n, reads, writes) PROVE PlainInv'
    <2>1. \A i \in DOMAIN epochs : PlainEpoch(epochs[i])
      BY <1>4 DEF AccessOf, PlainInv
    <2>2. current \in DOMAIN epochs
      BY <1>4, LastEpoch DEF AccessOf
    <2>3. PlainEpoch(n) /\ epochs' = [epochs EXCEPT ![current] = n]
      BY <1>4, <2>1, <2>2 DEF AccessOf
    <2> QED BY <2>1, <2>2, <2>3 DEF PlainInv
  <1>5. CASE MemoryDestroy
    BY <1>5 DEF MemoryDestroy, PlainInv
  <1>6. CASE UNCHANGED vars
    BY <1>6 DEF vars, PlainInv
  <1> QED
    BY <1>1, <1>2, <1>3, <1>4, <1>5, <1>6, Steps

\* Cleaning what was read gives it no access pattern.
LEMMA ProcessedPlain ==
  ASSUME NEW e \in Epoch, PlainEpoch(e)
  PROVE  Plain(Processed(e).rTuples)
  <1>1. PICK r : r = Cleaned(e, e.rTuples)
    OBVIOUS
  <1>2. PICK start, temps : start = LargeEnough(e.rTuples) /\ temps = Temporaries(e)
    OBVIOUS
  <1>3. start \in TupleSets /\ Plain(start)
    <2>1. {} \in TupleSets
      BY FS_EmptySet DEF TupleSets, Disjoint
    <2>2. e.rTuples \in TupleSets
      BY DEF Epoch
    <2> QED BY <1>2, <2>1, <2>2 DEF LargeEnough, PlainEpoch, PlainReads, Plain
  <1>4. temps \in TupleSets /\ Plain(temps)
    <2>1. e.malloc_ptrs \in TupleSets /\ temps \in SUBSET e.malloc_ptrs
      BY <1>2 DEF Epoch, Temporaries
    <2>2. IsFiniteSet(temps)
      BY <2>1, FS_Subset DEF TupleSets
    <2> QED BY <2>1, <2>2 DEF TupleSets, Disjoint, PlainEpoch, Plain
  <1>5. PICK g : CleansBy(g, start, temps)
    BY <1>3, <1>4, CleaningRounds
  <1>6. PICK N : N = Cardinality(temps)
    OBVIOUS
  <1>7. N \in Nat /\ \A n \in 1..N : Sorted(temps)[n] \in temps
    BY <1>4, <1>6, SortedWalks
  <1>8. /\ g[0] = start /\ \A n \in 0..N : g[n] \in TupleSets
        /\ \A n \in 1..N : g[n] = remove_tuple_set(g[n - 1], Sorted(temps)[n])
        /\ r = g[N]
    BY <1>1, <1>2, <1>5, <1>6 DEF CleansBy, Cleaned
  <1>9. PICK S : S = {array \in TupleSets : Plain(array)}
    OBVIOUS
  <1>10. ASSUME NEW n \in 1..N, g[n - 1] \in S PROVE g[n] \in S
    <2>1. Sorted(temps)[n] \in Fitting /\ Sorted(temps)[n].AP = "NA"
      BY <1>4, <1>7 DEF TupleSets, Plain
    <2>2. n \in 0..N
      OBVIOUS
    <2> QED BY <1>8, <1>9, <1>10, <2>1, <2>2, RemovePlain
  <1>11. \A n \in 0..N : g[n] \in S
    <2>1. /\ N \in Nat /\ g[0] \in S
          /\ \A n \in 1..N : g[n - 1] \in S => g[n] \in S
      BY <1>3, <1>7, <1>8, <1>9, <1>10
    <2> QED BY <2>1, StaysIn, Zenon
  <1>12. Plain(r)
    BY <1>7, <1>8, <1>9, <1>11
  <1>13. Processed(e).rTuples = r
    BY <1>1 DEF Processed, Epoch
  <1> QED BY <1>12, <1>13

LEMMA NothingPassedOn ==
  ASSUME NEW e \in Epoch, ~Copies(e), NEW consumed \in TupleSets
  PROVE  PassedOn(e, consumed) = consumed
  <1>1. PICK g, N : PassesBy(g, e, consumed) /\ N = Cardinality(e.wTuples)
    BY PassingRounds
  <1>2. /\ g[0] = consumed /\ PassedOn(e, consumed) = g[N]
        /\ \A n \in 1..N : g[n] = PassOn(e, g[n - 1], Sorted(e.wTuples)[n])
    BY <1>1 DEF PassesBy
  <1>3. N \in Nat /\ \A n \in 1..N : Sorted(e.wTuples)[n] \in e.wTuples
    BY <1>1, SortedWalks DEF Epoch
  <1>4. \A t \in e.wTuples : HandsOn(e, t) = {}
    BY DEF HandsOn, Copies
  <1>5. \A n \in 1..N : g[n] = g[n - 1]
    BY <1>2, <1>3, <1>4 DEF PassOn
  <1>6. PICK S : S = {consumed}
    OBVIOUS
  <1>7. \A n \in 0..N : g[n] \in S
    <2>1. /\ N \in Nat /\ g[0] \in S
          /\ \A n \in 1..N : g[n - 1] \in S => g[n] \in S
      BY <1>2, <1>3, <1>5, <1>6
    <2> QED BY <2>1, StaysIn, Zenon
  <1> QED
    BY <1>2, <1>3, <1>6, <1>7

\* Enough bytes for a dependency make one.
LEMMA RunExplains ==
  ASSUME NEW p \in Fitting, NEW l \in Fitting, NEW first \in Nat,
         Run(first) \subseteq Bytes(p), Run(first) \subseteq Bytes(l)
  PROVE  mem_tuple_overlap(p, l).offset > MIN_TUPLE_OFFSET
  <1>1. PICK o, last : o = mem_tuple_overlap(p, l) /\ last = first + MIN_TUPLE_OFFSET + 1
    OBVIOUS
  <1>2. first \in Run(first) /\ last \in Run(first) /\ last \in Nat /\ first <= last
    BY <1>1 DEF Run
  <1>3. /\ o.base > 0 => o \in Fitting /\ Bytes(o) = Bytes(p) \cap Bytes(l)
        /\ ~(o.base > 0) => Bytes(p) \cap Bytes(l) = {}
    BY <1>1, OverlapFits
  <1>4. o \in Fitting /\ first \in Bytes(o) /\ last \in Bytes(o)
    BY <1>2, <1>3
  <1>5. o.base \in Nat /\ o.offset \in Nat /\ o.base <= first /\ last <= o.base + o.offset
    BY <1>4 DEF Fitting, MemTuple, Bytes, LastByte
  <1> QED
    BY <1>1, <1>5

\* A run of bytes that a tuple of epoch i reads, of which j is the last writer,
\* is still there when the walk comes to j, if the tuple was only cut behind it.
LEMMA LastWriterIsProducer ==
  ASSUME NEW es \in Seq(Epoch), NEW i \in DOMAIN es, Plain(es[i].rTuples),
         NEW j \in 1..(i - 1), NEW c \in es[i].rTuples, NEW first \in Bytes(c),
         Run(first) \subseteq Bytes(c),
         NEW p \in es[j].wTuples, Run(first) \subseteq Bytes(p),
         WrittenBetween(es, j, i) \cap Run(first) = {},
         \A m \in j..(i - 1) : ~Copies(es[m]),
         \A b \in WrittenBetween(es, j, i) \cap Bytes(c) : b > first
  PROVE  j \in Producers(es, i, es[i].rTuples, TRUE)
  <1>1. /\ i \in Nat /\ j \in Nat /\ j < i /\ j > 0
        /\ \A m \in 1..i : m \in DOMAIN es /\ es[m] \in Epoch
    <2>1. i \in 1..Len(es) /\ Len(es) \in Nat
      OBVIOUS
    <2> QED BY <2>1
  <1>2. PICK tuples : tuples = es[i].rTuples /\ tuples \in TupleSets
    BY <1>1 DEF Epoch
  <1>3. \A m \in j..(i - 1) : es[m] \in Epoch /\ es[m].wTuples \in TupleSets
    <2>1. \A m \in j..(i - 1) : m \in 1..i
      BY <1>1
    <2>2. \A e \in Epoch : e.wTuples \in TupleSets
      BY DEF Epoch
    <2> QED BY <1>1, <2>1, <2>2
  <1>4. c \in Fitting /\ p \in Fitting /\ first \in Nat /\ \A b \in Bytes(c) : b \in Nat
    <2>1. c \in Fitting /\ j \in j..(i - 1)
      BY <1>1, <1>2 DEF TupleSets
    <2>2. p \in Fitting
      BY <1>3, <2>1 DEF TupleSets
    <2> QED BY <2>1, <2>2 DEF Fitting, MemTuple, Bytes
  <1>5. PICK last, S : /\ last = first + MIN_TUPLE_OFFSET + 1 /\ last \in Nat /\ first <= last
                       /\ S = Carriers(first, last, Bytes(c))
    BY <1>4
  <1>6. Run(first) = first..last
    BY <1>5 DEF Run
  <1>7. ASSUME NEW m \in (j + 1)..(i - 1), NEW q \in es[m].wTuples
        PROVE  Right(q, last, Bytes(c))
    <2>1. SUFFICES ASSUME NEW b \in Bytes(q) \cap Bytes(c) PROVE b > last
      BY DEF Right
    <2>2. b \in WrittenBetween(es, j, i)
      BY <1>7 DEF WrittenBetween, AllBytes
    <2>3. b > first /\ b \notin Run(first) /\ b \in Nat
      BY <1>4, <2>2
    <2> QED BY <1>4, <1>5, <1>6, <2>3
  <1>8. PICK g : FindsBy(g, es, i, tuples, TRUE)
    BY <1>2, FindingRounds
  <1>9. /\ g[0] = [left |-> tuples, found |-> {}] /\ \A n \in 0..(i - 1) : g[n] \in LookStates(i)
        /\ \A n \in 1..(i - 1) : g[n] = LookAt(es[i - n], i - n, g[n - 1], TRUE)
        /\ Producers(es, i, tuples, TRUE) = g[i - 1].found
    BY <1>8 DEF FindsBy
  <1>10. ASSUME NEW m \in j..(i - 1), NEW was, was.left \in S
         PROVE  LookAt(es[m], m, was, TRUE) =
                  [left |-> Unexplained(es[m].wTuples, was.left),
                   found |-> was.found \cup IF Explains(es[m].wTuples, was.left) THEN {m} ELSE {}]
    <2>1. was.left # {} /\ was.left \in TupleSets
      BY <1>5, <1>10 DEF Carriers, Carries
    <2>2. PassedOn(es[m], was.left) = was.left
      BY <1>3, <2>1, NothingPassedOn
    <2> QED BY <2>1, <2>2 DEF LookAt
  <1>11. PICK K : K = i - 1 - j /\ K \in Nat /\ K + 1 \in 1..(i - 1) /\ i - (K + 1) = j
    BY <1>1
  <1>12. PICK h : h = [n \in 0..K |-> g[n].left]
    OBVIOUS
  <1>13. h[0] \in S
    <2>1. first..last \subseteq Bytes(c)
      BY <1>6
    <2>2. tuples \in S
      BY <1>2, <1>5, <2>1 DEF Carriers, Carries
    <2>3. h[0] = tuples
      BY <1>9, <1>11, <1>12
    <2> QED BY <2>2, <2>3
  <1>14. ASSUME NEW n \in 1..K, h[n - 1] \in S PROVE h[n] \in S
    <2>1. /\ n \in 1..(i - 1) /\ i - n \in (j + 1)..(i - 1) /\ i - n \in j..(i - 1)
          /\ n \in 0..K /\ n - 1 \in 0..K
      <3>1. n \in Nat /\ 1 <= n /\ n <= i - 1 - j
        BY <1>11
      <3>2. n \in 1..(i - 1) /\ i - n \in (j + 1)..(i - 1) /\ i - n \in j..(i - 1)
        BY <1>1, <3>1
      <3>3. K \in Nat
        BY <1>11
      <3>4. n \in 0..K /\ n - 1 \in 0..K
        BY <3>3
      <3> QED BY <3>2, <3>4
    <2>2. PICK m, was : m = i - n /\ was = g[n - 1]
      OBVIOUS
    <2>3. h[n - 1] = was.left /\ h[n] = g[n].left
      BY <1>12, <2>1, <2>2
    <2>4. g[n] = LookAt(es[m], m, was, TRUE)
      BY <1>9, <2>1, <2>2
    <2>5. h[n] = Unexplained(es[m].wTuples, was.left)
      <3>1. m \in j..(i - 1) /\ was.left \in S
        BY <1>14, <2>1, <2>2, <2>3
      <3>2. g[n] = [left |-> Unexplained(es[m].wTuples, was.left),
                    found |-> was.found \cup IF Explains(es[m].wTuples, was.left) THEN {m} ELSE {}]
        BY <1>10, <2>4, <3>1
      <3> QED BY <2>3, <3>2
    <2>6. was.left \in Carriers(first, last, Bytes(c))
      BY <1>5, <1>14, <2>3
    <2>7. es[m].wTuples \in TupleSets /\ \A q \in es[m].wTuples : Right(q, last, Bytes(c))
      BY <1>3, <1>7, <2>1, <2>2
    <2>8. Unexplained(es[m].wTuples, was.left) \in Carriers(first, last, Bytes(c))
      BY <1>4, <1>5, <2>6, <2>7, UnexplainedCarries
    <2> QED BY <1>5, <2>5, <2>8
  <1>15. \A n \in 0..K : h[n] \in S
    <2>1. /\ K \in Nat /\ h[0] \in S
          /\ \A n \in 1..K : h[n - 1] \in S => h[n] \in S
      BY <1>11, <1>13, <1>14
    <2> QED BY <2>1, StaysIn, Zenon
  <1>16. PICK was : was = g[K] /\ was.left \in S
    BY <1>11, <1>12, <1>15
  <1>17. Explains(es[j].wTuples, was.left)
    <2>1. PICK l \in was.left : first..last \subseteq Bytes(l)
      BY <1>5, <1>16 DEF Carriers, Carries
    <2>2. l \in Fitting /\ l.AP = "NA"
      BY <1>5, <1>16, <2>1 DEF Carriers, TupleSets, Plain
    <2>3. ~Static(p, l)
      BY <2>2 DEF Static
    <2>4. mem_tuple_overlap(p, l).offset > MIN_TUPLE_OFFSET
      BY <1>4, <1>6, <2>1, <2>2, RunExplains
    <2> QED BY <2>1, <2>3, <2>4 DEF Explains
  <1>18. j \in g[K + 1].found
    <2>1. g[K + 1] = LookAt(es[j], j, was, TRUE)
      <3>1. PICK n : n = K + 1
        OBVIOUS
      <3>2. n \in 1..(i - 1) /\ i - n = j /\ n - 1 = K
        BY <1>11, <3>1
      <3>3. g[n] = LookAt(es[i - n], i - n, g[n - 1], TRUE)
        BY <1>9, <3>2
      <3> QED BY <1>16, <3>1, <3>2, <3>3
    <2>2. j \in j..(i - 1)
      BY <1>1
    <2>3. g[K + 1] = [left |-> Unexplained(es[j].wTuples, was.left),
                      found |-> was.found \cup IF Explains(es[j].wTuples, was.left) THEN {j} ELSE {}]
      BY <1>10, <1>16, <2>1, <2>2
    <2>4. g[K + 1].found = was.found \cup {j}
      BY <1>17, <2>3
    <2> QED BY <2>4
  <1>19. \A n \in 1..(i - 1) : g[n - 1].found \subseteq g[n].found
    <2>1. SUFFICES ASSUME NEW n \in 1..(i - 1) PROVE g[n - 1].found \subseteq g[n].found
      OBVIOUS
    <2>2. PICK before, e, m : before = g[n - 1] /\ e = es[i - n] /\ m = i - n
      OBVIOUS
    <2>3. g[n] = LookAt(e, m, before, TRUE)
      BY <1>9, <2>2
    <2>4. PICK left, new :
            LookAt(e, m, before, TRUE) = IF before.left = {} THEN before
                                         ELSE [left |-> left, found |-> before.found \cup new]
      <3>1. PICK consumed, left, new :
              /\ consumed = PassedOn(e, before.left) /\ left = Unexplained(e.wTuples, consumed)
              /\ new = IF Explains(e.wTuples, consumed) THEN {m} ELSE {}
        OBVIOUS
      <3>2. LookAt(e, m, before, TRUE) = IF before.left = {} THEN before
                                         ELSE [left |-> left, found |-> before.found \cup new]
        BY <3>1 DEF LookAt
      <3> QED BY <3>2
    <2>5. CASE before.left = {}
      <3>1. g[n] = before
        BY <2>3, <2>4, <2>5
      <3> QED BY <2>2, <3>1
    <2>6. CASE before.left # {}
      <3>1. PICK after : after = [left |-> left, found |-> before.found \cup new]
        OBVIOUS
      <3>2. g[n] = after
        BY <2>3, <2>4, <2>6, <3>1
      <3> QED BY <2>2, <3>1, <3>2
    <2> QED BY <2>5, <2>6
  <1>20. PICK T : T = {n \in 0..(i - 1) : n > K => j \in g[n].found}
    OBVIOUS
  <1>21. 0 \in T
    <2>1. 0 \in 0..(i - 1)
      BY <1>1
    <2>2. K \in Nat => ~(0 > K)
      OBVIOUS
    <2>3. ~(0 > K)
      BY <1>11, <2>2
    <2> QED BY <1>20, <2>1, <2>3
  <1>22. ASSUME NEW n \in 1..(i - 1), n - 1 \in T PROVE n \in T
    <2>1. n \in 0..(i - 1) /\ (n > K => n = K + 1 \/ n - 1 > K)
      BY <1>11
    <2> QED BY <1>18, <1>19, <1>20, <1>22, <2>1
  <1>23. i - 1 \in T
    <2>1. i - 1 \in Nat /\ i - 1 \in 0..(i - 1)
      BY <1>1
    <2>2. \A n \in 0..(i - 1) : n \in T
      BY <1>21, <1>22, <2>1, UpTo
    <2> QED BY <2>1, <2>2
  <1>24. i - 1 > K
    BY <1>1, <1>11
  <1> QED
    BY <1>2, <1>9, <1>20, <1>23, <1>24

\* Whoever wrote last what an epoch reads is among its producers.
THEOREM LastWritersAreFound == Spec => []LastWriterFound
  <1>1. Init => PlainInv /\ LastWriterFound
    BY DEF Init, PlainInv, LastWriterFound
  <1>2. ASSUME TypeOK, PlainInv, LastWriterFound, [Next]_vars PROVE LastWriterFound'
    <2>1. CASE ~Destroyed'
      <3>1. TypeOK'
        BY <1>2, NextType
      <3>2. taskCommunication' = <<>>
        BY <2>1, <3>1 DEF TypeOK, Destroyed
      <3> QED BY <3>2 DEF LastWriterFound
    <2>2. CASE Destroyed /\ epochs' = epochs /\ taskCommunication' = taskCommunication
      <3>1. LastWriterFound' = LastWriterFound
        BY <2>2 DEF LastWriterFound, LastToWrite, WrittenBetween, Copies
      <3> QED BY <1>2, <3>1
    <2>3. CASE MemoryDestroy
      <3>1. PICK es : es = epochs' /\ es \in Seq(Epoch)
        BY <1>2, NextType DEF TypeOK
      <3>2. /\ taskCommunication' = GenerateTaskCommunication(es)
            /\ es = [n \in DOMAIN epochs |-> Processed(epochs[n])]
        BY <2>3, <3>1 DEF MemoryDestroy
      <3>3. DOMAIN taskCommunication' = DOMAIN es
        BY <3>2 DEF GenerateTaskCommunication
      <3>4. \A i \in DOMAIN es : /\ taskCommunication'[i].RAW = Producers(es, i, es[i].rTuples, TRUE)
                                 /\ Plain(es[i].rTuples)
        <4>1. \A i \in DOMAIN es : es[i] = Processed(epochs[i]) /\ i \in DOMAIN epochs
          BY <3>2
        <4>2. \A i \in DOMAIN epochs : epochs[i] \in Epoch /\ PlainEpoch(epochs[i])
          BY <1>2, <2>3 DEF MemoryDestroy, PlainInv, TypeOK
        <4>3. \A i \in DOMAIN es : Plain(es[i].rTuples)
          BY <4>1, <4>2, ProcessedPlain
        <4> QED BY <3>2, <4>3 DEF GenerateTaskCommunication
      <3>5. ASSUME NEW i \in DOMAIN es, NEW j \in 1..(i - 1), NEW c \in es[i].rTuples,
                   NEW first \in Bytes(c),
                   Run(first) \subseteq Bytes(c),
                   \E p \in es[j].wTuples : Run(first) \subseteq Bytes(p),
                   WrittenBetween(es, j, i) \cap Run(first) = {},
                   \A m \in j..(i - 1) : ~Copies(es[m]),
                   \A b \in WrittenBetween(es, j, i) \cap Bytes(c) : b > first
            PROVE  j \in taskCommunication'[i].RAW
        <4>1. PICK p \in es[j].wTuples : Run(first) \subseteq Bytes(p)
          BY <3>5
        <4>2. j \in Producers(es, i, es[i].rTuples, TRUE)
          BY <3>1, <3>4, <3>5, <4>1, LastWriterIsProducer
        <4> QED BY <3>4, <4>2
      <3>6. SUFFICES ASSUME NEW i \in DOMAIN taskCommunication', NEW j \in 1..(i - 1),
                            NEW c \in epochs'[i].rTuples, NEW first \in Bytes(c),
                            LastToWrite(j, c, i, first)',
                            \A b \in WrittenBetween(epochs', j, i) \cap Bytes(c) : b > first
                     PROVE  j \in taskCommunication'[i].RAW
        BY DEF LastWriterFound
      <3>7. /\ Run(first) \subseteq Bytes(c)
            /\ \E p \in es[j].wTuples : Run(first) \subseteq Bytes(p)
            /\ WrittenBetween(es, j, i) \cap Run(first) = {}
            /\ \A m \in j..(i - 1) : ~Copies(es[m])
        BY <3>1, <3>6 DEF LastToWrite
      <3>8. /\ i \in DOMAIN es /\ c \in es[i].rTuples
            /\ \A b \in WrittenBetween(es, j, i) \cap Bytes(c) : b > first
        BY <3>1, <3>3, <3>6
      <3> QED BY <3>5, <3>7, <3>8
    <2> QED BY <1>2, <2>1, <2>2, <2>3, OnlyDestroyed
  <1>3. TypeOK /\ PlainInv /\ LastWriterFound /\ [Next]_vars => PlainInv' /\ LastWriterFound'
    BY <1>2, NextPlain
  <1> QED
    BY <1>1, <1>3, TypeAlways, PTL DEF Spec
=============================================================================
