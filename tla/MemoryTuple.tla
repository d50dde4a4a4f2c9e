----------------------------- MODULE MemoryTuple -----------------------------
(***************************************************************************)
(* The memory tuples of the memory backend (MemoryTuple.hpp): intervals of *)
(* addresses with the kind of the accesses that made them, and sets of     *)
(* them kept disjoint by an order that calls overlapping tuples equal.     *)
(*                                                                         *)
(* A tuple owns the bytes base..base+offset.  Addresses are positive: base *)
(* 0 marks the empty overlap.  refCount is left out, nothing reads it.     *)
(***************************************************************************)
EXTENDS Integers, FiniteSets

CONSTANT OFFSET_SPAN     \* 2^32, the values of the uint32_t offset

ASSUME OffsetAssumption == OFFSET_SPAN \in Nat \ {0}

-----------------------------------------------------------------------------
__TA_MemType == {"None", "Reader", "Writer", "Malloc", "Free", "Memset", "Memmov", "Memcpy"}
__TA_TemporalAccess == {"NA", "WriteThenRead", "ReadThenWrite", "Random"}

MemTuple == [type : __TA_MemType, AP : __TA_TemporalAccess, base : Nat, offset : Nat]

LastByte(t) == t.base + t.offset

\* The cast to uint32_t.
Offset32(n) == n % OFFSET_SPAN

\* The bytes a tuple owns, and those of a set of tuples.
Bytes(t) == t.base .. LastByte(t)
AllBytes(array) == UNION {Bytes(t) : t \in array}

\* No tuple of these bytes needs an offset that does not fit.
ShortRuns(bytes) == \A first, last \in bytes : first..last \subseteq bytes => last - first < OFFSET_SPAN

\* Fault: a tuple that begins before the other is less, overlap or not.
MTCompare_ByBase(lhs, rhs) == lhs.base < rhs.base

\* lhs comes before rhs: it starts before it and ends before it.
MTCompare(lhs, rhs) == lhs.base < rhs.base /\ LastByte(lhs) < rhs.base

\* What std::set makes of the order.
Equivalent(lhs, rhs) == ~MTCompare(lhs, rhs) /\ ~MTCompare(rhs, lhs)

-----------------------------------------------------------------------------
(* Merging two tuples *)

MemOperators == {"Memset", "Memmov", "Memcpy"}
Allocators == {"Malloc", "Free"}

\* Whether lhs has the higher priority.
MemTypeCompare(lhs, rhs) ==
  \/ lhs \in MemOperators /\ rhs \notin MemOperators
  \/ lhs \in Allocators /\ rhs \notin MemOperators \cup Allocators

InPlaceOrStatic == {"ReadThenWrite", "WriteThenRead"}

\* Likewise; a tie goes to lhs.
MemAccessCompare(lhs, rhs) == lhs \in InPlaceOrStatic \/ rhs \notin InPlaceOrStatic

LesserBase(lhs, rhs) == IF lhs.base < rhs.base THEN lhs.base ELSE rhs.base
GreaterLast(lhs, rhs) == IF LastByte(lhs) > LastByte(rhs) THEN LastByte(lhs) ELSE LastByte(rhs)

merge_tuples(lhs, rhs) ==
  [base   |-> LesserBase(lhs, rhs),
   offset |-> Offset32(GreaterLast(lhs, rhs) - LesserBase(lhs, rhs)),
   type   |-> IF MemTypeCompare(rhs.type, lhs.type) THEN rhs.type ELSE lhs.type,
   AP     |-> IF MemAccessCompare(lhs.AP, rhs.AP) THEN lhs.AP ELSE rhs.AP]

-----------------------------------------------------------------------------
(* Overlap and exclusion *)

\* Where the overlap begins, 0 if there is none.
OverlapBase(lhs, rhs) ==
  IF rhs.base \in Bytes(lhs) THEN rhs.base
  ELSE IF lhs.base \in Bytes(rhs) THEN lhs.base ELSE 0

LesserLast(lhs, rhs) == IF LastByte(lhs) < LastByte(rhs) THEN LastByte(lhs) ELSE LastByte(rhs)

mem_tuple_overlap(lhs, rhs) ==
  LET base == OverlapBase(lhs, rhs)
  IN  [type |-> "None", AP |-> "NA", base |-> base,
       offset |-> IF base = 0 THEN 0 ELSE Offset32(LesserLast(lhs, rhs) - base)]

\* Case 1: lhs begins before the overlap.
LeftPart(lhs, overlap) ==
  [type |-> lhs.type, AP |-> lhs.AP, base |-> lhs.base,
   offset |-> Offset32(overlap.base - lhs.base - 1)]

\* Case 3: lhs begins inside the overlap.  Type and access pattern are those of rhs.
RightPart(lhs, rhs, overlap) ==
  [type |-> rhs.type, AP |-> rhs.AP, base |-> LastByte(overlap) + 1,
   offset |-> Offset32(LastByte(lhs) - (LastByte(overlap) + 1))]

\* What of lhs is outside rhs: all of it, nothing, or one part.  The two cases
\* exclude each other, so that nothing is kept to the right of an overlap that
\* begins inside lhs.
mem_tuple_exclusion(lhs, rhs) ==
  LET overlap == mem_tuple_overlap(lhs, rhs) IN
  IF LastByte(overlap) = 0 THEN {lhs}
  ELSE IF overlap.base <= lhs.base /\ LastByte(lhs) <= LastByte(overlap) THEN {}
  ELSE IF lhs.base < overlap.base THEN {LeftPart(lhs, overlap)}
  ELSE {RightPart(lhs, rhs, overlap)}

-----------------------------------------------------------------------------
(* Sets of tuples: std::set<MemTuple, MTCompare> *)

Disjoint(array) == \A s, t \in array : s # t => Bytes(s) \cap Bytes(t) = {}

\* array.find: the first entry that is equal to the tuple, as a set of at most one.
Find(array, t) ==
  LET equals == {e \in array : Equivalent(e, t)}
  IN  {e \in equals : \A o \in equals : e.base <= o.base}

\* array.insert does nothing if an equal entry is there.
Insert(array, t) == IF Find(array, t) = {} THEN array \cup {t} ELSE array

Readers == {"Reader", "Memcpy"}
Writers == {"Writer", "Memset"}

\* The access pattern that a new tuple gives the one it meets.
Observed(existing, new) ==
  [existing EXCEPT !.AP =
     IF @ # "NA" THEN @
     ELSE IF existing.type \in Readers /\ new.type \in Writers THEN "ReadThenWrite"
     ELSE IF existing.type \in Writers /\ new.type \in Readers THEN "WriteThenRead"
     ELSE @]

\* Fault: only one entry is merged.
merge_tuple_set_Once(array, tuple) ==
  LET match == Find(array, tuple)
  IN  Insert(array \ match,
             IF match = {} THEN tuple
             ELSE merge_tuples(Observed(CHOOSE e \in match : TRUE, tuple), tuple))

\* A round of merge_tuple_set: take out an entry that is equal to the tuple, merged so far.
MergeNext(tuple, was) ==
  IF Find(was.array, was.tuple) = {} THEN was
  ELSE LET existing == CHOOSE e \in Find(was.array, was.tuple) : TRUE
       IN  [array |-> was.array \ {existing},
            tuple |-> merge_tuples(Observed(existing, tuple), was.tuple)]

\* Rounds until there is none, at most as many as entries.
Merging(array, tuple) ==
  LET after[n \in 0..Cardinality(array)] ==
        IF n = 0 THEN [array |-> array, tuple |-> tuple] ELSE MergeNext(tuple, after[n - 1])
  IN  after[Cardinality(array)]

merge_tuple_set(array, tuple) ==
  LET end == Merging(array, tuple) IN Insert(end.array, end.tuple)

\* A round of remove_tuple_set: replace an entry that is equal to the tuple by its
\* parts outside it, which are not equal to it any more.
RemoveNext(tuple, was) ==
  IF Find(was, tuple) = {} THEN was
  ELSE LET existing == CHOOSE e \in Find(was, tuple) : TRUE
       IN  (was \ {existing}) \cup mem_tuple_exclusion(existing, tuple)

remove_tuple_set(array, tuple) ==
  LET after[n \in 0..Cardinality(array)] ==
        IF n = 0 THEN array ELSE RemoveNext(tuple, after[n - 1])
  IN  after[Cardinality(array)]

\* The order in which a set of disjoint tuples is walked.
Sorted(array) ==
  [n \in 1..Cardinality(array) |->
     CHOOSE t \in array : Cardinality({u \in array : u.base < t.base}) = n - 1]

\* A loop over a set: op with one tuple after the other.
Walk(op(_, _), start, array) ==
  LET after[n \in 0..Cardinality(array)] ==
        IF n = 0 THEN start ELSE op(after[n - 1], Sorted(array)[n])
  IN  after[Cardinality(array)]
=============================================================================
