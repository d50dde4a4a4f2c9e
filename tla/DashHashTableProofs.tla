------------------------- MODULE DashHashTableProofs -------------------------
(***************************************************************************)
(* Theorems about the profile's tables: that entries stay where a lookup   *)
(* searches for them, that a move never clashes and that no increment is   *)
(* lost.  For every hash function, every set of keys and every number of   *)
(* doublings.                                                              *)
(***************************************************************************)
EXTENDS DashHashTable, FiniteSetTheorems, TLAPS

-----------------------------------------------------------------------------
(* The inductive invariant: where the entries are *)

Element == [key : Keys, frequency : Nat]
IsArray(a) == a \in [DOMAIN a -> Seq(Element)]

Locs == {"idle", "spin", "enter", "lookup", "bump", "leave", "resolve", "lock",
         "drain"} \cup MoveLocs

TableType ==
  /\ hash \in [Keys -> Nat] /\ size \in Nat \ {0}
  /\ IsArray(array) /\ DOMAIN array = Buckets(size)
  /\ pc \in Locs /\ key \in Keys \cup {NoKey}
  /\ bucket \in Nat /\ newSize \in Nat
  /\ place \in Nat \X (Nat \ {0}) /\ counts \in [Keys -> Nat]

\* What the reader needs at the place it is at.
Prepared ==
  /\ pc # "idle" => key \in Keys
  /\ pc \in {"lock", "drain"} => newSize > 0
  /\ pc \in MoveLocs => IsArray(old)
  /\ pc = "put" => InBucket /\ Tuple <= Len(old[Bucket])

\* The bucket it looked up is its key's.
Pointed == pc = "bump" => bucket = __TA_hash_source(key, size)

\* No key has two entries in a bucket, and the bucket holds them.
IsBucket(b) == /\ b \in Seq(Element) /\ Len(b) <= TUPLE_SIZE
               /\ \A j, l \in DOMAIN b : b[j].key = b[l].key => j = l

\* Each entry is in the bucket of its key.
Placed(a, s) == \A i \in DOMAIN a : /\ IsBucket(a[i])
                                    /\ \A j \in DOMAIN a[i] : __TA_hash_source(a[i][j].key, s) = i

PlacedInv == TableType /\ Placed(array, size) /\ Prepared /\ Pointed

-----------------------------------------------------------------------------
(* The inductive invariant: what the entries are *)

OldSize == size \div 2

\* Tuple t of bucket i is moved before the tuple at place p.
Before(p, i, t) == i < p[1] \/ (i = p[1] /\ t < p[2])

\* Doubling splits a bucket: what is in a new one was moved out of one old bucket.
FromOld(o, p, i, k) == \E t \in DOMAIN o[i] : Before(p, i, t) /\ o[i][t].key = k

\* The entries of an array, and those yet to be moved.
Content(a) == UNION {{a[i][j] : j \in DOMAIN a[i]} : i \in DOMAIN a}
Unmoved(o, p) == UNION {{o[i][t] : t \in {u \in DOMAIN o[i] : ~Before(p, i, u)}} : i \in DOMAIN o}

\* A set of entries has every increment, and none that was not made.
Records(S) == /\ \A e \in S : e.frequency = counts[e.key]
              /\ \A k \in Keys : counts[k] > 0 => \E e \in S : e.key = k

\* During a move: the old array is half as long, and its entries and the new
\* array's together are those that were counted.
Moving ==
  /\ size = 2 * OldSize /\ DOMAIN old = Buckets(OldSize) /\ Placed(old, OldSize)
  /\ \A b \in DOMAIN array : \A j \in DOMAIN array[b] :
       FromOld(old, place, b % OldSize, array[b][j].key)
  /\ Records(Content(array) \cup Unmoved(old, place))

RecordedInv ==
  /\ pc \in {"lock", "drain"} => newSize = 2 * size
  /\ pc \notin MoveLocs => Records(Content(array))
  /\ pc \in MoveLocs => Moving

-----------------------------------------------------------------------------
(* Hashes *)

\* A lookup stays inside the array.
LEMMA HashInArray ==
  ASSUME hash \in [Keys -> Nat], NEW k \in Keys, NEW s \in Nat \ {0}
  PROVE  __TA_hash_source(k, s) \in Buckets(s)
  BY DEF __TA_hash_source, Buckets

\* A number is a multiple of s and a remainder, in one way.
LEMMA Remainder ==
  ASSUME NEW s \in Nat \ {0}, NEW h \in Nat
  PROVE  h % s \in Buckets(s) /\ \E q \in Nat : h = s * q + (h % s)
  <1>1. h \div s \in Nat
    OBVIOUS
  <1>2. h % s \in Buckets(s)
    BY DEF Buckets
  <1>3. h = s * (h \div s) + (h % s)
    OBVIOUS
  <1> QED
    BY <1>1, <1>2, <1>3

LEMMA RemainderUnique ==
  ASSUME NEW s \in Nat \ {0}, NEW p \in Int, NEW q \in Int,
         NEW i \in Buckets(s), NEW j \in Buckets(s), s * p + i = s * q + j
  PROVE  i = j
  BY DEF Buckets

\* Of the bits that find a bucket in the doubled array, all but one find the
\* bucket in the old one.
LEMMA LowBits ==
  ASSUME NEW s \in Nat \ {0}, NEW h \in Nat
  PROVE  (h % (2 * s)) % s = h % s
  <1>1. PICK d \in Nat \ {0} : d = 2 * s
    OBVIOUS
  <1>2. PICK q \in Nat : h = d * q + (h % d)
    BY Remainder
  <1>3. PICK r \in Nat : r = h % d
    OBVIOUS
  <1>4. PICK p \in Nat, t \in Buckets(s) : r = s * p + t /\ t = r % s
    BY Remainder
  <1>5. PICK o \in Nat, u \in Buckets(s) : h = s * o + u /\ u = h % s
    BY Remainder
  <1>6. s * (2 * q + p) + t = s * o + u
    <2>1. h = (2 * s) * q + s * p + t
      BY <1>1, <1>2, <1>3, <1>4 DEF Buckets
    <2>2. (2 * s) * q + s * p = s * (2 * q + p)
      OBVIOUS
    <2> QED BY <1>5, <2>1, <2>2
  <1>7. PICK c \in Int : c = 2 * q + p
    OBVIOUS
  <1>8. s * c + t = s * o + u
    BY <1>6, <1>7
  <1>9. t = u
    <2>1. o \in Int
      OBVIOUS
    <2> QED BY <1>8, <2>1, RemainderUnique
  <1> QED
    BY <1>1, <1>3, <1>4, <1>5, <1>9

-----------------------------------------------------------------------------
(* Buckets *)

LEMMA EmptyBucket == IsBucket(<<>>) /\ DOMAIN <<>> = {}
  <1>1. TUPLE_SIZE \in Nat
    BY TableAssumption
  <1>2. DOMAIN <<>> = {} /\ Len(<<>>) = 0 /\ <<>> \in Seq(Element)
    OBVIOUS
  <1> QED
    BY <1>1, <1>2 DEF IsBucket

\* Counting in a bucket with room changes the entry of the key, or makes it.
LEMMA BumpedBucket ==
  ASSUME NEW b, IsBucket(b), NEW k \in Keys, ~NoRoom(b, k)
  PROVE  LET c == Bumped(b, k)
         IN  /\ IsBucket(c)
             /\ \A j \in DOMAIN c : c[j].key = k \/ (j \in DOMAIN b /\ c[j] = b[j])
             /\ \A j \in DOMAIN b : j \in DOMAIN c /\ c[j].key = b[j].key
             /\ \A j \in DOMAIN b : b[j].key = k => c[j].frequency = b[j].frequency + 1
             /\ ~Has(b, k) => \E j \in DOMAIN c : c[j] = [key |-> k, frequency |-> 1]
  <1> DEFINE c == Bumped(b, k)
  <1>0. b \in Seq(Element) /\ Len(b) \in Nat /\ DOMAIN b = 1..Len(b) /\ b \in [1..Len(b) -> Element]
    BY DEF IsBucket
  <1>1. CASE Has(b, k)
    <2>1. c = [j \in DOMAIN b |->
                IF b[j].key = k THEN [b[j] EXCEPT !.frequency = @ + 1] ELSE b[j]]
      BY <1>1 DEF Bumped
    <2>2. c \in [1..Len(b) -> Element]
      BY <1>0, <2>1, SMTT(30) DEF Element
    <2>3. c \in Seq(Element) /\ Len(c) = Len(b) /\ DOMAIN c = DOMAIN b
      BY <1>0, <2>2
    <2>4. \A j \in DOMAIN b : c[j].key = b[j].key
      BY <1>0, <2>1 DEF Element
    <2>5. \A j \in DOMAIN b : b[j].key = k => c[j].frequency = b[j].frequency + 1
      BY <1>0, <2>1 DEF Element
    <2> QED BY <1>1, <2>1, <2>3, <2>4, <2>5 DEF IsBucket
  <1>2. CASE ~Has(b, k)
    <2>1. c = Append(b, [key |-> k, frequency |-> 1]) /\ [key |-> k, frequency |-> 1] \in Element
      BY <1>2 DEF Bumped, Element
    <2>2. /\ c \in Seq(Element) /\ Len(c) = Len(b) + 1 /\ DOMAIN c = 1..(Len(b) + 1)
          /\ \A j \in DOMAIN b : c[j] = b[j]
          /\ c[Len(b) + 1] = [key |-> k, frequency |-> 1]
      BY <1>0, <2>1
    <2>3. \A j \in DOMAIN b : b[j].key # k
      BY <1>2 DEF Has, Places
    <2>4. Len(b) < TUPLE_SIZE
      BY TableAssumption, <1>0, <1>2 DEF NoRoom, IsBucket
    <2>5. \A j \in DOMAIN c : j = Len(b) + 1 \/ j \in DOMAIN b
      BY <1>0, <2>2
    <2>6. IsBucket(c)
      BY TableAssumption, <1>0, <2>2, <2>3, <2>4, <2>5 DEF IsBucket
    <2> QED BY <1>0, <2>2, <2>3, <2>5, <2>6
  <1> QED
    BY <1>1, <1>2

\* The same of writing an entry.
LEMMA WrittenBucket ==
  ASSUME NEW b, IsBucket(b), NEW e \in Element, ~NoRoom(b, e.key)
  PROVE  LET c == Written(b, e)
         IN  /\ IsBucket(c)
             /\ \A j \in DOMAIN c : c[j] = e \/ (j \in DOMAIN b /\ c[j] = b[j])
             /\ \A j \in DOMAIN b : j \in DOMAIN c /\ c[j].key = b[j].key
             /\ \E j \in DOMAIN c : c[j] = e
  <1> DEFINE c == Written(b, e)
  <1>0. /\ b \in Seq(Element) /\ Len(b) \in Nat /\ DOMAIN b = 1..Len(b)
        /\ b \in [1..Len(b) -> Element]
    BY DEF IsBucket
  <1>1. CASE Has(b, e.key)
    <2>1. c = [j \in DOMAIN b |-> IF b[j].key = e.key THEN e ELSE b[j]]
      BY <1>1 DEF Written
    <2>2. c \in [1..Len(b) -> Element]
      BY <1>0, <2>1
    <2>3. c \in Seq(Element) /\ Len(c) = Len(b) /\ DOMAIN c = DOMAIN b
      BY <1>0, <2>2
    <2>4. \A j \in DOMAIN b : c[j].key = b[j].key
      BY <2>1
    <2>5. \E j \in DOMAIN c : c[j] = e
      BY <1>1, <2>1 DEF Has, Places
    <2> QED BY <2>1, <2>3, <2>4, <2>5 DEF IsBucket
  <1>2. CASE ~Has(b, e.key)
    <2>1. c = Append(b, e)
      BY <1>2 DEF Written
    <2>2. /\ c \in Seq(Element) /\ Len(c) = Len(b) + 1 /\ DOMAIN c = 1..(Len(b) + 1)
          /\ \A j \in DOMAIN b : c[j] = b[j]
          /\ c[Len(b) + 1] = e
      BY <1>0, <2>1
    <2>3. \A j \in DOMAIN b : b[j].key # e.key
      BY <1>2 DEF Has, Places
    <2>4. Len(b) < TUPLE_SIZE
      BY TableAssumption, <1>0, <1>2 DEF NoRoom, IsBucket
    <2>5. \A j \in DOMAIN c : j = Len(b) + 1 \/ j \in DOMAIN b
      BY <1>0, <2>2
    <2>6. IsBucket(c)
      BY TableAssumption, <1>0, <2>2, <2>3, <2>4, <2>5 DEF IsBucket
    <2> QED BY <1>0, <2>2, <2>3, <2>5, <2>6
  <1> QED
    BY <1>1, <1>2

\* An array with one bucket changed.
LEMMA PlacedExcept ==
  ASSUME TableType, Placed(array, size), NEW i \in DOMAIN array, NEW c, IsBucket(c),
         \A j \in DOMAIN c : __TA_hash_source(c[j].key, size) = i,
         array' = [array EXCEPT ![i] = c], UNCHANGED <<hash, size>>
  PROVE  Placed(array, size)' /\ IsArray(array') /\ DOMAIN array' = Buckets(size')
  <1>1. DOMAIN array' = DOMAIN array /\ c \in Seq(Element)
    BY DEF IsBucket
  <1>2. \A b \in DOMAIN array : array'[b] = IF b = i THEN c ELSE array[b]
    BY DEF TableType, IsArray
  <1>3. \A k : __TA_hash_source(k, size)' = __TA_hash_source(k, size)
    BY DEF __TA_hash_source
  <1>4. Placed(array, size)'
    BY <1>1, <1>2, <1>3 DEF Placed, __TA_hash_source
  <1>5. IsArray(array') /\ DOMAIN array' = Buckets(size')
    BY <1>1 DEF TableType, IsArray
  <1> QED
    BY <1>4, <1>5

-----------------------------------------------------------------------------
(* Entries stay in their places *)

\* The steps that leave the table itself alone.
LEMMA OtherStepsKeepPlaced ==
  ASSUME PlacedInv, UNCHANGED <<hash, array, size>>, TableType', Prepared', Pointed'
  PROVE  PlacedInv'
  <1>1. Placed(array, size)'
    BY DEF PlacedInv, Placed, __TA_hash_source
  <1> QED
    BY <1>1 DEF PlacedInv

LEMMA IncrementKeepsPlaced ==
  ASSUME PlacedInv, Call \/ Increment
  PROVE  PlacedInv'
  <1> USE DEF table, locals, Goto, At
  <1>0. TableType /\ Placed(array, size) /\ Prepared /\ Pointed
    BY DEF PlacedInv
  <1>1. CASE Call
    <2>1. TableType'
      BY <1>0, <1>1 DEF Call, TableType, Locs
    <2>2. Prepared' /\ Pointed'
      BY <1>0, <1>1 DEF Call, TableType, Prepared, Pointed, MoveLocs
    <2> QED BY <1>1, <2>1, <2>2, OtherStepsKeepPlaced DEF Call
  <1>2. CASE SpinOut \/ Enter \/ BumpClash \/ Leave
    <2>1. TableType'
      BY <1>0, <1>2, ZenonT(60) DEF SpinOut, Enter, BumpClash, Leave, TableType, Locs
    <2>2. Prepared' /\ Pointed'
      BY <1>0, <1>2 DEF SpinOut, Enter, BumpClash, Leave, TableType, Prepared, Pointed, MoveLocs
    <2> QED BY <1>2, <2>1, <2>2, OtherStepsKeepPlaced DEF SpinOut, Enter, BumpClash, Leave
  <1>3. CASE ArrayLookup
    <2>1. key \in Keys /\ __TA_hash_source(key, size) \in Buckets(size)
      BY <1>0, <1>3, HashInArray DEF ArrayLookup, TableType, Prepared
    <2>2. bucket' \in Nat
      BY <1>0, <1>3, <2>1 DEF ArrayLookup, TableType, Buckets
    <2>3. TableType'
      BY <1>0, <1>3, <2>2 DEF ArrayLookup, TableType, Locs
    <2>4. Prepared'
      BY <1>0, <1>3 DEF ArrayLookup, TableType, Prepared, MoveLocs
    <2>5. Pointed'
      BY <1>3 DEF ArrayLookup, Pointed, __TA_hash_source
    <2> QED BY <1>3, <2>3, <2>4, <2>5, OtherStepsKeepPlaced DEF ArrayLookup
  <1>4. CASE Bump
    <2>1. Prepared' /\ Pointed'
      BY <1>0, <1>4 DEF Bump, TableType, Prepared, Pointed, MoveLocs
    <2>2. Placed(array, size)' /\ IsArray(array') /\ DOMAIN array' = Buckets(size')
      <3> DEFINE i == bucket
      <3>1. key \in Keys /\ i = __TA_hash_source(key, size) /\ i \in DOMAIN array
        BY <1>0, <1>4, HashInArray DEF Bump, TableType, Prepared, Pointed
      <3>2. /\ IsBucket(array[i])
            /\ \A j \in DOMAIN array[i] : __TA_hash_source(array[i][j].key, size) = i
        BY <1>0, <3>1 DEF Placed
      <3>3. /\ array' = [array EXCEPT ![i] = Bumped(array[i], key)]
            /\ ~NoRoom(array[i], key) /\ UNCHANGED <<hash, size>>
        BY <1>4 DEF Bump
      <3> HIDE DEF i
      <3>4. /\ IsBucket(Bumped(array[i], key))
            /\ \A j \in DOMAIN Bumped(array[i], key) :
                 __TA_hash_source(Bumped(array[i], key)[j].key, size) = i
        BY <3>1, <3>2, <3>3, BumpedBucket
      <3> QED BY <1>0, <3>1, <3>3, <3>4, PlacedExcept
    <2>3. TableType'
      <3>1. key \in Keys
        BY <1>0, <1>4 DEF Bump, Prepared
      <3> QED BY <1>0, <1>4, <2>2, <3>1 DEF Bump, TableType, Locs
    <2> QED BY <2>1, <2>2, <2>3 DEF PlacedInv
  <1> QED
    BY <1>1, <1>2, <1>3, <1>4 DEF Increment

\* An entry about to be moved is an entry, and its bucket is in the array.
LEMMA MovedElement ==
  ASSUME PlacedInv, pc = "put"
  PROVE  /\ Moved \in Element
         /\ Home(Moved) \in DOMAIN array
  <1>1. TableType /\ Prepared
    BY DEF PlacedInv
  <1>2. IsArray(old) /\ InBucket /\ Tuple <= Len(old[Bucket])
    BY <1>1 DEF Prepared, MoveLocs
  <1>3. Tuple \in Nat \ {0}
    BY <1>1 DEF TableType, Tuple
  <1>4. old[Bucket] \in Seq(Element)
    BY <1>2 DEF IsArray, InBucket
  <1>5. Moved \in Element
    BY <1>2, <1>3, <1>4 DEF Moved
  <1>6. Moved.key \in Keys
    BY <1>5 DEF Element
  <1> QED
    BY <1>1, <1>5, <1>6, HashInArray DEF TableType, Home

LEMMA ResolveKeepsPlaced ==
  ASSUME PlacedInv, Resolve
  PROVE  PlacedInv'
  <1> USE DEF table, locals, Goto, At
  <1>0. TableType /\ Placed(array, size) /\ Prepared /\ Pointed
    BY DEF PlacedInv
  <1>1. CASE FindsOpen
    <2>1. TableType'
      BY <1>0, <1>1 DEF FindsOpen, TableType, Locs
    <2>2. Prepared' /\ Pointed'
      BY <1>0, <1>1 DEF FindsOpen, TableType, Prepared, Pointed, MoveLocs
    <2> QED BY <1>1, <2>1, <2>2, OtherStepsKeepPlaced DEF FindsOpen
  <1>2. CASE LockOut \/ Open \/ ResetMiners
    <2>1. TableType'
      BY <1>0, <1>2
         DEF LockOut, Open, ResetMiners, TableType, Locs, MoveLocs
    <2>2. Prepared' /\ Pointed'
      BY <1>0, <1>2
         DEF LockOut, Open, ResetMiners, TableType, Prepared, Pointed,
             MoveLocs, InBucket, Bucket, Tuple
    <2> QED BY <1>2, <2>1, <2>2, OtherStepsKeepPlaced
            DEF LockOut, Open, ResetMiners
  <1>3. CASE GrowFails
    <2>1. TableType'
      BY <1>0, <1>3 DEF GrowFails, TableType
    <2>2. Prepared' /\ Pointed'
      BY <1>0, <1>3
         DEF GrowFails, Prepared, Pointed, InBucket, Bucket, Tuple, __TA_hash_source
    <2> QED BY <1>3, <2>1, <2>2, OtherStepsKeepPlaced DEF GrowFails
  <1>4. CASE Grow
    <2>1. newSize \in Nat \ {0}
      BY <1>0, <1>4 DEF Grow, TableType, Prepared
    <2>2. /\ DOMAIN array' = Buckets(size') /\ IsArray(array')
          /\ \A i \in DOMAIN array' : array'[i] = <<>>
      BY <1>4 DEF Grow, EmptyArray, IsArray
    <2>3. Placed(array, size)'
      BY <2>2, EmptyBucket DEF Placed
    <2>4. TableType'
      <3>1. place' \in Nat \X (Nat \ {0})
        BY <1>0, <1>4 DEF Grow, TableType
      <3>2. pc' \in Locs
        BY <1>0, <1>4 DEF Grow, TableType, Locs, MoveLocs
      <3>3. size' \in Nat \ {0}
        BY <1>0, <1>4, <2>1 DEF Grow, TableType
      <3> QED BY <1>0, <1>4, <2>2, <3>1, <3>2, <3>3 DEF Grow, TableType
    <2>5. Prepared' /\ Pointed'
      <3>1. pc' = "open" /\ key' = key /\ old' = array
        BY <1>0, <1>4 DEF Grow, TableType
      <3>2. key \in Keys /\ IsArray(array)
        BY <1>0, <1>4 DEF Grow, TableType, Prepared
      <3> QED BY <3>1, <3>2 DEF Prepared, Pointed
    <2> QED BY <2>3, <2>4, <2>5 DEF PlacedInv
  <1>5. CASE MoveEnter
    <2>1. TableType'
      BY <1>0, <1>5 DEF MoveEnter, TableType, Locs, MoveLocs
    <2>2. Prepared' /\ Pointed'
      BY <1>0, <1>5
         DEF MoveEnter, TableType, Prepared, Pointed, MoveLocs, InBucket, Bucket, Tuple
    <2> QED BY <1>5, <2>1, <2>2, OtherStepsKeepPlaced DEF MoveEnter
  <1>6. CASE MovePut
    <2> DEFINE e == Moved
               i == Home(Moved)
    <2>1. /\ pc = "put" /\ ~NoRoom(array[i], e.key)
          /\ array' = [array EXCEPT ![i] = Written(array[i], e)]
          /\ UNCHANGED <<hash, size>>
      BY <1>6 DEF MovePut
    <2>2. e \in Element /\ i \in DOMAIN array /\ i = __TA_hash_source(e.key, size)
      BY <2>1, MovedElement DEF Home
    <2> HIDE DEF e, i
    <2>3. /\ IsBucket(array[i])
          /\ \A j \in DOMAIN array[i] : __TA_hash_source(array[i][j].key, size) = i
      BY <1>0, <2>2 DEF Placed
    <2>4. /\ IsBucket(Written(array[i], e))
          /\ \A j \in DOMAIN Written(array[i], e) :
               __TA_hash_source(Written(array[i], e)[j].key, size) = i
      BY <2>1, <2>2, <2>3, WrittenBucket
    <2>5. Placed(array, size)' /\ IsArray(array') /\ DOMAIN array' = Buckets(size')
      BY <1>0, <2>1, <2>2, <2>4, PlacedExcept
    <2>6. TableType'
      <3>1. <<Bucket, Tuple + 1>> \in Nat \X (Nat \ {0})
        BY <1>0 DEF TableType, Bucket, Tuple
      <3>2. place' \in Nat \X (Nat \ {0})
        BY <1>0, <1>6, <3>1 DEF MovePut, TableType
      <3> QED BY <1>0, <1>6, <2>5, <3>2 DEF MovePut, TableType, Locs, MoveLocs
    <2>7. Prepared' /\ Pointed'
      BY <1>0, <1>6 DEF MovePut, TableType, Prepared, Pointed, MoveLocs
    <2> QED BY <2>1, <2>5, <2>6, <2>7 DEF PlacedInv
  <1>7. CASE NextBucket
    <2>1. <<Bucket + 1, 1>> \in Nat \X (Nat \ {0})
      BY <1>0 DEF TableType, Bucket
    <2>2. place' \in Nat \X (Nat \ {0})
      BY <1>0, <1>7, <2>1 DEF NextBucket, TableType
    <2>3. TableType'
      BY <1>0, <1>7, <2>2 DEF NextBucket, TableType
    <2>4. Prepared' /\ Pointed'
      BY <1>0, <1>7 DEF NextBucket, Prepared, Pointed, MoveLocs
    <2> QED BY <1>7, <2>3, <2>4, OtherStepsKeepPlaced DEF NextBucket
  <1>8. CASE MoveDone
    <2>1. TableType'
      BY <1>0, <1>8 DEF MoveDone, TableType, Locs
    <2>2. Prepared' /\ Pointed'
      BY <1>0, <1>8 DEF MoveDone, TableType, Prepared, Pointed, MoveLocs
    <2> QED BY <1>8, <2>1, <2>2, OtherStepsKeepPlaced DEF MoveDone
  <1> QED
    BY <1>1, <1>2, <1>3, <1>4, <1>5, <1>6, <1>7, <1>8 DEF Resolve

LEMMA InitPlaced == Init => PlacedInv
  <1> SUFFICES ASSUME Init PROVE PlacedInv
    OBVIOUS
  <1>1. INIT_SIZE \in Nat \ {0} /\ HASHES \in Nat \ {0}
    BY TableAssumption
  <1>2. /\ DOMAIN array = Buckets(size) /\ IsArray(array) /\ \A i \in DOMAIN array : array[i] = <<>>
    BY DEF Init, EmptyArray, IsArray
  <1>3. hash \in [Keys -> Nat]
    BY <1>1 DEF Init
  <1>4. TableType
    <2>1. <<0, 1>> \in Nat \X (Nat \ {0})
      OBVIOUS
    <2>2. place \in Nat \X (Nat \ {0})
      BY <2>1 DEF Init
    <2> QED BY <1>1, <1>2, <1>3, <2>2 DEF Init, TableType, Locs
  <1>5. Placed(array, size)
    BY <1>2, EmptyBucket DEF Placed
  <1>6. Prepared /\ Pointed
    BY DEF Init, Prepared, Pointed, MoveLocs
  <1> QED
    BY <1>4, <1>5, <1>6 DEF PlacedInv

\* PlacedInv holds of every behaviour.
LEMMA PlacedInvariance == Spec => []PlacedInv
  <1>1. PlacedInv /\ [Next]_vars => PlacedInv'
    <2> SUFFICES ASSUME PlacedInv, [Next]_vars PROVE PlacedInv'
      OBVIOUS
    <2>1. CASE Next
      BY <2>1, IncrementKeepsPlaced, ResolveKeepsPlaced DEF Next
    <2>2. CASE UNCHANGED vars
      <3>1. TableType' /\ Placed(array, size)'
        BY <2>2 DEF PlacedInv, TableType, Placed, __TA_hash_source, vars, table, locals
      <3>2. Prepared' /\ Pointed'
        BY <2>2 DEF PlacedInv, Prepared, Pointed, InBucket, Bucket, Tuple, __TA_hash_source,
                    vars, table, locals
      <3> QED BY <3>1, <3>2 DEF PlacedInv
    <2> QED BY <2>1, <2>2
  <1> QED
    BY <1>1, InitPlaced, PTL DEF Spec

\* Whatever the hash function and however often the table doubles, an entry is
\* where a lookup searches for it, and no bucket has two of one key.
THEOREM TableWellPlaced == Spec => []WellPlaced
  <1>1. PlacedInv => WellPlaced
    <2> SUFFICES ASSUME PlacedInv, NEW i \in DOMAIN array
                 PROVE  /\ Len(array[i]) <= TUPLE_SIZE
                        /\ \A j \in DOMAIN array[i] :
                             /\ __TA_hash_source(array[i][j].key, size) = i
                             /\ Places(array[i], array[i][j].key) = {j}
      BY DEF WellPlaced
    <2> QED BY DEF PlacedInv, Placed, IsBucket, Places
  <1> QED
    BY <1>1, PlacedInvariance, PTL

-----------------------------------------------------------------------------
(* No entry is lost *)

LEMMA InContent ==
  ASSUME NEW a
  PROVE  /\ \A e \in Content(a) : \E i \in DOMAIN a : \E j \in DOMAIN a[i] : e = a[i][j]
         /\ \A i \in DOMAIN a : \A j \in DOMAIN a[i] : a[i][j] \in Content(a)
  BY DEF Content

LEMMA InUnmoved ==
  ASSUME NEW o, NEW p
  PROVE  /\ \A e \in Unmoved(o, p) :
              \E i \in DOMAIN o : \E t \in DOMAIN o[i] : ~Before(p, i, t) /\ e = o[i][t]
         /\ \A i \in DOMAIN o : \A t \in DOMAIN o[i] :
              ~Before(p, i, t) => o[i][t] \in Unmoved(o, p)
  BY DEF Unmoved

\* An array with bucket i changed to c has the other entries, and c's.
Replaced(i, c) ==
  /\ \A e \in Content(array') :
       \/ \E j \in DOMAIN c : e = c[j]
       \/ \E b \in DOMAIN array \ {i} : \E j \in DOMAIN array[b] : e = array[b][j]
  /\ \A j \in DOMAIN c : c[j] \in Content(array')
  /\ \A b \in DOMAIN array \ {i} : \A j \in DOMAIN array[b] : array[b][j] \in Content(array')

LEMMA ContentExcept ==
  ASSUME NEW i \in DOMAIN array, NEW c, array' = [array EXCEPT ![i] = c]
  PROVE  Replaced(i, c)
  <1>1. /\ DOMAIN array' = DOMAIN array /\ array'[i] = c
        /\ \A b \in DOMAIN array \ {i} : array'[b] = array[b]
    OBVIOUS
  <1>2. /\ \A e \in Content(array') :
             \E b \in DOMAIN array' : \E j \in DOMAIN array'[b] : e = array'[b][j]
        /\ \A b \in DOMAIN array' : \A j \in DOMAIN array'[b] : array'[b][j] \in Content(array')
    BY DEF Content
  <1>3. \A e \in Content(array') :
           \/ \E j \in DOMAIN c : e = c[j]
           \/ \E b \in DOMAIN array \ {i} : \E j \in DOMAIN array[b] : e = array[b][j]
    BY <1>1, <1>2
  <1>4. /\ \A j \in DOMAIN c : c[j] \in Content(array')
        /\ \A b \in DOMAIN array \ {i} : \A j \in DOMAIN array[b] : array[b][j] \in Content(array')
    BY <1>1, <1>2
  <1> QED
    BY <1>3, <1>4 DEF Replaced

\* What is counted in a bucket is recorded: its entry, the only one of its
\* key, has one more, and the others have what they had.
LEMMA BumpRecorded ==
  ASSUME TableType, Placed(array, size), Records(Content(array)),
         NEW k \in Keys, NEW i \in DOMAIN array, i = __TA_hash_source(k, size),
         ~NoRoom(array[i], k),
         array' = [array EXCEPT ![i] = Bumped(array[i], k)],
         counts' = [counts EXCEPT ![k] = @ + 1]
  PROVE  Records(Content(array))'
  <1> DEFINE here == array[i]
             c == Bumped(array[i], k)
  <1>1. IsBucket(here) /\ \A j \in DOMAIN here : __TA_hash_source(here[j].key, size) = i
    BY DEF Placed
  <1>2. /\ IsBucket(c)
        /\ \A j \in DOMAIN c : c[j].key = k \/ (j \in DOMAIN here /\ c[j] = here[j])
        /\ \A j \in DOMAIN here : j \in DOMAIN c /\ c[j].key = here[j].key
        /\ \A j \in DOMAIN here : here[j].key = k => c[j].frequency = here[j].frequency + 1
        /\ ~Has(here, k) => \E j \in DOMAIN c : c[j] = [key |-> k, frequency |-> 1]
    BY <1>1, BumpedBucket
  <1>3. counts \in [Keys -> Nat] /\ counts'[k] = counts[k] + 1 /\ counts[k] \in Nat
    BY DEF TableType
  <1>4. \A o \in Keys : o # k => counts'[o] = counts[o]
    BY <1>3
  <1>5. \A b \in DOMAIN array : \A j \in DOMAIN array[b] :
          /\ array[b][j] \in Content(array) /\ array[b][j].key \in Keys
          /\ array[b][j].frequency = counts[array[b][j].key]
          /\ array[b][j].key = k => b = i
    <2> SUFFICES ASSUME NEW b \in DOMAIN array, NEW j \in DOMAIN array[b]
                 PROVE  /\ array[b][j] \in Content(array) /\ array[b][j].key \in Keys
                        /\ array[b][j].frequency = counts[array[b][j].key]
                        /\ array[b][j].key = k => b = i
      OBVIOUS
    <2>1. array[b][j] \in Content(array)
      BY InContent
    <2>2. array[b][j].frequency = counts[array[b][j].key]
      BY <2>1 DEF Records
    <2>3. array[b][j] \in Element
      BY DEF Placed, IsBucket
    <2>4. __TA_hash_source(array[b][j].key, size) = b
      BY DEF Placed
    <2> QED BY <2>1, <2>2, <2>3, <2>4 DEF Element
  <1>a. array' = [array EXCEPT ![i] = c]
    OBVIOUS
  <1> HIDE DEF here, c
  <1>6. /\ \A e \in Content(array') :
             \/ \E j \in DOMAIN c : e = c[j]
             \/ \E b \in DOMAIN array \ {i} : \E j \in DOMAIN array[b] : e = array[b][j]
        /\ \A j \in DOMAIN c : c[j] \in Content(array')
        /\ \A b \in DOMAIN array \ {i} : \A j \in DOMAIN array[b] : array[b][j] \in Content(array')
    <2>1. Replaced(i, c)
      BY <1>a, ContentExcept
    <2> QED BY <2>1 DEF Replaced
  <1>7. ASSUME NEW e \in Content(array')
        PROVE  e.frequency = counts'[e.key]
    <2>1. CASE \E b \in DOMAIN array \ {i} : \E j \in DOMAIN array[b] : e = array[b][j]
      BY <1>4, <1>5, <2>1
    <2>2. CASE \E j \in DOMAIN c : e = c[j]
      <3>1. PICK j \in DOMAIN c : e = c[j]
        BY <2>2
      <3>2. CASE c[j].key # k
        BY <1>2, <1>4, <1>5, <3>1, <3>2 DEF here
      <3>3. CASE c[j].key = k /\ Has(here, k)
        <4>1. PICK l \in DOMAIN here : here[l].key = k
          BY <3>3 DEF Has, Places
        <4>2. l \in DOMAIN c /\ c[l].key = k
          BY <1>2, <4>1
        <4>3. l = j
          BY <1>2, <3>3, <4>2 DEF IsBucket
        <4> QED BY <1>2, <1>3, <1>5, <3>1, <3>3, <4>1, <4>3 DEF here
      <3>4. CASE c[j].key = k /\ ~Has(here, k)
        <4>1. PICK l \in DOMAIN c : c[l] = [key |-> k, frequency |-> 1]
          BY <1>2, <3>4
        <4>2. l = j
          BY <1>2, <3>4, <4>1 DEF IsBucket
        <4>3. ~ \E o \in Content(array) : o.key = k
          <5>1. SUFFICES ASSUME NEW o \in Content(array), o.key = k PROVE FALSE
            OBVIOUS
          <5>2. PICK b \in DOMAIN array : \E h \in DOMAIN array[b] : o = array[b][h]
            BY InContent
          <5>3. PICK h \in DOMAIN array[b] : o = array[b][h]
            BY <5>2
          <5>4. b = i
            BY <1>5, <5>1, <5>3
          <5> QED BY <3>4, <5>1, <5>3, <5>4 DEF here, Has, Places
        <4>4. counts[k] = 0
          BY <1>3, <4>3 DEF Records
        <4>5. e = [key |-> k, frequency |-> 1]
          BY <3>1, <4>1, <4>2
        <4>6. counts'[k] = 1
          BY <1>3, <4>4
        <4> QED BY <4>5, <4>6
      <3> QED BY <3>2, <3>3, <3>4
    <2>3. e \in Content(array')
      OBVIOUS
    <2> QED BY <1>6, <2>1, <2>2, <2>3, Zenon
  <1>8. ASSUME NEW o \in Keys, counts'[o] > 0
        PROVE  \E e \in Content(array') : e.key = o
    <2>1. CASE o = k
      <3>1. \E j \in DOMAIN c : c[j].key = k
        BY <1>2 DEF Has, Places
      <3> QED BY <1>6, <2>1, <3>1
    <2>2. CASE o # k
      <3>1. PICK e \in Content(array) : e.key = o
        BY <1>4, <1>8, <2>2 DEF Records
      <3>2. PICK b \in DOMAIN array : \E j \in DOMAIN array[b] : e = array[b][j]
        BY InContent
      <3>3. PICK j \in DOMAIN array[b] : e = array[b][j]
        BY <3>2
      <3>4. CASE b # i
        BY <1>6, <3>1, <3>3, <3>4
      <3>5. CASE b = i
        <4>1. j \in DOMAIN c /\ c[j].key = o
          BY <1>2, <3>1, <3>3, <3>5 DEF here
        <4> QED BY <1>6, <4>1
      <3> QED BY <3>4, <3>5
    <2> QED BY <2>1, <2>2
  <1> QED
    BY <1>7, <1>8 DEF Records

\* The entry moved next is one of the old array's, and its new bucket is one of
\* the two that the old one is split into.
LEMMA MovedHome ==
  ASSUME PlacedInv, pc = "put", Moving
  PROVE  /\ Bucket \in DOMAIN old /\ Tuple \in DOMAIN old[Bucket]
         /\ IsBucket(old[Bucket])
         /\ Home(Moved) % OldSize = Bucket
  <1>1. /\ TableType /\ Prepared /\ Moved \in Element
    BY MovedElement DEF PlacedInv
  <1>2. /\ Bucket \in DOMAIN old /\ Tuple <= Len(old[Bucket])
        /\ Tuple \in Nat \ {0}
    BY <1>1 DEF Prepared, InBucket, TableType, Tuple
  <1>3. IsBucket(old[Bucket])
    BY <1>2 DEF Moving, Placed
  <1>4. Tuple \in DOMAIN old[Bucket]
    BY <1>2, <1>3 DEF IsBucket
  <1>5. PICK h \in Nat : h = hash[Moved.key]
    BY <1>1 DEF TableType, Element
  <1>6. h % OldSize = Bucket
    BY <1>2, <1>4, <1>5 DEF Moving, Placed, Moved, __TA_hash_source
  <1>7. PICK s \in Nat \ {0} : s = OldSize
    <2>1. size \in Nat \ {0}
      BY <1>1 DEF TableType
    <2>2. size \div 2 \in Nat
      BY <2>1
    <2> QED BY <2>1, <2>2 DEF Moving, OldSize
  <1>8. Home(Moved) = h % (2 * s)
    BY <1>5, <1>7 DEF Home, __TA_hash_source, Moving
  <1>9. (h % (2 * s)) % s = h % s
    BY LowBits
  <1> QED
    BY <1>2, <1>3, <1>4, <1>6, <1>7, <1>8, <1>9

\* A move never finds a full bucket: all that is in it came out of one old
\* bucket, which held one more, the entry that is moved.
LEMMA MoveFindsRoom ==
  ASSUME PlacedInv, pc = "put", Moving
  PROVE  ~NoRoom(array[Home(Moved)], Moved.key)
  <1> DEFINE i == Home(Moved)
             from == old[Bucket]
  <1>1. /\ Bucket \in DOMAIN old /\ Tuple \in DOMAIN from /\ IsBucket(from)
        /\ i % OldSize = Bucket /\ i \in DOMAIN array
    BY MovedHome, MovedElement
  <1>2. IsBucket(array[i])
    BY <1>1 DEF PlacedInv, Placed
  <1>3. /\ TUPLE_SIZE \in Nat /\ DOMAIN from = 1..Len(from) /\ Len(from) \in Nat
        /\ Len(from) <= TUPLE_SIZE
    BY TableAssumption, <1>1 DEF IsBucket
  <1>4. \A j \in DOMAIN array[i] : \E t \in 1..(Tuple - 1) : from[t].key = array[i][j].key
    <2> SUFFICES ASSUME NEW j \in DOMAIN array[i]
                 PROVE  \E t \in 1..(Tuple - 1) : from[t].key = array[i][j].key
      OBVIOUS
    <2>1. FromOld(old, place, Bucket, array[i][j].key)
      BY <1>1 DEF Moving
    <2>2. PICK t \in DOMAIN from : Before(place, Bucket, t) /\ from[t].key = array[i][j].key
      BY <2>1 DEF FromOld
    <2>3. t < Tuple
      <3>1. Bucket \in Nat
        BY DEF PlacedInv, TableType, Bucket
      <3> QED BY <2>2, <3>1 DEF Before, Bucket, Tuple
    <2>4. t \in 1..(Tuple - 1)
      BY <1>1, <1>3, <2>3
    <2> QED BY <2>2, <2>4
  <1> HIDE DEF i, from
  <1>5. SUFFICES ASSUME Len(array[i]) = TUPLE_SIZE PROVE FALSE
    BY DEF NoRoom, i
  <1>6. DOMAIN array[i] = 1..TUPLE_SIZE
    BY <1>2, <1>5 DEF IsBucket
  <1> DEFINE f == [j \in 1..TUPLE_SIZE |->
                     CHOOSE t \in 1..(Tuple - 1) : from[t].key = array[i][j].key]
  <1>7. \A j \in 1..TUPLE_SIZE : f[j] \in 1..(Tuple - 1) /\ from[f[j]].key = array[i][j].key
    BY <1>4, <1>6
  <1>8. f \in [1..TUPLE_SIZE -> 1..(Tuple - 1)]
    BY <1>7
  <1> HIDE DEF f
  <1>9. Tuple \in Nat /\ 0 <= Tuple - 1 /\ Tuple - 1 < TUPLE_SIZE
    BY <1>1, <1>3
  <1>10. \A n \in Nat : IsFiniteSet(1..n) /\ Cardinality(1..n) = n
    <2> SUFFICES ASSUME NEW n \in Nat PROVE IsFiniteSet(1..n) /\ Cardinality(1..n) = n
      OBVIOUS
    <2>1. 1 \in Int /\ n \in Int
      OBVIOUS
    <2>2. IsFiniteSet(1..n) /\ Cardinality(1..n) = IF 1 > n THEN 0 ELSE n - 1 + 1
      BY <2>1, FS_Interval
    <2> QED BY <2>2
  <1>11. \E j, l \in 1..TUPLE_SIZE : j # l /\ f[j] = f[l]
    <2>1. PICK S, T : S = 1..TUPLE_SIZE /\ T = 1..(Tuple - 1)
      OBVIOUS
    <2>2. /\ IsFiniteSet(S) /\ Cardinality(S) = TUPLE_SIZE
          /\ IsFiniteSet(T) /\ Cardinality(T) = Tuple - 1
      BY <1>3, <1>9, <1>10, <2>1
    <2>3. f \in [S -> T] /\ Cardinality(T) < Cardinality(S)
      BY <1>8, <1>9, <2>1, <2>2
    <2>4. \E j, l \in S : j # l /\ f[j] = f[l]
      BY <2>2, <2>3, FS_PigeonHole
    <2> QED BY <2>1, <2>4
  <1>12. \A j, l \in 1..TUPLE_SIZE : array[i][j].key = array[i][l].key => j = l
    BY <1>2, <1>6 DEF IsBucket
  <1> QED
    BY <1>7, <1>11, <1>12

\* A move takes an entry from those unmoved to the new array, and loses none.
LEMMA PutKeepsMoving ==
  ASSUME PlacedInv, MovePut, Moving
  PROVE  Moving'
  <1> DEFINE e == Moved
             i == Home(Moved)
             c == Written(array[Home(Moved)], Moved)
             o == old
             p == place
             q == <<Bucket, Tuple + 1>>
  <1>1. /\ pc = "put" /\ array' = [array EXCEPT ![i] = c] /\ ~NoRoom(array[i], e.key)
        /\ UNCHANGED <<hash, size, old, counts>>
    BY DEF MovePut, At
  <1>2. old' = o /\ place' = q
    BY DEF MovePut, PlacedInv, TableType
  <1>3. /\ Bucket \in DOMAIN o /\ Tuple \in DOMAIN o[Bucket]
        /\ e = o[Bucket][Tuple] /\ i % OldSize = Bucket
        /\ e \in Element /\ i \in DOMAIN array
    BY <1>1, MovedHome, MovedElement DEF Moved
  <1>4. p = <<Bucket, Tuple>> /\ Bucket \in Nat /\ Tuple \in Nat
    BY DEF PlacedInv, TableType, Bucket, Tuple
  <1>5. IsBucket(array[i])
    <2>1. \A b \in DOMAIN array : IsBucket(array[b])
      BY DEF PlacedInv, Placed
    <2> QED BY <1>3, <2>1, Zenon
  <1>6. /\ \A j \in DOMAIN c : c[j] = e \/ (j \in DOMAIN array[i] /\ c[j] = array[i][j])
        /\ \A j \in DOMAIN array[i] : j \in DOMAIN c /\ c[j].key = array[i][j].key
        /\ \E j \in DOMAIN c : c[j] = e
    BY <1>1, <1>3, <1>5, WrittenBucket
  <1>7. DOMAIN o = Buckets(OldSize) /\ OldSize \in Nat
    <2>1. size \in Nat \ {0}
      BY DEF PlacedInv, TableType
    <2>2. size \div 2 \in Nat
      BY <2>1
    <2> QED BY <2>2 DEF Moving, OldSize
  <1>8. \A b, t \in Nat : Before(q, b, t) <=> (Before(p, b, t) \/ (b = Bucket /\ t = Tuple))
    BY <1>4 DEF Before
  <1>9. \A b \in DOMAIN o : b \in Nat /\ \A t \in DOMAIN o[b] : t \in Nat
    BY <1>7 DEF Moving, Placed, IsBucket, Buckets
  <1> HIDE DEF e, i, c, o, p, q
  <1>10. OldSize' = OldSize
    BY <1>1 DEF OldSize
  <1>11. size' = 2 * OldSize' /\ DOMAIN old' = Buckets(OldSize') /\ Placed(old, OldSize)'
    BY <1>1, <1>2 DEF Moving, OldSize, Placed, __TA_hash_source, o
  <1>12. ASSUME NEW b \in DOMAIN array', NEW j \in DOMAIN array'[b]
         PROVE  FromOld(o, q, b % OldSize, array'[b][j].key)
    <2>1. \A n \in DOMAIN o, k \in Keys : FromOld(o, p, n, k) => FromOld(o, q, n, k)
      BY <1>8, <1>9 DEF FromOld
    <2>2. b \in DOMAIN array /\ b % OldSize \in DOMAIN o
      <3>1. DOMAIN array = Buckets(size) /\ DOMAIN array' = DOMAIN array
        BY <1>1, <1>3 DEF PlacedInv, TableType
      <3>2. size \in Nat \ {0} /\ size = 2 * OldSize
        BY DEF PlacedInv, TableType, Moving
      <3>3. PICK s \in Nat \ {0} : s = OldSize
        BY <1>7, <3>2
      <3>4. b \in Nat
        BY <3>1, <3>2 DEF Buckets
      <3>5. b % s \in Buckets(s)
        BY <3>4, Remainder
      <3> QED BY <1>7, <3>1, <3>3, <3>5
    <2>3. \A l \in DOMAIN array[b] : FromOld(o, p, b % OldSize, array[b][l].key)
                                      /\ array[b][l].key \in Keys
      <3>1. \A l \in DOMAIN array[b] : array[b][l] \in Element
        BY <2>2 DEF PlacedInv, Placed, IsBucket
      <3> QED BY <2>2, <3>1 DEF Moving, o, p, Element
    <2>4. CASE b # i \/ (j \in DOMAIN array[i] /\ c[j] = array[i][j])
      BY <1>1, <1>3, <2>1, <2>2, <2>3, <2>4
    <2>5. CASE b = i /\ c[j] = e
      <3>1. FromOld(o, q, Bucket, e.key)
        BY <1>3, <1>4, <1>8 DEF FromOld
      <3> QED BY <1>1, <1>3, <2>5, <3>1
    <2> QED BY <1>1, <1>3, <1>6, <2>4, <2>5
  <1>13. Replaced(i, c)
    BY <1>1, <1>3, ContentExcept
  <1>14. e \in Unmoved(o, p)
    <2>1. ~Before(p, Bucket, Tuple)
      BY <1>4 DEF Before
    <2> QED BY <1>3, <2>1 DEF Unmoved
  <1>15. Unmoved(o, q) \subseteq Unmoved(o, p)
    BY <1>8, <1>9 DEF Unmoved
  <1>16. Unmoved(o, p) \subseteq Unmoved(o, q) \cup {e}
    BY <1>3, <1>8, <1>9 DEF Unmoved
  <1>17. Content(array') \subseteq Content(array) \cup {e}
    <2> SUFFICES ASSUME NEW x \in Content(array'), x # e PROVE x \in Content(array)
      OBVIOUS
    <2>1. \E b \in DOMAIN array : \E j \in DOMAIN array[b] : x = array[b][j]
      BY <1>3, <1>6, <1>13 DEF Replaced
    <2> QED BY <2>1 DEF Content
  <1>18. \A x \in Content(array) : \E y \in Content(array') : y.key = x.key
    <2> SUFFICES ASSUME NEW x \in Content(array) PROVE \E y \in Content(array') : y.key = x.key
      OBVIOUS
    <2>1. PICK b \in DOMAIN array : \E j \in DOMAIN array[b] : x = array[b][j]
      BY DEF Content
    <2>2. PICK j \in DOMAIN array[b] : x = array[b][j]
      BY <2>1
    <2>3. CASE b # i
      BY <1>13, <2>2, <2>3 DEF Replaced
    <2>4. CASE b = i
      BY <1>6, <1>13, <2>2, <2>4 DEF Replaced
    <2> QED BY <2>3, <2>4
  <1>19. e \in Content(array')
    BY <1>6, <1>13 DEF Replaced
  <1>20. /\ \A x \in Content(array') \cup Unmoved(o, q) : x.frequency = counts'[x.key]
         /\ \A k \in Keys : counts'[k] > 0 =>
              \E x \in Content(array') \cup Unmoved(o, q) : x.key = k
    <2>1. Records(Content(array) \cup Unmoved(o, p))
      BY DEF Moving, o, p
    <2>2. \A x \in Content(array') \cup Unmoved(o, q) : x.frequency = counts[x.key]
      BY <1>14, <1>15, <1>17, <2>1 DEF Records
    <2>3. \A x \in Content(array) \cup Unmoved(o, p) :
            \E y \in Content(array') \cup Unmoved(o, q) : y.key = x.key
      BY <1>16, <1>18, <1>19
    <2>4. \A k \in Keys : counts[k] > 0 =>
            \E x \in Content(array) \cup Unmoved(o, p) : x.key = k
      BY <2>1 DEF Records
    <2>5. \A k \in Keys : counts[k] > 0 =>
            \E x \in Content(array') \cup Unmoved(o, q) : x.key = k
      BY <2>3, <2>4
    <2>6. counts' = counts
      BY <1>1
    <2> QED BY <2>2, <2>5, <2>6
  <1> QED
    BY <1>2, <1>10, <1>11, <1>12, <1>20 DEF Moving, Records

\* Steps of a move that are not of its table.
LEMMA MovingKept ==
  ASSUME Moving,
         UNCHANGED <<hash, array, size, counts>>, old' = old, place' = place
  PROVE  Moving'
  BY DEF Moving, OldSize, Placed, __TA_hash_source, Records

\* Nor is anything lost by a step outside of a move that leaves the table alone.
LEMMA RecordsKept ==
  ASSUME Records(Content(array)), UNCHANGED <<array, counts>>
  PROVE  Records(Content(array))'
  BY DEF Records

LEMMA IncrementKeepsRecorded ==
  ASSUME PlacedInv, RecordedInv, Call \/ Increment
  PROVE  RecordedInv'
  <1> USE DEF table, locals, Goto, At
  <1>0. TableType /\ Placed(array, size) /\ Prepared /\ Pointed
    BY DEF PlacedInv
  <1>1. pc \notin MoveLocs /\ pc' \notin MoveLocs \cup {"lock", "drain"}
    BY DEF Call, Increment, SpinOut, Enter, ArrayLookup, Bump, BumpClash, Leave, MoveLocs
  <1>2. Records(Content(array))
    BY <1>1 DEF RecordedInv
  <1>3. CASE Call \/ SpinOut \/ Enter \/ ArrayLookup \/ BumpClash \/ Leave
    <2>1. Records(Content(array))'
      BY <1>2, <1>3, RecordsKept DEF Call, SpinOut, Enter, ArrayLookup, BumpClash, Leave
    <2> QED BY <1>1, <2>1 DEF RecordedInv
  <1>4. CASE Bump
    <2>1. pc' = "leave" /\ key \in Keys
      BY <1>0, <1>4 DEF Bump, Prepared
    <2>2. PICK i, k : i = bucket /\ k = key
      OBVIOUS
    <2>3. k \in Keys /\ i = __TA_hash_source(k, size) /\ i \in DOMAIN array
      BY <1>0, <1>4, <2>1, <2>2, HashInArray DEF Bump, TableType, Pointed
    <2>4. /\ ~NoRoom(array[i], k)
          /\ array' = [array EXCEPT ![i] = Bumped(array[i], k)]
          /\ counts' = [counts EXCEPT ![k] = @ + 1]
      BY <1>4, <2>2 DEF Bump
    <2>5. Records(Content(array))'
      BY <1>0, <1>2, <2>3, <2>4, BumpRecorded
    <2> QED BY <1>1, <2>1, <2>5 DEF RecordedInv
  <1> QED
    BY <1>3, <1>4 DEF Increment

\* A doubling: nothing is in the new array, and all of the old one is unmoved.
LEMMA GrowStartsMoving ==
  ASSUME PlacedInv, RecordedInv, Grow
  PROVE  Moving'
  <1> USE DEF Goto, At
  <1>0. /\ TableType /\ Placed(array, size) /\ pc = "drain"
    BY DEF Grow, PlacedInv
  <1>1. size \in Nat \ {0} /\ newSize = 2 * size /\ Records(Content(array))
    BY <1>0 DEF TableType, RecordedInv, MoveLocs
  <1>2. /\ size' = 2 * size /\ old' = array /\ place' = <<0, 1>>
        /\ UNCHANGED <<hash, counts>>
    BY <1>0, <1>1 DEF Grow, TableType
  <1>3. OldSize' = size
    BY <1>1, <1>2 DEF OldSize
  <1>4. DOMAIN array' = Buckets(size') /\ \A b \in DOMAIN array' : array'[b] = <<>>
    BY DEF Grow, EmptyArray
  <1>5. Content(array') = {}
    BY <1>4, EmptyBucket DEF Content
  <1>6. Unmoved(array, <<0, 1>>) = Content(array)
    <2>1. \A i \in DOMAIN array : \A t \in DOMAIN array[i] : ~Before(<<0, 1>>, i, t)
      <3>1. ASSUME NEW i \in DOMAIN array
            PROVE  i \in Nat /\ \A t \in DOMAIN array[i] : t \in Nat \ {0}
        <4>1. i \in Nat /\ array[i] \in Seq(Element)
          BY <1>0 DEF TableType, Placed, IsBucket, Buckets
        <4> QED BY <4>1
      <3> QED BY <3>1 DEF Before
    <2> QED BY <2>1 DEF Unmoved, Content
  <1>7. Placed(old, OldSize)'
    BY <1>0, <1>2, <1>3 DEF Placed, __TA_hash_source
  <1>8. \A b \in DOMAIN array' : DOMAIN array'[b] = {}
    BY <1>4, EmptyBucket
  <1>9. DOMAIN old' = Buckets(size)
    BY <1>0, <1>2 DEF TableType
  <1>10. Content(array') \cup Unmoved(old', place') = Content(array)
    BY <1>2, <1>5, <1>6
  <1> QED
    BY <1>1, <1>2, <1>3, <1>7, <1>8, <1>9, <1>10 DEF Moving, Records

\* The loop goes on to the next bucket when all of this one was moved.
LEMMA NextBucketKeepsMoving ==
  ASSUME PlacedInv, Moving, NextBucket
  PROVE  Moving'
  <1> DEFINE o == old
             p == place
             q == <<Bucket + 1, 1>>
  <1>1. /\ old' = o /\ place' = q /\ UNCHANGED <<hash, array, size, counts>>
        /\ Bucket \in DOMAIN o /\ Tuple > Len(o[Bucket])
    BY DEF NextBucket, PlacedInv, TableType, table, InBucket
  <1>2. p = <<Bucket, Tuple>> /\ Bucket \in Nat /\ Tuple \in Nat
    BY DEF PlacedInv, TableType, Bucket, Tuple
  <1>3. \A b \in DOMAIN o : /\ b \in Nat /\ Len(o[b]) \in Nat
                            /\ \A t \in DOMAIN o[b] : t \in Nat \ {0} /\ t <= Len(o[b])
    <2>1. DOMAIN o = Buckets(OldSize)
      BY DEF Moving
    <2>2. size \div 2 \in Nat
      BY DEF PlacedInv, TableType
    <2>3. \A b \in DOMAIN o : b \in Nat
      BY <2>1, <2>2 DEF OldSize, Buckets
    <2>4. \A b \in DOMAIN o : o[b] \in Seq(Element)
      BY DEF Moving, Placed, IsBucket
    <2> QED BY <2>3, <2>4
  <1> HIDE DEF o, p, q
  <1>4. \A b \in DOMAIN o : \A t \in DOMAIN o[b] : Before(q, b, t) <=> Before(p, b, t)
    BY <1>1, <1>2, <1>3 DEF Before, q
  <1>5. Unmoved(o, q) = Unmoved(o, p)
    BY <1>4 DEF Unmoved
  <1>6. OldSize' = OldSize /\ Placed(old, OldSize)' /\ DOMAIN o = Buckets(OldSize)
    BY <1>1 DEF OldSize, Moving, Placed, __TA_hash_source, o
  <1>7. \A b \in DOMAIN array : \A j \in DOMAIN array[b] :
          FromOld(o, q, b % OldSize, array[b][j].key)
    <2> SUFFICES ASSUME NEW b \in DOMAIN array, NEW j \in DOMAIN array[b]
                 PROVE  FromOld(o, q, b % OldSize, array[b][j].key)
      OBVIOUS
    <2>1. FromOld(o, p, b % OldSize, array[b][j].key)
      BY DEF Moving, o, p
    <2>2. b % OldSize \in DOMAIN o
      <3>1. size \in Nat \ {0} /\ b \in Buckets(size)
        BY DEF PlacedInv, TableType
      <3>2. OldSize \in Nat \ {0}
        <4>1. size \div 2 \in Nat
          BY <3>1
        <4> QED BY <3>1, <4>1 DEF OldSize, Moving
      <3> QED BY <1>6, <3>1, <3>2 DEF Buckets
    <2> QED BY <1>4, <2>1, <2>2 DEF FromOld
  <1> QED
    BY <1>1, <1>5, <1>6, <1>7 DEF Moving, Records, o, p

\* At the end nothing is left unmoved.
LEMMA MovedAll ==
  ASSUME PlacedInv, Moving, ~InBucket
  PROVE  Records(Content(array))
  <1>1. Bucket \in Nat /\ size \div 2 \in Nat
    BY DEF PlacedInv, TableType, Bucket
  <1>2. \A b \in DOMAIN old : b < Bucket
    BY <1>1 DEF Moving, OldSize, InBucket, Buckets
  <1>3. Unmoved(old, place) = {}
    BY <1>2 DEF Unmoved, Before, Bucket
  <1> QED
    BY <1>3 DEF Moving

LEMMA ResolveKeepsRecorded ==
  ASSUME PlacedInv, RecordedInv, Resolve
  PROVE  RecordedInv'
  <1> USE DEF table, locals, Goto, At
  <1>1. CASE FindsOpen \/ LockOut \/ GrowFails
    <2>1. /\ pc \notin MoveLocs /\ pc' \notin MoveLocs
          /\ UNCHANGED <<array, counts, size>>
      BY <1>1 DEF FindsOpen, LockOut, GrowFails, MoveLocs
    <2>2. Records(Content(array))'
      BY <2>1, RecordsKept DEF RecordedInv
    <2>3. pc' \in {"lock", "drain"} => newSize' = 2 * size'
      BY <1>1 DEF FindsOpen, LockOut, GrowFails, RecordedInv
    <2> QED BY <2>1, <2>2, <2>3 DEF RecordedInv
  <1>2. CASE Grow
    <2>1. Moving' /\ pc' = "open"
      BY <1>2, GrowStartsMoving DEF Grow
    <2> QED BY <2>1 DEF RecordedInv, MoveLocs
  <1>3. CASE Open \/ ResetMiners \/ MoveEnter
    <2>1. pc \in MoveLocs /\ pc' \in MoveLocs
      BY <1>3 DEF Open, ResetMiners, MoveEnter, MoveLocs
    <2>2. Moving'
      BY <1>3, <2>1, MovingKept DEF Open, ResetMiners, MoveEnter, RecordedInv
    <2> QED BY <2>1, <2>2 DEF RecordedInv, MoveLocs
  <1>4. CASE MovePut
    <2>1. Moving' /\ pc' = "move"
      BY <1>4, PutKeepsMoving DEF MovePut, RecordedInv, MoveLocs
    <2> QED BY <2>1 DEF RecordedInv, MoveLocs
  <1>5. CASE NextBucket
    <2>1. Moving' /\ pc' = "move"
      BY <1>5, NextBucketKeepsMoving DEF NextBucket, RecordedInv, MoveLocs
    <2> QED BY <2>1 DEF RecordedInv, MoveLocs
  <1>6. CASE MoveDone
    <2>1. Records(Content(array)) /\ UNCHANGED <<array, counts>> /\ pc' = "spin"
      BY <1>6, MovedAll DEF MoveDone, RecordedInv, MoveLocs
    <2>2. Records(Content(array))'
      BY <2>1, RecordsKept
    <2> QED BY <2>1, <2>2 DEF RecordedInv, MoveLocs
  <1> QED
    BY <1>1, <1>2, <1>3, <1>4, <1>5, <1>6 DEF Resolve

LEMMA RecordedInvariance == Spec => [](PlacedInv /\ RecordedInv)
  <1>1. Init => RecordedInv
    <2> SUFFICES ASSUME Init PROVE RecordedInv
      OBVIOUS
    <2>1. Content(array) = {}
      BY EmptyBucket DEF Init, EmptyArray, Content
    <2>2. Records(Content(array))
      BY <2>1 DEF Records, Init
    <2> QED BY <2>2 DEF RecordedInv, Init, MoveLocs
  <1>2. PlacedInv /\ RecordedInv /\ [Next]_vars => RecordedInv'
    <2> SUFFICES ASSUME PlacedInv, RecordedInv, [Next]_vars PROVE RecordedInv'
      OBVIOUS
    <2>1. CASE Next
      BY <2>1, IncrementKeepsRecorded, ResolveKeepsRecorded DEF Next
    <2>2. CASE UNCHANGED vars
      <3>1. pc \in MoveLocs => Moving'
        BY <2>2, MovingKept DEF RecordedInv, vars, table, locals
      <3>2. pc \notin MoveLocs => Records(Content(array))'
        BY <2>2, RecordsKept DEF RecordedInv, vars, table, locals
      <3> QED BY <2>2, <3>1, <3>2 DEF RecordedInv, vars, table, locals
    <2> QED BY <2>1, <2>2
  <1> QED
    BY <1>1, <1>2, PlacedInvariance, PTL DEF Spec

\* No move ever ends in the "CRITICAL" exit: for any keys, hash function and size
\* of a bucket, doubling the table leaves room for all that was in it.
THEOREM MoveNeverClashes == Spec => []NoClashWhileMoving
  <1>1. PlacedInv /\ RecordedInv => NoClashWhileMoving
    BY MoveFindsRoom DEF RecordedInv, NoClashWhileMoving, MoveLocs
  <1> QED
    BY <1>1, RecordedInvariance, PTL

\* No increment is lost over any number of doublings: outside of a move what a
\* lookup reads is how often the key was counted.
THEOREM TableLosesNothing == Spec => []NothingLost
  <1>1. PlacedInv /\ RecordedInv => NothingLost
    <2> SUFFICES ASSUME PlacedInv, RecordedInv, pc \notin MoveLocs, NEW k \in Keys
                 PROVE  Frequency(k) = counts[k]
      BY DEF NothingLost
    <2> DEFINE i == __TA_hash_source(k, size)
    <2>1. Records(Content(array)) /\ Placed(array, size) /\ TableType
      BY DEF RecordedInv, PlacedInv
    <2>2. i \in DOMAIN array
      BY <2>1, HashInArray DEF TableType
    <2>3. CASE Has(array[i], k)
      <3>1. PICK j \in DOMAIN array[i] : /\ array[i][j].key = k
                                         /\ j = CHOOSE l \in Places(array[i], k) : TRUE
        BY <2>3 DEF Has, Places
      <3>2. array[i][j] \in Content(array)
        BY <2>2 DEF Content
      <3> QED BY <2>1, <2>3, <3>1, <3>2 DEF Frequency, Records
    <2>4. CASE ~Has(array[i], k)
      <3>1. ASSUME NEW e \in Content(array), e.key = k PROVE FALSE
        <4>1. PICK b \in DOMAIN array : \E j \in DOMAIN array[b] : e = array[b][j]
          BY DEF Content
        <4>2. PICK j \in DOMAIN array[b] : e = array[b][j]
          BY <4>1
        <4>3. b = i
          BY <2>1, <3>1, <4>2 DEF Placed
        <4> QED BY <2>4, <3>1, <4>2, <4>3 DEF Has, Places
      <3>2. counts[k] = 0
        BY <2>1, <3>1 DEF Records, TableType
      <3> QED BY <2>4, <3>2 DEF Frequency
    <2> QED BY <2>3, <2>4
  <1> QED
    BY <1>1, RecordedInvariance, PTL
=============================================================================
