--------------------------- MODULE DashHashTable ----------------------------
(***************************************************************************)
(* The profile's tables (src/Profile/Backend/HashTable/DashHashTable.c and *)
(* the loops of Task.cpp that drive them): a power of two of buckets, each *)
(* with TUPLE_SIZE places.  Whoever finds a bucket full doubles the table  *)
(* and tries again.  newMine keeps others out while that goes on, miners   *)
(* says how many are in.                                                   *)
(*                                                                         *)
(* One thread uses a table, the reader of the queue (Markov.cpp:216-243).  *)
(* newMine and miners are steps all the same, because that thread waits    *)
(* for them too: for ever, if it was the one that left them set.  What is  *)
(* there for a second thread (Task.cpp:86-96) is left out: a bucket is     *)
(* searched and updated under no lock, and a second thread could make an   *)
(* entry twice.                                                            *)
(***************************************************************************)
EXTENDS Integers, Sequences, FiniteSets

CONSTANTS Keys,        \* the block pairs that index the table
          TUPLE_SIZE,  \* places in a bucket
          HASHES,      \* bound: how many full hashes there are (2^32 in the code)
          INIT_SIZE,   \* buckets of the first array
          MAX_SIZE,    \* bound: above this many buckets calloc finds no memory
          CALLS,       \* bound: increments the reader makes
          NoKey        \* the key of no increment

ASSUME TableAssumption ==
  /\ {TUPLE_SIZE, HASHES, INIT_SIZE, MAX_SIZE} \subseteq Nat \ {0} /\ CALLS \in Nat
  /\ INIT_SIZE <= MAX_SIZE
  /\ NoKey \notin Keys

VARIABLES hash,     \* __TA_hash: any function of the key
          array, size, miners, newMine,   \* the table; size is getFullSize of it
          pc, key,  \* where the reader is, and the key it works on
          bucket,   \* the bucket it looked up
          newSize,  \* the size it asks resolveClash for
          old,      \* the array it moves the entries out of, if it does
          place,    \* the bucket and the tuple it moves next
          calls,    \* increments it has begun
          died,     \* has the process ended for lack of memory?
          counts    \* history: increments that took effect, per key

table == <<array, size, miners, newMine>>
locals == <<pc, key, bucket, newSize, old, place, calls>>
vars == <<hash, table, locals, died, counts>>

-----------------------------------------------------------------------------
\* Fault: the low bits are shifted out, and those above them taken.
__TA_hash_source_Shifted(k, s) == (hash[k] \div s) % s

\* The low bits of the full hash: the code masks it with the number of buckets,
\* a power of two, less one.
__TA_hash_source(k, s) == hash[k] % s

Buckets(s) == 0..(s - 1)
EmptyArray(s) == [i \in Buckets(s) |-> <<>>]

\* tupleLookup: the places of a bucket that hold k; at most one does.
Places(b, k) == {j \in DOMAIN b : b[j].key = k}
Has(b, k) == Places(b, k) # {}

\* Fault: an entry is made without looking for one.
Bumped_Appends(b, k) == Append(b, [key |-> k, frequency |-> 1])

\* HashTable_increment on a bucket: count the entry, or make it with count 1.
Bumped(b, k) ==
  IF Has(b, k)
  THEN [j \in DOMAIN b |->
          IF b[j].key = k THEN [b[j] EXCEPT !.frequency = @ + 1] ELSE b[j]]
  ELSE Append(b, [key |-> k, frequency |-> 1])

\* HashTable_write on a bucket: write the entry over, or make it.
Written(b, e) ==
  IF Has(b, e.key)
  THEN [j \in DOMAIN b |-> IF b[j].key = e.key THEN e ELSE b[j]]
  ELSE Append(b, e)

NoRoom(b, k) == ~Has(b, k) /\ Len(b) = TUPLE_SIZE

Init ==
  /\ hash \in [Keys -> 0..(HASHES - 1)]
  /\ array = EmptyArray(INIT_SIZE) /\ size = INIT_SIZE
  /\ miners = 0 /\ newMine = 0
  /\ pc = "idle" /\ key = NoKey /\ bucket = 0 /\ newSize = 0
  /\ old = <<>> /\ place = <<0, 1>> /\ calls = 0
  /\ died = FALSE
  /\ counts = [k \in Keys |-> 0]

At(l) == ~died /\ pc = l
Goto(l) == pc' = l

-----------------------------------------------------------------------------
(* HashTable_increment, called by pushEdgeInc, pushCallInc, pushLabelEvent *)

Call ==
  /\ At("idle") /\ calls < CALLS
  /\ \E k \in Keys : key' = k
  /\ calls' = calls + 1
  /\ Goto("spin")
  /\ UNCHANGED <<hash, table, bucket, newSize, old, place, died, counts>>

\* while( newMine ) {}
SpinOut ==
  /\ At("spin") /\ newMine = 0
  /\ Goto("enter")
  /\ UNCHANGED <<hash, table, key, bucket, newSize, old, place, calls, died, counts>>

\* miners++
Enter ==
  /\ At("enter")
  /\ miners' = miners + 1
  /\ Goto("lookup")
  /\ UNCHANGED <<hash, array, size, newMine, key, bucket, newSize, old, place, calls,
                 died, counts>>

\* arrayLookup: wait for newMine once more, then take the address of a bucket.
ArrayLookup ==
  /\ At("lookup") /\ newMine = 0
  /\ bucket' = __TA_hash_source(key, size)
  /\ Goto("bump")
  /\ UNCHANGED <<hash, table, key, newSize, old, place, calls, died, counts>>

\* The entry is counted.
Bump ==
  /\ At("bump")
  /\ ~NoRoom(array[bucket], key)
  /\ array' = [array EXCEPT ![bucket] = Bumped(@, key)]
  /\ counts' = [counts EXCEPT ![key] = @ + 1]
  /\ Goto("leave")
  /\ UNCHANGED <<hash, size, miners, newMine, key, bucket, newSize, old, place, calls,
                 died>>

\* Fault: the reader stays counted when it leaves by the clash.
BumpClash_Counted ==
  /\ At("bump")
  /\ NoRoom(array[bucket], key)
  /\ Goto("resolve")
  /\ UNCHANGED <<hash, table, key, bucket, newSize, old, place, calls, died, counts>>

\* The bucket is full: miners--, return 1.
BumpClash ==
  /\ At("bump")
  /\ NoRoom(array[bucket], key)
  /\ miners' = miners - 1
  /\ Goto("resolve")
  /\ UNCHANGED <<hash, array, size, newMine, key, bucket, newSize, old, place, calls,
                 died, counts>>

\* miners--, return 0.
Leave ==
  /\ At("leave")
  /\ miners' = miners - 1
  /\ key' = NoKey
  /\ Goto("idle")
  /\ UNCHANGED <<hash, array, size, newMine, bucket, newSize, old, place, calls, died,
                 counts>>

-----------------------------------------------------------------------------
(* resolveClash(t, t->size + 1): one more in the exponent is twice the buckets *)

\* if( !newMine ), which it always finds.
FindsOpen ==
  /\ At("resolve") /\ newMine = 0
  /\ newSize' = 2 * size
  /\ Goto("lock")
  /\ UNCHANGED <<hash, table, key, bucket, old, place, calls, died, counts>>

\* newMine++
LockOut ==
  /\ At("lock")
  /\ newMine' = newMine + 1
  /\ Goto("drain")
  /\ UNCHANGED <<hash, array, size, miners, key, bucket, newSize, old, place, calls,
                 died, counts>>

\* Once no miner is in: remember the old array, allocate the new one.
Grow ==
  /\ At("drain") /\ miners <= 0
  /\ newSize <= MAX_SIZE
  /\ old' = array
  /\ place' = <<0, 1>>
  /\ size' = newSize
  /\ array' = EmptyArray(newSize)
  /\ Goto("open")
  /\ UNCHANGED <<hash, miners, newMine, key, bucket, newSize, calls, died, counts>>

\* calloc fails: the null pointer is printed about, then written through.
GrowFails ==
  /\ At("drain") /\ miners <= 0
  /\ newSize > MAX_SIZE
  /\ died' = TRUE
  /\ UNCHANGED <<hash, table, locals, counts>>

\* newMine = 0: the table is opened before anything is moved, for the writes of
\* the move wait for newMine.
Open ==
  /\ At("open")
  /\ newMine' = 0
  /\ Goto("reset")
  /\ UNCHANGED <<hash, array, size, miners, key, bucket, newSize, old, place, calls,
                 died, counts>>

\* miners = 0
ResetMiners ==
  /\ At("reset")
  /\ miners' = 0
  /\ Goto("move")
  /\ UNCHANGED <<hash, array, size, newMine, key, bucket, newSize, old, place, calls,
                 died, counts>>

\* The loops over the buckets of the old array and over the tuples of a bucket.
Bucket == place[1]
Tuple == place[2]
InBucket == Bucket \in DOMAIN old
Moved == old[Bucket][Tuple]
Home(e) == __TA_hash_source(e.key, size)

\* HashTable_write of the next old entry: while( newMine ) {}, miners++
MoveEnter ==
  /\ At("move") /\ newMine = 0
  /\ InBucket /\ Tuple <= Len(old[Bucket])
  /\ miners' = miners + 1
  /\ Goto("put")
  /\ UNCHANGED <<hash, array, size, newMine, key, bucket, newSize, old, place, calls,
                 died, counts>>

\* arrayLookup, the write itself, miners--.  A full bucket would be the "CRITICAL"
\* exit, for which there is no step: NoClashWhileMoving says that there is none.
MovePut ==
  LET e == Moved IN
  /\ At("put") /\ newMine = 0
  /\ ~NoRoom(array[Home(e)], e.key)
  /\ array' = [array EXCEPT ![Home(e)] = Written(@, e)]
  /\ place' = <<Bucket, Tuple + 1>>
  /\ miners' = miners - 1
  /\ Goto("move")
  /\ UNCHANGED <<hash, size, newMine, key, bucket, newSize, old, calls, died, counts>>

\* Fault: the inner loop goes on where it was in the last bucket.
NextBucket_KeepsTuple ==
  /\ At("move")
  /\ InBucket /\ Tuple > Len(old[Bucket])
  /\ place' = <<Bucket + 1, Tuple>>
  /\ UNCHANGED <<hash, table, pc, key, bucket, newSize, old, calls, died, counts>>

NextBucket ==
  /\ At("move")
  /\ InBucket /\ Tuple > Len(old[Bucket])
  /\ place' = <<Bucket + 1, 1>>
  /\ UNCHANGED <<hash, table, pc, key, bucket, newSize, old, calls, died, counts>>

\* free(old.array), return 0: try the increment again.
MoveDone ==
  /\ At("move") /\ ~InBucket
  /\ old' = <<>>
  /\ Goto("spin")
  /\ UNCHANGED <<hash, table, key, bucket, newSize, place, calls, died, counts>>

-----------------------------------------------------------------------------
Increment == SpinOut \/ Enter \/ ArrayLookup \/ Bump \/ BumpClash \/ Leave
Resolve == \/ FindsOpen \/ LockOut \/ Grow \/ GrowFails \/ Open \/ ResetMiners
           \/ MoveEnter \/ MovePut \/ NextBucket \/ MoveDone

Next == Call \/ Increment \/ Resolve

Spec == Init /\ [][Next]_vars
FairSpec == Spec /\ WF_vars(Increment \/ Resolve)

-----------------------------------------------------------------------------
(* Properties *)

\* Every entry is in the one bucket where a lookup searches for it, at one
\* place, and no bucket has more than it can hold: so the file written from the
\* table names each edge once (DashHashTable.c:71-75, 126-165, 249-259).
WellPlaced ==
  \A i \in DOMAIN array :
    /\ Len(array[i]) <= TUPLE_SIZE
    /\ \A j \in DOMAIN array[i] : /\ __TA_hash_source(array[i][j].key, size) = i
                                  /\ Places(array[i], array[i][j].key) = {j}

Frequency(k) ==
  LET b == array[__TA_hash_source(k, size)]
  IN  IF Has(b, k) THEN b[CHOOSE j \in Places(b, k) : TRUE].frequency ELSE 0

\* Between the new array and the end of the move.
MoveLocs == {"open", "reset", "move", "put"}

\* "checks if all entries have been preserved" (ClashResolveAccuracy.c:17):
\* outside of a move the table holds every increment ever made, over any number
\* of doublings (DashHashTable.c:126-165, 209-265).
NothingLost ==
  pc \notin MoveLocs => \A k \in Keys : Frequency(k) = counts[k]

\* A move finds room for every entry: doubling splits a bucket and never merges
\* two, so that the "CRITICAL" exit is never taken (DashHashTable.c:253-257).
NoClashWhileMoving == pc = "put" => ~NoRoom(array[Home(Moved)], Moved.key)

\* No more keys share a full hash than one bucket holds.
Spread ==
  \A h \in 0..(HASHES - 1) : Cardinality({k \in Keys : hash[k] = h}) <= TUPLE_SIZE

\* An increment ends: the doubling stops, provided that no more than TUPLE_SIZE
\* keys share a full hash and there is memory for as many buckets as there are
\* hashes (the while loops of Task.cpp:80, 108, 138).
IncrementEnds == (Spread /\ pc = "spin") ~> pc = "idle"
=============================================================================
