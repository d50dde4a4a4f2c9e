---------------------------- MODULE MemoryEpochs -----------------------------
(***************************************************************************)
(* The memory backend (Memory.cpp, Processing.cpp, IO.cpp): the run of a   *)
(* program is cut into epochs where it enters or leaves a top-level        *)
(* kernel; each epoch keeps what it read and wrote as sets of memory       *)
(* tuples; at the end every epoch is matched to a kernel and to the        *)
(* earlier epochs whose data it reads or writes over.                      *)
(*                                                                         *)
(* Two history variables follow the program by epochs: touched has the     *)
(* bytes it accessed, history the borders it crossed unseen and its heap.  *)
(***************************************************************************)
EXTENDS MemoryTuple, Sequences

CONSTANTS
  KernelFile,         \* kernels by id: blocks, entrances, exits, parents, children
  Flow,               \* edges between blocks the program may take
  FirstBlock,
  Addresses,          \* addresses and sizes of the accesses
  Sizes,
  Heap,               \* the bytes of which the program gets some by malloc
  Cost,               \* by epochs: the calls the program makes, and what each counts
  LoadInst, StoreInst,
  MIN_TUPLE_OFFSET,
  MAX_EPOCHS, ACCESSES, \* bounds on the instance: epochs, and the calls by what they cost
  NoKernel

ASSUME KernelFileAssumption ==
  /\ DOMAIN KernelFile \subseteq Nat /\ NoKernel \notin DOMAIN KernelFile
  /\ Addresses \subseteq Nat \ {0} /\ Sizes \subseteq Nat \ {0}
  /\ LoadInst # StoreInst /\ MIN_TUPLE_OFFSET \in Nat

VARIABLES memoryActive, epochs, lastBlock, instToTuple, taskCommunication, touched,
          history, accesses

vars == <<memoryActive, epochs, lastBlock, instToTuple, taskCommunication, touched, history, accesses>>

-----------------------------------------------------------------------------
(* ReadKernelFile and FindEpochBoundaries *)

\* Kernels without blocks are passed over.
kernels == {k \in DOMAIN KernelFile : KernelFile[k].blocks # {}}

SameBlocks(k) == {o \in kernels : KernelFile[o].blocks = KernelFile[k].blocks}

\* The first kernel of each set of blocks; it takes the parents and children of the others.
blockSets == {k \in kernels : \A o \in SameBlocks(k) : k <= o}

Parents(k) == KernelFile[k].parents \cap kernels
Children(k) ==
  (UNION {KernelFile[o].children : o \in IF k \in blockSets THEN SameBlocks(k) ELSE {k}})
  \cap kernels

\* The kernels that nothing contains.
topKernels == {b \in blockSets : \A o \in SameBlocks(b) : Parents(o) = {}}

\* Fault: the edges out of a kernel are forgotten.
epochBoundaries_NoExits == UNION {KernelFile[k].entrances : k \in topKernels}

\* The edges into and out of them, as far as the kernel file has them.
epochBoundaries == UNION {KernelFile[k].entrances \cup KernelFile[k].exits : k \in topKernels}

\* A kernel and all below it.
Hierarchy(k) ==
  LET below[n \in 0..Cardinality(kernels)] ==
        IF n = 0 THEN {k}
        ELSE below[n - 1] \cup UNION {Children(c) : c \in below[n - 1]}
  IN  below[Cardinality(kernels)]

\* The blocks of each hierarchy, by its top.
taskCandidates ==
  [k \in {r \in kernels : Parents(r) = {}} |-> UNION {KernelFile[o].blocks : o \in Hierarchy(k)}]

\* All edges that the kernel file has for them.  It may lack one: of two exits to
\* the same node the cartographer writes one (Transforms.cpp:766-783).
KnownEdges == UNION {KernelFile[k].entrances \cup KernelFile[k].exits : k \in topKernels}

\* The kernels into or out of which an edge leads that the file lacks.
Strays(edge) ==
  {k \in DOMAIN taskCandidates :
     (edge[1] \in taskCandidates[k]) # (edge[2] \in taskCandidates[k]) /\ edge \notin KnownEdges}

-----------------------------------------------------------------------------
(* The instrumented program *)

NewEpoch(from, to) ==
  [blocks |-> {to}, entrances |-> {<<from, to>>}, exits |-> {}, kernel |-> NoKernel,
   rTuples |-> {}, wTuples |-> {}, malloc_ptrs |-> {}, free_ptrs |-> {}]

\* The last epoch is currentEpoch, the one pointer to which every access goes.
current == Len(epochs)

Init ==
  /\ memoryActive = FALSE /\ epochs = <<>> /\ lastBlock = FirstBlock
  /\ instToTuple = [i \in {LoadInst, StoreInst} |-> {}]
  /\ taskCommunication = <<>>
  /\ touched = <<>> /\ history = <<>> /\ accesses = 0

NothingTouched == [r |-> {}, w |-> {}]

\* Of an epoch: the kernels over whose border it strayed, the blocks of the heap it
\* was given that are still in use, and those it was given and freed.
NothingDone == [strayed |-> {}, live |-> {}, temporary |-> {}]

MemoryInit ==
  /\ epochs = <<>>
  /\ memoryActive' = TRUE
  /\ epochs' = <<NewEpoch(FirstBlock, FirstBlock)>>
  /\ touched' = <<NothingTouched>> /\ history' = <<NothingDone>>
  /\ UNCHANGED <<lastBlock, instToTuple, taskCommunication, accesses>>

\* A block outside of the edges that matter joins the epoch.
IncrementInside(a) ==
  /\ memoryActive
  /\ <<lastBlock, a>> \in Flow \ epochBoundaries
  /\ epochs' = [epochs EXCEPT ![current].blocks = @ \cup {a}]
  /\ history' = [history EXCEPT ![current].strayed = @ \cup Strays(<<lastBlock, a>>)]
  /\ lastBlock' = a
  /\ UNCHANGED <<memoryActive, instToTuple, taskCommunication, touched, accesses>>

\* An edge that matters ends the epoch and starts the next.
IncrementAcross(a) ==
  /\ memoryActive /\ Len(epochs) < MAX_EPOCHS
  /\ <<lastBlock, a>> \in Flow \cap epochBoundaries
  /\ epochs' = Append([epochs EXCEPT ![current].exits = @ \cup {<<lastBlock, a>>}],
                      NewEpoch(lastBlock, a))
  /\ touched' = Append(touched, NothingTouched) /\ history' = Append(history, NothingDone)
  /\ lastBlock' = a
  /\ UNCHANGED <<memoryActive, instToTuple, taskCommunication, accesses>>

Tuple(t, address, offset) ==
  [type |-> t, AP |-> "NA", base |-> address, offset |-> Offset32(offset)]

\* The program makes an access.  The calls for copies and allocations test
\* currentEpoch instead of memoryActive: the two differ after MemoryDestroy, when
\* nothing reads the epochs any more, and these calls are left out.
Access(call) ==
  /\ memoryActive /\ call \in DOMAIN Cost[current] /\ accesses + Cost[current][call] <= ACCESSES
  /\ accesses' = accesses + Cost[current][call]
  /\ UNCHANGED <<memoryActive, lastBlock, taskCommunication>>

Live == UNION {history[i].live : i \in DOMAIN history}

\* A program accesses the heap inside of a block that it was given.
InUse(bytes) == bytes \cap Heap = {} \/ \E m \in Live : bytes \subseteq Bytes(m)

Touch(reads, writes) ==
  /\ InUse(reads) /\ InUse(writes)
  /\ touched' = [touched EXCEPT ![current] = [r |-> @.r \cup reads, w |-> @.w \cup writes]]
  /\ UNCHANGED history

\* Loads and stores own datasize + 1 bytes.
MemoryStore(address, datasize) ==
  LET mt == Tuple("Writer", address, datasize) IN
  /\ Access("store")
  /\ epochs' = [epochs EXCEPT ![current].wTuples = merge_tuple_set(@, mt)]
  /\ instToTuple' = [instToTuple EXCEPT ![StoreInst] = merge_tuple_set(@, mt)]
  /\ Touch({}, address .. (address + datasize - 1))

MemoryLoad(address, datasize) ==
  LET mt == Tuple("Reader", address, datasize) IN
  /\ Access("load")
  /\ epochs' = [epochs EXCEPT ![current].rTuples = merge_tuple_set(@, mt)]
  /\ instToTuple' = [instToTuple EXCEPT ![LoadInst] = merge_tuple_set(@, mt)]
  /\ Touch(address .. (address + datasize - 1), {})

CopyRange(call, type, src, snk, dataSize) ==
  /\ Access(call)
  /\ epochs' = [epochs EXCEPT
       ![current].rTuples = merge_tuple_set(@, Tuple(type, src, dataSize - 1)),
       ![current].wTuples = merge_tuple_set(@, Tuple(type, snk, dataSize - 1))]
  /\ Touch(src .. (src + dataSize - 1), snk .. (snk + dataSize - 1))
  /\ UNCHANGED instToTuple

\* memcpy asks for ranges that do not overlap.
MemoryCpy(src, snk, dataSize) ==
  /\ (src .. (src + dataSize - 1)) \cap (snk .. (snk + dataSize - 1)) = {}
  /\ CopyRange("cpy", "Memcpy", src, snk, dataSize)

MemoryMov(src, snk, dataSize) == CopyRange("mov", "Memmov", src, snk, dataSize)

MemorySet(address, dataSize) ==
  /\ Access("set")
  /\ epochs' = [epochs EXCEPT ![current].wTuples =
                  merge_tuple_set(@, Tuple("Memset", address, dataSize - 1))]
  /\ Touch({}, address .. (address + dataSize - 1))
  /\ UNCHANGED instToTuple

\* The heap gives out a block apart from those in use.  One that overlaps an
\* earlier allocation of the same epoch is not remembered.
MemoryMalloc(address, size) ==
  LET mt == Tuple("Malloc", address, size - 1) IN
  /\ Access("malloc")
  /\ Bytes(mt) \subseteq Heap \ AllBytes(Live)
  /\ epochs' = [epochs EXCEPT ![current].malloc_ptrs = Insert(@, mt)]
  /\ history' = [history EXCEPT ![current].live = @ \cup {mt}]
  /\ UNCHANGED <<instToTuple, touched>>

\* The blocks block are freed, in the last epoch.
Released(i, block) ==
  [strayed |-> history[i].strayed, live |-> history[i].live \ block,
   temporary |-> history[i].temporary \cup IF i = current THEN history[i].live \cap block ELSE {}]

\* The program frees a block in use or one from before the profile.
MemoryFree(address) ==
  LET block == {m \in Live : m.base = address} IN
  /\ Access("free")
  /\ address \in Heap \ AllBytes(Live \ block)
  /\ epochs' = [epochs EXCEPT ![current].free_ptrs = @ \cup {address}]
  /\ history' = [i \in DOMAIN history |-> Released(i, block)]
  /\ UNCHANGED <<instToTuple, touched>>

-----------------------------------------------------------------------------
(* ProcessEpochBoundaries *)

\* More than half of the epoch's blocks (EPOCH_KERNEL_OVERLAP).
Matches(e, k) == 2 * Cardinality(taskCandidates[k] \cap e.blocks) > Cardinality(e.blocks)

\* The first hierarchy that matches.
KernelOf(e) ==
  LET matching == {k \in DOMAIN taskCandidates : Matches(e, k)}
  IN  IF matching = {} THEN NoKernel ELSE CHOOSE k \in matching : \A o \in matching : k <= o

\* A working set without one large tuple is dropped.
LargeEnough(array) == IF \E t \in array : t.offset > MIN_TUPLE_OFFSET THEN array ELSE {}

\* The allocations whose address was freed in the same epoch.
Temporaries(e) == {m \in e.malloc_ptrs : m.base \in e.free_ptrs}

Cleaned(e, array) == Walk(remove_tuple_set, LargeEnough(array), Temporaries(e))

\* Fault: only what was read is cleaned.
Processed_ReadsOnly(e) ==
  [e EXCEPT !.kernel = KernelOf(e),
            !.rTuples = Cleaned(e, @),
            !.wTuples = LargeEnough(@)]

Processed(e) ==
  [e EXCEPT !.kernel = KernelOf(e),
            !.rTuples = Cleaned(e, @),
            !.wTuples = Cleaned(e, @)]

-----------------------------------------------------------------------------
(* GenerateTaskCommunication *)

Static(produced, consumed) == produced.AP = "WriteThenRead" /\ consumed.AP = "WriteThenRead"

\* What a tuple of the producer explains of one of the consumer is taken out.
Cut(left, p, c) ==
  IF Static(p, c) THEN remove_tuple_set(left, c)
  ELSE IF mem_tuple_overlap(p, c).base > 0
       THEN remove_tuple_set(left, mem_tuple_overlap(p, c)) ELSE left

\* Fault: what is explained stays.
Unexplained_All(producer, consumer) == consumer

CutAll(left, p, consumer) == Walk(LAMBDA l, c : Cut(l, p, c), left, consumer)

\* What of the consumer no tuple of the producer overlaps.
Unexplained(producer, consumer) ==
  Walk(LAMBDA left, p : CutAll(left, p, consumer), consumer, producer)

\* Fault: off by one.
Explains_Larger(producer, consumer) ==
  \E p \in producer, c \in consumer :
    ~Static(p, c) /\ mem_tuple_overlap(p, c).offset > MIN_TUPLE_OFFSET + 1

Explains(producer, consumer) ==
  \E p \in producer, c \in consumer :
    ~Static(p, c) /\ mem_tuple_overlap(p, c).offset > MIN_TUPLE_OFFSET

\* The read tuple that a copy hands on to the consumer: for memcpy the first
\* that overlaps the sink (the literal 32 there is MIN_TUPLE_OFFSET's value), for
\* memmov the first that is as large as the sink.
HandsOn(e, t) ==
  IF t.type = "Memcpy" THEN {r \in e.rTuples : mem_tuple_overlap(r, t).offset > MIN_TUPLE_OFFSET}
  ELSE IF t.type = "Memmov" THEN {r \in e.rTuples : r.offset >= t.offset}
  ELSE {}

PassOn(e, consumed, t) ==
  IF HandsOn(e, t) = {} THEN consumed ELSE merge_tuple_set(consumed, Sorted(HandsOn(e, t))[1])

PassedOn(e, consumed) == Walk(LAMBDA c, t : PassOn(e, c, t), consumed, e.wTuples)

\* What is left to explain, and the producers found, once epoch j was looked at.
LookAt(producer, j, was, RAW) ==
  LET consumed == IF RAW THEN PassedOn(producer, was.left) ELSE was.left
  IN  IF was.left = {} THEN was
      ELSE [left |-> Unexplained(producer.wTuples, consumed),
            found |-> was.found \cup IF Explains(producer.wTuples, consumed) THEN {j} ELSE {}]

\* Walk back from epoch i over the earlier ones.
Producers(es, i, tuples, RAW) ==
  LET after[n \in 0..(i - 1)] ==
        IF n = 0 THEN [left |-> tuples, found |-> {}]
        ELSE LookAt(es[i - n], i - n, after[n - 1], RAW)
  IN  after[i - 1].found

GenerateTaskCommunication(es) ==
  [i \in DOMAIN es |-> [RAW |-> Producers(es, i, es[i].rTuples, TRUE),
                       WAW |-> Producers(es, i, es[i].wTuples, FALSE)]]

MemoryDestroy ==
  /\ memoryActive
  /\ memoryActive' = FALSE
  /\ epochs' = [i \in DOMAIN epochs |-> Processed(epochs[i])]
  /\ taskCommunication' = GenerateTaskCommunication(epochs')
  /\ UNCHANGED <<lastBlock, instToTuple, touched, history, accesses>>

-----------------------------------------------------------------------------
Blocks == {f[1] : f \in Flow} \cup {f[2] : f \in Flow}

Next ==
  \/ MemoryInit
  \/ \E a \in Blocks : IncrementInside(a) \/ IncrementAcross(a)
  \/ \E address \in Addresses, size \in Sizes :
       \/ MemoryStore(address, size) \/ MemoryLoad(address, size)
       \/ MemorySet(address, size) \/ MemoryMalloc(address, size)
       \/ \E snk \in Addresses : MemoryCpy(address, snk, size) \/ MemoryMov(address, snk, size)
  \/ \E address \in Addresses : MemoryFree(address)
  \/ MemoryDestroy

Spec == Init /\ [][Next]_vars

-----------------------------------------------------------------------------
(* What a program and its kernel file are like *)

\* The bytes of the largest tuples the program can make.
Touchable ==
  UNION {UNION {address..(address + size) : size \in Sizes} : address \in Addresses}

-----------------------------------------------------------------------------
(* Properties *)

TuplesOf(e) == e.rTuples \cup e.wTuples

\* "no entries in the tree are allowed to overlap" (MemoryTuple.hpp:65): the
\* order is one only for disjoint tuples, so that every merge and every removal
\* has to keep them so.
WorkingSetsDisjoint ==
  /\ \A i \in DOMAIN epochs : /\ Disjoint(epochs[i].rTuples) /\ Disjoint(epochs[i].wTuples)
                              /\ Disjoint(epochs[i].malloc_ptrs)
  /\ \A v \in DOMAIN instToTuple : Disjoint(instToTuple[v])

Records(array, bytes) ==
  /\ bytes \subseteq AllBytes(array)
  /\ \A b \in AllBytes(array) : {b, b - 1} \cap bytes # {}

\* However the accesses overlap and in whatever order they come, the working
\* sets of an epoch own all the bytes it touched, and besides them at most the
\* one behind each (MemoryTuple.hpp:338-379, Memory.cpp:128-262).
WorkingSetsRecord ==
  memoryActive => \A i \in DOMAIN epochs :
                    /\ Records(epochs[i].rTuples, touched[i].r)
                    /\ Records(epochs[i].wTuples, touched[i].w)

Destroyed == ~memoryActive /\ epochs # <<>>

\* An epoch is mapped to a kernel exactly if it ran inside that kernel's
\* hierarchy, and to none if it ran outside of all (Processing.cpp:15-64): no
\* epoch goes on over an entrance or an exit of a kernel that the kernel file
\* has.  Where it lacks one the epoch that takes it has blocks of both sides.
KernelsMatch ==
  Destroyed => \A i \in DOMAIN epochs, k \in DOMAIN taskCandidates :
    \/ k \in history[i].strayed
    \/ /\ epochs[i].kernel = k => epochs[i].blocks \subseteq taskCandidates[k]
       /\ epochs[i].kernel = NoKernel => epochs[i].blocks \cap taskCandidates[k] = {}

\* The epoch had an earlier allocation where this one is: Memory.cpp:272 inserts
\* into a set in which the two are equal, so that this one is forgotten.
Forgotten(e, m) == \E o \in e.malloc_ptrs : o # m /\ Bytes(o) \cap Bytes(m) # {}

\* Of an array that the program allocated and freed in one epoch nothing stays in
\* the epoch's working sets (Processing.cpp:93-110), in whatever order it is
\* allocated, used and freed, unless it overlaps an earlier allocation of the
\* epoch that began or ended elsewhere.
TemporariesRemoved ==
  Destroyed => \A i \in DOMAIN epochs : \A m \in history[i].temporary :
    Forgotten(epochs[i], m) \/ AllBytes(TuplesOf(epochs[i])) \cap Bytes(m) = {}

\* Processing.cpp:93: "epochs that allocated and then freed temporary arrays need
\* to have those arrays taken out of their input/output working sets".
TemporariesGone ==
  Destroyed => \A i \in DOMAIN epochs : \A m \in history[i].temporary :
    AllBytes(TuplesOf(epochs[i])) \cap Bytes(m) = {}

Copies(e) == \E t \in e.wTuples : t.type \in {"Memcpy", "Memmov"}

WrittenBetween(es, j, i) == UNION {AllBytes(es[m].wTuples) : m \in (j + 1)..(i - 1)}

\* What epoch i reads, and what the copying epochs from j on read for it, of
\* which there is no later writer than j.
ReadFor(es, j, i) ==
  UNION {AllBytes(es[m].rTuples) \ WrittenBetween(es, j, m) :
           m \in {i} \cup {n \in j..(i - 1) : Copies(es[n])}}

\* A dependency is a real one: the producer wrote bytes that the consumer reads
\* or writes, or that a copy between them read, and of which no epoch between
\* them is the writer (Processing.cpp:146-262).
DependenciesReal ==
  \A i \in DOMAIN taskCommunication :
    /\ \A j \in taskCommunication[i].RAW :
         AllBytes(epochs[j].wTuples) \cap ReadFor(epochs, j, i) # {}
    /\ \A j \in taskCommunication[i].WAW :
         (AllBytes(epochs[j].wTuples) \cap AllBytes(epochs[i].wTuples)) \ WrittenBetween(epochs, j, i) # {}

\* Enough bytes for a dependency.
Run(first) == first .. (first + MIN_TUPLE_OFFSET + 1)

\* Epoch j is the last to write a run of bytes that a tuple of epoch i reads.
LastToWrite(j, c, i, first) ==
  /\ Run(first) \subseteq Bytes(c)
  /\ \E p \in epochs[j].wTuples : Run(first) \subseteq Bytes(p)
  /\ WrittenBetween(epochs, j, i) \cap Run(first) = {}
  /\ \A m \in j..(i - 1) : ~Copies(epochs[m])

\* The last writer of data is found, as far as nothing to the left of the data,
\* in the tuple that reads it, has another writer in between: of a tuple cut in
\* its middle mem_tuple_exclusion keeps the left part only (MemoryTuple.hpp:306,
\* where :262 says "equivalent to lhs - intersect(lhs, rhs)").
LastWriterFound ==
  \A i \in DOMAIN taskCommunication : \A j \in 1..(i - 1) : \A c \in epochs[i].rTuples :
    \A first \in Bytes(c) :
      /\ LastToWrite(j, c, i, first)
      /\ \A b \in WrittenBetween(epochs, j, i) \cap Bytes(c) : b > first
      => j \in taskCommunication[i].RAW
=============================================================================
