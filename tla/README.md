# Cyclebite: a verification project

Cyclebite finds the hot kernels of a program. It instruments the program's LLVM
bitcode (`src/Profile/Passes`), links it with a profiling backend
(`src/Profile/Backend`), runs it, reads the profile back as a control-flow graph
(`src/Graph`), cuts kernels out of that graph (`src/cartographer`), and turns
kernels into expressions (`src/Grammar`).

The modules here model the two halves of that path. The profiling backends run
inside the profiled program, and their mistakes end up silently in the profiles
that everything else is computed from: the Markov backend counts edges of the
control-flow graph, on all the threads of the program; the memory backend records
which addresses the kernels read and write. The cartographer rewrites the
profiled graph, many times over, until it has kernels: each rewriting has to keep
what the next relies on, and what it loses shows much later, if at all.

## 1. Inventory

| Part | State | Operations | What is hard about it |
| --- | --- | --- | --- |
| Event queue: `AtomicQueue`, wrapped by `ThreadSafeQueue` | ring `array`, atomics `entries`, `p_read`, `p_write`, two mutexes | `push`, `pop`, `members` | A writer and a reader share no lock; pointers wrap; both sides give up after `TRIES_MAX` |
| Profile tables: `DashHashTable` | `array`, `size`, atomics `miners`, `newMine` | `increment`, `write`, `read`, `resolveClash`, file read and write | Doubling under a home-made lock; retry loops |
| Registration of threads: `Markov.cpp` | maps keyed by thread, `newThread`, `miners`, `lastLauncher`, `launchers`, `threadSpawns` | `MarkovLaunch`, head and tail of `MarkovIncrement` | Home-made mutual exclusion with back-off; state left behind by another thread |
| Event path: `Markov.cpp`, `Task`, `TaskBin` | per-thread task, three rings of events, `markovActive`, the reader thread | `MarkovIncrement`, `MarkovPush`, `MarkovDestroy` | Pointers into a ring nobody frees; refused pushes; shutdown against running threads |
| Kernel label stack: `Markov.cpp` | ring of labels, `stackCount` | push, pop, read | Underflow, sharing between threads |
| Memory backend: `Memory.cpp`, `Processing.cpp`, `IO.cpp`, `MemoryTuple.hpp` | `epochs` with their blocks, read and written intervals, allocations; `instToTuple`; the kernels of the kernel file | `MemoryIncrement`, load, store, memcpy, memmove, memset, malloc, free, `MemoryDestroy` with `ProcessEpochBoundaries` and `GenerateTaskCommunication` | Sets ordered by a relation that is an order only for disjoint intervals; borders of intervals; cuts at the right edges |
| Precision backend, utilities | histograms, clocks, traces | | Sequential |
| Instrumentation passes | LLVM modules | | Insert the calls above |
| Graph structures and searches: `Graph.cpp`, `Dijkstra.cpp` | the graph's nodes and edges, and of each node its own edges; sets ordered by the ends of edges | add, remove, find; shortest path, cycles | An edge is in three sets that must agree; two edges with the same ends are the same one |
| Graph transforms: `Transforms.cpp` | the control-flow graph, virtual nodes and edges, `EdgeToVE` | `VirtualizeSharedFunctions`, `VirtualizeSubgraph`, `ApplyCFGTransforms` | Rewriting to a fixed point, frequencies preserved; old and new nodes side by side |
| Kernels: `MLCycle.cpp`, `FindMLCycles` | set of kernels, parents and children | find, choose, virtualise, revoke | Candidates that overlap; a hierarchy kept up in both directions; kernels taken back |
| Profile reader and writer: `Graph/IO.cpp` | files, maps of blocks | `BuildCFG`, `UpgradeEdges`, `PatchFunctionEdges`, `getDynamicCallGraph`, `WriteKernelFile` | A profile does not say which call a return belongs to, nor what unprofiled code called |
| Cartographer, Grammar, Util, Utilities | | | Drivers, pattern matching over LLVM, printing |

How they interact in a run. `MarkovInit` allocates three tables and starts the
reader thread. Every basic block calls `MarkovIncrement` on the thread that runs
it; a thread seen for the first time registers itself in the maps. The call
copies an edge event (and, if they apply, a label and a call event) into a
`TaskBin` ring and puts a pointer to it into the thread's `Task`; a full `Task`
of six pointers is pushed to the queue. The reader thread (`MarkovPush`) pops
tasks and follows the pointers, incrementing the tables; a full bucket makes it
double the table. `MarkovDestroy` pushes what is left in all the tasks, clears
`markovActive`, joins the reader and writes the tables to files. `MarkovLaunch`,
before a call that creates a thread, only records the block.

The memory backend works in a later run, of the program as the Memory pass
instruments it, and reads the kernel file that the cartographer wrote in between.
`MemoryInit` finds the edges into and out of the top-level kernels. Each block
calls `MemoryIncrement`, which starts a new epoch when such an edge is taken;
each access adds an interval to the current epoch. `MemoryDestroy` matches the
epochs to kernels and walks back from each over the earlier ones to see who wrote
last what it reads (RAW) and what it writes (WAW).

The cartographer reads the profile after the run. `getDynamicInformation` builds
the graph, finds the call and return edges and the call graph.
`VirtualizeSharedFunctions` copies functions that are called from several places.
`ApplyCFGTransforms` makes the graph smaller and `FindMLCycles` takes its cycles
out as kernels, in turns, until nothing changes; then kernels that only feed a
pipeline are revoked and `WriteKernelFile` writes the file that the memory
backend reads.

What makes each part correct:

* the queue: first in first out, nothing lost, nothing duplicated, bounded, and
  neither side stuck;
* the tables: each edge in one place, where a lookup finds it, with exactly the
  number of times it was taken;
* the registration: one thread at a time changes the maps, nobody looks at them
  meanwhile, and everyone gets on;
* the event path: what the reader counts is what the threads did, each event
  once, and the program can end;
* the memory tuples: operations on intervals do what union, intersection and
  difference of sets of addresses do, and a set of tuples never overlaps itself;
* the epochs: each lies inside a kernel or outside of all, its working sets are
  what it touched without its temporary arrays, and a dependency is there exactly
  if a byte's last writer says so.

* the profile reader: each call knows the edges on which it returned, so that the
  control flow of a function's callers can be told apart;
* the transforms: the graph stays one graph, what the program did stays possible in
  it, blocks are neither lost nor doubled, and it all ends;
* the kernels: loops of the profiled program that nest, with the borders and
  blocks that the kernel file names.

`PROJECT.json` lists every component, and under `hazards` each place in the code
where one of these is at risk.

## 2. Modules

| Module | Models | Kind |
| --- | --- | --- |
| `BoundedQueue` | what the event queue promises | abstract specification |
| `AtomicQueue` | `AtomicQueue::push` and `pop`, one action per access to shared memory | component, refines `BoundedQueue` |
| `AtomicQueueProofs` | type correctness of `AtomicQueue`, the refinement, and that its slots hold the right tasks | proofs |
| `DashHashTable` | increment, clash, doubling and move, by the one thread that uses a table | component |
| `DashHashTableProofs` | that entries are in place, that a move never clashes, and that nothing is lost | proofs |
| `ThreadRegistry` | registration of threads | component |
| `ThreadRegistryProofs` | its mutual exclusion, accounting and first edges | proofs |
| `MarkovBackend` | the event path from a block to the written profile | composition, over what `AtomicQueue` does for one reader |
| `MarkovBackendProofs` | that the profile of one thread is complete, but for what early copies harm | proofs |
| `MemoryTuple` | tuples and sets of tuples, as operators | component (no state) |
| `MemoryEpochs` | the memory backend from the kernel file to the dependencies | composition, over `MemoryTuple` |
| `MemoryEpochsProofs` | what the operators of `MemoryTuple` do to the sets of bytes, and all invariants of `MemoryEpochs` | proofs |
| `ProfileReader` | from a profile and the bitcode to call edges, return edges and the call graph | component |
| `Inlining` | the schedule of `VirtualizeSharedFunctions`, its copies and its clean-up, and `Checks` | composition, over `ProfileReader` |
| `InliningProofs` | that each call knows where the run returned from it, and that functions are scheduled after those they wait for | proofs |
| `ControlGraph` | graphs, virtual nodes and edges, `VirtualizeSubgraph`, cycles | component (no state) |
| `Transforms` | the transforms of `ApplyCFGTransforms`, as operators | component (no state) |
| `GraphProofs` | that the transforms find subgraphs that can be replaced, and what replacing them does to the graph | proofs, of `ControlGraph` and `Transforms` |
| `Segmentation` | the cartographer from the inlined graph to the kernel file | composition, over `Transforms` |
| `SegmentationProofs` | the invariants of the graph and of the kernels | proofs, over `GraphProofs` |
| `MC...` | symmetry, instances and assumptions for TLC | |

### AtomicQueue

`entries`, `p_read`, `p_write`, `QL_writer`, `QL_reader` and `array` are the
members of the class; `pc`, `at`, `seen`, `left`, `todo` are the locals of the
thread in `push` or `pop` (`at` is a writer's `w` and a reader's `r`, `seen` the
other pointer as last read, `left` the tries it has left). A push is
`PushLock, PushLoadRead, (PushRetry, PushLoadRead)*, PushRoom, PushAdvance,
PushCount, PushStore x2, PushReturn`, or ends in `PushGiveUp`; a pop likewise.
The blocking and the non-blocking version differ in the number of tries. A slot
has two words, stored and copied one at a time in any order, because a `Task` is
copied by member and the copy is outside every lock.

`log`, `taken`, `ticket` and `raced` are history: which task was counted in as
the n-th, how many were counted out, which of them each pop took, and whether
its copy met an unfinished store. They map the ring to `BoundedQueue` (`log` and
`taken` are its variables): `entries++` is `Accept`, `entries--` is `Deliver`.

### DashHashTable

The hash of a key is any function (`Init` chooses it), so a run covers all the
patterns of collisions; `HASHES` is the number of values it has. `size` is the
number of buckets, not its logarithm as in the code. `place` is where the walk of
`resolveClash` over the old array is, its bucket and the tuple in it.
`counts` is history: the increments that took effect.

One thread uses a table, the reader of the queue (`Markov.cpp:216-243`), and the
model has that one. `newMine` and `miners` are steps of it all the same, since it
would wait for ever for what it left set itself. The loops of `Task.cpp:86-96` are
written for several threads, but `DashHashTable.c:136-162` searches a bucket,
compares and appends under no lock: two threads that both miss a key would append it
twice, or write the same place. Nothing is said of that, here or in the proofs.

### ThreadRegistry

One action per access to `newThread`, `miners` or the maps (`registered` stands
for their common key set). What a thread does between `miners++` and
`miners--` is one step here and the subject of `MarkovBackend`.

### MarkovBackend

`bin` and `next` are the `TaskBin`'s arrays and write counters, `buffer` the
`taskBuffer`, `hand` the task the reader works on. A pointer carries the event
it was made for, so that a slot that was used again shows.
`Slow` says whether a push may run out of tries, a choice of the environment. The
program joins its threads before it ends. A thread's events are numbered; that two events of the same edge look alike in the
program makes a mistake harder to see there, not less of one.

The queue is not the abstract one: it can hand out a task before it is stored
(`queue_read_once`). `PushTask` is the lock, `entries++`, `StoreTask` the copy into the
slot; `Claim` is `entries--`, `Copy` the copy out of it. `log` has all tasks that were
counted in, `popped` says how many were counted out. By `WrongOnlyIfRaced` a copy is
wrong only if the task is the newest and its writer is not done: `Copy` then takes,
member by member, what is new or what was in the slot before (`Mixes`, `Former`), a
task of a round ago, or `Blank` in the first. What the reader does with it is in the
model: it passes over a task with the id of `Task(false)` (`Skip`), follows the pointers
of any other, and may meet one that was never set (`FollowWild`, after which nothing
is said). Its exit on a task of more than 6 events cannot be reached, because no task has
more, so it has no step. `wrong` and `harmed` are history: the events of a task that was
copied wrong, and those that were counted in their place.

### MemoryTuple

A tuple is a record, a `std::set<MemTuple, MTCompare>` a set of them; `Find` and
`Insert` do what `find` and `insert` do with entries the order calls equal (the
first of them is found; nothing is inserted if there is one). The recursion of
`merge_tuple_set` and the loop of `remove_tuple_set` are functions on the number
of rounds (`MergeNext` and `RemoveNext` are one), at most one per entry. `Walk` is
a loop over a set in its order, which for disjoint tuples is that of their bases
(`Sorted`). Offsets are taken modulo `OFFSET_SPAN` (2^32),
bases are not: no sum of addresses passes 2^64. A base of 0 marks the empty
overlap, as in the code, so accesses are at addresses of at least 1.

### MemoryEpochs

`epochs` is the set of epochs in the order of their ids, its last entry
`currentEpoch`. The program is any walk over `Flow` with accesses anywhere; the
kernel file is a constant (`KernelFile`), and `ReadKernelFile` and
`FindEpochBoundaries` are operators on it. A kernel stands for its JSON entry, in
the order of the entries. `MemoryDestroy` is one action, since the program has
ended: it processes the epochs and then computes `taskCommunication` (the map of
the same name, epochs without a dependency included). `touched` is history: the
bytes that each epoch was told to have read and written. So is `history`, of each epoch:
the kernels whose border the program crossed by an edge that the kernel file lacks
(`strayed`), the blocks of the heap that were allocated in it and not freed yet (`live`), and
those allocated and freed in it (`temporary`). `malloc` gives any free bytes of `Heap`,
those of a freed block included. The epochs are those of
one thread; the backend has one current epoch and no lock, and can be used only
so.

### ProfileReader and Inlining

A program is its blocks, with the function, the successors and the callees of
each; its run is any way through it, with a stack, that ends in `main`. `IsRun` says
of a run, without the stack, what the theorems need (a step enters a function,
returns from one, or goes to a successor; a return goes on after the last call that
has not returned), and TLC checks it of every run of the instances
(`ProfiledAssumption`). From there on the modules see only the counts of the profile, as the code does: `run`
itself is history, for the properties. `graph` is the `Graph` with the edges that
its nodes hold, `calls` the `rets.dynamicRets` of the call edges, `callGraph` the
dynamic call graph. An edge is the pair of its ends, since the sets of the code
order edges so. `plain` are the edges that are `UnconditionalEdge`s, whose weight
is 1 whatever is set. `twice` has the successors that a terminator names more than once
(a `switch`), whose frequency is added for each.

The steps are the passes of the code in their order; within a pass, call
instructions and functions come in any order, as they do in the code, where they
are ordered by address. `Inlining` goes on with the call graph: `StartInlining`
finds what is to be inlined, `Schedule`, `Descend` and `DropCovered` are the turns
of `ScheduleInlineTransforms` (`stack` is its queue `Q`, used from the back),
`NextEntry` makes a function's graph, `InlineSite` prunes it and copies it,
`CleanUp` is what follows the sites of an entry, the `Checks` included. A search
of the code's is reachability along the edges it follows. Where the code throws,
the step is not enabled, and `NoThrow` says that this does not happen.

### ControlGraph, Transforms, Segmentation

Here nodes and edges have numbers, in the order they are made, because two edges
with the same ends meet: the second is the first to `std::set::insert`, and is
lost. `Insert`, `Erase` and `Has` do that. A virtual node has the subgraph it
stands for in `inner`, a virtual edge its edges in `under`. A transform is an
operator that gives the subgraph it found; `VirtualizeSubgraph` gives the new
graph. `Dijkstras` gives the cycle the code's heap finds: the likeliest way back,
of equally likely ones the set of those it may find. Loops and recursions are recursive
functions on the number of rounds or on the numbers of the nodes (`Each`, `Leaves`):
nodes are numbered as they are made, so that what a node stands for has lower numbers.

`Segmentation` has a step for each node that `ApplyCFGTransforms` looks at (`Q` and
`covered` are its locals), one for each round (`SimpleDone`, `StartComplex`,
`RoundDone`), one for each round of `FindMLCycles` (`FindKernels`), one for each
kernel that is revoked and one for each node the writer visits. `MIN_ANCHOR` and
`MIN_CHILD_KERNEL_EXCEPTION` are the constants of the code. Weights are fractions;
the floats of the code matter where a total is found by dividing and truncated
(`Divided`), and `Truncated` lists the cases.

## 3. Runs

| Run | Instance | Shows |
| --- | --- | --- |
| `queue_one_reader` | 2 writers, 1 reader, 3 slots, 1 retry, 2 pushes each | type, agreement of the atomics, unread slots kept, wrong only if raced, refinement; a push returns, accepted tasks are delivered |
| `queue_read_once` | 1 writer, 1 reader | violation: a pop returns a slot that is not stored yet |
| `table` | 4 keys, buckets of 2, 4 hashes, 1 to 4 buckets, 4 increments | counts, entries unique and in place, no clash while moving, termination |
| `registry_safety` | 4 threads | mutual exclusion, accounting, first edges, progress of the registrant |
| `backend_one_thread` | 1 thread, 11 calls, tasks of 2, queue of 1, ring of 7 | profile complete and exact but for tasks copied too early, on a ring that is gone round; shutdown ends |
| `backend_joined` | 2 threads x 2 calls, edge and call events, pushes that may fail, ring of 8 | profile complete and exact but for refused tasks and those copied too early |
| `memory_profile` | a kernel in a kernel, an exit missing in the file, 3 epochs, 3 accesses of any kind or 2 calls of the heap for one, 3 addresses, 2 sizes, a heap of 3 bytes | working sets disjoint and exact, epochs matched unless the program strayed, temporaries removed unless forgotten, dependencies real, last writers found if nothing is to their left |
| `memory_temporaries` | the same, 1 epoch | violation: an array that was allocated where a smaller one had been stays in the working set |
| `inlining` | 12 programs, all their runs of up to 22 blocks (19 for one of them) | returns found for their calls, functions inlined in order, copies apart, the run kept, checks of the code passed but for two kinds of programs, termination |
| `segmentation` | all runs of up to 8 blocks of a two-block loop body and of up to 7 of a three-block one, 8 longer runs | ends of edges agree, blocks once, frequencies bounded, kernels nest and are loops, borders and blocks of the kernel file, no exception, termination |
| `segmentation_blocks` | the same | violation: a kernel keeps the blocks of its second child |
| `segmentation_revoked` | one run: a loop in which a loop of three loops comes before one of loops nested deeper | violation: an edge still leads to a kernel that was revoked |

Why the bounds are enough. The ring of 3 slots (2 tasks) wraps, fills and
empties within 4 pushes, and has the states that differ: one task short of full,
full, and the slot kept free. Two writers are the writers' lock and one waiter.
The tables double twice, so that entries are moved that were already moved once.
Four threads are the main thread, one that registers, one that it beats, and one
that comes when both are under way. The event ring of `backend_one_thread` is the
shortest that one thread cannot lap, (CAPACITY + 2) * TASK_SIZE + 1: the queue's
tasks, the reader's, the thread's own, and the event that did not fit. Its 11 events go
round it, and with one slot less the property fails. The real ring has 4096 slots, and 255 tasks of 6
events and two more make 1543. In
`memory_profile` three epochs are a consumer, a producer and one between them,
three accesses one in each, or one that links two others. A call is charged (`Cost`): an
access 2 of `ACCESSES`, a `malloc` or `free` in the first epoch 1, so that there an array
can be allocated, used and freed, and a small one before it (four calls of the heap and
an access, all there is to `memory_temporaries`). Of the two exits to
block 0 the kernel file lacks one. The sizes and addresses
give intervals that are apart, adjacent, that overlap partly, and that are one in
the other, and offsets on both sides of `MIN_TUPLE_OFFSET` (1 here, 32 in the
code). In `inlining` the programs are there for a case each: loops in a shared function, a
function that calls another twice, one called at two levels, direct recursion from
two places, mutual recursion, a pointer to two functions, library code that
calls back one function, repeatedly or not, or two in any order, a terminator that names
a successor twice, two calls that meet again, two returns, recursion
with a further call in a loop, and a call so rare that its weight is truncated. 22
blocks are enough for each function to be called twice, to recurse to depth two,
and for one callback in seven calls; 19 for f and g to be called back in both orders. In `segmentation` the short runs are all
loops there are over two and three blocks, with every order of first visits; the
longer ones hold what these are too short for: a subgraph that only
`FindNewSubgraph` finds, loops of two and three loops (so that kernels have
children and are revoked; `MIN_CHILD_KERNEL_EXCEPTION` is 3 here, 5 in the code) and a loop around a
branch. A loop has to turn twice (`MIN_ANCHOR`), instead of the code's 16 times, for
the same cases to happen in runs as short as these. All frequencies are below 16, for which
`MCTruncated` has all the pairs that floats get wrong.

All the other constants only bound how long the instance runs. Deadlock is not checked where the instance stops at its bound or
the program ends.

Fairness. `WritersFairSpec` asks that a writer that can take a step inside
`push` does: the operating system schedules it, and the waits in the loop are
`usleep`s. Nothing is asked of the mutex's order. `AcceptedDelivered` also
assumes the reader to be scheduled and to call `pop` again, which `MarkovPush`
does for as long as the queue has members. In `DashHashTable` and
`ThreadRegistry` every thread inside the code is scheduled, and nothing is asked
of threads outside it. In `MarkovBackend` the reader and the exiting main thread
are. The cartographer has one thread and waits for nothing, so that it goes on until
it ends (`GoesOn`): as long as it has not, it takes another step.

## 4. What is proved

`AtomicQueueProofs`, for any sets of writers and readers, any ring of at least
two slots, any number of tries:

* `TypeCorrect`: `Spec => []TypeOK`. Types are not inductive here: that `entries`
  never passes `QUEUE_SIZE - 1` or 0 depends on what a thread saw before it
  decided. The inductive invariant `QueueInv` adds that a thread in the locked
  part of `push` (`pop`) holds `QL_writer` (`QL_reader`), and that a writer past
  the test of `full` still has room, a reader past the test of `empty` still has
  a task: the other side only makes that truer, its own side is locked out.
* `RingIsBoundedQueue`: `Spec => ImplementsQueue`. `Len(log) - taken = entries`
  is part of the invariant; the lemmas `CountIsAccept` and `CountIsDeliver` map
  the two counting steps, every other step stutters.

* `UnreadTasksKept` (`UnreadKept`), `OneReaderWrongOnlyIfRaced`
  (`WrongOnlyIfRaced`) and `PointersTellEntries` (`PointersAgree`), from the
  invariant `ContentsInv`: the n-th task that was ever counted in has the slot
  `(n - 1) % QUEUE_SIZE`, `p_read` and `p_write` are that of the next to be counted
  out and in, and the slots between them hold their tasks, word by word, but for the
  words their writers still have to store. No two tasks that are in the ring, or on
  their way into it, have the same slot, because fewer than `QUEUE_SIZE` are
  (`SlotsApart`): so no store can hit a slot that is not the writer's own.
  `OneReaderWrongOnlyIfRaced` is for one reader (`OneReader`), which is what the
  profiler has, and takes `CopyInPlace` besides: a task that was counted out and is
  not copied yet stays the last one counted out, so writers cannot come round to its
  slot before the reader is back.

Assumptions: those named in `AtomicQueue`: writers and readers are disjoint
(`ThreadsAssumption`), the constants have their types and the ring two slots at
least (`SizeAssumption`), `None` is no task and no thread (`NoneAssumption`).
The modulus of the pointers is the ring's length, as 256 is of `uint8_t`.

`DashHashTableProofs`, for any finite set of keys, any hash function, any bucket
size and any first size:

* `TableWellPlaced` (`WellPlaced`), from `PlacedInv`: each
  entry is in the bucket its hash gives for the present size, and no key has two
  entries in one (`Placed`). The bucket the reader has looked up is its key's until it
  updates it (`Pointed`).
* `MoveNeverClashes` (`NoClashWhileMoving`) and `TableLosesNothing` (`NothingLost`),
  from `RecordedInv` besides. While the reader doubles the table,
  `Moving` says that the new array has only entries that stand before the place
  where the walk through the old one is, each out of the one bucket that was split
  (`FromOld`), and that its entries (`Content`) and those still to be moved (`Unmoved`)
  are together the records of all increments. A move finds room (`MoveFindsRoom`)
  because a bucket takes its entries from a single old bucket, (h % 2s) % s = h % s
  (`LowBits`), and that one had `TUPLE_SIZE` at most.

All three are about one thread, as the module is: the reader is the only caller.

`ThreadRegistryProofs`, for any finite set of threads and any set of blocks:

* `RegistryTypeCorrect`, `AtomicsCorrect`, `RegistrationExclusive`,
  `FirstEdgeCorrect`, all from the invariant `RegistryInv`, which is `TypeOK`,
  `AtomicsCount`, `RegistrantsExclusive` and `FirstEdges`. The argument is one of
  counting: `newThread` is the number of threads in `Claimed` (lemmas `StepIn`,
  `StepOut` and `StepWithin` follow it through a step), so the thread that looks
  and finds it at most 1 is the only one there, and nobody can be past the look
  already.

Assumptions: `ThreadsAssumption` (finitely many threads, the main one among
them) and `BlockAssumption`.

`MemoryEpochsProofs`, first for tuples of any base and offset (`OffsetAssumption`:
offsets have a modulus; where a new offset is made, the theorem assumes that the
bytes it spans fit, which 2^32 does for any array below 4 GB):

* `EqualIsOverlap` and `OrderOfDisjoint`: looking a tuple up in a set finds what
  it overlaps, and on disjoint sets `MTCompare` is a strict total order. That is
  why every operation on a set has to keep it disjoint (`WorkingSetsDisjoint`).
* `MergeIsUnion`, `OverlapIsIntersection`, `ExclusionIsOutside`: merging is
  union, overlap is intersection, and exclusion is a part of the difference,
  which is all of it unless the second interval lies strictly inside the first.
* `MergeSetIsUnion`: `merge_tuple_set` keeps a set disjoint and its bytes are those
  of the set and the tuple; `RemoveSetIsOutside`: `remove_tuple_set` keeps it
  disjoint, and none of the tuple's bytes is left.

The last two are about iterations. `Iteration` proves, from the existence of least
numbers (`LeastNat`), that a recursive function over `0..N` has the values its
equation gives; `UpTo` is induction over such a range. The rounds stay in a set
(`MergeStates`), each takes an entry out, or turns one that is equal to the tuple
into parts that are not, so that as many rounds as entries are enough.

Then, for any program, kernel file, sizes and number of accesses, every invariant of
`memory_profile`:

* `SetsStayDisjoint` (`WorkingSetsDisjoint`), which is part of the type: working
  sets are `TupleSets`. The seven accesses have one form (`AccessOf`, lemma
  `Accesses`): the last epoch is replaced by one that grew by what was touched.
* `WorkingSetsKnown` (`WorkingSetsRecord`), from `RecordsInv`. It assumes
  `ShortRuns(Touchable)`: no unbroken run of touched bytes is as long as `uint32_t`
  counts, 4 GB. Where one is, the code's merged tuple is cut short.
* `KernelsAreMatched` (`KernelsMatch`), from `SidesInv`: an epoch lies on one side of
  the border of each hierarchy, unless the program crossed it meanwhile by an edge that the
  kernel file lacks (`Strays`). Nothing is assumed of the file: the cartographer does leave
  edges out (of two exits to one node it writes one, `Transforms.cpp:766-783`), and
  an epoch that strays over one is on both sides.
* `TemporariesStayOut` (`TemporariesRemoved`): of whatever an epoch allocated and freed
  no byte stays, unless its allocation overlaps an earlier one of the epoch
  (`Forgotten`). `HeapInv` follows each block from `malloc` to `free`: it is in
  `malloc_ptrs` or overlaps one that is, and once freed its base is in `free_ptrs`. Cleaning is a walk over
  the freed allocations, of which each round takes one out (`Shrinking`). That `Forgotten`
  is needed is the subject of `memory_temporaries`.
* `DependenciesAreReal` (`DependenciesReal`): along the walk back everything still
  to be explained is asked for and was written by nobody passed on the way
  (`Real`), because what a producer explains is gone (`UnexplainedIsOutside`).
* `LastWritersAreFound` (`LastWriterFound`): the converse. A set that has a tuple with
  the whole run in it and nothing to its left (`Carriers`) keeps one when a tuple
  to its right is taken out (`RemoveCarries`); so it is there when the walk comes
  to the last writer. `PlainInv` adds that no read tuple has an access pattern, since
  what is static in both is taken out whole.

`MarkovBackendProofs`, for any number of calls, any capacity of the queue and size of
a task:

* `ProfileOfOneThread` (`ProfileComplete`), for a program of one thread
  (`OneThread`) whose pushes do not time out. The theorem holds with pops that copy
  too early, and so has the exception of the property: it says nothing of the events of
  such a task and of those counted instead (`harmed`), and all of the rest. The invariant `BackendInv` says of
  each kind of event that what was counted, what the reader has in hand, what the
  queued tasks point to and what the task being filled points to is, in this
  order, all that happened (`Ordered`), and that every slot pointed to still holds
  the event it held then (`NotLapped`). This needs a ring that is longer than what
  can be under way, `LongRing`: (CAPACITY + 2) * TASK_SIZE + 1 slots, of which the
  real one, 4096, has more than the 1543 it takes. If pushes time out, tasks
  are dropped but the ring goes on, and it can be lapped.

`GraphProofs`, for any graph that is `Sound`: its fields have their types (`Shape`)
and each edge is in `edges`, in `succ` of its source and in `pred` of its sink or in
none of them, with both ends in the graph, and no second edge has the same ends
(`Agree`).

* `VirtualizeSubgraphIs`: if nodes N and edges E of it are `Replaceable` (nodes and
  edges of the graph, the edges in E from node to node of N, and those between nodes of
  N that are not in E all out of one node), the new graph is sound again,
  its nodes are the old ones outside of N and the virtual node, nothing is changed of
  the nodes and edges made before but the borders of the nodes next to N, and each of
  its edges is an old one, the sum of the edges that entered N from one node, or as
  frequent as one that left (`Derived`).
* `TrivialReplaceable`, `SelectReplaceable`, `FindNewReplaceable`, `LowLoopsAre` and
  (in `SegmentationProofs`) `CandidatesAre`: what each transform and each search finds is
  replaceable. For `FindNewSubgraph` this is an invariant of the colouring, for the
  loops one of the list of loops found before: they have no nodes in common, so that
  replacing one leaves the others replaceable (`LoopReplaced`, `ReplaceableKept`).
* `KCLTransformIs`: levelling replaces edges by new ones with the same ends that are
  not more frequent (`Levelled`), and what is sound stays so.

`SegmentationProofs`, for any set of walks (`WalksAssumption`: a walk starts and ends at
blocks it does not come back to) and any `MIN_ANCHOR`, `MIN_CHILD_KERNEL_EXCEPTION` and
`Truncated`. The inductive invariant is `SegmentationInv`, which TLC found true in all
the states of `segmentation` before it was proved. As long as the graph is transformed
it is `Whole` and its kernels are `Nested`; to the end, `KernelTree`, `Recorded` and
`Numbered`.

* `Whole`: the graph is `Sound`; virtual nodes stand for nodes made before (`Layered`,
  without which the recursions mean nothing); the blocks are `Parted` among its nodes;
  and every edge is `Bounded` by the steps of the profile between the blocks of its
  ends. The bound needs all the others: the edges from one node into N are added up, and
  the sum is bounded because they lead to different nodes, which have no block in common,
  so that no step is counted twice (`IntoBounded`). From it follow `GraphsAreWhole`,
  `EndsAgreeAlways` (`EndsAgree`), `BlocksOnceAlways` (`BlocksOnce`),
  `CrossingsKeptAlways` (`CrossingsKept`) and `NoThrowAlways` (`NoThrow`): an edge of
  the graph leads to a node of the graph, which is all the select transform looks at.
* `KernelsNestedAlways` (`KernelsNested`). What `KernelsNested` says is not inductive:
  that a new kernel shares blocks only with its descendants depends on where the
  older kernels are. `Rooted` adds that the kernels under a node are the ones found
  within it, through virtual nodes that are none, and their descendants, and that a
  kernel with a parent is within no node any more, so that it cannot get a second one.
  After `Revoke` nothing of this is true of the nodes, but no more kernels are made;
  `KernelTree` stays because revoked kernels are top-most, and because
  `reverse_cycle_transform` makes no node and no edge (`ReverseCycleKeeps`).
* `BlocksWrittenAlways` (`BlocksWritten`): whatever is revoked, every block is in the
  file, in a kernel or outside of all of them, and none that is under a kernel is listed
  outside. This needs the order in which nodes are made. `Stacked`: what was made
  between a virtual node and a node inside of it has no block in common with the latter;
  `OnTop`: nor has what was made after a node of the graph with that node. `Gathered`
  and `Held` (`Nested` is `Rooted`, `Gathered` and `Held`): every block under a kernel
  is its own or one of its descendants', and every block under a node of the graph is its
  own or one of the kernels within it and their descendants. What is left of
  this once kernels are taken back is `Recorded`: `Revoke` puts a kernel's inner nodes in
  the place of its node, which keeps the blocks under the nodes of the graph the same,
  and a kernel that is left shares no block with an older node of the graph, so that the
  blocks outside are those of no kernel (`OutsideApart`, `CoversOpen`).

`InliningProofs`, for any programs with any runs of them (`ProfiledAssumption`):

* `ReturnsFoundAlways` (`ReturnsFound`), of which the exception `CallsOthers` is a part:
  nothing is said of the return from a call made by library code that calls back another
  function afterwards (section 5). That the call edge is known is said of every call. The
  first half is about runs. `Depth` counts the
  calls less the returns between two steps, and adds up (`DepthSplit`), so that while a
  function runs nothing it called runs when the depth is 1 (`Innermost`) and something
  does when it is 2 (`NextInner`). From this, `SameFunction`: whenever the depth is that
  of just after a call, the run is in the function that was called, but for
  `CallsOthers`, since a return to
  that depth goes on after a call made at that depth (`ReturnsInside`). So the return
  that matches a call leaves a return of that function and leads to a successor of the
  block that called (`MatchIs`), and that is what `dynamicRets` looks for. The second
  half, `ReaderInv`, is that no upgrade changes which edges there are (`SameEdges`), so
  that it makes no difference when a call edge is made, and that after patching all that
  leads to a function's first block are call edges.
* `ScheduleAlwaysSound` (`ScheduleSound`). What is reached is
  characterised first: as many rounds as edges have different ends are enough, because
  each round that is not the last adds one (`ReachClosed`), and what is reached is in
  every set that edges do not lead out of (`ReachLeast`). All later arguments use these
  two. `CallGraphIs` says what the search needs of the call graph: it is finite, no
  function calls main, and main leads to all functions. The last is an induction on the
  run (`LiveIsReached`): a block that is the first of a function was entered by a call
  edge, and any other is of the function of a block before it. `SearchIs` is the
  invariant of the search. A function that is covered has all it waits for covered, and
  its entry is in the order; main is in the queue or covered. It is inductive because of
  `AllBelow`: a function waits for no member of a recursion that is not called from
  outside it, and still all that it leads to has an entry, since the members of one
  recursion have one entry (`SameCalls`). So when an entry is added, all that the
  functions it enters wait for is in the order (`ReadyIsReady`), and when the queue is
  empty main is covered, and with it everything (`SearchEnds`). That an entry is new is
  a comparison in the code for recursions; otherwise the entry's calls tell the function
  (`OwnCalls`).

Only model-checked, and why:

* All liveness: `PushReturns`, `AcceptedDelivered`, `IncrementEnds`,
  `RegistrantProceeds`, `DestroyEnds`, `Ends`. The prover does neither `ENABLED` nor
  fairness.
* `ProfileComplete` of several threads: the slots of the ring are not theirs in turn, and
  it holds only as long as the ring is never used up.
* `KernelsAreLoops` and `BordersSound` of `Segmentation`. The first is about ways through
  the profiled graph, of which the proofs have only the single steps; the second about
  which profiled edges an edge of a virtual node stands for, of which the proofs have only
  how frequent it is (`Derived`).
* `ContextsApart`, `RunKept` and `NoThrow` of `Inlining`: they are about what is reached
  along edges in a graph that grows by copies of parts of itself, and the proofs have an
  invariant of the call graph only, which stays as it is.

## 5. Findings

* A reader may be let into a slot whose task is not stored yet
  (`queue_read_once`): the profile counts an old task again, or mixes two.
* A kernel with several children keeps the blocks of all but the first among its
  own (`segmentation_blocks`), since `setDiff` is not cleared in `MLCycle::addNodes`.
* An edge may lead to a kernel that was revoked (`segmentation_revoked`). The edge
  into a kernel k that comes from another kernel w stands for the edge from w's node m to
  k, and not for m's edge into k's own node. When both are taken back, the first is put
  back (`Transforms.cpp:3072`), the walk of the writer meets k, and `SIDMap.at`
  (`IO.cpp:2948`) throws: no kernel file is written. The model ends `"failed"`.
* An array that an epoch allocated and freed may stay in its working set
  (`memory_temporaries`), against `Processing.cpp:93`. `malloc_ptrs` is a set of tuples,
  in which what overlaps is equal: the insertion at `Memory.cpp:272` does nothing if an
  earlier allocation of the epoch overlaps, freed or not. A small block freed and a larger
  one at its address are enough, and what the larger has beyond the small one stays.

One more is stated by an exception of `LastWriterFound` in `memory_profile`: of an
interval whose middle is taken out `mem_tuple_exclusion` keeps only the left part
(`MemoryTuple.hpp:306`), though `:262` calls it "equivalent to lhs - intersect(lhs,
rhs)", so that a dependency on whoever wrote the right part is lost.

Two more were found with `inlining`, whose `NoThrow` excepts exactly the programs
concerned:

* `SitesDiffer`. `removeUnreachableNodes` prunes the one graph of a function for one
  call site after the other. If two calls came back from different returns, what
  is pruned for the first is missing in the copy for the second, and the `Checks`
  after the entry throw. (A comment says that the graph is tailored to each call
  site; it would have to be a copy.)
* `WeightsOff`. `PatchFunctionEdges` finds the total of an edge by
  `freq / weight` in floats and truncates: a library call that called back once
  in seven times gets the weight 1/6. The weights at that block do not sum to 1,
  which the `Checks` of debug builds refuse.

One was found with a proof, that of `ReturnsFoundAlways`, and is the exception
`CallsOthers` of `ReturnsFound`: when a library function calls back f and then g, the
call of f does not know where it returned. The profile goes from f's return to g, and `PatchFunctionEdges`
looks only at edges to the successors of the block that called (`IO.cpp:1241`), though
its comment says that no static structure gives them (`:1239`). f seems to call g. Where no
return is known of any such call, the copy of f for it is empty, and so are those of the
sites after it, which is what `ContextsApart` leaves out (`Unreturned`). The program
`Handlers` of `inlining` has all of this.

Seen on the way, and kept as notes in `hazards` instead of a run of their own: a
second thread at a table would lose counts while it is doubled and could make an entry
twice (the profiler has one); the second of two exits of a kernel to one node is lost, so
that an epoch may cross a border unseen;
the maps of the backend are read while a thread inserts itself; a slot of the event
ring may be reused while a task still points to it as soon as there are two
threads, one is safe while no push times out; a thread's first
edge starts at the last block that launched anything, which need not be the block
that launched it; a load or store owns one byte more than it touches; what a
memcpy hands on is looked for in the wrong place; a recursion called by a recursion
counts as a part of the outer one's cycle, and a call from outside into it is in the
entries of both, so that it is inlined a second time.

## 6. Not modelled

The memory model below sequential consistency: the atomics are
`seq_cst` by default, and for the plain accesses (the slots, `markovActive`, the
maps) the models interleave whole words or whole operations. Values of
frequencies beyond the bound. `printf`s, timers, the layout of the JSON file.
`members()`, which is one atomic read.

Of the memory backend: copies of size 0, whose offset wraps; the filter on working
sets that are written first, which never applies to reads; kernels of the same
blocks, whose parents are merged.

Of the cartographer: programs with threads or `pthread_exit` (the imaginary edges
from thread ends), with exceptions (`invoke`, `resume`) or that end outside of
`main`; several library calls in one block; `findUnconventionalExits`; dead
functions in the call graph, since all functions of a program here that a call
names are in its profile if that call is; statistics and hot code;
`FindAllUniqueCycles` and `reverseTransform`, which only tests call;
`FanInFanOutTransform`, which is only reached with an empty graph;
`reverseTransform_MLCycle`, of whose result only the first node is used. `Inlining` and `Segmentation` have representations of graphs of
their own and are checked one by one: the runs of `Segmentation` are of programs
whose functions are inlined.

A second thread at a hash table, for the reason given in section 2.

The components with status `not_modelled`
in `PROJECT.json`, for the reasons given there.

## 7. Plan

Done: the queue, the tables, the registration and the event path, with proofs; the
memory backend, with proofs; the cartographer from the profile to the kernel file, in
two parts, checked and partly with proofs. What is left, in this order:

1. A proof of `BordersSound`, from an invariant of what each edge stands for; proofs of
   `RunKept` and `ContextsApart`, from what `Copied` and `CleanedUp` do to what is reached.
2. `LabelStack`: push, pop and read of kernel labels by several threads, against
   a stack.
3. `EdgeFile`: what `WriteEdgeHashTable` writes and `ReadEdgeHashTable` and
   `BuildCFG` read, word by word; a round trip as the property.
4. The graph of `Inlining` as the start of `Segmentation`: one representation of
   graphs for both, and programs with calls all the way to the kernel file.
5. Threads and their imaginary edges in `ProfileReader`, and exits that are no
   returns (`findUnconventionalExits`).
6. The files of the memory backend: kernel files with several kernels of the same
   blocks, and the graphs that `IO.cpp` derives from the dependencies.
7. The hierarchy of index variables in `Grammar`.
