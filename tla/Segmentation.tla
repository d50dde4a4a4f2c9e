------------------------------ MODULE Segmentation ------------------------------
(***************************************************************************)
(* The cartographer from a profiled control flow graph to its kernels:     *)
(* ApplyCFGTransforms makes the graph smaller until nothing changes,       *)
(* FindMLCycles takes cycles out of it as kernels, child-most first, and   *)
(* transforms again in between; then kernels that only feed a pipeline of  *)
(* tasks are revoked, and WriteKernelFile writes what is left.             *)
(*                                                                         *)
(* The graph is the one that getDynamicInformation leaves, with its        *)
(* functions inlined: a block per node and an edge per taken edge.         *)
(***************************************************************************)
EXTENDS Transforms

CONSTANTS
    Walks,                      \* the profiled runs, as sequences of blocks
    MIN_CHILD_KERNEL_EXCEPTION  \* so many children need not have children

VARIABLES
    profile,   \* blocks, first block, and how often which edge was taken
    phase,     \* where the cartographer is
    graph,     \* the control flow graph
    Q,         \* the nodes still to be transformed
    covered,   \* coveredTrivials; the nodes already put in the queue of the writer
    kernels,   \* the NIDs of the kernels
    child,     \* of each kernel ever made, childKernels
    parent,    \* of each kernel ever made, parentKernels
    found,     \* did the last round of FindMLCycles find a kernel?
    seen,      \* seenKernels of the writer
    dom        \* of each kernel, its dominators in the kernel file

vars == <<profile, phase, graph, Q, covered, kernels, child, parent, found, seen, dom>>
hierarchy == <<kernels, child, parent>>

(***************************************************************************)
(* A profile is what a run leaves: the taken edges, each with how often it *)
(* was taken. Nothing leads back to the first block of main.               *)
(***************************************************************************)
ASSUME WalksAssumption ==
    \A w \in Walks : /\ w \in Seq(Nat \ {0}) /\ Len(w) > 1
                     /\ \A i \in 2 .. Len(w) : w[i] # w[1]
                     /\ \A i \in 1 .. Len(w) - 1 : w[i] # w[Len(w)]

ProfileOf(w) ==
    LET taken(i) == <<w[i], w[i + 1]>>
        steps == 1 .. Len(w) - 1
    IN  [blocks |-> Range(w), first |-> w[1],
         freq |-> [e \in {taken(i) : i \in steps} |->
                      Cardinality({i \in steps : taken(i) = e})]]

\* Edges, which are pairs, in the order of their ends.
EdgesInOrder(S) ==
    LET before(e) == {f \in S : f[1] < e[1] \/ (f[1] = e[1] /\ f[2] < e[2])}
    IN  [i \in 1 .. Cardinality(S) |-> CHOOSE e \in S : Cardinality(before(e)) = i - 1]

\* How often edges of E were taken.
Taken(p, E) == Cardinality(Times(E, LAMBDA e : p.freq[e]))

\* The graph of a profile. A block's successors share its weight.
GraphOf(p) ==
    LET es == EdgesInOrder(DOMAIN p.freq)
        ids(P(_)) == {i \in DOMAIN es : P(es[i])}
        n == Max(p.blocks)
    IN  [nodes |-> p.blocks,
         edges |-> DOMAIN es,
         pred |-> [b \in 1 .. n |-> ids(LAMBDA e : e[2] = b)],
         succ |-> [b \in 1 .. n |-> ids(LAMBDA e : e[1] = b)],
         end |-> [i \in DOMAIN es |->
                     [src |-> es[i][1], snk |-> es[i][2], freq |-> p.freq[es[i]],
                      total |-> Taken(p, {e \in DOMAIN p.freq : e[1] = es[i][1]}),
                      under |-> {}]],
         inner |-> [b \in 1 .. n |-> NoSubgraph],
         blocks |-> [b \in 1 .. n |-> {b}]]

Init ==
    /\ profile \in {ProfileOf(w) : w \in Walks}
    /\ graph = KCLTransform(GraphOf(profile))
    /\ phase = "simple"
    /\ Q = <<profile.first>>
    /\ covered = {}
    /\ kernels = {} /\ child = <<>> /\ parent = <<>>
    /\ found = TRUE
    /\ seen = {} /\ dom = <<>>

-----------------------------------------------------------------------------
(***************************************************************************)
(* ApplyCFGTransforms works on a queue of nodes, twice: first with the     *)
(* simple transforms only ("simple"), then with all of them ("complex").   *)
(***************************************************************************)
Transforming == phase \in {"simple", "complex"} /\ Q # <<>>

\* A node that is inside of a virtual node by now, or has been looked at.
Skip ==
    /\ Transforming
    /\ Head(Q) \notin graph.nodes \/ Head(Q) \in covered
    /\ covered' = covered \cup {Head(Q)}
    /\ Q' = Tail(Q)
    /\ UNCHANGED <<profile, phase, graph, hierarchy, found, seen, dom>>

Fresh == Transforming /\ Head(Q) \in graph.nodes \ covered

\* The first transform that finds something at the head of the queue.
Subgraph ==
    LET n == Head(Q)
        trivial == TrivialTransforms(graph, n)
        select == BranchToSelectTransforms(graph, n)
    IN  IF trivial # NoSubgraph THEN trivial
        ELSE IF select # NoSubgraph \/ phase = "simple" THEN select
        ELSE FindNewSubgraph(graph, n)

\* The program would end with an exception here: nothing is said of what comes
\* then, since NoThrow says that it does not happen.
Throws == TrivialTransforms(graph, Head(Q)) = NoSubgraph /\ BranchThrows(graph, Head(Q))

\* The virtual node takes the place of the subgraph, and of the head.
Transform ==
    /\ Fresh /\ ~ Throws
    /\ \E sub \in {Subgraph} \ {NoSubgraph} :
           \E g \in {VirtualizeSubgraph(graph, sub.nodes, sub.edges)} :
               /\ graph' = g
               /\ covered' = covered \cup sub.nodes
               /\ Q' = <<VirtualNodeOf(g)>> \o Tail(Q)
    /\ UNCHANGED <<profile, phase, hierarchy, found, seen, dom>>

\* Nothing to do here: on to the successors, in the order of their addresses.
Cover ==
    /\ Fresh /\ ~ Throws /\ Subgraph = NoSubgraph
    /\ covered' = covered \cup {Head(Q)}
    /\ \E order \in SetToSeqs(SuccNodes(graph, Head(Q)) \ (covered \cup {Head(Q)})) :
           Q' = Tail(Q) \o order
    /\ UNCHANGED <<profile, phase, graph, hierarchy, found, seen, dom>>

StartComplex ==
    /\ Q' = <<profile.first>>
    /\ covered' = {}
    /\ phase' = "complex"

SimpleDone ==
    /\ phase = "simple" /\ Q = <<>>
    /\ StartComplex
    /\ UNCHANGED <<profile, graph, hierarchy, found, seen, dom>>

\* The end of a round: loops that turn seldom, then frequencies. Only a change
\* of frequencies asks for another round. FindMLCycles goes on if it found
\* something before it transformed.
RoundDone ==
    /\ phase = "complex" /\ Q = <<>>
    /\ \E g \in LowFrequencyLoopTransform(graph) : \E level \in {KCLTransform(g)} :
           /\ graph' = level
           /\ IF level # g THEN StartComplex
              ELSE /\ phase' = IF found THEN "kernels" ELSE "revoke"
                   /\ UNCHANGED <<Q, covered>>
    /\ UNCHANGED <<profile, hierarchy, found, seen, dom>>

-----------------------------------------------------------------------------
\* Fault: virtual nodes are not opened.
KernelsIn_Flat(g, K, N) == N \cap K

\* The kernels in the nodes N, found through virtual nodes that are none.
KernelsIn(g, K, N) ==
    LET within[n \in DOMAIN g.inner] ==
            IF n \in K THEN {n} ELSE UNION {within[m] : m \in g.inner[n].nodes}
    IN  UNION {within[n] : n \in N}

(***************************************************************************)
(* A cycle can be a kernel if it has no cycle in it but the one through n, *)
(* the node it was found from, contains no candidate there is already,     *)
(* turns often enough, and can be entered and left.                        *)
(***************************************************************************)
IsCandidate(g, c, n, taken) ==
    /\ ~ FindCycles(g, c.nodes \ {n}, c.edges)
    /\ c.nodes # {n} => ~ FindCycles(g, {n}, g.succ[n])
    /\ \A d \in Range(taken) : ~ d.nodes \subseteq c.nodes
    /\ getAnchor(g, c) >= MIN_ANCHOR
    /\ CycleEntrances(g, c) # {} /\ CycleExits(g, c) # {}

EnExScore(g, c) == Cardinality(CycleEntrances(g, c)) + Cardinality(CycleExits(g, c))

\* Fault: none is left: every candidate has the least score at least.
Chosen_Strict(g, cands) ==
    LET least == Min({EnExScore(g, c) : c \in Range(cands)} \cup {Cardinality(g.edges)})
    IN  EachOf(LAMBDA taken, c : IF EnExScore(g, c) < least THEN Append(taken, c) ELSE taken,
               <<>>, cands)

\* Of the candidates with the fewest entrances and exits, those that do not
\* meet an earlier one. More likely or less, the earlier one wins.
Chosen(g, cands) ==
    LET least == Min({EnExScore(g, c) : c \in Range(cands)} \cup {Cardinality(g.edges)})
        better(taken, c) == /\ EnExScore(g, c) = least
                            /\ \A d \in Range(taken) : d.nodes \cap c.nodes = {}
    IN  EachOf(LAMBDA taken, c : IF better(taken, c) THEN Append(taken, c) ELSE taken,
               <<>>, cands)

\* One kernel k, the last node made, with the kernels inside: s holds the graph
\* and the hierarchy. Of the blocks of its children only those of the first are
\* taken out of its own.
PutKernel(s, k, inside) ==
    LET first == IF inside = {} THEN {} ELSE s.graph.blocks[Min(inside)]
        made == DOMAIN s.child \cup {k}
    IN  [graph |-> [Rebalance(s.graph, s.graph.succ[k]) EXCEPT !.blocks[k] = @ \ first],
         kernels |-> s.kernels \cup {k},
         child |-> [j \in made |-> IF j = k THEN inside ELSE s.child[j]],
         parent |-> [j \in made |-> IF j = k THEN {}
                                    ELSE IF j \in inside THEN s.parent[j] \cup {k}
                                    ELSE s.parent[j]]]

VirtualizeKernel(s, c) ==
    PutKernel([s EXCEPT !.graph = VirtualizeSubgraph(@, c.nodes, c.edges)],
              VirtualNodeOf(s.graph) + 1, KernelsIn(s.graph, s.kernels, c.nodes))

VirtualizeKernels(cycles) ==
    EachOf(VirtualizeKernel,
           [graph |-> graph, kernels |-> kernels, child |-> child, parent |-> parent],
           cycles)

\* One round of FindMLCycles. The graph is transformed again if there are
\* cycles left, even if no kernel was found.
FindKernels ==
    /\ phase = "kernels"
    /\ \E cands \in LoopsInOrder(graph, IsCandidate) :
       \E s \in {VirtualizeKernels(Chosen(graph, cands))} :
           /\ graph' = s.graph
           /\ kernels' = s.kernels /\ child' = s.child /\ parent' = s.parent
           /\ found' = (cands # <<>>)
           /\ IF FindCycles(s.graph, s.graph.nodes, s.graph.edges)
              THEN phase' = "simple" /\ Q' = <<profile.first>> /\ covered' = {}
              ELSE /\ phase' = IF cands # <<>> THEN "kernels" ELSE "revoke"
                   /\ UNCHANGED <<Q, covered>>
    /\ UNCHANGED <<profile, seen, dom>>

-----------------------------------------------------------------------------
\* The kernels to be revoked: top-most, with two children at least, which all
\* have children themselves or are many.
Revocable ==
    {k \in kernels :
        /\ parent[k] = {}
        /\ Cardinality(child[k]) > 1
        /\ \/ Cardinality(child[k]) >= MIN_CHILD_KERNEL_EXCEPTION
           \/ \A c \in child[k] : child[c] # {}}

\* A virtual edge of the revoked node k makes place for one of the edges
\* it stands for, whichever has the lowest addresses.
RestoreEntrance(g, e, old) ==
    [g EXCEPT !.edges = Insert(g, Erase(g, @, {e}), old),
              !.succ[Src(g, e)] = Insert(g, Erase(g, @, {e}), old)]

RestoreExit(g, e, old) ==
    LET all == InsertAll(g, g.edges, g.end[e].under)
    IN  [g EXCEPT !.edges = Erase(g, all, {e}),
                  !.pred[Snk(g, e)] = Insert(g, Erase(g, @, {e}), old)]

\* reverse_cycle_transform, of one kernel that is in the graph, itself or
\* inside of virtual nodes: these stay.
ReverseCycle(g, k) ==
    LET virtual(E) == {e \in E : g.end[e].under # {}}
        first(e) == CHOOSE f \in g.end[e].under : TRUE
        entered == Each(LAMBDA h, e : RestoreEntrance(h, e, first(e)), g,
                        virtual(g.pred[k]), NewestEdge(g))
        left == Each(LAMBDA h, e : RestoreExit(h, e, first(e)), entered,
                     virtual(g.succ[k]), NewestEdge(g))
    IN  [left EXCEPT !.nodes = (@ \cup g.inner[k].nodes) \ {k},
                     !.edges = InsertAll(g, @, g.inner[k].edges)]

InGraph(g, k) == k \in KernelsIn(g, kernels, g.nodes)

Revoke ==
    /\ phase = "revoke" /\ Revocable # {}
    /\ graph' = Each(LAMBDA g, k : IF InGraph(g, k) THEN ReverseCycle(g, k) ELSE g,
                     graph, Revocable, VirtualNodeOf(graph))
    /\ kernels' = kernels \ Revocable
    /\ parent' = [k \in DOMAIN parent |-> parent[k] \ Revocable]
    /\ UNCHANGED <<profile, phase, Q, covered, child, found, seen, dom>>

\* Before the first look for kernels to revoke, *kernels.begin() is read: with
\* no kernel the program may end here.
RevokeNothing ==
    /\ phase = "revoke" /\ Revocable = {}
    /\ \/ /\ phase' = "write"
          /\ Q' = <<profile.first>> /\ covered' = {profile.first}
          /\ dom' = [k \in kernels |-> {}]
       \/ /\ DOMAIN child = {}
          /\ phase' = "failed"
          /\ UNCHANGED <<Q, covered, dom>>
    /\ UNCHANGED <<profile, graph, hierarchy, found, seen>>

-----------------------------------------------------------------------------
\* Fault: only one level of virtual edges is followed.
findOriginalBlockIDs_Once(g, e) ==
    IF g.end[e].under = {} THEN {<<Src(g, e), Snk(g, e)>>}
    ELSE {<<Src(g, f), Snk(g, f)>> : f \in g.end[e].under}

\* WriteKernelFile. The blocks at both ends of the profiled edges that an
\* edge stands for.
findOriginalBlockIDs(g, e) ==
    LET ids[f \in DOMAIN g.end] ==
            IF g.end[f].under = {} THEN {<<Src(g, f), Snk(g, f)>>}
            ELSE UNION {ids[h] : h \in g.end[f].under}
    IN  ids[e]

KernelEntry(k) ==
    LET originals(E) == UNION {findOriginalBlockIDs(graph, e) : e \in E}
    IN  [blocks |-> graph.blocks[k],
         entrances |-> originals(CycleEntrances(graph, graph.inner[k])),
         exits |-> originals(CycleExits(graph, graph.inner[k])),
         children |-> child[k],
         parents |-> {p \in kernels : k \in child[p]}]

\* Fault: kernels inside of other virtual nodes are opened too.
BlocksOutside_Opens(g, N) ==
    UNION {IF k \in kernels THEN {} ELSE UNION {g.blocks[n] : n \in {k} \cup g.inner[k].nodes} :
              k \in N}

\* The blocks of the nodes that are in no kernel.
BlocksOutside(g, N) ==
    LET outside[n \in DOMAIN g.inner] ==
            IF n \in kernels THEN {}
            ELSE IF IsVirtual(g, n) THEN UNION {outside[m] : m \in g.inner[n].nodes}
            ELSE g.blocks[n]
    IN  UNION {outside[n] : n \in N}

Descendants(k) ==
    LET below[c \in DOMAIN child] == child[c] \cup UNION {below[b] : b \in child[c]}
    IN  below[k]

\* One node of the walk that gives the kernels their dominators: a kernel gets
\* those the walk has met before, its descendants get it. The walk follows the
\* nodes' own edges, so that kernels in other virtual nodes are not met.
VisitNode ==
    /\ phase = "write" /\ Q # <<>>
    /\ LET n == Head(Q)
           next == SuccNodes(graph, n) \ covered
           given == [k \in DOMAIN dom \cup ({n} \cap DOMAIN child) |->
                        (IF k \in DOMAIN dom THEN dom[k] ELSE {})
                        \cup IF k = n THEN seen
                             ELSE IF n \in DOMAIN child /\ k \in Descendants(n)
                                  THEN {n} ELSE {}]
       IN  /\ dom' = given
           /\ seen' = seen \cup ({n} \cap DOMAIN child)
           /\ covered' = covered \cup next
           /\ \E order \in SetToSeqs(next) : Q' = Tail(Q) \o order
    /\ UNCHANGED <<profile, phase, graph, hierarchy, found>>

\* Every kernel named must have got an id: SIDMap.at throws for a revoked one.
WriteKernels ==
    /\ phase = "write" /\ Q = <<>>
    /\ phase' = IF DOMAIN dom = kernels /\ UNION Range(dom) \subseteq kernels
                THEN "done" ELSE "failed"
    /\ UNCHANGED <<profile, graph, Q, covered, hierarchy, found, seen, dom>>

Ended == phase \in {"done", "failed"} /\ UNCHANGED vars

Next == Skip \/ Transform \/ Cover \/ SimpleDone \/ RoundDone \/ FindKernels \/ Revoke
        \/ RevokeNothing \/ VisitNode \/ WriteKernels \/ Ended

\* The one thread of the cartographer goes on until it ends. Written out, since
\* as long as it has not ended it can (the runs check deadlock).
GoesOn == []<>(phase \in {"done", "failed"}) \/ []<><<TRUE>>_vars

Spec == Init /\ [][Next]_vars /\ GoesOn

-----------------------------------------------------------------------------
\* The blocks a node stands for, through all its virtual nodes.
Leaves(g, n) ==
    LET leaves[m \in DOMAIN g.inner] ==
            IF IsVirtual(g, m) THEN UNION {leaves[l] : l \in g.inner[m].nodes} ELSE {m}
    IN  leaves[n]

\* As long as the graph is transformed; what Revoke leaves is not one any more.
Early == phase \in {"simple", "complex", "kernels"}

\* However often subgraphs are virtualized and frequencies are levelled, the
\* edges of the graph, the edges its nodes hold as successors and those they
\* hold as predecessors are the same, and lead from node to node of the graph.
EndsAgree ==
    Early =>
        /\ graph.edges = UNION {graph.succ[n] : n \in graph.nodes}
        /\ graph.edges = UNION {graph.pred[n] : n \in graph.nodes}
        /\ \A e \in graph.edges : {Src(graph, e), Snk(graph, e)} \subseteq graph.nodes

\* Virtualizing loses no profiled block and puts none in two nodes.
BlocksOnce ==
    Early =>
        /\ \A m, n \in graph.nodes : m # n => Leaves(graph, m) \cap Leaves(graph, n) = {}
        /\ UNION {Leaves(graph, n) : n \in graph.nodes} = profile.blocks

\* How often the profile went from a block of S to a block of T.
Crossings(S, T) == Taken(profile, {e \in DOMAIN profile.freq : e[1] \in S /\ e[2] \in T})

\* An edge of the graph never claims more than was profiled: there were as many
\* steps at least between the blocks of its ends. (There may have been more: the
\* second of two exits to one node is lost, and levelling lowers.)
CrossingsKept ==
    Early => \A e \in graph.edges :
        Freq(graph, e) <= Crossings(Leaves(graph, Src(graph, e)), Leaves(graph, Snk(graph, e)))

\* Two kernels share blocks only if one descends from the other; parents and
\* children are each other's, and a kernel has one parent: this also after some
\* of the kernels have been revoked.
KernelsNested ==
    \A j, k \in kernels :
        /\ j = k \/ j \in Descendants(k) \/ k \in Descendants(j)
           \/ Leaves(graph, j) \cap Leaves(graph, k) = {}
        /\ j \in child[k] <=> k \in parent[j]
        /\ Cardinality(parent[k]) <= 1

\* A kernel is a loop of the program that was profiled: from each of its blocks
\* taken edges lead to each other one inside of it, whatever was virtualized and
\* levelled before the cycle was found.
KernelsAreLoops ==
    \A k \in kernels : \A S \in (SUBSET Leaves(graph, k)) \ {{}, Leaves(graph, k)} :
        \E e \in DOMAIN profile.freq : e[1] \in S /\ e[2] \in Leaves(graph, k) \ S

\* The entrances and exits in the kernel file, found through virtual edges of
\* virtual edges, are profiled edges that enter and leave the kernel.
BordersSound ==
    phase = "done" => \A k \in kernels :
        /\ KernelEntry(k).entrances \subseteq
               {e \in DOMAIN profile.freq :
                   e[1] \notin Leaves(graph, k) /\ e[2] \in Leaves(graph, k)}
        /\ KernelEntry(k).exits \subseteq
               {e \in DOMAIN profile.freq :
                   e[1] \in Leaves(graph, k) /\ e[2] \notin Leaves(graph, k)}

\* Every profiled block is in the kernel file, either in kernels or outside of
\* all kernels, also after kernels have been revoked.
BlocksWritten ==
    phase = "done" =>
        /\ BlocksOutside(graph, graph.nodes) \cup UNION {KernelEntry(k).blocks : k \in kernels}
           = profile.blocks
        /\ \A k \in kernels : BlocksOutside(graph, graph.nodes) \cap Leaves(graph, k) = {}

\* No transform ends with an exception: the select transform, which looks two
\* nodes ahead, meets only nodes of the graph.
NoThrow == Fresh => ~ Throws

\* What the comments in reverse_cycle_transform say, that it gets rid of the
\* virtual edges and then of the virtual node: the walk of the writer meets no
\* revoked kernel, and gives only kernels that are written their dominators.
RevokedGone == phase = "write" => DOMAIN dom \subseteq kernels

\* What the comment on VirtualizeKernel says of the blocks of a kernel: they are
\* exclusive to it, those of its children are taken out.
BlocksExclusive ==
    phase = "done" => \A k \in kernels : \A c \in child[k] :
        graph.blocks[c] \cap graph.blocks[k] = {}

\* Transforming and looking for kernels ends: no round leaves something to do
\* for the next one for ever.
Ends == <>(phase \in {"done", "failed"})
=============================================================================
