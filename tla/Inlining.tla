-------------------------------- MODULE Inlining --------------------------------
(***************************************************************************)
(* The first transform of a profile (src/Graph/Transforms.cpp,             *)
(* VirtualizeSharedFunctions). The paths of all calls of a function run    *)
(* together in its blocks. Each function with several call sites is        *)
(* therefore copied, once for each: the copy has a virtual node for each   *)
(* node of the function and of the functions below it, only the entrance   *)
(* from its own call site and only the exits on which this call returned.  *)
(* Functions come after those they call, so that a copy contains copies.   *)
(***************************************************************************)
EXTENDS ProfileReader

VARIABLES
    stack,       \* ScheduleInlineTransforms: functions waiting for others
    covered,     \* functions that wait for nothing any more
    schedule,    \* sets of edges of the call graph, to be inlined in this order
    sites,       \* call edges of the current entry still to be inlined
    funcGraph,   \* nodes and edges of the current function
    virtualized  \* the edges that have a virtual edge, EdgeToVE

inlineVars == <<stack, covered, schedule, sites, funcGraph, virtualized>>
vars == <<readerVars, inlineVars>>

-----------------------------------------------------------------------------
CallEdges == DOMAIN callGraph
Live == {f \in Functions : EntryOf(f) \in Range(run)}
Others == {e \in CallEdges : e[1] # e[2]}
Direct(f) == hasDirectRecursion(CallEdges, f)
Indirect(f) == hasIndirectRecursion(CallEdges, f)
IndirectOnes == {f \in Live : Indirect(f)}

\* The functions that are recursive together with f, and those below it that
\* are recursive with others, as far as these are called by one another.
getIndirectRecursionCycle(f) ==
    LET E == {e \in Others : e[2] \in IndirectOnes}
    IN  Reach(E, {e[2] : e \in {d \in E : d[1] = f}})

\* The calls of f from outside.
CallsOf(f) ==
    IF Indirect(f)
    THEN LET cycle == getIndirectRecursionCycle(f)
         IN  {e \in CallEdges : e[1] \notin cycle /\ e[2] \in cycle}
    ELSE {e \in CallEdges : e[2] = f /\ (Direct(f) => e[1] # f)}

\* The functions that are inlined before f is.
FindEmbeddedFunctions(f) ==
    IF Indirect(f)
    THEN LET cycle == getIndirectRecursionCycle(f)
             out == {e \in Others : e[2] \notin cycle}
         IN  Reach(out, {e[2] : e \in {d \in out : d[1] \in cycle}})
    ELSE {e[2] : e \in {d \in Others : /\ d[1] \in Reach(CallEdges, {f})
                                       /\ Indirect(d[2]) => d \in CallsOf(d[2])}}

Sites(E) == UNION {callGraph[e] : e \in E}

\* Functions with more than one call site.
Inlinable == {f \in Live : Cardinality(Sites(CallsOf(f))) > 1}

\* The functions no other calls. The search starts at the only one.
MainNodes == {f \in Live : \A e \in CallEdges : e[2] # f}

InlineInit ==
    /\ Init
    /\ stack = <<>> /\ covered = {} /\ schedule = <<>>
    /\ sites = {} /\ virtualized = {}
    /\ funcGraph = [nodes |-> {}, edges |-> {}]

StartInlining ==
    /\ phase = "callgraph"
    /\ IF Inlinable = {} THEN phase' = "done" /\ stack' = stack
       ELSE phase' = "schedule" /\ \E f \in Live : MainNodes = {f} /\ stack' = <<f>>
    /\ UNCHANGED <<program, run, graph, calls, todo, callGraph, covered, schedule, sites,
                   funcGraph, virtualized>>

-----------------------------------------------------------------------------
(***************************************************************************)
(* ScheduleInlineTransforms: a search of the call graph, depth first. The  *)
(* order of children is one of addresses and numbers.                      *)
(***************************************************************************)
\* Fault: it waits for what has been scheduled already.
Waiting_All(f) == FindEmbeddedFunctions(f)

Waiting(f) == FindEmbeddedFunctions(f) \ covered

Scheduling == phase = "schedule" /\ stack # <<>>

\* Functions that are recursive together have one entry.
Entry(f) ==
    IF f \in Inlinable /\ ~ (Indirect(f) /\ CallsOf(f) \in Range(schedule))
    THEN <<CallsOf(f)>> ELSE <<>>

\* Fault: a function is scheduled before those it calls.
Schedule_Early ==
    /\ Scheduling /\ Last(stack) \notin covered
    /\ schedule' = schedule \o Entry(Last(stack))
    /\ covered' = covered \cup {Last(stack)}
    /\ stack' = Front(stack) \o IF Waiting(Last(stack)) = {} THEN <<>>
                                ELSE SetToSeq(Waiting(Last(stack)))

\* The function at the back of the queue waits for nothing. It stays there if
\* there is nothing to inline, and is dropped the next time.
Schedule ==
    /\ Scheduling /\ Last(stack) \notin covered
    /\ Waiting(Last(stack)) = {}
    /\ schedule' = schedule \o Entry(Last(stack))
    /\ covered' = covered \cup {Last(stack)}
    /\ stack' = IF Last(stack) \in Inlinable THEN Front(stack) ELSE stack

ScheduleStep ==
    /\ Schedule
    /\ UNCHANGED <<program, run, phase, graph, calls, todo, callGraph, sites, funcGraph,
                   virtualized>>

\* One of those it waits for goes first.
Descend ==
    /\ Scheduling /\ Last(stack) \notin covered
    /\ \E f \in Waiting(Last(stack)) \ Range(stack) : stack' = Append(stack, f)
    /\ UNCHANGED <<program, run, phase, graph, calls, todo, callGraph, covered, schedule,
                   sites, funcGraph, virtualized>>

DropCovered ==
    /\ Scheduling /\ Last(stack) \in covered
    /\ stack' = Front(stack)
    /\ UNCHANGED <<program, run, phase, graph, calls, todo, callGraph, covered, schedule,
                   sites, funcGraph, virtualized>>

Scheduled ==
    /\ phase = "schedule" /\ stack = <<>>
    /\ phase' = "inline"
    /\ UNCHANGED <<program, run, graph, calls, todo, callGraph, inlineVars>>

-----------------------------------------------------------------------------
\* buildFunctionSubgraph: the blocks of f and of all functions below it that
\* call instructions name, or pointers led to.
functionNodes(f) ==
    LET called == {e \in Functions \X Functions :
                      \E b \in Range(run) : FuncOf(b) = e[1] /\ e[2] \in Children(b)}
    IN  {b \in Range(run) : FuncOf(b) \in Reach(called, {f})}

\* The call edges into the nodes N.
CallsInto(N) == (UNION {graph.pred[n] : n \in N}) \cap DOMAIN calls
CallsOutOf(N) == (UNION {graph.succ[n] : n \in N}) \cap DOMAIN calls
ReturnsOf(C) == UNION {calls[c] : c \in C}
NodesOf(c) == functionNodes(FuncOf(c[2]))

\* SimpleFunctionBFS: all calls into the function return out of it, but for the
\* calls it makes itself. What has been virtualized is no border any more.
SimpleExits(site) ==
    LET N == NodesOf(site)
        own == {e \in ReturnsOf({c \in CallsInto(N) \ {site} : c[1] \in N}) : e[2] \in N}
        \* the return edges of the calls the function makes itself
    IN  (ReturnsOf(CallsInto(N)) \ own) \ virtualized

\* DirectRecursionFunctionBFS: the calls from outside return out of it.
OuterReturns(site) ==
    ReturnsOf({c \in CallsInto(NodesOf(site)) : c[1] \notin NodesOf(site)})
DirectExits(site) == OuterReturns(site) \ virtualized

\* With the calls C those that enter or leave the functions these enter, and so on.
MoreCalls(C) ==
    LET N == UNION {NodesOf(c) : c \in C}
    IN  C \cup CallsInto(N) \cup CallsOutOf(N)

ConnectedCalls(C) ==
    LET after[i \in 0 .. Cardinality(DOMAIN calls)] ==
            IF i = 0 THEN C ELSE MoreCalls(after[i - 1])
    IN  after[Cardinality(DOMAIN calls)]

\* IndirectRecursionFunctionBFS: out of all the functions that are involved.
IndirectExits(site) ==
    LET C == ConnectedCalls({site})
    IN  {e \in ReturnsOf(C) : e[2] \notin UNION {NodesOf(c) : c \in C}}

FunctionExits(site) ==
    IF Indirect(FuncOf(site[2])) THEN IndirectExits(site)
    ELSE IF Direct(FuncOf(site[2])) THEN DirectExits(site)
    ELSE SimpleExits(site)

AllEdges == UNION {graph.succ[n] : n \in graph.nodes}

\* SubgraphBFS, up to the exits.
Searched(first, exits) == Reach(AllEdges \ exits, {first}) \cup {e[1] : e \in exits}

\* It goes on from predecessors if it did not find all exits; see NoThrow.
SearchFails(first, exits) ==
    ~ {e[1] : e \in exits} \subseteq Reach(AllEdges \ exits, {first})

SubgraphBFS(site) ==
    LET N == Searched(site[2], FunctionExits(site))
    IN  [nodes |-> N, edges |-> {e \in AllEdges : e[1] \in N /\ e[2] \in N}]

\* removeUnreachableNodes: what this call cannot have gone through, because it
\* does not lead to one of its returns. What is removed stays so for the sites
\* that follow.
Pruned(fg, site) ==
    LET N == fg.nodes \cap Reach(fg.edges, {site[2]})
                      \cap Reach(Reversed(fg.edges), {e[1] : e \in calls[site]})
    IN  [nodes |-> N, edges |-> {e \in fg.edges : e[1] \in N /\ e[2] \in N}]

-----------------------------------------------------------------------------
\* The edges a copy takes over: those between its nodes, those from the block
\* that calls, and those on which this call returned.
Inside(g, N) ==
    {e \in UNION {g.pred[n] \cup g.succ[n] : n \in N} : e[1] \in N /\ e[2] \in N}

\* Fault: the copy takes all the entrances of the function.
Entering_All(g, N, site) == {e \in UNION {g.pred[n] : n \in N} : e[1] \notin N}

Entering(g, N, site) ==
    {e \in UNION {g.pred[n] : n \in N} : e[1] \notin N /\ e[1] = site[1]}
Leaving(g, N, site) ==
    {e \in UNION {g.succ[n] : n \in N} : e[2] \notin N /\ e \in calls[site]}

\* The virtual node of n in the copy of the nodes N.
Copy(g, N, n) == Len(g.block) + Cardinality({m \in N : m <= n})
Image(g, N, e) == <<IF e[1] \in N THEN Copy(g, N, e[1]) ELSE e[1],
                    IF e[2] \in N THEN Copy(g, N, e[2]) ELSE e[2]>>

\* Fault: the edge of a node with itself is forgotten.
VirtualEdges_NoLoops(g, N, E) == {Image(g, N, e) : e \in {d \in E : d[1] # d[2]}}

VirtualEdges(g, N, E) == {Image(g, N, e) : e \in E}

\* The copy of N with the edges E; the edges that cross its border, X, are
\* under virtual edges now.
Copied(g, N, E, X) ==
    LET new == VirtualEdges(g, N, E)
        old(f) == CHOOSE e \in E : Image(g, N, e) = f
        all == 1 .. Len(g.block) + Cardinality(N)
        held(H, n) == IF n \in DOMAIN H THEN H[n] ELSE {}
        original(n) == CHOOSE m \in N : Copy(g, N, m) = n
    IN  [g EXCEPT !.nodes = @ \cup {Copy(g, N, n) : n \in N},
                  !.edges = (@ \ X) \cup new,
                  !.succ = [n \in all |->
                      (held(@, n) \ {e \in X : e[1] \notin N}) \cup {f \in new : f[1] = n}],
                  !.pred = [n \in all |->
                      (held(@, n) \ {e \in X : e[2] \notin N}) \cup {f \in new : f[2] = n}],
                  !.block = [n \in all |-> IF n \in DOMAIN @ THEN @[n] ELSE @[original(n)]],
                  !.freq = @ @@ [f \in new |-> @[old(f)]],
                  !.total = @ @@ [f \in new |-> @[old(f)]]]

\* The weights of what leaves the new nodes and the block that calls.
WeighAll(g, N) ==
    [g EXCEPT !.total = [e \in DOMAIN @ |->
        IF e[1] \in N /\ e \in g.succ[e[1]] \ g.plain THEN TotalFreq(g, g.succ[e[1]])
        ELSE @[e]]]

VirtualizeFunctionSubgraph(g, N, site) ==
    LET X == Entering(g, N, site) \cup Leaving(g, N, site)
        h == Copied(g, N, Inside(g, N) \cup X, X)
    IN  WeighAll(h, {Copy(g, N, n) : n \in N} \cup {e[1] : e \in Entering(g, N, site)})

\* The next entry of the schedule; any of its calls gives the function's graph.
NextEntry ==
    /\ phase = "inline" /\ schedule # <<>>
    /\ sites' = Sites(Head(schedule))
    /\ \E token \in Sites(Head(schedule)) : funcGraph' = SubgraphBFS(token)
    /\ schedule' = Tail(schedule)
    /\ phase' = "sites"
    /\ UNCHANGED <<program, run, graph, calls, todo, callGraph, stack, covered,
                   virtualized>>

\* A function that the program ends in cannot be inlined, unless it is main, after
\* whose last block the graph has an edge that nothing leads on.
SiteThrows == \E n \in funcGraph.nodes \ Terminators(graph) : graph.succ[n] = {}

InlineSite ==
    /\ phase = "sites" /\ ~ SiteThrows
    /\ \E site \in sites :
           \E fg \in {Pruned(funcGraph, site)} :
               /\ funcGraph' = fg
               /\ graph' = VirtualizeFunctionSubgraph(graph, fg.nodes, site)
               /\ virtualized' = virtualized \cup Inside(graph, fg.nodes)
                                 \cup Entering(graph, fg.nodes, site)
                                 \cup Leaving(graph, fg.nodes, site)
               /\ sites' = sites \ {site}
    /\ UNCHANGED <<program, run, phase, calls, todo, callGraph, stack, covered, schedule>>

\* Fault: the nodes keep the edges that are no longer in the graph.
CleanedUp_KeepsEnds(g) ==
    [g EXCEPT !.edges = @ \ virtualized,
              !.nodes = {n \in @ : g.block[n] = Main
                                   \/ (g.pred[n] \cup g.succ[n]) \ virtualized # {}}]

\* The edges that have become virtual go, and the nodes left without any.
CleanedUp(g) ==
    LET left == g.edges \ virtualized
        held(H) == [n \in DOMAIN H |-> IF n \in g.nodes THEN H[n] \cap left ELSE H[n]]
        h == [g EXCEPT !.edges = left, !.pred = held(@), !.succ = held(@)]
    IN  [h EXCEPT !.nodes = {n \in @ : \/ h.pred[n] \cup h.succ[n] # {}
                                       \/ n \in {EntryOf(Main)} \cup Terminators(h)}]

(***************************************************************************)
(* The Checks: nodes hold no edge that is not in the graph, or leads out   *)
(* of it; all nodes are reached from the first, and reach the last; and    *)
(* the weights of what leaves a node have the sum 1.                       *)
(***************************************************************************)
Consistent(g) ==
    \A n \in g.nodes : \A e \in g.pred[n] \cup g.succ[n] :
        e \in g.edges /\ {e[1], e[2]} \subseteq g.nodes

Connected(g) ==
    /\ g.nodes \subseteq Reach(UNION {g.succ[n] : n \in g.nodes}, {EntryOf(Main)})
    /\ g.nodes \subseteq Reach(Reversed(UNION {g.pred[n] : n \in g.nodes}), Terminators(g))

\* All weights here are fractions of one total, or one of it is wrong.
SumsToOne(g) ==
    \A n \in g.nodes : \A e \in g.succ[n] :
        g.total[e] = TotalFreq(g, g.succ[n])

Checks(g) == Consistent(g) /\ Connected(g) /\ SumsToOne(g)

CleanUp ==
    /\ phase = "sites" /\ sites = {}
    /\ \E g \in {CleanedUp(graph)} :
           /\ graph' = g
           /\ phase' = IF Checks(g) THEN "inline" ELSE "failed"
    /\ UNCHANGED <<program, run, calls, todo, callGraph, inlineVars>>

InlineDone ==
    /\ phase = "inline" /\ schedule = <<>>
    /\ phase' = "done"
    /\ UNCHANGED <<program, run, graph, calls, todo, callGraph, inlineVars>>

Ended == phase \in {"done", "failed"} /\ UNCHANGED vars

Next ==
    \/ ReaderNext /\ UNCHANGED inlineVars
    \/ StartInlining \/ ScheduleStep \/ Descend \/ DropCovered \/ Scheduled
    \/ NextEntry \/ InlineSite \/ CleanUp \/ InlineDone \/ Ended

\* The one thread of the cartographer goes on until it ends. Written out, since
\* as long as it has not ended it can (the runs check deadlock).
GoesOn == []<>(phase \in {"done", "failed"}) \/ []<><<TRUE>>_vars

Spec == InlineInit /\ [][Next]_vars /\ GoesOn

-----------------------------------------------------------------------------
\* Functions that are inlined and not recursive.
Shared == {f \in Inlinable : ~ Indirect(f) /\ ~ Direct(f)}
OfFunction(n) == FuncOf(graph.block[n])
Below(f) == Reach(CallEdges, {f})

\* A call of f, or of what it calls, knows no return.
Unreturned(f) ==
    \E c \in Sites({e \in CallEdges : e[2] \in Below(f)}) : calls[c] = {}

\* The entrances of the copies of f, and the nodes of the copy behind one.
EntrancesTo(f) == {e \in graph.edges : graph.block[e[2]] = EntryOf(f)}
CopyBehind(f, e) == Reach({d \in graph.edges : OfFunction(d[2]) \in Below(f)}, {e[2]})

(***************************************************************************)
(* After inlining, what goes into a function that is not recursive from    *)
(* one call comes back to this call: each entrance has a copy of its own,  *)
(* with what the function calls, and what leaves it goes on after the call *)
(* and nowhere else. (Before, every return leads back to every call.) The  *)
(* exception, found with this model: a call that knows no return (see      *)
(* ReturnsFound) has an empty copy, and so have all sites after it.        *)
(***************************************************************************)
ContextsApart ==
    phase = "done" =>
        \A f \in {h \in Shared : ~ Unreturned(h)} : \A e \in EntrancesTo(f) :
            /\ \A d \in EntrancesTo(f) \ {e} : CopyBehind(f, d) \cap CopyBehind(f, e) = {}
            /\ \A x \in graph.edges :
                   x[1] \in CopyBehind(f, e) /\ x[2] \notin CopyBehind(f, e) =>
                       graph.block[x[2]] \in program.succ[graph.block[e[1]]]

\* The nodes the run can have led to after i blocks.
RunFrom(S, b) ==
    {v \in graph.nodes : graph.block[v] = b /\ \E u \in S : <<u, v>> \in graph.edges}
RunLeadsTo == FoldLeft(RunFrom, {EntryOf(Main)}, Tail(run))

(***************************************************************************)
(* Whatever is copied, pruned and cleaned up, the run the profile is of is *)
(* still a way through the graph. (One with calls from a function's end to *)
(* its own head, which are taken out, is not.)                             *)
(***************************************************************************)
RunKept ==
    phase = "done" /\ TailHeads(callGraph) = {} => RunLeadsTo # {}

(***************************************************************************)
(* What the code checks of the schedule when it is built for debugging:    *)
(* when a function is scheduled, those to be inlined before it are; in the *)
(* end all are, once.                                                      *)
(***************************************************************************)
ScheduleSound ==
    /\ \A i \in DOMAIN schedule : \A e \in schedule[i] :
           \A f \in FindEmbeddedFunctions(e[2]) :
               phase = "schedule" /\ f \in Inlinable =>
                   \E j \in 1 .. i - 1 : schedule[j] = CallsOf(f)
    /\ phase = "schedule" /\ stack = <<>> =>
           {CallsOf(f) : f \in Inlinable} = Range(schedule) /\ IsInjective(schedule)

\* Two calls of a function that is inlined came back from different returns.
SitesDiffer ==
    \E f \in Inlinable : \E c, d \in Sites(CallsOf(f)) :
        {e[1] : e \in calls[c]} # {e[1] : e \in calls[d]}

\* A call from code that was not profiled, so rare at its block that its total,
\* found by dividing, is one too low.
WeightsOff ==
    \E c \in DOMAIN calls :
        /\ program.callee[c[1]] = {}
        /\ <<graph.freq[c], Cardinality({i \in 1 .. Len(run) - 1 : run[i] = c[1]})>>
               \in Truncated

\* What debug builds check of the profile that was read.
CallGraphChecks ==
    /\ Sites(CallEdges) \subseteq graph.edges \cap DOMAIN calls
    /\ \A f \in Functions \ {Main} : graph.pred[EntryOf(f)] \subseteq DOMAIN calls

(***************************************************************************)
(* Reading and inlining do not end with an exception, do not go astray in  *)
(* a search and do not erase from the set they walk over. There are two    *)
(* exceptions, found with this model: calls of a function that came back   *)
(* from different returns, where what is pruned for one site is missing at *)
(* the next; and weights that no longer have the sum 1 when the profile    *)
(* has been read.                                                          *)
(***************************************************************************)
NoThrow ==
    /\ phase = "failed" => SitesDiffer \/ WeightsOff
    /\ phase = "callgraph" => (Checks(graph) \/ WeightsOff) /\ CallGraphChecks
    /\ ~ (phase = "patch" /\ todo = {} /\ ReadThrows)
    /\ ~ (phase = "sites" /\ sites # {} /\ SiteThrows)
    /\ phase = "inline" /\ schedule # <<>> =>
           \A c \in Sites(Head(schedule)) :
               /\ ~ SearchFails(c[2], FunctionExits(c))
               /\ Direct(FuncOf(c[2])) /\ ~ Indirect(FuncOf(c[2])) =>
                      OuterReturns(c) \cap virtualized = {}

\* Reading, scheduling and inlining end.
Ends == <>(phase \in {"done", "failed"})
=============================================================================
