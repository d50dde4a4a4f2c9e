------------------------------ MODULE ProfileReader ------------------------------
(***************************************************************************)
(* What the cartographer makes of a profile before it transforms anything  *)
(* (src/Graph/IO.cpp, getDynamicInformation). A profile knows only which   *)
(* block came after which, and how often. The bitcode knows which blocks   *)
(* branch, call and return. UpgradeEdges and PatchFunctionEdges bring the  *)
(* two together: an edge into a function becomes a call edge that knows    *)
(* the edges on which this call returned; getDynamicCallGraph joins the    *)
(* call edges by function.                                                 *)
(*                                                                         *)
(* A program is a record of                                                *)
(*    func      of each block its function; main is function 1             *)
(*    entry     of each function its first block                           *)
(*    succ      of each block the successors its terminator names          *)
(*    twice     the edges to a successor named twice, as by cases of a     *)
(*              switch (more often is left out)                            *)
(*    rets      the blocks that end in a return                            *)
(*    callee    of each block the functions its call may go to; none if it *)
(*              does not call, or calls what is not in the bitcode         *)
(*    pointer   the blocks that call through a pointer                     *)
(* The edges of a node are std::sets ordered by source and sink, so that   *)
(* an edge is the pair of its ends here, whatever object stands for it.    *)
(***************************************************************************)
EXTENDS Naturals, Sequences, FiniteSets, SequencesExt, FiniteSetsExt

CONSTANTS
    Profiled,  \* programs, each with a run of it: <<program, run>>
    Truncated  \* see ControlGraph

-----------------------------------------------------------------------------
Main == 1
Starts(p) == Range(p.entry)

(***************************************************************************)
(* The calls of a run w: step i enters a function, or returns from one.    *)
(* Library code that is called by a block may call back, more than once,   *)
(* which looks like a step from the end of a function to a head.           *)
(***************************************************************************)
Enters(p, w, i) == w[i + 1] \in Starts(p) /\ w[i] \notin p.rets
Returns(p, w, i) == w[i] \in p.rets /\ w[i + 1] \notin Starts(p)
CallsBack(p, w, i) == w[i] \in p.rets /\ w[i + 1] \in Starts(p)

Depth(p, w, i, j) ==
    Cardinality({k \in i .. j : Enters(p, w, k)}) - Cardinality({k \in i .. j : Returns(p, w, k)})

\* The function entered by step i has not returned before step j.
Running(p, w, i, j) == Enters(p, w, i) /\ \A k \in i .. j - 1 : Depth(p, w, i, k) > 0
Matches(p, w, i, j) == Running(p, w, i, j) /\ Returns(p, w, j) /\ Depth(p, w, i, j) = 0

\* A block's successors are of its own function, whose first block is none of them.
IsProgram(p) ==
    /\ Main \in DOMAIN p.entry
    /\ \A f \in DOMAIN p.entry : p.entry[f] \in DOMAIN p.func /\ p.func[p.entry[f]] = f
    /\ \A b \in DOMAIN p.func :
           p.succ[b] \subseteq {c \in DOMAIN p.func : p.func[c] = p.func[b]} \ Starts(p)

\* A run starts with main and does not call it. Where it returns, it goes on after the
\* last call that has not returned.
IsRun(p, w) ==
    /\ w \in Seq(DOMAIN p.func) /\ w # <<>> /\ w[1] = p.entry[Main]
    /\ \A i \in 1 .. Len(w) - 1 :
           /\ w[i + 1] # p.entry[Main]
           /\ w[i] \in p.rets \/ w[i + 1] \in p.succ[w[i]] \cup Starts(p)
           /\ Returns(p, w, i) =>
                  LET running == {k \in 1 .. i - 1 : Running(p, w, k, i)}
                  IN  running # {} /\ w[i + 1] \in p.succ[w[Max(running)]]

ASSUME ProfiledAssumption == \A pr \in Profiled : IsProgram(pr[1]) /\ IsRun(pr[1], pr[2])

\* The library code that step i came from calls back another function before step j.
CallsOthers(p, w, i, j) ==
    \E k \in i + 1 .. j - 1 :
        CallsBack(p, w, k) /\ Depth(p, w, i, k) = 1 /\ p.func[w[k + 1]] # p.func[w[k]]

-----------------------------------------------------------------------------
VARIABLES
    program,   \* the bitcode
    run,       \* the blocks the profiled run went through; the code sees counts only
    phase,     \* where the cartographer is
    graph,     \* the nodes and edges, see GraphOf
    calls,     \* of each call edge rets.dynamicRets, the edges it returned on
    todo,      \* blocks that call, or functions, still to be looked at
    callGraph  \* of each edge of the call graph, from caller to callee, its call edges

readerVars == <<program, run, phase, graph, calls, todo, callGraph>>

LOCAL CG == INSTANCE ControlGraph

-----------------------------------------------------------------------------
Functions == DOMAIN program.entry
FuncOf(b) == program.func[b]
EntryOf(f) == program.entry[f]

TotalFreq(g, E) == MapThenSumSet(LAMBDA e : g.freq[e], E)

Onward(E, S) == S \cup {e[2] : e \in {d \in E : d[1] \in S}}

\* The nodes reached from S along the edges E.
Reach(E, S) ==
    LET sinks == Cardinality({e[2] : e \in E})
        after[i \in 0 .. sinks] == IF i = 0 THEN S ELSE Onward(E, after[i - 1])
    IN  after[sinks]

Reversed(E) == {<<e[2], e[1]>> : e \in E}

(***************************************************************************)
(* A graph g is a record of                                                *)
(*    nodes, edges   the two sets of the class Graph                       *)
(*    pred, succ     of each node ever made the edges it holds itself      *)
(*    block          of each node the block it stands for                  *)
(*    freq, total    of each edge ever made; its weight is freq/total      *)
(*    plain          edges whose weight is 1.0 whatever is set: these are  *)
(*                   unconditional edges, all others conditional ones      *)
(* BuildCFG, with Markov order 1.                                          *)
(***************************************************************************)
GraphOf(p, w) ==
    LET taken(i) == <<w[i], w[i + 1]>>
        steps == 1 .. Len(w) - 1
        es == {taken(i) : i \in steps}
        freq == [e \in es |-> Cardinality({i \in steps : taken(i) = e})]
    IN  [nodes |-> Range(w), edges |-> es, plain |-> es, freq |-> freq, total |-> freq,
         pred |-> [b \in DOMAIN p.func |-> {e \in es : e[2] = b}],
         succ |-> [b \in DOMAIN p.func |-> {e \in es : e[1] = b}],
         block |-> [b \in DOMAIN p.func |-> b]]

\* setWeight(sum) on the conditional ones of the edges E.
Weigh(g, E, sum) ==
    [g EXCEPT !.total = [e \in DOMAIN @ |-> IF e \in E \ g.plain THEN sum ELSE @[e]]]

Init ==
    /\ \E pr \in Profiled : program = pr[1] /\ run = pr[2]
    /\ phase = "branches"
    /\ graph = GraphOf(program, run)
    /\ calls = <<>> /\ callGraph = <<>>
    /\ todo = {}

-----------------------------------------------------------------------------
\* How often the terminator of b names a block of S.
Named(b, S) ==
    Cardinality(program.succ[b] \cap S) + Cardinality({c \in S : <<b, c>> \in program.twice})

(***************************************************************************)
(* The edges that become conditional with the terminator of b: those to    *)
(* its successors, if it names two that were seen. A block that does not   *)
(* branch but has led to different places branches all the same.           *)
(***************************************************************************)
Branches(g, b) ==
    IF Named(b, program.succ[b]) > 1
    THEN {e \in g.succ[b] : e[2] \in program.succ[b] /\ Named(b, g.nodes) > 1}
    ELSE {e \in g.succ[b] : Cardinality(g.succ[b]) > 1}

\* An edge that is named twice is found twice, and its frequency added each time.
Counted(g) ==
    [g EXCEPT !.freq = [e \in DOMAIN @ |-> IF e \in program.twice THEN 2 * @[e] ELSE @[e]]]

UpgradeBranches ==
    /\ phase = "branches"
    /\ graph' = [Counted(graph) EXCEPT
           !.plain = {e \in @ : e \notin Branches(graph, e[1])},
           !.total = [e \in DOMAIN @ |->
               IF e \in Branches(graph, e[1])
               THEN TotalFreq(Counted(graph), Branches(graph, e[1])) ELSE @[e]]]
    /\ phase' = "calls"
    /\ todo' = {b \in graph.nodes : program.callee[b] # {}}
    /\ UNCHANGED <<program, run, calls, callGraph>>

\* What the profiler saw a block call: it notes the block before each entry.
blockCallers(b) ==
    {e[2] : e \in {d \in DOMAIN graph.freq : d[1] = b /\ d[2] \in Range(program.entry)}}

\* Fault: the search stops at the first return of the function.
dynamicRets_First(g, c) ==
    {e \in g.edges : /\ e[1] = Min({b \in program.rets : FuncOf(b) = FuncOf(c[2])})
                     /\ e[2] \in program.succ[c[1]]}

\* The edges on which the call c returned. The profile has no edge back to the
\* caller, only one from a return of the function to what follows the caller.
dynamicRets(g, c) ==
    {e \in g.edges : /\ e[1] \in program.rets
                     /\ FuncOf(e[1]) = FuncOf(c[2])
                     /\ e[2] \in program.succ[c[1]]}

\* The edges C become call edges, and those they return on return edges.
AsCalls(g, C) ==
    LET rets == UNION {dynamicRets(g, c) : c \in C}
    IN  [g EXCEPT !.plain = @ \ (C \cup rets),
                  !.total = [e \in DOMAIN @ |->
                                IF e \in rets THEN TotalFreq(g, g.succ[e[1]]) ELSE @[e]]]

\* Their dynamicRets, for those that are not call edges yet.
CallsWith(C) ==
    [c \in DOMAIN calls \cup C |-> IF c \in DOMAIN calls THEN calls[c] ELSE dynamicRets(graph, c)]

\* One call instruction; they come in the order of their addresses.
UpgradeCall ==
    /\ phase = "calls"
    /\ \E b \in todo :
           LET C == {e \in graph.succ[b] : e[2] \in blockCallers(b)}
               g == AsCalls(graph, C)
           IN  /\ graph' = Weigh(g, g.succ[b], TotalFreq(g, g.succ[b]))
               /\ calls' = CallsWith(C)
               /\ todo' = todo \ {b}
    /\ UNCHANGED <<program, run, phase, callGraph>>

CallsDone ==
    /\ phase = "calls" /\ todo = {}
    /\ phase' = "patch"
    /\ todo' = {f \in Functions \ {Main} : EntryOf(f) \in graph.nodes}
    /\ UNCHANGED <<program, run, graph, calls, callGraph>>

(***************************************************************************)
(* PatchFunctionEdges, of one function: whatever else leads to its first   *)
(* block is a call from code that was not profiled. The total of such an   *)
(* edge is found by dividing; the weights of its neighbours are not set    *)
(* again.                                                                  *)
(***************************************************************************)
Patch ==
    /\ phase = "patch"
    /\ \E f \in todo :
           LET C == graph.pred[EntryOf(f)] \ DOMAIN calls
               total(e) == IF e \in graph.plain THEN graph.freq[e]
                           ELSE CG!Divided(graph.freq[e], graph.total[e])
               g == [graph EXCEPT !.total = [e \in DOMAIN @ |->
                                                IF e \in C THEN total(e) ELSE @[e]]]
           IN  /\ graph' = AsCalls(g, C)
               /\ calls' = CallsWith(C)
               /\ todo' = todo \ {f}
    /\ UNCHANGED <<program, run, phase, callGraph>>

-----------------------------------------------------------------------------
\* AddImaginaryEdges: the program ended in main, where nothing follows.
Terminators(g) == {b \in g.nodes : g.block[b] = b /\ FuncOf(b) = Main /\ g.succ[b] = {}}

\* The functions an instruction of b calls, as getDynamicCallGraph finds them.
Children(b) ==
    IF b \in program.pointer THEN {FuncOf(e) : e \in blockCallers(b)} ELSE program.callee[b]

\* The edges behind the calls of h by f: those of call instructions, and what
\* else leads to h from other functions.
StaticCalls(f, h) ==
    {e \in graph.edges : FuncOf(e[1]) = f /\ e[2] = EntryOf(h) /\ h \in Children(e[1])}
OtherCalls(f, h) ==
    {e \in graph.pred[EntryOf(h)] \cap DOMAIN calls : FuncOf(e[1]) = f /\ f # h}

getDynamicCallGraph ==
    LET cs(f, h) == StaticCalls(f, h) \cup OtherCalls(f, h)
        used == {fh \in Functions \X Functions : cs(fh[1], fh[2]) # {}}
    IN  [fh \in used |-> cs(fh[1], fh[2])]

\* Recursion in the call graph E. A longer way back is found with the edge from
\* f to itself taken out.
hasDirectRecursion(E, f) == <<f, f>> \in E
hasIndirectRecursion(E, f) ==
    f \in Reach({e \in E : e # <<f, f>>}, {e[2] : e \in {d \in E : d[1] = f /\ d[2] # f}})

\* RemoveTailHeadCalls: a function that is not recursive seems to call itself
\* from its end when code that was not profiled calls it again and again.
TailHeads(cg) ==
    {e \in DOMAIN calls : /\ e[1] \in program.rets
                          /\ e[2] = EntryOf(FuncOf(e[1]))
                          /\ ~ hasDirectRecursion(DOMAIN cg, FuncOf(e[1]))
                          /\ ~ hasIndirectRecursion(DOMAIN cg, FuncOf(e[1]))}

Without(g, E) ==
    [g EXCEPT !.edges = @ \ E,
              !.pred = [n \in DOMAIN @ |-> @[n] \ E],
              !.succ = [n \in DOMAIN @ |-> @[n] \ E]]

RemoveTailHeadCalls(g, E) ==
    LET cut == Without(g, E)
    IN  FoldSet(LAMBDA n, h : Weigh(h, h.succ[n], TotalFreq(h, h.succ[n])),
                cut, {e[1] : e \in E})

\* The exceptions of AddImaginaryEdges and getDynamicCallGraph. As with all of
\* them here, nothing is said of what comes then, and NoThrow says that it does
\* not happen.
ReadThrows ==
    \/ Terminators(graph) = {}
    \/ \E f, h \in Functions : ~ StaticCalls(f, h) \subseteq DOMAIN calls

ReadCallGraph ==
    /\ phase = "patch" /\ todo = {} /\ ~ ReadThrows
    /\ callGraph' = getDynamicCallGraph
    /\ graph' = RemoveTailHeadCalls(graph, TailHeads(getDynamicCallGraph))
    /\ phase' = "callgraph"
    /\ UNCHANGED <<program, run, calls, todo>>

ReaderNext == UpgradeBranches \/ UpgradeCall \/ CallsDone \/ Patch \/ ReadCallGraph

-----------------------------------------------------------------------------
(***************************************************************************)
(* The profile does not say which call a return belongs to. Still, each    *)
(* call edge knows the edge on which the run really returned from it, for  *)
(* calls by name, through pointers and from unknown code, in recursion and *)
(* however many returns a function has. The exception is a function that   *)
(* unknown code calls back before another: the run goes from its return to *)
(* the other's first block, and PatchFunctionEdges looks only at edges to  *)
(* the successors of the block that called (IO.cpp:1241).                  *)
(***************************************************************************)
ReturnsFound ==
    phase = "callgraph" =>
        \A i, j \in 1 .. Len(run) - 1 :
            i < j /\ Matches(program, run, i, j) =>
                /\ <<run[i], run[i + 1]>> \in DOMAIN calls
                /\ \/ CallsOthers(program, run, i, j)
                   \/ <<run[j], run[j + 1]>> \in calls[<<run[i], run[i + 1]>>]
=============================================================================
