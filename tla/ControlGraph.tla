------------------------------ MODULE ControlGraph ------------------------------
(***************************************************************************)
(* The control flow graph of a profile: its nodes and edges (src/Graph:    *)
(* Graph, GraphNode, ControlNode, VirtualNode, the edges), the rewriting   *)
(* that puts a virtual node in the place of a subgraph                     *)
(* (Transforms.cpp, VirtualizeSubgraph) and the searches of Dijkstra.cpp.  *)
(*                                                                         *)
(* A node is its NID, an edge its EID, both numbered from 1 as they are    *)
(* made. A graph g is a record of                                          *)
(*    nodes, edges    the two sets of the class Graph                      *)
(*    pred, succ      of each node ever made, the edges it holds itself    *)
(*    end             of each edge ever made: source and sink, frequency,  *)
(*                    total (its weight is freq/total) and the edges it is *)
(*                    a virtual edge of                                    *)
(*    inner           of each virtual node its subgraph; empty for a block *)
(*    blocks          of each node its basic blocks                        *)
(* The sets of the code hold pointers. That the three sets an edge is in   *)
(* agree is therefore an invariant and not a matter of representation.     *)
(* Imaginary edges, before the first and after the last node, are left     *)
(* out: getPredecessors and getSuccessors of a ControlNode leave them out. *)
(***************************************************************************)
EXTENDS Naturals, Sequences, FiniteSets, SequencesExt, FiniteSetsExt

CONSTANT Truncated  \* pairs <<freq, total>> for which dividing freq by the
                    \* weight, in floats, gives just under total

-----------------------------------------------------------------------------
Src(g, e) == g.end[e].src
Snk(g, e) == g.end[e].snk
Freq(g, e) == g.end[e].freq

Sinks(g, E) == {Snk(g, e) : e \in E}
Sources(g, E) == {Src(g, e) : e \in E}
PredNodes(g, n) == Sources(g, g.pred[n])
SuccNodes(g, n) == Sinks(g, g.succ[n])

\* Each time that an edge of E was taken.
Times(E, freq(_)) == UNION {{e} \X (1 .. freq(e)) : e \in E}
TotalFreq(g, E) == Cardinality(Times(E, LAMBDA e : Freq(g, e)))

(***************************************************************************)
(* Loops: over the numbers in S, none of which is above last, in their     *)
(* order, and over a sequence. Nodes and edges are numbers here, and sets  *)
(* of nodes are ordered by them.                                           *)
(***************************************************************************)
Each(op(_, _), start, S, last) ==
    LET after[i \in 0 .. last] ==
            IF i = 0 THEN start
            ELSE IF i \in S THEN op(after[i - 1], i)
            ELSE after[i - 1]
    IN  after[last]

EachOf(op(_, _), start, seq) ==
    Each(LAMBDA x, i : op(x, seq[i]), start, DOMAIN seq, Len(seq))

IsVirtual(g, n) == g.inner[n].nodes # {}

\* A weight above 0.9999: frequencies are far below 10000 here.
Certain(g, e) == Freq(g, e) >= g.end[e].total

(***************************************************************************)
(* Sets of edges are ordered by source and sink, so that two edges with    *)
(* the same ends are the same to find, insert and erase.                   *)
(***************************************************************************)
Has(g, E, e) == \E f \in E : Src(g, f) = Src(g, e) /\ Snk(g, f) = Snk(g, e)
Insert(g, E, e) == IF Has(g, E, e) THEN E ELSE E \cup {e}
InsertAll(g, E, D) == E \cup {e \in D : ~ Has(g, E, e)}
Erase(g, E, D) == {e \in E : ~ Has(g, D, e)}

NewestEdge(g) == Len(g.end)

\* A new edge, which is in no set yet.
MakeEdge(g, src, snk, freq, total, under) ==
    [g EXCEPT !.end = Append(@, [src |-> src, snk |-> snk, freq |-> freq,
                                 total |-> total, under |-> under])]

-----------------------------------------------------------------------------
\* The borders of a subgraph of nodes N and edges E, in the order of nodes.
Entrances(g, N, E) == {e \in UNION {g.pred[n] : n \in N} : ~ Has(g, E, e)}
Exits(g, N, E) == {e \in UNION {g.succ[n] : n \in N} : ~ Has(g, E, e)}

\* Fault: the old edges stay with the node they come from.
PutEntrance_KeepsOld(g, v, ent, into) ==
    [g EXCEPT !.succ[ent] = Insert(g, @, NewestEdge(g)),
              !.pred[v] = Insert(g, @, NewestEdge(g)),
              !.edges = Insert(g, Erase(g, @, into), NewestEdge(g))]

(***************************************************************************)
(* The edges from ent into N become one edge to v. An ent inside of N is   *)
(* v itself from now on, but holds the new edge among its own successors.  *)
(***************************************************************************)
PutEntrance(g, v, ent, into) ==
    [g EXCEPT !.succ[ent] = Insert(g, Erase(g, @, into), NewestEdge(g)),
              !.pred[v] = Insert(g, @, NewestEdge(g)),
              !.edges = Insert(g, Erase(g, @, into), NewestEdge(g))]

\* Fault: the new edge takes all that leaves its source.
MergeEntrance_TakesAll(g, v, src, ent, into) ==
    PutEntrance(MakeEdge(g, src, v, TotalFreq(g, g.succ[ent]), TotalFreq(g, g.succ[ent]), into),
                v, ent, into)

MergeEntrance(g, v, src, ent, into) ==
    PutEntrance(MakeEdge(g, src, v, TotalFreq(g, into), TotalFreq(g, g.succ[ent]), into),
                v, ent, into)

VirtualizeEntrance(g, v, N, ent) ==
    MergeEntrance(g, v, IF ent \in N THEN v ELSE ent, ent,
                  {e \in g.succ[ent] : Snk(g, e) \in N})

(***************************************************************************)
(* An exit becomes an edge of v. The total is found by dividing frequency  *)
(* by weight. Of two exits to one node the second finds its place taken in *)
(* all the sets, and its frequency is lost.                                *)
(***************************************************************************)
Divided(freq, total) == IF <<freq, total>> \in Truncated THEN total - 1 ELSE total

PutExit(g, v, ex) ==
    [g EXCEPT !.succ[v] = Insert(g, @, NewestEdge(g)),
              !.pred[Snk(g, ex)] = Insert(g, Erase(g, @, {ex}), NewestEdge(g)),
              !.edges = Insert(g, Erase(g, @, {ex}), NewestEdge(g))]

VirtualizeExit(g, v, ex) ==
    PutExit(MakeEdge(g, v, Snk(g, ex), Freq(g, ex),
                     Divided(Freq(g, ex), g.end[ex].total), {ex}),
            v, ex)

\* VN->addNodes and addEdges, for a new virtual node.
MakeVirtualNode(g, N, E) ==
    [g EXCEPT !.inner = Append(@, [nodes |-> N, edges |-> E]),
              !.pred = Append(@, {}),
              !.succ = Append(@, {}),
              !.blocks = Append(@, UNION {g.blocks[n] : n \in N})]

VirtualNodeOf(g) == Len(g.inner)

\* The steps of VirtualizeSubgraph, in which the last node made is the new
\* one. The order of the exits of one node is one of addresses in the code; it
\* makes no difference, since they have different sinks.
EnterVirtual(g, N, E) ==
    Each(LAMBDA h, ent : VirtualizeEntrance(h, VirtualNodeOf(h), N, ent),
         g, Sources(g, Entrances(g, N, E)), VirtualNodeOf(g))

ExitNode(g, N, E, h, n) ==
    Each(LAMBDA k, ex : VirtualizeExit(k, VirtualNodeOf(k), ex),
         h, {e \in Exits(g, {n}, E) : Snk(g, e) \notin N}, NewestEdge(g))

ExitVirtual(g, N, E) ==
    Each(LAMBDA h, n : ExitNode(g, N, E, h, n), g, N, VirtualNodeOf(g))

\* Fault: the nodes of the subgraph stay in the graph.
Detach_KeepsNodes(g, N, E) ==
    [g EXCEPT !.nodes = @ \cup {VirtualNodeOf(g)}, !.edges = Erase(g, @, E)]

Detach(g, N, E) ==
    [g EXCEPT !.nodes = (@ \ N) \cup {VirtualNodeOf(g)}, !.edges = Erase(g, @, E)]

VirtualizeSubgraph(g, N, E) ==
    Detach(ExitVirtual(EnterVirtual(MakeVirtualNode(g, N, E), N, E), N, E), N, E)

\* setWeight on all the edges E, which come out of one node.
Rebalance(g, E) ==
    [g EXCEPT !.end = [e \in DOMAIN @ |->
        IF e \in E THEN [@[e] EXCEPT !.total = TotalFreq(g, E)] ELSE @[e]]]

-----------------------------------------------------------------------------
\* FindCycles, on the subgraph of nodes N and edges E.
FindCycles(g, N, E) ==
    \E S \in (SUBSET N) \ {{}} :
        \A n \in S : \E e \in g.succ[n] : Has(g, E, e) /\ Snk(g, e) \in S

\* The edges that go on from path p, a sequence of edges from n, to a node of N.
Onward(g, n, p, N) ==
    LET last == IF p = <<>> THEN n ELSE Snk(g, Last(p))
    IN  {e \in g.succ[last] : Has(g, g.edges, e) /\ Snk(g, e) \in N}

Further(g, n, P, N) ==
    UNION {{Append(p, e) : e \in Onward(g, n, p, N \ Sinks(g, Range(p)))} : p \in P}

\* The simple paths from n back to n.
PathsBack(g, n) ==
    LET others == g.nodes \ {n}
        away[i \in 0 .. Cardinality(others)] ==
            IF i = 0 THEN {<<>>} ELSE Further(g, n, away[i - 1], others)
    IN  UNION {Further(g, n, away[i], {n}) : i \in 0 .. Cardinality(others)}

\* The product of the weights along a path is Hits(p) / Tries(p).
Hits(g, p) == FoldLeft(LAMBDA x, e : x * Freq(g, e), 1, p)
Tries(g, p) == FoldLeft(LAMBDA x, e : x * g.end[e].total, 1, p)
AtLeastAsLikely(g, p, q) ==
    Hits(g, p) * Tries(g, q) >= Hits(g, q) * Tries(g, p)

(***************************************************************************)
(* Dijkstras(graph, n, n): the likeliest way from n back to n, as the set  *)
(* of its nodes. The search gives one of the results here: ties fall by    *)
(* rounding and by the order of addresses. An edge from n to itself sets   *)
(* n's own distance as soon as it is met, and the ways from neighbours met *)
(* later are charged with it: these can no longer win.                     *)
(***************************************************************************)
Likeliest(g, ways, loop) ==
    {p \in ways \ loop : \A q \in ways : \/ q \notin loop /\ loop # {} /\ q[1] # p[1]
                                         \/ AtLeastAsLikely(g, p, q)}

Nearest(g, ways, loop) == {Sources(g, Range(p)) : p \in loop \cup Likeliest(g, ways, loop)}

ShortestBack(g, ways) == Nearest(g, ways, {p \in ways : Len(p) = 1})

Dijkstras(g, n) == ShortestBack(g, PathsBack(g, n))
=============================================================================
