------------------------------- MODULE Transforms -------------------------------
(***************************************************************************)
(* The transforms that Transforms.cpp makes a control flow graph smaller   *)
(* with, as operators. The first three find a subgraph, a record of nodes  *)
(* and edges, that VirtualizeSubgraph then puts a virtual node for; no     *)
(* nodes means that there is none. LowFrequencyLoopTransform and           *)
(* KCLTransform give graphs.                                               *)
(***************************************************************************)
EXTENDS ControlGraph

CONSTANT MIN_ANCHOR  \* a loop has to turn as often to be a kernel

MAX_BOTTLENECK_SIZE == 200

NoSubgraph == [nodes |-> {}, edges |-> {}]

-----------------------------------------------------------------------------
\* Fault: t may come from elsewhere too.
Chained_ManyIn(g, s, t) ==
    /\ \E e \in g.succ[s] : g.succ[s] = {e} /\ Certain(g, e) /\ Snk(g, e) = t
    /\ Cardinality(g.succ[t]) = 1
    /\ s \notin SuccNodes(g, t)
    /\ g.pred[s] # {}

\* s leads to t and nowhere else, t comes from s and from nowhere else.
Chained(g, s, t) ==
    /\ \E e \in g.succ[s] : g.succ[s] = {e} /\ Certain(g, e) /\ Snk(g, e) = t
    /\ Cardinality(g.pred[t]) = 1
    /\ Cardinality(g.succ[t]) = 1
    /\ \E e \in g.pred[t] : Certain(g, e) /\ Src(g, e) = s
    /\ s \notin SuccNodes(g, t)
    /\ g.pred[s] # {}

\* One node more for a chain with its last node, if there is one.
Link(g, chain) ==
    IF \E t \in SuccNodes(g, chain.last) : Chained(g, chain.last, t)
    THEN LET s == chain.last
             t == CHOOSE t \in SuccNodes(g, s) : Chained(g, s, t)
         IN  [last |-> t, nodes |-> chain.nodes \cup {s, t},
              edges |-> chain.edges \cup g.succ[s]]
    ELSE chain

\* A chain from s on. It ends: a ring of such nodes has no way in.
Chain(g, s) ==
    Each(LAMBDA chain, i : Link(g, chain), [last |-> s, nodes |-> {}, edges |-> {}],
         1 .. Cardinality(g.nodes), Cardinality(g.nodes))

TrivialTransforms(g, s) == [nodes |-> Chain(g, s).nodes, edges |-> Chain(g, s).edges]

(***************************************************************************)
(* A branch at n whose ways all meet at x: directly, or after one node.    *)
(* Unless all that follows the successors of n is one node, x is one of    *)
(* these successors, to which the others lead if they lead to anything. Of *)
(* two such x neither passes IsSelect, so that it does not matter which    *)
(* one the code meets first.                                               *)
(***************************************************************************)
After(g, n) == UNION {SuccNodes(g, m) : m \in SuccNodes(g, n)}

SelectEnds(g, n) ==
    IF Cardinality(After(g, n)) = 1 THEN After(g, n)
    ELSE {x \in SuccNodes(g, n) :
             /\ Cardinality(g.succ[n]) > 1
             /\ \A m \in SuccNodes(g, n) \ {x} : SuccNodes(g, m) \subseteq {x}}

\* The conditions on entrance n, the nodes mids in the middle, and exit x.
IsSelect(g, n, mids, x) ==
    /\ g.pred[n] # {} /\ g.pred[x] # {} /\ g.succ[x] # {}
    /\ PredNodes(g, n) \cap (mids \cup {x}) = {}
    /\ \A m \in mids : /\ Cardinality(g.pred[m]) = 1 /\ n \in PredNodes(g, m)
                       /\ Cardinality(g.succ[m]) = 1 /\ x \in SuccNodes(g, m)
    /\ SuccNodes(g, x) \cap mids = {}
    /\ PredNodes(g, x) \subseteq mids \cup {n}

BranchToSelectTransforms(g, n) ==
    LET mids(x) == SuccNodes(g, n) \ {x}
        found == {x \in SelectEnds(g, n) : IsSelect(g, n, mids(x), x)}
        select(x) == [nodes |-> mids(x) \cup {n, x},
                      edges |-> (UNION {g.pred[m] \cup g.succ[m] : m \in mids(x)})
                                \cup g.succ[n] \cup g.pred[x]]
    IN  IF found = {} THEN NoSubgraph ELSE select(CHOOSE x \in found : TRUE)

\* The look at the middle nodes throws if one of them is not in the graph.
BranchThrows(g, n) ==
    /\ g.pred[n] # {}
    /\ \/ ~ SuccNodes(g, n) \subseteq g.nodes
       \/ Cardinality(After(g, n)) = 1 /\ ~ After(g, n) \subseteq g.nodes

-----------------------------------------------------------------------------
(***************************************************************************)
(* FindNewSubgraph colours edges until the green ones make a subgraph: an  *)
(* edge is red if its sink is explained, yellow if its source is, blue     *)
(* while it is looked at, and green if both are. One round, from colours   *)
(* c to colours; blue is used within the round only.                       *)
(***************************************************************************)
Paint(c, E, colour) == [e \in DOMAIN c \cup E |-> IF e \in E THEN colour ELSE c[e]]
Of(c, colours) == {e \in DOMAIN c : c[e] \in colours}

ColourYellows(g, c) ==
    LET yellow == Of(c, {"yellow"})
        into(e) == g.pred[Snk(g, e)]
        blue == {e \in yellow : into(e) \subseteq Of(c, {"red", "yellow"})}
        onward == UNION {g.succ[Snk(g, e)] : e \in {f \in yellow : into(f) \subseteq yellow}}
        explained == {e \in onward : e \notin DOMAIN c \/ c[e] = "red"}
        siblings == (UNION {into(e) : e \in yellow}) \ (DOMAIN c \cup explained)
    IN  Paint(Paint(Paint(c, explained, "yellow"), siblings, "red"), blue, "blue")

ColourBlues(g, c) ==
    LET blue == Of(c, {"blue"})
        green == {e \in blue : g.pred[Snk(g, e)] \subseteq Of(c, {"blue", "green"})}
        onward == UNION {g.succ[Snk(g, e)] : e \in green}
    IN  Paint(Paint(Paint(c, green, "green"), blue \ green, "yellow"), onward, "yellow")

GreenGraph(g, green) ==
    [nodes |-> Sources(g, green) \cup Sinks(g, green), edges |-> green]

\* GreenEdgeDFS: are the green edges a subgraph with one way in, at n, and
\* one node to leave it from?
Closed(g, c, n, N, green, red) ==
    /\ Cardinality(green) >= 3
    /\ n \in N /\ g.pred[n] \cap red # {}
    /\ \A m \in N : /\ g.pred[m] \subseteq DOMAIN c
                    /\ g.pred[m] # {} /\ g.succ[m] # {}
                    /\ g.pred[m] \cap red # {} => m = n
    /\ Cardinality({m \in N : ~ g.succ[m] \subseteq green}) = 1

\* After a round: sub is what is green, last how much of it there was before.
Coloured(g, n, c, sub, last) ==
    IF Closed(g, c, n, sub.nodes, sub.edges, Of(c, {"red"}))
    THEN [colours |-> c, searching |-> FALSE,
          sub |-> IF FindCycles(g, sub.nodes, sub.edges) THEN NoSubgraph ELSE sub]
    ELSE [colours |-> c, sub |-> NoSubgraph,
          searching |-> Cardinality(sub.edges) \in last + 1 .. MAX_BOTTLENECK_SIZE - 1]

Rounded(g, n, c, last) == Coloured(g, n, c, GreenGraph(g, Of(c, {"green"})), last)

Colouring(g, n, s) ==
    IF s.searching
    THEN Rounded(g, n, ColourBlues(g, ColourYellows(g, s.colours)),
                 Cardinality(Of(s.colours, {"green"})))
    ELSE s

\* Each round but the last has more green edges than the one before, so that
\* there is at most one round more than there are edges.
FindNewSubgraph(g, n) ==
    Each(LAMBDA s, round : Colouring(g, n, s),
         [colours |-> Paint(Paint(<<>>, g.pred[n], "red"), g.succ[n], "yellow"),
          sub |-> NoSubgraph, searching |-> g.succ[n] # {}],
         1 .. Cardinality(g.edges) + 1, Cardinality(g.edges) + 1).sub

-----------------------------------------------------------------------------
\* The cycle through the nodes N with every edge among them.
CycleOf(g, N) ==
    [nodes |-> N,
     edges |-> {e \in UNION {g.pred[n] \cup g.succ[n] : n \in N} :
                   Src(g, e) \in N /\ Snk(g, e) \in N}]

CycleEntrances(g, c) == Entrances(g, c.nodes, c.edges)
CycleExits(g, c) == Exits(g, c.nodes, c.edges)
getAnchor(g, c) == Max({TotalFreq(g, g.pred[n]) : n \in c.nodes})

(***************************************************************************)
(* The likeliest cycle of each node, in the order of nodes, as long as it  *)
(* is Good(g, cycle, node, those taken before). There is one sequence for  *)
(* each outcome of the searches.                                           *)
(***************************************************************************)
LoopsInOrder(g, Good(_, _, _, _)) ==
    LET keep(taken, c, n) == IF Good(g, c, n, taken) THEN Append(taken, c) ELSE taken
        more(ways, n, cycles) ==
            IF cycles = {} THEN ways
            ELSE {keep(taken, c, n) : taken \in ways, c \in cycles}
    IN  Each(LAMBDA ways, n : more(ways, n, {CycleOf(g, N) : N \in Dijkstras(g, n)}),
             {<<>>}, g.nodes, VirtualNodeOf(g))

\* A loop with one way in and one way out that turns seldom.
IsLowLoop(g, c, n, taken) ==
    /\ Cardinality(CycleEntrances(g, c)) = 1
    /\ Cardinality(CycleExits(g, c)) = 1
    /\ getAnchor(g, c) < MIN_ANCHOR
    /\ \A d \in Range(taken) : c.nodes \cap d.nodes = {}

\* The graphs it may leave. The search is made once: the size it compares
\* with is taken after the loops have been replaced.
LowFrequencyLoopTransform(g) ==
    {EachOf(LAMBDA h, c : VirtualizeSubgraph(h, c.nodes, c.edges), g, loops) :
        loops \in LoopsInOrder(g, IsLowLoop)}

(***************************************************************************)
(* KCLTransform: where a node has one edge in and one out, the more        *)
(* frequent of the two is replaced by an edge as frequent as the other.    *)
(***************************************************************************)
Replaced(g, e, E) == Insert(g, Erase(g, E, {e}), NewestEdge(g))

PutLevel(g, e) ==
    [g EXCEPT !.succ[Src(g, e)] = Replaced(g, e, @),
              !.pred[Snk(g, e)] = Replaced(g, e, @),
              !.edges = Replaced(g, e, @)]

\* Edge e is replaced by one of frequency freq; its source shares its weight anew.
Lower(g, e, freq) ==
    PutLevel(MakeEdge(g, Src(g, e), Snk(g, e), freq, 1, {e}), e)
Shared(g, n) == Rebalance(g, g.succ[n])

LevelEdges(g, in, out) ==
    IF Freq(g, in) > Freq(g, out) THEN Shared(Lower(g, in, Freq(g, out)), Src(g, in))
    ELSE IF Freq(g, in) < Freq(g, out) THEN Shared(Lower(g, out, Freq(g, in)), Src(g, out))
    ELSE g

Level(g, n) ==
    IF Cardinality(g.pred[n]) = 1 /\ Cardinality(g.succ[n]) = 1
    THEN LevelEdges(g, CHOOSE e \in g.pred[n] : TRUE, CHOOSE e \in g.succ[n] : TRUE)
    ELSE g

KCLTransform(g) == Each(Level, g, g.nodes, VirtualNodeOf(g))
=============================================================================
