---------------------------- MODULE GraphProofs ----------------------------
(***************************************************************************)
(* Lemmas about the control-flow graph and its transforms, for every sound *)
(* graph: that the subgraphs the transforms find can be replaced by one    *)
(* node, that VirtualizeSubgraph replaces them and leaves the graph sound, *)
(* that the cycles the searches find are cycles of the graph, and that     *)
(* KCLTransform raises no frequency.  A fold of n rounds is reasoned about *)
(* through a function of its rounds, by induction up to n.                 *)
(***************************************************************************)
EXTENDS Transforms, TLAPS, FiniteSetTheorems, WellFoundedInduction

-----------------------------------------------------------------------------
(* Induction and loops over the natural numbers *)

\* A set of numbers that has a member has a least one.
LEMMA LeastNat ==
  ASSUME NEW T, T \subseteq Nat, T # {}
  PROVE  \E n \in T : \A m \in T : n <= m
  <1>1. \E n \in T : \A m \in T : ~ (<<m, n>> \in OpToRel(<, Nat))
    BY NatLessThanWellFounded, WFMin, Zenon
  <1>2. PICK n \in T : \A m \in T : ~ (<<m, n>> \in OpToRel(<, Nat))
    BY <1>1, Zenon
  <1>3. ASSUME NEW m \in T PROVE n <= m
    <2>1. ~ (<<m, n>> \in OpToRel(<, Nat))
      BY <1>2, Zenon
    <2>2. m \in Nat /\ n \in Nat
      OBVIOUS
    <2>3. ~(m < n)
      BY <2>1, <2>2 DEF OpToRel
    <2> QED BY <2>2, <2>3
  <1> QED
    BY <1>3

\* Induction up to N, with a set in place of a predicate.
LEMMA UpTo ==
  ASSUME NEW N \in Nat, NEW S, 0 \in S, \A n \in 1..N : n - 1 \in S => n \in S
  PROVE  \A n \in 0..N : n \in S
  <1>1. PICK T : T = {n \in 0..N : n \notin S}
    OBVIOUS
  <1>2. SUFFICES ASSUME T # {} PROVE FALSE
    BY <1>1
  <1>3. T \subseteq Nat
    BY <1>1
  <1>4. PICK n \in T : \A m \in T : n <= m
    BY <1>2, <1>3, LeastNat
  <1>5. n # 0 /\ n \in 1..N /\ n - 1 \in 0..N /\ ~(n <= n - 1)
    BY <1>1
  <1>6. n - 1 \in S
    BY <1>1, <1>4, <1>5
  <1> QED
    BY <1>1, <1>5, <1>6

\* A loop of N steps exists, if step n can be made from what S[n - 1] holds and
\* gives something in S[n].
Looped(g, S, x, N, f) ==
  /\ g = [n \in 0..N |-> IF n = 0 THEN x ELSE f[n][g[n - 1]]]
  /\ \A n \in 0..N : g[n] \in S[n]

\* A loop whose every round goes from one set of S to the next can be made.
LEMMA Loop ==
  ASSUME NEW N \in Nat, NEW S, NEW x \in S[0], NEW f,
         \A n \in 1..N : \A y \in S[n - 1] : f[n][y] \in S[n]
  PROVE  \E g : Looped(g, S, x, N, f)
  <1> DEFINE Walks(k, g) == Looped(g, S, x, k, f)
             T == {k \in 0..N : \E g : Walks(k, g)}
  <1>1. 0 \in T
    <2>1. PICK g : g = [n \in 0..0 |-> IF n = 0 THEN x ELSE x]
      OBVIOUS
    <2>2. Walks(0, g)
      BY <2>1 DEF Looped
    <2> HIDE DEF Walks
    <2> QED BY <2>2
  <1>2. ASSUME NEW k \in 1..N, k - 1 \in T PROVE k \in T
    <2>1. PICK g : Walks(k - 1, g)
      BY <1>2
    <2> DEFINE h == [n \in 0..k |-> IF n = k THEN f[k][g[k - 1]] ELSE g[n]]
    <2>2. k - 1 \in 0..(k - 1) /\ g[k - 1] \in S[k - 1]
      BY <2>1 DEF Looped
    <2>3. f[k][g[k - 1]] \in S[k]
      BY <2>2
    <2>4. ASSUME NEW n \in 0..k
          PROVE  /\ h[n] = IF n = 0 THEN x ELSE f[n][h[n - 1]]
                 /\ h[n] \in S[n]
      <3>1. CASE n = k
        <4>1. h[n] = f[k][g[k - 1]] /\ n # 0 /\ n - 1 \in 0..k /\ n - 1 # k
          BY <3>1
        <4> QED BY <3>1, <4>1, <2>3
      <3>2. CASE n # k
        <4>1. n \in 0..(k - 1) /\ h[n] = g[n]
          BY <3>2
        <4>2. g[n] = (IF n = 0 THEN x ELSE f[n][g[n - 1]]) /\ g[n] \in S[n]
          BY <2>1, <4>1 DEF Looped
        <4>3. n # 0 => n - 1 \in 0..k /\ n - 1 # k
          BY <3>2
        <4> QED BY <4>1, <4>2, <4>3
      <3> QED BY <3>1, <3>2
    <2>5. h = [n \in 0..k |-> IF n = 0 THEN x ELSE f[n][h[n - 1]]]
      <3>1. h = [n \in 0..k |-> h[n]]
        OBVIOUS
      <3> HIDE DEF h
      <3> QED BY <2>4, <3>1
    <2>6. Walks(k, h)
      BY <2>4, <2>5 DEF Looped
    <2> HIDE DEF h, Walks
    <2> QED BY <2>6
  <1> HIDE DEF T
  <1>3. \A n \in 0..N : n \in T
    BY <1>1, <1>2, UpTo
  <1> QED
    BY <1>3 DEF T

\* What every step of a loop keeps holds in the end.
LEMMA Stays ==
  ASSUME NEW N \in Nat, NEW S, NEW g, g[0] \in S[0],
         \A n \in 1..N : g[n - 1] \in S[n - 1] => g[n] \in S[n]
  PROVE  g[N] \in S[N]
  <1> DEFINE T == {n \in 0..N : g[n] \in S[n]}
  <1>1. 0 \in T
    OBVIOUS
  <1>2. \A n \in 1..N : n - 1 \in T => n \in T
    OBVIOUS
  <1> HIDE DEF T
  <1>3. \A n \in 0..N : n \in T
    BY <1>1, <1>2, UpTo
  <1> QED
    BY <1>3 DEF T

-----------------------------------------------------------------------------
(* Graphs *)

\* What an edge is.
EndRecords == [src : Nat, snk : Nat, freq : Nat, total : Int, under : SUBSET Nat]

\* What a node stands for.
Subgraphs == [nodes : SUBSET Nat, edges : SUBSET Nat]

\* The fields of a graph.
GraphSet == [nodes : SUBSET Nat, edges : SUBSET Nat,
             pred : Seq(SUBSET Nat), succ : Seq(SUBSET Nat), end : Seq(EndRecords),
             inner : Seq(Subgraphs), blocks : Seq(SUBSET Nat)]

\* The numbers given to nodes so far.
NodesMade(g) == 1 .. Len(g.inner)

\* The same of edges.
EdgesMade(g) == 1 .. Len(g.end)

\* The numbers of nodes and edges, and what is kept of each.
Shape(g) ==
  /\ g \in GraphSet
  /\ Len(g.pred) = Len(g.inner) /\ Len(g.succ) = Len(g.inner)
  /\ Len(g.blocks) = Len(g.inner)
  /\ g.nodes \subseteq NodesMade(g) /\ g.edges \subseteq EdgesMade(g)

\* What NodeSetCompare and EdgeSetCompare tell apart: an edge is its two ends.
SameEnds(g, e, f) == Src(g, e) = Src(g, f) /\ Snk(g, e) = Snk(g, f)

\* The three sets an edge is in agree, and no two edges have the same ends.
Agree(g) ==
  /\ \A e \in g.edges : Src(g, e) \in g.nodes /\ Snk(g, e) \in g.nodes
  /\ \A n \in g.nodes : /\ g.succ[n] = {e \in g.edges : Src(g, e) = n}
                        /\ g.pred[n] = {e \in g.edges : Snk(g, e) = n}
  /\ \A e, f \in g.edges : SameEnds(g, e, f) => e = f

\* A graph the searches and the transforms can work on.
Sound(g) == Shape(g) /\ Agree(g)

\* What VirtualizeSubgraph can replace: the edges among the nodes N that are not
\* in E come out of one node.
Replaceable(g, N, E) ==
  /\ N \subseteq g.nodes /\ N # {}
  /\ E \subseteq g.edges
  /\ \A e \in E : Src(g, e) \in N /\ Snk(g, e) \in N
  /\ \A e, f \in g.edges \ E :
         {Src(g, e), Snk(g, e), Src(g, f), Snk(g, f)} \subseteq N => Src(g, e) = Src(g, f)

\* The types of the parts of a graph.
LEMMA Fields ==
  ASSUME NEW g, Shape(g)
  PROVE  /\ Len(g.end) \in Nat /\ Len(g.inner) \in Nat
         /\ g.nodes \subseteq Nat /\ g.edges \subseteq Nat
         /\ \A e \in EdgesMade(g) : /\ g.end[e] \in EndRecords
                                    /\ Src(g, e) \in Nat /\ Snk(g, e) \in Nat
                                    /\ Freq(g, e) \in Nat /\ g.end[e].total \in Int
                                    /\ g.end[e].under \subseteq Nat
         /\ \A n \in NodesMade(g) : /\ g.pred[n] \subseteq Nat /\ g.succ[n] \subseteq Nat
                                    /\ g.inner[n] \in Subgraphs /\ g.blocks[n] \subseteq Nat
  <1>1. /\ g.end \in Seq(EndRecords) /\ g.inner \in Seq(Subgraphs) /\ g.pred \in Seq(SUBSET Nat)
        /\ g.succ \in Seq(SUBSET Nat) /\ g.blocks \in Seq(SUBSET Nat)
        /\ g.nodes \subseteq Nat /\ g.edges \subseteq Nat
    BY DEF Shape, GraphSet
  <1>2. \A e \in EdgesMade(g) : g.end[e] \in EndRecords
    BY <1>1 DEF EdgesMade
  <1>3. \A x \in EndRecords : /\ x.src \in Nat /\ x.snk \in Nat /\ x.freq \in Nat
                        /\ x.total \in Int /\ x.under \subseteq Nat
    BY DEF EndRecords
  <1>4. \A n \in NodesMade(g) : /\ g.pred[n] \in SUBSET Nat /\ g.succ[n] \in SUBSET Nat
                                /\ g.inner[n] \in Subgraphs /\ g.blocks[n] \in SUBSET Nat
    BY <1>1 DEF Shape, NodesMade
  <1>5. ASSUME NEW e \in EdgesMade(g)
        PROVE  /\ Src(g, e) \in Nat /\ Snk(g, e) \in Nat /\ Freq(g, e) \in Nat
               /\ g.end[e].total \in Int /\ g.end[e].under \subseteq Nat
    <2>1. PICK x : x = g.end[e]
      OBVIOUS
    <2>2. /\ x.src \in Nat /\ x.snk \in Nat /\ x.freq \in Nat
          /\ x.total \in Int /\ x.under \subseteq Nat
      BY <1>2, <1>3, <2>1
    <2> QED BY <2>1, <2>2 DEF Src, Snk, Freq
  <1>6. /\ g.nodes \subseteq Nat /\ g.edges \subseteq Nat
        /\ Len(g.end) \in Nat /\ Len(g.inner) \in Nat
    BY <1>1
  <1> QED
    BY <1>2, <1>4, <1>5, <1>6

\* erase takes out what it is given, when no edge of the set has its ends.
LEMMA EraseIs ==
  ASSUME NEW g, NEW A, NEW D, \A e \in A, f \in D : SameEnds(g, e, f) => e = f,
         D \subseteq A
  PROVE  Erase(g, A, D) = A \ D
  BY DEF Erase, Has, SameEnds

\* insert puts the edge in, when no edge of the set has its ends.
LEMMA InsertIs ==
  ASSUME NEW g, NEW A, NEW e, \A f \in A : ~ SameEnds(g, f, e)
  PROVE  Insert(g, A, e) = A \cup {e}
  BY DEF Insert, Has, SameEnds

\* The graph h has one edge more than g, x, which is in no set yet.
EdgeMade(g, x, src, snk, freq, h) ==
  /\ Shape(h)
  /\ h.nodes = g.nodes /\ h.edges = g.edges /\ h.pred = g.pred
  /\ h.succ = g.succ /\ h.inner = g.inner /\ h.blocks = g.blocks
  /\ NewestEdge(h) = x /\ Len(h.end) = x
  /\ \A e \in EdgesMade(g) : h.end[e] = g.end[e]
  /\ h.end[x].src = src /\ h.end[x].snk = snk /\ h.end[x].freq = freq

\* A new edge changes nothing but the ends.
LEMMA MakeEdgeIs ==
  ASSUME NEW g, Shape(g), NEW src \in Nat, NEW snk \in Nat, NEW freq \in Nat,
         NEW total \in Int, NEW under \in SUBSET Nat, NEW x, x = Len(g.end) + 1,
         NEW h, h = MakeEdge(g, src, snk, freq, total, under)
  PROVE  EdgeMade(g, x, src, snk, freq, h)
  <1> DEFINE y == [src |-> src, snk |-> snk, freq |-> freq, total |-> total, under |-> under]
  <1>1. y \in EndRecords /\ g.end \in Seq(EndRecords)
    BY DEF EndRecords, Shape, GraphSet
  <1>2. h = [g EXCEPT !.end = Append(g.end, y)]
    BY DEF MakeEdge
  <1>3. h.end = Append(g.end, y)
    BY <1>2 DEF Shape, GraphSet
  <1>4. /\ h.nodes = g.nodes /\ h.edges = g.edges /\ h.pred = g.pred
        /\ h.succ = g.succ /\ h.inner = g.inner /\ h.blocks = g.blocks
    BY <1>2 DEF Shape, GraphSet
  <1>5. y.src = src /\ y.snk = snk /\ y.freq = freq
    OBVIOUS
  <1> HIDE DEF y
  <1>6. /\ h.end \in Seq(EndRecords) /\ Len(h.end) = x /\ Len(g.end) \in Nat
        /\ h.end[x] = y
        /\ \A e \in 1 .. Len(g.end) : h.end[e] = g.end[e]
    BY <1>1, <1>3
  <1>7. h \in GraphSet
    BY <1>2, <1>3, <1>6 DEF Shape, GraphSet
  <1>8. Shape(h)
    <2>1. NodesMade(h) = NodesMade(g) /\ EdgesMade(g) \subseteq EdgesMade(h)
      BY <1>4, <1>6 DEF NodesMade, EdgesMade
    <2>2. h.nodes \subseteq NodesMade(h) /\ h.edges \subseteq EdgesMade(h)
      BY <1>4, <2>1 DEF Shape
    <2>3. /\ Len(h.pred) = Len(h.inner) /\ Len(h.succ) = Len(h.inner)
          /\ Len(h.blocks) = Len(h.inner)
      BY <1>4 DEF Shape
    <2> QED BY <1>7, <2>2, <2>3 DEF Shape
  <1> QED
    BY <1>4, <1>5, <1>6, <1>8 DEF EdgeMade, EdgesMade, NewestEdge

\* Each time that something in S happened, for f[e] times that e did.
Ticks(S, f) == UNION {{e} \X (1 .. f[e]) : e \in S}

\* Finitely many things that happened finitely often are finitely many ticks.
LEMMA TicksFinite ==
  ASSUME NEW S, IsFiniteSet(S), NEW f, \A e \in S : f[e] \in Nat
  PROVE  IsFiniteSet(Ticks(S, f))
  <1> DEFINE part(e) == {e} \X (1 .. f[e])
  <1>1. ASSUME NEW e \in S PROVE IsFiniteSet(part(e))
    <2>1. f[e] \in Int /\ 1 \in Int
      OBVIOUS
    <2>2. IsFiniteSet(1 .. f[e])
      BY <2>1, FS_Interval, Zenon
    <2>3. IsFiniteSet({e})
      BY FS_Singleton
    <2> QED BY <2>2, <2>3, FS_Product
  <1>2. IsFiniteSet({part(e) : e \in S})
    <2>1. PICK h : h = [e \in S |-> part(e)]
      OBVIOUS
    <2>2. h \in Surjection(S, {part(e) : e \in S})
      <3> HIDE DEF part
      <3> QED BY <2>1 DEF Surjection
    <2> QED BY <2>2, FS_Surjection
  <1>3. \A P \in {part(e) : e \in S} : IsFiniteSet(P)
    BY <1>1
  <1>4. IsFiniteSet(UNION {part(e) : e \in S})
    BY <1>2, <1>3, FS_UNION
  <1> QED
    BY <1>4 DEF Ticks

\* Ticks are no more than things there are, if each member of S has at least as many
\* things of its own as it has ticks.
LEMMA TicksBelow ==
  ASSUME NEW S, NEW f, \A e \in S : f[e] \in Nat,
         NEW X, \A e \in S : IsFiniteSet(X[e]) /\ f[e] <= Cardinality(X[e]),
         \A e, d \in S : e # d => X[e] \cap X[d] = {},
         NEW Y, IsFiniteSet(Y), \A e \in S : X[e] \subseteq Y
  PROVE  Cardinality(Ticks(S, f)) <= Cardinality(Y)
  <1> DEFINE n(e) == Cardinality(X[e])
  <1>1. \A e \in S : n(e) \in Nat /\ \E b : b \in Bijection(1 .. n(e), X[e])
    BY FS_CardinalityType DEF ExistsBijection
  <1>2. PICK c : c = [e \in S |-> CHOOSE b : b \in Bijection(1 .. n(e), X[e])]
    OBVIOUS
  <1>3. \A e \in S : c[e] \in Bijection(1 .. n(e), X[e])
    <2> HIDE DEF n
    <2> QED BY <1>1, <1>2
  <1>4. \A e \in S : f[e] <= n(e)
    OBVIOUS
  <1> HIDE DEF n
  <1>5. \A e \in S : \A k \in 1 .. f[e] :
            c[e][k] \in X[e] /\ \A l \in 1 .. f[e] : c[e][k] = c[e][l] => k = l
    <2> SUFFICES ASSUME NEW e \in S, NEW k \in 1 .. f[e]
                 PROVE  c[e][k] \in X[e] /\ \A l \in 1 .. f[e] : c[e][k] = c[e][l] => k = l
      OBVIOUS
    <2>1. PICK b : b = c[e]
      OBVIOUS
    <2>2. /\ b \in [1 .. n(e) -> X[e]]
          /\ \A i, j \in 1 .. n(e) : b[i] = b[j] => i = j
      BY <1>3, <2>1 DEF Bijection, Injection, IsInjective
    <2>3. 1 .. f[e] \subseteq 1 .. n(e)
      BY <1>1, <1>4
    <2> QED BY <2>1, <2>2, <2>3
  <1>6. \A t \in Ticks(S, f) : t[1] \in S /\ t[2] \in 1 .. f[t[1]] /\ t = <<t[1], t[2]>>
    BY DEF Ticks
  <1>7. PICK h : h = [t \in Ticks(S, f) |-> c[t[1]][t[2]]]
    OBVIOUS
  <1>8. h \in [Ticks(S, f) -> Y]
    <2>1. \A t \in Ticks(S, f) : c[t[1]][t[2]] \in Y
      BY <1>5, <1>6
    <2> QED BY <1>7, <2>1
  <1>9. ASSUME NEW t \in Ticks(S, f), NEW u \in Ticks(S, f), h[t] = h[u] PROVE t = u
    <2>1. c[t[1]][t[2]] = c[u[1]][u[2]]
      BY <1>7, <1>9
    <2>2. PICK e, k, d, l : e = t[1] /\ k = t[2] /\ d = u[1] /\ l = u[2]
      OBVIOUS
    <2>3. /\ e \in S /\ k \in 1 .. f[e] /\ d \in S /\ l \in 1 .. f[d]
          /\ c[e][k] = c[d][l]
      BY <1>6, <2>1, <2>2
    <2>4. c[e][k] \in X[e] /\ c[d][l] \in X[d]
      BY <1>5, <2>3
    <2>5. e = d
      BY <2>3, <2>4
    <2>6. k = l
      BY <1>5, <2>3, <2>5
    <2> QED BY <1>6, <2>2, <2>5, <2>6
  <1>10. h \in Injection(Ticks(S, f), Y)
    BY <1>8, <1>9 DEF Injection, IsInjective
  <1> QED
    BY <1>10, FS_Injection

\* A total frequency is a number: that of the ticks of the edges.
LEMMA TotalFreqIs ==
  ASSUME NEW g, Shape(g), NEW E, E \subseteq EdgesMade(g)
  PROVE  /\ IsFiniteSet(E) /\ TotalFreq(g, E) \in Nat
         /\ TotalFreq(g, E) = Cardinality(Ticks(E, [e \in E |-> Freq(g, e)]))
  <1>1. IsFiniteSet(EdgesMade(g))
    <2>1. Len(g.end) \in Int /\ 1 \in Int
      BY DEF Shape, GraphSet
    <2> QED BY <2>1, FS_Interval, Zenon DEF EdgesMade
  <1>2. IsFiniteSet(E)
    BY <1>1, FS_Subset
  <1>3. PICK f : f = [e \in E |-> Freq(g, e)]
    OBVIOUS
  <1>4. \A e \in E : f[e] \in Nat /\ f[e] = Freq(g, e)
    BY <1>3, Fields
  <1>5. IsFiniteSet(Ticks(E, f))
    BY <1>2, <1>4, TicksFinite
  <1>6. Times(E, LAMBDA e : Freq(g, e)) = Ticks(E, f)
    BY <1>4 DEF Times, Ticks
  <1>7. TotalFreq(g, E) = Cardinality(Ticks(E, f))
    BY <1>6 DEF TotalFreq
  <1> QED
    BY <1>2, <1>3, <1>5, <1>7, FS_CardinalityType

\* A total depends on the ends of its edges only.
LEMMA TotalFreqSame ==
  ASSUME NEW g, Shape(g), NEW h, Shape(h), NEW E, E \subseteq EdgesMade(g),
         E \subseteq EdgesMade(h), \A e \in E : h.end[e] = g.end[e]
  PROVE  TotalFreq(h, E) = TotalFreq(g, E)
  <1>1. PICK f : f = [e \in E |-> Freq(g, e)]
    OBVIOUS
  <1>2. f = [e \in E |-> Freq(h, e)]
    BY <1>1 DEF Freq
  <1>3. TotalFreq(g, E) = Cardinality(Ticks(E, f))
    BY <1>1, TotalFreqIs
  <1>4. TotalFreq(h, E) = Cardinality(Ticks(E, f))
    BY <1>2, TotalFreqIs
  <1> QED
    BY <1>3, <1>4

\* A function over 1..n is a sequence.
LEMMA FunctionIsSeq ==
  ASSUME NEW T, NEW n \in Nat, NEW f, f = [i \in 1 .. n |-> f[i]], \A i \in 1 .. n : f[i] \in T
  PROVE  f \in Seq(T) /\ Len(f) = n
  <1>1. f \in [1 .. n -> T] /\ DOMAIN f = 1 .. n
    OBVIOUS
  <1>2. f \in Seq(T)
    BY <1>1
  <1> QED
    BY <1>1, <1>2

\* A sequence with one member replaced.
LEMMA PutIn ==
  ASSUME NEW T, NEW s \in Seq(T), NEW n \in 1 .. Len(s), NEW x \in T,
         NEW r, r = [s EXCEPT ![n] = x]
  PROVE  /\ r \in Seq(T) /\ Len(r) = Len(s)
         /\ r[n] = x /\ \A m \in 1 .. Len(s) : m # n => r[m] = s[m]
  <1>1. r \in [1 .. Len(s) -> T] /\ Len(s) \in Nat /\ DOMAIN r = 1 .. Len(s)
    OBVIOUS
  <1>2. r \in Seq(T)
    BY <1>1
  <1>3. Len(r) = Len(s)
    BY <1>1, <1>2
  <1> QED
    BY <1>2, <1>3

\* What one node holds as successors, one as predecessors, and the graph's edges.
Edged(k, n, v, A, C, D) == [k EXCEPT !.succ[n] = A, !.pred[v] = C, !.edges = D]

\* What such a graph keeps.
IsEdged(k, n, v, A, C, D, r) ==
  /\ Shape(r)
  /\ r.nodes = k.nodes /\ r.end = k.end /\ r.inner = k.inner /\ r.blocks = k.blocks
  /\ r.edges = D
  /\ r.succ[n] = A /\ \A m \in NodesMade(k) : m # n => r.succ[m] = k.succ[m]
  /\ r.pred[v] = C /\ \A m \in NodesMade(k) : m # v => r.pred[m] = k.pred[m]

\* Those three assignments keep the shape of the graph.
LEMMA PutEdges ==
  ASSUME NEW k, Shape(k), NEW n \in NodesMade(k), NEW v \in NodesMade(k),
         NEW A, A \subseteq EdgesMade(k), NEW C, C \subseteq EdgesMade(k),
         NEW D, D \subseteq EdgesMade(k)
  PROVE  IsEdged(k, n, v, A, C, D, Edged(k, n, v, A, C, D))
  <1> DEFINE r == Edged(k, n, v, A, C, D)
  <1>1. PICK s, p : s = [k.succ EXCEPT ![n] = A] /\ p = [k.pred EXCEPT ![v] = C]
    OBVIOUS
  <1>2. r = [k EXCEPT !.succ = s, !.pred = p, !.edges = D]
    BY <1>1 DEF Edged
  <1>3. A \in SUBSET Nat /\ C \in SUBSET Nat /\ D \in SUBSET Nat
    BY DEF EdgesMade
  <1>4. /\ k.succ \in Seq(SUBSET Nat) /\ k.pred \in Seq(SUBSET Nat)
        /\ n \in 1 .. Len(k.succ) /\ v \in 1 .. Len(k.pred)
        /\ NodesMade(k) = 1 .. Len(k.succ) /\ NodesMade(k) = 1 .. Len(k.pred)
    BY DEF Shape, GraphSet, NodesMade
  <1>5. /\ s \in Seq(SUBSET Nat) /\ Len(s) = Len(k.succ)
        /\ s[n] = A /\ \A m \in NodesMade(k) : m # n => s[m] = k.succ[m]
    BY <1>1, <1>3, <1>4, PutIn
  <1>6. /\ p \in Seq(SUBSET Nat) /\ Len(p) = Len(k.pred)
        /\ p[v] = C /\ \A m \in NodesMade(k) : m # v => p[m] = k.pred[m]
    BY <1>1, <1>3, <1>4, PutIn
  <1>7. k \in GraphSet
    BY DEF Shape
  <1> HIDE DEF r
  <1>8. /\ r.nodes = k.nodes /\ r.end = k.end /\ r.inner = k.inner /\ r.blocks = k.blocks
        /\ r.edges = D /\ r.succ = s /\ r.pred = p
    BY <1>2, <1>7 DEF GraphSet
  <1>9. r \in GraphSet
    BY <1>2, <1>3, <1>5, <1>6, <1>7 DEF GraphSet
  <1>10. Shape(r)
    BY <1>5, <1>6, <1>8, <1>9 DEF Shape, NodesMade, EdgesMade
  <1>11. IsEdged(k, n, v, A, C, D, r)
    BY <1>5, <1>6, <1>8, <1>10 DEF IsEdged
  <1> QED
    BY <1>11 DEF r

-----------------------------------------------------------------------------
(* VirtualizeSubgraph: the new node *)

\* What no step changes.
Kept(b, h) ==
  /\ Shape(h)
  /\ h.nodes = b.nodes /\ h.inner = b.inner /\ h.blocks = b.blocks
  /\ Len(b.end) <= Len(h.end)
  /\ \A e \in EdgesMade(b) : h.end[e] = b.end[e]

\* A sound graph with a node v that has been made and is in nothing yet.
Readied(b, v) ==
  /\ Sound(b)
  /\ v = Len(b.inner) /\ v \in NodesMade(b) \ b.nodes
  /\ b.pred[v] = {} /\ b.succ[v] = {}

\* The new node is behind the others, holds N and E, and is in nothing yet.
LEMMA MakeVirtualNodeIs ==
  ASSUME NEW g, Sound(g), NEW N, NEW E, N \subseteq g.nodes, E \subseteq g.edges,
         NEW b, b = MakeVirtualNode(g, N, E)
  PROVE  /\ Readied(b, Len(g.inner) + 1)
         /\ b.nodes = g.nodes /\ b.edges = g.edges /\ b.end = g.end
         /\ Len(b.inner) = Len(g.inner) + 1
         /\ b.inner[Len(g.inner) + 1] = [nodes |-> N, edges |-> E]
         /\ b.blocks[Len(g.inner) + 1] = UNION {g.blocks[n] : n \in N}
         /\ \A n \in NodesMade(g) : /\ b.inner[n] = g.inner[n] /\ b.blocks[n] = g.blocks[n]
                                    /\ b.pred[n] = g.pred[n] /\ b.succ[n] = g.succ[n]
  <1>1. /\ Shape(g) /\ Len(g.inner) \in Nat /\ N \in SUBSET Nat /\ E \in SUBSET Nat
        /\ N \subseteq NodesMade(g)
    BY Fields DEF Sound, Shape
  <1>2. PICK p, q, r, t : /\ p = Append(g.inner, [nodes |-> N, edges |-> E])
                          /\ q = Append(g.pred, {}) /\ r = Append(g.succ, {})
                          /\ t = Append(g.blocks, UNION {g.blocks[n] : n \in N})
    OBVIOUS
  <1>3. b = [g EXCEPT !.inner = p, !.pred = q, !.succ = r, !.blocks = t]
    BY <1>2 DEF MakeVirtualNode
  <1>4. /\ b.nodes = g.nodes /\ b.edges = g.edges /\ b.end = g.end
        /\ b.inner = p /\ b.pred = q /\ b.succ = r /\ b.blocks = t
    BY <1>1, <1>3 DEF Shape, GraphSet
  <1>5. p \in Seq(Subgraphs) /\ Len(p) = Len(g.inner) + 1
        /\ p[Len(g.inner) + 1] = [nodes |-> N, edges |-> E]
        /\ \A n \in 1 .. Len(g.inner) : p[n] = g.inner[n]
    BY <1>1, <1>2 DEF Shape, GraphSet, Subgraphs
  <1>6. /\ q \in Seq(SUBSET Nat) /\ Len(q) = Len(g.inner) + 1 /\ q[Len(g.inner) + 1] = {}
        /\ \A n \in 1 .. Len(g.inner) : q[n] = g.pred[n]
    BY <1>1, <1>2 DEF Shape, GraphSet
  <1>7. /\ r \in Seq(SUBSET Nat) /\ Len(r) = Len(g.inner) + 1 /\ r[Len(g.inner) + 1] = {}
        /\ \A n \in 1 .. Len(g.inner) : r[n] = g.succ[n]
    BY <1>1, <1>2 DEF Shape, GraphSet
  <1>8. UNION {g.blocks[n] : n \in N} \in SUBSET Nat
    BY <1>1, Fields
  <1>9. /\ t \in Seq(SUBSET Nat) /\ Len(t) = Len(g.inner) + 1
        /\ t[Len(g.inner) + 1] = UNION {g.blocks[n] : n \in N}
        /\ \A n \in 1 .. Len(g.inner) : t[n] = g.blocks[n]
    BY <1>1, <1>2, <1>8 DEF Shape, GraphSet
  <1>10. b \in GraphSet
    <2>1. /\ g.nodes \in SUBSET Nat /\ g.edges \in SUBSET Nat /\ g.end \in Seq(EndRecords)
          /\ b = [nodes |-> b.nodes, edges |-> b.edges, pred |-> b.pred, succ |-> b.succ,
                  end |-> b.end, inner |-> b.inner, blocks |-> b.blocks]
      BY <1>1, <1>3 DEF Shape, GraphSet
    <2>2. /\ b.nodes \in SUBSET Nat /\ b.edges \in SUBSET Nat
          /\ b.pred \in Seq(SUBSET Nat) /\ b.succ \in Seq(SUBSET Nat)
          /\ b.end \in Seq(EndRecords) /\ b.inner \in Seq(Subgraphs)
          /\ b.blocks \in Seq(SUBSET Nat)
      BY <1>4, <1>5, <1>6, <1>7, <1>9, <2>1
    <2> QED BY <2>1, <2>2 DEF GraphSet
  <1>11. Shape(b)
    BY <1>1, <1>4, <1>5, <1>6, <1>7, <1>9, <1>10 DEF Shape, NodesMade, EdgesMade
  <1>12. Agree(b)
    <2>1. \A n \in g.nodes : b.pred[n] = g.pred[n] /\ b.succ[n] = g.succ[n]
      BY <1>1, <1>4, <1>6, <1>7 DEF Shape, NodesMade
    <2>2. \A e : Src(b, e) = Src(g, e) /\ Snk(b, e) = Snk(g, e)
      BY <1>4 DEF Src, Snk
    <2>3. Agree(g)
      BY DEF Sound
    <2> QED BY <1>4, <2>1, <2>2, <2>3 DEF Agree, SameEnds
  <1>13. Len(g.inner) + 1 \in NodesMade(b) \ b.nodes
    BY <1>1, <1>4, <1>5 DEF Shape, NodesMade
  <1> QED
    BY <1>4, <1>5, <1>6, <1>7, <1>9, <1>11, <1>12, <1>13 DEF Readied, Sound, NodesMade

-----------------------------------------------------------------------------
(* VirtualizeSubgraph: the entrances *)

\* The end outside of the node v that replaces N: v itself for a node of N.
Outer(v, N, n) == IF n \in N THEN v ELSE n

\* The edges from a node into N.
Into(b, n, N) == {e \in b.succ[n] : Snk(b, e) \in N}

\* The edges from the nodes D into N have become edges to v, one for each node,
\* as frequent as all of them.
Entered(b, v, N, D, h) ==
  /\ Kept(b, h)
  /\ \A n \in NodesMade(b) \ {v} : h.pred[n] = b.pred[n]
  /\ h.succ[v] = {}
  /\ \A n \in NodesMade(b) \ (D \cup {v}) : h.succ[n] = b.succ[n]
  /\ \A n \in D : \E x \in h.pred[v] :
        /\ Src(h, x) = Outer(v, N, n)
        /\ h.succ[n] = {e \in b.succ[n] : Snk(b, e) \notin N} \cup {x}
  /\ \A x \in h.pred[v] : /\ x \in EdgesMade(h) \ EdgesMade(b) /\ Snk(h, x) = v
                          /\ \E n \in D : /\ Src(h, x) = Outer(v, N, n)
                                         /\ Freq(h, x) = TotalFreq(b, Into(b, n, N))
  /\ \A x, y \in h.pred[v] : Src(h, x) = Src(h, y) => x = y
  /\ h.edges = {e \in b.edges : ~ (Src(b, e) \in D /\ Snk(b, e) \in N)} \cup h.pred[v]

\* One more node has its edges into N replaced by an edge to v.
LEMMA EnterOne ==
  ASSUME NEW b, NEW v, Readied(b, v), NEW N, N \subseteq b.nodes,
         NEW D, D \subseteq b.nodes, NEW n \in b.nodes \ D,
         n \in N => D \cap N = {},
         NEW h, Entered(b, v, N, D, h)
  PROVE  Entered(b, v, N, D \cup {n}, VirtualizeEntrance(h, v, N, n))
  <1> DEFINE into == {e \in h.succ[n] : Snk(h, e) \in N}
             x == Len(h.end) + 1
             k == MakeEdge(h, Outer(v, N, n), v, TotalFreq(h, into), TotalFreq(h, h.succ[n]), into)
             r == PutEntrance(k, v, n, into)
  <1>1. /\ Shape(b) /\ Agree(b) /\ v \notin b.nodes /\ v \in NodesMade(b)
        /\ b.nodes \subseteq NodesMade(b) /\ b.edges \subseteq EdgesMade(b) /\ n # v
        /\ n \in NodesMade(b)
    BY DEF Readied, Sound, Shape
  <1>2. /\ Shape(h) /\ h.nodes = b.nodes /\ h.inner = b.inner /\ h.blocks = b.blocks
        /\ Len(b.end) <= Len(h.end) /\ \A e \in EdgesMade(b) : h.end[e] = b.end[e]
    BY DEF Entered, Kept
  <1>3. /\ Len(b.end) \in Nat /\ Len(h.end) \in Nat
        /\ \A e \in EdgesMade(b) : /\ Src(h, e) = Src(b, e) /\ Snk(h, e) = Snk(b, e)
                                   /\ e \in EdgesMade(h)
    BY <1>1, <1>2, Fields DEF EdgesMade, Src, Snk
  <1>4. /\ h.succ[n] = b.succ[n] /\ h.succ[n] \subseteq b.edges
        /\ \A e \in h.succ[n] : Src(b, e) = n /\ Snk(b, e) \in b.nodes
    BY <1>1 DEF Entered, Agree
  <1>5. /\ into = {e \in b.succ[n] : Snk(b, e) \in N}
        /\ into \subseteq b.edges /\ into \subseteq h.succ[n]
    BY <1>1, <1>3, <1>4
  <1>6. VirtualizeEntrance(h, v, N, n) = r
    BY DEF VirtualizeEntrance, MergeEntrance, Outer
  <1>7. /\ Outer(v, N, n) \in Nat /\ v \in Nat /\ into \in SUBSET Nat
        /\ TotalFreq(h, into) \in Nat /\ TotalFreq(h, h.succ[n]) \in Int
        /\ TotalFreq(h, into) = TotalFreq(b, Into(b, n, N))
    <2>1. into \subseteq EdgesMade(h) /\ h.succ[n] \subseteq EdgesMade(h)
      BY <1>1, <1>3, <1>4, <1>5
    <2>2. TotalFreq(h, into) \in Nat /\ TotalFreq(h, h.succ[n]) \in Nat
      BY <1>2, <2>1, TotalFreqIs
    <2>3. Outer(v, N, n) \in Nat /\ v \in Nat
      BY <1>1, Fields DEF Outer, NodesMade
    <2>4. into \in SUBSET Nat
      BY <2>1 DEF EdgesMade
    <2>5. into = Into(b, n, N)
      BY <1>5 DEF Into
    <2> HIDE DEF into
    <2>6. into \subseteq EdgesMade(b) /\ \A e \in into : h.end[e] = b.end[e]
      BY <1>1, <1>2, <1>5
    <2>7. TotalFreq(h, into) = TotalFreq(b, into)
      BY <1>1, <1>2, <2>1, <2>6, TotalFreqSame
    <2> QED BY <2>2, <2>3, <2>4, <2>5, <2>7
  <1> HIDE DEF into
  <1>8. /\ Shape(k)
        /\ k.nodes = h.nodes /\ k.edges = h.edges /\ k.pred = h.pred
        /\ k.succ = h.succ /\ k.inner = h.inner /\ k.blocks = h.blocks
        /\ NewestEdge(k) = x /\ Len(k.end) = x
        /\ \A e \in EdgesMade(h) : k.end[e] = h.end[e]
        /\ k.end[x].src = Outer(v, N, n) /\ k.end[x].snk = v
        /\ k.end[x].freq = TotalFreq(h, into)
    <2>1. PICK src, freq, total : /\ src = Outer(v, N, n) /\ freq = TotalFreq(h, into)
                                  /\ total = TotalFreq(h, h.succ[n])
      OBVIOUS
    <2>2. k = MakeEdge(h, src, v, freq, total, into)
      BY <2>1
    <2> HIDE DEF k
    <2>4. src \in Nat /\ v \in Nat /\ freq \in Nat /\ total \in Int /\ into \in SUBSET Nat
      BY <1>7, <2>1
    <2>3. Shape(h) /\ x = Len(h.end) + 1
      BY <1>2
    <2>5. EdgeMade(h, x, src, v, freq, k)
      <3> HIDE DEF x
      <3> QED BY <2>2, <2>3, <2>4, MakeEdgeIs
    <2> QED BY <2>1, <2>5 DEF EdgeMade
  <1> HIDE DEF k
  <1>9. /\ x \notin EdgesMade(h) /\ x \in EdgesMade(k)
        /\ EdgesMade(h) \subseteq EdgesMade(k)
        /\ Src(k, x) = Outer(v, N, n) /\ Snk(k, x) = v
        /\ Freq(k, x) = TotalFreq(b, Into(b, n, N))
        /\ \A e \in EdgesMade(h) : /\ Src(k, e) = Src(h, e) /\ Snk(k, e) = Snk(h, e)
                                   /\ Freq(k, e) = Freq(h, e)
    <2>1. x \notin EdgesMade(h) /\ x \in EdgesMade(k) /\ EdgesMade(h) \subseteq EdgesMade(k)
      BY <1>3, <1>7, <1>8 DEF EdgesMade
    <2>2. \A e \in EdgesMade(h) : /\ Src(k, e) = Src(h, e) /\ Snk(k, e) = Snk(h, e)
                                  /\ Freq(k, e) = Freq(h, e)
      BY <1>8 DEF Src, Snk, Freq
    <2>3. /\ Src(k, x) = Outer(v, N, n) /\ Snk(k, x) = v
          /\ Freq(k, x) = TotalFreq(b, Into(b, n, N))
      <3> HIDE DEF x
      <3> QED BY <1>7, <1>8 DEF Src, Snk, Freq
    <2> QED BY <2>1, <2>2, <2>3
  <1> HIDE DEF x
  <1>10. \A e \in b.edges : /\ Src(k, e) = Src(b, e) /\ Snk(k, e) = Snk(b, e)
                            /\ e \in EdgesMade(h)
    BY <1>1, <1>3, <1>9
  <1>11. \A e \in h.pred[v] : /\ e \in EdgesMade(h) /\ e \notin EdgesMade(b)
                              /\ Src(k, e) = Src(h, e) /\ Snk(k, e) = v
                              /\ \E m \in D : /\ Src(h, e) = Outer(v, N, m)
                                             /\ Freq(k, e) = TotalFreq(b, Into(b, m, N))
    BY <1>9 DEF Entered
  <1>12. \A e, f \in b.edges : SameEnds(k, e, f) => e = f
    BY <1>1, <1>10 DEF Agree, SameEnds
  <1>13. Insert(k, Erase(k, k.succ[n], into), x) = (b.succ[n] \ into) \cup {x}
    <2>1. Erase(k, k.succ[n], into) = b.succ[n] \ into
      BY <1>4, <1>5, <1>8, <1>12, EraseIs
    <2>2. \A f \in b.succ[n] \ into : ~ SameEnds(k, f, x)
      BY <1>1, <1>4, <1>9, <1>10 DEF SameEnds
    <2> QED BY <2>1, <2>2, InsertIs
  <1>14. \A e \in h.pred[v] : Src(k, e) # Outer(v, N, n)
    <2> SUFFICES ASSUME NEW e \in h.pred[v] PROVE Src(k, e) # Outer(v, N, n)
      OBVIOUS
    <2>1. PICK m \in D : Src(h, e) = Outer(v, N, m) /\ Src(k, e) = Outer(v, N, m)
      BY <1>11
    <2> QED BY <1>1, <2>1 DEF Outer
  <1>15. Insert(k, k.pred[v], x) = h.pred[v] \cup {x}
    BY <1>8, <1>9, <1>14, InsertIs DEF SameEnds
  <1>16. Insert(k, Erase(k, k.edges, into), x) = (h.edges \ into) \cup {x}
    <2>1. h.edges = {e \in b.edges : ~ (Src(b, e) \in D /\ Snk(b, e) \in N)} \cup h.pred[v]
      BY DEF Entered
    <2>2. into \subseteq h.edges
      BY <1>4, <1>5, <2>1
    <2>3. \A e \in h.edges, f \in into : SameEnds(k, e, f) => e = f
      <3>1. \A e \in h.pred[v], f \in into : ~ SameEnds(k, e, f)
        BY <1>1, <1>4, <1>5, <1>10, <1>11 DEF SameEnds
      <3> QED BY <1>5, <1>12, <2>1, <3>1
    <2>4. Erase(k, k.edges, into) = h.edges \ into
      BY <1>8, <2>2, <2>3, EraseIs
    <2>5. \A f \in h.edges : ~ SameEnds(k, f, x)
      <3>1. \A f \in b.edges : Snk(k, f) # v
        BY <1>1, <1>10 DEF Agree
      <3> QED BY <1>9, <1>14, <2>1, <3>1 DEF SameEnds
    <2> QED BY <2>4, <2>5, InsertIs
  <1>17. r = Edged(k, n, v, (b.succ[n] \ into) \cup {x}, h.pred[v] \cup {x},
                   (h.edges \ into) \cup {x})
    <2>1. PICK a, c, d : /\ a = Insert(k, Erase(k, k.succ[n], into), x)
                         /\ c = Insert(k, k.pred[v], x)
                         /\ d = Insert(k, Erase(k, k.edges, into), x)
      OBVIOUS
    <2>2. r = Edged(k, n, v, a, c, d)
      BY <1>8, <2>1 DEF PutEntrance, Edged
    <2> QED BY <1>13, <1>15, <1>16, <2>1, <2>2
  <1> HIDE DEF r
  <1>18. /\ NodesMade(k) = NodesMade(b) /\ n \in NodesMade(k) /\ v \in NodesMade(k)
         /\ (b.succ[n] \ into) \cup {x} \subseteq EdgesMade(k)
         /\ h.pred[v] \cup {x} \subseteq EdgesMade(k)
         /\ (h.edges \ into) \cup {x} \subseteq EdgesMade(k)
    <2>1. NodesMade(k) = NodesMade(b)
      BY <1>2, <1>8 DEF NodesMade
    <2>2. b.succ[n] \subseteq EdgesMade(k)
      BY <1>4, <1>9, <1>10
    <2>3. h.edges \subseteq EdgesMade(h)
      BY <1>2 DEF Shape
    <2> QED BY <1>1, <1>9, <1>11, <2>1, <2>2, <2>3
  <1>19. /\ Shape(r)
         /\ r.nodes = k.nodes /\ r.end = k.end /\ r.inner = k.inner /\ r.blocks = k.blocks
         /\ r.edges = (h.edges \ into) \cup {x}
         /\ r.succ[n] = (b.succ[n] \ into) \cup {x}
         /\ \A m \in NodesMade(b) : m # n => r.succ[m] = h.succ[m]
         /\ r.pred[v] = h.pred[v] \cup {x}
         /\ \A m \in NodesMade(b) : m # v => r.pred[m] = h.pred[m]
    <2>1. PICK A, C, F : /\ A = (b.succ[n] \ into) \cup {x} /\ C = h.pred[v] \cup {x}
                         /\ F = (h.edges \ into) \cup {x}
      OBVIOUS
    <2>2. r = Edged(k, n, v, A, C, F)
      BY <1>17, <2>1
    <2>3. /\ Shape(k) /\ k.succ = h.succ /\ k.pred = h.pred
          /\ A \subseteq EdgesMade(k) /\ C \subseteq EdgesMade(k) /\ F \subseteq EdgesMade(k)
      BY <1>8, <1>18, <2>1
    <2>4. n \in NodesMade(k) /\ v \in NodesMade(k)
      BY <1>18
    <2>5. IsEdged(k, n, v, A, C, F, r)
      BY <2>2, <2>3, <2>4, PutEdges
    <2> QED BY <1>18, <2>1, <2>3, <2>5 DEF IsEdged
  <1>22. \A e : Src(r, e) = Src(k, e) /\ Snk(r, e) = Snk(k, e) /\ Freq(r, e) = Freq(k, e)
    BY <1>19 DEF Src, Snk, Freq
  <1>23. Kept(b, r)
    BY <1>1, <1>2, <1>3, <1>8, <1>9, <1>19 DEF Kept, EdgesMade
  <1>24. \A m \in NodesMade(b) \ {v} : r.pred[m] = b.pred[m]
    BY <1>19 DEF Entered
  <1>25. r.succ[v] = {} /\ \A m \in NodesMade(b) \ (D \cup {n, v}) : r.succ[m] = b.succ[m]
    BY <1>1, <1>19 DEF Entered
  <1>26. ASSUME NEW m \in D \cup {n}
         PROVE  \E y \in r.pred[v] :
                   /\ Src(r, y) = Outer(v, N, m)
                   /\ r.succ[m] = {e \in b.succ[m] : Snk(b, e) \notin N} \cup {y}
    <2>1. CASE m = n
      <3>1. b.succ[n] \ into = {e \in b.succ[n] : Snk(b, e) \notin N}
        BY <1>5
      <3> QED BY <1>9, <1>19, <1>19, <1>22, <2>1, <3>1
    <2>2. CASE m # n
      <3>1. PICK y \in h.pred[v] : /\ Src(h, y) = Outer(v, N, m)
                                   /\ h.succ[m] = {e \in b.succ[m] : Snk(b, e) \notin N} \cup {y}
        BY <2>2 DEF Entered
      <3>2. m \in NodesMade(b)
        BY <1>1, <2>2
      <3> QED BY <1>11, <1>19, <1>19, <1>22, <2>2, <3>1, <3>2
    <2> QED BY <2>1, <2>2
  <1>27. ASSUME NEW y \in r.pred[v]
         PROVE  /\ y \in EdgesMade(r) \ EdgesMade(b) /\ Snk(r, y) = v
                /\ \E m \in D \cup {n} : /\ Src(r, y) = Outer(v, N, m)
                                        /\ Freq(r, y) = TotalFreq(b, Into(b, m, N))
    <2>1. EdgesMade(r) = EdgesMade(k) /\ x \notin EdgesMade(b)
      BY <1>3, <1>9, <1>19 DEF EdgesMade
    <2> QED BY <1>9, <1>11, <1>19, <1>22, <2>1
  <1>28. \A y, z \in r.pred[v] : Src(r, y) = Src(r, z) => y = z
    <2>1. \A y, z \in h.pred[v] : Src(h, y) = Src(h, z) => y = z
      BY DEF Entered
    <2> QED BY <1>9, <1>11, <1>14, <1>19, <1>22, <2>1
  <1>29. r.edges = {e \in b.edges : ~ (Src(b, e) \in D \cup {n} /\ Snk(b, e) \in N)} \cup r.pred[v]
    <2>1. h.edges = {e \in b.edges : ~ (Src(b, e) \in D /\ Snk(b, e) \in N)} \cup h.pred[v]
      BY DEF Entered
    <2>2. into = {e \in b.edges : Src(b, e) = n /\ Snk(b, e) \in N}
      BY <1>1, <1>5 DEF Agree
    <2>3. h.pred[v] \cap into = {}
      BY <1>1, <1>5, <1>11
    <2> QED BY <1>19, <1>19, <2>1, <2>2, <2>3
  <1> QED
    BY <1>6, <1>23, <1>24, <1>25, <1>26, <1>27, <1>28, <1>29 DEF Entered

\* The ways in are the edges into N that are not in E.
LEMMA EntrancesAre ==
  ASSUME NEW g, Sound(g), NEW N, N \subseteq g.nodes, NEW E, E \subseteq g.edges
  PROVE  Entrances(g, N, E) = {e \in g.edges : Snk(g, e) \in N /\ e \notin E}
  <1>1. UNION {g.pred[n] : n \in N} = {e \in g.edges : Snk(g, e) \in N}
    BY DEF Sound, Agree
  <1>2. \A e \in g.edges : Has(g, E, e) <=> e \in E
    BY DEF Sound, Agree, Has, SameEnds
  <1> QED
    BY <1>1, <1>2 DEF Entrances

\* The nodes the ways in come from.
EnteredFrom(g, N, E) == {Src(g, e) : e \in {f \in g.edges : Snk(g, f) \in N /\ f \notin E}}

\* VirtualizeSubgraph replaces all edges that enter N.
LEMMA EnterVirtualIs ==
  ASSUME NEW b, NEW v, Readied(b, v), NEW N, NEW E, Replaceable(b, N, E),
         NEW D, D = EnteredFrom(b, N, E)
  PROVE  Entered(b, v, N, D, EnterVirtual(b, N, E))
  <1>1. /\ v \in Nat /\ v = Len(b.inner) /\ N \subseteq b.nodes /\ b.nodes \subseteq 1 .. v
        /\ Sound(b) /\ Shape(b) /\ Agree(b)
    BY Fields DEF Readied, Sound, Shape, NodesMade, Replaceable
  <1>2. D = Sources(b, Entrances(b, N, E))
    BY <1>1, EntrancesAre DEF Replaceable, Sources, EnteredFrom
  <1>3. D \subseteq b.nodes
    BY <1>1 DEF Agree, EnteredFrom
  <1>4. \A m, n \in D : m \in N /\ n \in N => m = n
    BY DEF Replaceable, EnteredFrom
  <1> DEFINE op(h, i) == IF i \in D THEN VirtualizeEntrance(h, VirtualNodeOf(h), N, i) ELSE h
             S == [i \in 0 .. v |-> {h \in GraphSet : Entered(b, v, N, D \cap (1 .. i), h)}]
             f == [i \in 1 .. v |-> [h \in S[i - 1] |-> op(h, i)]]
             F(a) == a = [i \in 0 .. v |-> IF i = 0 THEN b ELSE op(a[i - 1], i)]
  <1>5. \A i \in 1 .. v : i \in 0 .. v /\ i - 1 \in 0 .. v /\ i # 0
    BY <1>1
  <1>6. EnterVirtual(b, N, E) = (CHOOSE a : F(a))[v]
    BY <1>1, <1>2 DEF EnterVirtual, Each, VirtualNodeOf
  <1>7. b \in S[0]
    <2>1. D \cap (1 .. 0) = {}
      BY <1>1
    <2>2. Entered(b, v, N, {}, b)
      BY <1>1 DEF Entered, Kept, Readied, NodesMade
    <2> QED BY <1>1, <2>1, <2>2 DEF Shape
  <1>8. ASSUME NEW i \in 1 .. v, NEW h \in S[i - 1] PROVE op(h, i) \in S[i]
    <2>1. Entered(b, v, N, D \cap (1 .. (i - 1)), h)
      BY <1>1, <1>5
    <2>2. h.inner = b.inner
      BY <2>1 DEF Entered, Kept
    <2>3. CASE i \in D
      <3>1. D \cap (1 .. i) = (D \cap (1 .. (i - 1))) \cup {i} /\ i \notin D \cap (1 .. (i - 1))
        BY <1>1, <2>3
      <3>2. i \in N => (D \cap (1 .. (i - 1))) \cap N = {}
        BY <1>4, <2>3, <3>1
      <3>3. PICK C : C = D \cap (1 .. (i - 1))
        OBVIOUS
      <3>4. Entered(b, v, N, C \cup {i}, VirtualizeEntrance(h, v, N, i))
        <4>1. /\ N \subseteq b.nodes /\ C \subseteq b.nodes /\ i \in b.nodes \ C
              /\ i \in N => C \cap N = {}
              /\ Entered(b, v, N, C, h)
          BY <1>1, <1>3, <2>1, <2>3, <3>1, <3>2, <3>3
        <4> QED BY <4>1, EnterOne
      <3>5. op(h, i) = VirtualizeEntrance(h, v, N, i)
        BY <1>1, <2>2, <2>3 DEF VirtualNodeOf
      <3>6. Entered(b, v, N, D \cap (1 .. i), op(h, i))
        BY <3>1, <3>3, <3>4, <3>5
      <3>7. op(h, i) \in GraphSet
        BY <3>6 DEF Entered, Kept, Shape
      <3> QED BY <1>5, <3>6, <3>7
    <2>4. CASE i \notin D
      <3>1. D \cap (1 .. i) = D \cap (1 .. (i - 1))
        BY <1>1, <2>4
      <3>2. Entered(b, v, N, D \cap (1 .. i), h)
        BY <2>1, <3>1
      <3>3. h \in GraphSet /\ op(h, i) = h
        BY <2>1, <2>4 DEF Entered, Kept, Shape
      <3>4. Entered(b, v, N, D \cap (1 .. i), op(h, i)) /\ op(h, i) \in GraphSet
        BY <3>2, <3>3
      <3> HIDE DEF op
      <3> QED BY <1>5, <3>4
    <2> QED BY <2>3, <2>4
  <1>9. \A i \in 1 .. v : \A h \in S[i - 1] : f[i][h] = op(h, i)
    OBVIOUS
  <1> HIDE DEF op, f
  <1>10. PICK a : Looped(a, S, b, v, f)
    <2> HIDE DEF S
    <2>1. \A i \in 1 .. v : \A h \in S[i - 1] : f[i][h] \in S[i]
      BY <1>8, <1>9
    <2> QED BY <1>1, <1>7, <2>1, Loop
  <1>11. \A i \in 0 .. v : a[i] = IF i = 0 THEN b ELSE op(a[i - 1], i)
    <2> HIDE DEF S
    <2>1. \A i \in 0 .. v : a[i] = IF i = 0 THEN b ELSE f[i][a[i - 1]]
      BY <1>10 DEF Looped
    <2>2. \A i \in 1 .. v : a[i - 1] \in S[i - 1]
      BY <1>5, <1>10 DEF Looped
    <2>3. \A i \in 0 .. v : i # 0 => i \in 1 .. v
      BY <1>1
    <2> QED BY <1>9, <2>1, <2>2, <2>3
  <1>12. F(a)
    <2>1. a = [i \in 0 .. v |-> a[i]]
      BY <1>10 DEF Looped
    <2> QED BY <1>11, <2>1
  <1>13. PICK after : F(after) /\ EnterVirtual(b, N, E) = after[v]
    <2> HIDE DEF F
    <2> QED BY <1>6, <1>12
  <1> HIDE DEF S
  <1>14. after[0] = b /\ \A i \in 1 .. v : after[i] = op(after[i - 1], i)
    <2>1. after = [i \in 0 .. v |-> IF i = 0 THEN b ELSE op(after[i - 1], i)]
      BY <1>13
    <2> HIDE DEF F
    <2>2. 0 \in 0 .. v /\ \A i \in 1 .. v : i \in 0 .. v /\ i # 0
      BY <1>1
    <2> QED BY <2>1, <2>2
  <1>15. EnterVirtual(b, N, E) \in S[v]
    <2>1. \A i \in 1 .. v : after[i - 1] \in S[i - 1] => after[i] \in S[i]
      BY <1>8, <1>14
    <2>2. after[v] \in S[v]
      BY <1>1, <1>7, <1>14, <2>1, Stays
    <2> QED BY <1>13, <2>2
  <1> HIDE DEF F
  <1> USE DEF S
  <1>16. Entered(b, v, N, D \cap (1 .. v), EnterVirtual(b, N, E))
    <2>1. v \in 0 .. v
      BY <1>1
    <2> QED BY <1>15, <2>1
  <1>17. D \cap (1 .. v) = D
    BY <1>1, <1>3
  <1> HIDE DEF S
  <1> QED
    BY <1>16, <1>17

-----------------------------------------------------------------------------
(* VirtualizeSubgraph: the exits *)

\* A graph in which the edges X can become edges of v.
Exitable(h, v, X) ==
  /\ Shape(h)
  /\ v \in NodesMade(h) /\ h.succ[v] = {}
  /\ X \subseteq h.edges
  /\ \A e, f \in h.edges : SameEnds(h, e, f) => e = f
  /\ \A c \in X : /\ Snk(h, c) \in h.nodes \cup {v}
                  /\ h.pred[Snk(h, c)] = {e \in h.edges : Snk(h, e) = Snk(h, c)}
                  /\ \A m \in h.nodes \cup {v} : c \in h.pred[m] => m = Snk(h, c)
                  /\ Src(h, c) = v <=> Snk(h, c) = v
  /\ \A e \in h.edges : Src(h, e) = v => e \in X

\* The edges C have become edges of v, one for each of their sinks, as frequent as
\* one of those to it.
Left(h, v, C, k) ==
  /\ Kept(h, k)
  /\ \A m \in NodesMade(h) \ {v} : k.succ[m] = h.succ[m]
  /\ \A m \in h.nodes \cup {v} :
        k.pred[m] = (h.pred[m] \ C) \cup {y \in k.succ[v] : Snk(k, y) = m}
  /\ \A y \in k.succ[v] : /\ y \in EdgesMade(k) \ EdgesMade(h) /\ Src(k, y) = v
                          /\ \E c \in C : Snk(k, y) = Snk(h, c) /\ Freq(k, y) = Freq(h, c)
  /\ \A y, z \in k.succ[v] : Snk(k, y) = Snk(k, z) => y = z
  /\ \A c \in C : \E y \in k.succ[v] : Snk(k, y) = Snk(h, c)
  /\ k.edges = (h.edges \ C) \cup k.succ[v]

\* One more edge out of N is replaced by one out of v.
LEMMA ExitOne ==
  ASSUME NEW h, NEW v, NEW X, Exitable(h, v, X), NEW C, C \subseteq X,
         NEW ex \in X \ C, NEW k, Left(h, v, C, k)
  PROVE  Left(h, v, C \cup {ex}, VirtualizeExit(k, v, ex))
  <1> DEFINE t == Snk(h, ex)
             z == Len(k.end) + 1
             j == MakeEdge(k, v, t, Freq(k, ex), Divided(Freq(k, ex), k.end[ex].total), {ex})
             r == PutExit(j, v, ex)
             old == \E y \in k.succ[v] : Snk(k, y) = t
             new == IF old THEN {} ELSE {z}
  <1>1. /\ Shape(h) /\ v \in NodesMade(h) /\ t \in NodesMade(h) /\ ex \in h.edges
        /\ t \in h.nodes \cup {v} /\ h.nodes \cup {v} \subseteq NodesMade(h)
        /\ h.edges \subseteq EdgesMade(h) /\ ex \in EdgesMade(h)
        /\ h.pred[t] = {e \in h.edges : Snk(h, e) = t}
        /\ \A e, f \in h.edges : SameEnds(h, e, f) => e = f
    BY DEF Exitable, Shape
  <1>2. /\ Shape(k) /\ k.nodes = h.nodes /\ k.inner = h.inner /\ k.blocks = h.blocks
        /\ Len(h.end) <= Len(k.end) /\ \A e \in EdgesMade(h) : k.end[e] = h.end[e]
    BY DEF Left, Kept
  <1>3. /\ Len(h.end) \in Nat /\ Len(k.end) \in Nat
        /\ EdgesMade(h) \subseteq EdgesMade(k)
        /\ \A e \in EdgesMade(h) : /\ Src(k, e) = Src(h, e) /\ Snk(k, e) = Snk(h, e)
                                   /\ Freq(k, e) = Freq(h, e)
        /\ NodesMade(k) = NodesMade(h)
    <2>1. Len(h.end) \in Nat /\ Len(k.end) \in Nat
      BY <1>1, <1>2, Fields
    <2> QED BY <1>2, <2>1 DEF EdgesMade, Src, Snk, Freq, NodesMade
  <1>4. VirtualizeExit(k, v, ex) = r
    BY <1>1, <1>3 DEF VirtualizeExit
  <1>5. /\ v \in Nat /\ t \in Nat /\ Freq(k, ex) \in Nat /\ {ex} \in SUBSET Nat
        /\ Divided(Freq(k, ex), k.end[ex].total) \in Int
    <2>1. ex \in EdgesMade(k)
      BY <1>1, <1>3
    <2>2. Freq(k, ex) \in Nat /\ k.end[ex].total \in Int
      BY <1>2, <2>1, Fields
    <2>3. Divided(Freq(k, ex), k.end[ex].total) \in Int
      BY <2>2 DEF Divided
    <2>4. v \in Nat /\ t \in Nat /\ ex \in Nat
      BY <1>1, Fields DEF NodesMade, EdgesMade
    <2> QED BY <2>2, <2>3, <2>4
  <1>6. /\ Shape(j)
        /\ j.nodes = k.nodes /\ j.edges = k.edges /\ j.pred = k.pred
        /\ j.succ = k.succ /\ j.inner = k.inner /\ j.blocks = k.blocks
        /\ NewestEdge(j) = z /\ Len(j.end) = z
        /\ \A e \in EdgesMade(k) : j.end[e] = k.end[e]
        /\ j.end[z].src = v /\ j.end[z].snk = t /\ j.end[z].freq = Freq(k, ex)
    <2>1. PICK freq, total, under : /\ freq = Freq(k, ex) /\ under = {ex}
                                    /\ total = Divided(Freq(k, ex), k.end[ex].total)
      OBVIOUS
    <2>2. j = MakeEdge(k, v, t, freq, total, under)
      BY <2>1
    <2>3. v \in Nat /\ t \in Nat /\ freq \in Nat /\ total \in Int /\ under \in SUBSET Nat
      BY <1>5, <2>1
    <2> HIDE DEF j, t
    <2>5. Shape(k) /\ z = Len(k.end) + 1
      BY <1>2
    <2>4. EdgeMade(k, z, v, t, freq, j)
      <3> HIDE DEF z
      <3> QED BY <2>2, <2>3, <2>5, MakeEdgeIs
    <2> QED BY <2>1, <2>4 DEF EdgeMade
  <1> HIDE DEF j
  <1>7. /\ z \notin EdgesMade(k) /\ z \in EdgesMade(j) /\ EdgesMade(k) \subseteq EdgesMade(j)
        /\ Src(j, z) = v /\ Snk(j, z) = t /\ Freq(j, z) = Freq(h, ex)
        /\ \A e \in EdgesMade(k) : /\ Src(j, e) = Src(k, e) /\ Snk(j, e) = Snk(k, e)
                                   /\ Freq(j, e) = Freq(k, e)
    <2>1. Freq(k, ex) = Freq(h, ex)
      BY <1>1, <1>3
    <2> HIDE DEF t
    <2> QED BY <1>3, <1>6, <2>1 DEF EdgesMade, Src, Snk, Freq
  <1> HIDE DEF z
  <1>8. \A e \in h.edges : Src(j, e) = Src(h, e) /\ Snk(j, e) = Snk(h, e) /\ e \in EdgesMade(j)
    BY <1>1, <1>3, <1>7
  <1>9. \A y \in k.succ[v] : /\ y \in EdgesMade(k) /\ y \notin EdgesMade(h)
                             /\ Src(j, y) = v /\ Snk(j, y) = Snk(k, y)
                             /\ \E c \in C : Snk(k, y) = Snk(h, c) /\ Freq(j, y) = Freq(h, c)
    BY <1>7 DEF Left
  <1>10. \A e \in h.edges \ {ex} : ~ (Src(h, e) = v /\ Snk(h, e) = t)
    <2> SUFFICES ASSUME NEW e \in h.edges, e # ex, Src(h, e) = v, Snk(h, e) = t PROVE FALSE
      OBVIOUS
    <2>1. e \in X /\ Snk(h, e) = v
      BY DEF Exitable
    <2>2. Src(h, ex) = v
      BY <2>1 DEF Exitable
    <2> QED BY <1>1, <2>2 DEF SameEnds
  <1>11. Src(h, ex) = v => ~ old
    <2> SUFFICES ASSUME Src(h, ex) = v, NEW y \in k.succ[v], Snk(k, y) = t PROVE FALSE
      OBVIOUS
    <2>1. PICK c \in C : Snk(h, c) = t
      BY <1>9
    <2>2. t = v /\ Src(h, c) = v /\ c \in h.edges
      BY <2>1 DEF Exitable
    <2> QED BY <1>10, <2>1, <2>2
  <1>12. \A e \in (h.edges \ C) \cup k.succ[v] : SameEnds(j, e, ex) => e = ex
    <2>1. \A e \in h.edges : SameEnds(j, e, ex) => e = ex
      BY <1>1, <1>8 DEF SameEnds
    <2>2. \A e \in k.succ[v] : ~ SameEnds(j, e, ex)
      BY <1>1, <1>8, <1>9, <1>11 DEF SameEnds
    <2> QED BY <2>1, <2>2
  <1>13. Insert(j, j.succ[v], z) = k.succ[v] \cup new
    <2>1. Has(j, j.succ[v], z) <=> old
      BY <1>6, <1>7, <1>9 DEF Has
    <2> QED BY <1>6, <2>1 DEF Insert
  <1>14. Insert(j, Erase(j, j.pred[t], {ex}), z) = (k.pred[t] \ {ex}) \cup new
    <2>1. k.pred[t] = (h.pred[t] \ C) \cup {y \in k.succ[v] : Snk(k, y) = t}
      BY <1>1 DEF Left
    <2>2. k.pred[t] \subseteq (h.edges \ C) \cup k.succ[v] /\ ex \in k.pred[t]
      BY <1>1, <2>1
    <2>3. Erase(j, j.pred[t], {ex}) = k.pred[t] \ {ex}
      BY <1>6, <1>12, <2>2, EraseIs
    <2>4. Has(j, k.pred[t] \ {ex}, z) <=> old
      <3>1. \A e \in h.pred[t] \ {ex} : ~ (Src(j, e) = v /\ Snk(j, e) = t)
        BY <1>1, <1>8, <1>10
      <3>2. ex \notin k.succ[v]
        BY <1>1, <1>9
      <3> QED BY <1>7, <1>9, <2>1, <3>1, <3>2 DEF Has
    <2> QED BY <2>3, <2>4 DEF Insert
  <1>15. Insert(j, Erase(j, j.edges, {ex}), z) = (k.edges \ {ex}) \cup new
    <2>1. k.edges = (h.edges \ C) \cup k.succ[v] /\ ex \in k.edges
      BY <1>1 DEF Left
    <2>2. Erase(j, j.edges, {ex}) = k.edges \ {ex}
      BY <1>6, <1>12, <2>1, EraseIs
    <2>3. Has(j, k.edges \ {ex}, z) <=> old
      <3>1. \A e \in h.edges \ {ex} : ~ (Src(j, e) = v /\ Snk(j, e) = t)
        BY <1>8, <1>10
      <3>2. ex \notin k.succ[v]
        BY <1>1, <1>9
      <3> QED BY <1>7, <1>9, <2>1, <3>1, <3>2 DEF Has
    <2> QED BY <2>2, <2>3 DEF Insert
  <1>16. r = Edged(j, v, t, k.succ[v] \cup new, (k.pred[t] \ {ex}) \cup new,
                   (k.edges \ {ex}) \cup new)
    <2>1. PICK a, c, d : /\ a = Insert(j, j.succ[v], z)
                         /\ c = Insert(j, Erase(j, j.pred[t], {ex}), z)
                         /\ d = Insert(j, Erase(j, j.edges, {ex}), z)
      OBVIOUS
    <2>2. Snk(j, ex) = t
      BY <1>1, <1>8
    <2>3. r = Edged(j, v, t, a, c, d)
      BY <1>6, <2>1, <2>2 DEF PutExit, Edged
    <2> QED BY <1>13, <1>14, <1>15, <2>1, <2>3
  <1> HIDE DEF r
  <1>17. /\ k.pred[t] \subseteq EdgesMade(k) /\ k.edges \subseteq EdgesMade(k)
         /\ k.succ[v] \subseteq EdgesMade(k)
    <2>1. k.pred[t] = (h.pred[t] \ C) \cup {y \in k.succ[v] : Snk(k, y) = t}
      BY <1>1 DEF Left
    <2> QED BY <1>1, <1>2, <1>3, <1>9, <2>1 DEF Shape
  <1>18. /\ Shape(r)
         /\ r.nodes = k.nodes /\ r.end = j.end /\ r.inner = k.inner /\ r.blocks = k.blocks
         /\ r.edges = (k.edges \ {ex}) \cup new
         /\ r.succ[v] = k.succ[v] \cup new
         /\ \A m \in NodesMade(h) : m # v => r.succ[m] = k.succ[m]
         /\ r.pred[t] = (k.pred[t] \ {ex}) \cup new
         /\ \A m \in NodesMade(h) : m # t => r.pred[m] = k.pred[m]
    <2>1. PICK A, B, F : /\ A = k.succ[v] \cup new /\ B = (k.pred[t] \ {ex}) \cup new
                         /\ F = (k.edges \ {ex}) \cup new
      OBVIOUS
    <2>2. r = Edged(j, v, t, A, B, F)
      BY <1>16, <2>1
    <2>3. NodesMade(j) = NodesMade(h)
      BY <1>3, <1>6 DEF NodesMade
    <2>4. /\ Shape(j) /\ v \in NodesMade(j) /\ t \in NodesMade(j)
          /\ A \subseteq EdgesMade(j) /\ B \subseteq EdgesMade(j) /\ F \subseteq EdgesMade(j)
      BY <1>1, <1>6, <1>7, <1>17, <2>1, <2>3
    <2> HIDE DEF t
    <2>5. IsEdged(j, v, t, A, B, F, r)
      BY <2>2, <2>4, PutEdges
    <2> QED BY <1>6, <2>1, <2>3, <2>5 DEF IsEdged
  <1>19. /\ \A e : Src(r, e) = Src(j, e) /\ Snk(r, e) = Snk(j, e) /\ Freq(r, e) = Freq(j, e)
         /\ EdgesMade(r) = EdgesMade(j)
    BY <1>18 DEF Src, Snk, Freq, EdgesMade
  <1>20. Kept(h, r)
    <2>1. Len(h.end) <= Len(r.end)
      BY <1>2, <1>3, <1>6, <1>18 DEF z
    <2>2. \A e \in EdgesMade(h) : r.end[e] = h.end[e]
      BY <1>2, <1>3, <1>6, <1>18
    <2> QED BY <1>2, <1>18, <2>1, <2>2 DEF Kept
  <1>21. \A m \in NodesMade(h) \ {v} : r.succ[m] = h.succ[m]
    BY <1>18 DEF Left
  <1>22. \A y \in k.succ[v] : Snk(r, y) = Snk(k, y) /\ y # z
    BY <1>7, <1>9, <1>19
  <1>23. ASSUME NEW m \in h.nodes \cup {v}
         PROVE  r.pred[m] = (h.pred[m] \ (C \cup {ex})) \cup {y \in r.succ[v] : Snk(r, y) = m}
    <2>1. k.pred[m] = (h.pred[m] \ C) \cup {y \in k.succ[v] : Snk(k, y) = m}
      BY DEF Left
    <2>2. ex \notin k.succ[v]
      BY <1>1, <1>9
    <2>3. Snk(r, z) = t
      BY <1>7, <1>19
    <2>4. CASE m = t
      BY <1>18, <1>22, <2>1, <2>2, <2>3, <2>4
    <2>5. CASE m # t
      <3>1. ex \notin h.pred[m]
        BY <2>5 DEF Exitable
      <3>2. m \in NodesMade(h)
        BY <1>1
      <3> QED BY <1>18, <1>22, <2>1, <2>2, <2>3, <2>5, <3>1, <3>2
    <2> QED BY <2>4, <2>5
  <1>24. ASSUME NEW y \in r.succ[v]
         PROVE  /\ y \in EdgesMade(r) \ EdgesMade(h) /\ Src(r, y) = v
                /\ \E c \in C \cup {ex} : Snk(r, y) = Snk(h, c) /\ Freq(r, y) = Freq(h, c)
    <2>1. z \notin EdgesMade(h)
      BY <1>3, <1>7
    <2>2. CASE y \in k.succ[v]
      BY <1>7, <1>9, <1>19, <2>2
    <2>3. CASE y = z
      BY <1>7, <1>19, <2>1, <2>3
    <2> QED BY <1>18, <2>2, <2>3
  <1>25. \A x, y \in r.succ[v] : Snk(r, x) = Snk(r, y) => x = y
    <2>1. \A x, y \in k.succ[v] : Snk(k, x) = Snk(k, y) => x = y
      BY DEF Left
    <2>2. Snk(r, z) = t
      BY <1>7, <1>19
    <2> QED BY <1>18, <1>22, <2>1, <2>2
  <1>26. ASSUME NEW c \in C \cup {ex} PROVE \E y \in r.succ[v] : Snk(r, y) = Snk(h, c)
    <2>1. k.succ[v] \subseteq r.succ[v]
      BY <1>18
    <2>2. CASE c \in C
      <3>1. PICK y \in k.succ[v] : Snk(k, y) = Snk(h, c)
        BY <2>2 DEF Left
      <3> QED BY <1>22, <2>1, <3>1
    <2>3. CASE c = ex /\ old
      BY <1>22, <2>1, <2>3
    <2>4. CASE c = ex /\ ~ old
      BY <1>7, <1>18, <1>19, <2>4
    <2> QED BY <2>2, <2>3, <2>4
  <1>27. r.edges = (h.edges \ (C \cup {ex})) \cup r.succ[v]
    <2>1. k.edges = (h.edges \ C) \cup k.succ[v] /\ ex \notin k.succ[v]
      BY <1>1, <1>9 DEF Left
    <2> QED BY <1>18, <2>1
  <1> QED
    BY <1>4, <1>20, <1>21, <1>23, <1>24, <1>25, <1>26, <1>27 DEF Left

\* VirtualizeSubgraph replaces all edges that leave N from one node.
LEMMA ExitNodeIs ==
  ASSUME NEW g, NEW v, NEW X, Exitable(g, v, X), v = Len(g.inner),
         NEW N, NEW E, NEW n,
         NEW Z, Z = {e \in Exits(g, {n}, E) : Snk(g, e) \notin N}, Z \subseteq X,
         NEW C, C \subseteq X, C \cap Z = {}, NEW h0, Left(g, v, C, h0)
  PROVE  Left(g, v, C \cup Z, ExitNode(g, N, E, h0, n))
  <1> DEFINE last == Len(g.end)
  <1>1. /\ last \in Nat /\ Z \subseteq 1 .. last /\ Shape(g)
    BY Fields DEF Exitable, Shape, EdgesMade
  <1> HIDE DEF last
  <1> DEFINE op(h, i) == IF i \in Z THEN VirtualizeExit(h, VirtualNodeOf(h), i) ELSE h
             S == [i \in 0 .. last |-> {h \in GraphSet : Left(g, v, C \cup (Z \cap (1 .. i)), h)}]
             f == [i \in 1 .. last |-> [h \in S[i - 1] |-> op(h, i)]]
             F(a) == a = [i \in 0 .. last |-> IF i = 0 THEN h0 ELSE op(a[i - 1], i)]
  <1>2. \A i \in 1 .. last : i \in 0 .. last /\ i - 1 \in 0 .. last /\ i # 0
    BY <1>1
  <1>3. ExitNode(g, N, E, h0, n) = (CHOOSE a : F(a))[last]
    BY <1>1 DEF ExitNode, Each, NewestEdge, last
  <1>4. h0 \in S[0]
    <2>1. C \cup (Z \cap (1 .. 0)) = C
      BY <1>1
    <2>2. h0 \in GraphSet
      BY DEF Left, Kept, Shape
    <2> QED BY <1>1, <2>1, <2>2
  <1>5. ASSUME NEW i \in 1 .. last, NEW h \in S[i - 1] PROVE op(h, i) \in S[i]
    <2>1. PICK B : B = C \cup (Z \cap (1 .. (i - 1)))
      OBVIOUS
    <2>2. Left(g, v, B, h) /\ h \in GraphSet
      BY <1>1, <1>2, <2>1
    <2>3. CASE i \in Z
      <3>1. /\ C \cup (Z \cap (1 .. i)) = B \cup {i}
            /\ B \subseteq X /\ i \in X \ B
        BY <1>1, <2>1, <2>3
      <3>2. Left(g, v, B \cup {i}, VirtualizeExit(h, v, i))
        BY <2>2, <3>1, ExitOne
      <3>3. VirtualNodeOf(h) = v
        BY <2>2 DEF Left, Kept, VirtualNodeOf
      <3>4. Left(g, v, C \cup (Z \cap (1 .. i)), op(h, i))
        BY <2>3, <3>1, <3>2, <3>3
      <3>5. op(h, i) \in GraphSet
        BY <3>4 DEF Left, Kept, Shape
      <3> HIDE DEF op
      <3> QED BY <1>2, <3>4, <3>5
    <2>4. CASE i \notin Z
      <3>1. Z \cap (1 .. i) = Z \cap (1 .. (i - 1))
        BY <1>1, <2>4
      <3>3. C \cup (Z \cap (1 .. i)) = B
        BY <2>1, <3>1
      <3>2. Left(g, v, C \cup (Z \cap (1 .. i)), op(h, i)) /\ op(h, i) \in GraphSet
        BY <2>2, <2>4, <3>3
      <3> HIDE DEF op
      <3> QED BY <1>2, <3>2
    <2> QED BY <2>3, <2>4
  <1>6. \A i \in 1 .. last : \A h \in S[i - 1] : f[i][h] = op(h, i)
    OBVIOUS
  <1> HIDE DEF op, f
  <1>7. PICK a : Looped(a, S, h0, last, f)
    <2> HIDE DEF S
    <2>1. \A i \in 1 .. last : \A h \in S[i - 1] : f[i][h] \in S[i]
      BY <1>5, <1>6
    <2> QED BY <1>1, <1>4, <2>1, Loop
  <1>8. \A i \in 0 .. last : a[i] = IF i = 0 THEN h0 ELSE op(a[i - 1], i)
    <2> HIDE DEF S
    <2>1. \A i \in 0 .. last : a[i] = IF i = 0 THEN h0 ELSE f[i][a[i - 1]]
      BY <1>7 DEF Looped
    <2>2. \A i \in 1 .. last : a[i - 1] \in S[i - 1]
      BY <1>2, <1>7 DEF Looped
    <2>3. \A i \in 0 .. last : i # 0 => i \in 1 .. last
      BY <1>1
    <2> QED BY <1>6, <2>1, <2>2, <2>3
  <1>9. F(a)
    <2>1. a = [i \in 0 .. last |-> a[i]]
      BY <1>7 DEF Looped
    <2> QED BY <1>8, <2>1
  <1>10. PICK after : F(after) /\ ExitNode(g, N, E, h0, n) = after[last]
    <2> HIDE DEF F
    <2> QED BY <1>3, <1>9
  <1> HIDE DEF S
  <1>11. after[0] = h0 /\ \A i \in 1 .. last : after[i] = op(after[i - 1], i)
    <2>1. after = [i \in 0 .. last |-> IF i = 0 THEN h0 ELSE op(after[i - 1], i)]
      BY <1>10
    <2> HIDE DEF F
    <2>2. 0 \in 0 .. last /\ \A i \in 1 .. last : i \in 0 .. last /\ i # 0
      BY <1>1
    <2> QED BY <2>1, <2>2
  <1>12. ExitNode(g, N, E, h0, n) \in S[last]
    <2>1. \A i \in 1 .. last : after[i - 1] \in S[i - 1] => after[i] \in S[i]
      BY <1>5, <1>11
    <2>2. after[last] \in S[last]
      BY <1>1, <1>4, <1>11, <2>1, Stays
    <2> QED BY <1>10, <2>2
  <1> HIDE DEF F
  <1> USE DEF S
  <1>13. Left(g, v, C \cup (Z \cap (1 .. last)), ExitNode(g, N, E, h0, n))
    <2>1. last \in 0 .. last
      BY <1>1
    <2> QED BY <1>12, <2>1
  <1>14. C \cup (Z \cap (1 .. last)) = C \cup Z
    BY <1>1
  <1> HIDE DEF S
  <1> QED
    BY <1>13, <1>14

\* The edges that ExitVirtual goes through for each node, and all of them.
Leaving(g, N, E) == [n \in N |-> {e \in Exits(g, {n}, E) : Snk(g, e) \notin N}]
\* The edges that leave N, and that each node has edges of its own.
AllLeaving(g, N, E) == UNION {Leaving(g, N, E)[n] : n \in N}

\* Sets of which no two share a member.
Apart(Z) == \A m, n \in DOMAIN Z : m # n => Z[m] \cap Z[n] = {}

\* VirtualizeSubgraph replaces all edges that leave N, node by node.
LEMMA ExitVirtualIs ==
  ASSUME NEW g, NEW v, NEW N, N \subseteq NodesMade(g), NEW E,
         NEW X, X = AllLeaving(g, N, E), Exitable(g, v, X), v = Len(g.inner),
         Apart(Leaving(g, N, E))
  PROVE  Left(g, v, X, ExitVirtual(g, N, E))
  <1> DEFINE Z == Leaving(g, N, E)
  <1>0. /\ DOMAIN Z = N /\ X = UNION {Z[n] : n \in N}
        /\ \A m, n \in N : m # n => Z[m] \cap Z[n] = {}
        /\ \A n \in N : Z[n] = {e \in Exits(g, {n}, E) : Snk(g, e) \notin N}
    BY DEF Leaving, AllLeaving, Apart
  <1> HIDE DEF Z
  <1> DEFINE C(i) == UNION {Z[n] : n \in N \cap (1 .. i)}
  <1>1. v \in Nat /\ N \subseteq 1 .. v /\ Shape(g)
    BY Fields DEF Exitable, NodesMade
  <1> DEFINE op(h, i) == IF i \in N THEN ExitNode(g, N, E, h, i) ELSE h
             S == [i \in 0 .. v |-> {h \in GraphSet : Left(g, v, C(i), h)}]
             f == [i \in 1 .. v |-> [h \in S[i - 1] |-> op(h, i)]]
             F(a) == a = [i \in 0 .. v |-> IF i = 0 THEN g ELSE op(a[i - 1], i)]
  <1>2. \A i \in 1 .. v : i \in 0 .. v /\ i - 1 \in 0 .. v /\ i # 0
    BY <1>1
  <1>3. ExitVirtual(g, N, E) = (CHOOSE a : F(a))[v]
    BY <1>1 DEF ExitVirtual, Each, VirtualNodeOf
  <1>4. g \in S[0]
    <2>1. C(0) = {}
      BY <1>1
    <2>2. Left(g, v, {}, g)
      BY <1>1 DEF Left, Kept, Exitable
    <2> QED BY <1>1, <2>1, <2>2 DEF Shape
  <1>5. ASSUME NEW i \in 1 .. v, NEW h \in S[i - 1] PROVE op(h, i) \in S[i]
    <2>1. Left(g, v, C(i - 1), h) /\ h \in GraphSet
      BY <1>1, <1>2
    <2>2. CASE i \in N
      <3>1. C(i) = C(i - 1) \cup Z[i] /\ C(i - 1) \cap Z[i] = {}
        <4>1. /\ N \cap (1 .. i) = (N \cap (1 .. (i - 1))) \cup {i}
              /\ i \notin N \cap (1 .. (i - 1))
          BY <1>1, <2>2
        <4>2. PICK M : M = N \cap (1 .. (i - 1))
          OBVIOUS
        <4>3. C(i) = (UNION {Z[n] : n \in M}) \cup Z[i]
          BY <4>1, <4>2
        <4>4. \A n \in M : Z[n] \cap Z[i] = {}
          BY <1>0, <2>2, <4>1, <4>2
        <4>5. (UNION {Z[n] : n \in M}) \cap Z[i] = {}
          <5> SUFFICES ASSUME NEW e \in UNION {Z[n] : n \in M}, e \in Z[i] PROVE FALSE
            OBVIOUS
          <5>1. PICK n \in M : e \in Z[n]
            OBVIOUS
          <5> QED BY <4>4, <5>1
        <4> QED BY <4>2, <4>3, <4>5
      <3>2. C(i - 1) \subseteq X /\ Z[i] \subseteq X
        BY <1>0, <2>2
      <3>3. PICK B, Y : B = C(i - 1) /\ Y = Z[i]
        OBVIOUS
      <3>4. Left(g, v, B \cup Y, ExitNode(g, N, E, h, i))
        <4>1. /\ Y = {e \in Exits(g, {i}, E) : Snk(g, e) \notin N} /\ Y \subseteq X
              /\ B \subseteq X /\ B \cap Y = {} /\ Left(g, v, B, h)
          BY <1>0, <2>1, <2>2, <3>1, <3>2, <3>3
        <4> QED BY <4>1, ExitNodeIs
      <3>5. Left(g, v, C(i), op(h, i))
        BY <2>2, <3>1, <3>3, <3>4
      <3>6. op(h, i) \in GraphSet
        BY <3>5 DEF Left, Kept, Shape
      <3> HIDE DEF op, C
      <3> QED BY <1>2, <3>5, <3>6
    <2>3. CASE i \notin N
      <3>1. C(i) = C(i - 1)
        <4>1. N \cap (1 .. i) = N \cap (1 .. (i - 1))
          BY <1>1, <2>3
        <4> QED BY <4>1
      <3>2. Left(g, v, C(i), op(h, i)) /\ op(h, i) \in GraphSet
        BY <2>1, <2>3, <3>1
      <3> HIDE DEF op, C
      <3> QED BY <1>2, <3>2
    <2> QED BY <2>2, <2>3
  <1>6. \A i \in 1 .. v : \A h \in S[i - 1] : f[i][h] = op(h, i)
    OBVIOUS
  <1> HIDE DEF op, f
  <1>7. PICK a : Looped(a, S, g, v, f)
    <2> HIDE DEF S
    <2>1. \A i \in 1 .. v : \A h \in S[i - 1] : f[i][h] \in S[i]
      BY <1>5, <1>6
    <2> QED BY <1>1, <1>4, <2>1, Loop
  <1>8. \A i \in 0 .. v : a[i] = IF i = 0 THEN g ELSE op(a[i - 1], i)
    <2> HIDE DEF S
    <2>1. \A i \in 0 .. v : a[i] = IF i = 0 THEN g ELSE f[i][a[i - 1]]
      BY <1>7 DEF Looped
    <2>2. \A i \in 1 .. v : a[i - 1] \in S[i - 1]
      BY <1>2, <1>7 DEF Looped
    <2>3. \A i \in 0 .. v : i # 0 => i \in 1 .. v
      BY <1>1
    <2> QED BY <1>6, <2>1, <2>2, <2>3
  <1>9. F(a)
    <2>1. a = [i \in 0 .. v |-> a[i]]
      BY <1>7 DEF Looped
    <2> QED BY <1>8, <2>1
  <1>10. PICK after : F(after) /\ ExitVirtual(g, N, E) = after[v]
    <2> HIDE DEF F
    <2> QED BY <1>3, <1>9
  <1> HIDE DEF S
  <1>11. after[0] = g /\ \A i \in 1 .. v : after[i] = op(after[i - 1], i)
    <2>1. after = [i \in 0 .. v |-> IF i = 0 THEN g ELSE op(after[i - 1], i)]
      BY <1>10
    <2> HIDE DEF F
    <2>2. 0 \in 0 .. v /\ \A i \in 1 .. v : i \in 0 .. v /\ i # 0
      BY <1>1
    <2> QED BY <2>1, <2>2
  <1>12. ExitVirtual(g, N, E) \in S[v]
    <2>1. \A i \in 1 .. v : after[i - 1] \in S[i - 1] => after[i] \in S[i]
      BY <1>5, <1>11
    <2>2. after[v] \in S[v]
      BY <1>1, <1>4, <1>11, <2>1, Stays
    <2> QED BY <1>10, <2>2
  <1> HIDE DEF F
  <1> USE DEF S
  <1>13. C(v) = X
    <2>1. N \cap (1 .. v) = N
      BY <1>1
    <2> QED BY <1>0, <2>1
  <1> HIDE DEF C
  <1> QED
    BY <1>1, <1>12, <1>13

\* Once the entrances are replaced, the exits can be.
LEMMA EnteredExitable ==
  ASSUME NEW b, NEW v, Readied(b, v), NEW N, NEW E, Replaceable(b, N, E),
         NEW D, D = EnteredFrom(b, N, E),
         NEW h, Entered(b, v, N, D, h),
         NEW X, X = AllLeaving(h, N, E)
  PROVE  /\ Exitable(h, v, X)
         /\ Apart(Leaving(h, N, E))
         /\ X = {e \in b.edges : Src(b, e) \in N /\ Snk(b, e) \notin N}
                \cup {x \in h.pred[v] : Src(h, x) = v}
  <1> DEFINE out == {e \in b.edges : Snk(b, e) \notin N}
             own == {x \in h.pred[v] : Src(h, x) = v}
             Z == Leaving(h, N, E)
  <1>0. /\ DOMAIN Z = N /\ X = UNION {Z[n] : n \in N}
        /\ \A n \in N : Z[n] = {e \in Exits(h, {n}, E) : Snk(h, e) \notin N}
    BY DEF Leaving, AllLeaving
  <1> HIDE DEF Z
  <1>1. /\ Shape(b) /\ Agree(b) /\ v \in NodesMade(b) /\ v \notin b.nodes
        /\ N \subseteq b.nodes /\ E \subseteq b.edges
        /\ b.edges \subseteq EdgesMade(b) /\ b.nodes \subseteq NodesMade(b)
        /\ \A e \in E : Snk(b, e) \in N
    BY DEF Readied, Sound, Shape, Replaceable
  <1>2. /\ Shape(h) /\ h.nodes = b.nodes /\ NodesMade(h) = NodesMade(b)
        /\ \A e \in EdgesMade(b) : Src(h, e) = Src(b, e) /\ Snk(h, e) = Snk(b, e)
        /\ h.succ[v] = {}
        /\ \A x \in h.pred[v] : x \notin EdgesMade(b) /\ Snk(h, x) = v
        /\ \A x, y \in h.pred[v] : Src(h, x) = Src(h, y) => x = y
        /\ \A x \in h.pred[v] : \E n \in D : Src(h, x) = Outer(v, N, n)
    BY DEF Entered, Kept, NodesMade, Src, Snk
  <1>3. D \subseteq b.nodes /\ \A m, n \in D : m \in N /\ n \in N => m = n
    BY <1>1 DEF Agree, Replaceable, EnteredFrom
  <1>4. h.edges = {e \in b.edges : ~ (Src(b, e) \in D /\ Snk(b, e) \in N)} \cup h.pred[v]
    BY DEF Entered
  <1>5. ASSUME NEW n \in N PROVE Z[n] = {e \in out : Src(b, e) = n} \cup IF n \in D THEN own ELSE {}
    <2>1. Z[n] = {e \in h.succ[n] : ~ Has(h, E, e) /\ Snk(h, e) \notin N}
      BY <1>0 DEF Exits
    <2>2. \A e \in h.succ[n] : Snk(h, e) \notin N => ~ Has(h, E, e)
      BY <1>1, <1>2 DEF Has
    <2>3. b.succ[n] = {e \in b.edges : Src(b, e) = n} /\ n \in NodesMade(b) /\ n # v
      BY <1>1 DEF Agree
    <2>4. CASE n \in D
      <3>1. PICK x \in h.pred[v] : /\ Src(h, x) = v
                                   /\ h.succ[n] = {e \in b.succ[n] : Snk(b, e) \notin N} \cup {x}
        BY <2>4 DEF Entered, Outer
      <3>2. own = {x}
        BY <1>2, <3>1
      <3>3. Snk(h, x) \notin N
        BY <1>1, <1>2
      <3>4. \A e \in b.succ[n] : Snk(h, e) = Snk(b, e)
        BY <1>1, <1>2, <2>3
      <3>5. Z[n] = {e \in b.succ[n] : Snk(b, e) \notin N} \cup {x}
        BY <2>1, <2>2, <3>1, <3>3, <3>4
      <3>6. {e \in b.succ[n] : Snk(b, e) \notin N} = {e \in out : Src(b, e) = n}
        BY <2>3
      <3> HIDE DEF out, own
      <3> QED BY <2>4, <3>2, <3>5, <3>6
    <2>5. CASE n \notin D
      <3>1. h.succ[n] = b.succ[n]
        BY <2>3, <2>5 DEF Entered
      <3>2. \A e \in b.succ[n] : Snk(h, e) = Snk(b, e)
        BY <1>1, <1>2, <2>3
      <3> QED BY <2>1, <2>2, <2>3, <2>5, <3>1, <3>2
    <2> QED BY <2>4, <2>5
  <1>6. own # {} => \E n \in D : n \in N
    <2>1. ASSUME NEW x \in own PROVE \E n \in D : n \in N
      <3>1. x \in h.pred[v] /\ Src(h, x) = v
        BY <2>1
      <3> HIDE DEF own, out
      <3>2. PICK n \in D : Outer(v, N, n) = v
        BY <1>2, <3>1
      <3> QED BY <1>1, <1>3, <3>2 DEF Outer
    <2> HIDE DEF own, out
    <2> QED BY <2>1
  <1>7. X = {e \in out : Src(b, e) \in N} \cup own
    <2>1. X \subseteq {e \in out : Src(b, e) \in N} \cup own
      <3> SUFFICES ASSUME NEW e \in X PROVE e \in {d \in out : Src(b, d) \in N} \cup own
        OBVIOUS
      <3>1. PICK n \in N : e \in Z[n]
        BY <1>0
      <3> HIDE DEF own, out
      <3> QED BY <1>5, <3>1
    <2>2. \A e \in out : Src(b, e) \in N => e \in X
      BY <1>0, <1>5
    <2>3. own \subseteq X
      BY <1>0, <1>3, <1>5, <1>6
    <2> QED BY <2>1, <2>2, <2>3
  <1>8. \A m, n \in N : m # n => Z[m] \cap Z[n] = {}
    <2>1. \A e \in own : e \notin out
      BY <1>1, <1>2
    <2> HIDE DEF own, out
    <2> QED BY <1>3, <1>5, <2>1
  <1>9. \A e, f \in h.edges : SameEnds(h, e, f) => e = f
    <2>1. \A e, f \in b.edges : SameEnds(h, e, f) => e = f
      BY <1>1, <1>2 DEF Agree, SameEnds
    <2>2. \A e \in b.edges : \A x \in h.pred[v] : Snk(h, e) # Snk(h, x)
      BY <1>1, <1>2 DEF Agree
    <2>3. \A e, f \in h.pred[v] : SameEnds(h, e, f) => e = f
      BY <1>2 DEF SameEnds
    <2> QED BY <1>4, <2>1, <2>2, <2>3 DEF SameEnds
  <1>10. X \subseteq h.edges
    BY <1>4, <1>7
  <1>11. ASSUME NEW e \in h.edges, Src(h, e) = v PROVE e \in X
    <2>1. e \notin b.edges
      BY <1>1, <1>2, <1>11 DEF Agree
    <2> QED BY <1>4, <1>7, <1>11, <2>1
  <1>12. ASSUME NEW c \in X
         PROVE  /\ Snk(h, c) \in h.nodes \cup {v}
                /\ h.pred[Snk(h, c)] = {e \in h.edges : Snk(h, e) = Snk(h, c)}
                /\ \A m \in h.nodes \cup {v} : c \in h.pred[m] => m = Snk(h, c)
                /\ Src(h, c) = v <=> Snk(h, c) = v
    <2>0. \A m \in b.nodes : h.pred[m] = {e \in b.edges : Snk(b, e) = m}
      BY <1>1 DEF Agree, Entered
    <2>1. CASE c \in own
      <3>1. c \in h.pred[v] /\ Src(h, c) = v /\ Snk(h, c) = v
        BY <1>2, <2>1
      <3>2. h.pred[v] = {e \in h.edges : Snk(h, e) = v}
        <4>1. \A e \in b.edges : Snk(h, e) # v
          BY <1>1, <1>2 DEF Agree
        <4> QED BY <1>2, <1>4, <4>1
      <3>3. \A m \in b.nodes : c \notin h.pred[m]
        BY <1>1, <1>2, <2>0, <3>1
      <3> QED BY <1>2, <3>1, <3>2, <3>3
    <2>2. CASE c \in out /\ Src(b, c) \in N
      <3>1. /\ c \in b.edges /\ Snk(b, c) \notin N
            /\ Src(h, c) = Src(b, c) /\ Snk(h, c) = Snk(b, c)
        BY <1>1, <1>2, <2>2
      <3>2. Snk(b, c) \in b.nodes /\ Src(b, c) \in b.nodes
        BY <1>1, <3>1 DEF Agree
      <3>3. \A e \in h.pred[v] : Snk(h, e) # Snk(b, c)
        BY <1>1, <1>2, <3>2
      <3>4. h.pred[Snk(b, c)] = {e \in h.edges : Snk(h, e) = Snk(b, c)}
        <4>1. {e \in h.edges : Snk(h, e) = Snk(b, c)} = {e \in b.edges : Snk(b, e) = Snk(b, c)}
          BY <1>1, <1>2, <1>4, <3>1, <3>3
        <4> QED BY <2>0, <3>2, <4>1
      <3>5. c \notin h.pred[v]
        BY <1>1, <1>2, <3>1
      <3> QED BY <1>1, <1>2, <2>0, <3>1, <3>2, <3>4, <3>5
    <2> QED BY <1>7, <2>1, <2>2
  <1>13. Exitable(h, v, X)
    BY <1>1, <1>2, <1>9, <1>10, <1>11, <1>12 DEF Exitable
  <1> QED
    BY <1>0, <1>7, <1>8, <1>13 DEF Apart, Z

-----------------------------------------------------------------------------
(* VirtualizeSubgraph: what it leaves *)

\* e leads into v, and is as frequent as all edges there were from n into N.
EntersAt(g, N, r, v, e, n) ==
  /\ Src(r, e) = Outer(v, N, n) /\ Snk(r, e) = v
  /\ Freq(r, e) = TotalFreq(g, Into(g, n, N))

\* e leads out of v, and is as frequent as the edge c out of N.
LeavesBy(g, N, r, v, e, c) ==
  /\ Src(r, e) = v /\ Snk(r, e) = Snk(g, c) /\ Freq(r, e) = Freq(g, c)
  /\ Src(g, c) \in N /\ Snk(g, c) \notin N

\* An edge of the new graph is an old one; or one into v, as frequent as all there
\* were from a node into N; or one out of v, as frequent as one there was out of N.
Derived(g, N, r, v, e) ==
  \/ /\ e \in g.edges /\ r.end[e] = g.end[e]
     /\ Src(g, e) \notin N /\ Snk(g, e) \notin N
  \/ \E n \in g.nodes : EntersAt(g, N, r, v, e, n)
  \/ \E c \in g.edges : LeavesBy(g, N, r, v, e, c)

\* The nodes N have made place for one node, and the edges apart from them are
\* still there.
Virtualized(g, N, E, r) ==
  LET v == Len(g.inner) + 1
  IN  /\ Sound(r)
      /\ Len(r.inner) = v
      /\ r.nodes = (g.nodes \ N) \cup {v}
      /\ r.inner[v] = [nodes |-> N, edges |-> E]
      /\ r.blocks[v] = UNION {g.blocks[n] : n \in N}
      /\ \A n \in NodesMade(g) : r.inner[n] = g.inner[n] /\ r.blocks[n] = g.blocks[n]
      /\ \A e \in EdgesMade(g) : e \in EdgesMade(r) /\ r.end[e] = g.end[e]
      /\ {e \in r.edges : Src(r, e) # v /\ Snk(r, e) # v}
         = {e \in g.edges : Src(g, e) \notin N /\ Snk(g, e) \notin N}
      /\ \A e \in r.edges : Derived(g, N, r, v, e)

\* A sound graph stays sound when a replaceable part of it becomes one node
\* (Transforms.cpp:691-807): the new node replaces N and only N, and every edge is an old one
\* with both ends outside or a new one with v at an end.
LEMMA VirtualizeSubgraphIs ==
  ASSUME NEW g, Sound(g), NEW N, NEW E, Replaceable(g, N, E)
  PROVE  Virtualized(g, N, E, VirtualizeSubgraph(g, N, E))
  <1> DEFINE v == Len(g.inner) + 1
  <1>1. PICK b : b = MakeVirtualNode(g, N, E)
    OBVIOUS
  <1>2. PICK h : h = EnterVirtual(b, N, E)
    OBVIOUS
  <1>3. PICK k : k = ExitVirtual(h, N, E)
    OBVIOUS
  <1>4. PICK r : r = Detach(k, N, E)
    OBVIOUS
  <1>5. r = VirtualizeSubgraph(g, N, E)
    BY <1>1, <1>2, <1>3, <1>4 DEF VirtualizeSubgraph
  <1>6. N \subseteq g.nodes /\ E \subseteq g.edges /\ \A e \in E : Src(g, e) \in N /\ Snk(g, e) \in N
    BY DEF Replaceable
  <1>7. /\ Readied(b, v)
        /\ b.nodes = g.nodes /\ b.edges = g.edges /\ b.end = g.end
        /\ Len(b.inner) = v
        /\ b.inner[v] = [nodes |-> N, edges |-> E]
        /\ b.blocks[v] = UNION {g.blocks[n] : n \in N}
        /\ \A n \in NodesMade(g) : /\ b.inner[n] = g.inner[n] /\ b.blocks[n] = g.blocks[n]
                                   /\ b.succ[n] = g.succ[n]
    BY <1>1, <1>6, MakeVirtualNodeIs
  <1> HIDE DEF v
  <1>8. \A e : Src(b, e) = Src(g, e) /\ Snk(b, e) = Snk(g, e)
    BY <1>7 DEF Src, Snk
  <1>9. Replaceable(b, N, E)
    BY <1>7, <1>8 DEF Replaceable
  <1>10. PICK D : D = EnteredFrom(b, N, E)
    OBVIOUS
  <1>11. Entered(b, v, N, D, h)
    BY <1>2, <1>7, <1>9, <1>10, EnterVirtualIs
  <1>12. PICK X : X = AllLeaving(h, N, E)
    OBVIOUS
  <1>14. /\ Exitable(h, v, X)
         /\ Apart(Leaving(h, N, E))
         /\ X = {e \in b.edges : Src(b, e) \in N /\ Snk(b, e) \notin N}
                \cup {x \in h.pred[v] : Src(h, x) = v}
    BY <1>7, <1>9, <1>10, <1>11, <1>12, EnteredExitable
  <1>15. /\ Shape(h) /\ h.nodes = b.nodes /\ h.inner = b.inner /\ h.blocks = b.blocks
         /\ NodesMade(h) = NodesMade(b)
         /\ Len(b.end) <= Len(h.end)
         /\ \A e \in EdgesMade(b) : h.end[e] = b.end[e]
    BY <1>11 DEF Entered, Kept, NodesMade
  <1>16. Left(h, v, X, k)
    <2>1. v = Len(h.inner) /\ N \subseteq NodesMade(h)
      BY <1>6, <1>7, <1>15 DEF Shape
    <2> QED BY <1>3, <1>12, <1>14, <2>1, ExitVirtualIs
  <1>17. /\ Shape(k) /\ k.nodes = g.nodes /\ k.inner = b.inner /\ k.blocks = b.blocks
         /\ NodesMade(k) = NodesMade(b)
         /\ Len(h.end) <= Len(k.end)
         /\ \A e \in EdgesMade(h) : k.end[e] = h.end[e]
    BY <1>7, <1>15, <1>16 DEF Left, Kept, NodesMade
  <1>18. /\ Len(g.end) \in Nat /\ Len(h.end) \in Nat /\ Len(k.end) \in Nat /\ v \in Nat
         /\ g.edges \subseteq EdgesMade(g) /\ v \notin g.nodes
    <2>1. Len(b.end) \in Nat /\ b.edges \subseteq EdgesMade(b) /\ v \in NodesMade(b)
      BY <1>7, Fields DEF Readied, Sound, Shape
    <2>2. Len(h.end) \in Nat /\ Len(k.end) \in Nat
      BY <1>15, <1>17, Fields
    <2> QED BY <1>7, <2>1, <2>2 DEF Readied, EdgesMade, NodesMade
  <1>19. /\ EdgesMade(g) \subseteq EdgesMade(h) /\ EdgesMade(h) \subseteq EdgesMade(k)
         /\ \A e \in EdgesMade(g) : k.end[e] = g.end[e]
    <2>1. EdgesMade(g) \subseteq EdgesMade(h) /\ EdgesMade(h) \subseteq EdgesMade(k)
      BY <1>7, <1>15, <1>17, <1>18 DEF EdgesMade
    <2>2. EdgesMade(b) = EdgesMade(g)
      BY <1>7 DEF EdgesMade
    <2>3. \A e \in EdgesMade(g) : k.end[e] = h.end[e] /\ h.end[e] = b.end[e] /\ b.end[e] = g.end[e]
      BY <1>7, <1>15, <1>17, <2>1, <2>2
    <2> QED BY <2>1, <2>3
  <1>20. /\ r.nodes = (g.nodes \ N) \cup {v} /\ r.edges = Erase(k, k.edges, E)
         /\ r.pred = k.pred /\ r.succ = k.succ /\ r.end = k.end
         /\ r.inner = k.inner /\ r.blocks = k.blocks
         /\ r = [k EXCEPT !.nodes = r.nodes, !.edges = r.edges]
    <2>1. VirtualNodeOf(k) = v
      BY <1>7, <1>17 DEF VirtualNodeOf
    <2>2. PICK m, d : m = (k.nodes \ N) \cup {v} /\ d = Erase(k, k.edges, E)
      OBVIOUS
    <2>3. r = [k EXCEPT !.nodes = m, !.edges = d]
      BY <1>4, <2>1, <2>2 DEF Detach
    <2>4. k \in GraphSet
      BY <1>17 DEF Shape
    <2> QED BY <1>17, <2>2, <2>3, <2>4 DEF GraphSet
  <1>21. \A e : Src(r, e) = Src(k, e) /\ Snk(r, e) = Snk(k, e)
    BY <1>20 DEF Src, Snk
  <1> DEFINE A == {e \in g.edges : Src(g, e) \notin N /\ Snk(g, e) \notin N}
             P == {x \in h.pred[v] : Src(h, x) # v}
             Y == k.succ[v]
  <1>22. \A e \in g.edges : /\ Src(r, e) = Src(g, e) /\ Snk(r, e) = Snk(g, e)
                            /\ Src(g, e) \in g.nodes /\ Snk(g, e) \in g.nodes
                            /\ Src(r, e) # v /\ Snk(r, e) # v
    BY <1>18, <1>19, <1>21 DEF Src, Snk, Sound, Agree
  <1>23. ASSUME NEW x \in h.pred[v]
         PROVE  /\ x \in EdgesMade(k) /\ x \notin EdgesMade(g)
                /\ Src(r, x) = Src(h, x) /\ Snk(r, x) = v
                /\ \E d \in D : Src(h, x) = Outer(v, N, d)
    <2>1. /\ x \in EdgesMade(h) \ EdgesMade(b) /\ Snk(h, x) = v
          /\ \E d \in D : Src(h, x) = Outer(v, N, d)
      BY <1>11 DEF Entered
    <2> QED BY <1>7, <1>17, <1>19, <1>21, <2>1 DEF EdgesMade, Src, Snk
  <1>24. ASSUME NEW y \in Y
         PROVE  /\ y \in EdgesMade(k) /\ y \notin EdgesMade(h)
                /\ Src(r, y) = v /\ Snk(r, y) = Snk(k, y)
                /\ Snk(r, y) \in (g.nodes \ N) \cup {v}
    <2>1. /\ y \in EdgesMade(k) \ EdgesMade(h) /\ Src(k, y) = v
          /\ \E c \in X : Snk(k, y) = Snk(h, c)
      BY <1>16 DEF Left
    <2>2. PICK c \in X : Snk(k, y) = Snk(h, c)
      BY <2>1
    <2>3. CASE c \in b.edges /\ Snk(b, c) \notin N
      <3>1. Snk(h, c) = Snk(g, c)
        BY <1>7, <1>15, <1>18, <2>3 DEF EdgesMade, Snk
      <3> QED BY <1>7, <1>8, <1>21, <1>22, <2>1, <2>2, <2>3, <3>1
    <2>4. CASE c \in h.pred[v]
      <3>1. Snk(h, c) = v
        BY <1>11, <2>4 DEF Entered
      <3> QED BY <1>21, <2>1, <2>2, <3>1
    <2> QED BY <1>14, <2>3, <2>4
  <1>25. D \subseteq g.nodes /\ \A m, n \in D : m \in N /\ n \in N => m = n
    BY <1>7, <1>8, <1>9, <1>10, <1>22 DEF Replaceable, EnteredFrom
  <1>26. \A x \in P : Src(h, x) \in D \ N /\ Src(h, x) \in g.nodes
    BY <1>23, <1>25 DEF Outer
  <1>27. k.edges = (h.edges \ X) \cup Y
    BY <1>16 DEF Left
  <1>28. h.edges = {e \in g.edges : ~ (Src(g, e) \in D /\ Snk(g, e) \in N)} \cup h.pred[v]
    BY <1>7, <1>8, <1>11 DEF Entered
  <1>29. X = {e \in g.edges : Src(g, e) \in N /\ Snk(g, e) \notin N}
             \cup {x \in h.pred[v] : Src(h, x) = v}
    BY <1>7, <1>8, <1>14
  <1> HIDE DEF Y
  <1>30. k.edges = {e \in g.edges : /\ ~ (Src(g, e) \in D /\ Snk(g, e) \in N)
                                    /\ ~ (Src(g, e) \in N /\ Snk(g, e) \notin N)}
                   \cup P \cup Y
    <2>1. h.pred[v] \cap g.edges = {}
      BY <1>18, <1>23
    <2> QED BY <1>27, <1>28, <1>29, <2>1
  <1>31. r.edges = {e \in k.edges : e \notin E}
    <2>1. ASSUME NEW e \in k.edges PROVE Has(k, E, e) <=> e \in E
      <3>1. CASE e \in g.edges
        <4>1. \A f \in g.edges : SameEnds(g, e, f) => e = f
          BY <3>1 DEF Sound, Agree
        <4> QED BY <1>6, <1>21, <1>22, <3>1, <4>1 DEF Has, SameEnds
      <3>2. CASE e \in P \cup Y
        <4>1. (Src(k, e) = v \/ Snk(k, e) = v) /\ e \notin g.edges
          BY <1>18, <1>19, <1>21, <1>23, <1>24, <3>2
        <4> QED BY <1>6, <1>21, <1>22, <4>1 DEF Has
      <3> QED BY <1>30, <3>1, <3>2
    <2> QED BY <1>20, <2>1 DEF Erase
  <1>32. r.edges = A \cup P \cup Y
    <2>1. \A e \in P \cup Y : e \notin E
      BY <1>6, <1>18, <1>19, <1>23, <1>24
    <2>2. \A e \in g.edges : Snk(g, e) \in N /\ e \notin E => Src(g, e) \in D
      BY <1>7, <1>8, <1>10 DEF EnteredFrom
    <2>3. \A e \in A : e \notin E
      BY <1>6
    <2> HIDE DEF P
    <2> QED BY <1>30, <1>31, <2>1, <2>2, <2>3
  <1>33. /\ A \cap P = {} /\ A \cap Y = {} /\ P \cap Y = {}
         /\ \A e \in A : /\ Src(r, e) = Src(g, e) /\ Snk(r, e) = Snk(g, e)
                         /\ Src(r, e) \in g.nodes \ N /\ Snk(r, e) \in g.nodes \ N
         /\ \A x \in P : /\ Src(r, x) = Src(h, x) /\ Snk(r, x) = v
                         /\ Src(r, x) \in g.nodes \ N
         /\ \A y \in Y : Src(r, y) = v /\ Snk(r, y) \in (g.nodes \ N) \cup {v}
    <2>1. \A x \in P : x \in h.pred[v]
      OBVIOUS
    <2>2. \A x \in P : /\ Src(r, x) = Src(h, x) /\ Snk(r, x) = v
                       /\ Src(r, x) \in g.nodes \ N
      BY <1>23, <1>26, <2>1
    <2>3. \A e \in A : /\ Src(r, e) = Src(g, e) /\ Snk(r, e) = Snk(g, e)
                       /\ Src(r, e) \in g.nodes \ N /\ Snk(r, e) \in g.nodes \ N
      BY <1>22
    <2> HIDE DEF A, P
    <2> QED BY <1>18, <1>24, <2>2, <2>3
  <1>34. /\ \A x, y \in P : Src(r, x) = Src(r, y) => x = y
         /\ \A x, y \in Y : Snk(r, x) = Snk(r, y) => x = y
         /\ \A x, y \in A : SameEnds(r, x, y) => x = y
    <2>1. \A x, y \in h.pred[v] : Src(h, x) = Src(h, y) => x = y
      BY <1>11 DEF Entered
    <2>2. \A x, y \in k.succ[v] : Snk(k, x) = Snk(k, y) => x = y
      BY <1>16 DEF Left
    <2>3. \A x, y \in A : SameEnds(g, x, y) => x = y
      BY DEF Sound, Agree
    <2>4. \A x, y \in Y : Snk(r, x) = Snk(r, y) => x = y
      BY <1>21, <2>2 DEF Y
    <2>5. \A x, y \in P : Src(r, x) = Src(r, y) => x = y
      BY <1>33, <2>1
    <2>6. \A x, y \in A : SameEnds(r, x, y) => x = y
      BY <1>33, <2>3 DEF SameEnds
    <2> QED BY <2>4, <2>5, <2>6
  <1>35. \A n \in g.nodes \ N : r.succ[n] = {e \in r.edges : Src(r, e) = n}
    <2> SUFFICES ASSUME NEW n \in g.nodes \ N PROVE r.succ[n] = {e \in r.edges : Src(r, e) = n}
      OBVIOUS
    <2>1. n # v /\ n \in NodesMade(b) /\ n \in NodesMade(h)
      BY <1>7, <1>15, <1>18 DEF Readied, Sound, Shape
    <2>2. r.succ[n] = h.succ[n]
      BY <1>16, <1>20, <2>1 DEF Left
    <2>3. b.succ[n] = {e \in g.edges : Src(g, e) = n}
      BY <1>7, <1>8 DEF Readied, Sound, Agree
    <2>4. {e \in r.edges : Src(r, e) = n} = {e \in A : Src(g, e) = n} \cup {x \in P : Src(h, x) = n}
      <3> HIDE DEF A, P
      <3> QED BY <1>32, <1>33, <2>1
    <2>5. {e \in A : Src(g, e) = n} = {e \in b.succ[n] : Snk(b, e) \notin N}
      BY <1>8, <2>3
    <2>6. CASE n \in D
      <3>1. PICK x \in h.pred[v] : /\ Src(h, x) = n
                                   /\ h.succ[n] = {e \in b.succ[n] : Snk(b, e) \notin N} \cup {x}
        BY <1>11, <2>6 DEF Entered, Outer
      <3>2. x \in P /\ \A y \in P : Src(h, y) = n => y = x
        BY <1>33, <1>34, <2>1, <3>1
      <3> HIDE DEF A, P
      <3> QED BY <2>2, <2>4, <2>5, <3>1, <3>2
    <2>7. CASE n \notin D
      <3>1. h.succ[n] = b.succ[n]
        BY <1>11, <2>1, <2>7 DEF Entered
      <3>2. \A x \in P : Src(h, x) # n
        BY <1>26, <2>7
      <3>3. \A e \in b.succ[n] : Snk(b, e) \notin N
        BY <1>6, <1>7, <1>8, <1>10, <2>3, <2>7 DEF EnteredFrom
      <3> HIDE DEF A, P
      <3> QED BY <2>2, <2>4, <2>5, <3>1, <3>2, <3>3
    <2> QED BY <2>6, <2>7
  <1>36. \A n \in g.nodes \ N : r.pred[n] = {e \in r.edges : Snk(r, e) = n}
    <2> SUFFICES ASSUME NEW n \in g.nodes \ N PROVE r.pred[n] = {e \in r.edges : Snk(r, e) = n}
      OBVIOUS
    <2>1. n # v /\ n \in NodesMade(b) /\ n \in h.nodes
      BY <1>7, <1>15, <1>18 DEF Readied, Sound, Shape
    <2>2. r.pred[n] = (h.pred[n] \ X) \cup {y \in Y : Snk(k, y) = n}
      BY <1>16, <1>20, <2>1 DEF Left, Y
    <2>3. h.pred[n] = {e \in g.edges : Snk(g, e) = n}
      BY <1>7, <1>8, <1>11, <2>1 DEF Readied, Sound, Agree, Entered
    <2>4. {e \in r.edges : Snk(r, e) = n} = {e \in A : Snk(g, e) = n} \cup {y \in Y : Snk(r, y) = n}
      <3> HIDE DEF A, P
      <3> QED BY <1>32, <1>33, <2>1
    <2>5. h.pred[n] \ X = {e \in A : Snk(g, e) = n}
      <3>1. h.pred[v] \cap g.edges = {}
        BY <1>18, <1>23
      <3> QED BY <1>29, <2>3, <3>1
    <2> HIDE DEF A
    <2> QED BY <1>24, <2>2, <2>4, <2>5
  <1>37. r.succ[v] = {e \in r.edges : Src(r, e) = v}
    <2>1. r.succ[v] = Y
      BY <1>20 DEF Y
    <2> HIDE DEF A, P
    <2> QED BY <1>18, <1>32, <1>33, <2>1
  <1>38. r.pred[v] = {e \in r.edges : Snk(r, e) = v}
    <2>1. r.pred[v] = (h.pred[v] \ X) \cup {y \in Y : Snk(k, y) = v}
      BY <1>16, <1>20 DEF Left, Y
    <2>2. h.pred[v] \ X = P
      <3>1. h.pred[v] \cap g.edges = {}
        BY <1>18, <1>23
      <3> QED BY <1>29, <3>1
    <2> HIDE DEF A, P
    <2> QED BY <1>18, <1>24, <1>32, <1>33, <2>1, <2>2
  <1>39. Agree(r)
    <2>1. \A e \in r.edges : Src(r, e) \in r.nodes /\ Snk(r, e) \in r.nodes
      <3> HIDE DEF A, P
      <3> QED BY <1>20, <1>32, <1>33
    <2>2. \A e, f \in r.edges : SameEnds(r, e, f) => e = f
      <3> HIDE DEF A, P
      <3> QED BY <1>18, <1>32, <1>33, <1>34 DEF SameEnds
    <2> QED BY <1>20, <1>35, <1>36, <1>37, <1>38, <2>1, <2>2 DEF Agree
  <1>40. Shape(r)
    <2>1. A \subseteq EdgesMade(k)
      BY <1>18, <1>19
    <2>2. r.edges \subseteq EdgesMade(k)
      BY <1>23, <1>24, <1>32, <2>1
    <2>3. r.nodes \subseteq NodesMade(k)
      BY <1>7, <1>17, <1>20 DEF Shape, Readied
    <2>4. r.edges \in SUBSET Nat /\ r.nodes \in SUBSET Nat
      BY <2>2, <2>3 DEF EdgesMade, NodesMade
    <2>5. r \in GraphSet
      BY <1>17, <1>20, <2>4 DEF Shape, GraphSet
    <2> QED BY <1>17, <1>20, <2>2, <2>3, <2>5 DEF Shape, NodesMade, EdgesMade
  <1>41. {e \in r.edges : Src(r, e) # v /\ Snk(r, e) # v} = A
    <2> HIDE DEF A, P
    <2> QED BY <1>18, <1>32, <1>33
  <1>42. \A e \in EdgesMade(g) : e \in EdgesMade(r) /\ r.end[e] = g.end[e]
    BY <1>19, <1>20 DEF EdgesMade
  <1>43. /\ Len(r.inner) = v /\ r.inner = b.inner /\ r.blocks = b.blocks
    BY <1>7, <1>17, <1>20
  <1>44. ASSUME NEW x \in h.pred[v] PROVE \E n \in g.nodes : EntersAt(g, N, r, v, x, n)
    <2>1. PICK d \in D : /\ Src(h, x) = Outer(v, N, d)
                         /\ Freq(h, x) = TotalFreq(b, Into(b, d, N))
      BY <1>11 DEF Entered
    <2>2. x \in EdgesMade(h) /\ Src(r, x) = Src(h, x) /\ Snk(r, x) = v
      BY <1>11, <1>23 DEF Entered
    <2>3. Freq(r, x) = Freq(h, x)
      BY <1>17, <1>20, <2>2 DEF Freq
    <2>4. d \in g.nodes /\ d \in NodesMade(g)
      BY <1>25 DEF Sound, Shape
    <2>5. PICK I : I = Into(b, d, N)
      OBVIOUS
    <2>6. I = Into(g, d, N)
      BY <1>7, <1>8, <2>4, <2>5 DEF Into
    <2>7. I \subseteq EdgesMade(g) /\ EdgesMade(b) = EdgesMade(g)
      BY <1>7, <1>18, <2>4, <2>6 DEF Into, Sound, Agree, EdgesMade
    <2>8. TotalFreq(b, I) = TotalFreq(g, I)
      BY <1>7, <2>7, TotalFreqSame DEF Readied, Sound
    <2> QED BY <2>1, <2>2, <2>3, <2>4, <2>5, <2>6, <2>8 DEF EntersAt
  <1>45. ASSUME NEW y \in Y PROVE Derived(g, N, r, v, y)
    <2>1. PICK c \in X : /\ Src(k, y) = v /\ Snk(k, y) = Snk(h, c)
                         /\ Freq(k, y) = Freq(h, c)
      BY <1>16 DEF Left, Y
    <2>2. Src(r, y) = v /\ Snk(r, y) = Snk(h, c) /\ Freq(r, y) = Freq(h, c)
      BY <1>20, <1>21, <2>1 DEF Freq
    <2>3. CASE c \in g.edges /\ Src(g, c) \in N /\ Snk(g, c) \notin N
      <3>1. Snk(h, c) = Snk(g, c) /\ Freq(h, c) = Freq(g, c)
        BY <1>7, <1>15, <1>18, <2>3 DEF EdgesMade, Snk, Freq
      <3> QED BY <2>2, <2>3, <3>1 DEF Derived, LeavesBy
    <2>4. CASE c \in h.pred[v] /\ Src(h, c) = v
      <3>1. PICK n \in g.nodes : EntersAt(g, N, r, v, c, n)
        BY <1>44, <2>4
      <3>2. c \in EdgesMade(h) /\ Src(r, c) = Src(h, c) /\ Snk(r, c) = v /\ Snk(h, c) = v
        BY <1>11, <1>23, <2>4 DEF Entered
      <3>3. Freq(r, c) = Freq(h, c)
        BY <1>17, <1>20, <3>2 DEF Freq
      <3>4. EntersAt(g, N, r, v, y, n)
        BY <2>2, <2>4, <3>1, <3>2, <3>3 DEF EntersAt
      <3> QED BY <3>4 DEF Derived
    <2> QED BY <1>29, <2>3, <2>4
  <1>46. ASSUME NEW e \in r.edges PROVE Derived(g, N, r, v, e)
    <2>1. CASE e \in A
      BY <1>18, <1>42, <2>1 DEF Derived
    <2>2. CASE e \in P
      BY <1>44, <2>2 DEF Derived
    <2>3. CASE e \in Y
      BY <1>45, <2>3
    <2> HIDE DEF A, P
    <2> QED BY <1>32, <2>1, <2>2, <2>3
  <1> QED
    BY <1>5, <1>7, <1>20, <1>39, <1>40, <1>41, <1>42, <1>43, <1>46 DEF Virtualized, Sound, v

-----------------------------------------------------------------------------
(* What the transforms find can be replaced *)

\* The nodes and the edges of a graph are finitely many.
LEMMA FiniteParts ==
  ASSUME NEW g, Shape(g)
  PROVE  /\ IsFiniteSet(g.nodes) /\ IsFiniteSet(g.edges)
         /\ Cardinality(g.nodes) \in Nat /\ Cardinality(g.edges) \in Nat
  <1>1. Len(g.inner) \in Int /\ Len(g.end) \in Int /\ 1 \in Int
    BY Fields
  <1>2. IsFiniteSet(NodesMade(g)) /\ IsFiniteSet(EdgesMade(g))
    BY <1>1, FS_Interval, Zenon DEF NodesMade, EdgesMade
  <1>3. g.nodes \subseteq NodesMade(g) /\ g.edges \subseteq EdgesMade(g)
    BY DEF Shape
  <1>4. IsFiniteSet(g.nodes) /\ IsFiniteSet(g.edges)
    BY <1>2, <1>3, FS_Subset
  <1> QED
    BY <1>4, FS_CardinalityType

\* A set of one has one member.
LEMMA OnlyOne ==
  ASSUME NEW S, IsFiniteSet(S), Cardinality(S) = 1
  PROVE  \A x, y \in S : x = y
  <1>1. S # {}
    BY FS_EmptySet
  <1>2. PICK x : x \in S
    BY <1>1
  <1>3. IsFiniteSet(S \ {x}) /\ Cardinality(S \ {x}) = 0
    BY <1>2, FS_RemoveElement
  <1>4. S \ {x} = {}
    BY <1>3, FS_EmptySet
  <1> QED
    BY <1>4

\* A chain so far: all that leaves its nodes but the last one is in it.
Chaining(g, c) ==
  /\ c \in [last : Nat, nodes : SUBSET Nat, edges : SUBSET Nat]
  /\ c.last \in g.nodes /\ c.nodes \subseteq g.nodes /\ c.edges \subseteq g.edges
  /\ \A e \in c.edges : Src(g, e) \in c.nodes /\ Snk(g, e) \in c.nodes
  /\ \A e \in g.edges : Src(g, e) \in c.nodes /\ Src(g, e) # c.last => e \in c.edges
  /\ c.nodes = {} => c.edges = {}

\* One more link leaves a chain.
LEMMA LinkKeeps ==
  ASSUME NEW g, Sound(g), NEW c, Chaining(g, c)
  PROVE  Chaining(g, Link(g, c))
  <1>1. CASE ~ \E t \in SuccNodes(g, c.last) : Chained(g, c.last, t)
    BY <1>1 DEF Link
  <1>2. CASE \E t \in SuccNodes(g, c.last) : Chained(g, c.last, t)
    <2> DEFINE s == c.last
               t == CHOOSE t \in SuccNodes(g, s) : Chained(g, s, t)
               d == [last |-> t, nodes |-> c.nodes \cup {s, t}, edges |-> c.edges \cup g.succ[s]]
    <2>1. t \in SuccNodes(g, s) /\ Chained(g, s, t)
      BY <1>2
    <2>2. Link(g, c) = d
      BY <1>2 DEF Link
    <2> HIDE DEF t
    <2>3. /\ s \in g.nodes /\ g.nodes \subseteq Nat /\ g.edges \subseteq Nat
          /\ g.succ[s] = {e \in g.edges : Src(g, e) = s}
      BY Fields DEF Chaining, Sound, Agree
    <2>4. \A e \in g.succ[s] : Snk(g, e) = t
      BY <2>1 DEF Chained
    <2>5. t \in g.nodes
      BY <2>1, <2>3 DEF SuccNodes, Sinks, Sound, Agree
    <2>6. d \in [last : Nat, nodes : SUBSET Nat, edges : SUBSET Nat]
      BY <2>3, <2>5 DEF Chaining
    <2>7. /\ d.last = t /\ d.nodes = c.nodes \cup {s, t} /\ d.edges = c.edges \cup g.succ[s]
      OBVIOUS
    <2> HIDE DEF d
    <2>8. /\ d.nodes \subseteq g.nodes /\ d.edges \subseteq g.edges
          /\ \A e \in d.edges : Src(g, e) \in d.nodes /\ Snk(g, e) \in d.nodes
          /\ \A e \in g.edges : Src(g, e) \in d.nodes /\ Src(g, e) # t => e \in d.edges
      BY <2>3, <2>4, <2>5, <2>7 DEF Chaining
    <2> QED BY <2>2, <2>5, <2>6, <2>7, <2>8 DEF Chaining
  <1> QED
    BY <1>1, <1>2

\* What TrivialTransforms collects is a part of the graph, and its last node is in it.
LEMMA ChainIs ==
  ASSUME NEW g, Sound(g), NEW s \in g.nodes
  PROVE  Chaining(g, Chain(g, s))
  <1> DEFINE last == Cardinality(g.nodes)
             c0 == [last |-> s, nodes |-> {}, edges |-> {}]
  <1>1. last \in Nat /\ g.nodes \subseteq Nat
    BY FiniteParts, Fields DEF Sound
  <1> HIDE DEF last
  <1> DEFINE op(h, i) == IF i \in 1 .. last THEN Link(g, h) ELSE h
             S == [i \in 0 .. last |-> {h \in [last : Nat, nodes : SUBSET Nat, edges : SUBSET Nat] : Chaining(g, h)}]
             f == [i \in 1 .. last |-> [h \in S[i - 1] |-> op(h, i)]]
             F(a) == a = [i \in 0 .. last |-> IF i = 0 THEN c0 ELSE op(a[i - 1], i)]
  <1>2. \A i \in 1 .. last : i \in 0 .. last /\ i - 1 \in 0 .. last /\ i # 0
    BY <1>1
  <1>3. Chain(g, s) = (CHOOSE a : F(a))[last]
    BY <1>1 DEF Chain, Each, last
  <1>4. c0 \in S[0]
    <2>1. Chaining(g, c0)
      BY <1>1 DEF Chaining
    <2> QED BY <1>1, <2>1 DEF Chaining
  <1>5. ASSUME NEW i \in 1 .. last, NEW h \in S[i - 1] PROVE op(h, i) \in S[i]
    <2>1. Chaining(g, h) /\ op(h, i) = Link(g, h)
      BY <1>1, <1>2
    <2>2. Chaining(g, op(h, i))
      BY <2>1, LinkKeeps
    <2>3. op(h, i) \in [last : Nat, nodes : SUBSET Nat, edges : SUBSET Nat]
      BY <2>2 DEF Chaining
    <2> HIDE DEF op
    <2> QED BY <1>2, <2>2, <2>3
  <1>6. \A i \in 1 .. last : \A h \in S[i - 1] : f[i][h] = op(h, i)
    OBVIOUS
  <1> HIDE DEF op, f
  <1>7. PICK a : Looped(a, S, c0, last, f)
    <2> HIDE DEF S
    <2>1. \A i \in 1 .. last : \A h \in S[i - 1] : f[i][h] \in S[i]
      BY <1>5, <1>6
    <2> QED BY <1>1, <1>4, <2>1, Loop
  <1>8. \A i \in 0 .. last : a[i] = IF i = 0 THEN c0 ELSE op(a[i - 1], i)
    <2> HIDE DEF S
    <2>1. \A i \in 0 .. last : a[i] = IF i = 0 THEN c0 ELSE f[i][a[i - 1]]
      BY <1>7 DEF Looped
    <2>2. \A i \in 1 .. last : a[i - 1] \in S[i - 1]
      BY <1>2, <1>7 DEF Looped
    <2>3. \A i \in 0 .. last : i # 0 => i \in 1 .. last
      BY <1>1
    <2> QED BY <1>6, <2>1, <2>2, <2>3
  <1>9. F(a)
    <2>1. a = [i \in 0 .. last |-> a[i]]
      BY <1>7 DEF Looped
    <2> QED BY <1>8, <2>1
  <1>10. PICK after : F(after) /\ Chain(g, s) = after[last]
    <2> HIDE DEF F
    <2> QED BY <1>3, <1>9
  <1> HIDE DEF S
  <1>11. after[0] = c0 /\ \A i \in 1 .. last : after[i] = op(after[i - 1], i)
    <2>1. after = [i \in 0 .. last |-> IF i = 0 THEN c0 ELSE op(after[i - 1], i)]
      BY <1>10
    <2> HIDE DEF F
    <2>2. 0 \in 0 .. last /\ \A i \in 1 .. last : i \in 0 .. last /\ i # 0
      BY <1>1
    <2> QED BY <2>1, <2>2
  <1>12. Chain(g, s) \in S[last]
    <2>1. \A i \in 1 .. last : after[i - 1] \in S[i - 1] => after[i] \in S[i]
      BY <1>5, <1>11
    <2>2. after[last] \in S[last]
      BY <1>1, <1>4, <1>11, <2>1, Stays
    <2> QED BY <1>10, <2>2
  <1> HIDE DEF F
  <1> USE DEF S
  <1>13. last \in 0 .. last
    BY <1>1
  <1> QED
    BY <1>12, <1>13

\* A chain of the graph can be replaced by one node.
LEMMA TrivialReplaceable ==
  ASSUME NEW g, Sound(g), NEW s \in g.nodes,
         NEW sub, sub = TrivialTransforms(g, s), sub # NoSubgraph
  PROVE  Replaceable(g, sub.nodes, sub.edges)
  <1>1. PICK c : c = Chain(g, s)
    OBVIOUS
  <1>2. Chaining(g, c)
    BY <1>1, ChainIs
  <1>3. sub.nodes = c.nodes /\ sub.edges = c.edges /\ sub = [nodes |-> c.nodes, edges |-> c.edges]
    BY <1>1 DEF TrivialTransforms
  <1>4. c.nodes # {}
    BY <1>2, <1>3 DEF Chaining, NoSubgraph
  <1> QED
    BY <1>2, <1>3, <1>4 DEF Chaining, Replaceable

\* A branch with its two arms can be replaced by one node.
LEMMA SelectReplaceable ==
  ASSUME NEW g, Sound(g), NEW n \in g.nodes,
         NEW sub, sub = BranchToSelectTransforms(g, n), sub # NoSubgraph
  PROVE  Replaceable(g, sub.nodes, sub.edges)
  <1> DEFINE mids(x) == SuccNodes(g, n) \ {x}
             found == {x \in SelectEnds(g, n) : IsSelect(g, n, mids(x), x)}
             select(x) == [nodes |-> mids(x) \cup {n, x},
                           edges |-> (UNION {g.pred[m] \cup g.succ[m] : m \in mids(x)})
                                     \cup g.succ[n] \cup g.pred[x]]
  <1>1. sub = IF found = {} THEN NoSubgraph ELSE select(CHOOSE x \in found : TRUE)
    BY DEF BranchToSelectTransforms
  <1>2. PICK x \in found : sub = select(x)
    <2> HIDE DEF found, select
    <2> QED BY <1>1
  <1>3. x \in SelectEnds(g, n) /\ IsSelect(g, n, mids(x), x)
    BY <1>2
  <1>4. PICK M : M = mids(x)
    OBVIOUS
  <1>5. /\ sub.nodes = M \cup {n, x}
        /\ sub.edges = (UNION {g.pred[m] \cup g.succ[m] : m \in M}) \cup g.succ[n] \cup g.pred[x]
    BY <1>2, <1>4
  <1>6. M = SuccNodes(g, n) \ {x}
    BY <1>4
  <1> HIDE DEF mids, found, select
  <1>7. /\ \A m \in g.nodes : /\ g.succ[m] = {e \in g.edges : Src(g, e) = m}
                              /\ g.pred[m] = {e \in g.edges : Snk(g, e) = m}
        /\ \A e \in g.edges : Src(g, e) \in g.nodes /\ Snk(g, e) \in g.nodes
    BY DEF Sound, Agree
  <1>8. \A m \in g.nodes : SuccNodes(g, m) \subseteq g.nodes
    BY <1>7 DEF SuccNodes, Sinks
  <1>9. x \in g.nodes /\ M \subseteq g.nodes
    <2>1. After(g, n) \subseteq g.nodes
      BY <1>8 DEF After
    <2> QED BY <1>3, <1>6, <1>8, <2>1 DEF SelectEnds
  <1>10. ASSUME NEW m \in M
         PROVE  /\ \A e \in g.pred[m] : Src(g, e) = n /\ Snk(g, e) = m
                /\ \A e \in g.succ[m] : Src(g, e) = m /\ Snk(g, e) = x
    <2>1. /\ Cardinality(g.pred[m]) = 1 /\ n \in PredNodes(g, m)
          /\ Cardinality(g.succ[m]) = 1 /\ x \in SuccNodes(g, m)
      BY <1>3, <1>4 DEF IsSelect
    <2>2. g.pred[m] \subseteq g.edges /\ g.succ[m] \subseteq g.edges
      BY <1>7, <1>9
    <2>3. IsFiniteSet(g.pred[m]) /\ IsFiniteSet(g.succ[m])
      BY <2>2, FiniteParts, FS_Subset DEF Sound
    <2>4. /\ \A e, f \in g.pred[m] : e = f
          /\ \A e, f \in g.succ[m] : e = f
      BY <2>1, <2>3, OnlyOne
    <2>5. PICK e \in g.pred[m], f \in g.succ[m] : Src(g, e) = n /\ Snk(g, f) = x
      BY <2>1 DEF PredNodes, SuccNodes, Sources, Sinks
    <2> QED BY <1>7, <1>9, <2>4, <2>5
  <1>11. \A e \in g.succ[n] : Src(g, e) = n /\ Snk(g, e) \in M \cup {x}
    BY <1>6, <1>7 DEF SuccNodes, Sinks
  <1>12. \A e \in g.pred[x] : Snk(g, e) = x /\ Src(g, e) \in M \cup {n}
    <2>1. PredNodes(g, x) \subseteq M \cup {n}
      BY <1>3, <1>4 DEF IsSelect
    <2> QED BY <1>7, <1>9, <2>1 DEF PredNodes, Sources
  <1>13. sub.edges \subseteq g.edges
    BY <1>5, <1>7, <1>9
  <1>14. \A e \in sub.edges : Src(g, e) \in sub.nodes /\ Snk(g, e) \in sub.nodes
    BY <1>5, <1>10, <1>11, <1>12
  <1>15. \A e \in g.edges \ sub.edges : Src(g, e) \in sub.nodes => Src(g, e) = x
    BY <1>5, <1>7, <1>9
  <1> QED
    BY <1>5, <1>9, <1>13, <1>14, <1>15 DEF Replaceable

-----------------------------------------------------------------------------
(* FindNewSubgraph *)

\* The colours of BranchToSelectTransforms.
ColourNames == {"red", "yellow", "blue", "green"}

\* Edges of the graph with colours.
ColouredEdges(g, c) ==
  /\ c = [e \in DOMAIN c |-> c[e]]
  /\ DOMAIN c \subseteq g.edges
  /\ \A e \in DOMAIN c : c[e] \in ColourNames

\* The subgraph found, if one was, can be replaced.
Found(g, sub) == sub = NoSubgraph \/ Replaceable(g, sub.nodes, sub.edges)

\* A colour is given to edges of the graph.
LEMMA PaintKeeps ==
  ASSUME NEW g, NEW c, ColouredEdges(g, c), NEW E, E \subseteq g.edges,
         NEW colour \in ColourNames
  PROVE  ColouredEdges(g, Paint(c, E, colour)) /\ DOMAIN Paint(c, E, colour) = DOMAIN c \cup E
  BY DEF Paint, ColouredEdges

\* The ends of edges of the graph, and the edges at those, are in the graph.
LEMMA WithinGraph ==
  ASSUME NEW g, Sound(g), NEW E, E \subseteq g.edges
  PROVE  /\ UNION {g.succ[Snk(g, e)] : e \in E} \subseteq g.edges
         /\ UNION {g.pred[Snk(g, e)] : e \in E} \subseteq g.edges
         /\ Sources(g, E) \subseteq g.nodes /\ Sinks(g, E) \subseteq g.nodes
  BY DEF Sound, Agree, Sources, Sinks

\* Yellow goes to edges of the graph.
LEMMA YellowsKeep ==
  ASSUME NEW g, Sound(g), NEW c, ColouredEdges(g, c)
  PROVE  ColouredEdges(g, ColourYellows(g, c))
  <1>1. PICK yellow : yellow = Of(c, {"yellow"})
    OBVIOUS
  <1> DEFINE into(e) == g.pred[Snk(g, e)]
  <1>2. PICK blue : blue = {e \in yellow : into(e) \subseteq Of(c, {"red", "yellow"})}
    OBVIOUS
  <1>3. PICK begun : begun = {f \in yellow : into(f) \subseteq yellow}
    OBVIOUS
  <1>4. PICK onward : onward = UNION {g.succ[Snk(g, e)] : e \in begun}
    OBVIOUS
  <1>5. PICK explained : explained = {e \in onward : e \notin DOMAIN c \/ c[e] = "red"}
    OBVIOUS
  <1>6. PICK siblings : siblings = (UNION {into(e) : e \in yellow}) \ (DOMAIN c \cup explained)
    OBVIOUS
  <1>7. /\ yellow \subseteq g.edges /\ blue \subseteq g.edges /\ begun \subseteq g.edges
    BY <1>1, <1>2, <1>3 DEF Of, ColouredEdges
  <1>8. explained \subseteq g.edges /\ siblings \subseteq g.edges
    BY <1>4, <1>5, <1>6, <1>7, WithinGraph
  <1>9. PICK d : d = Paint(c, explained, "yellow")
    OBVIOUS
  <1>10. PICK f : f = Paint(d, siblings, "red")
    OBVIOUS
  <1>11. ColourYellows(g, c) = Paint(f, blue, "blue")
    BY <1>1, <1>2, <1>3, <1>4, <1>5, <1>6, <1>9, <1>10 DEF ColourYellows
  <1>12. ColouredEdges(g, d)
    BY <1>8, <1>9, PaintKeeps DEF ColourNames
  <1>13. ColouredEdges(g, f)
    BY <1>8, <1>10, <1>12, PaintKeeps DEF ColourNames
  <1>14. PICK h : h = Paint(f, blue, "blue")
    OBVIOUS
  <1>15. ColouredEdges(g, h)
    BY <1>7, <1>13, <1>14, PaintKeeps DEF ColourNames
  <1> QED
    BY <1>11, <1>14, <1>15

\* Blue goes to edges of the graph.
LEMMA BluesKeep ==
  ASSUME NEW g, Sound(g), NEW c, ColouredEdges(g, c)
  PROVE  ColouredEdges(g, ColourBlues(g, c))
  <1>1. PICK blue : blue = Of(c, {"blue"})
    OBVIOUS
  <1>2. PICK green : green = {e \in blue : g.pred[Snk(g, e)] \subseteq Of(c, {"blue", "green"})}
    OBVIOUS
  <1>3. PICK onward : onward = UNION {g.succ[Snk(g, e)] : e \in green}
    OBVIOUS
  <1>4. blue \subseteq g.edges /\ green \subseteq g.edges
    BY <1>1, <1>2 DEF Of, ColouredEdges
  <1>5. onward \subseteq g.edges
    BY <1>3, <1>4, WithinGraph
  <1>6. PICK d : d = Paint(c, green, "green")
    OBVIOUS
  <1>7. PICK f : f = Paint(d, blue \ green, "yellow")
    OBVIOUS
  <1>8. ColourBlues(g, c) = Paint(f, onward, "yellow")
    BY <1>1, <1>2, <1>3, <1>6, <1>7 DEF ColourBlues
  <1>9. ColouredEdges(g, d)
    BY <1>4, <1>6, PaintKeeps DEF ColourNames
  <1>10. ColouredEdges(g, f)
    BY <1>4, <1>7, <1>9, PaintKeeps DEF ColourNames
  <1>11. PICK h : h = Paint(f, onward, "yellow")
    OBVIOUS
  <1>12. ColouredEdges(g, h)
    BY <1>5, <1>10, <1>11, PaintKeeps DEF ColourNames
  <1> QED
    BY <1>8, <1>11, <1>12

\* Green edges that are closed can be replaced: all but one of their nodes are
\* left by green edges only.
LEMMA GreenReplaceable ==
  ASSUME NEW g, Sound(g), NEW c, ColouredEdges(g, c), NEW n,
         NEW green, green = Of(c, {"green"}), NEW N, N = Sources(g, green) \cup Sinks(g, green),
         NEW red, Closed(g, c, n, N, green, red)
  PROVE  Replaceable(g, N, green)
  <1>1. green \subseteq g.edges
    BY DEF Of, ColouredEdges
  <1>2. N \subseteq g.nodes /\ N # {}
    BY <1>1, WithinGraph DEF Closed
  <1>3. PICK open : open = {m \in N : ~ g.succ[m] \subseteq green}
    OBVIOUS
  <1>4. Cardinality(open) = 1 /\ IsFiniteSet(open)
    <2>1. IsFiniteSet(g.nodes)
      BY FiniteParts DEF Sound
    <2> QED BY <1>2, <1>3, <2>1, FS_Subset DEF Closed
  <1>5. \A e \in g.edges \ green : Src(g, e) \in N => Src(g, e) \in open
    BY <1>2, <1>3 DEF Sound, Agree
  <1>6. \A l, m \in open : l = m
    BY <1>4, OnlyOne
  <1>7. \A e \in green : Src(g, e) \in N /\ Snk(g, e) \in N
    BY DEF Sources, Sinks
  <1> QED
    BY <1>1, <1>2, <1>5, <1>6, <1>7 DEF Replaceable

\* One round of the colouring keeps the colours on edges of the graph.
LEMMA ColouringKeeps ==
  ASSUME NEW g, Sound(g), NEW n, NEW s, ColouredEdges(g, s.colours), Found(g, s.sub)
  PROVE  LET t == Colouring(g, n, s) IN ColouredEdges(g, t.colours) /\ Found(g, t.sub)
  <1>1. CASE ~ s.searching
    BY <1>1 DEF Colouring
  <1>2. CASE s.searching
    <2>1. PICK c : c = ColourBlues(g, ColourYellows(g, s.colours))
      OBVIOUS
    <2>2. ColouredEdges(g, c)
      BY <2>1, YellowsKeep, BluesKeep
    <2>3. PICK green, N, red, last :
             /\ green = Of(c, {"green"}) /\ N = Sources(g, green) \cup Sinks(g, green)
             /\ red = Of(c, {"red"}) /\ last = Cardinality(Of(s.colours, {"green"}))
      OBVIOUS
    <2>4. PICK sub : sub = [nodes |-> N, edges |-> green]
      OBVIOUS
    <2>5. Colouring(g, n, s) = Coloured(g, n, c, sub, last)
      BY <1>2, <2>1, <2>3, <2>4 DEF Colouring, Rounded, GreenGraph
    <2>6. CASE Closed(g, c, n, N, green, red)
      <3>1. Replaceable(g, sub.nodes, sub.edges)
        BY <2>2, <2>3, <2>4, <2>6, GreenReplaceable
      <3>2. Coloured(g, n, c, sub, last)
            = [colours |-> c, searching |-> FALSE,
               sub |-> IF FindCycles(g, sub.nodes, sub.edges) THEN NoSubgraph ELSE sub]
        BY <2>3, <2>4, <2>6 DEF Coloured
      <3>3. PICK x : x = IF FindCycles(g, sub.nodes, sub.edges) THEN NoSubgraph ELSE sub
        OBVIOUS
      <3>4. Found(g, x)
        BY <3>1, <3>3 DEF Found
      <3> QED BY <2>2, <2>5, <3>2, <3>3, <3>4
    <2>7. CASE ~ Closed(g, c, n, N, green, red)
      <3>1. Coloured(g, n, c, sub, last)
            = [colours |-> c, sub |-> NoSubgraph,
               searching |-> Cardinality(sub.edges) \in last + 1 .. MAX_BOTTLENECK_SIZE - 1]
        BY <2>3, <2>4, <2>7 DEF Coloured
      <3>2. PICK x : x = (Cardinality(sub.edges) \in last + 1 .. MAX_BOTTLENECK_SIZE - 1)
        OBVIOUS
      <3> QED BY <2>2, <2>5, <3>1, <3>2 DEF Found
    <2> QED BY <2>6, <2>7
  <1> QED
    BY <1>1, <1>2

\* What FindNewSubgraph finds, if anything, can be replaced by one node.
LEMMA FindNewReplaceable ==
  ASSUME NEW g, Sound(g), NEW n \in g.nodes
  PROVE  Found(g, FindNewSubgraph(g, n))
  <1> DEFINE last == Cardinality(g.edges) + 1
             s0 == [colours |-> Paint(Paint(<<>>, g.pred[n], "red"), g.succ[n], "yellow"),
                    sub |-> NoSubgraph, searching |-> g.succ[n] # {}]
  <1>1. last \in Nat
    BY FiniteParts DEF Sound
  <1>2. FindNewSubgraph(g, n)
        = Each(LAMBDA s, round : Colouring(g, n, s), s0, 1 .. last, last).sub
    BY DEF FindNewSubgraph
  <1>3. ColouredEdges(g, s0.colours) /\ Found(g, s0.sub)
    <2>1. PICK none : none = <<>>
      OBVIOUS
    <2>2. ColouredEdges(g, none)
      BY <2>1 DEF ColouredEdges
    <2>3. PICK c, d : c = Paint(none, g.pred[n], "red") /\ d = Paint(c, g.succ[n], "yellow")
      OBVIOUS
    <2>4. g.pred[n] \subseteq g.edges /\ g.succ[n] \subseteq g.edges
      BY DEF Sound, Agree
    <2>5. ColouredEdges(g, c)
      BY <2>2, <2>3, <2>4, PaintKeeps DEF ColourNames
    <2>6. ColouredEdges(g, d)
      BY <2>3, <2>4, <2>5, PaintKeeps DEF ColourNames
    <2>7. s0.colours = d /\ s0.sub = NoSubgraph
      BY <2>1, <2>3
    <2> QED BY <2>6, <2>7 DEF Found
  <1> HIDE DEF last, s0
  <1> DEFINE op(h, i) == IF i \in 1 .. last THEN Colouring(g, n, h) ELSE h
             F(k, a) == a = [i \in 0 .. k |-> IF i = 0 THEN s0 ELSE op(a[i - 1], i)]
             T == {k \in 0 .. last : \E a : F(k, a)}
             Holds(i, h) == ColouredEdges(g, h.colours) /\ Found(g, h.sub)
  <1>4. \A i \in 1 .. last : i \in 0 .. last /\ i - 1 \in 0 .. last /\ i # 0
    BY <1>1
  <1>5. Each(LAMBDA s, round : Colouring(g, n, s), s0, 1 .. last, last) = (CHOOSE a : F(last, a))[last]
    BY <1>1 DEF Each
  <1>6. Holds(0, s0)
    BY <1>3
  <1>7. ASSUME NEW i \in 1 .. last, NEW h, Holds(i - 1, h) PROVE Holds(i, op(h, i))
    <2>1. op(h, i) = Colouring(g, n, h)
      OBVIOUS
    <2> HIDE DEF op
    <2> QED BY <1>7, <2>1, ColouringKeeps
  <1> HIDE DEF op, Holds
  <1>8. 0 \in T
    <2>1. PICK a : a = [i \in 0 .. 0 |-> s0]
      OBVIOUS
    <2>2. F(0, a)
      BY <2>1
    <2> HIDE DEF F
    <2> QED BY <1>1, <2>2
  <1>9. ASSUME NEW k \in 1 .. last, k - 1 \in T PROVE k \in T
    <2>1. PICK a : F(k - 1, a)
      BY <1>9
    <2>2. PICK b : b = [i \in 0 .. k |-> IF i = k THEN op(a[k - 1], k) ELSE a[i]]
      OBVIOUS
    <2>3. ASSUME NEW i \in 0 .. k PROVE b[i] = IF i = 0 THEN s0 ELSE op(b[i - 1], i)
      <3>1. CASE i = k
        BY <2>2, <3>1
      <3>2. CASE i # k
        <4>1. i \in 0 .. (k - 1) /\ b[i] = a[i] /\ (i # 0 => i - 1 \in 0 .. k /\ i - 1 # k)
          BY <2>2, <3>2
        <4>2. a[i] = IF i = 0 THEN s0 ELSE op(a[i - 1], i)
          BY <2>1, <4>1
        <4> QED BY <2>2, <4>1, <4>2
      <3> QED BY <3>1, <3>2
    <2>4. F(k, b)
      <3>1. b = [i \in 0 .. k |-> b[i]]
        BY <2>2
      <3> QED BY <2>3, <3>1
    <2> HIDE DEF F
    <2> QED BY <1>4, <2>4
  <1>10. last \in T
    <2> HIDE DEF T
    <2>1. \A i \in 0 .. last : i \in T
      BY <1>1, <1>8, <1>9, UpTo
    <2> QED BY <1>1, <2>1
  <1>11. PICK after : F(last, after) /\ Each(LAMBDA s, round : Colouring(g, n, s), s0, 1 .. last, last) = after[last]
    <2> HIDE DEF F
    <2> QED BY <1>5, <1>10
  <1>12. after[0] = s0 /\ \A i \in 1 .. last : after[i] = op(after[i - 1], i)
    <2>1. after = [i \in 0 .. last |-> IF i = 0 THEN s0 ELSE op(after[i - 1], i)]
      BY <1>11
    <2> HIDE DEF F
    <2>2. 0 \in 0 .. last /\ \A i \in 1 .. last : i \in 0 .. last /\ i # 0
      BY <1>1
    <2> QED BY <2>1, <2>2
  <1>13. Holds(last, Each(LAMBDA s, round : Colouring(g, n, s), s0, 1 .. last, last))
    <2> DEFINE U == {i \in 0 .. last : Holds(i, after[i])}
    <2>1. 0 \in U
      BY <1>1, <1>6, <1>12
    <2>2. \A i \in 1 .. last : i - 1 \in U => i \in U
      BY <1>4, <1>7, <1>12
    <2> HIDE DEF U
    <2>3. \A i \in 0 .. last : i \in U
      BY <1>1, <2>1, <2>2, UpTo
    <2>4. Holds(last, after[last])
      BY <1>1, <2>3 DEF U
    <2> QED BY <1>11, <2>4
  <1> USE DEF Holds
  <1> QED
    BY <1>2, <1>13

-----------------------------------------------------------------------------
(* Cycles *)

\* The cycles there can be: nodes with all the edges among them.
Cycles(g) == {CycleOf(g, N) : N \in (SUBSET g.nodes) \ {{}}}

\* Cycles of which no two meet.
LoopSeq(g, loops) ==
  /\ loops \in Seq(Cycles(g))
  /\ \A i, j \in 1 .. Len(loops) : i # j => loops[i].nodes \cap loops[j].nodes = {}

\* A cycle is a set of nodes with the edges among them.
LEMMA CycleIs ==
  ASSUME NEW g, Sound(g), NEW c \in Cycles(g)
  PROVE  /\ c.nodes \subseteq g.nodes /\ c.nodes # {}
         /\ c.edges = {e \in g.edges : Src(g, e) \in c.nodes /\ Snk(g, e) \in c.nodes}
         /\ Replaceable(g, c.nodes, c.edges)
  <1>1. PICK N \in (SUBSET g.nodes) \ {{}} : c = CycleOf(g, N)
    BY DEF Cycles
  <1>2. /\ c.nodes = N
        /\ c.edges = {e \in UNION {g.pred[n] \cup g.succ[n] : n \in N} :
                         Src(g, e) \in N /\ Snk(g, e) \in N}
    BY <1>1 DEF CycleOf
  <1>3. c.edges = {e \in g.edges : Src(g, e) \in N /\ Snk(g, e) \in N}
    BY <1>2 DEF Sound, Agree
  <1> QED
    BY <1>1, <1>2, <1>3 DEF Replaceable

\* Paths with one more edge are sequences of edges of the graph.
LEMMA FurtherPaths ==
  ASSUME NEW g, Sound(g), NEW n \in g.nodes, NEW P, P \subseteq Seq(g.edges), NEW N
  PROVE  Further(g, n, P, N) \subseteq {p \in Seq(g.edges) : p # <<>>}
  <1> SUFFICES ASSUME NEW q \in Further(g, n, P, N) PROVE q \in Seq(g.edges) /\ q # <<>>
    OBVIOUS
  <1>1. PICK p \in P : \E e \in Onward(g, n, p, N \ Sinks(g, Range(p))) : q = Append(p, e)
    BY DEF Further
  <1>6. PICK e \in Onward(g, n, p, N \ Sinks(g, Range(p))) : q = Append(p, e)
    BY <1>1
  <1>2. PICK last : /\ last = IF p = <<>> THEN n ELSE Snk(g, Last(p))
                    /\ e \in g.succ[last]
    BY <1>6 DEF Onward
  <1>3. p # <<>> => Last(p) \in g.edges
    BY DEF Last
  <1>4. last \in g.nodes
    BY <1>2, <1>3 DEF Sound, Agree
  <1>5. e \in g.edges
    BY <1>2, <1>4 DEF Sound, Agree
  <1> QED
    BY <1>5, <1>6

\* A path back is a sequence of edges of the graph, and not an empty one.
LEMMA PathsBackAre ==
  ASSUME NEW g, Sound(g), NEW n \in g.nodes
  PROVE  PathsBack(g, n) \subseteq {p \in Seq(g.edges) : p # <<>>}
  <1>0. PICK start : start = {<<>>}
    OBVIOUS
  <1> DEFINE others == g.nodes \ {n}
             last == Cardinality(others)
  <1>1. last \in Nat
    BY FiniteParts, FS_Subset, FS_CardinalityType DEF Sound
  <1> HIDE DEF last, others
  <1> DEFINE op(h, i) == Further(g, n, h, others)
             F(k, a) == a = [i \in 0 .. k |-> IF i = 0 THEN start ELSE op(a[i - 1], i)]
             T == {k \in 0 .. last : \E a : F(k, a)}
             Holds(i, h) == h \subseteq Seq(g.edges)
  <1>2. \A i \in 1 .. last : i \in 0 .. last /\ i - 1 \in 0 .. last /\ i # 0
    BY <1>1
  <1>3. PathsBack(g, n) = UNION {Further(g, n, (CHOOSE a : F(last, a))[i], {n}) : i \in 0 .. last}
    BY <1>0, <1>1 DEF PathsBack, last, others
  <1>4. Holds(0, start)
    BY <1>0
  <1>5. ASSUME NEW i \in 1 .. last, NEW h, Holds(i - 1, h) PROVE Holds(i, op(h, i))
    <2>1. h \subseteq Seq(g.edges)
      BY <1>5
    <2>2. Further(g, n, h, others) \subseteq {p \in Seq(g.edges) : p # <<>>}
      BY <2>1, FurtherPaths
    <2> QED BY <2>2
  <1> HIDE DEF op, Holds
  <1>6. 0 \in T
    <2>1. PICK a : a = [i \in 0 .. 0 |-> start]
      OBVIOUS
    <2>2. F(0, a)
      BY <2>1
    <2> HIDE DEF F
    <2> QED BY <1>1, <2>2
  <1>7. ASSUME NEW k \in 1 .. last, k - 1 \in T PROVE k \in T
    <2>1. PICK a : F(k - 1, a)
      BY <1>7
    <2>2. PICK b : b = [i \in 0 .. k |-> IF i = k THEN op(a[k - 1], k) ELSE a[i]]
      OBVIOUS
    <2>3. ASSUME NEW i \in 0 .. k PROVE b[i] = IF i = 0 THEN start ELSE op(b[i - 1], i)
      <3>1. CASE i = k
        BY <2>2, <3>1
      <3>2. CASE i # k
        <4>1. i \in 0 .. (k - 1) /\ b[i] = a[i] /\ (i # 0 => i - 1 \in 0 .. k /\ i - 1 # k)
          BY <2>2, <3>2
        <4>2. a[i] = IF i = 0 THEN start ELSE op(a[i - 1], i)
          BY <2>1, <4>1
        <4> QED BY <2>2, <4>1, <4>2
      <3> QED BY <3>1, <3>2
    <2>4. F(k, b)
      <3>1. b = [i \in 0 .. k |-> b[i]]
        BY <2>2
      <3> QED BY <2>3, <3>1
    <2> HIDE DEF F
    <2> QED BY <1>2, <2>4
  <1>8. last \in T
    <2> HIDE DEF T
    <2>1. \A i \in 0 .. last : i \in T
      BY <1>1, <1>6, <1>7, UpTo
    <2> QED BY <1>1, <2>1
  <1>9. PICK after : F(last, after) /\ after = CHOOSE a : F(last, a)
    <2> HIDE DEF F
    <2> QED BY <1>3, <1>8
  <1>10. after[0] = start /\ \A i \in 1 .. last : after[i] = op(after[i - 1], i)
    <2>1. after = [i \in 0 .. last |-> IF i = 0 THEN start ELSE op(after[i - 1], i)]
      BY <1>9
    <2> HIDE DEF F
    <2>2. 0 \in 0 .. last /\ \A i \in 1 .. last : i \in 0 .. last /\ i # 0
      BY <1>1
    <2> QED BY <2>1, <2>2
  <1>11. \A i \in 0 .. last : Holds(i, after[i])
    <2> DEFINE U == {i \in 0 .. last : Holds(i, after[i])}
    <2>1. 0 \in U
      BY <1>1, <1>4, <1>10
    <2>2. \A i \in 1 .. last : i - 1 \in U => i \in U
      BY <1>2, <1>5, <1>10
    <2> HIDE DEF U
    <2>3. \A i \in 0 .. last : i \in U
      BY <1>1, <2>1, <2>2, UpTo
    <2> QED BY <2>3 DEF U
  <1>12. PathsBack(g, n) = UNION {Further(g, n, after[i], {n}) : i \in 0 .. last}
    <2> HIDE DEF F
    <2> QED BY <1>3, <1>9
  <1>13. ASSUME NEW i \in 0 .. last
         PROVE  Further(g, n, after[i], {n}) \subseteq {p \in Seq(g.edges) : p # <<>>}
    <2>1. after[i] \subseteq Seq(g.edges)
      BY <1>11 DEF Holds
    <2> QED BY <2>1, FurtherPaths
  <1> HIDE DEF F
  <1> QED
    BY <1>12, <1>13

\* What Dijkstras returns is cycles of the graph.
LEMMA DijkstrasAre ==
  ASSUME NEW g, Sound(g), NEW n \in g.nodes
  PROVE  {CycleOf(g, N) : N \in Dijkstras(g, n)} \subseteq Cycles(g)
  <1>1. PICK ways : ways = PathsBack(g, n)
    OBVIOUS
  <1>2. PICK loop : loop = {p \in ways : Len(p) = 1}
    OBVIOUS
  <1>3. Dijkstras(g, n) = {Sources(g, Range(p)) : p \in loop \cup Likeliest(g, ways, loop)}
    BY <1>1, <1>2 DEF Dijkstras, ShortestBack, Nearest
  <1>4. loop \cup Likeliest(g, ways, loop) \subseteq ways
    BY <1>2 DEF Likeliest
  <1>5. ASSUME NEW p \in ways PROVE Sources(g, Range(p)) \in (SUBSET g.nodes) \ {{}}
    <2>1. p \in Seq(g.edges) /\ p # <<>>
      BY <1>1, PathsBackAre
    <2>2. Range(p) \subseteq g.edges /\ Range(p) # {}
      <3>1. 1 \in DOMAIN p /\ \A i \in DOMAIN p : p[i] \in g.edges
        BY <2>1
      <3> QED BY <3>1 DEF Range
    <2> QED BY <2>2 DEF Sources, Sound, Agree
  <1> QED
    BY <1>3, <1>4, <1>5 DEF Cycles

\* One more cycle that meets none of those before.
LEMMA LoopSeqAppend ==
  ASSUME NEW g, NEW loops, LoopSeq(g, loops), NEW c \in Cycles(g),
         \A d \in Range(loops) : c.nodes \cap d.nodes = {}
  PROVE  LoopSeq(g, Append(loops, c))
  <1>1. PICK more : more = Append(loops, c)
    OBVIOUS
  <1>2. /\ loops \in Seq(Cycles(g)) /\ Len(loops) \in Nat
        /\ more \in Seq(Cycles(g)) /\ Len(more) = Len(loops) + 1
        /\ \A i \in 1 .. Len(loops) : more[i] = loops[i]
        /\ more[Len(loops) + 1] = c
    BY <1>1 DEF LoopSeq
  <1>3. \A i \in 1 .. Len(loops) : c.nodes \cap loops[i].nodes = {}
    BY <1>2 DEF Range
  <1>4. ASSUME NEW i \in 1 .. Len(more), NEW j \in 1 .. Len(more), i # j
        PROVE  more[i].nodes \cap more[j].nodes = {}
    <2>1. CASE i = Len(loops) + 1
      <3>1. j \in 1 .. Len(loops)
        BY <1>2, <1>4, <2>1
      <3> QED BY <1>2, <1>3, <2>1, <3>1
    <2>2. CASE j = Len(loops) + 1
      <3>1. i \in 1 .. Len(loops)
        BY <1>2, <1>4, <2>2
      <3>2. c.nodes \cap loops[i].nodes = {}
        BY <1>3, <3>1
      <3> QED BY <1>2, <2>2, <3>1, <3>2
    <2>3. CASE i \in 1 .. Len(loops) /\ j \in 1 .. Len(loops)
      BY <1>2, <1>4, <2>3 DEF LoopSeq
    <2> QED BY <1>2, <2>1, <2>2, <2>3
  <1>5. LoopSeq(g, more)
    BY <1>2, <1>4 DEF LoopSeq
  <1> QED
    BY <1>1, <1>5

\* The low-frequency loops are cycles of which no two meet.
LEMMA LowLoopsAre ==
  ASSUME NEW g, Sound(g), NEW loops \in LoopsInOrder(g, IsLowLoop)
  PROVE  LoopSeq(g, loops)
  <1>0. PICK start : start = {<<>>}
    OBVIOUS
  <1> DEFINE v == Len(g.inner)
             keep(taken, c, n) == IF IsLowLoop(g, c, n, taken) THEN Append(taken, c) ELSE taken
             more(ways, n, cycles) ==
               IF cycles = {} THEN ways
               ELSE {keep(taken, c, n) : taken \in ways, c \in cycles}
             all(n) == {CycleOf(g, N) : N \in Dijkstras(g, n)}
  <1>1. v \in Nat
    BY Fields DEF Sound
  <1> DEFINE op(h, i) == IF i \in g.nodes THEN more(h, i, all(i)) ELSE h
             F(k, a) == a = [i \in 0 .. k |-> IF i = 0 THEN start ELSE op(a[i - 1], i)]
             T == {k \in 0 .. v : \E a : F(k, a)}
             Holds(i, h) == \A taken \in h : LoopSeq(g, taken)
  <1>2. \A i \in 1 .. v : i \in 0 .. v /\ i - 1 \in 0 .. v /\ i # 0
    BY <1>1
  <1>3. LoopsInOrder(g, IsLowLoop) = (CHOOSE a : F(v, a))[v]
    BY <1>0, <1>1 DEF LoopsInOrder, Each, VirtualNodeOf
  <1>4. Holds(0, start)
    BY <1>0 DEF LoopSeq
  <1>5. ASSUME NEW i \in 1 .. v, NEW h, Holds(i - 1, h) PROVE Holds(i, op(h, i))
    <2>1. CASE i \notin g.nodes \/ all(i) = {}
      BY <1>5, <2>1
    <2>2. CASE i \in g.nodes /\ all(i) # {}
      <3>1. op(h, i) = {keep(taken, c, i) : taken \in h, c \in all(i)}
        BY <2>2
      <3>2. all(i) \subseteq Cycles(g)
        BY <2>2, DijkstrasAre
      <3> HIDE DEF all, op
      <3>3. ASSUME NEW taken \in h, NEW c \in all(i) PROVE LoopSeq(g, keep(taken, c, i))
        <4>1. LoopSeq(g, taken) /\ c \in Cycles(g)
          BY <1>5, <3>2
        <4>2. CASE IsLowLoop(g, c, i, taken)
          <5>1. \A d \in Range(taken) : c.nodes \cap d.nodes = {}
            BY <4>2 DEF IsLowLoop
          <5>2. LoopSeq(g, Append(taken, c))
            BY <4>1, <5>1, LoopSeqAppend
          <5> QED BY <4>2, <5>2
        <4>3. CASE ~ IsLowLoop(g, c, i, taken)
          BY <4>1, <4>3
        <4> QED BY <4>2, <4>3
      <3> HIDE DEF keep
      <3> QED BY <3>1, <3>3
    <2> QED BY <2>1, <2>2
  <1> HIDE DEF op, Holds
  <1>6. 0 \in T
    <2>1. PICK a : a = [i \in 0 .. 0 |-> start]
      OBVIOUS
    <2>2. F(0, a)
      BY <2>1
    <2> HIDE DEF F
    <2> QED BY <1>1, <2>2
  <1>7. ASSUME NEW k \in 1 .. v, k - 1 \in T PROVE k \in T
    <2>1. PICK a : F(k - 1, a)
      BY <1>7
    <2>2. PICK b : b = [i \in 0 .. k |-> IF i = k THEN op(a[k - 1], k) ELSE a[i]]
      OBVIOUS
    <2>3. ASSUME NEW i \in 0 .. k PROVE b[i] = IF i = 0 THEN start ELSE op(b[i - 1], i)
      <3>1. CASE i = k
        BY <2>2, <3>1
      <3>2. CASE i # k
        <4>1. i \in 0 .. (k - 1) /\ b[i] = a[i] /\ (i # 0 => i - 1 \in 0 .. k /\ i - 1 # k)
          BY <2>2, <3>2
        <4>2. a[i] = IF i = 0 THEN start ELSE op(a[i - 1], i)
          BY <2>1, <4>1
        <4> QED BY <2>2, <4>1, <4>2
      <3> QED BY <3>1, <3>2
    <2>4. F(k, b)
      <3>1. b = [i \in 0 .. k |-> b[i]]
        BY <2>2
      <3> QED BY <2>3, <3>1
    <2> HIDE DEF F
    <2> QED BY <1>2, <2>4
  <1>8. v \in T
    <2> HIDE DEF T
    <2>1. \A i \in 0 .. v : i \in T
      BY <1>1, <1>6, <1>7, UpTo
    <2> QED BY <1>1, <2>1
  <1>9. PICK after : F(v, after) /\ LoopsInOrder(g, IsLowLoop) = after[v]
    <2> HIDE DEF F
    <2> QED BY <1>3, <1>8
  <1>10. after[0] = start /\ \A i \in 1 .. v : after[i] = op(after[i - 1], i)
    <2>1. after = [i \in 0 .. v |-> IF i = 0 THEN start ELSE op(after[i - 1], i)]
      BY <1>9
    <2> HIDE DEF F
    <2>2. 0 \in 0 .. v /\ \A i \in 1 .. v : i \in 0 .. v /\ i # 0
      BY <1>1
    <2> QED BY <2>1, <2>2
  <1>11. Holds(v, LoopsInOrder(g, IsLowLoop))
    <2> DEFINE U == {i \in 0 .. v : Holds(i, after[i])}
    <2>1. 0 \in U
      BY <1>1, <1>4, <1>10
    <2>2. \A i \in 1 .. v : i - 1 \in U => i \in U
      BY <1>2, <1>5, <1>10
    <2> HIDE DEF U
    <2>3. \A i \in 0 .. v : i \in U
      BY <1>1, <2>1, <2>2, UpTo
    <2>4. Holds(v, after[v])
      BY <1>1, <2>3 DEF U
    <2> QED BY <1>9, <2>4
  <1> USE DEF Holds
  <1> QED
    BY <1>11

-----------------------------------------------------------------------------
(* Frequencies *)

\* The same graph, but that edges may have become less frequent.
Levelled(g, h) ==
  /\ Sound(h)
  /\ h.nodes = g.nodes /\ h.inner = g.inner /\ h.blocks = g.blocks
  /\ \A e \in h.edges : \E f \in g.edges :
        /\ Src(h, e) = Src(g, f) /\ Snk(h, e) = Snk(g, f)
        /\ Freq(h, e) <= Freq(g, f)

\* A graph is levelled from itself.
LEMMA LevelledSame ==
  ASSUME NEW g, Sound(g)
  PROVE  Levelled(g, g)
  <1>1. \A e \in g.edges : Freq(g, e) \in Nat
    BY Fields DEF Sound, Shape
  <1>2. \A e \in g.edges : Freq(g, e) <= Freq(g, e)
    BY <1>1
  <1> QED
    BY <1>2 DEF Levelled

\* Two rounds of levelling are one.
LEMMA LevelledTwice ==
  ASSUME NEW g, Sound(g), NEW h, Levelled(g, h), NEW k, Levelled(h, k)
  PROVE  Levelled(g, k)
  <1>1. ASSUME NEW e \in k.edges
        PROVE  \E f \in g.edges : /\ Src(k, e) = Src(g, f) /\ Snk(k, e) = Snk(g, f)
                                  /\ Freq(k, e) <= Freq(g, f)
    <2>1. PICK d \in h.edges : /\ Src(k, e) = Src(h, d) /\ Snk(k, e) = Snk(h, d)
                               /\ Freq(k, e) <= Freq(h, d)
      BY DEF Levelled
    <2>2. PICK f \in g.edges : /\ Src(h, d) = Src(g, f) /\ Snk(h, d) = Snk(g, f)
                               /\ Freq(h, d) <= Freq(g, f)
      BY DEF Levelled
    <2>3. Freq(k, e) \in Nat /\ Freq(h, d) \in Nat /\ Freq(g, f) \in Nat
      <3>1. Shape(k) /\ Shape(h) /\ Shape(g)
        BY DEF Levelled, Sound
      <3>2. e \in EdgesMade(k) /\ d \in EdgesMade(h) /\ f \in EdgesMade(g)
        BY <3>1 DEF Shape
      <3> QED BY <3>1, <3>2, Fields
    <2>4. Freq(k, e) <= Freq(g, f)
      BY <2>1, <2>2, <2>3
    <2> QED BY <2>1, <2>2, <2>4
  <1> QED
    BY <1>1 DEF Levelled

\* The same graph, but for weights.
Reweighted(g, h) ==
  /\ Sound(h)
  /\ h.nodes = g.nodes /\ h.edges = g.edges /\ h.inner = g.inner
  /\ h.blocks = g.blocks /\ h.pred = g.pred /\ h.succ = g.succ
  /\ EdgesMade(h) = EdgesMade(g)
  /\ \A e \in EdgesMade(g) : /\ Src(h, e) = Src(g, e) /\ Snk(h, e) = Snk(g, e)
                             /\ Freq(h, e) = Freq(g, e)

\* setWeight touches weights only.
LEMMA RebalanceIs ==
  ASSUME NEW g, Sound(g), NEW E, E \subseteq EdgesMade(g)
  PROVE  Reweighted(g, Rebalance(g, E))
  <1>1. PICK total : total = TotalFreq(g, E)
    OBVIOUS
  <1>2. total \in Nat
    BY <1>1, TotalFreqIs DEF Sound
  <1>3. PICK end : end = [e \in EdgesMade(g) |->
                            IF e \in E THEN [g.end[e] EXCEPT !.total = total] ELSE g.end[e]]
    OBVIOUS
  <1>4. DOMAIN g.end = EdgesMade(g) /\ g.end \in Seq(EndRecords) /\ g \in GraphSet /\ Len(g.end) \in Nat
    BY DEF Sound, Shape, GraphSet, EdgesMade
  <1>5. ASSUME NEW e \in EdgesMade(g)
        PROVE  /\ end[e] \in EndRecords
               /\ end[e].src = g.end[e].src /\ end[e].snk = g.end[e].snk
               /\ end[e].freq = g.end[e].freq
    <2>1. g.end[e] \in EndRecords
      BY <1>4 DEF EdgesMade
    <2> QED BY <1>2, <1>3, <2>1 DEF EndRecords
  <1>6. end \in Seq(EndRecords) /\ Len(end) = Len(g.end)
    <2>1. PICK n : n = Len(g.end)
      OBVIOUS
    <2>2. n \in Nat /\ \A e \in 1 .. n : end[e] \in EndRecords
      BY <1>3, <1>4, <1>5, <2>1 DEF EdgesMade
    <2>3. end = [e \in 1 .. n |-> end[e]]
      BY <1>3, <1>4, <2>1 DEF EdgesMade
    <2> QED BY <2>1, <2>2, <2>3, FunctionIsSeq
  <1>7. PICK r : r = [g EXCEPT !.end = end]
    OBVIOUS
  <1>8. Rebalance(g, E) = r
    BY <1>1, <1>3, <1>4, <1>7 DEF Rebalance
  <1>9. /\ r \in GraphSet
        /\ r.nodes = g.nodes /\ r.edges = g.edges /\ r.inner = g.inner
        /\ r.blocks = g.blocks /\ r.pred = g.pred /\ r.succ = g.succ /\ r.end = end
    BY <1>4, <1>6, <1>7 DEF GraphSet
  <1>10. EdgesMade(r) = EdgesMade(g) /\ NodesMade(r) = NodesMade(g)
    BY <1>6, <1>9 DEF EdgesMade, NodesMade
  <1>11. \A e \in EdgesMade(g) : /\ Src(r, e) = Src(g, e) /\ Snk(r, e) = Snk(g, e)
                                 /\ Freq(r, e) = Freq(g, e)
    BY <1>5, <1>9 DEF Src, Snk, Freq
  <1>12. Shape(r)
    BY <1>9, <1>10 DEF Sound, Shape
  <1>13. Agree(r)
    <2>1. g.edges \subseteq EdgesMade(g) /\ Agree(g)
      BY DEF Sound, Shape
    <2> QED BY <1>9, <1>11, <2>1 DEF Agree, SameEnds
  <1>14. Reweighted(g, r)
    BY <1>9, <1>10, <1>11, <1>12, <1>13 DEF Sound, Reweighted
  <1> QED
    BY <1>8, <1>14

\* One edge is given a lower frequency.
LEMMA LowerIs ==
  ASSUME NEW g, Sound(g), NEW e \in g.edges, NEW freq \in Nat, freq <= Freq(g, e)
  PROVE  Levelled(g, Lower(g, e, freq))
  <1> DEFINE s == Src(g, e)
             t == Snk(g, e)
             x == Len(g.end) + 1
  <1>1. PICK under : under = {e}
    OBVIOUS
  <1>2. PICK k : k = MakeEdge(g, s, t, freq, 1, under)
    OBVIOUS
  <1>3. PICK r : r = PutLevel(k, e)
    OBVIOUS
  <1>4. r = Lower(g, e, freq)
    BY <1>1, <1>2, <1>3 DEF Lower
  <1>5. /\ Shape(g) /\ Agree(g) /\ e \in EdgesMade(g) /\ g.edges \subseteq EdgesMade(g)
        /\ s \in g.nodes /\ t \in g.nodes /\ g.nodes \subseteq NodesMade(g)
    BY DEF Sound, Agree, Shape
  <1>6. s \in Nat /\ t \in Nat /\ 1 \in Int /\ under \in SUBSET Nat /\ Len(g.end) \in Nat
    <2>1. e \in Nat
      BY <1>5 DEF EdgesMade
    <2> QED BY <1>1, <1>5, <2>1, Fields
  <1>7. PICK a, b, one : a = s /\ b = t /\ one = 1
    OBVIOUS
  <1> HIDE DEF s, t
  <1>8. /\ Shape(k)
        /\ k.nodes = g.nodes /\ k.edges = g.edges /\ k.pred = g.pred
        /\ k.succ = g.succ /\ k.inner = g.inner /\ k.blocks = g.blocks
        /\ NewestEdge(k) = x /\ Len(k.end) = x
        /\ \A f \in EdgesMade(g) : k.end[f] = g.end[f]
        /\ k.end[x].src = a /\ k.end[x].snk = b /\ k.end[x].freq = freq
    <2>1. /\ a \in Nat /\ b \in Nat /\ one \in Int /\ under \in SUBSET Nat
          /\ k = MakeEdge(g, a, b, freq, one, under) /\ Shape(g) /\ x = Len(g.end) + 1
      BY <1>2, <1>5, <1>6, <1>7
    <2>2. EdgeMade(g, x, a, b, freq, k)
      <3> HIDE DEF x
      <3> QED BY <2>1, MakeEdgeIs
    <2> QED BY <2>2 DEF EdgeMade
  <1>9. /\ x \notin EdgesMade(g) /\ x \in EdgesMade(k) /\ EdgesMade(g) \subseteq EdgesMade(k)
        /\ Src(k, x) = s /\ Snk(k, x) = t /\ Freq(k, x) = freq
        /\ \A f \in EdgesMade(g) : /\ Src(k, f) = Src(g, f) /\ Snk(k, f) = Snk(g, f)
                                   /\ Freq(k, f) = Freq(g, f)
    <2>1. x \notin EdgesMade(g) /\ x \in EdgesMade(k) /\ EdgesMade(g) \subseteq EdgesMade(k)
      BY <1>6, <1>7, <1>8 DEF EdgesMade
    <2>2. \A f \in EdgesMade(g) : /\ Src(k, f) = Src(g, f) /\ Snk(k, f) = Snk(g, f)
                                  /\ Freq(k, f) = Freq(g, f)
      BY <1>8 DEF Src, Snk, Freq
    <2>3. Src(k, x) = s /\ Snk(k, x) = t /\ Freq(k, x) = freq
      <3> HIDE DEF x
      <3> QED BY <1>6, <1>7, <1>8 DEF Src, Snk, Freq
    <2> QED BY <2>1, <2>2, <2>3
  <1> HIDE DEF x
  <1>10. Src(k, e) = s /\ Snk(k, e) = t
    BY <1>5, <1>9 DEF s, t
  <1>11. \A f \in g.edges : Src(k, f) = s /\ Snk(k, f) = t => f = e
    BY <1>5, <1>9 DEF Agree, SameEnds, s, t
  <1>12. ASSUME NEW A, A \subseteq g.edges, e \in A PROVE Replaced(k, e, A) = (A \ {e}) \cup {x}
    <2>1. Erase(k, A, {e}) = A \ {e}
      <3>1. \A d \in A, f \in {e} : SameEnds(k, d, f) => d = f
        BY <1>10, <1>11, <1>12 DEF SameEnds
      <3> QED BY <1>12, <3>1, EraseIs
    <2>2. \A f \in A \ {e} : ~ SameEnds(k, f, x)
      BY <1>9, <1>11, <1>12 DEF SameEnds
    <2>3. PICK D : D = A \ {e}
      OBVIOUS
    <2>4. Insert(k, D, x) = D \cup {x}
      BY <2>2, <2>3, InsertIs
    <2>5. Replaced(k, e, A) = Insert(k, D, x)
      BY <1>8, <2>1, <2>3 DEF Replaced
    <2> QED BY <2>3, <2>4, <2>5
  <1>13. /\ e \in g.succ[s] /\ e \in g.pred[t]
         /\ g.succ[s] = {f \in g.edges : Src(g, f) = s}
         /\ g.pred[t] = {f \in g.edges : Snk(g, f) = t}
    BY <1>5 DEF Agree, s, t
  <1>14. PICK A, B, C : /\ A = (g.succ[s] \ {e}) \cup {x} /\ B = (g.pred[t] \ {e}) \cup {x}
                        /\ C = (g.edges \ {e}) \cup {x}
    OBVIOUS
  <1>15. r = Edged(k, s, t, A, B, C)
    <2>1. /\ Replaced(k, e, k.succ[s]) = A /\ Replaced(k, e, k.pred[t]) = B
          /\ Replaced(k, e, k.edges) = C
      BY <1>8, <1>12, <1>13, <1>14
    <2> QED BY <1>3, <1>10, <2>1 DEF PutLevel, Edged
  <1>16. NodesMade(k) = NodesMade(g) /\ s \in NodesMade(k) /\ t \in NodesMade(k)
    BY <1>5, <1>8 DEF NodesMade
  <1>17. A \subseteq EdgesMade(k) /\ B \subseteq EdgesMade(k) /\ C \subseteq EdgesMade(k)
    BY <1>5, <1>9, <1>13, <1>14
  <1>18. IsEdged(k, s, t, A, B, C, r)
    <2>1. Shape(k)
      BY <1>8
    <2>2. PICK m, n : m = s /\ n = t
      OBVIOUS
    <2>3. m \in NodesMade(k) /\ n \in NodesMade(k) /\ r = Edged(k, m, n, A, B, C)
      BY <1>15, <1>16, <2>2
    <2>4. IsEdged(k, m, n, A, B, C, r)
      BY <1>17, <2>1, <2>3, PutEdges
    <2> QED BY <2>2, <2>4
  <1>19. /\ Shape(r)
         /\ r.nodes = g.nodes /\ r.end = k.end /\ r.inner = g.inner /\ r.blocks = g.blocks
         /\ r.edges = C /\ r.succ[s] = A /\ r.pred[t] = B
         /\ \A m \in NodesMade(g) : m # s => r.succ[m] = g.succ[m]
         /\ \A m \in NodesMade(g) : m # t => r.pred[m] = g.pred[m]
    BY <1>8, <1>16, <1>18 DEF IsEdged
  <1>20. /\ \A f \in g.edges : /\ Src(r, f) = Src(g, f) /\ Snk(r, f) = Snk(g, f)
                               /\ Freq(r, f) = Freq(g, f)
         /\ Src(r, x) = s /\ Snk(r, x) = t /\ Freq(r, x) = freq
         /\ x \notin g.edges
    BY <1>5, <1>9, <1>19 DEF Src, Snk, Freq
  <1>21. \A m \in g.nodes : /\ r.succ[m] = {f \in C : Src(r, f) = m}
                            /\ r.pred[m] = {f \in C : Snk(r, f) = m}
    <2> SUFFICES ASSUME NEW m \in g.nodes
                 PROVE  /\ r.succ[m] = {f \in C : Src(r, f) = m}
                        /\ r.pred[m] = {f \in C : Snk(r, f) = m}
      OBVIOUS
    <2>1. /\ g.succ[m] = {f \in g.edges : Src(g, f) = m}
          /\ g.pred[m] = {f \in g.edges : Snk(g, f) = m}
          /\ m \in NodesMade(g)
      BY <1>5 DEF Agree
    <2>2. Src(g, e) = s /\ Snk(g, e) = t
      BY DEF s, t
    <2>3. r.succ[m] = {f \in C : Src(r, f) = m}
      <3>1. CASE m = s
        BY <1>13, <1>14, <1>19, <1>20, <3>1
      <3>2. CASE m # s
        BY <1>14, <1>19, <1>20, <2>1, <2>2, <3>2
      <3> QED BY <3>1, <3>2
    <2>4. r.pred[m] = {f \in C : Snk(r, f) = m}
      <3>1. CASE m = t
        BY <1>13, <1>14, <1>19, <1>20, <3>1
      <3>2. CASE m # t
        BY <1>14, <1>19, <1>20, <2>1, <2>2, <3>2
      <3> QED BY <3>1, <3>2
    <2> QED BY <2>3, <2>4
  <1>22. \A f \in C : Src(r, f) \in g.nodes /\ Snk(r, f) \in g.nodes
    BY <1>5, <1>14, <1>20 DEF Agree
  <1>23. \A d, f \in C : SameEnds(r, d, f) => d = f
    <2>1. \A d, f \in g.edges : SameEnds(g, d, f) => d = f
      BY <1>5 DEF Agree
    <2>2. Src(g, e) = s /\ Snk(g, e) = t
      BY DEF s, t
    <2> QED BY <1>14, <1>20, <2>1, <2>2 DEF SameEnds
  <1>24. Sound(r)
    BY <1>19, <1>21, <1>22, <1>23 DEF Sound, Agree
  <1>25. ASSUME NEW d \in r.edges
         PROVE  \E f \in g.edges : /\ Src(r, d) = Src(g, f) /\ Snk(r, d) = Snk(g, f)
                                   /\ Freq(r, d) <= Freq(g, f)
    <2>1. CASE d = x
      BY <1>20, <2>1 DEF s, t
    <2>2. CASE d # x
      <3>1. d \in g.edges /\ Freq(g, d) \in Nat
        BY <1>5, <1>14, <1>19, <2>2, Fields
      <3> QED BY <1>20, <3>1
    <2> QED BY <2>1, <2>2
  <1>26. Levelled(g, r)
    BY <1>19, <1>24, <1>25 DEF Levelled
  <1> QED
    BY <1>4, <1>26

\* Sharing the weight of a node out over its successors raises no frequency.
LEMMA SharedIs ==
  ASSUME NEW g, Sound(g), NEW n \in g.nodes
  PROVE  Levelled(g, Shared(g, n))
  <1>1. PICK E : E = g.succ[n]
    OBVIOUS
  <1>2. E \subseteq EdgesMade(g) /\ g.edges \subseteq EdgesMade(g) /\ Shape(g)
    BY <1>1 DEF Sound, Agree, Shape
  <1>3. PICK r : r = Rebalance(g, E)
    OBVIOUS
  <1>4. /\ Sound(r)
        /\ r.nodes = g.nodes /\ r.edges = g.edges /\ r.inner = g.inner /\ r.blocks = g.blocks
        /\ \A e \in EdgesMade(g) : /\ Src(r, e) = Src(g, e) /\ Snk(r, e) = Snk(g, e)
                                   /\ Freq(r, e) = Freq(g, e)
    BY <1>2, <1>3, RebalanceIs DEF Reweighted
  <1>5. \A e \in g.edges : Freq(g, e) \in Nat /\ Freq(g, e) <= Freq(g, e)
    BY <1>2, Fields
  <1>6. \A e \in r.edges : /\ e \in g.edges
                           /\ Src(r, e) = Src(g, e) /\ Snk(r, e) = Snk(g, e)
                           /\ Freq(r, e) <= Freq(g, e)
    BY <1>2, <1>4, <1>5
  <1>7. Levelled(g, r)
    BY <1>4, <1>6 DEF Levelled
  <1> QED
    BY <1>1, <1>3, <1>7 DEF Shared

\* Levelling one node raises nothing.
LEMMA LevelIs ==
  ASSUME NEW g, Sound(g), NEW n \in g.nodes
  PROVE  Levelled(g, Level(g, n))
  <1>1. ASSUME NEW e \in g.edges, NEW freq \in Nat, freq <= Freq(g, e)
        PROVE  Levelled(g, Shared(Lower(g, e, freq), Src(g, e)))
    <2>1. PICK h : h = Lower(g, e, freq)
      OBVIOUS
    <2>2. Levelled(g, h)
      BY <1>1, <2>1, LowerIs
    <2>3. Src(g, e) \in h.nodes /\ Sound(h)
      BY <2>2 DEF Levelled, Sound, Agree
    <2>4. PICK k, m : k = Shared(h, m) /\ m = Src(g, e)
      OBVIOUS
    <2>5. Levelled(h, k)
      BY <2>3, <2>4, SharedIs
    <2>6. Levelled(g, k)
      BY <2>2, <2>5, LevelledTwice
    <2> QED BY <2>1, <2>4, <2>6
  <1>2. CASE Cardinality(g.pred[n]) = 1 /\ Cardinality(g.succ[n]) = 1
    <2>1. g.pred[n] # {} /\ g.succ[n] # {}
      BY <1>2, FS_EmptySet
    <2>2. PICK in, out : in = (CHOOSE e \in g.pred[n] : TRUE) /\ out = (CHOOSE e \in g.succ[n] : TRUE)
      OBVIOUS
    <2>3. in \in g.edges /\ out \in g.edges
      BY <2>1, <2>2 DEF Sound, Agree
    <2>4. Freq(g, in) \in Nat /\ Freq(g, out) \in Nat
      BY <2>3, Fields DEF Sound, Shape
    <2>5. Level(g, n) = LevelEdges(g, in, out)
      BY <1>2, <2>2 DEF Level
    <2>6. CASE Freq(g, in) > Freq(g, out)
      <3>1. Levelled(g, Shared(Lower(g, in, Freq(g, out)), Src(g, in)))
        BY <1>1, <2>3, <2>4, <2>6
      <3> QED BY <2>5, <2>6, <3>1 DEF LevelEdges
    <2>7. CASE Freq(g, in) < Freq(g, out)
      <3>1. Levelled(g, Shared(Lower(g, out, Freq(g, in)), Src(g, out)))
        BY <1>1, <2>3, <2>4, <2>7
      <3>2. ~ (Freq(g, in) > Freq(g, out))
        BY <2>4, <2>7
      <3> QED BY <2>5, <2>7, <3>1, <3>2 DEF LevelEdges
    <2>8. CASE Freq(g, in) = Freq(g, out)
      <3>1. ~ (Freq(g, in) > Freq(g, out)) /\ ~ (Freq(g, in) < Freq(g, out))
        BY <2>4, <2>8
      <3> QED BY <2>5, <3>1, LevelledSame DEF LevelEdges
    <2> QED BY <2>4, <2>6, <2>7, <2>8
  <1>3. CASE ~ (Cardinality(g.pred[n]) = 1 /\ Cardinality(g.succ[n]) = 1)
    <2>1. Level(g, n) = g
      BY <1>3 DEF Level
    <2> QED BY <2>1, LevelledSame
  <1> QED
    BY <1>2, <1>3

\* KCLTransform raises no frequency, and changes nothing else of the graph.
LEMMA KCLTransformIs ==
  ASSUME NEW g, Sound(g)
  PROVE  Levelled(g, KCLTransform(g))
  <1> DEFINE v == Len(g.inner)
  <1>1. v \in Nat
    BY Fields DEF Sound
  <1> DEFINE op(h, i) == IF i \in g.nodes THEN Level(h, i) ELSE h
             F(k, a) == a = [i \in 0 .. k |-> IF i = 0 THEN g ELSE op(a[i - 1], i)]
             T == {k \in 0 .. v : \E a : F(k, a)}
             Holds(i, h) == Levelled(g, h)
  <1>2. \A i \in 1 .. v : i \in 0 .. v /\ i - 1 \in 0 .. v /\ i # 0
    BY <1>1
  <1>3. KCLTransform(g) = (CHOOSE a : F(v, a))[v]
    BY <1>1 DEF KCLTransform, Each, VirtualNodeOf
  <1>4. Holds(0, g)
    BY LevelledSame
  <1>5. ASSUME NEW i \in 1 .. v, NEW h, Holds(i - 1, h) PROVE Holds(i, op(h, i))
    <2>1. Levelled(g, h) /\ Sound(h) /\ h.nodes = g.nodes
      BY <1>5 DEF Levelled
    <2>2. CASE i \in g.nodes
      <3>1. op(h, i) = Level(h, i)
        BY <2>2
      <3>2. PICK k : k = Level(h, i)
        OBVIOUS
      <3>3. Levelled(h, k)
        BY <2>1, <2>2, <3>2, LevelIs
      <3>4. Levelled(g, k)
        BY <2>1, <3>3, LevelledTwice
      <3> QED BY <3>1, <3>2, <3>4
    <2>3. CASE i \notin g.nodes
      BY <2>1, <2>3
    <2> QED BY <2>2, <2>3
  <1> HIDE DEF op, Holds
  <1>6. 0 \in T
    <2>1. PICK a : a = [i \in 0 .. 0 |-> g]
      OBVIOUS
    <2>2. F(0, a)
      BY <2>1
    <2> HIDE DEF F
    <2> QED BY <1>1, <2>2
  <1>7. ASSUME NEW k \in 1 .. v, k - 1 \in T PROVE k \in T
    <2>1. PICK a : F(k - 1, a)
      BY <1>7
    <2>2. PICK b : b = [i \in 0 .. k |-> IF i = k THEN op(a[k - 1], k) ELSE a[i]]
      OBVIOUS
    <2>3. ASSUME NEW i \in 0 .. k PROVE b[i] = IF i = 0 THEN g ELSE op(b[i - 1], i)
      <3>1. CASE i = k
        BY <2>2, <3>1
      <3>2. CASE i # k
        <4>1. i \in 0 .. (k - 1) /\ b[i] = a[i] /\ (i # 0 => i - 1 \in 0 .. k /\ i - 1 # k)
          BY <2>2, <3>2
        <4>2. a[i] = IF i = 0 THEN g ELSE op(a[i - 1], i)
          BY <2>1, <4>1
        <4> QED BY <2>2, <4>1, <4>2
      <3> QED BY <3>1, <3>2
    <2>4. F(k, b)
      <3>1. b = [i \in 0 .. k |-> b[i]]
        BY <2>2
      <3> QED BY <2>3, <3>1
    <2> HIDE DEF F
    <2> QED BY <1>2, <2>4
  <1>8. v \in T
    <2> HIDE DEF T
    <2>1. \A i \in 0 .. v : i \in T
      BY <1>1, <1>6, <1>7, UpTo
    <2> QED BY <1>1, <2>1
  <1>9. PICK after : F(v, after) /\ KCLTransform(g) = after[v]
    <2> HIDE DEF F
    <2> QED BY <1>3, <1>8
  <1>10. after[0] = g /\ \A i \in 1 .. v : after[i] = op(after[i - 1], i)
    <2>1. after = [i \in 0 .. v |-> IF i = 0 THEN g ELSE op(after[i - 1], i)]
      BY <1>9
    <2> HIDE DEF F
    <2>2. 0 \in 0 .. v /\ \A i \in 1 .. v : i \in 0 .. v /\ i # 0
      BY <1>1
    <2> QED BY <2>1, <2>2
  <1>11. Holds(v, KCLTransform(g))
    <2> DEFINE U == {i \in 0 .. v : Holds(i, after[i])}
    <2>1. 0 \in U
      BY <1>1, <1>4, <1>10
    <2>2. \A i \in 1 .. v : i - 1 \in U => i \in U
      BY <1>2, <1>5, <1>10
    <2> HIDE DEF U
    <2>3. \A i \in 0 .. v : i \in U
      BY <1>1, <2>1, <2>2, UpTo
    <2>4. Holds(v, after[v])
      BY <1>1, <2>3 DEF U
    <2> QED BY <1>9, <2>4
  <1> USE DEF Holds
  <1> QED
    BY <1>11
=============================================================================
