------------------------- MODULE SegmentationProofs -------------------------
(***************************************************************************)
(* Theorems about Cartographer's segmentation, for every set of walks that *)
(* a profile is made of and every bound: until the kernels have been       *)
(* found, the three sets an edge is in agree, every block is under one     *)
(* node of the graph, no search meets a node that is not there, and no     *)
(* edge is more frequent than the profile.  To the end, the kernels nest    *)
(* and the file names every block.                                         *)
(***************************************************************************)
EXTENDS Segmentation, GraphProofs

-----------------------------------------------------------------------------
(* Leaves *)

\* A virtual node stands for nodes that were made before it.
Layered(g) ==
  /\ g.inner \in Seq(Subgraphs)
  /\ \A n \in NodesMade(g) : g.inner[n].nodes \subseteq 1 .. (n - 1)

\* Nodes are numbered.
LEMMA NodesAre ==
  ASSUME NEW g, Layered(g)
  PROVE  /\ Len(g.inner) \in Nat /\ DOMAIN g.inner = 1 .. Len(g.inner)
         /\ NodesMade(g) = 1 .. Len(g.inner) /\ NodesMade(g) \subseteq Nat
  <1> QED
    BY DEF Layered, NodesMade

\* Sets that are made of those of lower numbers, d[m], and of something more, a[m].
IsUnions(D, a, d, f) == f = [m \in D |-> a[m] \cup UNION {f[l] : l \in d[m]}]

\* There are such sets.
LEMMA UnionsExist ==
  ASSUME NEW v \in Nat, NEW D, D \subseteq 0 .. v, NEW a, NEW d,
         \A m \in D : \A l \in d[m] : l \in D /\ l < m
  PROVE  \E f : IsUnions(D, a, d, f)
  <1> DEFINE U(k) == {m \in D : m <= k}
             T == {k \in 0 .. v : \E f : IsUnions(U(k), a, d, f)}
             step(f, m) == a[m] \cup UNION {f[l] : l \in d[m]}
  <1>1. \A m \in D : m \in Nat /\ m \in 0 .. v
    OBVIOUS
  <1>2. 0 \in T
    <2>1. PICK f : f = [m \in U(0) |-> a[m]]
      OBVIOUS
    <2>2. \A m \in U(0) : d[m] = {}
      <3> SUFFICES ASSUME NEW m \in U(0), NEW l \in d[m] PROVE FALSE
        OBVIOUS
      <3>1. m \in D /\ m \in Nat /\ m <= 0
        BY <1>1
      <3>2. l \in D /\ l < m
        BY <3>1
      <3>3. l \in Nat
        BY <1>1, <3>2
      <3> QED BY <3>1, <3>2, <3>3
    <2>3. \A m \in U(0) : f[m] = step(f, m)
      BY <2>1, <2>2
    <2>4. f = [m \in U(0) |-> f[m]]
      BY <2>1
    <2> HIDE DEF U, step
    <2>5. f = [m \in U(0) |-> step(f, m)]
      BY <2>3, <2>4
    <2>6. IsUnions(U(0), a, d, f)
      BY <2>5 DEF IsUnions, step
    <2> QED BY <2>6
  <1>3. ASSUME NEW k \in 1 .. v, k - 1 \in T PROVE k \in T
    <2>1. PICK f : IsUnions(U(k - 1), a, d, f)
      BY <1>3
    <2>2. PICK h : h = [m \in U(k) |-> IF m = k THEN step(f, k) ELSE f[m]]
      OBVIOUS
    <2>3. ASSUME NEW m \in U(k) PROVE h[m] = step(h, m)
      <3>1. \A l \in d[m] : l \in U(k) /\ l # k
        <4> SUFFICES ASSUME NEW l \in d[m] PROVE l \in U(k) /\ l # k
          OBVIOUS
        <4>1. m \in D /\ m \in Nat /\ m <= k /\ k \in Nat
          BY <1>1
        <4>2. l \in D /\ l < m
          BY <4>1
        <4>3. l \in Nat
          BY <1>1, <4>2
        <4>4. l <= k /\ l # k
          BY <4>1, <4>2, <4>3
        <4> QED BY <4>2, <4>4
      <3>2. \A l \in d[m] : h[l] = f[l]
        BY <2>2, <3>1
      <3>3. step(h, m) = step(f, m)
        BY <3>2
      <3>4. CASE m = k
        BY <2>2, <3>3, <3>4
      <3>5. CASE m # k
        <4>1. m \in U(k - 1)
          BY <1>1, <3>5
        <4>2. f[m] = step(f, m)
          BY <2>1, <4>1 DEF IsUnions
        <4> QED BY <2>2, <3>3, <3>5, <4>2
      <3> QED BY <3>4, <3>5
    <2>4. h = [m \in U(k) |-> h[m]]
      BY <2>2
    <2> HIDE DEF U, step
    <2>5. h = [m \in U(k) |-> step(h, m)]
      BY <2>3, <2>4
    <2>6. IsUnions(U(k), a, d, h)
      BY <2>5 DEF IsUnions, step
    <2> QED BY <2>6
  <1> HIDE DEF T
  <1>4. v \in T
    BY <1>2, <1>3, UpTo
  <1>5. U(v) = D
    <2>1. \A m \in D : m <= v
      BY <1>1
    <2> QED BY <2>1
  <1> QED
    BY <1>4, <1>5 DEF T

\* The recursion of Leaves, for any function.
IsLeaves(g, k, f) ==
  f = [m \in 1 .. k |-> IF IsVirtual(g, m) THEN UNION {f[l] : l \in g.inner[m].nodes}
                        ELSE {m}]

\* The recursion of Leaves has a solution: it goes to nodes made before.
LEMMA LeavesExist ==
  ASSUME NEW g, Layered(g)
  PROVE  \E f : IsLeaves(g, Len(g.inner), f)
  <1>1. PICK v : v = Len(g.inner)
    OBVIOUS
  <1>2. v \in Nat /\ NodesMade(g) = 1 .. v
    BY <1>1, NodesAre DEF NodesMade
  <1>3. PICK a, d : /\ a = [m \in 1 .. v |-> IF IsVirtual(g, m) THEN {} ELSE {m}]
                    /\ d = [m \in 1 .. v |-> IF IsVirtual(g, m) THEN g.inner[m].nodes ELSE {}]
    OBVIOUS
  <1>4. \A m \in 1 .. v : \A l \in d[m] : l \in 1 .. v /\ l < m
    <2>1. \A m \in 1 .. v : g.inner[m].nodes \subseteq 1 .. (m - 1)
      BY <1>2 DEF Layered
    <2>2. \A m \in 1 .. v : d[m] \subseteq 1 .. (m - 1)
      BY <1>3, <2>1
    <2> QED BY <1>2, <2>2
  <1>5. 1 .. v \subseteq 0 .. v
    OBVIOUS
  <1>6. PICK f : IsUnions(1 .. v, a, d, f)
    BY <1>2, <1>4, <1>5, UnionsExist
  <1>7. ASSUME NEW m \in 1 .. v
        PROVE  f[m] = IF IsVirtual(g, m) THEN UNION {f[l] : l \in g.inner[m].nodes} ELSE {m}
    <2>1. f[m] = a[m] \cup UNION {f[l] : l \in d[m]}
      BY <1>6 DEF IsUnions
    <2> QED BY <1>3, <2>1
  <1>8. f = [m \in 1 .. v |-> f[m]]
    BY <1>6 DEF IsUnions
  <1>9. IsLeaves(g, v, f)
    BY <1>7, <1>8 DEF IsLeaves
  <1> QED
    BY <1>1, <1>9

\* The leaves of a node are themselves, or those of what is inside of it.
LEMMA LeavesAre ==
  ASSUME NEW g, Layered(g), NEW n \in NodesMade(g)
  PROVE  Leaves(g, n) = IF IsVirtual(g, n) THEN UNION {Leaves(g, l) : l \in g.inner[n].nodes}
                        ELSE {n}
  <1>1. DOMAIN g.inner = 1 .. Len(g.inner)
    BY NodesAre
  <1>2. PICK f : f = CHOOSE a : IsLeaves(g, Len(g.inner), a)
    OBVIOUS
  <1>3. IsLeaves(g, Len(g.inner), f)
    BY <1>2, LeavesExist
  <1>4. \A m : Leaves(g, m) = f[m]
    BY <1>1, <1>2 DEF Leaves, IsLeaves
  <1>5. n \in 1 .. Len(g.inner)
    BY DEF NodesMade
  <1>6. f[n] = IF IsVirtual(g, n) THEN UNION {f[l] : l \in g.inner[n].nodes} ELSE {n}
    BY <1>3, <1>5 DEF IsLeaves
  <1> QED
    BY <1>4, <1>6

\* Every node stands for some block.
LEMMA LeavesNotEmpty ==
  ASSUME NEW g, Layered(g), NEW n \in NodesMade(g)
  PROVE  Leaves(g, n) # {}
  <1> DEFINE T == {m \in NodesMade(g) : Leaves(g, m) = {}}
  <1>1. SUFFICES ASSUME T # {} PROVE FALSE
    OBVIOUS
  <1>2. T \subseteq Nat
    BY DEF NodesMade
  <1>3. PICK m \in T : \A l \in T : m <= l
    BY <1>1, <1>2, LeastNat
  <1>4. m \in NodesMade(g) /\ m \in Nat /\ Leaves(g, m) = {}
    BY <1>2
  <1>5. Leaves(g, m) = IF IsVirtual(g, m) THEN UNION {Leaves(g, l) : l \in g.inner[m].nodes}
                       ELSE {m}
    BY <1>4, LeavesAre
  <1>6. PICK l : l \in g.inner[m].nodes /\ Leaves(g, l) = {}
    BY <1>4, <1>5 DEF IsVirtual
  <1>7. l \in NodesMade(g) /\ l \in Nat /\ ~ m <= l
    BY <1>4, <1>6, NodesAre DEF Layered, NodesMade
  <1> QED
    BY <1>3, <1>6, <1>7

\* Nodes that are made later change nothing.
LEMMA LeavesSame ==
  ASSUME NEW g, Layered(g), NEW h, Layered(h),
         NodesMade(g) \subseteq NodesMade(h),
         \A n \in NodesMade(g) : h.inner[n] = g.inner[n]
  PROVE  \A n \in NodesMade(g) : Leaves(h, n) = Leaves(g, n)
  <1> DEFINE T == {n \in NodesMade(g) : Leaves(h, n) # Leaves(g, n)}
  <1>1. SUFFICES ASSUME T # {} PROVE FALSE
    OBVIOUS
  <1>2. T \subseteq Nat
    BY DEF NodesMade
  <1>3. PICK n \in T : \A m \in T : n <= m
    BY <1>1, <1>2, LeastNat
  <1>4. n \in NodesMade(g) /\ n \in Nat /\ Leaves(h, n) # Leaves(g, n)
    BY <1>2
  <1>5. \A l \in g.inner[n].nodes : l \in NodesMade(g) /\ l \in Nat /\ l < n
    BY <1>4, NodesAre DEF Layered, NodesMade
  <1>6. \A l \in g.inner[n].nodes : Leaves(h, l) = Leaves(g, l)
    BY <1>3, <1>4, <1>5
  <1>7. IsVirtual(h, n) = IsVirtual(g, n) /\ h.inner[n].nodes = g.inner[n].nodes
    BY <1>4 DEF IsVirtual
  <1>8. Leaves(g, n) = IF IsVirtual(g, n) THEN UNION {Leaves(g, l) : l \in g.inner[n].nodes}
                       ELSE {n}
    BY <1>4, LeavesAre
  <1>9. Leaves(h, n) = IF IsVirtual(h, n) THEN UNION {Leaves(h, l) : l \in h.inner[n].nodes}
                       ELSE {n}
    BY <1>4, LeavesAre
  <1> QED
    BY <1>4, <1>6, <1>7, <1>8, <1>9

-----------------------------------------------------------------------------
(* Kernels within nodes *)

\* The kernels within one node, and the recursion that finds them.
Within(g, K, n) == KernelsIn(g, K, {n})

\* f is the function it defines.
IsWithin(g, K, f) ==
  f = [n \in DOMAIN g.inner |->
          IF n \in K THEN {n} ELSE UNION {f[m] : m \in g.inner[n].nodes}]

\* A kernel is within itself; within other nodes are the kernels within what is
\* inside of them.
LEMMA WithinIs ==
  ASSUME NEW g, Layered(g), NEW K, NEW n \in NodesMade(g)
  PROVE  Within(g, K, n) = IF n \in K THEN {n}
                           ELSE UNION {Within(g, K, m) : m \in g.inner[n].nodes}
  <1>1. PICK v : v = Len(g.inner)
    OBVIOUS
  <1>2. v \in Nat /\ NodesMade(g) = 1 .. v /\ DOMAIN g.inner = 1 .. v
    BY <1>1, NodesAre
  <1>3. PICK a, d : /\ a = [m \in 1 .. v |-> IF m \in K THEN {m} ELSE {}]
                    /\ d = [m \in 1 .. v |-> IF m \in K THEN {} ELSE g.inner[m].nodes]
    OBVIOUS
  <1>4. \A m \in 1 .. v : \A l \in d[m] : l \in 1 .. v /\ l < m
    <2>1. \A m \in 1 .. v : d[m] \subseteq 1 .. (m - 1)
      BY <1>2, <1>3 DEF Layered
    <2> QED BY <1>2, <2>1
  <1>5. 1 .. v \subseteq 0 .. v
    OBVIOUS
  <1>6. PICK u : IsUnions(1 .. v, a, d, u)
    BY <1>2, <1>4, <1>5, UnionsExist
  <1>7. ASSUME NEW m \in 1 .. v
        PROVE  u[m] = IF m \in K THEN {m} ELSE UNION {u[l] : l \in g.inner[m].nodes}
    <2>1. u[m] = a[m] \cup UNION {u[l] : l \in d[m]}
      BY <1>6 DEF IsUnions
    <2> QED BY <1>3, <2>1
  <1>8. u = [m \in 1 .. v |-> u[m]]
    BY <1>6 DEF IsUnions
  <1>9. IsWithin(g, K, u)
    BY <1>2, <1>7, <1>8 DEF IsWithin
  <1>10. PICK f : f = CHOOSE x : IsWithin(g, K, x)
    OBVIOUS
  <1>11. IsWithin(g, K, f)
    BY <1>9, <1>10
  <1>12. ASSUME NEW m PROVE Within(g, K, m) = f[m]
    <2>1. Within(g, K, m) = UNION {f[l] : l \in {m}}
      BY <1>10 DEF Within, KernelsIn, IsWithin
    <2>2. {f[l] : l \in {m}} = {f[m]}
      OBVIOUS
    <2> QED BY <2>1, <2>2
  <1>13. f[n] = IF n \in K THEN {n} ELSE UNION {f[m] : m \in g.inner[n].nodes}
    BY <1>2, <1>11 DEF IsWithin
  <1>14. {Within(g, K, m) : m \in g.inner[n].nodes} = {f[m] : m \in g.inner[n].nodes}
    BY <1>12
  <1> QED
    BY <1>12, <1>13, <1>14

\* The kernels in some nodes are those within each.
LEMMA KernelsInAre ==
  ASSUME NEW g, NEW K, NEW N
  PROVE  KernelsIn(g, K, N) = UNION {Within(g, K, n) : n \in N}
  <1>1. PICK f : f = CHOOSE x : IsWithin(g, K, x)
    OBVIOUS
  <1>2. ASSUME NEW m PROVE Within(g, K, m) = f[m]
    <2>1. Within(g, K, m) = UNION {f[l] : l \in {m}}
      BY <1>1 DEF Within, KernelsIn, IsWithin
    <2>2. {f[l] : l \in {m}} = {f[m]}
      OBVIOUS
    <2> QED BY <2>1, <2>2
  <1>3. KernelsIn(g, K, N) = UNION {f[n] : n \in N}
    BY <1>1 DEF KernelsIn, IsWithin
  <1>4. {Within(g, K, n) : n \in N} = {f[n] : n \in N}
    BY <1>2
  <1> QED
    BY <1>3, <1>4

\* Nodes and kernels that are made later change nothing.
LEMMA WithinSame ==
  ASSUME NEW g, Layered(g), NEW h, Layered(h), NEW K, NEW L,
         NEW u \in Nat, u <= Len(g.inner), u <= Len(h.inner),
         \A n \in 1 .. u : h.inner[n] = g.inner[n] /\ (n \in K <=> n \in L)
  PROVE  \A n \in 1 .. u : Within(h, L, n) = Within(g, K, n)
  <1> DEFINE T == {n \in 1 .. u : Within(h, L, n) # Within(g, K, n)}
  <1>1. SUFFICES ASSUME T # {} PROVE FALSE
    OBVIOUS
  <1>2. T \subseteq Nat
    OBVIOUS
  <1>3. PICK n \in T : \A m \in T : n <= m
    BY <1>1, <1>2, LeastNat
  <1>4. n \in 1 .. u /\ n \in NodesMade(g) /\ n \in NodesMade(h)
    BY NodesAre DEF NodesMade
  <1>5. \A l \in g.inner[n].nodes : l \in 1 .. u /\ l < n
    BY <1>4 DEF Layered
  <1>6. \A l \in g.inner[n].nodes : Within(h, L, l) = Within(g, K, l)
    <2> SUFFICES ASSUME NEW l \in g.inner[n].nodes PROVE Within(h, L, l) = Within(g, K, l)
      OBVIOUS
    <2>1. l \in 1 .. u /\ l < n /\ ~ n <= l
      BY <1>4, <1>5
    <2> QED BY <1>3, <2>1
  <1>7. Within(g, K, n) = IF n \in K THEN {n}
                          ELSE UNION {Within(g, K, m) : m \in g.inner[n].nodes}
    BY <1>4, WithinIs
  <1>8. Within(h, L, n) = IF n \in L THEN {n}
                          ELSE UNION {Within(h, L, m) : m \in h.inner[n].nodes}
    BY <1>4, WithinIs
  <1>9. h.inner[n].nodes = g.inner[n].nodes /\ (n \in K <=> n \in L)
    BY <1>4
  <1>10. {Within(g, K, m) : m \in g.inner[n].nodes} = {Within(h, L, m) : m \in h.inner[n].nodes}
    BY <1>6, <1>9
  <1>11. Within(h, L, n) = Within(g, K, n)
    BY <1>7, <1>8, <1>9, <1>10
  <1> QED
    BY <1>3, <1>11

\* What is within a node is a kernel, and has only leaves of the node.
LEMMA WithinUnder ==
  ASSUME NEW g, Layered(g), NEW K, NEW n \in NodesMade(g), NEW j \in Within(g, K, n)
  PROVE  j \in K /\ j \in 1 .. n /\ Leaves(g, j) \subseteq Leaves(g, n)
  <1> DEFINE good(i, m) == i \in K /\ i \in 1 .. m /\ Leaves(g, i) \subseteq Leaves(g, m)
             T == {m \in NodesMade(g) : \E i \in Within(g, K, m) : ~ good(i, m)}
  <1>1. SUFFICES ASSUME T # {} PROVE FALSE
    OBVIOUS
  <1>2. T \subseteq Nat
    BY DEF NodesMade
  <1>3. PICK m \in T : \A l \in T : m <= l
    BY <1>1, <1>2, LeastNat
  <1>4. m \in NodesMade(g) /\ m \in Nat /\ m \in 1 .. m
    BY DEF NodesMade
  <1>5. PICK i \in Within(g, K, m) : ~ good(i, m)
    BY <1>3
  <1>6. Within(g, K, m) = IF m \in K THEN {m}
                          ELSE UNION {Within(g, K, l) : l \in g.inner[m].nodes}
    BY <1>4, WithinIs
  <1>7. m \notin K
    BY <1>4, <1>5, <1>6
  <1>8. PICK l \in g.inner[m].nodes : i \in Within(g, K, l)
    BY <1>5, <1>6, <1>7
  <1>9. l \in NodesMade(g) /\ l \in Nat /\ l < m /\ ~ m <= l
    BY <1>4, NodesAre DEF Layered, NodesMade
  <1>10. good(i, l)
    BY <1>3, <1>8, <1>9
  <1>11. IsVirtual(g, m)
    BY <1>8 DEF IsVirtual
  <1>12. Leaves(g, m) = UNION {Leaves(g, x) : x \in g.inner[m].nodes}
    BY <1>4, <1>11, LeavesAre
  <1>13. good(i, m)
    BY <1>4, <1>8, <1>9, <1>10, <1>12
  <1> QED
    BY <1>5, <1>13

-----------------------------------------------------------------------------
(* Nodes over nodes, and their blocks *)

\* Two nodes with no block in common.
Unshared(g, m, n) == Leaves(g, m) \cap Leaves(g, n) = {}

\* Between a node and what is inside of it none was made over the latter.
Stacked(g) ==
  \A n \in NodesMade(g) : \A m \in g.inner[n].nodes : \A k \in NodesMade(g) :
      m < k /\ k < n => Unshared(g, m, k)

\* None was made over a node of the graph.
OnTop(g) == \A n \in g.nodes, k \in NodesMade(g) : n < k => Unshared(g, n, k)

\* The blocks of a node are under it; those of a block are itself.
Filed(g) ==
  \A n \in NodesMade(g) : /\ g.blocks[n] \subseteq Leaves(g, n)
                          /\ ~ IsVirtual(g, n) => g.blocks[n] = {n}

\* The blocks of the nodes J.
BlocksOf(g, J) == UNION {g.blocks[j] : j \in J}

\* A node has only leaves that were made before it, or itself.
LEMMA LeavesBefore ==
  ASSUME NEW g, Layered(g), NEW n \in NodesMade(g)
  PROVE  Leaves(g, n) \subseteq 1 .. n
  <1> DEFINE T == {m \in NodesMade(g) : ~ Leaves(g, m) \subseteq 1 .. m}
  <1>1. SUFFICES ASSUME T # {} PROVE FALSE
    OBVIOUS
  <1>2. T \subseteq Nat
    BY NodesAre
  <1>3. PICK m \in T : \A l \in T : m <= l
    BY <1>1, <1>2, LeastNat
  <1>4. m \in NodesMade(g) /\ m \in 1 .. m
    BY NodesAre DEF NodesMade
  <1>5. Leaves(g, m) = IF IsVirtual(g, m) THEN UNION {Leaves(g, l) : l \in g.inner[m].nodes}
                       ELSE {m}
    BY <1>4, LeavesAre
  <1>6. ASSUME NEW l \in g.inner[m].nodes PROVE Leaves(g, l) \subseteq 1 .. m
    <2>1. l \in NodesMade(g) /\ l \in Nat /\ l < m /\ ~ m <= l
      BY <1>4, NodesAre DEF Layered, NodesMade
    <2>2. Leaves(g, l) \subseteq 1 .. l
      BY <1>3, <2>1
    <2> QED BY <1>4, <2>1, <2>2
  <1> QED
    BY <1>3, <1>4, <1>5, <1>6

\* The blocks of the nodes N that are in no node of K.
OutsideOf(g, K, N) ==
  LET outside[n \in DOMAIN g.inner] ==
          IF n \in K THEN {}
          ELSE IF IsVirtual(g, n) THEN UNION {outside[m] : m \in g.inner[n].nodes}
          ELSE g.blocks[n]
  IN  UNION {outside[n] : n \in N}

\* Those of one node, and the recursion that finds them.
Outside(g, K, n) == OutsideOf(g, K, {n})

\* f is the function it defines.
IsOutside(g, K, f) ==
  f = [n \in DOMAIN g.inner |->
          IF n \in K THEN {}
          ELSE IF IsVirtual(g, n) THEN UNION {f[m] : m \in g.inner[n].nodes}
          ELSE g.blocks[n]]

\* A kernel has no blocks outside of kernels, a node those that what is inside has.
LEMMA OutsideIs ==
  ASSUME NEW g, Layered(g), NEW K, NEW n \in NodesMade(g)
  PROVE  Outside(g, K, n) = IF n \in K THEN {}
                            ELSE IF IsVirtual(g, n)
                                 THEN UNION {Outside(g, K, m) : m \in g.inner[n].nodes}
                            ELSE g.blocks[n]
  <1>1. PICK v : v = Len(g.inner)
    OBVIOUS
  <1>2. v \in Nat /\ NodesMade(g) = 1 .. v /\ DOMAIN g.inner = 1 .. v
    BY <1>1, NodesAre
  <1>3. PICK a, d :
            /\ a = [m \in 1 .. v |-> IF m \in K \/ IsVirtual(g, m) THEN {} ELSE g.blocks[m]]
            /\ d = [m \in 1 .. v |-> IF m \in K THEN {} ELSE g.inner[m].nodes]
    OBVIOUS
  <1>4. \A m \in 1 .. v : \A l \in d[m] : l \in 1 .. v /\ l < m
    <2>1. \A m \in 1 .. v : d[m] \subseteq 1 .. (m - 1)
      BY <1>2, <1>3 DEF Layered
    <2> QED BY <1>2, <2>1
  <1>5. 1 .. v \subseteq 0 .. v
    OBVIOUS
  <1>6. PICK u : IsUnions(1 .. v, a, d, u)
    BY <1>2, <1>4, <1>5, UnionsExist
  <1>7. ASSUME NEW m \in 1 .. v
        PROVE  u[m] = IF m \in K THEN {}
                      ELSE IF IsVirtual(g, m) THEN UNION {u[l] : l \in g.inner[m].nodes}
                      ELSE g.blocks[m]
    <2>1. u[m] = a[m] \cup UNION {u[l] : l \in d[m]}
      BY <1>6 DEF IsUnions
    <2> QED BY <1>3, <2>1 DEF IsVirtual
  <1>8. u = [m \in 1 .. v |-> u[m]]
    BY <1>6 DEF IsUnions
  <1>9. IsOutside(g, K, u)
    BY <1>2, <1>7, <1>8 DEF IsOutside
  <1>10. PICK f : f = CHOOSE x : IsOutside(g, K, x)
    OBVIOUS
  <1>11. IsOutside(g, K, f)
    BY <1>9, <1>10
  <1>12. ASSUME NEW m PROVE Outside(g, K, m) = f[m]
    <2>1. Outside(g, K, m) = UNION {f[l] : l \in {m}}
      BY <1>10 DEF Outside, OutsideOf, IsOutside
    <2>2. {f[l] : l \in {m}} = {f[m]}
      OBVIOUS
    <2> QED BY <2>1, <2>2
  <1>13. f[n] = IF n \in K THEN {}
                ELSE IF IsVirtual(g, n) THEN UNION {f[m] : m \in g.inner[n].nodes}
                ELSE g.blocks[n]
    BY <1>2, <1>11 DEF IsOutside
  <1>14. {Outside(g, K, m) : m \in g.inner[n].nodes} = {f[m] : m \in g.inner[n].nodes}
    BY <1>12
  <1> QED
    BY <1>12, <1>13, <1>14

\* The blocks outside of kernels in some nodes are those in each.
LEMMA OutsideOfAre ==
  ASSUME NEW g, NEW K, NEW N
  PROVE  OutsideOf(g, K, N) = UNION {Outside(g, K, n) : n \in N}
  <1>1. PICK f : f = CHOOSE x : IsOutside(g, K, x)
    OBVIOUS
  <1>2. ASSUME NEW m PROVE Outside(g, K, m) = f[m]
    <2>1. Outside(g, K, m) = UNION {f[l] : l \in {m}}
      BY <1>1 DEF Outside, OutsideOf, IsOutside
    <2>2. {f[l] : l \in {m}} = {f[m]}
      OBVIOUS
    <2> QED BY <2>1, <2>2
  <1>3. OutsideOf(g, K, N) = UNION {f[n] : n \in N}
    BY <1>1 DEF OutsideOf, IsOutside
  <1>4. {Outside(g, K, n) : n \in N} = {f[n] : n \in N}
    BY <1>2
  <1> QED
    BY <1>3, <1>4

\* What is under a node is outside of kernels, or in one within it.
LEMMA OutsideOrWithin ==
  ASSUME NEW g, Layered(g), Filed(g), NEW K, NEW n \in NodesMade(g)
  PROVE  /\ Outside(g, K, n) \subseteq Leaves(g, n)
         /\ Leaves(g, n) \subseteq
                Outside(g, K, n) \cup UNION {Leaves(g, k) : k \in Within(g, K, n)}
  <1> DEFINE good(m) == /\ Outside(g, K, m) \subseteq Leaves(g, m)
                        /\ Leaves(g, m) \subseteq
                              Outside(g, K, m) \cup UNION {Leaves(g, k) : k \in Within(g, K, m)}
             T == {m \in NodesMade(g) : ~ good(m)}
  <1>1. SUFFICES ASSUME T # {} PROVE FALSE
    OBVIOUS
  <1>2. T \subseteq Nat
    BY NodesAre
  <1>3. PICK m \in T : \A l \in T : m <= l
    BY <1>1, <1>2, LeastNat
  <1>4. m \in NodesMade(g) /\ m \in Nat
    BY <1>2
  <1>5. \A l \in g.inner[m].nodes : good(l)
    <2> SUFFICES ASSUME NEW l \in g.inner[m].nodes PROVE good(l)
      OBVIOUS
    <2>1. l \in NodesMade(g) /\ l \in Nat /\ ~ m <= l
      BY <1>4, NodesAre DEF Layered, NodesMade
    <2> QED BY <1>3, <2>1
  <1>6. Leaves(g, m) = IF IsVirtual(g, m) THEN UNION {Leaves(g, l) : l \in g.inner[m].nodes}
                       ELSE {m}
    BY <1>4, LeavesAre
  <1>7. Within(g, K, m) = IF m \in K THEN {m}
                          ELSE UNION {Within(g, K, l) : l \in g.inner[m].nodes}
    BY <1>4, WithinIs
  <1>8. Outside(g, K, m) = IF m \in K THEN {}
                           ELSE IF IsVirtual(g, m)
                                THEN UNION {Outside(g, K, l) : l \in g.inner[m].nodes}
                           ELSE g.blocks[m]
    BY <1>4, OutsideIs
  <1>9. CASE m \in K
    BY <1>3, <1>7, <1>8, <1>9
  <1>10. CASE m \notin K /\ ~ IsVirtual(g, m)
    BY <1>3, <1>4, <1>6, <1>8, <1>10 DEF Filed
  <1>11. CASE m \notin K /\ IsVirtual(g, m)
    <2>1. Outside(g, K, m) \subseteq Leaves(g, m)
      BY <1>5, <1>6, <1>8, <1>11
    <2>2. ASSUME NEW b \in Leaves(g, m), b \notin Outside(g, K, m)
          PROVE  \E k \in Within(g, K, m) : b \in Leaves(g, k)
      <3>1. PICK l \in g.inner[m].nodes : b \in Leaves(g, l)
        BY <1>6, <1>11, <2>2
      <3>2. b \notin Outside(g, K, l)
        BY <1>8, <1>11, <2>2
      <3>3. PICK k \in Within(g, K, l) : b \in Leaves(g, k)
        BY <1>5, <3>1, <3>2
      <3> QED BY <1>7, <1>11, <3>3
    <2> QED BY <1>3, <2>1, <2>2
  <1> QED
    BY <1>9, <1>10, <1>11

\* Blocks that are outside of kernels are in none, but one made later.
LEMMA OutsideApart ==
  ASSUME NEW g, Layered(g), Stacked(g), Filed(g), NEW K, NEW k \in K, k \in NodesMade(g),
         NEW n \in NodesMade(g), k <= n
  PROVE  Outside(g, K, n) \cap Leaves(g, k) = {}
  <1> DEFINE T == {m \in NodesMade(g) : k <= m /\ Outside(g, K, m) \cap Leaves(g, k) # {}}
  <1>1. SUFFICES ASSUME T # {} PROVE FALSE
    OBVIOUS
  <1>2. T \subseteq Nat
    BY NodesAre
  <1>3. PICK m \in T : \A l \in T : m <= l
    BY <1>1, <1>2, LeastNat
  <1>4. m \in NodesMade(g) /\ m \in Nat /\ k \in Nat /\ k <= m
    BY NodesAre
  <1>5. PICK b : b \in Outside(g, K, m) /\ b \in Leaves(g, k)
    BY <1>3
  <1>6. Outside(g, K, m) = IF m \in K THEN {}
                           ELSE IF IsVirtual(g, m)
                                THEN UNION {Outside(g, K, l) : l \in g.inner[m].nodes}
                           ELSE g.blocks[m]
    BY <1>4, OutsideIs
  <1>7. m \notin K /\ k < m
    BY <1>4, <1>5, <1>6
  <1>8. CASE ~ IsVirtual(g, m)
    <2>1. b = m
      BY <1>4, <1>5, <1>6, <1>7, <1>8 DEF Filed
    <2>2. b \in 1 .. k
      BY <1>5, LeavesBefore
    <2> QED BY <1>4, <1>7, <2>1, <2>2
  <1>9. CASE IsVirtual(g, m)
    <2>1. PICK l \in g.inner[m].nodes : b \in Outside(g, K, l)
      BY <1>5, <1>6, <1>7, <1>9
    <2>2. l \in NodesMade(g) /\ l \in Nat /\ l < m /\ ~ m <= l
      BY <1>4, NodesAre DEF Layered, NodesMade
    <2>3. CASE k <= l
      BY <1>3, <1>5, <2>1, <2>2, <2>3
    <2>4. CASE l < k
      <3>1. Unshared(g, l, k)
        BY <1>4, <1>7, <2>4 DEF Stacked
      <3>2. b \in Leaves(g, l)
        BY <2>1, <2>2, OutsideOrWithin
      <3> QED BY <1>5, <3>1, <3>2 DEF Unshared
    <2> QED BY <1>4, <2>2, <2>3, <2>4
  <1> QED
    BY <1>8, <1>9

-----------------------------------------------------------------------------
(* Kernels and their descendants *)

\* The children of a kernel were made before it.
Childed(ch) == \A k \in DOMAIN ch : ch[k] \subseteq {j \in DOMAIN ch : j < k}

\* Descendants, for any children; and its recursion.
Below(ch, k) ==
  LET below[c \in DOMAIN ch] == ch[c] \cup UNION {below[b] : b \in ch[c]}
  IN  below[k]

\* f is the function that this recursion defines.
IsBelow(ch, f) == f = [c \in DOMAIN ch |-> ch[c] \cup UNION {f[b] : b \in ch[c]}]

\* The descendants of a kernel are its children and their descendants.
LEMMA BelowIs ==
  ASSUME NEW v \in Nat, NEW ch, DOMAIN ch \subseteq 1 .. v, Childed(ch), NEW k \in DOMAIN ch
  PROVE  Below(ch, k) = ch[k] \cup UNION {Below(ch, b) : b \in ch[k]}
  <1>1. PICK D : D = DOMAIN ch
    OBVIOUS
  <1>2. D \subseteq 0 .. v
    BY <1>1
  <1>3. \A m \in D : \A l \in ch[m] : l \in D /\ l < m
    BY <1>1 DEF Childed
  <1>4. \E f : IsUnions(D, ch, ch, f)
    BY <1>2, <1>3, UnionsExist
  <1>5. \E f : IsBelow(ch, f)
    BY <1>1, <1>4 DEF IsUnions, IsBelow
  <1>6. PICK f : f = CHOOSE x : IsBelow(ch, x)
    OBVIOUS
  <1>7. IsBelow(ch, f)
    BY <1>5, <1>6
  <1>8. \A c : Below(ch, c) = f[c]
    BY <1>6 DEF Below, IsBelow
  <1>9. f[k] = ch[k] \cup UNION {f[b] : b \in ch[k]}
    BY <1>7 DEF IsBelow
  <1>10. {f[b] : b \in ch[k]} = {Below(ch, b) : b \in ch[k]}
    BY <1>8
  <1> QED
    BY <1>8, <1>9, <1>10

\* Kernels that are made later change nothing.
LEMMA BelowSame ==
  ASSUME NEW v \in Nat, NEW a, DOMAIN a \subseteq 1 .. v, Childed(a),
         NEW b, DOMAIN b \subseteq 1 .. v, Childed(b),
         DOMAIN a \subseteq DOMAIN b, \A k \in DOMAIN a : b[k] = a[k]
  PROVE  \A k \in DOMAIN a : Below(b, k) = Below(a, k)
  <1> DEFINE T == {k \in DOMAIN a : Below(b, k) # Below(a, k)}
  <1>1. SUFFICES ASSUME T # {} PROVE FALSE
    OBVIOUS
  <1>2. T \subseteq Nat
    OBVIOUS
  <1>3. PICK k \in T : \A m \in T : k <= m
    BY <1>1, <1>2, LeastNat
  <1>4. k \in DOMAIN a /\ k \in DOMAIN b /\ b[k] = a[k] /\ k \in Nat
    OBVIOUS
  <1>5. \A c \in a[k] : c \in DOMAIN a /\ c \in Nat /\ ~ k <= c
    BY <1>4 DEF Childed
  <1>6. \A c \in a[k] : Below(b, c) = Below(a, c)
    BY <1>3, <1>5
  <1>7. Below(a, k) = a[k] \cup UNION {Below(a, c) : c \in a[k]}
    BY <1>4, BelowIs
  <1>8. Below(b, k) = b[k] \cup UNION {Below(b, c) : c \in b[k]}
    BY <1>4, BelowIs
  <1>9. Below(b, k) = Below(a, k)
    BY <1>4, <1>6, <1>7, <1>8
  <1> QED
    BY <1>3, <1>9

\* Where the children of kernels are kernels, so are their descendants, which are all
\* children of kernels.
LEMMA BelowIn ==
  ASSUME NEW v \in Nat, NEW ch, DOMAIN ch \subseteq 1 .. v, Childed(ch),
         NEW K, K \subseteq DOMAIN ch, \A k \in K : ch[k] \subseteq K, NEW k \in K
  PROVE  \A j \in Below(ch, k) : j \in K /\ \E b \in K : j \in ch[b]
  <1> DEFINE good(m) == \A j \in Below(ch, m) : j \in K /\ \E b \in K : j \in ch[b]
             T == {m \in K : ~ good(m)}
  <1>1. SUFFICES ASSUME T # {} PROVE FALSE
    OBVIOUS
  <1>2. T \subseteq Nat
    OBVIOUS
  <1>3. PICK m \in T : \A l \in T : m <= l
    BY <1>1, <1>2, LeastNat
  <1>4. m \in K /\ m \in DOMAIN ch /\ m \in Nat
    OBVIOUS
  <1>5. Below(ch, m) = ch[m] \cup UNION {Below(ch, b) : b \in ch[m]}
    BY <1>4, BelowIs
  <1>6. \A b \in ch[m] : b \in K /\ good(b)
    <2> SUFFICES ASSUME NEW b \in ch[m] PROVE b \in K /\ good(b)
      OBVIOUS
    <2>1. b \in K
      BY <1>4
    <2>2. b < m /\ b \in Nat /\ ~ m <= b
      BY <1>4, <2>1 DEF Childed
    <2> QED BY <1>3, <2>1, <2>2
  <1> QED
    BY <1>3, <1>4, <1>5, <1>6

-----------------------------------------------------------------------------
(* Graphs that stand for a profile *)

\* A profile: blocks, and edges between them that were taken so many times.
IsProfile(p) ==
  /\ p.blocks \subseteq Nat \ {0} /\ IsFiniteSet(p.blocks) /\ p.blocks # {}
  /\ DOMAIN p.freq \subseteq p.blocks \X p.blocks /\ IsFiniteSet(DOMAIN p.freq)
  /\ \A e \in DOMAIN p.freq : p.freq[e] \in Nat

\* The edges of the profile from a block of S to a block of T, and how often they
\* were taken.
Steps(p, S, T) == {e \in DOMAIN p.freq : e[1] \in S /\ e[2] \in T}

\* How often they were taken.
Crossed(p, S, T) == Taken(p, Steps(p, S, T))

\* How often edges were taken is the number of their ticks.
LEMMA CrossedIs ==
  ASSUME NEW p, IsProfile(p), NEW S, NEW T
  PROVE  /\ IsFiniteSet(Ticks(Steps(p, S, T), p.freq))
         /\ Crossed(p, S, T) = Cardinality(Ticks(Steps(p, S, T), p.freq))
         /\ Crossed(p, S, T) \in Nat
  <1>1. PICK E : E = Steps(p, S, T)
    OBVIOUS
  <1>2. E \in SUBSET DOMAIN p.freq /\ \A e \in E : p.freq[e] \in Nat
    BY <1>1 DEF Steps, IsProfile
  <1>3. IsFiniteSet(E)
    BY <1>2, FS_Subset DEF IsProfile
  <1>4. IsFiniteSet(Ticks(E, p.freq))
    BY <1>2, <1>3, TicksFinite
  <1>5. Taken(p, E) = Cardinality(Ticks(E, p.freq))
    BY DEF Taken, Times, Ticks
  <1> QED
    BY <1>1, <1>4, <1>5, FS_CardinalityType DEF Crossed

\* More blocks have more steps between them.
LEMMA CrossedMore ==
  ASSUME NEW p, IsProfile(p), NEW S, NEW T, NEW X, NEW Y, S \subseteq X, T \subseteq Y
  PROVE  Crossed(p, S, T) <= Crossed(p, X, Y)
  <1>1. PICK a, b : a = Ticks(Steps(p, S, T), p.freq) /\ b = Ticks(Steps(p, X, Y), p.freq)
    OBVIOUS
  <1>2. a \in SUBSET b
    BY <1>1 DEF Ticks, Steps
  <1>3. /\ IsFiniteSet(b)
        /\ Crossed(p, S, T) = Cardinality(a) /\ Crossed(p, X, Y) = Cardinality(b)
    BY <1>1, CrossedIs
  <1> QED
    BY <1>2, <1>3, FS_Subset

\* Every block of B is under one node of the graph and no node is over any other.
Parted(g, B) ==
  /\ \A m, n \in g.nodes : m # n => Leaves(g, m) \cap Leaves(g, n) = {}
  /\ UNION {Leaves(g, n) : n \in g.nodes} = B

\* An edge is no more frequent than the steps between the blocks under its ends.
Bounded(g, p) ==
  \A e \in g.edges : Freq(g, e) <= Crossed(p, Leaves(g, Src(g, e)), Leaves(g, Snk(g, e)))

\* The nodes of a graph pile up: what was made later is over what was made before or
\* apart from it.
Piled(g) == Stacked(g) /\ OnTop(g) /\ Filed(g)

\* The graph is sound, and stands for the blocks and the edges of the profile.
Whole(g, p) ==
  /\ Sound(g) /\ Layered(g) /\ Parted(g, p.blocks) /\ IsProfile(p) /\ Bounded(g, p)
  /\ Piled(g)

\* The same blocks, or for a virtual node fewer.
FewerBlocks(g, h) ==
  \A n \in NodesMade(g) : \/ h.blocks[n] = g.blocks[n]
                          \/ IsVirtual(g, n) /\ h.blocks[n] \subseteq g.blocks[n]

\* Edges do not matter, but that they are no more, nor more frequent.
LEMMA WholeSame ==
  ASSUME NEW g, NEW p, Whole(g, p), NEW h, Sound(h), h.nodes = g.nodes, h.inner = g.inner,
         FewerBlocks(g, h),
         \A e \in h.edges : \E f \in g.edges :
            /\ Src(h, e) = Src(g, f) /\ Snk(h, e) = Snk(g, f)
            /\ Freq(h, e) <= Freq(g, f)
  PROVE  Whole(h, p)
  <1>1. \A n : Leaves(h, n) = Leaves(g, n)
    BY DEF Leaves, IsVirtual
  <1>2. Layered(h)
    BY DEF Whole, Layered, NodesMade
  <1>3. Parted(h, p.blocks)
    BY <1>1 DEF Whole, Parted
  <1>4. ASSUME NEW e \in h.edges
        PROVE  Freq(h, e) <= Crossed(p, Leaves(h, Src(h, e)), Leaves(h, Snk(h, e)))
    <2>1. PICK f \in g.edges : /\ Src(h, e) = Src(g, f) /\ Snk(h, e) = Snk(g, f)
                               /\ Freq(h, e) <= Freq(g, f)
      OBVIOUS
    <2>2. PICK c : c = Crossed(p, Leaves(g, Src(g, f)), Leaves(g, Snk(g, f)))
      OBVIOUS
    <2>3. c = Crossed(p, Leaves(h, Src(h, e)), Leaves(h, Snk(h, e)))
      BY <1>1, <2>1, <2>2
    <2>4. c \in Nat /\ Freq(g, f) <= c
      BY <2>2, CrossedIs DEF Whole, Bounded
    <2>5. Freq(h, e) \in Nat /\ Freq(g, f) \in Nat
      BY Fields DEF Whole, Sound, Shape
    <2> QED BY <2>1, <2>3, <2>4, <2>5
  <1>5. Piled(h)
    <2>1. NodesMade(h) = NodesMade(g) /\ \A n : IsVirtual(h, n) = IsVirtual(g, n)
      BY DEF NodesMade, IsVirtual
    <2>2. Stacked(h)
      BY <1>1, <2>1 DEF Whole, Piled, Stacked, Unshared
    <2>3. OnTop(h)
      BY <1>1, <2>1 DEF Whole, Piled, OnTop, Unshared
    <2>4. Filed(h)
      BY <1>1, <2>1 DEF Whole, Piled, Filed, FewerBlocks
    <2> QED BY <2>2, <2>3, <2>4 DEF Piled
  <1> QED
    BY <1>2, <1>3, <1>4, <1>5 DEF Whole, Bounded

\* The edges from a node into N are no more frequent than the steps from its blocks
\* to those under N: edges to different nodes are different steps.
LEMMA IntoBounded ==
  ASSUME NEW g, NEW p, Whole(g, p), NEW N, N \subseteq g.nodes, NEW n \in g.nodes,
         NEW U, U = UNION {Leaves(g, m) : m \in N}
  PROVE  TotalFreq(g, Into(g, n, N)) <= Crossed(p, Leaves(g, n), U)
  <1>1. PICK S, L : S = Into(g, n, N) /\ L = Leaves(g, n)
    OBVIOUS
  <1>2. /\ \A e \in S : e \in g.edges /\ Src(g, e) = n /\ Snk(g, e) \in N
        /\ IsProfile(p) /\ Shape(g) /\ g.edges \subseteq EdgesMade(g)
    BY <1>1 DEF Into, Whole, Sound, Shape, Agree
  <1>3. PICK f, X : /\ f = [e \in S |-> Freq(g, e)]
                    /\ X = [e \in S |-> Ticks(Steps(p, L, Leaves(g, Snk(g, e))), p.freq)]
    OBVIOUS
  <1>4. PICK Y : Y = Ticks(Steps(p, L, U), p.freq)
    OBVIOUS
  <1>5. ASSUME NEW e \in S
        PROVE  f[e] \in Nat /\ IsFiniteSet(X[e]) /\ f[e] <= Cardinality(X[e])
    <2>1. PICK K, x : K = Leaves(g, Snk(g, e)) /\ x = Ticks(Steps(p, L, K), p.freq)
      OBVIOUS
    <2>2. X[e] = x /\ f[e] = Freq(g, e)
      BY <1>3, <2>1
    <2>3. IsFiniteSet(x) /\ Crossed(p, L, K) = Cardinality(x)
      BY <1>2, <2>1, CrossedIs
    <2>4. f[e] \in Nat
      BY <1>2, <2>2, Fields
    <2>5. Freq(g, e) <= Crossed(p, L, K)
      BY <1>1, <1>2, <2>1 DEF Whole, Bounded
    <2> QED BY <2>2, <2>3, <2>4, <2>5
  <1>6. ASSUME NEW e \in S, NEW d \in S, e # d PROVE X[e] \cap X[d] = {}
    <2>1. Snk(g, e) # Snk(g, d) /\ Snk(g, e) \in g.nodes /\ Snk(g, d) \in g.nodes
      BY <1>2, <1>6 DEF Whole, Sound, Agree, SameEnds
    <2>2. PICK K, J : K = Leaves(g, Snk(g, e)) /\ J = Leaves(g, Snk(g, d))
      OBVIOUS
    <2>3. K \cap J = {}
      BY <2>1, <2>2 DEF Whole, Parted
    <2>4. X[e] = Ticks(Steps(p, L, K), p.freq) /\ X[d] = Ticks(Steps(p, L, J), p.freq)
      BY <1>3, <2>2
    <2> QED BY <2>3, <2>4 DEF Ticks, Steps
  <1>7. ASSUME NEW e \in S PROVE X[e] \subseteq Y
    <2>1. PICK K : K = Leaves(g, Snk(g, e))
      OBVIOUS
    <2>2. K \subseteq U
      BY <1>2, <2>1
    <2>3. X[e] = Ticks(Steps(p, L, K), p.freq)
      BY <1>3, <2>1
    <2> QED BY <1>4, <2>2, <2>3 DEF Ticks, Steps
  <1>8. IsFiniteSet(Y) /\ Crossed(p, L, U) = Cardinality(Y)
    BY <1>2, <1>4, CrossedIs
  <1>9. Cardinality(Ticks(S, f)) <= Cardinality(Y)
    <2>1. \A e \in S : f[e] \in Nat
      BY <1>5
    <2>2. \A e \in S : IsFiniteSet(X[e]) /\ f[e] <= Cardinality(X[e])
      BY <1>5
    <2>3. \A e, d \in S : e # d => X[e] \cap X[d] = {}
      BY <1>6
    <2>4. \A e \in S : X[e] \subseteq Y
      BY <1>7
    <2> QED BY <1>8, <2>1, <2>2, <2>3, <2>4, TicksBelow
  <1>10. TotalFreq(g, S) = Cardinality(Ticks(S, f))
    <2>1. S \subseteq EdgesMade(g)
      BY <1>2
    <2> QED BY <1>2, <1>3, <2>1, TotalFreqIs
  <1> QED
    BY <1>1, <1>8, <1>9, <1>10

\* The leaves of the node that replaces a part are those of the part.
LEMMA LeavesVirtualized ==
  ASSUME NEW g, Sound(g), Layered(g), NEW N, NEW E, Replaceable(g, N, E),
         NEW r, Virtualized(g, N, E, r), NEW v, v = Len(g.inner) + 1
  PROVE  /\ Shape(r) /\ Layered(r)
         /\ NodesMade(r) = NodesMade(g) \cup {v} /\ v \notin NodesMade(g)
         /\ \A n \in NodesMade(g) : Leaves(r, n) = Leaves(g, n)
         /\ Leaves(r, v) = UNION {Leaves(g, n) : n \in N}
  <1>2. /\ Sound(r) /\ Shape(r) /\ Len(r.inner) = v
        /\ r.nodes = (g.nodes \ N) \cup {v}
        /\ r.inner[v].nodes = N
        /\ \A n \in NodesMade(g) : r.inner[n] = g.inner[n]
    BY DEF Virtualized, Sound
  <1>3. /\ Shape(g) /\ Layered(g) /\ g.nodes \subseteq NodesMade(g) /\ v \in Nat
        /\ NodesMade(g) = 1 .. (v - 1) /\ N \subseteq g.nodes /\ N # {}
    BY Fields DEF Sound, Shape, NodesMade, Replaceable
  <1>4. NodesMade(r) = NodesMade(g) \cup {v} /\ v \notin NodesMade(g)
    BY <1>2, <1>3, Fields DEF NodesMade
  <1>5. Layered(r)
    <2>0. r.inner \in Seq(Subgraphs)
      BY <1>2 DEF Shape, GraphSet
    <2>1. ASSUME NEW n \in NodesMade(r) PROVE r.inner[n].nodes \subseteq 1 .. (n - 1)
      <3>1. CASE n = v
        BY <1>2, <1>3, <3>1
      <3>2. CASE n # v
        BY <1>2, <1>3, <1>4, <3>2 DEF Layered
      <3> QED BY <3>1, <3>2
    <2> QED BY <2>0, <2>1 DEF Layered
  <1>6. \A n \in NodesMade(g) : Leaves(r, n) = Leaves(g, n)
    BY <1>2, <1>3, <1>4, <1>5, LeavesSame
  <1>7. Leaves(r, v) = UNION {Leaves(g, n) : n \in N}
    <2>1. Leaves(r, v) = IF IsVirtual(r, v) THEN UNION {Leaves(r, l) : l \in r.inner[v].nodes}
                         ELSE {v}
      BY <1>2, <1>4, <1>5, LeavesAre
    <2>2. IsVirtual(r, v)
      BY <1>2, <1>3 DEF IsVirtual
    <2>3. \A n \in N : Leaves(r, n) = Leaves(g, n)
      BY <1>3, <1>6
    <2> QED BY <1>2, <2>1, <2>2, <2>3
  <1> QED
    BY <1>2, <1>4, <1>5, <1>6, <1>7

\* The kernels within the node that replaces a part are those within the part.
LEMMA WithinVirtualized ==
  ASSUME NEW g, Sound(g), Layered(g), NEW N, NEW E, Replaceable(g, N, E),
         NEW r, Virtualized(g, N, E, r), NEW K, K \subseteq NodesMade(g)
  PROVE  /\ \A n \in NodesMade(g) : Within(r, K, n) = Within(g, K, n)
         /\ Within(r, K, Len(g.inner) + 1) = UNION {Within(g, K, n) : n \in N}
  <1>0. PICK v : v = Len(g.inner) + 1
    OBVIOUS
  <1>1. /\ r.inner[v].nodes = N /\ Len(r.inner) = v
        /\ \A n \in NodesMade(g) : r.inner[n] = g.inner[n]
    BY <1>0 DEF Virtualized
  <1>2. Shape(g) /\ N \subseteq NodesMade(g)
    BY DEF Sound, Shape, Replaceable
  <1>3. /\ Shape(r) /\ Layered(r)
        /\ NodesMade(r) = NodesMade(g) \cup {v} /\ v \notin NodesMade(g)
    BY <1>0, LeavesVirtualized
  <1>4. \A n \in NodesMade(g) : Within(r, K, n) = Within(g, K, n)
    <2>1. PICK u : u = Len(g.inner)
      OBVIOUS
    <2>2. u \in Nat /\ NodesMade(g) = 1 .. u /\ u <= Len(g.inner) /\ u <= Len(r.inner)
      BY <1>0, <1>1, <1>2, <2>1, Fields DEF NodesMade
    <2>3. \A n \in 1 .. u : r.inner[n] = g.inner[n] /\ (n \in K <=> n \in K)
      BY <1>1, <2>2
    <2> QED BY <1>2, <1>3, <2>2, <2>3, WithinSame
  <1>5. Within(r, K, v) = IF v \in K THEN {v}
                          ELSE UNION {Within(r, K, m) : m \in r.inner[v].nodes}
    <2>1. v \in NodesMade(r) /\ Shape(r) /\ Layered(r)
      BY <1>3
    <2> QED BY <2>1, WithinIs
  <1>6. {Within(r, K, m) : m \in N} = {Within(g, K, m) : m \in N}
    BY <1>2, <1>4
  <1>7. Within(r, K, v) = UNION {Within(g, K, n) : n \in N}
    BY <1>1, <1>3, <1>5, <1>6
  <1> QED
    BY <1>0, <1>4, <1>7

\* The node that replaces a part is over it, and has its blocks.
LEMMA PiledVirtualized ==
  ASSUME NEW g, Sound(g), Layered(g), NEW B, Parted(g, B), Piled(g),
         NEW N, NEW E, Replaceable(g, N, E), NEW r, Virtualized(g, N, E, r)
  PROVE  Piled(r)
  <1>1. PICK v : v = Len(g.inner) + 1
    OBVIOUS
  <1>2. /\ r.nodes = (g.nodes \ N) \cup {v}
        /\ r.inner[v].nodes = N
        /\ r.blocks[v] = UNION {g.blocks[n] : n \in N}
        /\ \A n \in NodesMade(g) : r.inner[n] = g.inner[n] /\ r.blocks[n] = g.blocks[n]
    BY <1>1 DEF Virtualized
  <1>3. /\ Shape(r) /\ Layered(r)
        /\ NodesMade(r) = NodesMade(g) \cup {v} /\ v \notin NodesMade(g)
        /\ \A n \in NodesMade(g) : Leaves(r, n) = Leaves(g, n)
        /\ Leaves(r, v) = UNION {Leaves(g, n) : n \in N}
    BY <1>1, LeavesVirtualized
  <1>4. /\ v \in Nat /\ NodesMade(g) = 1 .. (v - 1) /\ N \subseteq g.nodes /\ N # {}
        /\ g.nodes \subseteq NodesMade(g)
    BY <1>1, NodesAre DEF Replaceable, Sound, Shape
  <1>5. \A m, n \in NodesMade(g) : Unshared(g, m, n) => Unshared(r, m, n)
    BY <1>3 DEF Unshared
  <1>6. Stacked(r)
    <2> SUFFICES ASSUME NEW n \in NodesMade(r), NEW m \in r.inner[n].nodes,
                        NEW k \in NodesMade(r), m < k, k < n
                 PROVE  Unshared(r, m, k)
      BY DEF Stacked
    <2>1. k \in NodesMade(g)
      BY <1>3, <1>4, NodesAre DEF NodesMade
    <2>2. CASE n = v
      BY <1>2, <1>4, <1>5, <2>1, <2>2 DEF Piled, OnTop
    <2>3. CASE n # v
      <3>1. n \in NodesMade(g) /\ m \in g.inner[n].nodes
        BY <1>2, <1>3, <2>3
      <3>2. m \in NodesMade(g)
        BY <1>4, <3>1 DEF Layered
      <3> QED BY <1>5, <2>1, <3>1, <3>2 DEF Piled, Stacked
    <2> QED BY <2>2, <2>3
  <1>7. OnTop(r)
    <2> SUFFICES ASSUME NEW n \in r.nodes, NEW k \in NodesMade(r), n < k
                 PROVE  Unshared(r, n, k)
      BY DEF OnTop
    <2>1. n # v
      BY <1>3, <1>4
    <2>2. n \in g.nodes /\ n \notin N
      BY <1>2, <2>1
    <2>3. CASE k = v
      <3>1. \A m \in N : Leaves(g, n) \cap Leaves(g, m) = {}
        BY <1>4, <2>2 DEF Parted
      <3> QED BY <1>3, <1>4, <2>2, <2>3, <3>1 DEF Unshared
    <2>4. CASE k # v
      BY <1>3, <1>4, <1>5, <2>2, <2>4 DEF Piled, OnTop
    <2> QED BY <2>3, <2>4
  <1>8. Filed(r)
    <2> SUFFICES ASSUME NEW n \in NodesMade(r)
                 PROVE  /\ r.blocks[n] \subseteq Leaves(r, n)
                        /\ ~ IsVirtual(r, n) => r.blocks[n] = {n}
      BY DEF Filed
    <2>1. CASE n = v
      <3>1. \A m \in N : g.blocks[m] \subseteq Leaves(g, m)
        BY <1>4 DEF Piled, Filed
      <3> QED BY <1>2, <1>3, <1>4, <2>1, <3>1 DEF IsVirtual
    <2>2. CASE n # v
      <3>1. n \in NodesMade(g)
        BY <1>3, <2>2
      <3> QED BY <1>2, <1>3, <3>1 DEF Piled, Filed, IsVirtual
    <2> QED BY <2>1, <2>2
  <1> QED
    BY <1>6, <1>7, <1>8 DEF Piled

\* Replacing a part by one node keeps the blocks under the graph, and
\* makes no edge that is more frequent than the profile has it.
LEMMA WholeVirtualized ==
  ASSUME NEW g, NEW p, Whole(g, p), NEW N, NEW E, Replaceable(g, N, E),
         NEW r, Virtualized(g, N, E, r)
  PROVE  Whole(r, p)
  <1>1. PICK v : v = Len(g.inner) + 1
    OBVIOUS
  <1>2. /\ Sound(r) /\ r.nodes = (g.nodes \ N) \cup {v}
        /\ Sound(g) /\ Layered(g) /\ Parted(g, p.blocks) /\ Piled(g)
    BY <1>1 DEF Virtualized, Whole
  <1>3. /\ Shape(g) /\ g.nodes \subseteq NodesMade(g) /\ N \subseteq g.nodes /\ N # {}
    BY <1>2 DEF Sound, Shape, Replaceable
  <1>4. NodesMade(r) = NodesMade(g) \cup {v} /\ v \notin NodesMade(g)
    BY <1>1, <1>2, LeavesVirtualized
  <1>5. Layered(r)
    BY <1>1, <1>2, LeavesVirtualized
  <1>6. \A n \in NodesMade(g) : Leaves(r, n) = Leaves(g, n)
    BY <1>1, <1>2, LeavesVirtualized
  <1>7. Leaves(r, v) = UNION {Leaves(g, n) : n \in N}
    BY <1>1, <1>2, LeavesVirtualized
  <1>8. \A n \in g.nodes : n \in NodesMade(g) /\ n # v /\ Leaves(r, n) = Leaves(g, n)
    BY <1>3, <1>4, <1>6
  <1>9. Parted(g, p.blocks)
    BY DEF Whole
  <1>10. Parted(r, p.blocks)
    <2>1. ASSUME NEW m \in r.nodes, NEW n \in r.nodes, m # n
          PROVE  Leaves(r, m) \cap Leaves(r, n) = {}
      <3>1. CASE m = v
        BY <1>2, <1>3, <1>7, <1>8, <1>9, <2>1, <3>1 DEF Parted
      <3>2. CASE n = v
        BY <1>2, <1>3, <1>7, <1>8, <1>9, <2>1, <3>2 DEF Parted
      <3>3. CASE m # v /\ n # v
        BY <1>2, <1>8, <1>9, <2>1, <3>3 DEF Parted
      <3> QED BY <3>1, <3>2, <3>3
    <2>2. UNION {Leaves(r, n) : n \in r.nodes} = UNION {Leaves(g, n) : n \in g.nodes}
      BY <1>2, <1>3, <1>7, <1>8
    <2> QED BY <1>9, <2>1, <2>2 DEF Parted
  <1>11. IsProfile(p) /\ Agree(g) /\ \A n \in N : n \in g.nodes /\ Leaves(g, n) \subseteq Leaves(r, v)
    BY <1>3, <1>7 DEF Whole, Sound
  <1>12. \A n \in g.nodes : Leaves(g, n) \subseteq Leaves(r, Outer(v, N, n))
    BY <1>8, <1>11 DEF Outer
  <1>13. ASSUME NEW e \in r.edges
         PROVE  Freq(r, e) <= Crossed(p, Leaves(r, Src(r, e)), Leaves(r, Snk(r, e)))
    <2>1. Derived(g, N, r, v, e)
      BY <1>1 DEF Virtualized
    <2>2. CASE e \in g.edges /\ r.end[e] = g.end[e]
      <3>1. PICK a, b : a = Src(g, e) /\ b = Snk(g, e)
        OBVIOUS
      <3>2. a \in g.nodes /\ b \in g.nodes
        BY <1>11, <2>2, <3>1 DEF Agree
      <3>3. Leaves(g, a) \subseteq Leaves(r, a) /\ Leaves(g, b) \subseteq Leaves(r, b)
        BY <1>8, <3>2
      <3>4. Src(r, e) = a /\ Snk(r, e) = b /\ Freq(r, e) = Freq(g, e)
        BY <2>2, <3>1 DEF Src, Snk, Freq
      <3>5. Freq(g, e) <= Crossed(p, Leaves(g, a), Leaves(g, b))
        BY <2>2, <3>1 DEF Whole, Bounded
      <3>6. Leaves(g, a) = Leaves(r, a) /\ Leaves(g, b) = Leaves(r, b)
        BY <1>8, <3>2
      <3> QED BY <3>4, <3>5, <3>6
    <2>3. ASSUME NEW n \in g.nodes, EntersAt(g, N, r, v, e, n)
          PROVE  Freq(r, e) <= Crossed(p, Leaves(r, Src(r, e)), Leaves(r, Snk(r, e)))
      <3>1. PICK o, L, U : o = Outer(v, N, n) /\ L = Leaves(g, n) /\ U = Leaves(r, v)
        OBVIOUS
      <3>2. Freq(r, e) = TotalFreq(g, Into(g, n, N)) /\ Src(r, e) = o /\ Snk(r, e) = v
        BY <2>3, <3>1 DEF EntersAt
      <3>3. TotalFreq(g, Into(g, n, N)) <= Crossed(p, L, U)
        BY <1>3, <1>7, <3>1, IntoBounded
      <3>4. L \subseteq Leaves(r, o)
        BY <1>12, <3>1
      <3>5. PICK O : O = Leaves(r, o)
        OBVIOUS
      <3>6. Crossed(p, L, U) <= Crossed(p, O, U)
        BY <1>11, <3>4, <3>5, CrossedMore
      <3>7. TotalFreq(g, Into(g, n, N)) \in Nat
        <4>1. PICK I : I = Into(g, n, N)
          OBVIOUS
        <4>2. I \subseteq EdgesMade(g)
          BY <1>3, <1>11, <4>1 DEF Into, Agree, Shape
        <4>3. TotalFreq(g, I) \in Nat
          BY <1>3, <4>2, TotalFreqIs
        <4> QED BY <4>1, <4>3
      <3>8. Crossed(p, L, U) \in Nat /\ Crossed(p, O, U) \in Nat
        BY <1>11, CrossedIs
      <3>9. Freq(r, e) <= Crossed(p, O, U)
        BY <3>2, <3>3, <3>6, <3>7, <3>8
      <3> QED BY <3>1, <3>2, <3>5, <3>9
    <2>4. ASSUME NEW c \in g.edges, LeavesBy(g, N, r, v, e, c)
          PROVE  Freq(r, e) <= Crossed(p, Leaves(r, Src(r, e)), Leaves(r, Snk(r, e)))
      <3>1. PICK a, b : a = Src(g, c) /\ b = Snk(g, c)
        OBVIOUS
      <3>2. a \in N /\ b \in g.nodes
        BY <1>11, <2>4, <3>1 DEF LeavesBy, Agree
      <3>3. PICK L, J, U : L = Leaves(g, a) /\ J = Leaves(g, b) /\ U = Leaves(r, v)
        OBVIOUS
      <3>4. L \subseteq U /\ Leaves(r, b) = J
        BY <1>8, <1>11, <3>2, <3>3
      <3>5. Freq(r, e) = Freq(g, c) /\ Src(r, e) = v /\ Snk(r, e) = b
        BY <2>4, <3>1 DEF LeavesBy
      <3>6. Freq(g, c) <= Crossed(p, L, J)
        BY <3>1, <3>3 DEF Whole, Bounded
      <3>7. Crossed(p, L, J) <= Crossed(p, U, J)
        BY <1>11, <3>4, CrossedMore
      <3>8. Crossed(p, L, J) \in Nat /\ Crossed(p, U, J) \in Nat /\ Freq(g, c) \in Nat
        <4>1. c \in EdgesMade(g)
          BY <1>3 DEF Shape
        <4> QED BY <1>3, <1>11, <4>1, CrossedIs, Fields
      <3>9. Freq(r, e) <= Crossed(p, U, J)
        BY <3>5, <3>6, <3>7, <3>8
      <3> QED BY <3>3, <3>4, <3>5, <3>9
    <2> QED BY <2>1, <2>2, <2>3, <2>4 DEF Derived
  <1>14. Piled(r)
    BY <1>2, PiledVirtualized
  <1> QED
    BY <1>2, <1>5, <1>10, <1>11, <1>13, <1>14 DEF Whole, Bounded

-----------------------------------------------------------------------------
(* The hierarchy of the kernels *)

\* What holds of the kernels, children and parents of s even when some kernels have
\* been revoked: kernels are nested or apart, parents and children are each other's.
KernelTree(g, s) ==
  /\ s.kernels \subseteq DOMAIN s.child /\ s.kernels \subseteq DOMAIN s.parent
  /\ DOMAIN s.child \subseteq NodesMade(g) /\ Childed(s.child)
  /\ \A j, k \in s.kernels :
        j < k => j \in Below(s.child, k) \/ Leaves(g, j) \cap Leaves(g, k) = {}
  /\ \A j, k \in s.kernels : j \in s.child[k] <=> k \in s.parent[j]
  /\ \A k \in s.kernels : \E x : s.parent[k] \subseteq {x}

\* What the graph g has of them: each kernel is under a node of the graph; a kernel
\* under a node is within it or descends from one that is; and kernels with parents
\* are within no node.
Rooted(g, s) ==
  /\ KernelTree(g, s)
  /\ DOMAIN s.child = s.kernels /\ DOMAIN s.parent = s.kernels
  /\ \A k \in s.kernels : s.parent[k] \subseteq s.kernels
  /\ \A j \in s.kernels : \E n \in g.nodes : Leaves(g, j) \subseteq Leaves(g, n)
  /\ \A n \in g.nodes, j \in s.kernels :
        Leaves(g, j) \subseteq Leaves(g, n) =>
            \E c \in Within(g, s.kernels, n) : j = c \/ j \in Below(s.child, c)
  /\ \A n \in g.nodes, j \in s.kernels : j \in Within(g, s.kernels, n) => s.parent[j] = {}

\* Edges do not matter.
LEMMA RootedSame ==
  ASSUME NEW g, NEW s, Rooted(g, s), NEW h, h.nodes = g.nodes, h.inner = g.inner,
         NEW t, t.kernels = s.kernels, t.child = s.child, t.parent = s.parent
  PROVE  Rooted(h, t)
  <1>1. \A n : Leaves(h, n) = Leaves(g, n)
    BY DEF Leaves, IsVirtual
  <1>2. \A n : Within(h, s.kernels, n) = Within(g, s.kernels, n)
    BY DEF Within, KernelsIn
  <1>3. NodesMade(h) = NodesMade(g)
    BY DEF NodesMade
  <1>4. KernelTree(h, t)
    BY <1>1, <1>3 DEF Rooted, KernelTree
  <1> QED
    BY <1>1, <1>2, <1>4 DEF Rooted

\* The hierarchy stays one when a part of the graph is replaced.
LEMMA RootedVirtualized ==
  ASSUME NEW g, NEW p, Whole(g, p), NEW s, Rooted(g, s),
         NEW N, NEW E, Replaceable(g, N, E), NEW r, Virtualized(g, N, E, r)
  PROVE  Rooted(r, s)
  <1>1. PICK v, K : v = Len(g.inner) + 1 /\ K = s.kernels
    OBVIOUS
  <1>2. /\ Sound(g) /\ Layered(g) /\ Shape(g) /\ Parted(g, p.blocks)
        /\ g.nodes \subseteq NodesMade(g) /\ N \subseteq g.nodes /\ N # {}
    BY DEF Whole, Sound, Shape, Replaceable
  <1>3. /\ r.nodes = (g.nodes \ N) \cup {v} /\ r.inner[v].nodes = N /\ Len(r.inner) = v
        /\ \A n \in NodesMade(g) : r.inner[n] = g.inner[n]
    BY <1>1 DEF Virtualized
  <1>4. /\ Shape(r) /\ Layered(r)
        /\ NodesMade(r) = NodesMade(g) \cup {v} /\ v \notin NodesMade(g)
    BY <1>1, <1>2, LeavesVirtualized
  <1>5. \A n \in NodesMade(g) : Leaves(r, n) = Leaves(g, n)
    BY <1>1, <1>2, LeavesVirtualized
  <1>6. Leaves(r, v) = UNION {Leaves(g, n) : n \in N}
    BY <1>1, <1>2, LeavesVirtualized
  <1>7. K \subseteq NodesMade(g)
    BY <1>1 DEF Rooted, KernelTree
  <1>8. \A n \in NodesMade(g) : Within(r, K, n) = Within(g, K, n)
    BY <1>1, <1>2, <1>7, WithinVirtualized
  <1>9. Within(r, K, v) = UNION {Within(g, K, n) : n \in N}
    BY <1>1, <1>2, <1>7, WithinVirtualized
  <1>10. \A n \in g.nodes : Leaves(r, n) = Leaves(g, n) /\ Within(r, K, n) = Within(g, K, n)
    BY <1>2, <1>5, <1>8
  <1>11. \A j \in K : Leaves(r, j) = Leaves(g, j)
    BY <1>5, <1>7
  <1>12. KernelTree(r, s)
    <2>1. KernelTree(g, s)
      BY DEF Rooted
    <2>2. \A j, k \in K : j < k => \/ j \in Below(s.child, k)
                                   \/ Leaves(r, j) \cap Leaves(r, k) = {}
      BY <1>1, <1>11, <2>1 DEF KernelTree
    <2>3. DOMAIN s.child \subseteq NodesMade(r)
      BY <1>4, <2>1 DEF KernelTree
    <2> QED BY <1>1, <2>1, <2>2, <2>3 DEF KernelTree
  <1>14. ASSUME NEW j \in K PROVE \E n \in r.nodes : Leaves(r, j) \subseteq Leaves(r, n)
    <2>1. PICK n \in g.nodes : Leaves(g, j) \subseteq Leaves(g, n)
      BY <1>1 DEF Rooted
    <2>2. CASE n \in N
      <3>1. Leaves(r, j) \subseteq Leaves(r, v)
        BY <1>6, <1>11, <2>1, <2>2
      <3> QED BY <1>3, <3>1
    <2>3. CASE n \notin N
      BY <1>3, <1>10, <1>11, <2>1, <2>3
    <2> QED BY <2>2, <2>3
  <1>15. ASSUME NEW n \in r.nodes, NEW j \in K, Leaves(r, j) \subseteq Leaves(r, n)
         PROVE  \E c \in Within(r, K, n) : j = c \/ j \in Below(s.child, c)
    <2>1. CASE n = v
      <3>1. PICK x : x \in Leaves(g, j)
        <4>1. j \in NodesMade(g)
          BY <1>7
        <4>2. Leaves(g, j) # {}
          BY <1>2, <4>1, LeavesNotEmpty
        <4> QED BY <4>2
      <3>2. PICK m \in N : x \in Leaves(g, m)
        BY <1>6, <1>11, <1>15, <2>1, <3>1
      <3>3. PICK t \in g.nodes : Leaves(g, j) \subseteq Leaves(g, t)
        BY <1>1 DEF Rooted
      <3>4. t = m
        BY <1>2, <3>1, <3>2, <3>3 DEF Parted
      <3>5. PICK c \in Within(g, K, m) : j = c \/ j \in Below(s.child, c)
        BY <1>1, <3>3, <3>4 DEF Rooted
      <3> QED BY <1>9, <2>1, <3>5
    <2>2. CASE n # v
      <3>1. n \in g.nodes /\ Leaves(g, j) \subseteq Leaves(g, n)
        BY <1>3, <1>10, <1>11, <1>15, <2>2
      <3>2. \E c \in Within(g, K, n) : j = c \/ j \in Below(s.child, c)
        BY <1>1, <3>1 DEF Rooted
      <3> QED BY <1>10, <3>1, <3>2
    <2> QED BY <2>1, <2>2
  <1>16. ASSUME NEW n \in r.nodes, NEW j \in K, j \in Within(r, K, n)
         PROVE  s.parent[j] = {}
    <2>1. \A m \in g.nodes : j \in Within(g, K, m) => s.parent[j] = {}
      BY <1>1 DEF Rooted
    <2>2. CASE n = v
      BY <1>2, <1>9, <1>16, <2>1, <2>2
    <2>3. CASE n # v
      BY <1>3, <1>10, <1>16, <2>1, <2>3
    <2> QED BY <2>2, <2>3
  <1> QED
    BY <1>1, <1>12, <1>14, <1>15, <1>16 DEF Rooted

\* The node v, the last one made, has become a kernel, with the kernels within it
\* for children.
Kernelized(g, s, v, t) ==
  LET inside == Within(g, s.kernels, v)
  IN  /\ t.kernels = s.kernels \cup {v}
      /\ DOMAIN t.child = DOMAIN s.child \cup {v}
      /\ \A k \in DOMAIN s.child : t.child[k] = s.child[k]
      /\ t.child[v] = inside
      /\ DOMAIN t.parent = DOMAIN s.parent \cup {v}
      /\ \A k \in DOMAIN s.parent :
            t.parent[k] = IF k \in inside THEN s.parent[k] \cup {v} ELSE s.parent[k]
      /\ t.parent[v] = {}

\* A kernel is the only one within its node, and is over those that were there before;
\* nothing changes for other nodes and kernels.
KernelOn(g, s, v, t) ==
  LET inside == Within(g, s.kernels, v)
  IN  /\ \A j \in inside : /\ j \in s.kernels /\ j \in 1 .. v /\ j < v
                           /\ Leaves(g, j) \subseteq Leaves(g, v)
      /\ Within(g, t.kernels, v) = {v}
      /\ \A n \in g.nodes : n # v => Within(g, t.kernels, n) = Within(g, s.kernels, n)
      /\ Childed(s.child) /\ Childed(t.child)
      /\ \A k \in s.kernels : Below(t.child, k) = Below(s.child, k)
      /\ \A c \in inside : /\ c \in Below(t.child, v)
                           /\ Below(s.child, c) \subseteq Below(t.child, v)

\* A node that becomes a kernel is one on those within it.
LEMMA KernelizedIs ==
  ASSUME NEW g, NEW p, Whole(g, p), NEW s, Rooted(g, s),
         NEW v, v = Len(g.inner), v \in g.nodes, v \notin s.kernels,
         NEW t, Kernelized(g, s, v, t)
  PROVE  KernelOn(g, s, v, t)
  <1>1. PICK K, L, inside : K = s.kernels /\ L = t.kernels /\ inside = Within(g, K, v)
    OBVIOUS
  <1>2. /\ Shape(g) /\ Layered(g) /\ Parted(g, p.blocks) /\ v \in Nat
        /\ NodesMade(g) = 1 .. v /\ g.nodes \subseteq NodesMade(g)
        /\ K \subseteq NodesMade(g) /\ v \notin K
    BY <1>1, Fields DEF Whole, Sound, Shape, NodesMade, Rooted, KernelTree
  <1>3. /\ L = K \cup {v}
        /\ DOMAIN s.child = K /\ DOMAIN s.parent = K
        /\ DOMAIN t.child = L /\ DOMAIN t.parent = L
        /\ \A k \in K : t.child[k] = s.child[k]
        /\ t.child[v] = inside
        /\ \A k \in K : t.parent[k] = IF k \in inside THEN s.parent[k] \cup {v} ELSE s.parent[k]
        /\ t.parent[v] = {}
    BY <1>1 DEF Kernelized, Rooted
  <1>4. \A j \in inside : j \in K /\ j \in 1 .. v /\ j < v /\ Leaves(g, j) \subseteq Leaves(g, v)
    <2> SUFFICES ASSUME NEW j \in inside
                 PROVE  j \in K /\ j \in 1 .. v /\ j < v /\ Leaves(g, j) \subseteq Leaves(g, v)
      OBVIOUS
    <2>1. j \in K /\ j \in 1 .. v /\ Leaves(g, j) \subseteq Leaves(g, v)
      BY <1>1, <1>2, WithinUnder
    <2> QED BY <1>2, <2>1
  <1>5. Within(g, L, v) = {v}
    BY <1>2, <1>3, WithinIs
  <1>6. \A n \in g.nodes : n # v => Within(g, L, n) = Within(g, K, n)
    <2>1. PICK u : u = v - 1
      OBVIOUS
    <2>2. u \in Nat /\ u <= Len(g.inner)
      BY <1>2, <2>1
    <2>3. \A n \in 1 .. u : g.inner[n] = g.inner[n] /\ (n \in K <=> n \in L)
      <3>1. v \notin 1 .. u
        BY <1>2, <2>1
      <3> QED BY <1>3, <3>1
    <2>4. \A n \in 1 .. u : Within(g, L, n) = Within(g, K, n)
      BY <1>2, <2>2, <2>3, WithinSame, SMTT(30)
    <2> QED BY <1>2, <2>1, <2>4
  <1>7. Childed(s.child) /\ Childed(t.child)
    <2>1. Childed(s.child)
      BY DEF Rooted, KernelTree
    <2>2. \A k \in K : s.child[k] \subseteq {j \in K : j < k}
      BY <1>3, <2>1 DEF Childed
    <2>3. \A k \in L : t.child[k] \subseteq {j \in L : j < k}
      BY <1>3, <1>4, <2>2
    <2> QED BY <1>3, <2>1, <2>3 DEF Childed
  <1>8. \A k \in K : Below(t.child, k) = Below(s.child, k)
    <2>1. DOMAIN s.child \subseteq 1 .. v /\ DOMAIN t.child \subseteq 1 .. v
      BY <1>2, <1>3
    <2>2. DOMAIN s.child \subseteq DOMAIN t.child /\ \A k \in DOMAIN s.child : t.child[k] = s.child[k]
      BY <1>3
    <2>3. PICK a, b : a = s.child /\ b = t.child
      OBVIOUS
    <2>4. /\ DOMAIN a \subseteq 1 .. v /\ Childed(a) /\ DOMAIN b \subseteq 1 .. v /\ Childed(b)
          /\ DOMAIN a \subseteq DOMAIN b /\ \A k \in DOMAIN a : b[k] = a[k]
      BY <1>7, <2>1, <2>2, <2>3
    <2>5. \A k \in DOMAIN a : Below(b, k) = Below(a, k)
      BY <1>2, <2>4, BelowSame
    <2> QED BY <1>3, <2>3, <2>5
  <1>9. \A c \in inside : c \in Below(t.child, v) /\ Below(s.child, c) \subseteq Below(t.child, v)
    <2>1. DOMAIN t.child \subseteq 1 .. v /\ v \in DOMAIN t.child
      BY <1>2, <1>3
    <2>2. Below(t.child, v) = t.child[v] \cup UNION {Below(t.child, b) : b \in t.child[v]}
      BY <1>2, <1>7, <2>1, BelowIs
    <2> QED BY <1>3, <1>4, <1>8, <2>2
  <1> QED
    BY <1>1, <1>4, <1>5, <1>6, <1>7, <1>8, <1>9 DEF KernelOn

\* The hierarchy stays one when a node becomes a kernel.
LEMMA RootedKernel ==
  ASSUME NEW g, NEW p, Whole(g, p), NEW s, Rooted(g, s),
         NEW v, v = Len(g.inner), v \in g.nodes, v \notin s.kernels,
         NEW t, Kernelized(g, s, v, t)
  PROVE  Rooted(g, t)
  <1>1. PICK K, L, inside : K = s.kernels /\ L = t.kernels /\ inside = Within(g, K, v)
    OBVIOUS
  <1>2. /\ Shape(g) /\ Layered(g) /\ Parted(g, p.blocks) /\ v \in Nat
        /\ NodesMade(g) = 1 .. v /\ g.nodes \subseteq NodesMade(g)
        /\ K \subseteq NodesMade(g) /\ v \notin K
    BY <1>1, Fields DEF Whole, Sound, Shape, NodesMade, Rooted, KernelTree
  <1>3. /\ L = K \cup {v}
        /\ DOMAIN s.child = K /\ DOMAIN s.parent = K
        /\ DOMAIN t.child = L /\ DOMAIN t.parent = L
        /\ \A k \in K : t.child[k] = s.child[k]
        /\ t.child[v] = inside
        /\ \A k \in K : t.parent[k] = IF k \in inside THEN s.parent[k] \cup {v} ELSE s.parent[k]
        /\ t.parent[v] = {}
    BY <1>1 DEF Kernelized, Rooted
  <1>0. KernelOn(g, s, v, t)
    BY KernelizedIs
  <1>4. \A j \in inside : j \in K /\ j \in 1 .. v /\ j < v /\ Leaves(g, j) \subseteq Leaves(g, v)
    BY <1>0, <1>1 DEF KernelOn
  <1>5. Within(g, L, v) = {v}
    BY <1>0, <1>1 DEF KernelOn
  <1>6. \A n \in g.nodes : n # v => Within(g, L, n) = Within(g, K, n)
    BY <1>0, <1>1 DEF KernelOn
  <1>7. Childed(s.child) /\ Childed(t.child)
    BY <1>0 DEF KernelOn
  <1>8. \A k \in K : Below(t.child, k) = Below(s.child, k)
    BY <1>0, <1>1 DEF KernelOn
  <1>9. \A c \in inside : c \in Below(t.child, v) /\ Below(s.child, c) \subseteq Below(t.child, v)
    BY <1>0, <1>1 DEF KernelOn
  <1>10. \A n \in g.nodes, j \in K : Leaves(g, j) \subseteq Leaves(g, n) =>
             \E c \in Within(g, K, n) : j = c \/ j \in Below(s.child, c)
    BY <1>1 DEF Rooted
  <1>11. ASSUME NEW j \in K, Leaves(g, j) \subseteq Leaves(g, v) PROVE j \in Below(t.child, v)
    <2>1. PICK c \in inside : j = c \/ j \in Below(s.child, c)
      BY <1>1, <1>10, <1>11
    <2> QED BY <1>9, <2>1
  <1>12. \A j \in K : /\ Leaves(g, j) # {}
                      /\ \E n \in g.nodes : Leaves(g, j) \subseteq Leaves(g, n)
    <2>1. \A j \in K : Leaves(g, j) # {}
      BY <1>2, LeavesNotEmpty
    <2> QED BY <1>1, <2>1 DEF Rooted
  <1>13. ASSUME NEW j \in K, j \notin Below(t.child, v) PROVE Leaves(g, j) \cap Leaves(g, v) = {}
    <2>1. PICK n \in g.nodes : Leaves(g, j) \subseteq Leaves(g, n)
      BY <1>12
    <2>2. n # v
      BY <1>11, <1>13, <2>1
    <2> QED BY <1>2, <2>1, <2>2 DEF Parted
  <1>14. ASSUME NEW j \in L, NEW k \in L, j < k
         PROVE  j \in Below(t.child, k) \/ Leaves(g, j) \cap Leaves(g, k) = {}
    <2>1. j \in K
      BY <1>2, <1>3, <1>14
    <2>2. CASE k = v
      BY <1>13, <2>1, <2>2
    <2>3. CASE k # v
      <3>1. k \in K
        BY <1>3, <2>3
      <3>2. j \in Below(s.child, k) \/ Leaves(g, j) \cap Leaves(g, k) = {}
        BY <1>1, <1>14, <2>1, <3>1 DEF Rooted, KernelTree
      <3> QED BY <1>8, <3>1, <3>2
    <2> QED BY <2>2, <2>3
  <1>15. \A k \in K : s.parent[k] \subseteq K /\ s.child[k] \subseteq K /\ v \notin s.parent[k]
    <2>1. \A k \in K : s.child[k] \subseteq K
      BY <1>3, <1>7 DEF Childed
    <2> QED BY <1>1, <1>2, <2>1 DEF Rooted
  <1>16. ASSUME NEW j \in L, NEW k \in L PROVE j \in t.child[k] <=> k \in t.parent[j]
    <2>1. CASE j \in K /\ k \in K
      <3>1. j \in s.child[k] <=> k \in s.parent[j]
        BY <1>1, <2>1 DEF Rooted, KernelTree
      <3>2. k # v
        BY <1>2, <2>1
      <3>3. t.child[k] = s.child[k]
        BY <1>3, <2>1
      <3>4. t.parent[j] = s.parent[j] \cup {v} \/ t.parent[j] = s.parent[j]
        BY <1>3, <2>1
      <3> QED BY <3>1, <3>2, <3>3, <3>4
    <2>2. CASE j \in K /\ k = v
      BY <1>3, <1>15, <2>2
    <2>3. CASE j = v /\ k \in K
      BY <1>2, <1>3, <1>15, <2>3
    <2>4. CASE j = v /\ k = v
      <3>1. v \notin inside
        BY <1>2, <1>4
      <3> QED BY <1>3, <2>4, <3>1
    <2> QED BY <1>3, <2>1, <2>2, <2>3, <2>4
  <1>17. \A n \in g.nodes, j \in K : j \in Within(g, K, n) => s.parent[j] = {}
    BY <1>1 DEF Rooted
  <1>18. ASSUME NEW k \in L PROVE \E x : t.parent[k] \subseteq {x}
    <2>1. CASE k \in inside
      <3>1. k \in K /\ s.parent[k] = {}
        BY <1>1, <1>4, <1>17, <2>1
      <3>2. t.parent[k] \subseteq {v}
        BY <1>3, <2>1, <3>1
      <3> QED BY <3>2
    <2>2. CASE k \in K /\ k \notin inside
      BY <1>1, <1>3, <2>2 DEF Rooted, KernelTree
    <2>3. CASE k = v
      BY <1>3, <2>3
    <2> QED BY <1>3, <2>1, <2>2, <2>3
  <1>19. KernelTree(g, t)
    <2>1. L \subseteq NodesMade(g)
      BY <1>2, <1>3
    <2> QED BY <1>1, <1>3, <1>7, <1>14, <1>16, <1>18, <2>1 DEF KernelTree
  <1>20. \A n \in g.nodes : Leaves(g, n) # {}
    BY <1>2, LeavesNotEmpty
  <1>21. \A k \in L : t.parent[k] \subseteq L
    BY <1>3, <1>15
  <1>22. ASSUME NEW n \in g.nodes, NEW j \in L, Leaves(g, j) \subseteq Leaves(g, n)
         PROVE  \E c \in Within(g, L, n) : j = c \/ j \in Below(t.child, c)
    <2>1. CASE n = v /\ j = v
      BY <1>5, <2>1
    <2>2. CASE n = v /\ j # v
      <3>1. j \in Below(t.child, v)
        BY <1>3, <1>11, <1>22, <2>2
      <3> QED BY <1>5, <2>2, <3>1
    <2>3. CASE n # v
      <3>1. j \in K
        <4>1. j # v
          BY <1>2, <1>20, <1>22, <2>3 DEF Parted
        <4> QED BY <1>3, <4>1
      <3>2. PICK c \in Within(g, K, n) : j = c \/ j \in Below(s.child, c)
        BY <1>10, <1>22, <3>1
      <3>3. c \in K
        <4>1. n \in NodesMade(g)
          BY <1>2
        <4> QED BY <1>2, <4>1, WithinUnder
      <3> QED BY <1>6, <1>8, <2>3, <3>2, <3>3
    <2> QED BY <2>1, <2>2, <2>3
  <1>23. ASSUME NEW n \in g.nodes, NEW j \in L, j \in Within(g, L, n) PROVE t.parent[j] = {}
    <2>1. CASE j = v
      BY <1>3, <2>1
    <2>2. CASE j # v
      <3>1. j \in K
        BY <1>3, <2>2
      <3>2. n # v
        BY <1>5, <1>23, <2>2
      <3>3. j \in Within(g, K, n)
        BY <1>6, <1>23, <3>2
      <3>4. n \in NodesMade(g)
        BY <1>2
      <3>5. Leaves(g, j) \subseteq Leaves(g, n)
        BY <1>2, <3>3, <3>4, WithinUnder
      <3>6. j \notin inside
        <4>1. SUFFICES ASSUME j \in inside PROVE FALSE
          OBVIOUS
        <4>2. Leaves(g, j) \subseteq Leaves(g, v) /\ Leaves(g, j) # {}
          BY <1>4, <1>12, <3>1, <4>1
        <4> QED BY <1>2, <3>2, <3>5, <4>2 DEF Parted
      <3> QED BY <1>3, <1>17, <3>1, <3>3, <3>6
    <2> QED BY <2>1, <2>2
  <1>24. \A j \in L : \E n \in g.nodes : Leaves(g, j) \subseteq Leaves(g, n)
    BY <1>3, <1>12
  <1>25. \A n \in g.nodes, j \in L : Leaves(g, j) \subseteq Leaves(g, n) =>
             \E c \in Within(g, L, n) : j = c \/ j \in Below(t.child, c)
    BY <1>22
  <1>26. \A n \in g.nodes, j \in L : j \in Within(g, L, n) => t.parent[j] = {}
    BY <1>23
  <1>27. t.kernels = L /\ DOMAIN t.child = L /\ DOMAIN t.parent = L
    BY <1>1, <1>3
  <1> QED
    BY <1>19, <1>21, <1>24, <1>25, <1>26, <1>27 DEF Rooted

\* A kernel and its descendants.
Family(ch, k) == {k} \cup Below(ch, k)

\* The blocks under a kernel are its own and those of its descendants.
Gathered(g, s) ==
  \A k \in s.kernels : /\ IsVirtual(g, k)
                       /\ Leaves(g, k) \subseteq BlocksOf(g, Family(s.child, k))

\* So are those under a node, with those of the kernels within it.
Held(g, s) ==
  \A n \in g.nodes :
      Leaves(g, n) \subseteq
          g.blocks[n] \cup BlocksOf(g, UNION {Family(s.child, c) : c \in Within(g, s.kernels, n)})

\* The kernels are a hierarchy in the graph, in which every block is filed.
Nested(g, s) == Rooted(g, s) /\ Gathered(g, s) /\ Held(g, s)

\* Families are of kernels.
LEMMA FamilyIn ==
  ASSUME NEW g, NEW s, Layered(g), Rooted(g, s), NEW k \in s.kernels
  PROVE  Family(s.child, k) \subseteq s.kernels /\ s.kernels \subseteq NodesMade(g)
  <1>1. PICK v, ch, K : v = Len(g.inner) /\ ch = s.child /\ K = s.kernels
    OBVIOUS
  <1>2. v \in Nat /\ DOMAIN ch = K /\ K \subseteq 1 .. v /\ Childed(ch)
    BY <1>1, NodesAre DEF Rooted, KernelTree, NodesMade
  <1>3. \A c \in K : ch[c] \subseteq K
    BY <1>2 DEF Childed
  <1>4. k \in K
    BY <1>1
  <1>5. Below(ch, k) \subseteq K
    BY <1>2, <1>3, <1>4, BelowIn
  <1> QED
    BY <1>1, <1>2, <1>4, <1>5 DEF Family, NodesMade

\* Kernels within nodes are kernels.
LEMMA WithinIn ==
  ASSUME NEW g, Layered(g), g.nodes \subseteq NodesMade(g), NEW K, NEW n \in g.nodes
  PROVE  Within(g, K, n) \subseteq K
  <1>1. n \in NodesMade(g)
    OBVIOUS
  <1> QED
    BY <1>1, WithinUnder

\* Edges do not matter.
LEMMA NestedSame ==
  ASSUME NEW g, NEW s, Nested(g, s), NEW h, h.nodes = g.nodes, h.inner = g.inner,
         h.blocks = g.blocks,
         NEW t, t.kernels = s.kernels, t.child = s.child, t.parent = s.parent
  PROVE  Nested(h, t)
  <1>1. \A n : Leaves(h, n) = Leaves(g, n) /\ IsVirtual(h, n) = IsVirtual(g, n)
    BY DEF Leaves, IsVirtual
  <1>2. \A n : Within(h, s.kernels, n) = Within(g, s.kernels, n)
    BY DEF Within, KernelsIn
  <1>3. \A J : BlocksOf(h, J) = BlocksOf(g, J)
    BY DEF BlocksOf
  <1>4. Rooted(h, t)
    BY RootedSame DEF Nested
  <1>5. Gathered(h, t)
    BY <1>1, <1>3 DEF Nested, Gathered
  <1>6. Held(h, t)
    BY <1>1, <1>2, <1>3 DEF Nested, Held
  <1> QED
    BY <1>4, <1>5, <1>6 DEF Nested

\* The hierarchy stays one when a part of the graph is replaced.
LEMMA NestedVirtualized ==
  ASSUME NEW g, NEW p, Whole(g, p), NEW s, Nested(g, s),
         NEW N, NEW E, Replaceable(g, N, E), NEW r, Virtualized(g, N, E, r)
  PROVE  Nested(r, s)
  <1>1. PICK v, K : v = Len(g.inner) + 1 /\ K = s.kernels
    OBVIOUS
  <1>2. /\ Sound(g) /\ Layered(g) /\ g.nodes \subseteq NodesMade(g)
        /\ N \subseteq g.nodes /\ N # {}
    BY DEF Whole, Sound, Shape, Replaceable
  <1>3. /\ r.nodes = (g.nodes \ N) \cup {v}
        /\ r.blocks[v] = UNION {g.blocks[n] : n \in N}
        /\ \A n \in NodesMade(g) : r.inner[n] = g.inner[n] /\ r.blocks[n] = g.blocks[n]
    BY <1>1 DEF Virtualized
  <1>4. /\ \A n \in NodesMade(g) : Leaves(r, n) = Leaves(g, n)
        /\ Leaves(r, v) = UNION {Leaves(g, n) : n \in N}
    BY <1>1, <1>2, LeavesVirtualized
  <1>5. Rooted(g, s) /\ Gathered(g, s) /\ Held(g, s)
    BY DEF Nested
  <1>6. K \subseteq NodesMade(g)
    BY <1>1, <1>5 DEF Rooted, KernelTree
  <1>7. /\ \A n \in NodesMade(g) : Within(r, K, n) = Within(g, K, n)
        /\ Within(r, K, v) = UNION {Within(g, K, n) : n \in N}
    BY <1>1, <1>2, <1>6, WithinVirtualized
  <1>8. Rooted(r, s)
    BY <1>5, RootedVirtualized
  <1>9. \A J : J \subseteq NodesMade(g) => BlocksOf(r, J) = BlocksOf(g, J)
    BY <1>3 DEF BlocksOf
  <1>10. \A k \in K : Family(s.child, k) \subseteq NodesMade(g)
    BY <1>1, <1>2, <1>5, FamilyIn
  <1>11. Gathered(r, s)
    <2> SUFFICES ASSUME NEW k \in K
                 PROVE  /\ IsVirtual(r, k)
                        /\ Leaves(r, k) \subseteq BlocksOf(r, Family(s.child, k))
      BY <1>1 DEF Gathered
    <2>1. IsVirtual(r, k)
      BY <1>1, <1>3, <1>5, <1>6 DEF Gathered, IsVirtual
    <2>2. Leaves(g, k) \subseteq BlocksOf(g, Family(s.child, k))
      BY <1>1, <1>5 DEF Gathered
    <2> QED BY <1>4, <1>6, <1>9, <1>10, <2>1, <2>2
  <1>12. \A n \in g.nodes : Within(g, K, n) \subseteq K
    BY <1>2, WithinIn
  <1>13. Held(r, s)
    <2> DEFINE J(n) == UNION {Family(s.child, c) : c \in Within(g, K, n)}
               I(n) == UNION {Family(s.child, c) : c \in Within(r, K, n)}
    <2>1. \A n \in g.nodes : J(n) \subseteq NodesMade(g)
      BY <1>10, <1>12
    <2>2. \A n \in g.nodes : Leaves(g, n) \subseteq g.blocks[n] \cup BlocksOf(g, J(n))
      BY <1>1, <1>5 DEF Held
    <2>3. \A n \in g.nodes : I(n) = J(n)
      BY <1>2, <1>7
    <2>4. \A n \in N : J(n) \subseteq I(v)
      BY <1>7
    <2>5. I(v) \subseteq NodesMade(g)
      BY <1>2, <1>7, <1>10, <1>12
    <2> HIDE DEF I, J
    <2>6. ASSUME NEW n \in r.nodes
          PROVE  Leaves(r, n) \subseteq r.blocks[n] \cup BlocksOf(r, I(n))
      <3>1. CASE n = v
        <4>1. ASSUME NEW m \in N PROVE Leaves(g, m) \subseteq r.blocks[v] \cup BlocksOf(r, I(v))
          <5>1. g.blocks[m] \subseteq r.blocks[v]
            BY <1>3
          <5>2. BlocksOf(g, J(m)) \subseteq BlocksOf(r, I(v))
            BY <1>3, <2>4, <2>5 DEF BlocksOf
          <5> QED BY <1>2, <2>2, <5>1, <5>2
        <4> QED BY <1>4, <3>1, <4>1
      <3>2. CASE n # v
        <4>1. n \in g.nodes /\ n \in NodesMade(g)
          BY <1>2, <1>3, <3>2
        <4> QED BY <1>3, <1>4, <1>9, <2>1, <2>2, <2>3, <4>1
      <3> QED BY <3>1, <3>2
    <2> QED BY <1>1, <2>6 DEF Held, I
  <1> QED
    BY <1>8, <1>11, <1>13 DEF Nested

\* The hierarchy stays one when a node becomes a kernel, if it loses only blocks that
\* the kernels within have.
LEMMA NestedKernel ==
  ASSUME NEW g, NEW p, Whole(g, p), NEW s, Nested(g, s),
         NEW v, v = Len(g.inner), v \in g.nodes, v \notin s.kernels, IsVirtual(g, v),
         NEW t, Kernelized(g, s, v, t),
         NEW h, h.nodes = g.nodes, h.inner = g.inner,
         \A n \in NodesMade(g) : n # v => h.blocks[n] = g.blocks[n],
         g.blocks[v] \subseteq h.blocks[v] \cup BlocksOf(g, Within(g, s.kernels, v))
  PROVE  Nested(h, t)
  <1>1. PICK K, L, inside : K = s.kernels /\ L = t.kernels /\ inside = Within(g, K, v)
    OBVIOUS
  <1>2. /\ Layered(g) /\ g.nodes \subseteq NodesMade(g)
        /\ Rooted(g, s) /\ Gathered(g, s) /\ Held(g, s)
    BY DEF Whole, Sound, Shape, Nested
  <1>3. \A n : Leaves(h, n) = Leaves(g, n) /\ IsVirtual(h, n) = IsVirtual(g, n)
    BY DEF Leaves, IsVirtual
  <1>4. \A n : Within(h, L, n) = Within(g, L, n)
    BY DEF Within, KernelsIn
  <1>5. /\ \A j \in inside : j \in K
        /\ Within(g, L, v) = {v}
        /\ \A n \in g.nodes : n # v => Within(g, L, n) = Within(g, K, n)
        /\ \A k \in K : Below(t.child, k) = Below(s.child, k)
        /\ \A c \in inside : /\ c \in Below(t.child, v)
                             /\ Below(s.child, c) \subseteq Below(t.child, v)
    <2>1. KernelOn(g, s, v, t)
      BY <1>2, KernelizedIs
    <2> QED BY <1>1, <2>1 DEF KernelOn
  <1>6. \A k \in K : Family(t.child, k) = Family(s.child, k)
    BY <1>5 DEF Family
  <1>7. \A k \in K : Family(s.child, k) \subseteq K /\ K \subseteq NodesMade(g)
    BY <1>1, <1>2, FamilyIn
  <1>8. L = K \cup {v} /\ v \notin K
    BY <1>1 DEF Kernelized
  <1>9. \A J : J \subseteq K => BlocksOf(h, J) = BlocksOf(g, J)
    <2>1. \A j \in K : h.blocks[j] = g.blocks[j]
      BY <1>7, <1>8
    <2> QED BY <2>1 DEF BlocksOf
  <1>10. Rooted(h, t)
    <2>1. Rooted(g, t)
      BY <1>2, RootedKernel
    <2> QED BY <2>1, RootedSame
  <1>11. Leaves(g, v) \subseteq BlocksOf(h, Family(t.child, v))
    <2>1. PICK J : J = UNION {Family(s.child, c) : c \in inside}
      OBVIOUS
    <2>2. Leaves(g, v) \subseteq g.blocks[v] \cup BlocksOf(g, J)
      BY <1>1, <1>2, <2>1 DEF Held
    <2>3. J \subseteq K /\ inside \subseteq J /\ J \subseteq Family(t.child, v)
      BY <1>5, <1>7, <2>1 DEF Family
    <2>4. BlocksOf(g, inside) \subseteq BlocksOf(h, J)
      <3>1. BlocksOf(h, J) = BlocksOf(g, J)
        BY <1>9, <2>3
      <3>2. BlocksOf(g, inside) \subseteq BlocksOf(g, J)
        BY <2>3 DEF BlocksOf
      <3> QED BY <3>1, <3>2
    <2>5. BlocksOf(h, J) \subseteq BlocksOf(h, Family(t.child, v))
      BY <2>3 DEF BlocksOf
    <2>6. h.blocks[v] \subseteq BlocksOf(h, Family(t.child, v))
      BY DEF BlocksOf, Family
    <2>7. BlocksOf(g, J) = BlocksOf(h, J)
      BY <1>9, <2>3
    <2> QED BY <1>1, <2>2, <2>4, <2>5, <2>6, <2>7
  <1>12. Gathered(h, t)
    <2> SUFFICES ASSUME NEW k \in L
                 PROVE  IsVirtual(h, k) /\ Leaves(h, k) \subseteq BlocksOf(h, Family(t.child, k))
      BY <1>1 DEF Gathered
    <2>1. CASE k = v
      BY <1>3, <1>11, <2>1
    <2>2. CASE k # v
      <3>1. k \in K
        BY <1>8, <2>2
      <3>2. IsVirtual(g, k) /\ Leaves(g, k) \subseteq BlocksOf(g, Family(s.child, k))
        BY <1>1, <1>2, <3>1 DEF Gathered
      <3> QED BY <1>3, <1>6, <1>7, <1>9, <3>1, <3>2
    <2> QED BY <2>1, <2>2
  <1>13. Held(h, t)
    <2> SUFFICES ASSUME NEW n \in g.nodes
                 PROVE  Leaves(h, n) \subseteq
                            h.blocks[n] \cup
                            BlocksOf(h, UNION {Family(t.child, c) : c \in Within(h, L, n)})
      BY <1>1 DEF Held
    <2>1. CASE n = v
      <3>1. UNION {Family(t.child, c) : c \in {v}} = Family(t.child, v)
        OBVIOUS
      <3> QED BY <1>3, <1>4, <1>5, <1>11, <2>1, <3>1
    <2>2. CASE n # v
      <3>1. Within(h, L, n) = Within(g, K, n) /\ Within(g, K, n) \subseteq K
        BY <1>2, <1>4, <1>5, <2>2, WithinIn
      <3>2. PICK J : J = UNION {Family(s.child, c) : c \in Within(g, K, n)}
        OBVIOUS
      <3>3. J \subseteq K
        BY <1>7, <3>1, <3>2
      <3>4. UNION {Family(t.child, c) : c \in Within(h, L, n)} = J
        BY <1>6, <3>1, <3>2
      <3>5. Leaves(g, n) \subseteq g.blocks[n] \cup BlocksOf(g, J)
        BY <1>1, <1>2, <3>2 DEF Held
      <3>6. h.blocks[n] = g.blocks[n]
        BY <1>2, <2>2
      <3> QED BY <1>3, <1>9, <3>3, <3>4, <3>5, <3>6
    <2> QED BY <2>1, <2>2
  <1> QED
    BY <1>10, <1>12, <1>13 DEF Nested

-----------------------------------------------------------------------------
(* Loops that do not meet *)

\* What can be replaced still can when something else has been.
LEMMA ReplaceableKept ==
  ASSUME NEW g, Sound(g), NEW N, NEW E, Replaceable(g, N, E),
         NEW r, Virtualized(g, N, E, r),
         NEW M, NEW D, Replaceable(g, M, D), N \cap M = {}
  PROVE  Replaceable(r, M, D)
  <1>1. PICK v : v = Len(g.inner) + 1
    OBVIOUS
  <1>2. /\ r.nodes = (g.nodes \ N) \cup {v}
        /\ \A e \in EdgesMade(g) : r.end[e] = g.end[e]
        /\ {e \in r.edges : Src(r, e) # v /\ Snk(r, e) # v}
           = {e \in g.edges : Src(g, e) \notin N /\ Snk(g, e) \notin N}
    BY <1>1 DEF Virtualized
  <1>3. /\ v \notin g.nodes /\ g.edges \subseteq EdgesMade(g)
        /\ M \subseteq g.nodes /\ M # {} /\ D \subseteq g.edges
        /\ \A e \in D : Src(g, e) \in M /\ Snk(g, e) \in M
    BY <1>1, Fields DEF Sound, Shape, NodesMade, Replaceable
  <1>4. \A e \in g.edges : Src(r, e) = Src(g, e) /\ Snk(r, e) = Snk(g, e)
    BY <1>2, <1>3 DEF Src, Snk
  <1>5. M \subseteq r.nodes
    BY <1>2, <1>3
  <1>6. ASSUME NEW e \in D PROVE e \in r.edges /\ Src(r, e) \in M /\ Snk(r, e) \in M
    BY <1>2, <1>3, <1>4
  <1>7. ASSUME NEW e \in r.edges, Src(r, e) \in M, Snk(r, e) \in M PROVE e \in g.edges
    BY <1>2, <1>3, <1>7
  <1>8. \A e, f \in r.edges \ D :
            {Src(r, e), Snk(r, e), Src(r, f), Snk(r, f)} \subseteq M => Src(r, e) = Src(r, f)
    BY <1>4, <1>7 DEF Replaceable
  <1> QED
    BY <1>3, <1>5, <1>6, <1>8 DEF Replaceable

\* What can be replaced can be after the weights have changed.
LEMMA ReplaceableReweighted ==
  ASSUME NEW g, Sound(g), NEW h, Reweighted(g, h), NEW N, NEW E, Replaceable(g, N, E)
  PROVE  Replaceable(h, N, E)
  <1>1. /\ h.nodes = g.nodes /\ h.edges = g.edges /\ g.edges \subseteq EdgesMade(g)
        /\ \A e \in EdgesMade(g) : Src(h, e) = Src(g, e) /\ Snk(h, e) = Snk(g, e)
    BY DEF Reweighted, Sound, Shape
  <1>2. \A e \in g.edges : Src(h, e) = Src(g, e) /\ Snk(h, e) = Snk(g, e)
    BY <1>1
  <1> QED
    BY <1>1, <1>2 DEF Replaceable

\* The cycles that are still to be replaced.
Waiting(g, loops, i) ==
  \A j \in i + 1 .. Len(loops) : Replaceable(g, loops[j].nodes, loops[j].edges)

\* Loops that wait, with one replaced, wait for the next.
LEMMA LoopsWait ==
  ASSUME NEW g, Sound(g), NEW loops, LoopSeq(g, loops)
  PROVE  Waiting(g, loops, 0)
  <1>1. loops \in Seq(Cycles(g))
    BY DEF LoopSeq
  <1>2. ASSUME NEW j \in 0 + 1 .. Len(loops)
        PROVE  Replaceable(g, loops[j].nodes, loops[j].edges)
    <2>1. PICK c : c = loops[j]
      OBVIOUS
    <2>2. c \in Cycles(g)
      BY <1>1, <2>1
    <2> QED BY <2>1, <2>2, CycleIs
  <1> QED
    BY <1>2 DEF Waiting

\* A loop that waits can be replaced, and the others go on waiting.
LEMMA LoopReplaced ==
  ASSUME NEW g, NEW p, Whole(g, p), NEW s, Nested(g, s),
         NEW loops, NEW i \in 1 .. Len(loops), Len(loops) \in Nat,
         \A j \in 1 .. Len(loops) : i # j => loops[i].nodes \cap loops[j].nodes = {},
         Waiting(g, loops, i - 1),
         NEW r, r = VirtualizeSubgraph(g, loops[i].nodes, loops[i].edges)
  PROVE  Whole(r, p) /\ Nested(r, s) /\ Waiting(r, loops, i)
  <1>1. PICK N, E : N = loops[i].nodes /\ E = loops[i].edges
    OBVIOUS
  <1>2. i \in (i - 1) + 1 .. Len(loops)
    OBVIOUS
  <1>3. Replaceable(g, N, E)
    BY <1>1, <1>2 DEF Waiting
  <1>4. Sound(g)
    BY DEF Whole
  <1>5. Virtualized(g, N, E, r)
    BY <1>1, <1>3, <1>4, VirtualizeSubgraphIs
  <1>6. Whole(r, p) /\ Nested(r, s)
    BY <1>3, <1>5, WholeVirtualized, NestedVirtualized
  <1>7. ASSUME NEW j \in i + 1 .. Len(loops)
        PROVE  Replaceable(r, loops[j].nodes, loops[j].edges)
    <2>1. PICK M, D : M = loops[j].nodes /\ D = loops[j].edges
      OBVIOUS
    <2>2. j \in (i - 1) + 1 .. Len(loops) /\ j \in 1 .. Len(loops) /\ i # j
      OBVIOUS
    <2>3. Replaceable(g, M, D) /\ N \cap M = {}
      BY <1>1, <2>1, <2>2 DEF Waiting
    <2> QED BY <1>3, <1>4, <1>5, <2>1, <2>3, ReplaceableKept
  <1> QED
    BY <1>6, <1>7 DEF Waiting

\* LowFrequencyLoopTransform keeps a whole graph whole, and the kernels nested.
LEMMA LowFrequencyIs ==
  ASSUME NEW g, NEW p, Whole(g, p), NEW s, Nested(g, s), NEW r \in LowFrequencyLoopTransform(g)
  PROVE  Whole(r, p) /\ Nested(r, s)
  <1>0. PICK loops \in LoopsInOrder(g, IsLowLoop) :
            r = EachOf(LAMBDA h, c : VirtualizeSubgraph(h, c.nodes, c.edges), g, loops)
    BY DEF LowFrequencyLoopTransform
  <1> DEFINE m == Len(loops)
  <1>1. m \in Nat /\ DOMAIN loops = 1 .. m /\ LoopSeq(g, loops) /\ Sound(g)
    BY LowLoopsAre DEF Whole, LoopSeq
  <1> DEFINE op(h, i) == IF i \in DOMAIN loops THEN VirtualizeSubgraph(h, loops[i].nodes, loops[i].edges) ELSE h
             F(k, a) == a = [i \in 0 .. k |-> IF i = 0 THEN g ELSE op(a[i - 1], i)]
             T == {k \in 0 .. m : \E a : F(k, a)}
             Holds(i, h) == Whole(h, p) /\ Nested(h, s) /\ Waiting(h, loops, i)
  <1>2. \A i \in 1 .. m : i \in 0 .. m /\ i - 1 \in 0 .. m /\ i # 0
    BY <1>1
  <1>3. r = (CHOOSE a : F(m, a))[m]
    BY <1>0 DEF EachOf, Each
  <1>4. Holds(0, g)
    BY <1>1, LoopsWait
  <1>5. ASSUME NEW i \in 1 .. m, NEW h, Holds(i - 1, h) PROVE Holds(i, op(h, i))
    <2>1. /\ Whole(h, p) /\ Nested(h, s) /\ Waiting(h, loops, i - 1)
          /\ op(h, i) = VirtualizeSubgraph(h, loops[i].nodes, loops[i].edges)
      BY <1>1, <1>5
    <2>2. \A j \in 1 .. m : i # j => loops[i].nodes \cap loops[j].nodes = {}
      BY <1>1 DEF LoopSeq
    <2> HIDE DEF op
    <2> QED BY <1>1, <2>1, <2>2, LoopReplaced
  <1> HIDE DEF op, Holds
  <1>6. 0 \in T
    <2>1. PICK a : a = [i \in 0 .. 0 |-> g]
      OBVIOUS
    <2>2. F(0, a)
      BY <2>1
    <2> HIDE DEF F
    <2> QED BY <1>1, <2>2
  <1>7. ASSUME NEW k \in 1 .. m, k - 1 \in T PROVE k \in T
    <2>1. PICK a : F(k - 1, a)
      BY <1>7
    <2>2. PICK b : b = [i \in 0 .. k |-> IF i = k THEN op(a[k - 1], k) ELSE a[i]]
      OBVIOUS
    <2>3. ASSUME NEW i \in 0 .. k PROVE b[i] = IF i = 0 THEN g ELSE op(b[i - 1], i)
      <3>1. CASE i = k
        BY <2>2, <3>1
      <3>2. CASE i # k
        <4>1. i \in 0 .. (k - 1) /\ b[i] = a[i] /\ (i # 0 => i - 1 \in 0 .. k /\ i - 1 # k)
          BY <2>2, <3>2
        <4>2. a[i] = IF i = 0 THEN g ELSE op(a[i - 1], i)
          BY <2>1, <4>1
        <4> QED BY <2>2, <4>1, <4>2
      <3> QED BY <3>1, <3>2
    <2>4. F(k, b)
      <3>1. b = [i \in 0 .. k |-> b[i]]
        BY <2>2
      <3> QED BY <2>3, <3>1
    <2> HIDE DEF F
    <2> QED BY <1>2, <2>4
  <1>8. m \in T
    <2> HIDE DEF T
    <2>1. \A i \in 0 .. m : i \in T
      BY <1>1, <1>6, <1>7, UpTo
    <2> QED BY <1>1, <2>1
  <1>9. PICK after : F(m, after) /\ r = after[m]
    <2> HIDE DEF F
    <2> QED BY <1>3, <1>8
  <1>10. after[0] = g /\ \A i \in 1 .. m : after[i] = op(after[i - 1], i)
    <2>1. after = [i \in 0 .. m |-> IF i = 0 THEN g ELSE op(after[i - 1], i)]
      BY <1>9
    <2> HIDE DEF F
    <2>2. 0 \in 0 .. m /\ \A i \in 1 .. m : i \in 0 .. m /\ i # 0
      BY <1>1
    <2> QED BY <2>1, <2>2
  <1>11. Holds(m, r)
    <2> DEFINE U == {i \in 0 .. m : Holds(i, after[i])}
    <2>1. 0 \in U
      BY <1>1, <1>4, <1>10
    <2>2. \A i \in 1 .. m : i - 1 \in U => i \in U
      BY <1>2, <1>5, <1>10
    <2> HIDE DEF U
    <2>3. \A i \in 0 .. m : i \in U
      BY <1>1, <2>1, <2>2, UpTo
    <2>4. Holds(m, after[m])
      BY <1>1, <2>3 DEF U
    <2> QED BY <1>9, <2>4
  <1> USE DEF Holds
  <1> QED
    BY <1>11

-----------------------------------------------------------------------------
(* Kernels *)

\* The candidates for kernels are cycles of the graph.
LEMMA CandidatesAre ==
  ASSUME NEW g, Sound(g), NEW loops \in LoopsInOrder(g, IsCandidate)
  PROVE  loops \in Seq(Cycles(g))
  <1>0. PICK start : start = {<<>>}
    OBVIOUS
  <1> DEFINE v == Len(g.inner)
             keep(taken, c, n) == IF IsCandidate(g, c, n, taken) THEN Append(taken, c) ELSE taken
             more(ways, n, cycles) ==
               IF cycles = {} THEN ways
               ELSE {keep(taken, c, n) : taken \in ways, c \in cycles}
             all(n) == {CycleOf(g, N) : N \in Dijkstras(g, n)}
  <1>1. v \in Nat
    BY Fields DEF Sound
  <1> DEFINE op(h, i) == IF i \in g.nodes THEN more(h, i, all(i)) ELSE h
             F(k, a) == a = [i \in 0 .. k |-> IF i = 0 THEN start ELSE op(a[i - 1], i)]
             T == {k \in 0 .. v : \E a : F(k, a)}
             Holds(i, h) == \A taken \in h : taken \in Seq(Cycles(g))
  <1>2. \A i \in 1 .. v : i \in 0 .. v /\ i - 1 \in 0 .. v /\ i # 0
    BY <1>1
  <1>3. LoopsInOrder(g, IsCandidate) = (CHOOSE a : F(v, a))[v]
    BY <1>0, <1>1 DEF LoopsInOrder, Each, VirtualNodeOf
  <1>4. Holds(0, start)
    BY <1>0
  <1>5. ASSUME NEW i \in 1 .. v, NEW h, Holds(i - 1, h) PROVE Holds(i, op(h, i))
    <2>1. CASE i \notin g.nodes \/ all(i) = {}
      BY <1>5, <2>1
    <2>2. CASE i \in g.nodes /\ all(i) # {}
      <3>1. op(h, i) = {keep(taken, c, i) : taken \in h, c \in all(i)}
        BY <2>2
      <3>2. all(i) \subseteq Cycles(g)
        BY <2>2, DijkstrasAre
      <3> HIDE DEF all, op
      <3>3. ASSUME NEW taken \in h, NEW c \in all(i) PROVE keep(taken, c, i) \in Seq(Cycles(g))
        <4>1. taken \in Seq(Cycles(g)) /\ c \in Cycles(g)
          BY <1>5, <3>2
        <4>2. CASE IsCandidate(g, c, i, taken)
          <5>1. Append(taken, c) \in Seq(Cycles(g))
            BY <4>1
          <5> QED BY <4>2, <5>1
        <4>3. CASE ~ IsCandidate(g, c, i, taken)
          BY <4>1, <4>3
        <4> QED BY <4>2, <4>3
      <3> HIDE DEF keep
      <3> QED BY <3>1, <3>3
    <2> QED BY <2>1, <2>2
  <1> HIDE DEF op, Holds
  <1>6. 0 \in T
    <2>1. PICK a : a = [i \in 0 .. 0 |-> start]
      OBVIOUS
    <2>2. F(0, a)
      BY <2>1
    <2> HIDE DEF F
    <2> QED BY <1>1, <2>2
  <1>7. ASSUME NEW k \in 1 .. v, k - 1 \in T PROVE k \in T
    <2>1. PICK a : F(k - 1, a)
      BY <1>7
    <2>2. PICK b : b = [i \in 0 .. k |-> IF i = k THEN op(a[k - 1], k) ELSE a[i]]
      OBVIOUS
    <2>3. ASSUME NEW i \in 0 .. k PROVE b[i] = IF i = 0 THEN start ELSE op(b[i - 1], i)
      <3>1. CASE i = k
        BY <2>2, <3>1
      <3>2. CASE i # k
        <4>1. i \in 0 .. (k - 1) /\ b[i] = a[i] /\ (i # 0 => i - 1 \in 0 .. k /\ i - 1 # k)
          BY <2>2, <3>2
        <4>2. a[i] = IF i = 0 THEN start ELSE op(a[i - 1], i)
          BY <2>1, <4>1
        <4> QED BY <2>2, <4>1, <4>2
      <3> QED BY <3>1, <3>2
    <2>4. F(k, b)
      <3>1. b = [i \in 0 .. k |-> b[i]]
        BY <2>2
      <3> QED BY <2>3, <3>1
    <2> HIDE DEF F
    <2> QED BY <1>2, <2>4
  <1>8. v \in T
    <2> HIDE DEF T
    <2>1. \A i \in 0 .. v : i \in T
      BY <1>1, <1>6, <1>7, UpTo
    <2> QED BY <1>1, <2>1
  <1>9. PICK after : F(v, after) /\ LoopsInOrder(g, IsCandidate) = after[v]
    <2> HIDE DEF F
    <2> QED BY <1>3, <1>8
  <1>10. after[0] = start /\ \A i \in 1 .. v : after[i] = op(after[i - 1], i)
    <2>1. after = [i \in 0 .. v |-> IF i = 0 THEN start ELSE op(after[i - 1], i)]
      BY <1>9
    <2> HIDE DEF F
    <2>2. 0 \in 0 .. v /\ \A i \in 1 .. v : i \in 0 .. v /\ i # 0
      BY <1>1
    <2> QED BY <2>1, <2>2
  <1>11. Holds(v, LoopsInOrder(g, IsCandidate))
    <2> DEFINE U == {i \in 0 .. v : Holds(i, after[i])}
    <2>1. 0 \in U
      BY <1>1, <1>4, <1>10
    <2>2. \A i \in 1 .. v : i - 1 \in U => i \in U
      BY <1>2, <1>5, <1>10
    <2> HIDE DEF U
    <2>3. \A i \in 0 .. v : i \in U
      BY <1>1, <2>1, <2>2, UpTo
    <2>4. Holds(v, after[v])
      BY <1>1, <2>3 DEF U
    <2> QED BY <1>9, <2>4
  <1> USE DEF Holds
  <1> QED
    BY <1>11

\* Those of them that are chosen do not meet.
LEMMA ChosenAre ==
  ASSUME NEW g, NEW cands \in Seq(Cycles(g))
  PROVE  LoopSeq(g, Chosen(g, cands))
  <1> DEFINE m == Len(cands)
             least == Min({EnExScore(g, c) : c \in Range(cands)} \cup {Cardinality(g.edges)})
             better(taken, c) == /\ EnExScore(g, c) = least
                                 /\ \A d \in Range(taken) : d.nodes \cap c.nodes = {}
  <1>0. PICK start : start = <<>>
    OBVIOUS
  <1>1. m \in Nat /\ DOMAIN cands = 1 .. m
    OBVIOUS
  <1> HIDE DEF least
  <1> DEFINE op(h, i) == IF i \in DOMAIN cands THEN IF better(h, cands[i]) THEN Append(h, cands[i]) ELSE h ELSE h
             F(k, a) == a = [i \in 0 .. k |-> IF i = 0 THEN start ELSE op(a[i - 1], i)]
             T == {k \in 0 .. m : \E a : F(k, a)}
             Holds(i, h) == LoopSeq(g, h)
  <1>2. \A i \in 1 .. m : i \in 0 .. m /\ i - 1 \in 0 .. m /\ i # 0
    BY <1>1
  <1>3. Chosen(g, cands) = (CHOOSE a : F(m, a))[m]
    BY <1>0 DEF Chosen, EachOf, Each, least
  <1>4. Holds(0, start)
    <2>1. <<>> \in Seq(Cycles(g)) /\ Len(<<>>) = 0
      OBVIOUS
    <2> QED BY <1>0, <2>1 DEF LoopSeq
  <1>5. ASSUME NEW i \in 1 .. m, NEW h, Holds(i - 1, h) PROVE Holds(i, op(h, i))
    <2>1. PICK c : c = cands[i]
      OBVIOUS
    <2>2. c \in Cycles(g) /\ LoopSeq(g, h)
      BY <1>1, <1>5, <2>1
    <2>3. CASE better(h, c)
      <3>1. \A d \in Range(h) : c.nodes \cap d.nodes = {}
        BY <2>3
      <3>2. LoopSeq(g, Append(h, c))
        BY <2>2, <3>1, LoopSeqAppend
      <3> QED BY <1>1, <2>1, <2>3, <3>2
    <2>4. CASE ~ better(h, c)
      BY <1>1, <2>1, <2>2, <2>4
    <2> QED BY <2>3, <2>4
  <1> HIDE DEF op, Holds
  <1>6. 0 \in T
    <2>1. PICK a : a = [i \in 0 .. 0 |-> start]
      OBVIOUS
    <2>2. F(0, a)
      BY <2>1
    <2> HIDE DEF F
    <2> QED BY <1>1, <2>2
  <1>7. ASSUME NEW k \in 1 .. m, k - 1 \in T PROVE k \in T
    <2>1. PICK a : F(k - 1, a)
      BY <1>7
    <2>2. PICK b : b = [i \in 0 .. k |-> IF i = k THEN op(a[k - 1], k) ELSE a[i]]
      OBVIOUS
    <2>3. ASSUME NEW i \in 0 .. k PROVE b[i] = IF i = 0 THEN start ELSE op(b[i - 1], i)
      <3>1. CASE i = k
        BY <2>2, <3>1
      <3>2. CASE i # k
        <4>1. i \in 0 .. (k - 1) /\ b[i] = a[i] /\ (i # 0 => i - 1 \in 0 .. k /\ i - 1 # k)
          BY <2>2, <3>2
        <4>2. a[i] = IF i = 0 THEN start ELSE op(a[i - 1], i)
          BY <2>1, <4>1
        <4> QED BY <2>2, <4>1, <4>2
      <3> QED BY <3>1, <3>2
    <2>4. F(k, b)
      <3>1. b = [i \in 0 .. k |-> b[i]]
        BY <2>2
      <3> QED BY <2>3, <3>1
    <2> HIDE DEF F
    <2> QED BY <1>2, <2>4
  <1>8. m \in T
    <2> HIDE DEF T
    <2>1. \A i \in 0 .. m : i \in T
      BY <1>1, <1>6, <1>7, UpTo
    <2> QED BY <1>1, <2>1
  <1>9. PICK after : F(m, after) /\ Chosen(g, cands) = after[m]
    <2> HIDE DEF F
    <2> QED BY <1>3, <1>8
  <1>10. after[0] = start /\ \A i \in 1 .. m : after[i] = op(after[i - 1], i)
    <2>1. after = [i \in 0 .. m |-> IF i = 0 THEN start ELSE op(after[i - 1], i)]
      BY <1>9
    <2> HIDE DEF F
    <2>2. 0 \in 0 .. m /\ \A i \in 1 .. m : i \in 0 .. m /\ i # 0
      BY <1>1
    <2> QED BY <2>1, <2>2
  <1>11. Holds(m, Chosen(g, cands))
    <2> DEFINE U == {i \in 0 .. m : Holds(i, after[i])}
    <2>1. 0 \in U
      BY <1>1, <1>4, <1>10
    <2>2. \A i \in 1 .. m : i - 1 \in U => i \in U
      BY <1>2, <1>5, <1>10
    <2> HIDE DEF U
    <2>3. \A i \in 0 .. m : i \in U
      BY <1>1, <2>1, <2>2, UpTo
    <2>4. Holds(m, after[m])
      BY <1>1, <2>3 DEF U
    <2> QED BY <1>9, <2>4
  <1> USE DEF Holds
  <1> QED
    BY <1>11

\* The same graph, but for the blocks of its nodes.
BlocksOnly(g, h) ==
  /\ h \in GraphSet /\ Len(h.blocks) = Len(g.blocks)
  /\ h.nodes = g.nodes /\ h.edges = g.edges /\ h.pred = g.pred /\ h.succ = g.succ
  /\ h.end = g.end /\ h.inner = g.inner

\* Only blocks are in the graph, which no kernel has.
LEMMA BlocksAreFree ==
  ASSUME NEW g, Sound(g), NEW h, BlocksOnly(g, h)
  PROVE  Sound(h)
  <1>1. EdgesMade(h) = EdgesMade(g) /\ NodesMade(h) = NodesMade(g)
    BY DEF BlocksOnly, EdgesMade, NodesMade
  <1>2. \A e : Src(h, e) = Src(g, e) /\ Snk(h, e) = Snk(g, e)
    BY DEF BlocksOnly, Src, Snk
  <1>3. Shape(h)
    BY <1>1 DEF Sound, Shape, BlocksOnly
  <1>4. Agree(h)
    BY <1>2 DEF Sound, Agree, SameEnds, BlocksOnly
  <1> QED
    BY <1>3, <1>4 DEF Sound

\* The record that VirtualizeKernels goes on with.
Hierarchy(s) == s = [graph |-> s.graph, kernels |-> s.kernels, child |-> s.child,
                     parent |-> s.parent]

\* A kernel becomes a node, and is put into the hierarchy.
LEMMA KernelReplaced ==
  ASSUME NEW s, Hierarchy(s), NEW p, Whole(s.graph, p), Nested(s.graph, s),
         NEW loops, NEW i \in 1 .. Len(loops), Len(loops) \in Nat,
         \A j \in 1 .. Len(loops) : i # j => loops[i].nodes \cap loops[j].nodes = {},
         Waiting(s.graph, loops, i - 1),
         NEW t, t = VirtualizeKernel(s, loops[i])
  PROVE  Hierarchy(t) /\ Whole(t.graph, p) /\ Nested(t.graph, t) /\ Waiting(t.graph, loops, i)
  <1>1. PICK c, g : c = loops[i] /\ g = s.graph
    OBVIOUS
  <1>2. PICK r : r = VirtualizeSubgraph(g, c.nodes, c.edges)
    OBVIOUS
  <1>3. Whole(r, p) /\ Nested(r, s) /\ Waiting(r, loops, i)
    BY <1>1, <1>2, LoopReplaced
  <1>4. PICK k, first : /\ k = VirtualNodeOf(g) + 1
                        /\ first = LET inside == KernelsIn(g, s.kernels, c.nodes)
                                   IN  IF inside = {} THEN {} ELSE r.blocks[Min(inside)]
    OBVIOUS
  <1>5. PICK E : E = r.succ[k]
    OBVIOUS
  <1>6. PICK q : q = Rebalance(r, E)
    OBVIOUS
  <1>7. PICK h : h = [q EXCEPT !.blocks[k] = @ \ first]
    OBVIOUS
  <1>8. PICK u : u = [s EXCEPT !.graph = r]
    OBVIOUS
  <1>9. /\ u.graph = r /\ u.kernels = s.kernels
        /\ u.child = s.child /\ u.parent = s.parent
    BY <1>8 DEF Hierarchy
  <1>10. t = PutKernel(u, k, KernelsIn(g, s.kernels, c.nodes))
    BY <1>1, <1>2, <1>4, <1>8 DEF VirtualizeKernel, Hierarchy
  <1>11. t.graph = h /\ Hierarchy(t)
    BY <1>4, <1>5, <1>6, <1>7, <1>9, <1>10 DEF PutKernel, Hierarchy
  <1>12. Sound(g) /\ Replaceable(g, c.nodes, c.edges)
    <2>1. i \in (i - 1) + 1 .. Len(loops)
      OBVIOUS
    <2> QED BY <1>1, <2>1 DEF Waiting, Whole
  <1>13. /\ k \in r.nodes /\ Sound(r) /\ k \in NodesMade(r)
         /\ k = Len(r.inner) /\ k \notin s.kernels /\ IsVirtual(r, k)
         /\ Within(r, s.kernels, k) = KernelsIn(g, s.kernels, c.nodes)
    <2>1. PICK N, D : N = c.nodes /\ D = c.edges
      OBVIOUS
    <2>2. Replaceable(g, N, D) /\ r = VirtualizeSubgraph(g, N, D)
      BY <1>2, <1>12, <2>1
    <2>3. Virtualized(g, N, D, r)
      BY <1>12, <2>2, VirtualizeSubgraphIs
    <2>4. k \in r.nodes /\ Sound(r) /\ k = Len(r.inner) /\ k = Len(g.inner) + 1
      BY <1>4, <2>3 DEF Virtualized, VirtualNodeOf
    <2>5. k \in NodesMade(r)
      BY <2>4 DEF Sound, Shape
    <2>6. PICK K : K = s.kernels
      OBVIOUS
    <2>7. Layered(g) /\ K \subseteq NodesMade(g)
      BY <1>1, <2>6 DEF Whole, Nested, Rooted, KernelTree
    <2>8. k \notin NodesMade(g)
      BY <1>12, <2>4, Fields DEF NodesMade, Sound
    <2>9. Within(r, K, k) = UNION {Within(g, K, n) : n \in N}
      <3>1. /\ Sound(g) /\ Layered(g) /\ Replaceable(g, N, D) /\ Virtualized(g, N, D, r)
            /\ k = Len(g.inner) + 1 /\ K \subseteq NodesMade(g)
        BY <1>12, <2>2, <2>3, <2>4, <2>7
      <3>2. Within(r, K, Len(g.inner) + 1) = UNION {Within(g, K, n) : n \in N}
        BY <3>1, WithinVirtualized
      <3> QED BY <3>1, <3>2
    <2>10. Within(r, K, k) = KernelsIn(g, K, N)
      BY <2>9, KernelsInAre
    <2>11. IsVirtual(r, k)
      BY <2>2, <2>3, <2>4 DEF Virtualized, IsVirtual, Replaceable
    <2> QED BY <2>1, <2>4, <2>5, <2>6, <2>7, <2>8, <2>10, <2>11
  <1>14. E \subseteq EdgesMade(r)
    BY <1>5, <1>13 DEF Sound, Agree, Shape
  <1>15. Reweighted(r, q)
    BY <1>6, <1>13, <1>14, RebalanceIs
  <1>16. Sound(q) /\ q.nodes = r.nodes /\ q.inner = r.inner
    BY <1>15 DEF Reweighted
  <1>17. NodesMade(q) = NodesMade(r)
    BY <1>16 DEF NodesMade
  <1>18. BlocksOnly(q, h)
    <2>1. PICK b : b = [q.blocks EXCEPT ![k] = @ \ first]
      OBVIOUS
    <2>2. h = [q EXCEPT !.blocks = b]
      BY <1>7, <2>1
    <2>3. /\ q.blocks \in Seq(SUBSET Nat) /\ k \in 1 .. Len(q.blocks)
          /\ q.blocks[k] \subseteq Nat /\ q \in GraphSet
      BY <1>13, <1>16, <1>17, Fields DEF Sound, Shape, GraphSet, NodesMade
    <2>4. PICK x \in SUBSET Nat : x = q.blocks[k] \ first
      BY <2>3
    <2>5. b \in Seq(SUBSET Nat) /\ Len(b) = Len(q.blocks)
      BY <2>1, <2>3, <2>4, PutIn
    <2> QED BY <2>2, <2>3, <2>5 DEF BlocksOnly, GraphSet
  <1>24. /\ \A n \in NodesMade(r) : n # k => h.blocks[n] = r.blocks[n]
         /\ h.blocks[k] = r.blocks[k] \ first
    <2>1. /\ q.blocks = r.blocks /\ q.blocks \in Seq(SUBSET Nat)
          /\ "blocks" \in DOMAIN q /\ DOMAIN q.blocks = NodesMade(r)
      <3>1. q \in GraphSet /\ q.blocks = r.blocks /\ Len(q.blocks) = Len(q.inner)
        BY <1>15 DEF Reweighted, Sound, Shape
      <3> QED BY <1>17, <3>1 DEF GraphSet, NodesMade
    <2>2. h.blocks = [q.blocks EXCEPT ![k] = @ \ first]
      BY <1>7, <2>1
    <2> QED BY <1>13, <2>1, <2>2
  <1>19. Sound(h) /\ h.nodes = r.nodes /\ h.inner = r.inner
    BY <1>16, <1>18, BlocksAreFree DEF BlocksOnly
  <1>20. Whole(h, p)
    <2>0. FewerBlocks(r, h)
      BY <1>13, <1>24 DEF FewerBlocks
    <2>1. ASSUME NEW e \in h.edges
          PROVE  \E f \in r.edges : /\ Src(h, e) = Src(r, f) /\ Snk(h, e) = Snk(r, f)
                                    /\ Freq(h, e) <= Freq(r, f)
      <3>1. e \in r.edges /\ e \in EdgesMade(r)
        BY <1>13, <1>15, <1>18 DEF BlocksOnly, Reweighted, Sound, Shape
      <3>2. Src(h, e) = Src(r, e) /\ Snk(h, e) = Snk(r, e) /\ Freq(h, e) = Freq(r, e)
        BY <1>15, <1>18, <3>1 DEF BlocksOnly, Reweighted, Src, Snk, Freq
      <3>3. Freq(r, e) \in Nat
        BY <1>13, <3>1, Fields DEF Sound
      <3> QED BY <3>1, <3>2, <3>3
    <2> QED BY <1>3, <1>19, <2>0, <2>1, WholeSame
  <1>21. ASSUME NEW j \in i + 1 .. Len(loops)
         PROVE  Replaceable(h, loops[j].nodes, loops[j].edges)
    <2>1. PICK M, D : M = loops[j].nodes /\ D = loops[j].edges
      OBVIOUS
    <2>2. Replaceable(r, M, D)
      BY <1>3, <2>1 DEF Waiting
    <2>3. Replaceable(q, M, D)
      BY <1>13, <1>15, <2>2, ReplaceableReweighted
    <2>4. Replaceable(h, M, D)
      BY <1>18, <2>3 DEF Replaceable, BlocksOnly, Src, Snk
    <2> QED BY <2>1, <2>4
  <1>22. Kernelized(r, s, k, t)
    <2>1. PICK inside : inside = Within(r, s.kernels, k)
      OBVIOUS
    <2>2. t = PutKernel(u, k, inside)
      BY <1>10, <1>13, <2>1
    <2>3. DOMAIN s.child = s.kernels /\ DOMAIN s.parent = s.kernels
      BY DEF Nested, Rooted
    <2>4. PICK made : made = s.kernels \cup {k}
      OBVIOUS
    <2>5. /\ t.kernels = made
          /\ t.child = [j \in made |-> IF j = k THEN inside ELSE s.child[j]]
          /\ t.parent = [j \in made |-> IF j = k THEN {}
                                        ELSE IF j \in inside THEN s.parent[j] \cup {k}
                                        ELSE s.parent[j]]
      BY <1>9, <2>2, <2>3, <2>4 DEF PutKernel
    <2> QED BY <1>13, <2>1, <2>3, <2>4, <2>5 DEF Kernelized
  <1>23. Nested(h, t)
    <2>1. PICK inside : inside = Within(r, s.kernels, k)
      OBVIOUS
    <2>2. first \subseteq BlocksOf(r, inside)
      <3>1. CASE inside = {}
        BY <1>4, <1>13, <2>1, <3>1
      <3>2. CASE inside # {}
        <4>1. inside \subseteq s.kernels
          BY <1>3, <1>13, <2>1, WithinIn DEF Whole, Sound, Shape
        <4>2. inside \subseteq Nat
          BY <1>3, <4>1 DEF Nested, Rooted, KernelTree, NodesMade
        <4>3. Min(inside) \in inside
          <5>1. \E x \in inside : \A y \in inside : x <= y
            BY <3>2, <4>2, LeastNat
          <5> QED BY <5>1 DEF Min
        <4>4. first = r.blocks[Min(inside)]
          BY <1>4, <1>13, <2>1, <3>2
        <4> QED BY <4>3, <4>4 DEF BlocksOf
      <3> QED BY <3>1, <3>2
    <2>3. r.blocks[k] \subseteq h.blocks[k] \cup BlocksOf(r, inside)
      BY <1>24, <2>2
    <2> QED BY <1>3, <1>13, <1>19, <1>22, <1>24, <2>1, <2>3, NestedKernel
  <1> QED
    BY <1>11, <1>20, <1>21, <1>23 DEF Waiting

\* The kernels, children and parents there are.
TheHierarchy == [graph |-> graph, kernels |-> kernels, child |-> child, parent |-> parent]

\* VirtualizeKernels replaces kernels one by one, and puts each into the hierarchy.
LEMMA VirtualizeKernelsIs ==
  ASSUME NEW cycles, LoopSeq(graph, cycles), NEW p, Whole(graph, p),
         Nested(graph, TheHierarchy),
         NEW r, r = VirtualizeKernels(cycles)
  PROVE  Hierarchy(r) /\ Whole(r.graph, p) /\ Nested(r.graph, r)
  <1> DEFINE m == Len(cycles)
  <1>0. PICK start : start = TheHierarchy
    OBVIOUS
  <1>1. m \in Nat /\ DOMAIN cycles = 1 .. m /\ Sound(graph)
    BY DEF Whole, LoopSeq
  <1> DEFINE op(h, i) == IF i \in DOMAIN cycles THEN VirtualizeKernel(h, cycles[i]) ELSE h
             F(k, a) == a = [i \in 0 .. k |-> IF i = 0 THEN start ELSE op(a[i - 1], i)]
             T == {k \in 0 .. m : \E a : F(k, a)}
             Holds(i, h) == /\ Hierarchy(h) /\ Whole(h.graph, p) /\ Nested(h.graph, h)
                            /\ Waiting(h.graph, cycles, i)
  <1>2. \A i \in 1 .. m : i \in 0 .. m /\ i - 1 \in 0 .. m /\ i # 0
    BY <1>1
  <1>3. r = (CHOOSE a : F(m, a))[m]
    BY <1>0 DEF VirtualizeKernels, TheHierarchy, EachOf, Each
  <1>4. Holds(0, start)
    <2>1. Hierarchy(start) /\ start.graph = graph
      BY <1>0 DEF Hierarchy, TheHierarchy
    <2> QED BY <1>0, <1>1, <2>1, LoopsWait
  <1>5. ASSUME NEW i \in 1 .. m, NEW h, Holds(i - 1, h) PROVE Holds(i, op(h, i))
    <2>1. /\ Hierarchy(h) /\ Whole(h.graph, p) /\ Nested(h.graph, h)
          /\ Waiting(h.graph, cycles, i - 1)
          /\ op(h, i) = VirtualizeKernel(h, cycles[i])
      BY <1>1, <1>5
    <2>2. \A j \in 1 .. m : i # j => cycles[i].nodes \cap cycles[j].nodes = {}
      BY <1>1 DEF LoopSeq
    <2> HIDE DEF op
    <2> QED BY <1>1, <2>1, <2>2, KernelReplaced
  <1> HIDE DEF op, Holds
  <1>6. 0 \in T
    <2>1. PICK a : a = [i \in 0 .. 0 |-> start]
      OBVIOUS
    <2>2. F(0, a)
      BY <2>1
    <2> HIDE DEF F
    <2> QED BY <1>1, <2>2
  <1>7. ASSUME NEW k \in 1 .. m, k - 1 \in T PROVE k \in T
    <2>1. PICK a : F(k - 1, a)
      BY <1>7
    <2>2. PICK b : b = [i \in 0 .. k |-> IF i = k THEN op(a[k - 1], k) ELSE a[i]]
      OBVIOUS
    <2>3. ASSUME NEW i \in 0 .. k PROVE b[i] = IF i = 0 THEN start ELSE op(b[i - 1], i)
      <3>1. CASE i = k
        BY <2>2, <3>1
      <3>2. CASE i # k
        <4>1. i \in 0 .. (k - 1) /\ b[i] = a[i] /\ (i # 0 => i - 1 \in 0 .. k /\ i - 1 # k)
          BY <2>2, <3>2
        <4>2. a[i] = IF i = 0 THEN start ELSE op(a[i - 1], i)
          BY <2>1, <4>1
        <4> QED BY <2>2, <4>1, <4>2
      <3> QED BY <3>1, <3>2
    <2>4. F(k, b)
      <3>1. b = [i \in 0 .. k |-> b[i]]
        BY <2>2
      <3> QED BY <2>3, <3>1
    <2> HIDE DEF F
    <2> QED BY <1>2, <2>4
  <1>8. m \in T
    <2> HIDE DEF T
    <2>1. \A i \in 0 .. m : i \in T
      BY <1>1, <1>6, <1>7, UpTo
    <2> QED BY <1>1, <2>1
  <1>9. PICK after : F(m, after) /\ r = after[m]
    <2> HIDE DEF F
    <2> QED BY <1>3, <1>8
  <1>10. after[0] = start /\ \A i \in 1 .. m : after[i] = op(after[i - 1], i)
    <2>1. after = [i \in 0 .. m |-> IF i = 0 THEN start ELSE op(after[i - 1], i)]
      BY <1>9
    <2> HIDE DEF F
    <2>2. 0 \in 0 .. m /\ \A i \in 1 .. m : i \in 0 .. m /\ i # 0
      BY <1>1
    <2> QED BY <2>1, <2>2
  <1>11. Holds(m, r)
    <2> DEFINE U == {i \in 0 .. m : Holds(i, after[i])}
    <2>1. 0 \in U
      BY <1>1, <1>4, <1>10
    <2>2. \A i \in 1 .. m : i - 1 \in U => i \in U
      BY <1>2, <1>5, <1>10
    <2> HIDE DEF U
    <2>3. \A i \in 0 .. m : i \in U
      BY <1>1, <2>1, <2>2, UpTo
    <2>4. Holds(m, after[m])
      BY <1>1, <2>3 DEF U
    <2> QED BY <1>9, <2>4
  <1> USE DEF Holds
  <1> QED
    BY <1>11

-----------------------------------------------------------------------------
(* The graph of a profile *)

\* Different edges have different ranks, which are their places.
LEMMA EdgesInOrderAre ==
  ASSUME NEW S, S \subseteq Nat \X Nat, IsFiniteSet(S)
  PROVE  /\ Cardinality(S) \in Nat
         /\ DOMAIN EdgesInOrder(S) = 1 .. Cardinality(S)
         /\ \A i \in 1 .. Cardinality(S) : EdgesInOrder(S)[i] \in S
         /\ \A i, j \in 1 .. Cardinality(S) :
               EdgesInOrder(S)[i] = EdgesInOrder(S)[j] => i = j
  <1> DEFINE before(e) == {f \in S : f[1] < e[1] \/ (f[1] = e[1] /\ f[2] < e[2])}
             N == Cardinality(S)
             rank == [e \in S |-> Cardinality(before(e))]
  <1>1. N \in Nat
    BY FS_CardinalityType
  <1>2. \A e \in S : e[1] \in Nat /\ e[2] \in Nat /\ e = <<e[1], e[2]>>
    OBVIOUS
  <1>3. ASSUME NEW e \in S
        PROVE  IsFiniteSet(before(e)) /\ Cardinality(before(e)) \in 0 .. (N - 1)
    <2>1. before(e) \in SUBSET S /\ e \notin before(e)
      BY <1>2
    <2> HIDE DEF before
    <2>2. /\ IsFiniteSet(before(e)) /\ Cardinality(before(e)) <= N
          /\ (N = Cardinality(before(e)) => S = before(e))
      BY <2>1, FS_Subset
    <2>3. Cardinality(before(e)) \in Nat
      BY <2>2, FS_CardinalityType
    <2>4. N # Cardinality(before(e))
      BY <2>1, <2>2
    <2> QED BY <1>1, <2>2, <2>3, <2>4
  <1>4. ASSUME NEW d \in S, NEW e \in S, d[1] < e[1] \/ (d[1] = e[1] /\ d[2] < e[2])
        PROVE  Cardinality(before(d)) # Cardinality(before(e))
    <2>1. before(d) \in SUBSET before(e) /\ d \in before(e) /\ d \notin before(d)
      BY <1>2, <1>4
    <2>2. IsFiniteSet(before(e))
      BY <1>3
    <2> HIDE DEF before
    <2> QED BY <2>1, <2>2, FS_Subset
  <1> HIDE DEF before
  <1>5. rank \in Injection(S, 0 .. (N - 1))
    <2>1. rank \in [S -> 0 .. (N - 1)]
      BY <1>3
    <2>2. ASSUME NEW d \in S, NEW e \in S, rank[d] = rank[e] PROVE d = e
      <3>1. ~ (d[1] < e[1] \/ (d[1] = e[1] /\ d[2] < e[2]))
        BY <1>4, <2>2
      <3>2. ~ (e[1] < d[1] \/ (e[1] = d[1] /\ e[2] < d[2]))
        BY <1>4, <2>2
      <3>3. d[1] = e[1] /\ d[2] = e[2]
        BY <1>2, <3>1, <3>2
      <3> QED BY <1>2, <3>3
    <2> HIDE DEF rank
    <2>3. IsInjective(rank)
      BY <2>1, <2>2 DEF IsInjective
    <2>4. PICK f, T : f = rank /\ T = 0 .. (N - 1)
      OBVIOUS
    <2>5. f \in [S -> T] /\ IsInjective(f)
      BY <2>1, <2>3, <2>4
    <2>6. f \in Injection(S, T)
      BY <2>5, Zenon DEF Injection
    <2> QED BY <2>4, <2>6
  <1>6. IsFiniteSet(0 .. (N - 1)) /\ Cardinality(0 .. (N - 1)) = N
    <2>1. PICK b \in Int : b = N - 1 /\ 0 \in Int
      BY <1>1
    <2>2. IsFiniteSet(0 .. b) /\ Cardinality(0 .. b) = IF 0 > b THEN 0 ELSE b - 0 + 1
      BY <2>1, FS_Interval, Zenon
    <2> QED BY <1>1, <2>1, <2>2
  <1>7. rank \in Surjection(S, 0 .. (N - 1))
    <2> HIDE DEF rank
    <2> QED BY <1>5, <1>6, FS_Injection
  <1>8. \A n \in 0 .. (N - 1) : \E e \in S : Cardinality(before(e)) = n
    BY <1>7 DEF Surjection
  <1>9. EdgesInOrder(S) = [i \in 1 .. N |-> CHOOSE e \in S : Cardinality(before(e)) = i - 1]
    BY DEF EdgesInOrder, before
  <1> HIDE DEF N
  <1>10. ASSUME NEW i \in 1 .. N
         PROVE  EdgesInOrder(S)[i] \in S /\ Cardinality(before(EdgesInOrder(S)[i])) = i - 1
    <2>1. i - 1 \in 0 .. (N - 1)
      BY <1>1
    <2>2. \E e \in S : Cardinality(before(e)) = i - 1
      BY <1>8, <2>1
    <2>3. EdgesInOrder(S)[i] = CHOOSE e \in S : Cardinality(before(e)) = i - 1
      BY <1>9
    <2> QED BY <2>2, <2>3
  <1>11. ASSUME NEW i \in 1 .. N, NEW j \in 1 .. N, EdgesInOrder(S)[i] = EdgesInOrder(S)[j]
         PROVE  i = j
    <2>1. i - 1 = j - 1
      BY <1>10, <1>11
    <2> QED BY <2>1
  <1> QED
    BY <1>1, <1>9, <1>10, <1>11 DEF N

\* The profile that is read has its blocks and its frequencies.
LEMMA ProfileIs ==
  ASSUME NEW w \in Walks
  PROVE  IsProfile(ProfileOf(w))
  <1> DEFINE n == Len(w)
             taken(i) == <<w[i], w[i + 1]>>
             S == {taken(i) : i \in 1 .. n - 1}
             times(e) == {i \in 1 .. n - 1 : taken(i) = e}
  <1>1. w \in Seq(Nat \ {0}) /\ n \in Nat /\ n > 1 /\ DOMAIN w = 1 .. n
    BY WalksAssumption
  <1>2. /\ ProfileOf(w).blocks = Range(w)
        /\ ProfileOf(w).freq = [e \in S |-> Cardinality(times(e))]
    BY DEF ProfileOf
  <1> HIDE DEF n
  <1>3. Range(w) = {w[i] : i \in 1 .. n} /\ \A i \in 1 .. n : w[i] \in Nat \ {0}
    BY <1>1 DEF Range, n
  <1>4. IsFiniteSet(1 .. n) /\ IsFiniteSet(1 .. n - 1)
    <2>1. PICK b \in Int : b = n - 1 /\ 1 \in Int /\ n \in Int
      BY <1>1
    <2>2. IsFiniteSet(1 .. b) /\ IsFiniteSet(1 .. n)
      BY <2>1, FS_Interval, Zenon
    <2> QED BY <2>1, <2>2
  <1>5. IsFiniteSet(Range(w))
    <2>1. PICK f : f = [i \in 1 .. n |-> w[i]]
      OBVIOUS
    <2>2. f \in Surjection(1 .. n, Range(w))
      BY <1>3, <2>1 DEF Surjection
    <2> QED BY <1>4, <2>2, FS_Surjection
  <1>6. S \subseteq Range(w) \X Range(w)
    <2>1. \A i \in 1 .. n - 1 : i \in 1 .. n /\ i + 1 \in 1 .. n
      BY <1>1
    <2> QED BY <1>3, <2>1
  <1>7. IsFiniteSet(S)
    <2>1. IsFiniteSet(Range(w) \X Range(w))
      BY <1>5, FS_Product
    <2> QED BY <1>6, <2>1, FS_Subset
  <1>8. ASSUME NEW e \in S PROVE Cardinality(times(e)) \in Nat
    <2>1. times(e) \in SUBSET (1 .. n - 1)
      OBVIOUS
    <2> HIDE DEF times
    <2> QED BY <1>4, <2>1, FS_Subset, FS_CardinalityType
  <1>9. Range(w) # {} /\ Range(w) \subseteq Nat \ {0}
    BY <1>1, <1>3
  <1> HIDE DEF S, times
  <1> QED
    BY <1>2, <1>5, <1>6, <1>7, <1>8, <1>9 DEF IsProfile

\* A finite set of numbers has a largest one.
LEMMA MaxIs ==
  ASSUME NEW S, S \subseteq Nat, S # {}, IsFiniteSet(S)
  PROVE  Max(S) \in S /\ \A x \in S : x <= Max(S)
  <1>1. PICK n : n = Cardinality(S)
    OBVIOUS
  <1>2. n \in Nat /\ ExistsBijection(1 .. n, S)
    BY <1>1, FS_CardinalityType
  <1>3. PICK f \in [1 .. n -> S] : \A x \in S : \E i \in 1 .. n : f[i] = x
    BY <1>2 DEF ExistsBijection, Bijection, Surjection
  <1> DEFINE T == {k \in 0 .. n : \E u \in Nat : \A i \in 1 .. k : f[i] <= u}
  <1>4. 0 \in T
    BY <1>2
  <1>5. ASSUME NEW k \in 1 .. n, k - 1 \in T PROVE k \in T
    <2>1. PICK u \in Nat : \A i \in 1 .. k - 1 : f[i] <= u
      BY <1>5
    <2>2. PICK m \in Nat : m = f[k]
      BY <1>3
    <2>3. PICK b \in Nat : u <= b /\ m <= b
      <3>1. u <= u + m /\ m <= u + m /\ u + m \in Nat
        OBVIOUS
      <3> QED BY <3>1
    <2>4. ASSUME NEW i \in 1 .. k PROVE f[i] <= b
      <3>1. CASE i = k
        BY <2>2, <2>3, <3>1
      <3>2. CASE i # k
        <4>1. i \in 1 .. k - 1 /\ i \in 1 .. n
          BY <1>2, <3>2
        <4>2. f[i] \in Nat
          BY <4>1
        <4> QED BY <2>1, <2>3, <4>1, <4>2
      <3> QED BY <3>1, <3>2
    <2> QED BY <1>2, <2>4
  <1> HIDE DEF T
  <1>6. n \in T
    <2>1. \A k \in 1 .. n : k - 1 \in T => k \in T
      BY <1>5
    <2>2. \A k \in 0 .. n : k \in T
      BY <1>2, <1>4, <2>1, UpTo
    <2> QED BY <1>2, <2>2
  <1> DEFINE U == {u \in Nat : \A x \in S : x <= u}
  <1>7. U # {} /\ U \subseteq Nat
    BY <1>3, <1>6 DEF T
  <1>8. PICK u \in U : \A b \in U : u <= b
    BY <1>7, LeastNat
  <1>9. u \in Nat /\ \A x \in S : x \in Nat /\ x <= u
    BY <1>8
  <1>10. u \in S
    <2>1. SUFFICES ASSUME u \notin S PROVE FALSE
      OBVIOUS
    <2>2. \A x \in S : x < u
      BY <1>9, <2>1
    <2>3. PICK y \in S : y < u
      BY <2>2
    <2>4. PICK b : b = u - 1
      OBVIOUS
    <2>5. b \in Nat /\ \A x \in S : x <= b
      BY <1>9, <2>2, <2>3, <2>4
    <2>6. u <= b
      BY <1>8, <2>5
    <2> QED BY <1>9, <2>4, <2>6
  <1>11. \E x \in S : \A y \in S : x >= y
    BY <1>9, <1>10
  <1>12. Max(S) \in S /\ \A y \in S : Max(S) >= y
    BY <1>11 DEF Max
  <1> QED
    BY <1>12

\* GraphOf: a node for each block and an edge for each taken edge.
LEMMA GraphOfIs ==
  ASSUME NEW p, IsProfile(p), NEW g, g = GraphOf(p)
  PROVE  Whole(g, p) /\ \A n \in NodesMade(g) : ~ IsVirtual(g, n)
  <1>1. PICK S : S = DOMAIN p.freq
    OBVIOUS
  <1>2. PICK es : es = EdgesInOrder(S)
    OBVIOUS
  <1>3. PICK c, n : c = Cardinality(S) /\ n = Max(p.blocks)
    OBVIOUS
  <1>4. p.blocks \subseteq Nat /\ n \in Nat /\ p.blocks \subseteq 1 .. n
    BY <1>3, MaxIs DEF IsProfile
  <1>5. S \subseteq Nat \X Nat /\ IsFiniteSet(S)
    BY <1>1, <1>4 DEF IsProfile
  <1>6. /\ c \in Nat /\ DOMAIN es = 1 .. c
        /\ \A i \in 1 .. c : es[i] \in S
        /\ \A i, j \in 1 .. c : es[i] = es[j] => i = j
    BY <1>2, <1>3, <1>5, EdgesInOrderAre
  <1>7. \A i \in 1 .. c : /\ es[i][1] \in p.blocks /\ es[i][2] \in p.blocks
                          /\ es[i] = <<es[i][1], es[i][2]>>
                          /\ p.freq[es[i]] \in Nat
    BY <1>1, <1>6 DEF IsProfile
  <1> DEFINE total(i) == Taken(p, {e \in DOMAIN p.freq : e[1] = es[i][1]})
  <1>8. \A i \in 1 .. c : total(i) \in Nat
    <2> SUFFICES ASSUME NEW i \in 1 .. c PROVE total(i) \in Nat
      OBVIOUS
    <2>1. PICK E : E = {e \in DOMAIN p.freq : e[1] = es[i][1]}
      OBVIOUS
    <2>2. E \in SUBSET S /\ \A e \in E : p.freq[e] \in Nat
      BY <1>1, <2>1 DEF IsProfile
    <2>3. IsFiniteSet(E)
      BY <1>5, <2>2, FS_Subset
    <2>4. IsFiniteSet(Ticks(E, p.freq))
      BY <2>2, <2>3, TicksFinite
    <2>5. Taken(p, E) = Cardinality(Ticks(E, p.freq))
      BY DEF Taken, Times, Ticks
    <2> QED BY <2>1, <2>4, <2>5, FS_CardinalityType
  <1> HIDE DEF total
  <1>9. /\ g.nodes = p.blocks
        /\ g.edges = 1 .. c
        /\ g.pred = [b \in 1 .. n |-> {i \in 1 .. c : es[i][2] = b}]
        /\ g.succ = [b \in 1 .. n |-> {i \in 1 .. c : es[i][1] = b}]
        /\ g.end = [i \in 1 .. c |-> [src |-> es[i][1], snk |-> es[i][2], freq |-> p.freq[es[i]],
                                      total |-> total(i), under |-> {}]]
        /\ g.inner = [b \in 1 .. n |-> NoSubgraph]
        /\ g.blocks = [b \in 1 .. n |-> {b}]
        /\ g = [nodes |-> g.nodes, edges |-> g.edges, pred |-> g.pred, succ |-> g.succ,
                end |-> g.end, inner |-> g.inner, blocks |-> g.blocks]
    BY <1>1, <1>2, <1>3, <1>6 DEF GraphOf, total
  <1>10. /\ g.end \in Seq(EndRecords) /\ Len(g.end) = c
         /\ \A i \in 1 .. c : Src(g, i) = es[i][1] /\ Snk(g, i) = es[i][2]
    <2>1. \A i \in 1 .. c : g.end[i] \in EndRecords
      BY <1>4, <1>7, <1>8, <1>9 DEF EndRecords
    <2>2. g.end = [i \in 1 .. c |-> g.end[i]]
      BY <1>9
    <2>3. g.end \in Seq(EndRecords) /\ Len(g.end) = c
      BY <1>6, <2>1, <2>2, FunctionIsSeq
    <2>4. ASSUME NEW i \in 1 .. c PROVE Src(g, i) = es[i][1] /\ Snk(g, i) = es[i][2]
      <3>1. PICK s, t : s = es[i][1] /\ t = es[i][2]
        OBVIOUS
      <3>2. PICK x : x = g.end[i]
        OBVIOUS
      <3>3. x.src = s /\ x.snk = t
        BY <1>9, <3>1, <3>2
      <3> QED BY <3>1, <3>2, <3>3 DEF Src, Snk
    <2> QED BY <2>3, <2>4
  <1>11. /\ g.pred \in Seq(SUBSET Nat) /\ Len(g.pred) = n
         /\ g.succ \in Seq(SUBSET Nat) /\ Len(g.succ) = n
         /\ g.blocks \in Seq(SUBSET Nat) /\ Len(g.blocks) = n
    <2>1. \A b \in 1 .. n : /\ g.pred[b] \in SUBSET Nat /\ g.succ[b] \in SUBSET Nat
                            /\ g.blocks[b] \in SUBSET Nat
      BY <1>6, <1>9
    <2>2. /\ g.pred = [b \in 1 .. n |-> g.pred[b]] /\ g.succ = [b \in 1 .. n |-> g.succ[b]]
          /\ g.blocks = [b \in 1 .. n |-> g.blocks[b]]
      BY <1>9
    <2> QED BY <1>4, <2>1, <2>2, FunctionIsSeq
  <1>12. g.inner \in Seq(Subgraphs) /\ Len(g.inner) = n
    <2>1. NoSubgraph \in Subgraphs
      BY DEF NoSubgraph, Subgraphs
    <2>2. g.inner = [b \in 1 .. n |-> g.inner[b]] /\ \A b \in 1 .. n : g.inner[b] \in Subgraphs
      BY <1>9, <2>1
    <2> QED BY <1>4, <2>2, FunctionIsSeq
  <1>13. g \in GraphSet
    <2>1. g.nodes \subseteq Nat /\ g.edges \subseteq Nat
      BY <1>4, <1>6, <1>9
    <2>2. PICK N, E, a, b, d, i, j :
              /\ N = g.nodes /\ E = g.edges /\ a = g.pred /\ b = g.succ
              /\ d = g.end /\ i = g.inner /\ j = g.blocks
      OBVIOUS
    <2>3. g = [nodes |-> N, edges |-> E, pred |-> a, succ |-> b, end |-> d, inner |-> i,
               blocks |-> j]
      BY <1>9, <2>2, Zenon
    <2>4. /\ N \in SUBSET Nat /\ E \in SUBSET Nat
          /\ a \in Seq(SUBSET Nat) /\ b \in Seq(SUBSET Nat) /\ d \in Seq(EndRecords)
          /\ i \in Seq(Subgraphs) /\ j \in Seq(SUBSET Nat)
      BY <1>10, <1>11, <1>12, <2>1, <2>2
    <2> QED BY <2>3, <2>4 DEF GraphSet
  <1>14. Shape(g)
    <2>1. NodesMade(g) = 1 .. n /\ EdgesMade(g) = 1 .. c
      BY <1>10, <1>12 DEF NodesMade, EdgesMade
    <2> QED BY <1>4, <1>9, <1>11, <1>12, <1>13, <2>1 DEF Shape
  <1>15. Agree(g)
    <2>1. \A e \in g.edges : Src(g, e) \in g.nodes /\ Snk(g, e) \in g.nodes
      BY <1>7, <1>9, <1>10
    <2>2. ASSUME NEW m \in g.nodes
          PROVE  /\ g.succ[m] = {e \in g.edges : Src(g, e) = m}
                 /\ g.pred[m] = {e \in g.edges : Snk(g, e) = m}
      BY <1>4, <1>9, <1>10
    <2>3. ASSUME NEW e \in g.edges, NEW f \in g.edges, SameEnds(g, e, f) PROVE e = f
      <3>1. e \in 1 .. c /\ f \in 1 .. c
        BY <1>9
      <3>2. es[e][1] = es[f][1] /\ es[e][2] = es[f][2]
        BY <1>10, <2>3, <3>1 DEF SameEnds
      <3>3. es[e] = es[f]
        BY <1>7, <3>1, <3>2
      <3> QED BY <1>6, <3>1, <3>3
    <2> QED BY <2>1, <2>2, <2>3 DEF Agree
  <1>16. Layered(g)
    <2>1. \A b \in 1 .. n : g.inner[b].nodes = {}
      BY <1>9 DEF NoSubgraph
    <2> QED BY <1>12, <2>1 DEF Layered, NodesMade
  <1>17. \A m \in g.nodes : Leaves(g, m) = {m}
    <2>1. \A m \in 1 .. n : ~ IsVirtual(g, m)
      BY <1>9 DEF IsVirtual, NoSubgraph
    <2>2. NodesMade(g) = 1 .. n
      BY <1>12 DEF NodesMade
    <2> QED BY <1>4, <1>9, <1>14, <1>16, <2>1, <2>2, LeavesAre
  <1>18. Parted(g, p.blocks)
    BY <1>9, <1>17 DEF Parted
  <1>21. \A b \in NodesMade(g) : ~ IsVirtual(g, b)
    <2>1. \A b \in 1 .. n : g.inner[b].nodes = {}
      BY <1>9 DEF NoSubgraph
    <2> QED BY <1>12, <2>1 DEF IsVirtual, NodesMade
  <1>20. Piled(g)
    <2>1. NodesMade(g) = 1 .. n
      BY <1>12 DEF NodesMade
    <2>2. \A b \in 1 .. n : g.inner[b].nodes = {} /\ ~ IsVirtual(g, b) /\ g.blocks[b] = {b}
      BY <1>9 DEF NoSubgraph, IsVirtual
    <2>3. \A b \in 1 .. n : Leaves(g, b) = {b}
      BY <1>16, <2>1, <2>2, LeavesAre
    <2>4. Stacked(g)
      BY <2>1, <2>2 DEF Stacked
    <2>5. OnTop(g)
      BY <1>4, <1>9, <2>1, <2>3 DEF OnTop, Unshared
    <2>6. Filed(g)
      BY <2>1, <2>2, <2>3 DEF Filed
    <2> QED BY <2>4, <2>5, <2>6 DEF Piled
  <1>19. ASSUME NEW i \in g.edges
         PROVE  Freq(g, i) <= Crossed(p, Leaves(g, Src(g, i)), Leaves(g, Snk(g, i)))
    <2>1. i \in 1 .. c
      BY <1>9
    <2>2. PICK a, b, k : a = es[i][1] /\ b = es[i][2] /\ k = p.freq[es[i]]
      OBVIOUS
    <2>3. k \in Nat /\ a \in g.nodes /\ b \in g.nodes /\ <<a, b>> \in DOMAIN p.freq /\ p.freq[<<a, b>>] = k
      BY <1>1, <1>6, <1>7, <1>9, <2>1, <2>2
    <2>4. Freq(g, i) = k
      <3>1. PICK x : x = g.end[i]
        OBVIOUS
      <3>2. x.freq = k
        BY <1>9, <2>1, <2>2, <3>1
      <3> QED BY <3>1, <3>2 DEF Freq
    <2>5. Leaves(g, Src(g, i)) = {a} /\ Leaves(g, Snk(g, i)) = {b}
      BY <1>10, <1>17, <2>1, <2>2, <2>3
    <2>6. PICK X : X = Ticks(Steps(p, {a}, {b}), p.freq)
      OBVIOUS
    <2>7. IsFiniteSet(X) /\ Crossed(p, {a}, {b}) = Cardinality(X)
      BY <2>6, CrossedIs
    <2>8. <<a, b>> \in Steps(p, {a}, {b})
      BY <2>3 DEF Steps
    <2>9. PICK z, f : z = <<a, b>> /\ f = [m \in 1 .. k |-> <<z, m>>]
      OBVIOUS
    <2>10. f \in Injection(1 .. k, X)
      <3>1. z \in Steps(p, {a}, {b}) /\ p.freq[z] = k
        BY <2>3, <2>8, <2>9
      <3>2. \A m \in 1 .. k : <<z, m>> \in X
        BY <2>6, <3>1 DEF Ticks
      <3>3. f \in [1 .. k -> X]
        BY <2>9, <3>2
      <3>4. \A m, j \in 1 .. k : f[m] = f[j] => m = j
        BY <2>9
      <3> QED BY <3>3, <3>4 DEF Injection, IsInjective
    <2>11. IsFiniteSet(1 .. k) /\ Cardinality(1 .. k) = k
      <3>1. k \in Int /\ 1 \in Int
        BY <2>3
      <3> QED BY <2>3, <3>1, FS_Interval
    <2>12. k <= Cardinality(X)
      BY <2>7, <2>10, <2>11, FS_Injection
    <2> QED BY <2>4, <2>5, <2>7, <2>12
  <1> QED
    BY <1>14, <1>15, <1>16, <1>18, <1>19, <1>20, <1>21 DEF Whole, Sound, Bounded

-----------------------------------------------------------------------------
(* Kernels that are revoked *)

\* A graph in which nodes and edges have numbers: what revoking kernels leaves is not
\* more than this.
Numbered(g) ==
  /\ {"nodes", "inner", "end", "blocks"} \subseteq DOMAIN g
  /\ Len(g.inner) \in Nat /\ Len(g.end) \in Nat

\* h is such a graph, and has the nodes and edges that were made in g, with their
\* blocks; those that are in the graph are a set of F.
SameNodes(g, F, h) ==
  /\ Numbered(h) /\ h.inner = g.inner /\ h.end = g.end /\ h.blocks = g.blocks
  /\ h.nodes \in F

\* A whole graph is one.
LEMMA WholeNumbered ==
  ASSUME NEW g, NEW p, Whole(g, p)
  PROVE  Numbered(g)
  <1>1. Shape(g)
    BY DEF Whole, Sound
  <1>2. {"nodes", "inner", "end", "blocks"} \subseteq DOMAIN g
    BY <1>1 DEF Shape, GraphSet
  <1> QED
    BY <1>1, <1>2, Fields DEF Numbered

\* The steps of the three loops that revoke kernels: over the entrances of one, over
\* its exits, and over the kernels.
Restored(loop, g, h, i) ==
  IF loop = "entrance" THEN RestoreEntrance(h, i, CHOOSE f \in g.end[i].under : TRUE)
  ELSE IF loop = "exit" THEN RestoreExit(h, i, CHOOSE f \in g.end[i].under : TRUE)
  ELSE IF InGraph(h, i) THEN ReverseCycle(h, i) ELSE h

\* a is the sequence of graphs that restoring the members of S in turn gives.
IsRestored(loop, g, h, S, last, a) ==
  a = [i \in 0 .. last |-> IF i = 0 THEN h
                           ELSE IF i \in S THEN Restored(loop, g, a[i - 1], i)
                           ELSE a[i - 1]]

\* Such a loop can be made, and keeps the nodes and edges there are if its steps do.
LEMMA RestoredKeep ==
  ASSUME NEW loop, NEW g, NEW F, NEW h, SameNodes(g, F, h), NEW S, NEW last \in Nat,
         \A x : \A k \in S : SameNodes(g, F, x) => SameNodes(g, F, Restored(loop, g, x, k))
  PROVE  /\ \E a : IsRestored(loop, g, h, S, last, a)
         /\ \A a : IsRestored(loop, g, h, S, last, a) => SameNodes(g, F, a[last])
  <1> DEFINE T == {k \in 0 .. last : \E a : IsRestored(loop, g, h, S, k, a)}
             op(x, i) == IF i \in S THEN Restored(loop, g, x, i) ELSE x
             G(k, a) == a = [i \in 0 .. k |-> IF i = 0 THEN h ELSE op(a[i - 1], i)]
  <1>1. \A k, a : G(k, a) <=> IsRestored(loop, g, h, S, k, a)
    BY DEF IsRestored
  <1>2. \A x, k : SameNodes(g, F, x) => SameNodes(g, F, op(x, k))
    OBVIOUS
  <1> HIDE DEF op
  <1>3. 0 \in T
    <2>1. PICK a : a = [i \in 0 .. 0 |-> h]
      OBVIOUS
    <2>2. G(0, a)
      BY <2>1
    <2> HIDE DEF G
    <2> QED BY <1>1, <2>2
  <1>4. ASSUME NEW k \in 1 .. last, k - 1 \in T PROVE k \in T
    <2>1. PICK a : G(k - 1, a)
      BY <1>1, <1>4
    <2>2. PICK b : b = [i \in 0 .. k |-> IF i = k THEN op(a[k - 1], k) ELSE a[i]]
      OBVIOUS
    <2>3. ASSUME NEW i \in 0 .. k PROVE b[i] = IF i = 0 THEN h ELSE op(b[i - 1], i)
      <3>1. CASE i = k
        BY <2>2, <3>1
      <3>2. CASE i # k
        <4>1. i \in 0 .. (k - 1) /\ b[i] = a[i] /\ (i # 0 => i - 1 \in 0 .. k /\ i - 1 # k)
          BY <2>2, <3>2
        <4>2. a[i] = IF i = 0 THEN h ELSE op(a[i - 1], i)
          BY <2>1, <4>1
        <4> QED BY <2>2, <4>1, <4>2
      <3> QED BY <3>1, <3>2
    <2>4. G(k, b)
      <3>1. b = [i \in 0 .. k |-> b[i]]
        BY <2>2
      <3> QED BY <2>3, <3>1
    <2>5. k \in 0 .. last
      OBVIOUS
    <2> HIDE DEF G
    <2> QED BY <1>1, <2>4, <2>5
  <1>5. last \in T
    <2> HIDE DEF T
    <2> QED BY <1>3, <1>4, UpTo
  <1>6. ASSUME NEW a, G(last, a) PROVE SameNodes(g, F, a[last])
    <2>1. a[0] = h /\ \A i \in 1 .. last : a[i] = op(a[i - 1], i)
      <3>1. a = [i \in 0 .. last |-> IF i = 0 THEN h ELSE op(a[i - 1], i)]
        BY <1>6
      <3> HIDE DEF G
      <3>2. 0 \in 0 .. last /\ \A i \in 1 .. last : i \in 0 .. last /\ i # 0
        OBVIOUS
      <3> QED BY <3>1, <3>2
    <2> DEFINE U == {i \in 0 .. last : SameNodes(g, F, a[i])}
    <2>2. 0 \in U
      BY <2>1
    <2>3. \A i \in 1 .. last : i - 1 \in U => i \in U
      BY <1>2, <2>1
    <2> HIDE DEF U
    <2>4. last \in U
      BY <2>2, <2>3, UpTo
    <2> QED BY <2>4 DEF U
  <1> HIDE DEF G
  <1>7. \A a : IsRestored(loop, g, h, S, last, a) => SameNodes(g, F, a[last])
    BY <1>1, <1>6
  <1> QED
    BY <1>5, <1>7

\* Restoring one edge makes no node and no edge.
LEMMA RestoringKeeps ==
  ASSUME NEW g, NEW F, NEW x, SameNodes(g, F, x), NEW e, NEW old
  PROVE  /\ SameNodes(g, F, RestoreEntrance(x, e, old))
         /\ SameNodes(g, F, RestoreExit(x, e, old))
  <1>1. /\ {"nodes", "inner", "end", "blocks"} \subseteq DOMAIN x
        /\ x.inner = g.inner /\ x.end = g.end /\ x.blocks = g.blocks /\ x.nodes \in F
        /\ Len(g.inner) \in Nat /\ Len(g.end) \in Nat
    BY DEF SameNodes, Numbered
  <1>2. ASSUME NEW E, NEW D PROVE SameNodes(g, F, [x EXCEPT !.edges = E, !.succ = D])
    BY <1>1 DEF SameNodes, Numbered
  <1>3. ASSUME NEW E, NEW D PROVE SameNodes(g, F, [x EXCEPT !.edges = E, !.pred = D])
    BY <1>1 DEF SameNodes, Numbered
  <1>4. \E E, D : RestoreEntrance(x, e, old) = [x EXCEPT !.edges = E, !.succ = D]
    BY DEF RestoreEntrance
  <1>5. \E E, D : RestoreExit(x, e, old) = [x EXCEPT !.edges = E, !.pred = D]
    <2>1. PICK E : E = Erase(x, InsertAll(x, x.edges, x.end[e].under), {e})
      OBVIOUS
    <2>2. PICK D : D = [x.pred EXCEPT ![Snk(x, e)] = Insert(x, Erase(x, @, {e}), old)]
      OBVIOUS
    <2>3. RestoreExit(x, e, old) = [x EXCEPT !.edges = E, !.pred = D]
      BY <2>1, <2>2 DEF RestoreExit
    <2> QED BY <2>3
  <1>6. SameNodes(g, F, RestoreEntrance(x, e, old))
    <2>1. PICK E, D : RestoreEntrance(x, e, old) = [x EXCEPT !.edges = E, !.succ = D]
      BY <1>4
    <2>2. SameNodes(g, F, [x EXCEPT !.edges = E, !.succ = D])
      BY <1>2
    <2> QED BY <2>1, <2>2
  <1>7. SameNodes(g, F, RestoreExit(x, e, old))
    <2>1. PICK E, D : RestoreExit(x, e, old) = [x EXCEPT !.edges = E, !.pred = D]
      BY <1>5
    <2>2. SameNodes(g, F, [x EXCEPT !.edges = E, !.pred = D])
      BY <1>3
    <2> QED BY <2>1, <2>2
  <1> QED
    BY <1>6, <1>7

\* The graph with the entrances S restored.
ByEntrances(g, h, S, n) ==
  Each(LAMBDA x, e : RestoreEntrance(x, e, CHOOSE f \in g.end[e].under : TRUE), h, S, n)

\* Restoring the entrances of a kernel makes no node and no edge.
LEMMA EntrancesKeep ==
  ASSUME NEW g, NEW F, NEW h, SameNodes(g, F, h), NEW S, NEW n \in Nat
  PROVE  SameNodes(g, F, ByEntrances(g, h, S, n))
  <1> DEFINE Made(x) == x = [i \in 0 .. n |->
                 IF i = 0 THEN h
                 ELSE IF i \in S
                      THEN RestoreEntrance(x[i - 1], i, CHOOSE f \in g.end[i].under : TRUE)
                      ELSE x[i - 1]]
  <1>1. PICK a : a = CHOOSE x : Made(x)
    OBVIOUS
  <1>2. ByEntrances(g, h, S, n) = a[n]
    BY <1>1 DEF ByEntrances, Each
  <1>3. \A y, i : Restored("entrance", g, y, i)
                  = RestoreEntrance(y, i, CHOOSE f \in g.end[i].under : TRUE)
    BY DEF Restored
  <1>4. \A x, i : SameNodes(g, F, x) => SameNodes(g, F, Restored("entrance", g, x, i))
    BY <1>3, RestoringKeeps
  <1>5. ASSUME NEW x PROVE Made(x) <=> IsRestored("entrance", g, h, S, n, x)
    <2>1. PICK y : y = [i \in 0 .. n |-> IF i = 0 THEN h
                                         ELSE IF i \in S THEN Restored("entrance", g, x[i - 1], i)
                                         ELSE x[i - 1]]
      OBVIOUS
    <2>2. y = [i \in 0 .. n |->
                 IF i = 0 THEN h
                 ELSE IF i \in S
                      THEN RestoreEntrance(x[i - 1], i, CHOOSE f \in g.end[i].under : TRUE)
                      ELSE x[i - 1]]
      BY <1>3, <2>1
    <2>3. Made(x) <=> x = y
      BY <2>2
    <2> QED BY <2>1, <2>3 DEF IsRestored
  <1> HIDE DEF Made
  <1>6. \E x : Made(x)
    BY <1>4, <1>5, RestoredKeep
  <1>7. IsRestored("entrance", g, h, S, n, a)
    BY <1>1, <1>5, <1>6
  <1> QED
    BY <1>2, <1>4, <1>7, RestoredKeep

\* The graph with the exits S restored.
ByExits(g, h, S, n) ==
  Each(LAMBDA x, e : RestoreExit(x, e, CHOOSE f \in g.end[e].under : TRUE), h, S, n)

\* Restoring its exits makes none either.
LEMMA ExitsKeep ==
  ASSUME NEW g, NEW F, NEW h, SameNodes(g, F, h), NEW S, NEW n \in Nat
  PROVE  SameNodes(g, F, ByExits(g, h, S, n))
  <1> DEFINE Made(x) == x = [i \in 0 .. n |->
                 IF i = 0 THEN h
                 ELSE IF i \in S
                      THEN RestoreExit(x[i - 1], i, CHOOSE f \in g.end[i].under : TRUE)
                      ELSE x[i - 1]]
  <1>1. PICK a : a = CHOOSE x : Made(x)
    OBVIOUS
  <1>2. ByExits(g, h, S, n) = a[n]
    BY <1>1 DEF ByExits, Each
  <1>3. \A y, i : Restored("exit", g, y, i)
                  = RestoreExit(y, i, CHOOSE f \in g.end[i].under : TRUE)
    BY DEF Restored
  <1>4. \A x, i : SameNodes(g, F, x) => SameNodes(g, F, Restored("exit", g, x, i))
    BY <1>3, RestoringKeeps
  <1>5. ASSUME NEW x PROVE Made(x) <=> IsRestored("exit", g, h, S, n, x)
    <2>1. PICK y : y = [i \in 0 .. n |-> IF i = 0 THEN h
                                         ELSE IF i \in S THEN Restored("exit", g, x[i - 1], i)
                                         ELSE x[i - 1]]
      OBVIOUS
    <2>2. y = [i \in 0 .. n |->
                 IF i = 0 THEN h
                 ELSE IF i \in S
                      THEN RestoreExit(x[i - 1], i, CHOOSE f \in g.end[i].under : TRUE)
                      ELSE x[i - 1]]
      BY <1>3, <2>1
    <2>3. Made(x) <=> x = y
      BY <2>2
    <2> QED BY <2>1, <2>3 DEF IsRestored
  <1> HIDE DEF Made
  <1>6. \E x : Made(x)
    BY <1>4, <1>5, RestoredKeep
  <1>7. IsRestored("exit", g, h, S, n, a)
    BY <1>1, <1>5, <1>6
  <1> QED
    BY <1>2, <1>4, <1>7, RestoredKeep

\* Revoking one kernel puts what is inside of it in its place; it makes no node and no
\* edge, and changes none.
LEMMA ReverseCycleKeeps ==
  ASSUME NEW g, Numbered(g), NEW k
  PROVE  SameNodes(g, {(g.nodes \cup g.inner[k].nodes) \ {k}}, ReverseCycle(g, k))
  <1>1. ReverseCycle(g, k)
        = [ByExits(g,
                   ByEntrances(g, g, {e \in g.pred[k] : g.end[e].under # {}}, NewestEdge(g)),
                   {e \in g.succ[k] : g.end[e].under # {}}, NewestEdge(g))
              EXCEPT !.nodes = (@ \cup g.inner[k].nodes) \ {k},
                     !.edges = InsertAll(g, @, g.inner[k].edges)]
    BY DEF ReverseCycle, ByEntrances, ByExits, Each
  <1>2. PICK P, X, n : /\ P = {e \in g.pred[k] : g.end[e].under # {}}
                       /\ X = {e \in g.succ[k] : g.end[e].under # {}}
                       /\ n = NewestEdge(g)
    OBVIOUS
  <1>3. PICK h : h = ByExits(g, ByEntrances(g, g, P, n), X, n)
    OBVIOUS
  <1>4. ReverseCycle(g, k) = [h EXCEPT !.nodes = (@ \cup g.inner[k].nodes) \ {k},
                                       !.edges = InsertAll(g, @, g.inner[k].edges)]
    BY <1>1, <1>2, <1>3
  <1>5. PICK F : F = {g.nodes}
    OBVIOUS
  <1>6. n \in Nat /\ SameNodes(g, F, g)
    BY <1>2, <1>5 DEF Numbered, SameNodes, NewestEdge
  <1>7. SameNodes(g, F, h)
    BY <1>3, <1>6, EntrancesKeep, ExitsKeep
  <1>8. h.nodes = g.nodes
    BY <1>5, <1>7 DEF SameNodes
  <1> QED
    BY <1>4, <1>7, <1>8 DEF SameNodes, Numbered

\* The graph with the kernels S revoked.
ByKernels(g, S, n) ==
  Each(LAMBDA x, k : IF InGraph(x, k) THEN ReverseCycle(x, k) ELSE x, g, S, n)

\* Sets of nodes of which those of S can be replaced by what is inside of them.
Openable(g, S, F) == \A M \in F : \A k \in S : (M \cup g.inner[k].nodes) \ {k} \in F

\* Nor does revoking kernels.
LEMMA KernelsKeep ==
  ASSUME NEW g, Numbered(g), NEW S, NEW F, g.nodes \in F, Openable(g, S, F), NEW n \in Nat
  PROVE  SameNodes(g, F, ByKernels(g, S, n))
  <1> DEFINE Made(x) == x = [i \in 0 .. n |->
                 IF i = 0 THEN g
                 ELSE IF i \in S
                      THEN IF InGraph(x[i - 1], i) THEN ReverseCycle(x[i - 1], i) ELSE x[i - 1]
                      ELSE x[i - 1]]
  <1>1. PICK a : a = CHOOSE x : Made(x)
    OBVIOUS
  <1>2. ByKernels(g, S, n) = a[n]
    BY <1>1 DEF ByKernels, Each
  <1>3. \A y, i : Restored("kernel", g, y, i)
                  = IF InGraph(y, i) THEN ReverseCycle(y, i) ELSE y
    BY DEF Restored
  <1>4. ASSUME NEW x, NEW i \in S, SameNodes(g, F, x)
        PROVE  SameNodes(g, F, Restored("kernel", g, x, i))
    <2>1. PICK M : M = (x.nodes \cup x.inner[i].nodes) \ {i}
      OBVIOUS
    <2>2. SameNodes(x, {M}, ReverseCycle(x, i))
      BY <1>4, <2>1, ReverseCycleKeeps DEF SameNodes
    <2>3. M \in F
      BY <1>4, <2>1 DEF SameNodes, Openable
    <2>4. SameNodes(g, F, ReverseCycle(x, i))
      BY <1>4, <2>2, <2>3 DEF SameNodes
    <2> QED BY <1>3, <1>4, <2>4
  <1>5. ASSUME NEW x PROVE Made(x) <=> IsRestored("kernel", g, g, S, n, x)
    <2>1. PICK y : y = [i \in 0 .. n |-> IF i = 0 THEN g
                                         ELSE IF i \in S THEN Restored("kernel", g, x[i - 1], i)
                                         ELSE x[i - 1]]
      OBVIOUS
    <2>2. y = [i \in 0 .. n |->
                 IF i = 0 THEN g
                 ELSE IF i \in S
                      THEN IF InGraph(x[i - 1], i) THEN ReverseCycle(x[i - 1], i) ELSE x[i - 1]
                      ELSE x[i - 1]]
      BY <1>3, <2>1
    <2>3. Made(x) <=> x = y
      BY <2>2
    <2> QED BY <2>1, <2>3 DEF IsRestored
  <1>6. /\ SameNodes(g, F, g)
        /\ \A x : \A i \in S :
              SameNodes(g, F, x) => SameNodes(g, F, Restored("kernel", g, x, i))
    BY <1>4 DEF SameNodes
  <1> HIDE DEF Made
  <1>7. \E x : Made(x)
    BY <1>5, <1>6, RestoredKeep
  <1>8. IsRestored("kernel", g, g, S, n, a)
    BY <1>1, <1>5, <1>7
  <1> QED
    BY <1>2, <1>6, <1>8, RestoredKeep

\* The blocks under the nodes of M.
BlocksUnder(g, M) == UNION {Leaves(g, n) : n \in M}

\* What holds, to the end, of the nodes and the kernels that are left: all blocks are
\* under nodes of the graph; a kernel's are its own and those of its descendants, which
\* are all kernels; and a kernel has none of those under a node of the graph that was
\* made before it.
Recorded(g, s, B) ==
  /\ Layered(g) /\ Stacked(g) /\ Filed(g) /\ Gathered(g, s)
  /\ g.nodes \subseteq NodesMade(g) /\ BlocksUnder(g, g.nodes) = B
  /\ \A k \in s.kernels : s.child[k] \subseteq s.kernels /\ Leaves(g, k) \subseteq B
  /\ \A n \in g.nodes, k \in s.kernels : n < k => Unshared(g, n, k)

\* It holds as long as there are new kernels.
LEMMA NestedRecorded ==
  ASSUME NEW g, NEW p, Whole(g, p), NEW s, Nested(g, s)
  PROVE  Recorded(g, s, p.blocks)
  <1>1. /\ Layered(g) /\ Stacked(g) /\ Filed(g) /\ OnTop(g) /\ Gathered(g, s) /\ Rooted(g, s)
        /\ Parted(g, p.blocks) /\ g.nodes \subseteq NodesMade(g)
    BY DEF Whole, Piled, Nested, Sound, Shape
  <1>2. BlocksUnder(g, g.nodes) = p.blocks
    BY <1>1 DEF Parted, BlocksUnder
  <1>3. \A k \in s.kernels : s.child[k] \subseteq s.kernels
    BY <1>1 DEF Rooted, KernelTree, Childed
  <1>4. \A k \in s.kernels : Leaves(g, k) \subseteq p.blocks
    BY <1>1, <1>2 DEF Rooted, BlocksUnder
  <1>5. \A n \in g.nodes, k \in s.kernels : n < k => Unshared(g, n, k)
    BY <1>1 DEF OnTop, Rooted, KernelTree
  <1> QED
    BY <1>1, <1>2, <1>3, <1>4, <1>5 DEF Recorded

\* A kernel with no parent is apart from those that were made later.
LEMMA ParentlessApart ==
  ASSUME NEW g, NEW s, Layered(g), KernelTree(g, s),
         \A k \in s.kernels : s.child[k] \subseteq s.kernels,
         NEW r \in s.kernels, s.parent[r] = {}, NEW k \in s.kernels, r < k
  PROVE  Unshared(g, r, k)
  <1>1. PICK v, ch, K : v = Len(g.inner) /\ ch = s.child /\ K = s.kernels
    OBVIOUS
  <1>2. /\ v \in Nat /\ DOMAIN ch \subseteq 1 .. v /\ K \subseteq DOMAIN ch /\ Childed(ch)
        /\ \A c \in K : ch[c] \subseteq K
        /\ k \in K /\ r \in K
    BY <1>1, NodesAre DEF KernelTree, NodesMade
  <1>3. r \notin Below(ch, k)
    <2>1. SUFFICES ASSUME r \in Below(ch, k) PROVE FALSE
      OBVIOUS
    <2>2. PICK b \in K : r \in ch[b]
      BY <1>2, <2>1, BelowIn
    <2> QED BY <1>1, <1>2, <2>2 DEF KernelTree
  <1> QED
    BY <1>1, <1>3 DEF KernelTree, Unshared

\* Sets of nodes that cover the blocks B and have no kernel of K over them.
Covers(g, K, B) ==
  {M \in SUBSET NodesMade(g) : /\ BlocksUnder(g, M) = B
                               /\ \A n \in M, k \in K : n < k => Unshared(g, n, k)}

\* Kernels that are apart from later ones of K can be replaced in such a set by what is
\* inside of them.
LEMMA CoversOpen ==
  ASSUME NEW g, Layered(g), Stacked(g), NEW B, NEW K, K \subseteq NodesMade(g),
         NEW S, S \subseteq NodesMade(g), S \cap K = {},
         \A r \in S : IsVirtual(g, r) /\ Leaves(g, r) \subseteq B,
         \A r \in S, k \in K : r < k => Unshared(g, r, k)
  PROVE  Openable(g, S, Covers(g, K, B))
  <1> SUFFICES ASSUME NEW M \in Covers(g, K, B), NEW r \in S
               PROVE  (M \cup g.inner[r].nodes) \ {r} \in Covers(g, K, B)
    BY DEF Openable
  <1>1. PICK L : L = (M \cup g.inner[r].nodes) \ {r}
    OBVIOUS
  <1>2. r \in NodesMade(g) /\ r \in Nat /\ NodesMade(g) \subseteq Nat
    BY NodesAre
  <1>3. /\ g.inner[r].nodes \subseteq NodesMade(g) /\ r \notin g.inner[r].nodes
        /\ \A m \in g.inner[r].nodes : m < r
    BY <1>2, NodesAre DEF Layered, NodesMade
  <1>4. /\ M \subseteq NodesMade(g) /\ BlocksUnder(g, M) = B
        /\ \A n \in M, k \in K : n < k => Unshared(g, n, k)
    BY DEF Covers
  <1>5. Leaves(g, r) = BlocksUnder(g, g.inner[r].nodes)
    BY <1>2, LeavesAre DEF BlocksUnder
  <1>6. BlocksUnder(g, L) = B
    BY <1>1, <1>3, <1>4, <1>5 DEF BlocksUnder
  <1>7. ASSUME NEW n \in L, NEW k \in K, n < k PROVE Unshared(g, n, k)
    <2>1. CASE n \in M
      BY <1>4, <1>7, <2>1
    <2>2. CASE n \in g.inner[r].nodes
      <3>1. k \in NodesMade(g) /\ k \in Nat /\ k # r
        BY <1>2
      <3>2. CASE k < r
        BY <1>2, <1>7, <2>2, <3>1, <3>2 DEF Stacked
      <3>3. CASE r < k
        <4>1. Leaves(g, n) \subseteq Leaves(g, r)
          BY <1>5, <2>2 DEF BlocksUnder
        <4> QED BY <3>3, <4>1 DEF Unshared
      <3> QED BY <1>2, <3>1, <3>2, <3>3
    <2> QED BY <1>1, <1>7, <2>1, <2>2
  <1> QED
    BY <1>1, <1>3, <1>4, <1>6, <1>7 DEF Covers

-----------------------------------------------------------------------------
(* The cartographer *)

\* Levelling the frequencies keeps a whole graph whole, and touches no node.
LEMMA WholeLevelled ==
  ASSUME NEW g, NEW p, Whole(g, p), NEW h, h = KCLTransform(g)
  PROVE  Whole(h, p) /\ h.nodes = g.nodes /\ h.inner = g.inner /\ h.blocks = g.blocks
  <1>1. /\ Sound(h) /\ h.nodes = g.nodes /\ h.inner = g.inner /\ h.blocks = g.blocks
        /\ \A e \in h.edges : \E f \in g.edges :
              /\ Src(h, e) = Src(g, f) /\ Snk(h, e) = Snk(g, f)
              /\ Freq(h, e) <= Freq(g, f)
    BY KCLTransformIs DEF Whole, Levelled
  <1>2. FewerBlocks(g, h)
    BY <1>1 DEF FewerBlocks
  <1> QED
    BY <1>1, <1>2, WholeSame

\* Whatever the head of the queue is transformed with can be replaced.
LEMMA SubgraphFound ==
  ASSUME Sound(graph), Head(Q) \in graph.nodes
  PROVE  Found(graph, Subgraph)
  <1>1. PICK n : n = Head(Q)
    OBVIOUS
  <1>2. n \in graph.nodes
    BY <1>1
  <1>3. PICK trivial, select, new :
            /\ trivial = TrivialTransforms(graph, n)
            /\ select = BranchToSelectTransforms(graph, n)
            /\ new = FindNewSubgraph(graph, n)
    OBVIOUS
  <1>4. Found(graph, trivial) /\ Found(graph, select) /\ Found(graph, new)
    BY <1>2, <1>3, TrivialReplaceable, SelectReplaceable, FindNewReplaceable DEF Found
  <1>5. Subgraph \in {trivial, select, new}
    BY <1>1, <1>3 DEF Subgraph
  <1> QED
    BY <1>4, <1>5

\* Until the kernels have been found the graph is whole.
GraphIsWhole == Early => Whole(graph, profile)

\* The inductive invariant: until the kernels have been found the graph is whole and
\* the kernels are nested in it; to the end they are a hierarchy, and every block is
\* in a kernel or in a node outside of the kernels.
SegmentationInv ==
  /\ Early => Whole(graph, profile) /\ Nested(graph, TheHierarchy)
  /\ KernelTree(graph, TheHierarchy)
  /\ Recorded(graph, TheHierarchy, profile.blocks)
  /\ Numbered(graph)

\* The graph read from the profile is whole, and has no kernels.
LEMMA StartsWhole ==
  Init => SegmentationInv
  <1> SUFFICES ASSUME Init PROVE SegmentationInv
    OBVIOUS
  <1>1. PICK w \in Walks : profile = ProfileOf(w)
    BY DEF Init
  <1>2. PICK g : g = GraphOf(profile)
    OBVIOUS
  <1>3. Whole(g, profile) /\ \A n \in NodesMade(g) : ~ IsVirtual(g, n)
    BY <1>1, <1>2, ProfileIs, GraphOfIs
  <1>4. graph = KCLTransform(g)
    BY <1>2 DEF Init
  <1>5. Whole(graph, profile) /\ graph.inner = g.inner
    BY <1>3, <1>4, WholeLevelled
  <1>6. PICK s : s = TheHierarchy
    OBVIOUS
  <1>7. s.kernels = {} /\ DOMAIN s.child = {} /\ DOMAIN s.parent = {}
    BY <1>6 DEF Init, TheHierarchy
  <1>8. KernelTree(graph, s)
    BY <1>7 DEF KernelTree, Childed
  <1>9. Nested(graph, s)
    <2>1. \A n \in graph.nodes, j \in s.kernels :
              /\ FALSE
      BY <1>7
    <2>2. Rooted(graph, s)
      BY <1>7, <1>8, <2>1 DEF Rooted
    <2>3. Gathered(graph, s)
      BY <1>7 DEF Gathered
    <2>4. ASSUME NEW n \in graph.nodes PROVE Leaves(graph, n) \subseteq graph.blocks[n]
      <3>1. n \in NodesMade(graph) /\ Layered(graph) /\ Filed(graph)
        BY <1>5 DEF Whole, Piled, Sound, Shape
      <3>2. ~ IsVirtual(graph, n)
        BY <1>3, <1>5, <3>1 DEF IsVirtual, NodesMade
      <3>3. Leaves(graph, n) = {n}
        BY <3>1, <3>2, LeavesAre
      <3> QED BY <3>1, <3>2, <3>3 DEF Filed
    <2>5. Held(graph, s)
      BY <2>4 DEF Held
    <2> QED BY <2>2, <2>3, <2>5 DEF Nested
  <1> QED
    BY <1>5, <1>6, <1>8, <1>9, WholeNumbered, NestedRecorded DEF SegmentationInv

\* Every transform, and every round of FindMLCycles, leaves a whole graph with the
\* kernels nested in it.
LEMMA StaysWhole ==
  ASSUME Early, Whole(graph, profile), Nested(graph, TheHierarchy),
         Transform \/ RoundDone \/ FindKernels
  PROVE  Whole(graph', profile') /\ Nested(graph', TheHierarchy')
  <1>1. PICK s : s = TheHierarchy
    OBVIOUS
  <1>2. Nested(graph, s)
    BY <1>1
  <1>3. ASSUME UNCHANGED hierarchy, NEW g, Nested(g, s), graph'.nodes = g.nodes,
               graph'.inner = g.inner, graph'.blocks = g.blocks
        PROVE  Nested(graph', TheHierarchy')
    <2>1. PICK t, h : t = TheHierarchy' /\ h = graph'
      OBVIOUS
    <2>2. t.kernels = s.kernels /\ t.child = s.child /\ t.parent = s.parent
      BY <1>1, <1>3, <2>1 DEF TheHierarchy, hierarchy
    <2>3. Nested(h, t)
      BY <1>3, <2>1, <2>2, NestedSame
    <2> QED BY <2>1, <2>3
  <1>4. CASE Transform
    <2>1. PICK sub \in {Subgraph} \ {NoSubgraph} :
              graph' = VirtualizeSubgraph(graph, sub.nodes, sub.edges)
      BY <1>4 DEF Transform
    <2>2. Head(Q) \in graph.nodes /\ profile' = profile /\ UNCHANGED hierarchy
      BY <1>4 DEF Transform, Fresh
    <2>3. Sound(graph)
      BY DEF Whole
    <2>4. Found(graph, Subgraph)
      BY <2>2, <2>3, SubgraphFound
    <2>5. PICK N, E : N = sub.nodes /\ E = sub.edges
      OBVIOUS
    <2>6. Replaceable(graph, N, E)
      BY <2>1, <2>4, <2>5 DEF Found
    <2>7. Virtualized(graph, N, E, graph')
      BY <2>1, <2>3, <2>5, <2>6, VirtualizeSubgraphIs
    <2>8. Whole(graph', profile)
      BY <2>6, <2>7, WholeVirtualized
    <2>9. Nested(graph', s)
      BY <1>2, <2>6, <2>7, NestedVirtualized
    <2>10. Nested(graph', TheHierarchy')
      BY <1>3, <2>2, <2>9
    <2> QED BY <2>2, <2>8, <2>10
  <1>5. CASE RoundDone
    <2>1. PICK g \in LowFrequencyLoopTransform(graph) : graph' = KCLTransform(g)
      BY <1>5 DEF RoundDone
    <2>2. profile' = profile /\ UNCHANGED hierarchy
      BY <1>5 DEF RoundDone
    <2>3. Whole(g, profile) /\ Nested(g, s)
      BY <1>2, <2>1, LowFrequencyIs
    <2>4. /\ Whole(graph', profile) /\ graph'.nodes = g.nodes /\ graph'.inner = g.inner
          /\ graph'.blocks = g.blocks
      BY <2>1, <2>3, WholeLevelled
    <2>5. Nested(graph', TheHierarchy')
      BY <1>3, <2>2, <2>3, <2>4
    <2> QED BY <2>2, <2>4, <2>5
  <1>6. CASE FindKernels
    <2>1. PICK cands \in LoopsInOrder(graph, IsCandidate) :
              \E r \in {VirtualizeKernels(Chosen(graph, cands))} :
                  /\ graph' = r.graph
                  /\ kernels' = r.kernels /\ child' = r.child /\ parent' = r.parent
      BY <1>6 DEF FindKernels
    <2>2. profile' = profile
      BY <1>6 DEF FindKernels
    <2>3. PICK cycles : cycles = Chosen(graph, cands)
      OBVIOUS
    <2>4. LoopSeq(graph, cycles)
      BY <2>1, <2>3, CandidatesAre, ChosenAre DEF Whole
    <2>5. PICK r : /\ r = VirtualizeKernels(cycles) /\ graph' = r.graph
                   /\ kernels' = r.kernels /\ child' = r.child /\ parent' = r.parent
      BY <2>1, <2>3
    <2>6. Hierarchy(r) /\ Whole(r.graph, profile) /\ Nested(r.graph, r)
      BY <2>4, <2>5, VirtualizeKernelsIs
    <2>7. TheHierarchy' = r
      BY <2>5, <2>6 DEF TheHierarchy, Hierarchy
    <2> QED BY <2>2, <2>5, <2>6, <2>7
  <1> QED
    BY <1>4, <1>5, <1>6

\* A kernel that is revoked goes from the kernels and from the parents of its
\* children: what is left is a hierarchy.
LEMMA StaysTree ==
  ASSUME KernelTree(graph, TheHierarchy), Numbered(graph),
         Recorded(graph, TheHierarchy, profile.blocks), Revoke
  PROVE  /\ KernelTree(graph', TheHierarchy') /\ Numbered(graph')
         /\ Recorded(graph', TheHierarchy', profile'.blocks)
  <1>1. PICK s, t, g, h, gone, B :
            /\ s = TheHierarchy /\ t = TheHierarchy' /\ g = graph /\ h = graph'
            /\ gone = Revocable /\ B = profile.blocks
    OBVIOUS
  <1>2. /\ t.kernels = s.kernels \ gone /\ t.child = s.child
        /\ t.parent = [k \in DOMAIN s.parent |-> s.parent[k] \ gone]
    BY <1>1 DEF Revoke, TheHierarchy
  <1>3. h = Each(LAMBDA x, k : IF InGraph(x, k) THEN ReverseCycle(x, k) ELSE x,
                 g, gone, VirtualNodeOf(g))
    BY <1>1 DEF Revoke
  <1>7. KernelTree(g, s) /\ Recorded(g, s, B)
    BY <1>1
  <1>9. /\ gone \subseteq s.kernels /\ t.kernels \subseteq s.kernels
        /\ s.kernels \subseteq NodesMade(g)
        /\ gone \cap t.kernels = {} /\ \A r \in gone : s.parent[r] = {}
    BY <1>1, <1>2, <1>7 DEF Revocable, TheHierarchy, KernelTree
  <1>10. \A k \in s.kernels : s.child[k] \subseteq s.kernels
    BY <1>7 DEF Recorded
  <1>11. PICK F : F = Covers(g, t.kernels, B)
    OBVIOUS
  <1>12. Openable(g, gone, F)
    <2>1. Layered(g) /\ Stacked(g)
      BY <1>7 DEF Recorded
    <2>2. \A r \in gone : IsVirtual(g, r) /\ Leaves(g, r) \subseteq B
      BY <1>7, <1>9 DEF Recorded, Gathered
    <2>3. \A r \in gone, k \in t.kernels : r < k => Unshared(g, r, k)
      <3> SUFFICES ASSUME NEW r \in gone, NEW k \in t.kernels, r < k PROVE Unshared(g, r, k)
        OBVIOUS
      <3>1. r \in s.kernels /\ s.parent[r] = {} /\ k \in s.kernels
        BY <1>9
      <3> QED BY <1>7, <1>10, <2>1, <3>1, ParentlessApart
    <2>4. t.kernels \subseteq NodesMade(g) /\ gone \subseteq NodesMade(g)
      BY <1>9
    <2> QED BY <1>9, <1>11, <2>1, <2>2, <2>3, <2>4, CoversOpen
  <1>13. g.nodes \in F
    BY <1>7, <1>9, <1>11 DEF Covers, Recorded
  <1>4. SameNodes(g, F, h)
    <2>1. PICK v : v = VirtualNodeOf(g)
      OBVIOUS
    <2>2. Numbered(g) /\ v \in Nat
      BY <1>1, <2>1 DEF Numbered, VirtualNodeOf
    <2>3. h = ByKernels(g, gone, VirtualNodeOf(g))
      BY <1>3 DEF ByKernels, Each
    <2>4. h = ByKernels(g, gone, v)
      BY <2>1, <2>3
    <2> QED BY <1>12, <1>13, <2>2, <2>4, KernelsKeep
  <1>5. \A n : Leaves(h, n) = Leaves(g, n)
    BY <1>4 DEF SameNodes, Leaves, IsVirtual
  <1>6. NodesMade(h) = NodesMade(g)
    BY <1>4 DEF SameNodes, NodesMade
  <1>8. KernelTree(h, t)
    <2>1. /\ t.kernels \subseteq s.kernels /\ DOMAIN t.parent = DOMAIN s.parent
          /\ \A k \in s.kernels : t.parent[k] = s.parent[k] \ gone
      BY <1>2, <1>7 DEF KernelTree
    <2>2. \A j, k \in t.kernels : j \in t.child[k] <=> k \in t.parent[j]
      BY <1>2, <1>7, <2>1 DEF KernelTree
    <2>3. \A j, k \in t.kernels :
              j < k => j \in Below(t.child, k) \/ Leaves(h, j) \cap Leaves(h, k) = {}
      BY <1>2, <1>5, <1>7, <2>1 DEF KernelTree
    <2>4. \A k \in t.kernels : \E x : t.parent[k] \subseteq {x}
      <3> SUFFICES ASSUME NEW k \in t.kernels PROVE \E x : t.parent[k] \subseteq {x}
        OBVIOUS
      <3>1. PICK x : s.parent[k] \subseteq {x}
        BY <1>7, <2>1 DEF KernelTree
      <3>2. t.parent[k] \subseteq {x}
        BY <2>1, <3>1
      <3> QED BY <3>2
    <2> QED BY <1>2, <1>6, <1>7, <2>1, <2>2, <2>3, <2>4 DEF KernelTree
  <1>14. Recorded(h, t, B)
    <2>1. /\ \A n : IsVirtual(h, n) = IsVirtual(g, n)
          /\ h.blocks = g.blocks /\ h.inner = g.inner /\ h.nodes \in F
      BY <1>4 DEF SameNodes, IsVirtual
    <2>2. \A m, n : Unshared(h, m, n) = Unshared(g, m, n)
      BY <1>5 DEF Unshared
    <2>3. Layered(h)
      BY <1>6, <1>7, <2>1 DEF Recorded, Layered
    <2>4. Stacked(h)
      BY <1>6, <1>7, <2>1, <2>2 DEF Recorded, Stacked
    <2>5. Filed(h)
      BY <1>5, <1>6, <1>7, <2>1 DEF Recorded, Filed
    <2>6. Gathered(h, t)
      <3>1. \A J : BlocksOf(h, J) = BlocksOf(g, J)
        BY <2>1 DEF BlocksOf
      <3> QED BY <1>2, <1>5, <1>7, <1>9, <2>1, <3>1 DEF Recorded, Gathered
    <2>7. /\ h.nodes \subseteq NodesMade(g) /\ BlocksUnder(g, h.nodes) = B
          /\ \A n \in h.nodes, k \in t.kernels : n < k => Unshared(g, n, k)
      BY <1>11, <2>1 DEF Covers
    <2>8. BlocksUnder(h, h.nodes) = B
      BY <1>5, <2>7 DEF BlocksUnder
    <2>9. ASSUME NEW k \in t.kernels
          PROVE  t.child[k] \subseteq t.kernels /\ Leaves(h, k) \subseteq B
      <3>1. k \in s.kernels /\ t.child[k] = s.child[k]
        BY <1>2, <1>9
      <3>2. Leaves(h, k) \subseteq B
        BY <1>5, <1>7, <3>1 DEF Recorded
      <3>3. ASSUME NEW c \in s.child[k] PROVE c \in t.kernels
        <4>1. c \in s.kernels
          BY <1>10, <3>1
        <4>2. s.parent[c] # {}
          BY <1>7, <3>1, <3>3, <4>1 DEF KernelTree
        <4> QED BY <1>2, <1>9, <4>1, <4>2
      <3> QED BY <3>1, <3>2, <3>3
    <2> QED BY <1>6, <2>2, <2>3, <2>4, <2>5, <2>6, <2>7, <2>8, <2>9 DEF Recorded
  <1>15. profile' = profile
    BY DEF Revoke
  <1> QED
    BY <1>1, <1>4, <1>8, <1>14, <1>15 DEF SameNodes

\* Every step keeps the inductive invariant.
LEMMA StaysNested ==
  SegmentationInv /\ [Next]_vars => SegmentationInv'
  <1> SUFFICES ASSUME SegmentationInv, [Next]_vars
               PROVE  SegmentationInv'
    OBVIOUS
  <1>1. CASE Transform \/ RoundDone \/ FindKernels
    <2>1. Early
      BY <1>1 DEF Transform, RoundDone, FindKernels, Fresh, Transforming, Early
    <2>2. Whole(graph', profile') /\ Nested(graph', TheHierarchy')
      BY <1>1, <2>1, StaysWhole DEF SegmentationInv
    <2>3. KernelTree(graph', TheHierarchy')
      BY <2>2 DEF Nested, Rooted
    <2>4. Numbered(graph') /\ Recorded(graph', TheHierarchy', profile'.blocks)
      BY <2>2, WholeNumbered, NestedRecorded
    <2> QED BY <2>2, <2>3, <2>4 DEF SegmentationInv
  <1>2. CASE Revoke
    <2>1. ~ Early'
      BY <1>2 DEF Revoke, Early
    <2>2. /\ KernelTree(graph', TheHierarchy') /\ Numbered(graph')
          /\ Recorded(graph', TheHierarchy', profile'.blocks)
      BY <1>2, StaysTree DEF SegmentationInv
    <2> QED BY <2>1, <2>2 DEF SegmentationInv
  <1>3. CASE \/ Skip \/ Cover \/ SimpleDone \/ RevokeNothing \/ VisitNode \/ WriteKernels
             \/ Ended \/ UNCHANGED vars
    <2>1. graph' = graph /\ profile' = profile /\ UNCHANGED hierarchy
      BY <1>3 DEF Skip, Cover, SimpleDone, RevokeNothing, VisitNode, WriteKernels, Ended,
                  vars, hierarchy
    <2>2. Early' => Early
      BY <1>3 DEF Skip, Cover, SimpleDone, RevokeNothing, VisitNode, WriteKernels, Ended,
                  vars, Early, Fresh, Transforming
    <2>3. TheHierarchy' = TheHierarchy
      BY <2>1 DEF TheHierarchy, hierarchy
    <2> QED BY <2>1, <2>2, <2>3 DEF SegmentationInv
  <1> QED
    BY <1>1, <1>2, <1>3 DEF Next

\* The inductive invariant is one.
LEMMA AlwaysNested == Spec => []SegmentationInv
  <1> QED
    BY StartsWhole, StaysNested, PTL DEF Spec

\* Until the kernels have been found the graph is sound, a virtual node stands for
\* nodes made before it, and the blocks of the profile are parted among the nodes:
\* no transform (Transforms.cpp:691-807) loses a block, counts one twice or leaves
\* an edge to a node that is gone.
THEOREM GraphsAreWhole == Spec => []GraphIsWhole
  <1>1. SegmentationInv => GraphIsWhole
    BY DEF SegmentationInv, GraphIsWhole
  <1> QED
    BY <1>1, AlwaysNested, PTL

\* An edge of the graph is always a successor of its source and a predecessor of
\* its sink, and the other way round (VirtualizeSubgraph, Transforms.cpp:691-807).
THEOREM EndsAgreeAlways == Spec => []EndsAgree
  <1>1. GraphIsWhole => EndsAgree
    <2> SUFFICES ASSUME GraphIsWhole, Early
                 PROVE  /\ graph.edges = UNION {graph.succ[n] : n \in graph.nodes}
                        /\ graph.edges = UNION {graph.pred[n] : n \in graph.nodes}
                        /\ \A e \in graph.edges :
                              {Src(graph, e), Snk(graph, e)} \subseteq graph.nodes
      BY DEF EndsAgree
    <2>1. Agree(graph)
      BY DEF GraphIsWhole, Whole, Sound
    <2> QED BY <2>1 DEF Agree
  <1> QED
    BY <1>1, GraphsAreWhole, PTL

\* Every block of the profile is under exactly one node of the graph, kernels that
\* were found at once included (Transforms.cpp:691-807, 3185-3267).
THEOREM BlocksOnceAlways == Spec => []BlocksOnce
  <1>1. GraphIsWhole => BlocksOnce
    BY DEF GraphIsWhole, Whole, Parted, BlocksOnce
  <1> QED
    BY <1>1, GraphsAreWhole, PTL

\* No transform ends with an exception (Transforms.cpp:1244-1282): the select
\* transform looks two nodes ahead, and meets only nodes of the graph.
THEOREM NoThrowAlways == Spec => []NoThrow
  <1>1. GraphIsWhole => NoThrow
    <2> SUFFICES ASSUME GraphIsWhole, Fresh, Throws PROVE FALSE
      BY DEF NoThrow
    <2>1. Agree(graph)
      BY DEF GraphIsWhole, Whole, Sound, Early, Fresh, Transforming
    <2>2. \A n \in graph.nodes : SuccNodes(graph, n) \subseteq graph.nodes
      BY <2>1 DEF SuccNodes, Sinks, Agree
    <2>3. Head(Q) \in graph.nodes
      BY DEF Fresh
    <2>4. /\ SuccNodes(graph, Head(Q)) \subseteq graph.nodes
          /\ After(graph, Head(Q)) \subseteq graph.nodes
      BY <2>2, <2>3 DEF After
    <2> QED BY <2>4 DEF Throws, BranchThrows
  <1> QED
    BY <1>1, GraphsAreWhole, PTL

\* An edge of the graph never claims more than was profiled: there were as many
\* steps at least between the blocks of its ends, whatever was replaced, levelled
\* and balanced in between (Transforms.cpp:691-807, 3185-3267).
THEOREM CrossingsKeptAlways == Spec => []CrossingsKept
  <1>1. GraphIsWhole => CrossingsKept
    <2>1. \A S, T : Crossings(S, T) = Crossed(profile, S, T)
      BY DEF Crossings, Crossed, Steps
    <2> QED BY <2>1 DEF GraphIsWhole, Whole, Bounded, CrossingsKept
  <1> QED
    BY <1>1, GraphsAreWhole, PTL

\* Two kernels share blocks only if one descends from the other, parents and children
\* are each other's, and a kernel has one parent: whatever is virtualized after a kernel
\* was found and whichever kernels are revoked (Transforms.cpp:3012-3098, 3185-3267,
\* 3320-3350).
THEOREM KernelsNestedAlways == Spec => []KernelsNested
  <1>1. SegmentationInv => KernelsNested
    <2> SUFFICES ASSUME KernelTree(graph, TheHierarchy), NEW j \in kernels, NEW k \in kernels
                 PROVE  /\ j = k \/ j \in Descendants(k) \/ k \in Descendants(j)
                           \/ Leaves(graph, j) \cap Leaves(graph, k) = {}
                        /\ j \in child[k] <=> k \in parent[j]
                        /\ Cardinality(parent[k]) <= 1
      BY DEF SegmentationInv, KernelsNested
    <2>1. /\ \A a, b \in kernels : a < b => \/ a \in Below(child, b)
                                            \/ Leaves(graph, a) \cap Leaves(graph, b) = {}
          /\ j \in child[k] <=> k \in parent[j]
          /\ \E x : parent[k] \subseteq {x}
          /\ kernels \subseteq NodesMade(graph)
      BY DEF KernelTree, TheHierarchy
    <2>2. Below(child, k) = Descendants(k) /\ Below(child, j) = Descendants(j)
      BY DEF Below, Descendants
    <2>3. j = k \/ j < k \/ k < j
      BY <2>1 DEF NodesMade
    <2>4. PICK x : parent[k] \subseteq {x}
      BY <2>1
    <2>5. IsFiniteSet({x}) /\ Cardinality({x}) = 1
      BY FS_Singleton
    <2>6. Cardinality(parent[k]) <= 1
      BY <2>4, <2>5, FS_Subset
    <2> QED BY <2>1, <2>2, <2>3, <2>6
  <1> QED
    BY <1>1, AlwaysNested, PTL

\* Every profiled block is in the kernel file, either in kernels or outside of all
\* kernels, whichever kernels are revoked: the blocks that VirtualizeKernel takes out of
\* a kernel are in one of its descendants, and what is put back into the graph is in no
\* kernel that is left (Transforms.cpp:3012-3098, 3185-3267, 3320-3350).
THEOREM BlocksWrittenAlways == Spec => []BlocksWritten
  <1>1. SegmentationInv => BlocksWritten
    <2> SUFFICES ASSUME SegmentationInv
                 PROVE  /\ BlocksOutside(graph, graph.nodes)
                           \cup UNION {KernelEntry(k).blocks : k \in kernels} = profile.blocks
                        /\ \A k \in kernels :
                              BlocksOutside(graph, graph.nodes) \cap Leaves(graph, k) = {}
      BY DEF BlocksWritten
    <2>1. PICK s, B, out : /\ s = TheHierarchy /\ B = profile.blocks
                           /\ out = BlocksOutside(graph, graph.nodes)
      OBVIOUS
    <2>2. s.kernels = kernels /\ s.child = child
      BY <2>1 DEF TheHierarchy
    <2>3. Recorded(graph, s, B) /\ KernelTree(graph, s)
      BY <2>1 DEF SegmentationInv
    <2>4. /\ Layered(graph) /\ Stacked(graph) /\ Filed(graph) /\ Gathered(graph, s)
          /\ graph.nodes \subseteq NodesMade(graph) /\ BlocksUnder(graph, graph.nodes) = B
          /\ \A k \in kernels : child[k] \subseteq kernels /\ Leaves(graph, k) \subseteq B
          /\ \A n \in graph.nodes, k \in kernels : n < k => Unshared(graph, n, k)
      BY <2>2, <2>3 DEF Recorded
    <2>5. kernels \subseteq NodesMade(graph)
      BY <2>2, <2>3 DEF KernelTree
    <2>6. out = UNION {Outside(graph, kernels, n) : n \in graph.nodes}
      <3>1. BlocksOutside(graph, graph.nodes) = OutsideOf(graph, kernels, graph.nodes)
        BY DEF BlocksOutside, OutsideOf
      <3> QED BY <2>1, <3>1, OutsideOfAre
    <2>7. \A n \in graph.nodes : Outside(graph, kernels, n) \subseteq Leaves(graph, n)
      BY <2>4, OutsideOrWithin
    <2>8. ASSUME NEW k \in kernels PROVE out \cap Leaves(graph, k) = {}
      <3> SUFFICES ASSUME NEW n \in graph.nodes
                   PROVE  Outside(graph, kernels, n) \cap Leaves(graph, k) = {}
        BY <2>6
      <3>1. n \in NodesMade(graph) /\ k \in NodesMade(graph) /\ n \in Nat /\ k \in Nat
        BY <2>4, <2>5, NodesAre
      <3>2. CASE n < k
        BY <2>4, <2>7, <3>2 DEF Unshared
      <3>3. CASE k <= n
        BY <2>4, <3>1, <3>3, OutsideApart
      <3> QED BY <3>1, <3>2, <3>3
    <2>9. ASSUME NEW k \in kernels PROVE graph.blocks[k] \subseteq B
      BY <2>4, <2>5 DEF Filed
    <2>10. ASSUME NEW k \in kernels, NEW b \in Leaves(graph, k)
           PROVE  \E j \in kernels : b \in graph.blocks[j]
      <3>1. b \in BlocksOf(graph, Family(child, k))
        BY <2>2, <2>4, <2>10 DEF Gathered
      <3>2. PICK j \in Family(child, k) : b \in graph.blocks[j]
        BY <3>1 DEF BlocksOf
      <3>3. Family(child, k) \subseteq kernels
        <4>1. PICK v, K, ch : v = Len(graph.inner) /\ K = kernels /\ ch = child
          OBVIOUS
        <4>2. /\ v \in Nat /\ DOMAIN ch \subseteq 1 .. v /\ Childed(ch)
              /\ K \subseteq DOMAIN ch /\ \A c \in K : ch[c] \subseteq K
              /\ k \in K
          BY <2>2, <2>3, <2>4, <4>1, NodesAre DEF KernelTree, NodesMade
        <4>3. Below(ch, k) \subseteq K
          BY <4>2, BelowIn
        <4> QED BY <4>1, <4>2, <4>3 DEF Family
      <3> QED BY <3>2, <3>3
    <2>11. ASSUME NEW b \in B PROVE b \in out \/ \E j \in kernels : b \in graph.blocks[j]
      <3>1. PICK n \in graph.nodes : b \in Leaves(graph, n)
        BY <2>4 DEF BlocksUnder
      <3>2. n \in NodesMade(graph)
        BY <2>4
      <3>3. \/ b \in Outside(graph, kernels, n)
            \/ \E k \in Within(graph, kernels, n) : b \in Leaves(graph, k)
        BY <2>4, <3>1, <3>2, OutsideOrWithin
      <3>4. Within(graph, kernels, n) \subseteq kernels
        BY <2>4, WithinIn
      <3> QED BY <2>6, <2>10, <3>3, <3>4
    <2>12. \A k \in kernels : KernelEntry(k).blocks = graph.blocks[k]
      BY DEF KernelEntry
    <2>13. out \subseteq B
      BY <2>4, <2>6, <2>7 DEF BlocksUnder
    <2>14. UNION {KernelEntry(k).blocks : k \in kernels}
           = UNION {graph.blocks[k] : k \in kernels}
      BY <2>12
    <2>15. out \cup UNION {graph.blocks[k] : k \in kernels} = B
      BY <2>9, <2>11, <2>13
    <2> QED BY <2>1, <2>8, <2>14, <2>15
  <1> QED
    BY <1>1, AlwaysNested, PTL
=============================================================================
