--------------------------- MODULE MCMemoryEpochs ----------------------------
(* An instance of MemoryEpochs: kernel 1 has the blocks 1 and 2, and in it  *)
(* kernel 2 has block 2; block 0 is outside of both.  Of the two exits from *)
(* kernel 1 to block 0 the kernel file has one.                             *)
EXTENDS MemoryEpochs, TLC

Kernel(b, in, out, parents, children) ==
  [blocks |-> b, entrances |-> in, exits |-> out, parents |-> parents, children |-> children]

MCFlow == {<<0, 1>>, <<1, 2>>, <<2, 1>>, <<2, 0>>, <<1, 0>>}

MCKernelFile ==
  (1 :> Kernel({1}, {<<0, 1>>}, {<<2, 0>>}, {}, {2})) @@
  (2 :> Kernel({2}, {<<1, 2>>}, {<<2, 1>>, <<2, 0>>}, {1}, {}))

(* Three accesses, or two calls of the heap for one of them.  The program    *)
(* allocates in the first epoch; the others free what it left.               *)
MCCost ==
  <<[c \in {"load", "store", "cpy", "set"} |-> 2] @@ [c \in {"malloc", "free"} |-> 1],
    [c \in {"load", "store", "cpy", "mov", "set", "free"} |-> 2],
    [c \in {"load", "store", "mov", "free"} |-> 2]>>

(* What WorkingSetsKnown asks of a program. *)
ASSUME MCAssumption == ShortRuns(Touchable)
=============================================================================
