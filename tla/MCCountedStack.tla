--------------------------- MODULE MCCountedStack ---------------------------
(***************************************************************************)
(* A small instance of CountedStack for TLC: two threads and three nodes.  *)
(***************************************************************************)
EXTENDS CountedStack, TLC

CONSTANTS a, b, n1, n2, n3

Threads  == {a, b}
Nodes    == {n1, n2, n3}
Symmetry == Permutations(Threads) \cup Permutations(Nodes)
=============================================================================
