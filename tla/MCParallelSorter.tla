-------------------------- MODULE MCParallelSorter --------------------------
(***************************************************************************)
(* A small instance of ParallelSorter for TLC: one element, two workers.   *)
(***************************************************************************)
EXTENDS ParallelSorter

CONSTANTS w1, w2

Workers == {w1, w2}
=============================================================================
