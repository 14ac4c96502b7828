--------------------------- MODULE MCHazardStack ---------------------------
(***************************************************************************)
(* Small instances of the modules of Stacks for TLC.                       *)
(***************************************************************************)
EXTENDS Stacks, TLC

CONSTANTS a, b, n1, n2, n3, v1, v2, w1, w2, w3

Threads == {a, b}
Nodes   == {n1, n2, n3}
Values  == {v1, v2}

AllCalls == [t \in Threads |-> {"push", "pop"}]

Workers == {w1, w2, w3}

\* A machine with one core, with three, and one that cannot tell.
CoreCounts == {0, 1, 3}
=============================================================================
