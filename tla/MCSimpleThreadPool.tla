------------------------- MODULE MCSimpleThreadPool -------------------------
(***************************************************************************)
(* Small instances of the modules of Waiters for TLC.                      *)
(***************************************************************************)
EXTENDS Waiters, TLC

CONSTANTS MaxLength, p1, p2, c1, c2, cv1, cv2, high, low

Tasks == 1..4

\* Task 1 submits 2 and 2 submits 3 as they run; 4 is submitted by the owner
\* only, who may submit the others too.
Chain == <<{2}, {3}, {}, {}>>

\* The elements of a range are distinct.
Elements == 1..MaxLength
Ranges == {[j \in 1..n |-> j] : n \in 0..MaxLength}

\* Two levels, the higher of which does not fit in an unsigned int of three bits.
Lockers   == {p1, p2}
MutexSet  == {high, low}
Levels    == (high :> 9) @@ (low :> 5)

Producers    == {p1, p2}
Consumers    == {c1, c2}
Interrupters == {p1, p2}
Conds        == {cv1, cv2}

ASSUME AccumulateAssumption /\ HandOver!HandOverAssumption
=============================================================================
