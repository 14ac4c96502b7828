---------------------------- MODULE MCLookupTable ----------------------------
(***************************************************************************)
(* A small instance of LookupTable for TLC: three keys in two buckets, so  *)
(* that two keys collide, and two values, so that an update shows.         *)
(***************************************************************************)
EXTENDS LookupTable, TLC

CONSTANTS t1, t2, k1, k2, k3, v1, v2

Threads == {t1, t2}
Keys    == {k1, k2, k3}
Values  == {v1, v2}

HashValues == (k1 :> 0) @@ (k2 :> 1) @@ (k3 :> 2)

\* Every thread may make every call.
AllCalls == [t \in Threads |-> Ops]
=============================================================================
