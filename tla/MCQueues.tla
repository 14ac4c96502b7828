------------------------------ MODULE MCQueues ------------------------------
(***************************************************************************)
(* Small instances of the modules of Queues for TLC.                       *)
(***************************************************************************)
EXTENDS Queues, TLC

CONSTANTS a, b, c, v1, v2, n1, n2, n3

Threads  == {a, b, c}
Values   == {v1, v2}
Nodes    == {n1, n2, n3}
AllCalls == [t \in Threads |-> Ops]

\* Every call, two threads that push and two that pop.
SomeCalls ==
  (a :> {"push"}) @@ (b :> {"push_notify", "try_pop_ref"})
  @@ (c :> {"try_pop", "wait_and_pop", "wait_and_pop_ref"})
=============================================================================
