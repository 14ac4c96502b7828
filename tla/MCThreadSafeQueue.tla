------------------------- MODULE MCThreadSafeQueue -------------------------
(***************************************************************************)
(* Small instances of ThreadSafeQueue for TLC.                             *)
(***************************************************************************)
EXTENDS ThreadSafeQueue, TLC

CONSTANTS a, b, c, n1, n2, n3, v1, v2

Threads == {a, b, c}
Nodes3 == {n1, n2, n3}
Values == {v1, v2}

\* Every call is made by some thread, and every kind of call next to every
\* other: a notifying push and a poll, a push and a waiting pop, and a thread
\* that only looks or waits.
MixedCalls ==
  (a :> {"push_cond", "try_pop"}) @@ (b :> {"push", "wait_and_pop_ref"})
  @@ (c :> {"empty", "wait_and_pop"})

\* One producer that notifies, and two consumers that wait.
WaitingCalls ==
  (a :> {"push_cond"}) @@ (b :> {"wait_and_pop"}) @@ (c :> {"wait_and_pop_ref"})
=============================================================================
