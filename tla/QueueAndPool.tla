---------------------------- MODULE QueueAndPool ----------------------------
(***************************************************************************)
(* ThreadSafeQueue and StealThreadPool: the queue, one access to memory at *)
(* a time, and the pool that keeps its tasks in one.  The proof that the   *)
(* queue implements FifoQueue lets the pool take it for a sequence.  A     *)
(* behaviour uses one of the two, and leaves the other in an initial       *)
(* state.                                                                  *)
(***************************************************************************)
EXTENDS ThreadSafeQueue, StealThreadPool

VARIABLE chosen  \* which of the two this behaviour uses

\* ThreadSafeQueue begins with any dummy; one is enough when it is not used.
BothInit ==
  /\ chosen \in {"queue", "pool"}
  /\ Init /\ StealInit
  /\ chosen # "queue" => head = CHOOSE n \in Node : TRUE

BothNext ==
  \/ chosen = "queue" /\ Next /\ UNCHANGED <<chosen, steal_vars>>
  \/ chosen = "pool" /\ StealNext /\ UNCHANGED <<chosen, vars>>

\* Only what is used is scheduled.
BothSpec ==
  /\ BothInit /\ [][BothNext]_<<chosen, vars, steal_vars>>
  /\ \/ chosen = "queue" /\ Fairness
     \/ chosen = "pool" /\ StealFairness
=============================================================================
