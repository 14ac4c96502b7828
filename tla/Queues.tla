------------------------------- MODULE Queues -------------------------------
(***************************************************************************)
(* The queues of t_queue.h: t_queue (CoarseQueue), thread_queue and        *)
(* final_queue (FinalQueue), and s_queue and separate_queue with their     *)
(* twins of chapter_6.h (SequentialQueue).  They share nothing: a          *)
(* behaviour uses one of them, and leaves the others in an initial state.  *)
(***************************************************************************)
EXTENDS CoarseQueue

CONSTANTS
  Node, NoNode,  \* of FinalQueue and SequentialQueue
  FinalCalls,    \* FinalCalls[t]: the operations of final_queue t may call
  MaxLength      \* the bound on the values in a sequential queue

VARIABLES
  chosen,  \* which queue this behaviour uses
  \* the variables of FinalQueue
  head, tail, next, data, live, head_mutex, tail_mutex,
  f_pc, f_op, ptr, f_val, seen, chain,
  \* the variables of SequentialQueue
  class, s_head, s_tail, s_next, s_data, s_live, answer, pushed

f_vars == <<head, tail, next, data, live, head_mutex, tail_mutex,
            f_pc, f_op, ptr, f_val, seen, chain>>
s_vars == <<class, s_head, s_tail, s_next, s_data, s_live, answer, pushed>>

Final == INSTANCE FinalQueue WITH
  Calls <- FinalCalls, pc <- f_pc, op <- f_op, val <- f_val

Sequential == INSTANCE SequentialQueue WITH
  MaxItems <- MaxLength, head <- s_head, tail <- s_tail, next <- s_next,
  data <- s_data, live <- s_live

\* FinalQueue begins with any dummy; one is enough when it is not used.
QueuesInit ==
  /\ chosen \in {"t_queue", "final_queue", "sequential"}
  /\ Init /\ Final!Init /\ Sequential!Init
  /\ chosen # "final_queue" => head = CHOOSE n \in Node : TRUE
  /\ chosen # "sequential" => class = "s_queue"

QueuesNext ==
  \/ chosen = "t_queue" /\ Next /\ UNCHANGED <<chosen, f_vars, s_vars>>
  \/ chosen = "final_queue" /\ Final!Next /\ UNCHANGED <<chosen, vars, s_vars>>
  \/ chosen = "sequential" /\ Sequential!Next /\ UNCHANGED <<chosen, vars, f_vars>>

QueuesSpec == QueuesInit /\ [][QueuesNext]_<<chosen, vars, f_vars, s_vars>>

\* final_queue and thread_queue implement FifoQueue (t_queue.h:161-346).
FinalQueueLinearizable == Final!Linearizable

\* Each of the four sequential queues is a queue.  Violated by the two whose
\* pop leaves a dangling tail (t_queue.h:98, chapter_6.h:20).
IsFifo == Sequential!IsFifo

\* The two with a dummy are (t_queue.h:113-159, chapter_6.h:51-89).
DummyIsFifo == Sequential!DummyIsFifo
=============================================================================
