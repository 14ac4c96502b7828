---------------------------- MODULE CoarseQueue ----------------------------
(***************************************************************************)
(* t_queue of t_queue.h: a std::queue, one mutex around every operation,   *)
(* and a condition variable that push notifies with the mutex held.        *)
(*                                                                         *)
(* The copies and empty lock a mutex that is const there, and do not       *)
(* compile when they are instantiated.  try_pop(T &) flows off its end     *)
(* after it has taken a value (line 28): which bool it returns is          *)
(* undefined, and left out here; the value is in its argument.             *)
(***************************************************************************)
EXTENDS Naturals, Sequences, FiniteSets

CONSTANTS
  Thread,    \* the threads that share the queue
  Value,     \* the values they push
  Calls,     \* Calls[t]: the operations thread t may call
  MaxItems,  \* the bound on the values in the queue and in calls of push
  NoThread,  \* the owner of a free mutex
  Nothing    \* no value

Ops == {"push", "try_pop", "wait_and_pop"}

ASSUME CoarseAssumption ==
  /\ IsFiniteSet(Thread)
  /\ NoThread \notin Thread
  /\ Nothing \notin Value
  /\ Calls \in [Thread -> SUBSET Ops]
  /\ MaxItems \in Nat

VARIABLES
  mut,         \* the owner of the mutex
  data_queue,  \* the values, the front first
  pc, op,      \* each thread's position, and the call it is in
  val          \* its value, new or taken

vars == <<mut, data_queue, pc, op, val>>

Goto(t, l) == pc' = [pc EXCEPT ![t] = l]

Init ==
  /\ mut = NoThread
  /\ data_queue = <<>>
  /\ pc = [t \in Thread |-> "idle"]
  /\ op = [t \in Thread |-> "none"]
  /\ val = [t \in Thread |-> Nothing]

\* The threads blocked in data_cond.wait.
Waiting == {t \in Thread : pc[t] = "blocked"}

Pushing == {t \in Thread : op[t] = "push" /\ pc[t] \in {"lock", "access"}}
-----------------------------------------------------------------------------
Call(t, o, v) ==
  /\ pc[t] = "idle"
  /\ o \in Calls[t]
  /\ IF o = "push" THEN v \in Value /\ Len(data_queue) + Cardinality(Pushing) < MaxItems
                   ELSE v = Nothing
  /\ op' = [op EXCEPT ![t] = o]
  /\ val' = [val EXCEPT ![t] = v]
  /\ Goto(t, "lock")
  /\ UNCHANGED <<mut, data_queue>>

Lock(t) ==
  /\ pc[t] = "lock"
  /\ mut = NoThread
  /\ mut' = t
  /\ Goto(t, "access")
  /\ UNCHANGED <<data_queue, op, val>>

Push(t) ==
  /\ pc[t] = "access"
  /\ op[t] = "push"
  /\ data_queue' = Append(data_queue, val[t])
  /\ Goto(t, "notify")
  /\ UNCHANGED <<mut, op, val>>

\* Mutant: push notifies only when it has ended an empty queue.
NotifiesFirstOnly(t) ==
  /\ pc[t] = "notify"
  /\ \/ /\ Waiting = {} \/ Len(data_queue) > 1
        /\ Goto(t, "unlock")
     \/ \E w \in Waiting :
          /\ Len(data_queue) = 1
          /\ pc' = [pc EXCEPT ![t] = "unlock", ![w] = "lock"]
  /\ UNCHANGED <<mut, data_queue, op, val>>

\* notify_one wakes one blocked thread, which asks for the mutex again.
NotifyOne(t) ==
  /\ pc[t] = "notify"
  /\ \/ /\ Waiting = {}
        /\ Goto(t, "unlock")
     \/ \E w \in Waiting : pc' = [pc EXCEPT ![t] = "unlock", ![w] = "lock"]
  /\ UNCHANGED <<mut, data_queue, op, val>>

\* Mutant: the value is read and never popped.
ReadsOnly(t) ==
  /\ pc[t] = "access"
  /\ op[t] \in {"try_pop", "wait_and_pop"}
  /\ data_queue # <<>>
  /\ val' = [val EXCEPT ![t] = Head(data_queue)]
  /\ Goto(t, "unlock")
  /\ UNCHANGED <<mut, data_queue, op>>

\* The value is copied from the front and popped.
Take(t) ==
  /\ pc[t] = "access"
  /\ op[t] \in {"try_pop", "wait_and_pop"}
  /\ data_queue # <<>>
  /\ val' = [val EXCEPT ![t] = Head(data_queue)]
  /\ data_queue' = Tail(data_queue)
  /\ Goto(t, "unlock")
  /\ UNCHANGED <<mut, op>>

\* try_pop on an empty queue
GiveUp(t) ==
  /\ pc[t] = "access"
  /\ op[t] = "try_pop"
  /\ data_queue = <<>>
  /\ Goto(t, "unlock")
  /\ UNCHANGED <<mut, data_queue, op, val>>

\* data_cond.wait releases the mutex and blocks, in one step.
Sleep(t) ==
  /\ pc[t] = "access"
  /\ op[t] = "wait_and_pop"
  /\ data_queue = <<>>
  /\ mut' = NoThread
  /\ Goto(t, "blocked")
  /\ UNCHANGED <<data_queue, op, val>>

\* wait may also return unnotified; the predicate is tested again.
SpuriousWake(t) ==
  /\ t \in Waiting
  /\ Goto(t, "lock")
  /\ UNCHANGED <<mut, data_queue, op, val>>

Return(t) ==
  /\ pc[t] = "unlock"
  /\ mut' = NoThread
  /\ Goto(t, "idle")
  /\ op' = [op EXCEPT ![t] = "none"]
  /\ val' = [val EXCEPT ![t] = Nothing]
  /\ UNCHANGED data_queue
-----------------------------------------------------------------------------
Proceed(t) ==
  \/ Lock(t) \/ Push(t) \/ NotifyOne(t) \/ Take(t) \/ GiveUp(t) \/ Sleep(t)
  \/ Return(t)

Next ==
  \E t \in Thread :
    \/ \E o \in Ops, v \in Value \cup {Nothing} : Call(t, o, v)
    \/ Proceed(t)
    \/ SpuriousWake(t)

Spec == Init /\ [][Next]_vars
-----------------------------------------------------------------------------
\* Every variable keeps its type, and a thread between lock and unlock owns
\* the mutex.
TypeOK ==
  /\ mut \in Thread \cup {NoThread}
  /\ data_queue \in Seq(Value)
  /\ pc \in [Thread -> {"idle", "lock", "access", "notify", "unlock", "blocked"}]
  /\ op \in [Thread -> Ops \cup {"none"}]
  /\ val \in [Thread -> Value \cup {Nothing}]
  /\ \A t \in Thread : pc[t] \in {"access", "notify", "unlock"} <=> mut = t

\* The threads that will test the queue for a value to wait for.
Awake == {t \in Thread : op[t] = "wait_and_pop" /\ pc[t] \in {"lock", "access"}}

\* While a thread is blocked, somebody is on the way to every value in the
\* queue: a thread that is awake, or the push about to notify.  This is what
\* keeps a notification from being lost, and what thread_safe_queue of
\* chapter_6.h gives up (t_queue.h:16-20 and 40-47).
NoValueForgotten ==
  Waiting # {} =>
    Len(data_queue) <=
      Cardinality(Awake) + Cardinality({t \in Thread : pc[t] = "notify"})

Fifo == INSTANCE FifoQueue WITH
  items <- data_queue,
  call <- [t \in Thread |->
    [stage |-> CASE pc[t] = "idle" -> "idle"
                 [] pc[t] \in {"notify", "unlock"} -> "done"
                 [] OTHER -> "open",
     op |-> op[t], val |-> val[t]]]

\* Every call takes effect at one instant on a first-in first-out sequence
\* (t_queue.h:16-57).
Linearizable == Fifo!Spec
=============================================================================
