----------------------------- MODULE FifoQueue -----------------------------
(***************************************************************************)
(* What a thread-safe queue promises to its callers: every call takes      *)
(* effect in one indivisible step between its invocation and its return,   *)
(* on a first-in first-out sequence of values.  The fine-grained queue of  *)
(* chapter_6.h is shown to implement this module (ThreadSafeQueue.tla).    *)
(***************************************************************************)
EXTENDS Sequences

CONSTANTS
  Thread,    \* the threads that share the queue
  Value,     \* the values they push
  Calls,     \* Calls[t]: the operations thread t may call
  Nothing    \* no value: a pop that found the queue empty

PushOps == {"push", "push_cond"}
TryOps  == {"try_pop"}
WaitOps == {"wait_and_pop", "wait_and_pop_ref"}
Ops     == PushOps \cup TryOps \cup WaitOps \cup {"empty"}

VARIABLES
  items,     \* the values in the queue, oldest first
  call       \* call[t]: what thread t has asked for, and the outcome

vars == <<items, call>>

NoCall == [stage |-> "idle", op |-> "none", val |-> Nothing]

Init ==
  /\ items = <<>>
  /\ call = [t \in Thread |-> NoCall]

\* A thread with no call in progress asks for operation o.
Invoke(t, o, v) ==
  /\ call[t].stage = "idle"
  /\ o \in Calls[t]
  /\ v \in (IF o \in PushOps THEN Value ELSE {Nothing})
  /\ call' = [call EXCEPT ![t] = [stage |-> "open", op |-> o, val |-> v]]
  /\ UNCHANGED items

\* The call of thread t takes effect and has outcome v.
Finish(t, v) ==
  /\ call[t].stage = "open"
  /\ call' = [call EXCEPT ![t] = [stage |-> "done", op |-> @.op, val |-> v]]

Enqueue(t) ==
  /\ call[t].op \in PushOps
  /\ items' = Append(items, call[t].val)
  /\ Finish(t, call[t].val)

Dequeue(t) ==
  /\ call[t].op \in TryOps \cup WaitOps
  /\ items # <<>>
  /\ items' = Tail(items)
  /\ Finish(t, Head(items))

\* Only try_pop may come back without a value, and only from an empty queue.
FindEmpty(t) ==
  /\ call[t].op \in TryOps
  /\ items = <<>>
  /\ Finish(t, Nothing)
  /\ UNCHANGED items

Observe(t) ==
  /\ call[t].op = "empty"
  /\ Finish(t, items = <<>>)
  /\ UNCHANGED items

Return(t) ==
  /\ call[t].stage = "done"
  /\ call' = [call EXCEPT ![t] = NoCall]
  /\ UNCHANGED items

Next ==
  \E t \in Thread :
    \/ \E o \in Ops, v \in Value \cup {Nothing} : Invoke(t, o, v)
    \/ Enqueue(t)
    \/ Dequeue(t)
    \/ FindEmpty(t)
    \/ Observe(t)
    \/ Return(t)

Spec == Init /\ [][Next]_vars
=============================================================================
