----------------------------- MODULE FinalQueue -----------------------------
(***************************************************************************)
(* thread_queue and final_queue of t_queue.h: the list with a dummy node   *)
(* and two locks, in raw pointers.  push of thread_queue does not notify   *)
(* and its pop does not wait; push of final_queue notifies, and it has a   *)
(* pop of each kind.                                                       *)
(*                                                                         *)
(* A push writes the dummy's value, its next pointer and tail one after    *)
(* the other under tail_mutex, while a pop that read tail before goes on   *)
(* at the other end.  The result of a pop is read from its node after the  *)
(* unlock, or before head moves by the overloads with a T &; the node      *)
(* keeps its next pointer and its value until it is deleted.  A lock is    *)
(* one step with the first access it guards, an unlock with the last.      *)
(* empty returns a value from a void function and does not compile.        *)
(***************************************************************************)
EXTENDS Naturals, Sequences

CONSTANTS
  Thread,    \* the threads that share the queue
  Node,      \* the addresses the allocator may hand out, and reuse
  Value,     \* the values that are pushed
  Calls,     \* Calls[t]: the operations thread t may call
  NoThread,  \* the owner of a free mutex
  NoNode,    \* the null pointer
  Nothing    \* no value

\* The names end in _notify where the class is final_queue, and in _ref where
\* the overload takes a T &.
PushOps == {"push", "push_notify"}
TryOps  == {"try_pop", "try_pop_ref"}
WaitOps == {"wait_and_pop", "wait_and_pop_ref"}
RefOps  == {"try_pop_ref", "wait_and_pop_ref"}
Ops     == PushOps \cup TryOps \cup WaitOps

VARIABLES
  head, tail,         \* the two ends
  next, data, live,   \* the heap: node fields, and the allocated nodes
  head_mutex,         \* its owner
  tail_mutex,         \* its owner
  pc, op,             \* each thread's position, and the call it is in
  ptr, val, seen,     \* its locals: the new or detached node, value, tail read
  chain               \* history: the nodes linked before the dummy, in order

heap  == <<next, data, live>>
mutex == <<head_mutex, tail_mutex>>
vars  == <<head, tail, heap, mutex, pc, op, ptr, val, seen, chain>>

Init ==
  /\ \E dummy \in Node : head = dummy /\ tail = dummy /\ live = {dummy}
  /\ next = [n \in Node |-> NoNode]
  /\ data = [n \in Node |-> Nothing]
  /\ head_mutex = NoThread
  /\ tail_mutex = NoThread
  /\ pc = [t \in Thread |-> "idle"]
  /\ op = [t \in Thread |-> "none"]
  /\ ptr = [t \in Thread |-> NoNode]
  /\ val = [t \in Thread |-> Nothing]
  /\ seen = [t \in Thread |-> NoNode]
  /\ chain = <<>>

Goto(t, l) == pc' = [pc EXCEPT ![t] = l]

Waiting == {t \in Thread : pc[t] = "blocked"}

DropLocals(t) ==
  /\ op' = [op EXCEPT ![t] = "none"]
  /\ ptr' = [ptr EXCEPT ![t] = NoNode]
  /\ val' = [val EXCEPT ![t] = Nothing]
  /\ seen' = [seen EXCEPT ![t] = NoNode]

Return(t) == Goto(t, "idle") /\ DropLocals(t)
-----------------------------------------------------------------------------
(* push *)

CallPush(t, o, v, n) ==
  /\ pc[t] = "idle"
  /\ o \in Calls[t] \cap PushOps
  /\ n \notin live
  /\ live' = live \cup {n}
  /\ next' = [next EXCEPT ![n] = NoNode]
  /\ data' = [data EXCEPT ![n] = Nothing]
  /\ op' = [op EXCEPT ![t] = o]
  /\ ptr' = [ptr EXCEPT ![t] = n]
  /\ val' = [val EXCEPT ![t] = v]
  /\ Goto(t, "link")
  /\ UNCHANGED <<head, tail, mutex, seen, chain>>

\* tail->data = new_data, under tail_mutex
LinkData(t) ==
  /\ pc[t] = "link"
  /\ tail_mutex = NoThread
  /\ tail_mutex' = t
  /\ data' = [data EXCEPT ![tail] = val[t]]
  /\ Goto(t, "next")
  /\ UNCHANGED <<head, tail, next, live, head_mutex, op, ptr, val, seen, chain>>

\* tail->next = p.get()
LinkNext(t) ==
  /\ pc[t] = "next"
  /\ next' = [next EXCEPT ![tail] = ptr[t]]
  /\ Goto(t, "move")
  /\ UNCHANGED <<head, tail, data, live, mutex, op, ptr, val, seen, chain>>

\* tail = p.release(), and the unlock
MoveTail(t) ==
  /\ pc[t] = "move"
  /\ tail' = ptr[t]
  /\ chain' = Append(chain, tail)
  /\ tail_mutex' = NoThread
  /\ Goto(t, IF op[t] = "push_notify" THEN "notify" ELSE "return")
  /\ UNCHANGED <<head, heap, head_mutex, op, ptr, val, seen>>

\* notify_one, with no mutex held.
NotifyOne(t) ==
  /\ pc[t] = "notify"
  /\ \/ Waiting = {} /\ Goto(t, "return")
     \/ \E w \in Waiting : pc' = [pc EXCEPT ![t] = "return", ![w] = "lock"]
  /\ UNCHANGED <<head, tail, heap, mutex, op, ptr, val, seen, chain>>

ReturnPush(t) ==
  /\ pc[t] = "return"
  /\ Return(t)
  /\ UNCHANGED <<head, tail, heap, mutex, chain>>
-----------------------------------------------------------------------------
(* the pops *)

CallPop(t, o) ==
  /\ pc[t] = "idle"
  /\ o \in Calls[t] \ PushOps
  /\ op' = [op EXCEPT ![t] = o]
  /\ Goto(t, "lock")
  /\ UNCHANGED <<head, tail, heap, mutex, ptr, val, seen, chain>>

\* Mutant: get_tail is called before head_mutex is locked.
ReadsTailUnlocked(t) ==
  /\ pc[t] = "lock"
  /\ \/ /\ seen[t] = NoNode
        /\ tail_mutex = NoThread
        /\ seen' = [seen EXCEPT ![t] = tail]
        /\ UNCHANGED <<head_mutex, pc>>
     \/ /\ seen[t] # NoNode
        /\ head_mutex = NoThread
        /\ head_mutex' = t
        /\ Goto(t, "test")
        /\ UNCHANGED seen
  /\ UNCHANGED <<head, tail, heap, tail_mutex, op, ptr, val, chain>>

LockHead(t) ==
  /\ pc[t] = "lock"
  /\ head_mutex = NoThread
  /\ head_mutex' = t
  /\ Goto(t, "get_tail")
  /\ UNCHANGED <<head, tail, heap, tail_mutex, op, ptr, val, seen, chain>>

\* get_tail, which locks tail_mutex for its one read
GetTail(t) ==
  /\ pc[t] = "get_tail"
  /\ tail_mutex = NoThread
  /\ seen' = [seen EXCEPT ![t] = tail]
  /\ Goto(t, "test")
  /\ UNCHANGED <<head, tail, heap, mutex, op, ptr, val, chain>>

\* head == get_tail() in a pop that does not wait
FindEmpty(t) ==
  /\ pc[t] = "test" /\ head = seen[t]
  /\ op[t] \in TryOps
  /\ head_mutex' = NoThread
  /\ Return(t)
  /\ UNCHANGED <<head, tail, heap, tail_mutex, chain>>

\* data_cond.wait releases head_mutex and blocks, in one step.
Sleep(t) ==
  /\ pc[t] = "test" /\ head = seen[t]
  /\ op[t] \in WaitOps
  /\ head_mutex' = NoThread
  /\ seen' = [seen EXCEPT ![t] = NoNode]
  /\ Goto(t, "blocked")
  /\ UNCHANGED <<head, tail, heap, tail_mutex, op, ptr, val, chain>>

SpuriousWake(t) ==
  /\ t \in Waiting
  /\ Goto(t, "lock")
  /\ UNCHANGED <<head, tail, heap, mutex, op, ptr, val, seen, chain>>

\* head differs from the tail that was read; an overload with a T & copies the
\* value before head moves.
ReadValue(t) ==
  /\ pc[t] = "test" /\ head # seen[t]
  /\ val' = [val EXCEPT ![t] = IF op[t] \in RefOps THEN data[head] ELSE @]
  /\ seen' = [seen EXCEPT ![t] = NoNode]
  /\ Goto(t, "pop")
  /\ UNCHANGED <<head, tail, heap, mutex, op, ptr, chain>>

\* pop_head, and the unlock of head_mutex
PopHead(t) ==
  /\ pc[t] = "pop"
  /\ ptr' = [ptr EXCEPT ![t] = head]
  /\ head' = next[head]
  /\ head_mutex' = NoThread
  /\ Goto(t, "free")
  /\ chain' = SubSeq(chain, 2, Len(chain))
  /\ UNCHANGED <<tail, heap, tail_mutex, op, val, seen>>

\* The result is read from the old head, or was; the old head is deleted.
FreeOld(t) ==
  /\ pc[t] = "free"
  /\ live' = live \ {ptr[t]}
  /\ data' = [data EXCEPT ![ptr[t]] = Nothing]
  /\ next' = [next EXCEPT ![ptr[t]] = NoNode]
  /\ Return(t)
  /\ UNCHANGED <<head, tail, mutex, chain>>
-----------------------------------------------------------------------------
Step(t) ==
  \/ \E o \in PushOps, v \in Value, n \in Node : CallPush(t, o, v, n)
  \/ LinkData(t) \/ LinkNext(t) \/ MoveTail(t) \/ NotifyOne(t) \/ ReturnPush(t)
  \/ \E o \in TryOps \cup WaitOps : CallPop(t, o)
  \/ LockHead(t) \/ GetTail(t) \/ FindEmpty(t) \/ Sleep(t) \/ SpuriousWake(t)
  \/ ReadValue(t) \/ PopHead(t) \/ FreeOld(t)

Next == \E t \in Thread : Step(t)

Spec == Init /\ [][Next]_vars
-----------------------------------------------------------------------------
(* Refinement: the calls are linearizable *)

\* The values in the queue, the first to be popped first.
Items == [i \in 1..Len(chain) |-> data[chain[i]]]

\* A push takes effect as tail moves, a pop as it detaches, a pop that finds
\* nothing as it reads tail.
Effected(t) ==
  \/ pc[t] \in {"notify", "return", "free"}
  \/ pc[t] = "test" /\ op[t] \in TryOps /\ head = seen[t]

Fifo == INSTANCE FifoQueue WITH
  items <- Items,
  Calls <- [t \in Thread |->
    {IF o = "push_notify" THEN "push_cond" ELSE IF o = "try_pop_ref" THEN "try_pop"
     ELSE o : o \in Calls[t]}],
  call <- [t \in Thread |->
    [stage |-> IF pc[t] = "idle" THEN "idle" ELSE IF Effected(t) THEN "done" ELSE "open",
     op |-> IF op[t] = "push_notify" THEN "push_cond"
            ELSE IF op[t] = "try_pop_ref" THEN "try_pop" ELSE op[t],
     val |-> CASE pc[t] = "pop" -> Nothing
               [] pc[t] = "free" /\ op[t] \notin RefOps -> data[ptr[t]]
               [] OTHER -> val[t]]]

\* Every call takes effect at one instant on a first-in first-out sequence,
\* although the two ends have different mutexes, a push fills the last node
\* while a pop is at work, and a result is read after the unlock, from a node
\* that is deleted next (t_queue.h:161-346).
Linearizable == Fifo!Spec
=============================================================================
