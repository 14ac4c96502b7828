-------------------------- MODULE ThreadSafeQueue --------------------------
(***************************************************************************)
(* thread_safe_queue of chapter_6.h: a linked list whose last node is a    *)
(* dummy, one mutex for each end, and a condition variable for the popping *)
(* end.  Pushing threads fill the dummy and link a fresh one under         *)
(* tail_mutex; popping threads detach the first node under head_mutex and  *)
(* read _tail, under tail_mutex, only to compare it.                       *)
(*                                                                         *)
(* One step is one access to shared memory, or one operation on a mutex or *)
(* the condition variable, with the thread-local work around it.  The      *)
(* overload pop_head() without argument, and so try_pop() without          *)
(* argument, assigns to _head.get() (line 174): it does not compile when   *)
(* it is instantiated, so no step stands for it.                           *)
(***************************************************************************)
EXTENDS Naturals, Sequences, FiniteSets

CONSTANTS
  Thread,    \* the threads that share the queue
  Node,      \* the addresses the allocator may hand out, and reuse
  Value,     \* the values that are pushed
  Calls,     \* Calls[t]: the operations thread t may call
  NoThread,  \* the owner of a free mutex
  NoNode,    \* the null pointer
  Nothing    \* no value: a null data pointer, a moved-from value, a failed pop

PushOps  == {"push", "push_cond"}
WaitOps  == {"wait_and_pop", "wait_and_pop_ref"}
RefPops  == {"try_pop", "wait_and_pop_ref"}   \* the overloads that take T &
PopOps   == {"try_pop"} \cup WaitOps
Ops      == PushOps \cup PopOps \cup {"empty"}

ASSUME QueueAssumption ==
  /\ NoThread \notin Thread
  /\ NoNode \notin Node
  /\ Nothing \notin Value
  /\ Value \cap BOOLEAN = {}
  /\ Calls \in [Thread -> SUBSET Ops]

VARIABLES
  head, tail,              \* _head and _tail
  next, data, live,        \* the heap: node fields, and the allocated nodes
  head_mutex, tail_mutex,  \* the owner of each mutex
  pc, op,                  \* each thread's position, and the call it is in
  ptr, val, seen,          \* its locals: p or old_head, value, get_tail()
  chain                    \* history: the nodes from _head to _tail, in order

shared == <<head, tail, next, data, live>>
sync   == <<head_mutex, tail_mutex>>
local  == <<op, ptr, val, seen>>
vars   == <<shared, sync, pc, local, chain>>

Goto(t, l) == pc' = [pc EXCEPT ![t] = l]

Init ==
  /\ \E dummy \in Node :
       /\ head = dummy
       /\ tail = dummy
       /\ live = {dummy}
       /\ chain = <<dummy>>
  /\ next = [n \in Node |-> NoNode]
  /\ data = [n \in Node |-> Nothing]
  /\ head_mutex = NoThread
  /\ tail_mutex = NoThread
  /\ pc = [t \in Thread |-> "idle"]
  /\ op = [t \in Thread |-> "none"]
  /\ ptr = [t \in Thread |-> NoNode]
  /\ val = [t \in Thread |-> Nothing]
  /\ seen = [t \in Thread |-> NoNode]

\* The threads blocked in data_cond.wait.
Waiting == {t \in Thread : pc[t] = "blocked"}

\* The locals of thread t go out of scope as its call returns.
DropLocals(t) ==
  /\ op' = [op EXCEPT ![t] = "none"]
  /\ ptr' = [ptr EXCEPT ![t] = NoNode]
  /\ val' = [val EXCEPT ![t] = Nothing]
  /\ seen' = [seen EXCEPT ![t] = NoNode]

Return(t) == Goto(t, "idle") /\ DropLocals(t)
-----------------------------------------------------------------------------
(* push and push_cond *)

\* new_data and p are made before the lock is asked for.
CallPush(t, o, v, n) ==
  /\ pc[t] = "idle"
  /\ o \in Calls[t] \cap PushOps
  /\ n \notin live
  /\ live' = live \cup {n}
  /\ next' = [next EXCEPT ![n] = NoNode]
  /\ data' = [data EXCEPT ![n] = Nothing]
  /\ op' = [op EXCEPT ![t] = o]
  /\ ptr' = [ptr EXCEPT ![t] = n]
  /\ val' = [val EXCEPT ![t] = v]
  /\ Goto(t, "lock_tail")
  /\ UNCHANGED <<head, tail, sync, seen, chain>>

\* Mutant: push has no tail_lock.
PushesUnlocked(t) ==
  /\ pc[t] = "lock_tail"
  /\ Goto(t, "set_data")
  /\ UNCHANGED <<shared, sync, local, chain>>

LockTail(t) ==
  /\ pc[t] = "lock_tail"
  /\ tail_mutex = NoThread
  /\ tail_mutex' = t
  /\ Goto(t, "set_data")
  /\ UNCHANGED <<shared, head_mutex, local, chain>>

\* Mutant: the value goes into the fresh dummy instead of the old one.
FillsFreshNode(t) ==
  /\ pc[t] = "set_data"
  /\ data' = [data EXCEPT ![ptr[t]] = val[t]]
  /\ Goto(t, "set_next")
  /\ UNCHANGED <<head, tail, next, live, sync, local, chain>>

SetData(t) ==
  /\ pc[t] = "set_data"
  /\ data' = [data EXCEPT ![tail] = val[t]]
  /\ Goto(t, "set_next")
  /\ UNCHANGED <<head, tail, next, live, sync, local, chain>>

\* Mutant: the old dummy is never linked to the new one.
ForgetsLink(t) ==
  /\ pc[t] = "set_next"
  /\ Goto(t, "set_tail")
  /\ UNCHANGED <<shared, sync, local, chain>>

SetNext(t) ==
  /\ pc[t] = "set_next"
  /\ next' = [next EXCEPT ![tail] = ptr[t]]
  /\ Goto(t, "set_tail")
  /\ UNCHANGED <<head, tail, data, live, sync, local, chain>>

SetTail(t) ==
  /\ pc[t] = "set_tail"
  /\ tail' = ptr[t]
  /\ chain' = Append(chain, ptr[t])
  /\ Goto(t, "unlock_tail")
  /\ UNCHANGED <<head, next, data, live, sync, local>>

\* push returns here; push_cond goes on to notify, holding no mutex.
UnlockTail(t) ==
  /\ pc[t] = "unlock_tail"
  /\ tail_mutex' = NoThread
  /\ \/ /\ op[t] = "push"
        /\ Return(t)
     \/ /\ op[t] = "push_cond"
        /\ Goto(t, "notify")
        /\ UNCHANGED local
  /\ UNCHANGED <<shared, head_mutex, chain>>

\* notify_one wakes one blocked thread, which then competes for head_mutex;
\* it is lost when no thread is blocked.
NotifyOne(t) ==
  /\ pc[t] = "notify"
  /\ \/ Waiting = {} /\ Goto(t, "idle")
     \/ \E w \in Waiting :
          pc' = [pc EXCEPT ![t] = "idle", ![w] = "lock_head"]
  /\ DropLocals(t)
  /\ UNCHANGED <<shared, sync, chain>>
-----------------------------------------------------------------------------
(* try_pop, wait_and_pop and empty *)

CallPop(t, o) ==
  /\ pc[t] = "idle"
  /\ o \in Calls[t] \ PushOps
  /\ op' = [op EXCEPT ![t] = o]
  /\ Goto(t, "lock_head")
  /\ UNCHANGED <<shared, sync, ptr, val, seen, chain>>

LockHead(t) ==
  /\ pc[t] = "lock_head"
  /\ head_mutex = NoThread
  /\ head_mutex' = t
  /\ Goto(t, "get_tail")
  /\ UNCHANGED <<shared, tail_mutex, local, chain>>

\* get_tail locks tail_mutex for one read: one step, taken while it is free.
GetTail(t) ==
  /\ pc[t] = "get_tail"
  /\ tail_mutex = NoThread
  /\ seen' = [seen EXCEPT ![t] = tail]
  /\ Goto(t, "test")
  /\ UNCHANGED <<shared, sync, op, ptr, val, chain>>

\* The list looked non-empty: go on to take the first value.
FindNode(t) ==
  /\ pc[t] = "test"
  /\ op[t] \in PopOps
  /\ head # seen[t]
  /\ Goto(t, IF op[t] \in RefPops THEN "take" ELSE "pop")
  /\ UNCHANGED <<shared, sync, local, chain>>

\* Mutant: the early return of pop_head leaves head_mutex locked.
KeepsHeadMutex(t) ==
  /\ pc[t] = "test"
  /\ op[t] = "empty" \/ (op[t] = "try_pop" /\ head = seen[t])
  /\ Return(t)
  /\ UNCHANGED <<shared, sync, chain>>

\* try_pop found nothing, or empty has its answer: release and return.
GiveUp(t) ==
  /\ pc[t] = "test"
  /\ op[t] = "empty" \/ (op[t] = "try_pop" /\ head = seen[t])
  /\ head_mutex' = NoThread
  /\ Return(t)
  /\ UNCHANGED <<shared, tail_mutex, chain>>

\* data_cond.wait releases head_mutex and blocks, in one step.
Sleep(t) ==
  /\ pc[t] = "test"
  /\ op[t] \in WaitOps
  /\ head = seen[t]
  /\ head_mutex' = NoThread
  /\ seen' = [seen EXCEPT ![t] = NoNode]
  /\ Goto(t, "blocked")
  /\ UNCHANGED <<shared, tail_mutex, op, ptr, val, chain>>

\* wait may also return unnotified; the predicate loop tests again.
SpuriousWake(t) ==
  /\ t \in Waiting
  /\ Goto(t, "lock_head")
  /\ UNCHANGED <<shared, sync, local, chain>>

\* value = move(*_head->data)
Take(t) ==
  /\ pc[t] = "take"
  /\ val' = [val EXCEPT ![t] = data[head]]
  /\ data' = [data EXCEPT ![head] = Nothing]
  /\ Goto(t, "pop")
  /\ UNCHANGED <<head, tail, next, live, sync, op, ptr, seen, chain>>

\* pop_head_cond moves _head and then old_head->next, and head_mutex is
\* released as the caller returns.
PopHead(t) ==
  /\ pc[t] = "pop"
  /\ ptr' = [ptr EXCEPT ![t] = head]
  /\ head' = next[head]
  /\ next' = [next EXCEPT ![head] = NoNode]
  /\ chain' = Tail(chain)
  /\ head_mutex' = NoThread
  /\ Goto(t, "free")
  /\ UNCHANGED <<tail, data, live, tail_mutex, op, val, seen>>

\* Mutant: old_head is released, as a plain pointer, and never deleted.
LeaksOldHead(t) ==
  /\ pc[t] = "free"
  /\ Return(t)
  /\ UNCHANGED <<shared, sync, chain>>

\* The result is read from old_head where T & is not used; old_head is
\* destroyed as the call returns.
FreeOld(t) ==
  /\ pc[t] = "free"
  /\ live' = live \ {ptr[t]}
  /\ data' = [data EXCEPT ![ptr[t]] = Nothing]
  /\ Return(t)
  /\ UNCHANGED <<head, tail, next, sync, chain>>
-----------------------------------------------------------------------------
Push(t) ==
  \/ LockTail(t) \/ SetData(t) \/ SetNext(t) \/ SetTail(t) \/ UnlockTail(t)
  \/ NotifyOne(t)

Pop(t) ==
  \/ LockHead(t) \/ GetTail(t) \/ FindNode(t) \/ GiveUp(t) \/ Sleep(t)
  \/ Take(t) \/ PopHead(t) \/ FreeOld(t)

Step(t) ==
  \/ \E o \in PushOps, v \in Value, n \in Node : CallPush(t, o, v, n)
  \/ \E o \in Ops : CallPop(t, o)
  \/ Push(t)
  \/ Pop(t)
  \/ SpuriousWake(t)

Next == \E t \in Thread : Step(t)

Spec == Init /\ [][Next]_vars

\* A call in progress goes on running, and a thread that keeps asking for a
\* mutex that is released again and again gets it in the end.  Whether a
\* thread makes another call is its own choice, and spurious wake-ups need
\* never happen.
Fairness == \A t \in Thread : SF_vars(Push(t) \/ Pop(t))

FairSpec == Spec /\ Fairness
-----------------------------------------------------------------------------
(* Type invariant *)

Positions ==
  {"idle", "lock_tail", "set_data", "set_next", "set_tail", "unlock_tail",
   "notify", "lock_head", "get_tail", "test", "blocked", "take", "pop", "free"}

\* Every variable keeps its type; in particular _head and _tail are never
\* null outside pop_head_cond (chapter_6.h:189-193).
TypeOK ==
  /\ head \in Node
  /\ tail \in Node
  /\ next \in [Node -> Node \cup {NoNode}]
  /\ data \in [Node -> Value \cup {Nothing}]
  /\ live \in SUBSET Node
  /\ head_mutex \in Thread \cup {NoThread}
  /\ tail_mutex \in Thread \cup {NoThread}
  /\ pc \in [Thread -> Positions]
  /\ op \in [Thread -> Ops \cup {"none"}]
  /\ ptr \in [Thread -> Node \cup {NoNode}]
  /\ val \in [Thread -> Value \cup {Nothing}]
  /\ seen \in [Thread -> Node \cup {NoNode}]
  /\ chain \in Seq(Node)
-----------------------------------------------------------------------------
(* Data races: the memory the next step of a thread reads and writes *)

HEAD == <<"_head", NoNode>>
TAIL == <<"_tail", NoNode>>

Writes(t) ==
  CASE pc[t] = "set_data" -> {<<"data", tail>>}
    [] pc[t] = "set_next" -> {<<"next", tail>>}
    [] pc[t] = "set_tail" -> {TAIL}
    [] pc[t] = "take"     -> {<<"data", head>>}
    [] pc[t] = "pop"      -> {HEAD, <<"next", head>>}
    [] pc[t] = "free"     -> {<<"data", ptr[t]>>, <<"next", ptr[t]>>}
    [] OTHER              -> {}

Reads(t) ==
  CASE pc[t] \in {"set_data", "set_next"}               -> {TAIL}
    [] pc[t] = "get_tail" /\ tail_mutex = NoThread      -> {TAIL}
    [] pc[t] \in {"test", "take", "pop"}                -> {HEAD}
    [] OTHER                                            -> {}

\* Two threads are never about to access the same memory, one of them
\* writing: the dummy node keeps pushes and pops apart although they hold
\* different mutexes (chapter_6.h:52 and 70-72 give this as the design).
NoDataRace ==
  \A t \in Thread : \A u \in Thread \ {t} :
    Writes(t) \cap (Reads(u) \cup Writes(u)) = {}
-----------------------------------------------------------------------------
(* The structure of the list *)

InChain == {chain[i] : i \in 1..Len(chain)}

\* A first value has been moved out of a node that is still linked.
Taken == \E t \in Thread : pc[t] = "pop" /\ op[t] \in RefPops

\* The pointers lead from _head to _tail through distinct nodes, and every
\* node before the dummy carries a value until the thread that holds
\* head_mutex moves it out.
Linked ==
  /\ Len(chain) > 0
  /\ head = chain[1]
  /\ tail = chain[Len(chain)]
  /\ \A i, j \in 1..Len(chain) : chain[i] = chain[j] => i = j
  /\ \A i \in 1..(Len(chain) - 1) :
       /\ next[chain[i]] = chain[i + 1]
       /\ data[chain[i]] = Nothing => i = 1 /\ Taken

\* The nodes owned by a call in progress: p before it is linked, old_head
\* after it is detached.
Private == {t \in Thread : pc[t] \in {"lock_tail", "set_data", "set_next",
                                      "set_tail", "free"}}

\* Every allocated node is linked or owned by exactly one call, and no call
\* holds a freed node: nothing leaks, dangles or is freed twice.
HeapExact ==
  /\ live = InChain \cup {ptr[t] : t \in Private}
  /\ \A t \in Private :
       /\ ptr[t] \notin InChain
       /\ \A u \in Private \ {t} : ptr[t] # ptr[u]
-----------------------------------------------------------------------------
(* Refinement: the calls are linearizable *)

\* The values in the queue: those of the nodes before the dummy.
Items ==
  LET moved == IF Taken THEN 1 ELSE 0
  IN  [i \in 1..(Len(chain) - 1 - moved) |-> data[chain[i + moved]]]

\* The call of thread t has taken effect: push when _tail moves, a pop when
\* its value leaves the list, a failed try_pop and empty when they read _tail.
Effected(t) ==
  \/ pc[t] \in {"unlock_tail", "notify", "free"}
  \/ pc[t] = "pop" /\ op[t] \in RefPops
  \/ pc[t] = "test" /\ op[t] = "empty"
  \/ pc[t] = "test" /\ op[t] = "try_pop" /\ head = seen[t]

Stage(t) ==
  IF pc[t] = "idle" THEN "idle" ELSE IF Effected(t) THEN "done" ELSE "open"

Outcome(t) ==
  IF pc[t] = "test" /\ op[t] = "empty" THEN head = seen[t]
  ELSE IF pc[t] = "free" /\ op[t] = "wait_and_pop" THEN data[ptr[t]]
  ELSE val[t]

Call == [t \in Thread |-> [stage |-> Stage(t), op |-> op[t], val |-> Outcome(t)]]

Fifo == INSTANCE FifoQueue WITH items <- Items, call <- Call

\* Every call takes effect at one instant between its start and its end, on
\* a first-in first-out sequence: nothing is lost, duplicated or reordered,
\* and try_pop fails only on a queue that was empty (chapter_6.h:101-150).
Linearizable == Fifo!Spec
-----------------------------------------------------------------------------
(* Liveness *)

\* push, push_cond, try_pop and empty always return: neither end of the
\* queue can block the other for good, whatever the other threads do.
CallsReturn ==
  \A t \in Thread :
    (op[t] \in Ops \ WaitOps) ~> (pc[t] = "idle")

\* A thread blocked in wait_and_pop while the queue holds a value is woken,
\* unless another thread takes the value (chapter_6.h:126-128 and 142: the
\* notification of push_cond is what the waiting pop relies on).
ValueWakesWaiter ==
  \A t \in Thread :
    (pc[t] = "blocked" /\ Items # <<>>) ~> (pc[t] # "blocked" \/ Items = <<>>)
=============================================================================
