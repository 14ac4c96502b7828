---------------------------- MODULE HazardStack ----------------------------
(***************************************************************************)
(* The lock-free stack of t_stack.h with the pop that reclaims its nodes   *)
(* by hazard pointers.  The class declares a second pop of the same        *)
(* signature, which counts threads; that one is not modelled here.         *)
(*                                                                         *)
(* One step is one access to an atomic, or to a field of a node that       *)
(* another thread might reach.  A compare_exchange_weak that fails for no  *)
(* reason changes nothing and is not a step.  The functions on hazard      *)
(* pointers and on the nodes to reclaim are called but not defined in the  *)
(* repository: they are modelled by the use pop makes of them, each asked  *)
(* and answered in one step.                                               *)
(***************************************************************************)
EXTENDS Naturals, Sequences

CONSTANTS
  Thread,    \* the threads that share the stack
  Node,      \* the addresses the allocator may hand out, and reuse
  Value,     \* the values that are pushed
  Calls,     \* Calls[t]: the operations thread t may call
  Null,      \* the null pointer
  Nothing    \* no value: a null shared_ptr

ASSUME StackAssumption ==
  /\ Null \notin Node
  /\ Nothing \notin Value
  /\ Calls \in [Thread -> SUBSET {"push", "pop"}]

VARIABLES
  head,              \* the top of the stack
  next, data, live,  \* the heap: node fields, and the allocated nodes
  hazard,            \* the hazard pointer of each thread
  retired,           \* the nodes handed to reclaim_later
  pc, op,            \* each thread's position, and the call it is in
  node, after, val,  \* its locals: new_node or old_head, old_head->next, res
  chain              \* history: the nodes on the stack, the top first

heap  == <<next, data, live>>
local == <<op, node, after, val>>
vars  == <<head, heap, hazard, retired, pc, local, chain>>

Goto(t, l) == pc' = [pc EXCEPT ![t] = l]

\* The class has no constructor: head is null when the stack is an object of
\* static storage.
Init ==
  /\ head = Null
  /\ next = [n \in Node |-> Null]
  /\ data = [n \in Node |-> Nothing]
  /\ live = {}
  /\ hazard = [t \in Thread |-> Null]
  /\ retired = {}
  /\ pc = [t \in Thread |-> "idle"]
  /\ op = [t \in Thread |-> "none"]
  /\ node = [t \in Thread |-> Null]
  /\ after = [t \in Thread |-> Null]
  /\ val = [t \in Thread |-> Nothing]
  /\ chain = <<>>

Return(t) ==
  /\ Goto(t, "idle")
  /\ op' = [op EXCEPT ![t] = "none"]
  /\ node' = [node EXCEPT ![t] = Null]
  /\ after' = [after EXCEPT ![t] = Null]
  /\ val' = [val EXCEPT ![t] = Nothing]
-----------------------------------------------------------------------------
(* push *)

CallPush(t, v, n) ==
  /\ pc[t] = "idle"
  /\ "push" \in Calls[t]
  /\ n \notin live
  /\ live' = live \cup {n}
  /\ data' = [data EXCEPT ![n] = v]
  /\ op' = [op EXCEPT ![t] = "push"]
  /\ node' = [node EXCEPT ![t] = n]
  /\ val' = [val EXCEPT ![t] = v]
  /\ Goto(t, "load_next")
  /\ UNCHANGED <<head, next, hazard, retired, after, chain>>

\* new_node->next = head.load()
LoadNext(t) ==
  /\ pc[t] = "load_next"
  /\ next' = [next EXCEPT ![node[t]] = head]
  /\ Goto(t, "push_cas")
  /\ UNCHANGED <<head, data, live, hazard, retired, local, chain>>

\* head.compare_exchange_weak(new_node->next, new_node) succeeds.
PushNode(t) ==
  /\ pc[t] = "push_cas"
  /\ head = next[node[t]]
  /\ head' = node[t]
  /\ chain' = <<node[t]>> \o chain
  /\ Goto(t, "pushed")
  /\ UNCHANGED <<heap, hazard, retired, local>>

\* It fails, and leaves head in new_node->next.
PushRetry(t) ==
  /\ pc[t] = "push_cas"
  /\ head # next[node[t]]
  /\ next' = [next EXCEPT ![node[t]] = head]
  /\ UNCHANGED <<head, data, live, hazard, retired, pc, local, chain>>

PushReturns(t) ==
  /\ pc[t] = "pushed"
  /\ Return(t)
  /\ UNCHANGED <<head, heap, hazard, retired, chain>>
-----------------------------------------------------------------------------
(* pop *)

CallPop(t) ==
  /\ pc[t] = "idle"
  /\ "pop" \in Calls[t]
  /\ op' = [op EXCEPT ![t] = "pop"]
  /\ Goto(t, "load_head")
  /\ UNCHANGED <<head, heap, hazard, retired, node, after, val, chain>>

\* old_head = head.load()
LoadHead(t) ==
  /\ pc[t] = "load_head"
  /\ node' = [node EXCEPT ![t] = head]
  /\ Goto(t, "protect")
  /\ UNCHANGED <<head, heap, hazard, retired, op, after, val, chain>>

\* temp = old_head; hp.store(old_head)
Protect(t) ==
  /\ pc[t] = "protect"
  /\ hazard' = [hazard EXCEPT ![t] = node[t]]
  /\ Goto(t, "recheck")
  /\ UNCHANGED <<head, heap, retired, local, chain>>

\* Mutant: the inner loop does not read head again.
TrustsFirstLoad(t) ==
  /\ pc[t] = "recheck"
  /\ Goto(t, IF node[t] = Null THEN "unprotect" ELSE "read_next")
  /\ UNCHANGED <<head, heap, hazard, retired, local, chain>>

\* old_head = head.load() gives temp again: the node cannot be freed from
\* now on.  A null head ends the outer loop as well.
Recheck(t) ==
  /\ pc[t] = "recheck"
  /\ head = node[t]
  /\ Goto(t, IF node[t] = Null THEN "unprotect" ELSE "read_next")
  /\ UNCHANGED <<head, heap, hazard, retired, local, chain>>

\* It gives another node: while (old_head != temp).
Reload(t) ==
  /\ pc[t] = "recheck"
  /\ head # node[t]
  /\ node' = [node EXCEPT ![t] = head]
  /\ Goto(t, "protect")
  /\ UNCHANGED <<head, heap, hazard, retired, op, after, val, chain>>

\* old_head->next, the argument of compare_exchange_strong
ReadNext(t) ==
  /\ pc[t] = "read_next"
  /\ after' = [after EXCEPT ![t] = next[node[t]]]
  /\ Goto(t, "pop_cas")
  /\ UNCHANGED <<head, heap, hazard, retired, op, node, val, chain>>

\* head.compare_exchange_strong(old_head, old_head->next) succeeds.
PopNode(t) ==
  /\ pc[t] = "pop_cas"
  /\ head = node[t]
  /\ head' = after[t]
  /\ after' = [after EXCEPT ![t] = Null]
  /\ chain' = Tail(chain)
  /\ Goto(t, "unprotect")
  /\ UNCHANGED <<heap, hazard, retired, op, node, val>>

\* Mutant: a failed exchange goes back without the head it has found.
RetriesSameNode(t) ==
  /\ pc[t] = "pop_cas"
  /\ head # node[t]
  /\ after' = [after EXCEPT ![t] = Null]
  /\ Goto(t, "read_next")
  /\ UNCHANGED <<head, heap, hazard, retired, op, node, val, chain>>

\* It fails, and leaves head in old_head; the outer loop runs again.
PopRetry(t) ==
  /\ pc[t] = "pop_cas"
  /\ head # node[t]
  /\ node' = [node EXCEPT ![t] = head]
  /\ after' = [after EXCEPT ![t] = Null]
  /\ Goto(t, "protect")
  /\ UNCHANGED <<head, heap, hazard, retired, op, val, chain>>

\* hp.store(nullptr)
Unprotect(t) ==
  /\ pc[t] = "unprotect"
  /\ hazard' = [hazard EXCEPT ![t] = Null]
  /\ Goto(t, IF node[t] = Null THEN "popped" ELSE "swap")
  /\ UNCHANGED <<head, heap, retired, local, chain>>

\* res.swap(old_head->data)
SwapData(t) ==
  /\ pc[t] = "swap"
  /\ val' = [val EXCEPT ![t] = data[node[t]]]
  /\ data' = [data EXCEPT ![node[t]] = Nothing]
  /\ Goto(t, "scan")
  /\ UNCHANGED <<head, next, live, hazard, retired, op, node, after, chain>>

\* The contents of a deleted node are gone.
Free(nodes) ==
  /\ live' = live \ nodes
  /\ next' = [n \in Node |-> IF n \in nodes THEN Null ELSE next[n]]
  /\ data' = [n \in Node |-> IF n \in nodes THEN Nothing ELSE data[n]]

Hazardous(n) == \E t \in Thread : hazard[t] = n

\* Mutant: the node is freed although a hazard pointer refers to it.
DeletesAnyway(t) ==
  /\ pc[t] = "scan"
  /\ Free({node[t]})
  /\ Goto(t, "sweep")
  /\ UNCHANGED <<head, hazard, retired, local, chain>>

\* outstanding_hazard_pointers_for(old_head) is false: delete old_head.
DeleteNode(t) ==
  /\ pc[t] = "scan"
  /\ ~Hazardous(node[t])
  /\ Free({node[t]})
  /\ Goto(t, "sweep")
  /\ UNCHANGED <<head, hazard, retired, local, chain>>

\* Mutant: a node some thread protects is forgotten.
ForgetsProtected(t) ==
  /\ pc[t] = "scan"
  /\ Hazardous(node[t])
  /\ Goto(t, "sweep")
  /\ UNCHANGED <<head, heap, hazard, retired, local, chain>>

\* It is true: reclaim_later(old_head).
ReclaimLater(t) ==
  /\ pc[t] = "scan"
  /\ Hazardous(node[t])
  /\ retired' = retired \cup {node[t]}
  /\ Goto(t, "sweep")
  /\ UNCHANGED <<head, heap, hazard, local, chain>>

\* delete_nodes_with_no_hazards()
DeleteNodes(t) ==
  /\ pc[t] = "sweep"
  /\ retired' = {n \in retired : Hazardous(n)}
  /\ Free({n \in retired : ~Hazardous(n)})
  /\ Goto(t, "popped")
  /\ UNCHANGED <<head, hazard, local, chain>>

PopReturns(t) ==
  /\ pc[t] = "popped"
  /\ Return(t)
  /\ UNCHANGED <<head, heap, hazard, retired, chain>>
-----------------------------------------------------------------------------
Call(t) ==
  \/ \E v \in Value, n \in Node : CallPush(t, v, n)
  \/ CallPop(t)

Proceed(t) ==
  \/ LoadNext(t) \/ PushNode(t) \/ PushRetry(t) \/ PushReturns(t)
  \/ LoadHead(t) \/ Protect(t) \/ Recheck(t) \/ Reload(t) \/ ReadNext(t)
  \/ PopNode(t) \/ PopRetry(t) \/ Unprotect(t) \/ SwapData(t)
  \/ DeleteNode(t) \/ ReclaimLater(t) \/ DeleteNodes(t) \/ PopReturns(t)

Next == \E t \in Thread : Call(t) \/ Proceed(t)

Spec == Init /\ [][Next]_vars

\* A call in progress goes on running; nothing in it ever waits.
Fairness == \A t \in Thread : WF_vars(Proceed(t))

FairSpec == Spec /\ Fairness
-----------------------------------------------------------------------------
\* The threads that are about to read or write a field of node[t].
Dereferencing ==
  {t \in Thread : pc[t] \in {"load_next", "push_cas", "read_next", "swap"}}

\* No thread follows a pointer to a node that has been freed: the hazard
\* pointer, set before head is read again, keeps the node of a pop in
\* progress alive however long the thread is held up (t_stack.h:77-79).
NoUseAfterFree == \A t \in Dereferencing : node[t] \in live

OnStack == {chain[i] : i \in 1..Len(chain)}

\* The nodes of a push that has not linked its node yet, and of a pop that
\* has unlinked one.
Private ==
  {t \in Thread :
     \/ pc[t] \in {"load_next", "push_cas", "swap", "scan"}
     \/ pc[t] = "unprotect" /\ node[t] # Null}

\* The pointers from head pass through distinct nodes to the bottom, and
\* every allocated node is on the stack, waits to be reclaimed, or belongs
\* to exactly one call: nothing leaks and nothing is freed twice.
HeapExact ==
  /\ head = IF chain = <<>> THEN Null ELSE chain[1]
  /\ \A i \in 1..Len(chain) :
       /\ next[chain[i]] = IF i = Len(chain) THEN Null ELSE chain[i + 1]
       /\ \A j \in 1..Len(chain) : chain[i] = chain[j] => i = j
  /\ live = OnStack \cup retired \cup {node[t] : t \in Private}
  /\ OnStack \cap retired = {}
  /\ \A t \in Private :
       /\ node[t] \notin OnStack \cup retired
       /\ \A u \in Private \ {t} : node[t] # node[u]

\* A push takes effect when it exchanges head, a pop when it does, or when
\* it reads a null head for the second time.
Effected(t) ==
  \/ pc[t] \in {"pushed", "swap", "scan", "sweep", "popped", "unprotect"}

Outcome(t) ==
  IF op[t] = "pop" /\ pc[t] \in {"unprotect", "swap"} /\ node[t] # Null
    THEN data[node[t]] ELSE val[t]

Lifo == INSTANCE LifoStack WITH
  items <- [i \in 1..Len(chain) |-> data[chain[i]]],
  call <- [t \in Thread |->
    [stage |-> IF pc[t] = "idle" THEN "idle" ELSE IF Effected(t) THEN "done" ELSE "open",
     op |-> op[t], val |-> Outcome(t)]]

\* Every call takes effect at one instant on a last-in first-out sequence,
\* although addresses are reused: an exchange that finds the head it expects
\* finds the same node, with the same next (t_stack.h:16-23 and 81-106).
Linearizable == Lifo!Spec

\* Lock-freedom: when no more calls are made, every call returns.  A failed
\* exchange and a changed head are always the success of another call.
RetriesEnd ==
  <>[][\A t \in Thread : ~Call(t)]_vars => <>[](\A t \in Thread : pc[t] = "idle")
=============================================================================
