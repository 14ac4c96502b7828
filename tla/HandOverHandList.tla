-------------------------- MODULE HandOverHandList --------------------------
(***************************************************************************)
(* thread_safe_list of chapter_6.h: a singly linked list with a mutex in   *)
(* every node.  A walk locks the next node before it lets go of the one it *)
(* stands on; remove_if frees nodes as it walks.                           *)
(*                                                                         *)
(* One step is one operation on a mutex or one access to a node, with the  *)
(* thread-local work around it.  A node's data is its value; a predicate   *)
(* is the set of the values it accepts, and for_each visits every value.   *)
(* The destructor is a remove_if that accepts every value.                 *)
(***************************************************************************)
EXTENDS Naturals, FiniteSets

CONSTANTS
  Thread,     \* the threads that share the list
  Node,       \* the addresses the allocator may hand out, and reuse
  Value,      \* the values in the list
  Predicate,  \* the predicates find_first_if and remove_if are called with
  Calls,      \* Calls[t]: the operations thread t may call
  Head,       \* the sentinel _head, a member of the list object
  Null,       \* the null pointer
  NoThread    \* the owner of a free mutex

Ops == {"push_front", "for_each", "find_first_if", "remove_if"}

ASSUME ListAssumption ==
  /\ Head \notin Node
  /\ Null \notin Node \cup {Head}
  /\ NoThread \notin Thread
  /\ Predicate \subseteq SUBSET Value
  /\ Calls \in [Thread -> SUBSET Ops]

VARIABLES
  next, value, live,  \* the heap: node fields, and the allocated nodes
  mutex,              \* the owner of each node's mutex
  pc, op, pred,       \* each thread's position, its call and its predicate
  current, ahead,     \* its locals current and next, or _head and new_node
  behind,             \* history: the nodes of the list behind each of them
  missed              \* history: the nodes a walk still has to reach

\* The nodes of the list.
linked == behind[Head]

heap  == <<next, value, live>>
local == <<op, pred, current, ahead>>
vars  == <<heap, mutex, pc, local, behind, missed>>

Goto(t, l) == pc' = [pc EXCEPT ![t] = l]
Lock(t, n) == mutex[n] = NoThread /\ mutex' = [mutex EXCEPT ![n] = t]
Unlock(n)  == mutex' = [mutex EXCEPT ![n] = NoThread]

Init ==
  /\ next = [n \in Node \cup {Head} |-> Null]
  /\ \E v \in Value : value = [n \in Node |-> v]
  /\ live = {}
  /\ mutex = [n \in Node \cup {Head} |-> NoThread]
  /\ pc = [t \in Thread |-> "idle"]
  /\ op = [t \in Thread |-> "none"]
  /\ pred = [t \in Thread |-> {}]
  /\ current = [t \in Thread |-> Null]
  /\ ahead = [t \in Thread |-> Null]
  /\ behind = [n \in Node \cup {Head} |-> {}]
  /\ missed = [t \in Thread |-> {}]

\* The call of thread t returns, and its locals go out of scope.
Return(t) ==
  /\ Goto(t, "idle")
  /\ op' = [op EXCEPT ![t] = "none"]
  /\ pred' = [pred EXCEPT ![t] = {}]
  /\ current' = [current EXCEPT ![t] = Null]
  /\ ahead' = [ahead EXCEPT ![t] = Null]
  /\ missed' = [missed EXCEPT ![t] = {}]
-----------------------------------------------------------------------------
(* push_front *)

\* new_node is made before the lock is asked for.
CallPush(t, n, v) ==
  /\ pc[t] = "idle"
  /\ "push_front" \in Calls[t]
  /\ n \notin live
  /\ live' = live \cup {n}
  /\ next' = [next EXCEPT ![n] = Null]
  /\ value' = [value EXCEPT ![n] = v]
  /\ op' = [op EXCEPT ![t] = "push_front"]
  /\ ahead' = [ahead EXCEPT ![t] = n]
  /\ Goto(t, "lock_head")
  /\ UNCHANGED <<mutex, pred, current, behind, missed>>

\* new_node->_next = move(_head._next)
Link(t) ==
  /\ pc[t] = "link"
  /\ next' = [next EXCEPT ![ahead[t]] = next[Head], ![Head] = Null]
  /\ Goto(t, "publish")
  /\ UNCHANGED <<value, live, mutex, local, behind, missed>>

\* _head._next = move(new_node), and the lock goes as the call returns.
Publish(t) ==
  /\ pc[t] = "publish"
  /\ next' = [next EXCEPT ![Head] = ahead[t]]
  /\ behind' = [behind EXCEPT ![ahead[t]] = linked, ![Head] = linked \cup {ahead[t]}]
  /\ Unlock(Head)
  /\ Return(t)
  /\ UNCHANGED <<value, live>>
-----------------------------------------------------------------------------
(* The walk of for_each, find_first_if and remove_if *)

CallWalk(t, o, p) ==
  /\ pc[t] = "idle"
  /\ o \in Calls[t] \ {"push_front"}
  /\ p \in (IF o = "for_each" THEN {Value} ELSE Predicate)
  /\ op' = [op EXCEPT ![t] = o]
  /\ pred' = [pred EXCEPT ![t] = p]
  /\ Goto(t, "lock_head")
  /\ UNCHANGED <<heap, mutex, current, ahead, behind, missed>>

LockHead(t) ==
  /\ pc[t] = "lock_head"
  /\ Lock(t, Head)
  /\ current' = [current EXCEPT ![t] = Head]
  /\ \/ op[t] = "push_front" /\ Goto(t, "link") /\ UNCHANGED missed
     \/ /\ op[t] # "push_front"
        /\ Goto(t, "step")
        /\ missed' = [missed EXCEPT ![t] = {n \in linked : value[n] \in pred[t]}]
  /\ UNCHANGED <<heap, op, pred, ahead, behind>>

\* while (next = current->_next.get())
StepAhead(t) ==
  /\ pc[t] = "step"
  /\ next[current[t]] # Null
  /\ ahead' = [ahead EXCEPT ![t] = next[current[t]]]
  /\ Goto(t, "lock_next")
  /\ UNCHANGED <<heap, mutex, op, pred, current, behind, missed>>

EndOfList(t) ==
  /\ pc[t] = "step"
  /\ next[current[t]] = Null
  /\ Unlock(current[t])
  /\ Return(t)
  /\ UNCHANGED <<heap, behind>>

\* Mutant: there is no next_lk.
WalksUnlocked(t) ==
  /\ pc[t] = "lock_next"
  /\ Goto(t, IF op[t] = "remove_if" THEN "test" ELSE "let_go")
  /\ UNCHANGED <<heap, mutex, local, behind, missed>>

LockNext(t) ==
  /\ pc[t] = "lock_next"
  /\ Lock(t, ahead[t])
  /\ Goto(t, IF op[t] = "remove_if" THEN "test" ELSE "let_go")
  /\ UNCHANGED <<heap, local, behind, missed>>

\* for_each and find_first_if unlock current before they call f or p.
LetGo(t) ==
  /\ pc[t] = "let_go"
  /\ Unlock(current[t])
  /\ Goto(t, "visit")
  /\ UNCHANGED <<heap, local, behind, missed>>

\* Mutant: find_first_if goes on whatever p says.
IgnoresMatch(t) ==
  /\ pc[t] = "visit"
  /\ current' = [current EXCEPT ![t] = ahead[t]]
  /\ missed' = [missed EXCEPT ![t] = IF op[t] = "for_each" THEN @ \ {ahead[t]} ELSE @]
  /\ Goto(t, "step")
  /\ UNCHANGED <<heap, mutex, op, pred, ahead, behind>>

\* f(*next->_data), or p(*next->_data) is false: the walk goes on.
Visit(t) ==
  /\ pc[t] = "visit"
  /\ op[t] = "for_each" \/ value[ahead[t]] \notin pred[t]
  /\ current' = [current EXCEPT ![t] = ahead[t]]
  /\ missed' = [missed EXCEPT ![t] = IF op[t] = "for_each" THEN @ \ {ahead[t]} ELSE @]
  /\ Goto(t, "step")
  /\ UNCHANGED <<heap, mutex, op, pred, ahead, behind>>

\* find_first_if returns next->_data.
Find(t) ==
  /\ pc[t] = "visit"
  /\ op[t] = "find_first_if"
  /\ value[ahead[t]] \in pred[t]
  /\ Unlock(ahead[t])
  /\ Return(t)
  /\ UNCHANGED <<heap, behind>>

\* Mutant: remove_if moves on without unlocking current.
KeepsBothLocks(t) ==
  /\ pc[t] = "test"
  /\ value[ahead[t]] \notin pred[t]
  /\ current' = [current EXCEPT ![t] = ahead[t]]
  /\ Goto(t, "step")
  /\ UNCHANGED <<heap, mutex, op, pred, ahead, behind, missed>>

\* remove_if keeps both locks while it calls p.
Keep(t) ==
  /\ pc[t] = "test"
  /\ value[ahead[t]] \notin pred[t]
  /\ Unlock(current[t])
  /\ current' = [current EXCEPT ![t] = ahead[t]]
  /\ Goto(t, "step")
  /\ UNCHANGED <<heap, op, pred, ahead, behind, missed>>

\* Mutant: the nodes behind the removed one are dropped.
DropsRest(t) ==
  /\ pc[t] = "test"
  /\ value[ahead[t]] \in pred[t]
  /\ next' = [next EXCEPT ![current[t]] = Null, ![ahead[t]] = Null]
  /\ behind' = [n \in Node \cup {Head} |->
                 IF n = ahead[t] THEN {} ELSE behind[n] \ {ahead[t]}]
  /\ missed' = [u \in Thread |-> missed[u] \ {ahead[t]}]
  /\ Goto(t, "unlock_next")
  /\ UNCHANGED <<value, live, mutex, local>>

\* old = move(current->_next); current->_next = move(next->_next)
Unlink(t) ==
  /\ pc[t] = "test"
  /\ value[ahead[t]] \in pred[t]
  /\ next' = [next EXCEPT ![current[t]] = next[ahead[t]], ![ahead[t]] = Null]
  /\ behind' = [n \in Node \cup {Head} |->
                 IF n = ahead[t] THEN {} ELSE behind[n] \ {ahead[t]}]
  /\ missed' = [u \in Thread |-> missed[u] \ {ahead[t]}]
  /\ Goto(t, "unlock_next")
  /\ UNCHANGED <<value, live, mutex, local>>

UnlockNext(t) ==
  /\ pc[t] = "unlock_next"
  /\ Unlock(ahead[t])
  /\ Goto(t, "free")
  /\ UNCHANGED <<heap, local, behind, missed>>

\* old is destroyed; current stays where it is.
FreeOld(t) ==
  /\ pc[t] = "free"
  /\ live' = live \ {ahead[t]}
  /\ ahead' = [ahead EXCEPT ![t] = Null]
  /\ Goto(t, "step")
  /\ UNCHANGED <<next, value, mutex, op, pred, current, behind, missed>>
-----------------------------------------------------------------------------
Push(t) == LockHead(t) \/ Link(t) \/ Publish(t)

Walk(t) ==
  \/ StepAhead(t) \/ EndOfList(t) \/ LockNext(t) \/ LetGo(t) \/ Visit(t)
  \/ Find(t) \/ Keep(t) \/ Unlink(t) \/ UnlockNext(t) \/ FreeOld(t)

Step(t) ==
  \/ \E n \in Node, v \in Value : CallPush(t, n, v)
  \/ \E o \in Ops, p \in Predicate \cup {Value} : CallWalk(t, o, p)
  \/ Push(t)
  \/ Walk(t)

Next == \E t \in Thread : Step(t)

Spec == Init /\ [][Next]_vars

\* A call in progress goes on running, and a thread that keeps asking for a
\* mutex that is released again and again gets it in the end.
Fairness == \A t \in Thread : SF_vars(Push(t) \/ Walk(t))

FairSpec == Spec /\ Fairness
-----------------------------------------------------------------------------
\* The nodes whose fields the next step of thread t reads or writes.
Fields(t) ==
  CASE pc[t] = "step"                     -> {current[t]}
    [] pc[t] \in {"visit", "free"}        -> {ahead[t]}
    [] pc[t] = "test"                     -> {current[t], ahead[t]}
    [] pc[t] \in {"link", "publish"}      -> {ahead[t], Head}
    [] OTHER                              -> {}

\* The nodes whose mutex the next step of thread t locks or unlocks.
Mutexes(t) ==
  CASE pc[t] = "lock_head"                    -> {Head}
    [] pc[t] \in {"lock_next", "unlock_next"} -> {ahead[t]}
    [] pc[t] \in {"step", "let_go", "test"}   -> {current[t]}
    [] pc[t] = "visit"                        -> {ahead[t]}
    [] OTHER                                  -> {}

\* No thread touches a node that is not allocated, or reads or writes one
\* while another does, and a node is freed when no other thread uses it, not
\* even to wait for its mutex: the lock on the predecessor keeps waiters away
\* (chapter_6.h:369-384).
MemorySafe ==
  \A t \in Thread :
    /\ Fields(t) \cup Mutexes(t) \subseteq live \cup {Head}
    /\ \A u \in Thread \ {t} :
         /\ Fields(t) \cap Fields(u) = {}
         /\ pc[t] = "free" => ahead[t] \notin Mutexes(u)

\* The nodes of pushes and removals in progress.
Private ==
  {ahead[t] : t \in {u \in Thread :
      \/ op[u] = "push_front" /\ pc[u] # "idle"
      \/ pc[u] \in {"unlock_next", "free"}}}

\* Every node that points into the list: while push_front holds _head's
\* lock, its new node does so in the place of _head.
Owners == linked \cup {Head} \cup {ahead[t] : t \in {u \in Thread : pc[u] = "publish"}}

\* unique_ptr: each linked node has exactly one owner, nothing else is
\* pointed to, and every allocated node is linked or private to one call.
ListExact ==
  /\ live = linked \cup Private
  /\ linked \cap Private = {}
  /\ {next[n] : n \in Owners} \ {Null} = linked
  /\ \A m, n \in Owners : next[m] = next[n] /\ next[m] # Null => m = n

\* A walk that reaches the end of the list has reached every node it was
\* called for that was in the list when it locked _head and still is:
\* for_each visited it, remove_if removed it, and find_first_if returns
\* nothing only if no such node is left.
NothingMissed ==
  \A t \in Thread :
    pc[t] = "step" /\ next[current[t]] = Null => missed[t] = {}

\* No call is blocked for ever: threads lock nodes in list order only, so
\* they cannot wait for each other in a circle.
CallsReturn == \A t \in Thread : (pc[t] # "idle") ~> (pc[t] = "idle")
=============================================================================
