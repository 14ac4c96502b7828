---------------------------- MODULE CountedStack ----------------------------
(***************************************************************************)
(* lock_free_stack of chapter_7.h: pop counts the threads that are in it,  *)
(* the only one may delete, the others add their node to _to_be_deleted.   *)
(* The class declares no push; nodes come onto the stack by the push of    *)
(* simple_lock_free_stack in the same file, which declares node and _head  *)
(* alike.  The values on the stack are left out.                           *)
(*                                                                         *)
(* One step is one access to an atomic or to a node that another thread    *)
(* might reach.  A step that follows a null pointer is undefined: none is  *)
(* taken.  delete_node flows off its end, which is undefined too; here it  *)
(* deletes and returns.                                                    *)
(***************************************************************************)
EXTENDS Naturals, FiniteSets

CONSTANTS
  Thread,   \* the threads that share the stack
  Node,     \* the addresses the allocator may hand out, and reuse
  Null      \* the null pointer, not a member of Node

VARIABLES
  head, next, live,       \* the stack and the heap
  to_be_deleted, in_pop,  \* _to_be_deleted and _thread_in_pop
  pc,                     \* each thread's position
  node, after,            \* its locals: new_node or old_head, old_head->_next
  first, last             \* the nodes it chains, or deletes

heap == <<head, next, live>>
vars == <<heap, to_be_deleted, in_pop, pc, node, after, first, last>>

Goto(t, l) == pc' = [pc EXCEPT ![t] = l]

Init ==
  /\ head = Null
  /\ next = [n \in Node |-> Null]
  /\ live = {}
  /\ to_be_deleted = Null
  /\ in_pop = 0
  /\ pc = [t \in Thread |-> "idle"]
  /\ node = [t \in Thread |-> Null]
  /\ after = [t \in Thread |-> Null]
  /\ first = [t \in Thread |-> Null]
  /\ last = [t \in Thread |-> Null]

Return(t) ==
  /\ Goto(t, "idle")
  /\ node' = [node EXCEPT ![t] = Null]
  /\ after' = [after EXCEPT ![t] = Null]
  /\ first' = [first EXCEPT ![t] = Null]
  /\ last' = [last EXCEPT ![t] = Null]
-----------------------------------------------------------------------------
(* push: new_node->_next = _head.load(), then the exchange until it works *)

CallPush(t, n) ==
  /\ pc[t] = "idle"
  /\ n \notin live
  /\ live' = live \cup {n}
  /\ next' = [next EXCEPT ![n] = head]
  /\ node' = [node EXCEPT ![t] = n]
  /\ Goto(t, "push")
  /\ UNCHANGED <<head, to_be_deleted, in_pop, after, first, last>>

PushCas(t) ==
  /\ pc[t] = "push"
  /\ IF head = next[node[t]]
       THEN head' = node[t] /\ Return(t) /\ UNCHANGED next
       ELSE /\ next' = [next EXCEPT ![node[t]] = head]
            /\ UNCHANGED <<head, pc, node, after, first, last>>
  /\ UNCHANGED <<live, to_be_deleted, in_pop>>
-----------------------------------------------------------------------------
(* pop *)

\* ++_thread_in_pop
CallPop(t) ==
  /\ pc[t] = "idle"
  /\ in_pop' = in_pop + 1
  /\ Goto(t, "load")
  /\ UNCHANGED <<heap, to_be_deleted, node, after, first, last>>

LoadHead(t) ==
  /\ pc[t] = "load"
  /\ node' = [node EXCEPT ![t] = head]
  /\ Goto(t, IF head = Null THEN "reclaim" ELSE "read")
  /\ UNCHANGED <<heap, to_be_deleted, in_pop, after, first, last>>

\* old_head->_next, the argument of the exchange
ReadNext(t) ==
  /\ pc[t] = "read"
  /\ after' = [after EXCEPT ![t] = next[node[t]]]
  /\ Goto(t, "pop")
  /\ UNCHANGED <<heap, to_be_deleted, in_pop, node, first, last>>

PopCas(t) ==
  /\ pc[t] = "pop"
  /\ IF head = node[t]
       THEN head' = after[t] /\ Goto(t, "reclaim") /\ UNCHANGED node
       ELSE /\ node' = [node EXCEPT ![t] = head]
            /\ Goto(t, IF head = Null THEN "reclaim" ELSE "read")
            /\ UNCHANGED head
  /\ UNCHANGED <<next, live, to_be_deleted, in_pop, after, first, last>>
-----------------------------------------------------------------------------
(* try_reclaim *)

\* _thread_in_pop.load() == 1
TestAlone(t) ==
  /\ pc[t] = "reclaim"
  /\ IF in_pop = 1
       THEN Goto(t, "claim") /\ UNCHANGED <<first, last>>
       ELSE /\ first' = [first EXCEPT ![t] = node[t]]
            /\ last' = [last EXCEPT ![t] = node[t]]
            /\ Goto(t, "walk")
  /\ UNCHANGED <<heap, to_be_deleted, in_pop, node, after>>

\* nodes_to_be_del = _to_be_deleted.exchange(nullptr)
Claim(t) ==
  /\ pc[t] = "claim"
  /\ first' = [first EXCEPT ![t] = to_be_deleted]
  /\ to_be_deleted' = Null
  /\ Goto(t, "leave_alone")
  /\ UNCHANGED <<heap, in_pop, node, after, last>>

\* if (!--_thread_in_pop): the claimed nodes are deleted or chained again.
LeaveAlone(t) ==
  /\ pc[t] = "leave_alone"
  /\ in_pop' = in_pop - 1
  /\ last' = [last EXCEPT ![t] = first[t]]
  /\ Goto(t, CASE in_pop = 1                       -> "delete_nodes"
               [] in_pop # 1 /\ first[t] # Null    -> "walk_claimed"
               [] OTHER                            -> "delete")
  /\ UNCHANGED <<heap, to_be_deleted, node, after, first>>

\* delete_node, node after node
DeleteNodes(t) ==
  /\ pc[t] = "delete_nodes"
  /\ IF first[t] = Null
       THEN Goto(t, "delete") /\ UNCHANGED <<live, first>>
       ELSE /\ live' = live \ {first[t]}
            /\ first' = [first EXCEPT ![t] = next[first[t]]]
            /\ UNCHANGED pc
  /\ UNCHANGED <<head, next, to_be_deleted, in_pop, node, after, last>>

\* delete old_head
DeleteOld(t) ==
  /\ pc[t] = "delete"
  /\ live' = live \ {node[t]}
  /\ Return(t)
  /\ UNCHANGED <<head, next, to_be_deleted, in_pop>>

\* chain_pending_nodes(nodes): last goes to the end of the list.
Walk(t) ==
  /\ pc[t] \in {"walk", "walk_claimed"}
  /\ last[t] # Null
  /\ IF next[last[t]] # Null
       THEN last' = [last EXCEPT ![t] = next[last[t]]] /\ UNCHANGED <<pc, next>>
       ELSE /\ next' = [next EXCEPT ![last[t]] = to_be_deleted]
            /\ Goto(t, IF pc[t] = "walk" THEN "chain" ELSE "chain_claimed")
            /\ UNCHANGED last
  /\ UNCHANGED <<head, live, to_be_deleted, in_pop, node, after, first>>

\* chain_pending_nodes(first, last): the exchange on _to_be_deleted.  Then
\* the first branch of try_reclaim, which has claimed nodes, deletes old_head;
\* the second one leaves.
Chain(t) ==
  /\ pc[t] \in {"chain", "chain_claimed"}
  /\ IF to_be_deleted = next[last[t]]
       THEN /\ to_be_deleted' = first[t]
            /\ Goto(t, IF pc[t] = "chain" THEN "leave" ELSE "delete")
            /\ UNCHANGED next
       ELSE /\ next' = [next EXCEPT ![last[t]] = to_be_deleted]
            /\ UNCHANGED <<to_be_deleted, pc>>
  /\ UNCHANGED <<head, live, in_pop, node, after, first, last>>

\* --_thread_in_pop
Leave(t) ==
  /\ pc[t] = "leave"
  /\ in_pop' = in_pop - 1
  /\ Return(t)
  /\ UNCHANGED <<heap, to_be_deleted>>
-----------------------------------------------------------------------------
Proceed(t) ==
  \/ PushCas(t) \/ LoadHead(t) \/ ReadNext(t) \/ PopCas(t) \/ TestAlone(t)
  \/ Claim(t) \/ LeaveAlone(t) \/ DeleteNodes(t) \/ DeleteOld(t)
  \/ Walk(t) \/ Chain(t) \/ Leave(t)

Next ==
  \E t \in Thread :
    (\E n \in Node : CallPush(t, n)) \/ CallPop(t) \/ Proceed(t)

Spec == Init /\ [][Next]_vars
-----------------------------------------------------------------------------
\* The nodes on the list that starts with n.
List(n) ==
  LET Reach[i \in 0..Cardinality(Node)] ==
        IF i = 0 THEN {n} \ {Null}
        ELSE (Reach[i - 1] \cup {next[m] : m \in Reach[i - 1]}) \ {Null}
  IN  Reach[Cardinality(Node)]

\* A node that waits to be deleted has been taken off the stack
\* (chapter_7.h:109: "when this function is called by a node, that node has
\* already been deleted").
OnlyRemovedPending == List(to_be_deleted) \cap List(head) = {}
=============================================================================
