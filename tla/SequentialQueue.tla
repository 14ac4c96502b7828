-------------------------- MODULE SequentialQueue --------------------------
(***************************************************************************)
(* The queues for one thread, which lead to the ones with locks: s_queue   *)
(* (t_queue.h) and single_thread_queue (chapter_6.h), where an empty queue *)
(* has a null head, and separate_queue (t_queue.h) and virtual_node_queue  *)
(* (chapter_6.h), whose last node is a dummy.                              *)
(*                                                                         *)
(* try_pop of the first two does not reset the tail pointer as it takes    *)
(* the last node, and single_thread_queue() does not initialize it: push   *)
(* then writes to memory that is not the queue's, and the value is lost.   *)
(***************************************************************************)
EXTENDS Sequences, Naturals

CONSTANTS
  Node,      \* the addresses the allocator may hand out, and reuse
  Value,     \* the values that are pushed
  NoNode,    \* the null pointer
  Nothing,   \* no value: a pop that found the queue empty
  MaxItems   \* the bound on the values in the queue

Plain == {"s_queue", "single_thread_queue"}
Dummy == {"separate_queue", "virtual_node_queue"}

VARIABLES
  class,             \* which of the four it is
  head, tail,        \* the two ends
  next, data, live,  \* the heap: node fields, and the allocated nodes
  answer,            \* what the last try_pop returned
  pushed             \* history: the values pushed and not popped, oldest first

vars == <<class, head, tail, next, data, live, answer, pushed>>

InitFields ==
  /\ next = [n \in Node |-> NoNode]
  /\ data = [n \in Node |-> Nothing]
  /\ answer = Nothing
  /\ pushed = <<>>

\* s_queue() sets both pointers to null, single_thread_queue() only _head.
InitPlain ==
  /\ class \in Plain
  /\ head = NoNode
  /\ tail \in (IF class = "s_queue" THEN {NoNode} ELSE Node \cup {NoNode})
  /\ live = {}
  /\ InitFields

InitDummy ==
  /\ class \in Dummy
  /\ \E n \in Node : head = n /\ tail = n /\ live = {n}
  /\ InitFields

Init == InitPlain \/ InitDummy
-----------------------------------------------------------------------------
\* p, the new node of a push
Allocate(n) ==
  /\ Len(pushed) < MaxItems
  /\ n \notin live
  /\ live' = live \cup {n}

\* if (tail) tail->next = p else head = p, and tail = p: with a stale tail
\* the write lands in freed memory, or in the new node itself where the
\* allocator has reused the address.  It may also kill the program, which
\* then takes no further step: Spec has no fairness and allows that.
PushPlain(v, n) ==
  /\ class \in Plain
  /\ Allocate(n)
  /\ data' = [data EXCEPT ![n] = v]
  /\ IF tail = NoNode
     THEN head' = n /\ next' = [next EXCEPT ![n] = NoNode]
     ELSE head' = head /\ next' = [next EXCEPT ![n] = NoNode, ![tail] = n]
  /\ tail' = n
  /\ pushed' = Append(pushed, v)
  /\ UNCHANGED <<class, answer>>

\* Mutant: the value goes into the new dummy.
FillsNewNode(v, n) ==
  /\ class \in Dummy
  /\ Allocate(n)
  /\ data' = [data EXCEPT ![n] = v]
  /\ next' = [next EXCEPT ![tail] = n, ![n] = NoNode]
  /\ tail' = n
  /\ pushed' = Append(pushed, v)
  /\ UNCHANGED <<class, head, answer>>

\* The dummy takes the value, and a fresh dummy is linked behind it.
PushDummy(v, n) ==
  /\ class \in Dummy
  /\ Allocate(n)
  /\ data' = [data EXCEPT ![tail] = v, ![n] = Nothing]
  /\ next' = [next EXCEPT ![tail] = n, ![n] = NoNode]
  /\ tail' = n
  /\ pushed' = Append(pushed, v)
  /\ UNCHANGED <<class, head, answer>>

\* The queue looks empty.
PopNothing ==
  /\ head = (IF class \in Plain THEN NoNode ELSE tail)
  /\ answer' = Nothing
  /\ UNCHANGED <<class, head, tail, next, data, live, pushed>>

\* The first node is unlinked and deleted.  tail still points to it if it was
\* the last one, which a dummy never is.
Pop ==
  /\ head # (IF class \in Plain THEN NoNode ELSE tail)
  /\ answer' = data[head]
  /\ head' = next[head]
  /\ live' = live \ {head}
  /\ pushed' = Tail(pushed)
  /\ UNCHANGED <<class, tail, next, data>>

TryPop == PopNothing \/ Pop

Next ==
  \/ \E v \in Value, n \in Node : PushPlain(v, n) \/ PushDummy(v, n)
  \/ TryPop

Spec == Init /\ [][Next]_vars
-----------------------------------------------------------------------------
\* What the last step answered if it was a pop: the oldest value, or none if
\* there is none.
Answers == answer' = IF pushed = <<>> THEN Nothing ELSE Head(pushed)

\* Each of the four is a queue.  Violated: s_queue and single_thread_queue
\* give no value ever again once the last was popped, for push links the new
\* node behind the deleted one (t_queue.h:98-106, chapter_6.h:20-39).
IsFifo == [][Len(pushed') <= Len(pushed) => Answers]_vars

\* The queues with a dummy are, however often they are emptied, and whichever
\* addresses the allocator reuses (t_queue.h:113-159, chapter_6.h:51-89).
DummyIsFifo == [][Len(pushed') <= Len(pushed) /\ class \in Dummy => Answers]_vars
=============================================================================
