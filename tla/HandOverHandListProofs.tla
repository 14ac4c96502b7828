----------------------- MODULE HandOverHandListProofs -----------------------
(***************************************************************************)
(* Proofs about thread_safe_list and concurrent_list, for any threads,     *)
(* addresses, values and predicates.                                       *)
(***************************************************************************)
EXTENDS HandOverHandList, TLAPS

Place    == Node \cup {Head}
Position == {"idle", "lock_head", "link", "publish", "step", "lock_next", "let_go",
             "visit", "test", "unlock_next", "free"}

\* Where a thread holds the mutex of current (of _head, in a push), and of ahead.
AtCurrent == {"link", "publish", "step", "lock_next", "let_go", "test", "unlock_next", "free"}
AtAhead   == {"let_go", "visit", "test", "unlock_next"}
Pushing   == {"link", "publish"}
Removed   == {"unlock_next", "free"}

\* Every variable keeps its type.
TypeOK ==
  /\ next \in [Place -> Node \cup {Null}]
  /\ value \in [Node -> Value] /\ live \in SUBSET Node
  /\ mutex \in [Place -> Thread \cup {NoThread}]
  /\ pc \in [Thread -> Position] /\ op \in [Thread -> Ops \cup {"none"}]
  /\ pred \in [Thread -> SUBSET Value]
  /\ current \in [Thread -> Place \cup {Null}] /\ ahead \in [Thread -> Node \cup {Null}]
  /\ behind \in [Place -> SUBSET Node] /\ missed \in [Thread -> SUBSET Node]

Holds(t, n) == (pc[t] \in AtCurrent /\ n = current[t]) \/ (pc[t] \in AtAhead /\ n = ahead[t])

MutexInv == \A t \in Thread, n \in Place : mutex[n] = t <=> Holds(t, n)

\* The locals of a thread at each position.
LocalInv ==
  \A t \in Thread :
    /\ pc[t] = "idle" => op[t] = "none"
    /\ pc[t] # "idle" => op[t] # "none"
    /\ op[t] = "push_front" => pc[t] \in {"lock_head"} \cup Pushing /\ ahead[t] \in Node
    /\ pc[t] \in Pushing => op[t] = "push_front" /\ current[t] = Head
    /\ pc[t] \in AtCurrent \ Pushing => current[t] \in linked \cup {Head}
    /\ pc[t] \in {"lock_next", "let_go", "test"} => ahead[t] = next[current[t]]
    /\ pc[t] \in {"lock_next", "let_go", "visit", "test"} => ahead[t] \in linked
    /\ pc[t] \in Removed => ahead[t] \in Node

\* The threads that have a node that is not in the list.
Owning == {t \in Thread : op[t] = "push_front" \/ pc[t] \in Removed}

PrivateInv ==
  /\ live = linked \cup {ahead[t] : t \in Owning}
  /\ \A t \in Owning : ahead[t] \notin linked
  /\ \A t, u \in Owning : ahead[t] = ahead[u] => t = u

\* The list is a line.
OrderInv ==
  /\ \A n \in Node \ linked : behind[n] = {}
  /\ \A n \in linked :
       /\ n \notin behind[n] /\ behind[n] \subseteq linked
       /\ \A m \in behind[n] : behind[m] \subseteq behind[n]
       /\ \A m \in linked : m = n \/ m \in behind[n] \/ n \in behind[m]

\* The next pointer of n leads to the first of the nodes behind it.
Leads(n, nodes) ==
  IF nodes = {} THEN next[n] = Null
  ELSE next[n] \in nodes /\ nodes = {next[n]} \cup behind[next[n]]

NextInv ==
  /\ \A n \in linked : Leads(n, behind[n])
  /\ (\A t \in Thread : pc[t] # "publish") => Leads(Head, linked)
  /\ \A t \in Thread : pc[t] = "publish" => next[Head] = Null /\ Leads(ahead[t], linked)
  /\ \A m \in linked : \E n \in Owners : next[n] = m

\* What a walk has still to reach lies ahead of it.
MissedInv ==
  \A t \in Thread :
    /\ pc[t] \in AtCurrent \ Pushing => missed[t] \subseteq behind[current[t]]
    /\ pc[t] = "visit" => missed[t] \subseteq {ahead[t]} \cup behind[ahead[t]]
    /\ pc[t] \in {"idle", "lock_head"} \cup Pushing => missed[t] = {}
    /\ \A n \in missed[t] : value[n] \in pred[t]

IInv ==
  TypeOK /\ MutexInv /\ LocalInv /\ PrivateInv /\ OrderInv /\ NextInv /\ MissedInv
-----------------------------------------------------------------------------
(* What the invariant says of the mutexes and of the line *)

\* A mutex has one owner.
LEMMA Exclusion ==
  ASSUME MutexInv, NEW t \in Thread, NEW u \in Thread, NEW n \in Place, Holds(t, n), Holds(u, n)
  PROVE  t = u
  BY DEF MutexInv

\* Of two nodes that lead into the line, the sets behind them differ.
LEMMA LineFacts ==
  ASSUME TypeOK, OrderInv
  PROVE  /\ linked \subseteq Node
         /\ \A n \in linked : n \notin behind[n] /\ behind[n] \subseteq linked
         /\ \A m, n \in linked : m \in behind[n] => n \notin behind[m]
<1>1. linked \subseteq Node
  BY DEF TypeOK, linked, Place
<1>2. \A n \in linked : n \notin behind[n] /\ behind[n] \subseteq linked
  BY DEF OrderInv
<1>3. ASSUME NEW m \in linked, NEW n \in linked, m \in behind[n], n \in behind[m]
      PROVE  FALSE
  <2>1. behind[m] \subseteq behind[n]
    BY <1>3 DEF OrderInv
  <2> QED
    BY <1>2, <1>3, <2>1
<1> QED
  BY <1>1, <1>2, <1>3

\* Where the next pointer of a walk's current node leads, and what the
\* positions of the threads exclude.
LEMMA WalkFacts ==
  ASSUME IInv
  PROVE  /\ \A t \in Thread :
              pc[t] \in AtCurrent \ Pushing =>
                /\ current[t] \in linked \cup {Head}
                /\ Leads(current[t], behind[current[t]])
                /\ \A u \in Thread : pc[u] = "publish" => current[t] # Head
         /\ \A t \in Thread :
              pc[t] \in {"lock_next", "let_go", "test"} =>
                /\ ahead[t] # current[t]
                /\ behind[current[t]] = {ahead[t]} \cup behind[ahead[t]]
         /\ \A t, u \in Thread :
              pc[t] \in Pushing /\ pc[u] \in Pushing => t = u
         /\ \A t \in Thread : missed[t] \subseteq linked
<1> USE DEF IInv
<1>1. ASSUME NEW t \in Thread, pc[t] \in AtCurrent \ Pushing
      PROVE  /\ current[t] \in linked \cup {Head}
             /\ Leads(current[t], behind[current[t]])
             /\ \A u \in Thread : pc[u] = "publish" => current[t] # Head
  <2>1. current[t] \in linked \cup {Head}
    BY <1>1 DEF LocalInv
  <2>2. ASSUME NEW u \in Thread, pc[u] = "publish", current[t] = Head
        PROVE  FALSE
    <3>1. Holds(t, Head) /\ Holds(u, Head)
      BY <1>1, <2>2 DEF Holds, LocalInv, AtCurrent, Pushing
    <3>2. t # u
      BY <1>1, <2>2 DEF Pushing
    <3> QED
      BY <3>1, <3>2, Exclusion DEF Place
  <2>3. CASE current[t] = Head
    <3>1. Leads(Head, linked)
      BY <2>2, <2>3 DEF NextInv
    <3> QED
      BY <2>1, <2>2, <2>3, <3>1 DEF linked
  <2>4. CASE current[t] # Head
    BY <2>1, <2>2, <2>4 DEF NextInv
  <2> QED
    BY <2>3, <2>4
<1>2. ASSUME NEW t \in Thread, pc[t] \in {"lock_next", "let_go", "test"}
      PROVE  /\ ahead[t] # current[t]
             /\ behind[current[t]] = {ahead[t]} \cup behind[ahead[t]]
  <2>1. /\ pc[t] \in AtCurrent \ Pushing
        /\ ahead[t] = next[current[t]]
        /\ ahead[t] \in linked
    BY <1>2 DEF LocalInv, AtCurrent, Pushing
  <2>2. linked \subseteq Node
    BY LineFacts
  <2>3. /\ ahead[t] \in behind[current[t]]
        /\ behind[current[t]] = {ahead[t]} \cup behind[ahead[t]]
    BY <1>1, <2>1, <2>2, ListAssumption DEF Leads
  <2> QED
    BY <1>1, <2>1, <2>2, <2>3, LineFacts, ListAssumption
<1>3. ASSUME NEW t \in Thread, NEW u \in Thread, pc[t] \in Pushing, pc[u] \in Pushing
      PROVE  t = u
  <2>1. Holds(t, Head) /\ Holds(u, Head)
    BY <1>3 DEF Holds, LocalInv, AtCurrent, Pushing
  <2> QED
    BY <2>1, Exclusion DEF Place
<1>4. ASSUME NEW t \in Thread
      PROVE  missed[t] \subseteq linked
  <2>1. CASE pc[t] \in AtCurrent \ Pushing
    <3>1. behind[current[t]] \subseteq linked
      BY <1>1, <2>1, LineFacts DEF linked
    <3> QED
      BY <2>1, <3>1 DEF MissedInv
  <2>2. CASE pc[t] = "visit"
    <3>1. ahead[t] \in linked
      BY <2>2 DEF LocalInv
    <3> QED
      BY <2>2, <3>1, LineFacts DEF MissedInv
  <2>3. CASE pc[t] \in {"idle", "lock_head"} \cup Pushing
    BY <2>3 DEF MissedInv
  <2> QED
    BY <2>1, <2>2, <2>3 DEF TypeOK, Position, AtCurrent, Pushing
<1> QED
  BY <1>1, <1>2, <1>3, <1>4

\* Whatever leads into the line leads to a node of it, and no two of the
\* owners lead to the same one.
LEMMA OwnersFacts ==
  ASSUME IInv
  PROVE  /\ \A n \in Owners : next[n] # Null => next[n] \in linked
         /\ \A m, n \in Owners : next[m] = next[n] /\ next[m] # Null => m = n
<1> USE DEF IInv
<1> DEFINE Behind(n) == IF n \in linked THEN behind[n] ELSE linked
<1>1. ASSUME NEW n \in Owners, next[n] # Null
      PROVE  /\ next[n] \in Behind(n)
             /\ Behind(n) = {next[n]} \cup behind[next[n]]
             /\ Behind(n) \subseteq linked
  <2>1. CASE n \in linked
    BY <1>1, <2>1, LineFacts DEF NextInv, Leads
  <2>2. CASE n \notin linked /\ n = Head
    <3>1. Leads(Head, linked)
      BY <1>1, <2>2 DEF NextInv
    <3> QED
      BY <1>1, <2>2, <3>1 DEF Leads
  <2>3. CASE n \notin linked /\ n # Head
    <3>1. PICK t \in Thread : pc[t] = "publish" /\ n = ahead[t]
      BY <2>3 DEF Owners
    <3>2. Leads(n, linked)
      BY <3>1 DEF NextInv
    <3> QED
      BY <1>1, <2>3, <3>2 DEF Leads
  <2> QED
    BY <2>1, <2>2, <2>3
<1>2. ASSUME NEW m \in Owners, NEW n \in Owners, next[m] = next[n], next[m] # Null
      PROVE  m = n
  <2>1. Behind(m) = Behind(n)
    <3>1. Behind(m) = {next[m]} \cup behind[next[m]]
      BY <1>1, <1>2
    <3>2. Behind(n) = {next[n]} \cup behind[next[n]]
      BY <1>1, <1>2
    <3> QED
      BY <1>2, <3>1, <3>2
  <2>2. CASE m \in linked /\ n \in linked
    <3>1. m \notin behind[n] /\ n \notin behind[m]
      BY <2>1, <2>2, LineFacts
    <3> QED
      BY <2>2, <3>1 DEF OrderInv
  <2>3. CASE m \in linked /\ n \notin linked
    BY <2>1, <2>3, LineFacts
  <2>4. CASE m \notin linked /\ n \in linked
    BY <2>1, <2>4, LineFacts
  <2>5. CASE m \notin linked /\ n \notin linked
    <3>1. \A t \in Thread : pc[t] = "publish" => next[Head] = Null
      BY DEF NextInv
    <3>2. \A t, u \in Thread : pc[t] = "publish" /\ pc[u] = "publish" => t = u
      BY WalkFacts DEF Pushing
    <3> QED
      BY <1>2, <2>5, <3>1, <3>2 DEF Owners
  <2> QED
    BY <2>2, <2>3, <2>4, <2>5
<1> QED
  BY <1>1, <1>2

\* A step that changes neither the line nor the pointers into it, and leaves
\* a push between its two writes alone, keeps the order and the pointers.
LEMMA Quiet ==
  ASSUME IInv, behind' = behind,
         \A n \in Owners : next'[n] = next[n],
         \A t \in Thread : /\ pc'[t] = "publish" <=> pc[t] = "publish"
                           /\ pc[t] = "publish" => ahead'[t] = ahead[t]
  PROVE  OrderInv' /\ NextInv' /\ linked' = linked
<1>1. linked' = linked
  BY DEF linked
<1>2. Owners' = Owners
  BY <1>1 DEF Owners
<1>3. linked \subseteq Owners /\ Head \in Owners
  BY DEF Owners
<1>4. \A t \in Thread : pc[t] = "publish" => ahead[t] \in Owners
  BY DEF Owners
<1>5. OrderInv'
  BY <1>1 DEF IInv, OrderInv
<1>6. NextInv'
  <2>1. \A n \in linked : Leads(n, behind[n])'
    BY <1>3 DEF IInv, NextInv, Leads
  <2>2. (\A t \in Thread : pc'[t] # "publish") => Leads(Head, linked)'
    BY <1>1, <1>3 DEF IInv, NextInv, Leads
  <2>3. \A t \in Thread : pc'[t] = "publish" => next'[Head] = Null /\ Leads(ahead[t], linked)'
    BY <1>1, <1>3, <1>4 DEF IInv, NextInv, Leads
  <2>4. \A m \in linked : \E n \in Owners : next'[n] = m
    BY DEF IInv, NextInv
  <2> QED
    BY <1>1, <1>2, <2>1, <2>2, <2>3, <2>4 DEF NextInv
<1> QED
  BY <1>1, <1>5, <1>6
-----------------------------------------------------------------------------
(* The steps that leave the line alone *)

\* A new node is no node of the list, nor of another call.
LEMMA CallPushKeeps ==
  ASSUME IInv, NEW t \in Thread, NEW n \in Node, NEW v \in Value, CallPush(t, n, v)
  PROVE  IInv'
<1> USE DEF IInv, CallPush, Goto
<1>a. n \in Node \ live /\ linked \subseteq live
        /\ (\A u \in Owning : ahead[u] \in live /\ u # t)
  BY DEF PrivateInv, Owning, LocalInv, Removed
<1>b. \A u \in Thread : pc[u] = "publish" => u \in Owning
  BY DEF LocalInv, Owning, Pushing
<1>c. \A m \in Owners : m # n
  BY <1>a, <1>b, ListAssumption DEF Owners
<1>d. \A u \in Thread : missed[u] \subseteq linked
  BY WalkFacts
<1>e. \A u \in Thread : pc[u] \in AtCurrent \ Pushing => current[u] # n
  BY <1>a, ListAssumption DEF LocalInv
<1>1. TypeOK'
  BY ListAssumption DEF TypeOK, Position
<1>2. MutexInv'
  BY DEF MutexInv, Holds, AtCurrent, AtAhead
<1>3. OrderInv' /\ NextInv' /\ linked' = linked
  BY Quiet, <1>c
<1>4. LocalInv'
  BY <1>e, <1>3 DEF TypeOK, LocalInv, AtCurrent, Pushing
<1>5. PrivateInv'
  BY <1>3 DEF TypeOK, LocalInv, PrivateInv, Owning, Removed
<1>6. MissedInv'
  BY <1>a, <1>d DEF MissedInv
<1> QED
  BY <1>1, <1>2, <1>3, <1>4, <1>5, <1>6

\* A call that walks the list.
LEMMA CallWalkKeeps ==
  ASSUME IInv, NEW t \in Thread, NEW o \in Ops, NEW p \in Predicate \cup {Value},
         CallWalk(t, o, p)
  PROVE  IInv'
<1> USE DEF IInv, CallWalk, Goto, heap
<1>1. TypeOK'
  BY ListAssumption DEF TypeOK, Position
<1>2. MutexInv'
  BY DEF MutexInv, Holds, AtCurrent, AtAhead
<1>3. OrderInv' /\ NextInv' /\ linked' = linked
  BY Quiet
<1>4. LocalInv'
  BY <1>3 DEF TypeOK, LocalInv, AtCurrent, Pushing, Removed, Ops
<1>5. PrivateInv'
  BY <1>3 DEF LocalInv, PrivateInv, Owning, Removed
<1>6. MissedInv'
  BY DEF MissedInv
<1> QED
  BY <1>1, <1>2, <1>3, <1>4, <1>5, <1>6

\* The lock on _head: nothing of the list is behind a walk yet.
LEMMA LockHeadKeeps ==
  ASSUME IInv, NEW t \in Thread, LockHead(t)
  PROVE  IInv'
<1> USE DEF IInv, LockHead, Goto, Lock, heap
<1>1. TypeOK'
  BY DEF TypeOK, Place, Position, linked
<1>2. MutexInv'
  BY ListAssumption DEF TypeOK, MutexInv, Holds, AtCurrent, AtAhead
<1>3. OrderInv' /\ NextInv' /\ linked' = linked
  BY Quiet DEF TypeOK
<1>4. LocalInv'
  BY <1>3 DEF TypeOK, LocalInv, Pushing, Removed
<1>5. PrivateInv'
  BY <1>3 DEF TypeOK, PrivateInv, Owning, Removed
<1>6. MissedInv'
  BY DEF TypeOK, MissedInv, Pushing, linked
<1> QED
  BY <1>1, <1>2, <1>3, <1>4, <1>5, <1>6

\* A walk looks at the next node.
LEMMA StepAheadKeeps ==
  ASSUME IInv, NEW t \in Thread, StepAhead(t)
  PROVE  IInv'
<1> USE DEF IInv, StepAhead, Goto, heap
<1>a. next[current[t]] \in linked
  BY WalkFacts, LineFacts DEF Leads, AtCurrent, Pushing, linked
<1>b. linked \subseteq Node
  BY LineFacts
<1>1. TypeOK'
  BY <1>a, <1>b DEF TypeOK, Position
<1>2. MutexInv'
  BY DEF MutexInv, Holds, AtCurrent, AtAhead
<1>3. OrderInv' /\ NextInv' /\ linked' = linked
  BY Quiet
<1>4. LocalInv'
  BY <1>a, <1>3 DEF TypeOK, LocalInv, AtCurrent, Pushing, Removed
<1>5. PrivateInv'
  BY <1>3 DEF LocalInv, PrivateInv, Owning, Pushing, Removed
<1>6. MissedInv'
  BY DEF MissedInv, AtCurrent, Pushing
<1> QED
  BY <1>1, <1>2, <1>3, <1>4, <1>5, <1>6

\* A walk ends.
LEMMA EndOfListKeeps ==
  ASSUME IInv, NEW t \in Thread, EndOfList(t)
  PROVE  IInv'
<1> USE DEF IInv, EndOfList, Goto, Unlock, Return, heap
<1>1. TypeOK'
  BY DEF TypeOK, Position
<1>2. MutexInv'
  BY ListAssumption DEF TypeOK, MutexInv, Holds, AtCurrent, AtAhead
<1>3. OrderInv' /\ NextInv' /\ linked' = linked
  BY Quiet
<1>4. LocalInv'
  BY <1>3 DEF TypeOK, LocalInv, AtCurrent, Pushing, Removed
<1>5. PrivateInv'
  BY <1>3 DEF LocalInv, PrivateInv, Owning, Pushing, Removed
<1>6. MissedInv'
  BY DEF TypeOK, MissedInv
<1> QED
  BY <1>1, <1>2, <1>3, <1>4, <1>5, <1>6

\* A walk locks the next node.
LEMMA LockNextKeeps ==
  ASSUME IInv, NEW t \in Thread, LockNext(t)
  PROVE  IInv'
<1> USE DEF IInv, LockNext, Goto, Lock, heap, local
<1>1. TypeOK'
  BY DEF TypeOK, Position
<1>2. MutexInv'
  BY ListAssumption DEF TypeOK, MutexInv, Holds, AtCurrent, AtAhead
<1>3. OrderInv' /\ NextInv' /\ linked' = linked
  BY Quiet
<1>4. LocalInv'
  BY <1>3 DEF LocalInv, AtCurrent, Pushing, Removed
<1>5. PrivateInv'
  BY <1>3 DEF PrivateInv, Owning, Removed
<1>6. MissedInv'
  BY DEF MissedInv, AtCurrent, Pushing
<1> QED
  BY <1>1, <1>2, <1>3, <1>4, <1>5, <1>6

\* A walk lets go of the node it stands on.
LEMMA LetGoKeeps ==
  ASSUME IInv, NEW t \in Thread, LetGo(t)
  PROVE  IInv'
<1> USE DEF IInv, LetGo, Goto, Unlock, heap, local
<1>a. ahead[t] # current[t] /\ behind[current[t]] = {ahead[t]} \cup behind[ahead[t]]
  BY WalkFacts
<1>1. TypeOK'
  BY DEF TypeOK, Position
<1>2. MutexInv'
  BY <1>a, ListAssumption DEF TypeOK, MutexInv, Holds, AtCurrent, AtAhead
<1>3. OrderInv' /\ NextInv' /\ linked' = linked
  BY Quiet
<1>4. LocalInv'
  BY <1>3 DEF LocalInv, AtCurrent, Pushing, Removed
<1>5. PrivateInv'
  BY <1>3 DEF PrivateInv, Owning, Removed
<1>6. MissedInv'
  BY <1>a DEF MissedInv, AtCurrent, Pushing
<1> QED
  BY <1>1, <1>2, <1>3, <1>4, <1>5, <1>6

\* A walk goes on to the node it has seen.
LEMMA VisitKeeps ==
  ASSUME IInv, NEW t \in Thread, Visit(t)
  PROVE  IInv'
<1> USE DEF IInv, Visit, Goto, heap
<1>1. TypeOK'
  BY DEF TypeOK, Place, Position
<1>2. MutexInv'
  BY DEF TypeOK, MutexInv, Holds, AtCurrent, AtAhead
<1>3. OrderInv' /\ NextInv' /\ linked' = linked
  BY Quiet
<1>4. LocalInv'
  BY <1>3 DEF TypeOK, LocalInv, Pushing, Removed
<1>5. PrivateInv'
  BY <1>3 DEF PrivateInv, Owning, Removed
<1>6. MissedInv'
  BY DEF TypeOK, MissedInv, Pushing
<1> QED
  BY <1>1, <1>2, <1>3, <1>4, <1>5, <1>6

\* find_first_if returns.
LEMMA FindKeeps ==
  ASSUME IInv, NEW t \in Thread, Find(t)
  PROVE  IInv'
<1> USE DEF IInv, Find, Goto, Unlock, Return, heap
<1>1. TypeOK'
  BY DEF TypeOK, Position
<1>2. MutexInv'
  BY ListAssumption DEF TypeOK, MutexInv, Holds, AtCurrent, AtAhead
<1>3. OrderInv' /\ NextInv' /\ linked' = linked
  BY Quiet
<1>4. LocalInv'
  BY <1>3 DEF TypeOK, LocalInv, AtCurrent, Pushing, Removed
<1>5. PrivateInv'
  BY <1>3 DEF PrivateInv, Owning, Removed
<1>6. MissedInv'
  BY DEF TypeOK, MissedInv
<1> QED
  BY <1>1, <1>2, <1>3, <1>4, <1>5, <1>6

\* remove_if keeps a node, and goes on to it.
LEMMA KeepKeeps ==
  ASSUME IInv, NEW t \in Thread, Keep(t)
  PROVE  IInv'
<1> USE DEF IInv, Keep, Goto, Unlock, heap
<1>a. ahead[t] # current[t] /\ behind[current[t]] = {ahead[t]} \cup behind[ahead[t]]
  BY WalkFacts
<1>b. ahead[t] \notin missed[t]
  BY DEF MissedInv
<1>1. TypeOK'
  BY DEF TypeOK, Place, Position
<1>2. MutexInv'
  BY <1>a, ListAssumption DEF TypeOK, MutexInv, Holds, AtCurrent, AtAhead
<1>3. OrderInv' /\ NextInv' /\ linked' = linked
  BY Quiet
<1>4. LocalInv'
  BY <1>3 DEF TypeOK, LocalInv, Pushing, Removed
<1>5. PrivateInv'
  BY <1>3 DEF PrivateInv, Owning, Removed
<1>6. MissedInv'
  BY <1>a DEF MissedInv, AtCurrent, Pushing
<1> QED
  BY <1>1, <1>2, <1>3, <1>4, <1>5, <1>6

\* remove_if unlocks the node it took out of the list.
LEMMA UnlockNextKeeps ==
  ASSUME IInv, NEW t \in Thread, UnlockNext(t)
  PROVE  IInv'
<1> USE DEF IInv, UnlockNext, Goto, Unlock, heap, local
<1>a. ahead[t] # current[t] /\ ahead[t] \in Node
  BY ListAssumption DEF LocalInv, PrivateInv, Owning, AtCurrent, Removed
<1>1. TypeOK'
  BY DEF TypeOK, Position
<1>2. MutexInv'
  BY <1>a, ListAssumption DEF TypeOK, MutexInv, Holds, AtCurrent, AtAhead
<1>3. OrderInv' /\ NextInv' /\ linked' = linked
  BY Quiet
<1>4. LocalInv'
  BY <1>3 DEF LocalInv, AtCurrent, Pushing, Removed
<1>5. PrivateInv'
  BY <1>3 DEF PrivateInv, Owning, Removed
<1>6. MissedInv'
  BY DEF MissedInv, AtCurrent, Pushing
<1> QED
  BY <1>1, <1>2, <1>3, <1>4, <1>5, <1>6

\* remove_if frees that node.
LEMMA FreeOldKeeps ==
  ASSUME IInv, NEW t \in Thread, FreeOld(t)
  PROVE  IInv'
<1> USE DEF IInv, FreeOld, Goto
<1>1. TypeOK'
  BY DEF TypeOK, Position
<1>2. MutexInv'
  BY DEF MutexInv, Holds, AtCurrent, AtAhead
<1>3. OrderInv' /\ NextInv' /\ linked' = linked
  BY Quiet
<1>4. LocalInv'
  BY <1>3 DEF TypeOK, LocalInv, AtCurrent, Pushing, Removed
<1>5. PrivateInv'
  BY <1>3 DEF TypeOK, LocalInv, PrivateInv, Owning, Pushing, Removed
<1>6. MissedInv'
  BY DEF MissedInv, AtCurrent, Pushing
<1> QED
  BY <1>1, <1>2, <1>3, <1>4, <1>5, <1>6
-----------------------------------------------------------------------------
(* The steps that change the line *)

\* push_front hangs the list behind its new node: until it publishes the
\* node, nothing is behind _head's pointer.
LEMMA LinkKeeps ==
  ASSUME IInv, NEW t \in Thread, Link(t)
  PROVE  IInv'
<1> USE DEF IInv, Link, Goto, local
<1>1. /\ ahead[t] \in Node /\ ahead[t] \notin linked /\ ahead[t] # Head
      /\ current[t] = Head /\ Holds(t, Head)
  BY ListAssumption DEF LocalInv, PrivateInv, Owning, Holds, AtCurrent, Pushing
<1>2. \A u \in Thread : u # t => pc[u] \notin Pushing
  BY WalkFacts DEF Pushing
<1>3. \A u \in Thread : pc[u] \in AtCurrent \ Pushing => current[u] \in linked
  BY <1>1, Exclusion DEF LocalInv, Holds, AtCurrent, Pushing, Place
<1>4. linked' = linked /\ behind' = behind
  BY DEF linked
<1>5. /\ next'[ahead[t]] = next[Head] /\ next'[Head] = Null
      /\ \A n \in linked : next'[n] = next[n]
  BY <1>1, LineFacts, ListAssumption DEF TypeOK, Place
<1>6. TypeOK'
  BY <1>1 DEF TypeOK, Place, Position
<1>7. MutexInv'
  BY DEF TypeOK, MutexInv, LocalInv, Holds, AtCurrent, AtAhead
<1>8. LocalInv'
  <2>1. \A u \in Thread : pc[u] \in {"lock_next", "let_go", "test"} =>
          next'[current[u]] = next[current[u]]
    BY <1>3, <1>5 DEF AtCurrent, Pushing
  <2> QED
    BY <1>4, <2>1 DEF TypeOK, LocalInv, AtCurrent, Pushing, Removed
<1>9. PrivateInv'
  BY <1>4 DEF TypeOK, PrivateInv, Owning, Removed
<1>10. OrderInv'
  BY <1>4 DEF OrderInv
<1>11. NextInv'
  <2>1. \A u \in Thread : pc[u] # "publish" /\ (pc'[u] = "publish" <=> u = t)
    BY <1>2 DEF TypeOK, Pushing
  <2>2. Leads(Head, linked) /\ \A n \in linked : Leads(n, behind[n])
    BY <2>1 DEF NextInv
  <2>3. \A n \in linked : Leads(n, behind[n])'
    BY <1>4, <1>5, <2>2 DEF Leads
  <2>4. Leads(ahead[t], linked)'
    BY <1>4, <1>5, <2>2 DEF Leads
  <2>5. Owners = linked \cup {Head} /\ Owners' = linked \cup {Head, ahead[t]}
    BY <1>4, <2>1 DEF Owners
  <2>6. ASSUME NEW m \in linked
        PROVE  \E n \in Owners' : next'[n] = m
    <3>1. PICK n \in linked \cup {Head} : next[n] = m
      BY <2>5 DEF NextInv
    <3> QED
      BY <1>5, <2>5, <3>1
  <2> QED
    BY <1>4, <1>5, <2>1, <2>3, <2>4, <2>6 DEF NextInv
<1>12. MissedInv'
  BY DEF TypeOK, MissedInv, AtCurrent, Pushing
<1> QED
  BY <1>6, <1>7, <1>8, <1>9, <1>10, <1>11, <1>12

\* The new node becomes the first of the line.
LEMMA PublishKeeps ==
  ASSUME IInv, NEW t \in Thread, Publish(t)
  PROVE  IInv'
<1> USE DEF IInv, Publish, Goto, Unlock, Return
<1> DEFINE a == ahead[t]
<1>1. a \in Node /\ a \notin linked /\ a # Head /\ current[t] = Head /\ Holds(t, Head)
  BY ListAssumption DEF LocalInv, PrivateInv, Owning, Holds, AtCurrent, Pushing
<1>2. \A u \in Thread : u # t => pc[u] \notin Pushing
  BY WalkFacts DEF Pushing
<1>3. \A u \in Thread : pc[u] \in AtCurrent \ Pushing => current[u] \in linked
  BY <1>1, Exclusion DEF LocalInv, Holds, AtCurrent, Pushing, Place
<1>4. linked \subseteq Node
  BY LineFacts
<1>5. /\ linked' = linked \cup {a} /\ behind'[a] = linked
      /\ \A n \in Place \ {a, Head} : behind'[n] = behind[n]
  BY <1>1 DEF TypeOK, linked, Place
<1>6. /\ next'[Head] = a
      /\ \A n \in Node : next'[n] = next[n]
  BY <1>1, ListAssumption DEF TypeOK, Place
<1>7. \A n \in linked : behind'[n] = behind[n] /\ n \in Node /\ n # a
  BY <1>1, <1>4, <1>5, ListAssumption DEF Place
<1>8. TypeOK'
  BY <1>1, <1>4, ListAssumption DEF TypeOK, Place, Position
<1>9. MutexInv'
  BY <1>1, ListAssumption DEF TypeOK, MutexInv, LocalInv, Holds, AtCurrent, AtAhead, Place
<1>10. LocalInv'
  BY <1>3, <1>5, <1>6, <1>7 DEF TypeOK, LocalInv, AtCurrent, Pushing, Removed, Ops
<1>11. PrivateInv'
  BY <1>1, <1>5 DEF TypeOK, LocalInv, PrivateInv, Owning, Pushing, Removed
<1>12. OrderInv'
  <2>1. \A n \in Node \ linked' : behind'[n] = {}
    BY <1>5, ListAssumption DEF OrderInv, Place
  <2>2. \A n \in linked : n \notin behind[n] /\ behind[n] \subseteq linked
    BY LineFacts
  <2>3. ASSUME NEW n \in linked'
        PROVE  /\ n \notin behind'[n] /\ behind'[n] \subseteq linked'
               /\ \A m \in behind'[n] : behind'[m] \subseteq behind'[n]
               /\ \A m \in linked' : m = n \/ m \in behind'[n] \/ n \in behind'[m]
    <3>1. CASE n = a
      BY <1>1, <1>5, <1>7, <2>2, <3>1
    <3>2. CASE n # a
      <4>1. n \in linked /\ behind'[n] = behind[n]
        BY <1>5, <1>7, <3>2
      <4>2. /\ n \notin behind[n] /\ behind[n] \subseteq linked
            /\ \A m \in behind[n] : behind[m] \subseteq behind[n]
            /\ \A m \in linked : m = n \/ m \in behind[n] \/ n \in behind[m]
        BY <4>1 DEF OrderInv
      <4>3. \A m \in behind'[n] : behind'[m] \subseteq behind'[n]
        BY <1>5, <1>7, <4>1, <4>2
      <4>4. \A m \in linked' : m = n \/ m \in behind'[n] \/ n \in behind'[m]
        BY <1>5, <1>7, <4>1, <4>2
      <4> QED
        BY <1>5, <4>1, <4>2, <4>3, <4>4
    <3> QED
      BY <3>1, <3>2
  <2> QED
    BY <2>1, <2>3 DEF OrderInv
<1>13. NextInv'
  <2>1. \A u \in Thread : (pc[u] = "publish" <=> u = t) /\ pc'[u] # "publish"
    BY <1>2 DEF TypeOK, Pushing
  <2>2. /\ next[Head] = Null /\ Leads(a, linked)
        /\ \A n \in linked : Leads(n, behind[n]) /\ behind[n] \subseteq linked
    BY <2>1, LineFacts DEF NextInv
  <2>3. ASSUME NEW n \in linked
        PROVE  Leads(n, behind[n])'
    <3>1. next'[n] = next[n] /\ behind'[n] = behind[n]
      BY <1>6, <1>7
    <3>2. Leads(n, behind[n]) /\ behind[n] \subseteq linked
      BY <2>2
    <3>3. CASE behind[n] = {}
      BY <3>1, <3>2, <3>3 DEF Leads
    <3>4. CASE behind[n] # {}
      <4>1. next[n] \in linked /\ behind'[next[n]] = behind[next[n]]
        BY <1>7, <3>2, <3>4 DEF Leads
      <4> QED
        BY <3>1, <3>2, <3>4, <4>1 DEF Leads
    <3> QED
      BY <3>3, <3>4
  <2>4. /\ behind'[a] = {} => next'[a] = Null
        /\ behind'[a] # {} =>
             next'[a] \in behind'[a] /\ behind'[a] = {next'[a]} \cup behind'[next'[a]]
    <3>1. IF linked = {} THEN next'[a] = Null
          ELSE next'[a] \in linked /\ linked = {next'[a]} \cup behind'[next'[a]]
      <4>1. next'[a] = next[a] /\ Leads(a, linked)
        BY <1>1, <1>6, <2>2
      <4>2. linked # {} => behind'[next[a]] = behind[next[a]]
        BY <1>7, <4>1 DEF Leads
      <4> QED
        BY <4>1, <4>2 DEF Leads
    <3> QED
      BY <1>5, <3>1
  <2>5. Leads(Head, linked)'
    BY <1>5, <1>6 DEF Leads
  <2>6. Owners = linked \cup {Head, a} /\ Owners' = linked \cup {Head, a}
    BY <1>5, <2>1 DEF Owners
  <2>7. ASSUME NEW m \in linked'
        PROVE  \E n \in Owners' : next'[n] = m
    <3>1. CASE m = a
      BY <1>6, <2>6, <3>1
    <3>2. CASE m \in linked
      <4>1. PICK n \in Owners : next[n] = m
        BY <3>2 DEF NextInv
      <4> QED
        BY <1>1, <1>6, <1>7, <2>2, <2>6, <3>2, <4>1, ListAssumption
    <3> QED
      BY <1>5, <3>1, <3>2
  <2>8. ASSUME NEW n \in linked'
        PROVE  Leads(n, behind[n])'
    <3>1. CASE n = a
      BY <2>4, <3>1 DEF Leads
    <3>2. CASE n # a
      BY <1>5, <2>3, <3>2
    <3> QED
      BY <3>1, <3>2
  <2> QED
    BY <2>1, <2>5, <2>7, <2>8 DEF NextInv
<1>14. MissedInv'
  <2>1. \A u \in Thread \ {t} : pc[u] = "visit" => ahead[u] \in linked
    BY DEF LocalInv
  <2>2. \A u \in Thread : pc[u] \in AtCurrent \ Pushing =>
          behind'[current[u]] = behind[current[u]]
    BY <1>3, <1>7
  <2>3. \A u \in Thread \ {t} : pc[u] = "visit" => behind'[ahead[u]] = behind[ahead[u]]
    BY <1>7, <2>1
  <2>4. pc'[t] = "idle" /\ missed'[t] = {}
    BY DEF TypeOK
  <2>5. \A u \in Thread \ {t} :
          /\ pc'[u] = pc[u] /\ missed'[u] = missed[u] /\ pred'[u] = pred[u]
          /\ current'[u] = current[u] /\ ahead'[u] = ahead[u]
    BY DEF TypeOK
  <2> QED
    <3>1. ASSUME NEW u \in Thread \ {t}
          PROVE  /\ pc[u] \in AtCurrent \ Pushing => missed[u] \subseteq behind'[current[u]]
                 /\ pc[u] = "visit" => missed[u] \subseteq {ahead[u]} \cup behind'[ahead[u]]
                 /\ pc[u] \in {"idle", "lock_head"} \cup Pushing => missed[u] = {}
                 /\ \A n \in missed[u] : value[n] \in pred[u]
      BY <2>2, <2>3 DEF MissedInv
    <3> QED
      <4>1. UNCHANGED value
        OBVIOUS
      <4>2. pc'[t] \notin (AtCurrent \ Pushing) \cup {"visit"}
        BY <2>4 DEF AtCurrent
      <4>3. ASSUME NEW u \in Thread
            PROVE  /\ pc'[u] \in AtCurrent \ Pushing =>
                     missed'[u] \subseteq behind'[current'[u]]
                   /\ pc'[u] = "visit" =>
                        missed'[u] \subseteq {ahead'[u]} \cup behind'[ahead'[u]]
                   /\ pc'[u] \in {"idle", "lock_head"} \cup Pushing => missed'[u] = {}
                   /\ \A n \in missed'[u] : value'[n] \in pred'[u]
        <5>1. CASE u = t
          BY <2>4, <4>2, <5>1
        <5>2. CASE u # t
          <6>1. /\ pc'[u] = pc[u] /\ missed'[u] = missed[u] /\ pred'[u] = pred[u]
                /\ current'[u] = current[u] /\ ahead'[u] = ahead[u]
            BY <2>5, <5>2
          <6> QED
            BY <3>1, <4>1, <5>2, <6>1
        <5> QED
          BY <5>1, <5>2
      <4> QED
        BY <4>3 DEF MissedInv
<1> QED
  BY <1>8, <1>9, <1>10, <1>11, <1>12, <1>13, <1>14

\* remove_if takes the node ahead out of the line: its predecessor leads to
\* what was behind it, and nothing else led to it.
LEMMA UnlinkKeeps ==
  ASSUME IInv, NEW t \in Thread, Unlink(t)
  PROVE  IInv'
<1> USE DEF IInv, Unlink, Goto, local
<1> DEFINE c == current[t]
           a == ahead[t]
<1>1. /\ c \in linked \cup {Head} /\ c \in Owners /\ c # a /\ c \in Place
      /\ a \in linked /\ a \in Place /\ a = next[c] /\ Holds(t, c) /\ Holds(t, a)
      /\ behind[c] = {a} \cup behind[a]
      /\ \A u \in Thread : pc[u] = "publish" => c # Head
  BY WalkFacts, LineFacts DEF LocalInv, Owners, Holds, AtCurrent, AtAhead, Pushing, Place
<1>2. linked \subseteq Node /\ Head \notin Node /\ Null \notin Node
  BY LineFacts, ListAssumption
<1>3. /\ linked' = linked \ {a} /\ behind'[a] = {}
      /\ \A n \in Place \ {a} : behind'[n] = behind[n] \ {a}
  BY <1>1, <1>2 DEF TypeOK, linked, Place
<1>4. /\ next'[c] = next[a] /\ next'[a] = Null
      /\ \A n \in Place \ {c, a} : next'[n] = next[n]
  BY <1>1 DEF TypeOK
<1>5. \A n \in Owners \ {c} : next[n] # a
  BY <1>1, <1>2, OwnersFacts
<1>6. \A u \in Thread \ {t} : pc[u] \in AtCurrent \ Pushing => current[u] \notin {a, c}
  BY <1>1, Exclusion DEF Holds, AtCurrent, AtAhead, Place
<1>7. \A u \in Thread \ {t} : pc[u] \in {"lock_next", "let_go", "visit", "test"} => ahead[u] # a
  <2>1. ASSUME NEW u \in Thread \ {t}, pc[u] = "lock_next"
        PROVE  ahead[u] # a
    <3>1. current[u] \in Owners /\ ahead[u] = next[current[u]] /\ current[u] # c
      BY <1>6, <2>1 DEF LocalInv, Owners, AtCurrent, Pushing
    <3> QED
      BY <1>5, <3>1
  <2>2. ASSUME NEW u \in Thread \ {t}, pc[u] \in AtAhead
        PROVE  ahead[u] # a
    BY <1>1, <2>2, Exclusion DEF Holds
  <2> QED
    BY <2>1, <2>2 DEF AtAhead
<1>8. TypeOK'
  BY <1>1 DEF TypeOK, Place, Position
<1>9. MutexInv'
  BY DEF TypeOK, MutexInv, LocalInv, Holds, AtCurrent, AtAhead
<1>10. LocalInv'
  <2>1. \A u \in Thread \ {t} :
          pc[u] \in {"lock_next", "let_go", "test"} => next'[current[u]] = next[current[u]]
    BY <1>2, <1>4, <1>6 DEF LocalInv, AtCurrent, Pushing, Place
  <2>2. \A u \in Thread \ {t} : pc[u] \in AtCurrent \ Pushing =>
          current[u] \in linked' \cup {Head}
    BY <1>3, <1>6 DEF LocalInv
  <2>3. \A u \in Thread \ {t} :
          pc[u] \in {"lock_next", "let_go", "visit", "test"} => ahead[u] \in linked'
    BY <1>3, <1>7 DEF LocalInv
  <2>4. pc'[t] = "unlock_next" /\ \A u \in Thread \ {t} : pc'[u] = pc[u]
    BY DEF TypeOK
  <2> QED
    <3>1. current[t] \in linked' \cup {Head} /\ ahead[t] \in Node
      BY <1>1, <1>2, <1>3
    <3>2. op[t] # "none" /\ op[t] # "push_front"
      BY DEF LocalInv, Pushing
    <3> QED
      <4>1. \A u \in Thread \ {t} :
              /\ pc[u] \in AtCurrent \ Pushing => current[u] \in linked' \cup {Head}
              /\ pc[u] \in {"lock_next", "let_go", "test"} => ahead[u] = next'[current[u]]
              /\ pc[u] \in {"lock_next", "let_go", "visit", "test"} => ahead[u] \in linked'
        BY <2>1, <2>2, <2>3 DEF LocalInv, AtCurrent, Pushing
      <4>2. \A u \in Thread \ {t} :
              /\ pc[u] = "idle" <=> op[u] = "none"
              /\ op[u] = "push_front" =>
                   pc[u] \in {"lock_head"} \cup Pushing /\ ahead[u] \in Node
              /\ pc[u] \in Pushing => op[u] = "push_front" /\ current[u] = Head
              /\ pc[u] \in Removed => ahead[u] \in Node
        BY DEF LocalInv
      <4>3. /\ next'[current[t]] = next[ahead[t]]
            /\ op' = op /\ current' = current /\ ahead' = ahead
            /\ pc'[t] \notin {"idle", "lock_next", "let_go", "visit", "test"} \cup Pushing
        BY <1>4, <2>4 DEF Pushing
      <4>4. ASSUME NEW u \in Thread
            PROVE  /\ pc'[u] = "idle" => op'[u] = "none"
                   /\ pc'[u] # "idle" => op'[u] # "none"
                   /\ op'[u] = "push_front" =>
                        pc'[u] \in {"lock_head"} \cup Pushing /\ ahead'[u] \in Node
                   /\ pc'[u] \in Pushing => op'[u] = "push_front" /\ current'[u] = Head
                   /\ pc'[u] \in AtCurrent \ Pushing => current'[u] \in linked' \cup {Head}
                   /\ pc'[u] \in {"lock_next", "let_go", "test"} =>
                        ahead'[u] = next'[current'[u]]
                   /\ pc'[u] \in {"lock_next", "let_go", "visit", "test"} =>
                        ahead'[u] \in linked'
                   /\ pc'[u] \in Removed => ahead'[u] \in Node
        <5>1. CASE u = t
          BY <2>4, <3>1, <3>2, <4>3, <5>1
        <5>2. CASE u # t
          <6>1. /\ pc'[u] = pc[u] /\ op'[u] = op[u]
                /\ current'[u] = current[u] /\ ahead'[u] = ahead[u]
            BY <2>4, <4>3, <5>2
          <6>2. /\ pc'[u] = "idle" <=> op'[u] = "none"
                /\ op'[u] = "push_front" =>
                     pc'[u] \in {"lock_head"} \cup Pushing /\ ahead'[u] \in Node
                /\ pc'[u] \in Pushing => op'[u] = "push_front" /\ current'[u] = Head
                /\ pc'[u] \in Removed => ahead'[u] \in Node
            BY <4>2, <5>2, <6>1
          <6>3. /\ pc'[u] \in AtCurrent \ Pushing => current'[u] \in linked' \cup {Head}
                /\ pc'[u] \in {"lock_next", "let_go", "test"} =>
                     ahead'[u] = next'[current'[u]]
                /\ pc'[u] \in {"lock_next", "let_go", "visit", "test"} =>
                     ahead'[u] \in linked'
            BY <4>1, <5>2, <6>1
          <6> QED
            BY <6>2, <6>3
        <5> QED
          BY <5>1, <5>2
      <4> QED
        BY <4>4 DEF LocalInv
<1>11. PrivateInv'
  <2>1. op[t] # "push_front"
    BY DEF LocalInv, Pushing
  <2>2. Owning' = Owning \cup {t} /\ t \notin Owning
    BY <2>1 DEF TypeOK, Owning, Removed
  <2> QED
    BY <1>1, <1>3, <2>2 DEF PrivateInv
<1>12. OrderInv'
  <2>1. \A n \in linked' : n \in linked /\ n # a /\ behind'[n] = behind[n] \ {a}
    BY <1>2, <1>3 DEF Place
  <2>2. \A n \in Node \ linked' : behind'[n] = {}
    BY <1>2, <1>3 DEF OrderInv, Place
  <2>3. ASSUME NEW n \in linked'
        PROVE  /\ n \notin behind'[n] /\ behind'[n] \subseteq linked'
               /\ \A m \in behind'[n] : behind'[m] \subseteq behind'[n]
               /\ \A m \in linked' : m = n \/ m \in behind'[n] \/ n \in behind'[m]
    <3>1. n \notin behind'[n] /\ behind'[n] \subseteq linked'
      BY <1>3, <2>1, LineFacts
    <3>2. ASSUME NEW m \in behind'[n]
          PROVE  behind'[m] \subseteq behind'[n]
      <4>1. m \in linked' /\ behind'[n] = behind[n] \ {a} /\ m \in behind[n] /\ n \in linked
        BY <2>1, <3>1
      <4>2. behind[m] \subseteq behind[n] /\ behind'[m] = behind[m] \ {a}
        BY <2>1, <4>1 DEF OrderInv
      <4> QED
        BY <4>1, <4>2
    <3>3. ASSUME NEW m \in linked'
          PROVE  m = n \/ m \in behind'[n] \/ n \in behind'[m]
      <4>1. m = n \/ m \in behind[n] \/ n \in behind[m]
        BY <2>1 DEF OrderInv
      <4>2. behind'[m] = behind[m] \ {a} /\ behind'[n] = behind[n] \ {a} /\ m # a /\ n # a
        BY <2>1
      <4> QED
        BY <4>1, <4>2
    <3> QED
      BY <3>1, <3>2, <3>3
  <2> QED
    BY <2>2, <2>3 DEF OrderInv
<1>13. ASSUME NEW n, NEW nodes, n \in Owners \ {c, a}, n \in Place, nodes \subseteq linked,
              Leads(n, nodes)
       PROVE  /\ nodes \ {a} = {} => next'[n] = Null
              /\ nodes \ {a} # {} => /\ next'[n] \in nodes \ {a}
                                     /\ nodes \ {a} = {next'[n]} \cup behind'[next'[n]]
  <2>1. next'[n] = next[n] /\ next[n] # a
    BY <1>4, <1>5, <1>13
  <2>2. CASE nodes = {}
    BY <1>13, <2>1, <2>2 DEF Leads
  <2>3. CASE nodes # {}
    <3>1. next[n] \in nodes /\ nodes = {next[n]} \cup behind[next[n]] /\ next[n] \in Place \ {a}
      BY <1>2, <1>13, <2>1, <2>3 DEF Leads, Place
    <3>2. behind'[next[n]] = behind[next[n]] \ {a}
      BY <1>3, <3>1
    <3>3. nodes \ {a} = {next[n]} \cup (behind[next[n]] \ {a})
      BY <2>1, <3>1
    <3> QED
      BY <2>1, <3>1, <3>2, <3>3
  <2> QED
    BY <2>2, <2>3
<1>14. NextInv'
  <2>1. \A u \in Thread : pc'[u] = "publish" <=> pc[u] = "publish"
    BY DEF TypeOK
  <2>2. Owners' = Owners \ {a}
    <3>1. \A u \in Thread : pc[u] = "publish" => ahead[u] # a
      BY <1>1 DEF LocalInv, PrivateInv, Owning, Pushing
    <3> QED
      BY <1>1, <1>2, <1>3, <2>1, <3>1 DEF Owners
  <2>3. \A n \in linked' : behind'[n] = behind[n] \ {a} /\ n \in linked /\ n # a /\ n \in Place
    BY <1>2, <1>3 DEF Place
  <2>4. Leads(c, behind[c])'
    <3>1. behind'[c] = behind[a] /\ c' = c
      <4>1. behind'[c] = behind[c] \ {a} /\ a \notin behind[a]
        BY <1>1, <1>3, LineFacts
      <4> QED
        BY <1>1, <4>1
    <3>2. Leads(a, behind[a]) /\ behind[a] \subseteq linked
      BY <1>1, LineFacts DEF NextInv
    <3>3. CASE behind[a] = {}
      BY <1>4, <3>1, <3>2, <3>3 DEF Leads
    <3>4. CASE behind[a] # {}
      <4>1. next[a] \in behind[a] /\ behind[a] = {next[a]} \cup behind[next[a]]
        BY <3>2, <3>4 DEF Leads
      <4>2. next[a] \in Place \ {a} /\ a \notin behind[next[a]]
        BY <1>1, <1>2, <3>2, <4>1, LineFacts DEF Place
      <4>3. behind'[next[a]] = behind[next[a]]
        <5>1. behind'[next[a]] = behind[next[a]] \ {a}
          BY <1>3, <4>2
        <5> QED
          BY <4>2, <5>1
      <4> QED
        <5>1. next'[c] = next[a]
          BY <1>4
        <5>2. behind'[c] # {} /\ next'[c] \in behind'[c]
              /\ behind'[c] = {next'[c]} \cup behind'[next'[c]]
          BY <3>1, <3>4, <4>1, <4>3, <5>1
        <5> QED
          BY <3>1, <5>2 DEF Leads
    <3> QED
      BY <3>3, <3>4
  <2>5. ASSUME NEW n \in linked'
        PROVE  Leads(n, behind[n])'
    <3>1. CASE n = c
      BY <2>4, <3>1
    <3>2. CASE n # c
      <4>1. n \in Owners \ {c, a} /\ behind[n] \subseteq linked /\ Leads(n, behind[n])
        BY <2>3, <3>2, LineFacts DEF Owners, NextInv
      <4> QED
        <5>1. behind'[n] = behind[n] \ {a} /\ n \in Place
          BY <2>3
        <5>2. /\ behind[n] \ {a} = {} => next'[n] = Null
              /\ behind[n] \ {a} # {} => /\ next'[n] \in behind[n] \ {a}
                                         /\ behind[n] \ {a} = {next'[n]} \cup behind'[next'[n]]
          BY <1>13, <4>1, <5>1
        <5> QED
          BY <5>1, <5>2 DEF Leads
    <3> QED
      BY <3>1, <3>2
  <2>6. ASSUME \A u \in Thread : pc[u] # "publish"
        PROVE  Leads(Head, linked)'
    <3>1. CASE Head = c
      BY <2>4, <3>1 DEF linked
    <3>2. CASE Head # c
      <4>1. Head \in Owners \ {c, a} /\ Head \in Place /\ Leads(Head, linked)
        BY <1>1, <1>2, <2>6, <3>2 DEF Owners, NextInv, Place
      <4> QED
        <5>1. /\ linked \ {a} = {} => next'[Head] = Null
              /\ linked \ {a} # {} => /\ next'[Head] \in linked \ {a}
                                      /\ linked \ {a} = {next'[Head]} \cup behind'[next'[Head]]
          BY <1>13, <4>1
        <5> QED
          BY <1>3, <5>1 DEF Leads
    <3> QED
      BY <3>1, <3>2
  <2>7. ASSUME NEW u \in Thread, pc[u] = "publish"
        PROVE  next'[Head] = Null /\ Leads(ahead[u], linked)'
    <3>1. /\ next[Head] = Null /\ Leads(ahead[u], linked)
          /\ Head \in Place \ {c, a} /\ ahead'[u] = ahead[u]
      BY <1>1, <1>2, <2>7 DEF NextInv, Place
    <3>2. ahead[u] \in Owners \ {c, a} /\ ahead[u] \in Place
      BY <1>1, <1>2, <2>7 DEF Owners, LocalInv, PrivateInv, Owning, Pushing, Place
    <3> QED
      <4>1. PICK h : h = ahead[u]
        OBVIOUS
      <4>2. h \in Owners \ {c, a} /\ h \in Place /\ Leads(h, linked)
        BY <3>1, <3>2, <4>1
      <4>3. /\ linked \ {a} = {} => next'[h] = Null
            /\ linked \ {a} # {} => /\ next'[h] \in linked \ {a}
                                    /\ linked \ {a} = {next'[h]} \cup behind'[next'[h]]
        BY <1>13, <4>2
      <4> QED
        BY <1>3, <1>4, <3>1, <4>1, <4>3 DEF Leads
  <2>8. ASSUME NEW m \in linked'
        PROVE  \E n \in Owners' : next'[n] = m
    <3>1. PICK n \in Owners : next[n] = m /\ m # a /\ m \in linked
      BY <1>3 DEF NextInv
    <3>2. CASE n = a
      BY <1>1, <1>4, <2>2, <3>1, <3>2
    <3>3. CASE n # a
      <4>1. n # c /\ n \in Place
        BY <1>1, <1>2, <3>1 DEF Owners, LocalInv, Pushing, Place
      <4> QED
        BY <1>4, <2>2, <3>1, <3>3, <4>1
    <3> QED
      BY <3>2, <3>3
  <2> QED
    BY <2>1, <2>5, <2>6, <2>7, <2>8 DEF NextInv
<1>15. MissedInv'
  <2>1. \A u \in Thread : missed'[u] = missed[u] \ {a}
    BY DEF TypeOK
  <2>2. \A u \in Thread : pc[u] \in AtCurrent \ Pushing =>
          behind'[current[u]] = behind[current[u]] \ {a}
    BY <1>1, <1>2, <1>3, <1>6 DEF LocalInv, Place
  <2>3. \A u \in Thread : pc[u] = "visit" => behind'[ahead[u]] = behind[ahead[u]] \ {a}
    BY <1>2, <1>3, <1>7 DEF LocalInv, Place
  <2>4. /\ pc[t] = "test" /\ pc'[t] = "unlock_next"
        /\ \A u \in Thread \ {t} : pc'[u] = pc[u]
    BY DEF TypeOK
  <2> QED
    <3>1. ASSUME NEW u \in Thread
          PROVE  /\ pc[u] \in AtCurrent \ Pushing => missed'[u] \subseteq behind'[current[u]]
                 /\ pc[u] = "visit" => missed'[u] \subseteq {ahead[u]} \cup behind'[ahead[u]]
                 /\ pc[u] \in {"idle", "lock_head"} \cup Pushing => missed'[u] = {}
                 /\ \A n \in missed'[u] : value[n] \in pred[u]
      <4>1. CASE pc[u] \in AtCurrent \ Pushing
        <5>1. missed[u] \subseteq behind[current[u]]
                /\ \A n \in missed[u] : value[n] \in pred[u]
          BY <4>1 DEF MissedInv
        <5> QED
          BY <2>1, <2>2, <4>1, <5>1 DEF AtCurrent
      <4>2. CASE pc[u] \notin AtCurrent \ Pushing
        <5>1. /\ pc[u] = "visit" => missed[u] \subseteq {ahead[u]} \cup behind[ahead[u]]
              /\ pc[u] \in {"idle", "lock_head"} \cup Pushing => missed[u] = {}
              /\ \A n \in missed[u] : value[n] \in pred[u]
          BY DEF MissedInv
        <5>2. pc[u] = "visit" => ahead[u] # a
          BY <1>7, <2>4
        <5> QED
          BY <2>1, <2>3, <4>2, <5>1, <5>2
      <4> QED
        BY <4>1, <4>2
    <3>2. ASSUME NEW u \in Thread
          PROVE  /\ pc'[u] \in AtCurrent \ Pushing => pc[u] \in AtCurrent \ Pushing
                 /\ pc'[u] = "visit" => pc[u] = "visit"
                 /\ pc'[u] \in {"idle", "lock_head"} \cup Pushing =>
                      pc[u] \in {"idle", "lock_head"} \cup Pushing
      BY <2>4 DEF AtCurrent, Pushing
    <3> QED
      BY <3>1, <3>2 DEF MissedInv
<1> QED
  BY <1>8, <1>9, <1>10, <1>11, <1>12, <1>14, <1>15
-----------------------------------------------------------------------------
(* The theorems *)

\* The empty list satisfies the invariant.
LEMMA InitHolds ==
  ASSUME Init
  PROVE  IInv
<1> USE DEF Init
<1>1. TypeOK /\ linked = {} /\ Owning = {}
  BY DEF TypeOK, Place, Position, linked, Owning, Removed
<1>2. MutexInv /\ LocalInv /\ PrivateInv
  BY <1>1, ListAssumption
  DEF MutexInv, Holds, LocalInv, PrivateInv, AtCurrent, AtAhead, Pushing, Removed, Place
<1>3. OrderInv
  BY <1>1 DEF OrderInv, Place
<1>4. NextInv
  BY <1>1 DEF NextInv, Leads, Place
<1>5. MissedInv
  BY DEF MissedInv, AtCurrent
<1> QED
  BY <1>1, <1>2, <1>3, <1>4, <1>5 DEF IInv

\* Every step keeps the invariant.
LEMMA NextKeeps ==
  ASSUME IInv, [Next]_vars
  PROVE  IInv'
<1>1. CASE UNCHANGED vars
  <2> USE <1>1 DEF vars, heap, local, linked
  <2>1. TypeOK' /\ MutexInv' /\ LocalInv'
    BY DEF IInv, TypeOK, MutexInv, Holds, LocalInv
  <2>2. PrivateInv' /\ OrderInv' /\ MissedInv'
    BY DEF IInv, PrivateInv, Owning, OrderInv, MissedInv
  <2>3. NextInv'
    BY DEF IInv, NextInv, Leads, Owners
  <2> QED
    BY <2>1, <2>2, <2>3 DEF IInv
<1>2. ASSUME NEW t \in Thread, Step(t)
      PROVE  IInv'
  <2>1. CASE \E n \in Node, v \in Value : CallPush(t, n, v)
    BY <2>1, CallPushKeeps
  <2>2. CASE \E o \in Ops, p \in Predicate \cup {Value} : CallWalk(t, o, p)
    BY <2>2, CallWalkKeeps
  <2>3. CASE Push(t)
    BY <2>3, LockHeadKeeps, LinkKeeps, PublishKeeps DEF Push
  <2>4. CASE Walk(t)
    BY <2>4, StepAheadKeeps, EndOfListKeeps, LockNextKeeps, LetGoKeeps, VisitKeeps,
       FindKeeps, KeepKeeps, UnlinkKeeps, UnlockNextKeeps, FreeOldKeeps DEF Walk
  <2> QED
    BY <1>2, <2>1, <2>2, <2>3, <2>4 DEF Step
<1> QED
  BY <1>1, <1>2 DEF Next

\* The invariant that the theorems rest on: which mutexes each thread holds,
\* and what that says of the nodes it has reached (chapter_6.h:332-384).
THEOREM Inductive == Spec => []IInv
<1>1. Init => IInv
  BY InitHolds
<1>2. IInv /\ [Next]_vars => IInv'
  BY NextKeeps
<1> QED
  BY <1>1, <1>2, PTL DEF Spec

\* Where the nodes that a thread is about to touch come from: it has their
\* mutex, or they are its own.
LEMMA Touched ==
  ASSUME IInv, NEW t \in Thread
  PROVE  /\ \A n \in Fields(t) :
              \/ Holds(t, n) /\ n \in linked \cup {Head}
              \/ t \in Owning /\ n = ahead[t]
         /\ \A n \in Mutexes(t) :
              \/ n \in linked \cup {Head}
              \/ t \in Owning /\ n = ahead[t]
<1> USE DEF IInv
<1>1. CASE pc[t] \in {"idle", "lock_head"}
  BY <1>1 DEF Fields, Mutexes
<1>2. CASE pc[t] \in Pushing
  <2>1. current[t] = Head /\ t \in Owning /\ Holds(t, Head)
    BY <1>2 DEF LocalInv, Owning, Holds, AtCurrent, Pushing
  <2> QED
    BY <1>2, <2>1 DEF Fields, Mutexes, Pushing
<1>3. CASE pc[t] \in {"step", "lock_next", "let_go", "test"}
  <2>1. current[t] \in linked \cup {Head} /\ Holds(t, current[t])
    BY <1>3 DEF LocalInv, Holds, AtCurrent, Pushing
  <2>2. pc[t] # "step" => ahead[t] \in linked
    BY <1>3 DEF LocalInv
  <2>3. pc[t] = "test" => Holds(t, ahead[t])
    BY DEF Holds, AtAhead
  <2> QED
    BY <1>3, <2>1, <2>2, <2>3 DEF Fields, Mutexes
<1>4. CASE pc[t] = "visit"
  <2>1. ahead[t] \in linked /\ Holds(t, ahead[t])
    BY <1>4 DEF LocalInv, Holds, AtAhead
  <2> QED
    BY <1>4, <2>1 DEF Fields, Mutexes
<1>5. CASE pc[t] \in Removed
  BY <1>5 DEF Fields, Mutexes, Owning, Removed
<1> QED
  BY <1>1, <1>2, <1>3, <1>4, <1>5 DEF TypeOK, Position, Pushing, Removed

\* No thread touches a freed node, or a node another thread touches, and a
\* node is freed when no other thread can still ask for its mutex, for any
\* threads, addresses, values and predicates (chapter_6.h:369-384).
THEOREM MemoryIsSafe == Spec => []MemorySafe
<1>1. ASSUME IInv PROVE MemorySafe
  <2> USE DEF IInv
  <2>1. ASSUME NEW t \in Thread
        PROVE  Fields(t) \cup Mutexes(t) \subseteq live \cup {Head}
    BY <1>1, <2>1, Touched DEF PrivateInv
  <2>2. ASSUME NEW t \in Thread, NEW u \in Thread \ {t}, NEW n \in Fields(t), n \in Fields(u)
        PROVE  FALSE
    <3>1. \/ Holds(t, n) /\ n \in linked \cup {Head}
          \/ t \in Owning /\ n = ahead[t]
      BY <1>1, <2>2, Touched
    <3>2. \/ Holds(u, n) /\ n \in linked \cup {Head}
          \/ u \in Owning /\ n = ahead[u]
      BY <1>1, <2>2, Touched
    <3>4. n \in linked \cup {Head} => ~(Holds(t, n) /\ Holds(u, n))
      BY <1>1, LineFacts, Exclusion DEF Place
    <3>3. \A w \in Owning : ahead[w] \notin linked \cup {Head}
      BY <1>1, ListAssumption DEF PrivateInv, LocalInv, Owning
    <3> QED
      BY <1>1, <3>1, <3>2, <3>3, <3>4 DEF PrivateInv
  <2>3. ASSUME NEW t \in Thread, NEW u \in Thread \ {t}, pc[t] = "free", ahead[t] \in Mutexes(u)
        PROVE  FALSE
    <3>1. t \in Owning /\ ahead[t] \notin linked \cup {Head}
      BY <1>1, <2>3, ListAssumption DEF PrivateInv, LocalInv, Owning, Removed
    <3>2. u \in Owning /\ ahead[t] = ahead[u]
      BY <1>1, <2>3, <3>1, Touched
    <3> QED
      BY <1>1, <3>1, <3>2 DEF PrivateInv
  <2> QED
    BY <2>1, <2>2, <2>3 DEF MemorySafe
<1> QED
  BY <1>1, Inductive, PTL

\* Every node of the list has exactly one owner, and every allocated node is
\* in the list or belongs to one call, for any threads, addresses, values and
\* predicates (chapter_6.h:335-337, 376).
THEOREM ListIsExact == Spec => []ListExact
<1>1. ASSUME IInv PROVE ListExact
  <2> USE <1>1 DEF IInv
  <2>1. Private = {ahead[t] : t \in Owning}
    BY DEF Private, Owning, LocalInv, Removed
  <2>2. live = linked \cup Private /\ linked \cap Private = {}
    BY <2>1 DEF PrivateInv
  <2>3. {next[n] : n \in Owners} \ {Null} = linked
    <3>1. Null \notin linked
      BY LineFacts, ListAssumption
    <3> QED
      BY <3>1, OwnersFacts DEF NextInv
  <2> QED
    BY <2>2, <2>3, OwnersFacts DEF ListExact
<1> QED
  BY <1>1, Inductive, PTL

\* A walk that reaches the end of the list has reached every node that was
\* there when it locked _head and still is, whatever the other threads pushed
\* and removed in the meantime (chapter_6.h:341-384).
THEOREM WalksMissNothing == Spec => []NothingMissed
<1>1. ASSUME IInv PROVE NothingMissed
  <2> SUFFICES ASSUME NEW t \in Thread, pc[t] = "step", next[current[t]] = Null
               PROVE  missed[t] = {}
    BY DEF NothingMissed
  <2>1. /\ Leads(current[t], behind[current[t]])
        /\ behind[current[t]] \subseteq Node
        /\ missed[t] \subseteq behind[current[t]]
    BY <1>1, WalkFacts, LineFacts DEF IInv, MissedInv, AtCurrent, Pushing, linked
  <2> QED
    BY <2>1, ListAssumption DEF Leads
<1> QED
  BY <1>1, Inductive, PTL
=============================================================================
