----------------------- MODULE ThreadSafeQueueProofs -----------------------
(***************************************************************************)
(* Proofs about thread_safe_queue, for any threads, nodes and values: its  *)
(* safety, and that it implements FifoQueue.                               *)
(***************************************************************************)
EXTENDS ThreadSafeQueue, SequenceTheorems, TLAPS

HeadHeld == {"get_tail", "test", "take", "pop"}
TailHeld == {"set_data", "set_next", "set_tail", "unlock_tail"}

\* Each mutex is owned by exactly the thread that is inside its critical
\* section.
MutexInv ==
  \A t \in Thread :
    /\ head_mutex = t <=> pc[t] \in HeadHeld
    /\ tail_mutex = t <=> pc[t] \in TailHeld

\* The locals a thread relies on at each position.
LocalInv ==
  \A t \in Thread :
    /\ pc[t] \in {"lock_tail"} \cup TailHeld =>
         op[t] \in PushOps /\ val[t] \in Value
    /\ pc[t] \in HeadHeld \cup {"lock_head", "blocked"} => op[t] \in Ops \ PushOps
    /\ pc[t] = "take" => op[t] \in RefPops
    /\ pc[t] = "pop" => op[t] \in PopOps
    /\ t \in Private => ptr[t] \in Node

\* What a push has already written into the dummy it holds tail_mutex for.
PushInv ==
  \A t \in Thread :
    /\ pc[t] \in {"set_next", "set_tail"} => data[tail] = val[t]
    /\ pc[t] = "set_tail" => next[tail] = ptr[t]

\* A pop that goes on has a node before the dummy, even when the dummy it
\* compared with is no longer the last one.
PopInv ==
  \A t \in Thread :
    /\ pc[t] = "test" => seen[t] = head \/ Len(chain) > 1
    /\ pc[t] \in {"take", "pop"} => Len(chain) > 1

IInv == TypeOK /\ MutexInv /\ LocalInv /\ PushInv /\ PopInv /\ Linked /\ HeapExact
-----------------------------------------------------------------------------
(* Sequences, and what the invariant says of the nodes *)

\* Append adds one element and keeps the others.
LEMMA AppendFacts ==
  ASSUME NEW S, NEW s \in Seq(S), NEW e \in S
  PROVE  /\ Append(s, e) \in Seq(S)
         /\ Len(Append(s, e)) = Len(s) + 1
         /\ \A i \in 1..Len(s) : Append(s, e)[i] = s[i]
         /\ Append(s, e)[Len(s) + 1] = e
  OBVIOUS

\* Tail drops the first element.
LEMMA TailFacts ==
  ASSUME NEW S, NEW s \in Seq(S), Len(s) > 0
  PROVE  /\ Tail(s) \in Seq(S)
         /\ Len(Tail(s)) = Len(s) - 1
         /\ \A i \in 1..(Len(s) - 1) : Tail(s)[i] = s[i + 1]
  OBVIOUS

\* The nodes of the list and those of the calls are allocated and disjoint,
\* and a pop that goes on does not reach the dummy.
LEMMA Separation ==
  ASSUME IInv
  PROVE  /\ InChain \subseteq live
         /\ head \in InChain
         /\ tail \in InChain
         /\ InChain \subseteq Node
         /\ \A t \in Thread : pc[t] \in {"take", "pop"} => head # tail
         /\ \A t \in Private : ptr[t] \in live \ InChain
<1> USE DEF IInv, Linked
<1>1. Len(chain) \in Nat \ {0}
  BY DEF TypeOK
<1>2. head \in InChain /\ tail \in InChain
  BY <1>1 DEF InChain
<1>3. InChain \subseteq live /\ \A t \in Private : ptr[t] \in live \ InChain
  BY DEF HeapExact
<1>4. InChain \subseteq Node
  BY <1>1 DEF InChain, TypeOK
<1>5. ASSUME NEW t \in Thread, pc[t] \in {"take", "pop"} PROVE head # tail
  BY <1>1, <1>5 DEF PopInv
<1> QED
  BY <1>2, <1>3, <1>4, <1>5

\* InChain as chain stays, grows and shrinks.
LEMMA ChainSame ==
  ASSUME UNCHANGED chain
  PROVE  InChain' = InChain
BY DEF InChain

\* push links one node.
LEMMA ChainGrows ==
  ASSUME IInv, NEW n \in Node, chain' = Append(chain, n)
  PROVE  InChain' = InChain \cup {n}
<1>1. chain \in Seq(Node) /\ Len(chain) \in Nat
  BY DEF IInv, TypeOK
<1> QED
  BY <1>1, AppendFacts DEF InChain

\* pop_head_cond unlinks the first node.
LEMMA ChainShrinks ==
  ASSUME IInv, Len(chain) > 1, chain' = Tail(chain)
  PROVE  InChain' = InChain \ {head}
<1>1. chain \in Seq(Node) /\ Len(chain) \in Nat
  BY DEF IInv, TypeOK
<1>2. /\ Len(chain') = Len(chain) - 1
      /\ \A i \in 1..(Len(chain) - 1) : chain'[i] = chain[i + 1]
  BY <1>1, TailFacts
<1>3. /\ head = chain[1]
      /\ \A i, j \in 1..Len(chain) : chain[i] = chain[j] => i = j
  BY DEF IInv, Linked
<1>4. ASSUME NEW x \in InChain' PROVE x \in InChain \ {head}
  <2>1. PICK i \in 1..(Len(chain) - 1) : x = chain[i + 1]
    BY <1>1, <1>2, <1>4 DEF InChain
  <2> QED
    BY <1>1, <1>3, <2>1 DEF InChain
<1>5. ASSUME NEW x \in InChain \ {head} PROVE x \in InChain'
  <2>1. PICK i \in 1..Len(chain) : x = chain[i] /\ i # 1
    BY <1>1, <1>3, <1>5 DEF InChain
  <2>2. i - 1 \in 1..(Len(chain) - 1) /\ chain'[i - 1] = x
    BY <1>1, <1>2, <2>1
  <2> QED
    BY <1>1, <1>2, <2>2 DEF InChain
<1> QED
  BY <1>4, <1>5
-----------------------------------------------------------------------------
(* Every step keeps every part of the invariant *)

\* Every step keeps every variable in its type: _head never becomes null
\* because a pop that goes on has a node before the dummy.
LEMMA TypeStep ==
  ASSUME NEW t \in Thread, IInv, Step(t)
  PROVE  TypeOK'
<1> USE DEF IInv, TypeOK, MutexInv, LocalInv, PopInv, Linked, shared, sync, local, Goto,
            Return, DropLocals, Positions, PushOps, PopOps, WaitOps, RefPops, Ops,
            Waiting, Private, TailHeld, HeadHeld
<1>1. ASSUME NEW o \in PushOps, NEW v \in Value, NEW n \in Node,
             CallPush(t, o, v, n)
      PROVE  TypeOK'
  BY <1>1 DEF CallPush
<1>2. CASE LockTail(t)
  BY <1>2 DEF LockTail
<1>3. CASE SetData(t)
  BY <1>3 DEF SetData
<1>4. CASE SetNext(t)
  BY <1>4 DEF SetNext
<1>5. CASE SetTail(t)
  BY <1>5 DEF SetTail
<1>6. CASE UnlockTail(t)
  BY <1>6 DEF UnlockTail
<1>7. CASE NotifyOne(t)
  BY <1>7 DEF NotifyOne
<1>8. ASSUME NEW o \in Ops, CallPop(t, o) PROVE TypeOK'
  BY <1>8 DEF CallPop
<1>9. CASE LockHead(t)
  BY <1>9 DEF LockHead
<1>10. CASE GetTail(t)
  BY <1>10 DEF GetTail
<1>11. CASE FindNode(t)
  BY <1>11 DEF FindNode
<1>12. CASE GiveUp(t)
  BY <1>12 DEF GiveUp
<1>13. CASE Sleep(t)
  BY <1>13 DEF Sleep
<1>14. CASE SpuriousWake(t)
  BY <1>14 DEF SpuriousWake
<1>15. CASE Take(t)
  BY <1>15 DEF Take
<1>16. CASE PopHead(t)
  BY <1>16 DEF PopHead
<1>17. CASE FreeOld(t)
  BY <1>17 DEF FreeOld
<1> QED
  BY <1>1, <1>2, <1>3, <1>4, <1>5, <1>6, <1>7, <1>8, <1>9, <1>10, <1>11, <1>12, <1>13, <1>14,
     <1>15, <1>16, <1>17 DEF Step, Push, Pop

\* Locking and unlocking follow the critical sections.
LEMMA MutexStep ==
  ASSUME NEW t \in Thread, IInv, Step(t)
  PROVE  MutexInv'
<1> USE QueueAssumption
    DEF IInv, TypeOK, MutexInv, HeadHeld, TailHeld, shared, sync, local, Goto, Return,
        DropLocals, Waiting
<1>1. ASSUME NEW o \in PushOps, NEW v \in Value, NEW n \in Node,
             CallPush(t, o, v, n)
      PROVE  MutexInv'
  BY <1>1 DEF CallPush
<1>2. CASE LockTail(t)
  BY <1>2 DEF LockTail
<1>3. CASE SetData(t)
  BY <1>3 DEF SetData
<1>4. CASE SetNext(t)
  BY <1>4 DEF SetNext
<1>5. CASE SetTail(t)
  BY <1>5 DEF SetTail
<1>6. CASE UnlockTail(t)
  BY <1>6 DEF UnlockTail
<1>7. CASE NotifyOne(t)
  BY <1>7 DEF NotifyOne
<1>8. ASSUME NEW o \in Ops, CallPop(t, o) PROVE MutexInv'
  BY <1>8 DEF CallPop
<1>9. CASE LockHead(t)
  BY <1>9 DEF LockHead
<1>10. CASE GetTail(t)
  BY <1>10 DEF GetTail
<1>11. CASE FindNode(t)
  BY <1>11 DEF FindNode
<1>12. CASE GiveUp(t)
  BY <1>12 DEF GiveUp
<1>13. CASE Sleep(t)
  BY <1>13 DEF Sleep
<1>14. CASE SpuriousWake(t)
  BY <1>14 DEF SpuriousWake
<1>15. CASE Take(t)
  BY <1>15 DEF Take
<1>16. CASE PopHead(t)
  BY <1>16 DEF PopHead
<1>17. CASE FreeOld(t)
  BY <1>17 DEF FreeOld
<1> QED
  BY <1>1, <1>2, <1>3, <1>4, <1>5, <1>6, <1>7, <1>8, <1>9, <1>10, <1>11, <1>12, <1>13, <1>14,
     <1>15, <1>16, <1>17 DEF Step, Push, Pop

\* The locals of a call keep what its next positions rely on.
LEMMA LocalStep ==
  ASSUME NEW t \in Thread, IInv, Step(t)
  PROVE  LocalInv'
<1> USE DEF IInv, TypeOK, LocalInv, HeadHeld, TailHeld, shared, sync, local, Goto, Return,
            DropLocals, Waiting, Private, Positions, PushOps, PopOps, WaitOps, RefPops, Ops
<1>1. ASSUME NEW o \in PushOps, NEW v \in Value, NEW n \in Node,
             CallPush(t, o, v, n)
      PROVE  LocalInv'
  BY <1>1 DEF CallPush
<1>2. CASE LockTail(t)
  BY <1>2 DEF LockTail
<1>3. CASE SetData(t)
  BY <1>3 DEF SetData
<1>4. CASE SetNext(t)
  BY <1>4 DEF SetNext
<1>5. CASE SetTail(t)
  BY <1>5 DEF SetTail
<1>6. CASE UnlockTail(t)
  BY <1>6 DEF UnlockTail
<1>7. CASE NotifyOne(t)
  BY <1>7 DEF NotifyOne
<1>8. ASSUME NEW o \in Ops, CallPop(t, o) PROVE LocalInv'
  BY <1>8 DEF CallPop
<1>9. CASE LockHead(t)
  BY <1>9 DEF LockHead
<1>10. CASE GetTail(t)
  BY <1>10 DEF GetTail
<1>11. CASE FindNode(t)
  BY <1>11 DEF FindNode
<1>12. CASE GiveUp(t)
  BY <1>12 DEF GiveUp
<1>13. CASE Sleep(t)
  BY <1>13 DEF Sleep
<1>14. CASE SpuriousWake(t)
  BY <1>14 DEF SpuriousWake
<1>15. CASE Take(t)
  BY <1>15 DEF Take
<1>16. CASE PopHead(t)
  BY <1>16 DEF PopHead
<1>17. CASE FreeOld(t)
  BY <1>17 DEF FreeOld
<1> QED
  BY <1>1, <1>2, <1>3, <1>4, <1>5, <1>6, <1>7, <1>8, <1>9, <1>10, <1>11, <1>12, <1>13, <1>14,
     <1>15, <1>16, <1>17 DEF Step, Push, Pop

\* Nothing disturbs the dummy a push is filling: pops reach other nodes only.
LEMMA PushStep ==
  ASSUME NEW t \in Thread, IInv, Step(t)
  PROVE  PushInv'
<1> USE Separation
    DEF IInv, TypeOK, MutexInv, LocalInv, PushInv, HeadHeld, TailHeld, Private, shared, sync,
        local, Goto, Return, DropLocals, Waiting
<1>1. ASSUME NEW o \in PushOps, NEW v \in Value, NEW n \in Node,
             CallPush(t, o, v, n)
      PROVE  PushInv'
  BY <1>1 DEF CallPush
<1>2. CASE LockTail(t)
  BY <1>2 DEF LockTail
<1>3. CASE SetData(t)
  BY <1>3 DEF SetData
<1>4. CASE SetNext(t)
  BY <1>4 DEF SetNext
<1>5. CASE SetTail(t)
  BY <1>5 DEF SetTail
<1>6. CASE UnlockTail(t)
  BY <1>6 DEF UnlockTail
<1>7. CASE NotifyOne(t)
  BY <1>7 DEF NotifyOne
<1>8. ASSUME NEW o \in Ops, CallPop(t, o) PROVE PushInv'
  BY <1>8 DEF CallPop
<1>9. CASE LockHead(t)
  BY <1>9 DEF LockHead
<1>10. CASE GetTail(t)
  BY <1>10 DEF GetTail
<1>11. CASE FindNode(t)
  BY <1>11 DEF FindNode
<1>12. CASE GiveUp(t)
  BY <1>12 DEF GiveUp
<1>13. CASE Sleep(t)
  BY <1>13 DEF Sleep
<1>14. CASE SpuriousWake(t)
  BY <1>14 DEF SpuriousWake
<1>15. CASE Take(t)
  BY <1>15 DEF Take
<1>16. CASE PopHead(t)
  BY <1>16 DEF PopHead
<1>17. CASE FreeOld(t)
  BY <1>17 DEF FreeOld
<1> QED
  BY <1>1, <1>2, <1>3, <1>4, <1>5, <1>6, <1>7, <1>8, <1>9, <1>10, <1>11, <1>12, <1>13, <1>14,
     <1>15, <1>16, <1>17 DEF Step, Push, Pop

\* A pop that found a node keeps it: only the owner of head_mutex detaches.
LEMMA PopStep ==
  ASSUME NEW t \in Thread, IInv, Step(t)
  PROVE  PopInv'
<1> USE AppendFacts, TailFacts
    DEF IInv, TypeOK, MutexInv, PopInv, Linked, HeadHeld, TailHeld, shared, sync, local, Goto,
        Return, DropLocals, Waiting, Positions, PushOps, PopOps, WaitOps, RefPops, Ops
<1>1. ASSUME NEW o \in PushOps, NEW v \in Value, NEW n \in Node,
             CallPush(t, o, v, n)
      PROVE  PopInv'
  BY <1>1 DEF CallPush
<1>2. CASE LockTail(t)
  BY <1>2 DEF LockTail
<1>3. CASE SetData(t)
  BY <1>3 DEF SetData
<1>4. CASE SetNext(t)
  BY <1>4 DEF SetNext
<1>5. CASE SetTail(t)
  BY <1>5 DEF SetTail
<1>6. CASE UnlockTail(t)
  BY <1>6 DEF UnlockTail
<1>7. CASE NotifyOne(t)
  BY <1>7 DEF NotifyOne
<1>8. ASSUME NEW o \in Ops, CallPop(t, o) PROVE PopInv'
  BY <1>8 DEF CallPop
<1>9. CASE LockHead(t)
  BY <1>9 DEF LockHead
<1>10. CASE GetTail(t)
  BY <1>10 DEF GetTail
<1>11. CASE FindNode(t)
  BY <1>11 DEF FindNode
<1>12. CASE GiveUp(t)
  BY <1>12 DEF GiveUp
<1>13. CASE Sleep(t)
  BY <1>13 DEF Sleep
<1>14. CASE SpuriousWake(t)
  BY <1>14 DEF SpuriousWake
<1>15. CASE Take(t)
  BY <1>15 DEF Take
<1>16. CASE PopHead(t)
  BY <1>16 DEF PopHead
<1>17. CASE FreeOld(t)
  BY <1>17 DEF FreeOld
<1> QED
  BY <1>1, <1>2, <1>3, <1>4, <1>5, <1>6, <1>7, <1>8, <1>9, <1>10, <1>11, <1>12, <1>13, <1>14,
     <1>15, <1>16, <1>17 DEF Step, Push, Pop

\* Every step leaves a well-linked list.
LEMMA LinkedStep ==
  ASSUME NEW t \in Thread, IInv, Step(t)
  PROVE  Linked'
<1> USE Separation, QueueAssumption
    DEF IInv, TypeOK, MutexInv, LocalInv, PushInv, PopInv, Linked, Taken, HeadHeld, TailHeld,
        Private, shared, sync, local, Goto, Return, DropLocals, Waiting, Positions, PushOps,
        PopOps, WaitOps, RefPops, Ops
<1>1. ASSUME NEW o \in PushOps, NEW v \in Value, NEW n \in Node,
             CallPush(t, o, v, n)
      PROVE  Linked'
  <2>1. n \notin InChain
    BY <1>1 DEF CallPush
  <2>2. \A i \in 1..Len(chain) : chain[i] # n
    BY <2>1 DEF InChain
  <2> QED
    BY <1>1, <2>2 DEF CallPush
<1>2. CASE LockTail(t)
  BY <1>2 DEF LockTail
<1>3. CASE SetData(t)
  BY <1>3 DEF SetData
<1>4. CASE SetNext(t)
  <2>1. Len(chain) \in Nat
    OBVIOUS
  <2>2. \A i \in 1..(Len(chain) - 1) : chain[i] \in Node \ {tail}
    BY <2>1
  <2>3. \A i \in 1..(Len(chain) - 1) : next'[chain[i]] = next[chain[i]]
    BY <1>4, <2>2 DEF SetNext
  <2> QED
    BY <1>4, <2>1, <2>3 DEF SetNext
<1>5. CASE SetTail(t)
  <2> DEFINE L == Len(chain)
  <2>1. /\ L \in Nat \ {0}
        /\ chain' \in Seq(Node)
        /\ Len(chain') = L + 1
        /\ \A i \in 1..L : chain'[i] = chain[i]
        /\ chain'[L + 1] = ptr[t]
    BY <1>5, AppendFacts DEF SetTail
  <2>2. /\ next' = next /\ data' = data
        /\ head' = head /\ tail' = ptr[t]
    BY <1>5 DEF SetTail
  <2>3. next[tail] = ptr[t] /\ data[tail] # Nothing
    BY <1>5 DEF SetTail
  <2>4. \A i \in 1..L : chain[i] # ptr[t]
    BY <1>5 DEF SetTail, InChain
  <2>5. \A i, j \in 1..Len(chain') : chain'[i] = chain'[j] => i = j
    BY <2>1, <2>4
  <2>6. Taken => Taken'
    BY <1>5 DEF SetTail
  <2>7. ASSUME NEW i \in 1..(Len(chain') - 1)
        PROVE  /\ next'[chain'[i]] = chain'[i + 1]
               /\ data'[chain'[i]] = Nothing => i = 1 /\ Taken'
    <3> HIDE DEF Taken
    <3>1. CASE i \in 1..(L - 1)
      BY <2>1, <2>2, <2>6, <3>1
    <3>2. CASE i = L
      BY <2>1, <2>2, <2>3, <3>2
    <3> QED
      BY <2>1, <3>1, <3>2
  <2> QED
    BY <2>1, <2>2, <2>5, <2>7
<1>6. CASE UnlockTail(t)
  BY <1>6 DEF UnlockTail
<1>7. CASE NotifyOne(t)
  BY <1>7 DEF NotifyOne
<1>8. ASSUME NEW o \in Ops, CallPop(t, o) PROVE Linked'
  BY <1>8 DEF CallPop
<1>9. CASE LockHead(t)
  BY <1>9 DEF LockHead
<1>10. CASE GetTail(t)
  BY <1>10 DEF GetTail
<1>11. CASE FindNode(t)
  BY <1>11 DEF FindNode
<1>12. CASE GiveUp(t)
  BY <1>12 DEF GiveUp
<1>13. CASE Sleep(t)
  <2>1. ~Taken
    BY <1>13 DEF Sleep
  <2>2. \A i \in 1..(Len(chain) - 1) : data[chain[i]] # Nothing
    BY <2>1
  <2>3. UNCHANGED <<head, tail, next, data, chain>>
    BY <1>13 DEF Sleep
  <2> HIDE DEF Taken
  <2> QED
    BY <2>2, <2>3
<1>14. CASE SpuriousWake(t)
  BY <1>14 DEF SpuriousWake
<1>15. CASE Take(t)
  BY <1>15 DEF Take
<1>16. CASE PopHead(t)
  BY <1>16 DEF PopHead
<1>17. CASE FreeOld(t)
  <2>1. \A i \in 1..Len(chain) : chain[i] \in Node /\ chain[i] # ptr[t]
    BY <1>17 DEF FreeOld, InChain
  <2>2. Taken => Taken'
    BY <1>17 DEF FreeOld
  <2> QED
    BY <1>17, <2>1, <2>2 DEF FreeOld
<1> QED
  BY <1>1, <1>2, <1>3, <1>4, <1>5, <1>6, <1>7, <1>8, <1>9, <1>10, <1>11, <1>12, <1>13, <1>14,
     <1>15, <1>16, <1>17 DEF Step, Push, Pop

\* Every step leaves the heap exactly covered by the list and the calls.
LEMMA HeapStep ==
  ASSUME NEW t \in Thread, IInv, Step(t)
  PROVE  HeapExact'
<1> USE Separation, ChainSame
    DEF IInv, TypeOK, MutexInv, LocalInv, PopInv, HeapExact, HeadHeld, TailHeld, Private,
        shared, sync, local, Goto, Return, DropLocals, Waiting
<1>1. ASSUME NEW o \in PushOps, NEW v \in Value, NEW n \in Node,
             CallPush(t, o, v, n)
      PROVE  HeapExact'
  BY <1>1 DEF CallPush
<1>2. CASE LockTail(t)
  BY <1>2 DEF LockTail
<1>3. CASE SetData(t)
  BY <1>3 DEF SetData
<1>4. CASE SetNext(t)
  BY <1>4 DEF SetNext
<1>5. CASE SetTail(t)
  <2>1. InChain' = InChain \cup {ptr[t]}
    BY <1>5, ChainGrows DEF SetTail
  <2>2. Private' = Private \ {t} /\ t \in Private
    BY <1>5 DEF SetTail
  <2> QED
    BY <1>5, <2>1, <2>2 DEF SetTail
<1>6. CASE UnlockTail(t)
  BY <1>6 DEF UnlockTail
<1>7. CASE NotifyOne(t)
  BY <1>7 DEF NotifyOne
<1>8. ASSUME NEW o \in Ops, CallPop(t, o) PROVE HeapExact'
  BY <1>8 DEF CallPop
<1>9. CASE LockHead(t)
  BY <1>9 DEF LockHead
<1>10. CASE GetTail(t)
  BY <1>10 DEF GetTail
<1>11. CASE FindNode(t)
  BY <1>11 DEF FindNode
<1>12. CASE GiveUp(t)
  BY <1>12 DEF GiveUp
<1>13. CASE Sleep(t)
  BY <1>13 DEF Sleep
<1>14. CASE SpuriousWake(t)
  BY <1>14 DEF SpuriousWake
<1>15. CASE Take(t)
  BY <1>15 DEF Take
<1>16. CASE PopHead(t)
  <2>1. InChain' = InChain \ {head}
    BY <1>16, ChainShrinks DEF PopHead
  <2>2. Private' = Private \cup {t} /\ t \notin Private
    BY <1>16 DEF PopHead
  <2>3. ptr' = [ptr EXCEPT ![t] = head] /\ live' = live
    BY <1>16 DEF PopHead
  <2> HIDE DEF Private, MutexInv, LocalInv, PopInv
  <2>4. live' = InChain' \cup {ptr'[u] : u \in Private'}
    <3>1. {ptr'[u] : u \in Private'} = {ptr[u] : u \in Private} \cup {head}
      BY <2>2, <2>3
    <3> QED
      BY <2>1, <2>3, <3>1
  <2> QED
    BY <2>1, <2>2, <2>3, <2>4
<1>17. CASE FreeOld(t)
  BY <1>17 DEF FreeOld
<1> QED
  BY <1>1, <1>2, <1>3, <1>4, <1>5, <1>6, <1>7, <1>8, <1>9, <1>10, <1>11, <1>12, <1>13, <1>14,
     <1>15, <1>16, <1>17 DEF Step, Push, Pop
-----------------------------------------------------------------------------
(* The theorems *)

\* The constructor establishes the invariant: one dummy node, no call.
LEMMA InitInv == Init => IInv
<1> SUFFICES ASSUME Init PROVE IInv
  OBVIOUS
<1> USE QueueAssumption DEF Init
<1>1. PICK dummy \in Node : head = dummy /\ tail = dummy /\ live = {dummy}
                            /\ chain = <<dummy>>
  OBVIOUS
<1>2. Len(chain) = 1 /\ chain[1] = dummy /\ chain \in Seq(Node)
  BY <1>1
<1>3. InChain = {dummy}
  BY <1>2 DEF InChain
<1>4. Private = {}
  BY DEF Private
<1>5. TypeOK
  BY <1>1, <1>2 DEF TypeOK, Positions
<1>6. MutexInv /\ LocalInv /\ PushInv /\ PopInv
  BY DEF MutexInv, LocalInv, PushInv, PopInv, HeadHeld, TailHeld, Private
<1>7. Linked
  BY <1>1, <1>2 DEF Linked
<1>8. HeapExact
  BY <1>1, <1>3, <1>4 DEF HeapExact
<1> QED
  BY <1>5, <1>6, <1>7, <1>8 DEF IInv

\* No step, and no stutter, leaves the invariant.
LEMMA NextInv == IInv /\ [Next]_vars => IInv'
<1> SUFFICES ASSUME IInv, [Next]_vars PROVE IInv'
  OBVIOUS
<1>1. CASE Next
  <2>1. PICK t \in Thread : Step(t)
    BY <1>1 DEF Next
  <2> QED
    BY <2>1, TypeStep, MutexStep, LocalStep, PushStep, PopStep, LinkedStep,
       HeapStep DEF IInv
<1>2. CASE UNCHANGED vars
  BY <1>2 DEF vars, shared, sync, local, IInv, TypeOK, MutexInv, LocalInv,
       PushInv, PopInv, Linked, HeapExact, InChain, Private, Taken
<1> QED
  BY <1>1, <1>2

\* The inductive invariant holds in every reachable state.
THEOREM Inductive == Spec => []IInv
BY InitInv, NextInv, PTL DEF Spec

\* TypeOK for every number of threads, nodes and values: _head and _tail
\* are never null when a call reads them (chapter_6.h:179-193).
THEOREM TypeCorrect == Spec => []TypeOK
<1>1. IInv => TypeOK
  BY DEF IInv
<1> QED
  BY Inductive, <1>1, PTL

\* The list is well linked in every reachable state, whatever the pushing
\* and popping threads do at its two ends (chapter_6.h:116-140, 179-193).
THEOREM WellLinked == Spec => []Linked
<1>1. IInv => Linked
  BY DEF IInv
<1> QED
  BY Inductive, <1>1, PTL

\* No node leaks, dangles or is freed twice: the owner of each allocated
\* node is the list or exactly one call (unique_ptr of chapter_6.h:155).
THEOREM MemorySafe == Spec => []HeapExact
<1>1. IInv => HeapExact
  BY DEF IInv
<1> QED
  BY Inductive, <1>1, PTL

\* The invariant keeps two accesses to one location apart: either one mutex
\* orders them, or they reach different nodes.
LEMMA RaceFree == IInv => NoDataRace
<1> SUFFICES ASSUME IInv, NEW t \in Thread, NEW u \in Thread \ {t}
             PROVE  Writes(t) \cap (Reads(u) \cup Writes(u)) = {}
  BY DEF NoDataRace
<1> USE QueueAssumption
<1>1. MutexInv /\ head # NoNode /\ tail # NoNode
  BY DEF IInv, TypeOK
<1>2. /\ head \in InChain /\ tail \in InChain
      /\ pc[t] \in {"take", "pop"} \/ pc[u] \in {"take", "pop"} => head # tail
  BY Separation
<1>3. \A w \in {t, u} : pc[w] = "free" =>
        ptr[w] \notin InChain /\ ptr[w] # NoNode /\ w \in Private
  BY Separation DEF Private, IInv, TypeOK
<1>4. pc[t] = "free" /\ pc[u] = "free" => ptr[t] # ptr[u]
  BY <1>3 DEF IInv, HeapExact
<1>5. /\ pc[t] \in HeadHeld => pc[u] \notin HeadHeld
      /\ pc[t] \in TailHeld => pc[u] \notin TailHeld /\ tail_mutex # NoThread
  BY <1>1 DEF MutexInv
<1> QED
  BY <1>1, <1>2, <1>3, <1>4, <1>5
     DEF Writes, Reads, HEAD, TAIL, HeadHeld, TailHeld

\* Threads never race on a node or an end of the list: the dummy keeps the
\* two mutexes' data apart (the design of chapter_6.h:52, 70-72).
THEOREM RaceFreedom == Spec => []NoDataRace
BY Inductive, RaceFree, PTL
-----------------------------------------------------------------------------
(***************************************************************************)
(* The refinement.  The linearization point of a push is SetTail, of a pop *)
(* Take or PopHead, of a failed try_pop and of empty GetTail.              *)
(***************************************************************************)
\* The outcome of a call is empty until it takes effect, and only pops
\* reach the release of a detached node.
CallInv ==
  \A t \in Thread :
    /\ pc[t] = "idle" => op[t] = "none" /\ val[t] = Nothing
    /\ pc[t] \in {"lock_head", "get_tail", "test", "blocked", "take"} => val[t] = Nothing
    /\ pc[t] = "pop" /\ op[t] \notin RefPops => val[t] = Nothing
    /\ pc[t] = "free" => op[t] \in PopOps

RInv == IInv /\ CallInv
-----------------------------------------------------------------------------
\* Every step keeps what the calls' outcomes rely on.
LEMMA CallStep ==
  ASSUME NEW t \in Thread, RInv, Step(t)
  PROVE  CallInv'
<1> USE DEF RInv, IInv, TypeOK, LocalInv, CallInv, HeadHeld, TailHeld, shared, sync, local,
            Goto, Return, DropLocals, Waiting, PushOps, PopOps, WaitOps, RefPops, Ops
<1>1. ASSUME NEW o \in PushOps, NEW v \in Value, NEW n \in Node,
             CallPush(t, o, v, n)
      PROVE  CallInv'
  BY <1>1 DEF CallPush
<1>2. CASE LockTail(t)
  BY <1>2 DEF LockTail
<1>3. CASE SetData(t)
  BY <1>3 DEF SetData
<1>4. CASE SetNext(t)
  BY <1>4 DEF SetNext
<1>5. CASE SetTail(t)
  BY <1>5 DEF SetTail
<1>6. CASE UnlockTail(t)
  BY <1>6 DEF UnlockTail
<1>7. CASE NotifyOne(t)
  BY <1>7 DEF NotifyOne
<1>8. ASSUME NEW o \in Ops, CallPop(t, o) PROVE CallInv'
  BY <1>8 DEF CallPop
<1>9. CASE LockHead(t)
  BY <1>9 DEF LockHead
<1>10. CASE GetTail(t)
  BY <1>10 DEF GetTail
<1>11. CASE FindNode(t)
  BY <1>11 DEF FindNode
<1>12. CASE GiveUp(t)
  BY <1>12 DEF GiveUp
<1>13. CASE Sleep(t)
  BY <1>13 DEF Sleep
<1>14. CASE SpuriousWake(t)
  BY <1>14 DEF SpuriousWake
<1>15. CASE Take(t)
  BY <1>15 DEF Take
<1>16. CASE PopHead(t)
  BY <1>16 DEF PopHead
<1>17. CASE FreeOld(t)
  BY <1>17 DEF FreeOld
<1> QED
  BY <1>1, <1>2, <1>3, <1>4, <1>5, <1>6, <1>7, <1>8, <1>9, <1>10, <1>11, <1>12, <1>13, <1>14,
     <1>15, <1>16, <1>17 DEF Step, Push, Pop

\* Items is the sequence of values of the nodes before the dummy.
LEMMA ItemsFacts ==
  ASSUME IInv
  PROVE  LET m == IF Taken THEN 1 ELSE 0 IN
         /\ Items \in Seq(Value \cup {Nothing})
         /\ m \in 0..1 /\ Len(chain) - 1 - m \in Nat
         /\ Len(Items) = Len(chain) - 1 - m
         /\ \A i \in 1..(Len(chain) - 1 - m) : Items[i] = data[chain[i + m]]
<1> DEFINE m == IF Taken THEN 1 ELSE 0
<1> DEFINE n == Len(chain) - 1 - m
<1>1. Len(chain) \in Nat \ {0} /\ (Taken => Len(chain) > 1)
  BY DEF IInv, TypeOK, Linked, PopInv, Taken
<1>2. m \in 0..1 /\ n \in Nat
  BY <1>1
<1>3. \A i \in 1..n : i + m \in 1..Len(chain) /\ chain[i + m] \in Node
  BY <1>1, <1>2 DEF IInv, TypeOK
<1>4. \A i \in 1..n : data[chain[i + m]] \in Value \cup {Nothing}
  BY <1>3 DEF IInv, TypeOK
<1>5. Items = [i \in 1..n |-> data[chain[i + m]]]
  BY DEF Items
<1> HIDE DEF m, n
<1>6. Items \in Seq(Value \cup {Nothing}) /\ Len(Items) = n
  BY <1>2, <1>4, <1>5
<1> QED
  BY <1>2, <1>5, <1>6 DEF m, n

\* Nothing the queue holds has changed.
LEMMA ItemsSame ==
  ASSUME IInv, UNCHANGED <<chain, Taken>>,
         \A i \in 1..(Len(chain) - 1) :
           data'[chain[i]] = data[chain[i]] \/ (i = 1 /\ Taken)
  PROVE  Items' = Items
<1> DEFINE m == IF Taken THEN 1 ELSE 0
<1>1. Len(chain) \in Nat \ {0} /\ (Taken => Len(chain) > 1)
  BY DEF IInv, TypeOK, Linked, PopInv, Taken
<1>2. \A i \in 1..(Len(chain) - 1 - m) : data'[chain[i + m]] = data[chain[i + m]]
  BY <1>1
<1> HIDE DEF Taken
<1> QED
  BY <1>2 DEF Items

\* A function on 1..n is a sequence of length n.
LEMMA FunctionIsSeq ==
  ASSUME NEW S, NEW n \in Nat, NEW f \in [1..n -> S]
  PROVE  f \in Seq(S) /\ Len(f) = n
OBVIOUS

\* push appends its value as it moves _tail.
LEMMA ItemsGrow ==
  ASSUME IInv, NEW t \in Thread, SetTail(t)
  PROVE  Items' = Append(Items, val[t])
<1> DEFINE m == IF Taken THEN 1 ELSE 0
<1> DEFINE n == Len(chain) - 1 - m
<1>1. /\ Items \in Seq(Value \cup {Nothing})
      /\ m \in 0..1 /\ n \in Nat /\ Len(Items) = n
      /\ \A i \in 1..n : Items[i] = data[chain[i + m]]
  BY ItemsFacts
<1>2. chain \in Seq(Node) /\ ptr[t] \in Node /\ val[t] \in Value /\ Len(chain) \in Nat
  BY DEF IInv, TypeOK, LocalInv, SetTail, TailHeld, Private
<1>3. /\ chain' = Append(chain, ptr[t])
      /\ Len(chain') = Len(chain) + 1
      /\ \A i \in 1..Len(chain) : chain'[i] = chain[i]
  BY <1>2, AppendFacts DEF SetTail
<1>4. Taken' <=> Taken
  BY DEF SetTail, Goto, local, IInv, TypeOK, Taken
<1>5. data' = data /\ data[chain[Len(chain)]] = val[t]
  BY DEF SetTail, IInv, Linked, PushInv
<1>6. Items' = [i \in 1..(n + 1) |-> data[chain'[i + m]]]
  <2>1. Items' = [i \in 1..(Len(chain') - 1 - m) |-> data[chain'[i + m]]]
    BY <1>4, <1>5 DEF Items
  <2> QED
    BY <1>2, <1>3, <2>1, <1>1
<1>7. \A i \in 1..(n + 1) : chain'[i + m] \in Node
  BY <1>1, <1>2, <1>3
<1>8. /\ \A i \in 1..n : data[chain'[i + m]] = Items[i]
      /\ data[chain'[n + 1 + m]] = val[t]
  BY <1>1, <1>2, <1>3, <1>5
<1>9. /\ Append(Items, val[t]) \in Seq(Value \cup {Nothing})
      /\ Len(Append(Items, val[t])) = n + 1
      /\ \A i \in 1..n : Append(Items, val[t])[i] = Items[i]
      /\ Append(Items, val[t])[n + 1] = val[t]
  BY <1>1, <1>2, AppendFacts
<1> HIDE DEF m, n
<1>10. Items' \in Seq(Value \cup {Nothing}) /\ Len(Items') = n + 1
  <2>1. \A i \in 1..(n + 1) : data[chain'[i + m]] \in Value \cup {Nothing}
    BY <1>7 DEF IInv, TypeOK
  <2> QED
    BY <1>1, <1>6, <2>1, FunctionIsSeq
<1>11. \A i \in 1..(n + 1) : Items'[i] = Append(Items, val[t])[i]
  BY <1>1, <1>6, <1>8, <1>9
<1> QED
  BY <1>9, <1>10, <1>11, SeqEqual

\* A pop that moves the value out of the first node takes the oldest value.
LEMMA ItemsTake ==
  ASSUME IInv, NEW t \in Thread, Take(t)
  PROVE  Items # <<>> /\ Head(Items) = data[head] /\ Items' = Tail(Items)
<1>1. ~Taken /\ Len(chain) > 1 /\ Len(chain) \in Nat /\ op[t] \in RefPops
  BY DEF IInv, TypeOK, MutexInv, LocalInv, PopInv, HeadHeld, Taken, Take
<1> DEFINE n == Len(chain) - 1
<1>2. /\ Items \in Seq(Value \cup {Nothing})
      /\ n \in Nat /\ n > 0 /\ Len(Items) = n
      /\ \A i \in 1..n : Items[i] = data[chain[i]]
  BY <1>1, ItemsFacts
<1>3. Items # <<>> /\ Head(Items) = data[head]
  BY <1>1, <1>2 DEF IInv, Linked
<1>4. Taken'
  BY <1>1 DEF Take, Goto, IInv, TypeOK, Taken
<1>5. chain' = chain /\ data' = [data EXCEPT ![head] = Nothing]
  BY DEF Take
<1>6. \A i \in 1..(n - 1) : chain[i + 1] \in Node \ {head}
  BY <1>1 DEF IInv, TypeOK, Linked
<1>7. Items' = [i \in 1..(n - 1) |-> data'[chain[i + 1]]]
  <2>1. Items' = [i \in 1..(n - 1) |-> data'[chain'[i + 1]]]
    BY <1>1, <1>4, <1>5 DEF Items
  <2> QED
    BY <1>5, <2>1
<1> HIDE DEF n
<1>8. \A i \in 1..(n - 1) : data'[chain[i + 1]] = Items[i + 1]
  BY <1>2, <1>5, <1>6 DEF IInv, TypeOK
<1>9. /\ Tail(Items) \in Seq(Value \cup {Nothing})
      /\ Len(Tail(Items)) = n - 1
      /\ \A i \in 1..(n - 1) : Tail(Items)[i] = Items[i + 1]
  BY <1>2, TailFacts
<1>10. Items' \in Seq(Value \cup {Nothing}) /\ Len(Items') = n - 1
  <2>1. \A i \in 1..(n - 1) : data'[chain[i + 1]] \in Value \cup {Nothing}
    BY <1>2, <1>8, ElementOfSeq
  <2> QED
    BY <1>2, <1>7, <2>1, FunctionIsSeq
<1>11. \A i \in 1..(n - 1) : Items'[i] = Tail(Items)[i]
  BY <1>2, <1>7, <1>8, <1>9
<1>12. Items' = Tail(Items)
  BY <1>9, <1>10, <1>11, SeqEqual
<1> QED
  BY <1>3, <1>12

\* Detaching a first node whose value has been taken changes nothing; with
\* its value still there, it takes the oldest value.
LEMMA ItemsPop ==
  ASSUME IInv, NEW t \in Thread, PopHead(t)
  PROVE  /\ op[t] \in RefPops => Items' = Items
         /\ op[t] \notin RefPops =>
              Items # <<>> /\ Head(Items) = data[head] /\ Items' = Tail(Items)
<1> DEFINE m == IF Taken THEN 1 ELSE 0
<1> DEFINE n == Len(chain) - 1 - m
<1>1. Len(chain) > 1 /\ Len(chain) \in Nat /\ chain \in Seq(Node)
  BY DEF IInv, TypeOK, PopInv, PopHead
<1>2. /\ Items \in Seq(Value \cup {Nothing})
      /\ m \in 0..1 /\ n \in Nat /\ Len(Items) = n
      /\ \A i \in 1..n : Items[i] = data[chain[i + m]]
  BY ItemsFacts
<1>3. Taken <=> op[t] \in RefPops
  BY DEF IInv, MutexInv, HeadHeld, Taken, PopHead
<1>4. ~Taken'
  BY DEF IInv, TypeOK, MutexInv, HeadHeld, Taken, PopHead, Goto
<1>5. /\ chain' = Tail(chain) /\ data' = data
      /\ Len(chain') = Len(chain) - 1
      /\ \A i \in 1..(Len(chain) - 1) : chain'[i] = chain[i + 1]
  BY <1>1, TailFacts DEF PopHead
<1>6. Items' = [i \in 1..(Len(chain) - 2) |-> data[chain[i + 1]]]
  <2>1. Items' = [i \in 1..(Len(chain') - 1) |-> data[chain'[i]]]
    BY <1>1, <1>4, <1>5 DEF Items
  <2> QED
    BY <1>1, <1>5, <2>1
<1>7. CASE op[t] \in RefPops
  <2>1. Items = [i \in 1..(Len(chain) - 2) |-> data[chain[i + 1]]]
    BY <1>1, <1>3, <1>7 DEF Items
  <2> QED
    BY <1>6, <1>7, <2>1
<1>8. CASE op[t] \notin RefPops
  <2>1. m = 0 /\ n = Len(chain) - 1
    BY <1>1, <1>3, <1>8
  <2>2. Items # <<>> /\ Head(Items) = data[head]
    BY <1>1, <1>2, <2>1 DEF IInv, Linked
  <2> HIDE DEF m, n
  <2>3. /\ Tail(Items) \in Seq(Value \cup {Nothing})
        /\ Len(Tail(Items)) = n - 1
        /\ \A i \in 1..(n - 1) : Tail(Items)[i] = Items[i + 1]
    BY <1>1, <1>2, <2>1, TailFacts
  <2>4. \A i \in 1..(n - 1) : data[chain[i + 1]] = Items[i + 1]
    BY <1>1, <1>2, <2>1
  <2>5. Items' \in Seq(Value \cup {Nothing}) /\ Len(Items') = n - 1
    <3>1. \A i \in 1..(n - 1) : data[chain[i + 1]] \in Value \cup {Nothing}
      BY <1>1, <1>2, <2>1, <2>4, ElementOfSeq
    <3> QED
      BY <1>1, <1>6, <2>1, <3>1, FunctionIsSeq
  <2>6. \A i \in 1..(n - 1) : Items'[i] = Tail(Items)[i]
    BY <1>1, <1>6, <2>1, <2>3, <2>4
  <2>7. Items' = Tail(Items)
    BY <2>3, <2>5, <2>6, SeqEqual
  <2> QED
    BY <1>8, <2>2, <2>7
<1> QED
  BY <1>7, <1>8

\* Call[u] in the abstract queue, in terms of the state of thread u.
LEMMA CallFacts ==
  \A u \in Thread :
    /\ Call[u] = [stage |-> Stage(u), op |-> op[u], val |-> Outcome(u)]
    /\ Call'[u] = [stage |-> Stage(u)', op |-> op'[u], val |-> Outcome(u)']
BY DEF Call

\* A step of thread t is invisible in the calls of the other threads.
LEMMA OthersKeepCall ==
  ASSUME RInv, NEW t \in Thread, NEW u \in Thread \ {t},
         op'[u] = op[u], ptr'[u] = ptr[u], val'[u] = val[u], seen'[u] = seen[u],
         pc'[u] = pc[u] \/ (pc[u] = "blocked" /\ pc'[u] = "lock_head"),
         head' = head \/ pc[t] = "pop",
         pc[u] = "free" => data'[ptr[u]] = data[ptr[u]]
  PROVE  Call'[u] = Call[u]
<1>1. pc[u] = "test" => head' = head
  BY DEF RInv, IInv, MutexInv, HeadHeld
<1>2. Stage(u)' = Stage(u)
  BY <1>1 DEF Stage, Effected
<1>3. Outcome(u)' = Outcome(u)
  BY <1>1 DEF Outcome
<1> QED
  BY <1>2, <1>3, CallFacts

\* A step that leaves the items and every call alone is a stutter.
LEMMA Stutters ==
  ASSUME Items' = Items, \A u \in Thread : Call'[u] = Call[u]
  PROVE  UNCHANGED Fifo!vars
BY DEF Fifo!vars, Call

\* Only the entry of thread t changes.
LEMMA CallExcept ==
  ASSUME NEW t \in Thread, NEW r, Call'[t] = r,
         \A u \in Thread \ {t} : Call'[u] = Call[u]
  PROVE  Call' = [Call EXCEPT ![t] = r]
BY DEF Call

\* The call of thread t goes from open to done.
LEMMA FinishCall ==
  ASSUME NEW t \in Thread, NEW v,
         Stage(t) = "open", Stage(t)' = "done", op'[t] = op[t], Outcome(t)' = v,
         \A u \in Thread \ {t} : Call'[u] = Call[u]
  PROVE  Fifo!Finish(t, v)
<1>1. Call'[t] = [stage |-> "done", op |-> op[t], val |-> v]
  BY CallFacts
<1>2. Call[t] = [stage |-> "open", op |-> op[t], val |-> Outcome(t)]
  BY CallFacts
<1>3. Call' = [Call EXCEPT ![t] = [stage |-> "done", op |-> op[t], val |-> v]]
  BY <1>1, CallExcept
<1>4. Call[t].stage = "open" /\ Call[t].op = op[t]
  BY <1>2
<1> QED
  BY <1>3, <1>4 DEF Fifo!Finish

\* The call of thread t is over.
LEMMA ReturnCall ==
  ASSUME NEW t \in Thread, Items' = Items,
         Stage(t) = "done", Stage(t)' = "idle", op'[t] = "none", Outcome(t)' = Nothing,
         \A u \in Thread \ {t} : Call'[u] = Call[u]
  PROVE  Fifo!Return(t)
<1>1. Call'[t] = Fifo!NoCall
  <2>1. Call'[t] = [stage |-> "idle", op |-> "none", val |-> Nothing]
    BY CallFacts
  <2> QED
    BY <2>1 DEF Fifo!NoCall
<1>2. Call[t] = [stage |-> "done", op |-> op[t], val |-> Outcome(t)]
  BY CallFacts
<1>3. Call[t].stage = "done"
  BY <1>2
<1> QED
  BY <1>1, <1>3, CallExcept DEF Fifo!Return

\* A step of thread t touches no local of another thread u, and not the
\* node u has detached; a thread woken up only moves to another open stage.
LEMMA OthersFrame ==
  ASSUME RInv, NEW t \in Thread, NEW u \in Thread \ {t}, Step(t)
  PROVE  /\ op'[u] = op[u] /\ ptr'[u] = ptr[u] /\ val'[u] = val[u] /\ seen'[u] = seen[u]
         /\ pc'[u] = pc[u] \/ (pc[u] = "blocked" /\ pc'[u] = "lock_head")
         /\ head' = head \/ pc[t] = "pop"
         /\ pc[u] = "free" => data'[ptr[u]] = data[ptr[u]]
<1> USE DEF shared, sync, local, Goto, Return, DropLocals
<1>1. /\ IInv
      /\ tail \in InChain /\ head \in InChain /\ InChain \subseteq live
      /\ pc[u] = "free" => ptr[u] \in live \ InChain
  BY Separation DEF RInv, Private
<1>2. /\ op \in [Thread -> Ops \cup {"none"}] /\ pc \in [Thread -> Positions]
      /\ ptr \in [Thread -> Node \cup {NoNode}] /\ val \in [Thread -> Value \cup {Nothing}]
      /\ seen \in [Thread -> Node \cup {NoNode}] /\ data \in [Node -> Value \cup {Nothing}]
      /\ live \subseteq Node
  BY <1>1 DEF IInv, TypeOK
<1>4. CASE \E o \in PushOps, v \in Value, n \in Node : CallPush(t, o, v, n)
  BY <1>1, <1>2, <1>4 DEF CallPush
<1>5. CASE \E o \in Ops : CallPop(t, o)
  BY <1>2, <1>5 DEF CallPop
<1>6. CASE LockTail(t) \/ UnlockTail(t) \/ SetNext(t) \/ SetTail(t)
  BY <1>2, <1>6 DEF LockTail, UnlockTail, SetNext, SetTail
<1>7. CASE SetData(t) \/ Take(t)
  BY <1>1, <1>2, <1>7 DEF SetData, Take
<1>8. CASE NotifyOne(t) \/ SpuriousWake(t)
  BY <1>2, <1>8 DEF NotifyOne, SpuriousWake, Waiting
<1>9. CASE LockHead(t) \/ GetTail(t) \/ FindNode(t)
  BY <1>2, <1>9 DEF LockHead, GetTail, FindNode
<1>10. CASE GiveUp(t) \/ Sleep(t) \/ PopHead(t)
  BY <1>2, <1>10 DEF GiveUp, Sleep, PopHead
<1>11. CASE FreeOld(t)
  <2>1. pc[u] = "free" => ptr[u] # ptr[t]
    BY <1>1, <1>11 DEF FreeOld, IInv, HeapExact, Private
  <2> QED
    BY <1>1, <1>2, <1>11, <2>1 DEF FreeOld
<1> QED
  BY <1>4, <1>5, <1>6, <1>7, <1>8, <1>9, <1>10, <1>11 DEF Step, Push, Pop

\* So the calls of the other threads stay as they are.
LEMMA OthersSame ==
  ASSUME RInv, NEW t \in Thread, Step(t)
  PROVE  \A u \in Thread \ {t} : Call'[u] = Call[u]
BY OthersFrame, OthersKeepCall

\* Every step of the queue is a step of the abstract queue, or none.
LEMMA StepRefines ==
  ASSUME RInv, NEW t \in Thread, Step(t)
  PROVE  [Fifo!Next]_Fifo!vars
<1> USE DEF shared, sync, local, Goto, Return, DropLocals
<1>1. /\ TypeOK /\ CallInv /\ LocalInv /\ MutexInv
      /\ Call[t] = [stage |-> Stage(t), op |-> op[t], val |-> Outcome(t)]
      /\ Call'[t] = [stage |-> Stage(t)', op |-> op'[t], val |-> Outcome(t)']
  BY CallFacts DEF RInv, IInv
<1>2. \A u \in Thread \ {t} : Call'[u] = Call[u]
  BY OthersSame
<1>3. ASSUME Items' = Items, Call'[t] = Call[t] PROVE UNCHANGED Fifo!vars
  BY <1>2, <1>3, Stutters
<1>4. ASSUME NEW o \in PushOps, NEW v \in Value, NEW n \in Node,
             CallPush(t, o, v, n)
      PROVE  Fifo!Invoke(t, o, v)
  <2>1. Items' = Items
    <3>1. UNCHANGED <<chain, Taken>>
      BY <1>1, <1>4 DEF CallPush, TypeOK, Taken
    <3>2. \A i \in 1..Len(chain) : chain[i] \in Node \ {n}
      BY <1>4, Separation DEF RInv, IInv, TypeOK, CallPush, InChain
    <3>3. Len(chain) \in Nat
      BY <1>1 DEF TypeOK
    <3> QED
      BY <1>1, <1>4, <3>1, <3>2, <3>3, ItemsSame DEF RInv, CallPush, TypeOK
  <2>2. Call[t].stage = "idle"
    BY <1>1, <1>4 DEF CallPush, Stage
  <2>3. Call'[t] = [stage |-> "open", op |-> o, val |-> v]
    BY <1>1, <1>4 DEF CallPush, Stage, Effected, Outcome, TypeOK
  <2> QED
    BY <1>2, <1>4, <2>1, <2>2, <2>3, CallExcept
       DEF Fifo!Invoke, Fifo!PushOps, PushOps, CallPush
<1>5. ASSUME NEW o \in Ops, CallPop(t, o) PROVE Fifo!Invoke(t, o, Nothing)
  <2>1. Items' = Items
    BY <1>1, <1>5, ItemsSame DEF RInv, CallPop, Taken, TypeOK
  <2>2. Call[t].stage = "idle"
    BY <1>1, <1>5 DEF CallPop, Stage
  <2>3. Call'[t] = [stage |-> "open", op |-> o, val |-> Nothing]
    BY <1>1, <1>5 DEF CallPop, Stage, Effected, Outcome, TypeOK, CallInv
  <2> QED
    BY <1>2, <1>5, <2>1, <2>2, <2>3, CallExcept
       DEF Fifo!Invoke, Fifo!PushOps, PushOps, CallPop
<1>6. CASE LockTail(t)
  <2>1. Items' = Items
    BY <1>1, <1>6, ItemsSame DEF RInv, LockTail, Taken, TypeOK
  <2>2. Call'[t] = Call[t]
    BY <1>1, <1>6 DEF LockTail, Stage, Effected, Outcome, TypeOK
  <2> QED
    BY <1>3, <2>1, <2>2
<1>7. CASE SetData(t)
  <2>1. Items' = Items
    <3>1. UNCHANGED <<chain, Taken>>
      BY <1>1, <1>7 DEF SetData, TypeOK, Taken
    <3>2. Len(chain) \in Nat /\ \A i \in 1..(Len(chain) - 1) : chain[i] \in Node \ {tail}
      BY DEF RInv, IInv, TypeOK, Linked
    <3> QED
      BY <1>1, <1>7, <3>1, <3>2, ItemsSame DEF RInv, SetData, TypeOK
  <2>2. Call'[t] = Call[t]
    BY <1>1, <1>7 DEF SetData, Stage, Effected, Outcome, TypeOK
  <2> QED
    BY <1>3, <2>1, <2>2
<1>8. CASE SetNext(t)
  <2>1. Items' = Items
    BY <1>1, <1>8, ItemsSame DEF RInv, SetNext, Taken, TypeOK
  <2>2. Call'[t] = Call[t]
    BY <1>1, <1>8 DEF SetNext, Stage, Effected, Outcome, TypeOK
  <2> QED
    BY <1>3, <2>1, <2>2
<1>9. ASSUME SetTail(t) PROVE Fifo!Enqueue(t)
  <2>1. Items' = Append(Items, val[t])
    BY <1>9, ItemsGrow DEF RInv
  <2>2. Fifo!Finish(t, val[t])
    BY <1>1, <1>2, <1>9, FinishCall DEF SetTail, Stage, Effected, Outcome, TypeOK
  <2>3. Call[t].val = val[t] /\ Call[t].op \in PushOps
    BY <1>1, <1>9 DEF SetTail, Outcome, LocalInv, TailHeld
  <2> QED
    BY <2>1, <2>2, <2>3 DEF Fifo!Enqueue, Fifo!PushOps, PushOps
<1>10. CASE UnlockTail(t)
  <2>1. Items' = Items
    BY <1>1, <1>10, ItemsSame DEF RInv, UnlockTail, Taken, TypeOK
  <2>2. CASE op[t] = "push"
    <3>1. Fifo!Return(t)
      BY <1>1, <1>2, <1>10, <2>1, <2>2, ReturnCall
         DEF UnlockTail, Stage, Effected, Outcome, TypeOK
    <3> QED
      BY <3>1 DEF Fifo!Next
  <2>3. CASE op[t] = "push_cond"
    <3>1. Call'[t] = Call[t]
      BY <1>1, <1>10, <2>3 DEF UnlockTail, Stage, Effected, Outcome, TypeOK
    <3> QED
      BY <1>3, <2>1, <3>1
  <2> QED
    BY <1>10, <2>2, <2>3 DEF UnlockTail
<1>11. ASSUME NotifyOne(t) PROVE Fifo!Return(t)
  <2>1. Items' = Items
    BY <1>1, <1>11, ItemsSame DEF RInv, NotifyOne, Taken, TypeOK, Waiting
  <2>2. pc'[t] = "idle"
    BY <1>1, <1>11 DEF NotifyOne, Waiting, TypeOK
  <2> QED
    BY <1>1, <1>2, <1>11, <2>1, <2>2, ReturnCall
       DEF NotifyOne, Stage, Effected, Outcome, TypeOK
<1>12. CASE LockHead(t) \/ SpuriousWake(t)
  <2>1. Items' = Items
    BY <1>1, <1>12, ItemsSame DEF RInv, LockHead, SpuriousWake, Waiting, Taken, TypeOK
  <2>2. Call'[t] = Call[t]
    BY <1>1, <1>12
       DEF LockHead, SpuriousWake, Waiting, Stage, Effected, Outcome, TypeOK
  <2> QED
    BY <1>3, <2>1, <2>2
<1>13. CASE GetTail(t)
  <2>1. Items' = Items
    BY <1>1, <1>13, ItemsSame DEF RInv, GetTail, Taken, TypeOK
  <2>2. head = tail <=> Items = <<>>
    <3>1. ~Taken
      BY <1>13 DEF RInv, IInv, MutexInv, HeadHeld, Taken, GetTail
    <3>2. Items \in Seq(Value \cup {Nothing}) /\ Len(Items) = Len(chain) - 1
      BY <3>1, ItemsFacts DEF RInv, IInv, TypeOK
    <3>3. head = tail <=> Len(chain) = 1
      <4>1. Len(chain) \in Nat \ {0} /\ 1 \in 1..Len(chain) /\ Len(chain) \in 1..Len(chain)
        BY DEF RInv, IInv, TypeOK, Linked
      <4> QED
        BY <4>1 DEF RInv, IInv, Linked
    <3> QED
      BY <3>2, <3>3, EmptySeq
  <2>3. CASE op[t] = "empty"
    <3>1. Fifo!Finish(t, Items = <<>>)
      BY <1>1, <1>2, <1>13, <2>2, <2>3, FinishCall
         DEF GetTail, Stage, Effected, Outcome, TypeOK
    <3>2. Fifo!Observe(t)
      BY <1>1, <2>1, <2>3, <3>1 DEF Fifo!Observe
    <3> QED
      BY <3>2 DEF Fifo!Next
  <2>4. CASE op[t] = "try_pop" /\ head = tail
    <3>1. Fifo!Finish(t, Nothing)
      BY <1>1, <1>2, <1>13, <2>4, FinishCall
         DEF GetTail, Stage, Effected, Outcome, TypeOK, CallInv
    <3>2. Fifo!FindEmpty(t)
      BY <1>1, <2>1, <2>2, <2>4, <3>1 DEF Fifo!FindEmpty, Fifo!TryOps
    <3> QED
      BY <3>2 DEF Fifo!Next
  <2>5. CASE op[t] # "empty" /\ ~(op[t] = "try_pop" /\ head = tail)
    <3>1. Call'[t] = Call[t]
      BY <1>1, <1>13, <2>5 DEF GetTail, Stage, Effected, Outcome, TypeOK
    <3> QED
      BY <1>3, <2>1, <3>1
  <2> QED
    BY <2>3, <2>4, <2>5
<1>14. CASE FindNode(t)
  <2>1. Items' = Items
    BY <1>1, <1>14, ItemsSame
       DEF RInv, IInv, MutexInv, HeadHeld, FindNode, Taken, TypeOK
  <2>2. Call'[t] = Call[t]
    BY <1>1, <1>14 DEF FindNode, Stage, Effected, Outcome, TypeOK, PopOps, WaitOps, RefPops
  <2> QED
    BY <1>3, <2>1, <2>2
<1>15. ASSUME GiveUp(t) PROVE Fifo!Return(t)
  <2>1. Items' = Items
    BY <1>1, <1>15, ItemsSame DEF RInv, GiveUp, Taken, TypeOK
  <2> QED
    BY <1>1, <1>2, <1>15, <2>1, ReturnCall
       DEF GiveUp, Stage, Effected, Outcome, TypeOK
<1>16. CASE Sleep(t)
  <2>1. Items' = Items
    BY <1>1, <1>16, ItemsSame DEF RInv, Sleep, Taken, TypeOK
  <2>2. Call'[t] = Call[t]
    BY <1>1, <1>16 DEF Sleep, Stage, Effected, Outcome, TypeOK, WaitOps
  <2> QED
    BY <1>3, <2>1, <2>2
<1>17. ASSUME Take(t) PROVE Fifo!Dequeue(t)
  <2>1. Items # <<>> /\ Head(Items) = data[head] /\ Items' = Tail(Items)
    BY <1>17, ItemsTake DEF RInv
  <2>2. op[t] \in RefPops
    BY <1>1, <1>17 DEF Take, LocalInv
  <2>3. Fifo!Finish(t, data[head])
    BY <1>1, <1>2, <1>17, <2>2, FinishCall
       DEF Take, Stage, Effected, Outcome, TypeOK
  <2> QED
    BY <1>1, <2>1, <2>2, <2>3 DEF Fifo!Dequeue, Fifo!TryOps, Fifo!WaitOps, RefPops
<1>18. CASE PopHead(t)
  <2>1. op[t] \in PopOps /\ pc[t] = "pop"
    BY <1>1, <1>18 DEF PopHead, LocalInv
  <2>2. CASE op[t] \in RefPops
    <3>1. Items' = Items
      BY <1>18, <2>2, ItemsPop DEF RInv
    <3>2. Call'[t] = Call[t]
      BY <1>1, <1>18, <2>2 DEF PopHead, Stage, Effected, Outcome, TypeOK, RefPops
    <3> QED
      BY <1>3, <3>1, <3>2
  <2>3. CASE op[t] \notin RefPops
    <3>1. Items # <<>> /\ Head(Items) = data[head] /\ Items' = Tail(Items)
      BY <1>18, <2>3, ItemsPop DEF RInv
    <3>2. op[t] = "wait_and_pop"
      BY <2>1, <2>3 DEF PopOps, WaitOps, RefPops
    <3>3. Fifo!Finish(t, data[head])
      BY <1>1, <1>2, <1>18, <2>3, <3>2, FinishCall
         DEF PopHead, Stage, Effected, Outcome, TypeOK, RefPops
    <3>4. Fifo!Dequeue(t)
      BY <1>1, <3>1, <3>2, <3>3 DEF Fifo!Dequeue, Fifo!WaitOps
    <3> QED
      BY <3>4 DEF Fifo!Next
  <2> QED
    BY <2>2, <2>3
<1>19. ASSUME FreeOld(t) PROVE Fifo!Return(t)
  <2>1. Items' = Items
    <3>1. UNCHANGED <<chain, Taken>>
      BY <1>1, <1>19 DEF FreeOld, TypeOK, Taken
    <3>2. Len(chain) \in Nat /\ \A i \in 1..Len(chain) : chain[i] \in Node /\ chain[i] # ptr[t]
      BY <1>19, Separation DEF RInv, IInv, TypeOK, FreeOld, InChain, Private
    <3> QED
      BY <1>1, <1>19, <3>1, <3>2, ItemsSame DEF RInv, FreeOld, TypeOK
  <2> QED
    BY <1>1, <1>2, <1>19, <2>1, ReturnCall
       DEF FreeOld, Stage, Effected, Outcome, TypeOK
<1>20. ASSUME NEW o \in PushOps, NEW v \in Value, Fifo!Invoke(t, o, v)
       PROVE  Fifo!Next
  BY <1>20 DEF Fifo!Next, Fifo!Ops, Fifo!PushOps, PushOps
<1>21. ASSUME NEW o \in Ops, Fifo!Invoke(t, o, Nothing) PROVE Fifo!Next
  BY <1>21 DEF Fifo!Next, Fifo!Ops, Fifo!PushOps, Fifo!TryOps, Fifo!WaitOps,
       Ops, PushOps, PopOps, WaitOps
<1> QED
  BY <1>4, <1>5, <1>6, <1>7, <1>8, <1>9, <1>10, <1>11, <1>12, <1>13, <1>14,
     <1>15, <1>16, <1>17, <1>18, <1>19, <1>20, <1>21
     DEF Step, Push, Pop, Fifo!Next

-----------------------------------------------------------------------------
\* The constructor leaves an empty queue and no call.
LEMMA InitRefines == Init => RInv /\ Fifo!Init
<1> SUFFICES ASSUME Init PROVE RInv /\ Fifo!Init
  OBVIOUS
<1>1. IInv
  BY InitInv
<1>2. CallInv
  BY DEF Init, CallInv
<1>3. ~Taken /\ Len(chain) = 1
  BY DEF Init, Taken
<1>4. Items = <<>>
  <2>1. Items \in Seq(Value \cup {Nothing}) /\ Len(Items) = 0
    BY <1>1, <1>3, ItemsFacts
  <2> QED
    BY <2>1, EmptySeq
<1>5. Call = [t \in Thread |-> Fifo!NoCall]
  BY DEF Init, Call, Stage, Effected, Outcome, Fifo!NoCall
<1> QED
  BY <1>1, <1>2, <1>4, <1>5 DEF RInv, Fifo!Init

\* Every step, and every stutter, keeps the invariant and refines.
LEMMA NextRefines == RInv /\ [Next]_vars => RInv' /\ [Fifo!Next]_Fifo!vars
<1> SUFFICES ASSUME RInv, [Next]_vars PROVE RInv' /\ [Fifo!Next]_Fifo!vars
  OBVIOUS
<1>1. IInv'
  BY NextInv DEF RInv
<1>2. CASE Next
  <2>1. PICK t \in Thread : Step(t)
    BY <1>2 DEF Next
  <2> QED
    BY <1>1, <2>1, CallStep, StepRefines DEF RInv
<1>3. CASE UNCHANGED vars
  <2>1. CallInv'
    BY <1>3 DEF vars, local, RInv, CallInv
  <2>2. UNCHANGED Fifo!vars
    BY <1>3 DEF vars, shared, sync, local, Fifo!vars, Items, Taken, Call, Stage,
         Effected, Outcome
  <2> QED
    BY <1>1, <2>1, <2>2 DEF RInv
<1> QED
  BY <1>2, <1>3

\* Every call of the queue takes effect in one indivisible step between its
\* start and its end, on a first-in first-out sequence: nothing is lost,
\* duplicated or reordered (chapter_6.h:101-210).
THEOREM QueueIsFifo == Spec => Linearizable
BY InitRefines, NextRefines, PTL DEF Spec, Linearizable, Fifo!Spec
=============================================================================
