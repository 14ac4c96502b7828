---------------------------- MODULE StacksProofs ----------------------------
(***************************************************************************)
(* Proofs about the stack of t_stack.h with hazard pointers, for any       *)
(* threads, addresses and values, and about the sorter of chapter_8.h.     *)
(***************************************************************************)
EXTENDS Stacks, SequenceTheorems, FiniteSetTheorems, TLAPS

Address  == Node \cup {Null}
Position == {"idle", "load_next", "push_cas", "pushed", "load_head", "protect", "recheck",
             "read_next", "pop_cas", "unprotect", "swap", "scan", "sweep", "popped"}

\* Where a push has a node of its own, where a pop relies on its hazard
\* pointer, and where it has a node it has taken off the stack.
Linking   == {"load_next", "push_cas"}
Protected == {"read_next", "pop_cas"}
Detached  == {"swap", "scan"}

\* Every variable keeps its type.
TypeOK ==
  /\ head \in Address /\ chain \in Seq(Node)
  /\ next \in [Node -> Address] /\ data \in [Node -> Value \cup {Nothing}]
  /\ live \in SUBSET Node /\ retired \in SUBSET Node
  /\ hazard \in [Thread -> Address] /\ pc \in [Thread -> Position]
  /\ op \in [Thread -> {"none", "push", "pop"}]
  /\ node \in [Thread -> Address] /\ after \in [Thread -> Address]
  /\ val \in [Thread -> Value \cup {Nothing}]

\* The call a thread is in at each position, and its locals.
LocalInv ==
  \A t \in Thread :
    /\ pc[t] = "idle" => op[t] = "none" /\ node[t] = Null /\ val[t] = Nothing
    /\ pc[t] \in Linking \cup {"pushed"} => op[t] = "push" /\ val[t] \in Value
    /\ pc[t] \notin Linking \cup {"idle", "pushed"} => op[t] = "pop"
    /\ pc[t] \in Linking \cup Protected \cup Detached => node[t] \in Node
    /\ op[t] = "pop" /\ pc[t] \notin {"scan", "sweep", "popped"} => val[t] = Nothing

\* The values of the nodes that are linked, about to be, or just unlinked.
DataInv ==
  /\ \A t \in Thread : pc[t] \in Linking => data[node[t]] = val[t]
  /\ \A n \in OnStack : data[n] \in Value
  /\ \A t \in Thread :
       pc[t] \in {"unprotect", "swap"} /\ node[t] # Null => data[node[t]] \in Value

\* From the second read of head to the exchange, the hazard pointer keeps the
\* node allocated, and so nobody writes its next.
HazardInv ==
  \A t \in Thread :
    /\ pc[t] \in {"recheck"} \cup Protected => hazard[t] = node[t]
    /\ pc[t] \in Protected =>
         node[t] \in live /\ \A u \in Thread : pc[u] \in Linking => node[u] # node[t]
    /\ pc[t] = "pop_cas" => after[t] = next[node[t]]

\* The two halves of HeapExact: the pointers, and who has each node.
ListInv ==
  /\ head = IF chain = <<>> THEN Null ELSE chain[1]
  /\ \A i \in 1..Len(chain) :
       /\ next[chain[i]] = IF i = Len(chain) THEN Null ELSE chain[i + 1]
       /\ \A j \in 1..Len(chain) : chain[i] = chain[j] => i = j

OwnInv ==
  /\ live = OnStack \cup retired \cup {node[t] : t \in Private}
  /\ OnStack \cap retired = {}
  /\ \A t \in Private :
       /\ node[t] \notin OnStack \cup retired
       /\ \A u \in Private \ {t} : node[t] # node[u]

IInv == TypeOK /\ LocalInv /\ DataInv /\ HazardInv /\ ListInv /\ OwnInv
-----------------------------------------------------------------------------
(* Sequences, and what the invariant says of the nodes *)

\* One element is put before the others.
LEMMA ConsFacts ==
  ASSUME NEW S, NEW s \in Seq(S), NEW e \in S
  PROVE  /\ <<e>> \o s \in Seq(S)
         /\ Len(<<e>> \o s) = Len(s) + 1
         /\ (<<e>> \o s)[1] = e
         /\ \A i \in 1..Len(s) : (<<e>> \o s)[i + 1] = s[i]
         /\ \A i \in 2..(Len(s) + 1) : (<<e>> \o s)[i] = s[i - 1]
  OBVIOUS

\* Tail drops the first element.
LEMMA TailFacts ==
  ASSUME NEW S, NEW s \in Seq(S), s # <<>>
  PROVE  /\ Len(s) \in Nat \ {0}
         /\ Tail(s) \in Seq(S)
         /\ Len(Tail(s)) = Len(s) - 1
         /\ \A i \in 1..(Len(s) - 1) : Tail(s)[i] = s[i + 1]
  OBVIOUS

\* The nodes of the stack and those of the calls are allocated and disjoint,
\* and head points to the top.
LEMMA Separation ==
  ASSUME IInv
  PROVE  /\ OnStack \subseteq live /\ OnStack \subseteq Node
         /\ \A t \in Private : node[t] \in live \ (OnStack \cup retired)
         /\ \A t \in Thread : pc[t] \in Linking \cup Detached => t \in Private
         /\ \A t, u \in Private : node[t] = node[u] => t = u
         /\ head = Null <=> chain = <<>>
         /\ head # Null => head \in OnStack
<1> USE DEF IInv
<1>1. Len(chain) \in Nat /\ (chain # <<>> => Len(chain) > 0)
        /\ \A i \in 1..Len(chain) : chain[i] \in Node
  BY EmptySeq DEF TypeOK
<1>2. OnStack \subseteq live /\ OnStack \subseteq Node
  BY <1>1 DEF OwnInv, OnStack
<1>3. \A t \in Private : node[t] \in live \ (OnStack \cup retired)
  BY DEF OwnInv
<1>4. \A t \in Thread : pc[t] \in Linking \cup Detached => t \in Private
  BY DEF Private, Linking, Detached
<1>5. \A t, u \in Private : node[t] = node[u] => t = u
  BY DEF OwnInv
<1>6. chain # <<>> => head = chain[1] /\ head \in OnStack /\ head # Null
  BY <1>1, StackAssumption DEF ListInv, OnStack
<1>7. chain = <<>> => head = Null
  BY DEF ListInv
<1> QED
  BY <1>2, <1>3, <1>4, <1>5, <1>6, <1>7

\* A step that leaves the stack and the pointers of its nodes alone.
LEMMA SameStack ==
  ASSUME ListInv, UNCHANGED <<head, chain>>, \A n \in OnStack : next'[n] = next[n]
  PROVE  ListInv' /\ OnStack' = OnStack
<1>1. OnStack' = OnStack
  BY DEF OnStack
<1>2. \A i \in 1..Len(chain) : next'[chain[i]] = next[chain[i]]
  BY DEF OnStack
<1> QED
  BY <1>1, <1>2 DEF ListInv

\* A step that allocates, frees and hands over no node.
LEMMA SameOwners ==
  ASSUME OwnInv, UNCHANGED <<live, retired>>, OnStack' = OnStack, Private' = Private,
         \A t \in Private : node'[t] = node[t]
  PROVE  OwnInv'
  BY DEF OwnInv
-----------------------------------------------------------------------------
(* The steps that leave the stack alone *)

\* A new node is on no stack, and belongs to no other call.
LEMMA CallPushKeeps ==
  ASSUME IInv, NEW t \in Thread, NEW v \in Value, NEW n \in Node, CallPush(t, v, n)
  PROVE  IInv'
<1> USE DEF IInv, CallPush, Goto
<1>0. /\ OnStack \subseteq live /\ OnStack \subseteq Node
      /\ \A u \in Private : node[u] \in live \ (OnStack \cup retired)
      /\ \A u \in Thread : pc[u] \in Linking \cup Detached => u \in Private
      /\ \A u, w \in Private : node[u] = node[w] => u = w
  BY Separation
<1>1. TypeOK'
  BY DEF TypeOK, Address, Position
<1>2. ListInv' /\ OnStack' = OnStack
  BY SameStack
<1>3. OwnInv'
  BY <1>2 DEF TypeOK, Private, OwnInv
<1>4. LocalInv'
  BY DEF TypeOK, LocalInv, Linking
<1>5. DataInv'
  BY <1>0, <1>2 DEF TypeOK, DataInv
<1>6. HazardInv'
  BY StackAssumption DEF LocalInv, HazardInv, Protected
<1> QED
  BY <1>1, <1>2, <1>3, <1>4, <1>5, <1>6

\* A push writes next of a node of its own.
LEMMA LoadNextKeeps ==
  ASSUME IInv, NEW t \in Thread, LoadNext(t)
  PROVE  IInv'
<1> USE DEF IInv, LoadNext, Goto, local
<1>0. /\ OnStack \subseteq live /\ OnStack \subseteq Node
      /\ \A u \in Private : node[u] \in live \ (OnStack \cup retired)
      /\ \A u \in Thread : pc[u] \in Linking \cup Detached => u \in Private
      /\ \A u, w \in Private : node[u] = node[w] => u = w
  BY Separation
<1>1. TypeOK'
  BY DEF TypeOK, Position
<1>2. ListInv' /\ OnStack' = OnStack
  BY <1>0, SameStack DEF Linking
<1>3. OwnInv'
  BY <1>2, SameOwners DEF Private
<1>4. LocalInv'
  BY DEF LocalInv, Linking
<1>5. DataInv'
  BY <1>2 DEF DataInv, Linking
<1>6. HazardInv'
  BY DEF HazardInv, Linking, Protected
<1> QED
  BY <1>1, <1>2, <1>3, <1>4, <1>5, <1>6

\* It writes it again.
LEMMA PushRetryKeeps ==
  ASSUME IInv, NEW t \in Thread, PushRetry(t)
  PROVE  IInv'
<1> USE DEF IInv, PushRetry, local
<1>0. /\ OnStack \subseteq live /\ OnStack \subseteq Node
      /\ \A u \in Private : node[u] \in live \ (OnStack \cup retired)
      /\ \A u \in Thread : pc[u] \in Linking \cup Detached => u \in Private
      /\ \A u, w \in Private : node[u] = node[w] => u = w
  BY Separation
<1>1. TypeOK'
  BY DEF TypeOK
<1>2. ListInv' /\ OnStack' = OnStack
  BY <1>0, SameStack DEF Linking
<1>3. OwnInv'
  BY <1>2, SameOwners DEF Private
<1>4. LocalInv'
  BY DEF LocalInv
<1>5. DataInv'
  BY <1>2 DEF DataInv
<1>6. HazardInv'
  BY DEF HazardInv, Linking, Protected
<1> QED
  BY <1>1, <1>2, <1>3, <1>4, <1>5, <1>6

\* A push returns.
LEMMA PushReturnsKeeps ==
  ASSUME IInv, NEW t \in Thread, PushReturns(t)
  PROVE  IInv'
<1> USE DEF IInv, PushReturns, Goto, Return, heap
<1>1. TypeOK'
  BY DEF TypeOK, Address, Position
<1>2. ListInv' /\ OnStack' = OnStack
  BY SameStack
<1>3. OwnInv'
  BY <1>2, SameOwners DEF Private
<1>4. LocalInv'
  BY DEF TypeOK, LocalInv, Linking, Protected, Detached
<1>5. DataInv'
  BY <1>2 DEF DataInv, Linking
<1>6. HazardInv'
  BY DEF HazardInv, Linking, Protected
<1> QED
  BY <1>1, <1>2, <1>3, <1>4, <1>5, <1>6

\* A pop begins.
LEMMA CallPopKeeps ==
  ASSUME IInv, NEW t \in Thread, CallPop(t)
  PROVE  IInv'
<1> USE DEF IInv, CallPop, Goto, heap
<1>1. TypeOK'
  BY DEF TypeOK, Position
<1>2. ListInv' /\ OnStack' = OnStack
  BY SameStack
<1>3. OwnInv'
  BY <1>2, SameOwners DEF Private
<1>4. LocalInv'
  BY DEF TypeOK, LocalInv, Linking, Protected, Detached
<1>5. DataInv'
  BY <1>2 DEF DataInv, Linking
<1>6. HazardInv'
  BY DEF HazardInv, Linking, Protected
<1> QED
  BY <1>1, <1>2, <1>3, <1>4, <1>5, <1>6

\* A pop reads head.
LEMMA LoadHeadKeeps ==
  ASSUME IInv, NEW t \in Thread, LoadHead(t)
  PROVE  IInv'
<1> USE DEF IInv, LoadHead, Goto, heap
<1>1. TypeOK'
  BY DEF TypeOK, Position
<1>2. ListInv' /\ OnStack' = OnStack
  BY SameStack
<1>3. OwnInv'
  BY <1>2, SameOwners DEF Private
<1>4. LocalInv'
  BY DEF LocalInv, Linking, Protected, Detached
<1>5. DataInv'
  BY <1>2 DEF DataInv, Linking
<1>6. HazardInv'
  BY DEF HazardInv, Linking, Protected
<1> QED
  BY <1>1, <1>2, <1>3, <1>4, <1>5, <1>6

\* It stores a hazard pointer.
LEMMA ProtectKeeps ==
  ASSUME IInv, NEW t \in Thread, Protect(t)
  PROVE  IInv'
<1> USE DEF IInv, Protect, Goto, heap, local
<1>1. TypeOK'
  BY DEF TypeOK, Position
<1>2. ListInv' /\ OnStack' = OnStack
  BY SameStack
<1>3. OwnInv'
  BY <1>2, SameOwners DEF Private
<1>4. LocalInv'
  BY DEF LocalInv, Linking, Protected, Detached
<1>5. DataInv'
  BY <1>2 DEF DataInv, Linking
<1>6. HazardInv'
  BY DEF TypeOK, HazardInv, Linking, Protected
<1> QED
  BY <1>1, <1>2, <1>3, <1>4, <1>5, <1>6

\* Head is still the node that the hazard pointer protects.
LEMMA RecheckKeeps ==
  ASSUME IInv, NEW t \in Thread, Recheck(t)
  PROVE  IInv'
<1> USE DEF IInv, Recheck, Goto, heap, local
<1>0. /\ OnStack \subseteq live /\ OnStack \subseteq Node
      /\ \A u \in Private : node[u] \in live \ (OnStack \cup retired)
      /\ \A u \in Thread : pc[u] \in Linking \cup Detached => u \in Private
      /\ \A u, w \in Private : node[u] = node[w] => u = w
  BY Separation
<1>a. CASE node[t] = Null
  <2>1. pc' = [pc EXCEPT ![t] = "unprotect"]
    BY <1>a
  <2>2. TypeOK' /\ LocalInv'
    BY <2>1 DEF TypeOK, Position, LocalInv, Linking, Protected, Detached
  <2>3. ListInv' /\ OnStack' = OnStack
    BY SameStack
  <2>4. OwnInv'
    BY <2>3, SameOwners DEF Private
  <2>5. DataInv' /\ HazardInv'
    BY <2>1, <2>3 DEF DataInv, HazardInv, Linking, Protected
  <2> QED
    BY <2>2, <2>3, <2>4, <2>5
<1>b. CASE node[t] # Null
  <2>1. pc' = [pc EXCEPT ![t] = "read_next"]
    BY <1>b
  <2>2. TypeOK' /\ LocalInv'
    BY <2>1 DEF TypeOK, Address, Position, LocalInv, Linking
  <2>3. ListInv' /\ OnStack' = OnStack
    BY SameStack
  <2>4. OwnInv'
    BY <2>3, SameOwners DEF Private
  <2>5. node[t] \in OnStack
    BY <1>b, Separation
  <2>6. \A u \in Thread : pc[u] \in Linking => node[u] # node[t]
    BY <1>0, <2>5
  <2>7. DataInv'
    BY <2>3 DEF DataInv, Linking
  <2>8. HazardInv'
    BY <1>0, <2>5 DEF HazardInv, Linking
  <2> QED
    BY <2>2, <2>3, <2>4, <2>7, <2>8
<1> QED
  BY <1>a, <1>b

\* Head has changed.
LEMMA ReloadKeeps ==
  ASSUME IInv, NEW t \in Thread, Reload(t)
  PROVE  IInv'
<1> USE DEF IInv, Reload, Goto, heap
<1>1. TypeOK'
  BY DEF TypeOK, Position
<1>2. ListInv' /\ OnStack' = OnStack
  BY SameStack
<1>3. OwnInv'
  BY <1>2, SameOwners DEF Private
<1>4. LocalInv'
  BY DEF LocalInv, Linking, Protected, Detached
<1>5. DataInv'
  BY <1>2 DEF DataInv, Linking
<1>6. HazardInv'
  BY DEF TypeOK, HazardInv, Linking, Protected
<1> QED
  BY <1>1, <1>2, <1>3, <1>4, <1>5, <1>6

\* A pop reads next of the node it protects.
LEMMA ReadNextKeeps ==
  ASSUME IInv, NEW t \in Thread, ReadNext(t)
  PROVE  IInv'
<1> USE DEF IInv, ReadNext, Goto, heap
<1>1. TypeOK'
  BY DEF TypeOK, Position, LocalInv, Protected
<1>2. ListInv' /\ OnStack' = OnStack
  BY SameStack
<1>3. OwnInv'
  BY <1>2, SameOwners DEF Private
<1>4. LocalInv'
  BY DEF LocalInv, Linking, Protected
<1>5. DataInv'
  BY <1>2 DEF DataInv, Linking
<1>6. HazardInv'
  BY DEF TypeOK, HazardInv, Linking, Protected
<1> QED
  BY <1>1, <1>2, <1>3, <1>4, <1>5, <1>6

\* Its exchange fails.
LEMMA PopRetryKeeps ==
  ASSUME IInv, NEW t \in Thread, PopRetry(t)
  PROVE  IInv'
<1> USE DEF IInv, PopRetry, Goto, heap
<1>1. TypeOK'
  BY DEF TypeOK, Address, Position
<1>2. ListInv' /\ OnStack' = OnStack
  BY SameStack
<1>3. OwnInv'
  BY <1>2, SameOwners DEF Private
<1>4. LocalInv'
  BY DEF TypeOK, LocalInv, Linking, Protected, Detached
<1>5. DataInv'
  BY <1>2 DEF DataInv, Linking
<1>6. HazardInv'
  BY DEF TypeOK, HazardInv, Linking, Protected
<1> QED
  BY <1>1, <1>2, <1>3, <1>4, <1>5, <1>6

\* It clears its hazard pointer.
LEMMA UnprotectKeeps ==
  ASSUME IInv, NEW t \in Thread, Unprotect(t)
  PROVE  IInv'
<1> USE DEF IInv, Unprotect, Goto, heap, local
<1>1. TypeOK'
  <2>1. pc' \in [Thread -> Position] /\ hazard' \in [Thread -> Address]
    BY DEF TypeOK, Position, Address
  <2> QED
    BY <2>1 DEF TypeOK
<1>2. ListInv' /\ OnStack' = OnStack
  BY SameStack
<1>3. OwnInv'
  BY <1>2, SameOwners DEF Private
<1>4. LocalInv'
  <2>1. CASE node[t] = Null
    BY <2>1 DEF LocalInv, Linking, Protected, Detached
  <2>2. CASE node[t] # Null
    BY <2>2 DEF TypeOK, Address, LocalInv, Linking
  <2> QED
    BY <2>1, <2>2
<1>5. DataInv'
  BY <1>2 DEF DataInv, Linking
<1>6. HazardInv'
  BY DEF HazardInv, Linking, Protected
<1> QED
  BY <1>1, <1>2, <1>3, <1>4, <1>5, <1>6

\* It takes the value out of the node that is its own now.
LEMMA SwapDataKeeps ==
  ASSUME IInv, NEW t \in Thread, SwapData(t)
  PROVE  IInv'
<1> USE DEF IInv, SwapData, Goto
<1>0. /\ OnStack \subseteq live /\ OnStack \subseteq Node
      /\ \A u \in Private : node[u] \in live \ (OnStack \cup retired)
      /\ \A u \in Thread : pc[u] \in Linking \cup Detached => u \in Private
      /\ \A u, w \in Private : node[u] = node[w] => u = w
  BY Separation
<1>1. TypeOK'
  BY <1>0 DEF TypeOK, Position, Detached
<1>2. ListInv' /\ OnStack' = OnStack
  BY SameStack
<1>3. OwnInv'
  BY <1>2, SameOwners DEF Private
<1>4. LocalInv'
  BY DEF TypeOK, LocalInv, Linking, Detached
<1>5. DataInv'
  BY <1>0, <1>2 DEF TypeOK, DataInv, Private, Linking
<1>6. HazardInv'
  BY DEF HazardInv, Linking, Protected
<1> QED
  BY <1>1, <1>2, <1>3, <1>4, <1>5, <1>6

\* It deletes that node, which nobody protects.
LEMMA DeleteNodeKeeps ==
  ASSUME IInv, NEW t \in Thread, DeleteNode(t)
  PROVE  IInv'
<1> USE DEF IInv, DeleteNode, Goto, Free, Hazardous, local
<1>0. /\ OnStack \subseteq live /\ OnStack \subseteq Node
      /\ \A u \in Private : node[u] \in live \ (OnStack \cup retired)
      /\ \A u \in Thread : pc[u] \in Linking \cup Detached => u \in Private
      /\ \A u, w \in Private : node[u] = node[w] => u = w
  BY Separation
<1>1. TypeOK'
  <2>1. next' \in [Node -> Address] /\ data' \in [Node -> Value \cup {Nothing}]
    BY DEF TypeOK, Address
  <2> QED
    BY <2>1 DEF TypeOK, Position
<1>2. ListInv' /\ OnStack' = OnStack
  BY <1>0, SameStack DEF Detached
<1>3. OwnInv'
  BY <1>2 DEF TypeOK, Private, OwnInv
<1>4. LocalInv'
  BY DEF LocalInv, Linking, Detached
<1>5. DataInv'
  BY <1>0, <1>2 DEF TypeOK, DataInv, Private, Linking
<1>6. HazardInv'
  BY DEF LocalInv, HazardInv, Protected
<1> QED
  BY <1>1, <1>2, <1>3, <1>4, <1>5, <1>6

\* It puts that node with the nodes to reclaim.
LEMMA ReclaimLaterKeeps ==
  ASSUME IInv, NEW t \in Thread, ReclaimLater(t)
  PROVE  IInv'
<1> USE DEF IInv, ReclaimLater, Goto, Hazardous, heap, local
<1>0. /\ OnStack \subseteq live /\ OnStack \subseteq Node
      /\ \A u \in Private : node[u] \in live \ (OnStack \cup retired)
      /\ \A u \in Thread : pc[u] \in Linking \cup Detached => u \in Private
      /\ \A u, w \in Private : node[u] = node[w] => u = w
  BY Separation
<1>1. TypeOK'
  BY <1>0 DEF TypeOK, Position, Detached
<1>2. ListInv' /\ OnStack' = OnStack
  BY SameStack
<1>3. OwnInv'
  BY <1>2 DEF TypeOK, Private, OwnInv
<1>4. LocalInv'
  BY DEF LocalInv, Linking, Detached
<1>5. DataInv'
  BY <1>2 DEF DataInv, Linking
<1>6. HazardInv'
  BY DEF HazardInv, Linking, Protected
<1> QED
  BY <1>1, <1>2, <1>3, <1>4, <1>5, <1>6

\* It deletes the nodes that nobody protects any more.
LEMMA DeleteNodesKeeps ==
  ASSUME IInv, NEW t \in Thread, DeleteNodes(t)
  PROVE  IInv'
<1> USE DEF IInv, DeleteNodes, Goto, Free, Hazardous, local
<1>0. /\ OnStack \subseteq live /\ OnStack \subseteq Node
      /\ \A u \in Private : node[u] \in live \ (OnStack \cup retired)
      /\ \A u \in Thread : pc[u] \in Linking \cup Detached => u \in Private
      /\ \A u, w \in Private : node[u] = node[w] => u = w
  BY Separation
<1>1. TypeOK'
  <2>1. next' \in [Node -> Address] /\ data' \in [Node -> Value \cup {Nothing}]
    BY DEF TypeOK, Address
  <2> QED
    BY <2>1 DEF TypeOK, Position
<1>2. ListInv' /\ OnStack' = OnStack
  BY <1>0, SameStack DEF OwnInv
<1>3. OwnInv'
  BY <1>2 DEF Private, OwnInv
<1>4. LocalInv'
  BY DEF LocalInv, Linking, Protected, Detached
<1>5. DataInv'
  <2>1. \A n \in Node \ retired : data'[n] = data[n]
    OBVIOUS
  <2>2. OnStack \cap retired = {}
    BY DEF OwnInv
  <2>3. \A u \in Thread :
          pc[u] \in Linking \cup {"swap"} \/ (pc[u] = "unprotect" /\ node[u] # Null) =>
            u \in Private
    BY DEF Private, Linking
  <2>4. pc'[t] = "popped" /\ \A u \in Thread \ {t} : pc'[u] = pc[u]
    BY DEF TypeOK
  <2>5. \A u \in Private : node[u] \in Node \ retired
    BY <1>0 DEF TypeOK
  <2> QED
    BY <1>0, <1>2, <2>2, <2>3, <2>5 DEF DataInv, Linking
<1>6. HazardInv'
  BY DEF LocalInv, HazardInv, Linking, Protected
<1> QED
  BY <1>1, <1>2, <1>3, <1>4, <1>5, <1>6

\* A pop returns.
LEMMA PopReturnsKeeps ==
  ASSUME IInv, NEW t \in Thread, PopReturns(t)
  PROVE  IInv'
<1> USE DEF IInv, PopReturns, Goto, Return, heap
<1>1. TypeOK'
  BY DEF TypeOK, Address, Position
<1>2. ListInv' /\ OnStack' = OnStack
  BY SameStack
<1>3. OwnInv'
  BY <1>2, SameOwners DEF Private
<1>4. LocalInv'
  BY DEF TypeOK, LocalInv, Linking, Protected, Detached
<1>5. DataInv'
  BY <1>2 DEF DataInv, Linking
<1>6. HazardInv'
  BY DEF HazardInv, Linking, Protected
<1> QED
  BY <1>1, <1>2, <1>3, <1>4, <1>5, <1>6
-----------------------------------------------------------------------------
(* The two exchanges of head *)

\* A push puts its node on top.
LEMMA PushNodeKeeps ==
  ASSUME IInv, NEW t \in Thread, PushNode(t)
  PROVE  IInv'
<1> USE DEF IInv, PushNode, Goto, heap, local
<1> DEFINE n == node[t]
<1>0. /\ OnStack \subseteq live /\ OnStack \subseteq Node
      /\ \A u \in Private : node[u] \in live \ (OnStack \cup retired)
      /\ \A u \in Thread : pc[u] \in Linking \cup Detached => u \in Private
      /\ \A u, w \in Private : node[u] = node[w] => u = w
  BY Separation
<1>1. n \in Node /\ n \notin OnStack /\ t \in Private /\ next[n] = head
  BY <1>0 DEF LocalInv, Linking
<1>2. /\ chain' \in Seq(Node) /\ Len(chain) \in Nat
      /\ Len(chain') = Len(chain) + 1
      /\ chain'[1] = n
      /\ \A i \in 1..Len(chain) : chain'[i + 1] = chain[i]
      /\ \A i \in 2..(Len(chain) + 1) : chain'[i] = chain[i - 1]
  BY <1>1, ConsFacts DEF TypeOK
<1>3. OnStack' = OnStack \cup {n}
  <2>1. ASSUME NEW m \in OnStack'
        PROVE  m \in OnStack \cup {n}
    <3>1. PICK i \in 1..(Len(chain) + 1) : m = chain'[i]
      BY <1>2 DEF OnStack
    <3>2. CASE i = 1
      BY <1>2, <3>1, <3>2
    <3>3. CASE i # 1
      <4>1. i \in 2..(Len(chain) + 1) /\ i - 1 \in 1..Len(chain)
        BY <1>2, <3>3
      <4> QED
        BY <1>2, <3>1, <4>1 DEF OnStack
    <3> QED
      BY <3>2, <3>3
  <2>2. n \in OnStack'
    <3>1. 1 \in 1..Len(chain')
      BY <1>2
    <3> QED
      BY <1>2, <3>1 DEF OnStack
  <2>3. ASSUME NEW m \in OnStack
        PROVE  m \in OnStack'
    <3>1. PICK i \in 1..Len(chain) : m = chain[i]
      BY DEF OnStack
    <3>2. i + 1 \in 1..Len(chain') /\ m = chain'[i + 1]
      BY <1>2, <3>1
    <3> QED
      BY <3>2 DEF OnStack
  <2> QED
    BY <2>1, <2>2, <2>3
<1>4. TypeOK'
  BY <1>1, <1>2 DEF TypeOK, Address, Position
<1>5. ListInv'
  <2>1. head' = n /\ chain' # <<>>
    BY <1>2
  <2>2. ASSUME NEW i \in 1..Len(chain')
        PROVE  next[chain'[i]] = IF i = Len(chain') THEN Null ELSE chain'[i + 1]
    <3>1. CASE i = 1 /\ chain = <<>>
      BY <1>1, <1>2, <3>1 DEF ListInv
    <3>2. CASE i = 1 /\ chain # <<>>
      <4>1. Len(chain) > 0
        BY <1>2, <3>2, EmptySeq DEF TypeOK
      <4> QED
        BY <1>1, <1>2, <3>2, <4>1 DEF ListInv
    <3>3. CASE i # 1
      <4>1. i - 1 \in 1..Len(chain) /\ chain'[i] = chain[i - 1]
        BY <1>2, <3>3
      <4>2. next[chain[i - 1]] = IF i - 1 = Len(chain) THEN Null ELSE chain[i - 1 + 1]
        BY <4>1 DEF ListInv
      <4>3. i # Len(chain') => chain'[i + 1] = chain[i - 1 + 1]
        BY <1>2, <4>1
      <4> QED
        BY <1>2, <4>1, <4>2, <4>3
    <3> QED
      BY <3>1, <3>2, <3>3
  <2>3. ASSUME NEW i \in 1..Len(chain'), NEW j \in 1..Len(chain'), chain'[i] = chain'[j]
        PROVE  i = j
    <3>1. ASSUME NEW k \in 2..(Len(chain) + 1)
          PROVE  chain'[k] \in OnStack
      <4>1. k - 1 \in 1..Len(chain) /\ chain'[k] = chain[k - 1]
        BY <1>2
      <4> QED
        BY <4>1 DEF OnStack
    <3>2. CASE i = 1 \/ j = 1
      BY <1>1, <1>2, <2>3, <3>1, <3>2
    <3>3. CASE i # 1 /\ j # 1
      <4>1. i - 1 \in 1..Len(chain) /\ j - 1 \in 1..Len(chain) /\ chain[i - 1] = chain[j - 1]
        BY <1>2, <2>3, <3>3
      <4>2. i - 1 = j - 1
        BY <4>1 DEF ListInv
      <4> QED
        BY <1>2, <4>2
    <3> QED
      BY <3>2, <3>3
  <2> QED
    BY <2>1, <2>2, <2>3, <1>2 DEF ListInv
<1>6. Private' = Private \ {t}
  BY DEF TypeOK, Private
<1>7. OwnInv'
  BY <1>0, <1>1, <1>3, <1>6 DEF OwnInv
<1>8. LocalInv'
  BY DEF TypeOK, LocalInv, Linking, Protected, Detached
<1>9. DataInv'
  BY <1>3 DEF TypeOK, LocalInv, DataInv, Linking
<1>10. HazardInv'
  BY DEF TypeOK, HazardInv, Linking, Protected
<1> QED
  BY <1>4, <1>5, <1>7, <1>8, <1>9, <1>10

\* A pop takes the top node off; what it has read of next is still there.
LEMMA PopNodeKeeps ==
  ASSUME IInv, NEW t \in Thread, PopNode(t)
  PROVE  IInv'
<1> USE DEF IInv, PopNode, Goto, heap
<1>0. /\ OnStack \subseteq live /\ OnStack \subseteq Node
      /\ \A u \in Private : node[u] \in live \ (OnStack \cup retired)
      /\ \A u \in Thread : pc[u] \in Linking \cup Detached => u \in Private
      /\ \A u, w \in Private : node[u] = node[w] => u = w
  BY Separation
<1>1. /\ node[t] \in Node /\ node[t] # Null /\ chain # <<>> /\ node[t] = chain[1]
      /\ after[t] = next[node[t]] /\ t \notin Private
  BY Separation, StackAssumption DEF LocalInv, Protected, ListInv, HazardInv, Private
<1>2. /\ Len(chain) \in Nat \ {0} /\ chain' \in Seq(Node)
      /\ Len(chain') = Len(chain) - 1
      /\ \A i \in 1..(Len(chain) - 1) : chain'[i] = chain[i + 1]
  BY <1>1, TailFacts DEF TypeOK
<1>3. \A i, j \in 1..Len(chain) : chain[i] = chain[j] => i = j
  BY DEF ListInv
<1>4. OnStack' = OnStack \ {node[t]} /\ node[t] \in OnStack
  <2>1. ASSUME NEW m \in OnStack'
        PROVE  m \in OnStack \ {node[t]}
    <3>1. PICK i \in 1..(Len(chain) - 1) : m = chain'[i]
      BY <1>2 DEF OnStack
    <3>2. i + 1 \in 1..Len(chain) /\ m = chain[i + 1] /\ 1 \in 1..Len(chain) /\ i + 1 # 1
      BY <1>2, <3>1
    <3> QED
      BY <1>1, <1>3, <3>2 DEF OnStack
  <2>2. ASSUME NEW m \in OnStack \ {node[t]}
        PROVE  m \in OnStack'
    <3>1. PICK i \in 1..Len(chain) : m = chain[i]
      BY DEF OnStack
    <3>2. i # 1
      BY <1>1, <3>1
    <3>3. i - 1 \in 1..(Len(chain) - 1) /\ (i - 1) + 1 = i
      BY <1>2, <3>2
    <3>4. chain'[i - 1] = chain[i]
      BY <1>2, <3>3
    <3> QED
      BY <1>2, <3>1, <3>3, <3>4 DEF OnStack
  <2>3. 1 \in 1..Len(chain)
    BY <1>2
  <2> QED
    BY <1>1, <2>1, <2>2, <2>3 DEF OnStack
<1>5. TypeOK'
  BY <1>2 DEF TypeOK, Address, Position
<1>6. ListInv'
  <2>1. next[chain[1]] = IF Len(chain) = 1 THEN Null ELSE chain[2]
    <3>1. 1 \in 1..Len(chain)
      BY <1>2
    <3>2. next[chain[1]] = IF 1 = Len(chain) THEN Null ELSE chain[1 + 1]
      BY <3>1 DEF ListInv
    <3> QED
      BY <3>2
  <2>2. head' = IF chain' = <<>> THEN Null ELSE chain'[1]
    <3>1. CASE Len(chain) = 1
      BY <1>1, <1>2, <2>1, <3>1, EmptySeq
    <3>2. CASE Len(chain) # 1
      <4>1. chain' # <<>> /\ chain'[1] = chain[2]
        <5>1. 1 \in 1..(Len(chain) - 1) /\ Len(chain') # 0
          BY <1>2, <3>2
        <5>2. chain'[1] = chain[1 + 1]
          BY <1>2, <5>1
        <5>3. chain' # <<>>
          BY <1>2, <5>1, EmptySeq
        <5>4. chain[1 + 1] = chain[2]
          OBVIOUS
        <5> QED
          BY <5>2, <5>3, <5>4
      <4> QED
        BY <1>1, <2>1, <3>2, <4>1
    <3> QED
      BY <3>1, <3>2
  <2>3. ASSUME NEW i \in 1..Len(chain')
        PROVE  /\ next[chain'[i]] = IF i = Len(chain') THEN Null ELSE chain'[i + 1]
               /\ \A j \in 1..Len(chain') : chain'[i] = chain'[j] => i = j
    <3>1. i + 1 \in 1..Len(chain) /\ chain'[i] = chain[i + 1]
      BY <1>2
    <3>2. next[chain[i + 1]] = IF i + 1 = Len(chain) THEN Null ELSE chain[i + 1 + 1]
      BY <3>1 DEF ListInv
    <3>3. i # Len(chain') => chain'[i + 1] = chain[i + 1 + 1]
      <4>1. \A n, k \in Nat : k \in 1..n /\ k # n => k + 1 \in 1..n
        OBVIOUS
      <4>2. Len(chain') \in Nat /\ Len(chain) - 1 = Len(chain') /\ i \in Nat
        BY <1>2
      <4>3. i # Len(chain') => i + 1 \in 1..(Len(chain) - 1)
        BY <4>1, <4>2
      <4> QED
        BY <1>2, <4>2, <4>3
    <3>4. ASSUME NEW j \in 1..Len(chain'), chain'[i] = chain'[j]
          PROVE  i = j
      <4>1. j + 1 \in 1..Len(chain) /\ chain[i + 1] = chain[j + 1]
        BY <1>2, <3>1, <3>4
      <4>2. i + 1 = j + 1
        BY <1>3, <3>1, <4>1
      <4> QED
        BY <1>2, <4>2
    <3>5. i = Len(chain') <=> i + 1 = Len(chain)
      BY <1>2
    <3> QED
      BY <3>1, <3>2, <3>3, <3>4, <3>5
  <2> QED
    BY <2>2, <2>3 DEF ListInv
<1>7. Private' = Private \cup {t}
  BY <1>1 DEF TypeOK, Private
<1>8. OwnInv'
  BY <1>0, <1>4, <1>7 DEF OwnInv
<1>9. LocalInv'
  BY DEF TypeOK, LocalInv, Linking, Protected, Detached
<1>10. DataInv'
  BY <1>4 DEF TypeOK, DataInv, Linking
<1>11. HazardInv'
  BY DEF TypeOK, HazardInv, Linking, Protected
<1> QED
  BY <1>5, <1>6, <1>8, <1>9, <1>10, <1>11
-----------------------------------------------------------------------------
(* The safety theorems *)

\* The empty stack satisfies the invariant.
LEMMA InitHolds ==
  ASSUME Init
  PROVE  IInv
<1> USE DEF Init
<1>1. TypeOK
  BY DEF TypeOK, Address, Position
<1>2. OnStack = {} /\ Private = {}
  BY DEF OnStack, Private
<1>3. ListInv /\ OwnInv
  BY <1>2 DEF ListInv, OwnInv
<1>4. LocalInv /\ DataInv /\ HazardInv
  BY <1>2 DEF LocalInv, DataInv, HazardInv, Linking, Protected, Detached
<1> QED
  BY <1>1, <1>3, <1>4 DEF IInv

\* Every step keeps the invariant.
LEMMA NextKeeps ==
  ASSUME IInv, [Next]_vars
  PROVE  IInv'
<1>1. CASE UNCHANGED vars
  <2> USE <1>1 DEF IInv, vars, heap, local
  <2>1. TypeOK' /\ LocalInv' /\ HazardInv'
    BY DEF TypeOK, LocalInv, HazardInv
  <2>2. OnStack' = OnStack /\ Private' = Private
    BY DEF OnStack, Private
  <2>3. DataInv' /\ ListInv' /\ OwnInv'
    BY <2>2 DEF DataInv, ListInv, OwnInv
  <2> QED
    BY <2>1, <2>3
<1>2. ASSUME NEW t \in Thread, Call(t)
      PROVE  IInv'
  BY <1>2, CallPushKeeps, CallPopKeeps DEF Call
<1>3. ASSUME NEW t \in Thread, Proceed(t)
      PROVE  IInv'
  BY <1>3, LoadNextKeeps, PushNodeKeeps, PushRetryKeeps, PushReturnsKeeps, LoadHeadKeeps,
     ProtectKeeps, RecheckKeeps, ReloadKeeps, ReadNextKeeps, PopNodeKeeps, PopRetryKeeps,
     UnprotectKeeps, SwapDataKeeps, DeleteNodeKeeps, ReclaimLaterKeeps, DeleteNodesKeeps,
     PopReturnsKeeps DEF Proceed
<1> QED
  BY <1>1, <1>2, <1>3 DEF Next

\* The invariant of the stack that the theorems rest on: whose each allocated
\* node is, and which nodes a pop's hazard pointer keeps (t_stack.h:16-23,
\* 81-106).
THEOREM Inductive == Spec => []IInv
<1>1. Init => IInv
  BY InitHolds
<1>2. IInv /\ [Next]_vars => IInv'
  BY NextKeeps
<1> QED
  BY <1>1, <1>2, PTL DEF Spec

\* No thread follows a pointer to a freed node: the hazard pointer of a pop
\* protects its node from the second read of head to the exchange, for any
\* threads, values and addresses (t_stack.h:81-93).
THEOREM PointersAlive == Spec => []NoUseAfterFree
<1>1. ASSUME IInv PROVE NoUseAfterFree
  <2>1. \A t \in Thread : pc[t] \in Linking \cup Detached => node[t] \in live
    BY <1>1, Separation
  <2>2. \A t \in Thread : pc[t] \in Protected => node[t] \in live
    BY <1>1 DEF IInv, HazardInv
  <2> QED
    BY <2>1, <2>2 DEF NoUseAfterFree, Dereferencing, Linking, Detached, Protected
<1> QED
  BY <1>1, Inductive, PTL

\* The pointers from head pass through distinct nodes to the bottom, and every
\* allocated node is on the stack, waits to be reclaimed, or belongs to exactly
\* one call, for any threads, values and addresses (t_stack.h:16-23, 81-106).
THEOREM HeapIsExact == Spec => []HeapExact
<1>1. IInv => HeapExact
  BY DEF IInv, ListInv, OwnInv, HeapExact
<1> QED
  BY <1>1, Inductive, PTL
-----------------------------------------------------------------------------
(* The refinement of LifoStack *)

\* The state of LifoStack that a state stands for: the values from the top
\* down, and how far each call is.
Items    == [i \in 1..Len(chain) |-> data[chain[i]]]
Stage(t) == IF pc[t] = "idle" THEN "idle" ELSE IF Effected(t) THEN "done" ELSE "open"
Abstract == [t \in Thread |-> [stage |-> Stage(t), op |-> op[t], val |-> Outcome(t)]]

\* What a step does to the stage and the outcome of every call is what it
\* does to the abstract state.
LEMMA StutterStep ==
  ASSUME IInv, UNCHANGED <<chain, op>>, \A n \in OnStack : data'[n] = data[n],
         \A u \in Thread : Stage(u)' = Stage(u) /\ Outcome(u)' = Outcome(u)
  PROVE  UNCHANGED Lifo!vars
<1>1. Items' = Items
  BY DEF Items, OnStack
<1>2. Abstract' = Abstract
  BY DEF Abstract
<1> QED
  BY <1>1, <1>2 DEF Lifo!vars, Items, Abstract, Stage

LEMMA CallStep ==
  ASSUME NEW t \in Thread, NEW s, NEW o, NEW v,
         \A u \in Thread \ {t} : Stage(u)' = Stage(u) /\ Outcome(u)' = Outcome(u)
           /\ op'[u] = op[u],
         Stage(t)' = s, Outcome(t)' = v, op'[t] = o
  PROVE  Abstract' = [Abstract EXCEPT ![t] = [stage |-> s, op |-> o, val |-> v]]
  BY DEF Abstract

\* The outcome of a call depends on its own locals, and on its own node once
\* a pop has taken it off the stack.
LEMMA SameOutcome ==
  ASSUME NEW u \in Thread, op'[u] = op[u], pc'[u] = pc[u], node'[u] = node[u], val'[u] = val[u],
         u \in Private => data'[node[u]] = data[node[u]]
  PROVE  Stage(u)' = Stage(u) /\ Outcome(u)' = Outcome(u)
  BY DEF Stage, Effected, Outcome, Private

\* The start.
LEMMA InitRefines == Init => Lifo!Init
<1> SUFFICES ASSUME Init PROVE Lifo!Init
  OBVIOUS
<1>1. Items = <<>>
  BY DEF Init, Items
<1>2. Abstract = [t \in Thread |-> [stage |-> "idle", op |-> "none", val |-> Nothing]]
  BY DEF Init, Abstract, Stage, Outcome
<1> QED
  BY <1>1, <1>2 DEF Lifo!Init, Lifo!NoCall, Items, Abstract, Stage

LEMMA CallPushRefines ==
  ASSUME IInv, NEW t \in Thread, NEW v \in Value, NEW n \in Node, CallPush(t, v, n)
  PROVE  Lifo!Invoke(t, "push", v)
<1> USE DEF CallPush, Goto
<1>1. OnStack \subseteq live /\ \A u \in Private : node[u] \in live
  BY Separation
<1>2. /\ pc'[t] = "load_next" /\ op'[t] = "push" /\ val'[t] = v
      /\ \A u \in Thread \ {t} :
           pc'[u] = pc[u] /\ op'[u] = op[u] /\ node'[u] = node[u] /\ val'[u] = val[u]
      /\ \A m \in Node \ {n} : data'[m] = data[m]
  BY DEF IInv, TypeOK
<1>3. \A u \in Thread \ {t} : Stage(u)' = Stage(u) /\ Outcome(u)' = Outcome(u)
  BY <1>1, <1>2, SameOutcome DEF IInv, TypeOK
<1>4. Abstract' = [Abstract EXCEPT ![t] = [stage |-> "open", op |-> "push", val |-> v]]
  BY <1>2, <1>3, CallStep DEF Stage, Effected, Outcome
<1>5. Items' = Items
  BY <1>1, <1>2 DEF IInv, TypeOK, Items, OnStack
<1>6. Abstract[t] = [stage |-> "idle", op |-> "none", val |-> Nothing]
  BY DEF IInv, LocalInv, Abstract, Stage, Outcome
<1>7. v # Nothing
  BY StackAssumption
<1> QED
  BY <1>4, <1>5, <1>6, <1>7 DEF Lifo!Invoke, Lifo!NoCall, Items, Abstract, Stage

LEMMA CallPopRefines ==
  ASSUME IInv, NEW t \in Thread, CallPop(t)
  PROVE  Lifo!Invoke(t, "pop", Nothing)
<1> USE DEF CallPop, Goto, heap
<1>1. /\ pc'[t] = "load_head" /\ op'[t] = "pop" /\ val'[t] = Nothing
      /\ \A u \in Thread \ {t} : pc'[u] = pc[u] /\ op'[u] = op[u]
  BY DEF IInv, TypeOK, LocalInv
<1>2. \A u \in Thread \ {t} : Stage(u)' = Stage(u) /\ Outcome(u)' = Outcome(u)
  BY <1>1, SameOutcome
<1>3. Abstract' = [Abstract EXCEPT ![t] = [stage |-> "open", op |-> "pop", val |-> Nothing]]
  BY <1>1, <1>2, CallStep DEF Stage, Effected, Outcome
<1>4. Items' = Items
  BY DEF Items
<1>5. Abstract[t] = [stage |-> "idle", op |-> "none", val |-> Nothing]
  BY DEF IInv, LocalInv, Abstract, Stage, Outcome
<1> QED
  BY <1>3, <1>4, <1>5 DEF Lifo!Invoke, Lifo!NoCall, Items, Abstract, Stage

\* A push takes effect when it exchanges head.
LEMMA PushNodeRefines ==
  ASSUME IInv, NEW t \in Thread, PushNode(t)
  PROVE  Lifo!Push(t)
<1> USE DEF PushNode, Goto, heap, local
<1>1. /\ pc'[t] = "pushed" /\ op[t] = "push" /\ node[t] \in Node /\ data[node[t]] = val[t]
      /\ \A u \in Thread \ {t} : pc'[u] = pc[u]
  BY DEF IInv, TypeOK, LocalInv, DataInv, Linking
<1>2. \A u \in Thread \ {t} : Stage(u)' = Stage(u) /\ Outcome(u)' = Outcome(u)
  BY <1>1, SameOutcome
<1>3. Abstract' = [Abstract EXCEPT ![t] = [stage |-> "done", op |-> "push", val |-> val[t]]]
  BY <1>1, <1>2, CallStep DEF Stage, Effected, Outcome
<1>4. Abstract[t] = [stage |-> "open", op |-> "push", val |-> val[t]]
  BY <1>1 DEF Abstract, Stage, Effected, Outcome
<1>5. Items' = <<val[t]>> \o Items
  <2>1. /\ Len(chain) \in Nat /\ Len(chain') = Len(chain) + 1 /\ chain'[1] = node[t]
        /\ \A i \in 2..(Len(chain) + 1) : chain'[i] = chain[i - 1]
    BY <1>1, ConsFacts DEF IInv, TypeOK
  <2>2. Items' = [i \in 1..(Len(chain) + 1) |-> IF i = 1 THEN val[t] ELSE data[chain[i - 1]]]
    BY <1>1, <2>1 DEF Items
  <2>3. Items \in Seq(Value \cup {Nothing}) /\ Len(Items) = Len(chain)
    BY <2>1 DEF Items, IInv, TypeOK
  <2>4. <<val[t]>> \o Items =
          [i \in 1..(Len(chain) + 1) |-> IF i = 1 THEN val[t] ELSE Items[i - 1]]
    BY <2>1, <2>3 DEF IInv, TypeOK
  <2>5. \A i \in 1..(Len(chain) + 1) : i # 1 => Items[i - 1] = data[chain[i - 1]]
    BY <2>1 DEF Items
  <2> QED
    BY <2>2, <2>4, <2>5
<1> QED
  BY <1>3, <1>4, <1>5 DEF Lifo!Push, Lifo!Finish, Items, Abstract, Stage

\* A pop takes effect when it exchanges head.
LEMMA PopNodeRefines ==
  ASSUME IInv, NEW t \in Thread, PopNode(t)
  PROVE  Lifo!Pop(t)
<1> USE DEF PopNode, Goto, heap
<1>1. /\ pc'[t] = "unprotect" /\ op[t] = "pop" /\ val[t] = Nothing /\ node[t] # Null
      /\ node[t] = chain[1] /\ chain # <<>>
      /\ \A u \in Thread \ {t} : pc'[u] = pc[u]
  <2>1. pc'[t] = "unprotect" /\ \A u \in Thread \ {t} : pc'[u] = pc[u]
    BY DEF IInv, TypeOK
  <2>2. op[t] = "pop" /\ val[t] = Nothing /\ node[t] \in Node /\ node[t] = head
    BY DEF IInv, LocalInv, Linking, Protected
  <2>3. node[t] # Null
    BY <2>2, StackAssumption
  <2>4. chain # <<>> /\ node[t] = chain[1]
    BY <2>2, <2>3 DEF IInv, ListInv
  <2> QED
    BY <2>1, <2>2, <2>3, <2>4
<1>2. \A u \in Thread \ {t} : Stage(u)' = Stage(u) /\ Outcome(u)' = Outcome(u)
  BY <1>1, SameOutcome
<1>3. /\ Len(chain) \in Nat \ {0} /\ Len(chain') = Len(chain) - 1
      /\ \A i \in 1..(Len(chain) - 1) : chain'[i] = chain[i + 1]
  BY <1>1, TailFacts DEF IInv, TypeOK
<1>4. Items \in Seq(Value \cup {Nothing}) /\ Len(Items) = Len(chain) /\ Items # <<>>
  <2>1. Items \in Seq(Value \cup {Nothing}) /\ Len(Items) = Len(chain)
    BY <1>3 DEF Items, IInv, TypeOK
  <2> QED
    BY <1>3, <2>1, EmptySeq
<1>5. Head(Items) = data[node[t]]
  BY <1>1, <1>3, <1>4 DEF Items
<1>6. Abstract' = [Abstract EXCEPT ![t] = [stage |-> "done", op |-> "pop", val |-> Head(Items)]]
  BY <1>1, <1>2, <1>5, CallStep DEF Stage, Effected, Outcome
<1>7. Abstract[t].stage = "open" /\ Abstract[t].op = "pop"
  BY <1>1 DEF Abstract, Stage, Effected
<1>8. Items' = Tail(Items)
  <2>1. Items' = [i \in 1..(Len(chain) - 1) |-> data[chain[i + 1]]]
    BY <1>3 DEF Items
  <2>2. /\ Tail(Items) \in Seq(Value \cup {Nothing}) /\ Len(Tail(Items)) = Len(chain) - 1
        /\ \A i \in 1..(Len(chain) - 1) : Tail(Items)[i] = Items[i + 1]
    BY <1>3, <1>4, TailFacts
  <2>4. Items' \in Seq(Value \cup {Nothing}) /\ Len(Items') = Len(chain) - 1
    <3>1. chain' \in Seq(Node) /\ Len(chain') \in Nat
      BY <1>1, <1>3, TailFacts DEF IInv, TypeOK
    <3> QED
      BY <1>3, <3>1 DEF Items, IInv, TypeOK
  <2>3. \A i \in 1..(Len(chain) - 1) : Items[i + 1] = data[chain[i + 1]]
    BY <1>3 DEF Items
  <2>5. \A i \in 1..(Len(chain) - 1) : Items'[i] = Tail(Items)[i]
    BY <2>1, <2>2, <2>3
  <2> QED
    BY <2>2, <2>4, <2>5, SeqEqual
<1> QED
  BY <1>4, <1>6, <1>7, <1>8 DEF Lifo!Pop, Lifo!Finish, Items, Abstract, Stage

\* A pop that finds a null head twice takes effect at the second time.
LEMMA EmptyRefines ==
  ASSUME IInv, NEW t \in Thread, Recheck(t), node[t] = Null
  PROVE  Lifo!FindEmpty(t)
<1> USE DEF Recheck, Goto, heap, local
<1>1. /\ pc'[t] = "unprotect" /\ op[t] = "pop" /\ val[t] = Nothing /\ chain = <<>>
      /\ \A u \in Thread \ {t} : pc'[u] = pc[u]
  BY Separation DEF IInv, TypeOK, LocalInv, Linking
<1>2. \A u \in Thread \ {t} : Stage(u)' = Stage(u) /\ Outcome(u)' = Outcome(u)
  BY <1>1, SameOutcome
<1>3. Abstract' = [Abstract EXCEPT ![t] = [stage |-> "done", op |-> "pop", val |-> Nothing]]
  BY <1>1, <1>2, CallStep DEF Stage, Effected, Outcome
<1>4. Abstract[t].stage = "open" /\ Abstract[t].op = "pop"
  BY <1>1 DEF Abstract, Stage, Effected
<1>5. Items = <<>> /\ Items' = Items
  BY <1>1 DEF Items
<1> QED
  BY <1>3, <1>4, <1>5 DEF Lifo!FindEmpty, Lifo!Finish, Items, Abstract, Stage

LEMMA ReturnRefines ==
  ASSUME IInv, NEW t \in Thread, PushReturns(t) \/ PopReturns(t)
  PROVE  Lifo!Return(t)
<1> USE DEF PushReturns, PopReturns, Return, Goto, heap
<1>1. /\ pc'[t] = "idle" /\ op'[t] = "none" /\ val'[t] = Nothing
           /\ pc[t] \in {"pushed", "popped"}
      /\ \A u \in Thread \ {t} :
           pc'[u] = pc[u] /\ op'[u] = op[u] /\ node'[u] = node[u] /\ val'[u] = val[u]
  BY DEF IInv, TypeOK
<1>2. \A u \in Thread \ {t} : Stage(u)' = Stage(u) /\ Outcome(u)' = Outcome(u)
  BY <1>1, SameOutcome
<1>3. Abstract' = [Abstract EXCEPT ![t] = [stage |-> "idle", op |-> "none", val |-> Nothing]]
  BY <1>1, <1>2, CallStep DEF Stage, Outcome
<1>4. Abstract[t].stage = "done"
  BY <1>1 DEF Abstract, Stage, Effected
<1>5. Items' = Items
  BY DEF Items
<1> QED
  BY <1>3, <1>4, <1>5 DEF Lifo!Return, Lifo!NoCall, Items, Abstract, Stage

\* A step of one thread that moves its call along without effect.
LEMMA StepsStutter ==
  ASSUME IInv, NEW t \in Thread,
         \/ LoadNext(t) \/ PushRetry(t) \/ LoadHead(t) \/ Protect(t)
         \/ Recheck(t) /\ node[t] # Null
         \/ Reload(t) \/ ReadNext(t) \/ PopRetry(t) \/ Unprotect(t)
         \/ SwapData(t) \/ DeleteNode(t) \/ ReclaimLater(t) \/ DeleteNodes(t)
  PROVE  UNCHANGED Lifo!vars
<1> USE DEF Goto, heap, local
<1>0. /\ OnStack \subseteq live /\ OnStack \subseteq Node /\ OnStack \cap retired = {}
      /\ \A u \in Private : node[u] \in live \ (OnStack \cup retired)
      /\ \A u \in Thread : pc[u] \in Linking \cup Detached => u \in Private
      /\ \A u, w \in Private : node[u] = node[w] => u = w
      /\ \A u \in Private : node[u] \in Node
  BY Separation DEF IInv, OwnInv, TypeOK
<1>1. /\ UNCHANGED <<chain, op>>
      /\ \A u \in Thread \ {t} : pc'[u] = pc[u] /\ node'[u] = node[u] /\ val'[u] = val[u]
  BY DEF IInv, TypeOK, LoadNext, PushRetry, LoadHead, Protect, Recheck, Reload, ReadNext,
         PopRetry,
         Unprotect, SwapData, DeleteNode, ReclaimLater, DeleteNodes
<1>2. CASE \/ LoadNext(t) \/ PushRetry(t) \/ LoadHead(t) \/ Protect(t)
           \/ Recheck(t) /\ node[t] # Null
           \/ Reload(t) \/ ReadNext(t) \/ PopRetry(t)
  <2>1. UNCHANGED <<data, val>>
    BY <1>2 DEF LoadNext, PushRetry, LoadHead, Protect, Recheck, Reload, ReadNext, PopRetry
  <2>2. \A u \in Thread \ {t} : Stage(u)' = Stage(u) /\ Outcome(u)' = Outcome(u)
    BY <1>1, <2>1, SameOutcome
  <2>3. /\ pc[t] \notin {"idle", "pushed", "swap", "scan", "sweep", "popped", "unprotect"}
        /\ pc'[t] \notin {"idle", "pushed", "swap", "scan", "sweep", "popped", "unprotect"}
    BY <1>2
    DEF IInv, TypeOK, LoadNext, PushRetry, LoadHead, Protect, Recheck, Reload, ReadNext,
        PopRetry
  <2>4. Stage(t)' = Stage(t) /\ Outcome(t)' = Outcome(t)
    BY <2>1, <2>3 DEF Stage, Effected, Outcome
  <2> QED
    BY <1>1, <2>1, <2>2, <2>4, StutterStep
<1>3. CASE Unprotect(t) \/ ReclaimLater(t)
  <2>1. UNCHANGED <<data, val, node>>
    BY <1>3 DEF Unprotect, ReclaimLater
  <2>2. \A u \in Thread \ {t} : Stage(u)' = Stage(u) /\ Outcome(u)' = Outcome(u)
    BY <1>1, <2>1, SameOutcome
  <2>3. \/ pc[t] = "unprotect" /\ pc'[t] = IF node[t] = Null THEN "popped" ELSE "swap"
        \/ pc[t] = "scan" /\ pc'[t] = "sweep"
    BY <1>3 DEF IInv, TypeOK, Unprotect, ReclaimLater
  <2>4. Stage(t)' = Stage(t) /\ Outcome(t)' = Outcome(t)
    BY <1>1, <2>1, <2>3 DEF Stage, Effected, Outcome
  <2> QED
    BY <1>1, <2>1, <2>2, <2>4, StutterStep
<1>4. CASE SwapData(t)
  <2>1. /\ pc[t] = "swap" /\ pc'[t] = "scan" /\ val'[t] = data[node[t]] /\ op[t] = "pop"
        /\ node[t] \in Node /\ node[t] # Null /\ t \in Private
        /\ \A m \in Node \ {node[t]} : data'[m] = data[m]
    BY <1>0, <1>4, StackAssumption DEF IInv, TypeOK, LocalInv, Linking, Detached, SwapData
  <2>2. \A u \in Thread \ {t} : Stage(u)' = Stage(u) /\ Outcome(u)' = Outcome(u)
    BY <1>0, <1>1, <2>1, SameOutcome
  <2>3. Stage(t)' = Stage(t) /\ Outcome(t)' = Outcome(t)
    BY <1>1, <2>1 DEF Stage, Effected, Outcome
  <2>4. \A n \in OnStack : data'[n] = data[n]
    BY <1>0, <2>1
  <2> QED
    BY <1>1, <2>2, <2>3, <2>4, StutterStep
<1>5. CASE DeleteNode(t) \/ DeleteNodes(t)
  <2>1. /\ UNCHANGED <<val, node>>
        /\ \/ pc[t] = "scan" /\ pc'[t] = "sweep"
           \/ pc[t] = "sweep" /\ pc'[t] = "popped"
    BY <1>5 DEF IInv, TypeOK, DeleteNode, DeleteNodes
  <2>2. \A m \in Node : data'[m] = data[m] \/ m \in retired \/ (pc[t] = "scan" /\ m = node[t])
    BY <1>5 DEF DeleteNode, DeleteNodes, Free
  <2>3. \A u \in Private \ {t} : data'[node[u]] = data[node[u]]
    BY <1>0, <2>2 DEF Detached
  <2>4. \A u \in Thread \ {t} : Stage(u)' = Stage(u) /\ Outcome(u)' = Outcome(u)
    BY <1>1, <2>3, SameOutcome
  <2>5. Stage(t)' = Stage(t) /\ Outcome(t)' = Outcome(t)
    BY <1>1, <2>1 DEF Stage, Effected, Outcome
  <2>6. \A n \in OnStack : data'[n] = data[n]
    BY <1>0, <2>2 DEF Detached
  <2> QED
    BY <1>1, <2>4, <2>5, <2>6, StutterStep
<1> QED
  BY <1>2, <1>3, <1>4, <1>5

\* Each step.
LEMMA NextRefines == IInv /\ [Next]_vars => [Lifo!Next]_(Lifo!vars)
<1> SUFFICES ASSUME IInv, [Next]_vars PROVE [Lifo!Next]_(Lifo!vars)
  OBVIOUS
<1>1. ASSUME NEW t \in Thread, Call(t) PROVE Lifo!Next
  BY <1>1, CallPushRefines, CallPopRefines DEF Call, Lifo!Next
<1>2. ASSUME NEW t \in Thread, Proceed(t) PROVE [Lifo!Next]_(Lifo!vars)
  <2>1. CASE PushNode(t)
    BY <2>1, PushNodeRefines DEF Lifo!Next
  <2>2. CASE PopNode(t)
    BY <2>2, PopNodeRefines DEF Lifo!Next
  <2>3. CASE Recheck(t) /\ node[t] = Null
    BY <2>3, EmptyRefines DEF Lifo!Next
  <2>4. CASE PushReturns(t) \/ PopReturns(t)
    BY <2>4, ReturnRefines DEF Lifo!Next
  <2> QED
    BY <1>2, <2>1, <2>2, <2>3, <2>4, StepsStutter DEF Proceed
<1>3. CASE UNCHANGED vars
  <2>1. \A u \in Thread : Stage(u)' = Stage(u) /\ Outcome(u)' = Outcome(u)
    BY <1>3, SameOutcome DEF vars, heap, local
  <2> QED
    BY <1>3, <2>1, StutterStep DEF vars, heap, local
<1> QED
  BY <1>1, <1>2, <1>3 DEF Next

\* Every call takes effect at one instant on a last-in first-out sequence, for
\* any threads, values and addresses, reused as the allocator likes
\* (t_stack.h:16-23 and 81-106).
THEOREM StackIsLifo == Spec => Linearizable
<1>1. Init => Lifo!Init
  BY InitRefines
<1>2. IInv /\ [Next]_vars => [Lifo!Next]_(Lifo!vars)
  BY NextRefines
<1> QED
  BY <1>1, <1>2, Inductive, PTL DEF Spec, Linearizable, Lifo!Spec
-----------------------------------------------------------------------------
(* The sorter *)

Chunk == [items : Nat, end : BOOLEAN, promise : {Lost}]

\* The threads that take a chunk, and those that will start one that does: a
\* chunk has been pushed for each of them.
Owed == {t \in Sorter!Runner : s_pc[t] \in {"pop", "test", "start"}}

OwedInv == Cardinality(Owed) <= Len(chunks)

SorterInv ==
  /\ s_pc \in [Sorter!Runner -> {"unborn", "sort", "test", "start", "store", "get", "pop",
                                 "ended", "stop", "join", "threw", "aborted"}]
  /\ chunks \in Seq(Chunk)
  /\ OwedInv

\* What counting the threads that are owed a chunk comes to when one of them
\* changes its position, or one takes the place of another.
LEMMA OwedFacts ==
  ASSUME IsFiniteSet(Worker)
  PROVE  /\ Cardinality(Owed) \in Nat
         /\ \A t : /\ Cardinality(Owed \cup {t}) \in Nat
                   /\ Cardinality(Owed \cup {t}) <= Cardinality(Owed) + 1
         /\ \A t \in Owed : Cardinality(Owed \ {t}) = Cardinality(Owed) - 1
         /\ \A t \in Owed : \A w :
              /\ Cardinality((Owed \ {t}) \cup {w}) \in Nat
              /\ Cardinality((Owed \ {t}) \cup {w}) <= Cardinality(Owed)
         /\ \A S : S \subseteq Owed => IsFiniteSet(S) /\ Cardinality(S) \in Nat
                                       /\ Cardinality(S) <= Cardinality(Owed)
<1>1. IsFiniteSet(Owed)
  <2>1. IsFiniteSet(Sorter!Runner)
    BY FS_AddElement DEF Sorter!Runner
  <2> QED
    BY <2>1, FS_Subset DEF Owed
<1>2. Cardinality(Owed) \in Nat
  BY <1>1, FS_CardinalityType
<1>3. ASSUME NEW t
      PROVE  /\ Cardinality(Owed \cup {t}) \in Nat
             /\ Cardinality(Owed \cup {t}) <= Cardinality(Owed) + 1
  <2>1. \/ Cardinality(Owed \cup {t}) = Cardinality(Owed)
        \/ Cardinality(Owed \cup {t}) = Cardinality(Owed) + 1
    BY <1>1, FS_AddElement
  <2> QED
    BY <1>2, <2>1
<1>4. ASSUME NEW t \in Owed
      PROVE  /\ IsFiniteSet(Owed \ {t}) /\ Cardinality(Owed \ {t}) \in Nat
             /\ Cardinality(Owed \ {t}) = Cardinality(Owed) - 1
  BY <1>1, FS_RemoveElement, FS_CardinalityType
<1>5. ASSUME NEW t \in Owed, NEW w
      PROVE  /\ Cardinality((Owed \ {t}) \cup {w}) \in Nat
             /\ Cardinality((Owed \ {t}) \cup {w}) <= Cardinality(Owed)
  <2>1. \/ Cardinality((Owed \ {t}) \cup {w}) = Cardinality(Owed \ {t})
        \/ Cardinality((Owed \ {t}) \cup {w}) = Cardinality(Owed \ {t}) + 1
    BY <1>4, FS_AddElement
  <2>2. Cardinality(Owed \ {t}) \in Nat /\ Cardinality(Owed \ {t}) = Cardinality(Owed) - 1
    BY <1>4
  <2> QED
    BY <1>2, <2>1, <2>2
<1>6. ASSUME NEW S, S \subseteq Owed
      PROVE  IsFiniteSet(S) /\ Cardinality(S) \in Nat /\ Cardinality(S) <= Cardinality(Owed)
  BY <1>1, <1>6, FS_Subset, FS_CardinalityType
<1> QED
  BY <1>2, <1>3, <1>4, <1>5, <1>6

\* The start: the caller is the only thread, and has pushed nothing.
LEMMA SorterInit == Sorter!Init => SorterInv
<1> SUFFICES ASSUME Sorter!Init PROVE SorterInv
  OBVIOUS
<1>1. Owed = {}
  BY DEF Sorter!Init, Owed
<1>2. Cardinality(Owed) = 0
  BY <1>1, FS_EmptySet
<1> QED
  BY <1>2, EmptySeq DEF Sorter!Init, SorterInv, OwedInv

\* Each step.
LEMMA SorterStep ==
  ASSUME IsFiniteSet(Worker), SorterInv, [Sorter!Next]_(Sorter!vars)
  PROVE  SorterInv'
<1> USE DEF SorterInv, OwedInv, Sorter!Goto
<1>a. /\ Len(chunks) \in Nat /\ Cardinality(Owed) \in Nat
      /\ \A w \in Worker : w \in Sorter!Runner
  BY OwedFacts DEF Sorter!Runner
<1>b. ASSUME chunks' = chunks, Owed' \subseteq Owed PROVE OwedInv'
  BY <1>a, <1>b, OwedFacts
<1>1. ASSUME NEW t \in Sorter!Runner, NEW lower \in 0..MaxItems, Sorter!Divide(t, lower)
      PROVE  SorterInv'
  <2>1. PICK c \in Chunk : chunks' = <<c>> \o chunks
    <3>1. [items |-> lower, end |-> FALSE, promise |-> Lost] \in Chunk
      BY DEF Chunk
    <3> QED
      BY <1>1, <3>1 DEF Sorter!Divide, Sorter!Copied
  <2>2. chunks' \in Seq(Chunk) /\ Len(chunks') = Len(chunks) + 1
    BY <2>1, ConsFacts
  <2>3. Owed' = Owed \cup {t}
    BY <1>1 DEF Sorter!Divide, Owed
  <2>4. OwedInv'
    <3>1. Cardinality(Owed') \in Nat /\ Cardinality(Owed') <= Cardinality(Owed) + 1
      BY <2>3, <1>a, OwedFacts
    <3> QED
      BY <1>a, <2>2, <3>1
  <2> QED
    BY <1>1, <2>2, <2>4 DEF Sorter!Divide
<1>2. ASSUME NEW t \in Sorter!Runner, Sorter!TestSize(t) PROVE SorterInv'
  <2>1. Owed' \subseteq Owed
    BY <1>2 DEF Sorter!TestSize, Owed
  <2> QED
    BY <1>2, <1>b, <2>1 DEF Sorter!TestSize
<1>3. ASSUME NEW t \in Sorter!Runner, NEW w \in Worker, Sorter!Start(t, w) PROVE SorterInv'
  <2>1. t \in Owed /\ Owed' = (Owed \ {t}) \cup {w}
    BY <1>3, <1>a DEF Sorter!Start, Owed
  <2>2. OwedInv'
    <3>1. Cardinality(Owed') \in Nat /\ Cardinality(Owed') <= Cardinality(Owed)
      BY <2>1, OwedFacts
    <3> QED
      BY <1>3, <1>a, <3>1 DEF Sorter!Start
  <2> QED
    BY <1>3, <1>a, <2>2 DEF Sorter!Start
<1>4. ASSUME NEW t \in Sorter!Runner, Sorter!StoreThread(t) PROVE SorterInv'
  <2>1. Owed' \subseteq Owed
    BY <1>4 DEF Sorter!StoreThread, Owed
  <2> QED
    BY <1>4, <1>b, <2>1 DEF Sorter!StoreThread
<1>5. ASSUME NEW t \in Sorter!Runner, Sorter!StartFails(t) PROVE SorterInv'
  <2>1. Owed' \subseteq Owed
    BY <1>5 DEF Sorter!StartFails, Owed
  <2> QED
    BY <1>5, <1>b, <2>1 DEF Sorter!StartFails
<1>6. ASSUME NEW t \in Sorter!Runner, Sorter!Wait(t) PROVE SorterInv'
  <2>1. Owed' \subseteq Owed
    BY <1>6 DEF Sorter!Wait, Owed
  <2> QED
    BY <1>6, <1>b, <2>1 DEF Sorter!Wait
<1>7. ASSUME NEW w \in Worker, Sorter!PopChunk(w), chunks = <<>> PROVE SorterInv'
  <2>1. Owed' \subseteq Owed
    BY <1>7 DEF Sorter!PopChunk, Owed
  <2> QED
    BY <1>7, <1>b, <2>1 DEF Sorter!PopChunk
<1>8. ASSUME NEW w \in Worker, Sorter!PopChunk(w), chunks # <<>> PROVE SorterInv'
  <2>1. chunks' \in Seq(Chunk) /\ Len(chunks') = Len(chunks) - 1 /\ Len(chunks) > 0
    <3>1. chunks' = Tail(chunks)
      BY <1>8 DEF Sorter!PopChunk
    <3> QED
      BY <1>8, <3>1, TailFacts
  <2>2. w \in Owed /\ Owed' = Owed \ {w}
    BY <1>8, <1>a DEF Sorter!PopChunk, Owed
  <2>3. OwedInv'
    <3>1. Cardinality(Owed') = Cardinality(Owed) - 1
      BY <2>2, OwedFacts
    <3> QED
      BY <1>a, <2>1, <3>1
  <2> QED
    BY <1>8, <1>a, <2>1, <2>3 DEF Sorter!PopChunk, Sorter!Copied
<1>9. ASSUME NEW w \in Worker, Sorter!SetValue(w) PROVE SorterInv'
  <2>1. Owed' \subseteq Owed
    BY <1>9 DEF Sorter!SetValue, Owed
  <2> QED
    BY <1>9, <1>b, <2>1 DEF Sorter!SetValue
<1>10. CASE Sorter!PushEnd
  <2>1. CASE Len(seen[Main]) < Len(threads)
    <3>1. PICK c \in Chunk : chunks' = <<c>> \o chunks
      <4>1. [items |-> 0, end |-> TRUE, promise |-> Lost] \in Chunk
        BY DEF Chunk
      <4> QED
        BY <1>10, <2>1, <4>1 DEF Sorter!PushEnd
    <3>2. chunks' \in Seq(Chunk) /\ Len(chunks') = Len(chunks) + 1
      BY <3>1, ConsFacts
    <3>3. s_pc' = s_pc /\ Owed' = Owed
      BY <1>10, <2>1 DEF Sorter!PushEnd, Owed
    <3>4. OwedInv'
      BY <1>a, <3>2, <3>3
    <3> QED
      BY <1>10, <3>2, <3>3, <3>4 DEF Sorter!PushEnd
  <2>2. CASE ~(Len(seen[Main]) < Len(threads))
    <3>1. Owed' \subseteq Owed
      BY <1>10, <2>2 DEF Sorter!PushEnd, Owed
    <3> QED
      BY <1>10, <1>b, <2>2, <3>1 DEF Sorter!PushEnd
  <2> QED
    BY <2>1, <2>2
<1>11. CASE Sorter!JoinThreads
  <2>1. Owed' \subseteq Owed
    BY <1>11 DEF Sorter!JoinThreads, Owed
  <2> QED
    BY <1>11, <1>b, <2>1 DEF Sorter!JoinThreads
<1>12. CASE UNCHANGED Sorter!vars
  BY <1>12 DEF Sorter!vars, Owed
<1> QED
  BY <1>1, <1>2, <1>3, <1>4, <1>5, <1>6, <1>7, <1>8, <1>9, <1>10, <1>11, <1>12
  DEF Sorter!Next, Sorter!Sort

\* No worker ends the program by popping an empty stack, for any number of
\* threads, any length and any count of cores (chapter_8.h:48 and 72-74).
THEOREM ChunkForEachPop ==
  ASSUME IsFiniteSet(Worker)
  PROVE  Sorter!Spec => []PopFindsChunk
<1>1. ASSUME SorterInv PROVE PopFindsChunk
  <2> DEFINE Popping == {w \in Worker : s_pc[w] = "pop"}
  <2>1. Popping \subseteq Owed
    BY DEF Owed, Sorter!Runner
  <2> HIDE DEF Popping
  <2>2. /\ Cardinality(Popping) \in Nat /\ Cardinality(Owed) \in Nat
        /\ Cardinality(Popping) <= Cardinality(Owed)
    BY <2>1, OwedFacts
  <2>3. Cardinality(Popping) <= Len(chunks)
    BY <1>1, <2>2 DEF SorterInv, OwedInv
  <2> QED
    BY <2>3 DEF Popping, PopFindsChunk, Sorter!PopFindsChunk, Sorter!Cardinality, Cardinality
<1> QED
  BY <1>1, SorterInit, SorterStep, PTL DEF Sorter!Spec
-----------------------------------------------------------------------------
(* The two together *)

\* What is proved of each module holds of the behaviours in which the other
\* is left alone: those the run of Stacks checks.
THEOREM EachIsUsedAlone == StacksSpec => Spec /\ Sorter!Spec
<1>1. StacksInit => Init /\ Sorter!Init
  BY DEF StacksInit
<1>2. [StacksNext]_<<chosen, vars, s_vars>> => [Next]_vars /\ [Sorter!Next]_(Sorter!vars)
  BY DEF StacksNext, s_vars, Sorter!vars
<1> QED
  BY <1>1, <1>2, PTL DEF StacksSpec, Spec, Sorter!Spec
=============================================================================
