---------------------------- MODULE QueuesProofs ----------------------------
(***************************************************************************)
(* Proofs about the queues of t_queue.h, for any threads, values, calls    *)
(* and addresses: t_queue, then thread_queue and final_queue, then the     *)
(* queues for one thread that have a dummy.                                *)
(***************************************************************************)
EXTENDS Queues, SequenceTheorems, FiniteSetTheorems, TLAPS
-----------------------------------------------------------------------------
(* t_queue *)

Pops == {"try_pop", "wait_and_pop"}

\* The call that a thread is in at each position, and its value.
LocalInv ==
  \A t \in Thread :
    /\ pc[t] = "idle" => op[t] = "none" /\ val[t] = Nothing
    /\ pc[t] # "idle" => op[t] \in Ops
    /\ op[t] = "push" => val[t] \in Value
    /\ op[t] \in Pops /\ pc[t] # "unlock" => val[t] = Nothing
    /\ pc[t] = "notify" => op[t] = "push"
    /\ pc[t] = "blocked" => op[t] = "wait_and_pop"

IInv == TypeOK /\ LocalInv /\ NoValueForgotten

Notifying == {t \in Thread : pc[t] = "notify"}

\* The positions of one thread change; the other threads stay.
LEMMA GotoTypes ==
  ASSUME TypeOK, NEW t \in Thread, NEW l, Goto(t, l),
         l \in {"idle", "lock", "access", "notify", "unlock", "blocked"}
  PROVE  /\ pc' \in [Thread -> {"idle", "lock", "access", "notify", "unlock", "blocked"}]
         /\ pc'[t] = l
         /\ \A u \in Thread : u # t => pc'[u] = pc[u]
BY DEF Goto, TypeOK

\* The first value leaves a queue, or one is appended to it.
LEMMA QueueFacts ==
  ASSUME NEW S, NEW q \in Seq(S)
  PROVE  /\ Len(q) \in Nat
         /\ \A e \in S : Append(q, e) \in Seq(S) /\ Len(Append(q, e)) = Len(q) + 1
         /\ q # <<>> => /\ Head(q) \in S /\ Tail(q) \in Seq(S)
                        /\ Len(q) > 0 /\ Len(Tail(q)) = Len(q) - 1
<1>1. Len(q) \in Nat
  BY LenProperties
<1>2. ASSUME q # <<>> PROVE Len(q) > 0
  BY <1>2, EmptySeq
<1> QED
  BY <1>1, <1>2

\* A set of threads that changes by one member changes its size by one.
LEMMA SizeFacts ==
  ASSUME NEW A \in SUBSET Thread, NEW t \in Thread
  PROVE  /\ Cardinality(A) \in Nat
         /\ t \notin A => Cardinality(A \cup {t}) = Cardinality(A) + 1
         /\ t \in A => Cardinality(A \ {t}) = Cardinality(A) - 1
<1>1. IsFiniteSet(A)
  BY CoarseAssumption, FS_Subset
<1> QED
  BY <1>1, FS_CardinalityType, FS_AddElement, FS_RemoveElement
-----------------------------------------------------------------------------
(* No value is forgotten *)

LEMMA Threads ==
  /\ Waiting \in SUBSET Thread /\ Awake \in SUBSET Thread /\ Notifying \in SUBSET Thread
  /\ Waiting' \in SUBSET Thread /\ Awake' \in SUBSET Thread /\ Notifying' \in SUBSET Thread
BY DEF Waiting, Awake, Notifying

\* A step that blocks no thread, adds no value, and takes no thread off the
\* way to the queue.
LEMMA StillEnough ==
  ASSUME TypeOK, NoValueForgotten, data_queue' = data_queue,
         Waiting' \subseteq Waiting, Awake \subseteq Awake', Notifying \subseteq Notifying'
  PROVE  NoValueForgotten'
<1>1. /\ Cardinality(Awake) \in Nat /\ Cardinality(Notifying) \in Nat
      /\ Cardinality(Awake') \in Nat /\ Cardinality(Notifying') \in Nat
  BY Threads, CoarseAssumption, FS_Subset, FS_CardinalityType
<1>2. IsFiniteSet(Awake') /\ IsFiniteSet(Notifying')
  BY Threads, CoarseAssumption, FS_Subset
<1>3. Cardinality(Awake) <= Cardinality(Awake')
  BY <1>2, FS_Subset
<1>4. Cardinality(Notifying) <= Cardinality(Notifying')
  BY <1>2, FS_Subset
<1>5. Len(data_queue) \in Nat
  BY LenProperties DEF TypeOK
<1>6. Waiting' # {} => Len(data_queue) <= Cardinality(Awake) + Cardinality(Notifying)
  BY DEF NoValueForgotten, Notifying
<1>7. Waiting' # {} => Len(data_queue') <= Cardinality(Awake') + Cardinality(Notifying')
  BY <1>1, <1>3, <1>4, <1>5, <1>6
<1> QED
  BY <1>7 DEF NoValueForgotten, Notifying

\* A push adds a value, and is about to notify.
LEMMA PushEnough ==
  ASSUME IInv, NEW t \in Thread, Push(t)
  PROVE  NoValueForgotten'
<1>1. /\ Waiting' = Waiting /\ Awake' = Awake
      /\ Notifying' = Notifying \cup {t} /\ t \notin Notifying
  BY DEF Push, Goto, IInv, TypeOK, Waiting, Awake, Notifying
<1>2. /\ Cardinality(Awake) \in Nat /\ Cardinality(Notifying) \in Nat
      /\ Cardinality(Notifying') = Cardinality(Notifying) + 1
  BY <1>1, Threads, SizeFacts
<1>3. Len(data_queue) \in Nat /\ Len(data_queue') = Len(data_queue) + 1
  BY QueueFacts DEF Push, IInv, TypeOK, LocalInv
<1>4. Waiting # {} => Len(data_queue) <= Cardinality(Awake) + Cardinality(Notifying)
  BY DEF IInv, NoValueForgotten, Notifying
<1>5. Waiting' # {} => Len(data_queue') <= Cardinality(Awake') + Cardinality(Notifying')
  BY <1>1, <1>2, <1>3, <1>4
<1> QED
  BY <1>5 DEF NoValueForgotten, Notifying

\* A notification puts one thread on the way to the value, for the push that
\* leaves.
LEMMA NotifyEnough ==
  ASSUME IInv, NEW t \in Thread, NotifyOne(t)
  PROVE  NoValueForgotten'
<1>1. CASE Waiting = {} /\ Goto(t, "unlock")
  <2>1. Waiting' = {}
    BY <1>1 DEF NotifyOne, Goto, IInv, TypeOK, Waiting
  <2> QED
    BY <2>1 DEF NoValueForgotten
<1>2. ASSUME NEW w \in Waiting, pc' = [pc EXCEPT ![t] = "unlock", ![w] = "lock"]
      PROVE  NoValueForgotten'
  <2>1. /\ pc[t] = "notify" /\ pc[w] = "blocked" /\ w \in Thread /\ w # t
        /\ op[w] = "wait_and_pop" /\ UNCHANGED <<data_queue, op>>
    BY <1>2 DEF NotifyOne, Waiting, IInv, LocalInv
  <2>2. \A u \in Thread :
          pc'[u] = IF u = w THEN "lock" ELSE IF u = t THEN "unlock" ELSE pc[u]
    BY <1>2, <2>1 DEF IInv, TypeOK
  <2>3. /\ Waiting' \subseteq Waiting /\ Awake' = Awake \cup {w} /\ w \notin Awake
        /\ Notifying' = Notifying \ {t} /\ t \in Notifying
    BY <2>1, <2>2 DEF Waiting, Awake, Notifying, IInv, LocalInv
  <2>4. /\ Cardinality(Awake) \in Nat /\ Cardinality(Notifying) \in Nat
        /\ Cardinality(Notifying') = Cardinality(Notifying) - 1
        /\ Cardinality(Awake') = Cardinality(Awake) + 1
    BY <2>1, <2>3, Threads, SizeFacts
  <2>5. Len(data_queue) \in Nat
    BY LenProperties DEF IInv, TypeOK
  <2>6. Waiting' # {} => Len(data_queue) <= Cardinality(Awake) + Cardinality(Notifying)
    BY <2>3 DEF IInv, NoValueForgotten, Notifying
  <2>7. Waiting' # {} => Len(data_queue') <= Cardinality(Awake') + Cardinality(Notifying')
    BY <2>1, <2>4, <2>5, <2>6
  <2> QED
    BY <2>7 DEF NoValueForgotten, Notifying
<1> QED
  BY <1>1, <1>2 DEF NotifyOne

\* A pop takes a value, and itself off the way to one.
LEMMA TakeEnough ==
  ASSUME IInv, NEW t \in Thread, Take(t)
  PROVE  NoValueForgotten'
<1>1. /\ Waiting' = Waiting /\ Awake' = Awake \ {t} /\ Notifying' = Notifying
  BY DEF Take, Goto, IInv, TypeOK, Waiting, Awake, Notifying
<1>2. /\ Cardinality(Awake) \in Nat /\ Cardinality(Notifying) \in Nat
      /\ Cardinality(Awake') >= Cardinality(Awake) - 1
      /\ Cardinality(Awake') \in Nat
  <2>1. /\ Cardinality(Awake) \in Nat /\ Cardinality(Notifying) \in Nat
        /\ Cardinality(Awake') \in Nat
    BY Threads, CoarseAssumption, FS_Subset, FS_CardinalityType
  <2>2. t \in Awake => Cardinality(Awake') = Cardinality(Awake) - 1
    BY <1>1, Threads, SizeFacts
  <2>3. t \notin Awake => Awake' = Awake
    BY <1>1
  <2> QED
    BY <2>1, <2>2, <2>3
<1>3. /\ Len(data_queue) \in Nat /\ Len(data_queue) > 0
      /\ Len(data_queue') = Len(data_queue) - 1
  BY QueueFacts DEF Take, IInv, TypeOK
<1>4. Waiting # {} => Len(data_queue) <= Cardinality(Awake) + Cardinality(Notifying)
  BY DEF IInv, NoValueForgotten, Notifying
<1>5. Waiting' # {} => Len(data_queue') <= Cardinality(Awake') + Cardinality(Notifying')
  BY <1>1, <1>2, <1>3, <1>4
<1> QED
  BY <1>5 DEF NoValueForgotten, Notifying

\* A pop waits only when there is nothing to forget.
LEMMA SleepEnough ==
  ASSUME IInv, NEW t \in Thread, Sleep(t)
  PROVE  NoValueForgotten'
<1>1. Len(data_queue') = 0
  BY EmptySeq DEF Sleep
<1>2. Cardinality(Awake') \in Nat /\ Cardinality(Notifying') \in Nat
  BY Threads, CoarseAssumption, FS_Subset, FS_CardinalityType
<1>3. Len(data_queue') <= Cardinality(Awake') + Cardinality(Notifying')
  BY <1>1, <1>2
<1> QED
  BY <1>3 DEF NoValueForgotten, Notifying
-----------------------------------------------------------------------------
(* Types and calls *)

\* The start.
LEMMA InitInv == Init => IInv
<1> SUFFICES ASSUME Init PROVE IInv
  OBVIOUS
<1>1. TypeOK
  BY EmptySeq, CoarseAssumption DEF Init, TypeOK
<1>2. LocalInv
  BY DEF Init, LocalInv, Pops
<1>3. NoValueForgotten
  BY DEF Init, NoValueForgotten, Waiting
<1> QED
  BY <1>1, <1>2, <1>3 DEF IInv

\* A thread calls an operation.
LEMMA CallInv ==
  ASSUME IInv, NEW t \in Thread, NEW o \in Ops, NEW v \in Value \cup {Nothing},
         Call(t, o, v)
  PROVE  IInv'
<1>1. TypeOK'
  BY CoarseAssumption DEF IInv, TypeOK, Call, Goto
<1>2. LocalInv'
  BY CoarseAssumption DEF IInv, TypeOK, LocalInv, Call, Goto, Pops, Ops
<1>3. Waiting' \subseteq Waiting /\ Awake \subseteq Awake' /\ Notifying \subseteq Notifying'
  BY DEF IInv, TypeOK, LocalInv, Call, Goto, Waiting, Awake, Notifying
<1> QED
  BY <1>1, <1>2, <1>3, StillEnough DEF IInv, Call

\* A thread gets the mutex, or wakes up unnotified.
LEMMA LockInv ==
  ASSUME IInv, NEW t \in Thread, Lock(t) \/ SpuriousWake(t)
  PROVE  IInv'
<1>1. TypeOK'
  BY CoarseAssumption DEF IInv, TypeOK, Lock, SpuriousWake, Waiting, Goto
<1>2. LocalInv'
  BY DEF IInv, TypeOK, LocalInv, Lock, SpuriousWake, Waiting, Goto
<1>3. Waiting' \subseteq Waiting /\ Awake \subseteq Awake' /\ Notifying \subseteq Notifying'
  BY DEF IInv, TypeOK, LocalInv, Lock, SpuriousWake, Goto, Waiting, Awake, Notifying
<1> QED
  BY <1>1, <1>2, <1>3, StillEnough DEF IInv, Lock, SpuriousWake

LEMMA PushInv ==
  ASSUME IInv, NEW t \in Thread, Push(t)
  PROVE  IInv'
<1>1. data_queue' \in Seq(Value)
  BY QueueFacts DEF IInv, TypeOK, LocalInv, Push
<1>2. TypeOK'
  BY <1>1 DEF IInv, TypeOK, Push, Goto
<1>3. LocalInv'
  BY DEF IInv, TypeOK, LocalInv, Push, Goto, Pops
<1> QED
  BY <1>2, <1>3, PushEnough DEF IInv

LEMMA NotifyInv ==
  ASSUME IInv, NEW t \in Thread, NotifyOne(t)
  PROVE  IInv'
<1>1. \A u \in Thread :
        \/ pc'[u] = pc[u] /\ u # t
        \/ pc'[u] = "unlock" /\ u = t
        \/ pc'[u] = "lock" /\ pc[u] = "blocked"
  BY DEF IInv, TypeOK, NotifyOne, Goto, Waiting
<1>2. pc[t] = "notify" /\ UNCHANGED <<mut, data_queue, op, val>>
  BY DEF NotifyOne
<1>3. pc' \in [Thread -> {"idle", "lock", "access", "notify", "unlock", "blocked"}]
  BY DEF IInv, TypeOK, NotifyOne, Goto, Waiting
<1>4. TypeOK'
  BY <1>1, <1>2, <1>3 DEF IInv, TypeOK
<1>5. LocalInv'
  BY <1>1, <1>2 DEF IInv, LocalInv, Pops
<1> QED
  BY <1>4, <1>5, NotifyEnough DEF IInv

LEMMA TakeInv ==
  ASSUME IInv, NEW t \in Thread, Take(t)
  PROVE  IInv'
<1>1. data_queue' \in Seq(Value) /\ Head(data_queue) \in Value
  BY QueueFacts DEF IInv, TypeOK, Take
<1>2. TypeOK'
  BY <1>1 DEF IInv, TypeOK, Take, Goto
<1>3. LocalInv'
  BY DEF IInv, TypeOK, LocalInv, Take, Goto, Pops
<1> QED
  BY <1>2, <1>3, TakeEnough DEF IInv

LEMMA SleepInv ==
  ASSUME IInv, NEW t \in Thread, Sleep(t)
  PROVE  IInv'
<1>1. TypeOK'
  BY CoarseAssumption DEF IInv, TypeOK, Sleep, Goto
<1>2. LocalInv'
  BY DEF IInv, TypeOK, LocalInv, Sleep, Goto, Pops
<1> QED
  BY <1>1, <1>2, SleepEnough DEF IInv

\* A try_pop finds the queue empty, or a call returns.
LEMMA LeaveInv ==
  ASSUME IInv, NEW t \in Thread, GiveUp(t) \/ Return(t)
  PROVE  IInv'
<1>1. TypeOK'
  BY CoarseAssumption DEF IInv, TypeOK, GiveUp, Return, Goto
<1>2. LocalInv'
  BY DEF IInv, TypeOK, LocalInv, GiveUp, Return, Goto, Pops
<1>3. Waiting' \subseteq Waiting /\ Awake \subseteq Awake' /\ Notifying \subseteq Notifying'
  BY DEF IInv, TypeOK, LocalInv, GiveUp, Return, Goto, Waiting, Awake, Notifying
<1> QED
  BY <1>1, <1>2, <1>3, StillEnough DEF IInv, GiveUp, Return

\* Each step.
LEMMA StepInv == IInv /\ [Next]_vars => IInv'
<1> SUFFICES ASSUME IInv, [Next]_vars PROVE IInv'
  OBVIOUS
<1>1. CASE UNCHANGED vars
  <2>1. TypeOK' /\ LocalInv'
    BY <1>1 DEF vars, IInv, TypeOK, LocalInv
  <2>2. Waiting' = Waiting /\ Awake' = Awake /\ Notifying' = Notifying
    BY <1>1 DEF vars, Waiting, Awake, Notifying
  <2> QED
    BY <1>1, <2>1, <2>2, StillEnough DEF vars, IInv
<1> QED
  BY <1>1, CallInv, LockInv, PushInv, NotifyInv, TakeInv, SleepInv, LeaveInv
  DEF Next, Proceed

\* The invariant that the theorems rest on.
THEOREM Inductive == Spec => []IInv
BY InitInv, StepInv, PTL DEF Spec

\* While a thread is blocked, somebody is on the way to every value: no
\* notification is lost, for any threads and values (t_queue.h:16-20, 40-47).
THEOREM NoneForgotten == Spec => []NoValueForgotten
<1>1. IInv => NoValueForgotten
  BY DEF IInv
<1> QED
  BY Inductive, <1>1, PTL
-----------------------------------------------------------------------------
(* t_queue implements FifoQueue *)

Stage(t) == CASE pc[t] = "idle" -> "idle"
              [] pc[t] \in {"notify", "unlock"} -> "done"
              [] OTHER -> "open"

Abstract == [t \in Thread |-> [stage |-> Stage(t), op |-> op[t], val |-> val[t]]]

\* What Fifo sees of a step of one thread.
LEMMA AbstractStep ==
  ASSUME NEW t \in Thread,
         \A u \in Thread : u # t => Stage(u)' = Stage(u) /\ op'[u] = op[u] /\ val'[u] = val[u]
  PROVE  Abstract' = [Abstract EXCEPT ![t] =
                        [stage |-> Stage(t)', op |-> op'[t], val |-> val'[t]]]
BY DEF Abstract

\* A step that moves threads between positions of the same stage.
LEMMA StutterStep ==
  ASSUME UNCHANGED <<data_queue, op, val>>, \A t \in Thread : Stage(t)' = Stage(t)
  PROVE  UNCHANGED Fifo!vars
<1>1. Abstract' = Abstract
  BY DEF Abstract
<1> QED
  BY <1>1 DEF Fifo!vars, Abstract, Stage

\* The start.
LEMMA InitRefines == Init => Fifo!Init
BY DEF Init, Fifo!Init, Fifo!NoCall

LEMMA CallRefines ==
  ASSUME IInv, NEW t \in Thread, NEW o \in Ops, NEW v \in Value \cup {Nothing},
         Call(t, o, v)
  PROVE  Fifo!Invoke(t, o, v)
<1>1. /\ pc[t] = "idle" /\ o \in Calls[t] /\ data_queue' = data_queue
      /\ v \in IF o = "push" THEN Value ELSE {Nothing}
      /\ \A u \in Thread : pc'[u] = IF u = t THEN "lock" ELSE pc[u]
      /\ \A u \in Thread : op'[u] = IF u = t THEN o ELSE op[u]
      /\ \A u \in Thread : val'[u] = IF u = t THEN v ELSE val[u]
  BY DEF IInv, TypeOK, Call, Goto
<1>2. Abstract' = [Abstract EXCEPT ![t] = [stage |-> "open", op |-> o, val |-> v]]
  BY <1>1, AbstractStep DEF Stage
<1>3. Abstract[t].stage = "idle"
  BY <1>1 DEF Abstract, Stage
<1>4. v \in IF o \in Fifo!PushOps THEN Value ELSE {Nothing}
  BY <1>1 DEF Fifo!PushOps, Ops
<1> QED
  BY <1>1, <1>2, <1>3, <1>4 DEF Fifo!Invoke, Abstract, Stage

\* A push, or a pop that finds something or nothing, takes effect as it has
\* the mutex.
LEMMA EffectStep ==
  ASSUME IInv, NEW t \in Thread, NEW v, NEW l \in {"notify", "unlock"},
         pc[t] = "access", Goto(t, l), op' = op,
         val' = [val EXCEPT ![t] = v]
  PROVE  /\ Abstract[t].stage = "open" /\ Abstract[t].op = op[t] /\ Abstract[t].val = val[t]
         /\ Abstract' = [Abstract EXCEPT ![t] = [stage |-> "done", op |-> @.op, val |-> v]]
<1>1. /\ \A u \in Thread : pc'[u] = IF u = t THEN l ELSE pc[u]
      /\ \A u \in Thread : val'[u] = IF u = t THEN v ELSE val[u]
  BY DEF IInv, TypeOK, Goto
<1>2. Abstract[t].stage = "open" /\ Abstract[t].op = op[t] /\ Abstract[t].val = val[t]
  BY DEF Abstract, Stage
<1>3. Abstract' = [Abstract EXCEPT ![t] = [stage |-> "done", op |-> op[t], val |-> v]]
  BY <1>1, AbstractStep DEF Stage
<1> QED
  BY <1>2, <1>3

LEMMA PushRefines ==
  ASSUME IInv, NEW t \in Thread, Push(t)
  PROVE  Fifo!Enqueue(t)
<1>1. val' = [val EXCEPT ![t] = val[t]]
  BY DEF IInv, TypeOK, Push
<1>2. /\ Abstract[t].stage = "open" /\ Abstract[t].op = op[t] /\ Abstract[t].val = val[t]
      /\ Abstract' = [Abstract EXCEPT ![t] = [stage |-> "done", op |-> @.op, val |-> val[t]]]
  BY <1>1, EffectStep DEF Push
<1>3. op[t] = "push" /\ data_queue' = Append(data_queue, val[t])
  BY DEF Push
<1> QED
  BY <1>2, <1>3 DEF Fifo!Enqueue, Fifo!Finish, Fifo!PushOps, Abstract, Stage

LEMMA TakeRefines ==
  ASSUME IInv, NEW t \in Thread, Take(t)
  PROVE  Fifo!Dequeue(t)
<1>1. /\ Abstract[t].stage = "open" /\ Abstract[t].op = op[t]
      /\ Abstract' = [Abstract EXCEPT ![t] =
                        [stage |-> "done", op |-> @.op, val |-> Head(data_queue)]]
  BY EffectStep DEF Take
<1>2. op[t] \in Pops /\ data_queue # <<>> /\ data_queue' = Tail(data_queue)
  BY DEF Take, Pops
<1> QED
  BY <1>1, <1>2
  DEF Fifo!Dequeue, Fifo!Finish, Fifo!TryOps, Fifo!WaitOps, Pops, Abstract, Stage

LEMMA GiveUpRefines ==
  ASSUME IInv, NEW t \in Thread, GiveUp(t)
  PROVE  Fifo!FindEmpty(t)
<1>1. val[t] = Nothing /\ val' = [val EXCEPT ![t] = Nothing]
  BY DEF IInv, TypeOK, LocalInv, Pops, GiveUp
<1>2. /\ Abstract[t].stage = "open" /\ Abstract[t].op = op[t]
      /\ Abstract' = [Abstract EXCEPT ![t] = [stage |-> "done", op |-> @.op, val |-> Nothing]]
  BY <1>1, EffectStep DEF GiveUp
<1>3. op[t] = "try_pop" /\ data_queue = <<>> /\ data_queue' = data_queue
  BY DEF GiveUp
<1> QED
  BY <1>2, <1>3 DEF Fifo!FindEmpty, Fifo!Finish, Fifo!TryOps, Abstract, Stage

LEMMA ReturnRefines ==
  ASSUME IInv, NEW t \in Thread, Return(t)
  PROVE  Fifo!Return(t)
<1>1. /\ pc[t] = "unlock" /\ data_queue' = data_queue
      /\ \A u \in Thread : pc'[u] = IF u = t THEN "idle" ELSE pc[u]
      /\ \A u \in Thread : op'[u] = IF u = t THEN "none" ELSE op[u]
      /\ \A u \in Thread : val'[u] = IF u = t THEN Nothing ELSE val[u]
  BY DEF IInv, TypeOK, Return, Goto
<1>2. Abstract' = [Abstract EXCEPT ![t] = [stage |-> "idle", op |-> "none", val |-> Nothing]]
  BY <1>1, AbstractStep DEF Stage
<1>3. Abstract[t].stage = "done"
  BY <1>1 DEF Abstract, Stage
<1> QED
  BY <1>1, <1>2, <1>3 DEF Fifo!Return, Fifo!NoCall, Abstract, Stage

\* Each step.
LEMMA NextRefines == IInv /\ [Next]_vars => [Fifo!Next]_(Fifo!vars)
<1> SUFFICES ASSUME IInv, [Next]_vars PROVE [Fifo!Next]_(Fifo!vars)
  OBVIOUS
<1>1. ASSUME NEW t \in Thread, NEW o \in Ops, NEW v \in Value \cup {Nothing}, Call(t, o, v)
      PROVE  Fifo!Next
  <2>1. Fifo!Invoke(t, o, v) /\ o \in Fifo!Ops
    BY <1>1, CallRefines DEF Ops, Fifo!Ops, Fifo!PushOps, Fifo!TryOps, Fifo!WaitOps
  <2> QED
    BY <2>1 DEF Fifo!Next
<1>2. ASSUME NEW t \in Thread, Push(t) PROVE Fifo!Next
  BY <1>2, PushRefines DEF Fifo!Next
<1>3. ASSUME NEW t \in Thread, Take(t) PROVE Fifo!Next
  BY <1>3, TakeRefines DEF Fifo!Next
<1>4. ASSUME NEW t \in Thread, GiveUp(t) PROVE Fifo!Next
  BY <1>4, GiveUpRefines DEF Fifo!Next
<1>5. ASSUME NEW t \in Thread, Return(t) PROVE Fifo!Next
  BY <1>5, ReturnRefines DEF Fifo!Next
<1>6. ASSUME NEW t \in Thread, Lock(t) \/ Sleep(t) \/ SpuriousWake(t) PROVE UNCHANGED Fifo!vars
  <2>1. \A u \in Thread : Stage(u)' = Stage(u)
    BY <1>6 DEF IInv, TypeOK, Lock, Sleep, SpuriousWake, Waiting, Goto, Stage
  <2> QED
    BY <1>6, <2>1, StutterStep DEF Lock, Sleep, SpuriousWake
<1>7. ASSUME NEW t \in Thread, NotifyOne(t) PROVE UNCHANGED Fifo!vars
  <2>1. \A u \in Thread :
          \/ pc'[u] = pc[u]
          \/ pc'[u] = "unlock" /\ pc[u] = "notify"
          \/ pc'[u] = "lock" /\ pc[u] = "blocked"
    BY <1>7 DEF IInv, TypeOK, NotifyOne, Goto, Waiting
  <2>2. \A u \in Thread : Stage(u)' = Stage(u)
    BY <2>1 DEF Stage
  <2> QED
    BY <1>7, <2>2, StutterStep DEF NotifyOne
<1>8. CASE UNCHANGED vars
  <2>1. \A u \in Thread : Stage(u)' = Stage(u)
    BY <1>8 DEF vars, Stage
  <2> QED
    BY <1>8, <2>1, StutterStep DEF vars
<1> QED
  BY <1>1, <1>2, <1>3, <1>4, <1>5, <1>6, <1>7, <1>8 DEF Next, Proceed

\* Every call of t_queue takes effect at one instant on a first-in first-out
\* sequence, for any threads, values and calls (t_queue.h:16-57).
THEOREM CoarseQueueIsFifo == Spec => Linearizable
BY InitRefines, NextRefines, Inductive, PTL DEF Spec, Linearizable, Fifo!Spec
-----------------------------------------------------------------------------
(* final_queue: nodes and positions *)

Address  == Node \cup {NoNode}
Position == {"idle", "link", "next", "move", "notify", "return", "lock", "get_tail", "test",
             "pop", "blocked", "free"}
PopOps   == Final!TryOps \cup Final!WaitOps

\* The nodes before the dummy, and the threads with a node of their own: a
\* push until it moves tail to it, a pop after it has taken it off.
Linked == {chain[i] : i \in 1..Len(chain)}
Owning == {t \in Thread : f_pc[t] \in {"link", "next", "move", "free"}}

\* Every variable keeps its type.
FinalTypes ==
  /\ head \in Node /\ tail \in Node /\ chain \in Seq(Node)
  /\ next \in [Node -> Address] /\ data \in [Node -> Value \cup {Nothing}]
  /\ live \in SUBSET Node
  /\ head_mutex \in Thread \cup {NoThread} /\ tail_mutex \in Thread \cup {NoThread}
  /\ f_pc \in [Thread -> Position] /\ f_op \in [Thread -> Final!Ops \cup {"none"}]
  /\ ptr \in [Thread -> Address] /\ seen \in [Thread -> Address]
  /\ f_val \in [Thread -> Value \cup {Nothing}]

\* The call a thread is in at each position, and its locals; a pop between
\* the lock and the unlock owns head_mutex, and has read a tail that is still
\* in the list.
FinalLocals ==
  \A t \in Thread :
    /\ f_pc[t] = "idle" => f_op[t] = "none" /\ f_val[t] = Nothing
    /\ f_pc[t] \in {"link", "next", "move", "notify", "return"} => f_op[t] \in Final!PushOps
    /\ f_pc[t] \in {"lock", "get_tail", "test"} => f_op[t] \in PopOps /\ f_val[t] = Nothing
    /\ f_pc[t] = "blocked" => f_op[t] \in Final!WaitOps /\ f_val[t] = Nothing
    /\ f_pc[t] \in {"pop", "free"} => f_op[t] \in PopOps
    /\ f_pc[t] \in {"get_tail", "test", "pop"} => head_mutex = t
    /\ f_pc[t] = "test" => seen[t] \in Linked \cup {tail}
    /\ t \in Owning => ptr[t] \in Node

\* A push owns tail_mutex while it fills the dummy, and a pop that has found
\* a value takes it from the first node, which is not the one being filled.
FinalFilling ==
  \A t \in Thread :
    /\ f_pc[t] \in {"next", "move"} => tail_mutex = t /\ data[tail] = f_val[t]
    /\ f_pc[t] = "move" => next[tail] = ptr[t]
    /\ f_pc[t] = "pop" =>
         /\ chain # <<>>
         /\ f_val[t] = IF f_op[t] \in Final!RefOps THEN data[head] ELSE Nothing

\* The next pointers lead from head along the chain to the dummy.
FinalList ==
  /\ head = IF chain = <<>> THEN tail ELSE chain[1]
  /\ \A i \in 1..Len(chain) :
       /\ next[chain[i]] = IF i = Len(chain) THEN tail ELSE chain[i + 1]
       /\ chain[i] # tail
       /\ \A j \in 1..Len(chain) : chain[i] = chain[j] => i = j

\* A node is in the list or belongs to one thread.
FinalOwners ==
  /\ Linked \cup {tail} \subseteq live
  /\ \A t \in Owning :
       /\ ptr[t] \in live \ (Linked \cup {tail})
       /\ \A u \in Owning \ {t} : ptr[t] # ptr[u]

FinalInv == FinalTypes /\ FinalLocals /\ FinalFilling /\ FinalList /\ FinalOwners
-----------------------------------------------------------------------------
(* Sequences, and what the invariant says of the nodes *)

\* One element is put behind the others.
LEMMA AppendFacts ==
  ASSUME NEW S, NEW s \in Seq(S), NEW e \in S
  PROVE  /\ Append(s, e) \in Seq(S)
         /\ Len(s) \in Nat /\ Len(Append(s, e)) = Len(s) + 1
         /\ \A i \in 1..Len(s) : Append(s, e)[i] = s[i]
         /\ Append(s, e)[Len(s) + 1] = e
  OBVIOUS

\* The first node is dropped.
LEMMA DropFacts ==
  ASSUME NEW S, NEW s \in Seq(S), s # <<>>
  PROVE  /\ Len(s) \in Nat \ {0}
         /\ SubSeq(s, 2, Len(s)) \in Seq(S)
         /\ Len(SubSeq(s, 2, Len(s))) = Len(s) - 1
         /\ \A i \in 1..(Len(s) - 1) : SubSeq(s, 2, Len(s))[i] = s[i + 1]
<1>1. Len(s) \in Nat /\ Len(s) >= 1
  BY LenProperties, EmptySeq
<1>2. \A i \in 2..Len(s) : s[i] \in S
  BY <1>1
<1>3. /\ SubSeq(s, 2, Len(s)) \in Seq(S)
      /\ Len(SubSeq(s, 2, Len(s))) = IF 2 <= Len(s) THEN Len(s) - 2 + 1 ELSE 0
      /\ \A i \in 1..(Len(s) - 2 + 1) : SubSeq(s, 2, Len(s))[i] = s[2 + i - 1]
  BY <1>1, <1>2, SubSeqProperties
<1>4. ASSUME NEW i \in 1..(Len(s) - 1) PROVE SubSeq(s, 2, Len(s))[i] = s[i + 1]
  <2>1. i \in 1..(Len(s) - 2 + 1) /\ 2 + i - 1 = i + 1
    BY <1>1
  <2> QED
    BY <1>3, <2>1
<1>5. Len(SubSeq(s, 2, Len(s))) = Len(s) - 1
  <2>1. CASE Len(s) = 1
    BY <1>3, <2>1
  <2>2. CASE Len(s) # 1
    <3>1. \A n \in Nat : n >= 1 /\ n # 1 => 2 <= n /\ n - 2 + 1 = n - 1
      OBVIOUS
    <3>2. 2 <= Len(s) /\ Len(s) - 2 + 1 = Len(s) - 1
      BY <1>1, <2>2, <3>1
    <3> QED
      BY <1>3, <3>2
  <2> QED
    BY <2>1, <2>2
<1> QED
  BY <1>1, <1>3, <1>4, <1>5

\* What the invariant says of the nodes.
LEMMA NodeFacts ==
  ASSUME FinalInv
  PROVE  /\ Linked \subseteq Node /\ Linked \subseteq live /\ tail \in live \ Linked
         /\ \A t \in Owning : ptr[t] \in live \ (Linked \cup {tail}) /\ ptr[t] \in Node
         /\ \A t, u \in Owning : ptr[t] = ptr[u] => t = u
         /\ head = tail <=> chain = <<>>
         /\ chain # <<>> => head = chain[1] /\ head \in Linked
<1> USE DEF FinalInv
<1>1. /\ Len(chain) \in Nat /\ \A i \in 1..Len(chain) : chain[i] \in Node
      /\ chain # <<>> => 1 \in 1..Len(chain)
  BY EmptySeq DEF FinalTypes
<1>2. Linked \subseteq Node /\ Linked \subseteq live /\ tail \in live \ Linked
  BY <1>1 DEF Linked, FinalOwners, FinalList
<1>3. \A t \in Owning : ptr[t] \in live \ (Linked \cup {tail}) /\ ptr[t] \in Node
  BY DEF FinalOwners, FinalLocals, Owning
<1>4. \A t, u \in Owning : ptr[t] = ptr[u] => t = u
  BY DEF FinalOwners
<1>5. head = tail <=> chain = <<>>
  BY <1>1 DEF FinalList
<1>6. chain # <<>> => head = chain[1] /\ head \in Linked
  BY <1>1 DEF FinalList, Linked
<1> QED
  BY <1>2, <1>3, <1>4, <1>5, <1>6

\* A step that leaves the list, its nodes and its pointers alone.
LEMMA SameList ==
  ASSUME FinalList, UNCHANGED <<head, tail, chain>>, \A n \in Linked : next'[n] = next[n]
  PROVE  FinalList' /\ Linked' = Linked
<1>1. Linked' = Linked
  BY DEF Linked
<1>2. \A i \in 1..Len(chain) : next'[chain[i]] = next[chain[i]]
  BY DEF Linked
<1> QED
  BY <1>1, <1>2 DEF FinalList

\* A step that gives no thread a node.
LEMMA SameOwners ==
  ASSUME FinalOwners, UNCHANGED <<live, tail>>, Linked' = Linked, Owning' \subseteq Owning,
         \A t \in Owning' : ptr'[t] = ptr[t]
  PROVE  FinalOwners'
  BY DEF FinalOwners
\* A step of t that fills nothing, and leaves the list and its nodes alone.
LEMMA SameFilling ==
  ASSUME FinalInv, UNCHANGED <<head, tail, chain>>,
         \A n \in Linked \cup {tail} : next'[n] = next[n] /\ data'[n] = data[n],
         NEW t \in Thread, f_pc'[t] \notin {"next", "move", "pop"},
         \A u \in Thread \ {t} :
           /\ f_pc'[u] \in {"next", "move", "pop"} => f_pc'[u] = f_pc[u]
           /\ f_op'[u] = f_op[u] /\ f_val'[u] = f_val[u] /\ ptr'[u] = ptr[u],
         \A u \in Thread : f_pc'[u] \in {"next", "move"} => tail_mutex' = tail_mutex
  PROVE  FinalFilling'
<1>1. \A u \in Thread : f_pc[u] = "pop" => head \in Linked
  BY NodeFacts DEF FinalInv, FinalFilling
<1> QED
  BY <1>1 DEF FinalInv, FinalFilling
-----------------------------------------------------------------------------
LEMMA FinalInit == Final!Init => FinalInv
<1> SUFFICES ASSUME Final!Init PROVE FinalInv
  OBVIOUS
<1>1. chain = <<>> /\ Len(chain) = 0 /\ Linked = {}
  BY EmptySeq DEF Final!Init, Linked
<1>2. FinalTypes
  BY <1>1, EmptySeq DEF Final!Init, FinalTypes, Address, Position
<1>3. FinalLocals
  BY DEF Final!Init, FinalLocals, Owning
<1>4. FinalList
  BY <1>1 DEF Final!Init, FinalList
<1>5. FinalOwners
  BY <1>1 DEF Final!Init, FinalOwners, Owning
<1>6. FinalFilling
  BY DEF Final!Init, FinalFilling
<1> QED
  BY <1>2, <1>3, <1>4, <1>5, <1>6 DEF FinalInv

\* A new node is in no list, and belongs to no other thread.
LEMMA CallPushKeeps ==
  ASSUME FinalInv, NEW t \in Thread, NEW o \in Final!PushOps, NEW v \in Value, NEW n \in Node,
         Final!CallPush(t, o, v, n)
  PROVE  FinalInv'
<1> USE DEF FinalInv, Final!CallPush, Final!Goto, Final!mutex
<1>1. FinalTypes'
  BY DEF FinalTypes, Address, Position, Final!Ops
<1>2. FinalList' /\ Linked' = Linked
  BY NodeFacts, SameList DEF FinalTypes
<1>3. Owning' = Owning \cup {t} /\ t \notin Owning
  BY DEF FinalTypes, Owning
<1>4. FinalLocals'
  BY <1>2, <1>3 DEF FinalTypes, FinalLocals, Final!PushOps, PopOps, Final!TryOps, Final!WaitOps
<1>5. FinalOwners'
  <2>1. ptr'[t] = n /\ \A u \in Owning : ptr'[u] = ptr[u] /\ ptr[u] # n
    BY <1>3, NodeFacts DEF FinalTypes
  <2> QED
    BY <1>2, <1>3, <2>1, NodeFacts DEF FinalOwners
<1>6. FinalFilling'
  <2>1. \A m \in Linked \cup {tail} : m # n
    BY NodeFacts
  <2>2. \A u \in Thread \ {t} : f_pc'[u] = f_pc[u] /\ f_op'[u] = f_op[u]
                               /\ f_val'[u] = f_val[u] /\ ptr'[u] = ptr[u]
    BY DEF FinalTypes
  <2>3. f_pc'[t] = "link"
    BY DEF FinalTypes
  <2>4. \A m \in Linked \cup {tail} : next'[m] = next[m] /\ data'[m] = data[m]
    BY <2>1, NodeFacts DEF FinalTypes
  <2> QED
    BY <2>2, <2>3, <2>4, SameFilling
<1> QED
  BY <1>1, <1>2, <1>4, <1>5, <1>6

\* A push fills the dummy, which is not before itself in the list.
LEMMA FillKeeps ==
  ASSUME FinalInv, NEW t \in Thread, Final!LinkData(t) \/ Final!LinkNext(t)
  PROVE  FinalInv'
<1> USE DEF FinalInv, Final!LinkData, Final!LinkNext, Final!Goto, Final!mutex
<1>1. /\ UNCHANGED <<head, tail, chain, live, head_mutex, f_op, ptr, f_val, seen>>
      /\ f_pc[t] \in {"link", "next"} /\ f_pc'[t] \in {"next", "move"}
      /\ tail_mutex' = t /\ \A u \in Thread \ {t} : f_pc'[u] = f_pc[u]
      /\ \A m \in Node \ {tail} : next'[m] = next[m] /\ data'[m] = data[m]
      /\ \A u \in Thread \ {t} : f_pc[u] \notin {"next", "move"}
  <2>1. tail_mutex = NoThread \/ tail_mutex = t
    BY DEF FinalFilling
  <2>2. \A u \in Thread \ {t} : f_pc[u] \notin {"next", "move"}
    BY <2>1, CoarseAssumption DEF FinalFilling
  <2>3. tail_mutex' = t
    BY DEF FinalFilling
  <2>4. \A u \in Thread \ {t} : f_pc'[u] = f_pc[u]
    BY DEF FinalTypes
  <2>5. f_pc[t] \in {"link", "next"} /\ f_pc'[t] \in {"next", "move"}
    BY DEF FinalTypes
  <2>6. \A m \in Node \ {tail} : next'[m] = next[m] /\ data'[m] = data[m]
    BY DEF FinalTypes
  <2> QED
    BY <2>2, <2>3, <2>4, <2>5, <2>6
<1>2. FinalList' /\ Linked' = Linked
  <2>1. \A m \in Linked : next'[m] = next[m]
    BY <1>1, NodeFacts
  <2> QED
    BY <1>1, <2>1, SameList
<1>3. Owning' = Owning /\ t \in Owning
  BY <1>1 DEF Owning
<1>4. FinalTypes'
  <2>1. ptr[t] \in Node /\ f_pc' \in [Thread -> Position]
    BY <1>3, NodeFacts DEF FinalTypes, Position
  <2> QED
    BY <1>1, <2>1 DEF FinalTypes, Address
<1>5. FinalLocals'
  BY <1>1, <1>2, <1>3 DEF FinalLocals
<1>6. FinalOwners'
  BY <1>1, <1>2, <1>3, SameOwners
<1>7. FinalFilling'
  <2>1. ASSUME NEW u \in Thread, f_pc'[u] = "pop"
        PROVE  chain # <<>> /\ f_val[u] = IF f_op[u] \in Final!RefOps THEN data'[head] ELSE Nothing
    <3>1. f_pc[u] = "pop" /\ head \in Linked /\ chain # <<>>
      BY <1>1, <2>1, NodeFacts DEF FinalFilling
    <3> QED
      BY <1>1, <3>1, NodeFacts DEF FinalFilling
  <2>2. data'[tail] = f_val[t] /\ (f_pc'[t] = "move" => next'[tail] = ptr[t])
    BY DEF FinalTypes, FinalFilling
  <2> QED
    BY <1>1, <2>1, <2>2 DEF FinalFilling
<1> QED
  BY <1>2, <1>4, <1>5, <1>6, <1>7

\* The dummy becomes the last node, and the new node the dummy.
LEMMA MoveTailKeeps ==
  ASSUME FinalInv, NEW t \in Thread, Final!MoveTail(t)
  PROVE  FinalInv'
<1> USE DEF FinalInv, Final!MoveTail, Final!Goto, Final!heap
<1>1. /\ t \in Owning /\ ptr[t] \in Node /\ f_op[t] \in Final!PushOps /\ ptr[t] \in live
      /\ ptr[t] \notin Linked /\ ptr[t] # tail /\ next[tail] = ptr[t]
  BY NodeFacts DEF Owning, FinalLocals, FinalFilling
<1>2. /\ chain' \in Seq(Node) /\ Len(chain) \in Nat /\ Len(chain') = Len(chain) + 1
      /\ \A i \in 1..Len(chain) : chain'[i] = chain[i]
      /\ chain'[Len(chain) + 1] = tail
  BY AppendFacts DEF FinalTypes
<1>3. Linked' = Linked \cup {tail}
  <2>1. \A n \in Linked' : n \in Linked \cup {tail}
    BY <1>2 DEF Linked
  <2>2. Len(chain) + 1 \in 1..Len(chain') /\ \A i \in 1..Len(chain) : i \in 1..Len(chain')
    BY <1>2
  <2>3. \A n \in Linked \cup {tail} : n \in Linked'
    BY <1>2, <2>2 DEF Linked
  <2> QED
    BY <2>1, <2>3
<1>4. FinalTypes'
  BY <1>1, <1>2 DEF FinalTypes, Address, Position
<1>5. Owning' = Owning \ {t}
  BY DEF FinalTypes, Owning
<1>6. FinalLocals'
  BY <1>1, <1>3, <1>5 DEF FinalTypes, FinalLocals
<1>7. FinalList'
  <2>1. head' = chain'[1] /\ chain' # <<>>
    BY <1>2, EmptySeq DEF FinalList, FinalTypes
  <2>2. \A i \in 1..Len(chain) : next'[chain[i]] = next[chain[i]]
    OBVIOUS
  <2>3. next'[tail] = tail'
    BY <1>1
  <2>4. ASSUME NEW i \in 1..Len(chain')
        PROVE  next'[chain'[i]] = IF i = Len(chain') THEN tail' ELSE chain'[i + 1]
    <3>1. CASE i = Len(chain')
      BY <1>2, <2>3, <3>1
    <3>2. CASE i = Len(chain)
      BY <1>2, <2>2, <2>4, <3>2 DEF FinalList
    <3>3. CASE i # Len(chain') /\ i # Len(chain)
      <4>1. i \in 1..Len(chain) /\ i + 1 \in 1..Len(chain)
        BY <1>2, <3>3
      <4> QED
        BY <1>2, <2>2, <3>3, <4>1 DEF FinalList
    <3> QED
      BY <3>1, <3>2, <3>3
  <2>5. \A i \in 1..Len(chain') : chain'[i] # tail'
    <3>1. \A i \in 1..Len(chain') : chain'[i] \in Linked'
      BY DEF Linked
    <3> QED
      BY <1>1, <1>3, <3>1
  <2>6. \A i, j \in 1..Len(chain') : chain'[i] = chain'[j] => i = j
    <3>1. \A i \in 1..Len(chain') : i \in 1..Len(chain) \/ i = Len(chain')
      BY <1>2
    <3> QED
      BY <1>2, <3>1 DEF FinalList
  <2> QED
    BY <2>1, <2>4, <2>5, <2>6 DEF FinalList
<1>8. FinalOwners'
  BY <1>1, <1>3, <1>5, NodeFacts DEF FinalOwners
<1>9. FinalFilling'
  <2>1. \A u \in Thread : f_pc'[u] \notin {"next", "move"}
    BY DEF FinalTypes, FinalFilling
  <2>2. chain # <<>> => head' = head /\ chain' # <<>>
    BY <1>2, EmptySeq
  <2> QED
    BY <1>2, <2>1, <2>2, EmptySeq DEF FinalFilling, FinalTypes
<1> QED
  BY <1>4, <1>6, <1>7, <1>8, <1>9

\* A notification moves a blocked thread to the lock.
LEMMA NotifyKeeps ==
  ASSUME FinalInv, NEW t \in Thread, Final!NotifyOne(t)
  PROVE  FinalInv'
<1> USE DEF FinalInv
<1>1. /\ f_pc' \in [Thread -> Position] /\ f_pc[t] = "notify"
      /\ \A u \in Thread :
           \/ f_pc'[u] = f_pc[u] /\ u # t
           \/ f_pc'[u] = "return" /\ u = t
           \/ f_pc'[u] = "lock" /\ f_pc[u] = "blocked"
      /\ UNCHANGED <<head, tail, next, data, live, head_mutex, tail_mutex, f_op, ptr, f_val, seen, chain>>
  BY DEF FinalTypes, Final!NotifyOne, Final!Goto, Final!Waiting, Position, Final!heap, Final!mutex
<1>2. FinalTypes'
  BY <1>1 DEF FinalTypes
<1>3. FinalList' /\ Linked' = Linked
  BY <1>1, SameList
<1>4. Owning' = Owning
  BY <1>1 DEF Owning
<1>5. FinalLocals'
  BY <1>1, <1>3, <1>4 DEF FinalLocals, PopOps
<1>6. FinalOwners'
  BY <1>1, <1>3, <1>4, SameOwners
<1>7. FinalFilling'
  BY <1>1, SameFilling
<1> QED
  BY <1>2, <1>3, <1>5, <1>6, <1>7

\* A call that has no node begins, goes on or returns, and the list stays.
LEMMA MoveKeeps ==
  ASSUME FinalInv, NEW t \in Thread,
         \/ Final!ReturnPush(t) \/ \E o \in PopOps : Final!CallPop(t, o)
         \/ Final!LockHead(t) \/ Final!GetTail(t) \/ Final!FindEmpty(t)
         \/ Final!Sleep(t) \/ Final!SpuriousWake(t)
  PROVE  FinalInv'
<1> USE DEF FinalInv
<1>1. UNCHANGED <<head, tail, next, data, live, chain, tail_mutex>>
  BY DEF Final!ReturnPush, Final!CallPop, Final!LockHead, Final!GetTail, Final!FindEmpty,
         Final!Sleep, Final!SpuriousWake, Final!heap, Final!mutex
<1>2. FinalList' /\ Linked' = Linked
  BY <1>1, SameList
<1>3. Owning' = Owning /\ t \notin Owning /\ \A u \in Owning : ptr'[u] = ptr[u]
  BY DEF FinalTypes, Owning, Final!ReturnPush, Final!CallPop, Final!LockHead, Final!GetTail,
         Final!FindEmpty, Final!Sleep, Final!SpuriousWake,
         Final!Return, Final!DropLocals, Final!Goto, Final!Waiting
<1>4. FinalOwners'
  BY <1>1, <1>2, <1>3, SameOwners
<1>5. FinalTypes'
  <2>1. f_pc' \in [Thread -> Position] /\ f_op' \in [Thread -> Final!Ops \cup {"none"}]
    BY DEF FinalTypes, Position, Final!Ops, PopOps, Final!ReturnPush, Final!CallPop,
           Final!LockHead, Final!GetTail,
           Final!FindEmpty, Final!Sleep, Final!SpuriousWake, Final!Return, Final!DropLocals,
           Final!Goto
  <2>2. ptr' \in [Thread -> Address] /\ seen' \in [Thread -> Address]
    BY DEF FinalTypes, Address, Final!ReturnPush, Final!CallPop, Final!LockHead, Final!GetTail,
           Final!FindEmpty, Final!Sleep, Final!SpuriousWake, Final!Return, Final!DropLocals
  <2>3. f_val' \in [Thread -> Value \cup {Nothing}] /\ head_mutex' \in Thread \cup {NoThread}
    BY DEF FinalTypes, Final!ReturnPush, Final!CallPop, Final!LockHead, Final!GetTail,
           Final!FindEmpty, Final!Sleep, Final!SpuriousWake, Final!Return, Final!DropLocals,
           Final!mutex
  <2> QED
    BY <1>1, <2>1, <2>2, <2>3 DEF FinalTypes
<1>6. FinalFilling'
  <2>1. /\ \A u \in Thread \ {t} : f_pc'[u] = f_pc[u] /\ f_op'[u] = f_op[u]
                                 /\ f_val'[u] = f_val[u] /\ ptr'[u] = ptr[u]
        /\ f_pc'[t] \notin {"next", "move", "pop"}
    BY DEF FinalTypes, Final!ReturnPush, Final!CallPop, Final!LockHead, Final!GetTail,
           Final!FindEmpty, Final!Sleep, Final!SpuriousWake, Final!Return, Final!DropLocals,
           Final!Goto
  <2> QED
    BY <1>1, <2>1, SameFilling
<1>7. FinalLocals'
  <2>1. CASE Final!ReturnPush(t)
    BY <1>1, <1>2, <1>3, <2>1
    DEF FinalTypes, FinalLocals, Final!ReturnPush, Final!Return, Final!DropLocals, Final!Goto, Final!mutex
  <2>2. ASSUME NEW o \in PopOps, Final!CallPop(t, o) PROVE FinalLocals'
    BY <1>1, <1>2, <1>3, <2>2 DEF FinalTypes, FinalLocals, Final!CallPop, Final!Goto, Final!mutex
  <2>3. CASE Final!LockHead(t)
    BY <1>1, <1>2, <1>3, <2>3, CoarseAssumption
    DEF FinalTypes, FinalLocals, Final!LockHead, Final!Goto
  <2>4. CASE Final!GetTail(t)
    BY <1>1, <1>2, <1>3, <2>4 DEF FinalTypes, FinalLocals, Final!GetTail, Final!Goto, Final!mutex
  <2>5. CASE Final!FindEmpty(t)
    BY <1>1, <1>2, <1>3, <2>5
    DEF FinalTypes, FinalLocals, Final!FindEmpty, Final!Return, Final!DropLocals, Final!Goto
  <2>6. CASE Final!Sleep(t)
    BY <1>1, <1>2, <1>3, <2>6 DEF FinalTypes, FinalLocals, Final!Sleep, Final!Goto
  <2>7. CASE Final!SpuriousWake(t)
    BY <1>1, <1>2, <1>3, <2>7
    DEF FinalTypes, FinalLocals, Final!SpuriousWake, Final!Waiting, Final!Goto, PopOps, Final!mutex
  <2> QED
    BY <2>1, <2>2, <2>3, <2>4, <2>5, <2>6, <2>7
<1> QED
  BY <1>2, <1>4, <1>5, <1>6, <1>7

\* A pop finds head and the tail it has read apart.
LEMMA ReadValueKeeps ==
  ASSUME FinalInv, NEW t \in Thread, Final!ReadValue(t)
  PROVE  FinalInv'
<1> USE DEF FinalInv, Final!ReadValue, Final!Goto, Final!heap, Final!mutex
<1>1. /\ chain # <<>> /\ head_mutex = t /\ f_op[t] \in PopOps /\ f_val[t] = Nothing
      /\ t \notin Owning
  BY NodeFacts DEF FinalLocals, Owning, Linked, FinalTypes
<1>2. /\ f_pc[t] = "test" /\ f_pc'[t] = "pop"
      /\ f_val'[t] = IF f_op[t] \in Final!RefOps THEN data[head] ELSE Nothing
      /\ \A u \in Thread \ {t} :
           f_pc'[u] = f_pc[u] /\ f_val'[u] = f_val[u] /\ seen'[u] = seen[u]
  BY <1>1 DEF FinalTypes
<1>3. FinalList' /\ Linked' = Linked
  BY SameList
<1>4. Owning' = Owning
  BY <1>2 DEF Owning
<1>5. FinalTypes'
  BY DEF FinalTypes, Address, Position
<1>6. FinalLocals'
  BY <1>1, <1>2, <1>3, <1>4 DEF FinalLocals
<1>7. FinalFilling'
  BY <1>1, <1>2 DEF FinalFilling
<1>8. FinalOwners'
  BY <1>3, <1>4, SameOwners
<1> QED
  BY <1>3, <1>5, <1>6, <1>7, <1>8

\* The first node leaves the list for the pop that owns head_mutex.
LEMMA PopHeadKeeps ==
  ASSUME FinalInv, NEW t \in Thread, Final!PopHead(t)
  PROVE  FinalInv'
<1> USE DEF FinalInv, Final!PopHead, Final!Goto, Final!heap, Final!mutex
<1>1. /\ chain # <<>> /\ head = chain[1] /\ head \in Linked /\ t \notin Owning
      /\ f_op[t] \in PopOps /\ head_mutex = t
  BY NodeFacts DEF FinalLocals, FinalFilling, Owning, Linked, FinalTypes
<1>2. /\ chain' \in Seq(Node) /\ Len(chain) \in Nat \ {0} /\ Len(chain') = Len(chain) - 1
      /\ \A i \in 1..(Len(chain) - 1) : chain'[i] = chain[i + 1]
  BY <1>1, DropFacts DEF FinalTypes
<1>3. Linked' = Linked \ {head}
  <2>1. \A n \in Linked' : n \in Linked
    BY <1>2 DEF Linked
  <2>2. head \notin Linked'
    <3>1. \A i \in 1..Len(chain') : i + 1 \in 1..Len(chain) /\ chain'[i] = chain[i + 1]
      BY <1>2
    <3>2. \A i \in 1..Len(chain') : chain'[i] # head
      BY <1>1, <1>2, <3>1 DEF FinalList
    <3> QED
      BY <3>2 DEF Linked
  <2>3. ASSUME NEW i \in 1..Len(chain), chain[i] # head PROVE chain[i] \in Linked'
    <3>1. i - 1 \in 1..Len(chain') /\ chain'[i - 1] = chain[i]
      BY <1>1, <1>2, <2>3
    <3> QED
      BY <3>1 DEF Linked
  <2> QED
    BY <2>1, <2>2, <2>3 DEF Linked
<1>4. head' = IF chain' = <<>> THEN tail ELSE chain'[1]
  <2>1. 1 \in 1..Len(chain) /\ next[chain[1]] = IF 1 = Len(chain) THEN tail ELSE chain[2]
    BY <1>2 DEF FinalList
  <2>2. chain' = <<>> <=> Len(chain) = 1
    <3>1. chain' = <<>> <=> Len(chain') = 0
      BY <1>2, EmptySeq
    <3> QED
      BY <1>2, <3>1
  <2> QED
    BY <1>1, <1>2, <2>1, <2>2
<1>5. FinalTypes'
  <2>1. head' \in Node
    <3>1. chain' # <<>> => chain'[1] \in Node
      BY <1>2, EmptySeq
    <3> QED
      BY <1>4, <3>1 DEF FinalTypes
  <2> QED
    BY <1>2, <2>1 DEF FinalTypes, Address, Position
<1>6. Owning' = Owning \cup {t}
  BY DEF FinalTypes, Owning
<1>7. FinalLocals'
  <2>1. \A u \in Thread \ {t} :
          f_pc'[u] = f_pc[u] /\ ptr'[u] = ptr[u] /\ f_pc[u] \notin {"get_tail", "test", "pop"}
    BY <1>1 DEF FinalTypes, FinalLocals
  <2>2. f_pc'[t] = "free" /\ ptr'[t] \in Node
    BY DEF FinalTypes
  <2>3. \A u \in Thread \ {t} : f_val'[u] = f_val[u]
    BY DEF FinalTypes
  <2> QED
    BY <1>1, <1>6, <2>1, <2>2, <2>3 DEF FinalLocals
<1>8. FinalList'
  <2>1. \A i \in 1..Len(chain') : i + 1 \in 1..Len(chain) /\ chain'[i] = chain[i + 1]
    BY <1>2
  <2>2. \A i \in 1..Len(chain') : i # Len(chain') => chain'[i + 1] = chain[i + 1 + 1]
    BY <1>2
  <2>3. ASSUME NEW i \in 1..Len(chain')
        PROVE  next[chain'[i]] = IF i = Len(chain') THEN tail ELSE chain'[i + 1]
    BY <1>2, <2>1, <2>2 DEF FinalList
  <2>4. \A i \in 1..Len(chain') : chain'[i] # tail
    BY <2>1 DEF FinalList
  <2>5. \A i, j \in 1..Len(chain') : chain'[i] = chain'[j] => i = j
    <3>1. \A i, j \in 1..Len(chain') : chain'[i] = chain'[j] => i + 1 = j + 1
      BY <2>1 DEF FinalList
    <3> QED
      BY <1>2, <3>1
  <2> QED
    BY <1>4, <2>3, <2>4, <2>5 DEF FinalList
<1>9. FinalOwners'
  <2>1. \A u \in Owning : ptr'[u] = ptr[u] /\ u # t
    BY <1>1 DEF FinalTypes, Owning
  <2>2. ptr'[t] = head
    BY DEF FinalTypes
  <2> QED
    BY <1>1, <1>3, <1>6, <2>1, <2>2, NodeFacts DEF FinalOwners
<1>10. FinalFilling'
  <2>1. \A u \in Thread \ {t} : f_pc'[u] = f_pc[u] /\ ptr'[u] = ptr[u] /\ f_pc[u] # "pop"
    BY <1>1 DEF FinalTypes, FinalLocals
  <2> QED
    BY <1>1, <2>1 DEF FinalTypes, FinalFilling
<1> QED
  BY <1>5, <1>7, <1>8, <1>9, <1>10

\* The pop deletes the node that it has taken.
LEMMA FreeOldKeeps ==
  ASSUME FinalInv, NEW t \in Thread, Final!FreeOld(t)
  PROVE  FinalInv'
<1> USE DEF FinalInv, Final!FreeOld, Final!Return, Final!DropLocals, Final!Goto,
           Final!mutex
<1>1. /\ t \in Owning /\ Owning' = Owning \ {t} /\ \A u \in Owning' : ptr'[u] = ptr[u]
  BY DEF FinalTypes, Owning
<1>2. ptr[t] \in Node /\ ptr[t] \notin Linked \cup {tail}
  BY <1>1, NodeFacts
<1>3. FinalList' /\ Linked' = Linked
  BY <1>2, NodeFacts, SameList DEF FinalTypes
<1>4. FinalTypes'
  <2>1. next' \in [Node -> Address] /\ data' \in [Node -> Value \cup {Nothing}]
    BY DEF FinalTypes, Address
  <2>2. /\ f_pc' \in [Thread -> Position] /\ ptr' \in [Thread -> Address]
        /\ seen' \in [Thread -> Address]
    BY DEF FinalTypes, Address, Position
  <2> QED
    BY <2>1, <2>2 DEF FinalTypes
<1>5. FinalLocals'
  BY <1>1, <1>3 DEF FinalTypes, FinalLocals
<1>6. FinalOwners'
  BY <1>1, <1>2, <1>3, NodeFacts DEF FinalOwners
<1>7. FinalFilling'
  <2>1. \A m \in Linked \cup {tail} : next'[m] = next[m] /\ data'[m] = data[m]
    BY <1>2, NodeFacts DEF FinalTypes
  <2>2. /\ \A u \in Thread \ {t} : f_pc'[u] = f_pc[u] /\ f_op'[u] = f_op[u]
                                 /\ f_val'[u] = f_val[u] /\ ptr'[u] = ptr[u]
        /\ f_pc'[t] = "idle"
    BY DEF FinalTypes
  <2> QED
    BY <2>1, <2>2, SameFilling
<1> QED
  BY <1>3, <1>4, <1>5, <1>6, <1>7

\* Each step.
LEMMA FinalStep == FinalInv /\ [Final!Next]_(Final!vars) => FinalInv'
<1> SUFFICES ASSUME FinalInv, [Final!Next]_(Final!vars) PROVE FinalInv'
  OBVIOUS
<1>1. CASE UNCHANGED Final!vars
  <2>1. Linked' = Linked /\ Owning' = Owning
    BY <1>1 DEF Final!vars, Linked, Owning
  <2> QED
    BY <1>1, <2>1
    DEF Final!vars, Final!heap, Final!mutex, FinalInv, FinalTypes, FinalLocals, FinalFilling,
        FinalList, FinalOwners
<1> QED
  BY <1>1, CallPushKeeps, FillKeeps, MoveTailKeeps, NotifyKeeps, MoveKeeps, ReadValueKeeps,
     PopHeadKeeps, FreeOldKeeps
  DEF Final!Next, Final!Step, PopOps

\* The invariant of final_queue that the theorem rests on.
THEOREM FinalInductive == Final!Spec => []FinalInv
BY FinalInit, FinalStep, PTL DEF Final!Spec
-----------------------------------------------------------------------------
(* final_queue implements FifoQueue *)

FinalStage(t) ==
  IF f_pc[t] = "idle" THEN "idle" ELSE IF Final!Effected(t) THEN "done" ELSE "open"

FinalOp(t) == IF f_op[t] = "push_notify" THEN "push_cond"
              ELSE IF f_op[t] = "try_pop_ref" THEN "try_pop" ELSE f_op[t]

Outcome(t) == CASE f_pc[t] = "pop" -> Nothing
                [] f_pc[t] = "free" /\ f_op[t] \notin Final!RefOps -> data[ptr[t]]
                [] OTHER -> f_val[t]

FinalAbstract ==
  [t \in Thread |-> [stage |-> FinalStage(t), op |-> FinalOp(t), val |-> Outcome(t)]]

AbstractCalls ==
  [t \in Thread |->
    {IF o = "push_notify" THEN "push_cond" ELSE IF o = "try_pop_ref" THEN "try_pop"
     ELSE o : o \in FinalCalls[t]}]

\* What Fifo sees of a step of one thread.
LEMMA FinalCallStep ==
  ASSUME NEW t \in Thread, NEW s, NEW o, NEW v,
         \A u \in Thread \ {t} :
           FinalStage(u)' = FinalStage(u) /\ Outcome(u)' = Outcome(u) /\ f_op'[u] = f_op[u],
         FinalStage(t)' = s, Outcome(t)' = v, FinalOp(t)' = o
  PROVE  FinalAbstract' = [FinalAbstract EXCEPT ![t] = [stage |-> s, op |-> o, val |-> v]]
<1>1. \A u \in Thread \ {t} : FinalOp(u)' = FinalOp(u)
  BY DEF FinalOp
<1> QED
  BY <1>1 DEF FinalAbstract

\* A step that moves calls along without effect.
LEMMA FinalStutter ==
  ASSUME UNCHANGED <<chain, f_op>>, \A n \in Linked : data'[n] = data[n],
         \A u \in Thread : FinalStage(u)' = FinalStage(u) /\ Outcome(u)' = Outcome(u)
  PROVE  UNCHANGED Final!Fifo!vars
<1>1. Final!Items' = Final!Items
  BY DEF Final!Items, Linked
<1>2. FinalAbstract' = FinalAbstract
  BY DEF FinalAbstract, FinalOp
<1> QED
  BY <1>1, <1>2 DEF Final!Fifo!vars, Final!Items, FinalAbstract, FinalStage, FinalOp, Outcome

\* How a thread's call looks depends on its own locals, on head while it
\* holds head_mutex, and on the node that a pop has taken.
LEMMA SameCall ==
  ASSUME FinalInv, NEW u \in Thread,
         f_pc'[u] = f_pc[u], f_op'[u] = f_op[u], ptr'[u] = ptr[u], f_val'[u] = f_val[u],
         seen'[u] = seen[u],
         f_pc[u] = "test" => head' = head,
         u \in Owning => data'[ptr[u]] = data[ptr[u]]
  PROVE  FinalStage(u)' = FinalStage(u) /\ Outcome(u)' = Outcome(u)
  BY DEF FinalStage, Final!Effected, Outcome, Owning

\* The values in the queue, and whether there are any.
LEMMA ItemsFacts ==
  ASSUME FinalInv
  PROVE  /\ Final!Items \in Seq(Value \cup {Nothing}) /\ Len(chain) \in Nat
         /\ Len(Final!Items) = Len(chain)
         /\ \A i \in 1..Len(chain) : Final!Items[i] = data[chain[i]]
         /\ Final!Items = <<>> <=> chain = <<>>
<1>1. /\ Len(chain) \in Nat /\ Final!Items \in Seq(Value \cup {Nothing})
      /\ Len(Final!Items) = Len(chain)
  BY DEF Final!Items, FinalInv, FinalTypes
<1>2. Final!Items = <<>> <=> chain = <<>>
  BY <1>1, EmptySeq DEF FinalInv, FinalTypes
<1> QED
  BY <1>1, <1>2 DEF Final!Items

\* The start.
LEMMA FinalInitRefines == Final!Init => Final!Fifo!Init
<1> SUFFICES ASSUME Final!Init PROVE Final!Fifo!Init
  OBVIOUS
<1>1. Final!Items = <<>>
  BY DEF Final!Init, Final!Items
<1>2. FinalAbstract = [t \in Thread |-> [stage |-> "idle", op |-> "none", val |-> Nothing]]
  BY DEF Final!Init, FinalAbstract, FinalStage, FinalOp, Outcome
<1> QED
  BY <1>1, <1>2
  DEF Final!Fifo!Init, Final!Fifo!NoCall, Final!Items, FinalAbstract, FinalStage, FinalOp,
      Outcome

LEMMA CallPushRefines ==
  ASSUME FinalInv, NEW t \in Thread, NEW o \in Final!PushOps, NEW v \in Value, NEW n \in Node,
         Final!CallPush(t, o, v, n)
  PROVE  Final!Fifo!Next
<1> USE DEF Final!CallPush, Final!Goto
<1> DEFINE a == IF o = "push_notify" THEN "push_cond" ELSE "push"
<1>1. /\ f_pc'[t] = "link" /\ f_op'[t] = o /\ f_val'[t] = v
      /\ \A u \in Thread \ {t} :
           f_pc'[u] = f_pc[u] /\ f_op'[u] = f_op[u] /\ ptr'[u] = ptr[u] /\ f_val'[u] = f_val[u]
      /\ \A m \in Node \ {n} : data'[m] = data[m]
  BY DEF FinalInv, FinalTypes
<1>2. \A u \in Thread \ {t} : FinalStage(u)' = FinalStage(u) /\ Outcome(u)' = Outcome(u)
  BY <1>1, NodeFacts, SameCall
<1>3. FinalAbstract' = [FinalAbstract EXCEPT ![t] = [stage |-> "open", op |-> a, val |-> v]]
  BY <1>1, <1>2, FinalCallStep DEF FinalStage, Final!Effected, FinalOp, Outcome, Final!PushOps
<1>4. Final!Items' = Final!Items
  BY <1>1, NodeFacts DEF Final!Items, Linked
<1>5. FinalAbstract[t].stage = "idle"
  BY DEF FinalAbstract, FinalStage
<1>6. a \in AbstractCalls[t] /\ a \in Final!Fifo!PushOps /\ a \in Final!Fifo!Ops
  BY DEF AbstractCalls, Final!Fifo!PushOps, Final!Fifo!Ops, Final!PushOps
<1>7. Final!Fifo!Invoke(t, a, v)
  BY <1>3, <1>4, <1>5, <1>6
  DEF Final!Fifo!Invoke, Final!Items, FinalAbstract, FinalStage, FinalOp, Outcome, AbstractCalls
<1> QED
  BY <1>6, <1>7 DEF Final!Fifo!Next

LEMMA CallPopRefines ==
  ASSUME FinalInv, NEW t \in Thread, NEW o \in PopOps, Final!CallPop(t, o)
  PROVE  Final!Fifo!Next
<1> USE DEF Final!CallPop, Final!Goto, Final!heap
<1> DEFINE a == IF o = "try_pop_ref" THEN "try_pop" ELSE o
<1>1. /\ f_pc'[t] = "lock" /\ f_op'[t] = o /\ f_val'[t] = Nothing
      /\ \A u \in Thread \ {t} : f_pc'[u] = f_pc[u] /\ f_op'[u] = f_op[u]
  BY DEF FinalInv, FinalTypes, FinalLocals
<1>2. \A u \in Thread \ {t} : FinalStage(u)' = FinalStage(u) /\ Outcome(u)' = Outcome(u)
  BY <1>1, SameCall
<1>3. FinalAbstract' =
        [FinalAbstract EXCEPT ![t] = [stage |-> "open", op |-> a, val |-> Nothing]]
  BY <1>1, <1>2, FinalCallStep
  DEF FinalStage, Final!Effected, FinalOp, Outcome, PopOps, Final!TryOps, Final!WaitOps
<1>4. Final!Items' = Final!Items
  BY DEF Final!Items
<1>5. FinalAbstract[t].stage = "idle"
  BY DEF FinalAbstract, FinalStage
<1>6. a \in AbstractCalls[t] /\ a \notin Final!Fifo!PushOps /\ a \in Final!Fifo!Ops
  BY DEF AbstractCalls, Final!Fifo!PushOps, Final!Fifo!TryOps, Final!Fifo!WaitOps,
         Final!Fifo!Ops, PopOps, Final!TryOps, Final!WaitOps,
         Final!PushOps
<1>7. Final!Fifo!Invoke(t, a, Nothing)
  BY <1>3, <1>4, <1>5, <1>6
  DEF Final!Fifo!Invoke, Final!Items, FinalAbstract, FinalStage, FinalOp, Outcome, AbstractCalls
<1> QED
  BY <1>6, <1>7 DEF Final!Fifo!Next

\* A push takes effect when it moves tail.
LEMMA MoveTailRefines ==
  ASSUME FinalInv, NEW t \in Thread, Final!MoveTail(t)
  PROVE  Final!Fifo!Enqueue(t)
<1> USE DEF Final!MoveTail, Final!Goto, Final!heap
<1>1. /\ f_pc[t] = "move" /\ f_pc'[t] \in {"notify", "return"} /\ f_op[t] \in Final!PushOps
      /\ \A u \in Thread \ {t} : f_pc'[u] = f_pc[u]
      /\ data'[tail] = f_val[t] /\ data' = data
  BY DEF FinalInv, FinalTypes, FinalLocals, FinalFilling
<1>2. \A u \in Thread \ {t} : FinalStage(u)' = FinalStage(u) /\ Outcome(u)' = Outcome(u)
  BY <1>1, SameCall
<1>3. FinalAbstract' = [FinalAbstract EXCEPT ![t] =
                         [stage |-> "done", op |-> FinalOp(t), val |-> f_val[t]]]
  BY <1>1, <1>2, FinalCallStep DEF FinalStage, Final!Effected, FinalOp, Outcome
<1>4. FinalAbstract[t] = [stage |-> "open", op |-> FinalOp(t), val |-> f_val[t]]
  BY <1>1 DEF FinalAbstract, FinalStage, Final!Effected, Outcome
<1>5. FinalOp(t) \in Final!Fifo!PushOps
  BY <1>1 DEF FinalOp, Final!PushOps, Final!Fifo!PushOps
<1>6. Final!Items' = Append(Final!Items, f_val[t])
  <2>1. /\ Len(chain') = Len(chain) + 1 /\ chain'[Len(chain) + 1] = tail
        /\ \A i \in 1..Len(chain) : chain'[i] = chain[i]
    BY AppendFacts DEF FinalInv, FinalTypes
  <2>2. \A i \in 1..Len(chain) : data'[chain[i]] = data[chain[i]]
    BY <1>1
  <2>3. f_val[t] \in Value \cup {Nothing}
    BY DEF FinalInv, FinalTypes
  <2>4. /\ Append(Final!Items, f_val[t]) \in Seq(Value \cup {Nothing})
        /\ Len(Append(Final!Items, f_val[t])) = Len(chain) + 1
        /\ \A i \in 1..Len(chain) : Append(Final!Items, f_val[t])[i] = data[chain[i]]
        /\ Append(Final!Items, f_val[t])[Len(chain) + 1] = f_val[t]
    BY <2>3, ItemsFacts, AppendFacts
  <2>5. /\ Final!Items' \in Seq(Value \cup {Nothing}) /\ Len(Final!Items') = Len(chain) + 1
        /\ \A i \in 1..(Len(chain) + 1) : Final!Items'[i] = data'[chain'[i]]
    <3>1. FinalTypes'
      BY MoveTailKeeps DEF FinalInv
    <3>2. Len(chain) \in Nat
      BY ItemsFacts
    <3> QED
      BY <2>1, <3>1, <3>2 DEF FinalTypes, Final!Items
  <2>6. \A i \in 1..(Len(chain) + 1) : Final!Items'[i] = Append(Final!Items, f_val[t])[i]
    <3>1. \A i \in 1..(Len(chain) + 1) : i \in 1..Len(chain) \/ i = Len(chain) + 1
      BY ItemsFacts
    <3> QED
      BY <1>1, <2>1, <2>2, <2>4, <2>5, <3>1
  <2> QED
    BY <2>4, <2>5, <2>6, SeqEqual
<1> QED
  BY <1>3, <1>4, <1>5, <1>6
  DEF Final!Fifo!Enqueue, Final!Fifo!Finish, Final!Items, FinalAbstract, FinalStage, FinalOp,
      Outcome

\* A pop takes effect when it takes the first node off.
LEMMA PopHeadRefines ==
  ASSUME FinalInv, NEW t \in Thread, Final!PopHead(t)
  PROVE  Final!Fifo!Dequeue(t)
<1> USE DEF Final!PopHead, Final!Goto, Final!heap
<1>1. /\ f_pc[t] = "pop" /\ f_pc'[t] = "free" /\ f_op[t] \in PopOps /\ head_mutex = t
      /\ ptr'[t] = head /\ f_val'[t] = f_val[t]
      /\ f_op[t] \in Final!RefOps => f_val[t] = data[head]
      /\ chain # <<>> /\ head = chain[1]
      /\ \A u \in Thread \ {t} :
           f_pc'[u] = f_pc[u] /\ ptr'[u] = ptr[u] /\ f_val'[u] = f_val[u] /\ f_pc[u] # "test"
  BY NodeFacts DEF FinalInv, FinalTypes, FinalLocals, FinalFilling, Linked
<1>2. \A u \in Thread \ {t} : FinalStage(u)' = FinalStage(u) /\ Outcome(u)' = Outcome(u)
  BY <1>1, SameCall
<1>3. Final!Items # <<>> /\ Head(Final!Items) = data[head]
  <2>1. Final!Items # <<>> /\ 1 \in 1..Len(chain)
    BY <1>1, ItemsFacts, DropFacts DEF FinalInv, FinalTypes
  <2>2. Head(Final!Items) = Final!Items[1]
    BY <2>1, ItemsFacts
  <2>3. Final!Items[1] = data[chain[1]]
    BY <2>1, ItemsFacts
  <2> QED
    BY <1>1, <2>1, <2>2, <2>3
<1>4. FinalAbstract' = [FinalAbstract EXCEPT ![t] =
                         [stage |-> "done", op |-> FinalOp(t), val |-> Head(Final!Items)]]
  <2>1. Outcome(t)' = Head(Final!Items)
    BY <1>1, <1>3 DEF Outcome
  <2> QED
    BY <1>1, <1>2, <2>1, FinalCallStep DEF FinalStage, Final!Effected, FinalOp
<1>5. FinalAbstract[t].stage = "open" /\ FinalAbstract[t].op = FinalOp(t)
  BY <1>1 DEF FinalAbstract, FinalStage, Final!Effected
<1>6. FinalOp(t) \in Final!Fifo!TryOps \cup Final!Fifo!WaitOps
  BY <1>1
  DEF FinalOp, PopOps, Final!TryOps, Final!WaitOps, Final!Fifo!TryOps, Final!Fifo!WaitOps
<1>7. Final!Items' = Tail(Final!Items)
  <2>1. /\ Len(chain) \in Nat \ {0} /\ chain' \in Seq(Node) /\ Len(chain') = Len(chain) - 1
        /\ \A i \in 1..(Len(chain) - 1) : chain'[i] = chain[i + 1]
    BY <1>1, DropFacts DEF FinalInv, FinalTypes
  <2>2. /\ Tail(Final!Items) \in Seq(Value \cup {Nothing})
        /\ Len(Tail(Final!Items)) = Len(chain) - 1
        /\ \A i \in 1..(Len(chain) - 1) : Tail(Final!Items)[i] = Final!Items[i + 1]
    BY <1>3, ItemsFacts
  <2>3. /\ Final!Items' \in Seq(Value \cup {Nothing}) /\ Len(Final!Items') = Len(chain) - 1
        /\ \A i \in 1..(Len(chain) - 1) : Final!Items'[i] = data[chain[i + 1]]
    <3>1. Final!Items' = [i \in 1..(Len(chain) - 1) |-> data[chain[i + 1]]]
      BY <2>1 DEF Final!Items
    <3>2. \A i \in 1..(Len(chain) - 1) : chain[i + 1] \in Node
      BY <2>1 DEF FinalInv, FinalTypes
    <3> QED
      BY <2>1, <3>1, <3>2 DEF FinalInv, FinalTypes
  <2>4. \A i \in 1..(Len(chain) - 1) : Final!Items[i + 1] = data[chain[i + 1]]
    <3>1. \A i \in 1..(Len(chain) - 1) : i + 1 \in 1..Len(chain)
      BY <2>1
    <3> QED
      BY <3>1, ItemsFacts
  <2> QED
    BY <2>2, <2>3, <2>4, SeqEqual
<1> QED
  BY <1>3, <1>4, <1>5, <1>6, <1>7
  DEF Final!Fifo!Dequeue, Final!Fifo!Finish, Final!Items, FinalAbstract, FinalStage, FinalOp,
      Outcome

\* A pop that does not wait takes effect as it reads a tail equal to head.
LEMMA GetTailRefines ==
  ASSUME FinalInv, NEW t \in Thread, Final!GetTail(t), head = tail, f_op[t] \in Final!TryOps
  PROVE  Final!Fifo!FindEmpty(t)
<1> USE DEF Final!GetTail, Final!Goto, Final!heap
<1>1. /\ f_pc[t] = "get_tail" /\ f_pc'[t] = "test" /\ seen'[t] = tail /\ f_val[t] = Nothing
      /\ \A u \in Thread \ {t} : f_pc'[u] = f_pc[u] /\ seen'[u] = seen[u]
  BY DEF FinalInv, FinalTypes, FinalLocals
<1>2. \A u \in Thread \ {t} : FinalStage(u)' = FinalStage(u) /\ Outcome(u)' = Outcome(u)
  BY <1>1, SameCall
<1>3. FinalAbstract' = [FinalAbstract EXCEPT ![t] =
                         [stage |-> "done", op |-> FinalOp(t), val |-> Nothing]]
  BY <1>1, <1>2, FinalCallStep DEF FinalStage, Final!Effected, FinalOp, Outcome
<1>4. FinalAbstract[t].stage = "open" /\ FinalAbstract[t].op = FinalOp(t)
  BY <1>1 DEF FinalAbstract, FinalStage, Final!Effected
<1>5. FinalOp(t) \in Final!Fifo!TryOps
  BY DEF FinalOp, Final!TryOps, Final!Fifo!TryOps
<1>6. Final!Items = <<>> /\ Final!Items' = Final!Items
  BY NodeFacts, ItemsFacts DEF Final!Items
<1> QED
  BY <1>3, <1>4, <1>5, <1>6
  DEF Final!Fifo!FindEmpty, Final!Fifo!Finish, Final!Items, FinalAbstract, FinalStage, FinalOp,
      Outcome

LEMMA FinalReturns ==
  ASSUME FinalInv, NEW t \in Thread,
         Final!ReturnPush(t) \/ Final!FindEmpty(t) \/ Final!FreeOld(t)
  PROVE  Final!Fifo!Return(t)
<1> USE DEF Final!ReturnPush, Final!FindEmpty, Final!FreeOld, Final!Return, Final!DropLocals,
            Final!Goto, Final!heap
<1>1. /\ f_pc'[t] = "idle" /\ f_op'[t] = "none" /\ f_val'[t] = Nothing
      /\ UNCHANGED <<head, chain>>
      /\ \A u \in Thread \ {t} :
           /\ f_pc'[u] = f_pc[u] /\ f_op'[u] = f_op[u] /\ ptr'[u] = ptr[u]
                /\ f_val'[u] = f_val[u]
           /\ seen'[u] = seen[u]
  BY DEF FinalInv, FinalTypes
<1>2. \A m \in Node : data'[m] = data[m] \/ (t \in Owning /\ m = ptr[t])
  BY DEF Owning, FinalInv, FinalTypes
<1>3. \A u \in Owning \ {t} : data'[ptr[u]] = data[ptr[u]]
  BY <1>2, NodeFacts
<1>4. \A u \in Thread \ {t} : FinalStage(u)' = FinalStage(u) /\ Outcome(u)' = Outcome(u)
  BY <1>1, <1>3, SameCall
<1>5. FinalAbstract' = [FinalAbstract EXCEPT ![t] =
                         [stage |-> "idle", op |-> "none", val |-> Nothing]]
  BY <1>1, <1>4, FinalCallStep DEF FinalStage, FinalOp, Outcome
<1>6. FinalAbstract[t].stage = "done"
  BY DEF FinalAbstract, FinalStage, Final!Effected
<1>7. Final!Items' = Final!Items
  BY <1>1, <1>2, NodeFacts DEF Final!Items, Linked
<1> QED
  BY <1>5, <1>6, <1>7
  DEF Final!Fifo!Return, Final!Fifo!NoCall, Final!Items, FinalAbstract, FinalStage, FinalOp,
      Outcome

\* A step of one thread that has no effect on the values.
LEMMA FinalMoves ==
  ASSUME FinalInv, NEW t \in Thread,
         \/ Final!LockHead(t) \/ Final!Sleep(t) \/ Final!SpuriousWake(t)
         \/ Final!GetTail(t) /\ ~(head = tail /\ f_op[t] \in Final!TryOps)
  PROVE  UNCHANGED Final!Fifo!vars
<1> USE DEF Final!LockHead, Final!GetTail, Final!Sleep, Final!SpuriousWake, Final!Waiting,
            Final!Goto, Final!heap
<1>1. /\ UNCHANGED <<head, chain, data, f_op, ptr, f_val>>
      /\ \A u \in Thread \ {t} : f_pc'[u] = f_pc[u] /\ seen'[u] = seen[u]
  BY DEF FinalInv, FinalTypes
<1>2. \A u \in Thread \ {t} : FinalStage(u)' = FinalStage(u) /\ Outcome(u)' = Outcome(u)
  BY <1>1, SameCall
<1>3. \/ f_pc[t] \in {"lock", "blocked"} /\ f_pc'[t] \in {"lock", "get_tail"}
      \/ f_pc[t] = "get_tail" /\ f_pc'[t] = "test" /\ seen'[t] = tail
         /\ ~(head = tail /\ f_op[t] \in Final!TryOps)
      \/ f_pc[t] = "test" /\ f_pc'[t] = "blocked" /\ f_op[t] \in Final!WaitOps
  BY DEF FinalInv, FinalTypes
<1>4. FinalStage(t)' = FinalStage(t) /\ Outcome(t)' = Outcome(t)
  BY <1>1, <1>3 DEF FinalStage, Final!Effected, Outcome, Final!WaitOps, Final!TryOps
<1> QED
  BY <1>1, <1>2, <1>4, FinalStutter

\* So has filling the dummy, and reading the first value.
LEMMA FinalFills ==
  ASSUME FinalInv, NEW t \in Thread,
         Final!LinkData(t) \/ Final!LinkNext(t) \/ Final!ReadValue(t)
  PROVE  UNCHANGED Final!Fifo!vars
<1> USE DEF Final!LinkData, Final!LinkNext, Final!ReadValue, Final!Goto, Final!heap
<1>1. /\ UNCHANGED <<head, chain, f_op, ptr>>
      /\ \A u \in Thread \ {t} :
           f_pc'[u] = f_pc[u] /\ f_val'[u] = f_val[u] /\ seen'[u] = seen[u]
      /\ \A m \in Node \ {tail} : data'[m] = data[m]
  BY DEF FinalInv, FinalTypes
<1>2. \A u \in Thread \ {t} : FinalStage(u)' = FinalStage(u) /\ Outcome(u)' = Outcome(u)
  BY <1>1, NodeFacts, SameCall
<1>3. \/ f_pc[t] \in {"link", "next"} /\ f_pc'[t] \in {"next", "move"} /\ f_val'[t] = f_val[t]
      \/ f_pc[t] = "test" /\ f_pc'[t] = "pop" /\ f_val[t] = Nothing /\ head # seen[t]
  BY DEF FinalInv, FinalTypes, FinalLocals
<1>4. FinalStage(t)' = FinalStage(t) /\ Outcome(t)' = Outcome(t)
  BY <1>1, <1>3 DEF FinalStage, Final!Effected, Outcome
<1> QED
  BY <1>1, <1>2, <1>4, NodeFacts, FinalStutter

\* So has a notification.
LEMMA FinalNotifies ==
  ASSUME FinalInv, NEW t \in Thread, Final!NotifyOne(t)
  PROVE  UNCHANGED Final!Fifo!vars
<1>1. /\ UNCHANGED <<head, chain, data, f_op, ptr, f_val, seen>> /\ f_pc[t] = "notify"
      /\ \A u \in Thread :
           \/ f_pc'[u] = f_pc[u]
           \/ f_pc[u] = "notify" /\ f_pc'[u] = "return"
           \/ f_pc[u] = "blocked" /\ f_pc'[u] = "lock"
  BY DEF FinalInv, FinalTypes, Final!NotifyOne, Final!Goto, Final!Waiting, Final!heap
<1>2. \A u \in Thread : FinalStage(u)' = FinalStage(u) /\ Outcome(u)' = Outcome(u)
  BY <1>1 DEF FinalStage, Final!Effected, Outcome
<1> QED
  BY <1>1, <1>2, FinalStutter

\* Each step.
LEMMA FinalNextRefines ==
  FinalInv /\ [Final!Next]_(Final!vars) => [Final!Fifo!Next]_(Final!Fifo!vars)
<1> SUFFICES ASSUME FinalInv, [Final!Next]_(Final!vars)
             PROVE [Final!Fifo!Next]_(Final!Fifo!vars)
  OBVIOUS
<1>1. ASSUME NEW t \in Thread, Final!Step(t) PROVE [Final!Fifo!Next]_(Final!Fifo!vars)
  <2>1. ASSUME NEW o \in Final!PushOps, NEW v \in Value, NEW n \in Node,
               Final!CallPush(t, o, v, n)
        PROVE  Final!Fifo!Next
    BY <2>1, CallPushRefines
  <2>2. CASE Final!MoveTail(t)
    BY <2>2, MoveTailRefines DEF Final!Fifo!Next
  <2>3. ASSUME NEW o \in PopOps, Final!CallPop(t, o) PROVE Final!Fifo!Next
    BY <2>3, CallPopRefines
  <2>4. CASE Final!GetTail(t) /\ head = tail /\ f_op[t] \in Final!TryOps
    BY <2>4, GetTailRefines DEF Final!Fifo!Next
  <2>5. CASE Final!PopHead(t)
    BY <2>5, PopHeadRefines DEF Final!Fifo!Next
  <2>6. CASE Final!ReturnPush(t) \/ Final!FindEmpty(t) \/ Final!FreeOld(t)
    BY <2>6, FinalReturns DEF Final!Fifo!Next
  <2> QED
    BY <1>1, <2>1, <2>2, <2>3, <2>4, <2>5, <2>6, FinalNotifies, FinalMoves, FinalFills
    DEF Final!Step, PopOps
<1>2. CASE UNCHANGED Final!vars
  <2>1. \A u \in Thread : FinalStage(u)' = FinalStage(u) /\ Outcome(u)' = Outcome(u)
    BY <1>2, SameCall DEF Final!vars, Final!heap
  <2> QED
    BY <1>2, <2>1, FinalStutter DEF Final!vars, Final!heap
<1> QED
  BY <1>1, <1>2 DEF Final!Next

\* Every call of final_queue and of thread_queue takes effect at one instant on
\* a first-in first-out sequence, for any threads, values and addresses, reused
\* as the allocator likes, although the ends have different mutexes, a push
\* fills the last node beside a pop, and a result is read after the unlock
\* (t_queue.h:161-346).
THEOREM FinalQueueIsFifo == Final!Spec => FinalQueueLinearizable
BY FinalInitRefines, FinalNextRefines, FinalInductive, PTL
DEF Final!Spec, FinalQueueLinearizable, Final!Linearizable, Final!Fifo!Spec
-----------------------------------------------------------------------------
(* The queues for one thread that have a dummy *)

\* The nodes of c hold the values, from head along the next pointers to the
\* dummy.
ListIs(c) ==
  /\ Len(c) = Len(pushed)
  /\ s_head = IF c = <<>> THEN s_tail ELSE c[1]
  /\ s_tail \in s_live
  /\ \A i \in 1..Len(c) :
       /\ c[i] \in s_live /\ c[i] # s_tail
       /\ s_data[c[i]] = pushed[i]
       /\ s_next[c[i]] = IF i = Len(c) THEN s_tail ELSE c[i + 1]
       /\ \A j \in 1..Len(c) : c[i] = c[j] => i = j

\* Every variable keeps its type.
SingleTypes ==
  /\ s_head \in Node /\ s_tail \in Node
  /\ s_next \in [Node -> Node \cup {NoNode}] /\ s_data \in [Node -> Value \cup {Nothing}]
  /\ s_live \in SUBSET Node
  /\ pushed \in Seq(Value)

\* The values of a queue with a dummy are in a list.
SingleInv ==
  class \in Sequential!Dummy => SingleTypes /\ \E c \in Seq(Node) : ListIs(c)
-----------------------------------------------------------------------------
\* The first of a sequence is dropped.
LEMMA TailFacts ==
  ASSUME NEW S, NEW s \in Seq(S), s # <<>>
  PROVE  /\ Len(s) \in Nat \ {0} /\ Head(s) = s[1]
         /\ Tail(s) \in Seq(S)
         /\ Len(Tail(s)) = Len(s) - 1
         /\ \A i \in 1..(Len(s) - 1) : Tail(s)[i] = s[i + 1]
  OBVIOUS

\* The start: an empty queue.
LEMMA SingleInit == Sequential!Init => SingleInv
<1> SUFFICES ASSUME Sequential!Init, class \in Sequential!Dummy
             PROVE  SingleTypes /\ \E c \in Seq(Node) : ListIs(c)
  BY DEF SingleInv
<1>1. Sequential!InitDummy
  BY DEF Sequential!Init, Sequential!InitPlain, Sequential!Plain, Sequential!Dummy
<1>2. SingleTypes
  BY <1>1, EmptySeq DEF Sequential!InitDummy, Sequential!InitFields, SingleTypes
<1>3. ListIs(<<>>)
  BY <1>1, EmptySeq DEF Sequential!InitDummy, Sequential!InitFields, ListIs
<1> QED
  BY <1>2, <1>3, EmptySeq

\* The dummy takes the value, and the new node is the dummy.
LEMMA PushDummyKeeps ==
  ASSUME SingleInv, NEW v \in Value, NEW n \in Node, Sequential!PushDummy(v, n)
  PROVE  SingleInv'
<1> USE DEF Sequential!PushDummy, Sequential!Allocate
<1>1. SingleTypes'
  <2>1. s_next' \in [Node -> Node \cup {NoNode}] /\ s_data' \in [Node -> Value \cup {Nothing}]
    BY DEF SingleInv, SingleTypes
  <2>2. pushed' \in Seq(Value)
    BY AppendFacts DEF SingleInv, SingleTypes
  <2> QED
    BY <2>1, <2>2 DEF SingleInv, SingleTypes
<1>2. ASSUME NEW c \in Seq(Node), ListIs(c)
      PROVE  \E d \in Seq(Node) : ListIs(d)'
  <2>1. s_tail \in s_live /\ s_tail \in Node /\ s_tail # n
    BY <1>2 DEF ListIs, SingleInv, SingleTypes
  <2>2. PICK d : d = Append(c, s_tail)
    OBVIOUS
  <2>3. /\ d \in Seq(Node) /\ Len(c) \in Nat /\ Len(d) = Len(c) + 1 /\ d[Len(c) + 1] = s_tail
        /\ \A i \in 1..Len(c) : d[i] = c[i]
        /\ d # <<>>
    <3>1. /\ d \in Seq(Node) /\ Len(c) \in Nat /\ Len(d) = Len(c) + 1
          /\ d[Len(c) + 1] = s_tail /\ \A i \in 1..Len(c) : d[i] = c[i]
      BY <2>1, <2>2, AppendFacts
    <3>2. d # <<>>
      <4>1. Len(d) # 0
        BY <3>1
      <4> QED
        BY <4>1, EmptySeq
    <3> QED
      BY <3>1, <3>2
  <2>4. /\ Len(pushed') = Len(pushed) + 1 /\ pushed'[Len(pushed) + 1] = v
        /\ \A i \in 1..Len(pushed) : pushed'[i] = pushed[i]
    BY AppendFacts DEF SingleInv, SingleTypes
  <2>5. /\ Len(pushed) = Len(c)
        /\ \A i \in 1..Len(c) : c[i] \in s_live /\ c[i] \in Node /\ c[i] # n /\ c[i] # s_tail
    BY <1>2, <2>3 DEF ListIs
  <2>6. s_head' = d[1]
    <3>1. CASE c = <<>>
      BY <1>2, <2>3, <2>5, <3>1, EmptySeq DEF ListIs
    <3>2. CASE c # <<>>
      <4>1. 1 \in 1..Len(c)
        BY <1>2, <2>3, <3>2, EmptySeq
      <4> QED
        BY <1>2, <2>3, <3>2, <4>1 DEF ListIs
    <3> QED
      BY <3>1, <3>2
  <2>7. ASSUME NEW i \in 1..Len(d)
        PROVE  /\ d[i] \in s_live' /\ d[i] # s_tail'
               /\ s_data'[d[i]] = pushed'[i]
               /\ s_next'[d[i]] = IF i = Len(d) THEN s_tail' ELSE d[i + 1]
               /\ \A j \in 1..Len(d) : d[i] = d[j] => i = j
    <3>1. \A j \in 1..Len(d) : j \in 1..Len(c) \/ j = Len(d)
      BY <2>3
    <3>2. d[i] \in s_live' /\ d[i] # s_tail' /\ s_data'[d[i]] = pushed'[i]
      <4>1. CASE i \in 1..Len(c)
        <5>1. d[i] = c[i] /\ s_data[c[i]] = pushed[i] /\ pushed'[i] = pushed[i]
          BY <1>2, <2>3, <2>4, <2>5, <4>1 DEF ListIs
        <5> QED
          BY <2>5, <4>1, <5>1 DEF SingleInv, SingleTypes
      <4>2. CASE i = Len(d)
        <5>1. d[i] = s_tail /\ pushed'[i] = v
          BY <2>3, <2>4, <2>5, <4>2
        <5> QED
          BY <2>1, <5>1 DEF SingleInv, SingleTypes
      <4> QED
        BY <3>1, <4>1, <4>2
    <3>3. s_next'[d[i]] = IF i = Len(d) THEN s_tail' ELSE d[i + 1]
      <4>1. CASE i = Len(d)
        BY <2>1, <2>3, <4>1 DEF SingleInv, SingleTypes
      <4>2. CASE i # Len(d)
        <5>1. i \in 1..Len(c) /\ s_next'[c[i]] = s_next[c[i]]
          BY <2>5, <3>1, <4>2 DEF SingleInv, SingleTypes
        <5>2. i # Len(c) => i + 1 \in 1..Len(c)
          BY <2>3, <5>1
        <5> QED
          BY <1>2, <2>3, <2>5, <4>2, <5>1, <5>2 DEF ListIs
      <4> QED
        BY <4>1, <4>2
    <3>4. \A j \in 1..Len(d) : d[i] = d[j] => i = j
      BY <1>2, <2>3, <2>5, <3>1 DEF ListIs
    <3> QED
      BY <3>2, <3>3, <3>4
  <2>8. ListIs(d)'
    BY <2>3, <2>4, <2>5, <2>6, <2>7 DEF ListIs
  <2> QED
    BY <2>3, <2>8
<1>3. SingleTypes /\ \E c \in Seq(Node) : ListIs(c)
  BY DEF SingleInv
<1> QED
  BY <1>1, <1>2, <1>3 DEF SingleInv

\* head is the dummy when there is no value.
LEMMA HeadFacts ==
  ASSUME SingleInv, class \in Sequential!Dummy
  PROVE  s_head = s_tail <=> pushed = <<>>
<1>1. PICK c \in Seq(Node) : ListIs(c)
  BY DEF SingleInv
<1>2. Len(c) \in Nat /\ (c = <<>> <=> Len(c) = 0) /\ (pushed = <<>> <=> Len(pushed) = 0)
  BY EmptySeq, LenProperties DEF SingleInv, SingleTypes
<1>3. c # <<>> => 1 \in 1..Len(c)
  BY <1>2
<1> QED
  BY <1>1, <1>2, <1>3 DEF ListIs

\* A pop takes the first node, which is not the dummy.
LEMMA PopKeeps ==
  ASSUME SingleInv, class \in Sequential!Dummy, Sequential!Pop
  PROVE  SingleInv' /\ pushed # <<>> /\ answer' = Head(pushed)
<1> USE DEF Sequential!Pop
<1>1. pushed # <<>> /\ SingleTypes
  BY HeadFacts DEF Sequential!Plain, Sequential!Dummy, SingleInv
<1>2. PICK c \in Seq(Node) : ListIs(c)
  BY DEF SingleInv
<1>3. PICK d : d = Tail(c)
  OBVIOUS
<1>4. Len(c) \in Nat \ {0} /\ Len(pushed) = Len(c) /\ c # <<>> /\ 1 \in 1..Len(c)
  <2>1. Len(pushed) \in Nat \ {0}
    BY <1>1, TailFacts DEF SingleTypes
  <2>2. Len(pushed) = Len(c)
    BY <1>2 DEF ListIs
  <2> QED
    BY <2>1, <2>2, EmptySeq
<1>5. /\ d \in Seq(Node) /\ Len(d) = Len(c) - 1
      /\ \A i \in 1..(Len(c) - 1) : d[i] = c[i + 1]
  BY <1>3, <1>4, TailFacts
<1>6. /\ pushed' \in Seq(Value) /\ Len(pushed') = Len(c) - 1 /\ Head(pushed) = pushed[1]
      /\ \A i \in 1..(Len(c) - 1) : pushed'[i] = pushed[i + 1]
  BY <1>1, <1>4, TailFacts DEF SingleTypes
<1>7. s_head = c[1] /\ s_head \in Node /\ s_data[s_head] = pushed[1]
  BY <1>2, <1>4 DEF ListIs
<1>8. \A i \in 1..Len(d) : i + 1 \in 1..Len(c) /\ d[i] = c[i + 1] /\ c[i + 1] # s_head
  <2>1. ASSUME NEW i \in 1..Len(d) PROVE i + 1 \in 1..Len(c) /\ i + 1 # 1 /\ d[i] = c[i + 1]
    BY <1>4, <1>5
  <2>2. \A j \in 1..Len(c) : c[1] = c[j] => 1 = j
    BY <1>2, <1>4 DEF ListIs
  <2> QED
    BY <1>7, <2>1, <2>2
<1>9. d = <<>> <=> Len(c) = 1
  <2>1. d = <<>> <=> Len(d) = 0
    BY <1>5, EmptySeq
  <2> QED
    BY <1>4, <1>5, <2>1
<1>10. s_head' = IF d = <<>> THEN s_tail ELSE d[1]
  <2>1. s_next[s_head] = IF 1 = Len(c) THEN s_tail ELSE c[1 + 1]
    BY <1>2, <1>4, <1>7 DEF ListIs
  <2>2. Len(c) # 1 => 1 \in 1..Len(d)
    BY <1>4, <1>5
  <2> QED
    BY <1>8, <1>9, <2>1, <2>2
<1>11. s_tail \in s_live /\ s_tail \in Node /\ s_tail # s_head
  BY <1>2, <1>4, <1>7 DEF ListIs, SingleInv, SingleTypes
<1>12. SingleTypes'
  <2>1. d # <<>> => d[1] \in Node
    BY <1>5, EmptySeq
  <2> QED
    BY <1>1, <1>6, <1>10, <1>11, <2>1 DEF SingleTypes
<1>13. ListIs(d)'
  <2>1. ASSUME NEW i \in 1..Len(d)
        PROVE  /\ d[i] \in s_live' /\ s_data'[d[i]] = pushed'[i]
               /\ d[i] # s_tail
               /\ \A j \in 1..Len(d) : d[i] = d[j] => i = j
    <3>1. /\ d[i] \in s_live' /\ s_data'[d[i]] = pushed'[i]
          /\ d[i] # s_tail
      <4>1. /\ c[i + 1] \in s_live /\ s_data[c[i + 1]] = pushed[i + 1]
            /\ c[i + 1] # s_tail
        BY <1>2, <1>8 DEF ListIs
      <4>2. pushed'[i] = pushed[i + 1]
        BY <1>5, <1>6
      <4> QED
        BY <1>8, <4>1, <4>2
    <3>2. ASSUME NEW j \in 1..Len(d), d[i] = d[j] PROVE i = j
      <4>1. i + 1 = j + 1
        <5>1. /\ i + 1 \in 1..Len(c) /\ j + 1 \in 1..Len(c)
              /\ c[i + 1] = c[j + 1]
          BY <1>8, <3>2
        <5>2. \A k, l \in 1..Len(c) : c[k] = c[l] => k = l
          BY <1>2 DEF ListIs
        <5> QED
          BY <5>1, <5>2
      <4> QED
        BY <1>5, <4>1
    <3> QED
      BY <3>1, <3>2
  <2>2. ASSUME NEW i \in 1..Len(d)
        PROVE  s_next[d[i]] = IF i = Len(d) THEN s_tail ELSE d[i + 1]
    <3>1. s_next[c[i + 1]] = IF i + 1 = Len(c) THEN s_tail ELSE c[i + 1 + 1]
      BY <1>2, <1>8 DEF ListIs
    <3>2. i + 1 = Len(c) <=> i = Len(d)
      BY <1>4, <1>5
    <3>3. i # Len(d) => d[i + 1] = c[i + 1 + 1]
      BY <1>4, <1>5
    <3> QED
      BY <1>8, <3>1, <3>2, <3>3
  <2>3. Len(d) = Len(pushed') /\ UNCHANGED <<s_tail, s_next>>
    BY <1>5, <1>6
  <2> QED
    BY <1>10, <1>11, <2>1, <2>2, <2>3 DEF ListIs
<1> QED
  BY <1>1, <1>5, <1>6, <1>7, <1>12, <1>13 DEF SingleInv

\* Each step.
LEMMA SingleStep ==
  ASSUME SingleInv, [Sequential!Next]_(Sequential!vars)
  PROVE  /\ SingleInv'
         /\ Len(pushed') <= Len(pushed) /\ class \in Sequential!Dummy =>
              UNCHANGED Sequential!vars \/ Sequential!Answers
<1>1. CASE UNCHANGED Sequential!vars
  BY <1>1 DEF Sequential!vars, SingleInv, SingleTypes, ListIs
<1>2. CASE class \notin Sequential!Dummy
  BY <1>2 DEF Sequential!Next, Sequential!TryPop, Sequential!PushPlain, Sequential!PushDummy,
              Sequential!PopNothing, Sequential!Pop, Sequential!vars, SingleInv
<1>3. ASSUME class \in Sequential!Dummy, NEW v \in Value, NEW n \in Node,
             Sequential!PushPlain(v, n) \/ Sequential!PushDummy(v, n)
      PROVE  SingleInv' /\ ~(Len(pushed') <= Len(pushed))
  <2>1. Sequential!PushDummy(v, n)
    BY <1>3 DEF Sequential!PushPlain, Sequential!Plain, Sequential!Dummy
  <2>2. SingleInv'
    BY <1>3, <2>1, PushDummyKeeps
  <2>3. Len(pushed) \in Nat /\ Len(pushed') = Len(pushed) + 1
    BY <1>3, <2>1, AppendFacts DEF Sequential!PushDummy, SingleInv, SingleTypes
  <2> QED
    BY <2>2, <2>3
<1>4. CASE class \in Sequential!Dummy /\ Sequential!PopNothing
  <2>1. SingleInv'
    BY <1>4 DEF Sequential!PopNothing, SingleInv, SingleTypes, ListIs
  <2>2. s_head = s_tail /\ answer' = Nothing
    BY <1>4 DEF Sequential!PopNothing, Sequential!Plain, Sequential!Dummy
  <2> QED
    BY <1>4, <2>1, <2>2, HeadFacts DEF Sequential!Answers
<1>5. CASE class \in Sequential!Dummy /\ Sequential!Pop
  BY <1>5, PopKeeps DEF Sequential!Answers
<1> QED
  BY <1>1, <1>2, <1>3, <1>4, <1>5 DEF Sequential!Next, Sequential!TryPop

\* A pop of a queue with a dummy gives the oldest value, and none only if there
\* is none, for any values, however often the queue is emptied, and addresses
\* reused as the allocator likes (t_queue.h:113-159, chapter_6.h:51-89).
THEOREM DummyQueueIsFifo == Sequential!Spec => DummyIsFifo
<1>1. SingleInv /\ [Sequential!Next]_(Sequential!vars) => SingleInv'
  BY SingleStep
<1>2. SingleInv /\ [Sequential!Next]_(Sequential!vars) =>
        [Len(pushed') <= Len(pushed) /\ class \in Sequential!Dummy =>
           Sequential!Answers]_(Sequential!vars)
  BY SingleStep
<1> QED
  BY SingleInit, <1>1, <1>2, PTL DEF Sequential!Spec, DummyIsFifo, Sequential!DummyIsFifo
-----------------------------------------------------------------------------
(* The three together *)

\* What is proved of each module holds of the behaviours in which the others
\* are left alone: those the run of Queues checks.
THEOREM EachIsUsedAlone == QueuesSpec => Spec /\ Final!Spec /\ Sequential!Spec
<1>1. QueuesInit => Init /\ Final!Init /\ Sequential!Init
  BY DEF QueuesInit
<1>2. [QueuesNext]_<<chosen, vars, f_vars, s_vars>> =>
        [Next]_vars /\ [Final!Next]_(Final!vars) /\ [Sequential!Next]_(Sequential!vars)
  BY DEF QueuesNext, f_vars, s_vars, Final!vars, Final!heap, Final!mutex, Sequential!vars
<1> QED
  BY <1>1, <1>2, PTL DEF QueuesSpec, Spec, Final!Spec, Sequential!Spec
=============================================================================
