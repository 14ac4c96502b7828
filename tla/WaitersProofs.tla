--------------------------- MODULE WaitersProofs ---------------------------
(***************************************************************************)
(* Proofs about the threads that wait: simple_thread_pool, for any number  *)
(* of workers, none included, and any tasks that submit any others;        *)
(* parallel_accumulate on top of it, for any range, block size and blocks  *)
(* that throw; producer and consumer, for any threads and rounds.          *)
(***************************************************************************)
EXTENDS Waiters, SequenceTheorems, TLAPS
-----------------------------------------------------------------------------
(* simple_thread_pool *)

Waits(k) == \E n \in 1..Len(queue) : queue[n] = k
Runs(r)  == pc[r] = "run"

\* A task in the queue is pending, and is there once.
QueueInv ==
  /\ \A n \in 1..Len(queue) : future[queue[n]] = "pending"
  /\ \A n, j \in 1..Len(queue) : queue[n] = queue[j] => n = j

\* A task that runs is pending, has left the queue, and runs in one thread.
RunInv ==
  /\ \A r \in Runner :
       Runs(r) => task[r] \in Task /\ future[task[r]] = "pending" /\ ~Waits(task[r])
  /\ \A r, s \in Runner : Runs(r) /\ Runs(s) /\ task[r] = task[s] => r = s

\* A pending task waits or runs.
PendingInv ==
  \A k \in Task :
    future[k] = "pending" => Waits(k) \/ \E r \in Runner : Runs(r) /\ task[r] = k

TaskInv == QueueInv /\ RunInv /\ PendingInv

\* Where the threads are at each time of the pool's life.
LifeInv ==
  /\ pc[Owner] \in {"ready", "run"}
  /\ Runs(Owner) => phase = "open"
  /\ \A w \in Worker : pc[w] # "ready" /\ (pc[w] = "unborn" <=> w > spawned)
  /\ \A w \in 1..joined : pc[w] = "exited"
  /\ phase = "gone" => joined = spawned

IInv == TypeOK /\ TaskInv /\ LifeInv
-----------------------------------------------------------------------------
(* Sequences and threads *)

\* Append adds one element and keeps the others.
LEMMA AddLast ==
  ASSUME NEW S, NEW s \in Seq(S), NEW e \in S
  PROVE  /\ Append(s, e) \in Seq(S)
         /\ Len(Append(s, e)) = Len(s) + 1
         /\ \A n \in 1..Len(s) : Append(s, e)[n] = s[n]
         /\ Append(s, e)[Len(s) + 1] = e
  OBVIOUS

\* Head and Tail take a sequence that is not empty apart.
LEMMA TakeFirst ==
  ASSUME NEW S, NEW s \in Seq(S), s # <<>>
  PROVE  /\ Len(s) \in Nat \ {0}
         /\ Head(s) = s[1] /\ Head(s) \in S
         /\ Tail(s) \in Seq(S)
         /\ Len(Tail(s)) = Len(s) - 1
         /\ \A n \in 1..(Len(s) - 1) : Tail(s)[n] = s[n + 1]
<1>1. Len(s) \in Nat \ {0}
  BY EmptySeq
<1> QED
  BY <1>1

\* The owner is none of the workers.
LEMMA Threads ==
  /\ Owner \in Runner
  /\ \A w \in Worker : w \in Runner /\ w # Owner /\ w \in Nat /\ w >= 1
  /\ \A r \in Runner : r # Owner => r \in Worker
BY PoolAssumption DEF Runner, Worker, Owner
-----------------------------------------------------------------------------
(* What the steps do to the tasks *)

\* A step that moves no task, and starts and ends none.
LEMMA QuietStep ==
  ASSUME TaskInv, UNCHANGED <<queue, task, future>>,
         \A r \in Runner : Runs(r)' = Runs(r)
  PROVE  TaskInv' /\ \A k \in Task : Running(k)' = Running(k)
<1>1. QueueInv'
  BY DEF TaskInv, QueueInv
<1>2. \A k : Waits(k)' = Waits(k)
  BY DEF Waits
<1>3. RunInv' /\ PendingInv'
  BY <1>2 DEF TaskInv, RunInv, PendingInv
<1>4. \A k \in Task : Running(k)' = Running(k)
  BY DEF Running, Runs
<1> QED
  BY <1>1, <1>3, <1>4 DEF TaskInv

\* Thread r takes the first task of the queue: nobody was running it, and from
\* now on r is.
LEMMA TakeStep ==
  ASSUME TypeOK, TaskInv, NEW r \in Runner, ~Runs(r), queue # <<>>,
         TakeTask(r), Goto(r, "run"), UNCHANGED future
  PROVE  /\ queue' \in Seq(Task) /\ task' \in [Runner -> Task \cup {NoTask}]
         /\ TaskInv'
         /\ \E k \in Task :
              /\ future[k] = "pending"
              /\ Running(k) = {}
              /\ [j \in Task |-> Running(j)]' =
                   [[j \in Task |-> Running(j)] EXCEPT ![k] = {r}]
<1> USE DEF Runs
<1>a. PICK k : k = Head(queue)
  OBVIOUS
<1>4a. PICK q : q = Tail(queue)
  OBVIOUS
<1>c. queue \in Seq(Task) /\ task \in [Runner -> Task \cup {NoTask}]
  BY DEF TypeOK
<1>d. /\ Len(queue) \in Nat \ {0} /\ k = queue[1] /\ k \in Task
      /\ q \in Seq(Task) /\ Len(q) = Len(queue) - 1
      /\ \A n \in 1..(Len(queue) - 1) : q[n] = queue[n + 1]
  BY <1>a, <1>4a, <1>c, TakeFirst
<1>e. queue' = q /\ task' = [task EXCEPT ![r] = k] /\ pc' = [pc EXCEPT ![r] = "run"]
  BY <1>a, <1>4a DEF TakeTask, Goto
<1>f. pc \in [Runner -> {"unborn", "ready", "test", "pop", "run", "exited"}]
  BY DEF TypeOK
<1>1. queue' \in Seq(Task) /\ task' \in [Runner -> Task \cup {NoTask}]
  BY <1>c, <1>d, <1>e
<1>2. Waits(k) /\ future[k] = "pending"
  BY <1>d DEF Waits, TaskInv, QueueInv
<1>3. \A s \in Runner : Runs(s) => task[s] # k
  BY <1>2 DEF TaskInv, RunInv
<1>4. \A j : Waits(j)' => Waits(j) /\ j # k
  <2> SUFFICES ASSUME NEW j, Waits(j)' PROVE Waits(j) /\ j # k
    OBVIOUS
  <2>1. PICK n \in 1..(Len(queue) - 1) : q[n] = j
    BY <1>d, <1>e DEF Waits
  <2>2. queue[n + 1] = j /\ n + 1 \in 1..Len(queue) /\ n + 1 # 1 /\ 1 \in 1..Len(queue)
    BY <1>d, <2>1
  <2> QED
    BY <1>d, <2>2 DEF Waits, TaskInv, QueueInv
<1>5. \A j : Waits(j) /\ j # k => Waits(j)'
  <2> SUFFICES ASSUME NEW j, Waits(j), j # k PROVE Waits(j)'
    OBVIOUS
  <2>1. PICK n \in 1..Len(queue) : queue[n] = j
    BY DEF Waits
  <2>2. n - 1 \in 1..(Len(queue) - 1) /\ (n - 1) + 1 = n
    BY <1>d, <2>1
  <2>3. q[n - 1] = j
    BY <1>d, <2>1, <2>2
  <2> QED
    BY <1>d, <1>e, <2>2, <2>3 DEF Waits
<1>6. QueueInv'
  <2>1. \A n \in 1..Len(q) : n + 1 \in 1..Len(queue) /\ q[n] = queue[n + 1]
    BY <1>d
  <2>2. \A n \in 1..Len(q) : future[q[n]] = "pending"
    BY <2>1 DEF TaskInv, QueueInv
  <2>3. ASSUME NEW n \in 1..Len(q), NEW j \in 1..Len(q), q[n] = q[j] PROVE n = j
    <3>1. n + 1 = j + 1
      BY <2>1, <2>3 DEF TaskInv, QueueInv
    <3> QED
      BY <1>d, <3>1
  <2> QED
    BY <1>e, <2>2, <2>3 DEF QueueInv
<1>7. \A s \in Runner : /\ task'[s] = IF s = r THEN k ELSE task[s]
                        /\ Runs(s)' = (s = r \/ Runs(s))
  BY <1>c, <1>e, <1>f
<1>8. RunInv'
  BY <1>2, <1>3, <1>4, <1>7, <1>d DEF TaskInv, RunInv
<1>9. PendingInv'
  BY <1>5, <1>7 DEF TaskInv, PendingInv
<1>10. \A j \in Task : Running(j)' = IF j = k THEN {r} ELSE Running(j)
  BY <1>3, <1>7 DEF Running
<1>11. Running(k) = {}
  BY <1>3 DEF Running
<1> QED
  BY <1>1, <1>2, <1>6, <1>8, <1>9, <1>10, <1>11, <1>d DEF TaskInv

\* Thread r ends its task, whose future becomes ready.
LEMMA FinishStep ==
  ASSUME TypeOK, TaskInv, NEW r \in Runner, Finish(r)
  PROVE  /\ future' \in [Task -> {"none", "pending", "ready", "broken"}]
         /\ task' \in [Runner -> Task \cup {NoTask}]
         /\ TaskInv'
         /\ \E k \in Task :
              /\ Running(k) = {r}
              /\ [j \in Task |-> Running(j)]' =
                   [[j \in Task |-> Running(j)] EXCEPT ![k] = {}]
              /\ future' = [future EXCEPT ![k] = "ready"]
<1> USE DEF Runs
<1>a. PICK k : k = task[r]
  OBVIOUS
<1>4a. /\ Runs(r) /\ queue' = queue
      /\ future' = [future EXCEPT ![k] = "ready"]
      /\ task' = [task EXCEPT ![r] = NoTask]
      /\ pc' = [pc EXCEPT ![r] = IF r = Owner THEN "ready" ELSE "test"]
  BY <1>a DEF Finish, Goto
<1>c. k \in Task /\ ~Waits(k)
  BY <1>a, <1>4a DEF TaskInv, RunInv
<1>d. /\ future \in [Task -> {"none", "pending", "ready", "broken"}]
      /\ task \in [Runner -> Task \cup {NoTask}]
      /\ pc \in [Runner -> {"unborn", "ready", "test", "pop", "run", "exited"}]
      /\ queue \in Seq(Task)
  BY DEF TypeOK
<1>1. /\ future' \in [Task -> {"none", "pending", "ready", "broken"}]
      /\ task' \in [Runner -> Task \cup {NoTask}]
  BY <1>4a, <1>d
<1>2. \A j : Waits(j)' = Waits(j)
  BY <1>4a DEF Waits
<1>3. \A s \in Runner : /\ Runs(s)' = (Runs(s) /\ s # r)
                        /\ s # r => task'[s] = task[s]
  BY <1>4a, <1>d
<1>4. \A s \in Runner : Runs(s) /\ s # r => task[s] # k
  BY <1>a, <1>4a DEF TaskInv, RunInv
<1>5. \A j \in Task : j # k => future'[j] = future[j]
  BY <1>4a, <1>d
<1>6. QueueInv'
  <2>1. \A n \in 1..Len(queue) : queue[n] \in Task /\ queue[n] # k
    BY <1>c, <1>d DEF Waits
  <2> QED
    BY <1>4a, <1>5, <2>1 DEF TaskInv, QueueInv
<1>7. RunInv'
  BY <1>2, <1>3, <1>4, <1>5 DEF TaskInv, RunInv
<1>8. PendingInv'
  <2> SUFFICES ASSUME NEW j \in Task, future'[j] = "pending"
               PROVE  Waits(j)' \/ \E s \in Runner : Runs(s)' /\ task'[s] = j
    BY DEF PendingInv
  <2>1. j # k
    BY <1>4a, <1>c, <1>d
  <2>2. Waits(j) \/ \E s \in Runner : Runs(s) /\ task[s] = j
    BY <1>5, <2>1 DEF TaskInv, PendingInv
  <2> QED
    BY <1>2, <1>3, <1>a, <2>1, <2>2
<1>9. Running(k) = {r}
  BY <1>a, <1>4a, <1>4 DEF Running
<1>10. \A j \in Task : Running(j)' = IF j = k THEN {} ELSE Running(j)
  BY <1>3, <1>4, <1>a DEF Running
<1> QED
  BY <1>1, <1>6, <1>7, <1>8, <1>9, <1>10, <1>4a, <1>c DEF TaskInv

\* A new task goes to the end of the queue.
LEMMA EnqueueStep ==
  ASSUME TypeOK, TaskInv, NEW k \in Task, Enqueue(k)
  PROVE  /\ queue' \in Seq(Task)
         /\ future' \in [Task -> {"none", "pending", "ready", "broken"}]
         /\ TaskInv'
         /\ \A j \in Task : Running(j)' = Running(j)
<1> USE DEF Runs
<1>a. PICK q : q = Append(queue, k)
  OBVIOUS
<1>4a. /\ future[k] = "none" /\ queue' = q /\ UNCHANGED <<pc, task>>
      /\ future' = [future EXCEPT ![k] = "pending"]
  BY <1>a DEF Enqueue
<1>c. /\ queue \in Seq(Task) /\ Len(queue) \in Nat
      /\ future \in [Task -> {"none", "pending", "ready", "broken"}]
  BY LenProperties DEF TypeOK
<1>d. /\ q \in Seq(Task) /\ Len(q) = Len(queue) + 1 /\ q[Len(queue) + 1] = k
      /\ \A n \in 1..Len(queue) : q[n] = queue[n]
  BY <1>a, <1>c, AddLast
<1>1. future'[k] = "pending" /\ \A j \in Task : j # k => future'[j] = future[j]
  BY <1>4a, <1>c
<1>2. \A n \in 1..Len(queue) : queue[n] # k /\ queue[n] \in Task
  BY <1>4a, <1>c DEF TaskInv, QueueInv
<1>3. \A j : Waits(j)' = (Waits(j) \/ j = k)
  <2> SUFFICES ASSUME NEW j
               PROVE (\E n \in 1..Len(q) : q[n] = j) <=> (Waits(j) \/ j = k)
    BY <1>4a DEF Waits
  <2>1. ASSUME NEW n \in 1..Len(q), q[n] = j PROVE Waits(j) \/ j = k
    <3>1. n \in 1..Len(queue) \/ n = Len(queue) + 1
      BY <1>c, <1>d
    <3> QED
      BY <1>d, <2>1, <3>1 DEF Waits
  <2>2. ASSUME Waits(j) \/ j = k PROVE \E n \in 1..Len(q) : q[n] = j
    <3>1. \A n \in 1..Len(queue) : n \in 1..Len(q)
      BY <1>c, <1>d
    <3>2. Len(queue) + 1 \in 1..Len(q)
      BY <1>c, <1>d
    <3> QED
      BY <1>d, <2>2, <3>1, <3>2 DEF Waits
  <2> QED
    BY <2>1, <2>2
<1>4. QueueInv'
  <2>1. \A n \in 1..Len(q) : n \in 1..Len(queue) \/ n = Len(queue) + 1
    BY <1>c, <1>d
  <2>2. \A n \in 1..Len(q) : future'[q[n]] = "pending"
    BY <1>1, <1>2, <1>d, <2>1 DEF TaskInv, QueueInv
  <2>3. \A n, j \in 1..Len(q) : q[n] = q[j] => n = j
    BY <1>2, <1>d, <2>1 DEF TaskInv, QueueInv
  <2> QED
    BY <1>4a, <2>2, <2>3 DEF QueueInv
<1>5. \A r \in Runner : Runs(r) => task[r] # k
  BY <1>4a DEF TaskInv, RunInv
<1>6. RunInv'
  BY <1>1, <1>3, <1>5, <1>4a DEF TaskInv, RunInv
<1>7. PendingInv'
  BY <1>1, <1>3, <1>4a DEF TaskInv, PendingInv
<1>8. \A j \in Task : Running(j)' = Running(j)
  BY <1>4a DEF Running
<1> QED
  BY <1>4a, <1>c, <1>d, <1>4, <1>6, <1>7, <1>8 DEF TaskInv

\* When no thread runs a task, the destruction of the queue breaks every
\* promise that is still open, and no other.
LEMMA FreeStep ==
  ASSUME TypeOK, TaskInv, Free, \A r \in Runner : ~Runs(r)
  PROVE  /\ future' = [k \in Task |-> IF future[k] = "pending" THEN "broken" ELSE future[k]]
         /\ TaskInv'
         /\ \A k \in Task : Running(k) = {} /\ Running(k)' = {}
<1>1. \A k \in Task : future[k] = "pending" <=> k \in {queue[n] : n \in 1..Len(queue)}
  BY DEF TaskInv, PendingInv, QueueInv, Waits
<1>2. future' = [k \in Task |-> IF k \in {queue[n] : n \in 1..Len(queue)}
                                THEN "broken" ELSE future[k]]
  BY DEF Free
<1>3. future' = [k \in Task |-> IF future[k] = "pending" THEN "broken" ELSE future[k]]
  BY <1>1, <1>2
<1>4. queue' = <<>> /\ \A r \in Runner : ~Runs(r)'
  BY DEF Free, Runs
<1>5. QueueInv'
  BY <1>4, EmptySeq DEF QueueInv
<1>6. RunInv' /\ PendingInv'
  BY <1>3, <1>4 DEF RunInv, PendingInv
<1>7. \A k \in Task : Running(k) = {} /\ Running(k)' = {}
  BY <1>4 DEF Running, Runs
<1> QED
  BY <1>3, <1>5, <1>6, <1>7 DEF TaskInv
-----------------------------------------------------------------------------
(* The invariant *)

\* While a thread runs a task, the pool is not destroyed.
LEMMA RunsWhileOpen ==
  ASSUME TypeOK, LifeInv
  PROVE  /\ phase = "gone" => \A r \in Runner : ~Runs(r)
         /\ (phase = "joining" /\ joined = spawned) => \A r \in Runner : ~Runs(r)
         /\ phase = "gone" => \A w \in Worker : pc[w] \in {"unborn", "exited"}
<1>1. spawned \in Nat /\ joined \in Nat
  BY PoolAssumption DEF TypeOK
<1>2. ASSUME joined = spawned, NEW w \in Worker PROVE pc[w] \in {"unborn", "exited"}
  <2>1. CASE w > spawned
    BY <2>1 DEF LifeInv
  <2>2. CASE ~(w > spawned)
    <3>1. w \in 1..joined
      BY <1>1, <1>2, <2>2, Threads
    <3> QED
      BY <3>1 DEF LifeInv
  <2> QED
    BY <2>1, <2>2
<1> QED
  BY <1>2, Threads DEF LifeInv, Runs

\* The start.
LEMMA InitInv == Init => IInv
<1> SUFFICES ASSUME Init PROVE IInv
  OBVIOUS
<1>1. queue = <<>> /\ Len(queue) = 0 /\ queue \in Seq(Task)
  BY EmptySeq DEF Init
<1>2. TypeOK
  <2>1. spawned \in 0..Workers /\ joined \in 0..spawned
    BY PoolAssumption DEF Init
  <2>2. pc \in [Runner -> {"unborn", "ready", "test", "pop", "run", "exited"}]
    BY DEF Init
  <2>3. task \in [Runner -> Task \cup {NoTask}]
    BY DEF Init
  <2>4. future \in [Task -> {"none", "pending", "ready", "broken"}]
    BY DEF Init
  <2> QED
    BY <1>1, <2>1, <2>2, <2>3, <2>4 DEF Init, TypeOK
<1>3. TaskInv
  BY <1>1, PoolAssumption DEF Init, TaskInv, QueueInv, RunInv, PendingInv, Waits, Runs
<1>4. LifeInv
  BY Threads, PoolAssumption DEF Init, LifeInv, Runs, Worker, Owner, Runner
<1> QED
  BY <1>2, <1>3, <1>4 DEF IInv

\* The steps of the owner that move no task.
LEMMA OwnerInv ==
  ASSUME IInv, Spawn \/ SpawnFails \/ Constructed \/ Destroy \/ Join
  PROVE  IInv' /\ \A k \in Task : Running(k)' = Running(k)
<1>1. spawned \in Nat /\ joined \in Nat /\ Workers \in Nat /\ joined <= spawned
        /\ spawned <= Workers
  BY PoolAssumption DEF IInv, TypeOK
<1>2. UNCHANGED <<queue, task, future>>
  BY DEF Spawn, SpawnFails, Constructed, Destroy, Join
<1>3. CASE Spawn
  <2>1. /\ spawned' = spawned + 1 /\ spawned < Workers
             /\ pc' = [pc EXCEPT ![spawned + 1] = "test"]
        /\ UNCHANGED <<done, joined, phase>> /\ phase = "constructing"
    BY <1>3 DEF Spawn, Goto
  <2>2. spawned + 1 \in Worker /\ spawned + 1 \in Runner
    BY <1>1, <2>1, Threads DEF Worker
  <2>3. \A r \in Runner : pc'[r] = IF r = spawned + 1 THEN "test" ELSE pc[r]
    BY <2>1 DEF IInv, TypeOK
  <2>4. pc[spawned + 1] = "unborn"
    BY <1>1, <2>2 DEF IInv, LifeInv
  <2>5. \A r \in Runner : Runs(r)' = Runs(r)
    BY <2>3, <2>4 DEF Runs
  <2>6. TypeOK'
    <3>1. spawned' \in 0..Workers /\ joined' \in 0..spawned'
      BY <1>1, <2>1
    <3>2. pc' \in [Runner -> {"unborn", "ready", "test", "pop", "run", "exited"}]
      BY <2>1 DEF IInv, TypeOK
    <3> QED
      BY <1>2, <2>1, <3>1, <3>2 DEF IInv, TypeOK
  <2>7. LifeInv'
    <3>1. \A w \in Worker : pc'[w] # "ready" /\ (pc'[w] = "unborn" <=> w > spawned')
      <4> SUFFICES ASSUME NEW w \in Worker
                   PROVE  pc'[w] # "ready" /\ (pc'[w] = "unborn" <=> w > spawned')
        OBVIOUS
      <4>1. CASE w = spawned + 1
        BY <1>1, <2>1, <2>2, <2>3, <4>1
      <4>2. CASE w # spawned + 1
        <5>1. pc'[w] = pc[w]
          BY <2>3, <4>2, Threads
        <5>2. w > spawned <=> w > spawned'
          BY <1>1, <2>1, <4>2, Threads
        <5> QED
          BY <5>1, <5>2 DEF IInv, LifeInv
      <4> QED
        BY <4>1, <4>2
    <3>2. \A w \in 1..joined : w \in Runner /\ w # spawned + 1
      BY <1>1, Threads DEF Worker
    <3>3. \A w \in 1..joined' : pc'[w] = "exited"
      BY <2>1, <2>3, <3>2 DEF IInv, LifeInv
    <3>4. pc'[Owner] = pc[Owner]
      BY <2>2, <2>3, Threads
    <3> QED
      BY <2>1, <3>1, <3>3, <3>4 DEF IInv, LifeInv, Runs
  <2> QED
    BY <1>2, <2>5, <2>6, <2>7, QuietStep DEF IInv
<1>4. CASE SpawnFails \/ Constructed \/ Destroy
  <2>1. pc' = pc /\ spawned' = spawned /\ joined' = joined
    BY <1>4 DEF SpawnFails, Constructed, Destroy
  <2>2. ~Runs(Owner) /\ phase' # "gone"
    BY <1>4 DEF SpawnFails, Constructed, Destroy, IInv, LifeInv, Runs
  <2>3. TypeOK'
    BY <1>2, <1>4, <2>1 DEF SpawnFails, Constructed, Destroy, IInv, TypeOK
  <2>4. LifeInv'
    BY <2>1, <2>2 DEF IInv, LifeInv, Runs
  <2> QED
    BY <1>2, <2>1, <2>3, <2>4, QuietStep DEF IInv, Runs
<1>5. CASE Join
  <2>1. /\ joined' = joined + 1 /\ joined < spawned /\ pc[joined + 1] = "exited"
        /\ UNCHANGED <<done, spawned, pc>> /\ phase' = phase /\ phase = "joining"
    BY <1>5 DEF Join
  <2>2. TypeOK'
    BY <1>1, <1>2, <2>1 DEF IInv, TypeOK
  <2>3. \A w \in 1..joined' : w \in 1..joined \/ w = joined + 1
    BY <1>1, <2>1
  <2>4. LifeInv'
    BY <2>1, <2>3 DEF IInv, LifeInv, Runs
  <2> QED
    BY <1>2, <2>1, <2>2, <2>4, QuietStep DEF IInv, Runs
<1> QED
  BY <1>3, <1>4, <1>5

\* A thread that moves between the positions of its loop.
LEMMA MoveInv ==
  ASSUME IInv, NEW r \in Runner, NEW l, Goto(r, l),
         l \in (IF r = Owner THEN {"ready", "run"} ELSE {"test", "pop", "run", "exited"}),
         pc[r] \in {"ready", "test", "pop", "run"},
         r = Owner /\ l = "run" => phase = "open",
         UNCHANGED <<spawned, joined, phase>>
  PROVE  /\ pc' \in [Runner -> {"unborn", "ready", "test", "pop", "run", "exited"}]
         /\ \A s \in Runner : pc'[s] = IF s = r THEN l ELSE pc[s]
         /\ LifeInv'
<1>1. pc \in [Runner -> {"unborn", "ready", "test", "pop", "run", "exited"}]
  BY DEF IInv, TypeOK
<1>2. /\ pc' \in [Runner -> {"unborn", "ready", "test", "pop", "run", "exited"}]
      /\ \A s \in Runner : pc'[s] = IF s = r THEN l ELSE pc[s]
  BY <1>1 DEF Goto
<1>3. \A w \in 1..joined : w \in Runner
  BY PoolAssumption DEF IInv, TypeOK, Runner, Worker
<1>4. \A w \in 1..joined' : pc'[w] = "exited"
  BY <1>2, <1>3 DEF IInv, LifeInv
<1>5. pc'[Owner] \in {"ready", "run"} /\ (pc'[Owner] = "run" => phase' = "open")
  BY <1>2, Threads DEF IInv, LifeInv, Runs
<1>6. \A w \in Worker : pc'[w] # "ready" /\ (pc'[w] = "unborn" <=> w > spawned')
  BY <1>2, Threads DEF IInv, LifeInv
<1> QED
  BY <1>2, <1>4, <1>5, <1>6 DEF IInv, LifeInv, Runs

\* A step that takes a task, by a worker or by the owner.
LEMMA TakeInv ==
  ASSUME IInv, NEW r \in Runner, queue # <<>>, TakeTask(r), Goto(r, "run"),
         IF r = Owner THEN phase = "open" /\ pc[r] = "ready" ELSE pc[r] = "pop",
         UNCHANGED <<done, spawned, joined, phase, future>>
  PROVE  /\ IInv'
         /\ \E k \in Task :
              /\ future[k] = "pending"
              /\ Running(k) = {}
              /\ [j \in Task |-> Running(j)]' =
                   [[j \in Task |-> Running(j)] EXCEPT ![k] = {r}]
<1>1. ~Runs(r)
  BY DEF Runs
<1>2. /\ LifeInv'
      /\ pc' \in [Runner -> {"unborn", "ready", "test", "pop", "run", "exited"}]
  BY MoveInv
<1>3. /\ queue' \in Seq(Task) /\ task' \in [Runner -> Task \cup {NoTask}] /\ TaskInv'
      /\ \E k \in Task :
           /\ future[k] = "pending"
           /\ Running(k) = {}
           /\ [j \in Task |-> Running(j)]' =
                [[j \in Task |-> Running(j)] EXCEPT ![k] = {r}]
  BY <1>1, TakeStep DEF IInv
<1> QED
  BY <1>2, <1>3 DEF IInv, TypeOK

\* A step that ends a task.
LEMMA FinishInv ==
  ASSUME IInv, NEW r \in Runner, Finish(r)
  PROVE  IInv'
<1>1. LifeInv' /\ pc' \in [Runner -> {"unborn", "ready", "test", "pop", "run", "exited"}]
  <2>1. Goto(r, IF r = Owner THEN "ready" ELSE "test") /\ pc[r] = "run"
        /\ UNCHANGED <<spawned, joined, phase>>
    BY DEF Finish
  <2> QED
    BY <2>1, MoveInv
<1>2. /\ future' \in [Task -> {"none", "pending", "ready", "broken"}]
      /\ task' \in [Runner -> Task \cup {NoTask}]
      /\ TaskInv'
  BY FinishStep DEF IInv
<1> QED
  BY <1>1, <1>2 DEF IInv, TypeOK, Finish

\* A step that submits a task.
LEMMA EnqueueInv ==
  ASSUME IInv, NEW k \in Task, Enqueue(k)
  PROVE  IInv' /\ \A j \in Task : Running(j)' = Running(j)
<1>1. /\ queue' \in Seq(Task)
      /\ future' \in [Task -> {"none", "pending", "ready", "broken"}]
      /\ TaskInv'
      /\ \A j \in Task : Running(j)' = Running(j)
  BY EnqueueStep DEF IInv
<1>2. TypeOK' /\ LifeInv'
  BY <1>1 DEF IInv, TypeOK, LifeInv, Enqueue, Runs
<1> QED
  BY <1>1, <1>2 DEF IInv

\* A step of a worker that takes and ends no task.
LEMMA IdleInv ==
  ASSUME IInv, NEW w \in Worker, TestDone(w) \/ (PopTask(w) /\ queue = <<>>)
  PROVE  IInv' /\ \A k \in Task : Running(k)' = Running(k)
<1>1. w \in Runner /\ w # Owner
  BY Threads
<1>2. /\ UNCHANGED <<done, queue, spawned, joined, phase, task, future>>
      /\ pc[w] \in {"test", "pop"}
      /\ \E l \in {"test", "pop", "exited"} : Goto(w, l)
  BY DEF TestDone, PopTask
<1>3. PICK l \in {"test", "pop", "exited"} : Goto(w, l)
  BY <1>2
<1>4. /\ LifeInv'
      /\ pc' \in [Runner -> {"unborn", "ready", "test", "pop", "run", "exited"}]
      /\ \A s \in Runner : pc'[s] = IF s = w THEN l ELSE pc[s]
  BY <1>1, <1>2, <1>3, MoveInv
<1>5. \A s \in Runner : Runs(s)' = Runs(s)
  BY <1>2, <1>4 DEF Runs
<1>6. TaskInv' /\ \A k \in Task : Running(k)' = Running(k)
  BY <1>2, <1>5, QuietStep DEF IInv
<1>7. TypeOK'
  BY <1>2, <1>4 DEF IInv, TypeOK
<1> QED
  BY <1>4, <1>6, <1>7 DEF IInv

\* The end of the pool.
LEMMA FreeInv ==
  ASSUME IInv, Free
  PROVE  /\ IInv'
         /\ future' = [k \in Task |-> IF future[k] = "pending" THEN "broken" ELSE future[k]]
         /\ \A k \in Task : Running(k) = {} /\ Running(k)' = {}
<1>1. \A r \in Runner : ~Runs(r)
  BY RunsWhileOpen DEF IInv, Free
<1>2. /\ future' = [k \in Task |-> IF future[k] = "pending" THEN "broken" ELSE future[k]]
      /\ TaskInv'
      /\ \A k \in Task : Running(k) = {} /\ Running(k)' = {}
  BY <1>1, FreeStep DEF IInv
<1>3. queue' = <<>> /\ queue' \in Seq(Task)
  BY EmptySeq DEF Free
<1>4. future' \in [Task -> {"none", "pending", "ready", "broken"}]
  BY <1>2 DEF IInv, TypeOK
<1>5. TypeOK'
  BY <1>3, <1>4 DEF IInv, TypeOK, Free
<1>6. LifeInv'
  BY <1>1, Threads DEF IInv, LifeInv, Free, Runs
<1> QED
  BY <1>2, <1>5, <1>6 DEF IInv

\* Each step.
LEMMA StepInv == IInv /\ [Next]_pool_vars => IInv'
<1> SUFFICES ASSUME IInv, [Next]_pool_vars PROVE IInv'
  OBVIOUS
<1>1. CASE Spawn \/ SpawnFails \/ Constructed \/ Destroy \/ Join
  BY <1>1, OwnerInv
<1>2. ASSUME NEW k \in Task, Submit(k) PROVE IInv'
  BY <1>2, EnqueueInv DEF Submit
<1>3. ASSUME NEW r \in Runner, NEW k \in Task, SubmitNested(r, k) PROVE IInv'
  BY <1>3, EnqueueInv DEF SubmitNested
<1>4. CASE RunPendingTask
  BY <1>4, TakeInv, Threads DEF RunPendingTask
<1>5. ASSUME NEW r \in Runner, Finish(r) PROVE IInv'
  BY <1>5, FinishInv
<1>6. ASSUME NEW w \in Worker, TestDone(w) PROVE IInv'
  BY <1>6, IdleInv
<1>7. ASSUME NEW w \in Worker, PopTask(w) PROVE IInv'
  <2>1. CASE queue = <<>>
    BY <1>7, <2>1, IdleInv
  <2>2. CASE queue # <<>>
    BY <1>7, <2>2, TakeInv, Threads DEF PopTask
  <2> QED
    BY <2>1, <2>2
<1>8. CASE Free
  BY <1>8, FreeInv
<1>9. CASE UNCHANGED pool_vars
  BY <1>9, QuietStep DEF pool_vars, IInv, TypeOK, LifeInv, Runs
<1> QED
  BY <1>1, <1>2, <1>3, <1>4, <1>5, <1>6, <1>7, <1>8, <1>9, Threads
  DEF Next, OwnerStep, WorkerStep

\* The invariant that the theorems rest on: where each pending task is, and
\* where each thread is at each time of the pool's life (chapter_9.h:110-173).
THEOREM Inductive == Spec => []IInv
BY InitInv, StepInv, PTL DEF Spec

\* Once the pool is gone no worker will touch its members again, for any
\* number of workers, and when the constructor fails (join_threads,
\* chapter_8.h:126-141).
THEOREM MembersOutliveWorkers == Spec => []NoUseAfterFree
<1>1. IInv => NoUseAfterFree
  BY RunsWhileOpen DEF IInv, NoUseAfterFree
<1> QED
  BY Inductive, <1>1, PTL
-----------------------------------------------------------------------------
(* The pool implements TaskPool *)

Taken == [k \in Task |-> Running(k)]

\* A step that changes none of the futures, starts and ends no task, and does
\* not destroy the pool is none of TaskPool.
LEMMA StutterStep ==
  ASSUME \A k \in Task : Running(k)' = Running(k), UNCHANGED future,
         (phase = "gone")' = (phase = "gone")
  PROVE  UNCHANGED Pool!vars
<1>1. Taken' = Taken
  BY DEF Taken
<1> QED
  BY <1>1 DEF Pool!vars, Taken

\* A step that enqueues a task submits it.
LEMMA SubmitRefines ==
  ASSUME IInv, NEW k \in Task, Enqueue(k), phase # "gone"
  PROVE  Pool!Submit(k)
<1>1. Taken' = Taken
  BY EnqueueInv DEF Taken
<1> QED
  BY <1>1 DEF Enqueue, Pool!Submit, Taken

\* A step that takes a task out of the queue gives it to a thread.
LEMMA TakeRefines ==
  ASSUME IInv, NEW r \in Runner, queue # <<>>, TakeTask(r), Goto(r, "run"),
         IF r = Owner THEN phase = "open" /\ pc[r] = "ready" ELSE pc[r] = "pop",
         UNCHANGED <<done, spawned, joined, phase, future>>
  PROVE  \E k \in Task : Pool!Take(k, r)
<1>1. phase # "gone"
  BY RunsWhileOpen, Threads DEF IInv
<1>2. PICK k \in Task :
        /\ future[k] = "pending"
        /\ Running(k) = {}
        /\ Taken' = [Taken EXCEPT ![k] = {r}]
  BY TakeInv DEF Taken
<1>3. Pool!Take(k, r)
  BY <1>1, <1>2 DEF Pool!Take, Taken
<1> QED
  BY <1>3

\* The end of a task resolves its future.
LEMMA FinishRefines ==
  ASSUME IInv, NEW r \in Runner, Finish(r)
  PROVE  \E k \in Task : Pool!Resolve(k, r)
<1>1. phase # "gone" /\ phase' = phase
  BY RunsWhileOpen DEF IInv, Finish, Runs
<1>2. PICK k \in Task :
        /\ Running(k) = {r}
        /\ Taken' = [Taken EXCEPT ![k] = {}]
        /\ future' = [future EXCEPT ![k] = "ready"]
  BY FinishStep DEF IInv, Taken
<1>3. Pool!Resolve(k, r)
  BY <1>1, <1>2 DEF Pool!Resolve, Taken
<1> QED
  BY <1>3

\* The end of the pool closes it.
LEMMA FreeRefines ==
  ASSUME IInv, Free
  PROVE  Pool!Close
<1>1. phase # "gone" /\ phase' = "gone"
  BY DEF Free
<1>2. /\ future' = [k \in Task |-> IF future[k] = "pending" THEN "broken" ELSE future[k]]
      /\ \A k \in Task : Running(k) = {} /\ Running(k)' = {}
  BY FreeInv
<1>3. Taken' = Taken
  BY <1>2 DEF Taken
<1> QED
  BY <1>1, <1>2, <1>3 DEF Pool!Close, Taken

\* The start.
LEMMA InitRefines == Init => Pool!Init
<1> SUFFICES ASSUME Init PROVE Pool!Init
  OBVIOUS
<1>1. \A k \in Task : Running(k) = {}
  BY DEF Init, Running
<1> QED
  BY <1>1 DEF Init, Pool!Init

\* Each step.
LEMMA NextRefines == IInv /\ [Next]_pool_vars => [Pool!Next]_(Pool!vars)
<1> SUFFICES ASSUME IInv, [Next]_pool_vars PROVE [Pool!Next]_(Pool!vars)
  OBVIOUS
<1>1. CASE Spawn \/ SpawnFails \/ Constructed \/ Destroy \/ Join
  <2>1. UNCHANGED future /\ (phase = "gone")' = (phase = "gone")
    BY <1>1 DEF Spawn, SpawnFails, Constructed, Destroy, Join
  <2> QED
    BY <1>1, <2>1, OwnerInv, StutterStep
<1>2. ASSUME NEW k \in Task, Submit(k) PROVE Pool!Next
  <2>1. Pool!Submit(k)
    BY <1>2, SubmitRefines DEF Submit
  <2> QED
    BY <2>1 DEF Pool!Next
<1>3. ASSUME NEW r \in Runner, NEW k \in Task, SubmitNested(r, k) PROVE Pool!Next
  <2>1. phase # "gone" /\ Enqueue(k)
    BY <1>3, RunsWhileOpen DEF IInv, SubmitNested, Runs
  <2>2. Pool!Submit(k)
    BY <2>1, SubmitRefines
  <2> QED
    BY <2>2 DEF Pool!Next
<1>4. CASE RunPendingTask
  <2>1. \E k \in Task : Pool!Take(k, Owner)
    BY <1>4, TakeRefines, Threads DEF RunPendingTask
  <2> QED
    BY <2>1, Threads DEF Pool!Next
<1>5. ASSUME NEW r \in Runner, Finish(r) PROVE Pool!Next
  BY <1>5, FinishRefines DEF Pool!Next
<1>6. ASSUME NEW w \in Worker, TestDone(w) \/ (PopTask(w) /\ queue = <<>>)
      PROVE  UNCHANGED Pool!vars
  <2>1. UNCHANGED future /\ (phase = "gone")' = (phase = "gone")
    BY <1>6 DEF TestDone, PopTask
  <2> QED
    BY <1>6, <2>1, IdleInv, StutterStep
<1>7. ASSUME NEW w \in Worker, PopTask(w), queue # <<>> PROVE Pool!Next
  <2>1. \E k \in Task : Pool!Take(k, w)
    BY <1>7, TakeRefines, Threads DEF PopTask
  <2> QED
    BY <2>1, Threads DEF Pool!Next
<1>8. CASE Free
  BY <1>8, FreeRefines DEF Pool!Next
<1>9. CASE UNCHANGED pool_vars
  <2>1. \A k \in Task : Running(k)' = Running(k)
    BY <1>9 DEF pool_vars, Running
  <2> QED
    BY <1>9, <2>1, StutterStep DEF pool_vars
<1> QED
  BY <1>1, <1>2, <1>3, <1>4, <1>5, <1>6, <1>7, <1>8, <1>9, Threads
  DEF Next, OwnerStep, WorkerStep

\* Every submitted task is taken once, by one thread, and resolved once; the
\* promises broken at the end are exactly those nobody took, for any number
\* of workers and tasks that submit others (chapter_9.h:110-119, 145-173).
THEOREM PoolRunsTasks == Spec => RunsTasks
BY InitRefines, NextRefines, Inductive, PTL DEF Spec, RunsTasks, Pool!Spec
-----------------------------------------------------------------------------
(* parallel_accumulate *)

\* The caller cuts one of its inputs, and submits the blocks before the last.
CallerTypes == input \in Inputs /\ i \in Nat

\* A step of the caller or of a worker is a step of the pool, or none.
LEMMA StepIsPools ==
  ASSUME AccumulateAssumption, CallerTypes, [PANext]_vars
  PROVE  CallerTypes' /\ [Next]_pool_vars
<1>1. CASE Enter
  BY <1>1 DEF Enter, CallerTypes
<1>2. CASE Construct
  BY <1>2 DEF Construct, CallerTypes, Next, OwnerStep
<1>3. CASE SubmitBlock
  <2>1. NumBlocks \in Int /\ i + 1 \in 1..(NumBlocks - 1)
    BY <1>3, LenProperties DEF SubmitBlock, CallerTypes, NumBlocks, AccumulateAssumption
  <2>2. i + 1 \in Task
    BY <2>1 DEF CallerTypes, NumBlocks, AccumulateAssumption
  <2> QED
    BY <1>3, <2>2 DEF SubmitBlock, CallerTypes, Next, OwnerStep
<1>4. CASE SumLast
  BY <1>4 DEF SumLast, Leave, CallerTypes, Next, OwnerStep
<1>5. CASE Collect
  BY <1>5 DEF Collect, Leave, CallerTypes, Next, OwnerStep
<1>6. CASE ReturnSum
  BY <1>6 DEF ReturnSum, Leave, CallerTypes, Next, OwnerStep
<1>7. CASE LeavePool
  BY <1>7 DEF LeavePool, CallerTypes, Next, OwnerStep
<1>8. CASE WorkerSteps
  BY <1>8 DEF WorkerSteps, caller_vars, CallerTypes, Next
<1>9. CASE UNCHANGED vars
  BY <1>9 DEF vars, caller_vars, CallerTypes
<1> QED
  BY <1>1, <1>2, <1>3, <1>4, <1>5, <1>6, <1>7, <1>8, <1>9 DEF PANext, CallerStep

\* The caller uses the pool as simple_thread_pool is specified: what is proved
\* of the pool holds of the pool of every call, exceptions included
\* (chapter_9.h:208-241).
THEOREM CallerUsesPool == ASSUME AccumulateAssumption PROVE PASpec => Spec
<1>1. PAInit => Init /\ CallerTypes
  BY DEF PAInit, CallerTypes
<1> QED
  BY <1>1, StepIsPools, PTL DEF PASpec, Spec

\* Before the pool is built, and after it is gone, it holds no task.
EmptyPool ==
  /\ at = "entry" => spawned = 0 /\ queue = <<>> /\ phase = "constructing"
  /\ at = "left" =>
       queue = <<>> /\ (phase = "gone" \/ (spawned = 0 /\ phase = "constructing"))

\* Such a pool runs no task.
LEMMA NobodyRuns ==
  ASSUME IInv, phase = "gone" \/ (spawned = 0 /\ phase = "constructing")
  PROVE  \A r \in Runner : pc[r] \notin {"test", "pop", "run"}
<1>1. \A w \in Worker : pc[w] \in {"unborn", "exited"}
  <2>1. CASE phase = "gone"
    BY <2>1, RunsWhileOpen DEF IInv
  <2>2. CASE spawned = 0
    BY <2>2, Threads DEF IInv, LifeInv
  <2> QED
    BY <2>1, <2>2
<1>2. pc[Owner] = "ready"
  BY DEF IInv, LifeInv, Runs
<1> QED
  BY <1>1, <1>2, Threads

\* Each step.
LEMMA EmptyPoolStep == IInv /\ EmptyPool /\ [PANext]_vars => EmptyPool'
<1> SUFFICES ASSUME IInv, EmptyPool, [PANext]_vars PROVE EmptyPool'
  OBVIOUS
<1>1. CASE Enter
  <2>1. at = "entry" /\ at' # "entry" /\ UNCHANGED <<queue, phase, spawned>>
    BY <1>1 DEF Enter, pool_vars
  <2> QED
    BY <2>1 DEF EmptyPool
<1>2. CASE Construct
  BY <1>2 DEF Construct, EmptyPool
<1>3. CASE SubmitBlock
  BY <1>3 DEF SubmitBlock, EmptyPool
<1>4. CASE SumLast
  BY <1>4 DEF SumLast, Leave, EmptyPool
<1>5. CASE Collect
  BY <1>5 DEF Collect, Leave, EmptyPool
<1>6. CASE ReturnSum
  BY <1>6 DEF ReturnSum, Leave, EmptyPool
<1>7. CASE LeavePool
  BY <1>7 DEF LeavePool, Join, Free, EmptyPool
<1>8. CASE WorkerSteps
  <2>1. PICK w \in Worker : WorkerStep(w) /\ UNCHANGED caller_vars
    BY <1>8 DEF WorkerSteps
  <2>2. pc[w] \in {"test", "pop", "run"}
    BY <2>1 DEF WorkerStep, TestDone, PopTask, Finish
  <2>3. at \notin {"entry", "left"}
    BY <2>2, NobodyRuns, Threads DEF EmptyPool
  <2> QED
    BY <2>1, <2>3 DEF caller_vars, EmptyPool
<1>9. CASE UNCHANGED vars
  BY <1>9 DEF vars, caller_vars, pool_vars, EmptyPool
<1> QED
  BY <1>1, <1>2, <1>3, <1>4, <1>5, <1>6, <1>7, <1>8, <1>9 DEF PANext, CallerStep

\* When the caller has left, with a value or an exception, no task can read
\* the range any more, for any range and any number of workers (chapter_9.h:
\* 224-241).
THEOREM RangeIsSafe == ASSUME AccumulateAssumption PROVE PASpec => []RangeOutlivesTasks
<1>1. PAInit => EmptyPool
  BY DEF PAInit, Init, EmptyPool
<1>2. IInv /\ EmptyPool => RangeOutlivesTasks
  BY NobodyRuns DEF EmptyPool, RangeOutlivesTasks
<1> QED
  BY <1>1, <1>2, EmptyPoolStep, CallerUsesPool, Inductive, PTL DEF PASpec

\* The range is cut into blocks, and the last one begins inside of it.
LEMMA Blocks ==
  ASSUME AccumulateAssumption, CallerTypes, input # <<>>
  PROVE  /\ NumBlocks \in Nat \ {0} /\ input \in Seq(Element) /\ Len(input) \in Nat
         /\ \A k \in 0..(NumBlocks - 1) : k * BlockSize \in 0..Len(input)
<1>1. input \in Seq(Element) /\ Len(input) \in Nat \ {0} /\ BlockSize \in Nat \ {0}
  BY EmptySeq DEF CallerTypes, AccumulateAssumption
<1>2. \A d \in Nat, b \in Nat \ {0} :
        /\ (d + b - 1) \div b \in Nat
        /\ d # 0 => (d + b - 1) \div b # 0
        /\ ((d + b - 1) \div b) * b <= d + b - 1
  OBVIOUS
<1>3. /\ NumBlocks \in Nat \ {0}
      /\ NumBlocks * BlockSize <= Len(input) + BlockSize - 1
  BY <1>1, <1>2 DEF NumBlocks
<1>4. ASSUME NEW k \in 0..(NumBlocks - 1)
      PROVE  k * BlockSize \in 0..Len(input)
  <2>1. \A d, m, b \in Nat : d <= m - 1 => d * b <= (m - 1) * b
    OBVIOUS
  <2>2. k * BlockSize <= (NumBlocks - 1) * BlockSize
    BY <1>1, <1>3, <1>4, <2>1
  <2>3. (NumBlocks - 1) * BlockSize = NumBlocks * BlockSize - BlockSize
    BY <1>1, <1>3
  <2>4. k * BlockSize \in Nat
    BY <1>1, <1>3, <1>4
  <2> QED
    BY <1>1, <1>3, <2>2, <2>3, <2>4
<1> QED
  BY <1>1, <1>3, <1>4

\* What result adds up: nothing before the futures are collected, then the
\* blocks before the i-th, none of which threw.
SumInv ==
  /\ bad \subseteq 1..NumBlocks
  /\ at \in {"entry", "construct", "submit"} => result = <<>>
  /\ at \notin {"entry", "left"} => input # <<>>
  /\ at = "submit" => i \in 0..(NumBlocks - 1)
  /\ at = "construct" => i = 0
  /\ at = "entry" => i = 0
  /\ at = "collect" =>
       /\ i \in 0..(NumBlocks - 1)
       /\ result = SubSeq(input, 1, i * BlockSize)
       /\ bad \cap (1..i \cup {NumBlocks}) = {}
  /\ at \in {"leave", "left"} =>
       \/ outcome = "value" /\ bad = {} /\ result = input
       \/ outcome = "threw" /\ (bad # {} \/ spawned < Workers)

\* The caller adds the next block to the sum.
LEMMA AddBlock ==
  ASSUME AccumulateAssumption, CallerTypes, input # <<>>,
         i \in 0..(NumBlocks - 1), result = SubSeq(input, 1, i * BlockSize)
  PROVE  result \o Block(i + 1) =
           IF i = NumBlocks - 1 THEN input ELSE SubSeq(input, 1, (i + 1) * BlockSize)
<1>1. /\ NumBlocks \in Nat \ {0} /\ input \in Seq(Element) /\ Len(input) \in Nat
      /\ i * BlockSize \in 0..Len(input)
      /\ i # NumBlocks - 1 => (i + 1) * BlockSize \in 0..Len(input)
  BY Blocks
<1>2. BlockSize \in Nat \ {0}
  BY DEF AccumulateAssumption
<1>3. /\ i \in Nat /\ ((i + 1) - 1) * BlockSize = i * BlockSize
      /\ i * BlockSize <= (i + 1) * BlockSize
  BY <1>1, <1>2
<1>4. ASSUME NEW n \in 0..Len(input), i * BlockSize <= n
      PROVE  result \o SubSeq(input, i * BlockSize + 1, n) = SubSeq(input, 1, n)
  <2>1. \A m \in 0..Len(input) :
          m <= n => SubSeq(input, 1, m) \o SubSeq(input, m + 1, n) = SubSeq(input, 1, n)
    <3> TAKE m \in 0..Len(input)
    <3> HAVE m <= n
    <3>1. 1 \in 1..(Len(input) + 1) /\ m \in (1 - 1)..Len(input) /\ n \in m..Len(input)
      BY <1>1
    <3> QED
      BY <1>1, <3>1, ConcatAdjacentSubSeq
  <2> QED
    BY <1>1, <1>4, <2>1
<1>4a. Block(i + 1) = SubSeq(input, i * BlockSize + 1,
                         IF i + 1 = NumBlocks THEN Len(input) ELSE (i + 1) * BlockSize)
  <2>1. Block(i + 1) = SubSeq(input, ((i + 1) - 1) * BlockSize + 1,
                         IF i + 1 = NumBlocks THEN Len(input) ELSE (i + 1) * BlockSize)
    BY Zenon DEF Block
  <2>2. ((i + 1) - 1) * BlockSize = i * BlockSize
    BY <1>3
  <2> QED
    BY <2>1, <2>2, Zenon
<1>5. CASE i = NumBlocks - 1
  <2>0. i + 1 = NumBlocks
    BY <1>1, <1>3, <1>5
  <2>1. Block(i + 1) = SubSeq(input, i * BlockSize + 1, Len(input))
    BY <1>4a, <2>0, Zenon
  <2>2. Len(input) \in 0..Len(input) /\ i * BlockSize <= Len(input)
    BY <1>1
  <2>3. result \o Block(i + 1) = SubSeq(input, 1, Len(input))
    BY <1>4, <2>1, <2>2
  <2> QED
    BY <1>1, <1>5, <2>3, SubSeqFull
<1>6. CASE i # NumBlocks - 1
  <2>0. i + 1 # NumBlocks
    BY <1>1, <1>3, <1>6
  <2>1. Block(i + 1) = SubSeq(input, i * BlockSize + 1, (i + 1) * BlockSize)
    BY <1>4a, <2>0, Zenon
  <2> QED
    BY <1>1, <1>3, <1>4, <1>6, <2>1
<1> QED
  BY <1>5, <1>6

\* Each step.
LEMMA SumStep ==
  AccumulateAssumption /\ CallerTypes /\ SumInv /\ [PANext]_vars => SumInv'
<1> SUFFICES ASSUME AccumulateAssumption, CallerTypes, SumInv, [PANext]_vars PROVE SumInv'
  OBVIOUS
<1>1. CASE Enter
  <2>1. CASE input = <<>>
    <3>1. NumBlocks = 0
      <4>1. \A b \in Nat \ {0} : (0 + b - 1) \div b = 0
        OBVIOUS
      <4> QED
        BY <2>1, <4>1 DEF NumBlocks, AccumulateAssumption
    <3>2. bad = {}
      BY <3>1 DEF SumInv
    <3> QED
      BY <1>1, <2>1, <3>2 DEF Enter, SumInv, NumBlocks
  <2>2. CASE input # <<>>
    BY <1>1, <2>2 DEF Enter, SumInv, NumBlocks
  <2> QED
    BY <2>1, <2>2
<1>2. CASE Construct
  <2>1. phase' = "joining" => spawned' < Workers
    BY <1>2 DEF Construct, Spawn, SpawnFails, Constructed
  <2>2. input # <<>> /\ i = 0 /\ result = <<>> /\ at = "construct"
    BY <1>2 DEF Construct, SumInv
  <2>3. NumBlocks \in Nat \ {0}
    BY <2>2, Blocks
  <2> QED
    BY <1>2, <2>1, <2>2, <2>3 DEF Construct, SumInv, NumBlocks
<1>3. CASE SubmitBlock
  <2>1. NumBlocks \in Nat \ {0}
    BY <1>3, Blocks DEF SubmitBlock, SumInv
  <2> QED
    BY <1>3, <2>1 DEF SubmitBlock, SumInv, NumBlocks
<1>4. CASE SumLast
  <2>1. NumBlocks \in Nat \ {0} /\ input \in Seq(Element) /\ BlockSize \in Nat
    BY <1>4, Blocks DEF SumLast, SumInv, AccumulateAssumption
  <2>2. SubSeq(input, 1, 0 * BlockSize) = <<>>
    BY <2>1, SubSeqEmpty
  <2>3. CASE NumBlocks \in bad
    BY <1>4, <2>1, <2>3 DEF SumLast, Leave, SumInv, NumBlocks
  <2>4. CASE NumBlocks \notin bad
    <3>1. /\ at' = "collect" /\ i' = 0 /\ result' = <<>>
          /\ UNCHANGED <<input, bad>> /\ input # <<>> /\ bad \subseteq 1..NumBlocks
      BY <1>4, <2>4 DEF SumLast, SumInv
    <3>2. NumBlocks' = NumBlocks
      BY <3>1 DEF NumBlocks
    <3>3. 0 \in 0..(NumBlocks - 1) /\ bad \cap (1..0 \cup {NumBlocks}) = {}
      BY <2>1, <2>4
    <3> QED
      BY <2>2, <3>1, <3>2, <3>3 DEF SumInv
  <2> QED
    BY <2>3, <2>4
<1>5. CASE Collect
  <2>0. /\ NumBlocks \in Nat \ {0} /\ input # <<>> /\ i \in 0..(NumBlocks - 1)
        /\ i < NumBlocks - 1 /\ result = SubSeq(input, 1, i * BlockSize)
    BY <1>5, Blocks DEF Collect, SumInv
  <2>1. i # NumBlocks - 1 /\ result \o Block(i + 1) = SubSeq(input, 1, (i + 1) * BlockSize)
    <3>1. i # NumBlocks - 1
      BY <2>0
    <3> QED
      BY <2>0, <3>1, AddBlock
  <2>2. CASE i + 1 \in bad
    BY <1>5, <2>0, <2>2 DEF Collect, Leave, SumInv, NumBlocks
  <2>3. CASE i + 1 \notin bad
    <3>1. bad \cap (1..(i + 1) \cup {NumBlocks}) = {}
      BY <1>5, <2>0, <2>3 DEF Collect, SumInv
    <3>2. /\ at' = "collect" /\ at = "collect" /\ i' = i + 1
          /\ result' = result \o Block(i + 1) /\ UNCHANGED <<input, bad>>
      BY <1>5, <2>3 DEF Collect
    <3>3. NumBlocks' = NumBlocks /\ i + 1 \in 0..(NumBlocks - 1)
      BY <2>0, <3>2 DEF NumBlocks
    <3>4. result' = SubSeq(input, 1, i' * BlockSize)
      BY <2>1, <3>2
    <3> QED
      BY <2>0, <3>1, <3>2, <3>3, <3>4 DEF SumInv
  <2> QED
    BY <2>2, <2>3
<1>6. CASE ReturnSum
  <2>1. /\ NumBlocks \in Nat \ {0} /\ i = NumBlocks - 1 /\ i + 1 = NumBlocks
        /\ result \o Block(NumBlocks) = input
    BY <1>6, Blocks, AddBlock DEF ReturnSum, SumInv
  <2>2. bad = {}
    BY <1>6, <2>1 DEF ReturnSum, SumInv
  <2> QED
    BY <1>6, <2>1, <2>2 DEF ReturnSum, Leave, SumInv, NumBlocks
<1>7. CASE LeavePool
  BY <1>7 DEF LeavePool, Join, Free, SumInv, NumBlocks
<1>8. CASE WorkerSteps
  <2>1. UNCHANGED <<caller_vars, spawned>>
    BY <1>8 DEF WorkerSteps, WorkerStep, TestDone, PopTask, Finish, SubmitNested, Enqueue
  <2> QED
    BY <2>1 DEF caller_vars, SumInv, NumBlocks
<1>9. CASE UNCHANGED vars
  BY <1>9 DEF vars, caller_vars, pool_vars, SumInv, NumBlocks
<1> QED
  BY <1>1, <1>2, <1>3, <1>4, <1>5, <1>6, <1>7, <1>8, <1>9 DEF PANext, CallerStep

\* A call that returns has added up every element of its range, once and in
\* order, and one that throws had a block that threw or a thread that could
\* not start, for any range, block size and number of workers (chapter_9.h:
\* 208-241).
THEOREM SumIsWhole == ASSUME AccumulateAssumption PROVE PASpec => []SumOrException
<1>1. PAInit => CallerTypes /\ SumInv
  BY DEF PAInit, CallerTypes, SumInv, NumBlocks
<1>2. SumInv => SumOrException
  BY DEF SumInv, SumOrException
<1> QED
  BY <1>1, <1>2, StepIsPools, SumStep, PTL DEF PASpec
-----------------------------------------------------------------------------
(* producer and consumer *)

HandOverInv == HandOver!TypeOK /\ HandOver!HandedOver

\* A vector of at most one is empty or holds the value that is taken from it.
LEMMA AtMostOne ==
  ASSUME NEW S, NEW s \in Seq(S), Len(s) <= 1, s # <<>>
  PROVE  \E x \in S : s = <<x>> /\ s[Len(s)] = x /\ SubSeq(s, 1, Len(s) - 1) = <<>>
<1>1. Len(s) \in Nat \ {0}
  BY EmptySeq
<1>2. Len(s) = 1
  BY <1>1
<1>3. s[1] \in S /\ s = <<s[1]>>
  BY <1>2
<1>4. SubSeq(s, 1, 0) = <<>>
  BY SubSeqEmpty
<1>5. Len(s) - 1 = 0
  BY <1>2
<1> QED
  BY <1>2, <1>3, <1>4, <1>5

\* Appending one element is concatenating a sequence of one.
LEMMA AppendOfOne ==
  ASSUME NEW S, NEW s \in Seq(S), NEW e \in S
  PROVE  /\ Append(s, e) \in Seq(S)
         /\ Append(s, e) = s \o <<e>>
         /\ Append(s, e) \o <<>> = Append(s, e)
         /\ s \o <<>> = s
  OBVIOUS
\* A thread that has the mutex leaves it alone or gives it up; every other
\* thread is outside.
LEMMA NotifyTypes ==
  ASSUME HandOver!TypeOK, HandOver!HandOverAssumption, NEW t \in HandOver!Thread,
         h_pc[t] = "test",
         HandOver!NotifyAll(t), UNCHANGED <<mtx, h_i>>
  PROVE  /\ h_pc' \in [HandOver!Thread -> {"loop", "test", "blocked", "woken", "unlock"}]
         /\ \A u \in HandOver!Thread : (h_pc'[u] \in {"test", "unlock"}) = (mtx' = u)
         /\ \A u \in HandOver!Thread : h_pc'[u] # "loop" => h_i'[u] < Rounds
<1>1. h_pc' = [u \in HandOver!Thread |->
               IF u = t THEN "unlock" ELSE IF h_pc[u] = "blocked" THEN "woken" ELSE h_pc[u]]
  BY DEF HandOver!NotifyAll
<1> QED
  BY <1>1 DEF HandOver!TypeOK

\* The start.
LEMMA HandOverInit == HandOver!HandOverAssumption /\ HandOver!Init => HandOverInv
BY DEF HandOver!HandOverAssumption, HandOver!Init, HandOverInv, HandOver!TypeOK,
       HandOver!HandedOver, HandOver!Thread

\* Each step.
LEMMA HandOverStep ==
  HandOver!HandOverAssumption /\ HandOverInv /\ [HandOver!Next]_(HandOver!vars) => HandOverInv'
<1> SUFFICES ASSUME HandOver!HandOverAssumption, HandOverInv,
                    [HandOver!Next]_(HandOver!vars)
             PROVE  HandOverInv'
  OBVIOUS
<1> USE DEF HandOverInv
<1>a. Rounds \in Nat /\ Nobody \notin HandOver!Thread
  BY DEF HandOver!HandOverAssumption, HandOver!Thread
<1>1. ASSUME NEW t \in HandOver!Thread, HandOver!Lock(t) PROVE HandOverInv'
  BY <1>1, <1>a DEF HandOver!Lock, HandOver!Goto, HandOver!TypeOK, HandOver!HandedOver
<1>2. ASSUME NEW t \in HandOver!Thread, HandOver!Relock(t) PROVE HandOverInv'
  BY <1>2, <1>a DEF HandOver!Relock, HandOver!Goto, HandOver!TypeOK, HandOver!HandedOver
<1>3. ASSUME NEW t \in HandOver!Thread, HandOver!Wait(t) PROVE HandOverInv'
  BY <1>3, <1>a DEF HandOver!Wait, HandOver!Goto, HandOver!TypeOK, HandOver!HandedOver
<1>4. ASSUME NEW t \in HandOver!Thread, HandOver!SpuriousWake(t) PROVE HandOverInv'
  BY <1>4, <1>a DEF HandOver!SpuriousWake, HandOver!Goto, HandOver!TypeOK, HandOver!HandedOver
<1>5. ASSUME NEW t \in HandOver!Thread, HandOver!Produce(t) PROVE HandOverInv'
  <2>1. h_pc[t] = "test" /\ HandOver!NotifyAll(t) /\ UNCHANGED <<mtx, h_i>>
    BY <1>5 DEF HandOver!Produce
  <2>2. h_i[t] + 1 \in 1..Rounds
    <3>1. h_i[t] \in 0..Rounds /\ h_i[t] < Rounds
      BY <2>1 DEF HandOver!TypeOK
    <3> QED
      BY <1>a, <3>1
  <2>3. vec' \in Seq(1..Rounds) /\ made' \in Seq(1..Rounds) /\ taken' \in Seq(1..Rounds)
    BY <1>5, <2>2 DEF HandOver!Produce, HandOver!TypeOK
  <2>4. HandOver!TypeOK'
    BY <2>1, <2>3, NotifyTypes DEF HandOver!TypeOK
  <2>5. vec' = <<h_i[t] + 1>> /\ Len(vec') = 1
    BY <1>5 DEF HandOver!Produce
  <2>6. made = taken
    BY <1>5, <2>2, AppendOfOne DEF HandOver!Produce, HandOver!TypeOK, HandOver!HandedOver
  <2>7. made' = taken' \o vec'
    BY <1>5, <2>2, <2>5, <2>6, AppendOfOne DEF HandOver!Produce, HandOver!TypeOK
  <2> QED
    BY <2>4, <2>5, <2>7 DEF HandOver!HandedOver
<1>6. ASSUME NEW t \in HandOver!Thread, HandOver!Consume(t) PROVE HandOverInv'
  <2>1. h_pc[t] = "test" /\ HandOver!NotifyAll(t) /\ UNCHANGED <<mtx, h_i>>
    BY <1>6 DEF HandOver!Consume
  <2>2. PICK x \in 1..Rounds :
          vec = <<x>> /\ vec[Len(vec)] = x /\ SubSeq(vec, 1, Len(vec) - 1) = <<>>
    BY <1>6, AtMostOne DEF HandOver!Consume, HandOver!TypeOK, HandOver!HandedOver
  <2>3. vec' = <<>> /\ taken' = Append(taken, x) /\ made' = made
    BY <1>6, <2>2 DEF HandOver!Consume
  <2>4. taken \in Seq(1..Rounds) /\ made \in Seq(1..Rounds)
    BY DEF HandOver!TypeOK
  <2>5. /\ taken' \in Seq(1..Rounds)
        /\ taken' = taken \o <<x>>
        /\ taken' \o <<>> = taken'
    BY <2>3, <2>4, AppendOfOne
  <2>6. vec' \in Seq(1..Rounds) /\ Len(vec') <= 1
    BY <2>3
  <2>7. HandOver!TypeOK'
    BY <2>1, <2>3, <2>4, <2>5, <2>6, NotifyTypes DEF HandOver!TypeOK
  <2>8. made' = taken' \o vec'
    BY <2>2, <2>3, <2>5 DEF HandOver!HandedOver
  <2> QED
    BY <2>6, <2>7, <2>8 DEF HandOver!HandedOver
<1>7. ASSUME NEW t \in HandOver!Thread, HandOver!Unlock(t) PROVE HandOverInv'
  <2>1. h_i[t] + 1 \in 0..Rounds
    <3>1. h_i[t] \in 0..Rounds /\ h_i[t] < Rounds
      BY <1>7 DEF HandOver!Unlock, HandOver!TypeOK
    <3> QED
      BY <1>a, <3>1
  <2>2. h_i' \in [HandOver!Thread -> 0..Rounds]
    BY <1>7, <2>1 DEF HandOver!Unlock, HandOver!TypeOK
  <2>3. \A u \in HandOver!Thread : h_pc'[u] # "loop" => h_i'[u] < Rounds
    BY <1>7 DEF HandOver!Unlock, HandOver!Goto, HandOver!TypeOK
  <2>4. h_pc' \in [HandOver!Thread -> {"loop", "test", "blocked", "woken", "unlock"}]
    BY <1>7 DEF HandOver!Unlock, HandOver!Goto, HandOver!TypeOK
  <2>5. ASSUME NEW u \in HandOver!Thread PROVE (h_pc'[u] \in {"test", "unlock"}) = (mtx' = u)
    <3>1. mtx = t /\ mtx' # u
      BY <1>7, <1>a DEF HandOver!Unlock, HandOver!TypeOK
    <3>2. h_pc'[u] = IF u = t THEN "loop" ELSE h_pc[u]
      BY <1>7 DEF HandOver!Unlock, HandOver!Goto, HandOver!TypeOK
    <3>3. u # t => h_pc[u] \notin {"test", "unlock"}
      BY <3>1 DEF HandOver!TypeOK
    <3> QED
      BY <3>1, <3>2, <3>3
  <2> QED
    BY <1>7, <2>2, <2>3, <2>4, <2>5 DEF HandOver!Unlock, HandOver!TypeOK, HandOver!HandedOver
<1>8. CASE UNCHANGED HandOver!vars
  BY <1>8 DEF HandOver!vars, HandOver!TypeOK, HandOver!HandedOver
<1> QED
  BY <1>1, <1>2, <1>3, <1>4, <1>5, <1>6, <1>7, <1>8 DEF HandOver!Next, HandOver!Proceed

\* The types and the hand-over are kept by every step, so that the second is
\* proved from the first: a value is pushed or taken by the owner of mtx only
\* (t_thread.cc:6-33).
THEOREM HandOverTypes ==
  ASSUME HandOver!HandOverAssumption
  PROVE  HandOver!Spec => []HandOver!TypeOK
<1>1. HandOverInv => HandOver!TypeOK
  BY DEF HandOverInv
<1> QED
  BY HandOverInit, HandOverStep, <1>1, PTL DEF HandOver!Spec

\* Every value is handed over once and in order, for any number of producers,
\* consumers and rounds (t_thread.cc:9-12 and 23-27).
THEOREM ValuesHandedOver ==
  ASSUME HandOver!HandOverAssumption
  PROVE  HandOver!Spec => []HandedOver
<1>1. HandOverInv => HandedOver
  BY DEF HandOverInv, HandedOver
<1> QED
  BY HandOverInit, HandOverStep, <1>1, PTL DEF HandOver!Spec
-----------------------------------------------------------------------------
(* All of them together *)

\* What is proved of each module holds of the behaviours in which the others
\* are left alone: those the run of Waiters checks.
THEOREM EachIsUsedAlone ==
  ASSUME AccumulateAssumption
  PROVE  /\ WaitersSpec => Spec /\ HMSpec /\ HandOver!Spec /\ Interruptible!Spec
         /\ WaitersSpec => (chosen = "accumulate" => PASpec)
<1>1. WaitersInit =>
        /\ PAInit /\ Init /\ CallerTypes /\ HMInit
        /\ HandOver!Init /\ Interruptible!Init
  BY DEF WaitersInit, PAInit, CallerTypes
<1>2. ASSUME CallerTypes, [WaitersNext]_<<chosen, vars, hm_vars, h_vars, i_vars>>
      PROVE  CallerTypes' /\ [Next]_pool_vars
  <2>1. CASE chosen = "pool" /\ Next /\ UNCHANGED caller_vars
    BY <1>2, <2>1 DEF CallerTypes, caller_vars
  <2>2. CASE [PANext]_vars
    BY <1>2, <2>2, StepIsPools
  <2> QED
    BY <1>2, <2>1, <2>2 DEF WaitersNext
<1>3. [WaitersNext]_<<chosen, vars, hm_vars, h_vars, i_vars>>
        => /\ [HMNext]_hm_vars /\ [HandOver!Next]_(HandOver!vars)
           /\ [Interruptible!Next]_(Interruptible!vars)
  BY DEF WaitersNext, hm_vars, h_vars, i_vars, HandOver!vars, Interruptible!vars
<1>4. chosen = "accumulate" /\ [WaitersNext]_<<chosen, vars, hm_vars, h_vars, i_vars>>
        => [PANext]_vars /\ (chosen = "accumulate")'
  BY DEF WaitersNext
<1>5. WaitersSpec => Spec /\ HMSpec /\ HandOver!Spec /\ Interruptible!Spec
  BY <1>1, <1>2, <1>3, PTL DEF WaitersSpec, Spec, HMSpec, HandOver!Spec, Interruptible!Spec
<1>6. chosen = "accumulate"
        => /\ ~(chosen = "pool") /\ ~(chosen = "hierarchy")
           /\ ~(chosen = "hand_over") /\ ~(chosen = "interruptible")
  OBVIOUS
<1>7. WaitersSpec => (chosen = "accumulate" => PASpec)
  BY <1>1, <1>4, <1>6, PTL DEF WaitersSpec, PASpec
<1> QED
  BY <1>5, <1>7
=============================================================================
