----------------------- MODULE StealThreadPoolProofs -----------------------
(***************************************************************************)
(* Proofs about steal_thread_pool, for any number of workers and any tasks *)
(* that submit, and wait for, any others.                                  *)
(***************************************************************************)
EXTENDS StealThreadPool, SequenceTheorems, TLAPS

\* The queue that thread r submits to: the owner's is the queue of the pool.
Queue(r) == IF r = Owner THEN pool_queue ELSE local_queue[r]

Slot(r)  == 1..Len(Queue(r))
Waits(k) == \E r \in Runner : \E i \in Slot(r) : Queue(r)[i] = k
Runs(r)  == at[r] = "run"

\* A task in a queue is pending, and is in one place of one queue.
QueueInv ==
  /\ \A r \in Runner : \A i \in Slot(r) : future[Queue(r)[i]] = "pending"
  /\ \A r, s \in Runner : \A i \in Slot(r), j \in Slot(s) :
       Queue(r)[i] = Queue(s)[j] => r = s /\ i = j

\* A task that runs is pending, has left its queue, and runs in one thread.
RunInv ==
  /\ \A r \in Runner :
       Runs(r) => task[r] \in Task /\ future[task[r]] = "pending" /\ ~Waits(task[r])
  /\ \A r \in Runner : ~Runs(r) => task[r] = NoTask
  /\ \A r, s \in Runner : Runs(r) /\ Runs(s) /\ task[r] = task[s] => r = s

\* A pending task waits or runs.
PendingInv ==
  \A k \in Task :
    future[k] = "pending" => Waits(k) \/ \E r \in Runner : Runs(r) /\ task[r] = k

TaskInv == QueueInv /\ RunInv /\ PendingInv

\* Where the threads are at each time of the pool's life.
LifeInv ==
  /\ growing => phase \in {"constructing", "crashed"} /\ size < Workers
  /\ phase # "gone" => spawned <= size
  /\ at[Owner] \in {"ready", "pool", "steal", "run"}
  /\ at[Owner] # "ready" => phase \in {"open", "crashed"}
  /\ \A w \in Worker : at[w] # "ready" /\ (at[w] = "unborn" <=> w > spawned)
  /\ \A w \in 1..joined : at[w] = "exited"
  /\ phase = "gone" => joined = spawned

IInv == StealTypeOK /\ TaskInv /\ LifeInv

Taken == [k \in Task |-> Running(k)]
Position == {"unborn", "start", "ready", "test", "local", "pool", "steal", "run", "exited"}
-----------------------------------------------------------------------------
(* Threads and queues *)

\* The owner is none of the workers.
LEMMA Threads ==
  /\ Owner \in Runner
  /\ \A w \in Worker : w \in Runner /\ w # Owner /\ w \in Nat /\ w >= 1
  /\ \A r \in Runner : r # Owner => r \in Worker
BY StealAssumption DEF Runner, Worker, Owner

\* Every queue is a sequence of tasks.
LEMMA QueueTypes ==
  ASSUME StealTypeOK, NEW r \in Runner
  PROVE  Queue(r) \in Seq(Task) /\ Len(Queue(r)) \in Nat
<1>1. Queue(r) \in Seq(Task)
  BY Threads DEF StealTypeOK, Queue
<1> QED
  BY <1>1, LenProperties

\* The sequences that are left when the first or the last element is taken.
LEMMA Removals ==
  ASSUME NEW S, NEW q \in Seq(S), q # <<>>
  PROVE  /\ Len(q) \in Nat \ {0}
         /\ Head(q) = q[1] /\ q[Len(q)] \in S
         /\ Tail(q) \in Seq(S) /\ Len(Tail(q)) = Len(q) - 1
         /\ \A i \in 1..(Len(q) - 1) : Tail(q)[i] = q[i + 1]
         /\ SubSeq(q, 1, Len(q) - 1) \in Seq(S)
         /\ Len(SubSeq(q, 1, Len(q) - 1)) = Len(q) - 1
         /\ \A i \in 1..(Len(q) - 1) : SubSeq(q, 1, Len(q) - 1)[i] = q[i]
<1>1. Len(q) \in Nat \ {0}
  BY EmptySeq
<1>2. PICK n : n = Len(q) - 1
  OBVIOUS
<1>3. /\ SubSeq(q, 1, n) \in Seq(S) /\ Len(SubSeq(q, 1, n)) = n
      /\ \A i \in 1..n : SubSeq(q, 1, n)[i] = q[i]
  BY <1>1, <1>2
<1> QED
  BY <1>1, <1>2, <1>3

\* The sequences that an element is added to, at the end or at the front.
LEMMA Additions ==
  ASSUME NEW S, NEW q \in Seq(S), NEW e \in S
  PROVE  /\ Append(q, e) \in Seq(S) /\ Len(Append(q, e)) = Len(q) + 1
         /\ \A i \in 1..Len(q) : Append(q, e)[i] = q[i]
         /\ Append(q, e)[Len(q) + 1] = e
         /\ <<e>> \o q \in Seq(S) /\ Len(<<e>> \o q) = Len(q) + 1
         /\ \A i \in 1..Len(q) : (<<e>> \o q)[i + 1] = q[i]
         /\ (<<e>> \o q)[1] = e
<1>1. Len(q) \in Nat
  BY LenProperties
<1>2. <<e>> \in Seq(S) /\ Len(<<e>>) = 1 /\ <<e>>[1] = e
  OBVIOUS
<1>3. /\ <<e>> \o q \in Seq(S) /\ Len(<<e>> \o q) = 1 + Len(q)
      /\ \A i \in 1..(1 + Len(q)) : (<<e>> \o q)[i] = IF i <= 1 THEN <<e>>[i] ELSE q[i - 1]
  BY <1>2, ConcatProperties
<1>4. \A i \in 1..Len(q) : i + 1 \in 1..(1 + Len(q)) /\ ~(i + 1 <= 1) /\ (i + 1) - 1 = i
  BY <1>1
<1>5. \A i \in 1..Len(q) : (<<e>> \o q)[i + 1] = q[i]
  BY <1>3, <1>4
<1>6. (<<e>> \o q)[1] = e
  BY <1>1, <1>2, <1>3
<1> QED
  BY <1>1, <1>3, <1>5, <1>6
-----------------------------------------------------------------------------
(* What the steps do to the tasks *)

\* A step that moves no task, and starts and ends none.
LEMMA QuietStep ==
  ASSUME TaskInv, UNCHANGED <<work, future>>,
         \A r \in Runner : Runs(r)' = Runs(r)
  PROVE  TaskInv' /\ Taken' = Taken
<1>1. \A r : Queue(r)' = Queue(r)
  BY DEF Queue, work
<1>2. QueueInv'
  BY <1>1 DEF TaskInv, QueueInv, Slot
<1>3. \A k : Waits(k)' = Waits(k)
  BY <1>1 DEF Waits, Slot
<1>4. RunInv' /\ PendingInv'
  BY <1>3 DEF TaskInv, RunInv, PendingInv, work
<1>5. \A k \in Task : Running(k)' = Running(k)
  BY DEF Running, Runs, work
<1> QED
  BY <1>2, <1>4, <1>5 DEF TaskInv, Taken

\* Thread r takes the task at place n of the queue of s: nobody was running
\* it, and from now on r is.
LEMMA TakeStep ==
  ASSUME StealTypeOK, TaskInv, NEW r \in Runner, NEW s \in Runner, ~Runs(r),
         NEW n \in Slot(s), NEW q \in Seq(Task), Len(q) = Len(Queue(s)) - 1,
         \A i \in 1..Len(q) : q[i] = Queue(s)[IF i < n THEN i ELSE i + 1],
         \A x \in Runner : Queue(x)' = IF x = s THEN q ELSE Queue(x),
         Run(r, Queue(s)[n]), UNCHANGED future
  PROVE  /\ at' \in [Runner -> Position] /\ task' \in [Runner -> Task \cup {NoTask}]
         /\ TaskInv'
         /\ \E k \in Task :
              /\ future[k] = "pending"
              /\ Running(k) = {}
              /\ Taken' = [Taken EXCEPT ![k] = {r}]
<1> USE DEF Runs
<1>a. PICK k : k = Queue(s)[n]
  OBVIOUS
<1>b. /\ at \in [Runner -> Position] /\ task \in [Runner -> Task \cup {NoTask}]
      /\ at' = [at EXCEPT ![r] = "run"] /\ task' = [task EXCEPT ![r] = k]
  BY <1>a DEF StealTypeOK, Position, Run, StealGoto
<1>c. k \in Task /\ \A x \in Runner : Len(Queue(x)) \in Nat
  BY <1>a, QueueTypes DEF Slot
<1> DEFINE Old(x, i) == IF x = s /\ ~(i < n) THEN i + 1 ELSE i
<1>1. \A x \in Runner : \A i \in Slot(x)' :
        /\ Old(x, i) \in Slot(x)
        /\ Queue(x)'[i] = Queue(x)[Old(x, i)]
        /\ ~(x = s /\ Old(x, i) = n)
  BY <1>c DEF Slot
<1>2. \A x \in Runner : \A i, j \in Slot(x)' : Old(x, i) = Old(x, j) => i = j
  BY <1>c DEF Slot
<1>3. ASSUME NEW x \in Runner, NEW j \in Slot(x), ~(x = s /\ j = n)
      PROVE  \E i \in Slot(x)' : Queue(x)'[i] = Queue(x)[j]
  <2>1. CASE x = s /\ j > n
    <3>1. j - 1 \in 1..Len(q) /\ ~(j - 1 < n) /\ (j - 1) + 1 = j
      BY <1>c, <2>1 DEF Slot
    <3>2. q[j - 1] = Queue(s)[j]
      BY <3>1
    <3> QED
      BY <2>1, <3>1, <3>2 DEF Slot
  <2>2. CASE x = s /\ j < n
    <3>1. j \in 1..Len(q)
      BY <1>c, <2>2 DEF Slot
    <3> QED
      BY <2>2, <3>1 DEF Slot
  <2>3. CASE x # s
    BY <2>3 DEF Slot
  <2> QED
    BY <1>3, <1>c, <2>1, <2>2, <2>3 DEF Slot
<1> HIDE DEF Old
<1>4. Waits(k) /\ future[k] = "pending"
  BY <1>a DEF Waits, TaskInv, QueueInv
<1>5. \A x \in Runner : Runs(x) => task[x] # k
  BY <1>4 DEF TaskInv, RunInv
<1>6. \A j : Waits(j)' <=> Waits(j) /\ j # k
  <2>1. ASSUME NEW j, Waits(j)' PROVE Waits(j) /\ j # k
    <3>0. PICK x \in Runner : \E i \in Slot(x)' : Queue(x)'[i] = j
      BY <2>1 DEF Waits
    <3>1. PICK i \in Slot(x)' : Queue(x)'[i] = j
      BY <3>0
    <3>2. Old(x, i) \in Slot(x) /\ Queue(x)[Old(x, i)] = j /\ ~(x = s /\ Old(x, i) = n)
      BY <1>1, <3>1
    <3> QED
      BY <1>a, <3>2 DEF Waits, TaskInv, QueueInv
  <2>2. ASSUME NEW j, Waits(j), j # k PROVE Waits(j)'
    <3>0. PICK x \in Runner : \E i \in Slot(x) : Queue(x)[i] = j
      BY <2>2 DEF Waits
    <3>1. PICK i \in Slot(x) : Queue(x)[i] = j
      BY <3>0
    <3>2. ~(x = s /\ i = n)
      BY <1>a, <2>2, <3>1
    <3> QED
      BY <1>3, <3>1, <3>2 DEF Waits
  <2> QED
    BY <2>1, <2>2
<1>7. QueueInv'
  <2>1. \A x \in Runner : \A i \in Slot(x)' : future[Queue(x)'[i]] = "pending"
    BY <1>1 DEF TaskInv, QueueInv
  <2>2. ASSUME NEW x \in Runner, NEW y \in Runner, NEW i \in Slot(x)', NEW j \in Slot(y)',
               Queue(x)'[i] = Queue(y)'[j]
        PROVE  x = y /\ i = j
    <3>1. x = y /\ Old(x, i) = Old(y, j)
      BY <1>1, <2>2 DEF TaskInv, QueueInv
    <3> QED
      BY <1>2, <3>1
  <2> QED
    BY <2>1, <2>2 DEF QueueInv
<1>8. \A x \in Runner : /\ task'[x] = IF x = r THEN k ELSE task[x]
                        /\ Runs(x)' = (x = r \/ Runs(x))
  BY <1>b
<1>9. RunInv'
  BY <1>4, <1>5, <1>6, <1>8, <1>c DEF TaskInv, RunInv
<1>10. PendingInv'
  BY <1>6, <1>8 DEF TaskInv, PendingInv
<1>11. \A j \in Task : Running(j)' = IF j = k THEN {r} ELSE Running(j)
  BY <1>5, <1>8 DEF Running
<1>12. Running(k) = {}
  BY <1>5 DEF Running
<1>13. Taken' = [Taken EXCEPT ![k] = {r}]
  BY <1>11 DEF Taken
<1>14. at' \in [Runner -> Position] /\ task' \in [Runner -> Task \cup {NoTask}]
  BY <1>b, <1>c DEF Position
<1> QED
  BY <1>4, <1>7, <1>9, <1>10, <1>12, <1>13, <1>14, <1>c DEF TaskInv

\* A new task goes to place n of the queue of s.
LEMMA EnqueueStep ==
  ASSUME StealTypeOK, TaskInv, NEW k \in Task, NEW s \in Runner,
         NEW q \in Seq(Task), Len(q) = Len(Queue(s)) + 1,
         NEW n \in 1..Len(q), q[n] = k,
         \A i \in Slot(s) : q[IF i < n THEN i ELSE i + 1] = Queue(s)[i],
         \A x \in Runner : Queue(x)' = IF x = s THEN q ELSE Queue(x),
         future[k] = "none", future' = [future EXCEPT ![k] = "pending"],
         UNCHANGED <<at, task>>
  PROVE  /\ future' \in [Task -> {"none", "pending", "ready", "broken"}]
         /\ TaskInv' /\ Taken' = Taken
<1> USE DEF Runs
<1>a. /\ future \in [Task -> {"none", "pending", "ready", "broken"}]
      /\ \A x \in Runner : Queue(x) \in Seq(Task) /\ Len(Queue(x)) \in Nat
  BY QueueTypes DEF StealTypeOK
<1> DEFINE New(x, i) == IF x = s /\ ~(i < n) THEN i + 1 ELSE i
<1>1. \A x \in Runner : \A i \in Slot(x) :
        /\ New(x, i) \in Slot(x)'
        /\ Queue(x)'[New(x, i)] = Queue(x)[i]
  BY <1>a DEF Slot
<1>2. ASSUME NEW x \in Runner, NEW j \in Slot(x)'
      PROVE  (x = s /\ j = n) \/ \E i \in Slot(x) : j = New(x, i)
  <2>1. CASE x = s /\ j > n
    <3>1. j - 1 \in Slot(x) /\ ~(j - 1 < n) /\ (j - 1) + 1 = j
      BY <1>a, <2>1 DEF Slot
    <3> QED
      BY <2>1, <3>1
  <2>2. CASE x = s /\ j < n
    <3>1. j \in Slot(x)
      BY <1>a, <2>2 DEF Slot
    <3> QED
      BY <2>2, <3>1
  <2>3. CASE x # s
    <3>1. j \in Slot(x)
      BY <2>3 DEF Slot
    <3> QED
      BY <2>3, <3>1
  <2> QED
    BY <1>a, <2>1, <2>2, <2>3 DEF Slot
<1> HIDE DEF New
<1>3. n \in Slot(s)' /\ Queue(s)'[n] = k
  BY DEF Slot
<1>4. future'[k] = "pending" /\ \A j \in Task : j # k => future'[j] = future[j]
  BY <1>a
<1>5. ~Waits(k) /\ \A x \in Runner : \A i \in Slot(x) : Queue(x)[i] \in Task /\ Queue(x)[i] # k
  BY <1>a DEF TaskInv, QueueInv, Waits, Slot
<1>6. \A j : Waits(j)' <=> Waits(j) \/ j = k
  <2>1. ASSUME NEW j, Waits(j)' PROVE Waits(j) \/ j = k
    <3>0. PICK x \in Runner : \E i \in Slot(x)' : Queue(x)'[i] = j
      BY <2>1 DEF Waits
    <3>1. PICK i \in Slot(x)' : Queue(x)'[i] = j
      BY <3>0
    <3> QED
      BY <1>1, <1>2, <1>3, <3>1 DEF Waits
  <2>2. ASSUME NEW j, Waits(j) PROVE Waits(j)'
    BY <1>1, <2>2 DEF Waits
  <2>3. Waits(k)'
    BY <1>3 DEF Waits
  <2> QED
    BY <2>1, <2>2, <2>3
<1>7. QueueInv'
  <2>1. ASSUME NEW x \in Runner, NEW i \in Slot(x)' PROVE future'[Queue(x)'[i]] = "pending"
    <3>1. CASE x = s /\ i = n
      BY <1>3, <1>4, <3>1
    <3>2. ASSUME NEW j \in Slot(x), i = New(x, j) PROVE future'[Queue(x)'[i]] = "pending"
      BY <1>1, <1>4, <1>5, <3>2 DEF TaskInv, QueueInv
    <3> QED
      BY <1>2, <3>1, <3>2
  <2>2. ASSUME NEW x \in Runner, NEW y \in Runner, NEW i \in Slot(x)', NEW j \in Slot(y)',
               Queue(x)'[i] = Queue(y)'[j]
        PROVE  x = y /\ i = j
    <3>1. CASE x = s /\ i = n /\ y = s /\ j = n
      BY <3>1
    <3>2. ASSUME NEW a \in Slot(x), i = New(x, a), NEW b \in Slot(y), j = New(y, b)
          PROVE  x = y /\ i = j
      BY <1>1, <2>2, <3>2 DEF TaskInv, QueueInv
    <3>3. ASSUME NEW a \in Slot(x), i = New(x, a) PROVE ~(y = s /\ j = n)
      BY <1>1, <1>3, <1>5, <2>2, <3>3
    <3>4. ASSUME NEW b \in Slot(y), j = New(y, b) PROVE ~(x = s /\ i = n)
      BY <1>1, <1>3, <1>5, <2>2, <3>4
    <3> QED
      BY <1>2, <3>1, <3>2, <3>3, <3>4
  <2> QED
    BY <2>1, <2>2 DEF QueueInv
<1>8. \A x \in Runner : Runs(x) => task[x] # k
  BY DEF TaskInv, RunInv
<1>9. RunInv'
  BY <1>4, <1>6, <1>8 DEF TaskInv, RunInv
<1>10. PendingInv'
  BY <1>4, <1>6 DEF TaskInv, PendingInv
<1>11. Taken' = Taken
  BY DEF Taken, Running
<1> QED
  BY <1>a, <1>7, <1>9, <1>10, <1>11 DEF TaskInv

\* Thread r ends its task, whose future becomes ready.
LEMMA FinishStep ==
  ASSUME StealTypeOK, TaskInv, NEW r \in Runner, Finish(r)
  PROVE  /\ future' \in [Task -> {"none", "pending", "ready", "broken"}]
         /\ task' \in [Runner -> Task \cup {NoTask}]
         /\ TaskInv'
         /\ \E k \in Task :
              /\ Running(k) = {r}
              /\ Taken' = [Taken EXCEPT ![k] = {}]
              /\ future' = [future EXCEPT ![k] = "ready"]
<1> USE DEF Runs
<1>a. PICK k : k = task[r]
  OBVIOUS
<1>b. /\ Runs(r) /\ UNCHANGED <<pool_queue, local_queue>>
      /\ future' = [future EXCEPT ![k] = "ready"]
      /\ task' = [task EXCEPT ![r] = NoTask]
      /\ at' = [at EXCEPT ![r] = Back(r)]
  BY <1>a DEF Finish, StealGoto
<1>c. k \in Task /\ ~Waits(k)
  BY <1>a, <1>b DEF TaskInv, RunInv
<1>d. /\ future \in [Task -> {"none", "pending", "ready", "broken"}]
      /\ task \in [Runner -> Task \cup {NoTask}]
      /\ at \in [Runner -> Position]
      /\ \A x \in Runner : Queue(x) \in Seq(Task)
  BY QueueTypes DEF StealTypeOK, Position
<1>1. \A x : Queue(x)' = Queue(x)
  BY <1>b DEF Queue
<1>2. \A j : Waits(j)' = Waits(j)
  BY <1>1 DEF Waits, Slot
<1>3. \A s \in Runner : /\ Runs(s)' = (Runs(s) /\ s # r)
                        /\ task'[s] = IF s = r THEN NoTask ELSE task[s]
  BY <1>b, <1>d DEF Back
<1>4. \A s \in Runner : Runs(s) /\ s # r => task[s] # k
  BY <1>a, <1>b DEF TaskInv, RunInv
<1>5. \A j \in Task : j # k => future'[j] = future[j]
  BY <1>b, <1>d
<1>6. QueueInv'
  <2>1. \A x \in Runner : \A i \in Slot(x) : Queue(x)[i] \in Task /\ Queue(x)[i] # k
    BY <1>c, <1>d DEF Waits, Slot
  <2> QED
    BY <1>1, <1>5, <2>1 DEF TaskInv, QueueInv, Slot
<1>7. RunInv'
  BY <1>2, <1>3, <1>4, <1>5 DEF TaskInv, RunInv
<1>8. PendingInv'
  <2> SUFFICES ASSUME NEW j \in Task, future'[j] = "pending"
               PROVE  Waits(j)' \/ \E s \in Runner : Runs(s)' /\ task'[s] = j
    BY DEF PendingInv
  <2>1. j # k
    BY <1>b, <1>c, <1>d
  <2>2. Waits(j) \/ \E s \in Runner : Runs(s) /\ task[s] = j
    BY <1>5, <2>1 DEF TaskInv, PendingInv
  <2> QED
    BY <1>2, <1>3, <1>a, <2>1, <2>2
<1>9. Running(k) = {r}
  BY <1>a, <1>b, <1>4 DEF Running
<1>10. \A j \in Task : Running(j)' = IF j = k THEN {} ELSE Running(j)
  BY <1>3, <1>4, <1>a DEF Running
<1>11. Taken' = [Taken EXCEPT ![k] = {}]
  BY <1>10 DEF Taken
<1>12. /\ future' \in [Task -> {"none", "pending", "ready", "broken"}]
       /\ task' \in [Runner -> Task \cup {NoTask}]
  BY <1>b, <1>d
<1> QED
  BY <1>6, <1>7, <1>8, <1>9, <1>11, <1>12, <1>b, <1>c DEF TaskInv

\* When no thread runs a task, the destruction of the queues breaks every
\* promise that is still open, and no other.
LEMMA FreeStep ==
  ASSUME StealTypeOK, TaskInv, DropQueues, \A r \in Runner : ~Runs(r)
  PROVE  /\ future' = [k \in Task |-> IF future[k] = "pending" THEN "broken" ELSE future[k]]
         /\ TaskInv'
         /\ \A k \in Task : Running(k) = {}
         /\ Taken' = Taken
<1>1. \A k \in Task, r \in Runner : task[r] # k
  BY StealAssumption DEF TaskInv, RunInv
<1>2. future' = [k \in Task |-> IF future[k] = "pending" THEN "broken" ELSE future[k]]
  BY <1>1 DEF DropQueues
<1>3. /\ \A r \in Runner : Queue(r)' = <<>> /\ ~Runs(r)'
      /\ task' = task
  BY Threads DEF DropQueues, Queue, Runs
<1>4. \A r \in Runner : Slot(r)' = {}
  BY <1>3, EmptySeq DEF Slot
<1>5. QueueInv'
  BY <1>4 DEF QueueInv
<1>6. RunInv'
  BY <1>3 DEF RunInv, TaskInv
<1>7. PendingInv'
  BY <1>2 DEF PendingInv
<1>8. \A k \in Task : Running(k) = {} /\ Running(k)' = {}
  BY <1>3 DEF Running, Runs
<1>9. Taken' = Taken
  BY <1>8 DEF Taken
<1> QED
  BY <1>2, <1>5, <1>6, <1>7, <1>8, <1>9 DEF TaskInv
-----------------------------------------------------------------------------
(* The invariant *)

\* Numbers of workers, and where a thread may look for work.
LEMMA Counts ==
  ASSUME StealTypeOK
  PROVE  /\ Workers \in Nat /\ size \in Nat /\ spawned \in Nat /\ joined \in Nat
         /\ size <= Workers /\ spawned <= Workers /\ joined <= spawned
         /\ \A r \in Runner : probe[r] \in Nat /\ probe[r] <= Workers
BY StealAssumption DEF StealTypeOK

LEMMA VictimIsWorker ==
  ASSUME StealTypeOK, NEW r \in Runner, probe[r] < size
  PROVE  Victim(r) \in Worker
<1>1. size \in Nat /\ size > 0 /\ size <= Workers /\ Workers \in Nat
  BY Counts
<1>2. PICK m : m = MyIndex(r) + probe[r] + 1
  OBVIOUS
<1>3. MyIndex(r) \in Nat
  BY Threads DEF MyIndex
<1>4. m \in Nat
  BY <1>2, <1>3, Counts
<1>5. m % size \in 0..(size - 1)
  BY <1>1, <1>4
<1>6. Victim(r) = (m % size) + 1
  BY <1>2 DEF Victim
<1> QED
  BY <1>1, <1>5, <1>6 DEF Worker

\* Once the pool is gone, or all that were started are joined, no thread runs
\* a task.
LEMMA RunsWhileOpen ==
  ASSUME StealTypeOK, LifeInv
  PROVE  /\ phase = "gone" => \A r \in Runner : ~Runs(r)
         /\ (phase = "joining" /\ joined = spawned) => \A r \in Runner : ~Runs(r)
         /\ joined = spawned => \A w \in Worker : at[w] \in {"unborn", "exited"}
<1>1. spawned \in Nat /\ joined \in Nat
  BY Counts
<1>2. ASSUME joined = spawned, NEW w \in Worker PROVE at[w] \in {"unborn", "exited"}
  <2>1. CASE w > spawned
    BY <2>1 DEF LifeInv
  <2>2. CASE ~(w > spawned)
    <3>1. w \in 1..joined
      BY <1>1, <1>2, <2>2, Threads
    <3> QED
      BY <3>1 DEF LifeInv
  <2> QED
    BY <2>1, <2>2
<1> QED
  BY <1>2, Threads DEF LifeInv, Runs

\* The start.
LEMMA InitInv == StealInit => IInv
<1> SUFFICES ASSUME StealInit PROVE IInv
  OBVIOUS
<1>1. <<>> \in Seq(Task) /\ Len(<<>>) = 0
  BY EmptySeq
<1>2. StealTypeOK
  <2>1. size \in 0..Workers /\ spawned \in 0..Workers /\ joined \in 0..spawned
    BY StealAssumption DEF StealInit
  <2>2. at \in [Runner -> Position]
    BY DEF StealInit, Position
  <2>3. task \in [Runner -> Task \cup {NoTask}]
    BY DEF StealInit
  <2>4. future \in [Task -> {"none", "pending", "ready", "broken"}]
    BY DEF StealInit
  <2>5. probe \in [Runner -> 0..Workers]
    BY StealAssumption DEF StealInit
  <2>6. pool_queue \in Seq(Task) /\ local_queue \in [Worker -> Seq(Task)]
    BY <1>1 DEF StealInit
  <2> QED
    BY <2>1, <2>2, <2>3, <2>4, <2>5, <2>6 DEF StealInit, StealTypeOK, Position
<1>3. \A r \in Runner : Queue(r) = <<>> /\ ~Runs(r) /\ task[r] = NoTask
  BY Threads DEF StealInit, Queue, Runs
<1>4. \A r \in Runner : Slot(r) = {}
  BY <1>1, <1>3 DEF Slot
<1>5. TaskInv
  BY <1>3, <1>4 DEF StealInit, TaskInv, QueueInv, RunInv, PendingInv
<1>6. LifeInv
  <2>1. \A w \in Worker : at[w] = "unborn" /\ w > spawned
    BY Threads DEF StealInit
  <2> QED
    BY <2>1, Threads DEF StealInit, LifeInv
<1> QED
  BY <1>2, <1>5, <1>6 DEF IInv

Fails == \E w \in Worker : TornRead(w)

\* When the queues are gone every worker has left its loop: only the moving
\* vector is read torn.
LEMMA TornOnlyWhileGrowing ==
  ASSUME IInv, Fails
  PROVE  growing
<1>1. phase = "gone" => \A w \in Worker : at[w] \in {"unborn", "exited"}
  BY RunsWhileOpen DEF IInv, LifeInv
<1> QED
  BY <1>1 DEF Fails, TornRead

\* The steps of the constructor and the destructor that move no thread.
LEMMA OwnerInv ==
  ASSUME IInv,
         GrowBegin \/ GrowEnd \/ SpawnFails \/ Constructed \/ Destroy \/ Join \/ Fails
  PROVE  IInv' /\ Taken' = Taken
<1>1. /\ UNCHANGED <<work, future, at, probe>> /\ spawned' = spawned
  BY DEF GrowBegin, GrowEnd, SpawnFails, Constructed, Destroy, Join, Fails, TornRead,
         life, built
<1>2. TaskInv' /\ Taken' = Taken
  BY <1>1, QuietStep DEF IInv, Runs
<1>3. /\ Workers \in Nat /\ size \in Nat /\ spawned \in Nat /\ joined \in Nat
      /\ size <= Workers /\ spawned <= Workers /\ joined <= spawned
  BY Counts DEF IInv
<1>4. UNCHANGED <<pool_queue, local_queue, task>>
  BY <1>1 DEF work
<1>5. CASE GrowBegin
  <2>1. StealTypeOK'
    BY <1>1, <1>4, <1>5 DEF IInv, StealTypeOK, GrowBegin, life
  <2>2. LifeInv'
    BY <1>1, <1>5 DEF IInv, LifeInv, GrowBegin, life
  <2> QED
    BY <1>2, <2>1, <2>2 DEF IInv
<1>6. CASE GrowEnd
  <2>1. /\ size' = size + 1 /\ size < Workers /\ growing' = FALSE
        /\ UNCHANGED <<done, joined, phase>>
    BY <1>6 DEF IInv, LifeInv, GrowEnd, life
  <2>2. size' \in 0..Workers /\ (spawned <= size => spawned <= size')
    BY <1>3, <2>1
  <2>3. StealTypeOK'
    BY <1>1, <1>4, <2>1, <2>2 DEF IInv, StealTypeOK
  <2>4. LifeInv'
    BY <1>1, <2>1, <2>2 DEF IInv, LifeInv
  <2> QED
    BY <1>2, <2>3, <2>4 DEF IInv
<1>7. CASE SpawnFails \/ Constructed \/ Destroy
  <2>1. /\ at[Owner] = "ready" /\ phase' \in {"open", "joining"} /\ phase # "gone"
        /\ ~growing /\ done' \in BOOLEAN
        /\ UNCHANGED <<joined, size, growing>>
    BY <1>7 DEF IInv, StealTypeOK, LifeInv, SpawnFails, Constructed, Destroy, built
  <2>2. StealTypeOK'
    BY <1>1, <1>4, <2>1 DEF IInv, StealTypeOK
  <2>3. LifeInv'
    BY <1>1, <2>1 DEF IInv, LifeInv
  <2> QED
    BY <1>2, <2>2, <2>3 DEF IInv
<1>8. CASE Join
  <2>1. /\ joined' = joined + 1 /\ joined < spawned /\ at[joined + 1] = "exited"
        /\ UNCHANGED <<done, size, growing>> /\ phase' = phase /\ phase = "joining"
    BY <1>8 DEF Join, built
  <2>2. joined' \in 0..spawned
    BY <1>3, <2>1
  <2>3. \A w \in 1..joined' : w \in 1..joined \/ w = joined + 1
    BY <1>3, <2>1
  <2>4. StealTypeOK'
    BY <1>1, <1>4, <2>1, <2>2 DEF IInv, StealTypeOK
  <2>5. LifeInv'
    BY <1>1, <2>1, <2>3 DEF IInv, LifeInv
  <2> QED
    BY <1>2, <2>4, <2>5 DEF IInv
<1>9. CASE Fails
  <2>1. growing /\ phase' = "crashed" /\ UNCHANGED <<done, joined, size, growing>>
    BY <1>9, TornOnlyWhileGrowing DEF Fails, TornRead, built
  <2>2. StealTypeOK'
    BY <1>1, <1>4, <2>1 DEF IInv, StealTypeOK
  <2>3. LifeInv'
    BY <1>1, <2>1 DEF IInv, LifeInv
  <2> QED
    BY <1>2, <2>2, <2>3 DEF IInv
<1> QED
  BY <1>5, <1>6, <1>7, <1>8, <1>9

\* A worker starts.
LEMMA SpawnInv ==
  ASSUME IInv, Spawn
  PROVE  IInv' /\ Taken' = Taken
<1>1. /\ Workers \in Nat /\ size \in Nat /\ spawned \in Nat /\ joined \in Nat
      /\ size <= Workers /\ spawned <= Workers /\ joined <= spawned
  BY Counts DEF IInv
<1>2. /\ spawned' = spawned + 1 /\ spawned < size /\ at' = [at EXCEPT ![spawned + 1] = "start"]
      /\ UNCHANGED <<done, joined, phase, size, growing, pool_queue, local_queue, task, probe, future>>
      /\ phase = "constructing" /\ ~growing
  BY DEF Spawn, StealGoto, life, work
<1>3. spawned + 1 \in Worker /\ spawned + 1 \in Runner
  BY <1>1, <1>2, Threads DEF Worker
<1>4. \A r \in Runner : at'[r] = IF r = spawned + 1 THEN "start" ELSE at[r]
  BY <1>2 DEF IInv, StealTypeOK
<1>5. at[spawned + 1] = "unborn"
  BY <1>1, <1>3 DEF IInv, LifeInv
<1>6. \A r \in Runner : Runs(r)' = Runs(r)
  BY <1>4, <1>5 DEF Runs
<1>7. StealTypeOK'
  <2>1. spawned' \in 0..Workers /\ joined' \in 0..spawned'
    BY <1>1, <1>2
  <2>2. at' \in [Runner -> Position]
    BY <1>2 DEF IInv, StealTypeOK, Position
  <2> QED
    BY <1>2, <2>1, <2>2 DEF IInv, StealTypeOK, Position
<1>8. \A w \in Worker : at'[w] # "ready" /\ (at'[w] = "unborn" <=> w > spawned')
  <2> SUFFICES ASSUME NEW w \in Worker
               PROVE  at'[w] # "ready" /\ (at'[w] = "unborn" <=> w > spawned')
    OBVIOUS
  <2>1. CASE w = spawned + 1
    BY <1>1, <1>2, <1>3, <1>4, <2>1
  <2>2. CASE w # spawned + 1
    <3>1. at'[w] = at[w]
      BY <1>4, <2>2, Threads
    <3>2. w > spawned <=> w > spawned'
      BY <1>1, <1>2, <2>2, Threads
    <3> QED
      BY <3>1, <3>2 DEF IInv, LifeInv
  <2> QED
    BY <2>1, <2>2
<1>9. \A w \in 1..joined : w \in Runner /\ w # spawned + 1
  BY <1>1, Threads DEF Worker
<1>10. \A w \in 1..joined' : at'[w] = "exited"
  BY <1>2, <1>4, <1>9 DEF IInv, LifeInv
<1>11. at'[Owner] = at[Owner] /\ spawned' <= size
  BY <1>1, <1>2, <1>3, <1>4, Threads
<1>12. LifeInv'
  BY <1>2, <1>8, <1>10, <1>11 DEF IInv, LifeInv
<1> QED
  BY <1>2, <1>6, <1>7, <1>12, QuietStep DEF IInv, work

\* A thread moves on in its loop.
LEMMA MoveInv ==
  ASSUME IInv, NEW r \in Runner, NEW l, StealGoto(r, l),
         IF r = Owner
         THEN l \in {"ready", "pool", "steal", "run"} /\ phase = "open"
         ELSE l \in {"test", "local", "pool", "steal", "run", "exited"},
         at[r] \notin {"unborn", "exited"},
         UNCHANGED <<life, built>>
  PROVE  /\ at' \in [Runner -> Position]
         /\ \A s \in Runner : at'[s] = IF s = r THEN l ELSE at[s]
         /\ LifeInv'
<1>1. at \in [Runner -> Position]
  BY DEF IInv, StealTypeOK, Position
<1>2. /\ at' \in [Runner -> Position]
      /\ \A s \in Runner : at'[s] = IF s = r THEN l ELSE at[s]
  BY <1>1 DEF StealGoto, Position
<1>3. \A w \in 1..joined : w \in Runner
  BY Counts DEF IInv, Runner, Worker
<1>4. \A w \in 1..joined' : at'[w] = "exited"
  BY <1>2, <1>3 DEF IInv, LifeInv, life
<1>5. /\ at'[Owner] \in {"ready", "pool", "steal", "run"}
      /\ at'[Owner] # "ready" => phase' \in {"open", "crashed"}
  BY <1>2, Threads DEF IInv, LifeInv, life
<1>6. \A w \in Worker : at'[w] # "ready" /\ (at'[w] = "unborn" <=> w > spawned')
  BY <1>2, Threads DEF IInv, LifeInv, built
<1> QED
  BY <1>2, <1>4, <1>5, <1>6 DEF IInv, LifeInv, life, built

\* The owner in run_pending_task, while the pool has not crashed.
LEMMA OwnerOpen ==
  ASSUME IInv, phase # "crashed", at[Owner] # "ready"
  PROVE  phase = "open"
BY DEF IInv, LifeInv

Idles(r) ==
  \/ r # Owner /\ (Start(r) \/ TestDone(r) \/ (PopLocal(r) /\ local_queue[r] = <<>>))
  \/ r = Owner /\ OwnerRuns
  \/ PopPool(r) /\ pool_queue = <<>>
  \/ NextVictim(r)

\* A step of a thread that takes and ends no task.
LEMMA IdleInv ==
  ASSUME IInv, phase # "crashed", NEW r \in Runner, Idles(r)
  PROVE  IInv' /\ Taken' = Taken
<1>1. UNCHANGED <<life, built, work, future>>
  BY DEF Idles, Start, TestDone, PopLocal, OwnerRuns, PopPool, NextVictim, work
<1>2. /\ at[r] \in {"ready", "start", "test", "local", "pool", "steal"}
      /\ at[r] = "ready" => phase = "open"
  BY DEF Idles, Start, TestDone, PopLocal, OwnerRuns, PopPool, NextVictim
<1>3. PICK l : /\ StealGoto(r, l) /\ l # "run"
               /\ IF r = Owner THEN l \in {"ready", "pool", "steal"}
                               ELSE l \in {"test", "local", "pool", "steal", "exited"}
  <2>1. CASE r # Owner /\ (Start(r) \/ TestDone(r) \/ (PopLocal(r) /\ local_queue[r] = <<>>))
    BY <2>1 DEF Start, TestDone, PopLocal
  <2>2. CASE r = Owner /\ OwnerRuns
    BY <2>2 DEF OwnerRuns
  <2>3. CASE PopPool(r) /\ pool_queue = <<>>
    BY <2>3 DEF PopPool
  <2>4. CASE NextVictim(r) /\ at' # at
    BY <2>4 DEF NextVictim, Back
  <2>5. CASE NextVictim(r) /\ at' = at
    <3>1. at[r] = "steal" /\ at' = [at EXCEPT ![r] = "steal"]
      BY <2>5 DEF NextVictim, IInv, StealTypeOK
    <3> QED
      BY <3>1 DEF StealGoto
  <2> QED
    BY <2>1, <2>2, <2>3, <2>4, <2>5 DEF Idles
<1>4. r = Owner => phase = "open"
  BY <1>2, OwnerOpen
<1>5. /\ at' \in [Runner -> Position]
      /\ \A s \in Runner : at'[s] = IF s = r THEN l ELSE at[s]
      /\ LifeInv'
  BY <1>1, <1>2, <1>3, <1>4, MoveInv
<1>6. \A s \in Runner : Runs(s)' = Runs(s)
  BY <1>2, <1>3, <1>5 DEF Runs
<1>7. TaskInv' /\ Taken' = Taken
  BY <1>1, <1>6, QuietStep DEF IInv
<1>8. probe' \in [Runner -> 0..Workers]
  <2>1. CASE NextVictim(r) /\ probe[r] < size /\ probe' = [probe EXCEPT ![r] = @ + 1]
    <3>1. probe[r] + 1 \in 0..Workers
      BY <2>1, Counts DEF IInv
    <3> QED
      BY <2>1, <3>1 DEF IInv, StealTypeOK
  <2>2. CASE probe' = [probe EXCEPT ![r] = 0]
    BY <2>2, StealAssumption DEF IInv, StealTypeOK
  <2>3. CASE probe' = probe
    BY <2>3 DEF IInv, StealTypeOK
  <2> QED
    BY <2>1, <2>2, <2>3
    DEF Idles, Start, TestDone, PopLocal, OwnerRuns, PopPool, NextVictim
<1>9. StealTypeOK'
  BY <1>1, <1>5, <1>8 DEF IInv, StealTypeOK, life, built, work, Position
<1> QED
  BY <1>5, <1>7, <1>9 DEF IInv

Takes(r) ==
  \/ r # Owner /\ PopLocal(r) /\ local_queue[r] # <<>>
  \/ PopPool(r) /\ pool_queue # <<>>
  \/ Steal(r)

\* A step of a thread that takes a task, from any of the three places.
LEMMA TakeInv ==
  ASSUME IInv, phase # "crashed", NEW r \in Runner, Takes(r)
  PROVE  /\ IInv'
         /\ \E k \in Task :
              /\ future[k] = "pending"
              /\ Running(k) = {}
              /\ Taken' = [Taken EXCEPT ![k] = {r}]
<1>1. /\ UNCHANGED <<life, built, future, probe>>
      /\ at[r] \in {"local", "pool", "steal"}
  BY DEF Takes, PopLocal, PopPool, Steal
<1>2. pool_queue \in Seq(Task) /\ local_queue \in [Worker -> Seq(Task)]
  BY DEF IInv, StealTypeOK
<1>3. PICK s \in Runner, n \in Nat, q \in Seq(Task) :
        /\ n \in Slot(s) /\ Len(q) = Len(Queue(s)) - 1
        /\ \A i \in 1..Len(q) : q[i] = Queue(s)[IF i < n THEN i ELSE i + 1]
        /\ \A x \in Runner : Queue(x)' = IF x = s THEN q ELSE Queue(x)
        /\ pool_queue' \in Seq(Task) /\ local_queue' \in [Worker -> Seq(Task)]
        /\ Run(r, Queue(s)[n])
  <2>1. CASE r # Owner /\ PopLocal(r) /\ local_queue[r] # <<>>
    <3>1. r \in Worker
      BY <2>1, Threads
    <3>2. PICK q \in Seq(Task) : q = Tail(local_queue[r])
      BY <1>2, <2>1, <3>1, Removals
    <3>3. /\ 1 \in Slot(r) /\ Len(q) = Len(Queue(r)) - 1
          /\ Head(local_queue[r]) = Queue(r)[1]
          /\ \A i \in 1..Len(q) : ~(i < 1) /\ q[i] = Queue(r)[i + 1]
      BY <1>2, <2>1, <3>1, <3>2, Removals DEF Queue, Slot
    <3>4. local_queue' = [local_queue EXCEPT ![r] = q] /\ pool_queue' = pool_queue /\ Run(r, Queue(r)[1])
      BY <2>1, <3>2, <3>3 DEF PopLocal
    <3>5. \A x \in Runner : Queue(x)' = IF x = r THEN q ELSE Queue(x)
      BY <1>2, <2>1, <3>4, Threads DEF Queue
    <3>6. local_queue' \in [Worker -> Seq(Task)]
      BY <1>2, <3>4
    <3> QED
      BY <1>2, <3>3, <3>4, <3>5, <3>6
  <2>2. CASE PopPool(r) /\ pool_queue # <<>>
    <3>1. PICK q \in Seq(Task) : q = Tail(pool_queue)
      BY <1>2, <2>2, Removals
    <3>2. /\ 1 \in Slot(Owner) /\ Len(q) = Len(Queue(Owner)) - 1
          /\ Head(pool_queue) = Queue(Owner)[1]
          /\ \A i \in 1..Len(q) : ~(i < 1) /\ q[i] = Queue(Owner)[i + 1]
      BY <1>2, <2>2, <3>1, Removals DEF Queue, Slot
    <3>3. pool_queue' = q /\ local_queue' = local_queue /\ Run(r, Queue(Owner)[1])
      BY <2>2, <3>1, <3>2 DEF PopPool
    <3>4. \A x \in Runner : Queue(x)' = IF x = Owner THEN q ELSE Queue(x)
      BY <3>3 DEF Queue
    <3> QED
      BY <1>2, <3>2, <3>3, <3>4, Threads
  <2>3. CASE Steal(r)
    <3>1. PICK s : s = Victim(r)
      OBVIOUS
    <3>2. s \in Worker /\ s \in Runner /\ s # Owner
      BY <2>3, <3>1, VictimIsWorker, Threads DEF IInv, Steal
    <3>3. local_queue[s] # <<>> /\ local_queue[s] \in Seq(Task)
      BY <1>2, <2>3, <3>1, <3>2 DEF Steal
    <3>4. PICK q \in Seq(Task) : q = SubSeq(local_queue[s], 1, Len(local_queue[s]) - 1)
      BY <3>3, Removals
    <3>5. PICK n \in Nat : n = Len(local_queue[s])
      BY <3>3, LenProperties
    <3>6. /\ n \in Slot(s) /\ Len(q) = Len(Queue(s)) - 1 /\ Len(q) = n - 1
          /\ \A i \in 1..(n - 1) : q[i] = Queue(s)[i]
      BY <3>2, <3>3, <3>4, <3>5, Removals DEF Queue, Slot
    <3>7. \A i \in 1..Len(q) : q[i] = Queue(s)[IF i < n THEN i ELSE i + 1]
      BY <3>5, <3>6
    <3>8. /\ local_queue' = [local_queue EXCEPT ![s] = q] /\ pool_queue' = pool_queue
          /\ Run(r, Queue(s)[n])
      BY <2>3, <3>1, <3>2, <3>4, <3>5 DEF Steal, Queue
    <3>9. \A x \in Runner : Queue(x)' = IF x = s THEN q ELSE Queue(x)
      BY <1>2, <3>2, <3>8, Threads DEF Queue
    <3>10. local_queue' \in [Worker -> Seq(Task)]
      BY <1>2, <3>8
    <3> QED
      BY <1>2, <3>2, <3>5, <3>6, <3>7, <3>8, <3>9, <3>10
  <2> QED
    BY <2>1, <2>2, <2>3 DEF Takes
<1>4. ~Runs(r)
  BY <1>1 DEF Runs
<1>5. /\ at' \in [Runner -> Position] /\ task' \in [Runner -> Task \cup {NoTask}]
      /\ TaskInv'
      /\ \E k \in Task :
           /\ future[k] = "pending"
           /\ Running(k) = {}
           /\ Taken' = [Taken EXCEPT ![k] = {r}]
  BY <1>1, <1>3, <1>4, TakeStep DEF IInv
<1>6. StealGoto(r, "run") /\ (r = Owner => phase = "open")
  BY <1>1, <1>3, OwnerOpen DEF Run
<1>7. LifeInv'
  BY <1>1, <1>6, MoveInv
<1>8. StealTypeOK'
  BY <1>1, <1>3, <1>5 DEF IInv, StealTypeOK, life, built, Position
<1> QED
  BY <1>5, <1>7, <1>8 DEF IInv

\* A step that ends a task.
LEMMA FinishInv ==
  ASSUME IInv, phase # "crashed", NEW r \in Runner, Finish(r)
  PROVE  IInv'
<1>1. /\ StealGoto(r, Back(r)) /\ at[r] = "run"
      /\ UNCHANGED <<life, built, pool_queue, local_queue, probe>>
  BY DEF Finish
<1>2. r = Owner => phase = "open"
  BY <1>1, OwnerOpen
<1>3. LifeInv' /\ at' \in [Runner -> Position]
  BY <1>1, <1>2, MoveInv DEF Back
<1>4. /\ future' \in [Task -> {"none", "pending", "ready", "broken"}]
      /\ task' \in [Runner -> Task \cup {NoTask}]
      /\ TaskInv'
  BY FinishStep DEF IInv
<1>5. StealTypeOK'
  BY <1>1, <1>3, <1>4 DEF IInv, StealTypeOK, life, built, Position
<1> QED
  BY <1>3, <1>4, <1>5 DEF IInv

\* A step that submits a task, to the end of the queue of the pool or to the
\* front of that of the thread.
LEMMA SubmitInv ==
  ASSUME IInv, NEW k \in Task, Submit(k) \/ \E r \in Runner : SubmitNested(r, k)
  PROVE  IInv' /\ Taken' = Taken
<1>1. /\ UNCHANGED <<life, built, task, at, probe>>
      /\ future[k] = "none" /\ future' = [future EXCEPT ![k] = "pending"]
  BY DEF Submit, SubmitNested
<1>2. pool_queue \in Seq(Task) /\ local_queue \in [Worker -> Seq(Task)]
  BY DEF IInv, StealTypeOK
<1>3. PICK s \in Runner, q \in Seq(Task), n \in Nat :
        /\ Len(q) = Len(Queue(s)) + 1 /\ n \in 1..Len(q) /\ q[n] = k
        /\ \A i \in Slot(s) : q[IF i < n THEN i ELSE i + 1] = Queue(s)[i]
        /\ \A x \in Runner : Queue(x)' = IF x = s THEN q ELSE Queue(x)
        /\ pool_queue' \in Seq(Task) /\ local_queue' \in [Worker -> Seq(Task)]
  <2>1. CASE pool_queue' = Append(pool_queue, k) /\ UNCHANGED local_queue
    <3>1. PICK q \in Seq(Task) : q = Append(pool_queue, k)
      BY <1>2, Additions
    <3>2. PICK n \in Nat : n = Len(pool_queue) + 1
      BY <1>2, LenProperties
    <3>3. /\ Len(q) = Len(Queue(Owner)) + 1 /\ n \in 1..Len(q) /\ q[n] = k
          /\ \A i \in Slot(Owner) : i < n /\ q[i] = Queue(Owner)[i]
      BY <1>2, <3>1, <3>2, Additions, LenProperties DEF Queue, Slot
    <3>4. \A x \in Runner : Queue(x)' = IF x = Owner THEN q ELSE Queue(x)
      BY <2>1, <3>1 DEF Queue
    <3> QED
      BY <1>2, <2>1, <3>1, <3>3, <3>4, Threads
  <2>2. ASSUME NEW r \in Runner, r # Owner,
               local_queue' = [local_queue EXCEPT ![r] = <<k>> \o @] /\ UNCHANGED pool_queue
        PROVE  \E s \in Runner, q \in Seq(Task), n \in Nat :
                 /\ Len(q) = Len(Queue(s)) + 1 /\ n \in 1..Len(q) /\ q[n] = k
                 /\ \A i \in Slot(s) : q[IF i < n THEN i ELSE i + 1] = Queue(s)[i]
                 /\ \A x \in Runner : Queue(x)' = IF x = s THEN q ELSE Queue(x)
                 /\ pool_queue' \in Seq(Task) /\ local_queue' \in [Worker -> Seq(Task)]
    <3>1. r \in Worker /\ local_queue[r] \in Seq(Task) /\ Queue(r) = local_queue[r]
      BY <1>2, <2>2, Threads DEF Queue
    <3>2. PICK q \in Seq(Task) : q = <<k>> \o local_queue[r]
      BY <3>1, Additions
    <3>3. /\ Len(q) = Len(Queue(r)) + 1 /\ 1 \in 1..Len(q) /\ q[1] = k
          /\ \A i \in Slot(r) : ~(i < 1) /\ q[i + 1] = Queue(r)[i]
      BY <3>1, <3>2, Additions, LenProperties DEF Slot
    <3>4. local_queue' = [local_queue EXCEPT ![r] = q]
      BY <2>2, <3>2
    <3>5. \A x \in Runner : Queue(x)' = IF x = r THEN q ELSE Queue(x)
      BY <1>2, <2>2, <3>1, <3>4, Threads DEF Queue
    <3>6. local_queue' \in [Worker -> Seq(Task)]
      BY <1>2, <3>4
    <3> QED
      BY <1>2, <2>2, <3>3, <3>5, <3>6
  <2> QED
    BY <2>1, <2>2 DEF Submit, SubmitNested
<1>4. /\ future' \in [Task -> {"none", "pending", "ready", "broken"}]
      /\ TaskInv' /\ Taken' = Taken
  <2>1. StealTypeOK /\ TaskInv /\ UNCHANGED <<at, task>>
    BY <1>1 DEF IInv
  <2>2. n \in 1..Len(q) /\ Len(q) = Len(Queue(s)) + 1 /\ q[n] = k
    BY <1>3
  <2>4. \A i \in Slot(s) : q[IF i < n THEN i ELSE i + 1] = Queue(s)[i]
    BY <1>3
  <2>5. \A x \in Runner : Queue(x)' = IF x = s THEN q ELSE Queue(x)
    BY <1>3
  <2>3. future[k] = "none" /\ future' = [future EXCEPT ![k] = "pending"]
    BY <1>1
  <2> QED
    BY <2>1, <2>2, <2>3, <2>4, <2>5, EnqueueStep, ZenonT(60)
<1>5. StealTypeOK'
  BY <1>1, <1>3, <1>4 DEF IInv, StealTypeOK, life, built
<1>6. LifeInv'
  BY <1>1 DEF IInv, LifeInv, life, built
<1> QED
  BY <1>4, <1>5, <1>6 DEF IInv

\* The end of the pool.
LEMMA FreeInv ==
  ASSUME IInv, Free
  PROVE  /\ IInv'
         /\ future' = [k \in Task |-> IF future[k] = "pending" THEN "broken" ELSE future[k]]
         /\ \A k \in Task : Running(k) = {}
         /\ Taken' = Taken
<1>1. \A r \in Runner : ~Runs(r)
  BY RunsWhileOpen DEF IInv, Free
<1>2. /\ future' = [k \in Task |-> IF future[k] = "pending" THEN "broken" ELSE future[k]]
      /\ TaskInv'
      /\ \A k \in Task : Running(k) = {}
      /\ Taken' = Taken
  BY <1>1, FreeStep DEF IInv, Free
<1>3. /\ pool_queue' \in Seq(Task) /\ local_queue' \in [Worker -> Seq(Task)]
      /\ size' = 0 /\ phase' = "gone"
           /\ UNCHANGED <<done, joined, growing, spawned, at, probe, task>>
  BY EmptySeq DEF Free, DropQueues
<1>4. size' \in 0..Workers
  BY <1>3, StealAssumption
<1>5. future' \in [Task -> {"none", "pending", "ready", "broken"}]
  BY <1>2 DEF IInv, StealTypeOK
<1>6. StealTypeOK'
  BY <1>3, <1>4, <1>5 DEF IInv, StealTypeOK
<1>7. ~growing /\ at[Owner] = "ready" /\ joined = spawned
  BY DEF IInv, LifeInv, Free
<1>8. LifeInv'
  BY <1>3, <1>7 DEF IInv, LifeInv
<1> QED
  BY <1>2, <1>6, <1>8 DEF IInv

\* What a step of a running system can be.
LEMMA StepCases ==
  ASSUME StealNext
  PROVE  /\ phase # "crashed"
         /\ \/ GrowBegin \/ GrowEnd \/ SpawnFails \/ Constructed \/ Destroy \/ Join \/ Fails
            \/ Spawn
            \/ \E r \in Runner : Idles(r)
            \/ \E r \in Runner : Takes(r)
            \/ \E r \in Runner : Finish(r)
            \/ \E k \in Task : Submit(k) \/ \E r \in Runner : SubmitNested(r, k)
            \/ Free
BY Threads DEF StealNext, Construct, OwnerWorks, WorkerStep, Idles, Takes, Fails

\* Each step.
LEMMA StepInv == IInv /\ [StealNext]_steal_vars => IInv'
<1>1. ASSUME IInv, StealNext PROVE IInv'
  BY <1>1, StepCases, OwnerInv, SpawnInv, IdleInv, TakeInv, FinishInv, SubmitInv, FreeInv
<1>2. ASSUME IInv, UNCHANGED steal_vars PROVE IInv'
  <2>1. UNCHANGED <<life, built, work, at, probe, future>>
    BY <1>2 DEF steal_vars
  <2>2. TaskInv'
    BY <1>2, <2>1, QuietStep DEF IInv, Runs
  <2>3. StealTypeOK' /\ LifeInv'
    BY <1>2, <2>1 DEF IInv, StealTypeOK, LifeInv, life, built, work
  <2> QED
    BY <2>2, <2>3 DEF IInv
<1> QED
  BY <1>1, <1>2

\* The invariant that the theorems rest on.
THEOREM Inductive == StealSpec => []IInv
BY InitInv, StepInv, PTL DEF StealSpec

\* That vector aside, no worker uses the pool when its queues are gone, for any
\* number of workers, and when the constructor fails (chapter_9.h:292-296,
\* 336-344).
THEOREM QueuesAlive == StealSpec => QueuesOutliveWorkers
<1>1. ASSUME IInv, StealNext, phase' = "crashed" PROVE growing
  <2>1. phase # "crashed"
    BY <1>1 DEF StealNext
  <2>2. CASE Fails
    BY <1>1, <2>2, TornOnlyWhileGrowing
  <2>3. CASE GrowBegin \/ GrowEnd \/ SpawnFails \/ Constructed \/ Destroy \/ Join \/ Free
    BY <1>1, <2>1, <2>3 DEF GrowBegin, GrowEnd, SpawnFails, Constructed, Destroy, Join,
                            Free, DropQueues, life
  <2>4. CASE Spawn \/ \E k \in Task : Submit(k) \/ \E r \in Runner : SubmitNested(r, k)
    BY <1>1, <2>1, <2>4 DEF Spawn, Submit, SubmitNested, life
  <2>5. CASE \E r \in Runner : Idles(r) \/ Takes(r) \/ Finish(r)
    BY <1>1, <2>1, <2>5 DEF Idles, Takes, Start, TestDone, OwnerRuns, PopLocal, PopPool,
                            Steal, NextVictim, Finish, life
  <2> QED
    BY <1>1, <2>2, <2>3, <2>4, <2>5, StepCases
<1>2. IInv /\ [StealNext]_steal_vars => [phase' = "crashed" => growing]_steal_vars
  BY <1>1
<1> QED
  BY Inductive, <1>2, PTL DEF StealSpec, QueuesOutliveWorkers
-----------------------------------------------------------------------------
(* The pool implements TaskPool *)

\* The start.
LEMMA InitRefines == StealInit => Pool!Init
<1> SUFFICES ASSUME StealInit PROVE Pool!Init
  OBVIOUS
<1>1. \A k \in Task : Running(k) = {}
  BY DEF StealInit, Running
<1> QED
  BY <1>1 DEF StealInit, Pool!Init

\* A thread that runs or takes a task does so before the pool is gone.
LEMMA OpenWhile ==
  ASSUME IInv, NEW r \in Runner, Takes(r) \/ Runs(r)
  PROVE  phase # "gone"
<1>1. CASE Runs(r)
  BY <1>1, RunsWhileOpen DEF IInv
<1>2. CASE Takes(r)
  <2>1. at[r] \in {"local", "pool", "steal"}
    BY <1>2 DEF Takes, PopLocal, PopPool, Steal
  <2> QED
    BY <2>1, RunsWhileOpen, Threads DEF IInv, LifeInv
<1> QED
  BY <1>1, <1>2

\* Each step.
LEMMA NextRefines == IInv /\ [StealNext]_steal_vars => [Pool!Next]_(Pool!vars)
<1> SUFFICES ASSUME IInv, [StealNext]_steal_vars PROVE [Pool!Next]_(Pool!vars)
  OBVIOUS
<1>1. ASSUME Taken' = Taken, UNCHANGED future, (phase = "gone")' = (phase = "gone")
      PROVE  UNCHANGED Pool!vars
  BY <1>1 DEF Pool!vars, Taken
<1>2. ASSUME GrowBegin \/ GrowEnd \/ SpawnFails \/ Constructed \/ Destroy \/ Join \/ Fails
             \/ Spawn
      PROVE  UNCHANGED Pool!vars
  <2>1. UNCHANGED future
    BY <1>2 DEF GrowBegin, GrowEnd, SpawnFails, Constructed, Destroy, Join, Fails,
                TornRead, Spawn
  <2>2. phase # "gone" /\ phase' # "gone"
    BY <1>2, TornOnlyWhileGrowing DEF GrowBegin, GrowEnd, SpawnFails, Constructed, Destroy, Join, Fails,
                TornRead, Spawn, IInv, LifeInv, life
  <2> QED
    BY <1>1, <1>2, <2>1, <2>2, OwnerInv, SpawnInv
<1>3. ASSUME phase # "crashed", NEW r \in Runner, Idles(r) PROVE UNCHANGED Pool!vars
  <2>1. UNCHANGED <<phase, future>>
    BY <1>3 DEF Idles, Start, TestDone, PopLocal, OwnerRuns, PopPool, NextVictim, life
  <2> QED
    BY <1>1, <1>3, <2>1, IdleInv
<1>4. ASSUME phase # "crashed", NEW r \in Runner, Takes(r) PROVE Pool!Next
  <2>1. PICK k \in Task :
          /\ future[k] = "pending"
          /\ Running(k) = {}
          /\ Taken' = [Taken EXCEPT ![k] = {r}]
    BY <1>4, TakeInv
  <2>2. phase # "gone" /\ UNCHANGED <<phase, future>>
    BY <1>4, OpenWhile DEF Takes, PopLocal, PopPool, Steal, life
  <2>3. Pool!Take(k, r)
    BY <2>1, <2>2 DEF Pool!Take, Taken
  <2> QED
    BY <2>3 DEF Pool!Next
<1>5. ASSUME NEW r \in Runner, Finish(r) PROVE Pool!Next
  <2>1. PICK k \in Task :
          /\ Running(k) = {r}
          /\ Taken' = [Taken EXCEPT ![k] = {}]
          /\ future' = [future EXCEPT ![k] = "ready"]
    BY <1>5, FinishStep DEF IInv
  <2>2. phase # "gone" /\ UNCHANGED phase
    BY <1>5, OpenWhile DEF Finish, Runs, life
  <2>3. Pool!Resolve(k, r)
    BY <2>1, <2>2 DEF Pool!Resolve, Taken
  <2> QED
    BY <2>3 DEF Pool!Next
<1>6. ASSUME NEW k \in Task, Submit(k) \/ \E r \in Runner : SubmitNested(r, k)
      PROVE  Pool!Next
  <2>1. Taken' = Taken
    BY <1>6, SubmitInv
  <2>2. /\ phase # "gone" /\ UNCHANGED phase
        /\ future[k] = "none" /\ future' = [future EXCEPT ![k] = "pending"]
    BY <1>6, OpenWhile DEF Submit, SubmitNested, Runs, life
  <2>3. Pool!Submit(k)
    BY <2>1, <2>2 DEF Pool!Submit, Taken
  <2> QED
    BY <2>3 DEF Pool!Next
<1>7. CASE Free
  <2>1. phase # "gone" /\ phase' = "gone"
    BY <1>7 DEF Free, DropQueues
  <2>2. Pool!Close
    BY <1>7, <2>1, FreeInv DEF Pool!Close, Taken
  <2> QED
    BY <2>2 DEF Pool!Next
<1>8. CASE UNCHANGED steal_vars
  <2>1. Taken' = Taken /\ UNCHANGED <<phase, future>>
    BY <1>8 DEF steal_vars, life, work, Taken, Running
  <2> QED
    BY <1>1, <2>1
<1> QED
  BY <1>2, <1>3, <1>4, <1>5, <1>6, <1>7, <1>8, StepCases

\* Every submitted task is taken once, from whichever queue and end, by one
\* thread, and resolved once; the promises broken at the end are exactly those
\* nobody took, for any number of workers (chapter_9.h:310-368).
THEOREM PoolRunsTasks == StealSpec => RunsTasks
BY InitRefines, NextRefines, Inductive, PTL DEF StealSpec, RunsTasks, Pool!Spec
=============================================================================
