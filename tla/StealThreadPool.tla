-------------------------- MODULE StealThreadPool --------------------------
(***************************************************************************)
(* steal_thread_pool and work_stealing_queue of chapter_9.h.  A worker     *)
(* submits to the front of its own queue and takes from there; the owner   *)
(* submits to the queue of the pool; a worker that finds both empty takes  *)
(* from the back of the others' queues.                                    *)
(*                                                                         *)
(* Each operation of work_stealing_queue holds the mutex of the queue from *)
(* end to end, and each operation of the pool's thread_safe_queue takes    *)
(* effect in one step (ThreadSafeQueueProofs.tla): both are one step on a  *)
(* sequence.  The thread_local members have no definition in the           *)
(* repository, so that a program that uses the class does not link; they   *)
(* are taken as the declarations give them, null and 0 in a new thread.    *)
(***************************************************************************)
EXTENDS Naturals, Sequences, FiniteSets

CONSTANTS
  Workers,   \* thread::hardware_concurrency(), which may be 0
  Task,      \* the tasks that may be submitted, each once
  Submits,   \* Submits[k]: the tasks that task k itself submits as it runs
  Blocking,  \* the tasks that wait for the futures of those they submitted
  NoTask     \* an empty function_wrapper

ASSUME StealAssumption ==
  /\ Workers \in Nat
  /\ Submits \in [Task -> SUBSET Task]
  /\ Blocking \subseteq Task
  /\ NoTask \notin Task

Worker == 1..Workers
Owner  == 0
Runner == Worker \cup {Owner}   \* the threads that run tasks

VARIABLES
  done,         \* _done
  pool_queue,   \* _pool_work_queue
  local_queue,  \* the work_stealing_queue of each worker, its front first
  size,         \* _queues.size()
  growing,      \* the constructor is inside _queues.push_back
  spawned,      \* _threads.size()
  joined,       \* the threads ~join_threads has joined so far
  phase,        \* how far the owner is in the pool's lifetime
  at,           \* where each runner is in its loop
  probe,        \* the loop variable i of pop_task_from_other_thread_queue
  task,         \* the local variable task of each runner
  future        \* the state of each task's future

built == <<size, growing, spawned>>
life  == <<done, joined, phase>>
work  == <<pool_queue, local_queue, task>>
steal_vars  == <<life, built, work, at, probe, future>>

StealInit ==
  /\ done = FALSE
  /\ pool_queue = <<>>
  /\ local_queue = [w \in Worker |-> <<>>]
  /\ size = 0
  /\ growing = FALSE
  /\ spawned = 0
  /\ joined = 0
  /\ phase = "constructing"
  /\ at = [r \in Runner |-> IF r = Owner THEN "ready" ELSE "unborn"]
  /\ probe = [r \in Runner |-> 0]
  /\ task = [r \in Runner |-> NoTask]
  /\ future = [k \in Task |-> "none"]

StealGoto(r, l) == at' = [at EXCEPT ![r] = l]

\* Where run_pending_task returns to: the worker's loop, or the owner.
Back(r) == IF r = Owner THEN "ready" ELSE "test"
-----------------------------------------------------------------------------
(* The constructor: one queue and one thread at a time *)

GrowBegin ==
  /\ phase = "constructing" /\ ~growing /\ size = spawned /\ size < Workers
  /\ growing' = TRUE
  /\ UNCHANGED <<life, size, spawned, work, at, probe, future>>

GrowEnd ==
  /\ growing
  /\ growing' = FALSE
  /\ size' = size + 1
  /\ UNCHANGED <<life, spawned, work, at, probe, future>>

\* _threads.push_back(thread(...)): the new worker runs at once.
Spawn ==
  /\ phase = "constructing" /\ ~growing /\ spawned < size
  /\ spawned' = spawned + 1
  /\ StealGoto(spawned + 1, "start")
  /\ UNCHANGED <<life, size, growing, work, probe, future>>

\* Mutant: the constructor has no try block around the loop.
FailsSilently ==
  /\ phase = "constructing" /\ ~growing /\ spawned < size
  /\ phase' = "joining"
  /\ UNCHANGED <<done, joined, built, work, at, probe, future>>

\* The thread cannot be started: _done is set, and the exception destroys
\* the members that exist, _joiner first.
SpawnFails ==
  /\ phase = "constructing" /\ ~growing /\ spawned < size
  /\ done' = TRUE
  /\ phase' = "joining"
  /\ UNCHANGED <<joined, built, work, at, probe, future>>

Constructed ==
  /\ phase = "constructing" /\ ~growing /\ spawned = Workers
  /\ phase' = "open"
  /\ UNCHANGED <<done, joined, built, work, at, probe, future>>
-----------------------------------------------------------------------------
(* worker_thread and run_pending_task *)

\* local_work_queue = _queues[my_index].get()
Start(w) ==
  /\ at[w] = "start"
  /\ StealGoto(w, "test")
  /\ UNCHANGED <<life, built, work, probe, future>>

\* while (!_done)
TestDone(w) ==
  /\ at[w] = "test"
  /\ StealGoto(w, IF done THEN "exited" ELSE "local")
  /\ UNCHANGED <<life, built, work, probe, future>>

\* The owner has no local queue and begins with the queue of the pool.
OwnerRuns ==
  /\ phase = "open"
  /\ at[Owner] = "ready"
  /\ StealGoto(Owner, "pool")
  /\ UNCHANGED <<life, built, work, probe, future>>

Run(r, k) ==
  /\ task' = [task EXCEPT ![r] = k]
  /\ StealGoto(r, "run")

\* pop_task_from_local_queue: the task submitted last.
PopLocal(w) ==
  /\ at[w] = "local"
  /\ \/ /\ local_queue[w] # <<>>
        /\ Run(w, Head(local_queue[w]))
        /\ local_queue' = [local_queue EXCEPT ![w] = Tail(@)]
     \/ /\ local_queue[w] = <<>>
        /\ StealGoto(w, "pool")
        /\ UNCHANGED <<local_queue, task>>
  /\ UNCHANGED <<life, built, pool_queue, probe, future>>

\* Mutant: a runner that finds no task in the pool's queue gives up.
NeverSteals(r) ==
  /\ at[r] = "pool"
  /\ \/ /\ pool_queue # <<>>
        /\ Run(r, Head(pool_queue))
        /\ pool_queue' = Tail(pool_queue)
     \/ /\ pool_queue = <<>>
        /\ StealGoto(r, Back(r))
        /\ UNCHANGED <<pool_queue, task>>
  /\ UNCHANGED <<life, built, local_queue, probe, future>>

\* pop_task_from_pool_queue
PopPool(r) ==
  /\ at[r] = "pool"
  /\ \/ /\ pool_queue # <<>>
        /\ Run(r, Head(pool_queue))
        /\ pool_queue' = Tail(pool_queue)
        /\ UNCHANGED probe
     \/ /\ pool_queue = <<>>
        /\ StealGoto(r, "steal")
        /\ probe' = [probe EXCEPT ![r] = 0]
        /\ UNCHANGED <<pool_queue, task>>
  /\ UNCHANGED <<life, built, local_queue, future>>

MyIndex(r) == IF r = Owner THEN 0 ELSE r - 1   \* _my_index

\* The worker whose queue is _queues[(_my_index + i + 1) % _queues.size()].
Victim(r) == ((MyIndex(r) + probe[r] + 1) % size) + 1

\* Mutant: try_steal copies the task and leaves it in the queue.
StealsCopy(r) ==
  /\ at[r] = "steal"
  /\ probe[r] < size
  /\ local_queue[Victim(r)] # <<>>
  /\ Run(r, local_queue[Victim(r)][Len(local_queue[Victim(r)])])
  /\ UNCHANGED <<life, built, pool_queue, local_queue, probe, future>>

\* try_steal finds a task at the back of another queue.
Steal(r) ==
  /\ at[r] = "steal"
  /\ probe[r] < size
  /\ LET q == local_queue[Victim(r)] IN
       /\ q # <<>>
       /\ Run(r, q[Len(q)])
       /\ local_queue' = [local_queue EXCEPT ![Victim(r)] = SubSeq(q, 1, Len(q) - 1)]
  /\ UNCHANGED <<life, built, pool_queue, probe, future>>

\* Nothing to steal there: look at the next queue, or yield after the last.
NextVictim(r) ==
  /\ at[r] = "steal"
  /\ \/ /\ probe[r] < size
        /\ local_queue[Victim(r)] = <<>>
        /\ probe' = [probe EXCEPT ![r] = @ + 1]
        /\ UNCHANGED at
     \/ /\ probe[r] >= size
        /\ StealGoto(r, Back(r))
        /\ UNCHANGED probe
  /\ UNCHANGED <<life, built, work, future>>

\* A worker inside its loop reads _queues while push_back moves it to a larger
\* buffer, so that what it finds, size() or a pointer, may be of neither
\* buffer; or it uses the pool after its members are gone.  Either is undefined
\* and may end the program; it may also do no harm, and then one of the steps
\* above is taken.
TornRead(w) ==
  /\ IF growing THEN at[w] \in {"start", "steal"}
     ELSE phase = "gone" /\ at[w] \notin {"unborn", "exited"}
  /\ phase' = "crashed"
  /\ UNCHANGED <<done, joined, built, work, at, probe, future>>

\* The packaged_task has returned or thrown.  A task that calls get() on the
\* futures of those it submitted returns after they have.
Finish(r) ==
  /\ at[r] = "run"
  /\ task[r] \in Blocking => \A k \in Submits[task[r]] : future[k] # "pending"
  /\ future' = [future EXCEPT ![task[r]] = "ready"]
  /\ task' = [task EXCEPT ![r] = NoTask]
  /\ StealGoto(r, Back(r))
  /\ UNCHANGED <<life, built, pool_queue, local_queue, probe>>
-----------------------------------------------------------------------------
(* submit *)

\* The owner submits a task.
Submit(k) ==
  /\ phase = "open"
  /\ at[Owner] = "ready"
  /\ future[k] = "none"
  /\ future' = [future EXCEPT ![k] = "pending"]
  /\ pool_queue' = Append(pool_queue, k)
  /\ UNCHANGED <<life, built, local_queue, task, at, probe>>

\* A task submits another: to the local queue of the thread that runs it, if
\* that thread has one.
SubmitNested(r, k) ==
  /\ at[r] = "run"
  /\ k \in Submits[task[r]]
  /\ future[k] = "none"
  /\ future' = [future EXCEPT ![k] = "pending"]
  /\ IF r = Owner
     THEN pool_queue' = Append(pool_queue, k) /\ UNCHANGED local_queue
     ELSE local_queue' = [local_queue EXCEPT ![r] = <<k>> \o @]
          /\ UNCHANGED pool_queue
  /\ UNCHANGED <<life, built, task, at, probe>>
-----------------------------------------------------------------------------
(* The destructor, and the destructors of the members in reverse order *)

Destroy ==
  /\ phase = "open"
  /\ at[Owner] = "ready"
  /\ done' = TRUE
  /\ phase' = "joining"
  /\ UNCHANGED <<joined, built, work, at, probe, future>>

Join ==
  /\ phase = "joining"
  /\ joined < spawned
  /\ at[joined + 1] = "exited"
  /\ joined' = joined + 1
  /\ UNCHANGED <<done, phase, built, work, at, probe, future>>

\* The queues die with the tasks nobody took, whose futures throw
\* broken_promise.
DropQueues ==
  /\ phase' = "gone"
  /\ size' = 0
  /\ pool_queue' = <<>>
  /\ local_queue' = [w \in Worker |-> <<>>]
  /\ future' = [k \in Task |->
       IF future[k] = "pending" /\ \A r \in Runner : task[r] # k
       THEN "broken" ELSE future[k]]
  /\ UNCHANGED <<done, joined, growing, spawned, at, probe, task>>

\* Mutant: _queues is declared after _joiner, and so dies before it.
FreesBeforeJoining == phase = "joining" /\ DropQueues

Free == phase = "joining" /\ joined = spawned /\ DropQueues
-----------------------------------------------------------------------------
WorkerStep(w) ==
  \/ Start(w) \/ TestDone(w) \/ PopLocal(w) \/ PopPool(w)
  \/ Steal(w) \/ NextVictim(w) \/ Finish(w)

Construct == GrowBegin \/ GrowEnd \/ Spawn \/ SpawnFails \/ Constructed

\* The owner inside run_pending_task, or inside the destructor.
OwnerWorks ==
  PopPool(Owner) \/ Steal(Owner) \/ NextVictim(Owner) \/ Finish(Owner) \/ Join \/ Free

StealNext ==
  /\ phase # "crashed"
  /\ \/ Construct \/ OwnerRuns \/ OwnerWorks \/ Destroy
     \/ \E k \in Task : Submit(k) \/ \E r \in Runner : SubmitNested(r, k)
     \/ \E w \in Worker : WorkerStep(w) \/ TornRead(w)

StealSpec == StealInit /\ [][StealNext]_steal_vars

\* Every thread keeps running; the owner need not submit, help or destroy.
StealFairness ==
  /\ WF_steal_vars(phase # "crashed" /\ Construct)
  /\ WF_steal_vars(phase # "crashed" /\ OwnerWorks)
  /\ \A w \in Worker : WF_steal_vars(phase # "crashed" /\ WorkerStep(w))

-----------------------------------------------------------------------------
(* Properties *)

Running(k) == {r \in Runner : at[r] = "run" /\ task[r] = k}

\* Every variable keeps its type.
StealTypeOK ==
  /\ done \in BOOLEAN /\ growing \in BOOLEAN
  /\ pool_queue \in Seq(Task) /\ local_queue \in [Worker -> Seq(Task)]
  /\ size \in 0..Workers /\ spawned \in 0..Workers /\ joined \in 0..spawned
  /\ phase \in {"constructing", "open", "joining", "gone", "crashed"}
  /\ at \in [Runner -> {"unborn", "start", "ready", "test", "local", "pool",
                        "steal", "run", "exited"}]
  /\ probe \in [Runner -> 0..Workers]
  /\ task \in [Runner -> Task \cup {NoTask}]
  /\ future \in [Task -> {"none", "pending", "ready", "broken"}]

Pool == INSTANCE TaskPool WITH
  runners <- [k \in Task |-> Running(k)],
  open <- phase # "gone"

\* Every submitted task is taken by one thread, from whichever queue and
\* whichever end, and run once; the pool dies when no task is running, and
\* breaks the promises of exactly those nobody took (chapter_9.h:310-368).
RunsTasks == Pool!Spec

\* The queues share their tasks under locks, so no thread reads a queue, or
\* the vector that holds them, while another thread moves it.  Violated: the
\* workers that run already read _queues with no lock held (chapter_9.h:304
\* and 319-321) while the constructor pushes the next queue (line 333).
QueuesReadIntact == phase # "crashed"

\* That vector aside, no worker uses the pool when its queues are gone: the
\* destructor, and a constructor that fails, join the workers first
\* (chapter_9.h:292-296, 336-344).
QueuesOutliveWorkers == [][phase' = "crashed" => growing]_steal_vars

\* As long as the pool lives every task is run, also when the worker that
\* submitted it is blocked until it has been: another one steals it.  There
\* must be more workers than tasks that block (chapter_9.h:318-326).  A task
\* is submitted once, so that in the end none is pending.
FuturesResolve ==
  (\E k \in Task : future[k] = "pending") ~>
    \/ \A k \in Task : future[k] # "pending"
    \/ done \/ phase = "crashed"

\* The destructor returns, unless a task that blocks was not over by then:
\* the workers leave without looking at their queues again, and the task it
\* waits for may be in one of them (chapter_9.h:305-307, 342-344).
DestructionEnds ==
  (phase = "joining" /\ \A k \in Blocking : future[k] # "pending") ~> (phase = "gone")
=============================================================================
