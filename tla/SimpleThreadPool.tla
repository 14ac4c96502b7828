-------------------------- MODULE SimpleThreadPool --------------------------
(***************************************************************************)
(* simple_thread_pool of chapter_9.h, from the first statement of its      *)
(* constructor to the end of its destructor: worker threads that poll one  *)
(* queue of packaged tasks, an owner that submits, helps out and destroys, *)
(* and the join_threads member whose destructor waits for the workers.     *)
(*                                                                         *)
(* The queue is a thread_safe_queue: each of its operations takes effect   *)
(* in one step on a first-in first-out sequence, which is what             *)
(* ThreadSafeQueueProofs.tla proves of it.                                 *)
(***************************************************************************)
EXTENDS Naturals, Sequences, FiniteSets

CONSTANTS
  Workers,   \* thread::hardware_concurrency(), which may be 0
  Task,      \* the tasks that may be submitted, each once
  Submits,   \* Submits[k]: the tasks that task k itself submits as it runs
  NoTask     \* an empty function_wrapper

ASSUME PoolAssumption ==
  /\ Workers \in Nat
  /\ Submits \in [Task -> SUBSET Task]
  /\ NoTask \notin Task

Worker == 1..Workers
Owner  == 0
Runner == Worker \cup {Owner}   \* the threads that run tasks

VARIABLES
  done,      \* _done
  queue,     \* _func_wrapper_queue_
  spawned,   \* _threads.size()
  joined,    \* the threads ~join_threads has joined so far
  phase,     \* how far the owner is in the pool's lifetime
  pc,        \* where each runner is in its loop
  task,      \* the local variable _task of each runner
  future     \* the state of each task's future

pool_vars == <<done, queue, spawned, joined, phase, pc, task, future>>

Init ==
  /\ done = FALSE
  /\ queue = <<>>
  /\ spawned = 0
  /\ joined = 0
  /\ phase = "constructing"
  /\ pc = [r \in Runner |-> IF r = Owner THEN "ready" ELSE "unborn"]
  /\ task = [r \in Runner |-> NoTask]
  /\ future = [k \in Task |-> "none"]

Goto(r, l) == pc' = [pc EXCEPT ![r] = l]
-----------------------------------------------------------------------------
(* The constructor *)

\* _threads.push_back(thread(...)): the new worker runs at once.
Spawn ==
  /\ phase = "constructing"
  /\ spawned < Workers
  /\ spawned' = spawned + 1
  /\ Goto(spawned + 1, "test")
  /\ UNCHANGED <<done, queue, joined, phase, task, future>>

\* Mutant: the constructor has no try block around the loop.
FailsSilently ==
  /\ phase = "constructing"
  /\ spawned < Workers
  /\ phase' = "joining"
  /\ UNCHANGED <<done, queue, spawned, joined, pc, task, future>>

\* The thread cannot be started: _done is set, and the exception destroys
\* the members that exist, _joiner first.
SpawnFails ==
  /\ phase = "constructing"
  /\ spawned < Workers
  /\ done' = TRUE
  /\ phase' = "joining"
  /\ UNCHANGED <<queue, spawned, joined, pc, task, future>>

Constructed ==
  /\ phase = "constructing"
  /\ spawned = Workers
  /\ phase' = "open"
  /\ UNCHANGED <<done, queue, spawned, joined, pc, task, future>>
-----------------------------------------------------------------------------
(* worker_thread_func *)

\* while (!_done)
TestDone(w) ==
  /\ pc[w] = "test"
  /\ Goto(w, IF done THEN "exited" ELSE "pop")
  /\ UNCHANGED <<done, queue, spawned, joined, phase, task, future>>

\* Mutant: the task is read and removed in two steps.
TakesWithoutRemoving(r) ==
  /\ task' = [task EXCEPT ![r] = Head(queue)]
  /\ queue' = queue

TakeTask(r) ==
  /\ task' = [task EXCEPT ![r] = Head(queue)]
  /\ queue' = Tail(queue)

\* Mutant: a worker that finds no task leaves instead of yielding.
LeavesWhenIdle(w) ==
  /\ pc[w] = "pop"
  /\ \/ /\ queue # <<>>
        /\ TakeTask(w)
        /\ Goto(w, "run")
     \/ /\ queue = <<>>
        /\ Goto(w, "exited")
        /\ UNCHANGED <<queue, task>>
  /\ UNCHANGED <<done, spawned, joined, phase, future>>

\* try_pop(_task) finds a task, or the worker yields and tests _done again.
PopTask(w) ==
  /\ pc[w] = "pop"
  /\ \/ /\ queue # <<>>
        /\ TakeTask(w)
        /\ Goto(w, "run")
     \/ /\ queue = <<>>
        /\ Goto(w, "test")
        /\ UNCHANGED <<queue, task>>
  /\ UNCHANGED <<done, spawned, joined, phase, future>>

\* The packaged_task has returned or thrown: its future holds the outcome.
Finish(r) ==
  /\ pc[r] = "run"
  /\ future' = [future EXCEPT ![task[r]] = "ready"]
  /\ task' = [task EXCEPT ![r] = NoTask]
  /\ Goto(r, IF r = Owner THEN "ready" ELSE "test")
  /\ UNCHANGED <<done, queue, spawned, joined, phase>>
-----------------------------------------------------------------------------
(* submit and run_pending_task *)

Enqueue(k) ==
  /\ future[k] = "none"
  /\ future' = [future EXCEPT ![k] = "pending"]
  /\ queue' = Append(queue, k)
  /\ UNCHANGED <<done, spawned, joined, phase, pc, task>>

\* The owner submits a task.
Submit(k) ==
  /\ phase = "open"
  /\ pc[Owner] = "ready"
  /\ Enqueue(k)

\* A task that is running submits another.
SubmitNested(r, k) ==
  /\ pc[r] = "run"
  /\ k \in Submits[task[r]]
  /\ Enqueue(k)

\* The owner runs a pending task, or yields when there is none.
RunPendingTask ==
  /\ phase = "open"
  /\ pc[Owner] = "ready"
  /\ queue # <<>>
  /\ TakeTask(Owner)
  /\ Goto(Owner, "run")
  /\ UNCHANGED <<done, spawned, joined, phase, future>>
-----------------------------------------------------------------------------
(* The destructor, and the destructors of the members in reverse order *)

Destroy ==
  /\ phase = "open"
  /\ pc[Owner] = "ready"
  /\ done' = TRUE
  /\ phase' = "joining"
  /\ UNCHANGED <<queue, spawned, joined, pc, task, future>>

\* ~join_threads joins the workers in the order they were started.
Join ==
  /\ phase = "joining"
  /\ joined < spawned
  /\ pc[joined + 1] = "exited"
  /\ joined' = joined + 1
  /\ UNCHANGED <<done, queue, spawned, phase, pc, task, future>>

\* Mutant: _threads and _joiner are swapped, so the queue goes first.
FreesBeforeJoining ==
  /\ phase = "joining"
  /\ phase' = "gone"
  /\ queue' = <<>>
  /\ future' = [k \in Task |-> IF k \in {queue[i] : i \in 1..Len(queue)}
                               THEN "broken" ELSE future[k]]
  /\ UNCHANGED <<done, spawned, joined, pc, task>>

\* The queue is destroyed with the tasks no one took: their futures throw
\* broken_promise.
Free ==
  /\ phase = "joining"
  /\ joined = spawned
  /\ phase' = "gone"
  /\ queue' = <<>>
  /\ future' = [k \in Task |-> IF k \in {queue[i] : i \in 1..Len(queue)}
                               THEN "broken" ELSE future[k]]
  /\ UNCHANGED <<done, spawned, joined, pc, task>>
-----------------------------------------------------------------------------
WorkerStep(w) == TestDone(w) \/ PopTask(w) \/ Finish(w)

OwnerStep ==
  \/ Spawn \/ SpawnFails \/ Constructed
  \/ (\E k \in Task : Submit(k)) \/ RunPendingTask \/ Finish(Owner)
  \/ Destroy \/ Join \/ Free

Next ==
  \/ OwnerStep
  \/ \E w \in Worker : WorkerStep(w)
  \/ \E r \in Runner, k \in Task : SubmitNested(r, k)

Spec == Init /\ [][Next]_pool_vars

\* Every thread keeps running.  Its owner need not destroy the pool, nor
\* submit anything, and a task may submit less than it could.
Fairness ==
  /\ WF_pool_vars(Spawn \/ SpawnFails \/ Constructed)
  /\ WF_pool_vars(Finish(Owner) \/ Join \/ Free)
  /\ \A w \in Worker : WF_pool_vars(WorkerStep(w))

FairSpec == Spec /\ Fairness
-----------------------------------------------------------------------------
(* Properties *)

\* Every variable keeps its type; no more workers are started or joined than
\* there are.
TypeOK ==
  /\ done \in BOOLEAN
  /\ queue \in Seq(Task)
  /\ spawned \in 0..Workers
  /\ joined \in 0..spawned
  /\ phase \in {"constructing", "open", "joining", "gone"}
  /\ pc \in [Runner -> {"unborn", "ready", "test", "pop", "run", "exited"}]
  /\ task \in [Runner -> Task \cup {NoTask}]
  /\ future \in [Task -> {"none", "pending", "ready", "broken"}]

\* The threads that run task k.
Running(k) == {r \in Runner : pc[r] = "run" /\ task[r] = k}

\* Once the pool is gone no worker, not even one started by a constructor
\* that failed, will touch its members again (join_threads, chapter_8.h:126-
\* 141, and the order of the members, chapter_9.h:87-97).
NoUseAfterFree ==
  phase = "gone" => \A w \in Worker : pc[w] \in {"unborn", "exited"}

Pool == INSTANCE TaskPool WITH
  runners <- [k \in Task |-> Running(k)],
  open <- phase # "gone"

\* Every submitted task is taken by one thread and run once, and then its
\* future is ready; the pool dies when no task is running, and breaks the
\* promises of exactly those nobody took (chapter_9.h:110-119, 145-173).
RunsTasks == Pool!Spec

\* The destructor, and a constructor that fails, return: every worker sees
\* _done, whatever it was doing and whatever the tasks still submit.
DestructionEnds == (phase = "joining") ~> (phase = "gone")

\* With a worker, every future is resolved in the end.
FuturesResolve ==
  \A k \in Task : (future[k] = "pending") ~> (future[k] # "pending")
=============================================================================
