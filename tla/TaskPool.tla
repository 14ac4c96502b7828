------------------------------ MODULE TaskPool ------------------------------
(***************************************************************************)
(* What a thread pool promises about each task that is handed to it: it    *)
(* waits, one thread takes it and runs it once, its future becomes ready;  *)
(* and when the pool is destroyed no task is running, and the tasks nobody *)
(* took have broken promises.  The two pools of chapter_9.h are shown to   *)
(* implement this (SimpleThreadPool.tla, StealThreadPool.tla).             *)
(***************************************************************************)
CONSTANTS
  Task,      \* the tasks that may be submitted, each once
  Runner     \* the threads that may run them

VARIABLES
  future,    \* what the holder of each task's future can see
  runners,   \* the threads that are running each task
  open       \* the pool has not been destroyed

vars == <<future, runners, open>>

Init ==
  /\ future = [k \in Task |-> "none"]
  /\ runners = [k \in Task |-> {}]
  /\ open = TRUE

Submit(k) ==
  /\ open
  /\ future[k] = "none"
  /\ future' = [future EXCEPT ![k] = "pending"]
  /\ UNCHANGED <<runners, open>>

Take(k, r) ==
  /\ open
  /\ future[k] = "pending"
  /\ runners[k] = {}
  /\ runners' = [runners EXCEPT ![k] = {r}]
  /\ UNCHANGED <<future, open>>

Resolve(k, r) ==
  /\ open
  /\ runners[k] = {r}
  /\ runners' = [runners EXCEPT ![k] = {}]
  /\ future' = [future EXCEPT ![k] = "ready"]
  /\ UNCHANGED open

Close ==
  /\ open
  /\ \A k \in Task : runners[k] = {}
  /\ open' = FALSE
  /\ future' = [k \in Task |-> IF future[k] = "pending" THEN "broken" ELSE future[k]]
  /\ UNCHANGED runners

Next ==
  \/ \E k \in Task : Submit(k) \/ \E r \in Runner : Take(k, r) \/ Resolve(k, r)
  \/ Close

Spec == Init /\ [][Next]_vars
=============================================================================
