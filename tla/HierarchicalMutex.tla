-------------------------- MODULE HierarchicalMutex --------------------------
(***************************************************************************)
(* hierarchical_mutex of series_mutex.h: a mutex with a level, which only  *)
(* a thread whose own level is higher may lock.  The level of a thread is  *)
(* a thread_local variable; lock saves it in the mutex and unlock puts it  *)
(* back, and the member it is saved in is an unsigned int.                 *)
(*                                                                         *)
(* As in main.cpp, where lock_guard objects hold the mutexes, a thread     *)
(* unlocks in the reverse order of locking, and an exception thrown by     *)
(* lock unlocks everything the thread holds.                               *)
(***************************************************************************)
EXTENDS Naturals, Sequences

CONSTANTS
  Locker,     \* the threads that lock the mutexes
  Mutex,
  Level,      \* Level[m]: hierarchy_value of m
  ULongMax,   \* ULONG_MAX
  UIntMod,    \* UINT_MAX + 1
  Nobody      \* the owner of a free internal_mutex

ASSUME HierarchyAssumption ==
  /\ ULongMax \in Nat
  /\ UIntMod \in 1..(ULongMax + 1)
  /\ Level \in [Mutex -> 0..ULongMax]
  /\ Nobody \notin Locker

VARIABLES
  owner,      \* internal_mutex of each mutex
  previous,   \* previous_hierarchy_value of each mutex
  level,      \* this_thread_hierarchy_value of each thread
  stage,         \* each thread's position
  target,     \* the mutex whose lock or try_lock it is in
  held        \* the mutexes it holds, in the order it locked them

hm_vars == <<owner, previous, level, stage, target, held>>

SetStage(t, l) == stage' = [stage EXCEPT ![t] = l]

\* The conversion from unsigned long to unsigned.
Truncated(n) == n % UIntMod

HMInit ==
  /\ owner = [m \in Mutex |-> Nobody]
  /\ previous = [m \in Mutex |-> 0]
  /\ level = [t \in Locker |-> ULongMax]
  /\ stage = [t \in Locker |-> "run"]
  /\ target \in [Locker -> Mutex]
  /\ held = [t \in Locker |-> <<>>]
-----------------------------------------------------------------------------
(* lock and try_lock *)

\* Mutant: the check lets a thread lock a mutex of its own level.
AllowsSameLevel(t, m) ==
  /\ stage[t] = "run"
  /\ level[t] >= Level[m]
  /\ target' = [target EXCEPT ![t] = m]
  /\ SetStage(t, "lock") \/ SetStage(t, "try_lock")
  /\ UNCHANGED <<owner, previous, level, held>>

\* check_for_hierarchy_violation passes.
Call(t, m) ==
  /\ stage[t] = "run"
  /\ level[t] > Level[m]
  /\ target' = [target EXCEPT ![t] = m]
  /\ SetStage(t, "lock") \/ SetStage(t, "try_lock")
  /\ UNCHANGED <<owner, previous, level, held>>

\* It throws: the stack of the thread is unwound.
CallThrows(t, m) ==
  /\ stage[t] = "run"
  /\ level[t] <= Level[m]
  /\ SetStage(t, "unwind")
  /\ UNCHANGED <<owner, previous, level, target, held>>

\* internal_mutex.lock() returns, or internal_mutex.try_lock() gives true.
Acquire(t) ==
  /\ stage[t] \in {"lock", "try_lock"}
  /\ owner[target[t]] = Nobody
  /\ owner' = [owner EXCEPT ![target[t]] = t]
  /\ SetStage(t, "update")
  /\ UNCHANGED <<previous, level, target, held>>

\* try_lock returns false: std::mutex lets its try_lock fail on a free mutex
\* too.
TryLockFails(t) ==
  /\ stage[t] = "try_lock"
  /\ SetStage(t, "run")
  /\ UNCHANGED <<owner, previous, level, target, held>>

\* update_hierarchy_value
Update(t) ==
  /\ stage[t] = "update"
  /\ previous' = [previous EXCEPT ![target[t]] = Truncated(level[t])]
  /\ level' = [level EXCEPT ![t] = Level[target[t]]]
  /\ held' = [held EXCEPT ![t] = Append(@, target[t])]
  /\ SetStage(t, "run")
  /\ UNCHANGED <<owner, target>>
-----------------------------------------------------------------------------
(* unlock *)

Last(s)  == s[Len(s)]
Front(s) == SubSeq(s, 1, Len(s) - 1)

\* Mutant: an exception leaves the level of the thread as it is.
ForgetsOnThrow(t) ==
  /\ stage[t] \in {"run", "unwind"}
  /\ held[t] # <<>>
  /\ level' = IF stage[t] = "run"
                THEN [level EXCEPT ![t] = previous[Last(held[t])]] ELSE level
  /\ SetStage(t, IF stage[t] = "run" THEN "unlock" ELSE "unwind_unlock")
  /\ UNCHANGED <<owner, previous, target, held>>

\* this_thread_hierarchy_value = previous_hierarchy_value
Restore(t) ==
  /\ stage[t] \in {"run", "unwind"}
  /\ held[t] # <<>>
  /\ level' = [level EXCEPT ![t] = previous[Last(held[t])]]
  /\ SetStage(t, IF stage[t] = "run" THEN "unlock" ELSE "unwind_unlock")
  /\ UNCHANGED <<owner, previous, target, held>>

\* internal_mutex.unlock()
Release(t) ==
  /\ stage[t] \in {"unlock", "unwind_unlock"}
  /\ owner' = [owner EXCEPT ![Last(held[t])] = Nobody]
  /\ held' = [held EXCEPT ![t] = Front(@)]
  /\ SetStage(t, IF stage[t] = "unlock" THEN "run" ELSE "unwind")
  /\ UNCHANGED <<previous, level, target>>

\* The exception has left the last scope.
Unwound(t) ==
  /\ stage[t] = "unwind"
  /\ held[t] = <<>>
  /\ SetStage(t, "run")
  /\ UNCHANGED <<owner, previous, level, target, held>>
-----------------------------------------------------------------------------
HMProceed(t) == Acquire(t) \/ TryLockFails(t) \/ Update(t) \/ Release(t) \/ Unwound(t)

HMStep(t) ==
  \/ \E m \in Mutex : Call(t, m) \/ CallThrows(t, m)
  \/ HMProceed(t)
  \/ Restore(t)

HMNext == \E t \in Locker : HMStep(t)

HMSpec == HMInit /\ [][HMNext]_hm_vars

\* A thread goes on running, it gets a mutex that is released again and
\* again, and every scope that holds a mutex ends.
HMFairness ==
  \A t \in Locker :
    /\ SF_hm_vars(HMProceed(t))
    /\ \A m \in Mutex : SF_hm_vars(Restore(t) /\ Last(held[t]) = m)

-----------------------------------------------------------------------------
Positions ==
  {"run", "lock", "try_lock", "update", "unlock", "unwind", "unwind_unlock"}

\* Every variable keeps its type; previous_hierarchy_value stays an unsigned.
HMTypeOK ==
  /\ owner \in [Mutex -> Locker \cup {Nobody}]
  /\ previous \in [Mutex -> 0..(UIntMod - 1)]
  /\ level \in [Locker -> 0..ULongMax]
  /\ stage \in [Locker -> Positions]
  /\ target \in [Locker -> Mutex]
  /\ held \in [Locker -> Seq(Mutex)]

\* The scopes thread t is in: the last one is closing as it unlocks.
Scopes(t) ==
  IF stage[t] \in {"unlock", "unwind_unlock"} THEN Front(held[t]) ELSE held[t]

\* The level a thread in these scopes should have.
Due(scopes) == IF scopes = <<>> THEN ULongMax ELSE Level[Last(scopes)]

\* The level of a thread is that of the last mutex it locked and still
\* holds, or ULONG_MAX, also after failed calls and exceptions; but what
\* unlock gives back was cut to an unsigned (lines 33 and 47), so that it may
\* be that level modulo 2^32: lower than it should be, never higher.
LevelIsLast ==
  \A t \in Locker : level[t] \in {Due(Scopes(t)), Truncated(Due(Scopes(t)))}

Waiting(t) == stage[t] = "lock"

\* Along a chain of threads that wait for each other the levels go down, so
\* that no chain is a circle: what the hierarchy is for (lines 50-54).
NoCircularWait ==
  \A t, u \in Locker :
    Waiting(t) /\ owner[target[t]] = u /\ Waiting(u) =>
      Level[target[u]] < Level[target[t]]

\* A call of lock that has passed the check gets the mutex.
LocksReturn == \A t \in Locker : Waiting(t) ~> ~Waiting(t)
=============================================================================
