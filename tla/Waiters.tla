------------------------------ MODULE Waiters ------------------------------
(***************************************************************************)
(* Threads that wait: SimpleThreadPool (chapter_9.h, chapter_8.h), alone   *)
(* or as parallel_accumulate uses it, HierarchicalMutex (series_mutex.h),  *)
(* ProducerConsumer (t_thread.cc) and InterruptibleThread (chapter_9.h).   *)
(* A behaviour uses one of them, and leaves the others in an initial       *)
(* state.                                                                  *)
(***************************************************************************)
EXTENDS ParallelAccumulate, HierarchicalMutex

CONSTANTS
  Producer, Consumer, Rounds,  \* of ProducerConsumer, with Nobody
  Interrupter, Cond, NoCond    \* of InterruptibleThread, with Nobody

VARIABLES
  chosen,  \* which of them this behaviour uses
  \* the variables of ProducerConsumer
  mtx, vec, h_i, h_pc, made, taken,
  \* the variables of InterruptibleThread
  flag, thread_cond, set_clear_mutex, i_pc, cond, ipc

h_vars == <<mtx, vec, h_i, h_pc, made, taken>>
i_vars == <<flag, thread_cond, set_clear_mutex, i_pc, cond, ipc>>

HandOver == INSTANCE ProducerConsumer WITH i <- h_i, pc <- h_pc

Interruptible == INSTANCE InterruptibleThread WITH pc <- i_pc

WaitersInit ==
  /\ chosen \in {"pool", "accumulate", "hierarchy", "hand_over", "interruptible"}
  /\ PAInit /\ HMInit /\ HandOver!Init /\ Interruptible!Init
  /\ chosen # "accumulate" => input = <<>>
  /\ chosen # "hierarchy" => target = [t \in Locker |-> CHOOSE m \in Mutex : TRUE]

WaitersNext ==
  \/ /\ chosen = "pool" /\ Next
     /\ UNCHANGED <<chosen, caller_vars, hm_vars, h_vars, i_vars>>
  \/ chosen = "accumulate" /\ PANext /\ UNCHANGED <<chosen, hm_vars, h_vars, i_vars>>
  \/ chosen = "hierarchy" /\ HMNext /\ UNCHANGED <<chosen, vars, h_vars, i_vars>>
  \/ chosen = "hand_over" /\ HandOver!Next /\ UNCHANGED <<chosen, vars, hm_vars, i_vars>>
  \/ /\ chosen = "interruptible" /\ Interruptible!Next
     /\ UNCHANGED <<chosen, vars, hm_vars, h_vars>>

\* Only what is used is scheduled.
WaitersSpec ==
  /\ WaitersInit /\ [][WaitersNext]_<<chosen, vars, hm_vars, h_vars, i_vars>>
  /\ \/ chosen = "pool" /\ Fairness
     \/ chosen = "accumulate" /\ PAFairness
     \/ chosen = "hierarchy" /\ HMFairness
     \/ chosen = "hand_over" /\ HandOver!Fairness
     \/ chosen = "interruptible" /\ Interruptible!Fairness

\* Values pass from producers to consumers one by one (t_thread.cc:6-33).
HandedOver == HandOver!HandedOver

\* As many rounds of each end them all (t_thread.cc:14 and 29).
AllRoundsEnd == chosen = "hand_over" => HandOver!AllRoundsEnd

\* An interrupt notifies a condition variable that exists (chapter_9.h:398).
NotifiesExisting == Interruptible!NotifiesExisting

\* An interrupt ends the wait of its thread (chapter_9.h:440).
InterruptEndsWait == Interruptible!InterruptEndsWait
=============================================================================
