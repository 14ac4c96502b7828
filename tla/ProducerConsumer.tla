-------------------------- MODULE ProducerConsumer --------------------------
(***************************************************************************)
(* producer and consumer of t_thread.cc: threads that hand over values     *)
(* through a vector of at most one, with one mutex and one condition       *)
(* variable.  Both sleep 100 ms with the mutex held, which takes no step.  *)
(***************************************************************************)
EXTENDS Naturals, Sequences

CONSTANTS
  Producer, Consumer,  \* the threads that run producer() and consumer()
  Rounds,              \* the rounds of each loop, 10 in the code
  Nobody               \* the owner of a free mtx

\* What a program gives them, which the proofs assume.
HandOverAssumption ==
  /\ Producer \cap Consumer = {}
  /\ Nobody \notin Producer \cup Consumer
  /\ Rounds \in Nat

Thread == Producer \cup Consumer

VARIABLES
  mtx,    \* its owner
  vec,
  i,      \* the rounds each thread has done
  pc,     \* each thread's position
  made,   \* history: the values pushed
  taken   \* history: the values popped

vars == <<mtx, vec, i, pc, made, taken>>

Goto(t, l) == pc' = [pc EXCEPT ![t] = l]

Init ==
  /\ mtx = Nobody
  /\ vec = <<>>
  /\ i = [t \in Thread |-> 0]
  /\ pc = [t \in Thread |-> "loop"]
  /\ made = <<>>
  /\ taken = <<>>

Lock(t) ==
  /\ pc[t] = "loop" /\ i[t] < Rounds
  /\ mtx = Nobody
  /\ mtx' = t
  /\ Goto(t, "test")
  /\ UNCHANGED <<vec, i, made, taken>>

\* wait: while (!vec.empty()) in a producer, while (vec.empty()) in a consumer
Wait(t) ==
  /\ pc[t] = "test"
  /\ (t \in Producer) = (vec # <<>>)
  /\ mtx' = Nobody
  /\ Goto(t, "blocked")
  /\ UNCHANGED <<vec, i, made, taken>>

\* A waiting thread is woken, asks for the mutex and tests again.
SpuriousWake(t) ==
  /\ pc[t] = "blocked"
  /\ Goto(t, "woken")
  /\ UNCHANGED <<mtx, vec, i, made, taken>>

Relock(t) ==
  /\ pc[t] = "woken"
  /\ mtx = Nobody
  /\ mtx' = t
  /\ Goto(t, "test")
  /\ UNCHANGED <<vec, i, made, taken>>

\* Mutant: notify_one instead of notify_all.
NotifyOne(t) ==
  \/ pc' = [pc EXCEPT ![t] = "unlock"] /\ \A u \in Thread : pc[u] # "blocked"
  \/ \E u \in Thread : pc[u] = "blocked" /\ pc' = [pc EXCEPT ![t] = "unlock", ![u] = "woken"]

NotifyAll(t) ==
  pc' = [u \in Thread |->
           IF u = t THEN "unlock" ELSE IF pc[u] = "blocked" THEN "woken" ELSE pc[u]]

\* Mutant: the test of a consumer is an if, not a while.
TakesUntested(t) ==
  /\ t \in Consumer
  /\ pc[t] = "test"
  /\ vec' = <<>>
  /\ taken' = Append(taken, IF vec = <<>> THEN 0 ELSE vec[1])
  /\ NotifyAll(t)
  /\ UNCHANGED <<mtx, i, made>>

Produce(t) ==
  /\ t \in Producer
  /\ pc[t] = "test"
  /\ vec = <<>>
  /\ vec' = Append(vec, i[t] + 1)
  /\ made' = Append(made, i[t] + 1)
  /\ NotifyAll(t)
  /\ UNCHANGED <<mtx, i, taken>>

\* The value is taken from the back.
Consume(t) ==
  /\ t \in Consumer
  /\ pc[t] = "test"
  /\ vec # <<>>
  /\ vec' = SubSeq(vec, 1, Len(vec) - 1)
  /\ taken' = Append(taken, vec[Len(vec)])
  /\ NotifyAll(t)
  /\ UNCHANGED <<mtx, i, made>>

\* The end of a round; the end of the last one is the end of the thread.
Unlock(t) ==
  /\ pc[t] = "unlock"
  /\ mtx' = Nobody
  /\ i' = [i EXCEPT ![t] = @ + 1]
  /\ Goto(t, "loop")
  /\ UNCHANGED <<vec, made, taken>>

Proceed(t) ==
  \/ Lock(t) \/ Relock(t) \/ Wait(t) \/ Produce(t) \/ Consume(t) \/ Unlock(t)

Next == \E t \in Thread : Proceed(t) \/ SpuriousWake(t)

Spec == Init /\ [][Next]_vars

\* A thread that runs goes on, and gets a mutex that is released again and
\* again.  Nobody need wake up unnotified.
Fairness == \A t \in Thread : SF_vars(Proceed(t))

FairSpec == Spec /\ Fairness
-----------------------------------------------------------------------------
\* Every variable keeps its type, and a thread between lock and unlock owns
\* the mutex.
TypeOK ==
  /\ mtx \in Thread \cup {Nobody}
  /\ vec \in Seq(1..Rounds)
  /\ i \in [Thread -> 0..Rounds]
  /\ pc \in [Thread -> {"loop", "test", "blocked", "woken", "unlock"}]
  /\ made \in Seq(1..Rounds)
  /\ taken \in Seq(1..Rounds)
  /\ \A t \in Thread : (pc[t] \in {"test", "unlock"}) = (mtx = t)
  /\ \A t \in Thread : pc[t] # "loop" => i[t] < Rounds

\* Every value is handed over once and in order, through a vector that never
\* holds more than one (t_thread.cc:9-12 and 23-27).
HandedOver == Len(vec) <= 1 /\ made = taken \o vec

\* Every round of every thread is done, when as many values are consumed as
\* are produced: no notification is lost and none wakes only threads that
\* cannot use it (t_thread.cc:14 and 29).
AllEnded == \A t \in Thread : i[t] = Rounds

AllRoundsEnd == <>AllEnded
=============================================================================
