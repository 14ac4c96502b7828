------------------------- MODULE ParallelAccumulate -------------------------
(***************************************************************************)
(* parallel_accumulate of chapter_9.h, which main.cpp runs: the caller     *)
(* cuts its range into blocks, submits a task for each block but the last  *)
(* to a pool of its own, sums the last block itself, adds up the futures   *)
(* in order and leaves by the destructor of the pool, whether it returns   *)
(* or an exception passes through it.                                      *)
(*                                                                         *)
(* A task is the number of its block.  Adding two elements may throw: bad  *)
(* is the set of the blocks whose sum throws.  A sum is the sequence of    *)
(* the elements it adds up, so that one that has them all, each once and   *)
(* in order, is told from any other.                                       *)
(***************************************************************************)
EXTENDS SimpleThreadPool

CONSTANTS
  BlockSize,   \* block_size, 25 in the code
  Element,     \* what a range holds
  Inputs       \* the ranges the function is called with

\* What the proofs assume of them: a task for every block that is submitted.
\* These tasks submit no others, whatever Submits says: PANext has no step
\* for that.
AccumulateAssumption ==
  /\ BlockSize \in Nat \ {0}
  /\ Task \subseteq Nat
  /\ Inputs \subseteq Seq(Element)
  /\ \A s \in Inputs : 1..((Len(s) + BlockSize - 1) \div BlockSize - 1) \subseteq Task

VARIABLES
  input,     \* the range [first, last)
  bad,       \* the blocks whose sum throws
  at,        \* how far the caller is
  i,         \* the loop variable: the blocks submitted, then collected
  result,    \* the elements that result adds to init
  outcome    \* how the call ends

caller_vars == <<input, bad, at, i, result, outcome>>
vars == <<pool_vars, caller_vars>>

NumBlocks == (Len(input) + BlockSize - 1) \div BlockSize

\* Block k, the last one being what is left of the range.
Block(k) ==
  SubSeq(input, (k - 1) * BlockSize + 1,
         IF k = NumBlocks THEN Len(input) ELSE k * BlockSize)

PAInit ==
  /\ Init
  /\ input \in Inputs
  /\ bad \in SUBSET (1..NumBlocks)
  /\ at = "entry"
  /\ i = 0
  /\ result = <<>>
  /\ outcome = "none"

\* An empty range is answered without a pool.
Enter ==
  /\ at = "entry"
  /\ IF input = <<>>
       THEN at' = "left" /\ outcome' = "value"
       ELSE at' = "construct" /\ UNCHANGED outcome
  /\ UNCHANGED <<pool_vars, input, bad, i, result>>

\* The constructor of the pool returns, or throws as a thread cannot start.
Construct ==
  /\ at = "construct"
  /\ Spawn \/ SpawnFails \/ Constructed
  /\ at' = CASE phase' = "open"    -> "submit"
             [] phase' = "joining" -> "leave"
             [] OTHER              -> "construct"
  /\ outcome' = IF phase' = "joining" THEN "threw" ELSE outcome
  /\ UNCHANGED <<input, bad, i, result>>

SubmitBlock ==
  /\ at = "submit"
  /\ i < NumBlocks - 1
  /\ Submit(i + 1)
  /\ i' = i + 1
  /\ UNCHANGED <<input, bad, at, result, outcome>>

\* The pool is destroyed as the call ends in outcome o.
Leave(o) ==
  /\ Destroy
  /\ at' = "leave"
  /\ outcome' = o
  /\ UNCHANGED <<input, bad, i>>

\* The caller sums the last block, which may throw.
SumLast ==
  /\ at = "submit"
  /\ i = NumBlocks - 1
  /\ \/ /\ NumBlocks \in bad
        /\ Leave("threw")
        /\ UNCHANGED result
     \/ /\ NumBlocks \notin bad
        /\ at' = "collect"
        /\ i' = 0
        /\ UNCHANGED <<pool_vars, input, bad, result, outcome>>

\* futures[i].get() waits, and rethrows what the task threw.
Collect ==
  /\ at = "collect"
  /\ i < NumBlocks - 1
  /\ future[i + 1] = "ready"
  /\ \/ /\ i + 1 \in bad
        /\ Leave("threw")
        /\ UNCHANGED result
     \/ /\ i + 1 \notin bad
        /\ result' = result \o Block(i + 1)
        /\ i' = i + 1
        /\ UNCHANGED <<pool_vars, input, bad, at, outcome>>

\* Mutant: the loop over the futures is bounded by num_blocks - 2.
ReturnsOneShort ==
  /\ at = "collect"
  /\ i >= NumBlocks - 2
  /\ result' = result \o Block(NumBlocks)
  /\ Leave("value")

\* result += last_result, and return.
ReturnSum ==
  /\ at = "collect"
  /\ i = NumBlocks - 1
  /\ result' = result \o Block(NumBlocks)
  /\ Leave("value")

\* Mutant: the pool outlives the call, as a static object would.
LeavesPoolRunning ==
  /\ at = "leave"
  /\ at' = "left"
  /\ UNCHANGED <<pool_vars, input, bad, i, result, outcome>>

\* The pool joins its threads before the caller sees the outcome.
LeavePool ==
  /\ at = "leave"
  /\ Join \/ Free
  /\ at' = IF phase' = "gone" THEN "left" ELSE "leave"
  /\ UNCHANGED <<input, bad, i, result, outcome>>

CallerStep ==
  \/ Enter \/ Construct \/ SubmitBlock \/ SumLast \/ Collect \/ ReturnSum
  \/ LeavePool

WorkerSteps == \E w \in Worker : WorkerStep(w) /\ UNCHANGED caller_vars

PANext == CallerStep \/ WorkerSteps

\* The caller and every worker keep running.
PAFairness ==
  /\ WF_vars(CallerStep)
  /\ \A w \in Worker : WF_vars(WorkerStep(w) /\ UNCHANGED caller_vars)

PASpec == PAInit /\ [][PANext]_vars /\ PAFairness
-----------------------------------------------------------------------------
(* Properties *)

\* The caller gets init plus the sum of the whole range, each element once,
\* or the exception of a block or of a thread that could not be started:
\* never a partial sum (chapter_9.h:208-241).
SumOrException ==
  at = "left" =>
    \/ outcome = "value" /\ bad = {} /\ result = input
    \/ outcome = "threw" /\ (bad # {} \/ spawned < Workers)

\* When the caller has left, with a value or an exception, no task is still
\* reading the range through the iterators it captured (line 224).
RangeOutlivesTasks ==
  at = "left" => queue = <<>> /\ \A r \in Runner : pc[r] # "run"

\* A call that has begun returns or throws, as long as the pool has a thread.
CallEnds == (at # "entry") ~> (at = "left")
=============================================================================
