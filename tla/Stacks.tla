------------------------------- MODULE Stacks -------------------------------
(***************************************************************************)
(* The stacks of t_stack.h and chapter_3.h: HazardStack, and the sorter of *)
(* ParallelSorter with its thread_safe_stack.  They share nothing: a       *)
(* behaviour uses one of them, and leaves the other in an initial state.   *)
(***************************************************************************)
EXTENDS HazardStack

CONSTANTS Worker, Main, MaxItems, Cores, UIntMod, Lost  \* of ParallelSorter

VARIABLES
  chosen,  \* "stack" or "sorter"
  \* the variables of ParallelSorter
  max_thread_count, chunks, threads, seen, s_pc, items, depth, promise, resolved

s_vars == <<max_thread_count, chunks, threads, seen, s_pc, items, depth, promise, resolved>>

Sorter == INSTANCE ParallelSorter WITH pc <- s_pc

\* A sorter that is not used has one core and a list of one.
StacksInit ==
  /\ chosen \in {"stack", "sorter"}
  /\ Init /\ Sorter!Init
  /\ chosen = "stack" => max_thread_count = 0 /\ items[Main] = 1

StacksNext ==
  \/ chosen = "stack" /\ Next /\ UNCHANGED <<chosen, s_vars>>
  \/ chosen = "sorter" /\ Sorter!Next /\ UNCHANGED <<chosen, vars>>
  \/ chosen = "sorter" /\ Sorter!Quiet /\ UNCHANGED <<chosen, vars, s_vars>>

StacksSpec == StacksInit /\ [][StacksNext]_<<chosen, vars, s_vars>> /\ Fairness

\* No worker of a sorter finds its stack empty (chapter_8.h:48, chapter_3.h:31).
PopFindsChunk == Sorter!PopFindsChunk
=============================================================================
