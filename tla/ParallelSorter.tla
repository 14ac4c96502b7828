--------------------------- MODULE ParallelSorter ---------------------------
(***************************************************************************)
(* sorter and parallel_quick_sort of chapter_8.h, with their stack of      *)
(* chunks, thread_safe_stack of chapter_3.h, whose operations each hold    *)
(* its one mutex and are one step.  A list is its number of elements.      *)
(*                                                                         *)
(* do_sort waits at line 80 for the promise of the chunk it has pushed.    *)
(* push and pop copy the chunk, and a copy has a promise of its own, for   *)
(* which nobody waits (LowerArrives).  As line 80 is never passed, only    *)
(* the innermost call of do_sort in each thread is kept, and nothing after *)
(* that line.  A sort ends only by an exception, when a thread cannot be   *)
(* started.                                                                *)
(***************************************************************************)
EXTENDS Integers, Sequences, FiniteSets

CONSTANTS
  Worker,    \* the threads that can be started
  Main,      \* the caller of parallel_quick_sort
  MaxItems,  \* the bound on the length of the list
  Cores,     \* what hardware_concurrency() may return
  UIntMod,   \* UINT_MAX + 1
  Lost       \* the promise of a copy, for which nobody waits

VARIABLES
  max_thread_count,
  chunks,    \* the stack of chunks, the top first
  threads,   \* the vector of the threads that were started
  seen,      \* what push_back has made of it, or ~sorter has gone through
  pc,        \* each thread's position
  items,     \* chunk_data of its innermost call of do_sort
  depth,     \* its calls of do_sort that have divided their list
  promise,   \* promise of the chunk it sorts
  resolved   \* the promises that have a value

vars == <<max_thread_count, chunks, threads, seen, pc, items, depth, promise, resolved>>

Runner == Worker \cup {Main}

\* The sorter of a list that is not empty; hardware_concurrency() - 1 is
\* computed in unsigned.
Init ==
  /\ max_thread_count \in {(c - 1) % UIntMod : c \in Cores}
  /\ chunks = <<>>
  /\ threads = <<>>
  /\ seen = [t \in Runner |-> <<>>]
  /\ pc = [t \in Runner |-> IF t = Main THEN "sort" ELSE "unborn"]
  /\ items \in {f \in [Runner -> 0..MaxItems] : f[Main] > 0 /\ \A w \in Worker : f[w] = 0}
  /\ depth = [t \in Runner |-> 0]
  /\ promise = [t \in Runner |-> Lost]
  /\ resolved = {}

Goto(t, l) == pc' = [pc EXCEPT ![t] = l]

\* The promise of a copy of a chunk is a new one (lines 18-28).
Copied(p) == Lost
-----------------------------------------------------------------------------
(* do_sort *)

\* The first element divides the others; those below it are pushed as a
\* chunk and the others stay.  The promise is named by its owner and depth.
Divide(t, lower) ==
  /\ pc[t] = "sort" /\ items[t] > 0
  /\ lower < items[t]
  /\ items' = [items EXCEPT ![t] = @ - 1 - lower]
  /\ depth' = [depth EXCEPT ![t] = @ + 1]
  /\ chunks' = <<[items |-> lower, end |-> FALSE,
                  promise |-> Copied(<<t, depth[t] + 1>>)]>> \o chunks
  /\ Goto(t, "test")
  /\ UNCHANGED <<max_thread_count, threads, seen, promise, resolved>>

\* threads.size() < max_thread_count
TestSize(t) ==
  /\ pc[t] = "test"
  /\ Goto(t, IF Len(threads) < max_thread_count THEN "start" ELSE "sort")
  /\ UNCHANGED <<max_thread_count, chunks, threads, seen, items, depth, promise, resolved>>

\* std::thread(&sorter::try_sort_chunk, this), and the first half of
\* push_back.  No mutex protects threads: two threads may both be here.
Start(t, w) ==
  /\ pc[t] = "start"
  /\ pc[w] = "unborn"
  /\ pc' = [pc EXCEPT ![t] = "store", ![w] = "pop"]
  /\ seen' = [seen EXCEPT ![t] = Append(threads, w)]
  /\ UNCHANGED <<max_thread_count, chunks, threads, items, depth, promise, resolved>>

\* The other half; then do_sort(chunk_data) for the elements that stay.
StoreThread(t) ==
  /\ pc[t] = "store"
  /\ threads' = seen[t]
  /\ seen' = [seen EXCEPT ![t] = <<>>]
  /\ Goto(t, "sort")
  /\ UNCHANGED <<max_thread_count, chunks, items, depth, promise, resolved>>

\* The thread cannot be started: the exception leaves every call of do_sort.
\* In the caller ~sorter() follows, in a worker the end of the program.
StartFails(t) ==
  /\ pc[t] = "start"
  /\ pc' = IF t = Main THEN [pc EXCEPT ![t] = "stop"]
           ELSE [u \in Runner |-> "aborted"]
  /\ UNCHANGED <<max_thread_count, chunks, threads, seen, items, depth, promise, resolved>>

\* The innermost call finds its list empty and returns to one that has
\* divided its own: new_lower.get().
Wait(t) ==
  /\ pc[t] = "sort" /\ items[t] = 0 /\ depth[t] > 0
  /\ Goto(t, "get")
  /\ UNCHANGED <<max_thread_count, chunks, threads, seen, items, depth, promise, resolved>>
-----------------------------------------------------------------------------
(* try_sort_chunk, all that a worker runs, and runs once *)

\* thread_safe_stack pops a copy of the top, or throws empty_stack, which
\* nobody catches in a worker.
PopChunk(w) ==
  /\ pc[w] = "pop"
  /\ IF chunks = <<>>
     THEN pc' = [t \in Runner |-> "aborted"] /\ UNCHANGED <<chunks, items, promise>>
     ELSE /\ chunks' = Tail(chunks)
          /\ items' = [items EXCEPT ![w] = Head(chunks).items]
          /\ promise' = [promise EXCEPT ![w] = Copied(Head(chunks).promise)]
          /\ Goto(w, IF Head(chunks).end THEN "ended" ELSE "sort")
  /\ UNCHANGED <<max_thread_count, threads, seen, depth, resolved>>

\* Mutant: a worker runs sort_thread, which looks for another chunk.
SortsOn(w) ==
  /\ pc[w] = "sort" /\ items[w] = 0 /\ depth[w] = 0
  /\ resolved' = resolved \cup ({promise[w]} \ {Lost})
  /\ Goto(w, "pop")
  /\ UNCHANGED <<max_thread_count, chunks, threads, seen, items, depth, promise>>

\* The chunk was empty: sort_chunk sets the value of its promise.
SetValue(w) ==
  /\ pc[w] = "sort" /\ items[w] = 0 /\ depth[w] = 0
  /\ resolved' = resolved \cup ({promise[w]} \ {Lost})
  /\ Goto(w, "ended")
  /\ UNCHANGED <<max_thread_count, chunks, threads, seen, items, depth, promise>>
-----------------------------------------------------------------------------
(* ~sorter() *)

\* One end_of_data for each thread in threads, which workers may still add
\* to; then join.
PushEnd ==
  /\ pc[Main] = "stop"
  /\ IF Len(seen[Main]) < Len(threads)
     THEN /\ chunks' = <<[items |-> 0, end |-> TRUE, promise |-> Lost]>> \o chunks
          /\ seen' = [seen EXCEPT ![Main] = SubSeq(threads, 1, Len(@) + 1)]
          /\ UNCHANGED pc
     ELSE Goto(Main, "join") /\ UNCHANGED <<chunks, seen>>
  /\ UNCHANGED <<max_thread_count, threads, items, depth, promise, resolved>>

\* The threads in threads have ended.  A thread whose place another
\* push_back has taken is not waited for, and may go on without the sorter.
JoinThreads ==
  /\ pc[Main] = "join"
  /\ \A i \in 1..Len(threads) : pc[threads[i]] = "ended"
  /\ Goto(Main, "threw")
  /\ UNCHANGED <<max_thread_count, chunks, threads, seen, items, depth, promise, resolved>>
-----------------------------------------------------------------------------
Sort(t) ==
  \/ \E lower \in 0..MaxItems : Divide(t, lower)
  \/ TestSize(t) \/ \E w \in Worker : Start(t, w)
  \/ StoreThread(t) \/ StartFails(t) \/ Wait(t)

Next ==
  /\ pc[Main] # "threw"
  /\ \/ \E t \in Runner : Sort(t)
     \/ \E w \in Worker : PopChunk(w) \/ SetValue(w)
     \/ PushEnd \/ JoinThreads

Spec == Init /\ [][Next]_vars

\* Every thread that can take a step keeps running.
Fairness ==
  /\ \A t \in Runner : WF_vars(pc[Main] # "threw" /\ Sort(t))
  /\ \A w \in Worker : WF_vars(pc[Main] # "threw" /\ (PopChunk(w) \/ SetValue(w)))
  /\ WF_vars(PushEnd \/ JoinThreads)

FairSpec == Spec /\ Fairness
-----------------------------------------------------------------------------
\* A thread that waits for the chunk it has pushed gets it sorted in the end
\* (chapter_8.h:80 and 105; main.cpp:43-44 prints the list that comes of it).
\* Violated: the value of a sorted chunk is set in the promise of a copy
\* (lines 18-28), so that parallel_quick_sort never returns.
LowerArrives ==
  \A t \in Runner : (pc[t] = "get") ~> (pc[t] # "get" \/ <<t, depth[t]>> \in resolved)

\* A worker never finds the stack empty, which would end the program: a
\* chunk is pushed before each thread is started, a thread pops one, and
\* ~sorter() only adds to the stack (chapter_8.h:48 and 72-74).
PopFindsChunk ==
  Cardinality({w \in Worker : pc[w] = "pop"}) <= Len(chunks)

\* Every thread waits, has ended, or was never started; or the sorter has
\* been destroyed.
Quiet ==
  \/ pc[Main] = "threw"
  \/ \A t \in Runner : pc[t] \in {"get", "join", "unborn", "ended", "aborted"}
=============================================================================
