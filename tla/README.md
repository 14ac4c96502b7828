# Verification of cpp_concurrency

TLA+ modules, TLC model checks and TLAPS proofs for the concurrent data
structures, the thread pools and the mutexes of this repository.  Paths are
relative to `src/`; `chapter_6.h:189` is line 189 of that file.

The repository is a set of headers, most of them templates, that follow a book
on C++ concurrency.  There are two programs.  `main.cpp` runs
`parallel_accumulate` on `simple_thread_pool` and returns at line 32, before it
would call `parallel_quick_sort` (line 43); `thread/main.cpp` returns at line 157,
before it starts the threads of the `hierarchical_mutex` exercise (lines 9-41,
178-185).  The code after a return is read as what its author means to run.  A
template member that nobody instantiates is never compiled in full, so several
members do not compile when they are used.  They are named below; no action stands
for them.

Contents

1. The system: components, their state, and what is hard about them
2. The modules, and how they correspond to the code
3. The runs: what each one checks, its bounds, and why they are enough
4. Fairness
5. The proofs
6. What the code does against its own comments
7. What is only model-checked, and what is not modelled
8. Plan

To check a run: `tlc -config pool.cfg MCSimpleThreadPool.tla`; the first comment
of a `.cfg` says what it is for.  To check the proofs: `tlapm` on each of the
modules whose name ends in `Proofs`.

## 1. The system

### Queues

**`thread_safe_queue`** (chapter_6.h:95-211).  State: a singly linked list whose
last node is a dummy, `_head` (owning) and `_tail` (a plain pointer), one mutex
for each end and a condition variable `data_cond`.  Operations: `push`,
`push_cond`, `try_pop(T&)`, `wait_and_pop()`, `wait_and_pop(T&)`, `empty`.  A push
locks only the tail end, fills the old dummy and links a fresh one; a pop locks
the head end and locks the tail end only to read `_tail`.  It is used by the
pools as their task queue.  Hard: the two ends run at the same time on
neighbouring nodes; a comparison with a `_tail` that is already old; a node freed
next to one that is being written; and `push_cond`, which notifies without the
mutex that the waiting pop tests under.  Correct if: no data race, a well-formed
list, every node owned once, every call linearizable to a FIFO queue, calls that
do not wait for a value return, and a waiting pop is woken.
`pop_head()` without argument, and with it `try_pop()` without argument, assigns
to `_head.get()` (line 174) and does not compile.

**`thread_queue`, `final_queue`** (thread/t_queue.h:162-346).  The same algorithm
with raw pointers; the result of a pop is read after the unlock, from a node that
is deleted next.  Correct if: linearizable to a FIFO queue all the same.

**`t_queue`** (thread/t_queue.h:6-77).  A `std::queue`, one mutex, one condition
variable, `notify_one` with the mutex held.  Hard: one notification per value,
one woken thread per notification, and `try_pop` may take the value first.
Correct if: linearizable, and no blocked thread beside a value nobody is coming
for.  The copy constructor, the assignment and `empty` lock a mutex that is const
there and do not compile; `try_pop(T&)` flows off its end (line 28).

**`single_thread_queue`, `virtual_node_queue`** (chapter_6.h:7-89), **`s_queue`,
`separate_queue`** (thread/t_queue.h:81-159).  The sequential stepping stones,
without and with a dummy node.  Hard: a long sequence of legal calls: without a
dummy, `try_pop` of the last node leaves the tail pointer on freed memory.
Correct if: first in first out.

### Tables and lists

**`thread_safe_lookup_table`** (chapter_6.h:216-309) and **`lookup_table`**
(thread/t_hash_table.h).  State: a fixed vector of buckets, each a list of mappings
under a `shared_mutex`.  Operations: `value_for` (shared), `add_or_update_mapping`
and `remove_mapping` (exclusive), `get_map`, which locks every bucket in order.
Hard: two threads adding the same new key; a snapshot of all buckets while others
write; two snapshots at once.  Correct if: a key has one mapping, every call is
linearizable to a map with the snapshot included, and no deadlock.
`find_entry_for` of `thread_safe_lookup_table` (chapter_6.h:254) is const and
returns a non-const iterator of a list that is const there, so that no operation
of that table compiles when instantiated; it is read as the `find_if` it makes.
`get_map` does not compile as written in either file (it uses `buckets[i].data` of
a pointer, and private members); the protocol its text gives is modelled.

**`thread_safe_list`** (chapter_6.h:312-385).  A singly linked list with a mutex in
every node.  `for_each`, `find_first_if` and `remove_if` walk hand over hand: the
next node is locked before the current one is let go.  `remove_if` unlinks and
frees nodes as it walks; the destructor is a `remove_if` that accepts everything.
Hard: a node freed while another thread waits for its mutex; unlinking next to a
push or another removal; walks that overtake each other.  Correct if: no race, no
use after free, every node owned once, a walk misses nothing, and every walk ends.
**`concurrent_list`** (thread/t_list.h) is the same walk with raw pointers.

### Stacks

**`stack`** (thread/t_stack.h).  A lock-free stack.  State: an atomic `head`, nodes,
one hazard pointer per thread, a list of nodes to reclaim.  The class declares two
pops of one signature and compiles with either alone: one counts the threads in
it (lines 52-74), one uses hazard pointers (lines 81-106).  Hard: use after free
and ABA, as an address is freed and reused while a pop is held up; nodes that are
never reclaimed.  Correct if: no use after free, every node owned or retired
once, linearizable to a LIFO stack, retries end.

**`lock_free_stack`, `simple_lock_free_stack`** (chapter_7.h).  The counting pop
with deferred deletion.  Hard: what may be put on `_to_be_deleted`, and when it
may be deleted.

**`thread_safe_stack`** (chapter_3.h): one mutex, `pop` throws when it is empty.  It
feeds the sorter.

### Pools and parallel algorithms

**`simple_thread_pool`** (chapter_9.h:86-205) with **`join_threads`**
(chapter_8.h:126-141) and **`function_wrapper`** (chapter_9.h:11-43).  State: `_done`,
a `thread_safe_queue` of tasks, the workers, the joiner that joins them when it
is destroyed, in this order of members.  Operations: constructor (which may fail
to start a thread), `submit`, `run_pending_task`, the worker loop, destructor.
Hard: construction that fails while workers run; destruction while tasks are
queued, running and submitting more; the order in which members die.  Correct if:
each task runs at most once, every future is resolved, no worker outlives the
members it uses, destruction ends.

**`steal_thread_pool`, `work_stealing_queue`** (chapter_9.h:290-369, 46-84).  A queue
of the pool and one queue per worker, with a mutex each; a worker submits to the
front of its own, takes from there, then from the pool's, then from the back of
the others'.  Hard: the constructor pushes to `_queues` while the workers it has
started read it, and no mutex guards that vector; a task taken at both ends; a task
that blocks on one that lies in the queue of its own worker; destruction, which
leaves queued tasks behind.

**`parallel_accumulate`** (chapter_9.h:208-241).  Cuts a range in blocks, submits all
but the last, sums the last itself, adds up the futures, and leaves through the
destructor of its pool, also by exception.  Hard: the arithmetic of the blocks; an
exception while tasks hold iterators of the caller's range.

**`sorter`, `parallel_quick_sort`** (chapter_8.h:10-123).  A stack of chunks to sort,
threads that are started on the way, a promise in every chunk.  Hard: the promise
is lost in copies; `do_sort` waits for the lower part before it would help; a
worker that finds the stack empty ends the program; `threads` has no mutex.
Correct if: no worker finds the stack empty, and every lower part arrives.

**`interrupt_flag`, `interruptible_thread`** (chapter_9.h:372-452).  A flag, a
pointer to the condition variable of the wait in progress, and a mutex for it.
Hard: the interrupt that falls between registration and wait; the pointer to a
condition variable that is gone.  Correct if: an interrupt ends the wait, and
notifies only a condition variable that exists.

### Locks and small exercises

**`hierarchical_mutex`** (thread/series_mutex.h; used by thread/main.cpp:9-41).  State:
a mutex, its level, the saved level, and a `thread_local` level per thread.
`lock` and `try_lock` throw unless the level of the thread is above that of the
mutex.  Hard: what the level is after an exception passed through nested scopes;
whether the check excludes circular waiting; the saved level is an `unsigned`
while levels are `unsigned long`.

**`producer`, `consumer`** (thread/t_thread.cc:6-33).  Loops of ten rounds that hand
over values through a vector of at most one.  Hard: one condition variable serves
both kinds of thread.

`td_quick_sorter` (chapter_9.h:244-287), `spinlock_mutex` and the `data_ready`
publication (chapter_5.h), `singleton`, `TestSemaphore` (semaphore.h), `spawn_task`
(thread/future_t.h), cpu binding and argument passing: see section 7.

### How they interact

`parallel_accumulate` owns a `simple_thread_pool`, which owns a
`thread_safe_queue`; so does `steal_thread_pool`.  The composition follows this:
ThreadSafeQueueProofs shows that the queue acts as a FIFO sequence whose calls
take effect in one step, SimpleThreadPool and StealThreadPool use such a sequence,
and ParallelAccumulate EXTENDS SimpleThreadPool and drives its actions.  `sorter`
owns a `thread_safe_stack`.  The other structures are used by no other code of the
repository; their environment in the models is any set of threads that make any
calls in any order.

## 2. The modules

One step of a structure is one operation on a mutex, on an atomic or on a
condition variable, or one access to memory that another thread might reach,
with the thread-local work around it.  `pc[t]` is the position of thread `t`, `op[t]`
the call it is in.  Addresses (`Node`) are few and are reused as soon as they are
freed: this is what makes use after free, double frees and ABA visible.  Memory is
sequentially consistent: every atomic in the modelled code is used with the
default order or under a mutex, but for the `_flag` of `interrupt_flag`, which is
written and read `relaxed` (chapter_9.h:379, 386).  Nothing is decided by what is
read from it, as the body of `interruption_point` is a comment, so its order
cannot matter.  Freedom from data races is itself checked for the queue with two
locks and for the list, and is found violated for the vector of the stealing pool.

| module | code | what it is |
|---|---|---|
| FifoQueue, KeyMap, LifoStack | - | abstract specifications: calls that are open, take effect at one step, and return |
| TaskPool | - | abstract specification: what a pool promises about each task |
| ThreadSafeQueue | chapter_6.h:95-211 | the queue with two locks; implements FifoQueue |
| CoarseQueue | thread/t_queue.h:6-77 | the queue with one lock; implements FifoQueue |
| FinalQueue | thread/t_queue.h:162-346 | thread_queue and final_queue; implements FifoQueue |
| SequentialQueue | chapter_6.h:7-89, thread/t_queue.h:81-159 | the four queues for one thread |
| HandOverHandList | chapter_6.h:312-385, thread/t_list.h | the lists with a mutex per node |
| LookupTable | chapter_6.h:216-309, thread/t_hash_table.h | both tables (`RemovesWhenFound`); implements KeyMap |
| HazardStack | thread/t_stack.h:12-50, 81-106 | the stack with hazard pointers; implements LifoStack |
| CountedStack | chapter_7.h | the stack with the counting pop |
| SimpleThreadPool | chapter_9.h:86-205, chapter_8.h:126-141 | the pool, from construction to destruction; implements TaskPool |
| StealThreadPool | chapter_9.h:46-84, 290-369 | the pool whose workers steal; implements TaskPool |
| ParallelAccumulate | chapter_9.h:208-241 | a client of the pool; EXTENDS SimpleThreadPool |
| ParallelSorter | chapter_8.h:10-123, chapter_3.h | the sorter and its stack of chunks |
| InterruptibleThread | chapter_9.h:372-452 | a thread that waits and is interrupted |
| HierarchicalMutex | thread/series_mutex.h | the mutex with levels |
| ProducerConsumer | thread/t_thread.cc:6-33 | the two loops |
| Queues | - | CoarseQueue, FinalQueue and SequentialQueue, of which a behaviour uses one |
| Stacks | - | HazardStack and ParallelSorter, of which a behaviour uses one |
| Waiters | - | SimpleThreadPool, alone or in ParallelAccumulate, HierarchicalMutex, ProducerConsumer and InterruptibleThread, of which a behaviour uses one |
| QueueAndPool | - | ThreadSafeQueue and StealThreadPool, of which a behaviour uses one |
| ...Proofs | | theorems about the module named, or the modules it puts together, section 5 |
| MC... | | the instances that TLC checks |

Each abstract structure keeps, per thread, a record `call[t]` with the stage
(idle, open, done), the operation, and the argument or outcome.  An open call
takes effect in one step, at any time before it returns: an implementation of it
is linearizable.  The refinement mapping names the point: a push of ThreadSafeQueue
takes effect as `_tail` moves, a pop as its value leaves the list, a failed
`try_pop` and `empty` as they read `_tail` (not when they compare it); `get_map` as
it locks the last bucket, before it copies anything; a push or pop of HazardStack
at its successful exchange, a pop of an empty stack at its second read of null.
TaskPool keeps, per task, what its future shows and the threads that run it: a
task is taken by one thread, once; the pool closes when none is running, and
breaks the promises of exactly the tasks nobody took.

Where a module departs from a line-by-line reading:

- *ThreadSafeQueue*: `get_tail` locks, reads and unlocks in one step, since
  nothing else can happen under that lock; `data_cond.wait` releases and blocks in
  one step, as the standard demands, and may wake for no reason.  `chain` is a
  history variable: the nodes from `_head` to `_tail`.
- *FinalQueue*: each access to a field of a node that is in the list is a step, so
  that a pop runs beside a push that has filled the dummy and not yet linked it, or
  linked it and not yet moved `tail`.  A lock is one step with the first access it
  guards, an unlock with the last; `get_tail`, which locks for one read, waits for
  `tail_mutex` and is one step.  A detached node keeps its data and its pointer,
  and the result is read from it after the unlock, or by the overloads with a `T &`
  before `head` moves.  `chain` is a history variable: the
  nodes before the dummy.
- *CoarseQueue*, *SequentialQueue*: the queues have no capacity in the code; `MaxItems`
  bounds the values in them (and, in CoarseQueue, being pushed).  `pushed` of
  SequentialQueue is a history variable: the values a queue would hold.  `class` says
  which of the four queues it is.  A push through a dangling tail writes to the
  address it has, freed or reused.
- *HandOverHandList*: a predicate is the set of the values it accepts.  `behind`
  and `missed` are history variables: the nodes that come after each node (those after
  `_head` are the list, `linked`), and the nodes a walk was called for and has not
  reached.
- *LookupTable*: `hasher` is a constant function; a value of `Absent` stands for the
  caller's default.  `corrupt` records `list::erase(end())`, undefined behaviour.
  `RemovesWhenFound` tells the two tests of `remove_mapping` apart; the run is of
  lookup_table, and the theorem about unique keys of both tables.
- *HazardStack*: `get_hazard_pointer_for_current_thread`, `outstanding_hazard_pointers_for`,
  `reclaim_later` and `delete_nodes_with_no_hazards` (t_stack.h:83, 98-103) are
  called and not defined in the repository.  They are modelled from the use pop
  makes of them, as single steps, and marked external in the map.  The class has
  no constructor: `head` is null for an object of static storage.
- *CountedStack*: `lock_free_stack` declares no push; nodes come from the push of
  `simple_lock_free_stack`, which has the same node and head.  Values are left out.
  A step that would follow a null pointer is not taken.
- *SimpleThreadPool*, *StealThreadPool*: the task queue is a sequence with atomic
  operations, by theorem QueueIsFifo; an operation of `work_stealing_queue` holds
  its one mutex throughout and is one step too.  A task is its name and the tasks it
  may submit as it runs; that it returned or threw is one outcome, its future is
  ready.
- *StealThreadPool*: the `thread_local` members have no definition, so that a program
  that uses the class does not link; they are taken as declared, null and 0.  While
  the constructor is inside `_queues.push_back` a worker that reads `_queues` may
  read a torn size or pointer: `TornRead`, after which the program is over
  (`crashed`), is one outcome, and reading what was there before or after is the
  other.  A worker that goes on once the members are gone takes the same step.
  `QueuesReadIntact` says that nobody ever does, and is violated by the first kind;
  `QueuesOutliveWorkers` says that nobody does the second.  The progress properties
  of this pool end where a torn read has ended the program.  `Blocking` is the set of tasks
  that call `get()` on the futures of the tasks they submitted.
- *ParallelAccumulate*: a sum is the sequence of the elements that are added up, in
  their order.  What `operator+` makes of them is left out: a sum that has every
  element once, in the order of the range, is the one the caller asked for as long
  as addition is associative.
- *ParallelSorter*: a list is its number of elements; a promise is named by the
  thread that owns it and the depth of its call, and a copy of a chunk has the
  promise `Lost`, as the constructors leave the promise behind.  `resolved` can then
  hold no promise that is waited for, `new_lower.get()` (line 80) is never passed,
  which is the finding of run `sorter`, and so of the calls of `do_sort` in a
  thread only the innermost is kept and no action stands for what follows that
  line.  `push_back` to `threads` reads and writes in two steps, since nothing keeps
  two threads from being there at once.
- *InterruptibleThread*: the `throw` in `interruption_point` and the body of
  `clear_cv_on_destruct` are comments in the code, so an interruption point does
  nothing and the pointer is never cleared.  A condition variable is a local of the
  function that waits and lives as long as its wait.  `set()` on one that is
  gone, or on the flag of a thread that has ended, is undefined: it wakes nobody
  here, or the program stops; `NotifiesExisting` is about the first.
- *ProducerConsumer*: the sleep with the mutex held takes no step.  `made` and `taken`
  are history variables.
- *HierarchicalMutex*: mutexes are held by `lock_guard` in nested scopes, as
  thread/main.cpp does.  `try_lock` may fail on a free mutex too, as
  `std::mutex::try_lock` may.  `ULongMax` and `UIntMod` are the widths of the two unsigned types.

Data abstracted everywhere: element types, `shared_ptr` reference counts (a value
is moved as one), memory exhaustion, and output.

## 3. The runs

Every property of a passing run has a mutant in `PROJECT.json`: a change of one
definition, as a bug in that code would be, that makes TLC find the property
violated under the same configuration.  The mutated forms stand before the
definitions they replace and are used by no specification.

Four runs (`queue_and_pool`, `coarse`, `stack`, `pool`) check components that share
nothing in one state space, through the modules QueueAndPool, Queues, Stacks and
Waiters.  Each has a variable `chosen`, which picks one component for a behaviour and
leaves the others in an initial state: the state space is the sum of theirs, not the
product, and a property of one component is checked on the behaviours that use it (its
own initial state satisfies it on the others).  The theorems named EachIsUsedAlone say
of the last three that a behaviour of the composition is one of each component: what
is proved of the components holds in these runs.

| run | what it shows | bounds |
|---|---|---|
| `queue_and_pool` | thread_safe_queue: NoDataRace, Linked, HeapExact, Linearizable, CallsReturn; steal_thread_pool: QueuesOutliveWorkers, RunsTasks, FuturesResolve, DestructionEnds | 3 threads which make all 6 calls between them, 3 addresses, 2 values; 2 workers and the owner, 3 tasks, of which k1 submits the other two and blocks until both are done |
| `coarse` | t_queue: NoValueForgotten, Linearizable; final_queue and thread_queue: FinalQueueLinearizable; the sequential queues with a dummy: DummyIsFifo | 3 threads with all 3 calls and at most 3 values; 3 threads with all 6 calls, 3 addresses, 2 values; 3 addresses, at most 2 values |
| `list` | both lists: MemorySafe, ListExact, NothingMissed, CallsReturn | 3 threads with every call between them, 2 of which remove; 3 addresses, 2 values |
| `lookup` | lookup_table: OneMappingPerKey, RemoveErases, Linearizable, CallsReturn | 2 threads with all 4 calls, 3 keys in 2 buckets, 2 values |
| `stack` | stack: NoUseAfterFree, HeapExact, Linearizable, RetriesEnd; sorter: PopFindsChunk | 2 threads, 3 addresses, 2 values; lists of 1 to 3 elements, the caller and up to 3 workers, 0, 1 or 3 cores, unsigned of 4 bits |
| `pool` | simple_thread_pool: NoUseAfterFree, RunsTasks, DestructionEnds, FuturesResolve; parallel_accumulate: SumOrException, RangeOutlivesTasks, CallEnds; hierarchical_mutex: LevelIsLast, NoCircularWait, LocksReturn; producer and consumer: HandedOver, AllRoundsEnd; interruptible_thread: InterruptEndsWait | 2 workers and the owner, 4 tasks, of which 1 submits 2 and 2 submits 3; ranges of 0 to 9 elements in blocks of 2, every set of blocks that throw; 2 threads, 2 mutexes of levels 9 and 5, unsigned of 3 bits, unsigned long of 4; 2 producers and 2 consumers of 3 rounds; 2 interrupters, 2 condition variables |
| `queue_wakeup` | ValueWakesWaiter is violated (section 6) | 1 producer, 2 waiting consumers |
| `counted_pending` | OnlyRemovedPending is violated (section 6) | 2 threads, 3 addresses |
| `emptied` | IsFifo is violated (section 6) | the sequential queues of `coarse` |
| `steal_torn` | QueuesReadIntact is violated (section 6) | the pool of `queue_and_pool` |
| `interrupt_stale` | NotifiesExisting is violated (section 6) | the interruptible thread of `pool` |
| `sorter` | LowerArrives is violated, under FairSpec (section 6) | one element, the caller and 2 workers, 3 cores |

Why these bounds are enough to meet the hazards:

- *Queues*: 3 addresses give a list of a dummy and up to two nodes, or one node
  linked, one in a push and one in a pop: the queue of one value, where both ends
  work on neighbours, is met in every interleaving, and every address is reused.
  3 threads let two calls at one end meet one at the other.  Two values tell
  reordering and loss.  The theorems of section 5 lift these bounds for the safety
  of all the queues.
- *t_queue*: two blocked threads and a pushing one, or one blocked, one polling and
  one pushing, are what a lost notification takes.
- *Sequential queues*: 3 addresses for 2 values and a dummy: every address is freed
  and reused, and a push through a dangling tail meets freed memory and reused memory.
- *List*: two removing threads and a third one can stand on three neighbouring
  nodes, which is as far as a walk sees (it holds at most two locks and waits for
  one).  The roles leave out that three threads all push, which adds no new kind of
  neighbour: a push touches only `_head` and its own node.
- *Tables*: 3 keys in 2 buckets give one bucket with two keys and one without
  collisions; two concurrent `get_map` and `get_map` beside each writer are met.
- *Stack*: 2 threads and 3 addresses suffice for ABA: a pop is held up between
  reading `next` and its exchange, while the other pops two nodes and pushes one of
  their addresses again (a pop that trusts its first load of `head`, as the mutant of
  Linearizable does, falls to it).
- *Sorter*: 3 elements divide twice in one thread, and once in a worker.  With 3
  cores two threads may be started, and a third one when two threads test `threads`
  at once.  A hardware_concurrency() of 0 gives max_thread_count the value UINT_MAX,
  1 gives 0.
- *Pool*: 4 tasks let destruction meet a queued, a running and a submitting task at
  once.  Both workers may fail to start.
- *Stealing pool*: the worker that runs k1 has two tasks in its queue and is blocked;
  the other one must steal both.  The constructor grows `_queues` a second time while
  the first worker runs.
- *Producer and consumer*: two of each is what it takes for a notification to reach
  the wrong kind; 3 rounds let a thread be ahead of its kind by more than one.
- *parallel_accumulate*: 9 elements in blocks of 2 give up to 5 blocks, full and short last
  blocks, one block and none.
- *Hierarchical mutex*: with two mutexes scopes nest, and a thread may wait for the
  higher one while its owner goes on to the lower one, or throws.  Level 9 does not
  fit in an unsigned of 3 bits while 5 does, and ULONG_MAX (15) does not fit either.
  Safety is proved for any number of levels.

`CHECK_DEADLOCK FALSE` is set where the system may stop: `queue_and_pool` and
`queue_wakeup` (every thread may wait for a value, and every address may be in use),
`queue_and_pool`, `pool`, `interrupt_stale` and `steal_torn` (the pool is
gone or has crashed, the loops are over, the call has returned), `sorter` (all that
were started wait or have ended), and `counted_pending` (a pop that follows a null
pointer goes no further).  In `stack` the sorter may stop, with every thread waiting
at line 80: `Quiet` names these states and lets them stutter, so that deadlock
remains checked in all the others.  Symmetry (of threads or addresses) is used in
`counted_pending`, where no liveness is checked.

## 4. Fairness

- *Structures with mutexes* (queues, list, tables): strong fairness of the steps of
  each call in progress.  A thread is scheduled, and a thread that keeps asking for
  a mutex that is released again and again gets it in the end.  Weak fairness would
  let a mutex be handed past a waiting thread for ever.  The C++ standard does not
  exclude that, the schedulers and mutexes of the platforms the code is built for
  do; the progress properties hold under this assumption.  Nothing
  forces a thread to make another call, and spurious wake-ups need never happen.
- *ProducerConsumer*: strong fairness as above, also of the loops: they are the whole
  program.  AllRoundsEnd holds without any spurious wake-up.
- *InterruptibleThread*: weak fairness of the thread, which includes that the one
  millisecond of `wait_for` passes.  Nobody need interrupt.
- *HazardStack*: weak fairness; nothing in a call ever waits.  RetriesEnd says that
  calls end when no new ones begin: lock-freedom, not wait-freedom.
- *SimpleThreadPool*, *StealThreadPool*, *ParallelAccumulate*: weak fairness per
  thread; a worker polls and never blocks, except in a task that waits for others.
  The owner need not submit or destroy anything.  A task that runs ends, when
  those it waits for have.
- *HierarchicalMutex*: strong fairness as above, and every scope that holds a mutex
  ends (strong fairness of Restore for each mutex: the thread may go on locking
  other mutexes inside the scope).
- *ParallelSorter* (run `sorter`): weak fairness of each thread: one that can take a
  step goes on.  Nothing in it waits for a mutex.  LowerArrives is violated although
  every thread keeps running.  The run `stack` checks its safety without fairness.
- *FinalQueue*, *SequentialQueue*: none; only their safety is checked.

## 5. The proofs

Every safety property that a passing run checks, refinements included, is also a
theorem.  The theorems hold for every value of the constants that satisfies the
module's named assumption.  The assumptions say that special values are distinct from
ordinary ones, that numbers are natural, that functions have the right domains; in
CoarseQueue that there are finitely many threads, in the theorems about the sorter
that there are finitely many workers, and in ParallelAccumulate that there is a task
for each block.  Apart from that the sets may be infinite.  Each component has an
inductive invariant (`IInv`, where a module holds several components `FinalInv`,
`SingleInv`, `SumInv`, `HandOverInv`, `SorterInv`) and one lemma or step per action for
`IInv /\ [Next]_vars => IInv'`.

**ThreadSafeQueueProofs.**

    IInv == TypeOK /\ MutexInv /\ LocalInv /\ PushInv /\ PopInv /\ Linked /\ HeapExact

The safety invariants are not inductive alone.  `Linked` needs to know that a pop
which goes on has a node before the dummy.  It compared `_head` with a `_tail` that
may be old by now; `PopInv` says why this is harmless: other pushes only lengthen
the list, and `MutexInv` says no other pop can shorten it.  `PushInv` says what a
push has written to the dummy before it moves `_tail`.  `HeapExact` needs `LocalInv`:
what `p` and `old_head` are at each position.  From `IInv` follow

- `TypeCorrect` (TypeOK): `_head` and `_tail` are never null between steps,
- `WellLinked` (Linked), `MemorySafe` (HeapExact): the list and the heap,
- `RaceFreedom` (NoDataRace): a pushing and a popping thread never meet on a field,
  although they hold different mutexes, as the node a pop works on is never the
  dummy,
- `QueueIsFifo` (Linearizable): thread_safe_queue implements FifoQueue.  The
  invariant is extended by `CallInv` (the outcome of a call is empty until it takes
  effect); then every step is shown to be the abstract step named in section 2, or a
  stutter.  The lemmas `ItemsGrow`, `ItemsTake` and `ItemsPop` say what the three
  linearization points do to the sequence of values.

**QueuesProofs.**  Of t_queue,

    IInv == TypeOK /\ LocalInv /\ NoValueForgotten

`NoneForgotten` (NoValueForgotten): no notification is lost in t_queue.  The lemmas
count threads: each step moves one thread between the sets that NoValueForgotten
compares with the queue, and a push adds its value and its own notification at once,
under the mutex.  `CoarseQueueIsFifo` (Linearizable): t_queue implements FifoQueue too.
Of thread_queue and final_queue,

    FinalInv == FinalTypes /\ FinalLocals /\ FinalFilling /\ FinalList /\ FinalOwners

with the ownership of the list and of the nodes that pushes and pops hold outside of
it.  As in ThreadSafeQueue, what a pop needs is that the tail it has read, old or not,
is still in the list (`FinalLocals`), since it holds `head_mutex`.  `FinalFilling` says
that a push between its three writes owns `tail_mutex`, what the dummy holds after each of
them, and that a pop with a value to take has a node before the dummy: it never works on
the one that is being filled.  The result is read
after the unlock: `FinalOwners` says that the detached node is the pop's alone, so that
what it reads is what it took.  `FinalQueueIsFifo` (FinalQueueLinearizable): both
classes implement FifoQueue.  Of the sequential queues,

    SingleInv: in a queue with a dummy, the values pushed and not popped lie, in their
               order, in a list from head to the dummy at the tail

and `DummyQueueIsFifo` (DummyIsFifo) follows: a dummy is never the node that is deleted,
so the tail never dangles.  The queues without one are not first in first out (section 6).

**HandOverHandListProofs.**

    IInv == TypeOK /\ MutexInv /\ LocalInv /\ PrivateInv /\ OrderInv /\ NextInv /\ MissedInv

An order of the nodes is needed to say that the list has no cycle and that what a walk
has still to reach lies ahead of it; a sequence would have to be cut and joined by
every removal, so the history variable `behind` gives each node the set of those after
it.  `OrderInv` says these sets are nested, `NextInv` that `next` leads to the first of
the set.  `MutexInv` and `LocalInv` say that a walk which is to lock the next node holds
the mutex of the one before: nobody else can unlink that next node, and so nobody waits
for the mutex of a node that is freed.  From this follow `MemoryIsSafe` (MemorySafe),
`ListIsExact` (ListExact) and `WalksMissNothing` (NothingMissed).

**StacksProofs.**  Of the stack,

    IInv == TypeOK /\ LocalInv /\ DataInv /\ HazardInv /\ ListInv /\ OwnInv

where `ListInv /\ OwnInv` is HeapExact, cut in its two halves.  `HazardInv` is why ABA
does no harm: from the second read of `head` to the exchange the hazard pointer keeps the
node allocated, so that no push can have it, and its `next` is still what the pop has
read; if the exchange then finds the address in `head`, it is the same node and has the
same successor.  From this follow `PointersAlive` (NoUseAfterFree), `HeapIsExact`
(HeapExact) and `StackIsLifo` (Linearizable).  Of the sorter, `SorterInv` says that
the stack has a chunk for each thread that is about to pop one or to start one that
will, which is an inequality of cardinalities (`ChunkForEachPop`: PopFindsChunk).

**LookupTableProofs.**

    IInv == TypeOK /\ CallInv /\ LockInv /\ OneMappingPerKey /\ FoundInv /\ CopyInv

for both tables.  `OneMappingPerKey` needs that a writer which found no mapping still
finds none when it appends (`FoundInv`: a found position stays what it was), which
needs the exclusive lock (`LockInv`).  `CopyInv` says what a snapshot has copied so
far: for the buckets it has been through, exactly what they hold, as nothing can
change while it holds all of them.  From this follow `KeysAreUnique`
(OneMappingPerKey) and, for the table that removes when found, `TableIsMap`
(Linearizable): lookup_table implements KeyMap, `get_map` included.  `RemovedIsGone`
(RemoveErases) follows too: after the erasure its key has no mapping, and while the
call holds the bucket (`LockInv`) no other thread writes to it.

**WaitersProofs** (simple_thread_pool and what runs on it), **StealThreadPoolProofs.**

    IInv == TypeOK /\ TaskInv /\ LifeInv         (StealTypeOK for the stealing pool)

`TaskInv` says where a task is: pending if it lies in a queue or runs, in one place
of one queue, or in one thread.  `LifeInv` says which threads can be at which
position in each phase of the pool's life: which are born, joined, exited.  From
this follow, for simple_thread_pool, `MembersOutliveWorkers` (NoUseAfterFree) and, for the
stealing pool, `QueuesAlive` (QueuesOutliveWorkers): a step after which the program is
over is taken only while the constructor grows the vector.  That race is the code's, and
is left to the run `steal_torn`; a use of the pool after its end is excluded, as a pool
that is gone has joined its workers.  In both modules follows `PoolRunsTasks`
(RunsTasks): each pool implements TaskPool, for any number of workers, none included,
and any tasks that submit any others.

Of parallel_accumulate, WaitersProofs shows `CallerUsesPool`: it is a behaviour of the
pool, so that every theorem about the pool holds inside it.  `RangeIsSafe`
(RangeOutlivesTasks): once the call has returned or thrown, no task reads the caller's
range.  It uses the invariant of the pool: a pool that is gone has joined its workers.
`SumIsWhole` (SumOrException): the value returned adds up every element once and in
order.  Its invariant `SumInv` says that what has been added, as the i-th future is
awaited, is the range up to the i-th block; the lemmas `Blocks` and `AddBlock` are the
arithmetic of the division into blocks.

Of producer and consumer, `ValuesHandedOver` (HandedOver): what is consumed is what
was produced, for any number of producers, consumers and rounds.  Nothing is proved
of the interruptible thread, whose property that holds is liveness.

**HierarchicalMutexProofs.**

    IInv == HMTypeOK /\ OwnerInv /\ Descending /\ SavedInv /\ LevelInv /\ PositionInv

`LevelIsLast` needs what every mutex held has saved (`SavedInv`), which needs that a
thread holds each mutex once (`Descending`, through `OwnerInv`).  The arithmetic
is that of the truncation: cutting a level twice is cutting it once, and never
raises it; so the check, made against a level that may be too low, is only ever
too strict.  From this follow

- `LevelsNest` (LevelIsLast): the level is that of the innermost scope, or that
  level modulo 2^32,
- `NoCircle` (NoCircularWait): along a chain of waiting threads levels go down,
- `TypeCorrect` (HMTypeOK).

Out of the prover's reach, and left to TLC: liveness under fairness, and anything with
ENABLED.  No proof needs induction over data: where a definition by recursion would
need it, a variable carries what that would compute from step to step (the history
variables `chain` and `behind`, and `result` of parallel_accumulate).

## 6. What the code does against its own comments

Six runs check a statement of a comment, a name or a test and find it violated.

- **`queue_wakeup`** (chapter_6.h:139).  `push_cond` links its node under `tail_mutex`
  and notifies with no mutex held; a waiting pop tests the queue under `head_mutex`.
  The push and its notification fall between the test and the wait, and the
  thread sleeps beside a value.  `final_queue` notifies in the same way
  (t_queue.h:282).  `t_queue`, which notifies under its one mutex, does not have this
  behaviour: `NoValueForgotten` says why.
- **`counted_pending`** (chapter_7.h:79).  A pop that is not alone adds its node to
  `_to_be_deleted` by the overload that follows `_next` to the end; that is the rest
  of the stack.  Nodes still on the stack get on the list of nodes to delete.
- **`emptied`** (t_queue.h:98, chapter_6.h:20).  `try_pop` of `s_queue`, "a simple queue
  implementation" (t_queue.h:79), and of `single_thread_queue` deletes the last node and
  leaves the tail pointing to it.  The next push links its node behind the deleted
  one and leaves head null: that value, and every later one, is lost.
- **`steal_torn`** (chapter_9.h:333).  The constructor of `steal_thread_pool` pushes back
  to `_queues` while the workers it has started read its size and its elements (lines
  304, 319-321).  Each queue has a lock, "简单加锁实现" (line 45); the vector that holds
  them has none.  The first worker that looks for something to steal before the
  constructor is done takes part in a data race.
- **`interrupt_stale`** (chapter_9.h:398).  The destructor of `clear_cv_on_destruct` was to
  clear the pointer in the flag as a wait ends; its body is the comment
  `//this_thread_interrupt_flag.clear_condition_variable();` (line 400).  `interrupt()`
  then notifies a condition variable that may have been destroyed.
- **`sorter`** (chapter_8.h:18, 80).  A chunk is copied on its way into the stack and out
  of it, and the line that would take its promise along is a comment (lines 21, 27).  The
  thread that sorts it sets a promise nobody waits for, and `do_sort` waits for ever:
  `parallel_quick_sort` never returns a list, although main.cpp:43-44 goes on after it.
  The wait also comes before the call that would offer help (line 81), so that with
  the promise taken along a sort without another thread would still stop at line 80.

Another disagreement shows as a mutant.  `remove_mapping` of `thread_safe_lookup_table`
erases if the key was *not* found (chapter_6.h:241): a mapping is never removed, and
`end()` is erased, where line 215 lists deletion among what the table supports.
t_hash_table.h:51 has the test the right way round, and run `lookup` checks
`RemoveErases` of that table.  `ErasesWhenMissing`, the test of chapter_6.h in its
place, violates it.  Since no operation of the first table compiles when instantiated
(section 1), no program can meet this yet.

Properties of passing runs also admit what the code does where a reader would expect
something else:

- `LevelIsLast`: with `hierarchical_mutex` a thread whose level is ULONG_MAX has level
  ULONG_MAX mod 2^32 after its first unlock (series_mutex.h:47).
- `DestructionEnds` of the stealing pool: a task that blocks on one it has submitted
  may keep the destructor waiting for ever, since the workers leave without looking
  at their queues again (chapter_9.h:344); the property excludes that case, and no
  text of the repository claims it.

## 7. What is not covered

*Only model-checked*: all liveness (`CallsReturn`, `RetriesEnd`, `DestructionEnds`,
`FuturesResolve`, `AllRoundsEnd`, `InterruptEndsWait`, `CallEnds`, `LocksReturn`), since
it rests on fairness, which the prover does not handle.  All of it is checked on the
instances of section 3 and nowhere else.

*Not modelled, and why*:

- members that do not compile when instantiated: `thread_safe_queue::try_pop()`,
  the copies and `empty` of `t_queue`, `empty` of `final_queue`, the pops of
  `simple_lock_free_stack`; `td_quick_sorter` (do_sort negates a `future_status`,
  chapter_9.h:269, and its text and comments do not say which test was meant);
  `singleton.h` (three functions of one signature);
- the counting pop of `stack` (t_stack.h:52-74), which compiles only without the
  other pop: it reads its pending list before it leaves, and follows a null head
  (lines 60, 70), so that no safety property of it would hold, and no text of the
  repository promises one to compare it with;
- `local_submit` and `run_local_pending_task` of `simple_thread_pool`: the
  `thread_local` queue they use is set up by a function that no thread runs;
- `sort_thread` of `sorter`, which no thread runs, and what follows line 80 of
  `do_sort`, which is never reached; that every thread in `threads` is joined does
  not hold (chapter_8.h:74: two threads may `push_back` at once), and no text says so;
- `spinlock_mutex` and the publication example (chapter_5.h): one loop over
  `test_and_set`, one flag; they hold by their two lines in a model that is
  sequentially consistent, and what could go wrong is the memory order;
- unlocking two `hierarchical_mutex`es in the order of locking: no code does it;
- `interrupt()` on a thread that has ended (chapter_9.h:423 reaches a `thread_local` that is
  gone): no text says who must see to it, and `join` is declared and not defined;
- `scoped_thread`, `TestAdpotLock` and another `parallel_accumulate` in
  thread/t_thread.h: one call to `join`, one to `std::lock`, and a function that sums
  in its own thread and flows off its end;
- an exception of a task's own destructor, memory exhaustion, and `std::terminate`
  (except where a worker of `sorter` throws);
- `try_pop(T&)` of `t_queue` returns an undefined bool after it has taken a value;
  the value is modelled, the bool is left out;
- `TestSemaphore` (three calls in a row, each waiting for a post that is made once),
  `spawn_task` (its temporary thread is destroyed joinable: it ends in terminate),
  cpu binding, argument passing, the notes and the build files.

A pool of zero workers (`hardware_concurrency()` may return 0) leaves
`parallel_accumulate` waiting for ever on a range of two blocks; `FuturesResolve` and
`CallEnds` are checked with workers.  The safety theorems include that pool.

## 8. Plan

Done: all the components of section 1 that are modelled, and the safety of each proved.

Left, in order of what it would add:

1. The steps that the liveness properties rest on, as invariants that say who can move:
   that a thread which waits for a mutex of the list, of the tables or of the queue with
   two locks waits for one that has a step to take.  They are what of freedom from
   deadlock is within the prover's reach.
2. Memory safety of CountedStack where only one pop runs at a time.
