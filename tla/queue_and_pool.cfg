\* Every operation of the queue: memory, races, linearizability, and calls
\* that return.  Of the pool, two workers and an owner, and a task that submits
\* two others and blocks until they are done, from construction to destruction.
SPECIFICATION BothSpec
CONSTANTS
  a = a
  b = b
  c = c
  n1 = n1
  n2 = n2
  n3 = n3
  v1 = v1
  v2 = v2
  Thread <- Threads
  Node <- Nodes3
  Value <- Values
  Calls <- MixedCalls
  NoThread = NoThread
  NoNode = NoNode
  Nothing = Nothing
  k1 = k1
  k2 = k2
  k3 = k3
  Workers = 2
  Task <- Tasks
  Submits <- Tree
  Blocking = {k1}
  NoTask = NoTask
INVARIANTS
  NoDataRace
  Linked
  HeapExact
PROPERTIES
  Linearizable
  CallsReturn
  QueuesOutliveWorkers
  RunsTasks
  FuturesResolve
  DestructionEnds
\* Every thread may be blocked in wait_and_pop; the pool may be gone, or have
\* crashed.
CHECK_DEADLOCK FALSE
