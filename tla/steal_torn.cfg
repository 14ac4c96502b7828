\* The same two workers, the first of them stealing while the constructor
\* pushes the second queue: the read of _queues is torn.
SPECIFICATION StealSpec
CONSTANTS
  k1 = k1
  k2 = k2
  k3 = k3
  Workers = 2
  Task <- Tasks
  Submits <- Tree
  Blocking = {k1}
  NoTask = NoTask
INVARIANTS
  QueuesReadIntact
\* The behaviour ends when the pool is gone, or has crashed.
CHECK_DEADLOCK FALSE
