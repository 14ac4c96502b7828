\* The queues of t_queue.h: linearizability, no lost notification in t_queue,
\* and a sequential queue with a dummy.
SPECIFICATION QueuesSpec
CONSTANTS
  a = a
  b = b
  c = c
  v1 = v1
  v2 = v2
  n1 = n1
  n2 = n2
  n3 = n3
  Thread <- Threads
  Value <- Values
  Calls <- AllCalls
  FinalCalls <- SomeCalls
  Node <- Nodes
  MaxItems = 3
  MaxLength = 2
  NoThread = NoThread
  NoNode = NoNode
  Nothing = Nothing
INVARIANTS
  NoValueForgotten
PROPERTIES
  Linearizable
  FinalQueueLinearizable
  DummyIsFifo
