\* A waiting pop sleeps on while the queue holds a value for it: the
\* notification of push_cond was sent before the waiter was blocked.
SPECIFICATION FairSpec
CONSTANTS
  a = a
  b = b
  c = c
  n1 = n1
  n2 = n2
  n3 = n3
  v1 = v1
  v2 = v2
  Thread <- Threads
  Node <- Nodes3
  Value = {v1}
  Calls <- WaitingCalls
  NoThread = NoThread
  NoNode = NoNode
  Nothing = Nothing
PROPERTY ValueWakesWaiter
CHECK_DEADLOCK FALSE
