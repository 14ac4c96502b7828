\* A sequential queue without a dummy, emptied and used again.
SPECIFICATION QueuesSpec
CONSTANTS
  a = a
  b = b
  c = c
  v1 = v1
  v2 = v2
  n1 = n1
  n2 = n2
  n3 = n3
  Thread <- Threads
  Value <- Values
  Calls <- AllCalls
  FinalCalls <- SomeCalls
  Node <- Nodes
  MaxItems = 3
  MaxLength = 2
  NoThread = NoThread
  NoNode = NoNode
  Nothing = Nothing
PROPERTIES
  IsFifo
