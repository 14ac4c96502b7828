\* Two threads that push and remove, and one that pushes, visits and searches:
\* memory, walks and progress.
SPECIFICATION FairSpec
CONSTANTS
  a = a
  b = b
  c = c
  n1 = n1
  n2 = n2
  n3 = n3
  v1 = v1
  v2 = v2
  Thread <- Threads
  Node <- Nodes
  Value <- Values
  Predicate = {{v1}}
  Calls <- RoleCalls
  Head = Head
  Null = Null
  NoThread = NoThread
INVARIANTS
  MemorySafe
  ListExact
  NothingMissed
PROPERTY CallsReturn
