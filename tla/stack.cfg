\* stack of t_stack.h with hazard pointers: memory, linearizability, and
\* lock-freedom; and the stack of chunks of the sorter.
SPECIFICATION StacksSpec
CONSTANTS
  a = a
  b = b
  n1 = n1
  n2 = n2
  n3 = n3
  v1 = v1
  v2 = v2
  w1 = w1
  w2 = w2
  w3 = w3
  Thread <- Threads
  Node <- Nodes
  Value <- Values
  Calls <- AllCalls
  Null = Null
  Nothing = Nothing
  Worker <- Workers
  Main = Main
  MaxItems = 3
  Cores <- CoreCounts
  UIntMod = 16
  Lost = Lost
INVARIANTS
  NoUseAfterFree
  HeapExact
  PopFindsChunk
PROPERTIES
  Linearizable
  RetriesEnd
