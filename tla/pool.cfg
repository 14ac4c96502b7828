\* Two workers and an owner, four tasks of which two submit others, from
\* construction, with a thread that may fail to start, to destruction at any
\* moment; parallel_accumulate on ranges of 0 to 9 elements in blocks of 2;
\* two hierarchical mutexes in nested scopes; producers and consumers;
\* a thread that is interrupted.
SPECIFICATION WaitersSpec
CONSTANTS
  p1 = p1
  p2 = p2
  c1 = c1
  c2 = c2
  Producer <- Producers
  Consumer <- Consumers
  Rounds = 3
  Nobody = Nobody
  Interrupter <- Interrupters
  Cond <- Conds
  cv1 = cv1
  cv2 = cv2
  NoCond = NoCond
  high = high
  low = low
  Locker <- Lockers
  Mutex <- MutexSet
  Level <- Levels
  ULongMax = 15
  UIntMod = 8
  Workers = 2
  MaxLength = 9
  BlockSize = 2
  Element <- Elements
  Inputs <- Ranges
  Task <- Tasks
  Submits <- Chain
  NoTask = NoTask
INVARIANTS
  NoUseAfterFree
  HandedOver
  SumOrException
  RangeOutlivesTasks
  LevelIsLast
  NoCircularWait
PROPERTIES
  RunsTasks
  DestructionEnds
  FuturesResolve
  AllRoundsEnd
  InterruptEndsWait
  CallEnds
  LocksReturn
\* The behaviour ends when the pool is gone, the call has returned, or every thread has ended.
CHECK_DEADLOCK FALSE
