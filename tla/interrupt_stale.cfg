\* interrupt() notifies a condition variable that its owner has destroyed.
SPECIFICATION WaitersSpec
CONSTANTS
  p1 = p1
  p2 = p2
  c1 = c1
  c2 = c2
  Producer <- Producers
  Consumer <- Consumers
  Rounds = 3
  Nobody = Nobody
  Interrupter <- Interrupters
  Cond <- Conds
  cv1 = cv1
  cv2 = cv2
  NoCond = NoCond
  high = high
  low = low
  Locker <- Lockers
  Mutex <- MutexSet
  Level <- Levels
  ULongMax = 15
  UIntMod = 8
  Workers = 2
  MaxLength = 0
  BlockSize = 2
  Element <- Elements
  Inputs <- Ranges
  Task <- Tasks
  Submits <- Chain
  NoTask = NoTask
INVARIANT NotifiesExisting
\* The behaviour ends when the pool is gone, or every thread has ended.
CHECK_DEADLOCK FALSE
