\* lookup_table of t_hash_table.h: safety, linearizability and liveness.
SPECIFICATION FairSpec
CONSTANTS
  t1 = t1
  t2 = t2
  k1 = k1
  k2 = k2
  k3 = k3
  v1 = v1
  v2 = v2
  Thread <- Threads
  Key <- Keys
  Value <- Values
  Calls <- AllCalls
  Absent = Absent
  Buckets = 2
  Hash <- HashValues
  RemovesWhenFound = TRUE
  NoThread = NoThread
INVARIANTS
  OneMappingPerKey
  RemoveErases
PROPERTIES
  Linearizable
  CallsReturn
