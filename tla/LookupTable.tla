----------------------------- MODULE LookupTable -----------------------------
(***************************************************************************)
(* The lookup tables of chapter_6.h (thread_safe_lookup_table) and         *)
(* t_hash_table.h (lookup_table): a fixed vector of buckets, each a list   *)
(* of mappings under a shared_mutex.  An operation on a key locks its      *)
(* bucket, shared to read and exclusive to write; get_map locks every      *)
(* bucket, in order, before it copies any.  The two tables differ in       *)
(* remove_mapping, whose test chapter_6.h inverts: the constant            *)
(* RemovesWhenFound tells them apart.                                      *)
(***************************************************************************)
EXTENDS Naturals, Sequences, FiniteSets, SequencesExt

CONSTANTS
  Thread, Key, Value, Calls, Absent,   \* as in KeyMap
  Buckets,           \* buckets.size(), 19 by default
  Hash,              \* Hash[k]: hasher(k)
  RemovesWhenFound,  \* TRUE: t_hash_table.h.  FALSE: chapter_6.h
  NoThread           \* the owner of a mutex that no one holds exclusively

Bucket == 0..(Buckets - 1)
KeyOps == {"value_for", "add_or_update_mapping", "remove_mapping"}
Ops    == KeyOps \cup {"get_map"}

ASSUME TableAssumption ==
  /\ Buckets \in Nat \ {0}
  /\ Hash \in [Key -> Nat]
  /\ Absent \notin Key \cup Value
  /\ NoThread \notin Thread
  /\ Calls \in [Thread -> SUBSET Ops]
  /\ RemovesWhenFound \in BOOLEAN

VARIABLES
  data,             \* data[b]: the list of mappings of bucket b
  writer, readers,  \* the exclusive owner and the shared owners of its mutex
  corrupt,          \* list::erase(end()) has been called: undefined behaviour
  pc, op,           \* each thread's position, and the call it is in
  key, val,         \* its arguments, then the value found or the map built
  found,            \* found_entry: a position of the list, 0 for end()
  bucket            \* the loop variable of get_map, or the bucket of its key

table == <<data, writer, readers, corrupt>>
local == <<op, key, val, found, bucket>>
vars  == <<table, pc, local>>

Goto(t, l) == pc' = [pc EXCEPT ![t] = l]

BucketOf(k) == Hash[k] % Buckets

\* find_entry_for: the first mapping of k in the list of bucket b, or end().
FirstOf(list, k) == SelectInSeq(list, LAMBDA m : m.key = k)
Entry(b, k) == FirstOf(data[b], k)

NoMappings == [k \in Key |-> Absent]

Init ==
  /\ data = [b \in Bucket |-> <<>>]
  /\ writer = [b \in Bucket |-> NoThread]
  /\ readers = [b \in Bucket |-> {}]
  /\ corrupt = FALSE
  /\ pc = [t \in Thread |-> "idle"]
  /\ op = [t \in Thread |-> "none"]
  /\ key = [t \in Thread |-> Absent]
  /\ val = [t \in Thread |-> Absent]
  /\ found = [t \in Thread |-> 0]
  /\ bucket = [t \in Thread |-> 0]

Return(t) ==
  /\ Goto(t, "idle")
  /\ op' = [op EXCEPT ![t] = "none"]
  /\ key' = [key EXCEPT ![t] = Absent]
  /\ val' = [val EXCEPT ![t] = Absent]
  /\ found' = [found EXCEPT ![t] = 0]
  /\ bucket' = [bucket EXCEPT ![t] = 0]
-----------------------------------------------------------------------------
(* The operations on one key *)

CallKeyOp(t, o, k, v) ==
  /\ pc[t] = "idle"
  /\ o \in Calls[t] \cap KeyOps
  /\ o = "add_or_update_mapping" <=> v # Absent
  /\ op' = [op EXCEPT ![t] = o]
  /\ key' = [key EXCEPT ![t] = k]
  /\ val' = [val EXCEPT ![t] = v]
  /\ bucket' = [bucket EXCEPT ![t] = BucketOf(k)]
  /\ Goto(t, "lock")
  /\ UNCHANGED <<table, found>>

\* value_for locks its bucket shared.
LockShared(t) ==
  /\ pc[t] = "lock"
  /\ op[t] = "value_for"
  /\ writer[bucket[t]] = NoThread
  /\ readers' = [readers EXCEPT ![bucket[t]] = @ \cup {t}]
  /\ Goto(t, "find")
  /\ UNCHANGED <<data, writer, corrupt, local>>

\* Mutant: the writers lock shared too.
LocksShared(t) ==
  /\ pc[t] = "lock"
  /\ op[t] \in {"add_or_update_mapping", "remove_mapping"}
  /\ writer[bucket[t]] = NoThread
  /\ readers' = [readers EXCEPT ![bucket[t]] = @ \cup {t}]
  /\ Goto(t, "find")
  /\ UNCHANGED <<data, writer, corrupt, local>>

\* The other operations lock it exclusively.
LockExclusive(t) ==
  /\ pc[t] = "lock"
  /\ op[t] \in {"add_or_update_mapping", "remove_mapping"}
  /\ writer[bucket[t]] = NoThread
  /\ readers[bucket[t]] = {}
  /\ writer' = [writer EXCEPT ![bucket[t]] = t]
  /\ Goto(t, "find")
  /\ UNCHANGED <<data, readers, corrupt, local>>

FindEntry(t) ==
  /\ pc[t] = "find"
  /\ found' = [found EXCEPT ![t] = Entry(bucket[t], key[t])]
  /\ Goto(t, "use")
  /\ UNCHANGED <<table, op, key, val, bucket>>

\* The value found, or the default of the caller.
ReadValue(t) ==
  /\ pc[t] = "use"
  /\ op[t] = "value_for"
  /\ val' = [val EXCEPT ![t] =
       IF found[t] = 0 THEN Absent ELSE data[bucket[t]][found[t]].val]
  /\ Goto(t, "unlock")
  /\ UNCHANGED <<table, op, key, found, bucket>>

\* data.push_back for a new key, an assignment for one that is mapped.
WriteMapping(t) ==
  /\ pc[t] = "use"
  /\ op[t] = "add_or_update_mapping"
  /\ LET b == bucket[t]
         m == [key |-> key[t], val |-> val[t]]
     IN  data' = [data EXCEPT ![b] =
           IF found[t] = 0 THEN Append(@, m) ELSE [@ EXCEPT ![found[t]] = m]]
  /\ Goto(t, "unlock")
  /\ UNCHANGED <<writer, readers, corrupt, local>>

\* Mutant: the test of chapter_6.h:241 in the table of t_hash_table.h.
ErasesWhenMissing(t) ==
  /\ pc[t] = "use"
  /\ op[t] = "remove_mapping"
  /\ corrupt' = (corrupt \/ found[t] = 0)
  /\ Goto(t, "unlock")
  /\ UNCHANGED <<data, writer, readers, local>>

\* data.erase(found_entry), when the test says so.
EraseMapping(t) ==
  /\ pc[t] = "use"
  /\ op[t] = "remove_mapping"
  /\ LET b == bucket[t]
         erases == RemovesWhenFound <=> found[t] # 0
     IN  /\ data' = IF erases /\ found[t] # 0
                      THEN [data EXCEPT ![b] = RemoveAt(@, found[t])] ELSE data
         /\ corrupt' = (corrupt \/ (erases /\ found[t] = 0))
  /\ Goto(t, "unlock")
  /\ UNCHANGED <<writer, readers, local>>

\* The lock is released as the call returns.
UnlockBucket(t) ==
  /\ pc[t] = "unlock"
  /\ op[t] \in KeyOps
  /\ IF op[t] = "value_for"
       THEN /\ readers' = [readers EXCEPT ![bucket[t]] = @ \ {t}]
            /\ UNCHANGED writer
       ELSE /\ writer' = [writer EXCEPT ![bucket[t]] = NoThread]
            /\ UNCHANGED readers
  /\ Return(t)
  /\ UNCHANGED <<data, corrupt>>
-----------------------------------------------------------------------------
(* get_map *)

CallGetMap(t) ==
  /\ pc[t] = "idle"
  /\ "get_map" \in Calls[t]
  /\ op' = [op EXCEPT ![t] = "get_map"]
  /\ Goto(t, "lock_all")
  /\ UNCHANGED <<table, key, val, found, bucket>>

\* The buckets are locked exclusively, in the order of their index.
LockNext(t) ==
  /\ pc[t] = "lock_all"
  /\ writer[bucket[t]] = NoThread
  /\ readers[bucket[t]] = {}
  /\ writer' = [writer EXCEPT ![bucket[t]] = t]
  /\ IF bucket[t] < Buckets - 1
       THEN /\ bucket' = [bucket EXCEPT ![t] = @ + 1]
            /\ UNCHANGED <<pc, val>>
       ELSE /\ bucket' = [bucket EXCEPT ![t] = 0]
            /\ val' = [val EXCEPT ![t] = NoMappings]
            /\ Goto(t, "copy")
  /\ UNCHANGED <<data, readers, corrupt, op, key, found>>

\* Mutant: a bucket is unlocked as soon as it is copied.
CopiesAndUnlocks(t) ==
  /\ pc[t] = "copy"
  /\ val' = [val EXCEPT ![t] = [k \in Key |->
       LET e == Entry(bucket[t], k)
       IN  IF @[k] = Absent /\ e # 0 THEN data[bucket[t]][e].val ELSE @[k]]]
  /\ writer' = [writer EXCEPT ![bucket[t]] = NoThread]
  /\ IF bucket[t] < Buckets - 1
       THEN bucket' = [bucket EXCEPT ![t] = @ + 1] /\ UNCHANGED pc
       ELSE UNCHANGED bucket /\ Goto(t, "unlock")
  /\ UNCHANGED <<data, readers, corrupt, op, key, found>>

\* res.insert leaves a key that res already has alone.
CopyBucket(t) ==
  /\ pc[t] = "copy"
  /\ val' = [val EXCEPT ![t] = [k \in Key |->
       LET e == Entry(bucket[t], k)
       IN  IF @[k] = Absent /\ e # 0 THEN data[bucket[t]][e].val ELSE @[k]]]
  /\ IF bucket[t] < Buckets - 1
       THEN bucket' = [bucket EXCEPT ![t] = @ + 1] /\ UNCHANGED pc
       ELSE UNCHANGED bucket /\ Goto(t, "unlock")
  /\ UNCHANGED <<table, op, key, found>>

HeldBy(t) == {b \in Bucket : writer[b] = t}

\* Mutant: one bucket stays locked.
KeepsOneBucket(t) ==
  /\ pc[t] = "unlock"
  /\ op[t] = "get_map"
  /\ \E b \in HeldBy(t) :
       /\ writer' = [writer EXCEPT ![b] = NoThread]
       /\ IF Cardinality(HeldBy(t)) = 2 THEN Return(t) ELSE UNCHANGED <<pc, local>>
  /\ UNCHANGED <<data, readers, corrupt>>

\* The vector of locks is destroyed, one lock after the other.
UnlockOne(t) ==
  /\ pc[t] = "unlock"
  /\ op[t] = "get_map"
  /\ \E b \in HeldBy(t) :
       /\ writer' = [writer EXCEPT ![b] = NoThread]
       /\ IF HeldBy(t) = {b} THEN Return(t) ELSE UNCHANGED <<pc, local>>
  /\ UNCHANGED <<data, readers, corrupt>>
-----------------------------------------------------------------------------
Proceed(t) ==
  \/ LockShared(t) \/ LockExclusive(t) \/ FindEntry(t) \/ ReadValue(t)
  \/ WriteMapping(t) \/ EraseMapping(t) \/ UnlockBucket(t)
  \/ LockNext(t) \/ CopyBucket(t) \/ UnlockOne(t)

Next ==
  \E t \in Thread :
    \/ \E o \in KeyOps, k \in Key, v \in Value \cup {Absent} : CallKeyOp(t, o, k, v)
    \/ CallGetMap(t)
    \/ Proceed(t)

Spec == Init /\ [][Next]_vars

\* A call in progress goes on running, and a thread that keeps asking for a
\* mutex that is released again and again gets it in the end.
Fairness == \A t \in Thread : SF_vars(Proceed(t))

FairSpec == Spec /\ Fairness
-----------------------------------------------------------------------------
\* A key has one mapping at most, in the bucket of its hash value: racing
\* calls of add_or_update_mapping never both append (chapter_6.h:228-236).
OneMappingPerKey ==
  \A b \in Bucket : \A i, j \in 1..Len(data[b]) :
    /\ BucketOf(data[b][i].key) = b
    /\ data[b][i].key = data[b][j].key => i = j

\* The mappings in the table.
Mappings ==
  [k \in Key |-> LET e == Entry(BucketOf(k), k)
                 IN  IF e = 0 THEN Absent ELSE data[BucketOf(k)][e].val]

\* A call takes effect when it reads or writes its entry; get_map when it
\* has locked the last bucket, which fixes what it will have copied.
Stage(t) ==
  CASE pc[t] = "idle"                 -> "idle"
    [] pc[t] \in {"unlock", "copy"}   -> "done"
    [] OTHER                          -> "open"

Outcome(t) == IF pc[t] = "copy" THEN Mappings ELSE val[t]

Map == INSTANCE KeyMap WITH
  map <- Mappings,
  call <- [t \in Thread |->
    [stage |-> Stage(t), op |-> op[t], key |-> key[t], val |-> Outcome(t)]]

\* Every call takes effect at one instant on a map, and get_map returns what
\* the whole table held at one instant (chapter_6.h:285-287).
Linearizable == Map!Spec

\* Every call returns: locking the buckets in order, get_map cannot reach a
\* deadlock with another get_map or with the writers (chapter_6.h:287).
CallsReturn == \A t \in Thread : (pc[t] # "idle") ~> (pc[t] = "idle")

\* remove_mapping leaves no mapping of its key behind when it returns: there
\* was one at most, and no other call has added one since it looked
\* (t_hash_table.h:47-54; chapter_6.h:241 inverts the test).
RemoveErases ==
  \A t \in Thread :
    pc[t] = "unlock" /\ op[t] = "remove_mapping" => Entry(bucket[t], key[t]) = 0
=============================================================================
