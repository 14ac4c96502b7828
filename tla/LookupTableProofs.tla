------------------------- MODULE LookupTableProofs -------------------------
(***************************************************************************)
(* A lookup table keeps one mapping per key, and the one of t_hash_table.h *)
(* keeps none of a key that is removed and implements KeyMap, snapshots of *)
(* the whole table included: proofs for any threads, keys, values, hash    *)
(* function and number of buckets.                                         *)
(***************************************************************************)
EXTENDS LookupTable, WellFoundedInduction, SequenceTheorems, TLAPS

Mapping == [key : Key, val : Value]

\* A set of positions that is not empty has a first one.
LEMMA FirstPosition ==
  ASSUME NEW I \in SUBSET Nat, I # {}
  PROVE  Min(I) \in I /\ \A i \in I : Min(I) <= i
<1> DEFINE R == {p \in Nat \X Nat : p[1] < p[2]}
<1>1. IsWellFoundedOn(R, Nat)
  BY NatLessThanWellFounded, Zenon DEF OpToRel
<1>2. PICK m \in I : \A i \in I : ~ (<<i, m>> \in R)
  <2> HIDE DEF R
  <2> QED
    BY <1>1, WFMin
<1>3. \A i \in I : m <= i
  <2> SUFFICES ASSUME NEW i \in I, i < m
               PROVE  FALSE
    OBVIOUS
  <2>1. <<i, m>> \in Nat \X Nat /\ <<i, m>>[1] < <<i, m>>[2]
    OBVIOUS
  <2>2. <<i, m>> \in R
    BY <2>1, Zenon
  <2> QED
    BY <1>2, <2>2
<1> QED
  BY <1>3 DEF Min

\* What find_entry_for finds.
LEMMA Find ==
  ASSUME NEW s \in Seq(Mapping), NEW k
  PROVE  /\ FirstOf(s, k) \in 0..Len(s)
         /\ FirstOf(s, k) # 0 => s[FirstOf(s, k)].key = k
         /\ FirstOf(s, k) = 0 => \A i \in 1..Len(s) : s[i].key # k
<1> DEFINE I == {i \in 1..Len(s) : s[i].key = k}
<1>1. FirstOf(s, k) = IF I # {} THEN Min(I) ELSE 0
  BY DEF FirstOf, SelectInSeq
<1>2. I \in SUBSET Nat
  OBVIOUS
<1>3. I # {} => Min(I) \in I
  BY <1>2, FirstPosition
<1> QED
  BY <1>1, <1>3
\* The mappings of a list have different keys.
Distinct(s) == \A i, j \in 1..Len(s) : s[i].key = s[j].key => i = j

\* The value a list gives to a key.
ValueIn(s, k) == IF FirstOf(s, k) = 0 THEN Absent ELSE s[FirstOf(s, k)].val

\* With different keys there is one place to find.
LEMMA OnePlace ==
  ASSUME NEW s \in Seq(Mapping), Distinct(s), NEW i \in 1..Len(s)
  PROVE  FirstOf(s, s[i].key) = i
<1>1. Len(s) \in Nat
  OBVIOUS
<1> QED
  BY <1>1, Find DEF Distinct

\* A mapping of a new key is appended.
LEMMA AppendMapping ==
  ASSUME NEW s \in Seq(Mapping), Distinct(s), NEW m \in Mapping, FirstOf(s, m.key) = 0
  PROVE  /\ Append(s, m) \in Seq(Mapping)
         /\ Distinct(Append(s, m))
         /\ \A i \in 1..Len(Append(s, m)) : Append(s, m)[i] = m
              \/ \E j \in 1..Len(s) : Append(s, m)[i] = s[j]
         /\ \A k : ValueIn(Append(s, m), k) = IF k = m.key THEN m.val ELSE ValueIn(s, k)
<1> DEFINE u == Append(s, m)
<1>1. /\ u \in Seq(Mapping) /\ Len(s) \in Nat /\ Len(u) = Len(s) + 1
      /\ \A i \in 1..Len(s) : u[i] = s[i]
      /\ u[Len(s) + 1] = m
  OBVIOUS
<1>2. \A i \in 1..Len(s) : s[i].key # m.key
  BY Find
<1> HIDE DEF u
<1>3. Distinct(u)
  BY <1>1, <1>2 DEF Distinct
<1>4. ASSUME NEW k
      PROVE  ValueIn(u, k) = IF k = m.key THEN m.val ELSE ValueIn(s, k)
  <2>1. CASE k = m.key
    <3>1. FirstOf(u, k) = Len(s) + 1
      BY <1>1, <1>3, <2>1, OnePlace
    <3> QED
      BY <1>1, <2>1, <3>1 DEF ValueIn
  <2>2. CASE k # m.key
    <3>1. CASE FirstOf(s, k) = 0
      <4>1. \A i \in 1..Len(u) : u[i].key # k
        BY <1>1, <2>2, <3>1, Find
      <4>2. FirstOf(u, k) = 0
        BY <1>1, <4>1, Find
      <4> QED
        BY <2>2, <3>1, <4>2 DEF ValueIn
    <3>2. CASE FirstOf(s, k) # 0
      <4> DEFINE e == FirstOf(s, k)
      <4>1. e \in 1..Len(s) /\ s[e].key = k
        BY <1>1, <3>2, Find
      <4>2. e \in 1..Len(u) /\ u[e] = s[e]
        BY <1>1, <4>1
      <4>3. FirstOf(u, k) = e
        <5> HIDE DEF e
        <5> QED
          BY <1>1, <1>3, <4>1, <4>2, OnePlace
      <4> QED
        BY <2>2, <3>2, <4>1, <4>2, <4>3 DEF ValueIn
    <3> QED
      BY <3>1, <3>2
  <2> QED
    BY <2>1, <2>2
<1> QED
  BY <1>1, <1>3, <1>4 DEF u

\* The mapping of a key is replaced.
LEMMA UpdateMapping ==
  ASSUME NEW s \in Seq(Mapping), Distinct(s), NEW m \in Mapping,
         NEW e, e = FirstOf(s, m.key), e # 0,
         NEW u \in Seq(Mapping), Len(u) = Len(s), u[e] = m,
         \A i \in 1..Len(s) : i # e => u[i] = s[i]
  PROVE  /\ Distinct(u)
         /\ \A i \in 1..Len(u) : i \in 1..Len(s) /\ u[i].key = s[i].key
         /\ \A k : ValueIn(u, k) = IF k = m.key THEN m.val ELSE ValueIn(s, k)
<1>1. /\ Len(s) \in Nat /\ e \in 1..Len(s) /\ s[e].key = m.key
  BY Find
<1>2. /\ u \in Seq(Mapping) /\ Len(u) = Len(s) /\ u[e] = m
      /\ \A i \in 1..Len(s) : i # e => u[i] = s[i]
  OBVIOUS
<1>3. \A i \in 1..Len(s) : u[i].key = s[i].key
  BY <1>1, <1>2
<1>4. Distinct(u)
  BY <1>2, <1>3 DEF Distinct
<1>5. ASSUME NEW k
      PROVE  ValueIn(u, k) = IF k = m.key THEN m.val ELSE ValueIn(s, k)
  <2>1. CASE FirstOf(s, k) = 0
    <3>1. \A i \in 1..Len(u) : u[i].key # k
      BY <1>2, <1>3, <2>1, Find
    <3>2. FirstOf(u, k) = 0
      BY <1>2, <3>1, Find
    <3>3. k # m.key
      BY <2>1
    <3> QED
      BY <2>1, <3>2, <3>3 DEF ValueIn
  <2>2. CASE FirstOf(s, k) # 0
    <3> DEFINE f == FirstOf(s, k)
    <3>1. f \in 1..Len(s) /\ s[f].key = k
      BY <1>1, <2>2, Find
    <3>2. FirstOf(u, k) = f
      <4> HIDE DEF f
      <4> QED
        BY <1>2, <1>3, <1>4, <3>1, OnePlace
    <3>3. k = m.key <=> f = e
      BY <1>1, <3>1 DEF Distinct
    <3> QED
      BY <1>1, <1>2, <2>2, <3>1, <3>2, <3>3 DEF ValueIn
  <2> QED
    BY <2>1, <2>2
<1> QED
  BY <1>2, <1>3, <1>4, <1>5

\* The mapping of a key is erased.
LEMMA RemoveMapping ==
  ASSUME NEW s \in Seq(Mapping), Distinct(s), NEW x,
         NEW e, e = FirstOf(s, x), e # 0
  PROVE  /\ RemoveAt(s, e) \in Seq(Mapping)
         /\ Distinct(RemoveAt(s, e))
         /\ \A i \in 1..Len(RemoveAt(s, e)) : \E j \in 1..Len(s) : RemoveAt(s, e)[i] = s[j]
         /\ \A k : ValueIn(RemoveAt(s, e), k) = IF k = x THEN Absent ELSE ValueIn(s, k)
<1> DEFINE u == RemoveAt(s, e)
           Old(i) == IF i < e THEN i ELSE i + 1
<1>1. Len(s) \in Nat /\ e \in 1..Len(s) /\ s[e].key = x
  BY Find
<1>2. /\ u \in Seq(Mapping) /\ Len(u) = Len(s) - 1
      /\ \A i \in 1..Len(u) : u[i] = s[Old(i)]
  <2>1. /\ SubSeq(s, 1, e - 1) \in Seq(Mapping) /\ Len(SubSeq(s, 1, e - 1)) = e - 1
        /\ \A i \in 1..(e - 1) : SubSeq(s, 1, e - 1)[i] = s[i]
    BY <1>1
  <2>2. /\ SubSeq(s, e + 1, Len(s)) \in Seq(Mapping)
        /\ Len(SubSeq(s, e + 1, Len(s))) = Len(s) - e
        /\ \A i \in 1..(Len(s) - e) : SubSeq(s, e + 1, Len(s))[i] = s[e + i]
    BY <1>1
  <2> DEFINE a == SubSeq(s, 1, e - 1)
             b == SubSeq(s, e + 1, Len(s))
  <2>3. u = a \o b
    BY DEF RemoveAt
  <2>4. /\ a \in Seq(Mapping) /\ Len(a) = e - 1
        /\ \A i \in 1..(e - 1) : a[i] = s[i]
        /\ b \in Seq(Mapping) /\ Len(b) = Len(s) - e
        /\ \A i \in 1..(Len(s) - e) : b[i] = s[e + i]
    BY <2>1, <2>2
  <2> HIDE DEF a, b
  <2>5. /\ a \o b \in Seq(Mapping) /\ Len(a \o b) = Len(a) + Len(b)
        /\ \A i \in 1..(Len(a) + Len(b)) :
             (a \o b)[i] = IF i <= Len(a) THEN a[i] ELSE b[i - Len(a)]
    BY <2>4, ConcatProperties
  <2> HIDE DEF u
  <2>6. u \in Seq(Mapping) /\ Len(u) = Len(s) - 1
    BY <1>1, <2>3, <2>4, <2>5
  <2>7. ASSUME NEW i \in 1..Len(u)
        PROVE  u[i] = s[Old(i)]
    <3>1. CASE i < e
      BY <1>1, <2>3, <2>4, <2>5, <2>6, <3>1
    <3>2. CASE ~ (i < e)
      <4>1. i - (e - 1) \in 1..(Len(s) - e)
        BY <1>1, <2>6, <3>2
      <4>2. u[i] = b[i - (e - 1)]
        <5>1. i \in 1..(Len(a) + Len(b)) /\ ~ (i <= Len(a)) /\ Len(a) = e - 1
          BY <1>1, <2>4, <2>6, <3>2
        <5> QED
          BY <2>3, <2>5, <5>1
      <4>3. b[i - (e - 1)] = s[e + (i - (e - 1))]
        BY <2>4, <4>1
      <4> QED
        BY <1>1, <3>2, <4>2, <4>3
    <3> QED
      BY <3>1, <3>2
  <2> QED
    BY <2>6, <2>7
<1> HIDE DEF u
<1>3. \A i \in 1..Len(u) : Old(i) \in 1..Len(s) /\ Old(i) # e
  BY <1>1, <1>2
<1>4. \A i, j \in 1..Len(u) : Old(i) = Old(j) => i = j
  BY <1>1, <1>2
<1>5. \A j \in 1..Len(s) : j # e => \E i \in 1..Len(u) : Old(i) = j
  <2> SUFFICES ASSUME NEW j \in 1..Len(s), j # e
               PROVE  \E i \in 1..Len(u) : Old(i) = j
    OBVIOUS
  <2>1. CASE j < e
    BY <1>1, <1>2, <2>1
  <2>2. CASE j > e
    <3>1. j - 1 \in 1..Len(u) /\ Old(j - 1) = j
      BY <1>1, <1>2, <2>2
    <3> QED
      BY <3>1
  <2> QED
    BY <1>1, <2>1, <2>2
<1> HIDE DEF Old
<1>6. Distinct(u)
  BY <1>2, <1>3, <1>4 DEF Distinct
<1>7. ASSUME NEW k
      PROVE  ValueIn(u, k) = IF k = x THEN Absent ELSE ValueIn(s, k)
  <2>1. CASE k = x
    <3>1. \A i \in 1..Len(u) : u[i].key # k
      BY <1>1, <1>2, <1>3, <2>1 DEF Distinct
    <3>2. FirstOf(u, k) = 0
      BY <1>2, <3>1, Find
    <3> QED
      BY <2>1, <3>2 DEF ValueIn
  <2>2. CASE k # x /\ FirstOf(s, k) = 0
    <3>1. \A i \in 1..Len(u) : u[i].key # k
      BY <1>2, <1>3, <2>2, Find
    <3>2. FirstOf(u, k) = 0
      BY <1>2, <3>1, Find
    <3> QED
      BY <2>2, <3>2 DEF ValueIn
  <2>3. CASE k # x /\ FirstOf(s, k) # 0
    <3>1. PICK f \in 1..Len(s) : f = FirstOf(s, k) /\ s[f].key = k
      BY <1>1, <2>3, Find
    <3>2. f # e
      BY <1>1, <2>3, <3>1
    <3>3. PICK i \in 1..Len(u) : Old(i) = f
      BY <1>5, <3>2
    <3>4. u[i] = s[f]
      BY <1>2, <3>3
    <3>5. FirstOf(u, k) = i
      BY <1>2, <1>6, <3>1, <3>4, OnePlace
    <3>6. i # 0 /\ f # 0
      OBVIOUS
    <3> QED
      BY <2>3, <3>1, <3>4, <3>5, <3>6 DEF ValueIn
  <2> QED
    BY <2>1, <2>2, <2>3
<1>8. \A i \in 1..Len(u) : \E j \in 1..Len(s) : u[i] = s[j]
  BY <1>2, <1>3
<1> QED
  BY <1>2, <1>6, <1>7, <1>8 DEF u
-----------------------------------------------------------------------------
(* The inductive invariant *)

Positions == {"idle", "lock", "find", "use", "unlock", "lock_all", "copy"}

\* Every variable keeps its type.
TypeOK ==
  /\ data \in [Bucket -> Seq(Mapping)]
  /\ writer \in [Bucket -> Thread \cup {NoThread}]
  /\ readers \in [Bucket -> SUBSET Thread]
  /\ corrupt \in BOOLEAN
  /\ pc \in [Thread -> Positions]
  /\ op \in [Thread -> Ops \cup {"none"}]
  /\ key \in [Thread -> Key \cup {Absent}]
  /\ val \in [Thread -> Value \cup {Absent} \cup [Key -> Value \cup {Absent}]]
  /\ found \in [Thread -> Nat]
  /\ bucket \in [Thread -> Bucket]

\* What each thread has been called with.
CallInv ==
  \A t \in Thread :
    /\ pc[t] = "idle" => op[t] = "none" /\ key[t] = Absent /\ val[t] = Absent /\ bucket[t] = 0
    /\ pc[t] # "idle" => op[t] \in Ops
    /\ op[t] = "get_map" => pc[t] \in {"lock_all", "copy", "unlock"} /\ key[t] = Absent
    /\ op[t] \in KeyOps => pc[t] \in {"lock", "find", "use", "unlock"}
    /\ pc[t] \in {"lock", "find", "use"} =>
         /\ key[t] \in Key /\ bucket[t] = BucketOf(key[t])
         /\ op[t] = "add_or_update_mapping" => val[t] \in Value
         /\ op[t] # "add_or_update_mapping" => val[t] = Absent
    /\ pc[t] = "lock_all" => val[t] = Absent

\* A bucket is held by one writer or by readers; who holds it knows so.
LockInv ==
  /\ \A b \in Bucket : writer[b] # NoThread => readers[b] = {}
  /\ \A t \in Thread :
       /\ pc[t] \in {"find", "use", "unlock"} /\ op[t] = "value_for" => t \in readers[bucket[t]]
       /\ pc[t] \in {"find", "use", "unlock"}
            /\ op[t] \in {"add_or_update_mapping", "remove_mapping"}
            => writer[bucket[t]] = t
       /\ pc[t] = "lock_all" => \A b \in Bucket : b < bucket[t] => writer[b] = t
       /\ pc[t] = "copy" => \A b \in Bucket : writer[b] = t

\* The entry that was found is still the one of the key when it is used.
FoundInv ==
  \A t \in Thread : pc[t] = "use" => found[t] = Entry(bucket[t], key[t])

\* get_map has copied the buckets before the current one.
CopyInv ==
  \A t \in Thread : pc[t] = "copy" =>
    val[t] = [k \in Key |-> IF BucketOf(k) < bucket[t] THEN Mappings[k] ELSE Absent]

IInv == TypeOK /\ CallInv /\ LockInv /\ OneMappingPerKey /\ FoundInv /\ CopyInv
-----------------------------------------------------------------------------
(* What the steps do to the table *)

\* Every key has a bucket.
LEMMA BucketFacts ==
  /\ 0 \in Bucket /\ Bucket \subseteq Nat /\ Buckets \in Nat \ {0}
  /\ \A k \in Key : BucketOf(k) \in Bucket
<1>1. \A n \in Nat : n % Buckets \in 0..(Buckets - 1)
  BY TableAssumption
<1> QED
  BY <1>1, TableAssumption DEF Bucket, BucketOf

\* OneMappingPerKey, list by list; and the table as a map.
LEMMA Lists ==
  /\ OneMappingPerKey <=>
       \A b \in Bucket : /\ Distinct(data[b])
                         /\ \A i \in 1..Len(data[b]) : BucketOf(data[b][i].key) = b
  /\ Mappings = [k \in Key |-> ValueIn(data[BucketOf(k)], k)]
BY DEF OneMappingPerKey, Distinct, Mappings, ValueIn, Entry

\* The thread that is about to write knows its bucket and what it has found.
LEMMA Writer ==
  ASSUME IInv, NEW t \in Thread, pc[t] = "use",
         op[t] \in {"add_or_update_mapping", "remove_mapping"}
  PROVE  /\ key[t] \in Key /\ bucket[t] \in Bucket /\ bucket[t] = BucketOf(key[t])
         /\ writer[bucket[t]] = t
         /\ found[t] = FirstOf(data[bucket[t]], key[t])
         /\ data[bucket[t]] \in Seq(Mapping) /\ Distinct(data[bucket[t]])
         /\ \A i \in 1..Len(data[bucket[t]]) : BucketOf(data[bucket[t]][i].key) = bucket[t]
BY Lists DEF IInv, TypeOK, CallInv, LockInv, FoundInv, Entry

\* add_or_update_mapping gives its key its value, and no other key another.
LEMMA WriteFacts ==
  ASSUME IInv, NEW t \in Thread, WriteMapping(t)
  PROVE  /\ data' \in [Bucket -> Seq(Mapping)]
         /\ \A c \in Bucket : c # bucket[t] => data'[c] = data[c]
         /\ OneMappingPerKey'
         /\ Mappings' = [Mappings EXCEPT ![key[t]] = val[t]]
<1> DEFINE b == bucket[t]
           s == data[b]
           m == [key |-> key[t], val |-> val[t]]
           u == IF found[t] = 0 THEN Append(s, m) ELSE [s EXCEPT ![found[t]] = m]
<1>1. pc[t] = "use" /\ op[t] = "add_or_update_mapping"
  BY DEF WriteMapping
<1>2. /\ key[t] \in Key /\ b \in Bucket /\ b = BucketOf(key[t])
      /\ found[t] = FirstOf(s, key[t])
      /\ s \in Seq(Mapping) /\ Distinct(s)
      /\ \A i \in 1..Len(s) : BucketOf(s[i].key) = b
  BY <1>1, Writer
<1>3. m \in Mapping /\ m.key = key[t] /\ m.val = val[t]
  BY <1>1, <1>2 DEF IInv, CallInv, Mapping
<1>4. data' = [data EXCEPT ![b] = u] /\ data \in [Bucket -> Seq(Mapping)]
  BY <1>2 DEF WriteMapping, IInv, TypeOK
<1> HIDE DEF m, s, b
<1>5. /\ u \in Seq(Mapping) /\ Distinct(u)
      /\ \A i \in 1..Len(u) : BucketOf(u[i].key) = b
      /\ \A k : ValueIn(u, k) = IF k = key[t] THEN val[t] ELSE ValueIn(s, k)
  <2>1. CASE found[t] = 0
    <3>1. u = Append(s, m)
      BY <2>1
    <3> HIDE DEF u
    <3>2. FirstOf(s, m.key) = 0
      BY <1>2, <1>3, <2>1
    <3>3. /\ u \in Seq(Mapping) /\ Distinct(u)
          /\ \A i \in 1..Len(u) : u[i] = m \/ \E j \in 1..Len(s) : u[i] = s[j]
          /\ \A k : ValueIn(u, k) = IF k = m.key THEN m.val ELSE ValueIn(s, k)
      BY <1>2, <1>3, <3>1, <3>2, AppendMapping
    <3>4. \A i \in 1..Len(u) : BucketOf(u[i].key) = b
      BY <1>2, <1>3, <3>3
    <3> QED
      BY <1>3, <3>3, <3>4
  <2>2. CASE found[t] # 0
    <3>1. u = [s EXCEPT ![found[t]] = m]
      BY <2>2
    <3> HIDE DEF u
    <3>2. found[t] = FirstOf(s, m.key) /\ found[t] \in 1..Len(s)
      BY <1>2, <1>3, <2>2, Find
    <3>3. /\ u \in Seq(Mapping) /\ Len(u) = Len(s) /\ u[found[t]] = m
          /\ \A i \in 1..Len(s) : i # found[t] => u[i] = s[i]
      BY <1>2, <1>3, <3>1, <3>2
    <3>4. /\ Distinct(u)
          /\ \A i \in 1..Len(u) : i \in 1..Len(s) /\ u[i].key = s[i].key
          /\ \A k : ValueIn(u, k) = IF k = m.key THEN m.val ELSE ValueIn(s, k)
      BY <1>2, <1>3, <2>2, <3>2, <3>3, UpdateMapping
    <3>5. \A i \in 1..Len(u) : BucketOf(u[i].key) = b
      BY <1>2, <3>4
    <3> QED
      BY <1>3, <3>3, <3>4, <3>5
  <2> QED
    BY <2>1, <2>2
<1> HIDE DEF u
<1>6. data' \in [Bucket -> Seq(Mapping)] /\ data'[b] = u
        /\ \A c \in Bucket : c # b => data'[c] = data[c]
  BY <1>2, <1>4, <1>5
<1>7. \A c \in Bucket : /\ Distinct(data'[c])
                        /\ \A i \in 1..Len(data'[c]) : BucketOf(data'[c][i].key) = c
  BY <1>5, <1>6, Lists DEF IInv
<1>8. OneMappingPerKey'
  BY <1>7 DEF OneMappingPerKey, Distinct
<1>9. Mappings' = [k \in Key |-> ValueIn(data'[BucketOf(k)], k)]
  BY DEF Mappings, ValueIn, Entry
<1>10. \A k \in Key :
         ValueIn(data'[BucketOf(k)], k) =
           IF k = key[t] THEN val[t] ELSE ValueIn(data[BucketOf(k)], k)
  BY <1>2, <1>5, <1>6, BucketFacts DEF s
<1>11. Mappings' = [Mappings EXCEPT ![key[t]] = val[t]]
  BY <1>2, <1>9, <1>10, Lists
<1> QED
  BY <1>6, <1>8, <1>11 DEF b

\* remove_mapping takes away a mapping of its key, when the test says so, and
\* no other.
LEMMA EraseFacts ==
  ASSUME IInv, NEW t \in Thread, EraseMapping(t)
  PROVE  /\ data' \in [Bucket -> Seq(Mapping)]
         /\ \A c \in Bucket : c # bucket[t] => data'[c] = data[c]
         /\ OneMappingPerKey'
         /\ RemovesWhenFound => Mappings' = [Mappings EXCEPT ![key[t]] = Absent]
<1> DEFINE b == bucket[t]
           s == data[b]
           u == IF RemovesWhenFound /\ found[t] # 0 THEN RemoveAt(s, found[t]) ELSE s
<1>1. pc[t] = "use" /\ op[t] = "remove_mapping"
  BY DEF EraseMapping
<1>2. /\ key[t] \in Key /\ b \in Bucket /\ b = BucketOf(key[t])
      /\ found[t] = FirstOf(s, key[t])
      /\ s \in Seq(Mapping) /\ Distinct(s)
      /\ \A i \in 1..Len(s) : BucketOf(s[i].key) = b
  BY <1>1, Writer
<1>3. data' = [data EXCEPT ![b] = u] /\ data \in [Bucket -> Seq(Mapping)]
  BY <1>2, TableAssumption DEF EraseMapping, IInv, TypeOK
<1> HIDE DEF s, b
<1>4. /\ u \in Seq(Mapping) /\ Distinct(u)
      /\ \A i \in 1..Len(u) : BucketOf(u[i].key) = b
      /\ RemovesWhenFound => \A k : ValueIn(u, k) = IF k = key[t] THEN Absent ELSE ValueIn(s, k)
  <2>1. CASE RemovesWhenFound /\ found[t] # 0
    <3>1. u = RemoveAt(s, found[t])
      BY <2>1
    <3> HIDE DEF u
    <3>2. /\ u \in Seq(Mapping) /\ Distinct(u)
          /\ \A i \in 1..Len(u) : \E j \in 1..Len(s) : u[i] = s[j]
          /\ \A k : ValueIn(u, k) = IF k = key[t] THEN Absent ELSE ValueIn(s, k)
      BY <1>2, <2>1, <3>1, RemoveMapping
    <3> QED
      BY <1>2, <3>2
  <2>2. CASE ~ (RemovesWhenFound /\ found[t] # 0)
    <3>1. u = s
      BY <2>2
    <3>2. RemovesWhenFound => ValueIn(s, key[t]) = Absent
      BY <1>2, <2>2 DEF ValueIn
    <3> HIDE DEF u
    <3> QED
      BY <1>2, <3>1, <3>2
  <2> QED
    BY <2>1, <2>2
<1> HIDE DEF u
<1>5. data' \in [Bucket -> Seq(Mapping)] /\ data'[b] = u
        /\ \A c \in Bucket : c # b => data'[c] = data[c]
  BY <1>2, <1>3, <1>4
<1>6. \A c \in Bucket : /\ Distinct(data'[c])
                        /\ \A i \in 1..Len(data'[c]) : BucketOf(data'[c][i].key) = c
  BY <1>4, <1>5, Lists DEF IInv
<1>7. OneMappingPerKey'
  BY <1>6 DEF OneMappingPerKey, Distinct
<1>8. ASSUME RemovesWhenFound
      PROVE  Mappings' = [Mappings EXCEPT ![key[t]] = Absent]
  <2>1. Mappings' = [k \in Key |-> ValueIn(data'[BucketOf(k)], k)]
    BY DEF Mappings, ValueIn, Entry
  <2>2. \A k \in Key :
          ValueIn(data'[BucketOf(k)], k) =
            IF k = key[t] THEN Absent ELSE ValueIn(data[BucketOf(k)], k)
    BY <1>2, <1>4, <1>5, <1>8, BucketFacts DEF s
  <2> QED
    BY <1>2, <2>1, <2>2, Lists
<1> QED
  BY <1>5, <1>7, <1>8 DEF b

\* While a thread is about to write, no other has looked into its bucket,
\* and none copies the table.
LEMMA Alone ==
  ASSUME IInv, NEW t \in Thread, NEW u \in Thread, u # t, pc[t] = "use",
         op[t] \in {"add_or_update_mapping", "remove_mapping"}
  PROVE  /\ pc[u] # "copy"
         /\ pc[u] \in {"find", "use"} => bucket[u] # bucket[t]
<1>1. bucket[t] \in Bucket /\ writer[bucket[t]] = t /\ t # NoThread
  BY Writer, TableAssumption
<1>2. readers[bucket[t]] = {}
  BY <1>1 DEF IInv, LockInv
<1>3. pc[u] # "copy"
  BY <1>1 DEF IInv, LockInv
<1>4. pc[u] \in {"find", "use"} => op[u] \in KeyOps
  BY DEF IInv, CallInv, Ops
<1>5. pc[u] \in {"find", "use"} => bucket[u] # bucket[t]
  BY <1>1, <1>2, <1>4 DEF IInv, LockInv, KeyOps
<1> QED
  BY <1>3, <1>5

\* The steps that write keep the invariant.
LEMMA WriteStep ==
  ASSUME IInv, NEW t \in Thread, WriteMapping(t) \/ EraseMapping(t)
  PROVE  IInv'
<1>1. /\ pc[t] = "use" /\ op[t] \in {"add_or_update_mapping", "remove_mapping"}
      /\ pc' = [pc EXCEPT ![t] = "unlock"]
      /\ UNCHANGED <<writer, readers, op, key, val, found, bucket>>
      /\ corrupt' \in BOOLEAN
  BY DEF WriteMapping, EraseMapping, Goto, local, IInv, TypeOK
<1>2. /\ data' \in [Bucket -> Seq(Mapping)]
      /\ \A c \in Bucket : c # bucket[t] => data'[c] = data[c]
      /\ OneMappingPerKey'
  BY WriteFacts, EraseFacts
<1>3. /\ pc' \in [Thread -> Positions] /\ pc'[t] = "unlock"
      /\ \A u \in Thread : u # t => pc'[u] = pc[u]
  BY <1>1 DEF IInv, TypeOK, Positions
<1>4. TypeOK'
  BY <1>1, <1>2, <1>3 DEF IInv, TypeOK
<1>5. CallInv'
  BY <1>1, <1>3 DEF IInv, CallInv, KeyOps, Ops
<1>6. LockInv'
  BY <1>1, <1>3 DEF IInv, LockInv
<1>7. FoundInv'
  <2> SUFFICES ASSUME NEW u \in Thread, pc'[u] = "use"
               PROVE  found'[u] = Entry(bucket[u], key[u])'
    BY DEF FoundInv
  <2>1. u # t /\ pc[u] = "use" /\ bucket[u] # bucket[t] /\ bucket[u] \in Bucket
    BY <1>1, <1>3, Alone DEF IInv, TypeOK
  <2>2. data'[bucket[u]] = data[bucket[u]]
    BY <1>2, <2>1
  <2> QED
    BY <1>1, <2>1, <2>2 DEF IInv, FoundInv, Entry
<1>8. CopyInv'
  <2>1. \A u \in Thread : pc'[u] # "copy"
    BY <1>1, <1>3, Alone
  <2> QED
    BY <2>1 DEF CopyInv
<1> QED
  BY <1>2, <1>4, <1>5, <1>6, <1>7, <1>8 DEF IInv
-----------------------------------------------------------------------------
(* The steps that leave the table alone *)

\* What the other threads have found and copied stays true.
LEMMA SameTable ==
  ASSUME IInv, NEW t \in Thread, data' = data,
         \A u \in Thread : u # t => /\ pc'[u] = pc[u] /\ key'[u] = key[u] /\ val'[u] = val[u]
                                   /\ found'[u] = found[u] /\ bucket'[u] = bucket[u],
         pc'[t] = "use" => found'[t] = FirstOf(data[bucket'[t]], key'[t]),
         pc'[t] = "copy" =>
           val'[t] = [k \in Key |-> IF BucketOf(k) < bucket'[t] THEN Mappings[k] ELSE Absent]
  PROVE  OneMappingPerKey' /\ FoundInv' /\ CopyInv' /\ Mappings' = Mappings
<1>1. OneMappingPerKey' /\ Mappings' = Mappings
  BY DEF IInv, OneMappingPerKey, Mappings, Entry
<1>2. ASSUME NEW u \in Thread, pc'[u] = "use"
      PROVE  found'[u] = FirstOf(data[bucket'[u]], key'[u])
  BY <1>2 DEF IInv, FoundInv, Entry
<1>3. FoundInv'
  BY <1>2 DEF FoundInv, Entry
<1>4. ASSUME NEW u \in Thread, pc'[u] = "copy"
      PROVE  val'[u] = [k \in Key |-> IF BucketOf(k) < bucket'[u] THEN Mappings[k] ELSE Absent]
  BY <1>4 DEF IInv, CopyInv
<1>5. CopyInv'
  BY <1>1, <1>4 DEF CopyInv, BucketOf
<1> QED
  BY <1>1, <1>3, <1>5

\* The steps of a call on one key.
LEMMA KeyOpStep ==
  ASSUME IInv, NEW t \in Thread,
         \/ \E o \in KeyOps, k \in Key, v \in Value \cup {Absent} : CallKeyOp(t, o, k, v)
         \/ LockShared(t) \/ LockExclusive(t) \/ FindEntry(t) \/ ReadValue(t) \/ UnlockBucket(t)
  PROVE  IInv'
<1> USE TableAssumption, BucketFacts
<1>1. CASE \E o \in KeyOps, k \in Key, v \in Value \cup {Absent} : CallKeyOp(t, o, k, v)
  <2>0. PICK o \in KeyOps, k \in Key, v \in Value \cup {Absent} : CallKeyOp(t, o, k, v)
    BY <1>1
  <2>1. TypeOK'
    BY <2>0 DEF IInv, TypeOK, CallKeyOp, Goto, table, Positions, KeyOps, Ops
  <2>2. CallInv'
    BY <2>0 DEF IInv, TypeOK, CallInv, CallKeyOp, Goto, table, Positions, KeyOps, Ops
  <2>3. LockInv'
    BY <2>0 DEF IInv, TypeOK, LockInv, CallKeyOp, Goto, table, Positions
  <2>4. OneMappingPerKey' /\ FoundInv' /\ CopyInv'
    <3>1. data' = data /\ pc'[t] \notin {"use", "copy"}
      BY <2>0 DEF IInv, TypeOK, CallKeyOp, Goto, table
    <3> QED
      BY <2>0, <3>1, SameTable DEF IInv, TypeOK, CallKeyOp, Goto, table
  <2> QED
    BY <2>1, <2>2, <2>3, <2>4 DEF IInv
<1>2. CASE LockShared(t)
  <2>1. TypeOK'
    BY <1>2 DEF IInv, TypeOK, LockShared, Goto, local, Positions
  <2>2. CallInv'
    BY <1>2 DEF IInv, TypeOK, CallInv, LockShared, Goto, local, Positions, KeyOps, Ops
  <2>3. LockInv'
    BY <1>2 DEF IInv, TypeOK, CallInv, LockInv, LockShared, Goto, local, Positions
  <2>4. OneMappingPerKey' /\ FoundInv' /\ CopyInv'
    <3>1. data' = data /\ pc'[t] \notin {"use", "copy"}
      BY <1>2 DEF IInv, TypeOK, LockShared, Goto, local
    <3> QED
      BY <1>2, <3>1, SameTable DEF IInv, TypeOK, LockShared, Goto, local
  <2> QED
    BY <2>1, <2>2, <2>3, <2>4 DEF IInv
<1>3. CASE LockExclusive(t)
  <2>1. TypeOK'
    BY <1>3 DEF IInv, TypeOK, LockExclusive, Goto, local, Positions
  <2>2. CallInv'
    BY <1>3 DEF IInv, TypeOK, CallInv, LockExclusive, Goto, local, Positions, KeyOps, Ops
  <2>3. LockInv'
    BY <1>3 DEF IInv, TypeOK, CallInv, LockInv, LockExclusive, Goto, local, Positions
  <2>4. OneMappingPerKey' /\ FoundInv' /\ CopyInv'
    <3>1. data' = data /\ pc'[t] \notin {"use", "copy"}
      BY <1>3 DEF IInv, TypeOK, LockExclusive, Goto, local
    <3> QED
      BY <1>3, <3>1, SameTable DEF IInv, TypeOK, LockExclusive, Goto, local
  <2> QED
    BY <2>1, <2>2, <2>3, <2>4 DEF IInv
<1>4. CASE FindEntry(t)
  <2>0. Entry(bucket[t], key[t]) \in Nat
    BY Find DEF IInv, TypeOK, Entry
  <2>1. TypeOK'
    BY <1>4, <2>0 DEF IInv, TypeOK, FindEntry, Goto, table, Positions
  <2>2. CallInv'
    BY <1>4 DEF IInv, TypeOK, CallInv, FindEntry, Goto, table, Positions, KeyOps, Ops
  <2>3. LockInv'
    BY <1>4 DEF IInv, TypeOK, LockInv, FindEntry, Goto, table, Positions
  <2>4. OneMappingPerKey' /\ FoundInv' /\ CopyInv'
    <3>1. data' = data /\ pc'[t] = "use" /\ found'[t] = FirstOf(data[bucket[t]], key[t])
          /\ UNCHANGED <<key, val, bucket>>
      BY <1>4 DEF IInv, TypeOK, FindEntry, Goto, table, Entry
    <3> QED
      BY <1>4, <3>1, SameTable DEF IInv, TypeOK, FindEntry, Goto, table
  <2> QED
    BY <2>1, <2>2, <2>3, <2>4 DEF IInv
<1>5. CASE ReadValue(t)
  <2>0. IF found[t] = 0 THEN TRUE ELSE data[bucket[t]][found[t]].val \in Value
    <3>1. found[t] \in 0..Len(data[bucket[t]]) /\ data[bucket[t]] \in Seq(Mapping)
      BY <1>5, Find DEF IInv, TypeOK, FoundInv, Entry, ReadValue
    <3>2. found[t] # 0 => data[bucket[t]][found[t]] \in Mapping
      BY <3>1
    <3> QED
      BY <3>2 DEF Mapping
  <2>1. TypeOK'
    BY <1>5, <2>0 DEF IInv, TypeOK, ReadValue, Goto, table, Positions
  <2>2. CallInv'
    BY <1>5 DEF IInv, TypeOK, CallInv, ReadValue, Goto, table, Positions, KeyOps, Ops
  <2>3. LockInv'
    BY <1>5 DEF IInv, TypeOK, LockInv, ReadValue, Goto, table, Positions
  <2>4. OneMappingPerKey' /\ FoundInv' /\ CopyInv'
    <3>1. data' = data /\ pc'[t] \notin {"use", "copy"}
      BY <1>5 DEF IInv, TypeOK, ReadValue, Goto, table
    <3> QED
      BY <1>5, <3>1, SameTable DEF IInv, TypeOK, ReadValue, Goto, table
  <2> QED
    BY <2>1, <2>2, <2>3, <2>4 DEF IInv
<1>6. CASE UnlockBucket(t)
  <2>0. /\ writer' \in [Bucket -> Thread \cup {NoThread}]
        /\ readers' \in [Bucket -> SUBSET Thread]
        /\ \A b \in Bucket :
             readers'[b] \subseteq readers[b] /\ readers[b] \ {t} \subseteq readers'[b]
        /\ \A b \in Bucket : writer'[b] = writer[b] \/ (writer[b] = t /\ writer'[b] = NoThread)
        /\ pc' = [pc EXCEPT ![t] = "idle"] /\ UNCHANGED <<data, corrupt>>
    <3>1. CASE op[t] = "value_for"
      <4>1. /\ readers' = [readers EXCEPT ![bucket[t]] = readers[bucket[t]] \ {t}]
            /\ UNCHANGED <<writer, data, corrupt>> /\ pc' = [pc EXCEPT ![t] = "idle"]
        BY <1>6, <3>1 DEF UnlockBucket, Return, Goto
      <4>2. \A b \in Bucket :
              readers'[b] = IF b = bucket[t] THEN readers[b] \ {t} ELSE readers[b]
        BY <4>1 DEF IInv, TypeOK
      <4>3. readers' \in [Bucket -> SUBSET Thread]
        BY <4>1 DEF IInv, TypeOK
      <4> QED
        BY <4>1, <4>2, <4>3 DEF IInv, TypeOK
    <3>2. CASE op[t] # "value_for"
      <4>1. pc[t] = "unlock" /\ bucket[t] \in Bucket /\ writer[bucket[t]] = t
        BY <1>6, <3>2 DEF IInv, TypeOK, LockInv, UnlockBucket, KeyOps
      <4> QED
        BY <1>6, <3>2, <4>1 DEF IInv, TypeOK, UnlockBucket, Return, Goto
    <3> QED
      BY <3>1, <3>2
  <2>1. TypeOK'
    BY <1>6, <2>0 DEF IInv, TypeOK, UnlockBucket, Return, Goto, Positions
  <2>2. CallInv'
    BY <1>6 DEF IInv, TypeOK, CallInv, UnlockBucket, Return, Goto, Positions, KeyOps, Ops
  <2>3. LockInv'
    <3>1. UNCHANGED <<op, bucket>>
            \/ (op' = [op EXCEPT ![t] = "none"] /\ bucket' = [bucket EXCEPT ![t] = 0])
      BY <1>6 DEF UnlockBucket, Return
    <3>2. \A u \in Thread : u # t => pc'[u] = pc[u] /\ op'[u] = op[u] /\ bucket'[u] = bucket[u]
      BY <2>0, <3>1 DEF IInv, TypeOK
    <3>3. ASSUME NEW b \in Bucket, writer'[b] # NoThread
          PROVE  readers'[b] = {}
      <4>1. writer[b] # NoThread
        BY <2>0, <3>3
      <4>2. readers[b] = {}
        BY <4>1 DEF IInv, LockInv
      <4> QED
        BY <2>0, <4>2
    <3>4. pc'[t] = "idle"
      BY <2>0 DEF IInv, TypeOK
    <3> QED
      BY <2>0, <3>2, <3>3, <3>4 DEF IInv, TypeOK, LockInv
  <2>4. OneMappingPerKey' /\ FoundInv' /\ CopyInv'
    <3>1. data' = data /\ pc'[t] \notin {"use", "copy"}
      BY <1>6 DEF IInv, TypeOK, UnlockBucket, Return, Goto
    <3> QED
      BY <1>6, <3>1, SameTable DEF IInv, TypeOK, UnlockBucket, Return, Goto
  <2> QED
    BY <2>1, <2>2, <2>3, <2>4 DEF IInv
<1> QED
  BY <1>1, <1>2, <1>3, <1>4, <1>5, <1>6

\* The copy of one more bucket, for a thread that holds them all.
LEMMA Copied ==
  ASSUME IInv, NEW t \in Thread, CopyBucket(t)
  PROVE  val' = [val EXCEPT ![t] =
           [k \in Key |-> IF BucketOf(k) < bucket[t] + 1 THEN Mappings[k] ELSE Absent]]
<1> DEFINE old == val[t]
           b   == bucket[t]
           new == [k \in Key |-> LET e == Entry(b, k)
                   IN  IF old[k] = Absent /\ e # 0 THEN data[b][e].val ELSE old[k]]
<1>1. val' = [val EXCEPT ![t] = new] /\ pc[t] = "copy"
  BY DEF CopyBucket
<1>2. /\ old = [k \in Key |-> IF BucketOf(k) < b THEN Mappings[k] ELSE Absent]
      /\ b \in Bucket /\ b \in Nat /\ data[b] \in Seq(Mapping)
  BY <1>1, BucketFacts DEF IInv, TypeOK, CopyInv
<1>3. ASSUME NEW k \in Key
      PROVE  new[k] = IF BucketOf(k) < b + 1 THEN Mappings[k] ELSE Absent
  <2>1. BucketOf(k) \in Nat
    BY BucketFacts
  <2>2. CASE BucketOf(k) = b
    <3>1. old[k] = Absent
      BY <1>2, <2>1, <2>2
    <3>2. Mappings[k] = ValueIn(data[b], k)
      BY <2>2, Lists
    <3> QED
      BY <1>2, <2>1, <2>2, <3>1, <3>2 DEF ValueIn, Entry
  <2>3. CASE BucketOf(k) # b
    <3>1. Entry(b, k) = 0
      BY <1>2, <2>3, Find, Lists DEF IInv, Entry
    <3>2. new[k] = old[k]
      BY <3>1
    <3>3. BucketOf(k) < b <=> BucketOf(k) < b + 1
      BY <1>2, <2>1, <2>3
    <3> QED
      BY <1>2, <3>2, <3>3
  <2> QED
    BY <2>2, <2>3
<1>4. new = [k \in Key |-> IF BucketOf(k) < b + 1 THEN Mappings[k] ELSE Absent]
  BY <1>3
<1> QED
  BY <1>1, <1>4

\* The steps of get_map.
LEMMA GetMapStep ==
  ASSUME IInv, NEW t \in Thread,
         CallGetMap(t) \/ LockNext(t) \/ CopyBucket(t) \/ UnlockOne(t)
  PROVE  IInv'
<1> USE TableAssumption, BucketFacts
<1>1. CASE CallGetMap(t)
  <2>1. TypeOK'
    BY <1>1 DEF IInv, TypeOK, CallGetMap, Goto, table, Positions, Ops
  <2>2. CallInv'
    BY <1>1 DEF IInv, TypeOK, CallInv, CallGetMap, Goto, table, Positions, KeyOps, Ops
  <2>3. LockInv'
    <3>1. bucket[t] = 0 /\ \A b \in Bucket : ~ (b < 0)
      BY <1>1 DEF IInv, CallInv, CallGetMap, Bucket
    <3> QED
      BY <1>1, <3>1 DEF IInv, TypeOK, LockInv, CallGetMap, Goto, table, Positions
  <2>4. OneMappingPerKey' /\ FoundInv' /\ CopyInv'
    <3>1. data' = data /\ pc'[t] \notin {"use", "copy"}
      BY <1>1 DEF IInv, TypeOK, CallGetMap, Goto, table
    <3> QED
      BY <1>1, <3>1, SameTable DEF IInv, TypeOK, CallGetMap, Goto, table
  <2> QED
    BY <2>1, <2>2, <2>3, <2>4 DEF IInv
<1>2. CASE LockNext(t)
  <2>0. /\ pc[t] = "lock_all" /\ bucket[t] \in Bucket /\ op[t] = "get_map"
        /\ writer[bucket[t]] = NoThread /\ readers[bucket[t]] = {}
        /\ UNCHANGED <<data, readers, corrupt, op, key, found>>
        /\ writer' \in [Bucket -> Thread \cup {NoThread}]
        /\ \A b \in Bucket : writer'[b] = IF b = bucket[t] THEN t ELSE writer[b]
    BY <1>2 DEF IInv, TypeOK, CallInv, LockNext, Ops, KeyOps
  <2>9. /\ \A b \in Bucket : writer'[b] # NoThread => readers'[b] = {}
        /\ \A b \in Bucket : writer[b] # NoThread => writer'[b] = writer[b]
    BY <2>0 DEF IInv, LockInv
  <2>1. CASE bucket[t] < Buckets - 1
    <3>1. bucket' = [bucket EXCEPT ![t] = @ + 1] /\ UNCHANGED <<pc, val>>
            /\ bucket[t] + 1 \in Bucket
      BY <1>2, <2>0, <2>1 DEF LockNext, Bucket
    <3>2. TypeOK'
      BY <2>0, <3>1 DEF IInv, TypeOK
    <3>3. CallInv'
      BY <2>0, <3>1 DEF IInv, TypeOK, CallInv
    <3>4. \A b \in Bucket : b < bucket[t] + 1 => writer'[b] = t
      <4>1. \A b \in Bucket : b < bucket[t] + 1 => b < bucket[t] \/ b = bucket[t]
        BY <2>0 DEF Bucket
      <4> QED
        BY <2>0, <4>1 DEF IInv, LockInv
    <3>5. LockInv'
      <4>1. bucket'[t] = bucket[t] + 1 /\ \A u \in Thread : u # t => bucket'[u] = bucket[u]
        BY <3>1 DEF IInv, TypeOK
      <4> QED
        BY <2>0, <2>9, <3>1, <3>4, <4>1 DEF IInv, TypeOK, LockInv
    <3>6. OneMappingPerKey' /\ FoundInv' /\ CopyInv'
      BY <2>0, <3>1, SameTable DEF IInv, TypeOK
    <3> QED
      BY <3>2, <3>3, <3>5, <3>6 DEF IInv
  <2>2. CASE ~ (bucket[t] < Buckets - 1)
    <3>1. /\ bucket' = [bucket EXCEPT ![t] = 0]
          /\ val' = [val EXCEPT ![t] = NoMappings]
          /\ pc' = [pc EXCEPT ![t] = "copy"]
      BY <1>2, <2>2 DEF LockNext, Goto
    <3>2. TypeOK'
      BY <2>0, <3>1 DEF IInv, TypeOK, NoMappings, Positions
    <3>3. CallInv'
      BY <2>0, <3>1 DEF IInv, TypeOK, CallInv
    <3>4. \A b \in Bucket : writer'[b] = t
      <4>1. \A b \in Bucket : b < bucket[t] \/ b = bucket[t]
        BY <2>0, <2>2 DEF Bucket
      <4> QED
        BY <2>0, <4>1 DEF IInv, LockInv
    <3>5. LockInv'
      <4>1. pc'[t] = "copy"
            /\ \A u \in Thread : u # t => pc'[u] = pc[u] /\ bucket'[u] = bucket[u]
        BY <3>1 DEF IInv, TypeOK
      <4> QED
        BY <2>0, <2>9, <3>4, <4>1 DEF IInv, TypeOK, LockInv
    <3>6. val'[t] = [k \in Key |-> IF BucketOf(k) < bucket'[t] THEN Mappings[k] ELSE Absent]
      <4>1. \A k \in Key : ~ (BucketOf(k) < 0)
        BY DEF Bucket
      <4> QED
        BY <3>1, <4>1 DEF IInv, TypeOK, NoMappings
    <3>7. OneMappingPerKey' /\ FoundInv' /\ CopyInv'
      BY <2>0, <3>1, <3>6, SameTable DEF IInv, TypeOK
    <3> QED
      BY <3>2, <3>3, <3>5, <3>7 DEF IInv
  <2> QED
    BY <2>1, <2>2
<1>3. CASE CopyBucket(t)
  <2> DEFINE new == [k \in Key |-> IF BucketOf(k) < bucket[t] + 1 THEN Mappings[k] ELSE Absent]
  <2>0. /\ pc[t] = "copy" /\ bucket[t] \in Bucket /\ op[t] = "get_map"
        /\ UNCHANGED <<data, writer, readers, corrupt, op, key, found>>
        /\ val' = [val EXCEPT ![t] = new]
    BY <1>3, Copied DEF IInv, TypeOK, CallInv, CopyBucket, Ops, KeyOps, table
  <2>1. new \in [Key -> Value \cup {Absent}]
    <3>1. \A k \in Key : Mappings[k] \in Value \cup {Absent}
      <4> SUFFICES ASSUME NEW k \in Key
                   PROVE  ValueIn(data[BucketOf(k)], k) \in Value \cup {Absent}
        BY Lists
      <4> DEFINE s == data[BucketOf(k)]
      <4>1. s \in Seq(Mapping)
        BY DEF IInv, TypeOK
      <4> HIDE DEF s
      <4>2. FirstOf(s, k) # 0 => s[FirstOf(s, k)] \in Mapping
        BY <4>1, Find
      <4>3. FirstOf(s, k) # 0 => s[FirstOf(s, k)].val \in Value
        BY <4>2 DEF Mapping
      <4> QED
        BY <4>3 DEF ValueIn, s
    <3> QED
      BY <3>1
  <2> HIDE DEF new
  <2>2. CASE bucket[t] < Buckets - 1
    <3>1. bucket' = [bucket EXCEPT ![t] = @ + 1] /\ UNCHANGED pc /\ bucket[t] + 1 \in Bucket
      BY <1>3, <2>0, <2>2 DEF CopyBucket, Bucket
    <3>2. TypeOK'
      BY <2>0, <2>1, <3>1 DEF IInv, TypeOK
    <3>3. CallInv'
      BY <2>0, <3>1 DEF IInv, TypeOK, CallInv
    <3>4. LockInv'
      BY <2>0, <3>1 DEF IInv, TypeOK, LockInv
    <3>5. /\ pc'[t] = "copy" /\ bucket'[t] = bucket[t] + 1
          /\ \A u \in Thread : u # t => bucket'[u] = bucket[u]
      BY <2>0, <3>1 DEF IInv, TypeOK
    <3>6. OneMappingPerKey' /\ FoundInv' /\ CopyInv'
      <4>1. /\ data' = data
            /\ \A u \in Thread : u # t => /\ pc'[u] = pc[u] /\ key'[u] = key[u]
                                          /\ val'[u] = val[u] /\ found'[u] = found[u]
                                          /\ bucket'[u] = bucket[u]
        BY <2>0, <3>1, <3>5 DEF IInv, TypeOK
      <4>2. val'[t] = [k \in Key |-> IF BucketOf(k) < bucket'[t] THEN Mappings[k] ELSE Absent]
        BY <2>0, <3>5 DEF IInv, TypeOK, new
      <4> QED
        BY <3>5, <4>1, <4>2, SameTable
    <3> QED
      BY <3>2, <3>3, <3>4, <3>5, <3>6 DEF IInv
  <2>3. CASE ~ (bucket[t] < Buckets - 1)
    <3>1. UNCHANGED bucket /\ pc' = [pc EXCEPT ![t] = "unlock"]
      BY <1>3, <2>3 DEF CopyBucket, Goto
    <3>2. TypeOK'
      BY <2>0, <2>1, <3>1 DEF IInv, TypeOK, Positions
    <3>3. CallInv'
      BY <2>0, <3>1 DEF IInv, TypeOK, CallInv, KeyOps
    <3>4. LockInv'
      BY <2>0, <3>1 DEF IInv, TypeOK, LockInv
    <3>5. OneMappingPerKey' /\ FoundInv' /\ CopyInv'
      BY <2>0, <3>1, SameTable DEF IInv, TypeOK
    <3> QED
      BY <3>2, <3>3, <3>4, <3>5 DEF IInv
  <2> QED
    BY <2>2, <2>3
<1>4. CASE UnlockOne(t)
  <2>0. /\ pc[t] = "unlock" /\ op[t] = "get_map"
        /\ UNCHANGED <<data, readers, corrupt>>
        /\ writer' \in [Bucket -> Thread \cup {NoThread}]
        /\ \A b \in Bucket : writer'[b] = writer[b] \/ (writer[b] = t /\ writer'[b] = NoThread)
        /\ Return(t) \/ UNCHANGED <<pc, local>>
    <3>1. PICK b \in HeldBy(t) : writer' = [writer EXCEPT ![b] = NoThread]
      BY <1>4 DEF UnlockOne
    <3>2. b \in Bucket /\ writer[b] = t
      BY <3>1 DEF HeldBy
    <3> QED
      BY <1>4, <3>1, <3>2 DEF UnlockOne, IInv, TypeOK
  <2>1. TypeOK'
    <3>1. CASE Return(t)
      BY <2>0, <3>1 DEF IInv, TypeOK, Return, Goto, Positions
    <3>2. CASE UNCHANGED <<pc, local>>
      BY <2>0, <3>2 DEF IInv, TypeOK, local
    <3> QED
      BY <2>0, <3>1, <3>2
  <2>2. CallInv'
    BY <2>0 DEF IInv, TypeOK, CallInv, Return, Goto, Positions, local, KeyOps, Ops
  <2>3. LockInv'
    <3>1. \A u \in Thread : u # t => pc'[u] = pc[u] /\ op'[u] = op[u] /\ bucket'[u] = bucket[u]
      BY <2>0 DEF IInv, TypeOK, Return, Goto, local
    <3>2. \A b \in Bucket : writer'[b] # NoThread => readers'[b] = {}
      BY <2>0 DEF IInv, LockInv
    <3>3. pc'[t] = "idle" \/ (pc'[t] = "unlock" /\ op'[t] = "get_map")
      BY <2>0 DEF IInv, TypeOK, Return, Goto, local
    <3>4. \A u \in Thread : u # t => \A b \in Bucket : writer[b] = u => writer'[b] = u
      BY <2>0
    <3>5. readers' = readers
      BY <2>0
    <3> DEFINE Holds(u) ==
          /\ pc[u] \in {"find", "use", "unlock"} /\ op[u] = "value_for"
               => u \in readers[bucket[u]]
          /\ pc[u] \in {"find", "use", "unlock"}
               /\ op[u] \in {"add_or_update_mapping", "remove_mapping"}
               => writer[bucket[u]] = u
          /\ pc[u] = "lock_all" => \A b \in Bucket : b < bucket[u] => writer[b] = u
          /\ pc[u] = "copy" => \A b \in Bucket : writer[b] = u
    <3>6. ASSUME NEW u \in Thread, u # t
          PROVE  Holds(u)'
      <4>1. Holds(u) /\ bucket[u] \in Bucket
        BY DEF IInv, TypeOK, LockInv
      <4> QED
        BY <3>1, <3>4, <3>5, <3>6, <4>1
    <3>7. Holds(t)'
      BY <3>3
    <3>8. \A u \in Thread : Holds(u)'
      BY <3>6, <3>7
    <3> QED
      BY <3>2, <3>8 DEF LockInv
  <2>4. OneMappingPerKey' /\ FoundInv' /\ CopyInv'
    <3>1. data' = data /\ pc'[t] \notin {"use", "copy"}
      BY <2>0 DEF IInv, TypeOK, Return, Goto, local
    <3> QED
      BY <2>0, <3>1, SameTable DEF IInv, TypeOK, Return, Goto, local
  <2> QED
    BY <2>1, <2>2, <2>3, <2>4 DEF IInv
<1> QED
  BY <1>1, <1>2, <1>3, <1>4
-----------------------------------------------------------------------------
LEMMA InitInv == Init => IInv
<1> SUFFICES ASSUME Init
             PROVE  IInv
  OBVIOUS
<1> USE BucketFacts DEF Init
<1>1. TypeOK
  <2>1. data \in [Bucket -> Seq(Mapping)]
    OBVIOUS
  <2>2. /\ writer \in [Bucket -> Thread \cup {NoThread}]
        /\ readers \in [Bucket -> SUBSET Thread]
        /\ corrupt \in BOOLEAN
    OBVIOUS
  <2>3. /\ pc \in [Thread -> Positions]
        /\ op \in [Thread -> Ops \cup {"none"}]
    BY DEF Positions
  <2>4. /\ key \in [Thread -> Key \cup {Absent}]
        /\ val \in [Thread -> Value \cup {Absent} \cup [Key -> Value \cup {Absent}]]
    OBVIOUS
  <2>5. found \in [Thread -> Nat] /\ bucket \in [Thread -> Bucket]
    OBVIOUS
  <2> QED
    BY <2>1, <2>2, <2>3, <2>4, <2>5 DEF TypeOK
<1>2. CallInv /\ LockInv /\ FoundInv /\ CopyInv
  BY DEF CallInv, LockInv, FoundInv, CopyInv, KeyOps
<1>3. OneMappingPerKey
  BY DEF OneMappingPerKey
<1> QED
  BY <1>1, <1>2, <1>3 DEF IInv

\* Every step keeps the invariant, and so does none.
LEMMA StepInv == IInv /\ [Next]_vars => IInv'
<1>1. ASSUME IInv, UNCHANGED vars
      PROVE  IInv'
  BY <1>1
  DEF IInv, TypeOK, CallInv, LockInv, OneMappingPerKey, FoundInv, CopyInv, Mappings, Entry,
      vars, table, local
<1>2. ASSUME IInv, NEW t \in Thread,
             \/ \E o \in KeyOps, k \in Key, v \in Value \cup {Absent} : CallKeyOp(t, o, k, v)
             \/ CallGetMap(t)
             \/ Proceed(t)
      PROVE  IInv'
  BY <1>2, KeyOpStep, WriteStep, GetMapStep DEF Proceed
<1> QED
  BY <1>1, <1>2 DEF Next

\* What every reachable state satisfies.
THEOREM Inductive == Spec => []IInv
BY InitInv, StepInv, PTL DEF Spec

\* A key has one mapping at most, in the bucket of its hash value, for any
\* hash function, and in both tables (chapter_6.h:228-236).
THEOREM KeysAreUnique == Spec => []OneMappingPerKey
<1>1. IInv => OneMappingPerKey
  BY DEF IInv
<1> QED
  BY Inductive, <1>1, PTL
-----------------------------------------------------------------------------
(* lookup_table implements KeyMap *)

Abstract ==
  [t \in Thread |-> [stage |-> Stage(t), op |-> op[t], key |-> key[t], val |-> Outcome(t)]]

\* Only thread t has moved.
Others(t) ==
  \A u \in Thread \ {t} :
    pc'[u] = pc[u] /\ op'[u] = op[u] /\ key'[u] = key[u] /\ val'[u] = val[u]

\* What KeyMap sees of a step of one thread: its call alone, as long as the
\* table stays or nobody else copies it.
LEMMA AbstractStep ==
  ASSUME NEW t \in Thread, Others(t),
         Mappings' = Mappings \/ \A u \in Thread \ {t} : pc[u] # "copy"
  PROVE  Abstract' = [Abstract EXCEPT ![t] =
           [stage |-> Stage(t)', op |-> op'[t], key |-> key'[t], val |-> Outcome(t)']]
<1>1. ASSUME NEW u \in Thread, u # t
      PROVE  Stage(u)' = Stage(u) /\ op'[u] = op[u] /\ key'[u] = key[u]
               /\ Outcome(u)' = Outcome(u)
  BY <1>1 DEF Others, Stage, Outcome
<1> QED
  BY <1>1 DEF Abstract

\* The steps KeyMap does not see.
LEMMA StutterStep ==
  ASSUME NEW t \in Thread, Others(t), Mappings' = Mappings,
         Stage(t)' = Stage(t), op'[t] = op[t], key'[t] = key[t], Outcome(t)' = Outcome(t)
  PROVE  UNCHANGED Map!vars
<1>1. Abstract' = [Abstract EXCEPT ![t] = Abstract[t]]
  BY AbstractStep DEF Abstract
<1>2. Abstract' = Abstract
  BY <1>1 DEF Abstract
<1> QED
  BY <1>2 DEF Map!vars, Abstract

LEMMA InitRefines == Init => Map!Init
<1> SUFFICES ASSUME Init
             PROVE  Map!Init
  OBVIOUS
<1>1. \A k \in Key : ValueIn(data[BucketOf(k)], k) = Absent
  <2> SUFFICES ASSUME NEW k \in Key
               PROVE  ValueIn(<<>>, k) = Absent
    BY BucketFacts DEF Init
  <2>1. <<>> \in Seq(Mapping) /\ Len(<<>>) = 0
    OBVIOUS
  <2>2. FirstOf(<<>>, k) = 0
    <3>1. FirstOf(<<>>, k) \in 0..Len(<<>>)
      <4> DEFINE s == <<>>
      <4>1. s \in Seq(Mapping)
        OBVIOUS
      <4> HIDE DEF s
      <4>2. FirstOf(s, k) \in 0..Len(s)
        BY <4>1, Find
      <4> QED
        BY <4>2 DEF s
    <3> QED
      BY <2>1, <3>1
  <2> QED
    BY <2>2 DEF ValueIn
<1>2. Mappings = [k \in Key |-> Absent]
  BY <1>1, Lists
<1>3. Abstract = [t \in Thread |-> Map!NoCall]
  BY DEF Init, Abstract, Stage, Outcome, Map!NoCall
<1> QED
  BY <1>2, <1>3 DEF Map!Init, Abstract

\* A call on a key, or on the whole table, is asked for.
LEMMA CallRefines ==
  ASSUME IInv, NEW t \in Thread, NEW o \in Ops,
         NEW k \in Key \cup {Absent}, NEW v \in Value \cup {Absent},
         (o \in KeyOps /\ k \in Key /\ CallKeyOp(t, o, k, v))
           \/ (o = "get_map" /\ k = Absent /\ v = Absent /\ CallGetMap(t))
  PROVE  Map!Invoke(t, o, k, v)
<1>1. /\ pc[t] = "idle" /\ o \in Calls[t] /\ data' = data
      /\ pc'[t] \in {"lock", "lock_all"} /\ op'[t] = o /\ key'[t] = k /\ val'[t] = v
      /\ Others(t)
  BY DEF IInv, TypeOK, CallInv, CallKeyOp, CallGetMap, Goto, table, Others, KeyOps
<1>2. Mappings' = Mappings
  BY <1>1 DEF Mappings, Entry
<1>3. Abstract' = [Abstract EXCEPT ![t] = [stage |-> "open", op |-> o, key |-> k, val |-> v]]
  BY <1>1, <1>2, AbstractStep DEF Stage, Outcome
<1>4. Abstract[t].stage = "idle"
  BY <1>1 DEF Abstract, Stage
<1> QED
  BY <1>1, <1>2, <1>3, <1>4 DEF Map!Invoke, Abstract

\* The call of thread t takes effect with outcome v.
LEMMA EffectStep ==
  ASSUME IInv, NEW t \in Thread, NEW v, Others(t),
         pc[t] \in {"use", "lock_all"}, pc'[t] \in {"unlock", "copy"},
         op'[t] = op[t], key'[t] = key[t], Outcome(t)' = v,
         Mappings' = Mappings \/ \A u \in Thread \ {t} : pc[u] # "copy"
  PROVE  /\ Abstract[t].stage = "open" /\ Abstract[t].op = op[t]
         /\ Abstract[t].key = key[t] /\ Abstract[t].val = val[t]
         /\ Abstract' = [Abstract EXCEPT ![t].stage = "done", ![t].val = v]
<1>1. /\ Abstract[t].stage = "open" /\ Abstract[t].op = op[t]
      /\ Abstract[t].key = key[t] /\ Abstract[t].val = val[t]
  BY DEF Abstract, Stage, Outcome
<1>2. Abstract' =
        [Abstract EXCEPT ![t] = [stage |-> "done", op |-> op[t], key |-> key[t], val |-> v]]
  BY AbstractStep DEF Stage
<1>3. Abstract[t] = [stage |-> "open", op |-> op[t], key |-> key[t], val |-> val[t]]
  BY DEF Abstract, Stage, Outcome
<1> QED
  BY <1>1, <1>2, <1>3 DEF Abstract

LEMMA ReadRefines ==
  ASSUME IInv, NEW t \in Thread, ReadValue(t)
  PROVE  Map!ValueFor(t)
<1> DEFINE v == ValueIn(data[bucket[t]], key[t])
<1>1. /\ pc[t] = "use" /\ op[t] = "value_for" /\ UNCHANGED <<data, op, key>>
      /\ pc'[t] = "unlock" /\ found[t] = FirstOf(data[bucket[t]], key[t])
      /\ key[t] \in Key /\ bucket[t] = BucketOf(key[t])
      /\ Others(t)
  BY DEF IInv, TypeOK, CallInv, FoundInv, Entry, ReadValue, Goto, table, Others
<1>2. val'[t] = v
  BY <1>1 DEF ReadValue, ValueIn, IInv, TypeOK
<1>3. Mappings' = Mappings /\ v = Mappings[key[t]]
  BY <1>1, Lists DEF Mappings, Entry
<1>4. Outcome(t)' = v
  BY <1>1, <1>2 DEF Outcome
<1> HIDE DEF v
<1>5. /\ Abstract[t].stage = "open" /\ Abstract[t].op = op[t] /\ Abstract[t].key = key[t]
      /\ Abstract' = [Abstract EXCEPT ![t].stage = "done", ![t].val = v]
  BY <1>1, <1>3, <1>4, EffectStep
<1> QED
  BY <1>1, <1>3, <1>5 DEF Map!ValueFor, Map!Finish, Abstract

LEMMA WriteRefines ==
  ASSUME IInv, NEW t \in Thread, WriteMapping(t)
  PROVE  Map!AddOrUpdate(t)
<1>1. /\ pc[t] = "use" /\ op[t] = "add_or_update_mapping" /\ UNCHANGED <<op, key, val>>
      /\ pc'[t] = "unlock" /\ Others(t)
  BY DEF IInv, TypeOK, WriteMapping, Goto, local, Others
<1>2. Mappings' = [Mappings EXCEPT ![key[t]] = val[t]]
  BY WriteFacts
<1>3. \A u \in Thread \ {t} : pc[u] # "copy"
  BY <1>1, Alone
<1>4. Outcome(t)' = val[t]
  BY <1>1 DEF Outcome
<1>5. /\ Abstract[t].stage = "open" /\ Abstract[t].op = op[t]
      /\ Abstract[t].key = key[t] /\ Abstract[t].val = val[t]
      /\ Abstract' = [Abstract EXCEPT ![t].stage = "done", ![t].val = val[t]]
  BY <1>1, <1>3, <1>4, EffectStep
<1> QED
  BY <1>1, <1>2, <1>5 DEF Map!AddOrUpdate, Map!Finish, Abstract

LEMMA EraseRefines ==
  ASSUME RemovesWhenFound, IInv, NEW t \in Thread, EraseMapping(t)
  PROVE  Map!Remove(t)
<1>1. /\ pc[t] = "use" /\ op[t] = "remove_mapping" /\ UNCHANGED <<op, key, val>>
      /\ pc'[t] = "unlock" /\ val[t] = Absent /\ Others(t)
  BY DEF IInv, TypeOK, CallInv, EraseMapping, Goto, local, Others
<1>2. Mappings' = [Mappings EXCEPT ![key[t]] = Absent]
  BY EraseFacts
<1>3. \A u \in Thread \ {t} : pc[u] # "copy"
  BY <1>1, Alone
<1>4. Outcome(t)' = Absent
  BY <1>1 DEF Outcome
<1>5. /\ Abstract[t].stage = "open" /\ Abstract[t].op = op[t] /\ Abstract[t].key = key[t]
      /\ Abstract' = [Abstract EXCEPT ![t].stage = "done", ![t].val = Absent]
  BY <1>1, <1>3, <1>4, EffectStep
<1> QED
  BY <1>1, <1>2, <1>5 DEF Map!Remove, Map!Finish, Abstract

\* get_map takes effect as it locks the last bucket.
LEMMA LockRefines ==
  ASSUME IInv, NEW t \in Thread, LockNext(t)
  PROVE  Map!GetMap(t) \/ UNCHANGED Map!vars
<1>1. /\ pc[t] = "lock_all" /\ op[t] = "get_map" /\ UNCHANGED <<data, op, key>>
      /\ Others(t)
  BY DEF IInv, TypeOK, CallInv, LockNext, Goto, Others, Ops, KeyOps
<1>2. Mappings' = Mappings
  BY <1>1 DEF Mappings, Entry
<1>3. CASE bucket[t] < Buckets - 1
  <2>1. UNCHANGED <<pc, val>>
    BY <1>3 DEF LockNext
  <2>2. UNCHANGED Map!vars
    BY <1>1, <1>2, <2>1, StutterStep DEF Stage, Outcome
  <2> QED
    BY <2>2
<1>4. CASE ~ (bucket[t] < Buckets - 1)
  <2>1. pc'[t] = "copy"
    BY <1>4 DEF LockNext, Goto, IInv, TypeOK
  <2>2. Outcome(t)' = Mappings
    BY <1>2, <2>1 DEF Outcome
  <2>3. /\ Abstract[t].stage = "open" /\ Abstract[t].op = op[t]
        /\ Abstract' = [Abstract EXCEPT ![t].stage = "done", ![t].val = Mappings]
    BY <1>1, <1>2, <2>1, <2>2, EffectStep
  <2> QED
    BY <1>1, <1>2, <2>3 DEF Map!GetMap, Map!Finish, Abstract
<1> QED
  BY <1>3, <1>4

\* What it copies afterwards is what the table held at that instant.
LEMMA CopyRefines ==
  ASSUME IInv, NEW t \in Thread, CopyBucket(t)
  PROVE  UNCHANGED Map!vars
<1>1. /\ pc[t] = "copy" /\ bucket[t] \in Bucket /\ UNCHANGED <<data, op, key>>
      /\ Others(t)
  BY DEF IInv, TypeOK, CopyBucket, Goto, table, Others
<1>2. Mappings' = Mappings
  BY <1>1 DEF Mappings, Entry
<1>3. pc'[t] = "copy" \/ (pc'[t] = "unlock" /\ ~ (bucket[t] < Buckets - 1))
  BY <1>1 DEF CopyBucket, Goto, IInv, TypeOK
<1>4. CASE pc'[t] = "copy"
  BY <1>1, <1>2, <1>4, StutterStep DEF Stage, Outcome
<1>5. CASE pc'[t] = "unlock" /\ ~ (bucket[t] < Buckets - 1)
  <2>1. \A k \in Key : BucketOf(k) < bucket[t] + 1
    BY <1>1, <1>5, BucketFacts DEF Bucket
  <2>2. val'[t] = [k \in Key |-> IF BucketOf(k) < bucket[t] + 1 THEN Mappings[k] ELSE Absent]
    BY Copied DEF IInv, TypeOK
  <2>3. val'[t] = Mappings
    BY <2>1, <2>2 DEF Mappings
  <2>4. Outcome(t)' = Outcome(t)
    BY <1>1, <1>5, <2>3 DEF Outcome
  <2>5. Stage(t)' = Stage(t)
    BY <1>1, <1>5 DEF Stage
  <2> QED
    BY <1>1, <1>2, <2>4, <2>5, StutterStep
<1> QED
  BY <1>3, <1>4, <1>5

LEMMA ReturnRefines ==
  ASSUME IInv, NEW t \in Thread, pc[t] = "unlock", Return(t), data' = data
  PROVE  Map!Return(t)
<1>1. /\ pc'[t] = "idle" /\ op'[t] = "none" /\ key'[t] = Absent /\ val'[t] = Absent
      /\ Others(t)
  BY DEF IInv, TypeOK, Return, Goto, Others
<1>2. Mappings' = Mappings
  BY DEF Mappings, Entry
<1>3. Abstract' = [Abstract EXCEPT ![t] = Map!NoCall]
  BY <1>1, <1>2, AbstractStep DEF Stage, Outcome, Map!NoCall
<1>4. Abstract[t].stage = "done"
  BY DEF Abstract, Stage
<1> QED
  BY <1>2, <1>3, <1>4 DEF Map!Return, Abstract

\* Each step.
LEMMA NextRefines ==
  ASSUME RemovesWhenFound
  PROVE  IInv /\ [Next]_vars => [Map!Next]_(Map!vars)
<1> SUFFICES ASSUME IInv, [Next]_vars
             PROVE  [Map!Next]_(Map!vars)
  OBVIOUS
<1>1. ASSUME NEW t \in Thread, NEW o \in KeyOps, NEW k \in Key, NEW v \in Value \cup {Absent},
             CallKeyOp(t, o, k, v)
      PROVE  Map!Next
  <2>1. Map!Invoke(t, o, k, v) /\ o \in Map!Ops
    BY <1>1, CallRefines DEF Ops, KeyOps, Map!Ops
  <2> QED
    BY <2>1 DEF Map!Next
<1>2. ASSUME NEW t \in Thread, CallGetMap(t)
      PROVE  Map!Next
  <2>1. Map!Invoke(t, "get_map", Absent, Absent) /\ "get_map" \in Map!Ops
    BY <1>2, CallRefines DEF Ops, Map!Ops
  <2> QED
    BY <2>1 DEF Map!Next
<1>3. ASSUME NEW t \in Thread, LockShared(t) \/ LockExclusive(t) \/ FindEntry(t)
      PROVE  UNCHANGED Map!vars
  <2>1. /\ Others(t) /\ UNCHANGED <<data, op, key, val>>
        /\ pc[t] \in {"lock", "find"} /\ pc'[t] \in {"find", "use"}
    BY <1>3 DEF IInv, TypeOK, LockShared, LockExclusive, FindEntry, Goto, local, table, Others
  <2>2. Mappings' = Mappings
    BY <2>1 DEF Mappings, Entry
  <2> QED
    BY <2>1, <2>2, StutterStep DEF Stage, Outcome
<1>4. ASSUME NEW t \in Thread, ReadValue(t)
      PROVE  Map!Next
  BY <1>4, ReadRefines DEF Map!Next
<1>5. ASSUME NEW t \in Thread, WriteMapping(t)
      PROVE  Map!Next
  BY <1>5, WriteRefines DEF Map!Next
<1>6. ASSUME NEW t \in Thread, EraseMapping(t)
      PROVE  Map!Next
  BY <1>6, EraseRefines DEF Map!Next
<1>7. ASSUME NEW t \in Thread, UnlockBucket(t)
      PROVE  Map!Next
  <2>1. Map!Return(t)
    BY <1>7, ReturnRefines DEF UnlockBucket
  <2> QED
    BY <2>1 DEF Map!Next
<1>8. ASSUME NEW t \in Thread, LockNext(t)
      PROVE  [Map!Next]_(Map!vars)
  BY <1>8, LockRefines DEF Map!Next
<1>9. ASSUME NEW t \in Thread, UnlockOne(t)
      PROVE  [Map!Next]_(Map!vars)
  <2>1. pc[t] = "unlock" /\ data' = data /\ (Return(t) \/ UNCHANGED <<pc, local>>)
    BY <1>9 DEF UnlockOne
  <2>2. CASE Return(t)
    BY <2>1, <2>2, ReturnRefines DEF Map!Next
  <2>3. CASE UNCHANGED <<pc, local>>
    <3>1. Mappings' = Mappings /\ Others(t)
      BY <2>1, <2>3 DEF Mappings, Entry, Others, local
    <3> QED
      BY <2>3, <3>1, StutterStep DEF Stage, Outcome, local
  <2> QED
    BY <2>1, <2>2, <2>3
<1>10. CASE UNCHANGED vars
  <2>1. Mappings' = Mappings /\ Abstract' = Abstract
    BY <1>10 DEF vars, table, local, Mappings, Entry, Abstract, Stage, Outcome
  <2> QED
    BY <2>1 DEF Map!vars, Abstract
<1>11. ASSUME NEW t \in Thread, CopyBucket(t)
       PROVE  UNCHANGED Map!vars
  BY <1>11, CopyRefines
<1> QED
  BY <1>1, <1>2, <1>3, <1>4, <1>5, <1>6, <1>7, <1>8, <1>9, <1>10, <1>11 DEF Next, Proceed

\* Every call of lookup_table takes effect at one instant on a map, and
\* get_map returns what the whole table held at one instant, for any
\* threads, keys, values, buckets and hash function (t_hash_table.h:29-68).
THEOREM TableIsMap == ASSUME RemovesWhenFound PROVE Spec => Linearizable
BY InitRefines, NextRefines, Inductive, PTL DEF Spec, Linearizable, Map!Spec
-----------------------------------------------------------------------------
(* The mapping that is removed is gone *)

LEMMA EraseLeavesNone ==
  ASSUME RemovesWhenFound, IInv, NEW t \in Thread, EraseMapping(t)
  PROVE  Entry(bucket[t], key[t])' = 0
<1> DEFINE k == key[t]
           s == data'[bucket[t]]
<1>1. /\ k \in Key /\ bucket[t] \in Bucket /\ bucket[t] = BucketOf(k)
      /\ key'[t] = k /\ bucket'[t] = bucket[t]
  BY Writer DEF EraseMapping, local
<1>2. s \in Seq(Mapping)
  BY <1>1, EraseFacts
<1>3. Mappings'[k] = Absent
  BY <1>1, EraseFacts DEF Mappings
<1>4. Mappings'[k] = IF FirstOf(s, k) = 0 THEN Absent ELSE s[FirstOf(s, k)].val
  BY <1>1 DEF Mappings, Entry
<1> HIDE DEF s, k
<1>5. FirstOf(s, k) # 0 => s[FirstOf(s, k)].val \in Value
  <2>1. FirstOf(s, k) # 0 => s[FirstOf(s, k)] \in Mapping
    BY <1>2, Find
  <2> QED
    BY <2>1 DEF Mapping
<1>6. FirstOf(s, k) = 0
  BY <1>3, <1>4, <1>5, TableAssumption
<1> QED
  BY <1>1, <1>6 DEF Entry, s, k

\* Nobody else writes to the bucket before the call returns.
LEMMA ErasedStays ==
  ASSUME RemovesWhenFound
  PROVE  IInv /\ RemoveErases /\ [Next]_vars => RemoveErases'
<1> SUFFICES ASSUME IInv, RemoveErases, [Next]_vars,
                    NEW t \in Thread, pc'[t] = "unlock", op'[t] = "remove_mapping"
             PROVE  Entry(bucket[t], key[t])' = 0
  BY DEF RemoveErases
<1>1. CASE UNCHANGED vars
  BY <1>1 DEF vars, table, local, RemoveErases, Entry
<1>2. ASSUME \/ \E o \in KeyOps, k \in Key, v \in Value \cup {Absent} : CallKeyOp(t, o, k, v)
             \/ CallGetMap(t)
             \/ Proceed(t)
      PROVE  Entry(bucket[t], key[t])' = 0
  <2>1. ~ \E o \in KeyOps, k \in Key, v \in Value \cup {Absent} : CallKeyOp(t, o, k, v)
    BY DEF CallKeyOp, Goto, IInv, TypeOK
  <2>2. ~ (CallGetMap(t) \/ LockShared(t) \/ LockExclusive(t) \/ FindEntry(t) \/ LockNext(t))
    BY DEF CallGetMap, LockShared, LockExclusive, FindEntry, LockNext, Goto, local, IInv, TypeOK,
           CallInv, Ops, KeyOps
  <2>3. ~ (ReadValue(t) \/ WriteMapping(t) \/ UnlockBucket(t))
    BY DEF ReadValue, WriteMapping, UnlockBucket, Return, Goto, local, IInv, TypeOK
  <2>4. ~ (CopyBucket(t) \/ UnlockOne(t))
    BY DEF CopyBucket, UnlockOne, Return, Goto, local, IInv, TypeOK, CallInv, Ops, KeyOps
  <2>5. EraseMapping(t)
    BY <1>2, <2>1, <2>2, <2>3, <2>4 DEF Proceed
  <2> QED
    BY <2>5, EraseLeavesNone
<1>3. ASSUME NEW u \in Thread, u # t,
             \/ \E o \in KeyOps, k \in Key, v \in Value \cup {Absent} : CallKeyOp(u, o, k, v)
             \/ CallGetMap(u)
             \/ Proceed(u)
      PROVE  Entry(bucket[t], key[t])' = 0
  <2>1. pc'[t] = pc[t] /\ op'[t] = op[t] /\ key'[t] = key[t] /\ bucket'[t] = bucket[t]
    <3>1. CASE \/ \E o \in KeyOps, k \in Key, v \in Value \cup {Absent} : CallKeyOp(u, o, k, v)
               \/ CallGetMap(u)
      BY <1>3, <3>1 DEF CallKeyOp, CallGetMap, Goto, table, IInv, TypeOK
    <3>2. CASE LockShared(u) \/ LockExclusive(u) \/ FindEntry(u) \/ ReadValue(u)
                 \/ WriteMapping(u) \/ EraseMapping(u) \/ UnlockBucket(u)
      BY <1>3, <3>2 DEF LockShared, LockExclusive, FindEntry, ReadValue, WriteMapping,
                        EraseMapping, UnlockBucket, Return, Goto, local, IInv, TypeOK
    <3>3. CASE LockNext(u) \/ CopyBucket(u) \/ UnlockOne(u)
      BY <1>3, <3>3 DEF LockNext, CopyBucket, UnlockOne, Return, Goto, local, IInv, TypeOK
    <3> QED
      BY <1>3, <3>1, <3>2, <3>3 DEF Proceed
  <2>2. Entry(bucket[t], key[t]) = 0 /\ bucket[t] \in Bucket /\ writer[bucket[t]] = t
    BY <2>1 DEF RemoveErases, IInv, TypeOK, LockInv
  <2>3. data'[bucket[t]] = data[bucket[t]]
    <3>1. CASE WriteMapping(u) \/ EraseMapping(u)
      <4>1. writer[bucket[u]] = u
        BY <3>1, Writer DEF WriteMapping, EraseMapping
      <4>2. bucket[t] # bucket[u]
        BY <1>3, <2>2, <4>1
      <4> QED
        BY <2>2, <3>1, <4>2, WriteFacts, EraseFacts
    <3>2. CASE ~ (WriteMapping(u) \/ EraseMapping(u))
      <4>1. data' = data
        BY <1>3, <3>2
        DEF Proceed, CallKeyOp, CallGetMap, LockShared, LockExclusive, FindEntry, ReadValue,
            UnlockBucket, LockNext, CopyBucket, UnlockOne, table
      <4> QED
        BY <4>1
    <3> QED
      BY <3>1, <3>2
  <2> QED
    BY <2>1, <2>2, <2>3 DEF Entry
<1> QED
  BY <1>1, <1>2, <1>3 DEF Next

\* Once remove_mapping of lookup_table has done its work the key has no
\* mapping until the lock is released, for any keys, buckets and hash
\* function (t_hash_table.h:47-54).
THEOREM RemovedIsGone == ASSUME RemovesWhenFound PROVE Spec => []RemoveErases
<1>1. Init => RemoveErases
  BY DEF Init, RemoveErases
<1> QED
  BY <1>1, ErasedStays, Inductive, PTL DEF Spec
=============================================================================
