----------------------- MODULE HierarchicalMutexProofs -----------------------
(***************************************************************************)
(* Proofs about hierarchical_mutex, for any threads, mutexes and levels,   *)
(* and any widths of unsigned and unsigned long.                           *)
(***************************************************************************)
EXTENDS HierarchicalMutex, SequenceTheorems, TLAPS

Unlocking == {"unlock", "unwind_unlock"}

\* How many scopes thread t is in, and the level it should have in the
\* first i of them.
Depth(t) == IF stage[t] \in Unlocking THEN Len(held[t]) - 1 ELSE Len(held[t])
DueIn(t, i) == IF i = 0 THEN ULongMax ELSE Level[held[t][i]]

Holds(t, m) == \E i \in 1..Len(held[t]) : held[t][i] = m

\* A thread owns what it holds and what it has just acquired.
OwnerInv ==
  \A t \in Locker, m \in Mutex :
    owner[m] = t <=> Holds(t, m) \/ (stage[t] = "update" /\ target[t] = m)

\* Each mutex a thread holds is below the ones it locked before.
Descending ==
  \A t \in Locker : \A i, j \in 1..Len(held[t]) :
    i < j => Level[held[t][j]] < Level[held[t][i]]

\* Each mutex a thread holds has saved the level of the scope around it.
SavedInv ==
  \A t \in Locker : \A i \in 1..Len(held[t]) :
    previous[held[t][i]] = Truncated(DueIn(t, i - 1))

\* LevelIsLast, by position.
LevelInv ==
  \A t \in Locker :
    level[t] \in {DueIn(t, Depth(t)), Truncated(DueIn(t, Depth(t)))}

\* What a thread knows at its position: the check has passed, or there is a
\* mutex to release.
PositionInv ==
  \A t \in Locker :
    /\ stage[t] \in {"lock", "try_lock", "update"} => Level[target[t]] < level[t]
    /\ stage[t] \in Unlocking => Len(held[t]) > 0

IInv == HMTypeOK /\ OwnerInv /\ Descending /\ SavedInv /\ LevelInv /\ PositionInv
-----------------------------------------------------------------------------
(* Numbers and sequences *)

\* Cutting a number to an unsigned makes it no larger, and cutting it again
\* changes nothing.
LEMMA TruncatedFacts ==
  ASSUME NEW n \in 0..ULongMax
  PROVE  /\ Truncated(n) \in 0..(UIntMod - 1)
         /\ Truncated(n) \in 0..ULongMax
         /\ Truncated(n) <= n
         /\ Truncated(Truncated(n)) = Truncated(n)
<1> USE HierarchyAssumption
<1>1. n % UIntMod \in 0..(UIntMod - 1)
  OBVIOUS
<1>2. n % UIntMod <= n
  OBVIOUS
<1>3. (n % UIntMod) % UIntMod = n % UIntMod
  BY <1>1
<1> QED
  BY <1>1, <1>2, <1>3 DEF Truncated

\* Front drops the last element.
LEMMA FrontFacts ==
  ASSUME NEW S, NEW s \in Seq(S), Len(s) > 0
  PROVE  /\ Front(s) \in Seq(S)
         /\ Len(Front(s)) = Len(s) - 1
         /\ \A i \in 1..(Len(s) - 1) : Front(s)[i] = s[i]
<1>1. PICK n : n = Len(s) - 1
  OBVIOUS
<1>2. n \in Nat /\ \A i \in 1..n : s[i] \in S
  BY <1>1
<1>3. PICK z : z = Front(s)
  OBVIOUS
<1>4. /\ z \in Seq(S)
      /\ Len(z) = IF 1 <= n THEN n - 1 + 1 ELSE 0
      /\ \A i \in 1..(n - 1 + 1) : z[i] = s[1 + i - 1]
  BY <1>1, <1>2, <1>3, SubSeqProperties DEF Front
<1>5. Len(z) = n /\ \A i \in 1..n : z[i] = s[i]
  BY <1>2, <1>4
<1> QED
  BY <1>1, <1>3, <1>4, <1>5

\* Append adds one element and keeps the others.
LEMMA AppendFacts ==
  ASSUME NEW S, NEW s \in Seq(S), NEW e \in S
  PROVE  /\ Append(s, e) \in Seq(S)
         /\ Len(Append(s, e)) = Len(s) + 1
         /\ \A i \in 1..Len(s) : Append(s, e)[i] = s[i]
         /\ Append(s, e)[Len(s) + 1] = e
  OBVIOUS

\* What the invariant says of the levels of one thread.
LEMMA Levels ==
  ASSUME IInv, NEW t \in Locker
  PROVE  /\ held[t] \in Seq(Mutex)
         /\ Len(held[t]) \in Nat
         /\ Depth(t) \in 0..Len(held[t])
         /\ \A i \in 0..Len(held[t]) : DueIn(t, i) \in 0..ULongMax
         /\ level[t] <= DueIn(t, Depth(t))
         /\ Truncated(level[t]) = Truncated(DueIn(t, Depth(t)))
         /\ level[t] \in 0..ULongMax
<1> USE HierarchyAssumption
<1>1. held[t] \in Seq(Mutex) /\ Len(held[t]) \in Nat /\ level[t] \in 0..ULongMax
  BY DEF IInv, HMTypeOK
<1>2. Depth(t) \in 0..Len(held[t])
  BY <1>1 DEF IInv, PositionInv, Depth
<1>3. \A i \in 0..Len(held[t]) : DueIn(t, i) \in 0..ULongMax
  BY <1>1 DEF DueIn
<1>4. DueIn(t, Depth(t)) \in 0..ULongMax
  BY <1>2, <1>3
<1>5. level[t] \in {DueIn(t, Depth(t)), Truncated(DueIn(t, Depth(t)))}
  BY DEF IInv, LevelInv
<1>6. /\ Truncated(DueIn(t, Depth(t))) <= DueIn(t, Depth(t))
      /\ Truncated(Truncated(DueIn(t, Depth(t)))) = Truncated(DueIn(t, Depth(t)))
  BY <1>4, TruncatedFacts
<1>7. level[t] <= DueIn(t, Depth(t))
  BY <1>4, <1>5, <1>6
<1>8. Truncated(level[t]) = Truncated(DueIn(t, Depth(t)))
  BY <1>5, <1>6
<1> QED
  BY <1>1, <1>2, <1>3, <1>7, <1>8

\* A thread holds no mutex twice.
LEMMA HeldOnce ==
  ASSUME IInv, NEW t \in Locker,
         NEW i \in 1..Len(held[t]), NEW j \in 1..Len(held[t]), held[t][i] = held[t][j]
  PROVE  i = j
<1> USE HierarchyAssumption
<1>1. held[t] \in Seq(Mutex) /\ Len(held[t]) \in Nat
  BY Levels
<1>2. Level[held[t][i]] \in Nat /\ Level[held[t][j]] \in Nat
  BY <1>1
<1>3. ~(i < j) /\ ~(j < i)
  BY <1>2 DEF IInv, Descending
<1> QED
  BY <1>1, <1>3
-----------------------------------------------------------------------------
(* The invariant is inductive *)

LEMMA InitInv == HMInit => IInv
<1> SUFFICES ASSUME HMInit PROVE IInv
  OBVIOUS
<1> USE HierarchyAssumption DEF HMInit
<1>1. HMTypeOK
  BY DEF HMTypeOK, Positions
<1>2. \A t \in Locker : held[t] = <<>> /\ Len(held[t]) = 0 /\ stage[t] = "run"
  OBVIOUS
<1>3. OwnerInv
  BY <1>2 DEF OwnerInv, Holds
<1>4. Descending /\ SavedInv
  BY <1>2 DEF Descending, SavedInv
<1>5. LevelInv /\ PositionInv
  BY <1>2 DEF LevelInv, PositionInv, Depth, DueIn, Unlocking
<1> QED
  BY <1>1, <1>3, <1>4, <1>5 DEF IInv

\* A step that changes neither what is held nor who owns it, nor any level.
LEMMA QuietStep ==
  ASSUME IInv, NEW t \in Locker, NEW l \in Positions \ Unlocking,
         stage[t] \notin Unlocking, stage[t] # "update", l # "update", SetStage(t, l),
         UNCHANGED <<owner, previous, level, held>>,
         target' \in [Locker -> Mutex],
         \A u \in Locker \ {t} : target'[u] = target[u],
         l \in {"lock", "try_lock"} => Level[target'[t]] < level[t]
  PROVE  IInv'
<1> USE DEF IInv
<1>1. HMTypeOK'
  BY DEF HMTypeOK, SetStage
<1>2. \A u \in Locker : /\ stage'[u] \in Unlocking <=> stage[u] \in Unlocking
                        /\ stage'[u] = "update" <=> stage[u] = "update"
                        /\ u # t => stage'[u] = stage[u]
                        /\ stage'[t] = l
  BY DEF HMTypeOK, SetStage, Unlocking
<1>3. OwnerInv'
  BY <1>2 DEF OwnerInv, Holds
<1>4. Descending' /\ SavedInv'
  BY DEF Descending, SavedInv, DueIn
<1>5. \A u \in Locker : \A i : DueIn(u, i)' = DueIn(u, i)
  BY DEF DueIn
<1>6. \A u \in Locker : Depth(u)' = Depth(u)
  BY <1>2 DEF Depth
<1>7. LevelInv'
  BY <1>5, <1>6 DEF LevelInv, DueIn
<1>8. PositionInv'
  BY <1>2 DEF PositionInv
<1> QED
  BY <1>1, <1>3, <1>4, <1>7, <1>8

\* Acquire: the mutex was free, so that no thread held it.
LEMMA AcquireInv ==
  ASSUME IInv, NEW t \in Locker, Acquire(t)
  PROVE  IInv'
<1> USE DEF IInv, Acquire
<1>1. HMTypeOK'
  BY DEF HMTypeOK, SetStage, Positions
<1>2. /\ stage'[t] = "update"
      /\ \A u \in Locker \ {t} : stage'[u] = stage[u]
      /\ target[t] \in Mutex
      /\ stage[t] \notin Unlocking \cup {"update"}
  BY DEF HMTypeOK, SetStage, Unlocking
<1>3. \A u \in Locker, m \in Mutex : Holds(u, m)' <=> Holds(u, m)
  BY DEF Holds
<1>4. OwnerInv'
  <2> SUFFICES ASSUME NEW u \in Locker, NEW m \in Mutex
               PROVE  owner'[m] = u <=>
                        Holds(u, m) \/ (stage'[u] = "update" /\ target[u] = m)
    BY <1>3 DEF OwnerInv
  <2>1. owner[m] = u <=> Holds(u, m) \/ (stage[u] = "update" /\ target[u] = m)
    BY DEF OwnerInv
  <2>2. CASE m = target[t]
    <3>1. owner'[m] = t /\ owner[m] = Nobody
      BY <2>2 DEF HMTypeOK
    <3>2. CASE u = t
      BY <1>2, <2>2, <3>1, <3>2
    <3>3. CASE u # t
      BY <1>2, <2>1, <3>1, <3>3, HierarchyAssumption
    <3> QED
      BY <3>2, <3>3
  <2>3. CASE m # target[t]
    <3>1. owner'[m] = owner[m]
      BY <2>3 DEF HMTypeOK
    <3> QED
      BY <1>2, <2>1, <2>3, <3>1
  <2> QED
    BY <2>2, <2>3
<1>5. Descending' /\ SavedInv'
  BY DEF Descending, SavedInv, DueIn
<1>6. \A u \in Locker : Depth(u)' = Depth(u)
  BY <1>2 DEF Depth, Unlocking
<1>7. LevelInv'
  BY <1>6 DEF LevelInv, DueIn
<1>8. PositionInv'
  BY <1>2 DEF PositionInv, Unlocking
<1> QED
  BY <1>1, <1>4, <1>5, <1>7, <1>8

\* Update: the new mutex is below the ones held, and saves the level of the
\* thread before it takes its own.
LEMMA UpdateInv ==
  ASSUME IInv, NEW t \in Locker, Update(t)
  PROVE  IInv'
<1>0. /\ level[t] \in Nat
      /\ level[t] <= DueIn(t, Depth(t))
      /\ Truncated(level[t]) = Truncated(DueIn(t, Depth(t)))
      /\ HMTypeOK /\ OwnerInv /\ Descending /\ SavedInv /\ LevelInv /\ PositionInv
  BY Levels, HierarchyAssumption DEF IInv
<1> USE <1>0, HierarchyAssumption
<1>a. PICK n, m : n = Len(held[t]) /\ m = target[t]
  OBVIOUS
<1>1. /\ m \in Mutex
      /\ stage[t] = "update" /\ stage'[t] = "run"
      /\ \A u \in Locker \ {t} : stage'[u] = stage[u] /\ held'[u] = held[u] /\ level'[u] = level[u]
      /\ level'[t] = Level[m]
      /\ held'[t] = Append(held[t], m)
      /\ held[t] \in Seq(Mutex) /\ n \in Nat
      /\ previous'[m] = Truncated(level[t])
      /\ \A k \in Mutex \ {m} : previous'[k] = previous[k]
      /\ owner' = owner /\ target' = target
  BY <1>a DEF HMTypeOK, SetStage, Update
<1>2. /\ Len(held'[t]) = n + 1
      /\ \A i \in 1..n : held'[t][i] = held[t][i]
      /\ held'[t][n + 1] = m
      /\ held'[t] \in Seq(Mutex)
  BY <1>a, <1>1, AppendFacts
<1>b. Depth(t) = n /\ Level[m] < level[t]
  BY <1>a, <1>1 DEF Depth, Unlocking, PositionInv
<1>c. \A i : i \in 1..(n + 1) <=> i \in 1..n \/ i = n + 1
  BY <1>1
<1>3. ASSUME NEW i \in 1..n PROVE Level[m] < Level[held[t][i]]
  <2>1. n \in 1..n /\ i <= n /\ i \in Nat /\ n # 0
    BY <1>1
  <2>2. DueIn(t, n) = Level[held[t][n]]
    BY <2>1 DEF DueIn
  <2>3. held[t][n] \in Mutex /\ held[t][i] \in Mutex
    BY <1>a, <1>1, <2>1
  <2>4. Level[m] \in Nat /\ Level[held[t][n]] \in Nat /\ Level[held[t][i]] \in Nat
    BY <1>1, <2>3
  <2>5. i = n \/ Level[held[t][n]] < Level[held[t][i]]
    BY <1>a, <1>1, <2>1 DEF Descending
  <2> QED
    BY <1>b, <2>2, <2>4, <2>5
<1>4. owner[m] = t
  BY <1>a, <1>1 DEF OwnerInv
<1>5. \A u \in Locker : ~Holds(u, m)
  <2>1. ~Holds(t, m)
    <3>1. \A i \in 1..n : held[t][i] # m
      BY <1>1, <1>3
    <3> QED
      BY <1>a, <3>1 DEF Holds
  <2>2. \A u \in Locker \ {t} : ~Holds(u, m)
    BY <1>1, <1>4 DEF OwnerInv
  <2> QED
    BY <2>1, <2>2
<1>6. HMTypeOK'
  <2>1. Truncated(level[t]) \in 0..(UIntMod - 1) /\ Level[m] \in 0..ULongMax
    BY <1>1, TruncatedFacts DEF HMTypeOK
  <2>2. held' \in [Locker -> Seq(Mutex)]
    BY <1>1, <1>2 DEF HMTypeOK, Update
  <2> QED
    BY <1>a, <2>1, <2>2 DEF HMTypeOK, SetStage, Positions, Update
<1>7. OwnerInv'
  <2>1. \A k \in Mutex : Holds(t, k)' <=> Holds(t, k) \/ k = m
    BY <1>a, <1>c, <1>2 DEF Holds
  <2>2. \A u \in Locker \ {t} : \A k \in Mutex : Holds(u, k)' <=> Holds(u, k)
    BY <1>1 DEF Holds
  <2> QED
    BY <1>a, <1>1, <2>1, <2>2 DEF OwnerInv
<1>8. Descending'
  <2>1. ASSUME NEW u \in Locker \ {t} PROVE
          \A i, j \in 1..Len(held'[u]) :
            i < j => Level[held'[u][j]] < Level[held'[u][i]]
    BY <1>1 DEF Descending
  <2>2. \A i, j \in 1..Len(held'[t]) :
            i < j => Level[held'[t][j]] < Level[held'[t][i]]
    <3>1. ASSUME NEW i \in 1..n, NEW j \in 1..n, i < j
          PROVE  Level[held[t][j]] < Level[held[t][i]]
      BY <1>a, <3>1 DEF Descending
    <3>2. ASSUME NEW i \in 1..(n + 1), NEW j \in 1..(n + 1), i < j
          PROVE  Level[held'[t][j]] < Level[held'[t][i]]
      <4>1. i \in 1..n /\ (j \in 1..n \/ j = n + 1)
        BY <1>1, <3>2
      <4>2. CASE j \in 1..n
        BY <1>2, <3>1, <3>2, <4>1, <4>2
      <4>3. CASE j = n + 1
        BY <1>2, <1>3, <4>1, <4>3
      <4> QED
        BY <4>1, <4>2, <4>3
    <3> QED
      BY <1>2, <3>2
  <2> QED
    BY <2>1, <2>2 DEF Descending
<1>9. SavedInv'
  <2>1. ASSUME NEW u \in Locker \ {t}, NEW i \in 1..Len(held'[u])
        PROVE  previous'[held'[u][i]] = Truncated(DueIn(u, i - 1)')
    <3>1. held'[u] = held[u] /\ held[u][i] \in Mutex
      BY <1>1, <2>1 DEF HMTypeOK
    <3>2. held[u][i] # m
      BY <1>5, <3>1 DEF Holds
    <3>3. DueIn(u, i - 1)' = DueIn(u, i - 1)
      BY <3>1 DEF DueIn
    <3> QED
      BY <1>1, <3>1, <3>2, <3>3 DEF SavedInv
  <2>2. ASSUME NEW i \in 1..n
        PROVE  previous'[held'[t][i]] = Truncated(DueIn(t, i - 1)')
    <3>1. held'[t][i] = held[t][i] /\ held[t][i] \in Mutex
      BY <1>a, <1>1, <1>2
    <3>2. held[t][i] # m
      BY <1>a, <1>5 DEF Holds
    <3>3. DueIn(t, i - 1)' = DueIn(t, i - 1)
      BY <1>1, <1>2 DEF DueIn
    <3>4. previous[held[t][i]] = Truncated(DueIn(t, i - 1))
      BY <1>a DEF SavedInv
    <3>5. previous'[held[t][i]] = previous[held[t][i]]
      BY <1>1, <3>1, <3>2
    <3> QED
      BY <3>1, <3>3, <3>4, <3>5
  <2>3. ASSUME NEW i, i = n + 1
        PROVE  previous'[held'[t][i]] = Truncated(DueIn(t, i - 1)')
    <3>1. DueIn(t, i - 1)' = DueIn(t, i - 1) /\ i - 1 = n
      BY <1>1, <1>2, <2>3 DEF DueIn
    <3>2. Truncated(level[t]) = Truncated(DueIn(t, n))
      BY <1>b
    <3> QED
      BY <1>1, <1>2, <2>3, <3>1, <3>2
  <2>4. ASSUME NEW i \in 1..Len(held'[t])
        PROVE  previous'[held'[t][i]] = Truncated(DueIn(t, i - 1)')
    <3>1. i \in 1..n \/ i = n + 1
      BY <1>c, <1>2
    <3> QED
      BY <2>2, <2>3, <3>1
  <2> QED
    BY <2>1, <2>4 DEF SavedInv
<1>10. LevelInv'
  <2>1. ASSUME NEW u \in Locker \ {t}
        PROVE  Depth(u)' = Depth(u) /\ \A i : DueIn(u, i)' = DueIn(u, i)
    BY <1>1 DEF Depth, DueIn
  <2>2. ASSUME NEW i, i = n + 1
        PROVE  Depth(t)' = i /\ DueIn(t, i)' = Level[m]
    BY <1>1, <1>2, <2>2 DEF Depth, DueIn, Unlocking
  <2>3. ASSUME NEW u \in Locker \ {t}
        PROVE  level'[u] \in {DueIn(u, Depth(u))', Truncated(DueIn(u, Depth(u))')}
    BY <1>1, <2>1 DEF LevelInv, DueIn
  <2>4. level'[t] \in {DueIn(t, Depth(t))', Truncated(DueIn(t, Depth(t))')}
    BY <1>1, <2>2 DEF DueIn
  <2> QED
    BY <2>3, <2>4 DEF LevelInv
<1>11. PositionInv'
  BY <1>1 DEF PositionInv, Unlocking
<1> QED
  BY <1>6, <1>7, <1>8, <1>9, <1>10, <1>11 DEF IInv

\* Restore: the thread gets back the level of the scope around the last one.
LEMMA RestoreInv ==
  ASSUME IInv, NEW t \in Locker, Restore(t)
  PROVE  IInv'
<1> DEFINE n == Len(held[t])
           l == IF stage[t] = "run" THEN "unlock" ELSE "unwind_unlock"
<1> USE HierarchyAssumption DEF IInv, Restore
<1>1. /\ l \in Unlocking /\ stage'[t] = l /\ stage[t] \in {"run", "unwind"}
      /\ \A u \in Locker \ {t} : stage'[u] = stage[u] /\ level'[u] = level[u]
      /\ held[t] \in Seq(Mutex) /\ n \in Nat
      /\ level'[t] = previous[Last(held[t])]
  BY DEF HMTypeOK, SetStage, Unlocking
<1>2. n > 0 /\ Last(held[t]) = held[t][n] /\ held[t][n] \in Mutex
  BY <1>1 DEF Last
<1>3. level'[t] = Truncated(DueIn(t, n - 1))
  BY <1>1, <1>2 DEF SavedInv
<1>4. level'[t] \in 0..ULongMax
  <2>1. DueIn(t, n - 1) \in 0..ULongMax
    BY <1>1, <1>2, Levels
  <2> QED
    BY <1>3, <2>1, TruncatedFacts
<1>5. HMTypeOK'
  BY <1>1, <1>4 DEF HMTypeOK, SetStage, Positions
<1>6. \A u \in Locker : \A k \in Mutex : Holds(u, k)' <=> Holds(u, k)
  BY DEF Holds
<1>7. OwnerInv'
  BY <1>1, <1>6 DEF OwnerInv, Unlocking
<1>8. Descending' /\ SavedInv'
  BY DEF Descending, SavedInv, DueIn
<1>9. LevelInv'
  <2>1. ASSUME NEW u \in Locker \ {t}
        PROVE  level'[u] \in {DueIn(u, Depth(u))', Truncated(DueIn(u, Depth(u))')}
    BY <1>1 DEF LevelInv, DueIn, Depth
  <2>2. level'[t] = Truncated(DueIn(t, Depth(t))')
    BY <1>1, <1>3 DEF DueIn, Depth
  <2> QED
    BY <2>1, <2>2 DEF LevelInv
<1>10. PositionInv'
  BY <1>1, <1>2 DEF PositionInv, Unlocking
<1> QED
  BY <1>5, <1>7, <1>8, <1>9, <1>10

\* Release: the last mutex has no owner and leaves the list.
LEMMA ReleaseInv ==
  ASSUME IInv, NEW t \in Locker, Release(t)
  PROVE  IInv'
<1> DEFINE l == IF stage[t] = "unlock" THEN "run" ELSE "unwind"
<1> USE HierarchyAssumption DEF IInv, Release
<1>0. PICK n, m : n = Len(held[t]) /\ m = held[t][n]
  OBVIOUS
<1>1. /\ l \in {"run", "unwind"} /\ stage'[t] = l /\ stage[t] \in Unlocking
      /\ \A u \in Locker \ {t} : stage'[u] = stage[u] /\ held'[u] = held[u]
      /\ held[t] \in Seq(Mutex) /\ n \in Nat
      /\ held'[t] = Front(held[t])
  BY <1>0 DEF HMTypeOK, SetStage, Unlocking
<1>2. n > 0
  BY <1>0, <1>1 DEF PositionInv
<1>3. m \in Mutex /\ Last(held[t]) = m
  BY <1>0, <1>1, <1>2 DEF Last
<1>4. /\ held'[t] \in Seq(Mutex)
      /\ Len(held'[t]) = n - 1
      /\ \A i \in 1..(n - 1) : held'[t][i] = held[t][i]
  BY <1>0, <1>1, <1>2, FrontFacts
<1>5. owner'[m] = Nobody /\ \A k \in Mutex \ {m} : owner'[k] = owner[k]
  BY <1>0, <1>3 DEF HMTypeOK
<1>6. owner[m] = t
  BY <1>0, <1>1, <1>2, <1>3 DEF OwnerInv, Holds
<1>7. ASSUME NEW i \in 1..(n - 1) PROVE held[t][i] # m
  <2>1. i \in 1..n /\ n \in 1..n /\ i # n
    BY <1>1, <1>2
  <2> QED
    BY <1>0, <2>1, HeldOnce
<1>8. HMTypeOK'
  <2>1. held' \in [Locker -> Seq(Mutex)]
    BY <1>0, <1>1, <1>4 DEF HMTypeOK
  <2> QED
    BY <1>0, <1>1, <2>1 DEF HMTypeOK, SetStage, Positions
<1>9. OwnerInv'
  <2>1. ASSUME NEW k \in Mutex PROVE Holds(t, k)' <=> Holds(t, k) /\ k # m
    <3>1. Holds(t, k)' <=> \E i \in 1..(n - 1) : held[t][i] = k
      BY <1>4 DEF Holds
    <3>2. Holds(t, k) <=> (\E i \in 1..(n - 1) : held[t][i] = k) \/ k = m
      <4>1. \A i : i \in 1..n <=> i \in 1..(n - 1) \/ i = n
        BY <1>1, <1>2
      <4> QED
        BY <1>0, <4>1 DEF Holds
    <3> QED
      BY <1>7, <3>1, <3>2
  <2>2. \A u \in Locker \ {t} : \A k \in Mutex : Holds(u, k)' <=> Holds(u, k)
    BY <1>0, <1>1 DEF Holds
  <2>3. ASSUME NEW u \in Locker, NEW k \in Mutex \ {m}
        PROVE  owner'[k] = u <=> Holds(u, k)' \/ (stage'[u] = "update" /\ target'[u] = k)
    BY <1>0, <1>1, <1>5, <2>1, <2>2 DEF OwnerInv, Unlocking
  <2>4. ASSUME NEW u \in Locker
        PROVE  ~Holds(u, m)' /\ ~(stage'[u] = "update" /\ target'[u] = m)
    <3>1. CASE u = t
      <4>1. ~Holds(t, m)'
        BY <1>0, <1>1, <1>2, <1>4, <1>7 DEF Holds
      <4> QED
        BY <1>0, <1>1, <3>1, <4>1
    <3>2. CASE u # t
      BY <1>0, <1>1, <1>3, <1>6, <2>2, <3>2 DEF OwnerInv, Holds
    <3> QED
      BY <3>1, <3>2
  <2> QED
    BY <1>0, <1>3, <1>5, <2>3, <2>4 DEF OwnerInv
<1>10. Descending'
  <2>1. ASSUME NEW u \in Locker \ {t} PROVE
          \A i, j \in 1..Len(held'[u]) :
            i < j => Level[held'[u][j]] < Level[held'[u][i]]
    BY <1>0, <1>1 DEF Descending
  <2>2. \A i, j \in 1..Len(held'[t]) :
            i < j => Level[held'[t][j]] < Level[held'[t][i]]
    <3>1. Len(held'[t]) = n - 1 /\ \A i \in 1..(n - 1) : i \in 1..Len(held[t])
      BY <1>0, <1>1, <1>4
    <3> QED
      BY <1>4, <3>1 DEF Descending
  <2> QED
    BY <2>1, <2>2 DEF Descending
<1>11. SavedInv'
  <2>1. ASSUME NEW u \in Locker \ {t}, NEW i \in 1..Len(held'[u])
        PROVE  previous'[held'[u][i]] = Truncated(DueIn(u, i - 1)')
    BY <1>0, <1>1, <2>1 DEF SavedInv, DueIn
  <2>2. ASSUME NEW i \in 1..Len(held'[t])
        PROVE  previous'[held'[t][i]] = Truncated(DueIn(t, i - 1)')
    <3>0. i \in 1..(n - 1) /\ i \in 1..n /\ (i - 1 = 0 \/ i - 1 \in 1..(n - 1))
      BY <1>1, <1>4
    <3>1. held'[t][i] = held[t][i] /\ i \in 1..n /\ DueIn(t, i - 1)' = DueIn(t, i - 1)
      BY <1>4, <3>0 DEF DueIn
    <3>2. previous[held[t][i]] = Truncated(DueIn(t, i - 1))
      BY <1>0, <3>1 DEF SavedInv
    <3> QED
      BY <3>1, <3>2
  <2> QED
    BY <2>1, <2>2 DEF SavedInv
<1>12. LevelInv'
  <2>1. ASSUME NEW u \in Locker \ {t}
        PROVE  level'[u] \in {DueIn(u, Depth(u))', Truncated(DueIn(u, Depth(u))')}
    BY <1>0, <1>1 DEF LevelInv, DueIn, Depth
  <2>2. ASSUME NEW i, i = n - 1
        PROVE  Depth(t)' = i /\ Depth(t) = i /\ DueIn(t, i)' = DueIn(t, i)
    <3>1. Depth(t) = i
      BY <1>0, <1>1, <2>2 DEF Depth
    <3>2. Depth(t)' = i
      BY <1>1, <1>4, <2>2 DEF Depth, Unlocking
    <3>3. i = 0 \/ i \in 1..(n - 1)
      BY <1>1, <1>2, <2>2
    <3>4. DueIn(t, i)' = DueIn(t, i)
      BY <1>4, <3>3 DEF DueIn
    <3> QED
      BY <3>1, <3>2, <3>4
  <2>3. level'[t] \in {DueIn(t, Depth(t))', Truncated(DueIn(t, Depth(t))')}
    BY <1>0, <1>1, <2>2 DEF LevelInv, DueIn
  <2> QED
    BY <2>1, <2>3 DEF LevelInv
<1>13. PositionInv'
  BY <1>0, <1>1 DEF PositionInv, Unlocking
<1> QED
  BY <1>0, <1>8, <1>9, <1>10, <1>11, <1>12, <1>13

\* The calls, the failures and the end of an exception hold and release
\* nothing.
LEMMA QuietInv ==
  ASSUME IInv, NEW t \in Locker,
         \/ \E m \in Mutex : Call(t, m) \/ CallThrows(t, m)
         \/ TryLockFails(t)
         \/ Unwound(t)
  PROVE  IInv'
<1> USE DEF Positions, Unlocking
<1>1. target \in [Locker -> Mutex]
  BY DEF IInv, HMTypeOK
<1>2. ASSUME NEW m \in Mutex, Call(t, m) PROVE IInv'
  <2>1. target' \in [Locker -> Mutex] /\ target'[t] = m
    BY <1>1, <1>2 DEF Call
  <2>2. \A u \in Locker \ {t} : target'[u] = target[u]
    BY <1>1, <1>2 DEF Call
  <2>3. Level[m] < level[t]
    BY <1>2, HierarchyAssumption DEF Call, IInv, HMTypeOK
  <2>4. PICK l \in {"lock", "try_lock"} : SetStage(t, l)
    BY <1>2 DEF Call
  <2> QED
    BY <1>2, <2>1, <2>2, <2>3, <2>4, QuietStep DEF Call
<1>3. ASSUME NEW m \in Mutex, CallThrows(t, m) PROVE IInv'
  <2>1. stage[t] = "run" /\ SetStage(t, "unwind") /\ UNCHANGED <<owner, previous, level, target, held>>
    BY <1>3 DEF CallThrows
  <2> QED
    BY <1>1, <2>1, QuietStep
<1>4. CASE TryLockFails(t)
  <2>1. stage[t] = "try_lock" /\ SetStage(t, "run")
          /\ UNCHANGED <<owner, previous, level, target, held>>
    BY <1>4 DEF TryLockFails
  <2> QED
    BY <1>1, <2>1, QuietStep
<1>5. CASE Unwound(t)
  <2>1. stage[t] = "unwind" /\ SetStage(t, "run") /\ UNCHANGED <<owner, previous, level, target, held>>
    BY <1>5 DEF Unwound
  <2> QED
    BY <1>1, <2>1, QuietStep
<1> QED
  BY <1>2, <1>3, <1>4, <1>5

LEMMA NextInv == IInv /\ [HMNext]_hm_vars => IInv'
<1> SUFFICES ASSUME IInv, [HMNext]_hm_vars PROVE IInv'
  OBVIOUS
<1>1. CASE UNCHANGED hm_vars
  BY <1>1 DEF hm_vars, IInv, HMTypeOK, OwnerInv, Holds, Descending, SavedInv, DueIn,
              LevelInv, Depth, PositionInv
<1>2. ASSUME NEW t \in Locker, HMStep(t) PROVE IInv'
  <2>1. CASE Acquire(t)
    BY <2>1, AcquireInv
  <2>2. CASE Update(t)
    BY <2>2, UpdateInv
  <2>3. CASE Restore(t)
    BY <2>3, RestoreInv
  <2>4. CASE Release(t)
    BY <2>4, ReleaseInv
  <2>5. CASE \/ \E m \in Mutex : Call(t, m) \/ CallThrows(t, m)
             \/ TryLockFails(t)
             \/ Unwound(t)
    BY <2>5, QuietInv
  <2> QED
    BY <1>2, <2>1, <2>2, <2>3, <2>4, <2>5 DEF HMStep, HMProceed
<1> QED
  BY <1>1, <1>2 DEF HMNext
-----------------------------------------------------------------------------
(* Theorems *)

\* The inductive invariant holds in every reachable state.
THEOREM Inductive == HMSpec => []IInv
BY InitInv, NextInv, PTL DEF HMSpec

\* Every variable keeps its type; the level unlock restores is one that the
\* unsigned previous_hierarchy_value can hold (series_mutex.h:33, 47).
THEOREM TypeCorrect == HMSpec => []HMTypeOK
<1>1. IInv => HMTypeOK
  BY DEF IInv
<1> QED
  BY Inductive, <1>1, PTL

\* LevelIsLast for all levels and widths: what lock saves and unlock
\* restores nests like the scopes, through exceptions too
\* (series_mutex.h:26-43, 55-58).
THEOREM LevelsNest == HMSpec => []LevelIsLast
<1>1. ASSUME IInv, NEW t \in Locker
      PROVE  Due(Scopes(t)) = DueIn(t, Depth(t))
  <2>1. held[t] \in Seq(Mutex) /\ Len(held[t]) \in Nat
    BY <1>1, Levels
  <2>2. CASE stage[t] \in Unlocking
    <3>1. Scopes(t) = Front(held[t]) /\ Depth(t) = Len(held[t]) - 1
      BY <2>2 DEF Scopes, Depth, Unlocking
    <3>2. Len(held[t]) > 0
      BY <1>1, <2>2 DEF IInv, PositionInv
    <3>3. PICK n : n = Len(held[t]) - 1
      OBVIOUS
    <3>4. PICK s : s = Front(held[t])
      OBVIOUS
    <3>5. s \in Seq(Mutex) /\ Len(s) = n /\ \A i \in 1..n : s[i] = held[t][i]
      BY <2>1, <3>2, <3>3, <3>4, FrontFacts
    <3>6. n \in Nat
      BY <2>1, <3>2, <3>3
    <3>7. Due(s) = DueIn(t, n)
      BY <3>5, <3>6 DEF Due, DueIn, Last
    <3> QED
      BY <3>1, <3>3, <3>4, <3>7
  <2>3. CASE stage[t] \notin Unlocking
    BY <2>1, <2>3 DEF Scopes, Depth, Unlocking, Due, DueIn, Last
  <2> QED
    BY <2>2, <2>3
<1>2. IInv => LevelIsLast
  BY <1>1 DEF LevelIsLast, IInv, LevelInv
<1> QED
  BY Inductive, <1>2, PTL

\* No two threads wait for each other, and no chain of waiting threads is a
\* circle: the mutex a waiting thread is blocked on is below the last one it
\* holds, hence below the one it makes the thread before it wait for
\* (series_mutex.h:50-54).
THEOREM NoCircle == HMSpec => []NoCircularWait
<1>1. IInv => NoCircularWait
  <2> SUFFICES ASSUME IInv, NEW t \in Locker, NEW u \in Locker,
                      Waiting(t), owner[target[t]] = u, Waiting(u)
               PROVE  Level[target[u]] < Level[target[t]]
    BY DEF NoCircularWait
  <2> USE HierarchyAssumption
  <2>1. target[t] \in Mutex /\ target[u] \in Mutex
    BY DEF IInv, HMTypeOK
  <2>2. Holds(u, target[t])
    BY <2>1 DEF IInv, OwnerInv, Waiting
  <2>3. PICK i \in 1..Len(held[u]) : held[u][i] = target[t]
    BY <2>2 DEF Holds
  <2>4. held[u] \in Seq(Mutex) /\ Len(held[u]) \in Nat
    BY Levels
  <2>5. Depth(u) = Len(held[u])
    BY DEF Depth, Waiting, Unlocking
  <2>6. level[u] <= Level[held[u][Len(held[u])]] /\ level[u] \in Nat
    BY <2>3, <2>4, <2>5, Levels DEF DueIn
  <2>7. Level[held[u][Len(held[u])]] <= Level[target[t]]
    BY <2>3, <2>4 DEF IInv, Descending
  <2>8. Level[target[u]] < level[u]
    BY DEF IInv, PositionInv, Waiting
  <2>9. /\ Level[target[u]] \in Nat /\ Level[target[t]] \in Nat
        /\ Level[held[u][Len(held[u])]] \in Nat
    BY <2>1, <2>3, <2>4
  <2> QED
    BY <2>6, <2>7, <2>8, <2>9
<1> QED
  BY Inductive, <1>1, PTL
=============================================================================
