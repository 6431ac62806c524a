---------------------------- MODULE CacheProofs ----------------------------
(***************************************************************************)
(* Proofs about Cache for every set of keys, shards and goroutines and     *)
(* every bound.                                                            *)
(***************************************************************************)
EXTENDS Cache, FiniteSetTheorems, TLAPS

USE DEF store, bounds, mutexes, shedFlags, life, walk, Goto

-----------------------------------------------------------------------------
(* Facts about the operators the counters are compared with.               *)

(* A map's key set is finite, and so is the set of its units of weight.    *)
LEMMA FiniteStorage ==
    ASSUME NEW K \in SUBSET Keys
    PROVE  /\ IsFiniteSet(Present)
           /\ IsFiniteSet(K)
           /\ IsFiniteSet(WeightUnits(K))
<1>1. IsFiniteSet(Present) /\ IsFiniteSet(K)
  BY KeysFinite, FS_Subset DEF Present
<1>2. IsFiniteSet(K \X (1..MaxWeight))
  <2>1. IsFiniteSet(1..MaxWeight)
    BY FS_Interval, WeightType
  <2>. QED  BY <1>1, <2>1, FS_Product, Zenon
<1>3. WeightUnits(K) \subseteq K \X (1..MaxWeight)
  BY DEF WeightUnits
<1>. QED  BY <1>1, <1>2, <1>3, FS_Subset

(* removeLocked counts a removed entry out of both counters: what Remove   *)
(* subtracts is what the map and its weight lose.                          *)
LEMMA RemoveCounts ==
    ASSUME NEW K \in SUBSET Present, weight \in [Keys -> 0..MaxWeight], Remove(K)
    PROVE  /\ weight' \in [Keys -> 0..MaxWeight]
           /\ Cardinality(Present') = Cardinality(Present) - Cardinality(K)
           /\ Cardinality(WeightUnits(Keys)')
                = Cardinality(WeightUnits(Keys)) - Cardinality(WeightUnits(K))
<1>1. weight' = [k \in Keys |-> IF k \in K THEN 0 ELSE weight[k]]
  BY DEF Remove
<1>2. weight' \in [Keys -> 0..MaxWeight]
  BY <1>1, WeightType
<1>3. Present' = Present \ K /\ Present \cap K = K
  BY <1>1 DEF Present
<1>4. Cardinality(Present') = Cardinality(Present) - Cardinality(K)
  BY <1>3, FiniteStorage, FS_Difference, Zenon DEF Present
<1>5. WeightUnits(Keys)' = WeightUnits(Keys) \ WeightUnits(K)
  BY <1>1, WeightType DEF WeightUnits, Present
<1>6. WeightUnits(Keys) \cap WeightUnits(K) = WeightUnits(K)
  BY DEF WeightUnits, Present
<1>7. K \in SUBSET Keys
  BY DEF Present
<1>8. Cardinality(WeightUnits(Keys)')
        = Cardinality(WeightUnits(Keys)) - Cardinality(WeightUnits(K))
  BY <1>5, <1>6, <1>7, FiniteStorage, FS_Difference, Zenon
<1>. QED  BY <1>2, <1>4, <1>8

(* The units of weight of one key are as many as its weight.               *)
LEMMA UnitsCount ==
    ASSUME NEW k, NEW n \in Nat
    PROVE  IsFiniteSet({k} \X (1..n)) /\ Cardinality({k} \X (1..n)) = n
<1>1. IsFiniteSet(1..n) /\ Cardinality(1..n) = n
  <2>1. IsFiniteSet(1..n) /\ Cardinality(1..n) = IF 1 > n THEN 0 ELSE n - 1 + 1
    BY FS_Interval
  <2>. QED  BY <2>1
<1>2. IsFiniteSet({k}) /\ Cardinality({k}) = 1
  BY FS_Singleton, Zenon
<1>3. /\ IsFiniteSet({k} \X (1..n))
      /\ Cardinality({k} \X (1..n)) = Cardinality({k}) * Cardinality(1..n)
  BY <1>1, <1>2, FS_Product, Zenon
<1>4. 1 * n = n
  OBVIOUS
<1>. QED  BY <1>1, <1>2, <1>3, <1>4, Zenon

(* Storing weight w under k, over an entry or not.                         *)
LEMMA StoreCounts ==
    ASSUME NEW k \in Keys, NEW w \in 1..MaxWeight,
           weight \in [Keys -> 0..MaxWeight], weight' = [weight EXCEPT ![k] = w]
    PROVE  /\ Cardinality(Present')
                = Cardinality(Present) + (IF weight[k] = 0 THEN 1 ELSE 0)
           /\ Cardinality(WeightUnits(Keys)')
                = Cardinality(WeightUnits(Keys)) + w - weight[k]
<1>. DEFINE Units(n) == {k} \X (1..n)
            Rest == {u \in WeightUnits(Keys) : u[1] # k}
<1>1. Present' = Present \cup {k} /\ (k \in Present <=> weight[k] # 0)
  BY DEF Present
<1>2. Cardinality(Present')
        = Cardinality(Present) + (IF weight[k] = 0 THEN 1 ELSE 0)
  <2>1. IsFiniteSet(Present)
    BY FiniteStorage
  <2>2. Cardinality(Present \cup {k})
          = IF k \in Present THEN Cardinality(Present) ELSE Cardinality(Present) + 1
    BY <2>1, FS_AddElement, Zenon
  <2>. QED  BY <1>1, <2>1, <2>2, FS_CardinalityType
<1>3. \A n \in 0..MaxWeight : IsFiniteSet(Units(n)) /\ Cardinality(Units(n)) = n
  <2>1. 0..MaxWeight \subseteq Nat
    BY WeightType
  <2>. QED  BY <2>1, UnitsCount, Zenon
<1>4. IsFiniteSet(Rest)
  BY FiniteStorage, FS_Subset
<1>5. WeightUnits(Keys) = Rest \cup Units(weight[k]) /\ Rest \cap Units(weight[k]) = {}
  BY WeightType DEF WeightUnits
<1>6. WeightUnits(Keys)' = Rest \cup Units(w) /\ Rest \cap Units(w) = {}
  BY WeightType DEF WeightUnits
<1>7. Cardinality(WeightUnits(Keys)) = Cardinality(Rest) + weight[k]
  <2>1. IsFiniteSet(Units(weight[k])) /\ Cardinality(Units(weight[k])) = weight[k]
    BY <1>3, WeightType
  <2>2. Cardinality(Rest \cup Units(weight[k]))
          = Cardinality(Rest) + Cardinality(Units(weight[k])) - Cardinality(Rest \cap Units(weight[k]))
    BY <1>4, <2>1, FS_Union, Zenon
  <2>3. Cardinality(Rest \cap Units(weight[k])) = 0 /\ Cardinality(Rest) \in Nat
    BY <1>4, <1>5, FS_EmptySet, FS_CardinalityType, Zenon
  <2>4. Cardinality(Rest \cup Units(weight[k])) = Cardinality(Rest) + weight[k]
    <3>. HIDE DEF Rest, Units
    <3>. QED  BY <2>1, <2>2, <2>3, WeightType
  <2>. QED  BY <1>5, <2>4, Zenon
<1>8. Cardinality(WeightUnits(Keys)') = Cardinality(Rest) + w
  <2>1. IsFiniteSet(Units(w)) /\ Cardinality(Units(w)) = w
    BY <1>3, WeightType
  <2>2. Cardinality(Rest \cup Units(w))
          = Cardinality(Rest) + Cardinality(Units(w)) - Cardinality(Rest \cap Units(w))
    BY <1>4, <2>1, FS_Union, Zenon
  <2>3. Cardinality(Rest \cap Units(w)) = 0 /\ Cardinality(Rest) \in Nat
    BY <1>4, <1>6, FS_EmptySet, FS_CardinalityType, Zenon
  <2>4. Cardinality(Rest \cup Units(w)) = Cardinality(Rest) + w
    <3>. HIDE DEF Rest, Units
    <3>. QED  BY <2>1, <2>2, <2>3, WeightType
  <2>. QED  BY <1>6, <2>4, Zenon
<1>9. Cardinality(Rest) \in Nat /\ weight[k] \in Nat /\ w \in Nat
  BY <1>4, FS_CardinalityType, WeightType
<1>. QED  BY <1>2, <1>7, <1>8, <1>9

-----------------------------------------------------------------------------
(* What a step may do to the stored entries and the counters.              *)

StoresEntry(k, w) ==
    /\ weight' = [weight EXCEPT ![k] = w]
    /\ entries' = entries + (IF weight[k] = 0 THEN 1 ELSE 0)
    /\ bytes' = bytes + w - weight[k]

StoresTombstone(k) ==
    /\ weight' = [weight EXCEPT ![k] = 1]
    /\ entries' = entries + (IF weight[k] = 0 THEN 1 ELSE 0)
    /\ bytes' = bytes + (IF weight[k] = 0 THEN 1 ELSE 0)

(* A call's kind tells which arguments it has.                             *)
LEMMA CallShape ==
    ASSUME NEW c \in Calls
    PROVE  /\ c.op = "set" => c \in SetCalls
           /\ c.op = "resize" => c \in ResizeCalls
<1>1. c \in KeyCalls => c.op \in {"delete", "negative"}
  BY DEF KeyCalls
<1>2. c \in SweepCalls => c.op \in {"sweep", "clear", "reset", "close"}
  BY DEF SweepCalls
<1>3. c \in SetCalls => c.op = "set"
  BY DEF SetCalls
<1>4. c \in ResizeCalls => c.op = "resize"
  BY DEF ResizeCalls
<1>5. c = NoCall => c.op = "none"
  BY DEF NoCall
<1>. QED  BY <1>1, <1>2, <1>3, <1>4, <1>5 DEF Calls

(* Every step leaves the storage alone, removes entries and counts them    *)
(* out, stores one entry for a goroutine whose Set is under way in an      *)
(* unsealed cache, or stores a tombstone.                                  *)
LEMMA StoreStep ==
    ASSUME TypeOK, [Next]_vars
    PROVE  \/ UNCHANGED store
           \/ \E K \in SUBSET Present : Remove(K)
           \/ \E t \in Threads, k \in Keys, w \in 1..MaxWeight :
                 StoresEntry(k, w) /\ ~sealed /\ pc'[t] \in {"evict", "unlock"}
           \/ \E t \in Threads, k \in Keys :
                 /\ StoresTombstone(k)
                 /\ NegativeCache /\ ~closed /\ ~sealed /\ pc'[t] \in {"evict", "unlock"}
<1>1. ASSUME NEW t \in Threads, Upsert(t)
      PROVE  \E k \in Keys, w \in 1..MaxWeight :
                 StoresEntry(k, w) /\ ~sealed /\ pc'[t] \in {"evict", "unlock"}
  <2>1. call[t] \in Calls /\ call[t].op = "set"
    BY <1>1 DEF Upsert, Locked, TypeOK
  <2>2. call[t].key \in Keys /\ call[t].weight \in 1..MaxWeight
    BY <2>1, CallShape DEF SetCalls
  <2>3. /\ StoresEntry(call[t].key, call[t].weight)
        /\ ~sealed /\ pc'[t] \in {"evict", "unlock"}
    BY <1>1 DEF Upsert, Locked, StoresEntry, TypeOK
  <2>. QED  BY <2>2, <2>3
<1>2. ASSUME NEW t \in Threads, InsertNegative(t)
      PROVE  \E k \in Keys : StoresTombstone(k) /\ NegativeCache
                  /\ ~closed /\ ~sealed /\ pc'[t] \in {"evict", "unlock"}
  <2>1. PICK k \in Keys :
            /\ Enter(t, [op |-> "negative", key |-> k],
                     IF weight[k] = 0 THEN "evict" ELSE "unlock")
            /\ StoresTombstone(k) /\ NegativeCache /\ ~closed /\ ~sealed
    BY <1>2, Zenon DEF InsertNegative, StoresTombstone
  <2>2. pc'[t] \in {"evict", "unlock"}
    BY <2>1 DEF Enter, TypeOK
  <2>. QED  BY <2>1, <2>2
<1>3. ASSUME NEW t \in Threads,
             RemoveKey(t) \/ SweepShard(t) \/ ClearShard(t) \/ RemoveVictim(t)
      PROVE  \E K \in SUBSET Present : Remove(K)
  <2>1. \A s : KeysIn(s) \in SUBSET Present
    BY DEF KeysIn, Present
  <2>2. CASE RemoveKey(t)
    <3>. Remove({call[t].key} \cap Present) /\ {call[t].key} \cap Present \in SUBSET Present
      BY <2>2 DEF RemoveKey
    <3>. QED  OBVIOUS
  <2>3. CASE SweepShard(t)
    BY <2>1, <2>3 DEF SweepShard
  <2>4. CASE ClearShard(t)
    BY <2>1, <2>4 DEF ClearShard
  <2>5. CASE RemoveVictim(t)
    <3>. PICK k \in KeysIn(at[t]) : Remove({k})
      BY <2>5 DEF RemoveVictim
    <3>. QED  BY <2>1
  <2>. QED  BY <1>3, <2>2, <2>3, <2>4, <2>5
<1>4. ASSUME NEW t \in Threads, Start(t), ~InsertNegative(t)
      PROVE  UNCHANGED store
  BY <1>4, Zenon DEF Start, Set, Delete, CallOnKey, DeleteExpired, Tick, Clear, Reset, CallOnShards,
     Resize, Close
<1>5. ASSUME NEW t \in Threads, Work(t), ~Upsert(t), ~RemoveKey(t), ~SweepShard(t),
             ~ClearShard(t), ~RemoveVictim(t)
      PROVE  UNCHANGED store
  BY <1>5 DEF Work, Seal, SetBound, SkipUpsert, ResizeShard, FindVictim, NoVictim, UnlockShard
<1>6. ASSUME NEW t \in Threads, Shed(t)
      PROVE  UNCHANGED store
  BY <1>6 DEF Shed, ShedStart, ShedAcquire, ShedBusy, ShedMark, ShedLeave, ShedClear,
     ShedNext, ShedLock, ShedUnlock, ShedRelease, ShedAgain
<1>7. CASE Finished \/ UNCHANGED vars
  BY <1>7 DEF Finished, vars
<1>8. CASE \E t \in Threads : Start(t) \/ Work(t) \/ Shed(t)
  <2>. PICK t \in Threads : Start(t) \/ Work(t) \/ Shed(t)
    BY <1>8
  <2>. QED  BY <1>1, <1>2, <1>3, <1>4, <1>5, <1>6
<1>. QED  BY <1>7, <1>8 DEF Next

(* The byte counter can be trusted where no tombstone replaces an entry.   *)
CountersExact == EntriesExact /\ (NegativeCache \/ BytesExact)

(* Every step keeps the counters equal to what is stored.                  *)
LEMMA CountersStep ==
    ASSUME TypeOK, CountersExact, [Next]_vars
    PROVE  CountersExact'
<1>. USE DEF CountersExact, EntriesExact, BytesExact
<1>1. weight \in [Keys -> 0..MaxWeight] /\ entries \in Int /\ bytes \in Int
  BY DEF TypeOK
<1>2. /\ Cardinality(Present) \in Nat
      /\ \A K \in SUBSET Keys : /\ Cardinality(K) \in Nat
                               /\ Cardinality(WeightUnits(K)) \in Nat
  BY FiniteStorage, FS_CardinalityType
<1>3. CASE UNCHANGED store
  BY <1>3 DEF Present, WeightUnits
<1>4. ASSUME NEW K \in SUBSET Present, Remove(K)
      PROVE  CountersExact'
  <2>1. K \in SUBSET Keys
    BY DEF Present
  <2>2. /\ Cardinality(Present') = Cardinality(Present) - Cardinality(K)
        /\ Cardinality(WeightUnits(Keys)')
              = Cardinality(WeightUnits(Keys)) - Cardinality(WeightUnits(K))
    BY <1>1, <1>4, RemoveCounts
  <2>3. /\ entries' = entries - Cardinality(K)
        /\ bytes' = bytes - Cardinality(WeightUnits(K))
    BY <1>4 DEF Remove
  <2>. QED  BY <1>1, <1>2, <2>1, <2>2, <2>3
<1>5. ASSUME NEW k \in Keys, NEW w \in 1..MaxWeight, StoresEntry(k, w)
      PROVE  CountersExact'
  <2>1. /\ Cardinality(Present')
              = Cardinality(Present) + (IF weight[k] = 0 THEN 1 ELSE 0)
        /\ Cardinality(WeightUnits(Keys)') = Cardinality(WeightUnits(Keys)) + w - weight[k]
    BY <1>1, <1>5, StoreCounts, Zenon DEF StoresEntry
  <2>. QED  BY <1>1, <1>2, <1>5, <2>1, WeightType DEF StoresEntry
<1>6. ASSUME NEW k \in Keys, StoresTombstone(k), NegativeCache
      PROVE  CountersExact'
  <2>1. Cardinality(Present') = Cardinality(Present) + (IF weight[k] = 0 THEN 1 ELSE 0)
    <3>1. 1 \in 1..MaxWeight
      BY WeightType
    <3>2. weight' = [weight EXCEPT ![k] = 1]
      BY <1>6 DEF StoresTombstone
    <3>. QED  BY <1>1, <3>1, <3>2, StoreCounts, Zenon
  <2>. QED  BY <1>1, <1>2, <1>6, <2>1 DEF StoresTombstone
<1>. QED  BY <1>3, <1>4, <1>5, <1>6, StoreStep

-----------------------------------------------------------------------------
(* Type correctness.                                                       *)

(* perShardBudget is a natural number for every bound.                     *)
LEMMA BudgetType == \A max \in Nat : PerShardBudget(max) \in Nat
<1>. SUFFICES ASSUME NEW max \in Nat PROVE PerShardBudget(max) \in Nat
  OBVIOUS
<1>. DEFINE n == Cardinality(Shards)
            per == (max + n - 1) \div n
<1>1. n \in Nat /\ n > 0
  BY ShardsFinite, FS_CardinalityType, FS_EmptySet
<1>2. per \in Nat
  <2>. HIDE DEF n
  <2>. QED  BY <1>1
<1>3. (per * 10) \div 100 \in Nat
  <2>. HIDE DEF per
  <2>. QED  BY <1>2
<1>. QED  BY <1>2, <1>3 DEF PerShardBudget

(* Visit and AfterShed keep a goroutine's walk over the shards well typed. *)
LEMMA VisitType ==
    ASSUME TypeOK, NEW t \in Threads, NEW S \in SUBSET Shards, Visit(t, S)
    PROVE  at' \in [Threads -> Shards] /\ todo' \in [Threads -> SUBSET Shards]
BY DEF Visit, TypeOK

(* The step out of shedOverBudget keeps every variable it changes in type. *)
LEMMA AfterShedType ==
    ASSUME TypeOK, NEW t \in Threads, AfterShed(t)
    PROVE  /\ pc' \in [Threads -> Steps] /\ call' \in [Threads -> Calls]
           /\ resizeMu' \in Threads \cup {NoThread}
           /\ at' \in [Threads -> Shards] /\ todo' \in [Threads -> SUBSET Shards]
           /\ last' \in [Threads -> SUBSET Shards] /\ left' \in [Threads -> SUBSET Shards]
           /\ swept' \in [Threads -> BOOLEAN]
<1>1. todo[t] \in SUBSET Shards
  BY DEF TypeOK
<1>2. CASE todo[t] # {}
  BY <1>1, <1>2, VisitType DEF AfterShed, TypeOK, Steps
<1>3. CASE todo[t] = {}
  <2>1. NoCall \in Calls
    BY DEF Calls
  <2>. QED  BY <1>3, <2>1, Zenon DEF AfterShed, TypeOK, Steps
<1>. QED  BY <1>2, <1>3

-----------------------------------------------------------------------------
(* The types of everything but the storage and its counters.               *)
ControlType ==
    /\ maxEntries \in Nat /\ maxBytes \in Nat /\ budget \in [Shards -> Nat]
    /\ lock \in [Shards -> Threads \cup {NoThread}]
    /\ resizeMu \in Threads \cup {NoThread}
    /\ shedding \in BOOLEAN /\ shedRetry \in BOOLEAN
    /\ closed \in BOOLEAN /\ sealed \in BOOLEAN
    /\ pc \in [Threads -> Steps] /\ call \in [Threads -> Calls]
    /\ \A t \in Threads : pc[t] = "mu" => call[t] \in ResizeCalls
    /\ at \in [Threads -> Shards] /\ todo \in [Threads -> SUBSET Shards]
    /\ last \in [Threads -> SUBSET Shards] /\ left \in [Threads -> SUBSET Shards]
    /\ swept \in [Threads -> BOOLEAN] /\ calls \in [Threads -> 0..MaxCalls]

(* A step that enters a call keeps the control variables in type.          *)
LEMMA StartControlType ==
    ASSUME TypeOK, NEW t \in Threads, Start(t)
    PROVE  ControlType'
<1>. USE DEF TypeOK, ControlType, Enter, Steps
<1>0. /\ SetCalls \subseteq Calls /\ KeyCalls \subseteq Calls
      /\ SweepCalls \subseteq Calls /\ ResizeCalls \subseteq Calls
  BY DEF Calls
<1>1. ASSUME NEW c \in Calls, c.key \in Keys, CallOnKey(t, c)
      PROVE  ControlType'
  BY <1>1, ShardOfType, MaxCallsType DEF CallOnKey
<1>2. CASE Set(t)
  <2>. PICK c \in SetCalls : CallOnKey(t, c)
    BY <1>2 DEF Set
  <2>1. c.key \in Keys
    BY DEF SetCalls
  <2>. QED  BY <1>0, <1>1, <2>1
<1>3. CASE Delete(t)
  <2>. PICK k \in Keys : CallOnKey(t, [op |-> "delete", key |-> k])
    BY <1>3 DEF Delete
  <2>1. [op |-> "delete", key |-> k] \in KeyCalls
    BY DEF KeyCalls
  <2>. QED  BY <1>0, <1>1, <2>1
<1>4. CASE InsertNegative(t)
  <2>1. \A k \in Keys : [op |-> "negative", key |-> k] \in Calls
    BY <1>0 DEF KeyCalls
  <2>2. PICK k \in Keys :
            /\ Enter(t, [op |-> "negative", key |-> k],
                     IF weight[k] = 0 THEN "evict" ELSE "unlock")
            /\ lock' = [lock EXCEPT ![ShardOf[k]] = t]
            /\ at' = [at EXCEPT ![t] = ShardOf[k]]
            /\ UNCHANGED <<bounds, resizeMu, shedFlags, life, todo, last, left, swept>>
    BY <1>4, Zenon DEF InsertNegative
  <2>3. ShardOf[k] \in Shards
    BY ShardOfType
  <2>. QED  BY <2>1, <2>2, <2>3, MaxCallsType
<1>5. ASSUME NEW c \in Calls, NEW S \in SUBSET Shards, CallOnShards(t, c, S)
      PROVE  ControlType'
  BY <1>5, VisitType, MaxCallsType DEF CallOnShards
<1>6. CASE DeleteExpired(t) \/ Tick(t) \/ Clear(t) \/ Reset(t)
  <2>1. \A o \in {"sweep", "clear", "reset", "close"} : [op |-> o] \in Calls
    BY <1>0 DEF SweepCalls
  <2>2. \A s \in Shards : {s} \in SUBSET Shards
    OBVIOUS
  <2>. QED  BY <1>5, <1>6, <2>1, <2>2, Zenon DEF DeleteExpired, Tick, Clear, Reset
<1>7. CASE Resize(t)
  <2>1. \A n \in Sizes : [op |-> "resize", size |-> n] \in ResizeCalls
    BY DEF ResizeCalls
  <2>. QED  BY <1>0, <1>7, <2>1, MaxCallsType DEF Resize
<1>8. CASE Close(t)
  <2>1. [op |-> "close"] \in Calls
    BY <1>0 DEF SweepCalls
  <2>. QED  BY <1>8, <2>1, MaxCallsType DEF Close
<1>. QED  BY <1>2, <1>3, <1>4, <1>6, <1>7, <1>8 DEF Start

(* So does a step of a call's own work.                                    *)
LEMMA WorkControlType ==
    ASSUME TypeOK, NEW t \in Threads, Work(t)
    PROVE  ControlType'
<1>. USE DEF TypeOK, ControlType, Steps
<1>1. CASE Seal(t)
  BY <1>1, VisitType DEF Seal
<1>2. CASE SetBound(t)
  <2>1. call[t].size \in Nat
    BY <1>2, SizesType, Zenon DEF SetBound, ResizeCalls
  <2>. QED  BY <1>2, <2>1, VisitType DEF SetBound
<1>3. ASSUME NEW ops, NEW step \in Steps \ {"mu"}, Locked(t, ops, step),
             budget' \in [Shards -> Nat]
      PROVE  ControlType'
  BY <1>3 DEF Locked
<1>4. CASE Upsert(t) \/ SkipUpsert(t) \/ RemoveKey(t) \/ SweepShard(t) \/ ClearShard(t)
  BY <1>3, <1>4 DEF Upsert, SkipUpsert, RemoveKey, SweepShard, ClearShard
<1>5. CASE ResizeShard(t)
  <2>1. call[t].op = "resize" /\ call[t] \in Calls
    BY <1>5 DEF ResizeShard, Locked
  <2>2. call[t].size \in Nat
    BY <2>1, CallShape, SizesType, Zenon DEF ResizeCalls
  <2>3. budget' \in [Shards -> Nat]
    <3>. DEFINE max == IF InitBytes > 0 THEN maxEntries ELSE call[t].size
    <3>1. max \in Nat
      BY <2>2
    <3>2. PerShardBudget(max) \in Nat
      BY <3>1, BudgetType
    <3>3. budget' = [budget EXCEPT ![at[t]] = PerShardBudget(max)]
      BY <1>5 DEF ResizeShard
    <3>. HIDE DEF max
    <3>. QED  BY <3>2, <3>3
  <2>. QED  BY <1>3, <1>5, <2>3 DEF ResizeShard
<1>6. CASE FindVictim(t) \/ NoVictim(t) \/ RemoveVictim(t)
  BY <1>6, Zenon DEF FindVictim, NoVictim, RemoveVictim, Evicting
<1>7. CASE UnlockShard(t)
  <2>1. todo[t] \in SUBSET Shards /\ at[t] \in Shards
    OBVIOUS
  <2>2. CASE call[t].op = "resize" /\ todo[t] # {}
    BY <1>7, <2>1, <2>2, VisitType DEF UnlockShard
  <2>3. CASE ~(call[t].op = "resize" /\ todo[t] # {})
    BY <1>7, <2>1, <2>3 DEF UnlockShard
  <2>. QED  BY <2>2, <2>3
<1>. QED  BY <1>1, <1>2, <1>4, <1>5, <1>6, <1>7 DEF Work

(* So does a step of shedOverBudget.                                       *)
LEMMA ShedControlType ==
    ASSUME TypeOK, NEW t \in Threads, Shed(t)
    PROVE  ControlType'
<1>. USE DEF TypeOK, ControlType, Steps
<1>1. ASSUME AfterShed(t), UNCHANGED <<bounds, lock, shedFlags, life, calls>>
      PROVE  ControlType'
  <2>1. \A u \in Threads : pc'[u] = "mu" => pc[u] = "mu" /\ call'[u] = call[u]
    BY <1>1 DEF AfterShed
  <2>. QED  BY <1>1, <2>1, AfterShedType
<1>2. CASE ShedStart(t) \/ ShedLeave(t) \/ ShedAgain(t)
  <2>1. CASE AfterShed(t) /\ UNCHANGED <<bounds, lock, shedFlags, life, calls>>
    BY <1>1, <2>1
  <2>2. CASE /\ Goto(t, "cas") \/ Goto(t, "shed")
             /\ UNCHANGED <<bounds, mutexes, shedFlags, life, call, walk, calls>>
    BY <2>2
  <2>. QED  BY <1>2, <2>1, <2>2 DEF ShedStart, ShedLeave, ShedAgain
<1>3. CASE ShedAcquire(t) \/ ShedBusy(t) \/ ShedMark(t)
  BY <1>3, Zenon DEF ShedAcquire, ShedBusy, ShedMark
<1>5. CASE ShedClear(t)
  BY <1>5, Zenon DEF ShedClear
<1>4. CASE ShedNext(t)
  <2>1. CASE OverBudget /\ left[t] # {}
    <3>. PICK s \in left[t] : /\ at' = [at EXCEPT ![t] = s]
                              /\ left' = [left EXCEPT ![t] = @ \ {s}]
                              /\ Goto(t, "visit")
      BY <1>4, <2>1 DEF ShedNext
    <3>. QED  BY <1>4 DEF ShedNext
  <2>2. CASE ~(OverBudget /\ left[t] # {})
    BY <1>4, <2>2 DEF ShedNext
  <2>. QED  BY <2>1, <2>2
<1>6. CASE ShedLock(t) \/ ShedUnlock(t)
  BY <1>6 DEF ShedLock, ShedUnlock
<1>7. CASE ShedRelease(t)
  BY <1>7, Zenon DEF ShedRelease
<1>. QED  BY <1>2, <1>3, <1>4, <1>5, <1>6, <1>7 DEF Shed

(* A step keeps every variable in type; that entries is never negative     *)
(* rests on its being exact.                                               *)
LEMMA TypeStep ==
    ASSUME TypeOK, CountersExact, [Next]_vars
    PROVE  TypeOK'
<1>1. ControlType'
  <2>1. CASE Finished \/ UNCHANGED vars
    BY <2>1 DEF Finished, vars, TypeOK, ControlType
  <2>2. CASE \E t \in Threads : Start(t) \/ Work(t) \/ Shed(t)
    BY <2>2, StartControlType, WorkControlType, ShedControlType
  <2>. QED  BY <2>1, <2>2 DEF Next
<1>2. weight' \in [Keys -> 0..MaxWeight] /\ bytes' \in Int
  <2>1. weight \in [Keys -> 0..MaxWeight] /\ bytes \in Int
    BY DEF TypeOK
  <2>2. CASE UNCHANGED store
    BY <2>1, <2>2
  <2>3. ASSUME NEW K \in SUBSET Present, Remove(K)
        PROVE  weight' \in [Keys -> 0..MaxWeight] /\ bytes' \in Int
    <3>1. Cardinality(WeightUnits(K)) \in Nat
      BY FiniteStorage, FS_CardinalityType, Zenon DEF Present
    <3>. QED  BY <2>1, <2>3, <3>1, RemoveCounts DEF Remove
  <2>4. ASSUME NEW k \in Keys, NEW w \in 1..MaxWeight, StoresEntry(k, w)
        PROVE  weight' \in [Keys -> 0..MaxWeight] /\ bytes' \in Int
    BY <2>1, <2>4, WeightType DEF StoresEntry
  <2>5. ASSUME NEW k \in Keys, StoresTombstone(k)
        PROVE  weight' \in [Keys -> 0..MaxWeight] /\ bytes' \in Int
    <3>1. 1 \in 0..MaxWeight
      BY WeightType
    <3>. QED  BY <2>1, <2>5, <3>1 DEF StoresTombstone
  <2>. QED  BY <2>2, <2>3, <2>4, <2>5, StoreStep
<1>3. entries' \in Nat
  <2>1. IsFiniteSet(Present')
    BY KeysFinite, FS_Subset DEF Present
  <2>. QED  BY <2>1, CountersStep, FS_CardinalityType DEF CountersExact, EntriesExact
<1>. QED  BY <1>1, <1>2, <1>3 DEF TypeOK, ControlType

(* The initial state is well typed and both counters are exact.            *)
LEMMA InitCounters == Init => TypeOK /\ CountersExact
<1>. SUFFICES ASSUME Init PROVE TypeOK /\ CountersExact
  OBVIOUS
<1>1. TypeOK
  <2>1. (CHOOSE s \in Shards : TRUE) \in Shards
    BY ShardsFinite
  <2>2. NoCall \in Calls
    BY DEF Calls
  <2>3. PerShardBudget(InitEntries) \in Nat
    BY BudgetType, BoundTypes
  <2>4. at \in [Threads -> Shards]
    <3>. DEFINE first == CHOOSE s \in Shards : TRUE
    <3>1. at = [t \in Threads |-> first]
      BY DEF Init
    <3>. HIDE DEF first
    <3>. QED  BY <2>1, <3>1 DEF first
  <2>6. call \in [Threads -> Calls]
    BY <2>2 DEF Init
  <2>7. budget \in [Shards -> Nat] /\ maxEntries \in Nat /\ maxBytes \in Nat
    BY <2>3, BoundTypes DEF Init
  <2>8. pc \in [Threads -> Steps] /\ \A t \in Threads : pc[t] # "mu"
    BY DEF Init, Steps
  <2>9. /\ lock \in [Shards -> Threads \cup {NoThread}]
        /\ resizeMu \in Threads \cup {NoThread}
        /\ shedding \in BOOLEAN /\ shedRetry \in BOOLEAN
        /\ closed \in BOOLEAN /\ sealed \in BOOLEAN
        /\ todo \in [Threads -> SUBSET Shards]
        /\ last \in [Threads -> SUBSET Shards] /\ left \in [Threads -> SUBSET Shards]
    BY Zenon DEF Init
  <2>10. swept \in [Threads -> BOOLEAN]
    BY DEF Init
  <2>11. calls \in [Threads -> 0..MaxCalls]
    BY MaxCallsType DEF Init
  <2>5. weight \in [Keys -> 0..MaxWeight] /\ entries \in Nat /\ bytes \in Int
    BY WeightType DEF Init
  <2>. QED  BY <2>4, <2>5, <2>6, <2>7, <2>8, <2>9, <2>10, <2>11 DEF TypeOK
<1>2. Present = {} /\ WeightUnits(Keys) = {}
  BY WeightType DEF Init, Present, WeightUnits
<1>. QED  BY <1>1, <1>2, FS_EmptySet DEF Init, CountersExact, EntriesExact, BytesExact

(* Every variable keeps its type, and Len is the number of stored entries, *)
(* in every state.                                                         *)
THEOREM EntriesAlwaysExact == Spec => [](TypeOK /\ EntriesExact)
<1>1. TypeOK /\ CountersExact /\ [Next]_vars => (TypeOK /\ CountersExact)'
  BY TypeStep, CountersStep
<1>2. TypeOK /\ CountersExact => TypeOK /\ EntriesExact
  BY DEF CountersExact
<1>. QED  BY <1>1, <1>2, InitCounters, PTL DEF Spec

(* Without a negative cache, Bytes is the total weight in every state.     *)
THEOREM BytesAlwaysExact ==
    ASSUME ~NegativeCache
    PROVE  Spec => []BytesExact
<1>1. TypeOK /\ CountersExact /\ [Next]_vars => (TypeOK /\ CountersExact)'
  BY TypeStep, CountersStep
<1>2. TypeOK /\ CountersExact => BytesExact
  BY DEF CountersExact
<1>. QED  BY <1>1, <1>2, InitCounters, PTL DEF Spec

(* A goroutine that enters a call was idle, is then at one of the steps    *)
(* from which it will test overBudget, and has not touched the shedder.    *)
LEMMA StartStep ==
    ASSUME NEW t \in Threads, Start(t)
    PROVE  /\ pc[t] = "idle"
           /\ \E step \in {"seal", "mu", "lock", "evict", "unlock"} : Goto(t, step)
           /\ UNCHANGED shedFlags
<1>. USE DEF Enter
<1>1. CASE Set(t) \/ Delete(t)
  BY <1>1 DEF Set, Delete, CallOnKey
<1>2. CASE InsertNegative(t)
  <2>. PICK k \in Keys : Enter(t, [op |-> "negative", key |-> k],
                               IF weight[k] = 0 THEN "evict" ELSE "unlock")
    BY <1>2, Zenon DEF InsertNegative
  <2>. QED  BY <1>2, Zenon DEF InsertNegative
<1>3. CASE DeleteExpired(t) \/ Tick(t) \/ Clear(t) \/ Reset(t)
  BY <1>3, Zenon DEF DeleteExpired, Tick, Clear, Reset, CallOnShards
<1>4. CASE Resize(t) \/ Close(t)
  BY <1>4 DEF Resize, Close
<1>. QED  BY <1>1, <1>2, <1>3, <1>4 DEF Start

=============================================================================
