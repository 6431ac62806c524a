------------------------- MODULE CacheCloseProofs --------------------------
(***************************************************************************)
(* Proofs of what Close and Resize leave behind: each walks the shards, and*)
(* whatever it has still to reach is the only thing that may be wrong.     *)
(***************************************************************************)
EXTENDS CacheProofs

USE DEF store, bounds, mutexes, shedFlags, life, walk, Goto

-----------------------------------------------------------------------------
(* Close.  While Reset is under way, what a sealed cache still holds is in *)
(* a shard that the closing goroutine has yet to empty.                    *)

(* s is the shard t is about to work on, or one it has still to visit.     *)
Pending(t, s) == s \in todo[t] \/ (pc[t] = "lock" /\ at[t] = s)

CallsMatchSteps ==
    /\ \A t \in Threads : pc[t] = "idle" => call[t] = NoCall
    /\ \A t \in Threads : pc[t] = "seal" => call[t].op = "close"

SealedCovered ==
    sealed => \A k \in Present : \E t \in Threads :
                  call[t].op = "close" /\ Pending(t, ShardOf[k])

(* A goroutine is in a call exactly when it is not idle, and only Close    *)
(* seals.                                                                  *)
LEMMA CallsMatchStepsStep ==
    ASSUME TypeOK, CallsMatchSteps, [Next]_vars
    PROVE  CallsMatchSteps'
<1>. USE DEF TypeOK, CallsMatchSteps
<1>1. ASSUME NEW t \in Threads, Start(t)
      PROVE  CallsMatchSteps'
  <2>. USE DEF Enter
  <2>1. CASE Set(t) \/ Delete(t)
    BY <2>1 DEF Set, Delete, CallOnKey
  <2>2. CASE InsertNegative(t)
    <3>. PICK k \in Keys : Enter(t, [op |-> "negative", key |-> k],
                                 IF weight[k] = 0 THEN "evict" ELSE "unlock")
      BY <2>2, Zenon DEF InsertNegative
    <3>. QED  OBVIOUS
  <2>3. CASE DeleteExpired(t) \/ Tick(t) \/ Clear(t) \/ Reset(t)
    BY <2>3, Zenon DEF DeleteExpired, Tick, Clear, Reset, CallOnShards
  <2>4. CASE Resize(t)
    BY <2>4 DEF Resize
  <2>5. CASE Close(t)
    BY <2>5 DEF Close
  <2>. QED  BY <1>1, <2>1, <2>2, <2>3, <2>4, <2>5, ZenonT(30) DEF Start
<1>2. ASSUME NEW t \in Threads, NEW step, step \notin {"idle", "seal"}, Goto(t, step),
             UNCHANGED call
      PROVE  CallsMatchSteps'
  BY <1>2
<1>3. ASSUME NEW t \in Threads, Work(t)
      PROVE  CallsMatchSteps'
  <2>1. CASE Seal(t) \/ SetBound(t) \/ UnlockShard(t)
    BY <1>2, <2>1 DEF Seal, SetBound, UnlockShard
  <2>2. CASE Upsert(t) \/ SkipUpsert(t) \/ RemoveKey(t) \/ SweepShard(t) \/ ClearShard(t)
             \/ ResizeShard(t)
    <3>1. \E ops, step : Locked(t, ops, step) /\ step \in {"evict", "unlock"}
      BY <2>2 DEF Upsert, SkipUpsert, RemoveKey, SweepShard, ClearShard, ResizeShard
    <3>. QED  BY <1>2, <3>1 DEF Locked
  <2>3. CASE FindVictim(t) \/ NoVictim(t) \/ RemoveVictim(t)
    BY <1>2, <2>3 DEF FindVictim, NoVictim, RemoveVictim, Evicting
  <2>. QED  BY <1>3, <2>1, <2>2, <2>3, ZenonT(30) DEF Work
<1>4. ASSUME NEW t \in Threads, Shed(t)
      PROVE  CallsMatchSteps'
  <2>1. CASE AfterShed(t)
    BY <2>1 DEF AfterShed
  <2>2. CASE ~AfterShed(t)
    BY <1>2, <1>4, <2>2, ZenonT(30) DEF Shed, ShedStart, ShedAcquire, ShedBusy, ShedMark, ShedLeave,
       ShedClear, ShedNext, ShedLock, ShedUnlock, ShedRelease, ShedAgain
  <2>. QED  BY <2>1, <2>2, ZenonT(30)
<1>5. CASE Finished \/ UNCHANGED vars
  BY <1>5 DEF Finished, vars
<1>. QED  BY <1>1, <1>3, <1>4, <1>5, Zenon DEF Next

(* How a walk over the shards moves on: nothing is skipped.                *)
LEMMA VisitKeepsPending ==
    ASSUME TypeOK, NEW t \in Threads, NEW S \in SUBSET Shards, Visit(t, S), Goto(t, "lock")
    PROVE  /\ \A s \in S : Pending(t, s)'
           /\ \A u \in Threads \ {t}, s \in Shards : Pending(u, s)' <=> Pending(u, s)
BY DEF Visit, Pending, TypeOK

(* A shard pending in a Close or a Resize stays pending until that call    *)
(* does its work on it.                                                    *)
LEMMA PendingStep ==
    ASSUME TypeOK, CallsMatchSteps, [Next]_vars,
           NEW t \in Threads, NEW s \in Shards,
           call[t].op \in {"close", "resize"}, Pending(t, s)
    PROVE  \/ Pending(t, s)' /\ call'[t] = call[t]
           \/ at[t] = s /\ (ClearShard(t) \/ ResizeShard(t))
<1>. USE DEF TypeOK
<1>1. ASSUME NEW u \in Threads, Start(u)
      PROVE  Pending(t, s)' /\ call'[t] = call[t]
  <2>1. u # t
    BY <1>1, StartStep DEF CallsMatchSteps, NoCall
  <2>2. /\ at'[t] = at[t] /\ todo'[t] = todo[t] /\ call'[t] = call[t] /\ pc'[t] = pc[t]
    BY <1>1, <2>1, ZenonT(30) DEF Start, Set, Delete, CallOnKey, InsertNegative, DeleteExpired, Tick,
       Clear, Reset, CallOnShards, Visit, Resize, Close, Enter
  <2>. QED  BY <2>2, ZenonT(30) DEF Pending
<1>2. ASSUME NEW u \in Threads, u # t, Work(u) \/ Shed(u)
      PROVE  Pending(t, s)' /\ call'[t] = call[t]
  <2>1. CASE Work(u)
    <3>1. CASE Seal(u) \/ SetBound(u)
      BY <1>2, <3>1 DEF Seal, SetBound, Visit, Pending
    <3>2. CASE UnlockShard(u)
      BY <1>2, <3>2 DEF UnlockShard, Visit, Pending
    <3>3. CASE Upsert(u) \/ SkipUpsert(u) \/ RemoveKey(u) \/ SweepShard(u) \/ ClearShard(u)
               \/ ResizeShard(u)
      BY <1>2, <3>3, ZenonT(30) DEF Upsert, SkipUpsert, RemoveKey, SweepShard, ClearShard, ResizeShard,
         Locked, Pending
    <3>4. CASE FindVictim(u) \/ NoVictim(u) \/ RemoveVictim(u)
      BY <1>2, <3>4 DEF FindVictim, NoVictim, RemoveVictim, Pending
    <3>. QED  BY <2>1, <3>1, <3>2, <3>3, <3>4, ZenonT(30) DEF Work
  <2>2. CASE Shed(u)
    BY <1>2, <2>2, Zenon DEF Shed, ShedStart, ShedAcquire, ShedBusy, ShedMark, ShedLeave, ShedClear,
       ShedNext, ShedLock, ShedUnlock, ShedRelease, ShedAgain, AfterShed, Visit, Pending
  <2>. QED  BY <1>2, <2>1, <2>2, Zenon
<1>3. CASE Work(t)
  <2>1. CASE Seal(t) \/ SetBound(t)
    <3>1. Visit(t, Shards) /\ Goto(t, "lock") /\ UNCHANGED call
      BY <2>1 DEF Seal, SetBound
    <3>. QED  BY <3>1, VisitKeepsPending, ZenonT(30)
  <2>2. CASE UnlockShard(t)
    <3>1. s \in todo[t] /\ UNCHANGED call
      BY <2>2 DEF UnlockShard, Pending
    <3>2. CASE Visit(t, todo[t]) /\ Goto(t, "lock")
      BY <3>1, <3>2, VisitKeepsPending, Zenon
    <3>3. CASE UNCHANGED todo
      BY <3>1, <3>3, Zenon DEF Pending
    <3>. QED  BY <2>2, <3>2, <3>3 DEF UnlockShard
  <2>3. CASE \/ Upsert(t) \/ SkipUpsert(t) \/ RemoveKey(t) \/ SweepShard(t)
             \/ FindVictim(t) \/ NoVictim(t) \/ RemoveVictim(t)
    BY <2>3, ZenonT(30) DEF Upsert, SkipUpsert, RemoveKey, SweepShard, Locked, FindVictim, NoVictim,
       RemoveVictim, Evicting, Pending
  <2>4. CASE ClearShard(t) \/ ResizeShard(t)
    BY <2>4, Zenon DEF ClearShard, ResizeShard, Locked, Pending
  <2>. QED  BY <1>3, <2>1, <2>2, <2>3, <2>4, ZenonT(30) DEF Work
<1>4. CASE Shed(t)
  <2>1. s \in todo[t]
    BY <1>4, ZenonT(30) DEF Shed, ShedStart, ShedAcquire, ShedBusy, ShedMark, ShedLeave, ShedClear,
       ShedNext, ShedLock, ShedUnlock, ShedRelease, ShedAgain, Pending
  <2>2. CASE AfterShed(t)
    <3>1. Visit(t, todo[t]) /\ Goto(t, "lock") /\ UNCHANGED call
      BY <2>1, <2>2 DEF AfterShed
    <3>. QED  BY <2>1, <3>1, VisitKeepsPending, ZenonT(30)
  <2>3. CASE UNCHANGED <<todo, call>>
    BY <2>1, <2>3, ZenonT(30) DEF Pending
  <2>. QED  BY <1>4, <2>2, <2>3, Zenon DEF Shed, ShedStart, ShedAcquire, ShedBusy, ShedMark, ShedLeave,
            ShedClear, ShedNext, ShedLock, ShedUnlock, ShedRelease, ShedAgain
<1>5. CASE Finished \/ UNCHANGED vars
  BY <1>5 DEF Finished, vars, Pending
<1>. QED  BY <1>1, <1>2, <1>3, <1>4, <1>5, Zenon DEF Next

(* What Close has emptied stays empty: after sealed, nothing is stored.    *)
LEMMA SealedStep ==
    ASSUME TypeOK, CallsMatchSteps, SealedCovered, [Next]_vars
    PROVE  SealedCovered'
<1>. SUFFICES ASSUME sealed', NEW k \in Present'
              PROVE  \E t \in Threads : call'[t].op = "close" /\ Pending(t, ShardOf[k])'
  BY Zenon DEF SealedCovered
<1>0. k \in Keys /\ ShardOf[k] \in Shards
  BY ShardOfType DEF Present
<1>1. CASE sealed
  <2>1. k \in Present
    <3>1. CASE UNCHANGED store
      BY <3>1 DEF Present
    <3>2. CASE \E K \in SUBSET Present : Remove(K)
      BY <1>0, <3>2, Zenon DEF Remove, Present
    <3>. QED  BY <1>1, <3>1, <3>2, StoreStep
  <2>2. PICK t \in Threads : call[t].op = "close" /\ Pending(t, ShardOf[k])
    BY <1>1, <2>1, Zenon DEF SealedCovered
  <2>3. ~ResizeShard(t)
    BY <2>2, Zenon DEF ResizeShard, Locked
  <2>4. ~(at[t] = ShardOf[k] /\ ClearShard(t))
    <3>1. SUFFICES ASSUME at[t] = ShardOf[k], Remove(KeysIn(at[t]))
                   PROVE  FALSE
      BY Zenon DEF ClearShard
    <3>2. k \in KeysIn(at[t])
      BY <2>1, <3>1 DEF KeysIn, Present
    <3>3. weight'[k] = 0
      BY <1>0, <3>1, <3>2 DEF Remove
    <3>4. Present' = {j \in Keys : weight'[j] > 0}
      BY Zenon DEF Present
    <3>5. weight'[k] > 0
      BY <3>4, Zenon
    <3>. QED  BY <3>3, <3>5
  <2>. QED  BY <1>0, <2>2, <2>3, <2>4, PendingStep, Zenon
<1>2. CASE ~sealed
  <2>1. PICK t \in Threads : Seal(t)
    <3>1. ASSUME NEW t \in Threads, Start(t)
          PROVE  UNCHANGED sealed
      BY <3>1, Zenon DEF Start, Set, Delete, CallOnKey, InsertNegative, DeleteExpired, Tick, Clear,
         Reset, CallOnShards, Resize, Close
    <3>2. ASSUME NEW t \in Threads, Work(t), ~Seal(t)
          PROVE  UNCHANGED sealed
      BY <3>2, Zenon DEF Work, SetBound, Upsert, SkipUpsert, RemoveKey, SweepShard, ClearShard,
         ResizeShard, Locked, FindVictim, NoVictim, RemoveVictim, UnlockShard
    <3>3. ASSUME NEW t \in Threads, Shed(t)
          PROVE  UNCHANGED sealed
      BY <3>3, Zenon DEF Shed, ShedStart, ShedAcquire, ShedBusy, ShedMark, ShedLeave, ShedClear,
         ShedNext, ShedLock, ShedUnlock, ShedRelease, ShedAgain
    <3>4. CASE Finished \/ UNCHANGED vars
      BY <1>2, <3>4, Zenon DEF Finished, vars
    <3>. QED  BY <1>2, <3>1, <3>2, <3>3, <3>4, Zenon DEF Next
  <2>2. call'[t].op = "close" /\ Visit(t, Shards) /\ Goto(t, "lock")
    BY <2>1, Zenon DEF Seal, CallsMatchSteps
  <2>. QED  BY <1>0, <2>2, VisitKeepsPending, Zenon
<1>. QED  BY <1>1, <1>2, Zenon

(* For every number of goroutines and shards: once Close has returned the  *)
(* cache is empty and stays so, whatever calls were under way.             *)
THEOREM AlwaysClosedEmpty == Spec => []ClosedEmpty
<1>. DEFINE IInv == TypeOK /\ CountersExact /\ CallsMatchSteps /\ SealedCovered
<1>1. Init => IInv
  <2>1. Init => CallsMatchSteps /\ SealedCovered
    BY DEF Init, CallsMatchSteps, SealedCovered
  <2>. QED  BY <2>1, InitCounters
<1>2. IInv /\ [Next]_vars => IInv'
  BY TypeStep, CountersStep, CallsMatchStepsStep, SealedStep
<1>3. IInv => ClosedEmpty
  <2>. SUFFICES ASSUME IInv, sealed, \A t \in Threads : call[t].op # "close"
                PROVE  Present = {} /\ entries = 0
    BY Zenon DEF ClosedEmpty
  <2>1. Present = {}
    BY DEF SealedCovered
  <2>. QED  BY <2>1, FS_EmptySet DEF CountersExact, EntriesExact
<1>. QED  BY <1>1, <1>2, <1>3, PTL DEF Spec

-----------------------------------------------------------------------------
(* Resize.  The holder of resizeMu is the one Resize past its lock; a      *)
(* shard without the budget of the bound in force is pending in it.        *)

ResizeHolder ==
    \A t \in Threads : resizeMu = t <=> call[t].op = "resize" /\ pc[t] # "mu"

BudgetCovered ==
    /\ \A t \in Threads : resizeMu = t /\ InitBytes = 0 => maxEntries = call[t].size
    /\ \A s \in Shards : \/ budget[s] = PerShardBudget(maxEntries)
                         \/ \E t \in Threads : resizeMu = t /\ Pending(t, s)

(* A goroutine that is in no call does not hold resizeMu.                  *)
LEMMA IdleHoldsNothing ==
    ASSUME CallsMatchSteps, ResizeHolder, NEW t \in Threads, pc[t] = "idle"
    PROVE  resizeMu # t
<1>1. call[t] = NoCall
  BY Zenon DEF CallsMatchSteps
<1>2. NoCall.op # "resize"
  BY DEF NoCall
<1>. QED  BY <1>1, <1>2, Zenon DEF ResizeHolder

(* resizeMu is held exactly by the Resize that works on the shards.        *)
LEMMA ResizeHolderStep ==
    ASSUME TypeOK, CallsMatchSteps, ResizeHolder, [Next]_vars
    PROVE  ResizeHolder'
<1>. USE DEF TypeOK, ResizeHolder
<1>1. ASSUME NEW t \in Threads, Start(t)
      PROVE  ResizeHolder'
  <2>1. pc[t] = "idle" /\ call[t].op = "none"
    BY <1>1, StartStep DEF CallsMatchSteps, NoCall
  <2>2. \E c, step : Enter(t, c, step) /\ (c.op = "resize" => step = "mu") /\ UNCHANGED resizeMu
    <3>1. CASE Set(t) \/ Delete(t) \/ InsertNegative(t)
      BY <3>1, Zenon DEF Set, Delete, CallOnKey, InsertNegative, SetCalls
    <3>2. CASE DeleteExpired(t) \/ Tick(t) \/ Clear(t) \/ Reset(t) \/ Resize(t) \/ Close(t)
      BY <3>2, ZenonT(30) DEF DeleteExpired, Tick, Clear, Reset, CallOnShards, Resize, Close
    <3>. QED  BY <1>1, <3>1, <3>2 DEF Start
  <2>. QED  BY <2>1, <2>2 DEF Enter
<1>2. ASSUME NEW t \in Threads, NEW step, Goto(t, step), UNCHANGED <<call, resizeMu>>,
             step # "mu", pc[t] # "mu"
      PROVE  ResizeHolder'
  BY <1>2
<1>3. ASSUME NEW t \in Threads, SetBound(t)
      PROVE  ResizeHolder'
  <2>1. call[t].op = "resize"
    BY <1>3 DEF SetBound, ResizeCalls
  <2>. QED  BY <1>3, <2>1, NoThreadFresh DEF SetBound
<1>4. ASSUME NEW t \in Threads, Work(t), ~SetBound(t)
      PROVE  ResizeHolder'
  <2>1. CASE Seal(t) \/ UnlockShard(t)
    BY <1>2, <2>1 DEF Seal, UnlockShard
  <2>2. CASE Upsert(t) \/ SkipUpsert(t) \/ RemoveKey(t) \/ SweepShard(t) \/ ClearShard(t)
             \/ ResizeShard(t)
    <3>1. \E ops, step : Locked(t, ops, step) /\ step \in {"evict", "unlock"}
      BY <2>2 DEF Upsert, SkipUpsert, RemoveKey, SweepShard, ClearShard, ResizeShard
    <3>. QED  BY <1>2, <3>1 DEF Locked
  <2>3. CASE FindVictim(t) \/ NoVictim(t) \/ RemoveVictim(t)
    BY <1>2, <2>3, ZenonT(30) DEF FindVictim, NoVictim, RemoveVictim, Evicting
  <2>. QED  BY <1>4, <2>1, <2>2, <2>3, ZenonT(30) DEF Work
<1>5. ASSUME NEW t \in Threads, Shed(t)
      PROVE  ResizeHolder'
  <2>1. pc[t] # "mu"
    BY <1>5, ZenonT(30) DEF Shed, ShedStart, ShedAcquire, ShedBusy, ShedMark, ShedLeave,
       ShedClear, ShedNext, ShedLock, ShedUnlock, ShedRelease, ShedAgain
  <2>2. CASE AfterShed(t)
    BY <2>1, <2>2, NoThreadFresh DEF AfterShed, NoCall
  <2>3. CASE ~AfterShed(t)
    BY <1>2, <1>5, <2>1, <2>3, ZenonT(30) DEF Shed, ShedStart, ShedAcquire, ShedBusy, ShedMark, ShedLeave,
       ShedClear, ShedNext, ShedLock, ShedUnlock, ShedRelease, ShedAgain
  <2>. QED  BY <2>2, <2>3, Zenon
<1>6. CASE Finished \/ UNCHANGED vars
  BY <1>6 DEF Finished, vars
<1>. QED  BY <1>1, <1>3, <1>4, <1>5, <1>6, ZenonT(30) DEF Next

(* Only a call to Resize takes a goroutine to the lock of resizeMu.        *)
LEMMA MuStep ==
    ASSUME TypeOK, [Next]_vars, NEW t \in Threads, pc[t] \notin {"mu", "idle"}
    PROVE  pc'[t] # "mu"
<1>. USE DEF TypeOK
<1>1. ASSUME NEW u \in Threads, Start(u)
      PROVE  pc'[t] # "mu"
  BY <1>1, StartStep
<1>2. ASSUME NEW u \in Threads, Work(u)
      PROVE  pc'[t] # "mu"
  <2>1. CASE Seal(u) \/ SetBound(u) \/ UnlockShard(u) \/ FindVictim(u) \/ NoVictim(u)
             \/ RemoveVictim(u)
    BY <2>1, Zenon DEF Seal, SetBound, UnlockShard, FindVictim, NoVictim, RemoveVictim
  <2>2. CASE Upsert(u) \/ SkipUpsert(u) \/ RemoveKey(u) \/ SweepShard(u) \/ ClearShard(u)
             \/ ResizeShard(u)
    BY <2>2, Zenon DEF Upsert, SkipUpsert, RemoveKey, SweepShard, ClearShard, ResizeShard, Locked
  <2>. QED  BY <1>2, <2>1, <2>2 DEF Work
<1>3. ASSUME NEW u \in Threads, Shed(u)
      PROVE  pc'[t] # "mu"
  BY <1>3, ZenonT(30) DEF Shed, ShedStart, ShedAcquire, ShedBusy, ShedMark, ShedLeave, ShedClear,
     ShedNext, ShedLock, ShedUnlock, ShedRelease, ShedAgain, AfterShed
<1>4. CASE Finished \/ UNCHANGED vars
  BY <1>4 DEF Finished, vars
<1>. QED  BY <1>1, <1>2, <1>3, <1>4 DEF Next

(* A shard whose budget is not that of the bound in force stays pending in *)
(* the Resize that holds resizeMu.                                         *)
LEMMA BudgetStep ==
    ASSUME TypeOK, CallsMatchSteps, ResizeHolder, BudgetCovered, [Next]_vars
    PROVE  BudgetCovered'
<1>0. ResizeHolder'
  BY ResizeHolderStep
<1>1. ASSUME NEW t \in Threads, resizeMu = t, NEW s \in Shards, Pending(t, s),
             ~(at[t] = s /\ ResizeShard(t))
      PROVE  resizeMu' = t /\ Pending(t, s)'
  <2>1. call[t].op = "resize" /\ pc[t] # "mu" /\ pc[t] # "idle"
    BY <1>1, IdleHoldsNothing, Zenon DEF ResizeHolder
  <2>2. ~ClearShard(t)
    BY <2>1, Zenon DEF ClearShard, Locked
  <2>3. Pending(t, s)' /\ call'[t] = call[t]
    BY <1>1, <2>1, <2>2, PendingStep, Zenon
  <2>4. pc'[t] # "mu"
    BY <2>1, MuStep
  <2>. QED  BY <1>0, <2>1, <2>3, <2>4, ZenonT(30) DEF ResizeHolder
<1>2. ASSUME NEW t \in Threads, SetBound(t)
      PROVE  BudgetCovered'
  <2>1. Visit(t, Shards) /\ Goto(t, "lock") /\ resizeMu' = t
    BY <1>2 DEF SetBound
  <2>2. InitBytes = 0 => maxEntries' = call'[t].size
    BY <1>2 DEF SetBound
  <2>. QED  BY <2>1, <2>2, VisitKeepsPending, Zenon DEF BudgetCovered
<1>3. ASSUME NEW t \in Threads, ResizeShard(t)
      PROVE  BudgetCovered'
  <2>1. resizeMu = t /\ UNCHANGED <<maxEntries, call, resizeMu>> /\ at[t] \in Shards
    BY <1>3 DEF ResizeShard, Locked, ResizeHolder, TypeOK
  <2>2. budget' = [budget EXCEPT ![at[t]] = PerShardBudget(maxEntries)]
    <3>1. (IF InitBytes > 0 THEN maxEntries ELSE call[t].size) = maxEntries
      <4>1. InitBytes = 0 => maxEntries = call[t].size
        BY <2>1, Zenon DEF BudgetCovered
      <4>. QED  BY <4>1, BoundTypes
    <3>. QED  BY <1>3, <3>1, Zenon DEF ResizeShard
  <2>3. ASSUME NEW s \in Shards, s # at[t]
        PROVE  budget'[s] = PerShardBudget(maxEntries)' \/ (resizeMu' = t /\ Pending(t, s)')
    BY <1>1, <2>1, <2>2, <2>3, ZenonT(30) DEF BudgetCovered, TypeOK, PerShardBudget
  <2>4. budget'[at[t]] = PerShardBudget(maxEntries)'
    BY <2>1, <2>2 DEF TypeOK, PerShardBudget
  <2>. QED  BY <2>1, <2>3, <2>4 DEF BudgetCovered
<1>4. CASE \A t \in Threads : ~SetBound(t) /\ ~ResizeShard(t)
  <2>1. /\ UNCHANGED <<maxEntries, budget>>
        /\ \A t \in Threads : resizeMu' = t => resizeMu = t /\ call'[t] = call[t]
    <3>1. ASSUME NEW u \in Threads, Start(u)
          PROVE  /\ UNCHANGED <<maxEntries, budget, resizeMu>> /\ resizeMu # u
                 /\ \A t \in Threads \ {u} : call'[t] = call[t]
      <4>1. UNCHANGED <<maxEntries, budget, resizeMu>>
        BY <3>1, ZenonT(30) DEF Start, Set, Delete, CallOnKey, InsertNegative, DeleteExpired, Tick,
           Clear, Reset, CallOnShards, Resize, Close
      <4>2. resizeMu # u
        BY <3>1, StartStep, IdleHoldsNothing, Zenon
      <4>3. \A t \in Threads \ {u} : call'[t] = call[t]
        BY <3>1, Zenon DEF Start, Set, Delete, CallOnKey, InsertNegative, DeleteExpired, Tick,
           Clear, Reset, CallOnShards, Resize, Close, Enter, TypeOK
      <4>. QED  BY <4>1, <4>2, <4>3
    <3>2. ASSUME NEW u \in Threads, Work(u)
          PROVE  UNCHANGED <<maxEntries, budget, resizeMu, call>>
      BY <1>4, <3>2, Zenon DEF Work, Seal, Upsert, SkipUpsert, RemoveKey, SweepShard, ClearShard,
         Locked, FindVictim, NoVictim, RemoveVictim, UnlockShard
    <3>3. ASSUME NEW u \in Threads, Shed(u)
          PROVE  /\ UNCHANGED <<maxEntries, budget>>
                 /\ UNCHANGED <<resizeMu, call>> \/ AfterShed(u)
      BY <3>3, ZenonT(30) DEF Shed, ShedStart, ShedAcquire, ShedBusy, ShedMark, ShedLeave, ShedClear,
         ShedNext, ShedLock, ShedUnlock, ShedRelease, ShedAgain
    <3>4. ASSUME NEW u \in Threads, AfterShed(u), pc[u] # "mu"
          PROVE  \A t \in Threads : resizeMu' = t => resizeMu = t /\ call'[t] = call[t]
      BY <3>4, NoThreadFresh DEF AfterShed, ResizeHolder, TypeOK
    <3>5. ASSUME NEW u \in Threads, Shed(u)
          PROVE  pc[u] # "mu"
      BY <3>5, Zenon DEF Shed, ShedStart, ShedAcquire, ShedBusy, ShedMark, ShedLeave, ShedClear,
         ShedNext, ShedLock, ShedUnlock, ShedRelease, ShedAgain
    <3>6. CASE Finished \/ UNCHANGED vars
      BY <3>6, Zenon DEF Finished, vars
    <3>. QED  BY <3>1, <3>2, <3>3, <3>4, <3>5, <3>6, ZenonT(30) DEF Next
  <2>2. ASSUME NEW s \in Shards
        PROVE  \/ budget'[s] = PerShardBudget(maxEntries)'
               \/ \E t \in Threads : resizeMu' = t /\ Pending(t, s)'
    <3>1. CASE budget[s] = PerShardBudget(maxEntries)
      BY <2>1, <3>1 DEF PerShardBudget
    <3>2. CASE \E t \in Threads : resizeMu = t /\ Pending(t, s)
      BY <1>1, <1>4, <3>2
    <3>. QED  BY <3>1, <3>2, ZenonT(30) DEF BudgetCovered
  <2>. QED  BY <2>1, <2>2, Zenon DEF BudgetCovered
<1>. QED  BY <1>2, <1>3, <1>4

(* For every number of goroutines and shards: with no Resize under way     *)
(* every shard has the budget of the bound in force.                       *)
THEOREM AlwaysResizeSettled == Spec => []ResizeSettled
<1>. DEFINE IInv == /\ TypeOK /\ CountersExact /\ CallsMatchSteps
                    /\ ResizeHolder /\ BudgetCovered
<1>1. Init => IInv
  <2>1. Init => CallsMatchSteps
    BY DEF Init, CallsMatchSteps
  <2>2. Init => ResizeHolder /\ BudgetCovered
    BY NoThreadFresh DEF Init, ResizeHolder, BudgetCovered, NoCall
  <2>. QED  BY <2>1, <2>2, InitCounters
<1>2. IInv /\ [Next]_vars => IInv'
  BY TypeStep, CountersStep, CallsMatchStepsStep, ResizeHolderStep, BudgetStep
<1>3. IInv => ResizeSettled
  BY DEF ResizeSettled, ResizeHolder, BudgetCovered
<1>. QED  BY <1>1, <1>2, <1>3, PTL DEF Spec

=============================================================================
