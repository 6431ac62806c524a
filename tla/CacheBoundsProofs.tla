------------------------- MODULE CacheBoundsProofs -------------------------
(***************************************************************************)
(* Proof that a cache with no call under way is within its bounds: whoever *)
(* finds it over a bound leaves somebody who will shed.                    *)
(***************************************************************************)
EXTENDS CacheProofs

USE DEF store, bounds, mutexes, shedFlags, life, walk, Goto

-----------------------------------------------------------------------------
(* The bounds.  QuietWithinBounds is not inductive: what has to be kept    *)
(* while the cache is over its bounds is that somebody will still notice.  *)

(* A goroutine here has yet to test overBudget, or to start a whole pass.  *)
BusySteps == {"seal", "mu", "lock", "evict", "victim", "unlock",
              "shed", "cas", "mark", "clear"}
PassSteps == {"pass", "visit", "shedEvict", "shedVictim", "shedUnlock"}
SheddingSteps == PassSteps \cup {"clear", "release"}

(* The shards that p's shedPass is done with hold nothing.                 *)
VisitedEmpty(p) ==
    \A k \in Present :
        \/ ShardOf[k] \in left[p]
        \/ ShardOf[k] = at[p] /\ pc[p] \in {"visit", "shedEvict", "shedVictim"}

(* Somebody will test overBudget again: a busy goroutine, the shedder in a *)
(* pass that has found nothing to evict so far, or a shedder that has      *)
(* evicted something or been asked for another pass.                       *)
Covered ==
    \/ \E t \in Threads : pc[t] \in BusySteps
    \/ \E t \in Threads : pc[t] \in PassSteps /\ VisitedEmpty(t)
    \/ \E t \in Threads : /\ pc[t] \in PassSteps \cup {"release", "again"}
                          /\ shedRetry \/ swept[t]

HandOff == OverBudget => Covered \/ (~shedding /\ \E t \in Threads : pc[t] = "cas2")

(* shedding is held by exactly the goroutine that sheds.                   *)
OneShedder ==
    /\ shedding <=> \E t \in Threads : pc[t] \in SheddingSteps
    /\ \A t, u \in Threads : pc[t] \in SheddingSteps /\ pc[u] \in SheddingSteps => t = u

BoundsInv == OneShedder /\ HandOff /\ (NegativeCache => maxBytes = 0)

(* An empty cache is within its bounds.                                    *)
LEMMA OverNotEmpty ==
    ASSUME TypeOK, CountersExact, NegativeCache => maxBytes = 0, OverBudget
    PROVE  Present # {}
<1>. SUFFICES ASSUME Present = {} PROVE FALSE
  OBVIOUS
<1>1. entries = 0
  BY FS_EmptySet DEF CountersExact, EntriesExact
<1>2. WeightUnits(Keys) = {}
  BY WeightType DEF Present, WeightUnits, TypeOK
<1>3. maxBytes > 0 => bytes = 0
  BY <1>2, FS_EmptySet DEF CountersExact, BytesExact
<1>. QED  BY <1>1, <1>3 DEF OverBudget, TypeOK

(* compare-and-swap and the release of shedding keep the shedder unique.   *)
LEMMA OneShedderStep ==
    ASSUME TypeOK, OneShedder, [Next]_vars
    PROVE  OneShedder'
<1>. USE DEF TypeOK, OneShedder, SheddingSteps, PassSteps
<1>1. ASSUME NEW t \in Threads, NEW step, Goto(t, step), UNCHANGED shedding,
             pc[t] \in SheddingSteps <=> step \in SheddingSteps
      PROVE  OneShedder'
  BY <1>1
<1>2. ASSUME NEW t \in Threads, Start(t)
      PROVE  OneShedder'
  BY <1>1, <1>2, StartStep
<1>3. ASSUME NEW t \in Threads, Work(t)
      PROVE  OneShedder'
  <2>1. CASE Seal(t) \/ SetBound(t) \/ UnlockShard(t)
    BY <2>1 DEF Seal, SetBound, UnlockShard
  <2>2. CASE Upsert(t) \/ SkipUpsert(t) \/ RemoveKey(t) \/ SweepShard(t) \/ ClearShard(t)
             \/ ResizeShard(t)
    BY <2>2 DEF Upsert, SkipUpsert, RemoveKey, SweepShard, ClearShard, ResizeShard, Locked
  <2>3. CASE FindVictim(t) \/ NoVictim(t) \/ RemoveVictim(t)
    BY <2>3 DEF FindVictim, NoVictim, RemoveVictim, Evicting
  <2>. QED  BY <1>3, <2>1, <2>2, <2>3 DEF Work
<1>4. ASSUME NEW t \in Threads, Shed(t)
      PROVE  OneShedder'
  <2>1. CASE ShedStart(t) \/ ShedLeave(t) \/ ShedAgain(t)
    BY <2>1 DEF ShedStart, ShedLeave, ShedAgain, AfterShed
  <2>2. CASE ShedBusy(t) \/ ShedMark(t) \/ ShedClear(t)
    BY <2>2 DEF ShedBusy, ShedMark, ShedClear
  <2>3. CASE ShedNext(t) \/ ShedLock(t) \/ ShedUnlock(t)
    BY <2>3 DEF ShedNext, ShedLock, ShedUnlock
  <2>4. CASE ShedAcquire(t)
    BY <2>4 DEF ShedAcquire
  <2>5. CASE ShedRelease(t)
    BY <2>5 DEF ShedRelease
  <2>. QED  BY <1>4, <2>1, <2>2, <2>3, <2>4, <2>5 DEF Shed
<1>5. CASE Finished \/ UNCHANGED vars
  BY <1>5 DEF Finished, vars
<1>. QED  BY <1>2, <1>3, <1>4, <1>5 DEF Next

(* A step of t after which t is busy leaves the cache covered.             *)
LEMMA BusyCovers ==
    ASSUME NEW t \in Threads, pc'[t] \in BusySteps
    PROVE  HandOff'
BY DEF HandOff, Covered

(* A step that only removes entries and takes none of the bounds down does *)
(* not bring the cache over them.                                          *)
LEMMA StillOver ==
    ASSUME TypeOK, CountersExact, UNCHANGED <<maxEntries, maxBytes>>, OverBudget',
           UNCHANGED store \/ \E K \in SUBSET Present : Remove(K)
    PROVE  OverBudget /\ Present' \subseteq Present
<1>1. CASE UNCHANGED store
  BY <1>1 DEF OverBudget, Present
<1>2. ASSUME NEW K \in SUBSET Present, Remove(K)
      PROVE  OverBudget /\ Present' \subseteq Present
  <2>1. Cardinality(K) \in Nat /\ Cardinality(WeightUnits(K)) \in Nat
    BY FiniteStorage, FS_CardinalityType, Zenon DEF Present
  <2>2. Present' \subseteq Present
    BY <1>2 DEF Remove, Present
  <2>3. entries' <= entries /\ bytes' <= bytes
    BY <1>2, <2>1 DEF Remove, TypeOK
  <2>. QED  BY <1>2, <2>1, <2>2, <2>3 DEF OverBudget, TypeOK, Remove
<1>. QED  BY <1>1, <1>2

(* A step of the shedder inside its pass: the others cover what they       *)
(* covered, and the shedder does if it goes on covering what it did.       *)
LEMMA PassKeeps ==
    ASSUME TypeOK, HandOff, NEW t \in Threads,
           NEW step \in PassSteps, pc[t] \in PassSteps, Goto(t, step),
           UNCHANGED <<shedFlags, maxEntries, maxBytes>>,
           OverBudget' => OverBudget /\ Present' \subseteq Present,
           \A u \in Threads \ {t} :
               at'[u] = at[u] /\ left'[u] = left[u] /\ swept'[u] = swept[u],
           swept[t] => swept'[t],
           OverBudget' /\ VisitedEmpty(t) => VisitedEmpty(t)'
    PROVE  HandOff'
<1>. SUFFICES ASSUME OverBudget' PROVE HandOff'
  BY DEF HandOff
<1>1. \A u \in Threads \ {t} : pc'[u] = pc[u]
  BY ZenonT(30) DEF TypeOK
<1>2. pc'[t] = step
  <2>1. pc \in [Threads -> Steps]
    BY Zenon DEF TypeOK
  <2>. QED  BY <2>1, Zenon
<1>3. \A u \in Threads \ {t} : VisitedEmpty(u) => VisitedEmpty(u)'
  BY <1>1 DEF VisitedEmpty
<1>4. step \notin BusySteps \cup {"cas2"} /\ pc[t] \notin BusySteps \cup {"cas2"}
  BY DEF PassSteps, BusySteps
<1>5. CASE \E u \in Threads : pc[u] \in BusySteps
  BY <1>1, <1>4, <1>5 DEF HandOff, Covered
<1>6. ASSUME NEW u \in Threads, pc[u] \in PassSteps, VisitedEmpty(u)
      PROVE  HandOff'
  <2>1. VisitedEmpty(u)' /\ pc'[u] \in PassSteps
    BY <1>1, <1>2, <1>3, <1>6
  <2>. QED  BY <2>1 DEF HandOff, Covered
<1>7. ASSUME NEW u \in Threads, pc[u] \in PassSteps \cup {"release", "again"},
             shedRetry \/ swept[u]
      PROVE  HandOff'
  <2>1. pc'[u] \in PassSteps \cup {"release", "again"} /\ (shedRetry' \/ swept'[u])
    BY <1>1, <1>2, <1>7
  <2>. QED  BY <2>1, ZenonT(30) DEF HandOff, Covered
<1>8. CASE ~shedding /\ \E u \in Threads : pc[u] = "cas2"
  BY <1>1, <1>4, <1>8 DEF HandOff
<1>. QED  BY <1>5, <1>6, <1>7, <1>8 DEF HandOff, Covered

(* A goroutine that covered nothing may go; the others still cover.        *)
LEMMA LeaverKeeps ==
    ASSUME TypeOK, HandOff, NEW t \in Threads, NEW step, Goto(t, step),
           UNCHANGED <<store, shedFlags, maxEntries, maxBytes, at>>,
           \A u \in Threads \ {t} : left'[u] = left[u] /\ swept'[u] = swept[u],
           pc[t] \notin BusySteps \cup PassSteps,
           pc[t] = "cas2" => shedding,
           pc[t] \in {"release", "again"} => ~shedRetry /\ ~swept[t]
    PROVE  HandOff'
<1>. SUFFICES ASSUME OverBudget' PROVE HandOff'
  BY DEF HandOff
<1>1. \A u \in Threads \ {t} : pc'[u] = pc[u]
  BY DEF TypeOK
<1>2. OverBudget /\ Present' = Present
  BY DEF OverBudget, Present
<1>3. \A u \in Threads \ {t} : VisitedEmpty(u) => VisitedEmpty(u)'
  BY <1>1, <1>2 DEF VisitedEmpty
<1>4. CASE Covered
  BY <1>1, <1>3, <1>4 DEF HandOff, Covered
<1>5. CASE ~shedding /\ \E u \in Threads : pc[u] = "cas2"
  BY <1>1, <1>5 DEF HandOff
<1>. QED  BY <1>2, <1>4, <1>5 DEF HandOff

(* Eviction: inside a pass, a shard is done with once nothing is left in   *)
(* it or the cache is within its bounds.                                   *)
LEMMA EvictKeepsHandOff ==
    ASSUME TypeOK, CountersExact, BoundsInv, NEW t \in Threads,
           FindVictim(t) \/ NoVictim(t) \/ RemoveVictim(t)
    PROVE  HandOff'
<1>. USE DEF BoundsInv
<1>1. CASE pc[t] \in {"evict", "victim"}
  <2>1. pc'[t] \in BusySteps
    BY <1>1 DEF FindVictim, NoVictim, RemoveVictim, Evicting, BusySteps, TypeOK
  <2>. QED  BY <2>1, BusyCovers
<1>2. CASE pc[t] = "shedEvict" /\ FindVictim(t)
  <2>1. Goto(t, "shedVictim") /\ UNCHANGED <<store, bounds, shedFlags, walk>>
    BY <1>2 DEF FindVictim
  <2>2. VisitedEmpty(t) => VisitedEmpty(t)'
    BY <1>2, <2>1 DEF VisitedEmpty, Present, TypeOK
  <2>3. OverBudget' => OverBudget /\ Present' \subseteq Present
    BY <2>1 DEF OverBudget, Present
  <2>. QED  BY <1>2, <2>1, <2>2, <2>3, PassKeeps, Zenon DEF PassSteps
<1>3. CASE pc[t] = "shedEvict" /\ NoVictim(t)
  <2>1. Goto(t, "shedUnlock") /\ UNCHANGED <<store, bounds, shedFlags, walk>> /\ ~OverTotal(t)
    BY <1>3 DEF NoVictim
  <2>2. OverBudget' => OverBudget /\ Present' \subseteq Present
    BY <2>1 DEF OverBudget, Present
  <2>3. OverBudget => KeysIn(at[t]) = {}
    <3>1. IsFiniteSet(KeysIn(at[t]))
      BY KeysFinite, FS_Subset DEF KeysIn
    <3>2. OverBudget => Cardinality(KeysIn(at[t])) = 0
      BY <1>3, <2>1 DEF OverTotal, Keeps
    <3>. QED  BY <3>1, <3>2, FS_EmptySet
  <2>4. OverBudget' /\ VisitedEmpty(t) => VisitedEmpty(t)'
    BY <1>3, <2>1, <2>2, <2>3 DEF VisitedEmpty, KeysIn, Present, TypeOK
  <2>. QED  BY <1>3, <2>1, <2>2, <2>4, PassKeeps, Zenon DEF PassSteps
<1>4. CASE pc[t] = "shedVictim" /\ RemoveVictim(t)
  <2>1. /\ Goto(t, "shedEvict") /\ UNCHANGED <<bounds, shedFlags, at, left>>
        /\ swept' = [swept EXCEPT ![t] = TRUE]
    BY <1>4, Zenon DEF RemoveVictim, TypeOK
  <2>2. \E K \in SUBSET Present : Remove(K)
    <3>. PICK k \in KeysIn(at[t]) : Remove({k})
      BY <1>4 DEF RemoveVictim
    <3>. {k} \in SUBSET Present
      BY Zenon DEF KeysIn, Present
    <3>. QED  OBVIOUS
  <2>3. OverBudget' => OverBudget /\ Present' \subseteq Present
    BY <2>1, <2>2, StillOver
  <2>4. OverBudget' /\ VisitedEmpty(t) => VisitedEmpty(t)'
    BY <1>4, <2>1, <2>3 DEF VisitedEmpty, TypeOK
  <2>. QED  BY <1>4, <2>1, <2>3, <2>4, PassKeeps, Zenon DEF PassSteps, TypeOK
<1>. QED  BY <1>1, <1>2, <1>3, <1>4 DEF FindVictim, NoVictim, RemoveVictim, Evicting

(* The steps of shedOverBudget.                                            *)
LEMMA ShedKeepsHandOff ==
    ASSUME TypeOK, CountersExact, BoundsInv, NEW t \in Threads, Shed(t)
    PROVE  HandOff'
<1>. USE DEF BoundsInv
<1>0. ASSUME UNCHANGED <<store, bounds>>
      PROVE  OverBudget' => OverBudget /\ Present' \subseteq Present
  BY <1>0 DEF OverBudget, Present
<1>1. ASSUME AfterShed(t), UNCHANGED <<store, bounds, shedFlags>>,
             ~OverBudget \/ (pc[t] = "cas2" /\ shedding)
                         \/ (pc[t] = "again" /\ ~shedRetry /\ ~swept[t])
      PROVE  HandOff'
  <2>1. CASE todo[t] # {}
    <3>1. pc'[t] \in BusySteps
      BY <1>1, <2>1 DEF AfterShed, TypeOK, BusySteps
    <3>. QED  BY <3>1, BusyCovers
  <2>2. CASE todo[t] = {} /\ OverBudget
    <3>1. /\ Goto(t, "idle") /\ UNCHANGED at
          /\ \A u \in Threads \ {t} : left'[u] = left[u] /\ swept'[u] = swept[u]
      BY <1>1, <2>2 DEF AfterShed, TypeOK
    <3>2. pc[t] \notin BusySteps \cup PassSteps
      BY <1>1, <2>2 DEF BusySteps, PassSteps
    <3>. QED  BY <1>1, <2>2, <3>1, <3>2, LeaverKeeps, ZenonT(30)
  <2>3. CASE ~OverBudget
    BY <1>0, <1>1, <2>3, Zenon DEF HandOff
  <2>. QED  BY <2>1, <2>2, <2>3
<1>2. CASE ShedStart(t)
  <2>1. CASE OverBudget
    <3>1. pc'[t] \in BusySteps
      BY <1>2, <2>1 DEF ShedStart, BusySteps, TypeOK
    <3>. QED  BY <3>1, BusyCovers
  <2>2. CASE ~OverBudget
    BY <1>1, <1>2, <2>2 DEF ShedStart
  <2>. QED  BY <2>1, <2>2
<1>3. CASE ShedAcquire(t) \/ ShedBusy(t)
  <2>1. pc'[t] \in BusySteps
    BY <1>3 DEF ShedAcquire, ShedBusy, BusySteps, TypeOK
  <2>. QED  BY <2>1, BusyCovers
<1>4. CASE ShedMark(t)
  <2>1. shedRetry' /\ shedding' = shedding /\ pc'[t] = "cas2"
    BY <1>4 DEF ShedMark, TypeOK
  <2>2. CASE ~shedding
    BY <2>1, <2>2 DEF HandOff
  <2>3. CASE shedding
    <3>1. PICK p \in Threads : pc[p] \in SheddingSteps
      BY <2>3 DEF OneShedder
    <3>2. p # t /\ pc'[p] = pc[p]
      BY <1>4, <3>1 DEF ShedMark, SheddingSteps, PassSteps, TypeOK
    <3>. QED  BY <2>1, <3>1, <3>2, Zenon DEF HandOff, Covered, SheddingSteps, BusySteps
  <2>. QED  BY <2>2, <2>3 DEF TypeOK
<1>5. CASE ShedLeave(t)
  BY <1>1, <1>5, Zenon DEF ShedLeave
<1>6. CASE ShedClear(t)
  <2>1. pc'[t] = "pass" /\ left'[t] = Shards
    BY <1>6 DEF ShedClear, TypeOK
  <2>2. VisitedEmpty(t)'
    BY <2>1, ShardOfType DEF VisitedEmpty, Present
  <2>. QED  BY <2>1, <2>2, Zenon DEF HandOff, Covered, PassSteps
<1>7. CASE ShedNext(t)
  <2>1. pc[t] = "pass" /\ UNCHANGED <<store, bounds, shedFlags, swept>>
    BY <1>7, Zenon DEF ShedNext
  <2>2. CASE OverBudget /\ left[t] # {}
    <3>. PICK s \in left[t] : /\ at' = [at EXCEPT ![t] = s]
                              /\ left' = [left EXCEPT ![t] = @ \ {s}]
                              /\ Goto(t, "visit")
      BY <1>7, <2>2 DEF ShedNext
    <3>1. VisitedEmpty(t) => VisitedEmpty(t)'
      BY <2>1 DEF VisitedEmpty, Present, TypeOK
    <3>. QED  BY <1>0, <2>1, <3>1, PassKeeps, Zenon DEF PassSteps, TypeOK
  <2>3. CASE OverBudget /\ left[t] = {}
    <3>1. Goto(t, "release") /\ UNCHANGED <<at, left>>
      BY <1>7, <2>3, ZenonT(30) DEF ShedNext
    <3>2. ~VisitedEmpty(t)
      BY <2>1, <2>3, OverNotEmpty DEF VisitedEmpty
    <3>3. \A u \in Threads \ {t} : pc'[u] = pc[u] /\ (VisitedEmpty(u) => VisitedEmpty(u)')
      BY <2>1, <3>1 DEF VisitedEmpty, Present, TypeOK
    <3>4. pc'[t] = "release"
      BY <3>1 DEF TypeOK
    <3>5. Covered => Covered'
      BY <2>1, <3>2, <3>3, <3>4 DEF Covered, BusySteps
    <3>6. shedding
      BY <2>1 DEF OneShedder, SheddingSteps, PassSteps
    <3>. QED  BY <2>3, <3>5, <3>6 DEF HandOff
  <2>4. CASE ~OverBudget
    BY <1>0, <2>1, <2>4 DEF HandOff
  <2>. QED  BY <2>2, <2>3, <2>4
<1>8. CASE ShedLock(t) \/ ShedUnlock(t)
  <2>1. /\ pc[t] \in {"visit", "shedUnlock"}
        /\ Goto(t, IF pc[t] = "visit" THEN "shedEvict" ELSE "pass")
        /\ UNCHANGED <<store, bounds, shedFlags, walk>>
    BY <1>8 DEF ShedLock, ShedUnlock
  <2>2. VisitedEmpty(t) => VisitedEmpty(t)'
    BY <2>1 DEF VisitedEmpty, Present, TypeOK
  <2>. QED  BY <1>0, <2>1, <2>2, PassKeeps, Zenon DEF PassSteps
<1>9. CASE ShedRelease(t)
  <2>1. /\ pc[t] = "release" /\ Goto(t, "again") /\ UNCHANGED <<store, bounds, shedRetry, walk>>
    BY <1>9 DEF ShedRelease
  <2>2. shedding
    BY <2>1 DEF OneShedder, SheddingSteps
  <2>3. pc'[t] = "again" /\ \A u \in Threads \ {t} : pc'[u] = pc[u]
    BY <2>1 DEF TypeOK
  <2>4. \A u \in Threads \ {t} : VisitedEmpty(u) => VisitedEmpty(u)'
    BY <2>1, <2>3 DEF VisitedEmpty, Present
  <2>5. Covered => Covered'
    BY <2>1, <2>3, <2>4 DEF Covered, BusySteps, PassSteps
  <2>. QED  BY <1>0, <2>1, <2>2, <2>5 DEF HandOff
<1>10. CASE ShedAgain(t)
  <2>1. CASE swept[t] \/ shedRetry
    <3>1. pc'[t] \in BusySteps
      BY <1>10, <2>1 DEF ShedAgain, BusySteps, TypeOK
    <3>. QED  BY <3>1, BusyCovers
  <2>2. CASE ~(swept[t] \/ shedRetry)
    BY <1>1, <1>10, <2>2 DEF ShedAgain
  <2>. QED  BY <2>1, <2>2
<1>. QED  BY <1>2, <1>3, <1>4, <1>5, <1>6, <1>7, <1>8, <1>9, <1>10 DEF Shed

(* Every step keeps the shedding handed over.                              *)
LEMMA BoundsStep ==
    ASSUME TypeOK, CountersExact, BoundsInv, NegativeCache => InitBytes = 0, [Next]_vars
    PROVE  BoundsInv'
<1>1. OneShedder'
  BY OneShedderStep DEF BoundsInv
<1>2. HandOff'
  <2>1. ASSUME NEW t \in Threads, Start(t)
        PROVE  HandOff'
    <3>1. pc'[t] \in BusySteps
      BY <2>1, StartStep DEF TypeOK, BusySteps
    <3>. QED  BY <3>1, BusyCovers
  <2>2. ASSUME NEW t \in Threads, Work(t)
        PROVE  HandOff'
    <3>1. CASE Seal(t) \/ SetBound(t) \/ UnlockShard(t)
      <4>1. pc'[t] \in BusySteps
        BY <3>1 DEF Seal, SetBound, UnlockShard, TypeOK, BusySteps
      <4>. QED  BY <4>1, BusyCovers
    <3>2. CASE \/ Upsert(t) \/ SkipUpsert(t) \/ RemoveKey(t)
               \/ SweepShard(t) \/ ClearShard(t) \/ ResizeShard(t)
      <4>1. \E ops, step : Locked(t, ops, step) /\ step \in BusySteps
        BY <3>2, Zenon DEF Upsert, SkipUpsert, RemoveKey, SweepShard, ClearShard, ResizeShard,
           BusySteps
      <4>2. pc'[t] \in BusySteps
        BY <4>1 DEF Locked, TypeOK
      <4>. QED  BY <4>2, BusyCovers
    <3>3. CASE FindVictim(t) \/ NoVictim(t) \/ RemoveVictim(t)
      BY <3>3, EvictKeepsHandOff
    <3>. QED  BY <2>2, <3>1, <3>2, <3>3 DEF Work
  <2>3. ASSUME NEW t \in Threads, Shed(t)
        PROVE  HandOff'
    BY <2>3, ShedKeepsHandOff
  <2>4. CASE Finished \/ UNCHANGED vars
    BY <2>4, Zenon DEF Finished, vars, BoundsInv, HandOff, Covered, VisitedEmpty, OverBudget, Present
  <2>. QED  BY <2>1, <2>2, <2>3, <2>4 DEF Next
<1>3. (NegativeCache => maxBytes = 0)'
  <2>1. ASSUME NEW t \in Threads, Start(t)
        PROVE  UNCHANGED maxBytes
    BY <2>1, Zenon DEF Start, Set, Delete, CallOnKey, InsertNegative, DeleteExpired, Tick, Clear,
       Reset, CallOnShards, Resize, Close
  <2>2. ASSUME NEW t \in Threads, Work(t), ~SetBound(t)
        PROVE  UNCHANGED maxBytes
    BY <2>2, Zenon DEF Work, Seal, Upsert, SkipUpsert, RemoveKey, SweepShard, ClearShard,
       ResizeShard, Locked, FindVictim, NoVictim, RemoveVictim, UnlockShard
  <2>3. ASSUME NEW t \in Threads, SetBound(t), NegativeCache
        PROVE  UNCHANGED maxBytes
    BY <2>3 DEF SetBound
  <2>4. ASSUME NEW t \in Threads, Shed(t)
        PROVE  UNCHANGED maxBytes
    BY <2>4, Zenon DEF Shed, ShedStart, ShedAcquire, ShedBusy, ShedMark, ShedLeave, ShedClear,
       ShedNext, ShedLock, ShedUnlock, ShedRelease, ShedAgain
  <2>5. CASE Finished \/ UNCHANGED vars
    BY <2>5, Zenon DEF Finished, vars, BoundsInv
  <2>. QED  BY <2>1, <2>2, <2>3, <2>4, <2>5 DEF Next, BoundsInv
<1>. QED  BY <1>1, <1>2, <1>3 DEF BoundsInv

(* For every number of goroutines and shards: whenever all calls have      *)
(* returned the cache is within its entry and byte bounds.  A byte-bounded *)
(* cache is assumed to have no negative cache, whose tombstones make the   *)
(* byte counter drift.                                                     *)
THEOREM AlwaysQuietWithinBounds ==
    ASSUME NegativeCache => InitBytes = 0
    PROVE  Spec => []QuietWithinBounds
<1>. DEFINE IInv == TypeOK /\ CountersExact /\ BoundsInv
<1>1. Init => IInv
  <2>1. Init => OneShedder /\ HandOff
    BY BoundTypes DEF Init, OneShedder, HandOff, OverBudget, SheddingSteps, PassSteps
  <2>2. Init => (NegativeCache => maxBytes = 0)
    BY DEF Init
  <2>. QED  BY <2>1, <2>2, InitCounters DEF BoundsInv
<1>2. IInv /\ [Next]_vars => IInv'
  BY TypeStep, CountersStep, BoundsStep
<1>3. IInv => QuietWithinBounds
  <2>. SUFFICES ASSUME IInv, \A t \in Threads : pc[t] = "idle" PROVE ~OverBudget
    BY DEF QuietWithinBounds
  <2>. QED  BY DEF BoundsInv, HandOff, Covered, BusySteps, PassSteps
<1>. QED  BY <1>1, <1>2, <1>3, PTL DEF Spec

=============================================================================
