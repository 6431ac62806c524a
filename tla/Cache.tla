------------------------------- MODULE Cache -------------------------------
(***************************************************************************)
(* The bounded, sharded cache of cache.go: the writers that insert, update *)
(* and remove entries under one shard lock at a time, the two counters     *)
(* (entries, bytes) they keep without a common lock, the eviction that     *)
(* brings the cache back within its bounds (evictOverBudgetLocked inside a *)
(* shard, shedOverBudget across shards), Resize, Clear, Reset and Close.   *)
(*                                                                         *)
(* An entry is its weight: weight[k] = 0 says that k is absent, because    *)
(* clampWeight makes every stored weight at least 1.  Which entry a policy *)
(* evicts is left open.  A call made by a goroutine is a sequence of       *)
(* steps; pc[t] names the next one.  Every write of shared memory that     *)
(* another goroutine can see is a step of its own.  A writer holding a     *)
(* shard's mutex does what it does to that shard's map and to the two      *)
(* counters in one step.                                                   *)
(***************************************************************************)
EXTENDS Integers, FiniteSets

CONSTANTS
    Keys,           \* the keys callers use
    Shards,         \* the cache's shards
    ShardOf,        \* shardFor: the shard of each key
    Threads,        \* goroutines that call into the cache
    MaxWeight,      \* the largest weight the weigher gives an entry
    InitEntries,    \* WithMaxEntries, 0 for no entry bound
    InitBytes,      \* WithMaxBytes, 0 for no byte bound
    Sizes,          \* the bounds passed to Resize
    NegativeCache,  \* TRUE when WithNegativeCache is configured
    VictimMayBeNil, \* TRUE when the policy may give no victim to a full shard
    MaxCalls,       \* bound: how many calls one goroutine makes
    NoThread        \* the holder of a free lock

ASSUME KeysFinite == IsFiniteSet(Keys)
ASSUME ShardsFinite == IsFiniteSet(Shards) /\ Shards # {}
ASSUME ShardOfType == ShardOf \in [Keys -> Shards]
ASSUME WeightType == MaxWeight \in Nat \ {0}
ASSUME BoundTypes == InitEntries \in Nat /\ InitBytes \in Nat
ASSUME SizesType == Sizes \subseteq Nat \ {0}
ASSUME FlagTypes == NegativeCache \in BOOLEAN /\ VictimMayBeNil \in BOOLEAN
ASSUME MaxCallsType == MaxCalls \in Nat
ASSUME NoThreadFresh == NoThread \notin Threads

VARIABLES
    weight,      \* storage of all shards: the weight of each key, 0 if absent
    entries,     \* counters.entries
    bytes,       \* counters.bytes
    maxEntries,  \* Cache.maxEntries
    maxBytes,    \* Cache.maxBytes
    budget,      \* shard.budget: the entry budget of each shard
    lock,        \* shard.mu: its holder
    resizeMu,    \* Cache.resizeMu: its holder
    shedding,    \* Cache.shedding
    shedRetry,   \* Cache.shedRetry
    closed,      \* Cache.closed
    sealed,      \* Cache.sealed
    pc,          \* the next step of each goroutine
    call,        \* the call it is in: its kind and arguments
    at,          \* the shard it works on
    todo,        \* the shards its call has still to visit
    last,        \* shedOverBudget's argument last: {} or {a shard}
    left,        \* the shards its shedPass has still to visit
    swept,       \* whether its shedPass has evicted anything
    calls        \* how many calls it has made

store == <<weight, entries, bytes>>
bounds == <<maxEntries, maxBytes, budget>>
mutexes == <<lock, resizeMu>>
shedFlags == <<shedding, shedRetry>>
life == <<closed, sealed>>
walk == <<at, todo, last, left, swept>>
vars == <<store, bounds, mutexes, shedFlags, life, pc, call, walk, calls>>

-----------------------------------------------------------------------------
(* Derived state.                                                          *)

Present == {k \in Keys : weight[k] > 0}
KeysIn(s) == {k \in Keys : ShardOf[k] = s /\ weight[k] > 0}

(* One pair per unit of weight in the set K of keys: its cardinality is    *)
(* the total weight of K.                                                  *)
WeightUnits(K) == {u \in K \X (1..MaxWeight) : u[2] <= weight[u[1]]}

(* overBudget: more entries, or more bytes, than the bounds allow.         *)
OverBudget == \/ maxEntries > 0 /\ entries > maxEntries
              \/ maxBytes > 0 /\ bytes > maxBytes

(* perShardBudget: a shard's share of max, rounded up, and a tenth (at     *)
(* least 1) more.                                                          *)
PerShardBudget(max) ==
    LET n == Cardinality(Shards)
        per == (max + n - 1) \div n
        slack == (per * 10) \div 100
    IN  IF max = 0 THEN 0 ELSE per + (IF slack > 1 THEN slack ELSE 1)

NoCall == [op |-> "none"]
SetCalls == [op : {"set"}, key : Keys, weight : 1..MaxWeight]
KeyCalls == [op : {"delete", "negative"}, key : Keys]
SweepCalls == [op : {"sweep", "clear", "reset", "close"}]
ResizeCalls == [op : {"resize"}, size : Sizes]
Calls == {NoCall} \cup SetCalls \cup KeyCalls \cup SweepCalls \cup ResizeCalls

Init ==
    /\ weight = [k \in Keys |-> 0] /\ entries = 0 /\ bytes = 0
    /\ maxEntries = InitEntries /\ maxBytes = InitBytes
    /\ budget = [s \in Shards |-> PerShardBudget(InitEntries)]
    /\ lock = [s \in Shards |-> NoThread] /\ resizeMu = NoThread
    /\ shedding = FALSE /\ shedRetry = FALSE
    /\ closed = FALSE /\ sealed = FALSE
    /\ pc = [t \in Threads |-> "idle"] /\ call = [t \in Threads |-> NoCall]
    /\ at = [t \in Threads |-> CHOOSE s \in Shards : TRUE]
    /\ todo = [t \in Threads |-> {}]
    /\ last = [t \in Threads |-> {}] /\ left = [t \in Threads |-> {}]
    /\ swept = [t \in Threads |-> FALSE]
    /\ calls = [t \in Threads |-> 0]

-----------------------------------------------------------------------------
(* A goroutine enters a call.                                              *)

Goto(t, step) == pc' = [pc EXCEPT ![t] = step]

Enter(t, c, step) ==
    /\ pc[t] = "idle" /\ calls[t] < MaxCalls
    /\ calls' = [calls EXCEPT ![t] = @ + 1]
    /\ call' = [call EXCEPT ![t] = c]
    /\ Goto(t, step)

(* Set and its variants, and deleteKey, check closed before they take the  *)
(* lock of the key's shard.                                                *)
CallOnKey(t, c) ==
    /\ ~closed
    /\ Enter(t, c, "lock")
    /\ at' = [at EXCEPT ![t] = ShardOf[c.key]]
    /\ UNCHANGED <<store, bounds, mutexes, shedFlags, life, todo, last, left, swept>>

Set(t) == \E c \in SetCalls : CallOnKey(t, c)
Delete(t) == \E k \in Keys : CallOnKey(t, [op |-> "delete", key |-> k])

(* A call that locks the shards of S one after the other.  The code walks  *)
(* them by index; nothing here depends on the order.                       *)
Visit(t, S) == \E s \in S : /\ at' = [at EXCEPT ![t] = s]
                            /\ todo' = [todo EXCEPT ![t] = S \ {s}]

CallOnShards(t, c, S) ==
    /\ Enter(t, c, "lock")
    /\ Visit(t, S)
    /\ UNCHANGED <<store, bounds, mutexes, shedFlags, life, last, left, swept>>

(* DeleteExpired, DeletePrefix and DeleteWhere visit every shard, a        *)
(* janitor's tick its own.                                                 *)
DeleteExpired(t) == ~closed /\ CallOnShards(t, [op |-> "sweep"], Shards)
Tick(t) == \E s \in Shards : CallOnShards(t, [op |-> "sweep"], {s})
Clear(t) == ~closed /\ CallOnShards(t, [op |-> "clear"], Shards)
Reset(t) == CallOnShards(t, [op |-> "reset"], Shards)

Resize(t) ==
    /\ ~closed
    /\ \E n \in Sizes : Enter(t, [op |-> "resize", size |-> n], "mu")
    /\ UNCHANGED <<store, bounds, mutexes, shedFlags, life, walk>>

(* Close: the compare-and-swap that lets one caller through.               *)
Close(t) ==
    /\ ~closed /\ closed' = TRUE
    /\ Enter(t, [op |-> "close"], "seal")
    /\ UNCHANGED <<store, bounds, mutexes, shedFlags, sealed, walk>>

(* Close, past the drain of async writes and the final snapshot: no upsert *)
(* stores anything from here on, and Reset empties the shards.             *)
Seal(t) ==
    /\ pc[t] = "seal"
    /\ sealed' = TRUE
    /\ Visit(t, Shards)
    /\ Goto(t, "lock")
    /\ UNCHANGED <<store, bounds, mutexes, shedFlags, closed, call, last, left, swept, calls>>

(* Mutant of SetBound: a Resize that does not wait for resizeMu.           *)
SetBoundUnlocked(t) ==
    /\ pc[t] = "mu"
    /\ maxEntries' = call[t].size
    /\ Visit(t, Shards)
    /\ Goto(t, "lock")
    /\ UNCHANGED <<store, maxBytes, budget, mutexes, shedFlags, life, call, last, left, swept, calls>>

(* Resize, holding resizeMu: the new bound.                                *)
SetBound(t) ==
    /\ pc[t] = "mu" /\ resizeMu = NoThread
    /\ resizeMu' = t
    /\ IF InitBytes > 0
       THEN maxBytes' = call[t].size /\ UNCHANGED maxEntries
       ELSE maxEntries' = call[t].size /\ UNCHANGED maxBytes
    /\ Visit(t, Shards)
    /\ Goto(t, "lock")
    /\ UNCHANGED <<store, budget, lock, shedFlags, life, call, last, left, swept, calls>>

-----------------------------------------------------------------------------
(* What a call does to one shard, holding its lock.                        *)

(* removeLocked, for each entry of K.                                      *)
Remove(K) ==
    /\ weight' = [k \in Keys |-> IF k \in K THEN 0 ELSE weight[k]]
    /\ entries' = entries - Cardinality(K)
    /\ bytes' = bytes - Cardinality(WeightUnits(K))

Locked(t, ops, step) ==
    /\ pc[t] = "lock" /\ call[t].op \in ops /\ lock[at[t]] = NoThread
    /\ lock' = [lock EXCEPT ![at[t]] = t]
    /\ Goto(t, step)
    /\ UNCHANGED <<resizeMu, shedFlags, life, call, walk, calls, maxEntries, maxBytes>>

(* Mutants of Upsert: one that does not look at sealed, one whose update   *)
(* adds the new weight and keeps the old one counted.                      *)
UpsertUnsealed(t) ==
    LET k == call[t].key
        w == call[t].weight
    IN  /\ Locked(t, {"set"}, IF weight[k] = 0 THEN "evict" ELSE "unlock")
        /\ weight' = [weight EXCEPT ![k] = w]
        /\ entries' = entries + (IF weight[k] = 0 THEN 1 ELSE 0)
        /\ bytes' = bytes + w - weight[k]
        /\ UNCHANGED budget

UpsertAddsWeight(t) ==
    LET k == call[t].key
        w == call[t].weight
    IN  /\ ~sealed
        /\ Locked(t, {"set"}, IF weight[k] = 0 THEN "evict" ELSE "unlock")
        /\ weight' = [weight EXCEPT ![k] = w]
        /\ entries' = entries + (IF weight[k] = 0 THEN 1 ELSE 0)
        /\ bytes' = bytes + w
        /\ UNCHANGED budget

(* upsertLocked: an update changes the weight, an insert also evicts.      *)
Upsert(t) ==
    LET k == call[t].key
        w == call[t].weight
    IN  /\ ~sealed
        /\ Locked(t, {"set"}, IF weight[k] = 0 THEN "evict" ELSE "unlock")
        /\ weight' = [weight EXCEPT ![k] = w]
        /\ entries' = entries + (IF weight[k] = 0 THEN 1 ELSE 0)
        /\ bytes' = bytes + w - weight[k]
        /\ UNCHANGED budget

(* A Set that stores nothing: the cache is sealed, the admission policy    *)
(* refuses the key, or SetIfAbsent, SetIfPresent, GetOrSet or Compute      *)
(* finds its condition false.                                              *)
SkipUpsert(t) ==
    /\ Locked(t, {"set"}, "unlock")
    /\ UNCHANGED <<store, budget>>

(* removeKeyLocked, also of a key that is absent; DeleteIf.                *)
RemoveKey(t) ==
    /\ Locked(t, {"delete"}, "unlock")
    /\ Remove({call[t].key} \cap Present)
    /\ UNCHANGED budget

(* The end of a load (a Refresh, or a GetOrLoad of an expired entry) that  *)
(* found nothing and was not superseded: insertNegativeTombstoneLocked.  A *)
(* tombstone over an entry takes its place and leaves the counters alone.  *)
InsertNegative(t) == \E k \in Keys :
    /\ NegativeCache /\ ~closed /\ ~sealed /\ lock[ShardOf[k]] = NoThread
    /\ Enter(t, [op |-> "negative", key |-> k], IF weight[k] = 0 THEN "evict" ELSE "unlock")
    /\ lock' = [lock EXCEPT ![ShardOf[k]] = t]
    /\ at' = [at EXCEPT ![t] = ShardOf[k]]
    /\ weight' = [weight EXCEPT ![k] = 1]
    /\ entries' = entries + (IF weight[k] = 0 THEN 1 ELSE 0)
    /\ bytes' = bytes + (IF weight[k] = 0 THEN 1 ELSE 0)
    /\ UNCHANGED <<bounds, resizeMu, shedFlags, life, todo, last, left, swept>>

(* sweepExpiredLocked, DeleteExpired, deletePrefixShard, DeleteWhere: any  *)
(* entries of the shard may have expired or match.                         *)
SweepShard(t) ==
    /\ Locked(t, {"sweep"}, "unlock")
    /\ \E K \in SUBSET KeysIn(at[t]) : Remove(K)
    /\ UNCHANGED budget

(* Mutant of ClearShard: it empties the shard and keeps its entries counted. *)
ClearShardUncounted(t) ==
    /\ Locked(t, {"clear", "reset", "close"}, "unlock")
    /\ weight' = [k \in Keys |-> IF ShardOf[k] = at[t] THEN 0 ELSE weight[k]]
    /\ UNCHANGED <<entries, bytes, budget>>

(* The loop body of Clear, and of Reset, which Close also runs.            *)
ClearShard(t) ==
    /\ Locked(t, {"clear", "reset", "close"}, "unlock")
    /\ Remove(KeysIn(at[t]))
    /\ UNCHANGED budget

(* The loop body of Resize.                                                *)
ResizeShard(t) ==
    /\ Locked(t, {"resize"}, "evict")
    /\ budget' = [budget EXCEPT ![at[t]] =
                     PerShardBudget(IF InitBytes > 0 THEN maxEntries ELSE call[t].size)]
    /\ UNCHANGED store

-----------------------------------------------------------------------------
(* evictOverBudgetLocked: one test, and one removal, per iteration.  keep  *)
(* is 1 after an insert, 0 in a shedPass, and without bound in Resize.     *)

Evicting(t) == pc[t] \in {"evict", "shedEvict"}
Keeps(t, n) == IF pc[t] = "shedEvict" THEN n = 0
               ELSE call[t].op = "resize" \/ n <= 1

OverShard(s) == budget[s] > 0 /\ Cardinality(KeysIn(s)) > budget[s]
OverTotal(t) == ~Keeps(t, Cardinality(KeysIn(at[t]))) /\ OverBudget

(* There is a victim: for an over-full shard the policy's own, else, with  *)
(* the whole cache over its bounds, any entry (shedVictim).                *)
FindVictim(t) ==
    /\ Evicting(t) /\ (OverShard(at[t]) \/ OverTotal(t))
    /\ Goto(t, IF pc[t] = "evict" THEN "victim" ELSE "shedVictim")
    /\ UNCHANGED <<store, bounds, mutexes, shedFlags, life, call, walk, calls>>

NoVictim(t) ==
    /\ Evicting(t) /\ ~OverTotal(t) /\ (OverShard(at[t]) => VictimMayBeNil)
    /\ Goto(t, IF pc[t] = "evict" THEN "unlock" ELSE "shedUnlock")
    /\ UNCHANGED <<store, bounds, mutexes, shedFlags, life, call, walk, calls>>

(* Mutant of RemoveVictim: the policy names an entry that is gone.         *)
RemoveVictimStale(t) ==
    /\ pc[t] \in {"victim", "shedVictim"}
    /\ swept' = [swept EXCEPT ![t] = @ \/ pc[t] = "shedVictim"]
    /\ Goto(t, IF pc[t] = "victim" THEN "evict" ELSE "shedEvict")
    /\ UNCHANGED <<store, bounds, mutexes, shedFlags, life, call, at, todo, last, left, calls>>

RemoveVictim(t) ==
    /\ pc[t] \in {"victim", "shedVictim"}
    /\ \E k \in KeysIn(at[t]) : Remove({k})
    /\ swept' = [swept EXCEPT ![t] = @ \/ pc[t] = "shedVictim"]
    /\ Goto(t, IF pc[t] = "victim" THEN "evict" ELSE "shedEvict")
    /\ UNCHANGED <<bounds, mutexes, shedFlags, life, call, at, todo, last, left, calls>>

-----------------------------------------------------------------------------
(* The end of a call, or of its work on one shard.                         *)

(* flushAndUnlock, and releaseShardInto with the runCallbacks after it:    *)
(* release the shard, then shedOverBudget with this shard last.  Resize    *)
(* releases each shard and sheds once, with no shard last.                 *)
UnlockShard(t) ==
    /\ pc[t] = "unlock"
    /\ lock' = [lock EXCEPT ![at[t]] = NoThread]
    /\ IF call[t].op = "resize" /\ todo[t] # {}
       THEN Visit(t, todo[t]) /\ Goto(t, "lock") /\ UNCHANGED last
       ELSE /\ last' = [last EXCEPT ![t] = IF call[t].op = "resize" THEN {} ELSE {at[t]}]
            /\ Goto(t, "shed")
            /\ UNCHANGED <<at, todo>>
    /\ UNCHANGED <<store, bounds, resizeMu, shedFlags, life, call, left, swept, calls>>

(* shedOverBudget has returned: on to the next shard, or return.  Resize   *)
(* releases resizeMu by its defer.                                         *)
AfterShed(t) ==
    IF todo[t] # {}
    THEN Visit(t, todo[t]) /\ Goto(t, "lock") /\ UNCHANGED <<call, resizeMu, last, left, swept>>
    ELSE /\ Goto(t, "idle")
         /\ call' = [call EXCEPT ![t] = NoCall]
         /\ resizeMu' = IF call[t].op = "resize" THEN NoThread ELSE resizeMu
         /\ last' = [last EXCEPT ![t] = {}]
         /\ left' = [left EXCEPT ![t] = {}]
         /\ swept' = [swept EXCEPT ![t] = FALSE]
         /\ UNCHANGED <<at, todo>>

-----------------------------------------------------------------------------
(* shedOverBudget and shedPass.                                            *)

ShedStart(t) ==
    /\ pc[t] = "shed"
    /\ IF OverBudget
       THEN Goto(t, "cas") /\ UNCHANGED <<call, resizeMu, walk>>
       ELSE AfterShed(t)
    /\ UNCHANGED <<store, bounds, lock, shedFlags, life, calls>>

(* shedding.CompareAndSwap(false, true), the first and the second one.     *)
ShedAcquire(t) ==
    /\ pc[t] \in {"cas", "cas2"} /\ ~shedding
    /\ shedding' = TRUE
    /\ Goto(t, "clear")
    /\ UNCHANGED <<store, bounds, mutexes, shedRetry, life, call, walk, calls>>

ShedBusy(t) ==
    /\ pc[t] = "cas" /\ shedding
    /\ Goto(t, "mark")
    /\ UNCHANGED <<store, bounds, mutexes, shedFlags, life, call, walk, calls>>

ShedMark(t) ==
    /\ pc[t] = "mark"
    /\ shedRetry' = TRUE
    /\ Goto(t, "cas2")
    /\ UNCHANGED <<store, bounds, mutexes, shedding, life, call, walk, calls>>

ShedLeave(t) ==
    /\ pc[t] = "cas2" /\ shedding
    /\ AfterShed(t)
    /\ UNCHANGED <<store, bounds, lock, shedFlags, life, calls>>

ShedClear(t) ==
    /\ pc[t] = "clear"
    /\ shedRetry' = FALSE
    /\ left' = [left EXCEPT ![t] = Shards]
    /\ swept' = [swept EXCEPT ![t] = FALSE]
    /\ Goto(t, "pass")
    /\ UNCHANGED <<store, bounds, mutexes, shedding, life, call, at, todo, last, calls>>

(* shedPass goes round from shedNext, which every pass advances, so may    *)
(* begin anywhere; shard last comes last.                                  *)
ShedNext(t) ==
    /\ pc[t] = "pass"
    /\ IF OverBudget /\ left[t] # {}
       THEN \E s \in left[t] :
              /\ s \in last[t] => left[t] = {s}
              /\ at' = [at EXCEPT ![t] = s]
              /\ left' = [left EXCEPT ![t] = @ \ {s}]
              /\ Goto(t, "visit")
       ELSE Goto(t, "release") /\ UNCHANGED <<at, left>>
    /\ UNCHANGED <<store, bounds, mutexes, shedFlags, life, call, todo, last, swept, calls>>

ShedLock(t) ==
    /\ pc[t] = "visit" /\ lock[at[t]] = NoThread
    /\ lock' = [lock EXCEPT ![at[t]] = t]
    /\ Goto(t, "shedEvict")
    /\ UNCHANGED <<store, bounds, resizeMu, shedFlags, life, call, walk, calls>>

ShedUnlock(t) ==
    /\ pc[t] = "shedUnlock"
    /\ lock' = [lock EXCEPT ![at[t]] = NoThread]
    /\ Goto(t, "pass")
    /\ UNCHANGED <<store, bounds, resizeMu, shedFlags, life, call, walk, calls>>

ShedRelease(t) ==
    /\ pc[t] = "release"
    /\ shedding' = FALSE
    /\ Goto(t, "again")
    /\ UNCHANGED <<store, bounds, mutexes, shedRetry, life, call, walk, calls>>

(* Mutant of ShedAgain: it forgets that others asked for another pass.     *)
ShedAgainNoRetry(t) ==
    /\ pc[t] = "again"
    /\ IF swept[t]
       THEN Goto(t, "shed") /\ UNCHANGED <<call, resizeMu, walk>>
       ELSE AfterShed(t)
    /\ UNCHANGED <<store, bounds, lock, shedFlags, life, calls>>

(* Stop once a pass evicts nothing and nobody asked for another.           *)
ShedAgain(t) ==
    /\ pc[t] = "again"
    /\ IF swept[t] \/ shedRetry
       THEN Goto(t, "shed") /\ UNCHANGED <<call, resizeMu, walk>>
       ELSE AfterShed(t)
    /\ UNCHANGED <<store, bounds, lock, shedFlags, life, calls>>

-----------------------------------------------------------------------------

Start(t) == \/ Set(t) \/ Delete(t) \/ InsertNegative(t)
            \/ DeleteExpired(t) \/ Tick(t) \/ Clear(t) \/ Reset(t)
            \/ Resize(t) \/ Close(t)

Work(t) == \/ Seal(t) \/ SetBound(t)
           \/ Upsert(t) \/ SkipUpsert(t) \/ RemoveKey(t)
           \/ SweepShard(t) \/ ClearShard(t) \/ ResizeShard(t)
           \/ FindVictim(t) \/ NoVictim(t) \/ RemoveVictim(t)
           \/ UnlockShard(t)

Shed(t) == \/ ShedStart(t) \/ ShedAcquire(t) \/ ShedBusy(t) \/ ShedMark(t)
           \/ ShedLeave(t) \/ ShedClear(t) \/ ShedNext(t) \/ ShedLock(t)
           \/ ShedUnlock(t) \/ ShedRelease(t) \/ ShedAgain(t)

(* Every goroutine has made its MaxCalls calls and returned from them.     *)
Finished ==
    /\ \A t \in Threads : pc[t] = "idle" /\ calls[t] = MaxCalls
    /\ UNCHANGED vars

Next == (\E t \in Threads : Start(t) \/ Work(t) \/ Shed(t)) \/ Finished

Spec == Init /\ [][Next]_vars

(* The Go scheduler runs every goroutine that can run, and a mutex that is *)
(* released goes to a waiter; nobody is made to start a call.              *)
FairSpec == Spec /\ \A t \in Threads : WF_vars(Work(t) \/ Shed(t))

-----------------------------------------------------------------------------
(* Properties.                                                             *)

Steps == {"idle", "seal", "mu", "lock", "evict", "victim", "unlock",
          "shed", "cas", "mark", "cas2", "clear", "pass", "visit", "shedEvict",
          "shedVictim", "shedUnlock", "release", "again"}

(* The types of the shared fields and of each goroutine's position.        *)
TypeOK ==
    /\ weight \in [Keys -> 0..MaxWeight] /\ entries \in Nat /\ bytes \in Int
    /\ maxEntries \in Nat /\ maxBytes \in Nat /\ budget \in [Shards -> Nat]
    /\ lock \in [Shards -> Threads \cup {NoThread}]
    /\ resizeMu \in Threads \cup {NoThread}
    /\ shedding \in BOOLEAN /\ shedRetry \in BOOLEAN
    /\ closed \in BOOLEAN /\ sealed \in BOOLEAN
    /\ pc \in [Threads -> Steps] /\ call \in [Threads -> Calls]
    /\ \A t \in Threads : pc[t] = "mu" => call[t] \in ResizeCalls
    /\ at \in [Threads -> Shards] /\ todo \in [Threads -> SUBSET Shards]
    /\ last \in [Threads -> SUBSET Shards] /\ left \in [Threads -> SUBSET Shards]
    /\ swept \in [Threads -> BOOLEAN] /\ calls \in [Threads -> 0..MaxCalls]

(* Cache.Len is counters.entries: it is the number of stored entries, in   *)
(* spite of the inserts, evictions, sweeps and resets of other shards that *)
(* change it without a common lock.                                        *)
EntriesExact == entries = Cardinality(Present)

(* "Bytes returns the current total weight of all entries."                *)
BytesExact == bytes = Cardinality(WeightUnits(Keys))

(* Once every call has returned the cache is within its bounds: a caller   *)
(* that leaves the shedding to another through shedRetry is not let down,  *)
(* "so a write that lands during a sweep can't leave the cache over them". *)
QuietWithinBounds == (\A t \in Threads : pc[t] = "idle") => ~OverBudget

(* Once Close has returned the cache is empty, and stays so: a Set that    *)
(* passed the closed check before Close and takes its shard's lock after   *)
(* Reset stores nothing.                                                   *)
ClosedEmpty ==
    sealed /\ (\A t \in Threads : call[t].op # "close")
        => Present = {} /\ entries = 0

(* "Concurrent Resize calls run one at a time; the last one's bound wins": *)
(* with no Resize under way every shard has the budget of the bound that   *)
(* is in force, never that of an earlier one.                              *)
ResizeSettled ==
    (\A t \in Threads : call[t].op # "resize")
        => \A s \in Shards : budget[s] = PerShardBudget(maxEntries)

(* Every call returns: no goroutine waits for a lock for ever, and the     *)
(* shedding loop ends even while other goroutines keep asking for another  *)
(* pass.                                                                   *)
EveryCallReturns == \A t \in Threads : pc[t] # "idle" ~> pc[t] = "idle"

=============================================================================
