---------------------------- MODULE ShardPolicy ----------------------------
(***************************************************************************)
(* One shard and its eviction policy: how cache.go drives the interface    *)
(* evictionPolicy of policy.go, whichever policy WithPolicy has chosen.    *)
(* The calls are made under the shard's mutex.  An insert, a Resize and a  *)
(* pass of shedOverBudget end in the loop of evictOverBudgetLocked, which  *)
(* keeps the mutex: phase is "evict" until the loop ends, and each of its  *)
(* iterations is one step.                                                 *)
(*                                                                         *)
(* The policies are modules of operators from the policy's state to its    *)
(* new one.  Victim also returns a key, or NoKey for nil.                  *)
(***************************************************************************)
EXTENDS Integers, Sequences, FiniteSets

CONSTANTS
    Keys,      \* all keys
    NoKey,     \* nil
    Setups,    \* the shards: records with fields
               \*   kind     the policy
               \*   keys     the keys of the shard
               \*   budget   shard.budget at New: 0 when only bytes are bounded
               \*   budgets  the budgets Resize gives the shard
               \*   sheds    whether the cache as a whole can be over its bounds
    MaxFreq,   \* bound: the uses of an entry under LFU
    Rows, Width, Column  \* the sketch of W-TinyLFU

S3 == INSTANCE S3FIFO
Lru == INSTANCE LRU
Fifo == INSTANCE FIFO
Lfu == INSTANCE LFU
Q2 == INSTANCE TwoQ
Arc == INSTANCE ARC
Tiny == INSTANCE TinyLFU

VARIABLES
    setup,     \* the shard's options
    policy,    \* shard.policy
    present,   \* the keys in shard.storage
    budget,    \* shard.budget
    phase,     \* "idle", or "evict" inside evictOverBudgetLocked
    keep,      \* its argument keep
    inserted   \* the key the call under way (or the last one) inserted

vars == <<setup, policy, present, budget, phase, keep, inserted>>

-----------------------------------------------------------------------------
(* The methods of the policy.  All of them treat an update as an access.   *)

NewPolicy(kind, b) ==
    CASE kind = "s3fifo" -> S3!NewPolicy(b)
      [] kind = "lru" -> Lru!NewPolicy
      [] kind = "fifo" -> Fifo!NewPolicy
      [] kind = "lfu" -> Lfu!NewPolicy
      [] kind = "2q" -> Q2!NewPolicy(b)
      [] kind = "arc" -> Arc!NewPolicy(b)
      [] kind = "tinylfu" -> Tiny!NewPolicy(b)

OnInsert(p, k) ==
    CASE setup.kind = "s3fifo" -> S3!OnInsert(p, k)
      [] setup.kind = "lru" -> Lru!OnInsert(p, k)
      [] setup.kind = "fifo" -> Fifo!OnInsert(p, k)
      [] setup.kind = "lfu" -> Lfu!OnInsert(p, k)
      [] setup.kind = "2q" -> Q2!OnInsert(p, k)
      [] setup.kind = "arc" -> Arc!OnInsert(p, k)
      [] setup.kind = "tinylfu" -> Tiny!OnInsert(p, k)

OnAccess(p, k) ==
    CASE setup.kind = "s3fifo" -> S3!OnAccess(p, k)
      [] setup.kind = "lru" -> Lru!OnAccess(p, k)
      [] setup.kind = "fifo" -> Fifo!OnAccess(p, k)
      [] setup.kind = "lfu" -> Lfu!OnAccess(p, k)
      [] setup.kind = "2q" -> Q2!OnAccess(p, k)
      [] setup.kind = "arc" -> Arc!OnAccess(p, k)
      [] setup.kind = "tinylfu" -> Tiny!OnAccess(p, k)

OnRemove(p, k) ==
    CASE setup.kind = "s3fifo" -> S3!OnRemove(p, k)
      [] setup.kind = "lru" -> Lru!OnRemove(p, k)
      [] setup.kind = "fifo" -> Fifo!OnRemove(p, k)
      [] setup.kind = "lfu" -> Lfu!OnRemove(p, k)
      [] setup.kind = "2q" -> Q2!OnRemove(p, k)
      [] setup.kind = "arc" -> Arc!OnRemove(p, k)
      [] setup.kind = "tinylfu" -> Tiny!OnRemove(p, k)

Victim(p) ==
    CASE setup.kind = "s3fifo" -> S3!Victim(p)
      [] setup.kind = "lru" -> Lru!Victim(p)
      [] setup.kind = "fifo" -> Fifo!Victim(p)
      [] setup.kind = "lfu" -> Lfu!Victim(p)
      [] setup.kind = "2q" -> Q2!Victim(p)
      [] setup.kind = "arc" -> Arc!Victim(p)
      [] setup.kind = "tinylfu" -> Tiny!Victim(p)

(* The policies that know no capacity ignore SetBudget.                    *)
SetBudget(p, b) ==
    CASE setup.kind = "s3fifo" -> S3!SetBudget(p, b)
      [] setup.kind = "2q" -> Q2!SetBudget(p, b)
      [] setup.kind = "arc" -> Arc!SetBudget(p, b)
      [] setup.kind = "tinylfu" -> Tiny!SetBudget(p, b)
      [] OTHER -> p

ResetPolicy(p) ==
    CASE setup.kind = "s3fifo" -> S3!ResetPolicy(p)
      [] setup.kind = "lru" -> Lru!ResetPolicy(p)
      [] setup.kind = "fifo" -> Fifo!ResetPolicy(p)
      [] setup.kind = "lfu" -> Lfu!ResetPolicy(p)
      [] setup.kind = "2q" -> Q2!ResetPolicy(p)
      [] setup.kind = "arc" -> Arc!ResetPolicy(p)
      [] setup.kind = "tinylfu" -> Tiny!ResetPolicy(p)

(* The keys the policy holds, as a sequence; its Len is the length.        *)
Tracked(p) ==
    CASE setup.kind = "s3fifo" -> S3!Tracked(p)
      [] setup.kind = "lru" -> Lru!Tracked(p)
      [] setup.kind = "fifo" -> Fifo!Tracked(p)
      [] setup.kind = "lfu" -> Lfu!Tracked(p)
      [] setup.kind = "2q" -> Q2!Tracked(p)
      [] setup.kind = "arc" -> Arc!Tracked(p)
      [] setup.kind = "tinylfu" -> Tiny!Tracked(p)

(* What shedVictim does once Victim has answered nil.                      *)
Shed(p, keepRecent) ==
    CASE setup.kind = "s3fifo" -> S3!Shed(p, keepRecent)
      [] setup.kind = "tinylfu" -> Tiny!Shed(p)
      [] OTHER -> [policy |-> p, key |-> NoKey]

-----------------------------------------------------------------------------
(* The calls.                                                              *)

(* Resize passes math.MaxInt: no shard holds more than keep entries.       *)
MaxInt == Cardinality(Keys) + 1

Init ==
    /\ setup \in Setups
    /\ policy = NewPolicy(setup.kind, setup.budget)
    /\ present = {} /\ budget = setup.budget
    /\ phase = "idle" /\ keep = 0 /\ inserted = NoKey

Enter(step, n, k) == phase' = step /\ keep' = n /\ inserted' = k /\ UNCHANGED setup

(* A hit, or upsertLocked on a key that is there: OnAccess, OnUpdate.      *)
Access(k) ==
    /\ phase = "idle" /\ k \in present
    /\ policy' = OnAccess(policy, k)
    /\ setup.kind = "lfu" => Lfu!InBounds(policy')
    /\ Enter("idle", 0, NoKey)
    /\ UNCHANGED <<present, budget>>

(* upsertLocked, insertNegativeTombstoneLocked on a new key: the entry is  *)
(* stored and the eviction loop spares one entry.                          *)
Insert(k) ==
    /\ phase = "idle" /\ k \notin present
    /\ present' = present \cup {k}
    /\ policy' = OnInsert(policy, k)
    /\ Enter("evict", 1, k)
    /\ UNCHANGED budget

(* removeLocked for a Delete, an expiry or an invalidation.                *)
Delete(k) ==
    /\ phase = "idle" /\ k \in present
    /\ present' = present \ {k}
    /\ policy' = OnRemove(policy, k)
    /\ Enter("idle", 0, NoKey)
    /\ UNCHANGED budget

(* Clear removes every entry, then resets the policy.                      *)
Clear ==
    /\ phase = "idle"
    /\ present' = {}
    /\ policy' = ResetPolicy(policy)
    /\ Enter("idle", 0, NoKey)
    /\ UNCHANGED budget

(* Resize, on this shard.                                                  *)
Resize(b) ==
    /\ phase = "idle"
    /\ budget' = b /\ policy' = SetBudget(policy, b)
    /\ Enter("evict", MaxInt, NoKey)
    /\ UNCHANGED present

(* shedPass visits this shard: no entry is spared.                         *)
ShedPass ==
    /\ phase = "idle" /\ setup.sheds
    /\ Enter("evict", 0, NoKey)
    /\ UNCHANGED <<policy, present, budget>>

-----------------------------------------------------------------------------
(* evictOverBudgetLocked.                                                  *)

(* Mutant of OverShard: one entry over the budget is tolerated.            *)
OverShardLate == budget > 0 /\ Cardinality(present) > budget + 1

OverShard == budget > 0 /\ Cardinality(present) > budget

(* Whether the cache as a whole is over its bounds, which depends on other *)
(* shards and on weights, is open: over is one of the two.                 *)
OverTotal(over) == over /\ setup.sheds /\ Cardinality(present) > keep

ShedVictim(p) ==
    LET v == Victim(p)
    IN  IF v.key # NoKey THEN v ELSE Shed(v.policy, keep > 0)

Pick(over) ==
    LET v == IF OverShard THEN Victim(policy) ELSE [policy |-> policy, key |-> NoKey]
    IN  IF v.key = NoKey /\ OverTotal(over) THEN ShedVictim(v.policy) ELSE v

Evict(over) ==
    LET v == Pick(over)
    IN  /\ phase = "evict" /\ v.key # NoKey
        /\ present' = present \ {v.key}
        /\ policy' = OnRemove(v.policy, v.key)
        /\ UNCHANGED <<setup, budget, phase, keep, inserted>>

EvictionDone(over) ==
    LET v == Pick(over)
    IN  /\ phase = "evict" /\ v.key = NoKey
        /\ policy' = v.policy
        /\ Enter("idle", 0, inserted)
        /\ UNCHANGED <<present, budget>>

Next ==
    \/ \E k \in setup.keys : Access(k) \/ Insert(k) \/ Delete(k)
    \/ Clear
    \/ \E b \in setup.budgets : Resize(b)
    \/ ShedPass
    \/ \E over \in BOOLEAN : Evict(over) \/ EvictionDone(over)

Spec == Init /\ [][Next]_vars

-----------------------------------------------------------------------------
(* Properties.                                                             *)

(* The policy holds exactly the keys of the shard's map, each once: an     *)
(* entry it lost could never be evicted, and one it kept after OnRemove    *)
(* would be evicted twice.                                                 *)
TracksMap ==
    /\ Len(Tracked(policy)) = Cardinality(present)
    /\ {Tracked(policy)[i] : i \in 1..Len(Tracked(policy))} = present

(* Once evictOverBudgetLocked returns, the shard is within its own budget: *)
(* the policy does not answer nil while the shard is over it.              *)
WithinBudget ==
    phase = "idle" /\ budget > 0 => Cardinality(present) <= budget

(* After a Set the bounds are met from older entries: the loop that the    *)
(* insert runs does not evict the entry just inserted.  2Q and W-TinyLFU   *)
(* do when the cache as a whole is over its bounds.                        *)
NewestSurvives ==
    inserted # NoKey /\ ~(setup.sheds /\ setup.kind \in {"2q", "tinylfu"})
        => inserted \in present

(* A policy's ghost lists remember keys that are gone: no key of them is   *)
(* stored, none is there twice, and they stay within their budget, also    *)
(* after SetBudget.                                                        *)
GhostsApart ==
    CASE setup.kind = "s3fifo" -> S3!GhostApart(policy, present)
      [] setup.kind = "2q" -> Q2!GhostApart(policy, present)
      [] setup.kind = "arc" -> Arc!GhostApart(policy, present)
      [] OTHER -> TRUE

(* The bounds on the turns of Victim's loops in s3fifo.go and tinylfu.go   *)
(* are enough, whatever frequencies the entries have: its fallback evicts  *)
(* nothing that the loop would have spared.                                *)
TurnsSuffice ==
    phase = "evict" =>
        CASE setup.kind = "s3fifo" -> S3!TurnsSuffice(policy)
          [] setup.kind = "tinylfu" -> Tiny!TurnsSuffice(policy)
          [] OTHER -> TRUE

(* A scan does not flush the entries that were used: an eviction takes an  *)
(* entry of S3-FIFO's main or of 2Q's Am (while nothing is shed) only when *)
(* that queue is over its share or the other one has nothing to give up.   *)
HotKept ==
    [][phase = "evict" =>
        CASE setup.kind = "s3fifo" -> S3!HotKept(policy, policy')
          [] setup.kind = "2q" -> setup.sheds \/ Q2!HotKept(policy, policy')
          [] OTHER -> TRUE]_vars

(* The links of LRU's and FIFO's lists spell the order of use or insertion *)
(* in both directions, whatever insertions, hits and removals led here.    *)
ListSpellsOrder ==
    CASE setup.kind = "lru" -> Lru!ListSpellsOrder(policy)
      [] setup.kind = "fifo" -> Fifo!ListSpellsOrder(policy)
      [] OTHER -> TRUE

(* LFU gives up the least used entry: minFreq, which OnRemove leaves       *)
(* behind and which only moves forward, never hides an entry used less.    *)
LeastUsedFirst == setup.kind = "lfu" => Lfu!LeastUsedFirst(policy, present)
=============================================================================
