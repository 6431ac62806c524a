----------------------------- MODULE Structures -----------------------------
(***************************************************************************)
(* The data structures of a cache under the calls that the cache makes of  *)
(* them, each against a plain reference: the count-min sketch of W-TinyLFU *)
(* against the number of uses of each key, the doorkeeper against the set  *)
(* of keys it has seen, the flat storage against a map, the two TTL        *)
(* backends against the expiry of each entry, and the loader's rate        *)
(* limiter against the history of its answers.  The mutex of a shard, the  *)
(* doorkeeper or the limiter makes every call atomic, so a behaviour is a  *)
(* sequence of calls; kind says of which structure.                        *)
(***************************************************************************)
EXTENDS Integers, Sequences, FiniteSets

CONSTANTS
    Keys,
    SketchKeys,                   \* the keys counted in the sketch
    Values,
    Kinds,                        \* the structures looked at
    Rows, Width, Column,          \* of the sketch
    MaxAges,                      \* bound: how often the sketch is halved
    BitsOf, Expected,             \* of the doorkeeper
    InitialCap, MaxCap, HashOf,   \* of the flat storage
    Rate, Unit,                   \* of the rate limiter
    MaxTime,                      \* bound: the limiter's clock
    WheelKeys, SlotCount, TickNs, \* of the timing wheel
    WheelTime, HeapTime           \* bounds: the clocks of the TTL backends

S == INSTANCE Sketch
D == INSTANCE Doorkeeper
F == INSTANCE FlatStore
R == INSTANCE RateLimiter
W == INSTANCE Wheel
H == INSTANCE ExpiryHeap

VARIABLES kind, structure, reference

vars == <<kind, structure, reference>>

NoUses == [k \in SketchKeys |-> 0]

(* The entries of a shard: when each expires, 0 for never or not there,    *)
(* when that was set (of the wheel), and what the last call, if a Sweep,   *)
(* returned.                                                               *)
TTLKeys == IF kind = "wheel" THEN WheelKeys ELSE Keys
NoEntries == [now |-> 0, expireAt |-> [k \in TTLKeys |-> 0], set |-> [k \in TTLKeys |-> 0],
              swept |-> FALSE, returned |-> {}]

Init ==
    /\ kind \in Kinds
    /\ structure = CASE kind = "sketch" -> S!NewSketch
                     [] kind = "doorkeeper" -> D!NewDoorkeeper
                     [] kind = "flat" -> F!NewFlatStore
                     [] kind = "limiter" -> R!NewRateLimiter
                     [] kind = "wheel" -> W!NewWheel
                     [] kind = "heap" -> H!NewHeap
    /\ reference = CASE kind = "sketch" -> [uses |-> NoUses, ages |-> 0]
                     [] kind = "doorkeeper" -> {}
                     [] kind = "flat" -> [k \in {} |-> 0]
                     [] kind = "limiter" -> [now |-> 0, allowed |-> <<>>]
                     [] kind \in {"wheel", "heap"} -> NoEntries

(* observe in tinylfu.go counts one use of k ...                           *)
Use(k) ==
    /\ kind = "sketch" /\ UNCHANGED kind
    /\ structure' = S!Increment(structure, k)
    /\ reference' = [reference EXCEPT
                       !.uses[k] = IF @ < S!MaxCount THEN @ + 1 ELSE @]

(* ... and halves the sketch every ageThreshold uses; here at any time.    *)
Age ==
    /\ kind = "sketch" /\ UNCHANGED kind
    /\ reference.ages < MaxAges
    /\ structure' = S!Halve(structure)
    /\ reference' = [uses |-> [k \in SketchKeys |-> reference.uses[k] \div 2],
                     ages |-> reference.ages + 1]

(* upsertLocked observes a key it inserts, recordHitObserve one it hits.   *)
Observe(k) ==
    /\ kind = "doorkeeper" /\ UNCHANGED kind
    /\ structure' = D!Observe(structure, k)
    /\ reference' = D!Observed(structure, reference, k)

(* Cache.Reset resets the admission policy.                                *)
ResetDoorkeeper ==
    /\ kind = "doorkeeper" /\ UNCHANGED kind
    /\ structure' = D!NewDoorkeeper
    /\ reference' = {}

Set(k, v) ==
    /\ kind = "flat" /\ UNCHANGED kind
    /\ structure' = F!Set(structure, k, v)
    /\ reference' = [j \in DOMAIN reference \cup {k} |-> IF j = k THEN v ELSE reference[j]]

Del(k) ==
    /\ kind = "flat" /\ UNCHANGED kind
    /\ structure' = F!Del(structure, k)
    /\ reference' = [j \in DOMAIN reference \ {k} |-> reference[j]]

ClearAll ==
    /\ kind = "flat" /\ UNCHANGED kind
    /\ structure' = F!ClearAll(structure)
    /\ reference' = [j \in {} |-> 0]

(* loadOrJoin asks the limiter at time now, which may lie before the time  *)
(* of the last call.                                                       *)
Allow(now) ==
    /\ kind = "limiter" /\ UNCHANGED kind
    /\ structure' = R!Allow(structure, now)
    /\ reference' = [now |-> now,
                     allowed |-> IF R!Allows(structure, now)
                                 THEN Append(reference.allowed, now)
                                 ELSE reference.allowed]

(* The TTL backend of a shard, a wheel or a heap.                          *)
WithTTL == kind \in {"wheel", "heap"} /\ UNCHANGED kind

TTLTime == IF kind = "wheel" THEN WheelTime ELSE HeapTime

Expires(k, at) ==
    reference' = [reference EXCEPT
                    !.expireAt[k] = at,
                    !.set[k] = IF at = 0 \/ kind = "heap" THEN 0 ELSE reference.now,
                    !.swept = FALSE, !.returned = {}]

TimePasses ==
    /\ WithTTL /\ reference.now < TTLTime
    /\ reference' = [reference EXCEPT !.now = @ + 1, !.swept = FALSE, !.returned = {}]
    /\ UNCHANGED structure

(* A new entry, whose expiry may be past already ...                       *)
TTLAdd(k, at) ==
    /\ WithTTL /\ reference.expireAt[k] = 0 /\ at # 0
    /\ structure' = IF kind = "wheel" THEN W!Add(structure, k, at) ELSE H!Add(structure, k, at)
    /\ Expires(k, at)

(* ... an entry whose expiry changes, or ends ...                          *)
TTLFix(k, at) ==
    /\ WithTTL /\ reference.expireAt[k] # 0
    /\ structure' = IF kind = "wheel" THEN W!Fix(structure, k, at) ELSE H!Fix(structure, k, at)
    /\ Expires(k, at)

(* ... and an entry that is removed.                                       *)
TTLRemove(k) ==
    /\ WithTTL
    /\ structure' = IF kind = "wheel" THEN W!Remove(structure, k) ELSE H!Remove(structure, k)
    /\ Expires(k, 0)

TTLTracked == IF kind = "wheel" THEN W!Tracked(structure) ELSE H!Tracked(structure)

(* The janitor, or DeleteExpired: the cache removes what Sweep returns.    *)
TTLSweep ==
    /\ WithTTL
    /\ structure' = IF kind = "wheel" THEN W!AdvanceTo(structure, reference.now)
                    ELSE H!Sweep(structure, reference.now)
    /\ LET gone == TTLTracked \ TTLTracked'
       IN  reference' = [now |-> reference.now, swept |-> TRUE,
                         returned |-> {reference.expireAt[k] : k \in gone},
                         expireAt |-> [k \in TTLKeys |-> IF k \in gone THEN 0 ELSE reference.expireAt[k]],
                         set |-> [k \in TTLKeys |-> IF k \in gone THEN 0 ELSE reference.set[k]]]

(* Clear and Reset; the wheel's cursor goes back to its origin.            *)
TTLReset ==
    /\ WithTTL
    /\ structure' = IF kind = "wheel" THEN W!NewWheel ELSE H!NewHeap
    /\ reference' = [NoEntries EXCEPT !.now = reference.now]

Next ==
    \/ \E k \in SketchKeys : Use(k)
    \/ \E k \in Keys : Observe(k) \/ Del(k) \/ \E v \in Values : Set(k, v)
    \/ Age \/ ResetDoorkeeper \/ ClearAll
    \/ \E k \in TTLKeys :
         TTLRemove(k) \/ \E at \in 0..TTLTime : TTLAdd(k, at) \/ TTLFix(k, at)
    \/ TimePasses \/ TTLSweep \/ TTLReset
    \/ \E now \in 0..MaxTime : kind = "limiter" /\ now >= reference.now - 1 /\ Allow(now)

Spec == Init /\ [][Next]_vars

-----------------------------------------------------------------------------
(* Properties.                                                             *)

(* An estimate is an upper bound on how often a key was used, capped and   *)
(* aged as the counters are: neither conservative update nor the halving   *)
(* of packed counters loses a use.                                         *)
EstimateCovers ==
    kind = "sketch" => \A k \in SketchKeys : S!Estimate(structure, k) >= reference.uses[k]

(* A key that has a column of some row to itself is counted exactly: the   *)
(* other counter of its byte never spills into its own.                    *)
AloneExact ==
    kind = "sketch" =>
        \A k \in SketchKeys :
            (\E r \in Rows : \A j \in SketchKeys \ {k} : Column[r][j] # Column[r][k])
                => S!Estimate(structure, k) = reference.uses[k]

(* A key observed since the filter was last cleared passes Admit, so its   *)
(* second Set is not rejected: clearing a full filter does not lose the    *)
(* key that found it full.                                                 *)
ObservedAdmitted == kind = "doorkeeper" => \A k \in reference : D!Test(structure, k)

(* The filter never holds the bits of more than the expected number of     *)
(* keys, which is what keeps it from filling up.                           *)
RecordsBounded == kind = "doorkeeper" => structure.added <= Expected

(* The flat storage is a map: after any sequence of set, del and clearAll, *)
(* through tombstones, rebuilds and growth, get finds for every key what   *)
(* was last set, and length counts the keys.                               *)
FlatIsMap ==
    kind = "flat" =>
        /\ \A k \in Keys :
             F!Get(structure, k) = IF k \in DOMAIN reference THEN {reference[k]} ELSE {}
        /\ structure.occupied = Cardinality(DOMAIN reference)

(* A probe always meets an empty slot, so the sweep of the whole array,    *)
(* which the caller should have prevented by a resize, does not happen,    *)
(* and the two counters that decide about rebuilding are exact.            *)
ProbesEnd ==
    kind = "flat" =>
        LET With(state) == {i \in DOMAIN structure.slots : structure.slots[i].state = state}
        IN  /\ With("empty") # {}
            /\ Cardinality(With("occupied")) = structure.occupied
            /\ Cardinality(With("tombstone")) = structure.tombstones

(* In any stretch of the limiter's history, the calls allowed are at most  *)
(* the bucket plus what was refilled meanwhile, whatever the clock did in  *)
(* between.                                                                *)
RateHeld ==
    kind = "limiter" =>
        LET allowed == reference.allowed
            Latest(i, j) == CHOOSE t \in {allowed[n] : n \in i..j} :
                              \A n \in i..j : allowed[n] <= t
        IN  \A i, j \in 1..Len(allowed) :
              i <= j => (j - i + 1) * Unit <= Rate * Unit + Latest(1, j) - Latest(1, i)

(* A TTL backend tracks exactly the entries that expire, whatever was      *)
(* added, changed, removed, swept and reset, and the heap's order and      *)
(* back-pointers are intact.                                               *)
TTLTracks ==
    kind \in {"wheel", "heap"} =>
        /\ TTLTracked = {k \in TTLKeys : reference.expireAt[k] # 0}
        /\ kind = "heap" => H!WellFormed(structure)

(* "Precise to the nanosecond" (the heap), "to one tick" (the wheel): a    *)
(* Sweep returns no entry that has not expired, and leaves none that       *)
(* expired, and was set to, a tick ago or more; the heap leaves none.      *)
SweptInTime ==
    kind \in {"wheel", "heap"} /\ reference.swept =>
        /\ \A at \in reference.returned : at <= reference.now
        /\ \A k \in TTLTracked :
             IF kind = "heap" THEN reference.expireAt[k] > reference.now
             ELSE \/ reference.expireAt[k] + TickNs > reference.now
                  \/ reference.set[k] + TickNs > reference.now
=============================================================================
