------------------------------- MODULE Parts --------------------------------
(***************************************************************************)
(* The parts of a cache that can be looked at one at a time: the data      *)
(* structures, the eviction policies, the lock-free reads of a shard, the  *)
(* event bus and the two tiers of Tiered.  A behaviour is one of theirs;   *)
(* part says which, and the variables of the others stay as they began.    *)
(***************************************************************************)
EXTENDS Integers, Sequences, FiniteSets

CONSTANTS
    Keys, SketchKeys, Values, Kinds, Rows, Width, Column, MaxAges, BitsOf, Expected,
    InitialCap, MaxCap, HashOf, Rate, Unit, MaxTime,
    WheelKeys, SlotCount, TickNs, WheelTime, HeapTime,
    PolicyKeys, NoKey, Setups, MaxFreq, PolicyRows, PolicyWidth, PolicyColumn,
    Cached, Readers, Gets, MaxEntries, MaxValue, Misses,
    Subscribers, Publishers,
    Clients, MaxOps, Evictions

VARIABLES
    part,
    kind, structure, reference,
    setup, policy, present, budget, phase, keep, inserted,
    storage, value, invalidated, snapshot, readMisses, get,
    subs, count, busClosed, closing, open, sub, pub, late, panicked,
    l1, l2, l1Tagged, holder, op, ops, number, returned, dead, crossed, split

structureVars == <<kind, structure, reference>>
policyVars == <<setup, policy, present, budget, phase, keep, inserted>>
readVars == <<storage, value, invalidated, snapshot, readMisses, get>>
busVars == <<subs, count, busClosed, closing, open, sub, pub, late, panicked>>
tierVars == <<l1, l2, l1Tagged, holder, op, ops, number, returned, dead, crossed, split>>
vars == <<part, structureVars, policyVars, readVars, busVars, tierVars>>

D == INSTANCE Structures
P == INSTANCE ShardPolicy WITH
       Keys <- PolicyKeys, Rows <- PolicyRows, Width <- PolicyWidth, Column <- PolicyColumn
R == INSTANCE ReadMap
E == INSTANCE EventBus
T == INSTANCE Tiered

(* The two parts that can begin in several ways, while they are not looked *)
(* at.                                                                     *)
NoStructure == kind = "none" /\ structure = <<>> /\ reference = <<>>
NoPolicy ==
    /\ setup = <<>> /\ policy = <<>> /\ present = {} /\ budget = 0
    /\ phase = "none" /\ keep = 0 /\ inserted = NoKey

Init ==
    /\ \/ part = "structures" /\ D!Init /\ NoPolicy
       \/ part = "policies" /\ P!Init /\ NoStructure
       \/ part \in {"reads", "events", "tiers"} /\ NoStructure /\ NoPolicy
    /\ R!Init /\ E!Init /\ T!Init

Next ==
    /\ UNCHANGED part
    /\ \/ /\ part = "structures" /\ D!Next
          /\ UNCHANGED <<policyVars, readVars, busVars, tierVars>>
       \/ /\ part = "policies" /\ P!Next
          /\ UNCHANGED <<structureVars, readVars, busVars, tierVars>>
       \/ /\ part = "reads" /\ R!Next
          /\ UNCHANGED <<structureVars, policyVars, busVars, tierVars>>
       \/ /\ part = "events" /\ E!Next
          /\ UNCHANGED <<structureVars, policyVars, readVars, tierVars>>
       \/ /\ part = "tiers" /\ T!Next
          /\ UNCHANGED <<structureVars, policyVars, readVars, busVars>>

Spec == Init /\ [][Next]_vars

-----------------------------------------------------------------------------
(* Properties of the data structures.                                      *)

(* The sketches err on one side only: an estimate is never below the uses  *)
(* of a key, and exact for a key with a column to itself; the doorkeeper   *)
(* admits what it has observed, and records no more than it was made for.  *)
SketchesSound ==
    D!EstimateCovers /\ D!AloneExact /\ D!ObservedAdmitted /\ D!RecordsBounded

(* The flat storage answers as a map does, and its probes end.             *)
FlatIsMap == D!FlatIsMap /\ D!ProbesEnd

(* The heap and the wheel track exactly the entries that have a TTL; their *)
(* Sweep returns none of them early, and none later than a tick.           *)
TTLsKept == D!TTLTracks /\ D!SweptInTime

(* The rate limiter allows no burst above its rate and bucket.             *)
RateHeld == D!RateHeld

-----------------------------------------------------------------------------
(* Properties of a shard and its eviction policy.                          *)

(* The policy holds exactly the keys of the shard's map, each once, its    *)
(* ghost lists only keys that are gone, within their budget, and the links *)
(* of LRU's and FIFO's lists spell one order in both directions.           *)
TracksMap == part = "policies" => P!TracksMap /\ P!GhostsApart /\ P!ListSpellsOrder

(* evictOverBudgetLocked returns only when the shard is within its budget, *)
(* and the bounds on the turns of Victim's loops are enough.               *)
WithinBudget == part = "policies" => P!WithinBudget /\ P!TurnsSuffice

(* The eviction that an insert runs spares the entry just inserted.        *)
NewestSurvives == part = "policies" => P!NewestSurvives

(* LFU gives up the least used entry.                                      *)
LeastUsedFirst == part = "policies" => P!LeastUsedFirst

(* A scan does not flush the entries that were used (S3-FIFO, 2Q).         *)
HotKept == P!HotKept

-----------------------------------------------------------------------------
(* Properties of the lock-free reads, the event bus and the tiers.         *)

(* A lock-free Get answers what the shard held at a moment of the call,    *)
(* and the published snapshot of a shard may be trusted.                   *)
ReadsLinearize == R!ReadsLinearize /\ R!SnapshotSound

(* Closing the bus closes every channel registered by then, and none is    *)
(* closed twice or sent on when closed.                                    *)
ChannelsEnd == E!ChannelsEnd /\ E!NoPanic

(* A Tiered Get never returns what was replaced or removed before it.      *)
DeadStayDead == T!DeadStayDead

(* With no call under way, the tiers hold no two values of a key.          *)
TiersAgree == T!TiersAgree
=============================================================================
