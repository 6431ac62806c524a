------------------------------ MODULE ReadMap -------------------------------
(***************************************************************************)
(* The lock-free reads of readmap.go: a shard publishes an immutable       *)
(* snapshot of its storage, which Get consults without the shard's lock,   *)
(* while writers change the storage under the lock.  An entry is an object *)
(* that the snapshot and the storage share; replacing the value of a key   *)
(* changes the object in place, and removing the key marks the object      *)
(* invalidated, since the snapshot may still name it.                      *)
(***************************************************************************)
EXTENDS Naturals, FiniteSets

CONSTANTS
    Cached,       \* the keys of the shard
    Readers,      \* goroutines that call Get
    Gets,         \* bound: calls of Get by each of them
    MaxEntries,   \* bound: entries ever made
    MaxValue,     \* bound: writes
    Misses        \* readMissThreshold of a small snapshot

VARIABLES
    storage,      \* [Cached -> 0..MaxEntries]: the entry of a key, 0 for none
    value,        \* [1..MaxEntries -> 0..MaxValue]: 0 while not made
    invalidated,  \* the entries that were removed
    snapshot,     \* the published readMap
    readMisses,
    get           \* [Readers -> a call of Get]

vars == <<storage, value, invalidated, snapshot, readMisses, get>>

Empty == [k \in Cached |-> 0]

NewEmptyReadMap == [m |-> Empty, amended |-> FALSE]

NoGet == [pc |-> "idle", key |-> CHOOSE k \in Cached : TRUE, e |-> 0, left |-> Gets,
          got |-> 0, seen |-> {}]

Init ==
    /\ storage = Empty
    /\ value = [e \in 1..MaxEntries |-> 0]
    /\ invalidated = {}
    /\ snapshot = NewEmptyReadMap
    /\ readMisses = 0
    /\ get = [r \in Readers |-> NoGet]

-----------------------------------------------------------------------------
(* The writers, each in one section under the shard's lock.                *)

Made == {e \in DOMAIN value : value[e] # 0}
Latest == IF Made = {} THEN 0
          ELSE CHOOSE v \in {value[e] : e \in Made} : \A e \in Made : value[e] <= v

(* What a Get of k would have to answer now: 0 is a miss.                  *)
Holds(e, v) == IF e = 0 THEN 0 ELSE v[e]
Current(k) == Holds(storage[k], value)

(* History: the answers that were right at some moment of each call.       *)
Witness(g) == [r \in Readers |->
                 IF g[r].pc \in {"idle", "done"} THEN g[r]
                 ELSE [g[r] EXCEPT !.seen = @ \cup {Holds(storage'[g[r].key], value')}]]

MarkAmended == [snapshot EXCEPT !.amended = TRUE]

(* A Set of a key the storage holds replaces the value in place; another   *)
(* makes an entry, which the snapshot lacks.                               *)
Upsert(k) ==
    /\ Latest < MaxValue
    /\ \/ /\ storage[k] # 0
          /\ value' = [value EXCEPT ![storage[k]] = Latest + 1]
          /\ UNCHANGED <<storage, snapshot>>
       \/ /\ storage[k] = 0
          /\ \E e \in DOMAIN value \ Made :
               /\ \A f \in DOMAIN value \ Made : e <= f
               /\ value' = [value EXCEPT ![e] = Latest + 1]
               /\ storage' = [storage EXCEPT ![k] = e]
          /\ snapshot' = MarkAmended
    /\ UNCHANGED <<invalidated, readMisses>>
    /\ get' = Witness(get)

Invalidate(entries) == invalidated' = invalidated \cup (entries \ {0})

(* promoteReadMapLocked over the storage st, the counter at counted.       *)
PromoteReadMapLocked(st, counted) ==
    /\ snapshot' = IF snapshot.amended \/ counted # 0
                   THEN [m |-> st, amended |-> FALSE] ELSE snapshot
    /\ readMisses' = 0

(* One more miss of the snapshot, in a section under the shard's lock.     *)
CountMiss(st) ==
    IF readMisses + 1 < Misses
    THEN readMisses' = readMisses + 1 /\ UNCHANGED snapshot
    ELSE PromoteReadMapLocked(st, readMisses + 1)

(* An eviction, an expiry or a Delete; it counts as a miss.                *)
Remove(k) ==
    /\ storage[k] # 0
    /\ storage' = [storage EXCEPT ![k] = 0]
    /\ Invalidate({storage[k]})
    /\ CountMiss(storage')
    /\ UNCHANGED value
    /\ get' = Witness(get)

(* Clear and Reset publish an empty snapshot that is not amended.          *)
Clear ==
    /\ storage # Empty
    /\ storage' = Empty
    /\ Invalidate({storage[k] : k \in Cached})
    /\ snapshot' = NewEmptyReadMap
    /\ readMisses' = 0
    /\ UNCHANGED value
    /\ get' = Witness(get)

-----------------------------------------------------------------------------
(* Get.                                                                    *)

Goto(r, pc) == get' = [get EXCEPT ![r].pc = pc]

Answer(r, v, pc) == get' = [get EXCEPT ![r].pc = pc, ![r].got = v]

Begin(r, k) ==
    /\ get[r].pc = "idle" /\ get[r].left > 0
    /\ get' = [get EXCEPT ![r] = [NoGet EXCEPT !.pc = "load", !.key = k,
                                   !.left = get[r].left - 1, !.seen = {Current(k)}]]
    /\ UNCHANGED <<storage, value, invalidated, snapshot, readMisses>>

(* tryLockFreeGet loads the snapshot: a key that an unamended one lacks is *)
(* a miss, and that is the answer.                                         *)
Load(r) ==
    /\ get[r].pc = "load"
    /\ LET e == snapshot.m[get[r].key]
       IN  \/ e = 0 /\ ~snapshot.amended /\ Answer(r, 0, "done")
           \/ e = 0 /\ snapshot.amended /\ Goto(r, "locked")
           \/ e # 0 /\ get' = [get EXCEPT ![r].pc = "check", ![r].e = e]
    /\ UNCHANGED <<storage, value, invalidated, snapshot, readMisses>>

(* An entry that was removed, or that is expired, sliding, negative or due *)
(* for promotion, sends the call to the locked path.                       *)
CheckNothing(r) ==
    /\ get[r].pc = "check"
    /\ Goto(r, "locked") \/ Goto(r, "value")
    /\ UNCHANGED <<storage, value, invalidated, snapshot, readMisses>>

Check(r) ==
    /\ get[r].pc = "check"
    /\ \/ Goto(r, "locked")
       \/ get[r].e \notin invalidated /\ Goto(r, "value")
    /\ UNCHANGED <<storage, value, invalidated, snapshot, readMisses>>

LoadValue(r) ==
    /\ get[r].pc = "value"
    /\ Answer(r, value[get[r].e], "done")
    /\ UNCHANGED <<storage, value, invalidated, snapshot, readMisses>>

(* The section under the read lock answers a plain hit ...                 *)
FastPath(r) ==
    /\ get[r].pc = "locked"
    /\ \/ storage[get[r].key] # 0 /\ Answer(r, Current(get[r].key), "record")
       \/ Goto(r, "slow")
    /\ UNCHANGED <<storage, value, invalidated, snapshot, readMisses>>

SnapshotHasKey(k) == snapshot.m[k] # 0

(* ... and counts it, without a lock, when the snapshot lacks the key.     *)
RecordReadMiss(r) ==
    /\ get[r].pc = "record"
    /\ IF SnapshotHasKey(get[r].key)
       THEN Goto(r, "done") /\ UNCHANGED readMisses
       ELSE /\ readMisses' = readMisses + 1
            /\ Goto(r, IF readMisses + 1 >= Misses THEN "promote" ELSE "done")
    /\ UNCHANGED <<storage, value, invalidated, snapshot>>

(* promoteReadMap: several readers may come here at once; the first of     *)
(* them publishes and clears the count, and the rest find nothing to do.   *)
PromoteReadMap(r) ==
    /\ get[r].pc = "promote"
    /\ PromoteReadMapLocked(storage, readMisses)
    /\ Goto(r, "done")
    /\ UNCHANGED <<storage, value, invalidated>>

(* The slow path: a hit is counted and may promote in the same section, a  *)
(* miss goes on to the Store.                                              *)
SlowPath(r) ==
    /\ get[r].pc = "slow"
    /\ IF storage[get[r].key] = 0
       THEN Answer(r, 0, "store") /\ UNCHANGED <<snapshot, readMisses>>
       ELSE /\ Answer(r, Current(get[r].key), "done")
            /\ IF SnapshotHasKey(get[r].key)
               THEN UNCHANGED <<snapshot, readMisses>>
               ELSE CountMiss(storage)
    /\ UNCHANGED <<storage, value, invalidated>>

(* missOrReadThrough asks the Store (StoreTier has what follows).          *)
MissOrReadThrough(r) ==
    /\ get[r].pc = "store"
    /\ Goto(r, "done")
    /\ UNCHANGED <<storage, value, invalidated, snapshot, readMisses>>

Return(r) ==
    /\ get[r].pc = "done"
    /\ get' = [get EXCEPT ![r] = [NoGet EXCEPT !.left = get[r].left]]
    /\ UNCHANGED <<storage, value, invalidated, snapshot, readMisses>>

Next ==
    \/ \E k \in Cached : Upsert(k) \/ Remove(k)
    \/ Clear
    \/ \E r \in Readers :
         \/ \E k \in Cached : Begin(r, k)
         \/ Load(r) \/ Check(r) \/ LoadValue(r) \/ FastPath(r)
         \/ RecordReadMiss(r) \/ PromoteReadMap(r) \/ SlowPath(r)
         \/ MissOrReadThrough(r) \/ Return(r)

Spec == Init /\ [][Next]_vars

-----------------------------------------------------------------------------
(* Properties.                                                             *)

(* Get answers with a value, or a miss, that was the shard's at a moment   *)
(* between its call and its answer, although it may read a snapshot that   *)
(* was replaced meanwhile and entries that were removed.                   *)
ReadsLinearize ==
    \A r \in Readers : get[r].pc = "done" => get[r].got \in get[r].seen

(* The published snapshot may be trusted: what it names is in the storage  *)
(* or marked invalidated, and what an unamended one lacks the storage      *)
(* lacks too.                                                              *)
SnapshotSound ==
    \A k \in Cached :
        /\ snapshot.m[k] \in {0, storage[k]} \cup invalidated
        /\ snapshot.m[k] # 0 \/ snapshot.amended \/ storage[k] = 0
=============================================================================
