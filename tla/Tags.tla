-------------------------------- MODULE Tags --------------------------------
(***************************************************************************)
(* The tag index of tags.go and its cleanup in tagcleanup.go.  A write     *)
(* tags its key in the index under the key's shard lock; a removal leaves  *)
(* the untagging to a goroutine, the drainer, which works through a        *)
(* bounded queue in batches, so the index may name keys that no longer     *)
(* carry the tag, or that carry it again.  InvalidateTag and the group     *)
(* budgets read the index without a shard lock and then lock the shards    *)
(* of the keys they found, one after the other.  Every key has a shard of  *)
(* its own here.                                                           *)
(***************************************************************************)
EXTENDS Integers, Sequences, FiniteSets

CONSTANTS
    Tagged,       \* the keys, numbered from 1 in the order they were first set
    Tag,          \* the tags
    TagSets,      \* the tags a write may give its key
    Group,        \* the tag that has a capacity (WithGroup)
    Capacity,     \* and that capacity
    Workers,      \* goroutines that call the cache
    MaxCalls,     \* bound: calls of all of them
    QueueCap,     \* tagCleanupBuffer
    BatchCap      \* the batch of the drainer

VARIABLES
    entry,        \* [Tagged -> an entry or NoEntry]
    index,        \* c.tags.keysByTag
    locked,       \* the keys whose shard is locked between two steps
    queue,        \* c.tagCleanupQueue
    inflight,     \* c.tagCleanupInflight
    drainer,      \* the drainer: its step, its batch and how far it applied it
    job,          \* [Workers -> the call under way]
    calls,        \* calls made
    clock,        \* writes made, for inserted and for the history
    closing       \* the step of Cache.Close

vars == <<entry, index, locked, queue, inflight, drainer, job, calls, clock, closing>>

(* What the proofs assume of the constants.                                *)
Proper ==
    /\ Tagged \subseteq Nat \ {0} /\ Tagged # {} /\ IsFiniteSet(Tagged)
    /\ Group \in Tag /\ TagSets \subseteq SUBSET Tag
    /\ Capacity \in Nat /\ IsFiniteSet(Workers)

NoEntry == [there |-> FALSE, tags |-> {}, inserted |-> 0, written |-> 0]

SomeKey == CHOOSE k \in Tagged : TRUE

(* A call: the key it works on and the tags it was given, the tags it      *)
(* still has to look up or take from the index, the keys it found and has  *)
(* still to visit, the members of a group it counted with the oldest among *)
(* them, when it began and which writes were under way then, and the step  *)
(* after the one that unlocks the shard.                                   *)
NoJob == [pc |-> "idle", key |-> SomeKey, tags |-> {}, todo |-> {}, keys |-> {},
          members |-> {}, live |-> 0, oldest |-> 0, since |-> 0, busy |-> {}, next |-> "idle"]

(* At the start every key was set by a call that has ended, one after the  *)
(* other; all untagging is done and the group is within its capacity.      *)
Starts ==
    LET Set1(tags) == [k \in Tagged |-> [there |-> TRUE, tags |-> tags[k], inserted |-> k, written |-> k]]
    IN  {Set1(tags) : tags \in {ts \in [Tagged -> TagSets] :
            Cardinality({k \in Tagged : Group \in ts[k]}) <= Capacity}}

Init ==
    /\ clock = Cardinality(Tagged)
    /\ entry \in Starts
    /\ index = [t \in Tag |-> {k \in Tagged : t \in entry[k].tags}]
    /\ locked = {} /\ queue = <<>> /\ inflight = 0
    /\ drainer = [pc |-> "collect", batch |-> <<>>, applied |-> 0]
    /\ job = [w \in Workers |-> NoJob]
    /\ calls = 0
    /\ closing = "no"

Untagged(k, tags) == [t \in Tag |-> IF t \in tags THEN index[t] \ {k} ELSE index[t]]

Begin(w) ==
    /\ job[w].pc = "idle" /\ calls < MaxCalls
    /\ calls' = calls + 1

Sealed == closing # "no"

-----------------------------------------------------------------------------
(* Writes.                                                                 *)

(* upsertLocked with retagLocked: under the shard's lock the old tags are  *)
(* taken from the index and then, in another section of its mutex, the new *)
(* ones added.  An entry that is replaced keeps its time of insertion.     *)
Set(w, k, tags) ==
    /\ Begin(w) /\ ~Sealed /\ k \notin locked
    /\ clock' = clock + 1
    /\ entry' = [entry EXCEPT ![k] =
                   [there |-> TRUE, tags |-> tags, written |-> clock',
                    inserted |-> IF entry[k].there THEN entry[k].inserted ELSE clock']]
    /\ index' = Untagged(k, entry[k].tags)
    /\ locked' = locked \cup {k}
    /\ job' = [job EXCEPT ![w] = [NoJob EXCEPT !.pc = "tag", !.key = k, !.tags = tags]]
    /\ UNCHANGED <<queue, inflight, drainer, closing>>

(* The call ends with enforceGroupBudgets, after the unlock.               *)
TagKey(w) ==
    /\ job[w].pc = "tag"
    /\ index' = [t \in Tag |-> IF t \in job[w].tags THEN index[t] \cup {job[w].key}
                               ELSE index[t]]
    /\ locked' = locked \ {job[w].key}
    /\ job' = [job EXCEPT ![w] = [NoJob EXCEPT !.pc = IF Group \in job[w].tags
                                                     THEN "members" ELSE "idle"]]
    /\ UNCHANGED <<entry, queue, inflight, drainer, calls, clock, closing>>

Step(w, j) == job' = [job EXCEPT ![w] = j]

(* A call that goes on at its next step, or has ended.                     *)
Resumed(j) ==
    IF j.next = "doom"
    THEN [j EXCEPT !.pc = "doom", !.key = SomeKey, !.todo = {}, !.next = "idle"]
    ELSE [NoJob EXCEPT !.pc = j.next]

(* removeLocked of an entry with tags counts the untagging before it       *)
(* queues it, and keeps the shard locked until then; next is where the     *)
(* call goes on.                                                           *)
RemoveLocked(w, k, left, next) ==
    /\ k \notin locked
    /\ entry' = [entry EXCEPT ![k] = left]
    /\ IF entry[k].tags = {}
       THEN /\ Step(w, Resumed([job[w] EXCEPT !.next = next, !.keys = @ \ {k}]))
            /\ UNCHANGED <<locked, inflight>>
       ELSE /\ Step(w, [job[w] EXCEPT !.pc = "enqueue", !.next = next, !.key = k,
                                      !.todo = entry[k].tags, !.keys = @ \ {k}])
            /\ locked' = locked \cup {k}
            /\ inflight' = inflight + 1
    /\ UNCHANGED <<index, queue, drainer, clock, closing>>

(* A delete, an eviction or an expiry ...                                  *)
Remove(w, k) ==
    /\ Begin(w) /\ entry[k].there
    /\ RemoveLocked(w, k, NoEntry, "idle")

(* ... or a negative tombstone, which keeps the entry without its tags.    *)
Tombstone(w, k) ==
    /\ Begin(w) /\ ~Sealed /\ entry[k].there
    /\ RemoveLocked(w, k, [entry[k] EXCEPT !.tags = {}], "idle")

EnqueueOrForget(w) ==
    /\ IF Len(queue) < QueueCap
       THEN /\ queue' = Append(queue, [key |-> job[w].key, tags |-> job[w].todo])
            /\ UNCHANGED inflight
       ELSE inflight' = inflight - 1 /\ UNCHANGED queue
    /\ UNCHANGED index

(* enqueueUntag: a full queue is no reason to wait, the key is untagged    *)
(* here and now.                                                           *)
EnqueueUntag(w) ==
    IF Len(queue) < QueueCap
    THEN /\ queue' = Append(queue, [key |-> job[w].key, tags |-> job[w].todo])
         /\ UNCHANGED <<index, inflight>>
    ELSE /\ index' = Untagged(job[w].key, job[w].todo)
         /\ inflight' = inflight - 1
         /\ UNCHANGED queue

Enqueue(w) ==
    /\ job[w].pc = "enqueue"
    /\ EnqueueUntag(w)
    /\ locked' = locked \ {job[w].key}
    /\ Step(w, Resumed(job[w]))
    /\ UNCHANGED <<entry, drainer, calls, clock, closing>>

Wiped(k) ==
    /\ k \notin locked
    /\ index' = Untagged(k, entry[k].tags)
    /\ entry' = [entry EXCEPT ![k] = NoEntry]

(* Clear, on one shard.                                                    *)
Clear(w, k) ==
    /\ Begin(w) /\ ~Sealed /\ entry[k].there
    /\ Wiped(k)
    /\ UNCHANGED <<locked, queue, inflight, drainer, job, clock, closing>>

-----------------------------------------------------------------------------
(* InvalidateTag and InvalidateTags.                                       *)

InvalidateTags(w, tags) ==
    /\ Begin(w) /\ ~Sealed
    /\ Step(w, [NoJob EXCEPT !.pc = "snapshot", !.tags = tags, !.todo = tags,
                               !.since = clock, !.busy = locked])
    /\ UNCHANGED <<entry, index, locked, queue, inflight, drainer, clock, closing>>

FoundLast(w, t) == index[t]

Found(w, t) == job[w].keys \cup index[t]

(* A snapshot of the index for one tag after the other ...                 *)
Snapshot(w) ==
    /\ job[w].pc = "snapshot"
    /\ \E t \in job[w].todo :
         Step(w, [job[w] EXCEPT !.todo = @ \ {t}, !.keys = Found(w, t),
                                !.pc = IF job[w].todo = {t} THEN "doom" ELSE "snapshot"])
    /\ UNCHANGED <<entry, index, locked, queue, inflight, drainer, calls, clock, closing>>

(* ... and then what those keys hold by now is removed, key by key.        *)
Doom(w) ==
    /\ job[w].pc = "doom"
    /\ \E k \in job[w].keys :
         IF entry[k].there
         THEN RemoveLocked(w, k, NoEntry, "doom")
         ELSE /\ k \notin locked
              /\ Step(w, [job[w] EXCEPT !.keys = @ \ {k}])
              /\ UNCHANGED <<entry, index, locked, queue, inflight, drainer, clock, closing>>
    /\ UNCHANGED calls

Invalidated(w) == job[w].pc = "doom" /\ job[w].keys = {}

ReturnInvalidate(w) ==
    /\ Invalidated(w)
    /\ Step(w, NoJob)
    /\ UNCHANGED <<entry, index, locked, queue, inflight, drainer, calls, clock, closing>>

-----------------------------------------------------------------------------
(* shrinkGroup: the members are looked up, counted and compared one by     *)
(* one, so every number may be out of date when it is used.                *)

Members(w) ==
    /\ job[w].pc = "members"
    /\ Step(w, [NoJob EXCEPT !.pc = "count", !.keys = index[Group], !.members = index[Group]])
    /\ UNCHANGED <<entry, index, locked, queue, inflight, drainer, calls, clock, closing>>

WithinOne(live) == live <= Capacity + 1

Within(live) == live <= Capacity

CountLiveMembers(w) ==
    /\ job[w].pc = "count"
    /\ \/ \E k \in job[w].keys \ locked :
            Step(w, [job[w] EXCEPT !.keys = @ \ {k},
                                   !.live = @ + IF entry[k].there THEN 1 ELSE 0])
       \/ /\ job[w].keys = {}
          /\ Step(w, IF Within(job[w].live) THEN NoJob
                     ELSE [job[w] EXCEPT !.pc = "oldest", !.keys = job[w].members])
    /\ UNCHANGED <<entry, index, locked, queue, inflight, drainer, calls, clock, closing>>

FindOldestMember(w) ==
    /\ job[w].pc = "oldest"
    /\ \/ \E k \in job[w].keys \ locked :
            LET at == entry[k].inserted
                older == entry[k].there /\ (job[w].oldest = 0 \/ at < job[w].oldest)
            IN  Step(w, [job[w] EXCEPT !.keys = @ \ {k},
                                       !.key = IF older THEN k ELSE @,
                                       !.oldest = IF older THEN at ELSE @])
       \/ /\ job[w].keys = {}
          /\ Step(w, IF job[w].oldest = 0 THEN NoJob ELSE [job[w] EXCEPT !.pc = "shrink"])
    /\ UNCHANGED <<entry, index, locked, queue, inflight, drainer, calls, clock, closing>>

ShrinkGroup(w) ==
    /\ job[w].pc = "shrink" /\ job[w].key \notin locked
    /\ IF entry[job[w].key].there
       THEN RemoveLocked(w, job[w].key, NoEntry, "members")
       ELSE /\ Step(w, [job[w] EXCEPT !.pc = "members"])
            /\ UNCHANGED <<entry, index, locked, queue, inflight, drainer, clock, closing>>
    /\ UNCHANGED calls

-----------------------------------------------------------------------------
(* The drainer, runTagCleanup: it collects a batch while the queue gives   *)
(* one, applies it op by op, and takes it off inflight when it is done.    *)

Collect ==
    /\ drainer.pc = "collect"
    /\ queue # <<>> /\ Len(drainer.batch) < BatchCap
    /\ drainer' = [drainer EXCEPT !.batch = Append(@, Head(queue))]
    /\ queue' = Tail(queue)
    /\ UNCHANGED <<entry, index, locked, inflight, job, calls, clock, closing>>

(* No more to collect: the queue gave nothing, or the batch is full.       *)
BatchReady ==
    /\ drainer.pc = "collect" /\ drainer.batch # <<>>
    /\ queue = <<>> \/ Len(drainer.batch) = BatchCap
    /\ drainer' = [drainer EXCEPT !.pc = "apply"]
    /\ UNCHANGED <<entry, index, locked, queue, inflight, job, calls, clock, closing>>

StaleBlindly(op) == op.tags

(* The tags of op that the key's entry does not carry (again).             *)
Stale(op) == op.tags \ entry[op.key].tags

ApplyUntag ==
    /\ drainer.pc = "apply" /\ drainer.applied < Len(drainer.batch)
    /\ LET op == drainer.batch[drainer.applied + 1]
       IN  op.key \notin locked /\ index' = Untagged(op.key, Stale(op))
    /\ drainer' = [drainer EXCEPT !.applied = @ + 1]
    /\ UNCHANGED <<entry, locked, queue, inflight, job, calls, clock, closing>>

SettleOne == inflight - 1

Settle == inflight - drainer.applied

BatchApplied ==
    /\ drainer.pc = "apply" /\ drainer.applied = Len(drainer.batch)
    /\ inflight' = Settle
    /\ drainer' = [pc |-> "collect", batch |-> <<>>, applied |-> 0]
    /\ UNCHANGED <<entry, index, locked, queue, job, calls, clock, closing>>

(* Told to stop, it works off what is queued before it exits.              *)
Drained == queue = <<>> /\ drainer.batch = <<>>

Exit ==
    /\ drainer.pc = "collect" /\ closing = "stop" /\ Drained
    /\ drainer' = [drainer EXCEPT !.pc = "exited"]
    /\ UNCHANGED <<entry, index, locked, queue, inflight, job, calls, clock, closing>>

-----------------------------------------------------------------------------
(* Close seals the cache, resets every shard and stops the drainer.        *)

Close ==
    /\ closing = "no"
    /\ closing' = "reset"
    /\ UNCHANGED <<entry, index, locked, queue, inflight, drainer, job, calls, clock>>

ResetShard ==
    /\ closing = "reset"
    /\ \E k \in Tagged : entry[k].there /\ Wiped(k)
    /\ UNCHANGED <<locked, queue, inflight, drainer, job, calls, clock, closing>>

(* Reset passes every shard's lock, so the removals under way are queued.  *)
StopTagCleanup ==
    /\ closing = "reset" /\ locked = {} /\ \A k \in Tagged : ~entry[k].there
    /\ closing' = "stop"
    /\ UNCHANGED <<entry, index, locked, queue, inflight, drainer, job, calls, clock>>

Closed ==
    /\ closing \notin {"no", "reset", "done"} /\ drainer.pc = "exited"
    /\ closing' = "done"
    /\ UNCHANGED <<entry, index, locked, queue, inflight, drainer, job, calls, clock>>

-----------------------------------------------------------------------------
Go(w) ==
    \/ TagKey(w) \/ Enqueue(w) \/ Snapshot(w) \/ Doom(w) \/ ReturnInvalidate(w)
    \/ Members(w) \/ CountLiveMembers(w) \/ FindOldestMember(w) \/ ShrinkGroup(w)

Drain == Collect \/ BatchReady \/ ApplyUntag \/ BatchApplied \/ Exit

Next ==
    \/ \E w \in Workers :
         \/ \E k \in Tagged : \/ Remove(w, k) \/ Tombstone(w, k) \/ Clear(w, k)
                              \/ \E tags \in TagSets : Set(w, k, tags)
         \/ \E tags \in SUBSET Tag \ {{}} : InvalidateTags(w, tags)
         \/ Go(w)
    \/ Drain
    \/ Close \/ ResetShard \/ StopTagCleanup \/ Closed

Proceed == (\E w \in Workers : Go(w)) \/ Drain \/ ResetShard \/ StopTagCleanup \/ Closed

(* While some goroutine can go on with what it has begun, one of them      *)
(* does; nobody has to call.                                               *)
Fairness == WF_vars(Proceed)

Spec == Init /\ [][Next]_vars /\ Fairness

-----------------------------------------------------------------------------
(* Properties.                                                             *)

(* The index names every key under each tag its entry carries, so that     *)
(* InvalidateTag finds it, although the untagging of an earlier entry of   *)
(* the key may come late.                                                  *)
IndexCovers ==
    \A k \in Tagged \ locked : \A t \in entry[k].tags : k \in index[t]

(* When nothing is in flight, as Sync waits for, the index names no other  *)
(* key: neither a full queue nor a batch under way loses an untagging.     *)
SyncedIndexExact ==
    inflight = 0 /\ locked = {} =>
        \A t \in Tag : index[t] = {k \in Tagged : t \in entry[k].tags}

(* When InvalidateTags returns, no entry whose write had ended before it   *)
(* was called carries one of its tags.                                     *)
InvalidateRemoves ==
    \A w \in Workers : Invalidated(w) =>
        \A k \in Tagged \ job[w].busy :
            entry[k].tags \cap job[w].tags # {} => entry[k].written > job[w].since

(* With no call under way, a group is within its capacity: of concurrent   *)
(* writers of a group, the last to enforce its budget sees the others.     *)
GroupBounded ==
    (\A w \in Workers : job[w].pc = "idle")
        => Cardinality({k \in Tagged : Group \in entry[k].tags}) <= Capacity

(* A closed cache leaves an empty index.                                   *)
ClosedIndexEmpty == closing = "done" => \A t \in Tag : index[t] = {}

(* A Sync that finds untaggings in flight sees them end, unless there are  *)
(* ever new ones.                                                          *)
CleanupSettles == inflight > 0 ~> inflight = 0

(* Close has been called and has not returned.                             *)
Closing == closing \notin {"no", "done"}

=============================================================================
