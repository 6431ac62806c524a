--------------------------- MODULE TagCallsProofs ---------------------------
(***************************************************************************)
(* Proofs of what the calls of Tags leave behind: the drainer loses no     *)
(* untagging, InvalidateTags misses no entry, and the last writer of a     *)
(* group enforces its budget.                                              *)
(***************************************************************************)
EXTENDS TagsProofs

-----------------------------------------------------------------------------
(* Nothing is left in the index when no untagging is in flight.            *)

(* The drainer, the queue, or a call on its way to it will untag the key.  *)
Owes(op, k, t) == op.key = k /\ t \in op.tags
OwedByCall(k, t) == \E w \in Workers : job[w].pc = "enqueue" /\ job[w].key = k /\ t \in job[w].todo
OwedInQueue(k, t) == \E i \in 1..Len(queue) : Owes(queue[i], k, t)
OwedInBatch(k, t) == \E i \in (drainer.applied + 1)..Len(drainer.batch) : Owes(drainer.batch[i], k, t)
Owed(k, t) == OwedByCall(k, t) \/ OwedInQueue(k, t) \/ OwedInBatch(k, t)

NoLeak == \A t \in Tag : \A k \in index[t] : t \in entry[k].tags \/ Owed(k, t)

(* inflight counts them.                                                   *)
Enqueuers == {w \in Workers : job[w].pc = "enqueue"}
Counted == inflight = Cardinality(Enqueuers) + Len(queue) + Len(drainer.batch)

(* They can be counted.                                                    *)
LEMMA EnqueuersFinite ==
    ASSUME Proper
    PROVE  IsFiniteSet(Enqueuers) /\ Cardinality(Enqueuers) \in Nat
  BY FS_Subset, FS_CardinalityType DEF Proper, Enqueuers

(* Every step keeps the count: a removal adds to it before it queues, and  *)
(* a batch is taken off when it is applied.                                *)
LEMMA CountedStep ==
    ASSUME Proper, TagsType, TagsType', Counted, Kind
    PROVE  Counted'
<1>0. /\ queue \in Seq(Op) /\ drainer.batch \in Seq(Op) /\ inflight \in Int
      /\ Len(queue) \in Nat /\ Len(drainer.batch) \in Nat /\ Cardinality(Enqueuers) \in Nat
      /\ \A w \in Workers : job[w].next \notin {"tag", "enqueue"}
  <2>1. queue \in Seq(Op) /\ drainer.batch \in Seq(Op) /\ inflight \in Int
    BY DEF TagsType
  <2>2. \A w \in Workers : job[w].next \notin {"tag", "enqueue"}
    BY Zenon DEF TagsType, Job, Nexts
  <2>. QED  BY <2>1, <2>2, EnqueuersFinite
<1>1. ASSUME NEW w \in Workers, NEW k \in Tagged, NEW left \in Entry, NEW next \in Nexts, Removal(w, k, left, next)
      PROVE  Counted'
  <2>1. w \notin Enqueuers /\ next # "enqueue" /\ UNCHANGED <<queue, drainer>>
    BY <1>1, RemovalEffect DEF Enqueuers, Removal, Nexts
  <2>2. CASE entry[k].tags = {}
    <3>1. Enqueuers' = Enqueuers /\ inflight' = inflight
      <4>1. inflight' = inflight /\ job'[w].pc = next /\ \A v \in Workers \ {w} : job'[v] = job[v]
        BY <1>1, <2>2, RemovalEffect
      <4>. QED  BY <2>1, <4>1 DEF Enqueuers
    <3>. QED  BY <2>1, <3>1 DEF Counted
  <2>3. CASE entry[k].tags # {}
    <3>1. Enqueuers' = Enqueuers \cup {w} /\ inflight' = inflight + 1
      <4>1. inflight' = inflight + 1 /\ job'[w].pc = "enqueue" /\ \A v \in Workers \ {w} : job'[v] = job[v]
        BY <1>1, <2>3, RemovalEffect
      <4>. QED  BY <4>1 DEF Enqueuers
    <3>2. Cardinality(Enqueuers') = Cardinality(Enqueuers) + 1
      BY <2>1, <3>1, EnqueuersFinite, FS_AddElement, Zenon
    <3>. QED  BY <1>0, <2>1, <3>1, <3>2 DEF Counted
  <2>. QED  BY <2>2, <2>3
<1>2. ASSUME NEW w \in Workers, Enqueue(w)
      PROVE  Counted'
  <2>1. /\ drainer' = drainer
        /\ \/ Len(queue') = Len(queue) + 1 /\ inflight' = inflight
           \/ Len(queue') = Len(queue) /\ inflight' = inflight - 1
    <3>1. Queued(w) => Len(queue') = Len(queue) + 1 /\ inflight' = inflight
      BY <1>0 DEF Queued
    <3>. QED  BY <1>2, <3>1, EnqueueEffect DEF UntaggedNow
  <2>2. w \in Enqueuers /\ Enqueuers' = Enqueuers \ {w}
    BY <1>0, <1>2, EnqueueEffect DEF Enqueuers
  <2>3. Cardinality(Enqueuers') = Cardinality(Enqueuers) - 1
    BY <2>2, EnqueuersFinite, FS_RemoveElement
  <2>4. CASE Len(queue') = Len(queue) + 1 /\ inflight' = inflight
    BY <1>0, <2>1, <2>3, <2>4 DEF Counted
  <2>5. CASE Len(queue') = Len(queue) /\ inflight' = inflight - 1
    BY <1>0, <2>1, <2>3, <2>5 DEF Counted
  <2>. QED  BY <2>1, <2>4, <2>5
<1>3. ASSUME UNCHANGED <<queue, inflight, drainer>>, Enqueuers' = Enqueuers
      PROVE  Counted'
  BY <1>3 DEF Counted
<1>4. ASSUME NEW w \in Workers, NEW k \in Tagged, NEW tags \in TagSets, Set(w, k, tags)
      PROVE  Counted'
  <2>1. Enqueuers' = Enqueuers
    BY <1>4, SetEffect DEF Enqueuers
  <2>. QED  BY <1>3, <1>4, <2>1 DEF Set
<1>5. ASSUME NEW w \in Workers, TagKey(w) \/ Moved(w)
      PROVE  Counted'
  <2>1. CASE TagKey(w)
    <3>1. Enqueuers' = Enqueuers
      BY <2>1, TagEffect DEF Enqueuers
    <3>. QED  BY <1>3, <2>1, <3>1 DEF TagKey
  <2>2. CASE Moved(w)
    <3>1. Enqueuers' = Enqueuers
      BY <2>2, MoveHolds DEF Enqueuers, Holding
    <3>. QED  BY <1>3, <2>2, <3>1 DEF Moved
  <2>. QED  BY <1>5, <2>1, <2>2
<1>6. ASSUME UNCHANGED <<queue, inflight, drainer, job>>
      PROVE  Counted'
  BY <1>6 DEF Counted, Enqueuers
<1>7. ASSUME Drain
      PROVE  Counted'
  <2>1. Enqueuers' = Enqueuers
    BY <1>7 DEF Drain, Collect, BatchReady, ApplyUntag, BatchApplied, Exit, Enqueuers
  <2>2. CASE Collect
    <3>1. /\ queue # <<>> /\ queue' = Tail(queue) /\ inflight' = inflight
          /\ drainer'.batch = Append(drainer.batch, Head(queue))
      BY <2>2 DEF Collect, TagsType
    <3>2. Len(queue') = Len(queue) - 1 /\ Len(drainer'.batch) = Len(drainer.batch) + 1
      BY <1>0, <3>1
    <3>. QED  BY <1>0, <2>1, <3>1, <3>2 DEF Counted
  <2>3. CASE BatchApplied
    BY <1>0, <2>1, <2>3 DEF BatchApplied, Settle, Counted, TagsType
  <2>4. CASE BatchReady \/ ApplyUntag \/ Exit
    <3>1. drainer'.batch = drainer.batch /\ UNCHANGED <<queue, inflight>>
      BY <2>4 DEF BatchReady, ApplyUntag, Exit, TagsType
    <3>. QED  BY <2>1, <3>1 DEF Counted
  <2>. QED  BY <1>7, <2>2, <2>3, <2>4 DEF Drain
<1>. QED  BY <1>1, <1>2, <1>4, <1>5, <1>6, <1>7 DEF Kind

(* What is owed stays owed, unless the step pays it.                       *)
LEMMA QueueOwes ==
    ASSUME NEW q \in Seq(Op), NEW op \in Op, NEW k, NEW t
    PROVE  (\E i \in 1..Len(Append(q, op)) : Owes(Append(q, op)[i], k, t))
               <=> Owes(op, k, t) \/ \E i \in 1..Len(q) : Owes(q[i], k, t)
<1>1. /\ Len(Append(q, op)) = Len(q) + 1 /\ Len(q) \in Nat
      /\ Append(q, op)[Len(q) + 1] = op
      /\ \A i \in 1..Len(q) : Append(q, op)[i] = q[i]
  OBVIOUS
<1>2. 1..Len(Append(q, op)) = 1..Len(q) \cup {Len(q) + 1}
  BY <1>1
<1>. QED  BY <1>1, <1>2, Zenon

(* What a call owed, the queue owes when enqueueUntag has queued it.       *)
LEMMA OwedByEnqueue ==
    ASSUME Proper, TagsType, NEW w \in Workers, Enqueue(w), NEW k \in Tagged, NEW t \in Tag, Owed(k, t)
    PROVE  Owed(k, t)' \/ k \notin index'[t]
<1>1. /\ job[w].pc = "enqueue" /\ drainer' = drainer /\ \A v \in Workers \ {w} : job'[v] = job[v]
      /\ Queued(w) \/ UntaggedNow(w)
  BY EnqueueEffect
<1>2. PICK op : op = [key |-> job[w].key, tags |-> job[w].todo]
  BY Zenon
<1>3. op \in Op /\ (Owes(op, k, t) <=> job[w].key = k /\ t \in job[w].todo)
  BY <1>2 DEF Op, Owes, TagsType, Job
<1>4. OwedInBatch(k, t)' <=> OwedInBatch(k, t)
  BY <1>1 DEF OwedInBatch
<1>5. OwedInQueue(k, t) \/ (Queued(w) /\ Owes(op, k, t)) => OwedInQueue(k, t)'
  <2>1. queue \in Seq(Op)
    BY DEF TagsType
  <2>2. CASE Queued(w)
    BY <1>2, <1>3, <2>1, <2>2, QueueOwes DEF Queued, OwedInQueue
  <2>3. CASE UntaggedNow(w)
    BY <2>3 DEF UntaggedNow, OwedInQueue, Queued
  <2>. QED  BY <1>1, <2>2, <2>3
<1>6. ASSUME OwedByCall(k, t)
      PROVE  OwedByCall(k, t)' \/ Owes(op, k, t)
  BY <1>1, <1>3, <1>6 DEF OwedByCall
<1>7. UntaggedNow(w) /\ Owes(op, k, t) => k \notin index'[t]
  BY <1>3 DEF UntaggedNow
<1>. QED  BY <1>1, <1>4, <1>5, <1>6, <1>7 DEF Owed

(* What the queue owed, the batch owes, until it is applied.               *)
LEMMA OwedByDrain ==
    ASSUME Proper, TagsType, Drain, NEW k \in Tagged, NEW t \in Tag, Owed(k, t)
    PROVE  Owed(k, t)' \/ k \notin index'[t] \/ t \in entry[k].tags
<1>0. /\ queue \in Seq(Op) /\ drainer.batch \in Seq(Op) /\ Len(drainer.batch) \in Nat
      /\ drainer.applied \in Nat /\ drainer.applied <= Len(drainer.batch)
  BY DEF TagsType
<1>1. job' = job
  BY DEF Drain, Collect, BatchReady, ApplyUntag, BatchApplied, Exit
<1>2. OwedByCall(k, t)' <=> OwedByCall(k, t)
  BY <1>1 DEF OwedByCall
<1>3. CASE Collect
  <2>1. /\ queue # <<>> /\ queue' = Tail(queue) /\ drainer'.applied = drainer.applied
        /\ drainer'.batch = Append(drainer.batch, Head(queue))
    BY <1>3 DEF Collect, TagsType
  <2>2. /\ Len(drainer'.batch) = Len(drainer.batch) + 1 /\ drainer'.batch[Len(drainer.batch) + 1] = Head(queue)
        /\ \A i \in 1..Len(drainer.batch) : drainer'.batch[i] = drainer.batch[i]
    BY <1>0, <2>1
  <2>3. /\ Head(queue) = queue[1] /\ Len(queue) \in Nat /\ Len(queue') = Len(queue) - 1
        /\ \A i \in 1..Len(queue') : queue'[i] = queue[i + 1]
    BY <1>0, <2>1
  <2>4. ASSUME OwedInBatch(k, t) PROVE OwedInBatch(k, t)'
    <3>1. PICK i \in (drainer.applied + 1)..Len(drainer.batch) : Owes(drainer.batch[i], k, t)
      BY <2>4 DEF OwedInBatch
    <3>2. i \in (drainer'.applied + 1)..Len(drainer'.batch) /\ drainer'.batch[i] = drainer.batch[i]
      BY <1>0, <2>1, <2>2
    <3>. QED  BY <3>1, <3>2 DEF OwedInBatch
  <2>5. ASSUME OwedInQueue(k, t) PROVE OwedInBatch(k, t)' \/ OwedInQueue(k, t)'
    <3>1. PICK i \in 1..Len(queue) : Owes(queue[i], k, t)
      BY <2>5 DEF OwedInQueue
    <3>2. CASE i = 1
      <4>1. Len(drainer.batch) + 1 \in (drainer'.applied + 1)..Len(drainer'.batch)
        BY <1>0, <2>1, <2>2
      <4>2. Owes(drainer'.batch[Len(drainer.batch) + 1], k, t)
        BY <2>2, <2>3, <3>1, <3>2
      <4>. QED  BY <4>1, <4>2 DEF OwedInBatch
    <3>3. CASE i # 1
      <4>1. i - 1 \in 1..Len(queue') /\ queue'[i - 1] = queue[i]
        BY <2>3, <3>3
      <4>. QED  BY <3>1, <4>1 DEF OwedInQueue
    <3>. QED  BY <3>2, <3>3
  <2>. QED  BY <1>2, <2>4, <2>5 DEF Owed
<1>4. CASE ApplyUntag
  <2>1. /\ drainer.applied < Len(drainer.batch) /\ queue' = queue
        /\ drainer'.batch = drainer.batch /\ drainer'.applied = drainer.applied + 1
    BY <1>4 DEF ApplyUntag, TagsType
  <2>2. PICK op : op = drainer.batch[drainer.applied + 1]
    OBVIOUS
  <2>3. index' = Untagged(op.key, Stale(op))
    BY <1>4, <2>2 DEF ApplyUntag
  <2>4. ASSUME Owes(op, k, t)
        PROVE  k \notin index'[t] \/ t \in entry[k].tags
    BY <2>3, <2>4 DEF Owes, Untagged, Stale
  <2>5. ASSUME OwedInBatch(k, t)
        PROVE  OwedInBatch(k, t)' \/ Owes(op, k, t)
    <3>1. PICK i \in (drainer.applied + 1)..Len(drainer.batch) : Owes(drainer.batch[i], k, t)
      BY <2>5 DEF OwedInBatch
    <3>2. i = drainer.applied + 1 \/ i \in (drainer'.applied + 1)..Len(drainer'.batch)
      BY <1>0, <2>1
    <3>. QED  BY <2>1, <2>2, <3>1, <3>2 DEF OwedInBatch
  <2>6. OwedInQueue(k, t)' <=> OwedInQueue(k, t)
    BY <2>1 DEF OwedInQueue
  <2>. QED  BY <1>2, <2>4, <2>5, <2>6 DEF Owed
<1>5. CASE BatchApplied
  <2>1. queue' = queue /\ drainer.applied = Len(drainer.batch)
    BY <1>5 DEF BatchApplied
  <2>2. ~OwedInBatch(k, t)
    BY <1>0, <2>1 DEF OwedInBatch
  <2>3. OwedInQueue(k, t)' <=> OwedInQueue(k, t)
    BY <2>1 DEF OwedInQueue
  <2>. QED  BY <1>2, <2>2, <2>3 DEF Owed
<1>6. CASE BatchReady \/ Exit
  <2>1. queue' = queue /\ drainer'.batch = drainer.batch /\ drainer'.applied = drainer.applied
    BY <1>6 DEF BatchReady, Exit, TagsType
  <2>. QED  BY <1>2, <2>1 DEF Owed, OwedInQueue, OwedInBatch
<1>. QED  BY <1>3, <1>4, <1>5, <1>6 DEF Drain

(* A step that leaves the calls, the queue and the batch alone keeps what  *)
(* is owed.                                                                *)
LEMMA OwedKept ==
    ASSUME UNCHANGED <<queue, drainer>>, NEW w \in Workers, job[w].pc # "enqueue",
           \A v \in Workers \ {w} : job'[v] = job[v], NEW k, NEW t, Owed(k, t)
    PROVE  Owed(k, t)'
  BY DEF Owed, OwedByCall, OwedInQueue, OwedInBatch

(* Every step keeps NoLeak.                                                *)
LEMMA NoLeakStep ==
    ASSUME Proper, TagsType, TagsType', Midway, NoLeak, Kind
    PROVE  NoLeak'
<1>0. /\ \A t \in Tag : index[t] \subseteq Tagged /\ index'[t] \subseteq Tagged
      /\ \A w \in Workers : job[w].key \in Tagged
  BY DEF TagsType, Job
<1>1. ASSUME NEW w \in Workers, NEW k \in Tagged, NEW tags \in TagSets, Set(w, k, tags)
      PROVE  NoLeak'
  <2>. SUFFICES ASSUME NEW t \in Tag, NEW i \in Tagged, i \in index'[t], t \notin entry'[i].tags PROVE Owed(i, t)'
    BY <1>0 DEF NoLeak
  <2>1. i \in index[t] /\ t \notin entry[i].tags
    BY <1>1, SetEffect
  <2>2. Owed(i, t)
    BY <2>1 DEF NoLeak
  <2>3. UNCHANGED <<queue, drainer>> /\ job[w].pc # "enqueue" /\ \A v \in Workers \ {w} : job'[v] = job[v]
    BY <1>1, SetEffect, Zenon DEF Set
  <2>. QED  BY <2>2, <2>3, OwedKept
<1>2. ASSUME NEW w \in Workers, TagKey(w)
      PROVE  NoLeak'
  <2>. SUFFICES ASSUME NEW t \in Tag, NEW i \in Tagged, i \in index'[t], t \notin entry'[i].tags PROVE Owed(i, t)'
    BY <1>0 DEF NoLeak
  <2>1. i \in index[t] /\ t \notin entry[i].tags
    BY <1>2, TagEffect DEF Midway
  <2>2. Owed(i, t)
    BY <2>1 DEF NoLeak
  <2>3. UNCHANGED <<queue, drainer>> /\ job[w].pc # "enqueue" /\ \A v \in Workers \ {w} : job'[v] = job[v]
    BY <1>2, TagEffect
  <2>. QED  BY <2>2, <2>3, OwedKept
<1>3. ASSUME NEW w \in Workers, NEW k \in Tagged, NEW left \in Entry, NEW next \in Nexts, Removal(w, k, left, next)
      PROVE  NoLeak'
  <2>. SUFFICES ASSUME NEW t \in Tag, NEW i \in Tagged, i \in index'[t], t \notin entry'[i].tags PROVE Owed(i, t)'
    BY <1>0 DEF NoLeak
  <2>1. i \in index[t] /\ UNCHANGED <<queue, drainer>>
    BY <1>3, RemovalEffect
  <2>2. CASE t \in entry[i].tags
    <3>1. i = k
      BY <1>3, <2>2, RemovalEffect
    <3>2. job'[w].pc = "enqueue" /\ job'[w].key = k /\ job'[w].todo = entry[k].tags
      BY <1>3, <2>2, <3>1, RemovalEffect
    <3>3. OwedByCall(i, t)'
      BY <2>2, <3>1, <3>2 DEF OwedByCall
    <3>. QED  BY <3>3 DEF Owed
  <2>3. CASE t \notin entry[i].tags
    <3>1. Owed(i, t)
      BY <2>1, <2>3 DEF NoLeak
    <3>2. job[w].pc # "enqueue" /\ \A v \in Workers \ {w} : job'[v] = job[v]
      BY <1>3, RemovalEffect DEF Removal
    <3>. QED  BY <2>1, <3>1, <3>2, OwedKept
  <2>. QED  BY <2>2, <2>3
<1>4. ASSUME NEW w \in Workers, Enqueue(w)
      PROVE  NoLeak'
  <2>. SUFFICES ASSUME NEW t \in Tag, NEW i \in Tagged, i \in index'[t], t \notin entry'[i].tags PROVE Owed(i, t)'
    BY <1>0 DEF NoLeak
  <2>1. entry' = entry /\ i \in index[t]
    BY <1>4, EnqueueEffect, Zenon DEF Queued, UntaggedNow
  <2>2. Owed(i, t)
    BY <2>1 DEF NoLeak
  <2>. QED  BY <1>4, <2>2, OwedByEnqueue
<1>5. ASSUME NEW k \in Tagged, Wiped(k), UNCHANGED <<locked, queue, inflight, drainer, job>>
      PROVE  NoLeak'
  <2>. SUFFICES ASSUME NEW t \in Tag, NEW i \in Tagged, i \in index'[t], t \notin entry'[i].tags PROVE Owed(i, t)'
    BY <1>0 DEF NoLeak
  <2>1. i \in index[t] /\ t \notin entry[i].tags
    BY <1>5, WipeEffect
  <2>2. Owed(i, t)
    BY <2>1 DEF NoLeak
  <2>. QED  BY <1>5, <2>2 DEF Owed, OwedByCall, OwedInQueue, OwedInBatch
<1>6. ASSUME NEW w \in Workers, Moved(w)
      PROVE  NoLeak'
  <2>1. UNCHANGED <<entry, index, queue, drainer>> /\ job[w].pc # "enqueue" /\ \A v \in Workers \ {w} : job'[v] = job[v]
    BY <1>6, MoveHolds DEF Moved, Holding
  <2>. SUFFICES ASSUME NEW t \in Tag, NEW i \in index[t], t \notin entry[i].tags PROVE Owed(i, t)'
    BY <2>1 DEF NoLeak
  <2>2. Owed(i, t)
    BY DEF NoLeak
  <2>. QED  BY <2>1, <2>2, OwedKept
<1>7. ASSUME Drain
      PROVE  NoLeak'
  <2>. SUFFICES ASSUME NEW t \in Tag, NEW i \in Tagged, i \in index'[t], t \notin entry'[i].tags PROVE Owed(i, t)'
    BY <1>0 DEF NoLeak
  <2>1. entry' = entry /\ i \in index[t]
    <3>1. CASE ApplyUntag
      BY <3>1 DEF ApplyUntag, Untagged, TagsType
    <3>2. CASE ~ApplyUntag
      BY <1>7, <3>2 DEF Drain, Collect, BatchReady, BatchApplied, Exit
    <3>. QED  BY <3>1, <3>2
  <2>2. Owed(i, t)
    BY <2>1 DEF NoLeak
  <2>. QED  BY <1>7, <2>1, <2>2, OwedByDrain
<1>8. ASSUME UNCHANGED <<entry, index, queue, drainer, job>>
      PROVE  NoLeak'
  BY <1>8 DEF NoLeak, Owed, OwedByCall, OwedInQueue, OwedInBatch
<1>. QED  BY <1>1, <1>2, <1>3, <1>4, <1>5, <1>6, <1>7, <1>8 DEF Kind

(* Once Close has stopped the drainer there are no entries and no calls in *)
(* the middle of a removal, and the drainer leaves nothing behind.         *)
Resting ==
    /\ closing \in {"stop", "done"} => locked = {} /\ \A k \in Tagged : ~entry[k].there
    /\ drainer.pc = "exited" => closing \in {"stop", "done"} /\ queue = <<>> /\ drainer.batch = <<>>
    /\ closing = "done" => drainer.pc = "exited"

(* Every step keeps Resting: a sealed cache takes no write, and the        *)
(* drainer exits with an empty queue.                                      *)
LEMMA RestingStep ==
    ASSUME Proper, CoverInv, Resting, [Next]_vars
    PROVE  Resting'
<1>0. TagsType /\ Locks /\ Kind /\ \A w \in Workers : Holding(w) => locked # {}
  BY CoverStep DEF CoverInv, Locks
<1>1. closing' = closing \/ Close \/ StopTagCleanup \/ Closed
  <2>1. \A w, k, left, next : RemoveLocked(w, k, left, next) => closing' = closing
    BY Zenon DEF RemoveLocked
  <2>2. \A w, k : Remove(w, k) \/ Tombstone(w, k) \/ Clear(w, k) => closing' = closing
    BY Zenon, <2>1 DEF Remove, Tombstone, Clear
  <2>3. \A w, k, tags : Set(w, k, tags) \/ InvalidateTags(w, tags) => closing' = closing
    BY Zenon DEF Set, InvalidateTags
  <2>4. \A w : Doom(w) \/ ShrinkGroup(w) => closing' = closing
    BY Zenon, <2>1 DEF Doom, ShrinkGroup
  <2>5. \A w : Go(w) => closing' = closing
    BY Zenon, <2>4 DEF Go, TagKey, Enqueue, Snapshot, ReturnInvalidate, Members, CountLiveMembers, FindOldestMember
  <2>6. Drain \/ ResetShard => closing' = closing
    BY Zenon DEF Drain, Collect, BatchReady, ApplyUntag, BatchApplied, Exit, ResetShard
  <2>. QED  BY Zenon, <2>2, <2>3, <2>5, <2>6 DEF Next, vars
<1>2. CASE Close
  BY <1>2 DEF Close, Resting
<1>3. CASE StopTagCleanup
  BY <1>3 DEF StopTagCleanup, Resting
<1>4. CASE Closed
  BY <1>0, <1>4 DEF Closed, Resting, TagsType
<1>5. CASE closing' = closing
  <2>1. ASSUME NEW w \in Workers, NEW k \in Tagged, NEW tags \in TagSets, Set(w, k, tags)
        PROVE  Resting'
    <3>1. closing = "no" /\ drainer' = drainer
      BY <1>0, <2>1, SetEffect, Zenon DEF Set
    <3>. QED  BY <1>5, <3>1 DEF Resting
  <2>2. ASSUME NEW w \in Workers, TagKey(w) \/ Enqueue(w)
        PROVE  Resting'
    <3>1. locked # {} /\ drainer' = drainer
      BY <1>0, <2>2 DEF TagKey, Enqueue, Holding
    <3>. QED  BY <1>5, <3>1 DEF Resting
  <2>3. ASSUME NEW w \in Workers, NEW k \in Tagged, NEW left \in Entry, NEW next \in Nexts, Removal(w, k, left, next)
        PROVE  Resting'
    <3>1. entry[k].there /\ drainer' = drainer
      BY <1>0, <2>3, RemovalEffect DEF Removal
    <3>. QED  BY <1>5, <3>1 DEF Resting
  <2>4. ASSUME NEW k \in Tagged, Wiped(k), UNCHANGED <<locked, queue, drainer>>
        PROVE  Resting'
    BY <1>0, <1>5, <2>4, WipeEffect DEF Resting, NoEntry
  <2>5. ASSUME UNCHANGED <<entry, locked, queue, drainer>>
        PROVE  Resting'
    BY <1>5, <2>5 DEF Resting
  <2>6. ASSUME Drain
        PROVE  Resting'
    <3>1. UNCHANGED <<entry, locked>>
      BY <2>6 DEF Drain, Collect, BatchReady, ApplyUntag, BatchApplied, Exit
    <3>2. CASE Exit
      <4>1. closing = "stop" /\ queue' = <<>> /\ drainer'.batch = <<>>
        BY <1>0, <3>2 DEF Exit, Drained, TagsType
      <4>. QED  BY <1>5, <3>1, <4>1 DEF Resting
    <3>3. CASE ~Exit
      <4>1. drainer.pc # "exited" /\ drainer'.pc # "exited"
        BY <1>0, <2>6, <3>3 DEF Drain, Collect, BatchReady, ApplyUntag, BatchApplied, TagsType
      <4>. QED  BY <1>5, <3>1, <4>1 DEF Resting
    <3>. QED  BY <3>2, <3>3
  <2>7. ASSUME NEW w \in Workers, Moved(w)
        PROVE  UNCHANGED <<entry, locked, queue, drainer>>
    BY <2>7 DEF Moved
  <2>. QED  BY <1>0, <2>1, <2>2, <2>3, <2>4, <2>5, <2>6, <2>7 DEF Kind
<1>. QED  BY <1>1, <1>2, <1>3, <1>4, <1>5

LeakInv == CoverInv /\ NoLeak /\ Counted /\ Resting

(* What the invariant says of the index at rest.                           *)
LEMMA LeakInvImplies ==
    ASSUME Proper, LeakInv
    PROVE  SyncedIndexExact /\ ClosedIndexEmpty
<1>0. /\ queue \in Seq(Op) /\ drainer.batch \in Seq(Op) /\ Len(queue) \in Nat /\ Len(drainer.batch) \in Nat
      /\ drainer.applied \in Nat /\ Cardinality(Enqueuers) \in Nat
      /\ \A t \in Tag : index[t] \subseteq Tagged
      /\ \A k \in Tagged : entry[k].tags \subseteq Tag
  <2>1. Cardinality(Enqueuers) \in Nat
    BY EnqueuersFinite
  <2>2. /\ queue \in Seq(Op) /\ drainer.batch \in Seq(Op) /\ drainer.applied \in Nat
        /\ \A t \in Tag : index[t] \subseteq Tagged
        /\ \A k \in Tagged : entry[k].tags \subseteq Tag
    BY DEF LeakInv, CoverInv, TagsType, Entry
  <2>. QED  BY <2>1, <2>2
<1>1. ASSUME locked = {}, Len(queue) = 0, Len(drainer.batch) = 0
      PROVE  \A t \in Tag : index[t] = {k \in Tagged : t \in entry[k].tags}
  <2>1. \A k, t : ~OwedByCall(k, t)
    BY <1>1 DEF LeakInv, CoverInv, Locks, Holding, OwedByCall
  <2>2. \A k, t : ~OwedInQueue(k, t) /\ ~OwedInBatch(k, t)
    BY <1>0, <1>1 DEF OwedInQueue, OwedInBatch
  <2>3. \A t \in Tag : \A k \in index[t] : k \in Tagged /\ t \in entry[k].tags
    BY <1>0, <2>1, <2>2 DEF LeakInv, NoLeak, Owed
  <2>4. \A t \in Tag : \A k \in Tagged : t \in entry[k].tags => k \in index[t]
    BY <1>1 DEF LeakInv, CoverInv, IndexCovers
  <2>. QED  BY <2>3, <2>4
<1>2. SyncedIndexExact
  <2>1. inflight = 0 => Len(queue) = 0 /\ Len(drainer.batch) = 0
    BY <1>0 DEF LeakInv, Counted
  <2>. QED  BY <1>1, <2>1 DEF SyncedIndexExact
<1>3. ClosedIndexEmpty
  <2>. SUFFICES ASSUME closing = "done" PROVE \A t \in Tag : index[t] = {}
    BY DEF ClosedIndexEmpty
  <2>1. locked = {} /\ Len(queue) = 0 /\ Len(drainer.batch) = 0
    BY DEF LeakInv, Resting
  <2>2. \A k \in Tagged : entry[k].tags = {}
    BY DEF LeakInv, Resting, CoverInv, Midway
  <2>. QED  BY <1>1, <2>1, <2>2
<1>. QED  BY <1>2, <1>3

(* For every set of keys, tags and workers, every queue and batch: when no *)
(* untagging is in flight the index names exactly the keys that carry the  *)
(* tag, and the index of a closed cache is empty.                          *)
THEOREM IndexExactWhenSynced ==
    ASSUME Proper
    PROVE  Spec => [](SyncedIndexExact /\ ClosedIndexEmpty)
<1>1. Init => LeakInv
  <2>. SUFFICES ASSUME Init PROVE LeakInv
    OBVIOUS
  <2>1. NoJob.pc = "idle"
    BY DEF NoJob
  <2>2. NoLeak
    BY DEF Init, NoLeak
  <2>3. Enqueuers = {}
    BY <2>1 DEF Init, Enqueuers
  <2>4. Counted
    BY <2>3, FS_EmptySet DEF Init, Counted
  <2>5. Resting
    BY DEF Init, Resting
  <2>. QED  BY <2>2, <2>4, <2>5, CoverInit DEF LeakInv
<1>2. LeakInv /\ [Next]_vars => LeakInv'
  <2>. SUFFICES ASSUME LeakInv, [Next]_vars PROVE LeakInv'
    OBVIOUS
  <2>1. CoverInv /\ CoverInv' /\ Kind /\ TagsType /\ TagsType' /\ Midway
    BY CoverStep DEF LeakInv, CoverInv
  <2>2. NoLeak' /\ Counted'
    BY <2>1, NoLeakStep, CountedStep DEF LeakInv
  <2>3. Resting'
    BY RestingStep DEF LeakInv
  <2>. QED  BY <2>1, <2>2, <2>3 DEF LeakInv
<1>3. LeakInv => SyncedIndexExact /\ ClosedIndexEmpty
  BY LeakInvImplies
<1>. QED  BY <1>1, <1>2, <1>3, PTL DEF Spec

-----------------------------------------------------------------------------
(* InvalidateTags removes what it was called for.                          *)

(* A call that is still to find or to remove its keys, and the keys it     *)
(* answers for: those whose write had ended when it was called.            *)
Looking(w) ==
    job[w].pc \in {"snapshot", "doom"} \/ (job[w].pc = "enqueue" /\ job[w].next = "doom")
Before(w, k) == k \notin job[w].busy /\ entry[k].written <= job[w].since

FoundOrTodo(w, k, t) == k \in job[w].keys \/ (job[w].pc = "snapshot" /\ t \in job[w].todo)

(* Such a key with one of its tags it has found, or it has still to look   *)
(* the tag up; and nobody is about to tag such a key.                      *)
SearchedBy(w) ==
    Looking(w) =>
      /\ job[w].since <= clock
      /\ \A k \in Tagged, t \in Tag :
           Before(w, k) /\ t \in entry[k].tags /\ t \in job[w].tags => FoundOrTodo(w, k, t)
      /\ \A v \in Workers : job[v].pc = "tag" => ~Before(w, job[v].key)

Searched == \A w \in Workers : SearchedBy(w)

(* What other calls do to an entry is a later write or a removal.          *)
LEMMA OthersSearched ==
    ASSUME Proper, TagsType, TagsType', NEW w \in Workers, SearchedBy(w), job'[w] = job[w], clock <= clock',
           \A k \in Tagged : entry'[k] = entry[k] \/ entry'[k].tags = {} \/ entry'[k].written > clock,
           \A v \in Workers : job'[v].pc = "tag" =>
               \/ job[v].pc = "tag" /\ job'[v].key = job[v].key /\ entry'[job[v].key] = entry[job[v].key]
               \/ entry'[job'[v].key].written > clock
    PROVE  SearchedBy(w)'
<1>. SUFFICES ASSUME Looking(w)' PROVE SearchedBy(w)'
  BY DEF SearchedBy
<1>0. /\ Looking(w) /\ job[w].since \in Nat /\ clock \in Nat /\ clock' \in Nat
      /\ \A v \in Workers : job'[v].key \in Tagged
      /\ \A k \in Tagged : entry'[k].written \in Nat
  BY DEF Looking, TagsType, Job, Entry
<1>1. job'[w].since <= clock'
  BY <1>0 DEF SearchedBy
<1>2. ASSUME NEW k \in Tagged, NEW t \in Tag, Before(w, k)', t \in entry'[k].tags, t \in job'[w].tags
      PROVE  FoundOrTodo(w, k, t)'
  <2>1. ~(entry'[k].written > clock)
    BY <1>0, <1>2 DEF Before, SearchedBy
  <2>2. entry'[k] = entry[k]
    BY <1>2, <2>1
  <2>. QED  BY <1>0, <1>2, <2>2 DEF SearchedBy, Before, FoundOrTodo
<1>3. ASSUME NEW v \in Workers, job'[v].pc = "tag"
      PROVE  ~Before(w, job[v].key)'
  BY <1>0, <1>3 DEF SearchedBy, Before
<1>. QED  BY <1>1, <1>2, <1>3 DEF SearchedBy

(* Every step keeps Searched.                                              *)
LEMMA SearchedStep ==
    ASSUME Proper, CoverInv, CoverInv', Searched, Kind
    PROVE  Searched'
<1>0. /\ TagsType /\ TagsType' /\ clock \in Nat /\ \A w \in Workers : job[w] \in Job /\ job[w].key \in Tagged
      /\ NoEntry.tags = {}
  BY Zenon DEF CoverInv, TagsType, Job, NoEntry
<1>1. ASSUME NEW x \in Workers, NEW k \in Tagged, NEW tags \in TagSets, Set(x, k, tags)
      PROVE  Searched'
  <2>1. ASSUME NEW w \in Workers \ {x}
        PROVE  SearchedBy(w)'
    BY <1>0, <1>1, SetEffect, OthersSearched DEF Searched
  <2>2. SearchedBy(x)'
    BY <1>0, <1>1, SetEffect DEF SearchedBy, Looking
  <2>. QED  BY <2>1, <2>2 DEF Searched
<1>2. ASSUME NEW x \in Workers, TagKey(x)
      PROVE  Searched'
  <2>0. /\ UNCHANGED <<entry, clock>> /\ job'[x].pc \in {"members", "idle"}
        /\ \A v \in Workers \ {x} : job'[v] = job[v]
    BY <1>0, <1>2, TagEffect
  <2>1. ASSUME NEW w \in Workers \ {x}
        PROVE  SearchedBy(w)'
    BY <1>0, <2>0, OthersSearched DEF Searched
  <2>2. SearchedBy(x)'
    BY <2>0 DEF SearchedBy, Looking
  <2>. QED  BY <2>1, <2>2 DEF Searched
<1>3. ASSUME NEW x \in Workers, NEW k \in Tagged, NEW left \in Entry, NEW next \in Nexts, Removal(x, k, left, next)
      PROVE  Searched'
  <2>0. /\ k \notin locked /\ UNCHANGED clock /\ entry'[k].tags = {}
        /\ \A i \in Tagged \ {k} : entry'[i] = entry[i]
        /\ \A v \in Workers \ {x} : job'[v] = job[v]
        /\ job'[x].pc = next \/ (job'[x].pc = "enqueue" /\ job'[x].next = next)
        /\ next = "doom" => job[x].pc = "doom" /\ job'[x].keys = job[x].keys \ {k} /\ Kept(job'[x], x)
        /\ job'[x].pc # "tag"
    BY <1>0, <1>3, RemovalEffect DEF Removal, Nexts
  <2>1. \A v \in Workers : job'[v].pc = "tag" => v # x /\ job[v].pc = "tag" /\ job[v].key # k
    BY <2>0 DEF CoverInv, Locks, Holding
  <2>2. ASSUME NEW w \in Workers \ {x}
        PROVE  SearchedBy(w)'
    BY <1>0, <2>0, <2>1, OthersSearched DEF Searched
  <2>3. CASE next = "doom"
    <3>1. /\ Looking(x) /\ job'[x].keys = job[x].keys \ {k} /\ job'[x].tags = job[x].tags
          /\ job'[x].since = job[x].since /\ job'[x].busy = job[x].busy /\ job[x].pc = "doom"
      BY <2>0, <2>3 DEF Looking, Kept
    <3>2. \A i \in Tagged \ {k} : Before(x, i)' <=> Before(x, i)
      BY <2>0, <3>1 DEF Before
    <3>3. ASSUME NEW i \in Tagged, NEW t \in Tag, Before(x, i)', t \in entry'[i].tags, t \in job'[x].tags
          PROVE  FoundOrTodo(x, i, t)'
      <4>1. i # k
        BY <2>0, <3>3
      <4>2. i \in job[x].keys
        BY <2>0, <3>1, <3>2, <3>3, <4>1 DEF Searched, SearchedBy, FoundOrTodo
      <4>. QED  BY <3>1, <4>1, <4>2 DEF FoundOrTodo
    <3>4. ASSUME NEW v \in Workers, job'[v].pc = "tag"
          PROVE  ~Before(x, job[v].key)'
      <4>1. v # x /\ job[v].pc = "tag" /\ job[v].key \in Tagged \ {k} /\ job'[v].key = job[v].key
        BY <1>0, <2>0, <2>1, <3>4
      <4>2. ~Before(x, job[v].key)
        BY <3>1, <4>1 DEF Searched, SearchedBy
      <4>. QED  BY <2>0, <3>1, <4>1, <4>2 DEF Before
    <3>5. job'[x].since <= clock'
      BY <2>0, <3>1 DEF Searched, SearchedBy
    <3>. QED  BY <2>2, <3>3, <3>4, <3>5 DEF Searched, SearchedBy
  <2>4. CASE next # "doom"
    <3>1. ~Looking(x)'
      BY <2>0, <2>4 DEF Looking, Nexts
    <3>. QED  BY <2>2, <3>1 DEF Searched, SearchedBy
  <2>. QED  BY <2>3, <2>4
<1>4. ASSUME NEW x \in Workers, Enqueue(x)
      PROVE  Searched'
  <2>0. /\ UNCHANGED <<entry, clock>> /\ job'[x].pc = job[x].next /\ job[x].pc = "enqueue"
        /\ job[x].next = "doom" => job'[x].keys = job[x].keys /\ Kept(job'[x], x)
        /\ \A v \in Workers \ {x} : job'[v] = job[v]
        /\ job[x].next \in Nexts
    BY <1>0, <1>4, EnqueueEffect DEF Job
  <2>1. \A v \in Workers : job'[v].pc = "tag" => v # x
    BY <2>0 DEF Nexts
  <2>2. ASSUME NEW w \in Workers \ {x}
        PROVE  SearchedBy(w)'
    BY <1>0, <2>0, <2>1, OthersSearched DEF Searched
  <2>3. SearchedBy(x)'
    <3>1. CASE job[x].next = "doom"
      BY <2>0, <2>1, <3>1 DEF Searched, SearchedBy, Looking, Kept, Before, FoundOrTodo
    <3>2. CASE job[x].next # "doom"
      BY <2>0, <3>2 DEF SearchedBy, Looking, Nexts
    <3>. QED  BY <3>1, <3>2
  <2>. QED  BY <2>2, <2>3 DEF Searched
<1>5. ASSUME NEW k \in Tagged, Wiped(k), UNCHANGED <<job, clock>>
      PROVE  Searched'
  <2>0. /\ k \notin locked /\ entry'[k].tags = {}
        /\ \A i \in Tagged \ {k} : entry'[i] = entry[i]
    BY <1>0, <1>5, WipeEffect
  <2>1. \A v \in Workers : job[v].pc = "tag" => job[v].key # k
    BY <2>0 DEF CoverInv, Locks, Holding
  <2>2. ASSUME NEW w \in Workers
        PROVE  SearchedBy(w)'
    BY <1>0, <1>5, <2>0, <2>1, OthersSearched DEF Searched
  <2>. QED  BY <2>2 DEF Searched
<1>6. ASSUME NEW x \in Workers, Moved(x)
      PROVE  Searched'
  <2>0. /\ UNCHANGED <<entry, clock>> /\ \A v \in Workers \ {x} : job'[v] = job[v]
        /\ job'[x].pc # "tag"
    BY <1>6, MoveHolds DEF Moved, Holding
  <2>1. ASSUME NEW w \in Workers \ {x}
        PROVE  SearchedBy(w)'
    BY <1>0, <2>0, OthersSearched DEF Searched
  <2>2. CASE job[x].pc = "idle" /\ job'[x].pc = "snapshot"
    <3>1. /\ job'[x].todo = job'[x].tags /\ job'[x].since = clock /\ job'[x].busy = locked
      BY <1>6, <2>2 DEF Moved, MoveOf
    <3>2. \A v \in Workers : job'[v].pc = "tag" => job'[v].key \in locked
      BY <2>0 DEF CoverInv, Locks, Holding
    <3>3. SearchedBy(x)'
      BY <1>0, <2>0, <2>2, <3>1, <3>2 DEF SearchedBy, Before, FoundOrTodo
    <3>. QED  BY <2>1, <3>3 DEF Searched
  <2>3. ASSUME NEW u \in job[x].todo, job[x].pc = "snapshot",
               job'[x].pc = IF job[x].todo = {u} THEN "doom" ELSE "snapshot",
               job'[x].todo = job[x].todo \ {u}, job'[x].keys = job[x].keys \cup index[u], Kept(job'[x], x)
        PROVE  Searched'
    <3>1. Looking(x) /\ \A k \in Tagged : Before(x, k)' <=> Before(x, k)
      BY <2>0, <2>3 DEF Looking, Before, Kept
    <3>2. ASSUME NEW k \in Tagged, Before(x, k), u \in entry[k].tags
          PROVE  k \in index[u]
      <4>1. CASE k \in locked
        <5>1. PICK v \in Workers : Holding(v) /\ job[v].key = k
          BY <4>1 DEF CoverInv, Locks
        <5>2. job[v].pc # "tag"
          BY <3>1, <3>2, <5>1 DEF Searched, SearchedBy
        <5>3. entry[k].tags = {}
          BY <5>1, <5>2 DEF Holding, CoverInv, Midway
        <5>. QED  BY <3>2, <5>3
      <4>. QED  BY <3>2, <4>1 DEF CoverInv, IndexCovers
    <3>3. ASSUME NEW k \in Tagged, NEW t \in Tag, Before(x, k)', t \in entry'[k].tags, t \in job'[x].tags
          PROVE  FoundOrTodo(x, k, t)'
      <4>1. Before(x, k) /\ t \in entry[k].tags /\ t \in job[x].tags
        BY <2>0, <2>3, <3>1, <3>3 DEF Kept
      <4>2. FoundOrTodo(x, k, t)
        BY <3>1, <4>1 DEF Searched, SearchedBy
      <4>3. CASE t = u
        BY <2>3, <3>2, <4>1, <4>3 DEF FoundOrTodo
      <4>4. CASE t # u
        BY <2>3, <4>2, <4>4 DEF FoundOrTodo
      <4>. QED  BY <4>3, <4>4
    <3>4. \A v \in Workers : job'[v].pc = "tag" => ~Before(x, job[v].key)'
      BY <2>0, <2>3, <3>1 DEF Searched, SearchedBy, Before, Kept
    <3>5. job'[x].since <= clock'
      BY <2>0, <2>3, <3>1 DEF Searched, SearchedBy, Kept
    <3>. QED  BY <2>1, <3>3, <3>4, <3>5 DEF Searched, SearchedBy
  <2>4. ASSUME NEW k \in job[x].keys, job[x].pc = "doom", job'[x].pc = "doom", ~entry[k].there,
               job'[x].keys = job[x].keys \ {k}, Kept(job'[x], x)
        PROVE  Searched'
    <3>1. Looking(x) /\ \A i \in Tagged : Before(x, i)' <=> Before(x, i)
      BY <2>0, <2>4 DEF Looking, Before, Kept
    <3>2. entry[k].tags = {}
      BY <1>0, <2>4 DEF CoverInv, Midway, Job
    <3>3. ASSUME NEW i \in Tagged, NEW t \in Tag, Before(x, i)', t \in entry'[i].tags, t \in job'[x].tags
          PROVE  FoundOrTodo(x, i, t)'
      <4>1. Before(x, i) /\ t \in entry[i].tags /\ t \in job[x].tags /\ i # k
        BY <2>0, <2>4, <3>1, <3>2, <3>3 DEF Kept
      <4>2. FoundOrTodo(x, i, t)
        BY <3>1, <4>1 DEF Searched, SearchedBy
      <4>. QED  BY <2>4, <4>1, <4>2 DEF FoundOrTodo
    <3>4. \A v \in Workers : job'[v].pc = "tag" => ~Before(x, job[v].key)'
      BY <2>0, <2>4, <3>1 DEF Searched, SearchedBy, Before, Kept
    <3>5. job'[x].since <= clock'
      BY <2>0, <2>4, <3>1 DEF Searched, SearchedBy, Kept
    <3>. QED  BY <2>1, <3>3, <3>4, <3>5 DEF Searched, SearchedBy
  <2>5. CASE job'[x].pc \notin {"snapshot", "doom"}
    <3>1. ~Looking(x)'
      BY <1>6, <2>5, MoveHolds DEF Looking, Holding
    <3>. QED  BY <2>1, <3>1 DEF Searched, SearchedBy
  <2>6. MoveOf(x, job[x], job'[x])
    BY <1>6 DEF Moved
  <2>. QED  BY <2>2, <2>3, <2>4, <2>5, <2>6 DEF MoveOf
<1>7. ASSUME UNCHANGED <<entry, job, clock>>
      PROVE  Searched'
  BY <1>0, <1>7, OthersSearched DEF Searched
<1>8. ASSUME Drain
      PROVE  UNCHANGED <<entry, job, clock>>
  BY <1>8 DEF Drain, Collect, BatchReady, ApplyUntag, BatchApplied, Exit
<1>. QED  BY <1>1, <1>2, <1>3, <1>4, <1>5, <1>6, <1>7, <1>8 DEF Kind

(* For every set of keys, tags and workers: when InvalidateTags returns,   *)
(* no entry whose write had ended before it was called carries one of its  *)
(* tags.                                                                   *)
THEOREM InvalidateAlwaysRemoves ==
    ASSUME Proper
    PROVE  Spec => []InvalidateRemoves
<1>1. Init => CoverInv /\ Searched
  <2>1. NoJob.pc = "idle"
    BY DEF NoJob
  <2>2. Init => Searched
    BY <2>1 DEF Init, Searched, SearchedBy, Looking
  <2>. QED  BY <2>2, CoverInit
<1>2. CoverInv /\ Searched /\ [Next]_vars => CoverInv' /\ Searched'
  BY CoverStep, SearchedStep
<1>3. CoverInv /\ Searched => InvalidateRemoves
  <2>. SUFFICES ASSUME CoverInv, Searched, NEW w \in Workers, Invalidated(w),
                       NEW k \in Tagged \ job[w].busy, entry[k].tags \cap job[w].tags # {}
                PROVE  entry[k].written > job[w].since
    BY DEF InvalidateRemoves
  <2>1. PICK t \in Tag : t \in entry[k].tags /\ t \in job[w].tags
    BY DEF CoverInv, TagsType, Entry
  <2>2. ~FoundOrTodo(w, k, t) /\ Looking(w)
    BY DEF Invalidated, FoundOrTodo, Looking
  <2>3. ~Before(w, k)
    BY <2>1, <2>2 DEF Searched, SearchedBy
  <2>4. entry[k].written \in Nat /\ job[w].since \in Nat
    BY DEF CoverInv, TagsType, Entry, Job
  <2>. QED  BY <2>3, <2>4 DEF Before
<1>. QED  BY <1>1, <1>2, <1>3, PTL DEF Spec

-----------------------------------------------------------------------------
(* A group stays within its budget.                                        *)

InGroup == {k \in Tagged : Group \in entry[k].tags}

(* A call that has still to look the group up ...                          *)
Enforcing(w) ==
    \/ job[w].pc = "tag" /\ Group \in job[w].tags
    \/ job[w].pc \in {"members", "shrink"}
    \/ job[w].pc = "enqueue" /\ job[w].next = "members"

(* ... or has looked it up and missed nobody: of those it has visited it   *)
(* has counted all, and the oldest is not lost.                            *)
Watching(w) ==
    /\ InGroup \subseteq job[w].members
    /\ \/ job[w].pc = "count" /\ Cardinality(InGroup \ job[w].keys) <= job[w].live
       \/ job[w].pc = "oldest" /\ (job[w].oldest # 0 \/ InGroup \subseteq job[w].keys)

Attended == Cardinality(InGroup) <= Capacity \/ \E w \in Workers : Enforcing(w) \/ Watching(w)

(* Fewer members are no more to count.                                     *)
LEMMA Fewer ==
    ASSUME Proper, NEW S \in SUBSET Tagged, NEW T \in SUBSET S
    PROVE  /\ Cardinality(T) \in Nat /\ Cardinality(S) \in Nat /\ Cardinality(T) <= Cardinality(S)
           /\ IsFiniteSet(S) /\ IsFiniteSet(T)
<1>1. IsFiniteSet(S)
  BY FS_Subset, Zenon DEF Proper
<1>. QED  BY <1>1, FS_Subset, FS_CardinalityType

(* A call that sits still attends a group that does not grow.              *)
LEMMA StillAttends ==
    ASSUME Proper, TagsType, NEW w \in Workers, job'[w] = job[w], InGroup' \subseteq InGroup,
           Enforcing(w) \/ Watching(w)
    PROVE  Enforcing(w)' \/ Watching(w)'
<1>1. CASE Enforcing(w)
  BY <1>1 DEF Enforcing
<1>2. CASE Watching(w)
  <2>1. PICK S, T : S = InGroup \ job[w].keys /\ T = InGroup' \ job[w].keys
    BY Zenon
  <2>2. S \in SUBSET Tagged /\ T \in SUBSET S
    BY <2>1 DEF InGroup
  <2>3. Cardinality(T) \in Nat /\ Cardinality(S) \in Nat /\ Cardinality(T) <= Cardinality(S) /\ job[w].live \in Nat
    BY <2>2, Fewer, Zenon DEF TagsType, Job
  <2>4. job[w].pc = "count" /\ Cardinality(S) <= job[w].live => Cardinality(T) <= job[w].live
    BY <2>3
  <2>. QED  BY <1>2, <2>1, <2>4 DEF Watching
<1>. QED  BY <1>1, <1>2

(* So does the group, when the call that moves was not the one.            *)
LEMMA OthersAttend ==
    ASSUME Proper, TagsType, Attended, InGroup' \subseteq InGroup, NEW X \in SUBSET Workers,
           \A v \in Workers \ X : job'[v] = job[v],
           \A x \in X : ~Enforcing(x) /\ ~Watching(x)
    PROVE  Attended'
<1>1. CASE Cardinality(InGroup) <= Capacity
  <2>1. PICK S, T : S = InGroup /\ T = InGroup'
    OBVIOUS
  <2>2. S \in SUBSET Tagged /\ T \in SUBSET S
    BY <2>1 DEF InGroup
  <2>3. Cardinality(T) \in Nat /\ Cardinality(S) \in Nat /\ Cardinality(T) <= Cardinality(S)
    BY <2>2, Fewer
  <2>4. Cardinality(T) <= Capacity
    BY <1>1, <2>1, <2>3 DEF Proper
  <2>. QED  BY <2>1, <2>4 DEF Attended
<1>2. ASSUME NEW w \in Workers, Enforcing(w) \/ Watching(w)
      PROVE  Attended'
  <2>1. job'[w] = job[w]
    BY <1>2
  <2>. QED  BY <1>2, <2>1, StillAttends DEF Attended
<1>. QED  BY <1>1, <1>2 DEF Attended

(* The steps of shrinkGroup itself.                                        *)
LEMMA ShrinkAttends ==
    ASSUME Proper, CoverInv, CoverInv', Attended, NEW x \in Workers, Moved(x)
    PROVE  Attended'
<1>0. /\ UNCHANGED entry /\ \A v \in Workers \ {x} : job'[v] = job[v]
      /\ MoveOf(x, job[x], job'[x]) /\ TagsType /\ InGroup \in SUBSET Tagged
      /\ job[x].live \in Nat /\ job[x].oldest \in Nat /\ job[x].keys \subseteq Tagged
      /\ Capacity \in Nat
  BY Zenon DEF Moved, CoverInv, TagsType, Job, InGroup, Proper
<1>1. InGroup' = InGroup
  BY <1>0 DEF InGroup
<1>2. ASSUME ~Enforcing(x), ~Watching(x)
      PROVE  Attended'
  BY <1>0, <1>1, <1>2, OthersAttend, {x} \in SUBSET Workers
<1>3. ASSUME Watching(x) => Enforcing(x)' \/ Watching(x)' \/ Cardinality(InGroup) <= Capacity, ~Enforcing(x)
      PROVE  Attended'
  BY <1>1, <1>2, <1>3 DEF Attended
<1>4. CASE job[x].pc \in {"idle", "snapshot", "doom"}
  BY <1>2, <1>4 DEF Enforcing, Watching
<1>5. ASSUME job[x].pc = "members", job'[x].pc = "count", job'[x].keys = index[Group],
             job'[x].members = index[Group], job'[x].live = 0
      PROVE  Attended'
  <2>1. CASE \E v \in Workers \ {x} : Enforcing(v)
    <3>1. PICK v \in Workers \ {x} : Enforcing(v)
      BY <2>1
    <3>2. Enforcing(v)'
      BY <1>0, <3>1 DEF Enforcing
    <3>. QED  BY <3>2 DEF Attended
  <2>2. CASE ~\E v \in Workers \ {x} : Enforcing(v)
    <3>1. ASSUME NEW k \in InGroup
          PROVE  k \in index[Group]
      <4>1. k \in Tagged /\ Group \in entry[k].tags
        BY DEF InGroup
      <4>2. k \notin locked
        <5>. SUFFICES ASSUME k \in locked PROVE FALSE
          OBVIOUS
        <5>1. PICK v \in Workers : Holding(v) /\ job[v].key = k
          BY DEF CoverInv, Locks
        <5>2. job[v].pc = "tag" /\ Group \in job[v].tags
          BY <4>1, <5>1 DEF Holding, CoverInv, Midway
        <5>. QED  BY <1>5, <2>2, <5>2 DEF Enforcing
      <4>. QED  BY <4>1, <4>2 DEF CoverInv, IndexCovers
    <3>2. InGroup \ job'[x].keys = {} /\ Cardinality({}) = 0
      BY <1>5, <3>1, FS_EmptySet
    <3>3. Watching(x)'
      BY <1>1, <1>5, <3>1, <3>2 DEF Watching
    <3>. QED  BY <3>3 DEF Attended
  <2>. QED  BY <2>1, <2>2
<1>6. ASSUME NEW k \in job[x].keys, job[x].pc = "count", job'[x].pc = "count", job'[x].members = job[x].members,
             job'[x].keys = job[x].keys \ {k}, job'[x].live = job[x].live + IF entry[k].there THEN 1 ELSE 0
      PROVE  Attended'
  <2>1. ASSUME Watching(x)
        PROVE  Watching(x)'
    <3>1. PICK S, T : S = InGroup \ job[x].keys /\ T = InGroup \ job'[x].keys
      BY Zenon
    <3>2. S \in SUBSET Tagged /\ IsFiniteSet(S) /\ Cardinality(S) \in Nat /\ Cardinality(S) <= job[x].live
      BY <1>0, <1>6, <2>1, <3>1, Fewer DEF Watching
    <3>3. CASE entry[k].there
      <4>1. k \notin S /\ T \subseteq S \cup {k} /\ S \cup {k} \in SUBSET Tagged
        BY <1>0, <1>6, <3>1, <3>2
      <4>2. Cardinality(S \cup {k}) = Cardinality(S) + 1
        BY <3>2, <4>1, FS_AddElement, Zenon
      <4>3. Cardinality(T) \in Nat /\ Cardinality(T) <= Cardinality(S \cup {k})
        BY <4>1, Fewer
      <4>4. Cardinality(T) <= job'[x].live
        BY <1>0, <1>6, <3>2, <3>3, <4>2, <4>3
      <4>. QED  BY <1>1, <1>6, <2>1, <3>1, <4>4 DEF Watching
    <3>4. CASE ~entry[k].there
      <4>1. k \notin InGroup
        BY <1>0, <1>6, <3>4 DEF CoverInv, Midway, InGroup
      <4>2. T = S
        BY <1>6, <3>1, <4>1
      <4>3. Cardinality(T) <= job'[x].live
        BY <1>0, <1>6, <3>2, <3>4, <4>2
      <4>. QED  BY <1>1, <1>6, <2>1, <3>1, <4>3 DEF Watching
    <3>. QED  BY <3>3, <3>4
  <2>2. ~Enforcing(x)
    BY <1>6 DEF Enforcing
  <2>. QED  BY <1>3, <2>1, <2>2
<1>7. ASSUME job[x].pc = "count", job'[x].pc = "idle", job[x].keys = {}, job[x].live <= Capacity
      PROVE  Attended'
  <2>1. ASSUME Watching(x)
        PROVE  Cardinality(InGroup) <= Capacity
    <3>1. Cardinality(InGroup) <= job[x].live
      <4>1. InGroup \ job[x].keys = InGroup
        BY <1>7
      <4>. QED  BY <1>7, <2>1, <4>1 DEF Watching
    <3>. QED  BY <1>0, <1>7, <3>1, Fewer
  <2>2. ~Enforcing(x)
    BY <1>7 DEF Enforcing
  <2>. QED  BY <1>3, <2>1, <2>2
<1>8. ASSUME job[x].pc = "count", job'[x].pc = "oldest", job'[x].keys = job[x].members,
             job'[x].members = job[x].members
      PROVE  Attended'
  BY <1>1, <1>3, <1>8 DEF Watching, Enforcing
<1>9. ASSUME NEW k \in job[x].keys, job[x].pc = "oldest", job'[x].pc = "oldest", job'[x].members = job[x].members,
             job'[x].keys = job[x].keys \ {k}, job[x].oldest # 0 => job'[x].oldest # 0,
             entry[k].there => job'[x].oldest # 0
      PROVE  Attended'
  <2>1. k \in InGroup => entry[k].there
    BY <1>0 DEF CoverInv, Midway, InGroup
  <2>. QED  BY <1>1, <1>3, <1>9, <2>1 DEF Watching, Enforcing
<1>10. ASSUME job[x].pc = "oldest", job'[x].pc = "idle", job[x].keys = {}, job[x].oldest = 0
       PROVE  Attended'
  <2>1. ASSUME Watching(x)
        PROVE  Cardinality(InGroup) <= Capacity
    <3>1. InGroup = {} /\ Cardinality({}) = 0
      BY <1>10, <2>1, FS_EmptySet DEF Watching
    <3>. QED  BY <1>0, <3>1
  <2>2. ~Enforcing(x)
    BY <1>10 DEF Enforcing
  <2>. QED  BY <1>3, <2>1, <2>2
<1>11. ASSUME job'[x].pc \in {"shrink", "members"}
       PROVE  Attended'
  BY <1>11 DEF Attended, Enforcing
<1>. QED  BY <1>0, <1>4, <1>5, <1>6, <1>7, <1>8, <1>9, <1>10, <1>11 DEF MoveOf

(* Every step keeps Attended.                                              *)
LEMMA AttendedStep ==
    ASSUME Proper, CoverInv, CoverInv', Attended, Kind
    PROVE  Attended'
<1>0. TagsType /\ \A w \in Workers : job[w] \in Job
  BY DEF CoverInv, TagsType
<1>1. ASSUME NEW x \in Workers, NEW k \in Tagged, NEW tags \in TagSets, Set(x, k, tags)
      PROVE  Attended'
  <2>0. /\ job[x].pc = "idle" /\ job'[x].pc = "tag" /\ job'[x].tags = tags
        /\ \A v \in Workers \ {x} : job'[v] = job[v]
        /\ entry'[k].tags = tags /\ \A i \in Tagged \ {k} : entry'[i] = entry[i]
    BY <1>0, <1>1, SetEffect
  <2>1. CASE Group \in tags
    BY <2>0, <2>1 DEF Attended, Enforcing
  <2>2. CASE Group \notin tags
    <3>1. InGroup' \subseteq InGroup
      BY <2>0, <2>2 DEF InGroup
    <3>2. ~Enforcing(x) /\ ~Watching(x)
      BY <2>0 DEF Enforcing, Watching
    <3>. QED  BY <1>0, <2>0, <3>1, <3>2, OthersAttend, {x} \in SUBSET Workers
  <2>. QED  BY <2>1, <2>2
<1>2. ASSUME NEW x \in Workers, TagKey(x)
      PROVE  Attended'
  <2>0. /\ job[x].pc = "tag" /\ UNCHANGED entry /\ job'[x].pc = IF Group \in job[x].tags THEN "members" ELSE "idle"
        /\ \A v \in Workers \ {x} : job'[v] = job[v]
    BY <1>0, <1>2, TagEffect
  <2>1. CASE Group \in job[x].tags
    BY <2>0, <2>1 DEF Attended, Enforcing
  <2>2. CASE Group \notin job[x].tags
    <3>1. InGroup' \subseteq InGroup
      BY <2>0 DEF InGroup
    <3>2. ~Enforcing(x) /\ ~Watching(x)
      BY <2>0, <2>2 DEF Enforcing, Watching
    <3>. QED  BY <1>0, <2>0, <3>1, <3>2, OthersAttend, {x} \in SUBSET Workers
  <2>. QED  BY <2>1, <2>2
<1>3. ASSUME NEW x \in Workers, NEW k \in Tagged, NEW left \in Entry, NEW next \in Nexts, Removal(x, k, left, next)
      PROVE  Attended'
  <2>0. /\ entry'[k].tags = {} /\ \A i \in Tagged \ {k} : entry'[i] = entry[i]
        /\ \A v \in Workers \ {x} : job'[v] = job[v]
        /\ job'[x].pc = next \/ (job'[x].pc = "enqueue" /\ job'[x].next = next)
        /\ job[x].pc \in {"idle", "doom", "shrink"}
        /\ next = "members" <=> job[x].pc = "shrink"
    BY <1>0, <1>3, RemovalEffect DEF Removal
  <2>1. CASE next = "members"
    BY <2>0, <2>1 DEF Attended, Enforcing
  <2>2. CASE next # "members"
    <3>1. InGroup' \subseteq InGroup
      BY <2>0 DEF InGroup
    <3>2. ~Enforcing(x) /\ ~Watching(x)
      BY <2>0, <2>2 DEF Enforcing, Watching
    <3>. QED  BY <1>0, <2>0, <3>1, <3>2, OthersAttend, {x} \in SUBSET Workers
  <2>. QED  BY <2>1, <2>2
<1>4. ASSUME NEW x \in Workers, Enqueue(x)
      PROVE  Attended'
  <2>0. /\ job[x].pc = "enqueue" /\ UNCHANGED entry /\ job'[x].pc = job[x].next
        /\ \A v \in Workers \ {x} : job'[v] = job[v]
    BY <1>0, <1>4, EnqueueEffect
  <2>1. CASE job[x].next = "members"
    BY <2>0, <2>1 DEF Attended, Enforcing
  <2>2. CASE job[x].next # "members"
    <3>1. InGroup' \subseteq InGroup
      BY <2>0 DEF InGroup
    <3>2. ~Enforcing(x) /\ ~Watching(x)
      BY <2>0, <2>2 DEF Enforcing, Watching
    <3>. QED  BY <1>0, <2>0, <3>1, <3>2, OthersAttend, {x} \in SUBSET Workers
  <2>. QED  BY <2>1, <2>2
<1>5. ASSUME UNCHANGED job, InGroup' \subseteq InGroup
      PROVE  Attended'
  <2>1. {} \in SUBSET Workers /\ \A v \in Workers \ {} : job'[v] = job[v]
    BY <1>5
  <2>. QED  BY <1>0, <1>5, <2>1, OthersAttend, Zenon
<1>6. ASSUME NEW k \in Tagged, Wiped(k)
      PROVE  InGroup' \subseteq InGroup
  BY <1>0, <1>6, WipeEffect DEF InGroup, NoEntry
<1>7. ASSUME UNCHANGED entry
      PROVE  InGroup' \subseteq InGroup
  BY <1>7 DEF InGroup
<1>8. ASSUME Drain
      PROVE  UNCHANGED <<entry, job>>
  BY <1>8 DEF Drain, Collect, BatchReady, ApplyUntag, BatchApplied, Exit
<1>. QED  BY <1>1, <1>2, <1>3, <1>4, <1>5, <1>6, <1>7, <1>8, ShrinkAttends DEF Kind

(* For every set of keys, tags and workers and every capacity: with no     *)
(* call under way the group is within its budget.                          *)
THEOREM GroupAlwaysBounded ==
    ASSUME Proper
    PROVE  Spec => []GroupBounded
<1>1. Init => CoverInv /\ Attended
  <2>1. ASSUME Init
        PROVE  Attended
    <3>1. PICK ts \in [Tagged -> TagSets] :
               /\ entry = [k \in Tagged |-> [there |-> TRUE, tags |-> ts[k], inserted |-> k, written |-> k]]
               /\ Cardinality({k \in Tagged : Group \in ts[k]}) <= Capacity
      BY <2>1, Zenon DEF Init, Starts
    <3>2. InGroup = {k \in Tagged : Group \in ts[k]}
      BY <3>1 DEF InGroup
    <3>. QED  BY <3>1, <3>2 DEF Attended
  <2>. QED  BY <2>1, CoverInit
<1>2. CoverInv /\ Attended /\ [Next]_vars => CoverInv' /\ Attended'
  BY CoverStep, AttendedStep
<1>3. CoverInv /\ Attended => GroupBounded
  BY Zenon DEF Attended, Enforcing, Watching, GroupBounded, InGroup
<1>. QED  BY <1>1, <1>2, <1>3, PTL DEF Spec
=============================================================================
