----------------------------- MODULE TagsProofs -----------------------------
(***************************************************************************)
(* Proof that the tag index of Tags covers the entries, for every set of   *)
(* keys, tags and workers, every queue and every batch, and what the other *)
(* proofs about Tags rest on: the types, what each kind of step does, and  *)
(* who holds which shard.                                                  *)
(***************************************************************************)
EXTENDS Tags, FiniteSetTheorems, TLAPS

-----------------------------------------------------------------------------
(* Types.                                                                  *)

Op == [key : Tagged, tags : SUBSET Tag]
Entry == [there : BOOLEAN, tags : SUBSET Tag, inserted : Nat, written : Nat]
Steps == {"idle", "tag", "enqueue", "snapshot", "doom", "members", "count", "oldest", "shrink"}
Nexts == {"idle", "doom", "members"}
Job == [pc : Steps, key : Tagged, tags : SUBSET Tag, todo : SUBSET Tag,
        keys : SUBSET Tagged, members : SUBSET Tagged, live : Nat, oldest : Nat, since : Nat,
        busy : SUBSET Tagged, next : Nexts]

TagsType ==
    /\ entry \in [Tagged -> Entry]
    /\ index \in [Tag -> SUBSET Tagged]
    /\ locked \subseteq Tagged
    /\ queue \in Seq(Op) /\ inflight \in Int
    /\ drainer \in [pc : {"collect", "apply", "exited"}, batch : Seq(Op), applied : Nat]
    /\ drainer.applied <= Len(drainer.batch)
    /\ job \in [Workers -> Job]
    /\ clock \in Nat
    /\ closing \in {"no", "reset", "stop", "done"}

(* A call keeps its shape when it turns to its next step.                  *)
LEMMA ResumedType ==
    ASSUME Proper, NEW j \in Job
    PROVE  Resumed(j) \in Job /\ NoJob \in Job
<1>1. SomeKey \in Tagged
  BY DEF Proper, SomeKey
<1>. QED  BY <1>1, Zenon DEF Resumed, NoJob, Job, Steps, Nexts

(* Untagging leaves an index.                                              *)
LEMMA UntaggedType ==
    ASSUME Proper, TagsType, NEW k, NEW tags
    PROVE  Untagged(k, tags) \in [Tag -> SUBSET Tagged]
  BY DEF Untagged, TagsType

(* removeLocked keeps the types.                                           *)
LEMMA RemoveType ==
    ASSUME Proper, TagsType, NEW w \in Workers, NEW k \in Tagged, NEW left \in Entry, NEW next \in Nexts,
           RemoveLocked(w, k, left, next)
    PROVE  TagsType'
<1>1. job[w] \in Job /\ entry[k] \in Entry /\ entry[k].tags \in SUBSET Tag
  BY DEF TagsType, Entry
<1>2. entry' \in [Tagged -> Entry] /\ locked' \subseteq Tagged /\ inflight' \in Int
  BY DEF RemoveLocked, TagsType
<1>3. [job[w] EXCEPT !.next = next, !.keys = @ \ {k}] \in Job
  BY <1>1, Zenon DEF Job
<1>4. [job[w] EXCEPT !.pc = "enqueue", !.next = next, !.key = k, !.todo = entry[k].tags, !.keys = @ \ {k}] \in Job
  BY <1>1, Zenon DEF Job, Steps
<1>5. job' \in [Workers -> Job]
  BY <1>3, <1>4, ResumedType DEF RemoveLocked, Step, TagsType
<1>. QED  BY <1>2, <1>5 DEF RemoveLocked, TagsType

(* Every step keeps the types.                                             *)
LEMMA TypeStep ==
    ASSUME Proper, TagsType, [Next]_vars
    PROVE  TagsType'
<1>0. /\ \A w \in Workers : job[w] \in Job
      /\ \A k \in Tagged : entry[k] \in Entry
      /\ NoEntry \in Entry
      /\ \A k \in Tagged : [entry[k] EXCEPT !.tags = {}] \in Entry
  BY Zenon DEF TagsType, NoEntry, Entry
<1>K. SomeKey \in Tagged
  BY DEF Proper, SomeKey
<1>J. NoJob \in Job /\ \A pc \in Steps : [NoJob EXCEPT !.pc = pc] \in Job
  BY <1>K, Zenon DEF NoJob, Job, Steps, Nexts
<1>1. ASSUME NEW w \in Workers, NEW j \in Job, Step(w, j)
      PROVE  job' \in [Workers -> Job]
  BY <1>1 DEF Step, TagsType
<1>2. ASSUME NEW w \in Workers, NEW k \in Tagged, Remove(w, k) \/ Tombstone(w, k) \/ Clear(w, k)
      PROVE  TagsType'
  <2>1. CASE Remove(w, k)
    BY <1>0, <2>1, RemoveType DEF Remove, Nexts
  <2>2. CASE Tombstone(w, k)
    BY <1>0, <2>2, RemoveType DEF Tombstone, Nexts
  <2>3. CASE Clear(w, k)
    BY <1>0, <2>3, UntaggedType DEF Clear, Wiped, TagsType
  <2>. QED  BY <1>2, <2>1, <2>2, <2>3
<1>3. ASSUME NEW w \in Workers, NEW k \in Tagged, NEW tags \in TagSets, Set(w, k, tags)
      PROVE  TagsType'
  <2>1. tags \in SUBSET Tag /\ clock' \in Nat
    BY <1>3 DEF Proper, Set, TagsType
  <2>2. entry' \in [Tagged -> Entry]
    BY <1>0, <1>3, <2>1 DEF Set, TagsType, Entry
  <2>3. [NoJob EXCEPT !.pc = "tag", !.key = k, !.tags = tags] \in Job
    BY <1>K, <2>1, Zenon DEF NoJob, Job, Steps, Nexts
  <2>. QED  BY <1>3, <2>1, <2>2, <2>3, UntaggedType DEF Set, TagsType
<1>4. ASSUME NEW w \in Workers, NEW tags \in SUBSET Tag, InvalidateTags(w, tags)
      PROVE  TagsType'
  <2>1. [NoJob EXCEPT !.pc = "snapshot", !.tags = tags, !.todo = tags, !.since = clock, !.busy = locked] \in Job
    BY <1>K, Zenon DEF NoJob, Job, Steps, Nexts, TagsType
  <2>. QED  BY <1>1, <1>4, <2>1 DEF InvalidateTags, TagsType
<1>5. ASSUME NEW w \in Workers, Go(w)
      PROVE  TagsType'
  <2>0. job[w] \in Job /\ job[w].key \in Tagged /\ job[w].keys \subseteq Tagged /\ job[w].todo \subseteq Tag
    BY <1>0 DEF Job
  <2>1. CASE TagKey(w)
    <3>1. index' \in [Tag -> SUBSET Tagged] /\ locked' \subseteq Tagged
      BY <2>0, <2>1 DEF TagKey, TagsType
    <3>2. job' \in [Workers -> Job]
      BY <1>J, <2>1, Zenon DEF TagKey, TagsType, Steps
    <3>. QED  BY <2>1, <3>1, <3>2 DEF TagKey, TagsType
  <2>2. CASE Enqueue(w)
    <3>1. queue' \in Seq(Op) /\ inflight' \in Int /\ index' \in [Tag -> SUBSET Tagged]
      <4>1. [key |-> job[w].key, tags |-> job[w].todo] \in Op
        BY <2>0 DEF Op
      <4>2. CASE Len(queue) < QueueCap
        <5>1. queue' = Append(queue, [key |-> job[w].key, tags |-> job[w].todo]) /\ UNCHANGED <<index, inflight>>
          BY <2>2, <4>2 DEF Enqueue, EnqueueUntag
        <5>. QED  BY <4>1, <5>1 DEF TagsType
      <4>3. CASE ~(Len(queue) < QueueCap)
        BY <2>2, <4>3, UntaggedType DEF Enqueue, EnqueueUntag, TagsType
      <4>. QED  BY <4>2, <4>3
    <3>. QED  BY <1>1, <2>0, <2>2, <3>1, ResumedType DEF Enqueue, TagsType
  <2>3. CASE Snapshot(w)
    <3>1. \A t \in job[w].todo : index[t] \subseteq Tagged
      BY <2>0 DEF TagsType
    <3>2. PICK t \in job[w].todo : Step(w, [job[w] EXCEPT !.todo = @ \ {t}, !.keys = Found(w, t),
                                                            !.pc = IF job[w].todo = {t} THEN "doom" ELSE "snapshot"])
      BY <2>3, Zenon DEF Snapshot
    <3>3. [job[w] EXCEPT !.todo = @ \ {t}, !.keys = Found(w, t),
                         !.pc = IF job[w].todo = {t} THEN "doom" ELSE "snapshot"] \in Job
      BY <2>0, <3>1, Zenon DEF Job, Steps, Found
    <3>. QED  BY <1>1, <2>3, <3>2, <3>3 DEF Snapshot, TagsType
  <2>4. CASE Doom(w)
    <3>1. PICK k \in job[w].keys : IF entry[k].there THEN RemoveLocked(w, k, NoEntry, "doom")
                                   ELSE /\ Step(w, [job[w] EXCEPT !.keys = @ \ {k}])
                                        /\ UNCHANGED <<entry, index, locked, queue, inflight, drainer, clock, closing>>
      BY <2>4, Zenon DEF Doom
    <3>2. k \in Tagged
      BY <2>0
    <3>3. CASE entry[k].there
      BY <1>0, <3>1, <3>2, <3>3, RemoveType DEF Nexts
    <3>4. CASE ~entry[k].there
      <4>1. [job[w] EXCEPT !.keys = @ \ {k}] \in Job
        BY <2>0 DEF Job
      <4>. QED  BY <1>1, <3>1, <3>4, <4>1 DEF TagsType
    <3>. QED  BY <3>3, <3>4
  <2>5. CASE ReturnInvalidate(w)
    BY <1>1, <1>J, <2>5 DEF ReturnInvalidate, TagsType
  <2>6. CASE Members(w)
    <3>1. [NoJob EXCEPT !.pc = "count", !.keys = index[Group], !.members = index[Group]] \in Job
      <4>1. index[Group] \subseteq Tagged
        BY DEF Proper, TagsType
      <4>. QED  BY <1>K, <4>1, Zenon DEF NoJob, Job, Steps, Nexts
    <3>. QED  BY <1>1, <2>6, <3>1 DEF Members, TagsType
  <2>7. CASE CountLiveMembers(w)
    <3>0. UNCHANGED <<entry, index, locked, queue, inflight, drainer, calls, clock, closing>>
      BY <2>7, Zenon DEF CountLiveMembers
    <3>1. ASSUME NEW k \in job[w].keys,
                 Step(w, [job[w] EXCEPT !.keys = @ \ {k}, !.live = @ + IF entry[k].there THEN 1 ELSE 0])
          PROVE  job' \in [Workers -> Job]
      <4>1. job[w].live + (IF entry[k].there THEN 1 ELSE 0) \in Nat
        BY <2>0 DEF Job
      <4>2. [job[w] EXCEPT !.keys = @ \ {k}, !.live = @ + IF entry[k].there THEN 1 ELSE 0] \in Job
        BY <2>0, <4>1, Zenon DEF Job
      <4>. QED  BY <1>1, <3>1, <4>2
    <3>2. ASSUME Step(w, IF Within(job[w].live) THEN NoJob ELSE [job[w] EXCEPT !.pc = "oldest", !.keys = job[w].members])
          PROVE  job' \in [Workers -> Job]
      <4>1. [job[w] EXCEPT !.pc = "oldest", !.keys = job[w].members] \in Job
        BY <2>0, Zenon DEF Job, Steps
      <4>2. (IF Within(job[w].live) THEN NoJob ELSE [job[w] EXCEPT !.pc = "oldest", !.keys = job[w].members]) \in Job
        BY <1>J, <4>1, Zenon
      <4>. QED  BY <1>1, <3>2, <4>2
    <3>3. job' \in [Workers -> Job]
      BY <2>7, <3>1, <3>2, Zenon DEF CountLiveMembers
    <3>. QED  BY <3>0, <3>3 DEF TagsType
  <2>8. CASE FindOldestMember(w)
    <3>. DEFINE Older(k) == entry[k].there /\ (job[w].oldest = 0 \/ entry[k].inserted < job[w].oldest)
                Visited(k) == [job[w] EXCEPT !.keys = @ \ {k}, !.key = IF Older(k) THEN k ELSE @,
                                             !.oldest = IF Older(k) THEN entry[k].inserted ELSE @]
    <3>0. UNCHANGED <<entry, index, locked, queue, inflight, drainer, calls, clock, closing>>
      BY <2>8, Zenon DEF FindOldestMember
    <3>1. ASSUME NEW k \in job[w].keys, Step(w, Visited(k))
          PROVE  job' \in [Workers -> Job]
      <4>1. PICK older \in BOOLEAN : older <=> Older(k)
        BY Zenon
      <4>2. [job[w] EXCEPT !.keys = @ \ {k}, !.key = IF older THEN k ELSE @,
                           !.oldest = IF older THEN entry[k].inserted ELSE @] \in Job
        <5>1. entry[k].inserted \in Nat
          BY <1>0, <2>0 DEF Entry
        <5>. QED  BY <2>0, <5>1, Zenon DEF Job
      <4>3. Visited(k) \in Job
        BY <4>1, <4>2, Zenon
      <4>. QED  BY <1>1, <3>1, <4>3
    <3>2. ASSUME Step(w, IF job[w].oldest = 0 THEN NoJob ELSE [job[w] EXCEPT !.pc = "shrink"])
          PROVE  job' \in [Workers -> Job]
      <4>1. [job[w] EXCEPT !.pc = "shrink"] \in Job
        BY <2>0 DEF Job, Steps
      <4>2. (IF job[w].oldest = 0 THEN NoJob ELSE [job[w] EXCEPT !.pc = "shrink"]) \in Job
        BY <1>J, <4>1, Zenon
      <4>. QED  BY <1>1, <3>2, <4>2
    <3>3. job' \in [Workers -> Job]
      BY <2>8, <3>1, <3>2, Zenon DEF FindOldestMember
    <3>. QED  BY <3>0, <3>3 DEF TagsType
  <2>9. CASE ShrinkGroup(w)
    <3>1. CASE entry[job[w].key].there
      BY <1>0, <2>0, <2>9, <3>1, RemoveType DEF ShrinkGroup, Nexts
    <3>2. CASE ~entry[job[w].key].there
      <4>1. [job[w] EXCEPT !.pc = "members"] \in Job
        BY <2>0 DEF Job, Steps
      <4>. QED  BY <1>1, <2>9, <3>2, <4>1 DEF ShrinkGroup, TagsType
    <3>. QED  BY <3>1, <3>2
  <2>. QED  BY <1>5, <2>1, <2>2, <2>3, <2>4, <2>5, <2>6, <2>7, <2>8, <2>9 DEF Go
<1>6. ASSUME Drain
      PROVE  TagsType'
  <2>1. CASE Collect
    <3>1. queue \in Seq(Op) /\ queue # <<>> /\ drainer.batch \in Seq(Op) /\ drainer.applied \in Nat
      BY <2>1 DEF Collect, TagsType
    <3>2. queue' \in Seq(Op) /\ Append(drainer.batch, Head(queue)) \in Seq(Op)
          /\ Len(Append(drainer.batch, Head(queue))) = Len(drainer.batch) + 1
      BY <2>1, <3>1 DEF Collect
    <3>3. /\ drainer' \in [pc : {"collect", "apply", "exited"}, batch : Seq(Op), applied : Nat]
          /\ drainer'.applied <= Len(drainer'.batch)
      <4>1. PICK b : b = Append(drainer.batch, Head(queue))
        BY Zenon
      <4>2. drainer' = [drainer EXCEPT !.batch = b] /\ b \in Seq(Op) /\ drainer.applied <= Len(b)
        <5>1. drainer.applied <= Len(drainer.batch) /\ Len(drainer.batch) \in Nat
          BY <3>1 DEF TagsType
        <5>. QED  BY <2>1, <3>1, <3>2, <4>1, <5>1 DEF Collect
      <4>. QED  BY <4>2 DEF TagsType
    <3>. QED  BY <2>1, <3>2, <3>3 DEF Collect, TagsType
  <2>2. CASE BatchReady \/ Exit
    BY <2>2 DEF BatchReady, Exit, TagsType
  <2>4. CASE BatchApplied
    BY <2>4 DEF BatchApplied, Settle, TagsType
  <2>3. CASE ApplyUntag
    <3>1. index' \in [Tag -> SUBSET Tagged]
      BY <2>3, UntaggedType DEF ApplyUntag
    <3>2. /\ drainer \in [pc : {"collect", "apply", "exited"}, batch : Seq(Op), applied : Nat]
          /\ drainer' = [drainer EXCEPT !.applied = drainer.applied + 1]
          /\ drainer.applied < Len(drainer.batch) /\ Len(drainer.batch) \in Nat
      BY <2>3 DEF ApplyUntag, TagsType
    <3>3. /\ drainer' \in [pc : {"collect", "apply", "exited"}, batch : Seq(Op), applied : Nat]
          /\ drainer'.applied <= Len(drainer'.batch)
      BY <3>2
    <3>. QED  BY <2>3, <3>1, <3>3 DEF ApplyUntag, TagsType
  <2>. QED  BY <1>6, <2>1, <2>2, <2>3, <2>4 DEF Drain
<1>7. ASSUME Close \/ ResetShard \/ StopTagCleanup \/ Closed \/ UNCHANGED vars
      PROVE  TagsType'
  <2>1. CASE ResetShard
    BY <1>0, <2>1, UntaggedType DEF ResetShard, Wiped, TagsType
  <2>2. CASE ~ResetShard
    BY <1>7, <2>2 DEF Close, StopTagCleanup, Closed, vars, TagsType
  <2>. QED  BY <2>1, <2>2
<1>. QED  BY <1>2, <1>3, <1>4, <1>5, <1>6, <1>7 DEF Next

-----------------------------------------------------------------------------
(* What the steps do, field by field.                                      *)

Holding(w) == job[w].pc \in {"tag", "enqueue"}

(* A call that goes on, and what it still knows of the tags it invalidates.*)
Kept(j, w) == j.tags = job[w].tags /\ j.since = job[w].since /\ j.busy = job[w].busy

(* What upsertLocked with retagLocked does up to the second section.       *)
LEMMA SetEffect ==
    ASSUME Proper, TagsType, NEW w \in Workers, NEW k \in Tagged, NEW tags \in TagSets, Set(w, k, tags)
    PROVE  /\ job[w].pc = "idle" /\ closing = "no" /\ k \notin locked
           /\ job'[w].pc = "tag" /\ job'[w].key = k /\ job'[w].tags = tags
           /\ \A v \in Workers \ {w} : job'[v] = job[v]
           /\ entry'[k].tags = tags /\ entry'[k].there /\ entry'[k].written = clock + 1
           /\ \A i \in Tagged \ {k} : entry'[i] = entry[i]
           /\ locked' = locked \cup {k}
           /\ \A t \in Tag, i \in Tagged : i \in index'[t] <=> i \in index[t] /\ (i # k \/ t \notin entry[k].tags)
           /\ clock' = clock + 1
<1>1. job[w].pc = "idle" /\ closing = "no" /\ k \notin locked /\ locked' = locked \cup {k} /\ clock' = clock + 1
  BY DEF Set, Begin, Sealed, TagsType
<1>2. /\ job'[w].pc = "tag" /\ job'[w].key = k /\ job'[w].tags = tags
      /\ \A v \in Workers \ {w} : job'[v] = job[v]
  BY DEF Set, NoJob, TagsType
<1>3. /\ entry'[k].tags = tags /\ entry'[k].there /\ entry'[k].written = clock'
      /\ \A i \in Tagged \ {k} : entry'[i] = entry[i]
  BY DEF Set, TagsType
<1>4. \A t \in Tag, i \in Tagged : i \in index'[t] <=> i \in index[t] /\ (i # k \/ t \notin entry[k].tags)
  BY DEF Set, Untagged, TagsType
<1>. QED  BY <1>1, <1>2, <1>3, <1>4

(* What its second section does.                                           *)
LEMMA TagEffect ==
    ASSUME Proper, TagsType, NEW w \in Workers, TagKey(w)
    PROVE  /\ job[w].pc = "tag" /\ UNCHANGED <<entry, queue, inflight, drainer, clock, closing>>
           /\ job'[w].pc = IF Group \in job[w].tags THEN "members" ELSE "idle"
           /\ \A v \in Workers \ {w} : job'[v] = job[v]
           /\ locked' = locked \ {job[w].key}
           /\ \A t \in Tag, i \in Tagged : i \in index'[t] <=> i \in index[t] \/ (i = job[w].key /\ t \in job[w].tags)
  BY DEF TagKey, NoJob, TagsType

(* Where a call goes on, and what an invalidation keeps.                   *)
LEMMA ResumedEffect ==
    ASSUME Proper, NEW j \in Job
    PROVE  /\ Resumed(j).pc = j.next
           /\ j.next = "doom" => /\ Resumed(j).keys = j.keys /\ Resumed(j).tags = j.tags
                                 /\ Resumed(j).since = j.since /\ Resumed(j).busy = j.busy
<1>1. CASE j.next = "doom"
  BY <1>1 DEF Resumed, Job
<1>2. CASE j.next # "doom"
  BY <1>2 DEF Resumed, NoJob
<1>. QED  BY <1>1, <1>2

(* A removal, by a call that was not in the middle of one.                 *)
Removal(w, k, left, next) ==
    /\ entry[k].there /\ left.tags = {} /\ job[w].pc \in {"idle", "doom", "shrink"}
    /\ next = "doom" <=> job[w].pc = "doom"
    /\ next = "members" <=> job[w].pc = "shrink"
    /\ left = NoEntry \/ left = [entry[k] EXCEPT !.tags = {}]
    /\ RemoveLocked(w, k, left, next)

(* What removeLocked does: an entry with tags keeps the shard locked until *)
(* its untagging is queued.                                                *)
LEMMA RemovalEffect ==
    ASSUME Proper, TagsType, NEW w \in Workers, NEW k \in Tagged, NEW left \in Entry, NEW next \in Nexts,
           Removal(w, k, left, next)
    PROVE  /\ k \notin locked /\ UNCHANGED <<index, queue, drainer, clock, closing>>
           /\ entry'[k] = left /\ \A i \in Tagged \ {k} : entry'[i] = entry[i]
           /\ \A v \in Workers \ {w} : job'[v] = job[v]
           /\ next = "doom" => job'[w].keys = job[w].keys \ {k} /\ Kept(job'[w], w)
           /\ \/ /\ entry[k].tags = {} /\ UNCHANGED <<locked, inflight>>
                 /\ job'[w].pc = next
              \/ /\ entry[k].tags # {} /\ locked' = locked \cup {k} /\ inflight' = inflight + 1
                 /\ job'[w].pc = "enqueue" /\ job'[w].next = next
                 /\ job'[w].key = k /\ job'[w].todo = entry[k].tags
<1>0. job[w] \in Job /\ job \in [Workers -> Job] /\ entry \in [Tagged -> Entry]
  BY DEF TagsType
<1>1. /\ k \notin locked /\ UNCHANGED <<index, queue, drainer, clock, closing>>
      /\ entry'[k] = left /\ \A i \in Tagged \ {k} : entry'[i] = entry[i]
  BY <1>0 DEF Removal, RemoveLocked
<1>2. CASE entry[k].tags = {}
  <2>1. PICK j : j = [job[w] EXCEPT !.next = next, !.keys = @ \ {k}]
    OBVIOUS
  <2>2. Step(w, Resumed(j)) /\ UNCHANGED <<locked, inflight>>
    BY <1>2, <2>1 DEF Removal, RemoveLocked
  <2>3. j \in Job /\ j.next = next /\ j.keys = job[w].keys \ {k} /\ Kept(j, w)
    BY <1>0, <2>1, Zenon DEF Job, Kept
  <2>4. job'[w] = Resumed(j) /\ \A v \in Workers \ {w} : job'[v] = job[v]
    BY <1>0, <2>2 DEF Step
  <2>. QED  BY <1>1, <1>2, <2>2, <2>3, <2>4, ResumedEffect DEF Kept
<1>3. CASE entry[k].tags # {}
  <2>1. PICK j : j = [job[w] EXCEPT !.pc = "enqueue", !.next = next, !.key = k,
                                    !.todo = entry[k].tags, !.keys = @ \ {k}]
    OBVIOUS
  <2>2. Step(w, j) /\ locked' = locked \cup {k} /\ inflight' = inflight + 1
    BY <1>3, <2>1 DEF Removal, RemoveLocked
  <2>3. /\ j.pc = "enqueue" /\ j.next = next /\ j.key = k /\ j.todo = entry[k].tags
        /\ j.keys = job[w].keys \ {k} /\ Kept(j, w)
    BY <1>0, <2>1 DEF Job, Kept
  <2>4. job'[w] = j /\ \A v \in Workers \ {w} : job'[v] = job[v]
    BY <1>0, <2>2 DEF Step
  <2>. QED  BY <1>1, <1>3, <2>2, <2>3, <2>4
<1>. QED  BY <1>2, <1>3

(* The untagging is left to the drainer, or done at once.                  *)
Queued(w) ==
    /\ queue' = Append(queue, [key |-> job[w].key, tags |-> job[w].todo])
    /\ UNCHANGED <<index, inflight>>
UntaggedNow(w) ==
    /\ UNCHANGED queue /\ inflight' = inflight - 1
    /\ \A t \in Tag, i \in Tagged : i \in index'[t] <=> i \in index[t] /\ (i # job[w].key \/ t \notin job[w].todo)

(* What enqueueUntag does.                                                 *)
LEMMA EnqueueEffect ==
    ASSUME Proper, TagsType, NEW w \in Workers, Enqueue(w)
    PROVE  /\ job[w].pc = "enqueue" /\ UNCHANGED <<entry, drainer, clock, closing>>
           /\ job'[w].pc = job[w].next
           /\ job[w].next = "doom" => job'[w].keys = job[w].keys /\ Kept(job'[w], w)
           /\ \A v \in Workers \ {w} : job'[v] = job[v]
           /\ locked' = locked \ {job[w].key}
           /\ Queued(w) \/ UntaggedNow(w)
<1>0. job[w] \in Job /\ job \in [Workers -> Job]
  BY DEF TagsType
<1>1. job'[w] = Resumed(job[w]) /\ \A v \in Workers \ {w} : job'[v] = job[v]
  BY <1>0 DEF Enqueue, Step
<1>2. Queued(w) \/ UntaggedNow(w)
  BY DEF Enqueue, EnqueueUntag, Untagged, TagsType, Queued, UntaggedNow
<1>3. job[w].pc = "enqueue" /\ UNCHANGED <<entry, drainer, clock, closing>> /\ locked' = locked \ {job[w].key}
  BY DEF Enqueue
<1>4. job'[w].pc = job[w].next /\ (job[w].next = "doom" => job'[w].keys = job[w].keys /\ Kept(job'[w], w))
  BY <1>0, <1>1, ResumedEffect DEF Kept
<1>. QED  BY <1>1, <1>2, <1>3, <1>4

(* What the reset of a shard does to one key.                              *)
LEMMA WipeEffect ==
    ASSUME Proper, TagsType, NEW k \in Tagged, Wiped(k)
    PROVE  /\ k \notin locked /\ entry'[k] = NoEntry /\ \A i \in Tagged \ {k} : entry'[i] = entry[i]
           /\ \A t \in Tag, i \in Tagged : i \in index'[t] <=> i \in index[t] /\ (i # k \/ t \notin entry[k].tags)
  BY DEF Wiped, Untagged, TagsType

(* A step of a call that only reads: the start of an invalidation, its     *)
(* look at the index and at an entry that is gone, its end; and the steps  *)
(* of shrinkGroup.                                                         *)
MoveOf(w, j, n) ==
    \/ /\ j.pc = "idle" /\ n.pc = "snapshot"
       /\ n.todo = n.tags /\ n.since = clock /\ n.busy = locked
    \/ \E t \in j.todo : /\ j.pc = "snapshot" /\ n.pc = IF j.todo = {t} THEN "doom" ELSE "snapshot"
                         /\ n.todo = j.todo \ {t} /\ n.keys = j.keys \cup index[t] /\ Kept(n, w)
    \/ \E k \in j.keys : /\ j.pc = "doom" /\ n.pc = "doom" /\ ~entry[k].there
                         /\ n.keys = j.keys \ {k} /\ Kept(n, w)
    \/ j.pc = "doom" /\ n.pc = "idle"
    \/ j.pc = "members" /\ n.pc = "count" /\ n.keys = index[Group] /\ n.members = index[Group] /\ n.live = 0
    \/ \E k \in j.keys : /\ j.pc = "count" /\ n.pc = "count" /\ n.members = j.members /\ n.keys = j.keys \ {k}
                         /\ n.live = j.live + IF entry[k].there THEN 1 ELSE 0
    \/ j.pc = "count" /\ n.pc = "idle" /\ j.keys = {} /\ j.live <= Capacity
    \/ j.pc = "count" /\ n.pc = "oldest" /\ n.keys = j.members /\ n.members = j.members
    \/ \E k \in j.keys : /\ j.pc = "oldest" /\ n.pc = "oldest" /\ n.members = j.members /\ n.keys = j.keys \ {k}
                         /\ j.oldest # 0 => n.oldest # 0
                         /\ entry[k].there => n.oldest # 0
    \/ j.pc = "oldest" /\ n.pc = "idle" /\ j.keys = {} /\ j.oldest = 0
    \/ j.pc \in {"oldest", "shrink"} /\ n.pc \in {"shrink", "members"}

Moved(w) ==
    /\ \A v \in Workers \ {w} : job'[v] = job[v]
    /\ UNCHANGED <<entry, index, locked, queue, inflight, drainer, clock, closing>>
    /\ MoveOf(w, job[w], job'[w])

(* An entry has a time of insertion.                                       *)
Inserted == \A k \in Tagged : entry[k].there => entry[k].inserted # 0

(* The actions of such steps.                                              *)
LEMMA MoveCases ==
    ASSUME Proper, TagsType, Inserted, NEW w \in Workers,
           \/ \E tags \in SUBSET Tag : InvalidateTags(w, tags)
           \/ Snapshot(w) \/ ReturnInvalidate(w) \/ Members(w) \/ CountLiveMembers(w) \/ FindOldestMember(w)
    PROVE  Moved(w)
<1>0. job[w] \in Job /\ job \in [Workers -> Job]
  BY DEF TagsType
<1>1. ASSUME NEW j, Step(w, j)
      PROVE  job'[w] = j /\ \A v \in Workers \ {w} : job'[v] = job[v]
  BY <1>0, <1>1 DEF Step
<1>2. ASSUME NEW tags \in SUBSET Tag, InvalidateTags(w, tags)
      PROVE  Moved(w)
  <2>1. PICK j : j = [NoJob EXCEPT !.pc = "snapshot", !.tags = tags, !.todo = tags, !.since = clock, !.busy = locked]
    OBVIOUS
  <2>2. Step(w, j) /\ job[w].pc = "idle" /\ UNCHANGED <<entry, index, locked, queue, inflight, drainer, clock, closing>>
    BY <1>2, <2>1, Zenon DEF InvalidateTags, Begin
  <2>3. j.pc = "snapshot" /\ j.todo = j.tags /\ j.since = clock /\ j.busy = locked
    BY <2>1 DEF NoJob
  <2>. QED  BY <1>1, <2>2, <2>3, Zenon DEF Moved, MoveOf
<1>3. CASE Snapshot(w)
  <2>1. PICK t, j : /\ t \in job[w].todo
                    /\ j = [job[w] EXCEPT !.todo = @ \ {t}, !.keys = Found(w, t),
                                          !.pc = IF job[w].todo = {t} THEN "doom" ELSE "snapshot"]
                    /\ Step(w, j)
    BY <1>3, Zenon DEF Snapshot
  <2>2. job[w].pc = "snapshot" /\ UNCHANGED <<entry, index, locked, queue, inflight, drainer, clock, closing>>
    BY <1>3, Zenon DEF Snapshot
  <2>3. /\ j.pc = IF job[w].todo = {t} THEN "doom" ELSE "snapshot"
        /\ j.todo = job[w].todo \ {t} /\ j.keys = job[w].keys \cup index[t] /\ Kept(j, w)
    BY <1>0, <2>1 DEF Job, Kept, Found
  <2>. QED  BY <1>1, <2>1, <2>2, <2>3, Zenon DEF Moved, MoveOf
<1>4. CASE ReturnInvalidate(w)
  <2>1. Step(w, NoJob) /\ job[w].pc = "doom" /\ UNCHANGED <<entry, index, locked, queue, inflight, drainer, clock, closing>>
    BY <1>4 DEF ReturnInvalidate, Invalidated
  <2>2. NoJob.pc = "idle"
    BY DEF NoJob
  <2>. QED  BY <1>1, <2>1, <2>2, Zenon DEF Moved, MoveOf
<1>5. CASE Members(w)
  <2>1. PICK j : j = [NoJob EXCEPT !.pc = "count", !.keys = index[Group], !.members = index[Group]]
    OBVIOUS
  <2>2. Step(w, j) /\ job[w].pc = "members" /\ UNCHANGED <<entry, index, locked, queue, inflight, drainer, clock, closing>>
    BY <1>5, <2>1 DEF Members
  <2>3. j.pc = "count" /\ j.keys = index[Group] /\ j.members = index[Group] /\ j.live = 0
    BY <2>1 DEF NoJob
  <2>. QED  BY <1>1, <2>2, <2>3, Zenon DEF Moved, MoveOf
<1>6. CASE CountLiveMembers(w)
  <2>0. job[w].pc = "count" /\ UNCHANGED <<entry, index, locked, queue, inflight, drainer, clock, closing>>
    BY <1>6, Zenon DEF CountLiveMembers
  <2>1. ASSUME NEW k \in job[w].keys, NEW j,
               j = [job[w] EXCEPT !.keys = @ \ {k}, !.live = @ + IF entry[k].there THEN 1 ELSE 0],
               Step(w, j)
        PROVE  Moved(w)
    <3>1. /\ j.pc = job[w].pc /\ j.members = job[w].members /\ j.keys = job[w].keys \ {k}
          /\ j.live = job[w].live + IF entry[k].there THEN 1 ELSE 0
      BY <1>0, <2>1 DEF Job
    <3>. QED  BY <1>1, <2>0, <2>1, <3>1, Zenon DEF Moved, MoveOf
  <2>2. ASSUME job[w].keys = {},
               Step(w, IF Within(job[w].live) THEN NoJob ELSE [job[w] EXCEPT !.pc = "oldest", !.keys = job[w].members])
        PROVE  Moved(w)
    <3>1. CASE Within(job[w].live)
      <4>1. Step(w, NoJob) /\ NoJob.pc = "idle" /\ job[w].live <= Capacity
        BY <2>2, <3>1 DEF NoJob, Within
      <4>. QED  BY <1>1, <2>0, <2>2, <4>1, Zenon DEF Moved, MoveOf
    <3>2. CASE ~Within(job[w].live)
      <4>1. PICK j : j = [job[w] EXCEPT !.pc = "oldest", !.keys = job[w].members]
        OBVIOUS
      <4>2. Step(w, j)
        BY <2>2, <3>2, <4>1, Zenon
      <4>3. j.pc = "oldest" /\ j.keys = job[w].members /\ j.members = job[w].members
        BY <1>0, <4>1 DEF Job
      <4>. QED  BY <1>1, <2>0, <4>2, <4>3, Zenon DEF Moved, MoveOf
    <3>. QED  BY <3>1, <3>2
  <2>. QED  BY <1>6, <2>1, <2>2, Zenon DEF CountLiveMembers
<1>7. CASE FindOldestMember(w)
  <2>. DEFINE Older(k) == entry[k].there /\ (job[w].oldest = 0 \/ entry[k].inserted < job[w].oldest)
              Visited(k) == [job[w] EXCEPT !.keys = @ \ {k}, !.key = IF Older(k) THEN k ELSE @,
                                           !.oldest = IF Older(k) THEN entry[k].inserted ELSE @]
  <2>0. job[w].pc = "oldest" /\ UNCHANGED <<entry, index, locked, queue, inflight, drainer, clock, closing>>
    BY <1>7, Zenon DEF FindOldestMember
  <2>1. ASSUME NEW k \in job[w].keys, Step(w, Visited(k))
        PROVE  Moved(w)
    <3>1. PICK older \in BOOLEAN : older <=> Older(k)
      BY Zenon
    <3>2. PICK j : j = [job[w] EXCEPT !.keys = @ \ {k}, !.key = IF older THEN k ELSE @,
                                      !.oldest = IF older THEN entry[k].inserted ELSE @]
      OBVIOUS
    <3>3. Step(w, j)
      BY <2>1, <3>1, <3>2, Zenon
    <3>4. /\ j.pc = job[w].pc /\ j.members = job[w].members /\ j.keys = job[w].keys \ {k}
          /\ j.oldest = IF older THEN entry[k].inserted ELSE job[w].oldest
      BY <1>0, <3>2 DEF Job
    <3>5. /\ job[w].oldest # 0 => j.oldest # 0
          /\ entry[k].there => j.oldest # 0
      <4>1. k \in Tagged
        BY <1>0 DEF Job
      <4>2. entry[k].there => entry[k].inserted # 0
        BY <4>1 DEF Inserted
      <4>. QED  BY <3>1, <3>4, <4>2
    <3>. QED  BY <1>1, <2>0, <2>1, <3>3, <3>4, <3>5, Zenon DEF Moved, MoveOf
  <2>2. ASSUME job[w].keys = {}, Step(w, IF job[w].oldest = 0 THEN NoJob ELSE [job[w] EXCEPT !.pc = "shrink"])
        PROVE  Moved(w)
    <3>1. CASE job[w].oldest = 0
      <4>1. Step(w, NoJob) /\ NoJob.pc = "idle"
        BY <2>2, <3>1 DEF NoJob
      <4>. QED  BY <1>1, <2>0, <2>2, <3>1, <4>1, Zenon DEF Moved, MoveOf
    <3>2. CASE job[w].oldest # 0
      <4>1. PICK j : j = [job[w] EXCEPT !.pc = "shrink"]
        BY Zenon
      <4>2. Step(w, j) /\ j.pc = "shrink"
        <5>1. Step(w, j)
          BY <2>2, <3>2, <4>1, Zenon
        <5>. QED  BY <1>0, <4>1, <5>1 DEF Job
      <4>. QED  BY <1>1, <2>0, <4>2, Zenon DEF Moved, MoveOf
    <3>. QED  BY <3>1, <3>2
  <2>. QED  BY <1>7, <2>1, <2>2, Zenon DEF FindOldestMember
<1>. QED  BY <1>2, <1>3, <1>4, <1>5, <1>6, <1>7

(* Every step is of one of these kinds.                                    *)
Kind ==
    \/ \E w \in Workers, k \in Tagged, tags \in TagSets : Set(w, k, tags)
    \/ \E w \in Workers : TagKey(w)
    \/ \E w \in Workers, k \in Tagged, left \in Entry, next \in Nexts : Removal(w, k, left, next)
    \/ \E w \in Workers : Enqueue(w)
    \/ \E k \in Tagged : Wiped(k) /\ UNCHANGED <<locked, queue, inflight, drainer, job, clock, closing>>
    \/ \E w \in Workers : Moved(w)
    \/ Drain
    \/ UNCHANGED <<entry, index, locked, queue, inflight, drainer, job, clock>>

(* Which is so while the types hold and entries have a time of insertion.  *)
LEMMA Kinds ==
    ASSUME Proper, TagsType, Inserted, [Next]_vars
    PROVE  Kind
<1>0. /\ \A w \in Workers : job[w] \in Job
      /\ \A k \in Tagged : entry[k] \in Entry
      /\ NoEntry \in Entry /\ NoEntry.tags = {}
      /\ \A k \in Tagged : LET e == [entry[k] EXCEPT !.tags = {}] IN e \in Entry /\ e.tags = {}
  BY Zenon DEF TagsType, NoEntry, Entry
<1>1. ASSUME NEW w \in Workers, NEW k \in Tagged, Remove(w, k) \/ Tombstone(w, k)
      PROVE  Kind
  <2>1. PICK left \in {NoEntry, [entry[k] EXCEPT !.tags = {}]} :
             job[w].pc = "idle" /\ entry[k].there /\ RemoveLocked(w, k, left, "idle")
    BY <1>1 DEF Remove, Tombstone, Begin
  <2>2. left \in Entry /\ left.tags = {}
    BY <1>0, Zenon
  <2>3. Removal(w, k, left, "idle")
    BY <2>1, <2>2 DEF Removal
  <2>. QED  BY <2>2, <2>3 DEF Kind, Nexts
<1>2. ASSUME NEW w \in Workers, NEW k \in Tagged, Clear(w, k) \/ \E tags \in TagSets : Set(w, k, tags)
      PROVE  Kind
  BY <1>2 DEF Clear, Kind
<1>3. ASSUME NEW w \in Workers, \E tags \in SUBSET Tag : InvalidateTags(w, tags)
      PROVE  Kind
  BY <1>3, MoveCases DEF Kind
<1>4. ASSUME NEW w \in Workers, Doom(w)
      PROVE  Kind
  <2>1. PICK k \in job[w].keys : IF entry[k].there THEN RemoveLocked(w, k, NoEntry, "doom")
                                 ELSE /\ Step(w, [job[w] EXCEPT !.keys = @ \ {k}])
                                      /\ UNCHANGED <<entry, index, locked, queue, inflight, drainer, clock, closing>>
    BY <1>4 DEF Doom
  <2>2. job[w].pc = "doom" /\ k \in Tagged
    BY <1>0, <1>4 DEF Doom, Job
  <2>3. CASE entry[k].there
    <3>1. Removal(w, k, NoEntry, "doom")
      BY <1>0, <2>1, <2>2, <2>3 DEF Removal
    <3>. QED  BY <1>0, <2>2, <3>1 DEF Kind, Nexts
  <2>4. CASE ~entry[k].there
    <3>1. PICK j : j = [job[w] EXCEPT !.keys = @ \ {k}]
      BY Zenon
    <3>2. j.pc = "doom" /\ j.keys = job[w].keys \ {k} /\ Kept(j, w)
      BY <1>0, <2>2, <3>1 DEF Job, Kept
    <3>3. job'[w] = j /\ \A v \in Workers \ {w} : job'[v] = job[v]
      BY <2>1, <2>4, <3>1 DEF Step, TagsType
    <3>4. Moved(w)
      BY <2>1, <2>2, <2>4, <3>2, <3>3 DEF Moved, MoveOf
    <3>. QED  BY <3>4 DEF Kind
  <2>. QED  BY <2>3, <2>4
<1>5. ASSUME NEW w \in Workers, ShrinkGroup(w)
      PROVE  Kind
  <2>1. job[w].pc = "shrink" /\ job[w].key \in Tagged
    BY <1>0, <1>5 DEF ShrinkGroup, Job
  <2>2. CASE entry[job[w].key].there
    <3>1. Removal(w, job[w].key, NoEntry, "members")
      BY <1>0, <1>5, <2>1, <2>2 DEF ShrinkGroup, Removal
    <3>. QED  BY <1>0, <2>1, <3>1 DEF Kind, Nexts
  <2>3. CASE ~entry[job[w].key].there
    <3>1. PICK j : j = [job[w] EXCEPT !.pc = "members"]
      BY Zenon
    <3>2. j.pc = "members"
      BY <1>0, <3>1 DEF Job
    <3>3. /\ job'[w] = j /\ \A v \in Workers \ {w} : job'[v] = job[v]
          /\ UNCHANGED <<entry, index, locked, queue, inflight, drainer, clock, closing>>
      BY <1>5, <2>3, <3>1 DEF ShrinkGroup, Step, TagsType
    <3>4. Moved(w)
      BY <2>1, <3>2, <3>3 DEF Moved, MoveOf
    <3>. QED  BY <3>4 DEF Kind
  <2>. QED  BY <2>2, <2>3
<1>6. ASSUME NEW w \in Workers, Go(w)
      PROVE  Kind
  BY <1>4, <1>5, <1>6, MoveCases DEF Go, Kind
<1>7. ASSUME Drain \/ Close \/ ResetShard \/ StopTagCleanup \/ Closed \/ UNCHANGED vars
      PROVE  Kind
  BY <1>7 DEF Close, ResetShard, StopTagCleanup, Closed, vars, Kind
<1>. QED  BY <1>1, <1>2, <1>3, <1>6, <1>7, Zenon DEF Next

-----------------------------------------------------------------------------
(* The index covers the entries.                                           *)

(* The shard of a key is locked by the one call that is about to tag the   *)
(* key or to have it untagged.                                             *)
Locks ==
    /\ \A w \in Workers : Holding(w) => job[w].key \in locked
    /\ \A k \in locked : \E w \in Workers : Holding(w) /\ job[w].key = k
    /\ \A v, w \in Workers : Holding(v) /\ Holding(w) /\ job[v].key = job[w].key => v = w

(* Such a call has changed the entry already; only an entry has tags.      *)
Midway ==
    /\ \A w \in Workers : /\ job[w].pc = "tag" => entry[job[w].key].tags = job[w].tags
                          /\ job[w].pc = "enqueue" => entry[job[w].key].tags = {}
    /\ \A k \in Tagged : entry[k].there \/ entry[k].tags = {}

CoverInv == TagsType /\ Inserted /\ Locks /\ Midway /\ IndexCovers

(* Such a step holds no shard.                                             *)
LEMMA MoveHolds ==
    ASSUME NEW w \in Workers, Moved(w)
    PROVE  ~Holding(w) /\ ~Holding(w)' /\ \A v \in Workers \ {w} : job'[v] = job[v]
  BY DEF Moved, MoveOf, Holding

(* Every step keeps Locks.                                                 *)
LEMMA LocksStep ==
    ASSUME Proper, TagsType, TagsType', Locks, Kind
    PROVE  Locks'
<1>1. ASSUME NEW w \in Workers, NEW k \in Tagged, NEW tags \in TagSets, Set(w, k, tags)
      PROVE  Locks'
  BY <1>1, SetEffect DEF Locks, Holding
<1>2. ASSUME NEW w \in Workers, TagKey(w)
      PROVE  Locks'
  BY <1>2, TagEffect DEF Locks, Holding
<1>3. ASSUME NEW w \in Workers, NEW k \in Tagged, NEW left \in Entry, NEW next \in Nexts, Removal(w, k, left, next)
      PROVE  Locks'
  <2>1. ~Holding(w) /\ next \notin {"tag", "enqueue"}
    BY <1>3 DEF Removal, Holding, Nexts
  <2>2. CASE entry[k].tags = {}
    BY <1>3, <2>1, <2>2, RemovalEffect DEF Locks, Holding
  <2>3. CASE entry[k].tags # {}
    BY <1>3, <2>1, <2>3, RemovalEffect DEF Locks, Holding
  <2>. QED  BY <2>2, <2>3
<1>4. ASSUME NEW w \in Workers, Enqueue(w)
      PROVE  Locks'
  <2>1. job[w].next \notin {"tag", "enqueue"}
    BY Zenon DEF TagsType, Job, Nexts
  <2>2. /\ Holding(w) /\ ~Holding(w)' /\ locked' = locked \ {job[w].key}
        /\ \A v \in Workers \ {w} : job'[v] = job[v]
    BY <1>4, <2>1, EnqueueEffect DEF Holding
  <2>. QED  BY <2>2 DEF Locks, Holding
<1>5. ASSUME NEW w \in Workers, Moved(w)
      PROVE  Locks'
  <2>1. UNCHANGED locked
    BY <1>5 DEF Moved
  <2>. QED  BY <1>5, <2>1, MoveHolds DEF Locks, Holding
<1>6. ASSUME UNCHANGED <<locked, job>>
      PROVE  Locks'
  BY <1>6 DEF Locks, Holding
<1>7. ASSUME Drain
      PROVE  UNCHANGED <<locked, job>>
  BY <1>7 DEF Drain, Collect, BatchReady, ApplyUntag, BatchApplied, Exit
<1>. QED  BY <1>1, <1>2, <1>3, <1>4, <1>5, <1>6, <1>7 DEF Kind

(* The invariant is inductive.                                             *)
LEMMA CoverStep ==
    ASSUME Proper, CoverInv, [Next]_vars
    PROVE  CoverInv' /\ Kind
<1>0. TagsType /\ TagsType' /\ Kind /\ Locks'
  BY Kinds, TypeStep, LocksStep DEF CoverInv
<1>1. Inserted'
  <2>0. \A k \in Tagged : entry[k] \in Entry
    BY <1>0 DEF TagsType
  <2>1. ASSUME NEW w \in Workers, NEW k \in Tagged, NEW tags \in TagSets, Set(w, k, tags)
        PROVE  Inserted'
    <3>1. entry'[k].inserted # 0
      BY <1>0, <2>1 DEF Set, CoverInv, Inserted, TagsType
    <3>. QED  BY <1>0, <2>1, <3>1, SetEffect DEF CoverInv, Inserted
  <2>2. ASSUME NEW w \in Workers, NEW k \in Tagged, NEW left \in Entry, NEW next \in Nexts, Removal(w, k, left, next)
        PROVE  Inserted'
    <3>1. left.there => left.inserted # 0
      BY <2>0, <2>2 DEF Removal, NoEntry, CoverInv, Inserted, Entry
    <3>. QED  BY <1>0, <2>2, <3>1, RemovalEffect DEF CoverInv, Inserted
  <2>3. ASSUME NEW k \in Tagged, Wiped(k)
        PROVE  Inserted'
    BY <1>0, <2>3, WipeEffect DEF CoverInv, Inserted, NoEntry
  <2>4. ASSUME UNCHANGED entry
        PROVE  Inserted'
    BY <2>4 DEF CoverInv, Inserted
  <2>5. ASSUME (\E w \in Workers : TagKey(w) \/ Enqueue(w) \/ Moved(w)) \/ Drain
        PROVE  UNCHANGED entry
    BY <2>5, Zenon DEF TagKey, Enqueue, Moved, Drain, Collect, BatchReady, ApplyUntag, BatchApplied, Exit
  <2>. QED  BY <1>0, <2>1, <2>2, <2>3, <2>4, <2>5 DEF Kind
<1>2. \A w \in Workers : Holding(w) => job[w].key \in locked
  BY DEF CoverInv, Locks
<1>3. Midway' /\ IndexCovers'
  <2>0. /\ \A k \in Tagged : entry[k].tags \subseteq Tag
        /\ Midway /\ IndexCovers /\ Locks /\ locked \subseteq Tagged
        /\ \A w \in Workers : job[w] \in Job /\ job[w].key \in Tagged /\ job[w].tags \subseteq Tag
    BY <1>0, Zenon DEF CoverInv, TagsType, Entry, Job
  <2>1. ASSUME NEW w \in Workers, NEW k \in Tagged, NEW tags \in TagSets, Set(w, k, tags)
        PROVE  Midway' /\ IndexCovers'
    <3>1. Midway'
      BY <1>0, <1>2, <2>0, <2>1, SetEffect DEF Midway, Holding
    <3>2. IndexCovers'
      BY <1>0, <2>0, <2>1, SetEffect DEF IndexCovers
    <3>. QED  BY <3>1, <3>2
  <2>2. ASSUME NEW w \in Workers, TagKey(w)
        PROVE  Midway' /\ IndexCovers'
    <3>1. Midway'
      BY <1>0, <2>0, <2>2, TagEffect DEF Midway
    <3>2. IndexCovers'
      <4>. SUFFICES ASSUME NEW i \in Tagged \ locked', NEW t \in entry'[i].tags PROVE i \in index'[t]
        BY DEF IndexCovers
      <4>1. entry' = entry /\ t \in Tag
        BY <1>0, <2>0, <2>2, TagEffect
      <4>2. CASE i = job[w].key
        BY <1>0, <2>0, <2>2, <4>1, <4>2, TagEffect DEF Midway
      <4>3. CASE i # job[w].key
        BY <1>0, <2>0, <2>2, <4>1, <4>3, TagEffect DEF IndexCovers
      <4>. QED  BY <4>2, <4>3
    <3>. QED  BY <3>1, <3>2
  <2>3. ASSUME NEW w \in Workers, NEW k \in Tagged, NEW left \in Entry, NEW next \in Nexts, Removal(w, k, left, next)
        PROVE  Midway' /\ IndexCovers'
    <3>0. /\ k \notin locked /\ entry'[k].tags = {} /\ \A i \in Tagged \ {k} : entry'[i] = entry[i]
          /\ locked \subseteq locked' /\ index' = index
      BY <1>0, <2>3, RemovalEffect DEF Removal
    <3>1. Midway'
      <4>1. next \notin {"tag", "enqueue"}
        BY DEF Nexts
      <4>2. ASSUME NEW v \in Workers
            PROVE  /\ job'[v].pc = "tag" => entry'[job'[v].key].tags = job'[v].tags
                   /\ job'[v].pc = "enqueue" => entry'[job'[v].key].tags = {}
        <5>1. CASE v = w
          BY <1>0, <2>3, <3>0, <4>1, <5>1, RemovalEffect
        <5>2. CASE v # w
          BY <1>0, <1>2, <2>0, <2>3, <3>0, <5>2, RemovalEffect DEF Midway, Holding
        <5>. QED  BY <5>1, <5>2
      <4>. QED  BY <2>0, <3>0, <4>2 DEF Midway
    <3>. QED  BY <2>0, <3>0, <3>1 DEF IndexCovers
  <2>4. ASSUME NEW w \in Workers, Enqueue(w)
        PROVE  Midway' /\ IndexCovers'
    <3>0. job[w].next \notin {"tag", "enqueue"} /\ job[w].pc = "enqueue" /\ entry' = entry
      BY <1>0, <2>0, <2>4, EnqueueEffect DEF Job, Nexts
    <3>1. Midway'
      <4>1. job'[w].pc = job[w].next /\ \A v \in Workers \ {w} : job'[v] = job[v]
        BY <1>0, <2>4, EnqueueEffect
      <4>. QED  BY <2>0, <3>0, <4>1 DEF Midway
    <3>2. IndexCovers'
      <4>. SUFFICES ASSUME NEW i \in Tagged \ locked', NEW t \in entry[i].tags PROVE i \in index'[t]
        BY <3>0 DEF IndexCovers
      <4>1. i # job[w].key
        BY <2>0, <3>0 DEF Midway
      <4>2. i \notin locked /\ t \in Tag
        BY <1>0, <2>0, <2>4, <4>1, EnqueueEffect
      <4>3. i \in index[t]
        BY <2>0, <4>2 DEF IndexCovers
      <4>. QED  BY <1>0, <2>4, <4>1, <4>2, <4>3, EnqueueEffect, Zenon DEF Queued, UntaggedNow
    <3>. QED  BY <3>1, <3>2
  <2>5. ASSUME NEW k \in Tagged, Wiped(k), UNCHANGED <<locked, job>>
        PROVE  Midway' /\ IndexCovers'
    <3>0. NoEntry.tags = {}
      BY DEF NoEntry
    <3>1. Midway'
      BY <1>0, <1>2, <2>0, <2>5, <3>0, WipeEffect DEF Midway, Holding
    <3>2. IndexCovers'
      BY <1>0, <2>0, <2>5, <3>0, WipeEffect DEF IndexCovers
    <3>. QED  BY <3>1, <3>2
  <2>6. ASSUME NEW w \in Workers, Moved(w)
        PROVE  Midway' /\ IndexCovers'
    <3>1. UNCHANGED <<entry, index, locked>>
      BY <2>6 DEF Moved
    <3>. QED  BY <2>0, <2>6, <3>1, MoveHolds DEF Midway, IndexCovers, Holding
  <2>7. ASSUME UNCHANGED <<entry, index, locked, job>>
        PROVE  Midway' /\ IndexCovers'
    BY <2>0, <2>7 DEF Midway, IndexCovers
  <2>8. ASSUME Drain
        PROVE  Midway' /\ IndexCovers'
    <3>1. CASE ApplyUntag
      <4>1. UNCHANGED <<entry, locked, job>>
        BY <3>1 DEF ApplyUntag
      <4>2. ASSUME NEW i \in Tagged, NEW t \in entry[i].tags, i \in index[t]
            PROVE  i \in index'[t]
        <5>1. t \in Tag
          BY <2>0
        <5>. QED  BY <1>0, <3>1, <4>2, <5>1 DEF ApplyUntag, Untagged, Stale, TagsType
      <4>. QED  BY <2>0, <4>1, <4>2 DEF Midway, IndexCovers
    <3>2. CASE ~ApplyUntag
      BY <2>7, <2>8, <3>2 DEF Drain, Collect, BatchReady, BatchApplied, Exit
    <3>. QED  BY <3>1, <3>2
  <2>. QED  BY <1>0, <2>1, <2>2, <2>3, <2>4, <2>5, <2>6, <2>7, <2>8 DEF Kind
<1>. QED  BY <1>0, <1>1, <1>3 DEF CoverInv

(* It holds of every start.                                                *)
LEMMA CoverInit ==
    ASSUME Proper, Init
    PROVE  CoverInv
<1>1. clock \in Nat
  BY FS_CardinalityType DEF Proper, Init
<1>2. PICK ts \in [Tagged -> TagSets] :
         entry = [k \in Tagged |-> [there |-> TRUE, tags |-> ts[k], inserted |-> k, written |-> k]]
  BY Zenon DEF Init, Starts
<1>3. /\ entry \in [Tagged -> Entry]
      /\ \A k \in Tagged : entry[k].there /\ entry[k].inserted # 0 /\ entry[k].tags \subseteq Tag
  BY <1>2 DEF Proper, Entry
<1>4. index \in [Tag -> SUBSET Tagged]
  BY DEF Init
<1>5. NoJob \in Job /\ NoJob.pc = "idle"
  <2>1. SomeKey \in Tagged
    BY DEF Proper, SomeKey
  <2>. QED  BY <2>1 DEF NoJob, Job, Steps, Nexts
<1>6. TagsType
  BY <1>1, <1>3, <1>4, <1>5 DEF Init, TagsType
<1>7. Inserted /\ Locks /\ Midway /\ IndexCovers
  BY <1>3, <1>5 DEF Init, Inserted, Locks, Midway, IndexCovers, Holding
<1>. QED  BY <1>6, <1>7 DEF CoverInv

(* For every set of keys, tags and workers, every queue and batch: the     *)
(* index names every key under each tag its entry carries.                 *)
THEOREM IndexAlwaysCovers ==
    ASSUME Proper
    PROVE  Spec => []IndexCovers
<1>1. Init => CoverInv
  BY CoverInit
<1>2. CoverInv /\ [Next]_vars => CoverInv'
  BY CoverStep
<1>3. CoverInv => IndexCovers
  BY DEF CoverInv
<1>. QED  BY <1>1, <1>2, <1>3, PTL DEF Spec

=============================================================================
