----------------------------- MODULE StoreTier ------------------------------
(***************************************************************************)
(* One key of a cache with a Store behind it (WithStore), whose Set and    *)
(* Delete are synchronous or queued (WithAsyncWrites): cache_store.go,     *)
(* asyncwrites.go, compute.go and the callers' half of cache.go.           *)
(*                                                                         *)
(* Writes and deletes of the key are numbered in the order in which the    *)
(* cache takes them, and what memory, the Store, the queue or a caller     *)
(* holds is known by that number: `mem' is 0 when memory has no entry,     *)
(* `store.has' tells a value from a deleted record.  Number 1 stands for   *)
(* what the Store held at the start.                                       *)
(*                                                                         *)
(* Every section that holds the shard's mutex is one action, and so is     *)
(* every Store call.  The key's lock is held from LockKey to Unlock.  Keys *)
(* meet only in the shard's mutex, which no section holds while it waits.  *)
(* Expiry is an Evict: TTLs are not modelled.                              *)
(***************************************************************************)
EXTENDS Naturals, FiniteSets, FiniteSetsExt

CONSTANTS
    Callers,   \* goroutines that call into the cache
    MaxCalls,  \* bound: how many calls each of them makes (a function)
    Ops,       \* the calls they make
    Modes,     \* WithAsyncWrites or not: the values of `async' to start with
    Faults,    \* Store calls that fail: "lost" without effect, "late" after it
    Nested     \* bound: how many hooks of one goroutine call Sync, one in another

AllOps == {"get", "set", "delete", "compute", "deleteIf", "touch", "drop", "clear", "sync", "close"}

ASSUME CallersFinite == IsFiniteSet(Callers) /\ "apply" \notin Callers /\ "nobody" \notin Callers
ASSUME BoundTypes == MaxCalls \in [Callers -> Nat] /\ Nested \in Nat
ASSUME ChoiceTypes == /\ Ops \subseteq AllOps /\ Modes \subseteq BOOLEAN
                      /\ Faults \subseteq {"lost", "late"}

Procs == Callers \cup {"apply"}
Nobody == "nobody"
NoOp == [kind |-> "none", num |-> 0]

VARIABLES
    async,      \* Cache.async # nil
    mem,        \* shard.storage
    store,      \* the Store's record
    pending,    \* shard.pending
    keyLock,    \* shard.keyLocks: who holds the key's lock
    reading,    \* shard.storeReads: who leads the read callers may join
    superseded, \* leaders whose watchToken is superseded
    inflight,   \* asyncWrites.inflight
    signal,     \* asyncWrites.signal is full
    waiting,    \* asyncWrites.waiting: goroutines with a hook in Sync
    closed,     \* Cache.closed
    sealed,     \* Cache.sealed
    pc,         \* the next step of each goroutine
    job,        \* its call: see Job
    calls,      \* how many calls it has made
    written,    \* the last number given to a write
    failed,     \* the writes whose Store call failed
    acked,      \* the last write that was acknowledged to its caller
    unseen,     \* reads that overlap a write their watch does not see
    crossed     \* one of these promoted what it had read

cache == <<mem, pending, reading, superseded, closed, sealed>>
queue == <<inflight, signal, waiting>>
history == <<written, failed, acked>>
caller == <<pc, job, calls>>
vars == <<async, cache, store, keyLock, queue, caller, history, unseen, crossed>>

(* A call: num is the number of its own write, act what a Compute does,    *)
(* take a queued Set that it has applied and has yet to write to the       *)
(* Store, del a queued Delete that it takes to the Store, took whether it  *)
(* has applied a queued op, held the ops whose hooks it runs               *)
(* (asyncWrites.held), got and hit what it read, on whose read it waits    *)
(* for, floor the last write acknowledged before it began.                 *)
IdleJob == [op |-> "none", num |-> 0, act |-> "none", take |-> 0, del |-> 0, took |-> FALSE,
            held |-> 0, got |-> 0, hit |-> FALSE, on |-> Nobody, floor |-> 0]
Job(o) == [IdleJob EXCEPT !.op = o, !.floor = acked]

Init ==
    /\ async \in Modes
    /\ mem = 0 /\ pending = NoOp /\ keyLock = Nobody /\ reading = Nobody /\ superseded = {}
    /\ \E h \in BOOLEAN : store = [num |-> 1, has |-> h]
    /\ inflight = 0 /\ signal = FALSE /\ waiting = {} /\ closed = FALSE /\ sealed = FALSE
    /\ pc = [p \in Procs |-> IF p = "apply" /\ ~async THEN "exited" ELSE "idle"]
    /\ job = [p \in Procs |-> IdleJob] /\ calls = [p \in Callers |-> 0]
    /\ written = 1 /\ failed = {} /\ acked = 1 /\ unseen = {} /\ crossed = FALSE

Goto(p, step) == pc' = [pc EXCEPT ![p] = step]
Step(p, step, j) == Goto(p, step) /\ job' = [job EXCEPT ![p] = j] /\ UNCHANGED calls

(* supersedeFlight: no later caller joins the read, and it promotes        *)
(* nothing.                                                                *)
Supersede == superseded' = superseded \cup ({reading} \ {Nobody})
SupersedeIf(cond) == superseded' = IF cond THEN superseded \cup ({reading} \ {Nobody}) ELSE superseded

(* upsertLocked with memory's entry m: a sealed cache takes no new one.    *)
(* An entry that admission turns away is one that Evict removes at once.   *)
Upsert(m, n) == IF sealed THEN m ELSE n

-----------------------------------------------------------------------------
(* A Store call for write n: it takes effect, or fails without effect, or  *)
(* fails after it (a reply that is lost).                                  *)
StoreWrite(n, has, ok) ==
    /\ failed' = IF ok THEN failed ELSE failed \cup {n}
    /\ \/ (ok \/ "late" \in Faults) /\ store' = [num |-> n, has |-> has]
       \/ ~ok /\ "lost" \in Faults /\ UNCHANGED store

-----------------------------------------------------------------------------
(* Calls.  Every call looks at closed first.                               *)

FirstStep(o) ==
    CASE o = "get" -> IF async THEN "peek" ELSE "look"
      [] o \in {"set", "delete"} /\ async -> "enqueue"
      [] o \in {"touch", "clear"} /\ ~async -> IF o = "clear" THEN "wipe" ELSE "return"
      [] o = "clear" /\ async -> "drain"
      [] o \in {"sync", "close"} -> o
      [] OTHER -> "lock"

Begin(p) ==
    /\ p \in Callers /\ pc[p] = "idle" /\ ~closed
    /\ calls[p] < MaxCalls[p] /\ calls' = [calls EXCEPT ![p] = @ + 1]
    /\ \E o \in Ops : /\ Goto(p, FirstStep(o)) /\ job' = [job EXCEPT ![p] = Job(o)]
                      /\ closed' = (o = "close")
    /\ UNCHANGED <<async, mem, pending, reading, superseded, sealed, store, keyLock, queue,
                   history, unseen, crossed>>

(* The call returns: what it wrote is acknowledged, unless it failed.      *)
Return(p) ==
    /\ pc[p] = "return" /\ Step(p, IF job[p].op = "final" THEN "exited" ELSE "idle", IdleJob)
    /\ unseen' = unseen \ {p}
    /\ acked' = IF job[p].num \in failed \/ job[p].num < acked THEN acked ELSE job[p].num
    /\ UNCHANGED <<async, cache, store, keyLock, queue, written, failed, crossed>>

(* enqueuePending: closed is checked again under the shard's lock; a later *)
(* op on the key replaces the one that is queued.  A Delete that replaces  *)
(* a Delete is the same op, and has its number.                            *)
Queue(p) ==
    LET n == IF job[p].op = "delete" /\ pending.kind = "delete" THEN pending.num ELSE written + 1
    IN /\ pending' = [kind |-> job[p].op, num |-> n]
       /\ written' = IF n > written THEN n ELSE written
       /\ inflight' = IF pending = NoOp THEN inflight + 1 ELSE inflight
       /\ signal' = TRUE /\ Step(p, "return", [job[p] EXCEPT !.num = n])
       /\ UNCHANGED <<async, mem, reading, superseded, closed, sealed, store, keyLock, waiting, failed,
                      acked, unseen, crossed>>

Refuse(p) ==
    Step(p, "return", job[p])
        /\ UNCHANGED <<async, cache, store, keyLock, queue, history, unseen, crossed>>

Enqueue(p) == pc[p] = "enqueue" /\ IF closed THEN Refuse(p) ELSE Queue(p)

LockKeyShared(p) ==
    /\ pc[p] = "lock" /\ keyLock' = p
    /\ Goto(p, IF job[p].op = "set" THEN "setmem" ELSE "take")
    /\ UNCHANGED <<async, cache, store, queue, job, calls, history, unseen, crossed>>

(* keyLockTable.lock                                                       *)
LockKey(p) ==
    /\ pc[p] = "lock" /\ keyLock = Nobody /\ keyLock' = p
    /\ Goto(p, IF job[p].op = "set" THEN "setmem" ELSE "take")
    /\ UNCHANGED <<async, cache, store, queue, job, calls, history, unseen, crossed>>

(* Where a call goes on once it has let go of the key.                     *)
AfterCall(j) ==
    IF j.held > 0 THEN "hooksync" ELSE IF j.op \in {"clear", "close"} THEN "wipe" ELSE "return"

(* The unlock.  The callbacks collected under the lock run after it: those *)
(* of a queued op that was applied end with its inflight count.            *)
Unlock(p) ==
    /\ pc[p] = "unlock" /\ keyLock' = Nobody
    /\ LET j == job[p] IN
         IF j.took THEN Step(p, "hooks", [j EXCEPT !.took = FALSE, !.held = @ + 1])
                   ELSE Step(p, AfterCall(j), j)
    /\ UNCHANGED <<async, cache, store, queue, history, unseen, crossed>>

-----------------------------------------------------------------------------
(* Writers: each step holds the key's lock.                                *)

(* setLockedInto looks at closed once more, before it takes the shard's    *)
(* lock; setOptionsAndStore does not.                                      *)
SetMem(p) ==
    /\ pc[p] = "setmem"
    /\ \/ /\ closed /\ Step(p, "unlock", job[p]) /\ UNCHANGED <<mem, superseded, written>>
       \/ /\ written' = written + 1 /\ mem' = Upsert(mem, written') /\ Supersede
          /\ Step(p, "setstore", [job[p] EXCEPT !.num = written', !.act = "set"])
    /\ UNCHANGED <<async, pending, reading, closed, sealed, store, keyLock, queue, failed, acked,
                   unseen, crossed>>

(* propagateSetToStore: a failure takes the in-memory entry back.          *)
SetStore(p) ==
    /\ pc[p] = "setstore"
    /\ \E ok \in BOOLEAN : /\ StoreWrite(job[p].num, TRUE, ok)
                           /\ Step(p, IF ok THEN "unlock" ELSE "rollback", job[p])
    /\ UNCHANGED <<async, cache, keyLock, queue, written, acked, unseen, crossed>>

Rollback(p) ==
    /\ pc[p] = "rollback" /\ Step(p, "unlock", job[p])
    /\ mem' = 0 /\ SupersedeIf(mem # 0)
    /\ UNCHANGED <<async, pending, reading, closed, sealed, store, keyLock, queue, history, unseen, crossed>>

(* What is left to do in the Store: first the queued Set the call has      *)
(* applied, then its own write (mirrorToStore).                            *)
StoreStep(j) ==
    IF j.take # 0 THEN "effect"
    ELSE CASE j.op = "delete" \/ j.act = "deleteIf" -> "delstore"
           [] j.act = "set" -> "setstore"
           [] j.act = "delete" -> "delmirror"
           [] OTHER -> "unlock"

(* asyncStoreEffect: a failure is only logged.                             *)
Effect(p) ==
    /\ pc[p] = "effect"
    /\ LET j == [job[p] EXCEPT !.take = 0] IN Step(p, StoreStep(j), j)
    /\ \E ok \in BOOLEAN : StoreWrite(job[p].take, TRUE, ok)
    /\ UNCHANGED <<async, cache, keyLock, queue, written, acked, unseen, crossed>>

(* deleteKey: the Store first, then memory, whatever the Store said.       *)
DelStore(p) ==
    /\ pc[p] = "delstore" /\ Step(p, "delmem", job[p])
    /\ \E ok \in BOOLEAN : StoreWrite(job[p].num, FALSE, ok)
    /\ UNCHANGED <<async, cache, keyLock, queue, written, acked, unseen, crossed>>

DelMem(p) ==
    /\ pc[p] = "delmem" /\ Step(p, "unlock", job[p])
    /\ mem' = 0 /\ Supersede
    /\ UNCHANGED <<async, pending, reading, closed, sealed, store, keyLock, queue, history, unseen, crossed>>

(* mirrorToStore for a ComputeDelete, whose memory half is done.           *)
DelMirror(p) ==
    /\ pc[p] = "delmirror" /\ Step(p, "unlock", job[p])
    /\ \E ok \in BOOLEAN : StoreWrite(job[p].num, FALSE, ok)
    /\ UNCHANGED <<async, cache, keyLock, queue, written, acked, unseen, crossed>>

-----------------------------------------------------------------------------
(* Sections that begin by applying the key's queued op                     *)
(* (applyPendingKeyLocked).  A queued Delete goes to the Store first, with *)
(* the shard's lock released and the op still queued.                      *)

(* What a Compute, a conditional write or a DeleteIf may do with a key     *)
(* that is there or not.                                                   *)
Acts(o, hit) ==
    {"none"} \cup (IF o = "compute" THEN {"set"} ELSE {})
             \cup (IF ~hit THEN {} ELSE IF o = "compute" THEN {"delete"} ELSE {"deleteIf"})

(* What it does once it knows the key's value v, and memory's entry m of   *)
(* it: the caller's function decides.  A DeleteIf leaves memory for later, *)
(* as Delete does.                                                         *)
Decide(p, j, m, v, hit, supersedes) ==
    \E act \in Acts(j.op, hit) :
        LET n == IF act = "none" THEN 0 ELSE written + 1
            k == [j EXCEPT !.got = v, !.hit = hit, !.num = n, !.act = act]
        IN /\ written' = IF act = "none" THEN written ELSE n
           /\ mem' = CASE act = "set" -> IF m = 0 THEN Upsert(0, n) ELSE n
                       [] act = "delete" -> 0
                       [] OTHER -> m
           /\ SupersedeIf(supersedes \/ act = "set" \/ (act = "delete" /\ m # 0))
           /\ Step(p, StoreStep(k), k)

(* currentLocked: memory's entry m, or a queued op just applied, is newer  *)
(* than anything read from the Store.                                      *)
NewerThanStoreAtFirst(p, m, has) == pc[p] # "reread" /\ (m # 0 \/ has)
NewerThanStore(p, m, has) == m # 0 \/ has

(* The section of each call, with memory at m once the queued op is        *)
(* applied; has says whether there was one.                                *)
Section(p, has) ==
    LET m == IF ~has THEN mem ELSE IF pending.kind = "set" THEN Upsert(mem, pending.num) ELSE 0
        j == [job[p] EXCEPT !.took = @ \/ has,
                            !.take = IF has /\ pending.kind = "set" THEN pending.num ELSE @]
        d == [j EXCEPT !.num = written + 1]
    IN /\ pending' = NoOp
       /\ \/ /\ j.op \in {"touch", "clear", "close", "final"} /\ mem' = m
             /\ Step(p, StoreStep(j), j) /\ SupersedeIf(has) /\ UNCHANGED written
          \/ /\ j.op = "drop" /\ mem' = 0
             /\ Step(p, StoreStep(j), j) /\ Supersede /\ UNCHANGED written
          \/ /\ j.op = "delete" /\ mem' = m /\ written' = d.num
             /\ Step(p, StoreStep(d), d) /\ SupersedeIf(has)
          \/ /\ j.op \in {"compute", "deleteIf"} /\ NewerThanStore(p, m, has)
             /\ Decide(p, j, m, IF m # 0 THEN m ELSE pending.num, m # 0, has)
          \/ /\ j.op \in {"compute", "deleteIf"} /\ ~NewerThanStore(p, m, has) /\ pc[p] # "reread"
             /\ Step(p, "read", j) /\ UNCHANGED <<mem, superseded, written>>
          \/ /\ pc[p] = "reread" /\ ~NewerThanStore(p, m, has) /\ j.got = 0
             /\ Step(p, "unlock", j) /\ UNCHANGED <<mem, superseded, written>>
          \/ /\ pc[p] = "reread" /\ ~NewerThanStore(p, m, has) /\ j.got # 0
             /\ \E e \in {0} \cup (IF j.hit /\ ~closed THEN {Upsert(0, j.got)} ELSE {}) :
                  Decide(p, j, e, j.got, j.hit, FALSE)

(* A read that began before a Compute deletes a key memory has no entry    *)
(* of: removeLocked is what would have superseded it.                      *)
Unnoticed(p) == {q \in {reading} \ superseded' : /\ q # Nobody
                                                 /\ job'[p].act = "delete" /\ job[p].act = "none"}

Take(p) ==
    /\ pc[p] \in {"take", "reread"}
    /\ IF pending.kind = "delete"
         THEN Step(p, "takedel", [job[p] EXCEPT !.del = pending.num]) /\ UNCHANGED <<mem, pending, superseded, written>>
         ELSE Section(p, pending # NoOp)
    /\ unseen' = unseen \cup Unnoticed(p)
    /\ UNCHANGED <<async, reading, closed, sealed, store, keyLock, queue, failed, acked, crossed>>

(* storeDeleteUnlocked                                                     *)
TakeDel(p) ==
    /\ pc[p] = "takedel" /\ Step(p, "taken", job[p])
    /\ \E ok \in BOOLEAN : StoreWrite(job[p].del, FALSE, ok)
    /\ UNCHANGED <<async, cache, keyLock, queue, written, acked, unseen, crossed>>

(* The op queued now: a Set may have replaced the Delete meanwhile, and a  *)
(* Delete the Set.  That Delete needs no second Store call (op.stored):    *)
(* what the first one did to the Store counts for it.                      *)
Taken(p) ==
    /\ pc[p] = "taken" /\ Section(p, pending # NoOp)
    /\ LET stands(n) == pending.kind = "delete" /\ n = job[p].del
       IN /\ store' = IF stands(store.num) THEN [store EXCEPT !.num = pending.num] ELSE store
          /\ failed' = failed \cup {pending.num : n \in {m \in failed : stands(m)}}
    /\ unseen' = unseen \cup Unnoticed(p)
    /\ UNCHANGED <<async, reading, closed, sealed, keyLock, queue, acked, crossed>>

(* currentLocked reads the Store, without the shard's lock.                *)
ReadStore(p) ==
    /\ pc[p] = "read"
    /\ \E ok \in BOOLEAN :
         /\ ok \/ Faults # {}
         /\ Step(p, "reread", [job[p] EXCEPT !.got = IF ok THEN store.num ELSE 0, !.hit = ok /\ store.has])
    /\ UNCHANGED <<async, cache, store, keyLock, queue, history, unseen, crossed>>

-----------------------------------------------------------------------------
(* Readers: getCtx, missOrReadThrough, readThroughStore.                   *)

PeekDeletes(p) ==
    /\ pc[p] = "peek"
    /\ IF pending.kind # "delete" THEN Step(p, "look", job[p])
                                  ELSE Step(p, "return", [job[p] EXCEPT !.got = pending.num])
    /\ UNCHANGED <<async, cache, store, keyLock, queue, history, unseen, crossed>>

(* tryServeFromAsyncPending                                                *)
Peek(p) ==
    /\ pc[p] = "peek"
    /\ IF pending = NoOp THEN Step(p, "look", job[p])
                         ELSE Step(p, "return", [job[p] EXCEPT !.got = pending.num])
    /\ UNCHANGED <<async, cache, store, keyLock, queue, history, unseen, crossed>>

Look(p) ==
    /\ pc[p] = "look"
    /\ IF mem = 0 THEN Step(p, "through", job[p])
                  ELSE Step(p, "return", [job[p] EXCEPT !.got = mem])
    /\ UNCHANGED <<async, cache, store, keyLock, queue, history, unseen, crossed>>

(* Join the key's read, or lead a new one.                                 *)
Through(p) ==
    /\ pc[p] = "through"
    /\ IF reading # Nobody /\ reading \notin superseded
         THEN Step(p, "joined", [job[p] EXCEPT !.on = reading]) /\ UNCHANGED reading
         ELSE Step(p, "fetch", job[p]) /\ reading' = p
    /\ UNCHANGED <<async, mem, pending, superseded, closed, sealed, store, keyLock, queue, history,
                   unseen, crossed>>

(* A write of the key has been made in memory and has yet to reach the     *)
(* Store.                                                                  *)
HalfWritten == keyLock # Nobody /\ pc[keyLock] \in {"effect", "setstore", "delmirror"}

(* storeGet.  In the middle of a write, the watch is younger than the      *)
(* upsertLocked that supersedes the key's watches.                         *)
Fetch(p) ==
    /\ pc[p] = "fetch"
    /\ \E ok \in BOOLEAN :
         /\ ok \/ Faults # {}
         /\ Step(p, "endread", [job[p] EXCEPT !.got = IF ok THEN store.num ELSE 0,
                                              !.hit = ok /\ store.has])
    /\ unseen' = IF HalfWritten THEN unseen \cup {p} ELSE unseen
    /\ UNCHANGED <<async, cache, store, keyLock, queue, history, crossed>>

(* The rest of leadStoreRead: the value is promoted, unless the cache      *)
(* declines it, and the waiters share it; when the read failed for its     *)
(* leader's own reason (again), they read once more.                       *)
MayPromoteStale(p) == job[p].hit /\ mem = 0 /\ ~closed
MayPromote(p) == job[p].hit /\ p \notin superseded /\ mem = 0 /\ ~closed

EndRead(p) ==
    /\ pc[p] = "endread"
    /\ \E promoted \in BOOLEAN :
         /\ promoted => MayPromote(p)
         /\ mem' = IF promoted THEN Upsert(0, job[p].got) ELSE mem
         /\ crossed' = (crossed \/ (promoted /\ p \in unseen))
    /\ reading' = IF reading = p THEN Nobody ELSE reading
    /\ superseded' = superseded \ {p}
    /\ \E again \in BOOLEAN :
         LET waiters == {q \in Procs : pc[q] = "joined" /\ job[q].on = p}
         IN /\ again => job[p].got = 0
            /\ unseen' = IF p \in unseen /\ ~again THEN unseen \cup waiters ELSE unseen
            /\ pc' = [q \in Procs |-> IF q = p THEN "return"
                                      ELSE IF q \notin waiters THEN pc[q]
                                      ELSE IF again THEN "through" ELSE "return"]
            /\ job' = [q \in Procs |-> IF q \notin waiters THEN job[q]
                                       ELSE [job[q] EXCEPT !.got = job[p].got, !.on = Nobody]]
    /\ UNCHANGED <<async, pending, closed, sealed, store, keyLock, queue, calls, history>>

(* A waiter's own context ends.                                            *)
GiveUp(p) ==
    /\ pc[p] = "joined" /\ Step(p, "return", [job[p] EXCEPT !.on = Nobody])
    /\ UNCHANGED <<async, cache, store, keyLock, queue, history, unseen, crossed>>

-----------------------------------------------------------------------------
(* Memory only.                                                            *)

(* A capacity eviction or an expiry, by any other goroutine.               *)
Evict ==
    /\ mem # 0 /\ mem' = 0
    /\ UNCHANGED <<async, pending, reading, superseded, closed, sealed, store, keyLock, queue,
                   caller, history, unseen, crossed>>

(* drainAllShards, for a call that works across keys.                      *)
Drain(p) ==
    /\ pc[p] = "drain" /\ Step(p, IF pending = NoOp THEN "wipe" ELSE "lock", job[p])
    /\ UNCHANGED <<async, cache, store, keyLock, queue, history, unseen, crossed>>

(* The shard's part of Clear and Reset.                                    *)
Wipe(p) ==
    /\ pc[p] = "wipe" /\ mem' = 0 /\ Supersede /\ Step(p, "return", job[p])
    /\ UNCHANGED <<async, pending, reading, closed, sealed, store, keyLock, queue, history, unseen, crossed>>

(* Close: stopAsyncApply waits for the apply goroutine, then the cache is  *)
(* sealed and Reset runs.                                                  *)
Seal(p) ==
    /\ pc[p] = "close" /\ pc["apply"] = "exited"
    /\ sealed' = TRUE /\ Step(p, IF async THEN "drain" ELSE "wipe", job[p])
    /\ UNCHANGED <<async, mem, pending, reading, superseded, closed, store, keyLock, queue, history,
                   unseen, crossed>>

-----------------------------------------------------------------------------
(* The apply goroutine (runAsyncApply), hooks and Sync.                    *)

Wake(p) ==
    /\ p = "apply" /\ pc[p] = "idle"
    /\ \E o \in {"touch", "final"} :
         /\ IF o = "final" THEN \E q \in Callers : pc[q] = "close" ELSE signal
         /\ signal' = (o = "final" /\ signal)
         /\ Step(p, IF pending = NoOp THEN "return" ELSE "lock", Job(o))
    /\ UNCHANGED <<async, cache, store, keyLock, inflight, waiting, history, unseen, crossed>>

(* The hooks of an applied op return, and the op is complete.              *)
HooksReturn(p) ==
    /\ pc[p] \in {"hooks", "synced"} /\ inflight' = inflight - 1
    /\ LET j == [job[p] EXCEPT !.held = @ - 1] IN Step(p, AfterCall(j), j)
    /\ UNCHANGED <<async, cache, store, keyLock, signal, waiting, history, unseen, crossed>>

(* A hook calls Sync: waitFromHook.                                        *)
HookSync(p) ==
    /\ pc[p] = "hooks" /\ job[p].held <= Nested
    /\ waiting' = waiting \cup {p} /\ Step(p, "hooksync", job[p])
    /\ UNCHANGED <<async, cache, store, keyLock, inflight, signal, history, unseen, crossed>>

(* On the apply goroutine nothing else applies queued ops, so Sync does.   *)
SyncDrains(p) ==
    /\ p = "apply" /\ pc[p] = "hooksync" /\ pending # NoOp /\ Step(p, "lock", job[p])
    /\ UNCHANGED <<async, cache, store, keyLock, queue, history, unseen, crossed>>

HeldByNobody == 0
HeldByWaiters == FoldSet(LAMBDA p, n : n + job[p].held, 0, waiting)

(* Sync returns to the hook: everything else is applied.                   *)
HookSynced(p) ==
    /\ pc[p] = "hooksync" /\ (p = "apply" => pending = NoOp)
    /\ inflight = 0 \/ inflight <= HeldByWaiters
    /\ waiting' = waiting \ {p} /\ Step(p, "synced", job[p])
    /\ UNCHANGED <<async, cache, store, keyLock, inflight, signal, history, unseen, crossed>>

SyncedWhenTaken(p) ==
    /\ pc[p] = "sync" /\ pending = NoOp /\ Step(p, "return", job[p])
    /\ UNCHANGED <<async, cache, store, keyLock, queue, history, unseen, crossed>>

(* Sync, called by a caller.                                               *)
Synced(p) ==
    /\ pc[p] = "sync" /\ inflight = 0 /\ Step(p, "return", job[p])
    /\ UNCHANGED <<async, cache, store, keyLock, queue, history, unseen, crossed>>

(* Sync nudges the apply goroutine each time it finds a backlog.           *)
Nudge(p) ==
    /\ pc[p] \in {"sync", "hooksync"} /\ inflight > 0 /\ signal' = TRUE
    /\ UNCHANGED <<async, cache, store, keyLock, inflight, waiting, caller, history, unseen, crossed>>

-----------------------------------------------------------------------------
(* The steps of a call that has begun, but for GiveUp and Nudge.           *)
Work(p) ==
    \/ Return(p) \/ Enqueue(p) \/ LockKey(p) \/ Unlock(p)
    \/ SetMem(p) \/ SetStore(p) \/ Rollback(p) \/ Effect(p) \/ DelStore(p) \/ DelMem(p) \/ DelMirror(p)
    \/ Take(p) \/ TakeDel(p) \/ Taken(p) \/ ReadStore(p)
    \/ Peek(p) \/ Look(p) \/ Through(p) \/ Fetch(p) \/ EndRead(p)
    \/ Drain(p) \/ Wipe(p) \/ Seal(p)
    \/ Wake(p) \/ HooksReturn(p) \/ SyncDrains(p) \/ HookSynced(p) \/ Synced(p)

(* The cache at rest: every caller has made its calls, or the cache is     *)
(* closed, and nothing is under way.                                       *)
AtRest == /\ \A p \in Callers : pc[p] = "idle" /\ (closed \/ calls[p] = MaxCalls[p])
          /\ pc["apply"] = "exited" \/ (pc["apply"] = "idle" /\ ~signal)

Next ==
    \/ \E p \in Procs : Begin(p) \/ Work(p) \/ GiveUp(p) \/ HookSync(p) \/ Nudge(p)
    \/ Evict
    \/ AtRest /\ UNCHANGED vars

(* Goroutines run, Store calls and hooks return.                           *)
Spec == Init /\ [][Next]_vars /\ \A p \in Procs : WF_vars(Work(p))

-----------------------------------------------------------------------------
(* "Writes of one key are serialized across memory and the Store, so they  *)
(* reach both in the same order" (WithStore): whatever mixes of queued and *)
(* synchronous writes, conditional writes and deletes run together, the    *)
(* Store moves from write to later write, and every write that is taken    *)
(* reaches it, is replaced by a later one, or fails.                       *)
Ordered == INSTANCE WriteOrder WITH latest <- written, kept <- store.num, dropped <- failed
StoreKeepsOrder == Ordered!Spec

Writing(p) == pc[p] \notin {"idle", "exited", "return", "enqueue", "lock", "peek", "look", "through",
                            "joined", "fetch", "sync", "drain", "hooks", "hooksync", "synced"}

(* "The watch, not the key's lock, keeps the read ordered with writes"     *)
(* (leadStoreRead): when no write of the key is under way and none failed, *)
(* memory holds what the Store holds, or nothing.                          *)
MemoryIsCurrent ==
    (\A p \in Procs : ~Writing(p)) /\ pending = NoOp /\ failed = {} => mem \in {0, store.num}

(* The same, but for reads that overlap a write in the two ways their      *)
(* watch does not see: see Fetch and Unnoticed.                            *)
MemoryFollowsStore == ~crossed => MemoryIsCurrent

(* "a Set followed by a Get returns the new value" (config.asyncWrites):   *)
(* a read that began after a write was acknowledged does not return what   *)
(* was there before it.                                                    *)
ReadsCurrent ==
    \A p \in Procs : /\ pc[p] = "return" /\ job[p].op = "get" /\ job[p].got # 0
                     /\ ~crossed /\ p \notin unseen
                     => \E n \in failed \cup {job[p].got} : n >= job[p].floor

(* "Compute atomically applies fn": the value fn is given is that of the   *)
(* write just before the one it decides on, unless that one's Store call   *)
(* failed.  A cache with synchronous writes that Close has sealed is left  *)
(* out: a Set past its closed checks then leaves memory's entry as it is   *)
(* and writes the Store (see Upsert), and until Reset removes that entry a *)
(* Compute that waited for the key is given it.                            *)
SawLatest ==
    \A p \in Procs : /\ job[p].op \in {"compute", "deleteIf"} /\ job[p].num # 0
                     /\ ~crossed /\ (async \/ ~sealed)
                     => job[p].num - 1 \in failed \cup {job[p].got}

(* "Sync blocks until pending is empty" (WithAsyncWrites): what was        *)
(* acknowledged before Sync was called is in the Store when it returns,    *)
(* unless its Store call, or that of a write that replaced it, failed.     *)
(* "an op is either queued before Close's final drain of s or refused"     *)
(* (enqueuePending): once Close has sealed the cache, no op is queued.     *)
SyncSettles ==
    /\ \A p \in Procs : pc[p] = "return" /\ job[p].op = "sync"
                         => \E n \in failed \cup {store.num} : n >= job[p].floor
    /\ sealed => pending = NoOp

(* Every call returns, Close included, also when hooks call Sync.          *)
EveryCallReturns == \A p \in Callers : pc[p] # "idle" ~> pc[p] = "idle"

=============================================================================
