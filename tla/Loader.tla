------------------------------- MODULE Loader -------------------------------
(***************************************************************************)
(* The loads of one shard (loader.go and the loader half of cache.go):     *)
(* concurrent misses of a key share one flight, each caller waits only as  *)
(* long as its own context allows, a flight that everybody has left runs   *)
(* on as an orphan, and a load that a write, a delete or an invalidation   *)
(* of its key has overtaken (or superseded) stores nothing.                *)
(*                                                                         *)
(* A load is a flight (GetOrLoad, Refresh) or one key's part of a bulk     *)
(* load (GetMultiOrLoad).  Loads are numbered in the order they start.     *)
(* What a key holds is known by its source: by[k] is the load whose result *)
(* the entry is.  epoch[k] counts the writes, deletes and invalidations of *)
(* k, and seen[f] is epoch at the start of load f: they only serve to      *)
(* state the properties.                                                   *)
(*                                                                         *)
(* Every step that holds the shard's mutex is one action.  TTLs are not    *)
(* modelled: any entry, tombstone or cached error may be found expired.    *)
(***************************************************************************)
EXTENDS Integers, FiniteSets

CONSTANTS
    Keys,          \* the keys of the shard
    Callers,       \* goroutines that call into the cache
    MaxLoads,      \* bound: how many loads are started
    MaxCalls,      \* bound: how many calls each caller makes
    Slots,         \* WithMaxConcurrentLoads, 0 for no cap
    ErrorLimit,    \* the errors a shard keeps: max(budget, errorCacheMinPerShard)
    NegativeTTL,   \* TRUE when WithNegativeCache is configured
    ErrorTTL,      \* TRUE when WithErrorTTL is configured
    LoaderTimeout, \* TRUE when WithLoaderTimeout is configured
    BulkLoads,     \* TRUE when WithBulkLoader is configured
    Prefixes       \* the sets of keys that DeletePrefix is called for

ASSUME KeysFinite == IsFiniteSet(Keys) /\ Keys # {}
ASSUME BoundTypes == MaxLoads \in Nat /\ MaxCalls \in Nat /\ Slots \in Nat
ASSUME ErrorLimitType == ErrorLimit \in Nat \ {0}
ASSUME FlagTypes == /\ NegativeTTL \in BOOLEAN /\ ErrorTTL \in BOOLEAN
                    /\ LoaderTimeout \in BOOLEAN /\ BulkLoads \in BOOLEAN
ASSUME PrefixType == Prefixes \subseteq SUBSET Keys

Loads == 1..MaxLoads
NoLoad == 0

VARIABLES
    state,      \* what the shard holds under each key: "none", "value", "negative"
    by,         \* the load it comes from, NoLoad for a caller's write
    errors,     \* shard.errors: the keys with a cached error
    inflight,   \* shard.inflight
    orphans,    \* shard.orphans
    watches,    \* shard.watches: the bulk loads that share the key's token
    closed,     \* Cache.closed
    started,    \* how many loads have started
    bulk,       \* the loads that are part of a bulk load
    keyOf,      \* the key of each load
    phase,      \* how far each load has come
    refs,       \* flightCall.refs
    superseded, \* flightCall.superseded, or the watchToken's
    canceled,   \* flights whose last waiter has called cancel
    expired,    \* flights whose context has reached the loader's deadline
    seen,       \* epoch of the key when the load started
    epoch,      \* changes of each key so far
    pc,         \* the next step of each caller
    arg,        \* the key of its call
    on,         \* the load it waits for, or runs
    calls       \* how many calls it has made

entry == <<state, by, errors>>
registry == <<inflight, orphans, watches>>
flight == <<started, bulk, keyOf, phase, refs, superseded, canceled, expired, seen>>
caller == <<pc, arg, on, calls>>
vars == <<entry, registry, closed, flight, epoch, caller>>

Init ==
    /\ state = [k \in Keys |-> "none"] /\ by = [k \in Keys |-> NoLoad] /\ errors = {}
    /\ inflight = [k \in Keys |-> NoLoad] /\ orphans = [k \in Keys |-> NoLoad]
    /\ watches = [k \in Keys |-> {}]
    /\ closed = FALSE
    /\ started = 0 /\ bulk = {} /\ keyOf = [f \in Loads |-> CHOOSE k \in Keys : TRUE]
    /\ phase = [f \in Loads |-> "new"] /\ refs = [f \in Loads |-> 0]
    /\ superseded = [f \in Loads |-> FALSE] /\ canceled = {} /\ expired = {}
    /\ seen = [f \in Loads |-> 0]
    /\ epoch = [k \in Keys |-> 0]
    /\ pc = [t \in Callers |-> "idle"] /\ arg = [t \in Callers |-> CHOOSE k \in Keys : TRUE]
    /\ on = [t \in Callers |-> NoLoad]
    /\ calls = [t \in Callers |-> 0]

Goto(t, step) == pc' = [pc EXCEPT ![t] = step]

-----------------------------------------------------------------------------
(* supersedeFlight and supersedeAllFlights, for the keys of K: the flights *)
(* and watches of those keys are overtaken, but for the load that has just *)
(* ended; orphans and watches are forgotten, a flight in inflight stays    *)
(* there until it ends.                                                    *)
Registered(k) == ({inflight[k], orphans[k]} \cup watches[k]) \ {NoLoad}

(* Mutant of Supersede: only flights that somebody may still wait for.     *)
SupersedeWaitedFor(K, ended) ==
    /\ superseded' = [f \in Loads |-> superseded[f] \/ \E k \in K : f = inflight[k]]
    /\ UNCHANGED <<orphans, watches>>

Supersede(K, ended) ==
    /\ superseded' = [f \in Loads |-> superseded[f] \/ \E k \in K : f \in Registered(k) \ ended]
    /\ orphans' = [k \in Keys |-> IF k \in K THEN NoLoad ELSE orphans[k]]
    /\ watches' = [k \in Keys |-> IF k \in K THEN {} ELSE watches[k]]

(* Each of these is the caller's change of the keys in K: the ghost epoch. *)
Change(K) == epoch' = [k \in Keys |-> IF k \in K THEN epoch[k] + 1 ELSE epoch[k]]

Put(K, s, f) ==
    /\ state' = [k \in Keys |-> IF k \in K THEN s ELSE state[k]]
    /\ by' = [k \in Keys |-> IF k \in K THEN f ELSE by[k]]

-----------------------------------------------------------------------------
(* Callers.  Every operation but Reset looks at closed first, and takes    *)
(* the shard's lock later.                                                 *)

Ops == {"load", "refresh", "set", "delete", "clear"}
           \cup (IF Prefixes = {} THEN {} ELSE {"prefix"})
           \cup (IF BulkLoads THEN {"watch"} ELSE {})

Enter(t) ==
    /\ pc[t] = "idle" /\ ~closed
    /\ calls[t] < MaxCalls /\ calls' = [calls EXCEPT ![t] = @ + 1]
    /\ \E op \in Ops, k \in Keys : Goto(t, op) /\ arg' = [arg EXCEPT ![t] = k]
    /\ UNCHANGED <<entry, registry, closed, flight, epoch, on>>

(* Load f of key k comes into being.                                       *)
NewLoad(f, k, p) ==
    /\ f = started + 1 /\ started' = f
    /\ keyOf' = [keyOf EXCEPT ![f] = k]
    /\ phase' = [phase EXCEPT ![f] = p]
    /\ refs' = [refs EXCEPT ![f] = 1]
    /\ seen' = [seen EXCEPT ![f] = epoch[k]]
    /\ UNCHANGED <<canceled, expired>>

(* Mutant of StartFlight: an orphan of the key is left alone.              *)
StartFlightBesideOrphan(f, k) ==
    /\ NewLoad(f, k, IF Slots > 0 THEN "queued" ELSE "loading")
    /\ inflight' = [inflight EXCEPT ![k] = f]
    /\ UNCHANGED <<orphans, watches, superseded, bulk>>

(* newFlightCall and startFlight: an orphan of the key is superseded.      *)
StartFlight(f, k) ==
    /\ NewLoad(f, k, IF Slots > 0 THEN "queued" ELSE "loading")
    /\ inflight' = [inflight EXCEPT ![k] = f]
    /\ orphans' = [orphans EXCEPT ![k] = NoLoad]
    /\ superseded' = [g \in Loads |-> superseded[g] \/ (g = orphans[k] /\ g # NoLoad)]
    /\ UNCHANGED <<watches, bulk>>

(* loadOrJoin finds an entry it may serve, a tombstone or a cached error.  *)
Serve(t) ==
    /\ pc[t] = "load"
    /\ state[arg[t]] # "none" \/ arg[t] \in errors
    /\ Goto(t, "idle")
    /\ UNCHANGED <<entry, registry, closed, flight, epoch, arg, on, calls>>

(* An expired cached error is dropped on the way to a load.                *)
DropError(k) == errors' = errors \ {k} /\ UNCHANGED <<state, by>>

(* The rate limiter refuses to start a load.                               *)
RateLimited(t) ==
    /\ pc[t] = "load" /\ inflight[arg[t]] = NoLoad
    /\ DropError(arg[t])
    /\ Goto(t, "idle")
    /\ UNCHANGED <<registry, closed, flight, epoch, arg, on, calls>>

(* Mutant of Join: a waiter that holds no reference.                       *)
JoinUncounted(t) ==
    /\ pc[t] = "load" /\ inflight[arg[t]] # NoLoad
    /\ on' = [on EXCEPT ![t] = inflight[arg[t]]]
    /\ Goto(t, "wait")
    /\ DropError(arg[t])
    /\ UNCHANGED <<registry, closed, flight, epoch, arg, calls>>

Join(t) ==
    LET f == inflight[arg[t]]
    IN  /\ pc[t] = "load" /\ f # NoLoad
        /\ refs' = [refs EXCEPT ![f] = @ + 1]
        /\ on' = [on EXCEPT ![t] = f]
        /\ Goto(t, "wait")
        /\ DropError(arg[t])
        /\ UNCHANGED <<registry, closed, started, bulk, keyOf, phase, superseded, canceled, expired,
                       seen, epoch, arg, calls>>

Lead(t) ==
    /\ pc[t] = "load" /\ inflight[arg[t]] = NoLoad
    /\ \E f \in Loads : StartFlight(f, arg[t]) /\ on' = [on EXCEPT ![t] = f]
    /\ Goto(t, "wait")
    /\ DropError(arg[t])
    /\ UNCHANGED <<closed, epoch, arg, calls>>

(* startRefreshLocked, from Refresh or from a hit that is due for one: the *)
(* flight has a reference that nobody gives up.                            *)
Refresh(t) ==
    /\ pc[t] \in {"refresh", "load"} /\ (pc[t] = "load" => state[arg[t]] = "value")
    /\ inflight[arg[t]] = NoLoad
    /\ \E f \in Loads : StartFlight(f, arg[t])
    /\ Goto(t, "idle")
    /\ UNCHANGED <<entry, closed, epoch, arg, on, calls>>

RefreshBusy(t) ==
    /\ pc[t] = "refresh" /\ inflight[arg[t]] # NoLoad
    /\ Goto(t, "idle")
    /\ UNCHANGED <<entry, registry, closed, flight, epoch, arg, on, calls>>

(* waitOrLeave: the flight has ended, or the caller's context has.         *)
Return(t) ==
    /\ pc[t] = "wait" /\ phase[on[t]] = "done"
    /\ Goto(t, "idle") /\ on' = [on EXCEPT ![t] = NoLoad]
    /\ UNCHANGED <<entry, registry, closed, flight, epoch, arg, calls>>

(* orphanFlight, and the cancel of a flight that its last waiter leaves.   *)
GiveUp(t) ==
    LET f == on[t]
        k == keyOf[f]
        orphaned == refs[f] = 1 /\ inflight[k] = f
    IN  /\ pc[t] = "wait"
        /\ refs' = [refs EXCEPT ![f] = @ - 1]
        /\ canceled' = IF refs[f] = 1 THEN canceled \cup {f} ELSE canceled
        /\ IF orphaned
           THEN /\ inflight' = [inflight EXCEPT ![k] = NoLoad]
                /\ orphans' = [orphans EXCEPT ![k] = f]
                /\ superseded' = [g \in Loads |-> superseded[g] \/ (g = orphans[k] /\ g # NoLoad)]
           ELSE UNCHANGED <<inflight, orphans, superseded>>
        /\ Goto(t, "idle") /\ on' = [on EXCEPT ![t] = NoLoad]
        /\ UNCHANGED <<entry, watches, closed, started, bulk, keyOf, phase, expired, seen,
                       epoch, arg, calls>>

(* GetMultiOrLoad, for one key: watchKey before the lookup; a hit ends it. *)
WatchKey(t) ==
    LET k == arg[t]
    IN  /\ pc[t] = "watch"
        /\ \E f \in Loads : /\ NewLoad(f, k, "loading")
                            /\ bulk' = bulk \cup {f}
                            /\ watches' = [watches EXCEPT ![k] = @ \cup {f}]
                            /\ on' = [on EXCEPT ![t] = f]
        /\ Goto(t, "bulk")
        /\ UNCHANGED <<entry, inflight, orphans, closed, superseded, epoch, arg, calls>>

BulkHit(t) ==
    /\ pc[t] = "bulk" /\ phase[on[t]] = "loading" /\ state[arg[t]] = "value"
    /\ phase' = [phase EXCEPT ![on[t]] = "done"]
    /\ watches' = [watches EXCEPT ![arg[t]] = @ \ {on[t]}]
    /\ Goto(t, "idle") /\ on' = [on EXCEPT ![t] = NoLoad]
    /\ UNCHANGED <<entry, inflight, orphans, closed, started, bulk, keyOf, refs, superseded, canceled,
                   expired, seen, epoch, arg, calls>>

BulkReturn(t) ==
    /\ pc[t] = "bulk" /\ phase[on[t]] = "done"
    /\ Goto(t, "idle") /\ on' = [on EXCEPT ![t] = NoLoad]
    /\ UNCHANGED <<entry, registry, closed, flight, epoch, arg, calls>>

-----------------------------------------------------------------------------
(* Writers, each holding the shard's lock.                                 *)

(* upsertLocked of a caller's value.  Admission may turn a new key away,   *)
(* and a cache that Close has sealed every key.                            *)
Set(t) ==
    /\ pc[t] = "set"
    /\ Supersede({arg[t]}, {})
    /\ \/ Put({arg[t]}, "value", NoLoad) /\ Change({arg[t]})
       \/ (state[arg[t]] = "none" \/ closed) /\ UNCHANGED <<state, by, epoch>>
    /\ Goto(t, "idle")
    /\ UNCHANGED <<errors, inflight, closed, started, bulk, keyOf, phase, refs, canceled, expired,
                   seen, arg, on, calls>>

(* removeKeyLocked.                                                        *)
Delete(t) ==
    /\ pc[t] = "delete"
    /\ Change({arg[t]}) /\ Supersede({arg[t]}, {})
    /\ Put({arg[t]}, "none", NoLoad)
    /\ Goto(t, "idle")
    /\ UNCHANGED <<errors, inflight, closed, started, bulk, keyOf, phase, refs, canceled, expired,
                   seen, arg, on, calls>>

(* deletePrefixShard: the flights of every matching key are overtaken; the *)
(* removal of a matching entry supersedes its key.                         *)
DeletePrefix(t) ==
    /\ pc[t] = "prefix"
    /\ \E K \in Prefixes :
         LET held == {k \in K : state[k] # "none"}
             flights == {inflight[k] : k \in K} \cup {orphans[k] : k \in K}
             watched == UNION {watches[k] : k \in held}
         IN  /\ Change(K)
             /\ superseded' = [f \in Loads |-> superseded[f] \/ f \in flights \cup watched]
             /\ orphans' = [k \in Keys |-> IF k \in held THEN NoLoad ELSE orphans[k]]
             /\ watches' = [k \in Keys |-> IF k \in held THEN {} ELSE watches[k]]
             /\ Put(held, "none", NoLoad)
    /\ Goto(t, "idle")
    /\ UNCHANGED <<errors, inflight, closed, started, bulk, keyOf, phase, refs, canceled, expired,
                   seen, arg, on, calls>>

(* Clear and Reset.                                                        *)
Clear(t) ==
    /\ pc[t] = "clear"
    /\ Change(Keys) /\ Supersede(Keys, {})
    /\ Put(Keys, "none", NoLoad)
    /\ Goto(t, "idle")
    /\ UNCHANGED <<errors, inflight, closed, started, bulk, keyOf, phase, refs, canceled, expired,
                   seen, arg, on, calls>>

(* removeLocked for a reason that leaves loads alone: capacity, expiry,    *)
(* resize.                                                                 *)
Evict(k) ==
    /\ state[k] # "none"
    /\ Put({k}, "none", NoLoad)
    /\ UNCHANGED <<errors, registry, closed, flight, epoch, caller>>

(* Close; its Reset follows.                                               *)
Close(t) ==
    /\ pc[t] = "idle" /\ ~closed
    /\ calls[t] < MaxCalls /\ calls' = [calls EXCEPT ![t] = @ + 1]
    /\ closed' = TRUE
    /\ Goto(t, "clear")
    /\ UNCHANGED <<entry, registry, flight, epoch, arg, on>>

-----------------------------------------------------------------------------
(* The goroutine of a flight (runLoader), and the LoadMulti call of a bulk *)
(* load, which has no slot to wait for.                                    *)

(* Mutant of Holding: a flight never gives its slot back.                  *)
HoldingUnreleased == {f \in Loads \ bulk : phase[f] \in {"loading", "left", "done"}}

Holding == {f \in Loads \ bulk : phase[f] \in {"loading", "left"}}

AcquireSlot(f) ==
    /\ phase[f] = "queued" /\ Cardinality(Holding) < Slots
    /\ phase' = [phase EXCEPT ![f] = "loading"]
    /\ UNCHANGED <<entry, registry, closed, started, bulk, keyOf, refs, superseded, canceled, expired,
                   seen, epoch, caller>>

(* Mutant of Leave: takes whatever flight the key has with it.             *)
LeaveBlind(f) ==
    LET k == keyOf[f]
    IN  /\ inflight' = [inflight EXCEPT ![k] = NoLoad]
        /\ orphans' = [orphans EXCEPT ![k] = NoLoad]
        /\ watches' = [watches EXCEPT ![k] = @ \ {f}]

(* leaveInflight; unwatchKey for a bulk load.                              *)
Leave(f) ==
    LET k == keyOf[f]
    IN  /\ inflight' = [inflight EXCEPT ![k] = IF @ = f THEN NoLoad ELSE @]
        /\ orphans' = [orphans EXCEPT ![k] = IF @ = f THEN NoLoad ELSE @]
        /\ watches' = [watches EXCEPT ![k] = @ \ {f}]

(* The loader's context ends while it waits for a slot.                    *)
TooManyInFlight(f) ==
    /\ phase[f] = "queued" /\ f \in canceled \cup expired
    /\ Leave(f)
    /\ phase' = [phase EXCEPT ![f] = "refused"]
    /\ UNCHANGED <<entry, closed, started, bulk, keyOf, refs, superseded, canceled, expired,
                   seen, epoch, caller>>

(* WithLoaderTimeout.                                                      *)
Expire(f) ==
    /\ LoaderTimeout /\ f \notin bulk \cup expired /\ phase[f] \in {"queued", "loading"}
    /\ expired' = expired \cup {f}
    /\ UNCHANGED <<entry, registry, closed, started, bulk, keyOf, phase, refs, superseded, canceled,
                   seen, epoch, caller>>

(* callLoader has returned and prepareLoaded is done: leaveInflight and    *)
(* applyLoadResultLocked.  A load that was overtaken, or that finds the    *)
(* cache closed, keeps nothing.                                            *)
Ends(f) == phase[f] = "loading" /\ phase' = [phase EXCEPT ![f] = "left"]
Keeps(f) == ~superseded[f] /\ ~closed

(* A value: storeLoadedLocked.  Admission may turn a new key away.         *)
StoreLoaded(f) ==
    /\ Ends(f) /\ Keeps(f)
    /\ inflight' = [inflight EXCEPT ![keyOf[f]] = IF @ = f THEN NoLoad ELSE @]
    /\ Supersede({keyOf[f]}, {f})
    /\ Put({keyOf[f]}, "value", f) \/ (state[keyOf[f]] = "none" /\ UNCHANGED <<state, by>>)
    /\ UNCHANGED <<errors, closed, started, bulk, keyOf, refs, canceled, expired, seen, epoch, caller>>

(* ErrNotFound: insertNegativeTombstoneLocked.                             *)
StoreNotFound(f) ==
    /\ Ends(f) /\ Keeps(f) /\ NegativeTTL /\ f \notin bulk
    /\ Leave(f)
    /\ Put({keyOf[f]}, "negative", f)
    /\ UNCHANGED <<errors, closed, started, bulk, keyOf, refs, superseded, canceled, expired, seen,
                   epoch, caller>>

(* Mutant of StoreError: the map of errors is not bounded.                 *)
StoreErrorNoRoom(f) ==
    /\ Ends(f) /\ Keeps(f) /\ ErrorTTL /\ f \notin bulk
    /\ Leave(f)
    /\ errors' = errors \cup {keyOf[f]}
    /\ UNCHANGED <<state, by, closed, started, bulk, keyOf, refs, superseded, canceled, expired, seen,
                   epoch, caller>>

(* Another error: cacheErrorLocked, which makes room for it.               *)
StoreError(f) ==
    /\ Ends(f) /\ Keeps(f) /\ ErrorTTL /\ f \notin bulk
    /\ Leave(f)
    /\ \E E \in SUBSET errors :
         /\ E # errors => keyOf[f] \notin errors /\ Cardinality(errors) >= ErrorLimit
         /\ keyOf[f] \notin errors => Cardinality(E) < ErrorLimit
         /\ errors' = E \cup {keyOf[f]}
    /\ UNCHANGED <<state, by, closed, started, bulk, keyOf, refs, superseded, canceled, expired, seen,
                   epoch, caller>>

(* Overtaken or closed; or a value too large to cache, the error of a      *)
(* context that ended, or an error that is not cached.                     *)
StoreNothing(f) ==
    /\ Ends(f)
    /\ Leave(f)
    /\ UNCHANGED <<entry, closed, started, bulk, keyOf, refs, superseded, canceled, expired, seen,
                   epoch, caller>>

(* The deferred calls of runLoader: release the slot, close done.          *)
Finish(f) ==
    /\ phase[f] \in {"left", "refused"}
    /\ phase' = [phase EXCEPT ![f] = "done"]
    /\ UNCHANGED <<entry, registry, closed, started, bulk, keyOf, refs, superseded, canceled, expired,
                   seen, epoch, caller>>

-----------------------------------------------------------------------------

Call(t) == \/ Enter(t) \/ Close(t)
           \/ Serve(t) \/ RateLimited(t) \/ Join(t) \/ Lead(t) \/ Refresh(t) \/ RefreshBusy(t)
           \/ Return(t) \/ GiveUp(t) \/ WatchKey(t) \/ BulkHit(t) \/ BulkReturn(t)
           \/ Set(t) \/ Delete(t) \/ DeletePrefix(t) \/ Clear(t)

Run(f) == \/ StoreLoaded(f) \/ StoreNotFound(f) \/ StoreError(f) \/ StoreNothing(f)
          \/ Finish(f)

(* Every caller has made its calls and every load has ended.               *)
Finished ==
    /\ \A t \in Callers : pc[t] = "idle" /\ (closed \/ calls[t] = MaxCalls)
    /\ \A f \in Loads : phase[f] \in {"new", "done"}
    /\ UNCHANGED vars

Next == \/ \E t \in Callers : Call(t)
        \/ \E f \in Loads : Run(f) \/ AcquireSlot(f) \/ TooManyInFlight(f) \/ Expire(f)
        \/ \E k \in Keys : Evict(k)
        \/ Finished

Spec == Init /\ [][Next]_vars

(* The loader function returns in the end, goroutines that can run do, and *)
(* a slot that stays free goes to a flight that waits for it.              *)
FairSpec ==
    /\ Spec
    /\ \A t \in Callers : WF_vars(Return(t) \/ BulkReturn(t))
    /\ \A f \in Loads : WF_vars(Run(f)) /\ WF_vars(AcquireSlot(f))

-----------------------------------------------------------------------------
(* Properties.                                                             *)

Phases == {"new", "queued", "loading", "left", "refused", "done"}

(* The types of the shard's maps, of the loads and of the callers.         *)
TypeOK ==
    /\ state \in [Keys -> {"none", "value", "negative"}] /\ by \in [Keys -> Loads \cup {NoLoad}]
    /\ errors \subseteq Keys /\ closed \in BOOLEAN
    /\ inflight \in [Keys -> Loads \cup {NoLoad}] /\ orphans \in [Keys -> Loads \cup {NoLoad}]
    /\ watches \in [Keys -> SUBSET Loads]
    /\ started \in 0..MaxLoads /\ bulk \subseteq 1..started
    /\ keyOf \in [Loads -> Keys] /\ phase \in [Loads -> Phases]
    /\ \A f \in Loads : phase[f] = "new" <=> f > started
    /\ refs \in [Loads -> Int] /\ superseded \in [Loads -> BOOLEAN]
    /\ canceled \subseteq Loads /\ expired \subseteq Loads
    /\ seen \in [Loads -> Nat] /\ epoch \in [Keys -> Nat]
    /\ pc \in [Callers -> Ops \cup {"idle", "wait", "bulk"}] /\ arg \in [Callers -> Keys]
    /\ on \in [Callers -> Loads \cup {NoLoad}] /\ calls \in [Callers -> 0..MaxCalls]
    /\ \A t \in Callers : on[t] # NoLoad <=> pc[t] \in {"wait", "bulk"}

(* "A load that finishes after such a change returns its value to its      *)
(* callers but leaves the cache alone": what a load has stored, a value or *)
(* a tombstone, is never older than the last write, delete or invalidation *)
(* of its key, even when the load's callers gave up and it went on as an   *)
(* orphan.                                                                 *)
NoStaleLoad == \A k \in Keys : by[k] # NoLoad => seen[by[k]] = epoch[k]

(* "when a newer load for the key starts after every waiter of this one    *)
(* gave up" (flightCall.superseded): a value a load stored is never        *)
(* replaced by the value of a load that started earlier, such as one its   *)
(* callers abandoned before; nor, between flights, by anything the earlier *)
(* one brings, a tombstone included.                                       *)
LoadsInOrder ==
    [][\A k \in Keys :
        /\ by[k] # NoLoad /\ by'[k] # NoLoad
        /\ \/ state[k] = "value" /\ state'[k] = "value"
           \/ {by[k], by'[k]} \cap bulk = {}
        => by'[k] >= by[k]]_vars

Running(f) == phase[f] \in {"queued", "loading"}
Waiting(f) == {t \in Callers : pc[t] = "wait" /\ on[t] = f}

(* "Concurrent callers for the same missing key share a single Loader      *)
(* invocation": callers that wait for loads of one key that still run wait *)
(* for the same load.                                                      *)
SingleFlight ==
    \A f, g \in Loads : /\ Running(f) /\ Running(g) /\ keyOf[f] = keyOf[g]
                        /\ Waiting(f) # {} /\ Waiting(g) # {}
                        => f = g

(* "The load is canceled only once every waiting caller has given up", and *)
(* nobody joins a load that has been canceled.                             *)
CanceledOnlyAbandoned == \A f \in canceled : Running(f) => Waiting(f) = {}

(* "A shard keeps at most max(budget, errorCacheMinPerShard) errors".      *)
ErrorsBounded == Cardinality(errors) <= ErrorLimit

(* Every caller of a load returns, if loaders do, and also when a cap on   *)
(* concurrent loads makes its flight wait for a slot.                      *)
EveryWaiterReturns ==
    \A t \in Callers : pc[t] \in {"wait", "bulk"} ~> pc[t] \notin {"wait", "bulk"}

=============================================================================
