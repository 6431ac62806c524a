-------------------------- MODULE LoaderOrderProofs -------------------------
(***************************************************************************)
(* A proof that the loads of Loader store their results in the order they  *)
(* start, for every set of keys and callers and every bound.               *)
(***************************************************************************)
EXTENDS LoaderProofs

USE DEF entry, registry, flight, caller, Goto, Loads, NoLoad

(* What a load stores cannot be overtaken by an earlier one: at most one   *)
(* load of a key that is not part of a bulk load may still store.          *)
OneFlight ==
    \A k \in Keys : /\ inflight[k] = NoLoad \/ orphans[k] = NoLoad
                    /\ {inflight[k], orphans[k]} \cap bulk = {}
                    /\ watches[k] \subseteq bulk

(* A load that may still store its result is registered for its key.       *)
Tracked == \A f \in Loads : Running(f) /\ ~superseded[f] => f \in Registered(keyOf[f])

(* The loads that may still store are later than what they would replace.  *)
InOrder ==
    \A f \in Loads : LET k == keyOf[f]
                     IN  /\ Running(f) /\ ~superseded[f] /\ by[k] # NoLoad
                         /\ state[k] = "value" \/ {f, by[k]} \cap bulk = {}
                         => by[k] < f

OrderInv == OneFlight /\ Tracked /\ OwnKey /\ Sourced /\ InOrder

-----------------------------------------------------------------------------
(* OrderInv is inductive.                                                  *)

(* The parts of OrderInv about where loads are registered.                 *)
RegInv == OneFlight /\ Tracked /\ OwnKey

(* Registrations go, and a load whose registration goes has ended or is    *)
(* superseded.                                                             *)
LEMMA UnregisterStep ==
    ASSUME TypeOK, RegInv, UNCHANGED <<started, keyOf, bulk>>,
           \A k \in Keys : /\ inflight'[k] \in {inflight[k], NoLoad} /\ orphans'[k] \in {orphans[k], NoLoad}
                           /\ watches'[k] \subseteq watches[k],
           \A g \in Loads : (Running(g)' => Running(g)) /\ (superseded[g] => superseded'[g]),
           \A k \in Keys : \A g \in Registered(k) : g \in Registered(k)' \/ superseded'[g] \/ ~Running(g)'
    PROVE  RegInv'
<1>1. OneFlight'
  <2>. SUFFICES ASSUME NEW k \in Keys
                PROVE  /\ inflight'[k] = NoLoad \/ orphans'[k] = NoLoad
                       /\ {inflight'[k], orphans'[k]} \cap bulk = {}
                       /\ watches'[k] \subseteq bulk
    BY DEF OneFlight
  <2>1. NoLoad \notin bulk
    BY DEF TypeOK
  <2>. QED  BY <2>1 DEF RegInv, OneFlight
<1>2. Tracked'
  <2>. SUFFICES ASSUME NEW g \in Loads, Running(g)', ~superseded'[g]
                PROVE  g \in Registered(keyOf[g])'
    BY DEF Tracked
  <2>1. Running(g) /\ ~superseded[g] /\ keyOf[g] \in Keys
    BY DEF TypeOK
  <2>2. g \in Registered(keyOf[g])
    BY <2>1 DEF RegInv, Tracked
  <2>3. PICK k \in Keys : k = keyOf[g]
    BY <2>1
  <2>4. g \in Registered(k)'
    BY <2>2, <2>3
  <2>. QED  BY <2>3, <2>4
<1>3. OwnKey'
  <2>1. \A k \in Keys : Registered(k)' \subseteq Registered(k)
    BY DEF Registered
  <2>. QED  BY <2>1 DEF RegInv, OwnKey
<1>. QED  BY <1>1, <1>2, <1>3 DEF RegInv

(* A load starts and is registered.                                        *)
LEMMA RegisterStep ==
    ASSUME TypeOK, RegInv, NEW f \in Loads, NEW k \in Keys, NEW p \in {"queued", "loading"},
           NewLoad(f, k, p), OneFlight', f \in Registered(k)',
           \A j \in Keys : Registered(j)' \subseteq Registered(j) \cup (IF j = k THEN {f} ELSE {}),
           \A j \in Keys : \A g \in Registered(j) : g \in Registered(j)' \/ superseded'[g],
           \A g \in Loads : superseded[g] => superseded'[g]
    PROVE  RegInv'
<1>1. f = started' /\ started < f /\ started \in Nat
  BY NewLoadType DEF TypeOK
<1>2. /\ \A g \in Loads \ {f} : keyOf'[g] = keyOf[g] /\ phase'[g] = phase[g]
      /\ keyOf'[f] = k
  BY DEF NewLoad, TypeOK
<1>3. Tracked'
  <2>. SUFFICES ASSUME NEW g \in Loads, Running(g)', ~superseded'[g]
                PROVE  g \in Registered(keyOf[g])'
    BY DEF Tracked
  <2>1. CASE g = f
    BY <1>2, <2>1
  <2>2. CASE g # f
    <3>1. Running(g) /\ ~superseded[g] /\ keyOf[g] \in Keys
      BY <1>2, <2>2, Zenon DEF Running, TypeOK
    <3>2. PICK j \in Keys : j = keyOf[g]
      BY <3>1
    <3>3. g \in Registered(j)'
      BY <3>1, <3>2 DEF RegInv, Tracked
    <3>. QED  BY <1>2, <2>2, <3>2, <3>3
  <2>. QED  BY <2>1, <2>2
<1>4. OwnKey'
  <2>. SUFFICES ASSUME NEW j \in Keys, NEW g \in Registered(j)'
                PROVE  keyOf'[g] = j /\ g <= started'
    BY DEF OwnKey
  <2>1. CASE g = f /\ j = k
    BY <1>1, <1>2, <2>1
  <2>2. CASE g \in Registered(j)
    <3>1. g \in Loads /\ keyOf[g] = j /\ g <= started
      <4>1. Registered(j) \subseteq Loads
        BY DEF Registered, TypeOK
      <4>. QED  BY <2>2, <4>1 DEF RegInv, OwnKey
    <3>. QED  BY <1>1, <1>2, <3>1
  <2>. QED  BY <2>1, <2>2
<1>. QED  BY <1>3, <1>4 DEF RegInv

(* Every step keeps RegInv.                                                *)
LEMMA RegInvStep ==
    ASSUME TypeOK, RegInv, [Next]_vars
    PROVE  RegInv'
<1>0. NoLoad \notin bulk /\ NoLoad \notin Loads /\ started \in Nat /\ \A k \in Keys : Registered(k) \subseteq Loads
  BY BoundTypes DEF TypeOK, Registered
<1>1. ASSUME NEW t \in Callers, Call(t) PROVE RegInv'
  <2>0. arg[t] \in Keys
    BY DEF TypeOK
  <2>1. CASE Enter(t) \/ Close(t) \/ Serve(t) \/ RateLimited(t) \/ Join(t) \/ RefreshBusy(t)
             \/ Return(t) \/ BulkReturn(t)
    <3>1. UNCHANGED <<started, keyOf, bulk, inflight, orphans, watches, superseded, phase>>
      BY <2>1, Zenon DEF Enter, Close, Serve, RateLimited, Join, RefreshBusy, Return, BulkReturn
    <3>. QED  BY <3>1 DEF RegInv, OneFlight, Tracked, OwnKey, Registered, Running
  <2>2. CASE Lead(t) \/ Refresh(t)
    <3>1. PICK f \in Loads, k \in Keys :
             k = arg[t] /\ inflight[k] = NoLoad /\ StartFlight(f, k)
      BY <2>0, <2>2, Zenon DEF Lead, Refresh
    <3>2. PICK p \in {"queued", "loading"} : NewLoad(f, k, p)
      BY <3>1 DEF StartFlight
    <3>3. f > started
      BY <3>2, NewLoadType
    <3>4. /\ inflight' = [inflight EXCEPT ![k] = f] /\ orphans' = [orphans EXCEPT ![k] = NoLoad]
          /\ superseded' = [g \in Loads |-> superseded[g] \/ (g = orphans[k] /\ g # NoLoad)]
          /\ UNCHANGED <<watches, bulk>>
      BY <3>1 DEF StartFlight
    <3>5. OneFlight'
      <4>1. f \notin bulk
        BY <1>0, <3>3 DEF TypeOK
      <4>. QED  BY <1>0, <3>4, <4>1 DEF RegInv, OneFlight, TypeOK
    <3>6. f \in Registered(k)'
      BY <1>0, <3>4 DEF Registered, TypeOK
    <3>7. \A j \in Keys : Registered(j)' \subseteq Registered(j) \cup (IF j = k THEN {f} ELSE {})
      BY <3>4 DEF Registered, TypeOK
    <3>8. \A j \in Keys : \A g \in Registered(j) : g \in Registered(j)' \/ superseded'[g]
      <4>. SUFFICES ASSUME NEW j \in Keys, NEW g \in Registered(j)
                    PROVE  g \in Registered(j)' \/ superseded'[g]
        OBVIOUS
      <4>1. CASE j = k /\ g = orphans[k]
        BY <1>0, <3>4, <4>1, Zenon
      <4>2. CASE j # k \/ g # orphans[k]
        BY <3>1, <3>4, <4>2 DEF Registered, TypeOK
      <4>. QED  BY <4>1, <4>2
    <3>9. \A g \in Loads : superseded[g] => superseded'[g]
      BY <3>4, Zenon
    <3>. QED  BY <3>2, <3>5, <3>6, <3>7, <3>8, <3>9, RegisterStep
  <2>3. CASE WatchKey(t)
    <3>1. PICK f \in Loads, k \in Keys :
             /\ k = arg[t] /\ NewLoad(f, k, "loading") /\ bulk' = bulk \cup {f}
             /\ watches' = [watches EXCEPT ![k] = @ \cup {f}]
             /\ UNCHANGED <<inflight, orphans, superseded>>
      BY <2>0, <2>3, Zenon DEF WatchKey
    <3>2. \A j \in Keys : Registered(j)' = Registered(j) \cup (IF j = k THEN {f} ELSE {})
      BY <1>0, <3>1 DEF Registered, TypeOK
    <3>3. \A j \in Keys : f \notin {inflight[j], orphans[j]}
      <4>1. f > started
        BY <3>1, NewLoadType
      <4>2. \A j \in Keys : \A g \in {inflight[j], orphans[j]} : g = NoLoad \/ g <= started
        BY DEF RegInv, OwnKey, Registered
      <4>. QED  BY <1>0, <4>1, <4>2
    <3>4. OneFlight'
      BY <3>1, <3>3 DEF RegInv, OneFlight, TypeOK
    <3>. QED  BY <3>1, <3>2, <3>4, RegisterStep
  <2>4. CASE GiveUp(t)
    <3>1. PICK f \in Loads, k \in Keys : f = on[t] /\ k = keyOf[f]
      BY <2>4 DEF GiveUp, TypeOK
    <3>2. UNCHANGED <<started, keyOf, bulk, watches, phase>>
      BY <2>4 DEF GiveUp
    <3>3. CASE UNCHANGED <<inflight, orphans, superseded>>
      BY <3>2, <3>3 DEF RegInv, OneFlight, Tracked, OwnKey, Registered, Running
    <3>4. CASE ~UNCHANGED <<inflight, orphans, superseded>>
      <4>1. /\ inflight[k] = f
            /\ inflight' = [inflight EXCEPT ![k] = NoLoad] /\ orphans' = [orphans EXCEPT ![k] = f]
            /\ superseded' = [g \in Loads |-> superseded[g] \/ (g = orphans[k] /\ g # NoLoad)]
        BY <2>4, <3>1, <3>4, Zenon DEF GiveUp
      <4>2. OneFlight'
        BY <1>0, <3>2, <4>1 DEF RegInv, OneFlight, TypeOK
      <4>3. \A j \in Keys : Registered(j)' = Registered(j)
        BY <1>0, <3>2, <4>1 DEF RegInv, OneFlight, Registered, TypeOK
      <4>4. \A g \in Loads : superseded[g] => superseded'[g]
        BY <4>1, Zenon
      <4>5. Tracked' /\ OwnKey'
        <5>1. \A g \in Loads : Running(g)' <=> Running(g)
          BY <3>2 DEF Running
        <5>2. Tracked'
          <6>. SUFFICES ASSUME NEW g \in Loads, Running(g)', ~superseded'[g]
                        PROVE  g \in Registered(keyOf[g])'
            BY DEF Tracked
          <6>1. PICK j \in Keys : j = keyOf[g]
            BY DEF TypeOK
          <6>2. g \in Registered(j)
            BY <4>4, <5>1, <6>1 DEF RegInv, Tracked
          <6>. QED  BY <3>2, <4>3, <6>1, <6>2
        <5>3. OwnKey'
          BY <3>2, <4>3 DEF RegInv, OwnKey
        <5>. QED  BY <5>2, <5>3
      <4>. QED  BY <4>2, <4>5 DEF RegInv
    <3>. QED  BY <3>3, <3>4
  <2>5. CASE BulkHit(t)
    <3>1. PICK f \in Loads : f = on[t]
      BY <2>5 DEF BulkHit, TypeOK
    <3>2. /\ UNCHANGED <<started, keyOf, bulk, inflight, orphans, superseded>>
          /\ phase' = [phase EXCEPT ![f] = "done"]
          /\ watches' = [watches EXCEPT ![arg[t]] = @ \ {f}]
      BY <2>5, <3>1 DEF BulkHit
    <3>3. ~Running(f)' /\ \A g \in Loads : Running(g)' => Running(g)
      BY <3>2 DEF Running, TypeOK
    <3>4. \A k \in Keys : watches'[k] \subseteq watches[k] /\ watches[k] \ {f} \subseteq watches'[k]
      BY <3>2 DEF TypeOK
    <3>5. \A k \in Keys : \A g \in Registered(k) : g \in Registered(k)' \/ superseded'[g] \/ ~Running(g)'
      BY <3>2, <3>3, <3>4 DEF Registered
    <3>. QED  BY <3>2, <3>3, <3>4, <3>5, UnregisterStep
  <2>6. CASE Set(t) \/ Delete(t) \/ Clear(t)
    <3>1. /\ UNCHANGED <<started, keyOf, bulk, inflight, phase>>
          /\ \E K \in SUBSET Keys : Supersede(K, {})
      BY <2>0, <2>6 DEF Set, Delete, Clear
    <3>2. PICK K \in SUBSET Keys : Supersede(K, {})
      BY <3>1
    <3>3. \A k \in Keys : orphans'[k] \in {orphans[k], NoLoad} /\ watches'[k] \subseteq watches[k]
      BY <3>2 DEF Supersede
    <3>4. /\ \A k \in Keys \ K : Registered(k)' = Registered(k)
          /\ \A k \in K : \A g \in Registered(k) \ {} : superseded'[g]
          /\ \A g \in Loads : superseded[g] => superseded'[g]
      BY <3>1, <3>2, SupersedeStep
    <3>5. \A g \in Loads : Running(g)' <=> Running(g)
      BY <3>1 DEF Running
    <3>. QED  BY <3>1, <3>3, <3>4, <3>5, UnregisterStep
  <2>7. CASE DeletePrefix(t)
    <3>1. PICK K \in Prefixes :
            LET held == {k \in K : state[k] # "none"}
                flights == {inflight[k] : k \in K} \cup {orphans[k] : k \in K}
                watched == UNION {watches[k] : k \in held}
            IN  /\ superseded' = [f \in Loads |-> superseded[f] \/ f \in flights \cup watched]
                /\ orphans' = [k \in Keys |-> IF k \in held THEN NoLoad ELSE orphans[k]]
                /\ watches' = [k \in Keys |-> IF k \in held THEN {} ELSE watches[k]]
      BY <2>7, Zenon DEF DeletePrefix
    <3>2. UNCHANGED <<started, keyOf, bulk, inflight, phase>>
      BY <2>7 DEF DeletePrefix
    <3>3. \A k \in Keys : orphans'[k] \in {orphans[k], NoLoad} /\ watches'[k] \subseteq watches[k]
      BY <3>1
    <3>4. \A g \in Loads : superseded[g] => superseded'[g]
      BY <3>1, Zenon
    <3>5. ASSUME NEW k \in Keys, NEW g \in Registered(k), g \notin Registered(k)'
          PROVE  superseded'[g]
      <4>1. k \in K /\ state[k] # "none"
        BY <3>1, <3>2, <3>5 DEF Registered
      <4>2. g \in Loads /\ (g = inflight[k] \/ g = orphans[k] \/ g \in watches[k])
        BY <1>0 DEF Registered
      <4>. QED  BY <3>1, <4>1, <4>2, Zenon
    <3>6. \A g \in Loads : Running(g)' <=> Running(g)
      BY <3>2 DEF Running
    <3>. QED  BY <3>2, <3>3, <3>4, <3>5, <3>6, UnregisterStep
  <2>. QED  BY <1>1, <2>1, <2>2, <2>3, <2>4, <2>5, <2>6, <2>7, Zenon DEF Call
<1>2. ASSUME NEW f \in Loads, Run(f) \/ AcquireSlot(f) \/ TooManyInFlight(f) \/ Expire(f)
      PROVE  RegInv'
  <2>0. keyOf[f] \in Keys
    BY DEF TypeOK
  <2>1. CASE Finish(f) \/ AcquireSlot(f) \/ Expire(f)
    <3>1. UNCHANGED <<started, keyOf, bulk, inflight, orphans, watches, superseded>>
      BY <2>1, Zenon DEF Finish, AcquireSlot, Expire
    <3>2. \A g \in Loads : Running(g)' => Running(g)
      BY <2>1, Zenon DEF Finish, AcquireSlot, Expire, Running, TypeOK
    <3>3. \A k \in Keys : Registered(k)' = Registered(k)
      BY <3>1 DEF Registered
    <3>. QED  BY <3>1, <3>2, <3>3, UnregisterStep
  <2>2. CASE StoreNotFound(f) \/ StoreError(f) \/ StoreNothing(f) \/ TooManyInFlight(f)
    <3>1. UNCHANGED <<started, keyOf, bulk, superseded>> /\ Leave(f)
      BY <2>2, Zenon DEF StoreNotFound, StoreError, StoreNothing, TooManyInFlight
    <3>2. ~Running(f)' /\ \A g \in Loads : Running(g)' => Running(g)
      <4>1. phase' = [phase EXCEPT ![f] = "left"] \/ phase' = [phase EXCEPT ![f] = "refused"]
        BY <2>2, Zenon DEF StoreNotFound, StoreError, StoreNothing, TooManyInFlight, Ends
      <4>. QED  BY <4>1 DEF Running, TypeOK
    <3>3. \A k \in Keys : /\ inflight'[k] \in {inflight[k], NoLoad} /\ orphans'[k] \in {orphans[k], NoLoad}
                          /\ watches'[k] \subseteq watches[k]
                          /\ Registered(k) \ {f} \subseteq Registered(k)'
      BY <2>0, <3>1 DEF Leave, Registered, TypeOK
    <3>. QED  BY <3>1, <3>2, <3>3, UnregisterStep
  <2>3. CASE StoreLoaded(f)
    <3>1. /\ UNCHANGED <<started, keyOf, bulk>> /\ Supersede({keyOf[f]}, {f})
          /\ inflight' = [inflight EXCEPT ![keyOf[f]] = IF @ = f THEN NoLoad ELSE @]
          /\ phase' = [phase EXCEPT ![f] = "left"]
      BY <2>3 DEF StoreLoaded, Ends
    <3>2. ~Running(f)' /\ \A g \in Loads : Running(g)' => Running(g)
      BY <3>1 DEF Running, TypeOK
    <3>3. \A k \in Keys : inflight'[k] = inflight[k] \/ (k \in {keyOf[f]} /\ inflight'[k] = NoLoad)
      BY <2>0, <3>1 DEF TypeOK
    <3>4. \A k \in Keys : orphans'[k] \in {orphans[k], NoLoad} /\ watches'[k] \subseteq watches[k]
      BY <3>1 DEF Supersede
    <3>5. PICK K \in SUBSET Keys : K = {keyOf[f]}
      BY <2>0
    <3>6. /\ \A k \in Keys \ K : Registered(k)' = Registered(k)
          /\ \A k \in K : \A g \in Registered(k) \ {f} : superseded'[g]
          /\ \A g \in Loads : superseded[g] => superseded'[g]
      BY <3>1, <3>3, <3>5, SupersedeStep
    <3>. QED  BY <3>1, <3>2, <3>3, <3>4, <3>6, UnregisterStep
  <2>. QED  BY <1>2, <2>1, <2>2, <2>3, Zenon DEF Run
<1>3. CASE (\E k \in Keys : Evict(k)) \/ Finished \/ UNCHANGED vars
  <2>1. UNCHANGED <<started, keyOf, bulk, inflight, orphans, watches, superseded, phase>>
    BY <1>3, Zenon DEF Evict, Finished, vars
  <2>. QED  BY <2>1 DEF RegInv, OneFlight, Tracked, OwnKey, Registered, Running
<1>. QED  BY <1>1, <1>2, <1>3 DEF Next

(* What a step may do to the entries: it keeps a key's entry, or leaves it *)
(* with nothing of a load, unless a load stores its result.                *)
EntriesKept == \A k \in Keys : by'[k] = NoLoad \/ (by'[k] = by[k] /\ state'[k] = state[k])

LEMMA EntryCases ==
    ASSUME TypeOK, Sourced, [Next]_vars
    PROVE  EntriesKept \/ \E f \in Loads : StoreLoaded(f) \/ StoreNotFound(f)
<1>1. ASSUME NEW t \in Callers, Call(t) PROVE EntriesKept
  <2>1. CASE Set(t) \/ Delete(t) \/ Clear(t)
    BY <2>1 DEF Set, Delete, Clear, Put, EntriesKept
  <2>2. CASE DeletePrefix(t)
    BY <2>2 DEF DeletePrefix, Put, EntriesKept
  <2>3. CASE ~(Set(t) \/ Delete(t) \/ Clear(t) \/ DeletePrefix(t))
    <3>1. UNCHANGED <<state, by>>
      BY <1>1, <2>3, Zenon DEF Call, Enter, Close, Serve, RateLimited, Join, Lead, Refresh, RefreshBusy,
                               Return, GiveUp, WatchKey, BulkHit, BulkReturn, DropError
    <3>. QED  BY <3>1 DEF EntriesKept
  <2>. QED  BY <2>1, <2>2, <2>3
<1>2. ASSUME NEW f \in Loads, Run(f) \/ AcquireSlot(f) \/ TooManyInFlight(f) \/ Expire(f)
      PROVE  EntriesKept \/ StoreLoaded(f) \/ StoreNotFound(f)
  <2>1. UNCHANGED <<state, by>> \/ StoreLoaded(f) \/ StoreNotFound(f)
    BY <1>2, Zenon DEF Run, StoreError, StoreNothing, Finish, AcquireSlot, TooManyInFlight, Expire
  <2>. QED  BY <2>1 DEF EntriesKept
<1>3. ASSUME NEW k \in Keys, Evict(k) PROVE EntriesKept
  BY <1>3 DEF Evict, Put, EntriesKept
<1>4. ASSUME Finished \/ UNCHANGED vars PROVE EntriesKept
  BY <1>4 DEF Finished, vars, EntriesKept
<1>. QED  BY <1>1, <1>2, <1>3, <1>4 DEF Next

(* A load that can still store was so before the step, or it is new.       *)
LEMMA LiveCases ==
    ASSUME TypeOK, [Next]_vars
    PROVE  /\ started \in Nat /\ started <= started' /\ bulk \subseteq bulk'
           /\ \A f \in Loads : Running(f)' /\ ~superseded'[f]
                               => \/ Running(f) /\ ~superseded[f] /\ keyOf'[f] = keyOf[f]
                                  \/ f > started
<1>. DEFINE Goal == /\ started <= started' /\ bulk \subseteq bulk'
                    /\ \A f \in Loads : Running(f)' /\ ~superseded'[f]
                                        => \/ Running(f) /\ ~superseded[f] /\ keyOf'[f] = keyOf[f]
                                           \/ f > started
<1>0. started \in Nat
  BY BoundTypes DEF TypeOK
<1>1. ASSUME UNCHANGED <<started, keyOf, bulk>>,
             \A f \in Loads : (Running(f)' => Running(f)) /\ (superseded[f] => superseded'[f])
      PROVE  Goal
  BY <1>0, <1>1
<1>2. ASSUME NEW f \in Loads, NEW k \in Keys, NEW p \in {"queued", "loading"}, NewLoad(f, k, p),
             bulk \subseteq bulk', \A g \in Loads : superseded[g] => superseded'[g]
      PROVE  Goal
  <2>1. started < f /\ started' = f
    BY <1>2, NewLoadType
  <2>2. \A g \in Loads \ {f} : keyOf'[g] = keyOf[g] /\ phase'[g] = phase[g]
    BY <1>2 DEF NewLoad, TypeOK
  <2>. QED  BY <1>0, <1>2, <2>1, <2>2 DEF Running
<1>. HIDE DEF Goal
<1>3. ASSUME NEW t \in Callers, Call(t) PROVE Goal
  <2>0. arg[t] \in Keys
    BY DEF TypeOK
  <2>1. CASE Lead(t) \/ Refresh(t)
    <3>1. PICK f \in Loads, k \in Keys : k = arg[t] /\ StartFlight(f, k)
      BY <2>0, <2>1, Zenon DEF Lead, Refresh
    <3>2. PICK p \in {"queued", "loading"} : NewLoad(f, k, p)
      BY <3>1 DEF StartFlight
    <3>3. bulk' = bulk /\ \A g \in Loads : superseded[g] => superseded'[g]
      BY <3>1, Zenon DEF StartFlight
    <3>. QED  BY <1>2, <3>2, <3>3
  <2>2. CASE WatchKey(t)
    <3>1. PICK f \in Loads : NewLoad(f, arg[t], "loading") /\ bulk' = bulk \cup {f} /\ superseded' = superseded
      BY <2>2 DEF WatchKey
    <3>. QED  BY <1>2, <2>0, <3>1
  <2>3. CASE ~(Lead(t) \/ Refresh(t) \/ WatchKey(t))
    <3>1. UNCHANGED <<started, keyOf, bulk>>
      BY <1>3, <2>3, Zenon DEF Call, Enter, Close, Serve, RateLimited, Join, RefreshBusy, Return, GiveUp,
                               BulkHit, BulkReturn, Set, Delete, DeletePrefix, Clear
    <3>2. UNCHANGED phase \/ (phase' = [phase EXCEPT ![on[t]] = "done"])
      BY <1>3, <2>3, Zenon DEF Call, Enter, Close, Serve, RateLimited, Join, RefreshBusy, Return, GiveUp,
                               BulkHit, BulkReturn, Set, Delete, DeletePrefix, Clear
    <3>3. \A f \in Loads : Running(f)' => Running(f)
      BY <3>2 DEF Running, TypeOK
    <3>4. \A f \in Loads : superseded[f] => superseded'[f]
      BY <1>3, <2>3, Zenon DEF Call, Enter, Close, Serve, RateLimited, Join, RefreshBusy, Return, GiveUp,
                               BulkHit, BulkReturn, Set, Delete, DeletePrefix, Clear, Supersede
    <3>. QED  BY <1>1, <3>1, <3>3, <3>4
  <2>. QED  BY <2>1, <2>2, <2>3
<1>4. ASSUME NEW f \in Loads, Run(f) \/ AcquireSlot(f) \/ TooManyInFlight(f) \/ Expire(f)
      PROVE  Goal
  <2>1. UNCHANGED <<started, keyOf, bulk>> /\ \A g \in Loads : superseded[g] => superseded'[g]
    BY <1>4, Zenon DEF Run, AcquireSlot, TooManyInFlight, Expire, StoreLoaded, StoreNotFound, StoreError,
                       StoreNothing, Finish, Supersede
  <2>2. \A g \in Loads : Running(g)' => Running(g)
    BY <1>4, Zenon DEF Run, AcquireSlot, TooManyInFlight, Expire, StoreLoaded, StoreNotFound, StoreError,
                       StoreNothing, Finish, Ends, Running, TypeOK
  <2>. QED  BY <1>1, <2>1, <2>2
<1>5. ASSUME (\E k \in Keys : Evict(k)) \/ Finished \/ UNCHANGED vars PROVE Goal
  <2>1. UNCHANGED <<started, keyOf, bulk, superseded, phase>>
    BY <1>5, Zenon DEF Evict, Finished, vars
  <2>. QED  BY <1>1, <2>1 DEF Running
<1>6. Goal
  BY <1>3, <1>4, <1>5 DEF Next
<1>. QED  BY <1>0, <1>6 DEF Goal

(* What a load stores: its key's entry comes from it, and the loads of the *)
(* key that may still store are of the other kind.                         *)
LEMMA StoreCases ==
    ASSUME TypeOK, RegInv, NEW f \in Loads, StoreLoaded(f) \/ StoreNotFound(f)
    PROVE  /\ Running(f) /\ ~superseded[f] /\ keyOf[f] \in Keys /\ UNCHANGED <<started, keyOf, bulk>>
           /\ \A k \in Keys : \/ by'[k] = by[k] /\ state'[k] = state[k]
                              \/ k = keyOf[f] /\ by'[k] = f /\ state'[k] # "none"
           /\ \A g \in Loads : Running(g)' /\ ~superseded'[g] /\ keyOf[g] = keyOf[f]
                               => state'[keyOf[f]] # "value" /\ {f, g} \cap bulk # {}
<1>1. Running(f) /\ ~superseded[f] /\ keyOf[f] \in Keys /\ UNCHANGED <<started, keyOf, bulk>>
  BY DEF StoreLoaded, StoreNotFound, Ends, Keeps, Running, TypeOK
<1>2. \A k \in Keys : \/ by'[k] = by[k] /\ state'[k] = state[k]
                      \/ k = keyOf[f] /\ by'[k] = f /\ state'[k] # "none"
  BY DEF StoreLoaded, StoreNotFound, Put
<1>3. ASSUME NEW g \in Loads, Running(g)', ~superseded'[g], keyOf[g] = keyOf[f]
      PROVE  state'[keyOf[f]] # "value" /\ {f, g} \cap bulk # {}
  <2>1. g # f
    BY <1>3, Zenon DEF StoreLoaded, StoreNotFound, Ends, Running, TypeOK
  <2>2. Running(g) /\ ~superseded[g]
    <3>1. superseded[g] => superseded'[g]
      BY Zenon DEF StoreLoaded, StoreNotFound, Supersede
    <3>2. Running(g)
      BY <1>3, <2>1, Zenon DEF StoreLoaded, StoreNotFound, Ends, Running, TypeOK
    <3>. QED  BY <1>3, <3>1, <3>2
  <2>3. PICK k \in Keys : k = keyOf[f] /\ f \in Registered(k) /\ g \in Registered(k)
    BY <1>1, <1>3, <2>2 DEF RegInv, Tracked
  <2>4. CASE StoreLoaded(f)
    <3>1. superseded'[g]
      BY <2>1, <2>3, <2>4, Zenon DEF StoreLoaded, Supersede
    <3>. QED  BY <1>3, <3>1
  <2>5. CASE StoreNotFound(f)
    <3>1. state'[k] = "negative" /\ f \notin bulk
      BY <2>3, <2>5 DEF StoreNotFound, Put
    <3>2. g \in bulk
      BY <2>1, <2>3, <3>1 DEF RegInv, OneFlight, Registered
    <3>. QED  BY <2>3, <3>1, <3>2
  <2>. QED  BY <2>4, <2>5
<1>. QED  BY <1>1, <1>2, <1>3

(* Every step keeps OrderInv, and lets no load replace a later one's.      *)
LEMMA OrderInvStep ==
    ASSUME TypeOK, TypeOK', OrderInv, [Next]_vars
    PROVE  /\ OrderInv'
           /\ \A k \in Keys : /\ by[k] # NoLoad /\ by'[k] # NoLoad
                              /\ \/ state[k] = "value" /\ state'[k] = "value"
                                 \/ {by[k], by'[k]} \cap bulk = {}
                              => by'[k] >= by[k]
<1>0. RegInv /\ Sourced /\ InOrder /\ RegInv'
  BY RegInvStep DEF OrderInv, RegInv
<1>1. started \in Nat /\ started' \in Nat /\ \A k \in Keys : by[k] \in Nat /\ by[k] <= started /\ by'[k] \in Nat
  <2>1. started \in Nat /\ started' \in Nat /\ by \in [Keys -> 0..MaxLoads] /\ by' \in [Keys -> 0..MaxLoads]
    BY BoundTypes DEF TypeOK
  <2>. QED  BY <1>0, <2>1, BoundTypes DEF Sourced
<1>2. CASE EntriesKept
  <2>1. Sourced'
    <3>1. started <= started'
      BY LiveCases
    <3>2. ASSUME NEW k \in Keys PROVE by'[k] <= started' /\ (state'[k] = "none" => by'[k] = NoLoad)
      <4>1. CASE by'[k] = NoLoad
        BY <1>1, <4>1
      <4>2. CASE by'[k] = by[k] /\ state'[k] = state[k]
        BY <1>0, <1>1, <3>1, <4>2 DEF Sourced
      <4>. QED  BY <1>2, <4>1, <4>2 DEF EntriesKept
    <3>. QED  BY <3>2 DEF Sourced
  <2>2. InOrder'
    <3>. SUFFICES ASSUME NEW f \in Loads, Running(f)', ~superseded'[f], NEW k \in Keys, k = keyOf'[f],
                         by'[k] # NoLoad, state'[k] = "value" \/ {f, by'[k]} \cap bulk' = {}
                  PROVE  by'[k] < f
      BY DEF InOrder, TypeOK
    <3>1. by'[k] = by[k] /\ state'[k] = state[k]
      BY <1>2 DEF EntriesKept
    <3>2. CASE f > started
      BY <1>1, <3>1, <3>2
    <3>3. CASE Running(f) /\ ~superseded[f] /\ keyOf'[f] = keyOf[f]
      <4>1. bulk \subseteq bulk'
        BY LiveCases
      <4>2. state[k] = "value" \/ {f, by[k]} \cap bulk = {}
        BY <3>1, <4>1
      <4>. QED  BY <1>0, <3>1, <3>3, <4>2 DEF InOrder
    <3>. QED  BY <3>2, <3>3, LiveCases
  <2>3. \A k \in Keys : by[k] # NoLoad /\ by'[k] # NoLoad => by'[k] >= by[k]
    BY <1>1, <1>2 DEF EntriesKept
  <2>. QED  BY <1>0, <2>1, <2>2, <2>3 DEF OrderInv, RegInv
<1>3. CASE \E f \in Loads : StoreLoaded(f) \/ StoreNotFound(f)
  <2>1. PICK f \in Loads : StoreLoaded(f) \/ StoreNotFound(f)
    BY <1>3
  <2>2. PICK j \in Keys : j = keyOf[f]
    BY DEF TypeOK
  <2>3. /\ Running(f) /\ ~superseded[f] /\ UNCHANGED <<started, keyOf, bulk>>
        /\ \A k \in Keys : \/ by'[k] = by[k] /\ state'[k] = state[k]
                           \/ k = j /\ by'[k] = f /\ state'[k] # "none"
        /\ \A g \in Loads : Running(g)' /\ ~superseded'[g] /\ keyOf[g] = j
                            => state'[j] # "value" /\ {f, g} \cap bulk # {}
    BY <1>0, <2>1, <2>2, StoreCases
  <2>4. f <= started
    <3>1. f \in Registered(j)
      BY <1>0, <2>2, <2>3 DEF RegInv, Tracked
    <3>. QED  BY <1>0, <3>1 DEF RegInv, OwnKey
  <2>5. Sourced'
    BY <1>0, <1>1, <2>3, <2>4 DEF Sourced
  <2>6. InOrder'
    <3>. SUFFICES ASSUME NEW g \in Loads, Running(g)', ~superseded'[g], NEW k \in Keys, k = keyOf[g],
                         by'[k] # NoLoad, state'[k] = "value" \/ {g, by'[k]} \cap bulk = {}
                  PROVE  by'[k] < g
      BY <2>3 DEF InOrder, TypeOK
    <3>1. CASE k = j /\ by'[k] = f
      BY <2>3, <3>1
    <3>2. CASE by'[k] = by[k] /\ state'[k] = state[k]
      <4>1. Running(g) /\ ~superseded[g]
        <5>1. ~(g > started)
          <6>1. started' = started /\ phase'[g] # "new"
            BY <2>3 DEF Running
          <6>. QED  BY <6>1 DEF TypeOK
        <5>. QED  BY <5>1, LiveCases
      <4>. QED  BY <1>0, <3>2, <4>1 DEF InOrder
    <3>. QED  BY <2>3, <3>1, <3>2
  <2>7. ASSUME NEW k \in Keys, by[k] # NoLoad, by'[k] # NoLoad,
               \/ state[k] = "value" /\ state'[k] = "value"
               \/ {by[k], by'[k]} \cap bulk = {}
        PROVE  by'[k] >= by[k]
    <3>1. CASE by'[k] = by[k]
      BY <1>1, <3>1
    <3>2. CASE k = j /\ by'[k] = f
      <4>1. by[k] < f
        BY <1>0, <2>2, <2>3, <2>7, <3>2 DEF InOrder
      <4>. QED  BY <1>1, <3>2, <4>1
    <3>. QED  BY <2>3, <3>1, <3>2
  <2>. QED  BY <1>0, <2>5, <2>6, <2>7 DEF OrderInv, RegInv
<1>. QED  BY <1>0, <1>2, <1>3, EntryCases

(* For every number of callers, keys and loads: the value a load stored is *)
(* never replaced by that of a load that started before it, nor anything a *)
(* flight stored by what an earlier flight brings.                         *)
THEOREM LoadsStoreInOrder == Spec => LoadsInOrder
<1>1. Init => TypeOK /\ OrderInv
  <2>. SUFFICES ASSUME Init PROVE OrderInv
    BY InitType
  <2>1. \A f \in Loads : ~Running(f)
    BY DEF Init, Running
  <2>2. \A k \in Keys : Registered(k) = {}
    BY DEF Init, Registered
  <2>3. Tracked /\ OwnKey /\ InOrder
    BY <2>1, <2>2, Zenon DEF Tracked, OwnKey, InOrder
  <2>4. OneFlight /\ Sourced
    BY DEF Init, OneFlight, Sourced
  <2>. QED  BY <2>3, <2>4 DEF OrderInv
<1>2. TypeOK /\ OrderInv /\ [Next]_vars => (TypeOK /\ OrderInv)'
  BY OrderInvStep, TypeStep
<1>3. TypeOK /\ OrderInv /\ [Next]_vars
      => [\A k \in Keys :
            /\ by[k] # NoLoad /\ by'[k] # NoLoad
            /\ \/ state[k] = "value" /\ state'[k] = "value"
               \/ {by[k], by'[k]} \cap bulk = {}
            => by'[k] >= by[k]]_vars
  BY OrderInvStep, TypeStep
<1>. QED  BY <1>1, <1>2, <1>3, PTL DEF Spec, LoadsInOrder

=============================================================================
