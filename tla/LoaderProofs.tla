---------------------------- MODULE LoaderProofs ----------------------------
(***************************************************************************)
(* Proofs about Loader for every set of keys and callers and every bound.  *)
(***************************************************************************)
EXTENDS Loader, TLAPS

USE DEF entry, registry, flight, caller, Goto, Loads, NoLoad

-----------------------------------------------------------------------------
(* Types.                                                                  *)

(* A load that comes into being is the next one and gets a key.            *)
LEMMA NewLoadType ==
    ASSUME TypeOK, NEW f \in Loads, NEW k \in Keys, NEW p \in {"queued", "loading"}, NewLoad(f, k, p)
    PROVE  /\ started' \in 0..MaxLoads /\ started < f /\ f = started'
           /\ keyOf' \in [Loads -> Keys] /\ phase' \in [Loads -> Phases]
           /\ \A g \in Loads : phase'[g] = "new" <=> g > started'
           /\ refs' \in [Loads -> Int] /\ seen' \in [Loads -> Nat]
           /\ canceled' \subseteq Loads /\ expired' \subseteq Loads
<1>1. started' \in 0..MaxLoads /\ started < f /\ f = started'
  BY BoundTypes DEF TypeOK, NewLoad
<1>2. keyOf' \in [Loads -> Keys] /\ phase' \in [Loads -> Phases]
  BY DEF TypeOK, NewLoad, Phases
<1>3. \A g \in Loads : phase'[g] = "new" <=> g > started'
  BY BoundTypes DEF TypeOK, NewLoad
<1>4. refs' \in [Loads -> Int] /\ seen' \in [Loads -> Nat]
  BY DEF TypeOK, NewLoad
<1>5. canceled' \subseteq Loads /\ expired' \subseteq Loads
  BY DEF TypeOK, NewLoad
<1>. QED  BY <1>1, <1>2, <1>3, <1>4, <1>5

(* The parts of TypeOK that different actions disturb.                     *)
EntryType ==
    /\ state \in [Keys -> {"none", "value", "negative"}] /\ by \in [Keys -> Loads \cup {NoLoad}]
    /\ errors \subseteq Keys /\ closed \in BOOLEAN
RegistryType ==
    /\ inflight \in [Keys -> Loads \cup {NoLoad}] /\ orphans \in [Keys -> Loads \cup {NoLoad}]
    /\ watches \in [Keys -> SUBSET Loads]
FlightType ==
    /\ started \in 0..MaxLoads /\ bulk \subseteq 1..started
    /\ keyOf \in [Loads -> Keys] /\ phase \in [Loads -> Phases]
    /\ \A f \in Loads : phase[f] = "new" <=> f > started
    /\ refs \in [Loads -> Int] /\ superseded \in [Loads -> BOOLEAN]
    /\ canceled \subseteq Loads /\ expired \subseteq Loads
    /\ seen \in [Loads -> Nat] /\ epoch \in [Keys -> Nat]
CallerType ==
    /\ pc \in [Callers -> Ops \cup {"idle", "wait", "bulk"}] /\ arg \in [Callers -> Keys]
    /\ on \in [Callers -> Loads \cup {NoLoad}] /\ calls \in [Callers -> 0..MaxCalls]
    /\ \A t \in Callers : on[t] # NoLoad <=> pc[t] \in {"wait", "bulk"}

(* They are all of it.                                                     *)
LEMMA TypeParts == TypeOK <=> EntryType /\ RegistryType /\ FlightType /\ CallerType
  BY DEF TypeOK, EntryType, RegistryType, FlightType, CallerType

(* Put stores states and loads.                                            *)
LEMMA PutType ==
    ASSUME EntryType, NEW K, NEW s \in {"none", "value", "negative"}, NEW f \in Loads \cup {NoLoad},
           Put(K, s, f)
    PROVE  /\ state' \in [Keys -> {"none", "value", "negative"}]
           /\ by' \in [Keys -> Loads \cup {NoLoad}]
  BY DEF Put, EntryType

(* leaveInflight only unregisters.                                         *)
LEMMA LeaveType ==
    ASSUME RegistryType, NEW f \in Loads, keyOf[f] \in Keys, Leave(f)
    PROVE  RegistryType'
  BY DEF Leave, RegistryType

(* supersedeFlight only marks and unregisters.                             *)
LEMMA SupersedeType ==
    ASSUME RegistryType, NEW K, NEW E, Supersede(K, E)
    PROVE  /\ superseded' \in [Loads -> BOOLEAN]
           /\ orphans' \in [Keys -> Loads \cup {NoLoad}] /\ watches' \in [Keys -> SUBSET Loads]
<1>1. superseded' \in [Loads -> BOOLEAN]
  BY Zenon DEF Supersede
<1>2. orphans' \in [Keys -> Loads \cup {NoLoad}] /\ watches' \in [Keys -> SUBSET Loads]
  BY DEF Supersede, RegistryType
<1>. QED  BY <1>1, <1>2

(* What the shard holds keeps its type.                                    *)
LEMMA EntryTypeStep == ASSUME TypeOK, [Next]_vars PROVE EntryType'
<1>. EntryType /\ keyOf \in [Loads -> Keys]
  BY TypeParts DEF FlightType
<1>. USE DEF EntryType
<1>1. ASSUME NEW t \in Callers, Call(t) PROVE EntryType'
  <2>1. CASE Enter(t) \/ Close(t) \/ Serve(t) \/ Refresh(t) \/ RefreshBusy(t) \/ Return(t)
             \/ GiveUp(t) \/ WatchKey(t) \/ BulkHit(t) \/ BulkReturn(t)
    BY <2>1, Zenon DEF Enter, Close, Serve, Refresh, RefreshBusy, Return, GiveUp, WatchKey, BulkHit, BulkReturn
  <2>2. CASE RateLimited(t) \/ Join(t) \/ Lead(t)
    BY <2>2 DEF RateLimited, Join, Lead, DropError
  <2>3. CASE Set(t) \/ Delete(t) \/ Clear(t)
    BY <2>3, PutType, Zenon DEF Set, Delete, Clear
  <2>4. CASE DeletePrefix(t)
    BY <2>4, PutType, Zenon DEF DeletePrefix
  <2>. QED  BY <1>1, <2>1, <2>2, <2>3, <2>4 DEF Call
<1>2. ASSUME NEW f \in Loads, Run(f) \/ AcquireSlot(f) \/ TooManyInFlight(f) \/ Expire(f)
      PROVE  EntryType'
  <2>1. CASE StoreLoaded(f) \/ StoreNotFound(f)
    BY <2>1, PutType, Zenon DEF StoreLoaded, StoreNotFound
  <2>2. CASE StoreError(f)
    <3>. PICK E \in SUBSET errors : errors' = E \cup {keyOf[f]}
      BY <2>2, Zenon DEF StoreError
    <3>. QED  BY <2>2 DEF StoreError
  <2>3. CASE StoreNothing(f) \/ Finish(f) \/ AcquireSlot(f) \/ TooManyInFlight(f) \/ Expire(f)
    BY <2>3 DEF StoreNothing, Finish, AcquireSlot, TooManyInFlight, Expire
  <2>. QED  BY <1>2, <2>1, <2>2, <2>3 DEF Run
<1>3. ASSUME NEW k \in Keys, Evict(k) PROVE EntryType'
  BY <1>3, PutType, Zenon DEF Evict
<1>4. CASE Finished \/ UNCHANGED vars
  BY <1>4 DEF Finished, vars
<1>. QED  BY <1>1, <1>2, <1>3, <1>4 DEF Next

(* So do the maps that register loads.                                     *)
LEMMA RegistryTypeStep == ASSUME TypeOK, [Next]_vars PROVE RegistryType'
<1>. /\ RegistryType /\ keyOf \in [Loads -> Keys] /\ arg \in [Callers -> Keys]
     /\ on \in [Callers -> Loads \cup {NoLoad}]
     /\ \A t \in Callers : on[t] # NoLoad <=> pc[t] \in {"wait", "bulk"}
  BY TypeParts DEF FlightType, CallerType
<1>. USE DEF RegistryType
<1>1. ASSUME NEW t \in Callers, Call(t) PROVE RegistryType'
  <2>1. CASE Enter(t) \/ Close(t) \/ Serve(t) \/ RefreshBusy(t) \/ Return(t) \/ BulkReturn(t)
             \/ RateLimited(t) \/ Join(t)
    BY <2>1 DEF Enter, Close, Serve, RefreshBusy, Return, BulkReturn, RateLimited, Join
  <2>2. CASE Lead(t) \/ Refresh(t)
    BY <2>2 DEF Lead, Refresh, StartFlight
  <2>3. CASE GiveUp(t)
    BY <2>3 DEF GiveUp
  <2>4. CASE WatchKey(t) \/ BulkHit(t)
    BY <2>4 DEF WatchKey, BulkHit, NewLoad
  <2>5. CASE Set(t) \/ Delete(t) \/ Clear(t)
    BY <2>5, SupersedeType DEF Set, Delete, Clear
  <2>6. CASE DeletePrefix(t)
    BY <2>6 DEF DeletePrefix
  <2>. QED  BY <1>1, <2>1, <2>2, <2>3, <2>4, <2>5, <2>6 DEF Call
<1>2. ASSUME NEW f \in Loads, Run(f) \/ AcquireSlot(f) \/ TooManyInFlight(f) \/ Expire(f)
      PROVE  RegistryType'
  <2>1. CASE StoreLoaded(f)
    BY <2>1, SupersedeType DEF StoreLoaded
  <2>2. CASE StoreNotFound(f) \/ StoreError(f) \/ StoreNothing(f) \/ TooManyInFlight(f)
    <3>. HIDE DEF RegistryType
    <3>. QED  BY <2>2, LeaveType DEF StoreNotFound, StoreError, StoreNothing, TooManyInFlight
  <2>3. CASE Finish(f) \/ AcquireSlot(f) \/ Expire(f)
    BY <2>3 DEF Finish, AcquireSlot, Expire
  <2>. QED  BY <1>2, <2>1, <2>2, <2>3 DEF Run
<1>3. ASSUME NEW k \in Keys, Evict(k) PROVE RegistryType'
  BY <1>3 DEF Evict
<1>4. CASE Finished \/ UNCHANGED vars
  BY <1>4 DEF Finished, vars
<1>. QED  BY <1>1, <1>2, <1>3, <1>4 DEF Next

(* So do the loads.                                                        *)
LEMMA FlightTypeStep == ASSUME TypeOK, [Next]_vars PROVE FlightType'
<1>. FlightType /\ RegistryType /\ CallerType
  BY TypeParts
<1>. USE DEF FlightType
<1>1. ASSUME NEW t \in Callers, Call(t) PROVE FlightType'
  <2>1. CASE Enter(t) \/ Close(t) \/ Serve(t) \/ RateLimited(t) \/ RefreshBusy(t) \/ Return(t)
             \/ BulkReturn(t)
    BY <2>1, Zenon DEF Enter, Close, Serve, RateLimited, RefreshBusy, Return, BulkReturn
  <2>2. CASE Join(t)
    <3>1. inflight[arg[t]] \in Loads
      BY <2>2 DEF Join, RegistryType, CallerType
    <3>2. refs' \in [Loads -> Int]
      BY <2>2, <3>1 DEF Join
    <3>. QED  BY <2>2, <3>2 DEF Join
  <2>3. ASSUME NEW f \in Loads, StartFlight(f, arg[t]), UNCHANGED epoch PROVE FlightType'
    <3>1. NewLoad(f, arg[t], IF Slots > 0 THEN "queued" ELSE "loading") /\ arg[t] \in Keys
      BY <2>3 DEF StartFlight, CallerType
    <3>2. superseded' \in [Loads -> BOOLEAN] /\ UNCHANGED <<bulk, epoch>>
      BY <2>3, Zenon DEF StartFlight
    <3>. QED  BY <3>1, <3>2, NewLoadType
  <2>4. CASE Lead(t) \/ Refresh(t)
    BY <2>3, <2>4 DEF Lead, Refresh
  <2>5. CASE GiveUp(t)
    <3>1. on[t] \in Loads
      BY <2>5 DEF GiveUp, CallerType
    <3>2. superseded' \in [Loads -> BOOLEAN]
      BY <2>5, Zenon DEF GiveUp
    <3>3. refs' = [refs EXCEPT ![on[t]] = @ - 1] /\ canceled' \subseteq canceled \cup {on[t]}
      BY <2>5, Zenon DEF GiveUp
    <3>4. UNCHANGED <<started, bulk, keyOf, phase, expired, seen, epoch>>
      BY <2>5, Zenon DEF GiveUp
    <3>. QED  BY <3>1, <3>2, <3>3, <3>4
  <2>6. CASE WatchKey(t)
    <3>. PICK f \in Loads : NewLoad(f, arg[t], "loading") /\ bulk' = bulk \cup {f}
      BY <2>6 DEF WatchKey
    <3>1. arg[t] \in Keys /\ UNCHANGED <<superseded, epoch>>
      BY <2>6 DEF WatchKey, CallerType
    <3>2. bulk' \subseteq 1..started'
      BY NewLoadType, <3>1
    <3>. QED  BY <3>1, <3>2, NewLoadType
  <2>7. CASE BulkHit(t)
    BY <2>7 DEF BulkHit, CallerType, Phases
  <2>8. CASE Set(t) \/ Delete(t) \/ Clear(t)
    <3>1. superseded' \in [Loads -> BOOLEAN] /\ epoch' \in [Keys -> Nat]
      BY <2>8, SupersedeType DEF Set, Delete, Clear, Change
    <3>. QED  BY <2>8, <3>1, Zenon DEF Set, Delete, Clear
  <2>9. CASE DeletePrefix(t)
    <3>1. epoch' \in [Keys -> Nat]
      BY <2>9 DEF DeletePrefix, Change
    <3>2. superseded' \in [Loads -> BOOLEAN]
      BY <2>9, Zenon DEF DeletePrefix
    <3>. QED  BY <2>9, <3>1, <3>2 DEF DeletePrefix
  <2>. QED  BY <1>1, <2>1, <2>2, <2>4, <2>5, <2>6, <2>7, <2>8, <2>9, Zenon DEF Call
<1>2. ASSUME NEW f \in Loads, Run(f) \/ AcquireSlot(f) \/ TooManyInFlight(f) \/ Expire(f)
      PROVE  FlightType'
  <2>1. CASE StoreLoaded(f)
    <3>1. superseded' \in [Loads -> BOOLEAN]
      BY <2>1, SupersedeType DEF StoreLoaded
    <3>. QED  BY <2>1, <3>1 DEF StoreLoaded, Ends, Phases
  <2>2. CASE StoreNotFound(f) \/ StoreError(f) \/ StoreNothing(f)
    BY <2>2, Zenon DEF StoreNotFound, StoreError, StoreNothing, Ends, Phases
  <2>3. CASE Finish(f) \/ AcquireSlot(f) \/ TooManyInFlight(f)
    BY <2>3, Zenon DEF Finish, AcquireSlot, TooManyInFlight, Phases
  <2>4. CASE Expire(f)
    BY <2>4 DEF Expire
  <2>. QED  BY <1>2, <2>1, <2>2, <2>3, <2>4 DEF Run
<1>3. ASSUME NEW k \in Keys, Evict(k) PROVE FlightType'
  BY <1>3 DEF Evict
<1>4. CASE Finished \/ UNCHANGED vars
  BY <1>4, Zenon DEF Finished, vars
<1>. QED  BY <1>1, <1>2, <1>3, <1>4 DEF Next

(* And the callers.                                                        *)
LEMMA CallerTypeStep == ASSUME TypeOK, [Next]_vars PROVE CallerType'
<1>. CallerType /\ inflight \in [Keys -> Loads \cup {NoLoad}]
  BY TypeParts DEF RegistryType
<1>. USE DEF CallerType
<1>1. ASSUME NEW t \in Callers, Call(t) PROVE CallerType'
  <2>1. CASE Enter(t)
    <3>. PICK op \in Ops, k \in Keys : Goto(t, op) /\ arg' = [arg EXCEPT ![t] = k]
      BY <2>1, Zenon DEF Enter
    <3>1. op \notin {"wait", "bulk"}
      BY DEF Ops
    <3>. QED  BY <2>1, <3>1, BoundTypes DEF Enter
  <2>2. CASE Close(t)
    BY <2>2, BoundTypes DEF Close, Ops
  <2>3. CASE Serve(t) \/ RateLimited(t) \/ Refresh(t) \/ RefreshBusy(t) \/ Set(t) \/ Delete(t)
             \/ DeletePrefix(t) \/ Clear(t)
    <3>1. pc[t] \notin {"wait", "bulk"} /\ Goto(t, "idle") /\ UNCHANGED <<arg, on, calls>>
      BY <2>3, Zenon DEF Serve, RateLimited, Refresh, RefreshBusy, Set, Delete, DeletePrefix, Clear
    <3>. QED  BY <3>1
  <2>4. CASE Join(t) \/ Lead(t) \/ WatchKey(t)
    <3>. PICK f \in Loads, step \in {"wait", "bulk"} :
             on' = [on EXCEPT ![t] = f] /\ Goto(t, step) /\ UNCHANGED <<arg, calls>>
      BY <2>4 DEF Join, Lead, WatchKey
    <3>. QED  OBVIOUS
  <2>5. CASE Return(t) \/ GiveUp(t) \/ BulkHit(t) \/ BulkReturn(t)
    BY <2>5, Zenon DEF Return, GiveUp, BulkHit, BulkReturn
  <2>. QED  BY <1>1, <2>1, <2>2, <2>3, <2>4, <2>5, Zenon DEF Call
<1>2. ASSUME NEW f \in Loads, Run(f) \/ AcquireSlot(f) \/ TooManyInFlight(f) \/ Expire(f)
      PROVE  CallerType'
  <2>1. UNCHANGED caller
    BY <1>2, Zenon DEF Run, StoreLoaded, StoreNotFound, StoreError, StoreNothing, Finish, AcquireSlot,
       TooManyInFlight, Expire
  <2>. QED  BY <2>1
<1>3. ASSUME NEW k \in Keys, Evict(k) PROVE CallerType'
  BY <1>3 DEF Evict
<1>4. CASE Finished \/ UNCHANGED vars
  BY <1>4 DEF Finished, vars
<1>. QED  BY <1>1, <1>2, <1>3, <1>4 DEF Next

(* TypeOK holds at the start.                                              *)
LEMMA InitType == Init => TypeOK
<1>. SUFFICES ASSUME Init PROVE TypeOK
  OBVIOUS
<1>1. (CHOOSE k \in Keys : TRUE) \in Keys
  BY KeysFinite
<1>2. EntryType /\ RegistryType
  BY Zenon DEF Init, EntryType, RegistryType
<1>3. FlightType
  BY <1>1, BoundTypes DEF Init, FlightType, Phases
<1>4. CallerType
  BY <1>1, BoundTypes DEF Init, CallerType
<1>. QED  BY <1>2, <1>3, <1>4, TypeParts

(* TypeOK is kept by every step.                                           *)
LEMMA TypeStep == ASSUME TypeOK, [Next]_vars PROVE TypeOK'
<1>1. EntryType' /\ RegistryType' /\ FlightType' /\ CallerType'
  BY EntryTypeStep, RegistryTypeStep, FlightTypeStep, CallerTypeStep
<1>. QED  BY <1>1 DEF TypeOK, EntryType, RegistryType, FlightType, CallerType

(* For every number of keys, callers and loads: the state has its type.    *)
THEOREM LoaderTypes == Spec => []TypeOK
<1>1. TypeOK /\ [Next]_vars => TypeOK'
  BY TypeStep
<1>. QED  BY <1>1, InitType, PTL DEF Spec

-----------------------------------------------------------------------------
(* What keeps NoStaleLoad.  It is not inductive: a load may store its      *)
(* result long after it started, so what has to be kept is that a change   *)
(* of the key finds every load it must overtake.                           *)

(* A load that may still store its result is registered for its key, and   *)
(* nothing has changed the key since it started.                           *)
Current ==
    \A f \in Loads : Running(f) /\ ~superseded[f]
                     => f \in Registered(keyOf[f]) /\ seen[f] = epoch[keyOf[f]]

(* Loads are registered for their own key, after they have started.        *)
OwnKey == \A k \in Keys : \A f \in Registered(k) : keyOf[f] = k /\ f <= started

(* What a load has stored it stored after it started; nothing is there     *)
(* where there is no entry.                                                *)
Sourced == \A k \in Keys : by[k] <= started /\ (state[k] = "none" => by[k] = NoLoad)

(* Without bulk loads nobody watches a key.                                *)
Unwatched == BulkLoads \/ \A k \in Keys : watches[k] = {}

LoadInv == Current /\ OwnKey /\ Sourced /\ Unwatched /\ NoStaleLoad

(* A step that neither starts a load nor moves, overtakes or stores one.   *)
LEMMA QuietStep ==
    ASSUME LoadInv,
           UNCHANGED <<state, by, registry, started, keyOf, superseded, seen, epoch>>,
           \A f \in Loads : Running(f)' => Running(f)
    PROVE  LoadInv'
  BY DEF LoadInv, Current, OwnKey, Sourced, Unwatched, NoStaleLoad, Registered

(* A load that ends without storing anything.                              *)
LEMMA LeaveStep ==
    ASSUME TypeOK, LoadInv, NEW f \in Loads, Leave(f),
           UNCHANGED <<started, keyOf, superseded, seen, epoch>>,
           \A g \in Loads : Running(g)' => Running(g) /\ g # f
    PROVE  Current' /\ OwnKey' /\ Unwatched'
<1>1. \A k \in Keys : Registered(k)' \subseteq Registered(k)
  BY DEF TypeOK, Leave, Registered
<1>2. \A k \in Keys : Registered(k) \ {f} \subseteq Registered(k)'
  BY DEF TypeOK, Leave, Registered
<1>3. Current'
  BY <1>2, Zenon DEF LoadInv, Current, TypeOK
<1>4. OwnKey'
  BY <1>1 DEF LoadInv, OwnKey
<1>5. Unwatched'
  BY DEF LoadInv, Unwatched, Leave, TypeOK
<1>. QED  BY <1>3, <1>4, <1>5

(* A flight that starts, or a bulk load: NewLoad and its registration.     *)
LEMMA StartLoadStep ==
    ASSUME TypeOK, LoadInv, NEW f \in Loads, NEW k \in Keys, NEW p \in {"queued", "loading"},
           NewLoad(f, k, p), UNCHANGED <<state, by, epoch>>,
           f \in Registered(k)', Unwatched',
           \A j \in Keys : Registered(j)' \subseteq Registered(j) \cup (IF j = k THEN {f} ELSE {}),
           \A j \in Keys : \A g \in Registered(j) : g \in Registered(j)' \/ superseded'[g],
           \A g \in Loads : superseded[g] => superseded'[g]
    PROVE  LoadInv'
<1>1. f = started' /\ started < f /\ started \in Nat
  BY NewLoadType DEF TypeOK
<1>2. \A g \in Loads \ {f} : keyOf'[g] = keyOf[g] /\ seen'[g] = seen[g] /\ phase'[g] = phase[g]
  BY DEF NewLoad, TypeOK
<1>3. keyOf'[f] = k /\ seen'[f] = epoch[k]
  BY DEF NewLoad, TypeOK
<1>4. Current'
  <2>. SUFFICES ASSUME NEW g \in Loads, Running(g)', ~superseded'[g]
                PROVE  g \in Registered(keyOf[g])' /\ seen'[g] = epoch'[keyOf'[g]]
    BY DEF Current
  <2>1. CASE g = f
    BY <1>3, <2>1
  <2>2. CASE g # f
    <3>1. Running(g) /\ ~superseded[g] /\ keyOf[g] \in Keys
      BY <1>2, <2>2, Zenon DEF Running, TypeOK
    <3>. QED  BY <1>2, <2>2, <3>1 DEF LoadInv, Current
  <2>. QED  BY <2>1, <2>2
<1>5. OwnKey'
  <2>. SUFFICES ASSUME NEW j \in Keys, NEW g \in Registered(j)'
                PROVE  keyOf'[g] = j /\ g <= started'
    BY DEF OwnKey
  <2>1. CASE g = f /\ j = k
    BY <1>1, <1>3, <2>1
  <2>2. CASE g \in Registered(j)
    <3>1. g \in Loads /\ keyOf[g] = j /\ g <= started
      BY <2>2 DEF LoadInv, OwnKey, Registered, TypeOK
    <3>. QED  BY <1>1, <1>2, <3>1
  <2>. QED  BY <2>1, <2>2
<1>6. Sourced' /\ NoStaleLoad'
  <2>. SUFFICES ASSUME NEW j \in Keys
                PROVE  /\ by[j] <= started' /\ (state[j] = "none" => by[j] = NoLoad)
                       /\ by[j] # NoLoad => seen'[by[j]] = epoch[j]
    BY DEF Sourced, NoStaleLoad
  <2>1. by[j] \in Loads \cup {NoLoad} /\ by[j] <= started /\ (state[j] = "none" => by[j] = NoLoad)
    BY DEF LoadInv, Sourced, TypeOK
  <2>2. by[j] # NoLoad => by[j] \in Loads \ {f} /\ seen[by[j]] = epoch[j]
    BY <1>1, <2>1 DEF LoadInv, NoStaleLoad
  <2>. QED  BY <1>1, <1>2, <2>1, <2>2
<1>. QED  BY <1>4, <1>5, <1>6 DEF LoadInv

(* A change of the keys in K overtakes the loads registered for them, but  *)
(* for those in E, which end.                                              *)
LEMMA ChangeStep ==
    ASSUME TypeOK, LoadInv, NEW K \in SUBSET Keys, NEW E,
           UNCHANGED <<started, keyOf, seen>>,
           \A g \in Loads : Running(g)' => Running(g) /\ g \notin E,
           \A k \in Keys \ K : epoch'[k] = epoch[k] /\ Registered(k)' = Registered(k),
           \A k \in K : Registered(k)' \subseteq Registered(k),
           \A k \in K : \A g \in Registered(k) \ E : superseded'[g],
           \A g \in Loads : superseded[g] => superseded'[g]
    PROVE  Current' /\ OwnKey'
<1>1. Current'
  <2>. SUFFICES ASSUME NEW g \in Loads, Running(g)', ~superseded'[g]
                PROVE  g \in Registered(keyOf[g])' /\ seen[g] = epoch'[keyOf[g]]
    BY DEF Current
  <2>1. g \in Registered(keyOf[g]) /\ seen[g] = epoch[keyOf[g]] /\ keyOf[g] \in Keys
    BY Zenon DEF LoadInv, Current, TypeOK
  <2>2. keyOf[g] \notin K
    BY <2>1
  <2>3. /\ epoch'[keyOf[g]] = epoch[keyOf[g]]
        /\ Registered(keyOf[g])' = Registered(keyOf[g])
    BY <2>1, <2>2
  <2>. QED  BY <2>1, <2>3
<1>2. OwnKey'
  BY DEF LoadInv, OwnKey
<1>. QED  BY <1>1, <1>2

(* supersedeFlight is such a change.                                       *)
LEMMA SupersedeStep ==
    ASSUME TypeOK, NEW K \in SUBSET Keys, NEW E, Supersede(K, E),
           \A k \in Keys : inflight'[k] = inflight[k] \/ (k \in K /\ inflight'[k] = NoLoad)
    PROVE  /\ \A k \in Keys \ K : Registered(k)' = Registered(k)
           /\ \A k \in K : Registered(k)' \subseteq Registered(k)
           /\ \A k \in K : \A g \in Registered(k) \ E : superseded'[g]
           /\ \A g \in Loads : superseded[g] => superseded'[g]
           /\ Unwatched => Unwatched'
<1>1. \A k \in Keys \ K : Registered(k)' = Registered(k)
  BY DEF Supersede, Registered
<1>2. \A k \in K : Registered(k)' \subseteq Registered(k)
  BY DEF Supersede, Registered
<1>3. \A k \in Keys : Registered(k) \subseteq Loads
  BY DEF Registered, TypeOK
<1>4. \A k \in K : \A g \in Registered(k) \ E : superseded'[g]
  BY <1>3, Zenon DEF Supersede
<1>5. \A g \in Loads : superseded[g] => superseded'[g]
  BY Zenon DEF Supersede
<1>6. Unwatched => Unwatched'
  BY DEF Supersede, Unwatched
<1>. QED  BY <1>1, <1>2, <1>4, <1>5, <1>6

(* Each key keeps what it has, with its epoch, or has nothing of a load.   *)
LEMMA EntryStep ==
    ASSUME LoadInv, UNCHANGED <<started, seen>>, started \in Nat,
           \A k \in Keys : \/ by'[k] = NoLoad
                           \/ by'[k] = by[k] /\ state'[k] = state[k] /\ epoch'[k] = epoch[k]
    PROVE  Sourced' /\ NoStaleLoad'
  BY DEF LoadInv, Sourced, NoStaleLoad

(* Set, Delete and Clear overtake the loads of the keys they change.       *)
LEMMA WriteStep ==
    ASSUME TypeOK, LoadInv, NEW t \in Callers, Set(t) \/ Delete(t) \/ Clear(t)
    PROVE  LoadInv'
<1>. DEFINE Kept(k) == by'[k] = by[k] /\ state'[k] = state[k] /\ epoch'[k] = epoch[k]
<1>1. UNCHANGED <<started, keyOf, seen, phase, inflight>>
  BY Zenon DEF Set, Delete, Clear
<1>2. ASSUME NEW K \in SUBSET Keys, Supersede(K, {}),
             \A k \in Keys \ K : epoch'[k] = epoch[k],
             \A k \in Keys : by'[k] = NoLoad \/ Kept(k)
      PROVE  LoadInv'
  <2>1. Current' /\ OwnKey'
    BY <1>1, <1>2, SupersedeStep, ChangeStep, Zenon DEF Running
  <2>2. Sourced' /\ NoStaleLoad'
    BY <1>1, <1>2, EntryStep DEF TypeOK
  <2>3. Unwatched'
    BY <1>1, <1>2, SupersedeStep, Zenon DEF LoadInv
  <2>. QED  BY <2>1, <2>2, <2>3 DEF LoadInv
<1>3. CASE Set(t) \/ Delete(t)
  <2>1. arg[t] \in Keys /\ Supersede({arg[t]}, {})
    BY <1>3 DEF Set, Delete, TypeOK
  <2>2. \A k \in Keys \ {arg[t]} : epoch'[k] = epoch[k]
    BY <1>3 DEF Set, Delete, Change
  <2>3. \A k \in Keys : by'[k] = NoLoad \/ Kept(k)
    BY <1>3, <2>1 DEF Set, Delete, Put, Change
  <2>. HIDE DEF Kept
  <2>. QED  BY <1>2, <2>1, <2>2, <2>3
<1>4. CASE Clear(t)
  <2>1. Supersede(Keys, {})
    BY <1>4, Zenon DEF Clear
  <2>2. \A k \in Keys : by'[k] = NoLoad
    BY <1>4 DEF Clear, Put
  <2>. QED  BY <1>2, <2>1, <2>2
<1>. QED  BY <1>3, <1>4

(* DeletePrefix overtakes the flights of matching keys.  It does not find  *)
(* the watch of a matching key that holds nothing.                         *)
LEMMA PrefixStep ==
    ASSUME TypeOK, LoadInv, ~BulkLoads \/ Prefixes = {}, NEW t \in Callers, DeletePrefix(t)
    PROVE  LoadInv'
<1>. DEFINE Held(K) == {k \in K : state[k] # "none"}
            Flights(K) == {inflight[k] : k \in K} \cup {orphans[k] : k \in K}
<1>0. ~BulkLoads /\ \A k \in Keys : watches[k] = {}
  BY DEF DeletePrefix, LoadInv, Unwatched
<1>1. PICK K \in Prefixes :
        /\ Change(K)
        /\ superseded' = [f \in Loads |-> superseded[f] \/ f \in Flights(K) \cup UNION {watches[k] : k \in Held(K)}]
        /\ orphans' = [k \in Keys |-> IF k \in Held(K) THEN NoLoad ELSE orphans[k]]
        /\ watches' = [k \in Keys |-> IF k \in Held(K) THEN {} ELSE watches[k]]
        /\ Put(Held(K), "none", NoLoad)
  BY Zenon DEF DeletePrefix
<1>2. K \in SUBSET Keys /\ UNCHANGED <<started, keyOf, seen, phase, inflight>>
  BY PrefixType DEF DeletePrefix
<1>3. /\ \A k \in Keys \ K : epoch'[k] = epoch[k] /\ Registered(k)' = Registered(k)
      /\ \A k \in K : Registered(k)' \subseteq Registered(k)
  <2>1. /\ \A k \in Keys \ K : epoch'[k] = epoch[k] /\ orphans'[k] = orphans[k] /\ watches'[k] = watches[k]
        /\ \A k \in K : orphans'[k] \in {orphans[k], NoLoad} /\ watches'[k] \subseteq watches[k]
    BY <1>1, <1>2 DEF Change
  <2>. QED  BY <1>2, <2>1 DEF Registered
<1>4. /\ \A k \in K : \A g \in Registered(k) : superseded'[g]
      /\ \A g \in Loads : superseded[g] => superseded'[g]
  <2>1. \A k \in K : Registered(k) \subseteq Flights(K) \cap Loads
    BY <1>0, <1>2 DEF Registered, TypeOK
  <2>. QED  BY <1>1, <2>1, Zenon
<1>5. Current' /\ OwnKey'
  <2>1. \A k \in K : \A g \in Registered(k) \ {NoLoad} : superseded'[g]
    BY <1>4
  <2>2. \A g \in Loads : Running(g)' => Running(g) /\ g \notin {NoLoad}
    BY <1>2 DEF Running
  <2>3. UNCHANGED <<started, keyOf, seen>> /\ K \in SUBSET Keys
    BY <1>2
  <2>. HIDE DEF Held, Flights
  <2>. QED  BY <1>3, <1>4, <2>1, <2>2, <2>3, ChangeStep, Zenon
<1>6. Sourced' /\ NoStaleLoad'
  <2>1. \A k \in Keys : \/ by'[k] = NoLoad
                        \/ by'[k] = by[k] /\ state'[k] = state[k] /\ epoch'[k] = epoch[k]
    BY <1>1, <1>2 DEF Put, Change, LoadInv, Sourced
  <2>. QED  BY <1>2, <2>1, EntryStep DEF TypeOK
<1>7. Unwatched'
  BY <1>0, <1>1 DEF Unwatched
<1>. QED  BY <1>5, <1>6, <1>7 DEF LoadInv

(* A flight that starts supersedes the orphan of its key.                  *)
LEMMA StartFlightStep ==
    ASSUME TypeOK, LoadInv, NEW f \in Loads, NEW k \in Keys, inflight[k] = NoLoad,
           StartFlight(f, k), UNCHANGED <<state, by, epoch>>
    PROVE  LoadInv'
<1>1. PICK p \in {"queued", "loading"} : NewLoad(f, k, p)
  BY DEF StartFlight
<1>2. f \in Registered(k)'
  BY DEF StartFlight, Registered, TypeOK
<1>3. \A j \in Keys : Registered(j)' \subseteq Registered(j) \cup (IF j = k THEN {f} ELSE {})
  BY DEF StartFlight, Registered, TypeOK
<1>4. \A j \in Keys : \A g \in Registered(j) : g \in Registered(j)' \/ superseded'[g]
  <2>. SUFFICES ASSUME NEW j \in Keys, NEW g \in Registered(j)
                PROVE  g \in Registered(j)' \/ superseded'[g]
    OBVIOUS
  <2>1. CASE j = k /\ g = orphans[k]
    BY <2>1, Zenon DEF StartFlight, Registered, TypeOK
  <2>2. CASE j # k \/ g # orphans[k]
    BY <2>2 DEF StartFlight, Registered, TypeOK
  <2>. QED  BY <2>1, <2>2
<1>5. \A g \in Loads : superseded[g] => superseded'[g]
  BY Zenon DEF StartFlight
<1>6. Unwatched'
  BY Zenon DEF StartFlight, LoadInv, Unwatched
<1>. QED  BY <1>1, <1>2, <1>3, <1>4, <1>5, <1>6, StartLoadStep

(* A bulk load watches its key from its start.                             *)
LEMMA WatchKeyStep ==
    ASSUME TypeOK, LoadInv, NEW t \in Callers, WatchKey(t)
    PROVE  LoadInv'
<1>. arg[t] \in Keys
  BY DEF TypeOK
<1>1. PICK f \in Loads : /\ NewLoad(f, arg[t], "loading")
                         /\ watches' = [watches EXCEPT ![arg[t]] = @ \cup {f}]
  BY Zenon DEF WatchKey
<1>2. UNCHANGED <<state, by, inflight, orphans, superseded, epoch>>
  BY DEF WatchKey
<1>3. \A j \in Keys : Registered(j)' = Registered(j) \cup (IF j = arg[t] THEN {f} ELSE {})
  BY <1>1, <1>2 DEF Registered, TypeOK
<1>4. Unwatched'
  BY Zenon DEF WatchKey, TypeOK, Ops, Unwatched
<1>. QED  BY <1>1, <1>2, <1>3, <1>4, StartLoadStep

(* A flight that everybody has left moves to orphans, and supersedes the   *)
(* one it finds there.                                                     *)
LEMMA GiveUpStep ==
    ASSUME TypeOK, LoadInv, NEW t \in Callers, GiveUp(t)
    PROVE  LoadInv'
<1>. DEFINE f == on[t]
            k == keyOf[f]
<1>0. f \in Loads /\ k \in Keys
  BY DEF GiveUp, TypeOK
<1>1. UNCHANGED <<state, by, watches, started, keyOf, phase, seen, epoch>>
  BY DEF GiveUp
<1>2. CASE UNCHANGED <<inflight, orphans, superseded>>
  BY <1>1, <1>2, QuietStep DEF Running
<1>3. CASE ~UNCHANGED <<inflight, orphans, superseded>>
  <2>1. /\ inflight[k] = f
        /\ inflight' = [inflight EXCEPT ![k] = NoLoad]
        /\ orphans' = [orphans EXCEPT ![k] = f]
        /\ superseded' = [g \in Loads |-> superseded[g] \/ (g = orphans[k] /\ g # NoLoad)]
    BY <1>3, Zenon DEF GiveUp
  <2>2. \A j \in Keys : Registered(j)' \subseteq Registered(j)
    BY <1>0, <1>1, <2>1 DEF Registered, TypeOK
  <2>3. \A j \in Keys : \A g \in Registered(j) : g \in Registered(j)' \/ superseded'[g]
    <3>. SUFFICES ASSUME NEW j \in Keys, NEW g \in Registered(j)
                  PROVE  g \in Registered(j)' \/ superseded'[g]
      OBVIOUS
    <3>1. CASE j = k /\ g = orphans[k]
      BY <2>1, <3>1, Zenon DEF Registered, TypeOK
    <3>2. CASE j # k \/ g # orphans[k]
      BY <1>0, <1>1, <2>1, <3>2 DEF Registered, TypeOK
    <3>. QED  BY <3>1, <3>2
  <2>4. Current'
    <3>. SUFFICES ASSUME NEW g \in Loads, Running(g)', ~superseded'[g]
                  PROVE  g \in Registered(keyOf[g])' /\ seen[g] = epoch[keyOf[g]]
      BY <1>1, Zenon DEF Current
    <3>1. Running(g) /\ ~superseded[g] /\ keyOf[g] \in Keys
      BY <1>1, <2>1, Zenon DEF Running, TypeOK
    <3>2. g \in Registered(keyOf[g]) /\ seen[g] = epoch[keyOf[g]]
      BY <3>1 DEF LoadInv, Current
    <3>3. g \in Registered(keyOf[g])'
      <4>1. \A j \in Keys : g \in Registered(j) => g \in Registered(j)'
        BY <2>3
      <4>. QED  BY <1>1, <3>1, <3>2, <4>1, Zenon
    <3>. QED  BY <3>2, <3>3, Zenon
  <2>5. OwnKey' /\ Unwatched'
    BY <1>1, <2>2 DEF LoadInv, OwnKey, Unwatched
  <2>6. Sourced' /\ NoStaleLoad'
    BY <1>1 DEF LoadInv, Sourced, NoStaleLoad
  <2>. QED  BY <2>4, <2>5, <2>6 DEF LoadInv
<1>. QED  BY <1>2, <1>3

(* A load that was not overtaken stores its result.                        *)
LEMMA StoreResultStep ==
    ASSUME TypeOK, LoadInv, NEW f \in Loads, StoreLoaded(f) \/ StoreNotFound(f)
    PROVE  LoadInv'
<1>. DEFINE k == keyOf[f]
<1>0. k \in Keys /\ UNCHANGED <<started, keyOf, seen, epoch>>
  BY Zenon DEF StoreLoaded, StoreNotFound, TypeOK
<1>1. seen[f] = epoch[k] /\ f <= started
  <2>1. Running(f) /\ ~superseded[f]
    BY DEF StoreLoaded, StoreNotFound, Ends, Keeps, Running
  <2>. QED  BY <1>0, <2>1 DEF LoadInv, Current, OwnKey
<1>2. \A g \in Loads : Running(g)' => Running(g) /\ g \notin {f}
  BY Zenon DEF StoreLoaded, StoreNotFound, Ends, Running, TypeOK
<1>3. Sourced' /\ NoStaleLoad'
  <2>1. \A j \in Keys : \/ by'[j] = by[j] /\ state'[j] = state[j]
                        \/ j = k /\ by'[j] = f /\ state'[j] # "none"
    BY <1>0 DEF StoreLoaded, StoreNotFound, Put
  <2>. QED  BY <1>0, <1>1, <2>1, Zenon DEF LoadInv, Sourced, NoStaleLoad
<1>4. CASE StoreLoaded(f)
  <2>1. Supersede({k}, {f}) /\ \A j \in Keys : inflight'[j] = inflight[j] \/ (j \in {k} /\ inflight'[j] = NoLoad)
    BY <1>0, <1>4 DEF StoreLoaded, TypeOK
  <2>2. /\ \A j \in Keys \ {k} : Registered(j)' = Registered(j)
        /\ \A j \in {k} : Registered(j)' \subseteq Registered(j)
        /\ \A j \in {k} : \A g \in Registered(j) \ {f} : superseded'[g]
        /\ \A g \in Loads : superseded[g] => superseded'[g]
        /\ Unwatched'
    <3>1. {k} \in SUBSET Keys /\ Unwatched
      BY <1>0 DEF LoadInv
    <3>. HIDE DEF k
    <3>. QED  BY <2>1, <3>1, SupersedeStep, Zenon
  <2>3. Current' /\ OwnKey'
    <3>1. {k} \in SUBSET Keys /\ \A j \in Keys \ {k} : epoch'[j] = epoch[j] /\ Registered(j)' = Registered(j)
      BY <1>0, <2>2
    <3>. HIDE DEF k
    <3>. QED  BY <1>0, <1>2, <2>2, <3>1, ChangeStep, Zenon
  <2>. QED  BY <1>3, <2>2, <2>3 DEF LoadInv
<1>5. CASE StoreNotFound(f)
  BY <1>0, <1>2, <1>3, <1>5, LeaveStep DEF StoreNotFound, LoadInv
<1>. QED  BY <1>4, <1>5

(* Every step keeps what NoStaleLoad rests on.                             *)
LEMMA LoadInvStep ==
    ASSUME TypeOK, LoadInv, ~BulkLoads \/ Prefixes = {}, [Next]_vars
    PROVE  LoadInv'
<1>1. ASSUME NEW t \in Callers, Call(t) PROVE LoadInv'
  <2>. arg[t] \in Keys
    BY DEF TypeOK
  <2>1. CASE Enter(t) \/ Close(t) \/ Serve(t) \/ RateLimited(t) \/ Join(t) \/ RefreshBusy(t)
             \/ Return(t) \/ BulkReturn(t)
    <3>1. UNCHANGED <<state, by, registry, started, keyOf, superseded, seen, epoch, phase>>
      BY <2>1, Zenon DEF Enter, Close, Serve, RateLimited, Join, RefreshBusy, Return, BulkReturn, DropError
    <3>. QED  BY <3>1, QuietStep DEF Running
  <2>2. CASE Lead(t) \/ Refresh(t)
    <3>1. /\ inflight[arg[t]] = NoLoad /\ UNCHANGED <<state, by, epoch>>
          /\ \E f \in Loads : StartFlight(f, arg[t])
      BY <2>2, Zenon DEF Lead, Refresh, DropError
    <3>. QED  BY <3>1, StartFlightStep, Zenon
  <2>3. CASE BulkHit(t)
    <3>1. /\ on[t] \in Loads /\ UNCHANGED <<state, by, inflight, orphans, started, keyOf, superseded,
                                           seen, epoch>>
          /\ watches' = [watches EXCEPT ![arg[t]] = @ \ {on[t]}]
          /\ phase' = [phase EXCEPT ![on[t]] = "done"]
      BY <2>3 DEF BulkHit, TypeOK
    <3>2. \A j \in Keys : /\ Registered(j)' \subseteq Registered(j)
                          /\ Registered(j) \ {on[t]} \subseteq Registered(j)'
      BY <3>1 DEF Registered, TypeOK
    <3>3. \A g \in Loads : Running(g)' => Running(g) /\ g # on[t]
      BY <3>1 DEF Running, TypeOK
    <3>4. Current'
      BY <3>1, <3>2, <3>3, Zenon DEF LoadInv, Current, TypeOK
    <3>5. OwnKey' /\ Unwatched'
      BY <3>1, <3>2 DEF LoadInv, OwnKey, Unwatched, TypeOK
    <3>6. Sourced' /\ NoStaleLoad'
      BY <3>1, Zenon DEF LoadInv, Sourced, NoStaleLoad
    <3>. QED  BY <3>4, <3>5, <3>6 DEF LoadInv
  <2>. QED
    BY <1>1, <2>1, <2>2, <2>3, GiveUpStep, WatchKeyStep, WriteStep, PrefixStep, Zenon DEF Call
<1>2. ASSUME NEW f \in Loads, Run(f) \/ AcquireSlot(f) \/ TooManyInFlight(f) \/ Expire(f)
      PROVE  LoadInv'
  <2>1. CASE Finish(f) \/ AcquireSlot(f) \/ Expire(f)
    <3>1. UNCHANGED <<state, by, registry, started, keyOf, superseded, seen, epoch>>
      BY <2>1, Zenon DEF Finish, AcquireSlot, Expire
    <3>2. \A g \in Loads : Running(g)' => Running(g)
      BY <2>1, Zenon DEF Finish, AcquireSlot, Expire, Running, TypeOK
    <3>. QED  BY <3>1, <3>2, QuietStep
  <2>2. CASE StoreError(f) \/ StoreNothing(f) \/ TooManyInFlight(f)
    <3>1. UNCHANGED <<state, by, started, keyOf, superseded, seen, epoch>> /\ Leave(f)
      BY <2>2 DEF StoreError, StoreNothing, TooManyInFlight
    <3>2. \A g \in Loads : Running(g)' => Running(g) /\ g # f
      BY <2>2, Zenon DEF StoreError, StoreNothing, TooManyInFlight, Ends, Running, TypeOK
    <3>3. Sourced' /\ NoStaleLoad'
      BY <3>1 DEF LoadInv, Sourced, NoStaleLoad
    <3>. QED  BY <3>1, <3>2, <3>3, LeaveStep DEF LoadInv
  <2>. QED  BY <1>2, <2>1, <2>2, StoreResultStep, Zenon DEF Run
<1>3. ASSUME NEW k \in Keys, Evict(k) PROVE LoadInv'
  <2>1. UNCHANGED <<registry, started, keyOf, superseded, seen, epoch, phase>>
    BY <1>3 DEF Evict
  <2>2. Current' /\ OwnKey' /\ Unwatched'
    BY <2>1 DEF LoadInv, Current, OwnKey, Unwatched, Registered, Running
  <2>3. Sourced' /\ NoStaleLoad'
    <3>1. \A j \in Keys : by'[j] = NoLoad \/ (by'[j] = by[j] /\ state'[j] = state[j] /\ epoch'[j] = epoch[j])
      BY <1>3, <2>1 DEF Evict, Put
    <3>. QED  BY <2>1, <3>1, EntryStep DEF TypeOK
  <2>. QED  BY <2>2, <2>3 DEF LoadInv
<1>4. CASE Finished \/ UNCHANGED vars
  <2>1. UNCHANGED <<state, by, registry, started, keyOf, superseded, seen, epoch, phase>>
    BY <1>4 DEF Finished, vars
  <2>. QED  BY <2>1, QuietStep DEF Running
<1>. QED  BY <1>1, <1>2, <1>3, <1>4 DEF Next

(* For every number of keys, callers and loads: no load that a write, a    *)
(* delete or an invalidation has overtaken stores its result, unless bulk  *)
(* loads and DeletePrefix are used together.                               *)
THEOREM LoadsNeverStale ==
    ASSUME ~BulkLoads \/ Prefixes = {}
    PROVE  Spec => []NoStaleLoad
<1>1. Init => TypeOK /\ LoadInv
  <2>. SUFFICES ASSUME Init PROVE LoadInv
    BY InitType
  <2>1. \A f \in Loads : ~Running(f)
    BY DEF Init, Running
  <2>2. \A k \in Keys : Registered(k) = {}
    BY DEF Init, Registered
  <2>3. Current /\ OwnKey
    BY <2>1, <2>2, Zenon DEF Current, OwnKey
  <2>4. Sourced /\ Unwatched /\ NoStaleLoad
    BY DEF Init, Sourced, Unwatched, NoStaleLoad
  <2>. QED  BY <2>3, <2>4 DEF LoadInv
<1>2. TypeOK /\ LoadInv /\ [Next]_vars => (TypeOK /\ LoadInv)'
  BY LoadInvStep, TypeStep
<1>3. LoadInv => NoStaleLoad
  BY DEF LoadInv
<1>. QED  BY <1>1, <1>2, <1>3, PTL DEF Spec

=============================================================================
