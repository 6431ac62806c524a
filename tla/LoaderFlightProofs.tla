------------------------- MODULE LoaderFlightProofs -------------------------
(***************************************************************************)
(* Proofs about the flights of Loader and the order in which they store,   *)
(* for every set of keys and callers and every bound.                      *)
(***************************************************************************)
EXTENDS LoaderProofs, FiniteSetTheorems

USE DEF entry, registry, flight, caller, Goto, Loads, NoLoad

-----------------------------------------------------------------------------
(* What keeps SingleFlight and CanceledOnlyAbandoned: references count the *)
(* waiters, and a load that can be joined is the one inflight names.       *)

(* A load has a reference for each of its waiters at least, and no waiter  *)
(* before it has started.                                                  *)
Counted ==
    \A f \in Loads : /\ IsFiniteSet(Waiting(f)) /\ Cardinality(Waiting(f)) <= refs[f]
                     /\ f > started => Waiting(f) = {}

(* A running load that somebody waits for is the one of its key that later *)
(* callers join.                                                           *)
Joinable == \A f \in Loads : Running(f) /\ Waiting(f) # {} => inflight[keyOf[f]] = f

(* A running load that has been canceled is left, and cannot be joined.    *)
Abandoned ==
    /\ canceled \subseteq 1..started
    /\ \A f \in canceled : Running(f) => Waiting(f) = {} /\ inflight[keyOf[f]] # f

(* inflight names loads of the right key.                                  *)
FlightOwn == \A k \in Keys : inflight[k] # NoLoad => keyOf[inflight[k]] = k /\ inflight[k] <= started

FlightInv == Counted /\ Joinable /\ Abandoned /\ FlightOwn

-----------------------------------------------------------------------------
(* FlightInv is inductive.                                                 *)

(* A step that starts, joins and cancels nothing: waiters may leave, and   *)
(* inflight may forget a load that has ended.                              *)
LEMMA ShrinkStep ==
    ASSUME TypeOK, FlightInv, UNCHANGED <<started, keyOf, refs, canceled>>,
           \A f \in Loads : Running(f)' => Running(f),
           \A f \in Loads : Waiting(f)' \subseteq Waiting(f),
           \A k \in Keys : \/ inflight'[k] = inflight[k]
                           \/ inflight'[k] = NoLoad /\ \E f \in Loads : inflight[k] = f /\ ~Running(f)'
    PROVE  FlightInv'
<1>1. Counted'
  <2>. SUFFICES ASSUME NEW f \in Loads
                PROVE  /\ IsFiniteSet(Waiting(f)') /\ Cardinality(Waiting(f)') <= refs[f]
                       /\ f > started => Waiting(f)' = {}
    BY DEF Counted
  <2>1. IsFiniteSet(Waiting(f)) /\ Cardinality(Waiting(f)) <= refs[f] /\ (f > started => Waiting(f) = {})
    BY DEF FlightInv, Counted
  <2>2. /\ IsFiniteSet(Waiting(f)') /\ Cardinality(Waiting(f)') <= Cardinality(Waiting(f))
        /\ Cardinality(Waiting(f)) \in Nat /\ Cardinality(Waiting(f)') \in Nat
    BY <2>1, FS_Subset, FS_CardinalityType
  <2>3. refs[f] \in Int
    BY DEF TypeOK
  <2>. QED  BY <2>1, <2>2, <2>3
<1>2. Joinable'
  <2>. SUFFICES ASSUME NEW f \in Loads, Running(f)', Waiting(f)' # {}
                PROVE  inflight'[keyOf[f]] = f
    BY DEF Joinable
  <2>1. inflight[keyOf[f]] = f /\ keyOf[f] \in Keys
    BY DEF FlightInv, Joinable, TypeOK
  <2>. QED  BY <2>1
<1>3. Abandoned'
  <2>. SUFFICES ASSUME NEW f \in canceled, Running(f)'
                PROVE  Waiting(f)' = {} /\ inflight'[keyOf[f]] # f
    BY DEF FlightInv, Abandoned
  <2>1. f \in Loads /\ keyOf[f] \in Keys /\ f # NoLoad
    BY BoundTypes DEF TypeOK
  <2>2. Waiting(f) = {} /\ inflight[keyOf[f]] # f
    BY <2>1 DEF FlightInv, Abandoned
  <2>. QED  BY <2>1, <2>2
<1>4. FlightOwn'
  BY DEF FlightInv, FlightOwn
<1>. QED  BY <1>1, <1>2, <1>3, <1>4 DEF FlightInv

(* A load starts, with one reference and at most one waiter, in inflight   *)
(* if it has one.                                                          *)
LEMMA StartFlightInv ==
    ASSUME TypeOK, FlightInv, NEW f \in Loads, NEW k \in Keys, NEW p \in {"queued", "loading"},
           NewLoad(f, k, p), NEW t,
           \A g \in Loads \ {f} : Waiting(g)' = Waiting(g),
           \/ Waiting(f)' = {} /\ inflight' = inflight
           \/ /\ Waiting(f)' \in {{}, {t}} /\ inflight[k] = NoLoad
              /\ inflight' = [inflight EXCEPT ![k] = f]
    PROVE  FlightInv'
<1>1. f = started' /\ started' = started + 1 /\ started \in Nat /\ started' \in Nat
  BY NewLoadType, BoundTypes DEF TypeOK, NewLoad
<1>2. /\ \A g \in Loads \ {f} : keyOf'[g] = keyOf[g] /\ refs'[g] = refs[g] /\ phase'[g] = phase[g]
      /\ keyOf'[f] = k /\ refs'[f] = 1 /\ canceled' = canceled
  BY DEF NewLoad, TypeOK
<1>3. \A j \in Keys : inflight'[j] = inflight[j] \/ (j = k /\ inflight[j] = NoLoad /\ inflight'[j] = f)
  BY DEF TypeOK
<1>4. \A j \in Keys : inflight[j] # f
  BY <1>1 DEF FlightInv, FlightOwn, TypeOK
<1>5. Counted'
  <2>. SUFFICES ASSUME NEW g \in Loads
                PROVE  /\ IsFiniteSet(Waiting(g)') /\ Cardinality(Waiting(g)') <= refs'[g]
                       /\ g > started' => Waiting(g)' = {}
    BY DEF Counted
  <2>1. CASE g = f
    <3>1. Waiting(f)' \in {{}, {t}}
      OBVIOUS
    <3>2. IsFiniteSet({}) /\ Cardinality({}) = 0 /\ IsFiniteSet({t}) /\ Cardinality({t}) = 1
      BY FS_EmptySet, FS_Singleton, Zenon
    <3>3. IsFiniteSet(Waiting(f)') /\ Cardinality(Waiting(f)') \in {0, 1}
      BY <3>1, <3>2
    <3>. QED  BY <1>1, <1>2, <2>1, <3>3
  <2>2. CASE g # f
    <3>1. Waiting(g)' = Waiting(g) /\ refs'[g] = refs[g]
      BY <1>2, <2>2
    <3>2. IsFiniteSet(Waiting(g)) /\ Cardinality(Waiting(g)) <= refs[g] /\ (g > started => Waiting(g) = {})
      BY DEF FlightInv, Counted
    <3>. QED  BY <1>1, <3>1, <3>2
  <2>. QED  BY <2>1, <2>2
<1>6. Joinable'
  <2>. SUFFICES ASSUME NEW g \in Loads, Running(g)', Waiting(g)' # {}
                PROVE  inflight'[keyOf'[g]] = g
    BY DEF Joinable
  <2>1. CASE g = f
    BY <1>2, <2>1 DEF TypeOK
  <2>2. CASE g # f
    <3>1. Running(g) /\ Waiting(g) # {} /\ keyOf'[g] = keyOf[g] /\ keyOf[g] \in Keys
      BY <1>2, <2>2, Zenon DEF Running, TypeOK
    <3>2. inflight[keyOf[g]] = g /\ g # NoLoad
      BY <3>1 DEF FlightInv, Joinable
    <3>. QED  BY <1>3, <3>1, <3>2
  <2>. QED  BY <2>1, <2>2
<1>7. Abandoned'
  <2>1. canceled \subseteq 1..started' /\ f \notin canceled
    BY <1>1 DEF FlightInv, Abandoned
  <2>2. ASSUME NEW g \in canceled, Running(g)'
        PROVE  Waiting(g)' = {} /\ inflight'[keyOf'[g]] # g
    <3>1. g \in Loads \ {f}
      BY <2>1 DEF TypeOK
    <3>2. Running(g) /\ keyOf'[g] = keyOf[g] /\ keyOf[g] \in Keys /\ Waiting(g)' = Waiting(g)
      BY <1>2, <2>2, <3>1, Zenon DEF Running, TypeOK
    <3>3. Waiting(g) = {} /\ inflight[keyOf[g]] # g
      BY <3>2 DEF FlightInv, Abandoned
    <3>. QED  BY <1>3, <3>1, <3>2, <3>3
  <2>. QED  BY <1>2, <2>1, <2>2 DEF Abandoned
<1>8. FlightOwn'
  <2>. SUFFICES ASSUME NEW j \in Keys, inflight'[j] # NoLoad
                PROVE  keyOf'[inflight'[j]] = j /\ inflight'[j] <= started'
    BY DEF FlightOwn
  <2>1. CASE inflight'[j] = f /\ j = k
    BY <1>1, <1>2, <2>1
  <2>2. CASE inflight'[j] = inflight[j]
    <3>1. inflight[j] \in Loads \ {f} /\ keyOf[inflight[j]] = j /\ inflight[j] <= started
      BY <1>4, <2>2 DEF FlightInv, FlightOwn, TypeOK
    <3>. QED  BY <1>1, <1>2, <2>2, <3>1
  <2>. QED  BY <1>3, <2>1, <2>2
<1>. QED  BY <1>5, <1>6, <1>7, <1>8 DEF FlightInv

(* A caller joins the load in flight, which is not a canceled one.         *)
LEMMA JoinFlightInv ==
    ASSUME TypeOK, FlightInv, NEW t \in Callers, Join(t)
    PROVE  FlightInv'
<1>1. PICK f \in Loads : f = inflight[arg[t]] /\ arg[t] \in Keys /\ keyOf[f] = arg[t] /\ f <= started
  BY DEF Join, TypeOK, FlightInv, FlightOwn
<1>2. /\ UNCHANGED <<started, keyOf, phase, inflight, canceled>>
      /\ refs' = [refs EXCEPT ![f] = @ + 1]
  BY <1>1 DEF Join
<1>3. Waiting(f)' = Waiting(f) \cup {t} /\ \A g \in Loads \ {f} : Waiting(g)' = Waiting(g)
  BY <1>1 DEF Join, Waiting, TypeOK
<1>4. Counted'
  <2>. SUFFICES ASSUME NEW g \in Loads
                PROVE  /\ IsFiniteSet(Waiting(g)') /\ Cardinality(Waiting(g)') <= refs'[g]
                       /\ g > started => Waiting(g)' = {}
    BY <1>2 DEF Counted
  <2>1. /\ IsFiniteSet(Waiting(g)) /\ Cardinality(Waiting(g)) <= refs[g] /\ (g > started => Waiting(g) = {})
        /\ Cardinality(Waiting(g)) \in Nat /\ refs[g] \in Int
    BY FS_CardinalityType DEF FlightInv, Counted, TypeOK
  <2>2. CASE g = f
    <3>0. /\ IsFiniteSet(Waiting(f) \cup {t})
          /\ Cardinality(Waiting(f) \cup {t}) \in {Cardinality(Waiting(f)), Cardinality(Waiting(f)) + 1}
      BY <2>1, <2>2, FS_AddElement
    <3>1. /\ IsFiniteSet(Waiting(g)')
          /\ Cardinality(Waiting(g)') \in {Cardinality(Waiting(g)), Cardinality(Waiting(g)) + 1}
      BY <1>3, <2>2, <3>0
    <3>2. refs'[g] = refs[g] + 1 /\ ~(g > started)
      BY <1>1, <1>2, <2>2 DEF TypeOK
    <3>. QED  BY <2>1, <3>1, <3>2
  <2>3. CASE g # f
    <3>1. Waiting(g)' = Waiting(g) /\ refs'[g] = refs[g]
      BY <1>2, <1>3, <2>3 DEF TypeOK
    <3>. QED  BY <2>1, <3>1
  <2>. QED  BY <2>2, <2>3
<1>5. Joinable' /\ Abandoned'
  <2>1. inflight[keyOf[f]] = f
    BY <1>1
  <2>2. \A g \in Loads : Running(g)' <=> Running(g)
    BY <1>2 DEF Running
  <2>3. Joinable'
    <3>. SUFFICES ASSUME NEW g \in Loads, Running(g)', Waiting(g)' # {}
                  PROVE  inflight[keyOf[g]] = g
      BY <1>2 DEF Joinable
    <3>1. CASE g = f
      BY <2>1, <3>1
    <3>2. CASE g # f
      BY <1>3, <2>2, <3>2 DEF FlightInv, Joinable
    <3>. QED  BY <3>1, <3>2
  <2>4. Abandoned'
    <3>. SUFFICES ASSUME NEW g \in canceled, Running(g)'
                  PROVE  Waiting(g)' = {} /\ inflight[keyOf[g]] # g
      BY <1>2 DEF FlightInv, Abandoned
    <3>1. g \in Loads
      BY DEF TypeOK
    <3>2. Waiting(g) = {} /\ inflight[keyOf[g]] # g
      BY <2>2, <3>1 DEF FlightInv, Abandoned
    <3>. QED  BY <1>3, <2>1, <3>1, <3>2
  <2>. QED  BY <2>3, <2>4
<1>6. FlightOwn'
  BY <1>2 DEF FlightInv, FlightOwn
<1>. QED  BY <1>4, <1>5, <1>6 DEF FlightInv

(* A waiter gives up: the last reference is given up by the last waiter.   *)
LEMMA GiveUpFlightInv ==
    ASSUME TypeOK, FlightInv, NEW t \in Callers, GiveUp(t)
    PROVE  FlightInv'
<1>1. PICK f \in Loads, k \in Keys : f = on[t] /\ k = keyOf[f] /\ f # NoLoad
  BY DEF GiveUp, TypeOK
<1>2. /\ UNCHANGED <<started, keyOf, phase>>
      /\ refs' = [refs EXCEPT ![f] = @ - 1]
      /\ canceled' = IF refs[f] = 1 THEN canceled \cup {f} ELSE canceled
  BY <1>1 DEF GiveUp
<1>3. /\ \A j \in Keys : \/ inflight'[j] = inflight[j]
                         \/ inflight'[j] = NoLoad /\ inflight[j] = f /\ refs[f] = 1
      /\ refs[f] = 1 => inflight'[k] # f
  BY <1>1 DEF GiveUp, TypeOK
<1>4. /\ t \in Waiting(f) /\ Waiting(f)' = Waiting(f) \ {t}
      /\ \A g \in Loads \ {f} : Waiting(g)' = Waiting(g)
  <2>1. pc[t] = "wait" /\ pc' = [pc EXCEPT ![t] = "idle"] /\ on' = [on EXCEPT ![t] = NoLoad]
    BY DEF GiveUp
  <2>. QED  BY <1>1, <2>1 DEF Waiting, TypeOK
<1>5. /\ IsFiniteSet(Waiting(f)) /\ Cardinality(Waiting(f)) <= refs[f] /\ Cardinality(Waiting(f)) \in Nat
      /\ IsFiniteSet(Waiting(f)') /\ Cardinality(Waiting(f)') = Cardinality(Waiting(f)) - 1
      /\ refs[f] \in Int /\ refs'[f] = refs[f] - 1 /\ f <= started
  <2>1. IsFiniteSet(Waiting(f)) /\ Cardinality(Waiting(f)) <= refs[f] /\ (f > started => Waiting(f) = {})
    BY <1>1 DEF FlightInv, Counted
  <2>2. IsFiniteSet(Waiting(f)') /\ Cardinality(Waiting(f)') = Cardinality(Waiting(f)) - 1
    BY <1>4, <2>1, FS_RemoveElement
  <2>3. refs[f] \in Int /\ refs'[f] = refs[f] - 1
    BY <1>1, <1>2 DEF TypeOK
  <2>4. f <= started
    BY <1>1, <1>4, <2>1, BoundTypes DEF TypeOK
  <2>. QED  BY <2>1, <2>2, <2>3, <2>4, FS_CardinalityType
<1>6. refs[f] = 1 => Waiting(f)' = {}
  <2>1. refs[f] = 1 => Cardinality(Waiting(f)') = 0
    <3>1. Cardinality(Waiting(f)') \in Nat
      BY <1>5, FS_CardinalityType
    <3>. QED  BY <1>5, <3>1
  <2>. QED  BY <1>5, <2>1, FS_EmptySet
<1>7. Counted'
  <2>. SUFFICES ASSUME NEW g \in Loads
                PROVE  /\ IsFiniteSet(Waiting(g)') /\ Cardinality(Waiting(g)') <= refs'[g]
                       /\ g > started => Waiting(g)' = {}
    BY <1>2 DEF Counted
  <2>1. CASE g = f
    <3>1. started \in Nat /\ f \in Nat
      BY <1>1, BoundTypes DEF TypeOK
    <3>. QED  BY <1>5, <2>1, <3>1
  <2>2. CASE g # f
    <3>1. Waiting(g)' = Waiting(g) /\ refs'[g] = refs[g]
      BY <1>2, <1>4, <2>2 DEF TypeOK
    <3>. QED  BY <3>1 DEF FlightInv, Counted
  <2>. QED  BY <2>1, <2>2
<1>8. Joinable'
  <2>. SUFFICES ASSUME NEW g \in Loads, Running(g)', Waiting(g)' # {}
                PROVE  inflight'[keyOf[g]] = g
    BY <1>2 DEF Joinable
  <2>1. Running(g) /\ Waiting(g) # {} /\ keyOf[g] \in Keys
    BY <1>2, <1>4 DEF Running, TypeOK
  <2>2. inflight[keyOf[g]] = g
    BY <2>1 DEF FlightInv, Joinable
  <2>3. CASE inflight'[keyOf[g]] = NoLoad /\ inflight[keyOf[g]] = f /\ refs[f] = 1
    BY <1>6, <2>2, <2>3
  <2>. QED  BY <1>3, <2>1, <2>2, <2>3
<1>9. Abandoned'
  <2>1. canceled' \subseteq 1..started
    <3>1. canceled \subseteq 1..started /\ f \in 1..started
      BY <1>1, <1>5, BoundTypes DEF FlightInv, Abandoned, TypeOK
    <3>. QED  BY <1>2, <3>1
  <2>2. ASSUME NEW g \in canceled', Running(g)'
        PROVE  Waiting(g)' = {} /\ inflight'[keyOf[g]] # g
    <3>1. CASE g = f /\ refs[f] = 1
      <4>1. Waiting(f)' = {} /\ inflight'[keyOf[f]] # f
        BY <1>1, <1>3, <1>6, <3>1
      <4>. QED  BY <3>1, <4>1
    <3>2. CASE g \in canceled
      <4>1. g \in Loads /\ Running(g) /\ keyOf[g] \in Keys /\ g # NoLoad
        <5>1. g \in Loads /\ g # NoLoad
          BY <3>2, BoundTypes DEF TypeOK
        <5>. QED  BY <1>2, <2>2, <5>1 DEF Running, TypeOK
      <4>2. Waiting(g) = {} /\ inflight[keyOf[g]] # g
        BY <3>2, <4>1 DEF FlightInv, Abandoned
      <4>. QED  BY <1>3, <1>4, <4>1, <4>2
    <3>. QED  BY <1>2, <2>2, <3>1, <3>2
  <2>. QED  BY <1>2, <2>1, <2>2 DEF Abandoned
<1>10. FlightOwn'
  BY <1>2, <1>3 DEF FlightInv, FlightOwn
<1>. QED  BY <1>7, <1>8, <1>9, <1>10 DEF FlightInv

(* Every step keeps FlightInv.                                             *)
LEMMA FlightInvStep ==
    ASSUME TypeOK, FlightInv, [Next]_vars
    PROVE  FlightInv'
<1>1. ASSUME NEW t \in Callers, Call(t) PROVE FlightInv'
  <2>. arg[t] \in Keys
    BY DEF TypeOK
  <2>1. CASE Enter(t) \/ Close(t) \/ Serve(t) \/ RateLimited(t) \/ RefreshBusy(t)
             \/ Return(t) \/ BulkReturn(t) \/ BulkHit(t)
             \/ Set(t) \/ Delete(t) \/ DeletePrefix(t) \/ Clear(t)
    <3>1. UNCHANGED <<started, keyOf, refs, canceled, inflight>>
      BY <2>1, Zenon DEF Enter, Close, Serve, RateLimited, RefreshBusy, Return, BulkReturn, BulkHit,
                         Set, Delete, DeletePrefix, Clear
    <3>2. \A f \in Loads : Running(f)' => Running(f)
      <4>1. UNCHANGED phase \/ (phase' = [phase EXCEPT ![on[t]] = "done"])
        BY <2>1, Zenon DEF Enter, Close, Serve, RateLimited, RefreshBusy, Return, BulkReturn, BulkHit,
                           Set, Delete, DeletePrefix, Clear
      <4>. QED  BY <4>1 DEF Running, TypeOK
    <3>3. \A f \in Loads : Waiting(f)' \subseteq Waiting(f)
      <4>1. /\ \E step : step # "wait" /\ pc' = [pc EXCEPT ![t] = step]
            /\ on' = on \/ on' = [on EXCEPT ![t] = NoLoad]
        BY <2>1 DEF Enter, Ops, Close, Serve, RateLimited, RefreshBusy, Return, BulkReturn, BulkHit,
                    Set, Delete, DeletePrefix, Clear
      <4>. QED  BY <4>1 DEF Waiting, TypeOK
    <3>. QED  BY <3>1, <3>2, <3>3, ShrinkStep
  <2>2. CASE Lead(t) \/ Refresh(t)
    <3>1. PICK f \in Loads : /\ inflight[arg[t]] = NoLoad /\ StartFlight(f, arg[t])
                             /\ \/ pc' = [pc EXCEPT ![t] = "wait"] /\ on' = [on EXCEPT ![t] = f]
                                \/ pc' = [pc EXCEPT ![t] = "idle"] /\ on' = on
      BY <2>2, Zenon DEF Lead, Refresh
    <3>2. PICK p \in {"queued", "loading"} : NewLoad(f, arg[t], p)
      BY <3>1 DEF StartFlight
    <3>3. pc[t] \in {"load", "refresh"}
      BY <2>2 DEF Lead, Refresh
    <3>4. \A g \in Loads \ {f} : Waiting(g)' = Waiting(g)
      BY <3>1, <3>3 DEF Waiting, TypeOK
    <3>5. Waiting(f) = {}
      BY <3>2, NewLoadType DEF FlightInv, Counted, TypeOK
    <3>6. Waiting(f)' \in {{}, {t}}
      <4>1. Waiting(f)' \subseteq Waiting(f) \cup {t}
        BY <3>1 DEF Waiting, TypeOK
      <4>. QED  BY <3>5, <4>1
    <3>. QED  BY <3>1, <3>2, <3>4, <3>6, StartFlightInv DEF StartFlight
  <2>3. CASE WatchKey(t)
    <3>1. PICK f \in Loads : NewLoad(f, arg[t], "loading") /\ on' = [on EXCEPT ![t] = f]
      BY <2>3 DEF WatchKey
    <3>2. pc[t] = "watch" /\ pc' = [pc EXCEPT ![t] = "bulk"] /\ inflight' = inflight
      BY <2>3 DEF WatchKey
    <3>3. \A g \in Loads : Waiting(g)' = Waiting(g)
      BY <3>1, <3>2 DEF Waiting, TypeOK
    <3>4. Waiting(f) = {}
      BY <3>1, NewLoadType DEF FlightInv, Counted, TypeOK
    <3>. QED  BY <3>1, <3>2, <3>3, <3>4, StartFlightInv
  <2>. QED  BY <1>1, <2>1, <2>2, <2>3, JoinFlightInv, GiveUpFlightInv, Zenon DEF Call
<1>2. ASSUME NEW f \in Loads, Run(f) \/ AcquireSlot(f) \/ TooManyInFlight(f) \/ Expire(f)
      PROVE  FlightInv'
  <2>1. UNCHANGED <<started, keyOf, refs, canceled, pc, on>>
    BY <1>2, Zenon DEF Run, AcquireSlot, TooManyInFlight, Expire, StoreLoaded, StoreNotFound, StoreError,
                       StoreNothing, Finish
  <2>2. \A g \in Loads : Waiting(g)' = Waiting(g)
    BY <2>1 DEF Waiting
  <2>3. CASE Finish(f) \/ AcquireSlot(f) \/ Expire(f)
    <3>1. inflight' = inflight
      BY <2>3, Zenon DEF Finish, AcquireSlot, Expire
    <3>2. \A g \in Loads : Running(g)' => Running(g)
      BY <2>3, Zenon DEF Finish, AcquireSlot, Expire, Running, TypeOK
    <3>. QED  BY <2>1, <2>2, <3>1, <3>2, ShrinkStep
  <2>4. CASE StoreLoaded(f) \/ StoreNotFound(f) \/ StoreError(f) \/ StoreNothing(f) \/ TooManyInFlight(f)
    <3>1. keyOf[f] \in Keys /\ inflight' = [inflight EXCEPT ![keyOf[f]] = IF @ = f THEN NoLoad ELSE @]
      BY <2>4 DEF StoreLoaded, StoreNotFound, StoreError, StoreNothing, TooManyInFlight, Leave, TypeOK
    <3>2. phase' = [phase EXCEPT ![f] = "left"] \/ phase' = [phase EXCEPT ![f] = "refused"]
      BY <2>4, Zenon DEF StoreLoaded, StoreNotFound, StoreError, StoreNothing, TooManyInFlight, Ends
    <3>3. ~Running(f)' /\ \A g \in Loads : Running(g)' => Running(g)
      BY <3>2 DEF Running, TypeOK
    <3>4. \A k \in Keys : inflight'[k] = inflight[k] \/ (inflight'[k] = NoLoad /\ inflight[k] = f)
      BY <3>1 DEF TypeOK
    <3>. QED  BY <2>1, <2>2, <3>3, <3>4, ShrinkStep
  <2>. QED  BY <1>2, <2>3, <2>4, Zenon DEF Run
<1>3. CASE (\E k \in Keys : Evict(k)) \/ Finished \/ UNCHANGED vars
  <2>1. UNCHANGED <<started, keyOf, refs, canceled, inflight, phase, pc, on>>
    BY <1>3, Zenon DEF Evict, Finished, vars
  <2>. QED  BY <2>1, ShrinkStep DEF Running, Waiting
<1>. QED  BY <1>1, <1>2, <1>3 DEF Next

(* FlightInv holds throughout, from what its steps keep.                   *)
LEMMA FlightsCounted == Spec => [](TypeOK /\ FlightInv)
<1>1. Init => TypeOK /\ FlightInv
  <2>. SUFFICES ASSUME Init PROVE FlightInv
    BY InitType
  <2>1. \A f \in Loads : Waiting(f) = {} /\ refs[f] = 0
    BY DEF Init, Waiting
  <2>2. Counted
    BY <2>1, FS_EmptySet DEF Counted
  <2>3. Joinable /\ Abandoned /\ FlightOwn
    BY <2>1 DEF Init, Joinable, Abandoned, FlightOwn
  <2>. QED  BY <2>2, <2>3 DEF FlightInv
<1>2. TypeOK /\ FlightInv /\ [Next]_vars => (TypeOK /\ FlightInv)'
  BY FlightInvStep, TypeStep
<1>. QED  BY <1>1, <1>2, PTL DEF Spec

(* For every number of callers, keys and loads: the callers that wait for  *)
(* the running loads of a key all wait for the same one.                   *)
THEOREM FlightsShared == Spec => []SingleFlight
<1>1. TypeOK /\ FlightInv => SingleFlight
  BY DEF TypeOK, FlightInv, Joinable, SingleFlight
<1>. QED  BY <1>1, FlightsCounted, PTL

(* For every number of callers, keys and loads: a running load is canceled *)
(* only when its last waiter has given up.                                 *)
THEOREM CancelsAbandoned == Spec => []CanceledOnlyAbandoned
<1>1. TypeOK /\ FlightInv => CanceledOnlyAbandoned
  BY DEF TypeOK, FlightInv, Abandoned, CanceledOnlyAbandoned
<1>. QED  BY <1>1, FlightsCounted, PTL

(* For every budget: a shard never keeps more errors than its limit.       *)
THEOREM ErrorsAlwaysBounded == Spec => []ErrorsBounded
<1>1. Init => TypeOK /\ ErrorsBounded
  BY InitType, FS_EmptySet, ErrorLimitType DEF Init, ErrorsBounded
<1>2. TypeOK /\ ErrorsBounded /\ [Next]_vars => (TypeOK /\ ErrorsBounded)'
  <2>. SUFFICES ASSUME TypeOK, ErrorsBounded, [Next]_vars PROVE ErrorsBounded'
    BY TypeStep
  <2>1. IsFiniteSet(errors) /\ Cardinality(errors) \in Nat
    BY KeysFinite, FS_Subset, FS_CardinalityType DEF TypeOK
  <2>2. CASE \E f \in Loads : StoreError(f)
    <3>1. PICK f \in Loads, E \in SUBSET errors :
                 /\ E # errors => keyOf[f] \notin errors
                 /\ keyOf[f] \notin errors => Cardinality(E) < ErrorLimit
                 /\ errors' = E \cup {keyOf[f]}
      BY <2>2 DEF StoreError
    <3>2. CASE keyOf[f] \in errors
      <4>1. errors' = errors
        BY <3>1, <3>2
      <4>. QED  BY <4>1 DEF ErrorsBounded
    <3>3. CASE keyOf[f] \notin errors
      <4>1. IsFiniteSet(E) /\ Cardinality(E) \in Nat
        BY <2>1, FS_Subset, FS_CardinalityType
      <4>2. Cardinality(errors') = Cardinality(E) + 1
        BY <3>1, <3>3, <4>1, FS_AddElement
      <4>. QED  BY <3>1, <3>3, <4>1, <4>2, ErrorLimitType DEF ErrorsBounded
    <3>. QED  BY <3>2, <3>3
  <2>3. CASE errors' \subseteq errors
    <3>1. Cardinality(errors') <= Cardinality(errors) /\ Cardinality(errors') \in Nat
      BY <2>1, <2>3, FS_Subset, FS_CardinalityType
    <3>. QED  BY <2>1, <3>1, ErrorLimitType DEF ErrorsBounded
  <2>4. (\E f \in Loads : StoreError(f)) \/ errors' \subseteq errors
    <3>1. ASSUME NEW t \in Callers, Call(t) PROVE errors' \subseteq errors
      BY <3>1 DEF Call, Enter, Close, Serve, RateLimited, Join, Lead, Refresh, RefreshBusy, Return, GiveUp,
                  WatchKey, BulkHit, BulkReturn, Set, Delete, DeletePrefix, Clear, DropError
    <3>2. ASSUME NEW f \in Loads, Run(f) \/ AcquireSlot(f) \/ TooManyInFlight(f) \/ Expire(f)
          PROVE  StoreError(f) \/ errors' = errors
      BY <3>2, Zenon DEF Run, StoreLoaded, StoreNotFound, StoreNothing, Finish, AcquireSlot,
                         TooManyInFlight, Expire
    <3>3. ASSUME NEW k \in Keys, Evict(k) PROVE errors' = errors
      BY <3>3 DEF Evict
    <3>4. ASSUME Finished \/ UNCHANGED vars PROVE errors' = errors
      BY <3>4 DEF Finished, vars
    <3>. QED  BY <3>1, <3>2, <3>3, <3>4 DEF Next
  <2>. QED  BY <2>2, <2>3, <2>4
<1>. QED  BY <1>1, <1>2, PTL DEF Spec

=============================================================================
