------------------------------ MODULE Janitor -------------------------------
(***************************************************************************)
(* The janitors of expiry.go: a goroutine per shard that sweeps expired    *)
(* entries at every tick of a timer, ends itself after some idle ticks, is *)
(* started again by the next insert with a TTL, and is stopped by Close.   *)
(* One shard is modelled; the shards' janitors share nothing but sealed.   *)
(***************************************************************************)
EXTENDS Naturals, Sequences

CONSTANTS
    Timed,        \* the keys of the shard that are set with a TTL
    IdleTicks,    \* janitorIdleShutdownTicks
    MaxJanitors   \* bound: janitors ever started

VARIABLES
    ttl,          \* [Timed -> {"none", "fresh", "expired"}]: s.ttl and the clock
    running,      \* s.janitor.running
    janitors,     \* the goroutines started so far with their timers
    sealed,       \* c.sealed
    close         \* the step of Cache.Close

vars == <<ttl, running, janitors, sealed, close>>

(* A janitor has a timer, a one-place tick channel and a stop channel; the *)
(* fields s.janitor.timer and s.janitor.stop are those of the last one.    *)
NewJanitor == [alive |-> TRUE, armed |-> TRUE, tick |-> FALSE, stop |-> FALSE, idle |-> 0]

Last == Len(janitors)

Init ==
    /\ ttl = [k \in Timed |-> "none"]
    /\ running = FALSE
    /\ janitors = <<>>
    /\ sealed = FALSE
    /\ close = "no"

(* startJanitorLocked, under the shard's lock with the insert.             *)
StartJanitorLocked ==
    IF running
    THEN UNCHANGED <<running, janitors>>
    ELSE running' = TRUE /\ janitors' = Append(janitors, NewJanitor)

(* A Set with a TTL; a sealed cache refuses it.                            *)
Insert(k) ==
    /\ ~sealed
    /\ running \/ Last < MaxJanitors
    /\ ttl' = [ttl EXCEPT ![k] = "fresh"]
    /\ StartJanitorLocked
    /\ UNCHANGED <<sealed, close>>

(* A delete, an eviction, or a Get that finds the entry expired.           *)
Remove(k) ==
    /\ ttl[k] # "none"
    /\ ttl' = [ttl EXCEPT ![k] = "none"]
    /\ UNCHANGED <<running, janitors, sealed, close>>

Expire(k) ==
    /\ ttl[k] = "fresh"
    /\ ttl' = [ttl EXCEPT ![k] = "expired"]
    /\ UNCHANGED <<running, janitors, sealed, close>>

(* The timer's function: a tick that finds the channel full is dropped.    *)
Fire(j) ==
    /\ janitors[j].armed
    /\ janitors' = [janitors EXCEPT ![j].armed = FALSE, ![j].tick = TRUE]
    /\ UNCHANGED <<ttl, running, sealed, close>>

Swept == [k \in Timed |-> IF ttl[k] = "expired" THEN "none" ELSE ttl[k]]

(* Whether a tick was idle: nothing removed and nothing left.              *)
Idle == \A k \in Timed : ttl[k] = "none"

ClearNothing == UNCHANGED running

(* The idle shutdown lets the next insert start another janitor.           *)
ClearRunning == running' = FALSE

(* One turn of runJanitor on a tick, under the shard's lock.               *)
Sweep(j) ==
    /\ janitors[j].alive /\ janitors[j].tick
    /\ ttl' = Swept
    /\ LET idle == IF Idle THEN janitors[j].idle + 1 ELSE 0
       IN  IF idle >= IdleTicks
           THEN /\ ClearRunning
                /\ janitors' = [janitors EXCEPT ![j].tick = FALSE, ![j].idle = idle,
                                                ![j].alive = FALSE, ![Last].armed = FALSE]
           ELSE /\ UNCHANGED running
                /\ janitors' = [janitors EXCEPT ![j].tick = FALSE, ![j].idle = idle,
                                                ![Last].armed = TRUE]
    /\ UNCHANGED <<sealed, close>>

SeeStop(j) ==
    /\ janitors[j].alive /\ janitors[j].stop
    /\ janitors' = [janitors EXCEPT ![j].alive = FALSE]
    /\ UNCHANGED <<ttl, running, sealed, close>>

-----------------------------------------------------------------------------
(* Close seals the cache, stops the janitor and resets the shard.          *)

Seal ==
    /\ close = "no"
    /\ sealed' = TRUE
    /\ close' = "stop"
    /\ UNCHANGED <<ttl, running, janitors>>

(* stopJanitor clears running under the lock ...                           *)
StopJanitor ==
    /\ close = "stop"
    /\ running' = FALSE
    /\ close' = IF running THEN "timer" ELSE "reset"
    /\ UNCHANGED <<ttl, janitors, sealed>>

(* ... and stops the timer and closes the stop channel after it.           *)
StopTimer ==
    /\ close = "timer"
    /\ janitors' = [janitors EXCEPT ![Last].armed = FALSE]
    /\ close' = "signal"
    /\ UNCHANGED <<ttl, running, sealed>>

Signal ==
    /\ close = "signal"
    /\ janitors' = [janitors EXCEPT ![Last].stop = TRUE]
    /\ close' = "reset"
    /\ UNCHANGED <<ttl, running, sealed>>

Reset ==
    /\ close = "reset"
    /\ ttl' = [k \in Timed |-> "none"]
    /\ close' = "done"
    /\ UNCHANGED <<running, janitors, sealed>>

Turn == \E j \in 1..Last : Fire(j) \/ Sweep(j) \/ SeeStop(j)
CloseStep == StopJanitor \/ StopTimer \/ Signal \/ Reset

Next ==
    \/ \E k \in Timed : Insert(k) \/ Remove(k) \/ Expire(k)
    \/ Turn \/ Seal \/ CloseStep

(* An armed timer fires and a janitor with a tick or a stop signal goes    *)
(* on; Close, once called, proceeds.  Nobody has to call.                  *)
Fairness == WF_vars(Turn) /\ WF_vars(CloseStep)

Spec == Init /\ [][Next]_vars /\ Fairness

-----------------------------------------------------------------------------
(* Properties.                                                             *)

(* While a shard of an open cache holds an entry with a TTL, its janitor   *)
(* runs and has a tick to come: idle shutdown and the next insert's start  *)
(* leave no gap between them.                                              *)
JanitorAttends ==
    ~sealed /\ ~Idle =>
        /\ running /\ janitors[Last].alive
        /\ janitors[Last].armed \/ janitors[Last].tick

(* A shard has at most one janitor that was not told to stop, and it is    *)
(* the one whose timer and stop channel the shard's fields hold.           *)
OneJanitor ==
    \A j \in 1..Last : janitors[j].alive => j = Last

(* An expired entry is swept, or removed or replaced before that, however  *)
(* often the janitor has shut itself down for want of work.                *)
ExpiredSwept == \A k \in Timed : ttl[k] = "expired" ~> ttl[k] # "expired"

(* Close has been called and a janitor or its timer still runs.            *)
Closing == sealed /\ \E j \in 1..Last : janitors[j].alive \/ janitors[j].armed

=============================================================================
