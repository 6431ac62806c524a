----------------------------- MODULE Background -----------------------------
(***************************************************************************)
(* The background goroutines of a cache and how Close ends them: the tag   *)
(* cleanup, the janitor of a shard, and auto-save.  They share no state    *)
(* but what Close does one after the other, so a behaviour is one of Tags, *)
(* of Janitor or of Snapshot; part says which, and the variables of the    *)
(* other two stay as they began.                                           *)
(***************************************************************************)
EXTENDS Integers, Sequences, FiniteSets

CONSTANTS
    Parts,
    Tagged, Tag, TagSets, Group, Capacity, Workers, MaxCalls, QueueCap, BatchCap,
    Timed, IdleTicks, MaxJanitors,
    Shard, MaxWrites, MaxSaves, MaxFaults

VARIABLES
    part,
    entry, index, locked, queue, inflight, drainer, job, calls, clock, closing,
    ttl, running, janitors, sealed, stopping,
    mem, pending, save, load, temp, file, saving, writes, saves, faults, current, final

tagVars == <<entry, index, locked, queue, inflight, drainer, job, calls, clock, closing>>
janitorVars == <<ttl, running, janitors, sealed, stopping>>
saveVars == <<mem, pending, save, load, temp, file, saving, writes, saves, faults, current, final>>
vars == <<part, tagVars, janitorVars, saveVars>>

T == INSTANCE Tags
J == INSTANCE Janitor WITH close <- stopping
F == INSTANCE Snapshot WITH close <- saving

(* What the proofs about Tags assume of its constants.                     *)
ASSUME TagsProper == T!Proper

Init ==
    /\ part \in Parts
    /\ T!Init /\ J!Init /\ F!Init
    /\ part # "tags" => entry = CHOOSE e \in T!Starts : TRUE

Next ==
    /\ UNCHANGED part
    /\ \/ part = "tags" /\ T!Next /\ UNCHANGED <<janitorVars, saveVars>>
       \/ part = "janitor" /\ J!Next /\ UNCHANGED <<tagVars, saveVars>>
       \/ part = "snapshot" /\ F!Next /\ UNCHANGED <<tagVars, janitorVars>>

(* A part that was not chosen asks for no step as it begins.               *)
Spec == Init /\ [][Next]_vars /\ T!Fairness /\ J!Fairness /\ F!Fairness

-----------------------------------------------------------------------------
(* Properties.                                                             *)

(* The tag index names every key under each tag its entry carries.         *)
IndexCovers == T!IndexCovers

(* When no untagging is in flight, the index names no other key, and a     *)
(* closed cache leaves it empty.                                           *)
SyncedIndexExact == T!SyncedIndexExact /\ T!ClosedIndexEmpty

(* When InvalidateTags returns, no entry set before it carries its tags.   *)
InvalidateRemoves == T!InvalidateRemoves

(* With no call under way, a group is within its capacity.                 *)
GroupBounded == T!GroupBounded

(* A shard of an open cache with a TTL'd entry has a janitor with a tick   *)
(* to come, and the only janitor alive is the one stopJanitor would stop.  *)
JanitorAttends == J!JanitorAttends /\ J!OneJanitor

(* SaveFile leaves a whole snapshot at path, also across a crash, and no   *)
(* temporary file, whichever of its steps fails.                           *)
NeverTorn == F!NeverTorn /\ F!TempsRemoved

(* Close's final snapshot holds what the writes before Close made.         *)
FinalSaveCurrent == F!FinalSaveCurrent

(* The goroutines do their work: untaggings in flight end, so that a Sync  *)
(* that waits for them returns, and the janitor sweeps an expired entry    *)
(* that nothing else removes.                                              *)
WorkGetsDone == T!CleanupSettles /\ J!ExpiredSwept

(* Close returns and the goroutines end: it gets every shard's lock and    *)
(* the drainer of the tag cleanup exits, every janitor and its timer stop, *)
(* and it gets past the auto-saver, the async writes and its own save.     *)
CloseEnds ==
    T!Closing \/ J!Closing \/ F!Closing ~> ~T!Closing /\ ~J!Closing /\ ~F!Closing
=============================================================================
