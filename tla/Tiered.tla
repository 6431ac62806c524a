------------------------------- MODULE Tiered -------------------------------
(***************************************************************************)
(* The L1/L2 hierarchy of tiered.go, for one key.  Writes of the key hold  *)
(* its Tiered lock and go through both tiers one after the other, a Get    *)
(* that misses in L1 copies what it finds in L2, and InvalidateTag goes    *)
(* through both tiers without the lock; in each tier the single operation  *)
(* is atomic, as its shard's lock makes it.  The value of the n-th write   *)
(* is n, every value carries the tag, and either tier may evict.           *)
(***************************************************************************)
EXTENDS Naturals

CONSTANTS
    Clients,     \* goroutines
    MaxOps,      \* bound: calls of all of them
    Evictions    \* whether the tiers are small enough to evict

VARIABLES
    l1, l2,      \* the tiers' values, 0 for none
    l1Tagged,    \* whether L1's entry carries the tag
    holder,      \* who holds the key's lock, or "none"
    op,          \* [Clients -> the call under way]
    ops,         \* calls made
    number,      \* writes made
    returned,    \* history: the last Set that has returned
    dead,        \* history: no value up to it may be read any more
    crossed,     \* history: a copy was made of what L2 had evicted, or over
                 \* the L1 write of a Set before its L2 write
    split        \* history: a Set failed in L2 after its L1 write

vars == <<l1, l2, l1Tagged, holder, op, ops, number, returned, dead, crossed, split>>

(* A call: its step, its number or what it read, whether the watches it    *)
(* began on the tiers were superseded, the tag it read, and, as history,   *)
(* whether its copy would cross, and dead and returned when it began.      *)
NoCall == [pc |-> "idle", n |-> 0, superseded |-> {}, tagged |-> FALSE,
           crosses |-> FALSE, dead |-> 0, since |-> 0]

Init ==
    /\ l1 = 0 /\ l2 = 0 /\ l1Tagged = FALSE
    /\ holder = "none"
    /\ op = [c \in Clients |-> NoCall]
    /\ ops = 0 /\ number = 0 /\ returned = 0 /\ dead = 0
    /\ crossed = FALSE /\ split = FALSE

tiers == <<l1, l2, l1Tagged>>
history == <<returned, dead, crossed, split>>

Begin(c, call) ==
    /\ op[c].pc = "idle" /\ ops < MaxOps
    /\ ops' = ops + 1
    /\ op' = [op EXCEPT ![c] = [call EXCEPT !.dead = dead, !.since = returned]]

At(c, pc) == op[c].pc = pc

Go(c, call) == op' = [op EXCEPT ![c] = call]

End(c) == Go(c, NoCall)

(* supersedeFlight in one tier, together with a step of c: the watches of  *)
(* the others on it end.                                                   *)
GoSuperseding(c, call, tier) ==
    op' = [d \in Clients |->
             IF d = c THEN call
             ELSE IF op[d].pc \in {"watch2", "read", "expiry", "tags", "promote"}
                     /\ (tier = "l1" \/ op[d].pc # "watch2")
                  THEN [op[d] EXCEPT !.superseded = @ \cup {tier}]
                  ELSE op[d]]

-----------------------------------------------------------------------------
(* Get.                                                                    *)

Get(c) ==
    /\ Begin(c, [NoCall EXCEPT !.pc = "get"])
    /\ UNCHANGED <<tiers, holder, number, history>>

LookL1(c) ==
    /\ At(c, "get")
    /\ Go(c, IF l1 # 0 THEN [op[c] EXCEPT !.pc = "got", !.n = l1]
             ELSE [op[c] EXCEPT !.pc = "watch1"])
    /\ UNCHANGED <<tiers, holder, ops, number, history>>

(* getAndPromote watches the key in L1, then in L2, before it reads L2.    *)
Between == \E c \in Clients : At(c, "setL2")

WatchL1(c) ==
    /\ At(c, "watch1") /\ Go(c, [op[c] EXCEPT !.pc = "watch2", !.crosses = Between])
    /\ UNCHANGED <<tiers, holder, ops, number, history>>

WatchL2(c) ==
    /\ At(c, "watch2") /\ Go(c, [op[c] EXCEPT !.pc = "read"])
    /\ UNCHANGED <<tiers, holder, ops, number, history>>

ReadL2(c) ==
    /\ At(c, "read")
    /\ Go(c, [op[c] EXCEPT !.pc = IF l2 = 0 THEN "got" ELSE "expiry", !.n = l2])
    /\ UNCHANGED <<tiers, holder, ops, number, history>>

(* promote asks L2 for the expiry, and gives up when the entry is gone,    *)
(* then for the tags.                                                      *)
Expiry(c) ==
    /\ At(c, "expiry")
    /\ Go(c, [op[c] EXCEPT !.pc = IF l2 = 0 THEN "got" ELSE "tags"])
    /\ UNCHANGED <<tiers, holder, ops, number, history>>

ReadTags(c) ==
    /\ At(c, "tags")
    /\ Go(c, [op[c] EXCEPT !.pc = "promote", !.tagged = l2 # 0])
    /\ UNCHANGED <<tiers, holder, ops, number, history>>

GuardL1(c) == "l1" \notin op[c].superseded

GuardL2(c) == "l2" \notin op[c].superseded

(* The guard: neither tier has seen a write of the key since its watch.    *)
Guard(c) == op[c].superseded = {}

(* The copy, guarded under L1's shard lock; L1 may also refuse it.         *)
Promote(c) ==
    /\ At(c, "promote")
    /\ \/ /\ Guard(c)
          /\ l1' = op[c].n /\ l1Tagged' = op[c].tagged
          /\ crossed' = (crossed \/ (op[c].crosses /\ (Between \/ l2 # op[c].n)))
          /\ GoSuperseding(c, [op[c] EXCEPT !.pc = "got"], "l1")
       \/ /\ Go(c, [op[c] EXCEPT !.pc = "got"])
          /\ UNCHANGED <<l1, l1Tagged, crossed>>
    /\ UNCHANGED <<l2, holder, ops, number, returned, dead, split>>

ReturnGet(c) ==
    /\ At(c, "got") /\ End(c)
    /\ UNCHANGED <<tiers, holder, ops, number, history>>

-----------------------------------------------------------------------------
(* Set and Delete, holding the key's lock.                                 *)

Set(c) ==
    /\ Begin(c, [NoCall EXCEPT !.pc = "lockSet"])
    /\ UNCHANGED <<tiers, holder, number, history>>

Delete(c) ==
    /\ Begin(c, [NoCall EXCEPT !.pc = "lockDelete"])
    /\ UNCHANGED <<tiers, holder, number, history>>

Lock(c) ==
    /\ op[c].pc \in {"lockSet", "lockDelete"} /\ holder = "none"
    /\ holder' = c
    /\ number' = number + 1
    /\ Go(c, [op[c] EXCEPT !.pc = IF At(c, "lockSet") THEN "setL1" ELSE "delL2", !.n = number'])
    /\ UNCHANGED <<tiers, ops, history>>

(* A Set that L1 refuses returns an error and leaves L2 alone.             *)
SetL1(c) ==
    /\ At(c, "setL1")
    /\ \/ /\ l1' = op[c].n /\ l1Tagged' = TRUE
          /\ GoSuperseding(c, [op[c] EXCEPT !.pc = "setL2"], "l1")
          /\ UNCHANGED holder
       \/ End(c) /\ holder' = "none" /\ UNCHANGED <<l1, l1Tagged>>
    /\ UNCHANGED <<l2, ops, number, history>>

SetL2(c) ==
    /\ At(c, "setL2")
    /\ holder' = "none"
    /\ \/ /\ l2' = op[c].n
          /\ GoSuperseding(c, NoCall, "l2")
          /\ returned' = op[c].n /\ dead' = op[c].n - 1
          /\ UNCHANGED split
       \/ End(c) /\ split' = TRUE /\ UNCHANGED <<l2, returned, dead>>
    /\ UNCHANGED <<l1, l1Tagged, ops, number, crossed>>

(* removeKeyLocked supersedes the key's watches also when it finds nothing *)
(* to remove.                                                              *)
DelL2(c) ==
    /\ At(c, "delL2")
    /\ l2' = 0
    /\ GoSuperseding(c, [op[c] EXCEPT !.pc = "delL1"], "l2")
    /\ UNCHANGED <<l1, l1Tagged, holder, ops, number, history>>

DelL1(c) ==
    /\ At(c, "delL1")
    /\ l1' = 0 /\ l1Tagged' = FALSE
    /\ GoSuperseding(c, NoCall, "l1")
    /\ holder' = "none" /\ dead' = op[c].n
    /\ UNCHANGED <<l2, ops, number, returned, crossed, split>>

-----------------------------------------------------------------------------
(* InvalidateTag supersedes only what it removes.                          *)

InvalidateTag(c) ==
    /\ Begin(c, [NoCall EXCEPT !.pc = "tagL2"])
    /\ UNCHANGED <<tiers, holder, number, history>>

TagL2(c) ==
    /\ At(c, "tagL2")
    /\ l2' = 0
    /\ IF l2 # 0 THEN GoSuperseding(c, [op[c] EXCEPT !.pc = "tagL1"], "l2")
       ELSE Go(c, [op[c] EXCEPT !.pc = "tagL1"])
    /\ UNCHANGED <<l1, l1Tagged, holder, ops, number, history>>

TagL1(c) ==
    /\ At(c, "tagL1")
    /\ IF l1 # 0 /\ l1Tagged
       THEN l1' = 0 /\ l1Tagged' = FALSE /\ GoSuperseding(c, NoCall, "l1")
       ELSE End(c) /\ UNCHANGED <<l1, l1Tagged>>
    /\ dead' = IF op[c].since > dead THEN op[c].since ELSE dead
    /\ UNCHANGED <<l2, holder, ops, number, returned, crossed, split>>

(* Evictions supersede nothing.                                            *)
EvictL1 ==
    /\ Evictions /\ l1 # 0 /\ l1' = 0 /\ l1Tagged' = FALSE
    /\ UNCHANGED <<l2, holder, op, ops, number, history>>

EvictL2 ==
    /\ Evictions /\ l2 # 0 /\ l2' = 0
    /\ op' = [c \in Clients |-> IF op[c].pc \in {"expiry", "tags", "promote"}
                                THEN [op[c] EXCEPT !.crosses = TRUE] ELSE op[c]]
    /\ UNCHANGED <<l1, l1Tagged, holder, ops, number, history>>

Next ==
    \/ \E c \in Clients :
         \/ Get(c) \/ LookL1(c) \/ WatchL1(c) \/ WatchL2(c) \/ ReadL2(c) \/ Expiry(c)
         \/ ReadTags(c) \/ Promote(c) \/ ReturnGet(c)
         \/ Set(c) \/ Delete(c) \/ Lock(c)
         \/ SetL1(c) \/ SetL2(c) \/ DelL2(c) \/ DelL1(c)
         \/ InvalidateTag(c) \/ TagL2(c) \/ TagL1(c)
    \/ EvictL1 \/ EvictL2

Spec == Init /\ [][Next]_vars

-----------------------------------------------------------------------------
(* Properties.                                                             *)

(* A Get never returns a value that a Set, Delete or InvalidateTag which   *)
(* had returned before it began replaced or removed, whatever copies from  *)
(* L2 were under way, as long as none of them crossed.                     *)
DeadStayDead ==
    \A c \in Clients : At(c, "got") /\ op[c].n # 0 /\ ~crossed => op[c].n > op[c].dead

Quiet == \A c \in Clients : At(c, "idle")

(* "Concurrent writers leave both tiers with the same value" (Set): with   *)
(* no call under way, what both tiers hold is the same, unless a Set was   *)
(* refused by L2 only.                                                     *)
SameInBoth == Quiet /\ ~split => l1 = 0 \/ l2 = 0 \/ l1 = l2

(* The same, as long as no copy crossed a Set.                             *)
TiersAgree == ~crossed => SameInBoth
=============================================================================
