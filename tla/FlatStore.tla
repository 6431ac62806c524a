----------------------------- MODULE FlatStore -----------------------------
(***************************************************************************)
(* The open-addressing storage of flatstore.go.  A slot is Empty, Tomb or  *)
(* a record of a key and its value.                                        *)
(***************************************************************************)
EXTENDS Integers, Sequences, FiniteSets, FiniteSetsExt, SequencesExt

CONSTANTS
    InitialCap,  \* flatStoreInitialCap (16 in the code), a power of two
    MaxCap,      \* bound: a power of two no store grows beyond
    HashOf       \* the leading bits of a key's product with the multiplier,
                 \* a number below MaxCap

Empty == [state |-> "empty"]
Tomb == [state |-> "tombstone"]
Occupied(k, v) == [state |-> "occupied", key |-> k, value |-> v]

EmptySlots(cap) == [i \in 0..(cap - 1) |-> Empty]
NewFlatStore == [slots |-> EmptySlots(InitialCap), occupied |-> 0, tombstones |-> 0]
Cap(s) == Cardinality(DOMAIN s.slots)

(* probe: the slots in the order a key visits them.                        *)
Start(s, k) == HashOf[k] \div (MaxCap \div Cap(s))
Slot(s, k, i) == (Start(s, k) + i - 1) % Cap(s)

Holds(slot, k) == slot.state = "occupied" /\ slot.key = k

(* Mutant of Stops: a tombstone ends the search.                           *)
StopsAtTomb(slot, k) == slot.state # "occupied" \/ slot.key = k

(* A probe ends at an empty slot or at the key.                            *)
Stops(slot, k) == slot = Empty \/ Holds(slot, k)

(* The slot of the key, or the first free one on its way, or -1.           *)
Probe(s, k) ==
    LET stops == {i \in 1..Cap(s) : Stops(s.slots[Slot(s, k, i)], k)}
        last == IF stops = {} THEN Cap(s) ELSE Min(stops)
        found == Holds(s.slots[Slot(s, k, last)], k)
        free == {i \in 1..last : s.slots[Slot(s, k, i)].state # "occupied"}
    IN  [found |-> found,
         idx |-> IF found THEN Slot(s, k, last)
                 ELSE IF free = {} THEN -1 ELSE Slot(s, k, Min(free))]

ShouldGrowBeforeInsert(s) == (s.occupied + s.tombstones) * 4 >= 3 * Cap(s)
ShouldCompactAfterDelete(s) == s.tombstones # 0 /\ s.tombstones * 2 >= Cap(s)
NextRebuildCap(s) == IF s.occupied * 4 >= 3 * Cap(s) THEN Cap(s) * 2 ELSE Cap(s)

(* rebuild: the occupied slots, in order, into a fresh array.              *)
Rebuild(s) ==
    LET moved == SelectSeq([i \in 1..Cap(s) |-> s.slots[i - 1]],
                           LAMBDA slot : slot.state = "occupied")
        Put(t, slot) == [t EXCEPT !.slots[Probe(t, slot.key).idx] = slot,
                                  !.occupied = @ + 1]
    IN  FoldLeft(Put, [slots |-> EmptySlots(NextRebuildCap(s)),
                       occupied |-> 0, tombstones |-> 0], moved)

Get(s, k) == LET p == Probe(s, k)
             IN  IF p.found THEN {s.slots[p.idx].value} ELSE {}

(* The store in which a new key is put: rebuilt when it is loaded.         *)
Room(s, k) ==
    IF Probe(s, k).idx < 0 \/ ShouldGrowBeforeInsert(s) THEN Rebuild(s) ELSE s

Set(s, k, v) ==
    IF Probe(s, k).found THEN [s EXCEPT !.slots[Probe(s, k).idx].value = v]
    ELSE LET r == Room(s, k)
             i == Probe(r, k).idx
         IN  [r EXCEPT !.slots[i] = Occupied(k, v),
                       !.occupied = @ + 1,
                       !.tombstones = IF r.slots[i] = Tomb THEN @ - 1 ELSE @]

Del(s, k) ==
    IF ~Probe(s, k).found THEN s
    ELSE LET r == [s EXCEPT !.slots[Probe(s, k).idx] = Tomb,
                            !.occupied = @ - 1, !.tombstones = @ + 1]
         IN  IF ShouldCompactAfterDelete(r) THEN Rebuild(r) ELSE r

ClearAll(s) == [slots |-> EmptySlots(Cap(s)), occupied |-> 0, tombstones |-> 0]
=============================================================================
