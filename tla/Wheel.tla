-------------------------------- MODULE Wheel -------------------------------
(***************************************************************************)
(* The hashed timing wheel of internal/wheel/wheel.go, behind the TTL      *)
(* backend of wheel_ttl.go.  A slot's list is the set of the keys that     *)
(* have it as their slot: only which entries expire is looked at, not in   *)
(* which order AdvanceTo returns them.                                     *)
(***************************************************************************)
EXTENDS Integers

CONSTANTS SlotCount, TickNs

NewWheel == [cursor |-> 0, cursorAt |-> 0, entries |-> [k \in {} |-> 0]]

CeilDiv(a, b) == (a + b - 1) \div b

(* An entry that has expired already waits for the next tick.              *)
TicksAhead(w, expireAt) ==
    LET delta == expireAt - w.cursorAt
    IN  IF delta > 0 THEN CeilDiv(delta, TickNs) ELSE 1

RevolutionsOfTick(ticks) == ticks \div SlotCount

Revolutions(ticks) == (ticks - 1) \div SlotCount

Add(w, k, expireAt) ==
    LET ticks == TicksAhead(w, expireAt)
        e == [slot |-> (w.cursor + (ticks % SlotCount)) % SlotCount,
              revolutions |-> Revolutions(ticks)]
    IN  [w EXCEPT !.entries = [j \in DOMAIN @ \cup {k} |-> IF j = k THEN e ELSE @[j]]]

Keep(w, keys) == [w EXCEPT !.entries = [j \in keys |-> @[j]]]

Remove(w, k) == Keep(w, DOMAIN w.entries \ {k})

(* Fix takes the entry off the wheel and adds it again if it has a TTL.    *)
Fix(w, k, expireAt) ==
    IF expireAt = 0 THEN Remove(w, k) ELSE Add(Remove(w, k), k, expireAt)

(* decrementAllRevolutions: n full rotations cross every slot n times.     *)
Rotated(w, n) ==
    LET left == {k \in DOMAIN w.entries : w.entries[k].revolutions >= n}
    IN  [Keep(w, left) EXCEPT !.entries =
           [k \in left |-> [@[k] EXCEPT !.revolutions = @ - n]]]

(* processSlot over the next steps slots, fewer than a rotation.           *)
Stepped(w, steps) ==
    LET Crossed(k) == w.entries[k].slot \in {(w.cursor + i) % SlotCount : i \in 1..steps}
        left == {k \in DOMAIN w.entries : ~Crossed(k) \/ w.entries[k].revolutions > 0}
    IN  [Keep(w, left) EXCEPT
           !.entries = [k \in left |-> IF Crossed(k) THEN [@[k] EXCEPT !.revolutions = @ - 1]
                                       ELSE @[k]],
           !.cursor = (@ + steps) % SlotCount]

(* AdvanceTo: the entries that are gone from the wheel are the expired.    *)
AdvanceTo(w, now) ==
    LET steps == (now - w.cursorAt) \div TickNs
    IN  IF now <= w.cursorAt \/ steps = 0 THEN w
        ELSE [Stepped(Rotated(w, steps \div SlotCount), steps % SlotCount)
                EXCEPT !.cursorAt = @ + steps * TickNs]

Tracked(w) == DOMAIN w.entries
=============================================================================
