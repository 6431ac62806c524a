----------------------------- MODULE WriteOrder -----------------------------
(***************************************************************************)
(* What a cache with a Store promises about the writes of one key          *)
(* (WithStore: "Writes of one key are serialized across memory and the     *)
(* Store, so they reach both in the same order").  Writes and deletes are  *)
(* numbered in the order the cache takes them.  The Store goes from a      *)
(* write to a later one, never back; it may skip one that a later one of   *)
(* the same key has replaced in the queue, or whose Store call failed.  A  *)
(* write that is taken does not stay on the way forever.                   *)
(***************************************************************************)
EXTENDS Naturals

VARIABLES
    latest,  \* the number of the last write taken
    kept,    \* the number of the write the Store holds
    dropped  \* the writes whose Store call failed

Init == latest = kept /\ latest \in Nat /\ dropped = {}

Take == latest' = latest + 1

(* One Store call: it takes effect, fails, or fails after taking effect.   *)
Settle ==
    \E n \in (kept + 1)..latest :
        /\ kept' \in {kept, n} /\ dropped' \in {dropped, dropped \cup {n}}
        /\ <<kept, dropped>>' # <<kept, dropped>>

(* Both may happen at once: a Delete that the Store has done already is    *)
(* settled when the next write is taken.                                   *)
Next ==
    /\ Take \/ UNCHANGED latest
    /\ Settle \/ UNCHANGED <<kept, dropped>>

vars == <<latest, kept, dropped>>

(* A taken write that is neither in the Store nor failed is settled.       *)
Unsettled == latest > kept /\ latest \notin dropped

Spec == Init /\ [][Next]_vars /\ WF_vars(Next /\ Settle /\ Unsettled)

=============================================================================
