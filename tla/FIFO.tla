-------------------------------- MODULE FIFO --------------------------------
(***************************************************************************)
(* The FIFO policy of fifo.go, down to its doubly linked list (see LRU).   *)
(* order is the reference: the keys in the order of their insertion.       *)
(***************************************************************************)
EXTENDS Integers, Sequences, FiniteSets, SequencesExt

CONSTANTS Keys, NoKey

Unlinked == [k \in Keys |-> NoKey]

NewPolicy == [head |-> NoKey, tail |-> NoKey, next |-> Unlinked, prev |-> Unlinked,
               size |-> 0, order |-> <<>>]

OnInsert(p, k) ==
    LET linked == IF p.tail = NoKey THEN [p EXCEPT !.head = k, !.tail = k]
                  ELSE [p EXCEPT !.prev[k] = p.tail, !.next[p.tail] = k, !.tail = k]
    IN  [linked EXCEPT !.size = @ + 1, !.order = Append(@, k)]

(* Reads and updates do not move an entry.                                 *)
OnAccess(p, k) == p

OnRemove(p, k) ==
    LET nxt == p.next[k]
        prv == p.prev[k]
        front == IF prv = NoKey THEN [p EXCEPT !.head = nxt] ELSE [p EXCEPT !.next[prv] = nxt]
        back == IF nxt = NoKey THEN [front EXCEPT !.tail = prv]
                ELSE [front EXCEPT !.prev[nxt] = prv]
    IN  [back EXCEPT !.next[k] = NoKey, !.prev[k] = NoKey,
                     !.size = @ - 1, !.order = Remove(@, k)]

Victim(p) == [policy |-> p, key |-> p.head]

ResetPolicy(p) == NewPolicy

(* The list read from a node along the links, at most n nodes of it.       *)
RECURSIVE Walk(_, _, _)
Walk(links, k, n) ==
    IF k = NoKey \/ n = 0 THEN <<>> ELSE <<k>> \o Walk(links, links[k], n - 1)

Tracked(p) == Walk(p.next, p.head, Cardinality(Keys) + 1)

-----------------------------------------------------------------------------
(* The list spells the order of insertion in both directions.              *)
ListSpellsOrder(p) ==
    /\ Tracked(p) = p.order
    /\ Walk(p.prev, p.tail, Cardinality(Keys) + 1) = Reverse(p.order)
    /\ p.size = Len(p.order)
=============================================================================
