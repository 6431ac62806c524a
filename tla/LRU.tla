-------------------------------- MODULE LRU --------------------------------
(***************************************************************************)
(* The LRU policy of lru.go, down to its doubly linked list.  A node is    *)
(* its entry's key: next and prev are the links, NoKey is nil.  order is a *)
(* reference: the keys from the most to the least recently used, which the *)
(* code does not keep.  The list has to spell it.                          *)
(***************************************************************************)
EXTENDS Integers, Sequences, FiniteSets, SequencesExt

CONSTANTS Keys, NoKey

Unlinked == [k \in Keys |-> NoKey]

NewPolicy == [head |-> NoKey, tail |-> NoKey, next |-> Unlinked, prev |-> Unlinked,
               size |-> 0, order |-> <<>>]

PushFront(p, k) ==
    [p EXCEPT !.prev = IF p.head = NoKey THEN [@ EXCEPT ![k] = NoKey]
                       ELSE [@ EXCEPT ![k] = NoKey, ![p.head] = k],
              !.next[k] = p.head,
              !.head = k,
              !.tail = IF @ = NoKey THEN k ELSE @]

Unlink(p, k) ==
    LET nxt == p.next[k]
        prv == p.prev[k]
    IN  [p EXCEPT !.next = IF prv = NoKey THEN [@ EXCEPT ![k] = NoKey]
                           ELSE [@ EXCEPT ![prv] = nxt, ![k] = NoKey],
                  !.prev = IF nxt = NoKey THEN [@ EXCEPT ![k] = NoKey]
                           ELSE [@ EXCEPT ![nxt] = prv, ![k] = NoKey],
                  !.head = IF prv = NoKey /\ @ = k THEN nxt ELSE @,
                  !.tail = IF nxt = NoKey /\ @ = k THEN prv ELSE @]

OnInsert(p, k) ==
    [PushFront(p, k) EXCEPT !.size = @ + 1, !.order = <<k>> \o @]

OnAccess(p, k) ==
    LET moved == IF k = p.head THEN p ELSE PushFront(Unlink(p, k), k)
    IN  [moved EXCEPT !.order = <<k>> \o Remove(@, k)]


OnRemove(p, k) == [Unlink(p, k) EXCEPT !.size = @ - 1, !.order = Remove(@, k)]

Victim(p) == [policy |-> p, key |-> p.tail]

ResetPolicy(p) == NewPolicy

(* The list read from a node along the links, at most n nodes of it.       *)
RECURSIVE Walk(_, _, _)
Walk(links, k, n) ==
    IF k = NoKey \/ n = 0 THEN <<>> ELSE <<k>> \o Walk(links, links[k], n - 1)

Tracked(p) == Walk(p.next, p.head, Cardinality(Keys) + 1)

-----------------------------------------------------------------------------
(* The list spells the order of use in both directions.                    *)
ListSpellsOrder(p) ==
    /\ Tracked(p) = p.order
    /\ Walk(p.prev, p.tail, Cardinality(Keys) + 1) = Reverse(p.order)
    /\ p.size = Len(p.order)
=============================================================================
