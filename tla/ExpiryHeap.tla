----------------------------- MODULE ExpiryHeap -----------------------------
(***************************************************************************)
(* The default TTL backend of ttlbackend.go: a min-heap of entries with    *)
(* back-pointers, expiryHeap of expiry.go driven by container/heap.        *)
(* Positions count from 1; an entry that is not in the heap has heapIndex  *)
(* 0, which stands for -1.                                                 *)
(***************************************************************************)
EXTENDS Integers, Sequences

CONSTANT Keys

NewHeap == [heap |-> <<>>, heapIndex |-> [k \in Keys |-> 0], expireAt |-> [k \in Keys |-> 0]]

Less(h, i, j) == h.expireAt[h.heap[i]] < h.expireAt[h.heap[j]]

Swap(h, i, j) ==
    [h EXCEPT !.heap[i] = h.heap[j], !.heap[j] = h.heap[i],
              !.heapIndex[h.heap[j]] = i, !.heapIndex[h.heap[i]] = j]

(* container/heap.                                                         *)
RECURSIVE Up(_, _)
Up(h, j) ==
    IF j = 1 \/ ~Less(h, j, j \div 2) THEN h
    ELSE Up(Swap(h, j \div 2, j), j \div 2)

(* down over the first n positions.                                        *)
RECURSIVE Down(_, _, _)
Down(h, i, n) ==
    LET left == 2 * i
        least == IF left + 1 <= n /\ Less(h, left + 1, left) THEN left + 1 ELSE left
    IN  IF left > n \/ ~Less(h, least, i) THEN h
        ELSE Down(Swap(h, i, least), least, n)

(* heap.Fix, and its use in heap.Remove: down, or else up.                 *)
Settle(h, i, n) ==
    LET down == Down(h, i, n)
    IN  IF down = h THEN Up(h, i) ELSE down

Push(h, k) ==
    LET n == Len(h.heap) + 1
    IN  Up([h EXCEPT !.heap = Append(@, k), !.heapIndex[k] = n], n)

(* expiryHeap.Pop: the last one.                                           *)
PopLast(h) ==
    LET n == Len(h.heap)
    IN  [h EXCEPT !.heap = SubSeq(@, 1, n - 1), !.heapIndex[h.heap[n]] = 0]

HeapRemove(h, i) ==
    LET n == Len(h.heap)
    IN  PopLast(IF i = n THEN h ELSE Settle(Swap(h, i, n), i, n - 1))

(* expiryHeapBackend: Add of an entry without a TTL does nothing.          *)
Add(h, k, at) ==
    LET g == [h EXCEPT !.expireAt[k] = at]
    IN  IF at = 0 THEN [g EXCEPT !.heapIndex[k] = 0] ELSE Push(g, k)

Remove(h, k) ==
    LET i == h.heapIndex[k]
        g == IF i = 0 \/ i > Len(h.heap) THEN h ELSE HeapRemove(h, i)
    IN  [g EXCEPT !.expireAt[k] = 0]

Fix(h, k, at) ==
    LET g == [h EXCEPT !.expireAt[k] = at]
        i == h.heapIndex[k]
    IN  CASE i = 0 /\ at > 0 -> Push(g, k)
          [] i # 0 /\ at = 0 -> HeapRemove(g, i)
          [] i # 0 /\ at > 0 -> Settle(g, i, Len(g.heap))
          [] OTHER -> g

(* Sweep pops while the first entry has expired; heap.Pop is heap.Remove   *)
(* of the first.  An entry it returns is removed from the cache.           *)
RECURSIVE Sweep(_, _)
Sweep(h, now) ==
    IF h.heap = <<>> \/ h.expireAt[h.heap[1]] > now THEN h
    ELSE Sweep([HeapRemove(h, 1) EXCEPT !.expireAt[h.heap[1]] = 0], now)

Tracked(h) == {h.heap[i] : i \in 1..Len(h.heap)}

(* The back-pointers are exact and no entry expires before its parent.     *)
WellFormed(h) ==
    /\ \A i \in 1..Len(h.heap) : h.heapIndex[h.heap[i]] = i
    /\ \A k \in Keys \ Tracked(h) : h.heapIndex[k] = 0
    /\ \A i \in 2..Len(h.heap) : ~Less(h, i, i \div 2)
=============================================================================
