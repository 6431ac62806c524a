-------------------------------- MODULE TwoQ --------------------------------
(***************************************************************************)
(* The 2Q policy of twoq.go: A1in (a FIFO, oldest first), Am (an LRU, most *)
(* recent first) and A1out, the keys that A1in has evicted (oldest first). *)
(***************************************************************************)
EXTENDS Integers, Sequences, FiniteSets, SequencesExt

CONSTANTS Keys, NoKey

(* The doubly linked lists as sequences: a node is pushed at one end, and  *)
(* unlinking one that is not on the list does nothing.                     *)
PushTail(list, k) == Append(list, k)
PushHead(list, k) == <<k>> \o list
Unlink(list, k) == Remove(list, k)

AtLeastOne(n) == IF n < 1 THEN 1 ELSE n

(* The last n keys of the ghost queue.                                     *)
Trim(out, n) == SubSeq(out, 1 + (IF Len(out) > n THEN Len(out) - n ELSE 0), Len(out))

(* twoQSplitBudget, and SetBudget.                                         *)
SetBudget(p, b) ==
    LET in == AtLeastOne((b + 3) \div 4)
        am == AtLeastOne(b - in)
        out == AtLeastOne((b + 1) \div 2)
    IN  IF b <= 0 THEN [p EXCEPT !.inBudget = 0, !.amBudget = 0, !.outBudget = 0, !.out = <<>>]
        ELSE [p EXCEPT !.inBudget = in, !.amBudget = am, !.outBudget = out,
                       !.out = Trim(@, out)]

Empty == [in |-> <<>>, am |-> <<>>, out |-> <<>>,
          inBudget |-> 0, amBudget |-> 0, outBudget |-> 0]

NewPolicy(b) == SetBudget(Empty, b)

ResetPolicy(p) == [p EXCEPT !.in = <<>>, !.am = <<>>, !.out = <<>>]

OnInsert(p, k) ==
    IF Contains(p.out, k) THEN [p EXCEPT !.out = Unlink(@, k), !.am = PushHead(@, k)]
    ELSE [p EXCEPT !.in = PushTail(@, k)]

OnAccess(p, k) == IF Contains(p.am, k) THEN [p EXCEPT !.am = PushHead(Unlink(@, k), k)] ELSE p

OnRemove(p, k) == [p EXCEPT !.in = Unlink(@, k), !.am = Unlink(@, k)]

RecordGhost(p, k) ==
    IF Contains(p.out, k) THEN p ELSE [p EXCEPT !.out = Trim(PushTail(@, k), p.outBudget)]

FromIn(p) == LET k == Head(p.in)
             IN  [policy |-> RecordGhost([p EXCEPT !.in = Tail(@)], k), key |-> k]
FromAm(p) == [policy |-> [p EXCEPT !.am = Front(@)], key |-> Last(p.am)]

(* Mutant of Victim: Am comes first, while it holds more than one entry.   *)
VictimAmFirst(p) ==
    IF Len(p.am) > 1 THEN FromAm(p)
    ELSE IF p.in # <<>> THEN FromIn(p)
    ELSE [policy |-> p, key |-> NoKey]

(* A1in when it is over its budget, else Am when it is; else the oldest of *)
(* A1in, else of Am.                                                       *)
Victim(p) ==
    IF Len(p.in) > p.inBudget THEN FromIn(p)
    ELSE IF Len(p.am) > p.amBudget THEN FromAm(p)
    ELSE IF p.in # <<>> THEN FromIn(p)
    ELSE IF p.am # <<>> THEN FromAm(p)
    ELSE [policy |-> p, key |-> NoKey]

Tracked(p) == p.in \o p.am

-----------------------------------------------------------------------------
(* Facts about a policy p, an eviction's new state q and the stored keys.  *)

GhostApart(p, present) ==
    /\ ToSet(p.out) \cap present = {}
    /\ Cardinality(ToSet(p.out)) = Len(p.out)
    /\ Len(p.out) <= p.outBudget

(* Am is touched only when it is over its share.                           *)
HotKept(p, q) == q.am # p.am => Len(p.am) > p.amBudget
=============================================================================
