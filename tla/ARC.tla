-------------------------------- MODULE ARC --------------------------------
(***************************************************************************)
(* The ARC policy of arc.go: the lists t1 and t2, the ghost lists b1 and   *)
(* b2 (all most recent first), the capacity c, the target target (the      *)
(* code's field p) of t1 and the most recent insertion.                    *)
(***************************************************************************)
EXTENDS Integers, Sequences, FiniteSets, SequencesExt

CONSTANTS Keys, NoKey

(* The doubly linked lists as sequences: a node is pushed at one end, and  *)
(* unlinking one that is not on the list does nothing.                     *)
PushHead(list, k) == <<k>> \o list
Unlink(list, k) == Remove(list, k)

Larger(a, b) == IF a > b THEN a ELSE b
Smaller(a, b) == IF a < b THEN a ELSE b

(* The n most recent keys of a ghost list.                                 *)
Trim(ghosts, n) == SubSeq(ghosts, 1, Smaller(Len(ghosts), Larger(n, 0)))

TrimB1(p) == [p EXCEPT !.b1 = Trim(@, p.c - Len(p.t1))]
TrimB2(p) == [p EXCEPT !.b2 = Trim(@, 2 * p.c - Len(p.t2))]

Empty == [t1 |-> <<>>, t2 |-> <<>>, b1 |-> <<>>, b2 |-> <<>>,
          c |-> 1, target |-> 0, recent |-> NoKey]

NewPolicy(b) == [Empty EXCEPT !.c = Larger(b, 1)]

ResetPolicy(p) == [Empty EXCEPT !.c = p.c]

SetBudget(p, b) ==
    LET c == Larger(b, 1)
    IN  TrimB2(TrimB1([p EXCEPT !.c = c, !.target = Smaller(@, c)]))

(* By how much a hit in the ghost list hit moves the target: the ratio of  *)
(* the other list's length to its own, at least 1.                         *)
Delta(hit, other) ==
    IF Len(other) > Len(hit) THEN Larger(Len(other) \div Len(hit), 1) ELSE 1

OnInsert(p, k) ==
    IF Contains(p.b1, k)
    THEN [p EXCEPT !.target = Smaller(@ + Delta(p.b1, p.b2), p.c),
                   !.b1 = Unlink(@, k), !.t2 = PushHead(@, k), !.recent = k]
    ELSE IF Contains(p.b2, k)
    THEN [p EXCEPT !.target = Larger(@ - Delta(p.b2, p.b1), 0),
                   !.b2 = Unlink(@, k), !.t2 = PushHead(@, k), !.recent = k]
    ELSE [p EXCEPT !.t1 = PushHead(@, k), !.recent = k]

OnAccess(p, k) == [p EXCEPT !.t1 = Unlink(@, k), !.t2 = PushHead(Unlink(@, k), k)]

OnRemove(p, k) ==
    [p EXCEPT !.t1 = Unlink(@, k), !.t2 = Unlink(@, k),
              !.recent = IF @ = k THEN NoKey ELSE @]

(* recordB1, recordB2: remember the key, then trim the ghost list.         *)
RecordB1(p, k) == IF Contains(p.b1, k) THEN p ELSE TrimB1([p EXCEPT !.b1 = PushHead(@, k)])
RecordB2(p, k) == IF Contains(p.b2, k) THEN p ELSE TrimB2([p EXCEPT !.b2 = PushHead(@, k)])

FromT1(p) == LET k == Last(p.t1)
             IN  [policy |-> RecordB1([p EXCEPT !.t1 = Front(@)], k), key |-> k]
FromT2(p) == LET k == Last(p.t2)
             IN  [policy |-> RecordB2([p EXCEPT !.t2 = Front(@)], k), key |-> k]

(* Which list gives up its last entry: t1 when it is over the target, and  *)
(* the other one when that entry is the most recent insertion.             *)
Prefers1(p) == p.t1 # <<>> /\ (p.t2 = <<>> \/ Len(p.t1) > p.target)

UseT1(p) ==
    IF Prefers1(p) THEN ~(Last(p.t1) = p.recent /\ p.t2 # <<>>)
    ELSE p.t2 # <<>> /\ Last(p.t2) = p.recent /\ p.t1 # <<>>

Victim(p) ==
    IF p.t1 = <<>> /\ p.t2 = <<>> THEN [policy |-> p, key |-> NoKey]
    ELSE IF UseT1(p) THEN FromT1(p)
    ELSE IF p.t2 # <<>> THEN FromT2(p)
    ELSE FromT1(p)

Tracked(p) == p.t1 \o p.t2

-----------------------------------------------------------------------------
(* Facts about a policy p and the stored keys.                             *)

GhostApart(p, present) ==
    /\ \A ghosts \in {ToSet(p.b1), ToSet(p.b2)} : ghosts \cap present = {}
    /\ ToSet(p.b1) \cap ToSet(p.b2) = {}
    /\ Cardinality(ToSet(p.b1)) = Len(p.b1)
    /\ Cardinality(ToSet(p.b2)) = Len(p.b2)
    /\ p.target \in 0..p.c
=============================================================================
