------------------------------- MODULE S3FIFO -------------------------------
(***************************************************************************)
(* The S3-FIFO policy of s3fifo.go.  Its state is a record: the queues     *)
(* small and main (oldest first), the ghost queue of keys, the frequency   *)
(* of every entry, recentInsert and the sub-budgets.  A node is its        *)
(* entry's key: a shard holds one entry of a key at a time.                *)
(***************************************************************************)
EXTENDS Integers, Sequences, FiniteSets, SequencesExt

CONSTANTS Keys, NoKey

(* The doubly linked lists as sequences: a node is pushed at one end, and  *)
(* unlinking one that is not on the list does nothing.                     *)
PushTail(list, k) == Append(list, k)
Unlink(list, k) == Remove(list, k)

FreqMax == 3

(* s3SplitBudget: about a tenth, rounded up, for small.                    *)
SmallShare(b) ==
    CASE b <= 0 -> 0
      [] b = 1 -> 1
      [] OTHER -> LET small == (b + 9) \div 10
                  IN  IF small >= b THEN 1 ELSE small

Trim(ghost, n) == SubSeq(ghost, 1 + (IF Len(ghost) > n THEN Len(ghost) - n ELSE 0), Len(ghost))

(* newS3FIFO, and SetBudget on an existing policy.                         *)
SetBudget(p, b) ==
    LET small == SmallShare(b)
        main == IF b <= 0 THEN 0 ELSE b - small
    IN  [p EXCEPT !.smallBudget = small, !.mainBudget = main,
                  !.ghost = Trim(@, main)]

Empty == [small |-> <<>>, main |-> <<>>, ghost |-> <<>>,
          freq |-> [k \in Keys |-> 0], recent |-> NoKey,
          smallBudget |-> 0, mainBudget |-> 0]

NewPolicy(b) == SetBudget(Empty, b)

ResetPolicy(p) ==
    [Empty EXCEPT !.smallBudget = p.smallBudget, !.mainBudget = p.mainBudget]

(* Mutant of OnInsert: only the frequency protects the new entry.          *)
OnInsertUnmarked(p, k) ==
    IF Contains(p.ghost, k)
    THEN [p EXCEPT !.ghost = Unlink(@, k), !.main = PushTail(@, k), !.freq[k] = 1]
    ELSE [p EXCEPT !.small = PushTail(@, k), !.freq[k] = 0]

(* A key in the ghost queue comes back to main, any other goes to small.   *)
OnInsert(p, k) ==
    IF Contains(p.ghost, k)
    THEN [p EXCEPT !.ghost = Unlink(@, k), !.main = PushTail(@, k),
                   !.freq[k] = 1, !.recent = k]
    ELSE [p EXCEPT !.small = PushTail(@, k), !.freq[k] = 0, !.recent = k]

OnAccess(p, k) == IF p.freq[k] < FreqMax THEN [p EXCEPT !.freq[k] = @ + 1] ELSE p

(* Removing a node that Victim has unlinked already is a no-op on the      *)
(* queues.  The frequency goes with the node.                              *)
OnRemove(p, k) ==
    [p EXCEPT !.small = Unlink(@, k), !.main = Unlink(@, k),
              !.freq[k] = 0, !.recent = IF @ = k THEN NoKey ELSE @]

RecordGhost(p, k) ==
    IF Contains(p.ghost, k) THEN p
    ELSE [p EXCEPT !.ghost = Trim(PushTail(@, k), p.mainBudget)]

-----------------------------------------------------------------------------
(* Victim.                                                                 *)

SmallOver(p) == Len(p.small) > p.smallBudget
MainOver(p) == Len(p.main) > p.mainBudget

Evicted(p, k) == [policy |-> p, key |-> k]

(* One turn of Victim's loop that gives no victim: the head of the queue   *)
(* over budget is recentInsert, or it has been used and gets another       *)
(* chance.                                                                 *)
Turn(p) ==
    IF SmallOver(p)
    THEN LET n == Head(p.small)
         IN  IF n = p.recent THEN [p EXCEPT !.small = PushTail(Tail(@), n)]
             ELSE [p EXCEPT !.small = Tail(@), !.main = PushTail(@, n), !.freq[n] = 0]
    ELSE LET n == Head(p.main)
         IN  [p EXCEPT !.main = PushTail(Tail(@), n),
                       !.freq[n] = IF n = p.recent THEN @ ELSE @ - 1]

(* A head that Victim does not evict.                                      *)
Passed(p, n) == n = p.recent \/ p.freq[n] >= 1

FromSmall(p, k) == Evicted(RecordGhost([p EXCEPT !.small = Unlink(@, k)], k), k)
FromMain(p, k) == Evicted([p EXCEPT !.main = Unlink(@, k)], k)

Older(p, queue) == SelectSeq(queue, LAMBDA k : k # p.recent)
SmallOlder(p) == Older(p, p.small)
MainOlder(p) == Older(p, p.main)

(* The loop: at most n turns.                                              *)
RECURSIVE Rotate(_, _)
Rotate(p, n) ==
    CASE n = 0 -> [policy |-> p, key |-> NoKey, exhausted |-> TRUE]
      [] n > 0 /\ SmallOver(p) /\ ~Passed(p, Head(p.small)) ->
            FromSmall(p, Head(p.small)) @@ [exhausted |-> FALSE]
      [] n > 0 /\ ~SmallOver(p) /\ MainOver(p) /\ ~Passed(p, Head(p.main)) ->
            FromMain(p, Head(p.main)) @@ [exhausted |-> FALSE]
      [] n > 0 /\ ~SmallOver(p) /\ ~MainOver(p) ->
            [policy |-> p, key |-> NoKey, exhausted |-> FALSE]
      [] OTHER -> Rotate(Turn(p), n - 1)

MaxRotations(p) == (Len(p.small) + Len(p.main) + 1) * (FreqMax + 1) + 1

(* What Victim does after its last turn.                                   *)
Fallback(p) ==
    CASE MainOver(p) /\ MainOlder(p) # <<>> -> FromMain(p, Head(MainOlder(p)))
      [] SmallOlder(p) # <<>> -> FromSmall(p, Head(SmallOlder(p)))
      [] MainOlder(p) # <<>> -> FromMain(p, Head(MainOlder(p)))
      [] OTHER -> Evicted(p, NoKey)

Victim(p) ==
    LET r == Rotate(p, MaxRotations(p))
    IN  IF r.exhausted THEN Fallback(r.policy) ELSE Evicted(r.policy, r.key)

(* shed: the oldest of small, else of main, else recentInsert itself       *)
(* unless it is kept.                                                      *)
Shed(p, keepRecent) ==
    CASE SmallOlder(p) # <<>> -> FromSmall(p, Head(SmallOlder(p)))
      [] SmallOlder(p) = <<>> /\ MainOlder(p) # <<>> -> FromMain(p, Head(MainOlder(p)))
      [] OTHER -> IF keepRecent \/ p.recent = NoKey THEN Evicted(p, NoKey)
                  ELSE IF Contains(p.main, p.recent) THEN FromMain(p, p.recent)
                  ELSE FromSmall(p, p.recent)

Tracked(p) == p.small \o p.main

-----------------------------------------------------------------------------
(* Facts about a policy p, an eviction's new state q and the stored keys.  *)

GhostApart(p, present) ==
    /\ ToSet(p.ghost) \cap present = {}
    /\ Cardinality(ToSet(p.ghost)) = Len(p.ghost)
    /\ Len(p.ghost) <= p.mainBudget

(* Victim's loop runs out of turns only when the queue it works on holds   *)
(* recentInsert and nothing else.                                          *)
TurnsSuffice(p) ==
    LET r == Rotate(p, MaxRotations(p)) IN
    r.exhausted => (IF SmallOver(r.policy) THEN r.policy.small ELSE r.policy.main) = <<p.recent>>

(* Main is touched only when it is over its budget, an entry of small has  *)
(* been used (and moves to main), or small has no older entry.             *)
HotKept(p, q) ==
    q.main # p.main =>
        \/ MainOver(p)
        \/ \E k \in ToSet(p.small) : p.freq[k] >= 1
        \/ SmallOlder(p) = <<>>
=============================================================================
