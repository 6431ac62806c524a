-------------------------------- MODULE LFU --------------------------------
(***************************************************************************)
(* The LFU policy of lfu.go: one queue of entries per frequency, minFreq   *)
(* as the place where Victim starts to look, and the most recent insertion *)
(* that Victim passes over.  A bucket deleted from the map and an empty    *)
(* one are the same to every reader, so a bucket is a sequence.  size      *)
(* falls only in OnRemove, after Victim has unlinked the node.             *)
(***************************************************************************)
EXTENDS Integers, Sequences, FiniteSets, SequencesExt

CONSTANTS Keys, NoKey,
          MaxFreq   \* bound: no entry is used more often than this

(* The doubly linked lists as sequences: a node is pushed at one end, and  *)
(* unlinking one that is not on the list does nothing.                     *)
PushTail(list, k) == Append(list, k)
Unlink(list, k) == Remove(list, k)

Freqs == 1..(MaxFreq + 1)

NewPolicy == [buckets |-> [f \in Freqs |-> <<>>], freq |-> [k \in Keys |-> 0],
               minFreq |-> 0, size |-> 0, recent |-> NoKey]

OnInsert(p, k) ==
    [p EXCEPT !.buckets[1] = PushTail(@, k), !.freq[k] = 1,
              !.minFreq = 1, !.size = @ + 1, !.recent = k]

(* Mutant of OnAccess: minFreq moves on whether or not its bucket is empty.*)
OnAccessBlindMin(p, k) ==
    LET old == p.freq[k]
    IN  [p EXCEPT !.buckets[old] = Unlink(@, k), !.buckets[old + 1] = PushTail(@, k),
                  !.freq[k] = old + 1,
                  !.minFreq = IF @ = old THEN old + 1 ELSE @]

OnAccess(p, k) ==
    LET old == p.freq[k]
        rest == Unlink(p.buckets[old], k)
    IN  [p EXCEPT !.buckets[old] = rest, !.buckets[old + 1] = PushTail(@, k),
                  !.freq[k] = old + 1,
                  !.minFreq = IF rest = <<>> /\ @ = old THEN old + 1 ELSE @]


(* Mutant of OnRemove: the bucket keeps the deleted entry.                 *)
OnRemoveUnlinked(p, k) ==
    [p EXCEPT !.freq[k] = 0, !.size = @ - 1, !.recent = IF @ = k THEN NoKey ELSE @]

OnRemove(p, k) ==
    [p EXCEPT !.buckets[p.freq[k]] = Unlink(@, k), !.freq[k] = 0,
              !.size = @ - 1, !.recent = IF @ = k THEN NoKey ELSE @]

(* nextNonEmpty: the populated frequencies after f.                        *)
NonEmptyAfter(p, f) == {g \in Freqs : g > f /\ p.buckets[g] # <<>>}
Least(S) == CHOOSE f \in S : \A g \in S : f <= g

(* pick: where minFreq ends up, and the node chosen in the bucket there.   *)
MinFreq(p) ==
    IF p.minFreq \in Freqs /\ p.buckets[p.minFreq] # <<>> THEN p.minFreq
    ELSE IF NonEmptyAfter(p, p.minFreq) = {} THEN 0
    ELSE Least(NonEmptyAfter(p, p.minFreq))

Chosen(p, f) ==
    LET bucket == p.buckets[f]
    IN  IF Head(bucket) # p.recent THEN Head(bucket)
        ELSE IF Len(bucket) > 1 THEN bucket[2]
        ELSE IF NonEmptyAfter(p, f) # {} THEN Head(p.buckets[Least(NonEmptyAfter(p, f))])
        ELSE Head(bucket)

Victim(p) ==
    LET f == MinFreq(p)
    IN  IF p.size = 0 \/ f = 0 THEN [policy |-> p, key |-> NoKey]
        ELSE LET n == Chosen(p, f)
             IN  [policy |-> [p EXCEPT !.minFreq = f, !.buckets[p.freq[n]] = Unlink(@, n)],
                  key |-> n]

ResetPolicy(p) == NewPolicy

Tracked(p) == FlattenSeq([f \in Freqs |-> p.buckets[f]])
InBounds(p) == \A k \in Keys : p.freq[k] <= MaxFreq

-----------------------------------------------------------------------------
(* Victim gives up the least used entry, the most recent insertion only    *)
(* when it is alone.                                                       *)
LeastUsedFirst(p, present) ==
    LET v == Victim(p).key IN
    present # {} =>
        \/ present = {p.recent} /\ v = p.recent
        \/ /\ v \in present \ {p.recent}
           /\ \A k \in present \ {p.recent} : p.freq[v] <= p.freq[k]
=============================================================================
