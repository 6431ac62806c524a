------------------------------ MODULE MCParts -------------------------------
(* The parts for TLC: a few keys that collide in the data structures, a    *)
(* shard for each policy, two readers, three subscribers and two clients.  *)
EXTENDS Parts, TLC

CONSTANTS d1, d2, d3, d4, k1, k2, k3, k4, k5, t1, t2, t3, t4

ThreeKeys == {d1, d2, d3}
FourKeys == {d1, d2, d3, d4}
EveryKind == {"sketch", "doorkeeper", "flat", "limiter", "wheel", "heap"}
TwoKeys == {d1, d2}
TwoRows == {1, 2}

(* In the sketch d2 shares its column of both rows; d1 and d3 have one of  *)
(* them to themselves.                                                     *)
Columns == [r \in TwoRows |->
              [k \in ThreeKeys |-> IF k = d1 \/ (k = d2 /\ r = 1) THEN 0 ELSE 1]]

(* In the filter the bits of d3 are among those of d1 and d2 together.     *)
Bits == [k \in FourKeys |-> CASE k = d1 -> {0, 1} [] k = d2 -> {1, 2}
                              [] k = d3 -> {0, 2} [] k = d4 -> {3, 4}]

(* In the storage d1, d2 and d3 start at the same slot, d4 at the last.    *)
Hashes == [k \in FourKeys |-> CASE k = d1 -> 2 [] k = d2 -> 2
                                [] k = d3 -> 3 [] k = d4 -> 7]

PlainKeys == {k1, k2, k3, k4}
TinyKeys == {t1, t2, t3, t4}
FiveKeys == PlainKeys \cup {k5}
AllKeys == FiveKeys \cup TinyKeys

Shard(policyKind, keys, b, bs, sheds) ==
    [kind |-> policyKind, keys |-> keys, budget |-> b, budgets |-> bs, sheds |-> sheds]

EveryPolicy ==
    {Shard("s3fifo", FiveKeys, 4, {2, 3, 4}, TRUE),
     Shard("s3fifo", PlainKeys, 0, {}, TRUE),
     Shard("tinylfu", TinyKeys, 3, {3}, TRUE),
     Shard("2q", PlainKeys, 3, {2, 3}, FALSE)}
    \cup {Shard(k, PlainKeys, 3, {2, 3}, TRUE) : k \in {"lru", "fifo", "lfu", "2q", "arc"}}

(* The keys of W-TinyLFU share two counters.                               *)
OneRow == {1}
TinyColumns == [r \in OneRow |-> [k \in AllKeys |-> IF k \in {t1, t2} THEN 0 ELSE 1]]

(* What tells its keys apart, or makes choices among them, has keys that   *)
(* are not in the symmetry set.                                            *)
Symmetric == Permutations(PlainKeys)
=============================================================================
