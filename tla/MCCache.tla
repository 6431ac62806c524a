------------------------------ MODULE MCCache ------------------------------
(* Instances of Cache for TLC: three keys in two shards.                   *)
EXTENDS Cache, TLC

CONSTANTS a, b, c, s1, s2

MCKeys == {a, b, c}
MCShards == {s1, s2}
MCShardOf == (a :> s1) @@ (b :> s1) @@ (c :> s2)

MCKeys2 == {a, c}
MCShardOf2 == (a :> s1) @@ (c :> s2)

ThreadSymmetry == Permutations(Threads)

=============================================================================
