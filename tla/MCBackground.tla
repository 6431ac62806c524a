---------------------------- MODULE MCBackground ----------------------------
(* The background goroutines for TLC: two keys, of which only one may be   *)
(* in the group, a queue for one untagging, and two shards to save.        *)
EXTENDS Background

AllParts == {"tags", "janitor", "snapshot"}
OneTagEach == {{"g"}, {"t"}}
=============================================================================
