---------------------------- MODULE MCStoreTier -----------------------------
(***************************************************************************)
(* StoreTier for two callers and the apply goroutine.                      *)
(***************************************************************************)
EXTENDS StoreTier

CONSTANTS c1, c2

MCCallers == {c1, c2}
MCOps == AllOps
LiveOps == AllOps \ {"touch", "drop"}
Both == BOOLEAN
OneEach == [c \in MCCallers |-> 1]
TwoAndOne == [c \in MCCallers |-> IF c = c1 THEN 2 ELSE 1]

=============================================================================
