------------------------------ MODULE MCLoader ------------------------------
(***************************************************************************)
(* Small instances of Loader for TLC.                                      *)
(***************************************************************************)
EXTENDS Loader, TLC

CONSTANTS a, b, t1, t2

OneKey == {a}
TwoKeys == {a, b}
TwoCallers == {t1, t2}
NoPrefixes == {}
EveryKey == {Keys}
TwoCallerSymmetry == Permutations(TwoCallers)
=============================================================================
