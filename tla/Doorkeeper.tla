----------------------------- MODULE Doorkeeper -----------------------------
(***************************************************************************)
(* The admission filter of admission.go over the bloom filter of           *)
(* internal/sketch/bloom.go.  Its calls hold its own mutex, so each is     *)
(* atomic whichever shards' writers make them.  BitsOf gives the bits that *)
(* a key's four hashes select.                                             *)
(***************************************************************************)
EXTENDS Integers

CONSTANTS
    BitsOf,     \* the bits of each key
    Expected    \* the distinct keys the filter is sized for, at least 1

NewDoorkeeper == [bits |-> {}, added |-> 0]

(* Bloom.Test, which is also Admit's answer.                               *)
Test(d, k) == BitsOf[k] \subseteq d.bits

Full(d) == d.added >= Expected

(* A key not seen yet is recorded; a full filter is cleared first.         *)
Record(d, k) ==
    IF Full(d) THEN [bits |-> BitsOf[k], added |-> 1]
    ELSE [bits |-> d.bits \cup BitsOf[k], added |-> d.added + 1]

Observe(d, k) == IF Test(d, k) THEN d ELSE Record(d, k)

(* The keys known to be recorded, brought up to date by Observe(d, k).     *)
Observed(d, seen, k) == IF Full(d) /\ ~Test(d, k) THEN {k} ELSE seen \cup {k}
=============================================================================
