------------------------------ MODULE MCTiered ------------------------------
(* Tiered for TLC on its own.                                              *)
EXTENDS Tiered
=============================================================================
