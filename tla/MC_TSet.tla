------------------------------ MODULE MC_TSet ------------------------------
(* TSet with a few keywords and short rows, for TLC. *)
EXTENDS TSet
=============================================================================
