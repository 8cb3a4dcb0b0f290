-------------------------- MODULE MC_SearchSession --------------------------
(* SearchSession with two queries: two entries of which the second matches,  *)
(* and one that matches.                                                     *)
EXTENDS SearchSession

MC_RowLen == <<2, 1>>
MC_Hits   == <<{2}, {1}>>
=============================================================================
