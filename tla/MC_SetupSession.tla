--------------------------- MODULE MC_SetupSession ---------------------------
EXTENDS SetupSession
(* Two databases: the second has a longer and a shorter row. *)
MC_Shapes == <<<<2, 1>>, <<1, 2>>>>
=============================================================================
