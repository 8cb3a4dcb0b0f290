---------------------------- MODULE MC_TextFiles ----------------------------
(***************************************************************************)
(* The files the programs read: in a behaviour with part = "startup" the   *)
(* configurations and the filter, in one with part = "queries" input.txt.  *)
(***************************************************************************)
EXTENDS QueryLoop, Startup

VARIABLE part

MC_Indices == 0 .. 2

(* Hosts of one and two threads; filters whose cells are all used, some     *)
(* never, and one too small for its indices; no file, a short one, and one  *)
(* with a line that is no number.                                           *)
MC_Confs ==
  {<<"db", n, 3, 5, shape[1], shape[2]>> : n \in 1 .. 2, shape \in {<<4, 2>>, <<2, 1>>, <<4, 1>>, <<2, 2>>}}
  \cup {Missing, <<"db", 1, 3, 5, 4>>, <<"db", NotNumber, 3, 5, 4, 2>>}
MC_Elements == {d \in [0 .. 1 -> 0 .. 3] : d[0] # d[1]}
(* No digit behind, digits that flip a cell, and one that hides all.        *)
MC_Behinds == {-1, 0, 1}

FilesInit ==
  /\ part \in {"startup", "queries"}
  /\ IF part = "queries" THEN Init
     ELSE Init /\ input = <<>> /\ kw_frequency = [k \in Indices |-> 1]
  /\ IF part = "startup" THEN StartupInit
     ELSE StartupInit /\ conf = [h \in {"client", "server"} |-> Missing]

FilesNext ==
  \/ part = "queries" /\ Next /\ UNCHANGED <<part, startupVars>>
  \/ part = "startup" /\ StartupNext /\ UNCHANGED <<part, vars>>

FilesSpec == FilesInit /\ [][FilesNext]_<<part, vars, startupVars>>
=============================================================================
