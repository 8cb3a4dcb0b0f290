----------------------------- MODULE SearchCall -----------------------------
(***************************************************************************)
(* What the user of the search programs relies on: a run of the client     *)
(* asks the queries of the input file one after the other and writes one   *)
(* line for each, in their order.  A query that nothing disturbs is        *)
(* answered exactly; one that is disturbed may be answered with anything   *)
(* of its own row.  A run that stops leaves the lines it has written; the  *)
(* next run starts the file afresh.                                        *)
(***************************************************************************)
EXTENDS Naturals, Sequences

CONSTANTS NQueries,   \* the lines of the input file
          Exact,      \* per query, the answer
          Possible    \* per query, what a disturbed search may report

VARIABLES phase,      \* "idle", "asking" or "over"
          lines,      \* the result file
          hurt        \* has something disturbed the query being asked

vars == <<phase, lines, hurt>>

Current == Len(lines) + 1

Init == phase = "idle" /\ lines = <<>> /\ ~hurt

Ask == /\ phase = "idle" /\ phase' = "asking"
       /\ Current <= NQueries
       /\ hurt' = FALSE
       /\ UNCHANGED lines

Disturb == /\ phase = "asking" /\ hurt'
           /\ UNCHANGED <<phase, lines>>

Report == /\ phase = "asking"
          /\ \E ids \in SUBSET Possible[Current] :
               /\ ~hurt => ids = Exact[Current]
               /\ lines' = Append(lines, [query |-> Current, ids |-> ids])
          /\ phase' = IF Current = NQueries THEN "over" ELSE "idle"
          /\ hurt' = FALSE

(* The client dies, or gives up because nobody listens. *)
Stop == /\ phase \in {"idle", "asking"} /\ phase' = "over"
        /\ hurt' = FALSE
        /\ UNCHANGED lines

Restart == /\ phase = "over" /\ phase' = "idle"
           /\ lines' = <<>>
           /\ UNCHANGED hurt

Next == Ask \/ Disturb \/ Report \/ Stop \/ Restart

Spec == Init /\ [][Next]_vars
=============================================================================
