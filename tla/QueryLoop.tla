----------------------------- MODULE QueryLoop -----------------------------
(***************************************************************************)
(* main of sse_search_client: one turn per line of input.txt, at most      *)
(* n_iterations.  A line names two keywords by their indices; freq_map     *)
(* orders them by frequency, and being a map keeps one keyword of two with *)
(* the same frequency; a query of one keyword is passed over without a     *)
(* result line.  evaluate_correctness.py compares the lines of res_id.csv  *)
(* with those of exp_output.txt one by one.                                *)
(***************************************************************************)
EXTENDS Naturals, Sequences, SequencesExt

CONSTANTS Indices,      \* of keyword_vec
          MaxFreq,      \* frequencies in db_kw_freq.csv
          MaxLines,     \* bound of the model: the length of input.txt
          n_iterations,
          Malformed,    \* a line without two fields
          NotNumeric    \* a line with a field std::stoi does not take

ASSUME SizesAssumption == MaxFreq \in Nat /\ MaxLines \in Nat /\ n_iterations \in Nat
ASSUME LinesAssumption == {Malformed, NotNumeric} \cap (Indices \X Indices) = {}

VARIABLES kw_frequency, \* frequencies of the keywords
          input,        \* the lines of input.txt
          pc,           \* "read", "search", "enter", "done", "exited", "aborted"
          q_idx,        \* turns of the loop
          query,        \* the indices of the query's keywords, in order
          results       \* res_id.csv and res_query.csv: the query of each line

vars == <<kw_frequency, input, pc, q_idx, query, results>>

(* freq_map after both keywords of a line, as a function of frequencies.    *)
FreqMap(line) ==
  [f \in {kw_frequency[line[k]] : k \in 1 .. 2} |->
     IF f = kw_frequency[line[2]] THEN line[2] ELSE line[1]]

(* Mutant of QueryOf: in the line's order. *)
QueryOfUnsorted(line) == IF line[1] = line[2] THEN <<line[1]>> ELSE line

(* The keywords of freq_map by increasing frequency. *)
QueryOf(line) ==
  LET m    == FreqMap(line)
      low  == CHOOSE f \in DOMAIN m : \A g \in DOMAIN m : f <= g
      high == CHOOSE f \in DOMAIN m : \A g \in DOMAIN m : g <= f
  IN IF low = high THEN <<m[low]>> ELSE <<m[low], m[high]>>

Init ==
  /\ kw_frequency \in [Indices -> 1 .. MaxFreq]
  /\ input \in UNION {[1 .. len -> (Indices \X Indices) \cup {Malformed, NotNumeric}] :
                      len \in 0 .. MaxLines}
  /\ pc = "read" /\ q_idx = 0 /\ query = <<>> /\ results = <<>>

(* The loop's end: n_iterations, or the end of input.txt.                   *)
Finish ==
  /\ pc = "read"
  /\ q_idx >= n_iterations \/ q_idx >= Len(input)
  /\ pc' = "done"
  /\ UNCHANGED <<kw_frequency, input, q_idx, query, results>>

Malform == input[q_idx + 1] = Malformed

(* std::stoi throws, and nothing catches it.                                *)
StoiThrows ==
  /\ pc = "read"
  /\ q_idx < n_iterations /\ q_idx < Len(input)
  /\ input[q_idx + 1] = NotNumeric
  /\ pc' = "aborted"
  /\ UNCHANGED <<kw_frequency, input, q_idx, query, results>>

Keywords == input[q_idx + 1] \in Indices \X Indices

(* A malformed line, or one whose keywords share a frequency.               *)
SkipLine ==
  /\ pc = "read"
  /\ q_idx < n_iterations /\ q_idx < Len(input)
  /\ \/ Malform
     \/ Keywords /\ Len(QueryOf(input[q_idx + 1])) < 2
  /\ q_idx' = q_idx + 1
  /\ UNCHANGED <<kw_frequency, input, pc, query, results>>

TakeLine ==
  /\ pc = "read"
  /\ q_idx < n_iterations /\ q_idx < Len(input)
  /\ Keywords
  /\ Len(QueryOf(input[q_idx + 1])) = 2
  /\ query' = QueryOf(input[q_idx + 1])
  /\ pc' = "search"
  /\ UNCHANGED <<kw_frequency, input, q_idx, results>>

(* connect() fails: exit(1).                                                *)
NoServer ==
  /\ pc = "search"
  /\ pc' = "exited"
  /\ UNCHANGED <<kw_frequency, input, q_idx, query, results>>

(* EDB_Search (SearchSession), the result lines, query.clear().             *)
Search ==
  /\ pc = "search"
  /\ results' = Append(results, query)
  /\ query' = <<>>
  /\ pc' = "enter"
  /\ UNCHANGED <<kw_frequency, input, q_idx>>

(* Mutant of PressEnter: a turn is counted twice. *)
PressEnterTwice ==
  /\ pc = "enter"
  /\ q_idx' = q_idx + 2
  /\ pc' = "read"
  /\ UNCHANGED <<kw_frequency, input, query, results>>

(* cin.get(), and the next turn. *)
PressEnter ==
  /\ pc = "enter"
  /\ q_idx' = q_idx + 1
  /\ pc' = "read"
  /\ UNCHANGED <<kw_frequency, input, query, results>>

Next == Finish \/ StoiThrows \/ SkipLine \/ TakeLine \/ NoServer \/ Search \/ PressEnter

Spec == Init /\ [][Next]_vars

-----------------------------------------------------------------------------
(* What create_testcase.py writes: pairs a < b of different frequencies.    *)
Generated(line) ==
  /\ line \in Indices \X Indices
  /\ line[1] < line[2] /\ kw_frequency[line[1]] # kw_frequency[line[2]]

(* While the lines read so far are generated ones, the result lines answer  *)
(* the first lines of the input, one each and in order, and none of them is *)
(* missing, however the program ends: after all its turns, at a server that *)
(* is not there, or at a later line that throws.  Result lines and expected *)
(* lines can be compared one by one.                                        *)
ResultsLineUp ==
  (\A k \in DOMAIN input : k <= q_idx => Generated(input[k])) =>
    /\ \A k \in DOMAIN results : ToSet(results[k]) = ToSet(input[k])
    /\ pc # "enter" => Len(results) = q_idx
    /\ pc = "done" => q_idx = n_iterations \/ q_idx = Len(input)

(* For any input, a query goes out with its rarer keyword first: the server *)
(* walks the shorter row, and n_vec - 1 = 1 holds for the server's fixed    *)
(* second keyword.                                                          *)
RarerFirst ==
  \A k \in DOMAIN results :
    Len(results[k]) = 2 /\ kw_frequency[results[k][1]] < kw_frequency[results[k][2]]
=============================================================================
