--------------------------- MODULE TextFiles_proofs ---------------------------
(***************************************************************************)
(* The programs' text files: the result lines of the search client, for    *)
(* every input file, every number of turns and every table of frequencies; *)
(* the Bloom filter the search server reads from its file, for every two   *)
(* configurations and all digests; and the conversions they are written    *)
(* with and read with: hexadecimal text and the indices of the filter.     *)
(***************************************************************************)
EXTENDS QueryLoop, Startup, Encodings, BFIdxConv, Numbers, TLAPS

(* QueryLoop *)

Frequency(pair, k) == kw_frequency[pair[k]]

LoopTypeOK ==
  /\ kw_frequency \in [Indices -> 1 .. MaxFreq]
  /\ input \in Seq((Indices \X Indices) \cup {Malformed, NotNumeric})
  /\ pc \in {"read", "search", "enter", "done", "exited", "aborted"}
  /\ q_idx \in 0 .. n_iterations /\ q_idx <= Len(input)
  /\ results \in Seq(Seq(Indices))

(* The line a search was started for, and its query. *)
SearchOK ==
  pc \in {"search", "enter", "exited"} =>
    /\ q_idx < n_iterations /\ q_idx < Len(input)
    /\ pc # "enter" =>
         /\ ToSet(query) = ToSet(input[q_idx + 1])
         /\ query \in Seq(Indices) /\ Len(query) = 2
         /\ kw_frequency[query[1]] < kw_frequency[query[2]]

(* While the lines read so far are generated ones, every turn has left its   *)
(* result line.                                                              *)
LinesOK ==
  (\A k \in DOMAIN input : k <= q_idx => Generated(input[k])) =>
    /\ Len(results) = IF pc = "enter" THEN q_idx + 1 ELSE q_idx
    /\ \A k \in 1 .. Len(results) : ToSet(results[k]) = ToSet(input[k])

EndOK == pc = "done" => q_idx = n_iterations \/ q_idx = Len(input)

LoopInv == LoopTypeOK /\ SearchOK /\ LinesOK /\ EndOK /\ RarerFirst

-----------------------------------------------------------------------------
(* What freq_map makes of a line whose keywords differ in frequency: both,   *)
(* the rarer one first.                                                      *)
LEMMA QueryOfTwo ==
  ASSUME LoopTypeOK, NEW pair \in Indices \X Indices, Frequency(pair, 1) # Frequency(pair, 2)
  PROVE  QueryOf(pair) = IF Frequency(pair, 1) < Frequency(pair, 2) THEN pair
                         ELSE <<pair[2], pair[1]>>
<1> DEFINE m == FreqMap(pair)
           f1 == Frequency(pair, 1)
           f2 == Frequency(pair, 2)
           low == CHOOSE f \in DOMAIN m : \A g \in DOMAIN m : f <= g
           high == CHOOSE f \in DOMAIN m : \A g \in DOMAIN m : g <= f
<1>1. f1 \in Nat /\ f2 \in Nat /\ pair = <<pair[1], pair[2]>>
  BY SizesAssumption DEF LoopTypeOK, Frequency
<1>2. DOMAIN m = {f1, f2} /\ m[f1] = pair[1] /\ m[f2] = pair[2]
  <2>1. {kw_frequency[pair[k]] : k \in 1 .. 2} = {f1, f2}
    BY DEF Frequency
  <2> QED
    BY <2>1 DEF FreqMap, Frequency
<1>3. low \in {f1, f2} /\ low <= f1 /\ low <= f2
  <2>1. \E f \in DOMAIN m : \A g \in DOMAIN m : f <= g
    BY <1>1, <1>2
  <2>2. low \in DOMAIN m /\ \A g \in DOMAIN m : low <= g
    BY <2>1
  <2> QED
    BY <1>2, <2>2
<1>4. high \in {f1, f2} /\ f1 <= high /\ f2 <= high
  <2>1. \E f \in DOMAIN m : \A g \in DOMAIN m : g <= f
    BY <1>1, <1>2
  <2>2. high \in DOMAIN m /\ \A g \in DOMAIN m : g <= high
    BY <2>1
  <2> QED
    BY <1>2, <2>2
<1>5. QueryOf(pair) = IF low = high THEN <<m[low]>> ELSE <<m[low], m[high]>>
  BY DEF QueryOf
<1> HIDE DEF low, high, m
<1>6. CASE f1 < f2
  <2>1. low = f1 /\ high = f2
    BY <1>1, <1>3, <1>4, <1>6
  <2> QED
    BY <1>1, <1>2, <1>5, <1>6, <2>1
<1>7. CASE f2 < f1
  <2>1. low = f2 /\ high = f1
    BY <1>1, <1>3, <1>4, <1>7
  <2> QED
    BY <1>1, <1>2, <1>5, <1>7, <2>1
<1> QED
  BY <1>1, <1>6, <1>7

(* A line whose keywords share a frequency makes no query of two keywords.   *)
LEMMA QueryOfEqual ==
  ASSUME LoopTypeOK, NEW pair \in Indices \X Indices, Frequency(pair, 1) = Frequency(pair, 2)
  PROVE  Len(QueryOf(pair)) = 1
<1> DEFINE m == FreqMap(pair)
           low == CHOOSE f \in DOMAIN m : \A g \in DOMAIN m : f <= g
           high == CHOOSE f \in DOMAIN m : \A g \in DOMAIN m : g <= f
<1>1. Frequency(pair, 1) \in Nat
  BY SizesAssumption DEF LoopTypeOK, Frequency
<1>2. DOMAIN m = {Frequency(pair, 1)}
  <2>1. {kw_frequency[pair[k]] : k \in 1 .. 2} = {Frequency(pair, 1)}
    BY DEF Frequency
  <2> QED
    BY <2>1 DEF FreqMap
<1>3. low = Frequency(pair, 1) /\ high = Frequency(pair, 1)
  <2>1. \E f \in DOMAIN m : \A g \in DOMAIN m : f <= g
    BY <1>1, <1>2
  <2>2. \E f \in DOMAIN m : \A g \in DOMAIN m : g <= f
    BY <1>1, <1>2
  <2>3. low \in DOMAIN m /\ high \in DOMAIN m
    BY <2>1, <2>2
  <2> QED
    BY <1>2, <2>3
<1>4. QueryOf(pair) = IF low = high THEN <<m[low]>> ELSE <<m[low], m[high]>>
  BY DEF QueryOf
<1> HIDE DEF low, high, m
<1> QED
  BY <1>3, <1>4

(* The two keywords of a generated line, whichever comes first.              *)
LEMMA SameKeywords ==
  ASSUME LoopTypeOK, NEW pair \in Indices \X Indices, Frequency(pair, 1) # Frequency(pair, 2)
  PROVE  /\ ToSet(QueryOf(pair)) = ToSet(pair)
         /\ QueryOf(pair) \in Seq(Indices) /\ Len(QueryOf(pair)) = 2
         /\ kw_frequency[QueryOf(pair)[1]] < kw_frequency[QueryOf(pair)[2]]
<1>1. pair = <<pair[1], pair[2]>> /\ pair[1] \in Indices /\ pair[2] \in Indices
  OBVIOUS
<1>2. Frequency(pair, 1) \in Nat /\ Frequency(pair, 2) \in Nat
  BY SizesAssumption DEF LoopTypeOK, Frequency
<1>3. ToSet(pair) = {pair[1], pair[2]} /\ ToSet(<<pair[2], pair[1]>>) = {pair[1], pair[2]}
  BY <1>1 DEF ToSet
<1>4. QueryOf(pair) = IF Frequency(pair, 1) < Frequency(pair, 2) THEN pair ELSE <<pair[2], pair[1]>>
  BY QueryOfTwo
<1>5. CASE Frequency(pair, 1) < Frequency(pair, 2)
  <2>1. QueryOf(pair) = <<pair[1], pair[2]>> /\ QueryOf(pair) = pair
    BY <1>1, <1>4, <1>5
  <2> QED
    BY <1>1, <1>5, <2>1 DEF Frequency
<1>6. CASE ~(Frequency(pair, 1) < Frequency(pair, 2))
  <2>1. QueryOf(pair) = <<pair[2], pair[1]>> /\ Frequency(pair, 2) < Frequency(pair, 1)
    BY <1>2, <1>4, <1>6
  <2> QED
    BY <1>1, <1>3, <2>1 DEF Frequency
<1> QED
  BY <1>5, <1>6
-----------------------------------------------------------------------------
(* The initial states satisfy the invariant. *)
LEMMA LoopInitInv == Init => LoopInv
<1> SUFFICES ASSUME Init PROVE LoopInv
  OBVIOUS
<1>1. LoopTypeOK
  BY SizesAssumption DEF Init, LoopTypeOK
<1> QED
  BY <1>1 DEF Init, LoopInv, SearchOK, LinesOK, EndOK, RarerFirst

(* The loop ends, or a line throws. *)
LEMMA EndInv == LoopInv /\ (Finish \/ StoiThrows \/ NoServer) => LoopInv'
<1> SUFFICES ASSUME LoopInv, Finish \/ StoiThrows \/ NoServer PROVE LoopInv'
  OBVIOUS
<1> USE DEF LoopInv
<1>1. LoopTypeOK'
  BY DEF LoopTypeOK, Finish, StoiThrows, NoServer
<1>2. SearchOK'
  BY DEF SearchOK, Finish, StoiThrows, NoServer
<1>3. LinesOK'
  BY DEF LinesOK, Finish, StoiThrows, NoServer, Generated
<1>4. EndOK'
  <2>1. Finish => q_idx = n_iterations \/ q_idx = Len(input)
    <3>1. Len(input) \in Nat /\ q_idx \in Nat /\ q_idx <= n_iterations /\ q_idx <= Len(input)
      BY SizesAssumption DEF LoopTypeOK
    <3> QED
      BY <3>1, SizesAssumption DEF Finish
  <2> QED
    BY <2>1 DEF EndOK, Finish, StoiThrows, NoServer
<1>5. RarerFirst'
  BY DEF RarerFirst, Finish, StoiThrows, NoServer
<1> QED
  BY <1>1, <1>2, <1>3, <1>4, <1>5

(* A line is passed over: it was not a generated one. *)
LEMMA SkipLineInv == LoopInv /\ SkipLine => LoopInv'
<1> SUFFICES ASSUME LoopInv, SkipLine PROVE LoopInv'
  OBVIOUS
<1> USE DEF LoopInv
<1>1. LoopTypeOK'
  BY SizesAssumption DEF LoopTypeOK, SkipLine
<1>2. SearchOK' /\ EndOK'
  BY DEF SearchOK, EndOK, SkipLine
<1>3. ~Generated(input[q_idx + 1])
  <2> SUFFICES ASSUME Generated(input[q_idx + 1]) PROVE FALSE
    OBVIOUS
  <2> DEFINE pair == input[q_idx + 1]
  <2>1. pair \in Indices \X Indices /\ Frequency(pair, 1) # Frequency(pair, 2)
    BY DEF Generated, Frequency
  <2>2. Len(QueryOf(pair)) = 2
    BY <2>1, SameKeywords
  <2>3. pair # Malformed
    BY <2>1, LinesAssumption
  <2> QED
    BY <2>2, <2>3 DEF SkipLine, Malform
<1>4. LinesOK'
  <2>1. q_idx + 1 \in DOMAIN input /\ q_idx' = q_idx + 1 /\ input' = input
        /\ kw_frequency' = kw_frequency
    BY DEF SkipLine, LoopTypeOK
  <2>2. ~(\A k \in DOMAIN input : k <= q_idx => Generated(input[k]))'
    BY <1>3, <2>1 DEF LoopTypeOK, Generated
  <2> QED
    BY <2>2 DEF LinesOK
<1>5. RarerFirst'
  BY DEF RarerFirst, SkipLine
<1> QED
  BY <1>1, <1>2, <1>4, <1>5

(* A line is taken: its keywords differ in frequency. *)
LEMMA TakeLineInv == LoopInv /\ TakeLine => LoopInv'
<1> SUFFICES ASSUME LoopInv, TakeLine PROVE LoopInv'
  OBVIOUS
<1> USE DEF LoopInv
<1>1. LoopTypeOK'
  BY DEF LoopTypeOK, TakeLine
<1>2. Frequency(input[q_idx + 1], 1) # Frequency(input[q_idx + 1], 2)
  <2>1. input[q_idx + 1] \in Indices \X Indices /\ Len(QueryOf(input[q_idx + 1])) = 2
    BY DEF TakeLine, Keywords
  <2> QED
    BY <2>1, QueryOfEqual
<1>3. SearchOK'
  <2> DEFINE pair == input[q_idx + 1]
  <2>1. /\ ToSet(QueryOf(pair)) = ToSet(pair)
        /\ QueryOf(pair) \in Seq(Indices) /\ Len(QueryOf(pair)) = 2
        /\ kw_frequency[QueryOf(pair)[1]] < kw_frequency[QueryOf(pair)[2]]
    BY <1>2, SameKeywords DEF TakeLine, Keywords
  <2>2. /\ query' = QueryOf(pair) /\ q_idx < n_iterations /\ q_idx < Len(input)
        /\ UNCHANGED <<kw_frequency, input, q_idx>>
    BY DEF TakeLine
  <2> QED
    BY <2>1, <2>2 DEF SearchOK
<1>4. LinesOK' /\ EndOK'
  BY DEF LinesOK, EndOK, TakeLine, Generated
<1>5. RarerFirst'
  BY DEF RarerFirst, TakeLine
<1> QED
  BY <1>1, <1>3, <1>4, <1>5

(* A search leaves the line's result. *)
LEMMA SearchInv == LoopInv /\ Search => LoopInv'
<1> SUFFICES ASSUME LoopInv, Search PROVE LoopInv'
  OBVIOUS
<1> USE DEF LoopInv
<1> DEFINE pair == input[q_idx + 1]
<1>1. q_idx < n_iterations /\ q_idx < Len(input)
  BY DEF SearchOK, Search
<1>2. /\ ToSet(query) = ToSet(pair) /\ query \in Seq(Indices) /\ Len(query) = 2
      /\ kw_frequency[query[1]] < kw_frequency[query[2]]
  BY DEF SearchOK, Search
<1>3. /\ results \in Seq(Seq(Indices)) /\ results' = Append(results, query) /\ q_idx \in Nat
      /\ pc = "search" /\ pc' = "enter"
      /\ UNCHANGED <<kw_frequency, input, q_idx>>
  BY DEF LoopTypeOK, Search
<1>4. /\ Len(results') = Len(results) + 1 /\ results'[Len(results) + 1] = query
      /\ \A k \in 1 .. Len(results) : results'[k] = results[k]
      /\ results' \in Seq(Seq(Indices)) /\ Len(results) \in Nat
  BY <1>2, <1>3
<1>5. LoopTypeOK'
  BY <1>3, <1>4 DEF LoopTypeOK
<1>6. SearchOK' /\ EndOK'
  BY <1>1, <1>3 DEF SearchOK, EndOK
<1>7. LinesOK'
  <2> SUFFICES ASSUME \A k \in DOMAIN input : k <= q_idx => Generated(input[k])
               PROVE  /\ Len(results') = q_idx + 1
                      /\ \A k \in 1 .. Len(results') : ToSet(results'[k]) = ToSet(input[k])
    BY <1>3 DEF LinesOK, Generated
  <2>1. Len(results) = q_idx /\ \A k \in 1 .. Len(results) : ToSet(results[k]) = ToSet(input[k])
    BY <1>3 DEF LinesOK
  <2> HIDE DEF pair
  <2>2. ASSUME NEW k \in 1 .. Len(results') PROVE ToSet(results'[k]) = ToSet(input[k])
    <3>1. CASE k = Len(results) + 1
      BY <1>2, <1>4, <2>1, <3>1 DEF pair
    <3>2. CASE k \in 1 .. Len(results)
      BY <1>4, <2>1, <3>2
    <3> QED
      BY <1>4, <2>2, <3>1, <3>2
  <2> QED
    BY <1>4, <2>1, <2>2
<1>8. RarerFirst'
  <2> SUFFICES ASSUME NEW k \in 1 .. Len(results')
               PROVE  Len(results'[k]) = 2
                      /\ kw_frequency[results'[k][1]] < kw_frequency[results'[k][2]]
    BY <1>3, <1>4 DEF RarerFirst
  <2>1. CASE k = Len(results) + 1
    BY <1>2, <1>4, <2>1
  <2>2. CASE k \in 1 .. Len(results)
    BY <1>3, <1>4, <2>2 DEF RarerFirst
  <2> QED
    BY <1>4, <2>1, <2>2
<1> QED
  BY <1>5, <1>6, <1>7, <1>8

(* The next turn. *)
LEMMA PressEnterInv == LoopInv /\ PressEnter => LoopInv'
<1> SUFFICES ASSUME LoopInv, PressEnter PROVE LoopInv'
  OBVIOUS
<1> USE DEF LoopInv
<1>1. LoopTypeOK'
  BY SizesAssumption DEF LoopTypeOK, SearchOK, PressEnter
<1>2. SearchOK' /\ EndOK'
  BY DEF SearchOK, EndOK, PressEnter
<1>3. LinesOK'
  <2>1. /\ q_idx \in Nat /\ q_idx' = q_idx + 1 /\ pc = "enter" /\ pc' = "read"
        /\ UNCHANGED <<kw_frequency, input, results>>
    BY DEF LoopTypeOK, PressEnter
  <2>2. (\A k \in DOMAIN input : k <= q_idx => Generated(input[k]))'
        => \A k \in DOMAIN input : k <= q_idx => Generated(input[k])
    <3>1. ASSUME NEW k \in DOMAIN input, k <= q_idx PROVE k <= q_idx + 1
      BY <2>1, <3>1 DEF LoopTypeOK
    <3> QED
      BY <2>1, <3>1 DEF Generated
  <2> QED
    BY <2>1, <2>2 DEF LinesOK
<1>4. RarerFirst'
  BY DEF RarerFirst, PressEnter
<1> QED
  BY <1>1, <1>2, <1>3, <1>4

(* The invariant holds in every reachable state. *)
LEMMA LoopInvariant == Spec => []LoopInv
<1>1. LoopInv /\ [Next]_vars => LoopInv'
  <2> SUFFICES ASSUME LoopInv, [Next]_vars PROVE LoopInv'
    OBVIOUS
  <2>1. CASE Next
    BY <2>1, EndInv, SkipLineInv, TakeLineInv, SearchInv, PressEnterInv DEF Next
  <2>2. CASE UNCHANGED vars
    BY <2>2 DEF vars, LoopInv, LoopTypeOK, SearchOK, LinesOK, EndOK, RarerFirst, Generated
  <2> QED
    BY <2>1, <2>2
<1> QED
  BY <1>1, LoopInitInv, PTL DEF Spec

(* For every input file: as long as the lines read are generated ones, the   *)
(* result lines answer them, one each and in order, however the program ends. *)
THEOREM LinesMatch == Spec => []ResultsLineUp
<1>1. LoopInv => ResultsLineUp
  <2> SUFFICES ASSUME LoopInv PROVE ResultsLineUp
    OBVIOUS
  <2>1. DOMAIN results = 1 .. Len(results)
    BY DEF LoopInv, LoopTypeOK
  <2> QED
    BY <2>1 DEF LoopInv, LinesOK, EndOK, ResultsLineUp
<1> QED
  BY <1>1, LoopInvariant, PTL

(* For every table of frequencies a query goes out with its rarer keyword    *)
(* first.                                                                    *)
THEOREM RarerGoesFirst == Spec => []RarerFirst
<1>1. LoopInv => RarerFirst
  BY DEF LoopInv
<1> QED
  BY <1>1, LoopInvariant, PTL

-----------------------------------------------------------------------------
(* Startup *)

(* The line of a cell in a file of arrays of some size, and the cell of a    *)
(* line.                                                                     *)
LineOf(k, j, bins) == k * bins + j + 1
ArrayAt(l, bins) == (l - 1) \div bins
CellAt(l, bins) == (l - 1) % bins

(* Arrays of the size a program read from its configuration.                 *)
Shaped(cells, hashes, bins) ==
  /\ DOMAIN cells = 0 .. hashes - 1
  /\ \A k \in 0 .. hashes - 1 : DOMAIN cells[k] = 0 .. bins - 1

(* Every element of a set has its cell in every array, and it is set.        *)
AllSet(cells, hashes, bins, bits, ds) ==
  \A d \in ds : \A k \in 0 .. hashes - 1 :
    Index(d, k, bits) \in 0 .. bins - 1 /\ cells[k][Index(d, k, bits)] = 1

StartupTypeOK ==
  /\ turn \in 1 .. 4
  /\ at \in {"conf", "init", "filter", "ready", "stopped", "undefined"}
  /\ conf \in [{"client", "server"} -> Confs]
  /\ N_HASH \in Nat /\ MAX_BF_BIN_SIZE \in Nat
  /\ written.hashes \in Nat /\ written.bins \in Nat
  /\ line \in Nat /\ n_hash \in Nat /\ bf_idx \in Nat

(* Before the set-up client has its arrays, nothing is set and nothing is    *)
(* written.                                                                  *)
UnsetOK ==
  turn = 1 \/ (turn = 2 /\ at \in {"conf", "init"}) => inserted = {}

UnwrittenOK ==
  turn = 1 \/ (turn = 2 /\ at # "ready") =>
    written = Nothing

(* While it sets up, and when it has written. *)
SetOK ==
  turn = 2 /\ at = "filter" =>
    /\ Shaped(BF, N_HASH, MAX_BF_BIN_SIZE)
    /\ AllSet(BF, N_HASH, MAX_BF_BIN_SIZE, N_BF_BITS, inserted)

WrittenOK ==
  written.hashes > 0 =>
    /\ Shaped(written.cells, written.hashes, written.bins)
    /\ AllSet(written.cells, written.hashes, written.bins, written.bits, inserted)
    /\ Len(bloomfilter_file) = written.hashes * written.bins
    /\ \A k \in 0 .. written.hashes - 1, j \in 0 .. written.bins - 1 :
         bloomfilter_file[LineOf(k, j, written.bins)] = written.cells[k][j]

(* A search program has read the cells before the one it is at; when the    *)
(* loop has ended, all it has an array for.                                  *)
Undisturbed ==
  turn >= 3 /\ behind = -1 /\ written.hashes > 0 /\ written.bins = MAX_BF_BIN_SIZE

FreshOK ==
  turn >= 3 /\ at \in {"conf", "init"} => line = 1 /\ n_hash = 0 /\ bf_idx = 0

ReadingOK ==
  Undisturbed /\ at = "filter" =>
    /\ Shaped(BF, N_HASH, MAX_BF_BIN_SIZE)
    /\ line = LineOf(n_hash, bf_idx, MAX_BF_BIN_SIZE)
    /\ n_hash <= N_HASH /\ n_hash <= written.hashes
    /\ bf_idx = 0 \/ (bf_idx < MAX_BF_BIN_SIZE /\ n_hash < written.hashes)
    /\ \A k \in 0 .. N_HASH - 1, j \in 0 .. MAX_BF_BIN_SIZE - 1 :
         k < n_hash \/ (k = n_hash /\ j < bf_idx) => BF[k][j] = written.cells[k][j]

ReadOK ==
  Undisturbed /\ at = "ready" =>
    /\ Shaped(BF, N_HASH, MAX_BF_BIN_SIZE)
    /\ N_HASH <= written.hashes =>
         \A k \in 0 .. N_HASH - 1, j \in 0 .. MAX_BF_BIN_SIZE - 1 :
           BF[k][j] = written.cells[k][j]

StartupInv ==
  StartupTypeOK /\ UnsetOK /\ UnwrittenOK /\ SetOK /\ WrittenOK /\ FreshOK /\ ReadingOK /\ ReadOK

-----------------------------------------------------------------------------
(* Which program a turn runs. *)
LEMMA ProgramOfTurn ==
  ASSUME NEW t \in 1 .. 4
  PROVE  /\ Programs[t] = "setup_client" <=> t = 2
         /\ Programs[t] = "search_server" => t = 3
         /\ Programs[t] \in Readers <=> t \in {3, 4}
  BY DEF Programs, Readers

(* The line of a cell in the file. *)
LEMMA LineOfCell ==
  ASSUME NEW hashes \in Nat, NEW bins \in Nat,
         NEW k \in 0 .. hashes - 1, NEW j \in 0 .. bins - 1
  PROVE  /\ LineOf(k, j, bins) \in 1 .. hashes * bins
         /\ ArrayAt(LineOf(k, j, bins), bins) = k
         /\ CellAt(LineOf(k, j, bins), bins) = j
<1>1. k * bins + j \in Nat /\ k * bins + j < hashes * bins
  <2>1. k * bins \in Nat /\ (k + 1) * bins <= hashes * bins /\ (k + 1) * bins = k * bins + bins
    OBVIOUS
  <2> QED
    BY <2>1
<1>2. (k * bins + j) \div bins = k /\ (k * bins + j) % bins = j
  BY SMTT(30)
<1>3. hashes * bins \in Nat /\ k * bins \in Nat
  OBVIOUS
<1>4. k * bins + j + 1 \in 1 .. hashes * bins /\ (k * bins + j + 1) - 1 = k * bins + j
  BY <1>1, <1>3
<1> QED
  BY <1>2, <1>4 DEF LineOf, ArrayAt, CellAt

(* A position inside the file lies in one of the arrays that were written.   *)
LEMMA ArrayOfLine ==
  ASSUME NEW hashes \in Nat, NEW bins \in Nat, NEW k \in Nat, NEW j \in Nat,
         LineOf(k, j, bins) <= hashes * bins
  PROVE  k < hashes /\ bins > 0
<1>1. k * bins \in Nat /\ hashes * bins \in Nat
  OBVIOUS
<1>2. k * bins < hashes * bins
  BY <1>1 DEF LineOf
<1>3. k >= hashes => k * bins >= hashes * bins
  OBVIOUS
<1>4. bins = 0 => hashes * bins = 0
  OBVIOUS
<1> QED
  BY <1>1, <1>2, <1>3, <1>4

(* The line after that of a cell is the line of the next one. *)
LEMMA NextCell ==
  ASSUME NEW bins \in Nat, NEW k \in Nat, NEW j \in Nat
  PROVE  /\ LineOf(k, j + 1, bins) = LineOf(k, j, bins) + 1
         /\ j + 1 = bins => LineOf(k + 1, 0, bins) = LineOf(k, j, bins) + 1
<1>1. k * bins \in Nat /\ (k + 1) * bins = k * bins + bins
  OBVIOUS
<1> QED
  BY <1>1 DEF LineOf

(* What is before the end of the file's loop when the file has ended. *)
LEMMA PastTheEnd ==
  ASSUME NEW hashes \in Nat, NEW bins \in Nat, NEW k \in Nat, NEW j \in Nat,
         k < hashes, j < bins
  PROVE  LineOf(k, j, bins) <= hashes * bins
<1>1. (k + 1) * bins <= hashes * bins /\ (k + 1) * bins = k * bins + bins
  OBVIOUS
<1>2. k * bins \in Nat /\ hashes * bins \in Nat
  OBVIOUS
<1> QED
  BY <1>1, <1>2 DEF LineOf

-----------------------------------------------------------------------------
(* The initial states satisfy the invariant. *)
LEMMA StartupInitInv == StartupInit => StartupInv
<1> SUFFICES ASSUME StartupInit PROVE StartupInv
  OBVIOUS
<1>1. StartupTypeOK
  BY DEF StartupInit, StartupTypeOK, Nothing
<1> QED
  BY <1>1 DEF StartupInit, StartupInv, UnsetOK, UnwrittenOK, SetOK, WrittenOK, FreshOK, ReadingOK,
              ReadOK, Undisturbed, Nothing

(* The configuration is read, or is not. *)
LEMMA ConfInv == StartupInv /\ (ConfRead \/ ConfThrows \/ ConfMissing) => StartupInv'
<1> SUFFICES ASSUME StartupInv, ConfRead \/ ConfThrows \/ ConfMissing PROVE StartupInv'
  OBVIOUS
<1> USE DEF StartupInv
<1>1. /\ at = "conf" /\ at' \in {"init", "stopped"}
      /\ UNCHANGED <<conf, turn, BF, inserted, written, bloomfilter_file, reading>>
  BY DEF ConfRead, ConfThrows, ConfMissing
<1>2. N_HASH' \in Nat /\ MAX_BF_BIN_SIZE' \in Nat
  <2>1. CASE ConfRead
    <3>1. file \in Confs \ {Missing} /\ \A k \in {2, 5} : k <= Len(file) /\ file[k] # NotNumber
      <4>1. Host(program) \in {"client", "server"}
        BY DEF Host
      <4> QED
        BY <2>1, <4>1 DEF ConfRead, Takes, file, StartupTypeOK
    <3>2. file[2] \in Nat /\ file[5] \in Nat
      <4> HIDE DEF file
      <4> QED
        BY <3>1, ConfsAssumption
    <3> QED
      BY <2>1, <3>2 DEF ConfRead
  <2>2. CASE ConfThrows \/ ConfMissing
    BY <2>2 DEF ConfThrows, ConfMissing, sizes, StartupTypeOK
  <2> QED
    BY <2>1, <2>2
<1>3. StartupTypeOK'
  BY <1>1, <1>2 DEF StartupTypeOK, reading
<1>4. UnsetOK' /\ UnwrittenOK' /\ SetOK' /\ FreshOK'
  BY <1>1 DEF UnsetOK, UnwrittenOK, SetOK, FreshOK, reading
<1>5. WrittenOK'
  BY <1>1 DEF WrittenOK, Shaped, AllSet
<1>6. ReadingOK' /\ ReadOK'
  BY <1>1 DEF ReadingOK, ReadOK
<1> QED
  BY <1>3, <1>4, <1>5, <1>6

(* The arrays are allocated, their cells zero. *)
LEMMA SysInitInv == StartupInv /\ SysInit => StartupInv'
<1> SUFFICES ASSUME StartupInv, SysInit PROVE StartupInv'
  OBVIOUS
<1> USE DEF StartupInv
<1>1. /\ at = "init" /\ turn \in 1 .. 4 /\ at' \in {"filter", "ready"}
      /\ at' = "filter" <=> turn \in {2, 3, 4}
      /\ UNCHANGED <<conf, turn, sizes, inserted, written, bloomfilter_file, line, n_hash, bf_idx>>
  BY ProgramOfTurn DEF SysInit, program, StartupTypeOK
<1>2. Shaped(BF', N_HASH, MAX_BF_BIN_SIZE)
  BY DEF SysInit, Shaped
<1>3. StartupTypeOK'
  BY <1>1 DEF StartupTypeOK, sizes
<1>4. UnsetOK' /\ UnwrittenOK' /\ FreshOK'
  BY <1>1 DEF UnsetOK, UnwrittenOK, FreshOK
<1>5. SetOK'
  <2>1. turn = 2 => inserted = {}
    BY <1>1 DEF UnsetOK
  <2> QED
    BY <1>1, <1>2, <2>1 DEF SetOK, AllSet, Shaped, sizes
<1>6. WrittenOK'
  BY <1>1 DEF WrittenOK, Shaped, AllSet
<1>7. ReadingOK'
  <2>1. turn >= 3 => line = 1 /\ n_hash = 0 /\ bf_idx = 0
    BY <1>1 DEF FreshOK
  <2> QED
    BY <1>1, <1>2, <2>1 DEF ReadingOK, Shaped, sizes, Undisturbed, StartupTypeOK, LineOf
<1>8. ReadOK'
  BY <1>1 DEF ReadOK, Undisturbed
<1> QED
  BY <1>3, <1>4, <1>5, <1>6, <1>7, <1>8

(* An element is put in: its cell of every array is set, and none is unset.  *)
LEMMA SetInv ==
  ASSUME StartupInv, NEW d \in Elements, BloomFilter_Set(d)
  PROVE  StartupInv'
<1> USE DEF StartupInv
<1>1. /\ turn = 2 /\ turn \in 1 .. 4 /\ at = "filter" /\ at' \in {"filter", "undefined"}
      /\ UNCHANGED <<conf, turn, sizes, written, bloomfilter_file, reading>>
  BY ProgramOfTurn DEF BloomFilter_Set, program, StartupTypeOK
<1>2. written = Nothing
  BY <1>1 DEF UnwrittenOK
<1>3. StartupTypeOK'
  BY <1>1 DEF StartupTypeOK, sizes, reading
<1>4. UnsetOK' /\ UnwrittenOK' /\ FreshOK' /\ ReadingOK' /\ ReadOK' /\ WrittenOK'
  BY <1>1, <1>2 DEF UnsetOK, UnwrittenOK, FreshOK, ReadingOK, ReadOK, WrittenOK, Undisturbed, Nothing
<1>5. SetOK'
  <2> SUFFICES ASSUME at' = "filter"
               PROVE  /\ Shaped(BF', N_HASH, MAX_BF_BIN_SIZE)
                      /\ AllSet(BF', N_HASH, MAX_BF_BIN_SIZE, N_BF_BITS, inserted')
    BY <1>1 DEF SetOK, Shaped, AllSet, sizes
  <2>1. /\ \A k \in DOMAIN BF : Index(d, k, N_BF_BITS) \in DOMAIN BF[k]
        /\ BF' = [k \in DOMAIN BF |-> [BF[k] EXCEPT ![Index(d, k, N_BF_BITS)] = 1]]
        /\ inserted' = inserted \cup {d}
    BY DEF BloomFilter_Set
  <2>2. /\ Shaped(BF, N_HASH, MAX_BF_BIN_SIZE)
        /\ AllSet(BF, N_HASH, MAX_BF_BIN_SIZE, N_BF_BITS, inserted)
    BY <1>1 DEF SetOK
  <2>3. Shaped(BF', N_HASH, MAX_BF_BIN_SIZE)
    BY <2>1, <2>2 DEF Shaped
  <2>4. ASSUME NEW x \in inserted', NEW k \in 0 .. N_HASH - 1
        PROVE  Index(x, k, N_BF_BITS) \in 0 .. MAX_BF_BIN_SIZE - 1
               /\ BF'[k][Index(x, k, N_BF_BITS)] = 1
    <3>1. k \in DOMAIN BF /\ DOMAIN BF[k] = 0 .. MAX_BF_BIN_SIZE - 1
          /\ BF'[k] = [BF[k] EXCEPT ![Index(d, k, N_BF_BITS)] = 1]
      BY <2>1, <2>2 DEF Shaped
    <3>2. CASE x = d
      BY <2>1, <3>1, <3>2
    <3>3. CASE x \in inserted
      BY <2>1, <2>2, <3>1, <3>3 DEF AllSet
    <3> QED
      BY <2>1, <3>2, <3>3
  <2> QED
    BY <2>3, <2>4 DEF AllSet
<1> QED
  BY <1>3, <1>4, <1>5

(* The filter is written: a line for each of its cells. *)
LEMMA WriteInv == StartupInv /\ WriteBFtoFile => StartupInv'
<1> SUFFICES ASSUME StartupInv, WriteBFtoFile PROVE StartupInv'
  OBVIOUS
<1> USE DEF StartupInv
<1>1. /\ turn = 2 /\ turn \in 1 .. 4 /\ at = "filter" /\ at' = "ready"
      /\ UNCHANGED <<conf, turn, sizes, BF, inserted, reading>>
  BY ProgramOfTurn DEF WriteBFtoFile, program, StartupTypeOK
<1>2. /\ written' = [hashes |-> N_HASH, bins |-> MAX_BF_BIN_SIZE, bits |-> N_BF_BITS, cells |-> BF]
      /\ bloomfilter_file' = [l \in 1 .. N_HASH * MAX_BF_BIN_SIZE |->
                                BF[(l - 1) \div MAX_BF_BIN_SIZE][(l - 1) % MAX_BF_BIN_SIZE]]
      /\ N_HASH \in Nat /\ MAX_BF_BIN_SIZE \in Nat
  BY DEF WriteBFtoFile, StartupTypeOK
<1>3. StartupTypeOK'
  BY <1>1, <1>2 DEF StartupTypeOK, sizes, reading
<1>4. UnsetOK' /\ UnwrittenOK' /\ SetOK' /\ FreshOK' /\ ReadingOK' /\ ReadOK'
  BY <1>1 DEF UnsetOK, UnwrittenOK, SetOK, FreshOK, ReadingOK, ReadOK, Undisturbed
<1>5. WrittenOK'
  <2>1. /\ Shaped(BF, N_HASH, MAX_BF_BIN_SIZE)
        /\ AllSet(BF, N_HASH, MAX_BF_BIN_SIZE, N_BF_BITS, inserted)
    BY <1>1 DEF SetOK
  <2>2. N_HASH * MAX_BF_BIN_SIZE \in Nat
    BY <1>2
  <2>3. Len(bloomfilter_file') = N_HASH * MAX_BF_BIN_SIZE
    BY <1>2, <2>2
  <2>4. ASSUME NEW k \in 0 .. N_HASH - 1, NEW j \in 0 .. MAX_BF_BIN_SIZE - 1
        PROVE  bloomfilter_file'[LineOf(k, j, MAX_BF_BIN_SIZE)] = BF[k][j]
    <3> DEFINE l == LineOf(k, j, MAX_BF_BIN_SIZE)
    <3>1. /\ l \in 1 .. N_HASH * MAX_BF_BIN_SIZE
          /\ ArrayAt(l, MAX_BF_BIN_SIZE) = k
          /\ CellAt(l, MAX_BF_BIN_SIZE) = j
      BY <1>2, LineOfCell
    <3>2. bloomfilter_file' = [x \in 1 .. N_HASH * MAX_BF_BIN_SIZE |->
                                 BF[ArrayAt(x, MAX_BF_BIN_SIZE)][CellAt(x, MAX_BF_BIN_SIZE)]]
      BY <1>2, Zenon DEF ArrayAt, CellAt
    <3> HIDE DEF l
    <3>3. bloomfilter_file'[l] = BF[k][j]
      BY <3>1, <3>2
    <3> QED
      BY <3>3 DEF l
  <2>5. /\ written'.hashes = N_HASH /\ written'.bins = MAX_BF_BIN_SIZE
        /\ written'.bits = N_BF_BITS /\ written'.cells = BF
    BY <1>2
  <2> QED
    BY <1>1, <2>1, <2>3, <2>4, <2>5 DEF WrittenOK, Shaped, AllSet
<1> QED
  BY <1>3, <1>4, <1>5

(* A line is read into the cell it was written from.                         *)
LEMMA ReadLineInv == StartupInv /\ ReadLine => StartupInv'
<1> SUFFICES ASSUME StartupInv, ReadLine PROVE StartupInv'
  OBVIOUS
<1> USE DEF StartupInv
<1>1. /\ turn \in {3, 4} /\ at = "filter"
      /\ UNCHANGED <<conf, turn, at, sizes, inserted, written, bloomfilter_file, behind>>
  BY ProgramOfTurn DEF ReadLine, program, StartupTypeOK
<1>2. /\ line <= Len(bloomfilter_file) /\ n_hash < N_HASH /\ line' = line + 1
      /\ IF bf_idx + 1 = MAX_BF_BIN_SIZE THEN n_hash' = n_hash + 1 /\ bf_idx' = 0
         ELSE bf_idx' = bf_idx + 1 /\ n_hash' = n_hash
      /\ line \in Nat /\ n_hash \in Nat /\ bf_idx \in Nat /\ N_HASH \in Nat
      /\ MAX_BF_BIN_SIZE \in Nat /\ written.hashes \in Nat /\ written.bins \in Nat
  BY DEF ReadLine, More, LastOfArray, StartupTypeOK
<1>a. BF' = [BF EXCEPT ![n_hash][bf_idx] = Byte(bloomfilter_file[line])]
  BY DEF ReadLine
<1>3. StartupTypeOK'
  BY <1>1, <1>2 DEF StartupTypeOK, sizes
<1>4. UnsetOK' /\ UnwrittenOK' /\ SetOK' /\ FreshOK' /\ ReadOK'
  BY <1>1 DEF UnsetOK, UnwrittenOK, SetOK, FreshOK, ReadOK, Undisturbed
<1>5. WrittenOK'
  BY <1>1 DEF WrittenOK, Shaped, AllSet
<1>6. ReadingOK'
  <2> SUFFICES ASSUME Undisturbed
               PROVE  /\ Shaped(BF', N_HASH, MAX_BF_BIN_SIZE)
                      /\ line' = LineOf(n_hash', bf_idx', MAX_BF_BIN_SIZE)
                      /\ n_hash' <= N_HASH /\ n_hash' <= written.hashes
                      /\ bf_idx' = 0 \/ (bf_idx' < MAX_BF_BIN_SIZE /\ n_hash' < written.hashes)
                      /\ \A k \in 0 .. N_HASH - 1, j \in 0 .. MAX_BF_BIN_SIZE - 1 :
                           k < n_hash' \/ (k = n_hash' /\ j < bf_idx')
                             => BF'[k][j] = written.cells[k][j]
    BY <1>1 DEF ReadingOK, Undisturbed, Shaped, sizes
  <2>1. /\ Shaped(BF, N_HASH, MAX_BF_BIN_SIZE)
        /\ line = LineOf(n_hash, bf_idx, MAX_BF_BIN_SIZE)
        /\ n_hash <= N_HASH /\ n_hash <= written.hashes
        /\ bf_idx = 0 \/ (bf_idx < MAX_BF_BIN_SIZE /\ n_hash < written.hashes)
        /\ \A k \in 0 .. N_HASH - 1, j \in 0 .. MAX_BF_BIN_SIZE - 1 :
             k < n_hash \/ (k = n_hash /\ j < bf_idx) => BF[k][j] = written.cells[k][j]
    BY <1>1 DEF ReadingOK
  <2>2. /\ behind = -1 /\ written.hashes > 0 /\ written.bins = MAX_BF_BIN_SIZE
        /\ Len(bloomfilter_file) = written.hashes * written.bins
        /\ \A k \in 0 .. written.hashes - 1, j \in 0 .. written.bins - 1 :
             bloomfilter_file[LineOf(k, j, written.bins)] = written.cells[k][j]
    BY DEF Undisturbed, WrittenOK
  <2>3. n_hash < written.hashes /\ MAX_BF_BIN_SIZE > 0
    <3>1. LineOf(n_hash, bf_idx, MAX_BF_BIN_SIZE) <= written.hashes * MAX_BF_BIN_SIZE
      BY <1>2, <2>1, <2>2
    <3> QED
      BY <1>2, <3>1, ArrayOfLine
  <2>4. n_hash \in 0 .. N_HASH - 1 /\ bf_idx \in 0 .. MAX_BF_BIN_SIZE - 1
    BY <1>2, <2>1, <2>3
  <2>5. Byte(bloomfilter_file[line]) = written.cells[n_hash][bf_idx]
    <3>1. n_hash \in 0 .. written.hashes - 1 /\ bf_idx \in 0 .. written.bins - 1
      BY <1>2, <2>2, <2>3, <2>4
    <3>2. bloomfilter_file[LineOf(n_hash, bf_idx, written.bins)] = written.cells[n_hash][bf_idx]
      BY <2>2, <3>1, Zenon
    <3> QED
      BY <2>1, <2>2, <3>2 DEF Byte
  <2>6. /\ Shaped(BF', N_HASH, MAX_BF_BIN_SIZE)
        /\ BF'[n_hash][bf_idx] = written.cells[n_hash][bf_idx]
        /\ \A k \in 0 .. N_HASH - 1, j \in 0 .. MAX_BF_BIN_SIZE - 1 :
             k # n_hash \/ j # bf_idx => BF'[k][j] = BF[k][j]
    <3> HIDE DEF StartupInv
    <3> QED
      BY <1>2, <1>a, <2>1, <2>4, <2>5 DEF Shaped
  <2>7. /\ n_hash' <= N_HASH /\ n_hash' <= written.hashes
        /\ bf_idx' = 0 \/ (bf_idx' < MAX_BF_BIN_SIZE /\ n_hash' < written.hashes)
    <3> HIDE DEF StartupInv
    <3>1. CASE bf_idx + 1 = MAX_BF_BIN_SIZE
      BY <1>2, <2>3, <2>4, <3>1
    <3>2. CASE bf_idx + 1 # MAX_BF_BIN_SIZE
      BY <1>2, <2>3, <2>4, <3>2
    <3> QED
      BY <3>1, <3>2
  <2>8. line' = LineOf(n_hash', bf_idx', MAX_BF_BIN_SIZE)
    <3>1. line' = LineOf(n_hash, bf_idx, MAX_BF_BIN_SIZE) + 1
      BY <1>2, <2>1
    <3>2. CASE bf_idx + 1 = MAX_BF_BIN_SIZE
      <4>1. n_hash' = n_hash + 1 /\ bf_idx' = 0
        BY <1>2, <3>2
      <4> QED
        BY <1>2, <3>1, <3>2, <4>1, NextCell
    <3>3. CASE bf_idx + 1 # MAX_BF_BIN_SIZE
      <4>1. n_hash' = n_hash /\ bf_idx' = bf_idx + 1
        BY <1>2, <3>3
      <4> QED
        BY <1>2, <3>1, <4>1, NextCell
    <3> QED
      BY <3>2, <3>3
  <2>9. ASSUME NEW k \in 0 .. N_HASH - 1, NEW j \in 0 .. MAX_BF_BIN_SIZE - 1,
               k < n_hash' \/ (k = n_hash' /\ j < bf_idx')
        PROVE  BF'[k][j] = written.cells[k][j]
    <3>1. (k = n_hash /\ j = bf_idx) \/ k < n_hash \/ (k = n_hash /\ j < bf_idx)
      BY <1>2, <2>4, <2>9
    <3>2. k # n_hash \/ j # bf_idx => k < n_hash \/ (k = n_hash /\ j < bf_idx)
      BY <1>2, <3>1
    <3>3. CASE k = n_hash /\ j = bf_idx
      BY <2>6, <3>3
    <3>4. CASE k # n_hash \/ j # bf_idx
      BY <2>1, <2>6, <3>2, <3>4, Zenon
    <3> QED
      BY <3>3, <3>4
  <2> QED
    BY <2>6, <2>7, <2>8, <2>9
<1> QED
  BY <1>3, <1>4, <1>5, <1>6

(* The loop ends: with the file, or with the arrays.                         *)
LEMMA ReadDoneInv == StartupInv /\ ReadDone => StartupInv'
<1> SUFFICES ASSUME StartupInv, ReadDone PROVE StartupInv'
  OBVIOUS
<1> USE DEF StartupInv
<1>1. /\ turn \in {3, 4} /\ at = "filter" /\ at' = "ready" /\ ~More
      /\ UNCHANGED <<conf, turn, sizes, BF, inserted, written, bloomfilter_file, reading>>
  BY ProgramOfTurn DEF ReadDone, program, StartupTypeOK
<1>2. StartupTypeOK'
  BY <1>1 DEF StartupTypeOK, sizes, reading
<1>3. UnsetOK' /\ UnwrittenOK' /\ SetOK' /\ FreshOK' /\ ReadingOK'
  BY <1>1 DEF UnsetOK, UnwrittenOK, SetOK, FreshOK, ReadingOK
<1>4. WrittenOK'
  BY <1>1 DEF WrittenOK, Shaped, AllSet
<1>5. ReadOK'
  <2> SUFFICES ASSUME Undisturbed
               PROVE  /\ Shaped(BF, N_HASH, MAX_BF_BIN_SIZE)
                      /\ N_HASH <= written.hashes =>
                           \A k \in 0 .. N_HASH - 1, j \in 0 .. MAX_BF_BIN_SIZE - 1 :
                             BF[k][j] = written.cells[k][j]
    BY <1>1 DEF ReadOK, Undisturbed, Shaped, sizes, reading
  <2>1. /\ Shaped(BF, N_HASH, MAX_BF_BIN_SIZE)
        /\ line = LineOf(n_hash, bf_idx, MAX_BF_BIN_SIZE)
        /\ n_hash <= N_HASH /\ n_hash <= written.hashes
        /\ bf_idx = 0 \/ (bf_idx < MAX_BF_BIN_SIZE /\ n_hash < written.hashes)
        /\ \A k \in 0 .. N_HASH - 1, j \in 0 .. MAX_BF_BIN_SIZE - 1 :
             k < n_hash \/ (k = n_hash /\ j < bf_idx) => BF[k][j] = written.cells[k][j]
    BY <1>1 DEF ReadingOK
  <2>2. /\ written.bins = MAX_BF_BIN_SIZE
        /\ Len(bloomfilter_file) = written.hashes * written.bins
    BY DEF Undisturbed, WrittenOK
  <2>3. /\ line \in Nat /\ n_hash \in Nat /\ bf_idx \in Nat /\ N_HASH \in Nat
        /\ MAX_BF_BIN_SIZE \in Nat /\ written.hashes \in Nat
    BY DEF StartupTypeOK
  <2>4. CASE MAX_BF_BIN_SIZE = 0
    BY <2>1, <2>4
  <2>5. CASE MAX_BF_BIN_SIZE > 0
    <3>1. n_hash >= N_HASH \/ ~(n_hash < written.hashes)
      <4> SUFFICES ASSUME n_hash < written.hashes PROVE n_hash >= N_HASH
        BY <2>3
      <4>1. LineOf(n_hash, bf_idx, MAX_BF_BIN_SIZE) <= written.hashes * MAX_BF_BIN_SIZE
        BY <2>1, <2>3, <2>5, PastTheEnd
      <4> QED
        BY <1>1, <2>1, <2>2, <2>3, <4>1 DEF More
    <3>2. N_HASH <= written.hashes => n_hash = N_HASH
      BY <2>1, <2>3, <3>1
    <3> QED
      BY <2>1, <2>3, <3>2
  <2> QED
    BY <2>3, <2>4, <2>5
<1> QED
  BY <1>2, <1>3, <1>4, <1>5

(* The next program starts with nothing of the last one's memory.            *)
LEMMA NextProgramInv == StartupInv /\ NextProgram => StartupInv'
<1> SUFFICES ASSUME StartupInv, NextProgram PROVE StartupInv'
  OBVIOUS
<1> USE DEF StartupInv
<1>1. /\ turn \in 1 .. 4 /\ turn < 4 /\ turn' = turn + 1 /\ at' = "conf"
      /\ N_HASH' = 0 /\ MAX_BF_BIN_SIZE' = 0
      /\ line' = 1 /\ n_hash' = 0 /\ bf_idx' = 0
      /\ UNCHANGED <<conf, inserted, written, bloomfilter_file>>
  BY DEF NextProgram, Programs, StartupTypeOK
<1>2. StartupTypeOK'
  BY <1>1 DEF StartupTypeOK
<1>3. UnsetOK' /\ UnwrittenOK' /\ SetOK' /\ FreshOK' /\ ReadingOK' /\ ReadOK'
  BY <1>1 DEF UnsetOK, UnwrittenOK, SetOK, FreshOK, ReadingOK, ReadOK
<1>4. WrittenOK'
  BY <1>1 DEF WrittenOK, Shaped, AllSet
<1> QED
  BY <1>2, <1>3, <1>4

(* The invariant holds in every reachable state. *)
LEMMA StartupInvariant == StartupSpec => []StartupInv
<1>1. StartupInv /\ [StartupNext]_startupVars => StartupInv'
  <2> SUFFICES ASSUME StartupInv, [StartupNext]_startupVars PROVE StartupInv'
    OBVIOUS
  <2>1. CASE StartupNext
    BY <2>1, ConfInv, SysInitInv, SetInv, WriteInv, ReadLineInv, ReadDoneInv, NextProgramInv
       DEF StartupNext
  <2>2. CASE UNCHANGED startupVars
    BY <2>2 DEF startupVars, StartupInv, StartupTypeOK, UnsetOK, UnwrittenOK, SetOK, WrittenOK,
                FreshOK, ReadingOK, ReadOK, Undisturbed, Shaped, AllSet
  <2> QED
    BY <2>1, <2>2
<1> QED
  BY <1>1, StartupInitInv, PTL DEF StartupSpec

(* For all digests and all configurations of the two hosts with the same     *)
(* bins and bits: the search server reads the filter back as it was written, *)
(* and with no more arrays than that finds every element the set-up put in.  *)
THEOREM FilterReadBack == StartupSpec => []FilterFaithful
<1>1. StartupInv => FilterFaithful
  <2> SUFFICES ASSUME StartupInv,
                      program = "search_server", at = "ready", behind = -1,
                      written.bins = MAX_BF_BIN_SIZE, written.bits = N_BF_BITS, written.hashes > 0
               PROVE  /\ N_HASH <= written.hashes => \A d \in inserted : Match(BF, N_BF_BITS, d)
                      /\ N_HASH = written.hashes =>
                           \A d \in Elements :
                             (\A k \in DOMAIN BF : Index(d, k, N_BF_BITS) \in DOMAIN BF[k])
                             => (Match(BF, N_BF_BITS, d) <=> Match(written.cells, N_BF_BITS, d))
    BY DEF FilterFaithful
  <2>1. turn = 3
    BY ProgramOfTurn DEF StartupInv, StartupTypeOK, program
  <2>2. /\ Shaped(BF, N_HASH, MAX_BF_BIN_SIZE)
        /\ N_HASH <= written.hashes =>
             \A k \in 0 .. N_HASH - 1, j \in 0 .. MAX_BF_BIN_SIZE - 1 :
               BF[k][j] = written.cells[k][j]
        /\ Shaped(written.cells, written.hashes, MAX_BF_BIN_SIZE)
        /\ AllSet(written.cells, written.hashes, MAX_BF_BIN_SIZE, N_BF_BITS, inserted)
        /\ N_HASH \in Nat /\ written.hashes \in Nat
    BY <2>1 DEF StartupInv, StartupTypeOK, ReadOK, WrittenOK, Undisturbed
  <2>3. ASSUME N_HASH <= written.hashes, NEW d \in inserted PROVE Match(BF, N_BF_BITS, d)
    <3> SUFFICES ASSUME NEW k \in 0 .. N_HASH - 1 PROVE BF[k][Index(d, k, N_BF_BITS)] = 1
      BY <2>2 DEF Match, Shaped
    <3>1. k \in 0 .. written.hashes - 1
      BY <2>2, <2>3
    <3> QED
      BY <2>2, <2>3, <3>1 DEF AllSet
  <2>4. ASSUME N_HASH = written.hashes, NEW d \in Elements,
               \A k \in DOMAIN BF : Index(d, k, N_BF_BITS) \in DOMAIN BF[k]
        PROVE  Match(BF, N_BF_BITS, d) <=> Match(written.cells, N_BF_BITS, d)
    <3>1. /\ DOMAIN BF = 0 .. N_HASH - 1 /\ DOMAIN written.cells = 0 .. N_HASH - 1
          /\ \A k \in 0 .. N_HASH - 1 : Index(d, k, N_BF_BITS) \in 0 .. MAX_BF_BIN_SIZE - 1
      BY <2>2, <2>4 DEF Shaped
    <3>2. \A k \in 0 .. N_HASH - 1 :
            BF[k][Index(d, k, N_BF_BITS)] = written.cells[k][Index(d, k, N_BF_BITS)]
      BY <2>2, <2>4, <3>1
    <3> QED
      BY <3>1, <3>2 DEF Match
  <2> QED
    BY <2>3, <2>4
<1> QED
  BY <1>1, StartupInvariant, PTL

-----------------------------------------------------------------------------
(* Encodings: text that is written and read. *)

Digit == 0 .. 15

LEMMA ElementOf ==
  ASSUME NEW S, NEW s \in Seq(S), NEW i \in 1 .. Len(s) PROVE s[i] \in S
OBVIOUS

LEMMA ConcatAt ==
  ASSUME NEW S, NEW s \in Seq(S), NEW t \in Seq(S), NEW i \in 1 .. Len(s) + Len(t)
  PROVE  (s \o t)[i] = IF i <= Len(s) THEN s[i] ELSE t[i - Len(s)]
OBVIOUS

(* A byte is 16 times its high digit and its low one.                       *)
LEMMA ByteDigits ==
  ASSUME NEW b \in 0 .. 255
  PROVE  \E hi, lo \in Digit : hi = b \div 16 /\ lo = b % 16 /\ 16 * hi + lo = b
<1>1. PICK M \in Nat \ {0} : M = 16
  OBVIOUS
<1>2. PICK hi \in Nat : hi = b \div M
  BY DivModIn
<1>3. PICK lo \in 0 .. M - 1 : lo = b % M
  BY DivModIn
<1>4. b = M * hi + lo
  BY <1>2, <1>3, DivModIn
<1>5. hi \in 0 .. 15 /\ lo \in 0 .. 15 /\ 16 * hi + lo = b
  BY <1>1, <1>4
<1>6. b \div 16 = hi
  BY <1>1, <1>2, Zenon
<1>7. b % 16 = lo
  BY <1>1, <1>3, Zenon
<1>8. hi \in Digit /\ lo \in Digit
  BY <1>5 DEF Digit
<1> QED
  BY <1>5, <1>6, <1>7, <1>8, Zenon

(* The text of a value: two digits to each of its bytes. *)
TextOf(t, bytes) ==
  /\ t \in Seq(Digit) /\ Len(t) = 2 * HexLen
  /\ \A k \in 1 .. HexLen : t[2 * k - 1] = bytes[k] \div 16 /\ t[2 * k] = bytes[k] % 16

-----------------------------------------------------------------------------
(* strtoul. *)
NumberChain(digits, n, v) ==
  v = [k \in 0 .. n |-> IF k = 0 THEN 0 ELSE AddDigit(v[k - 1], digits[k])]

LEMMA NumberChainExists ==
  ASSUME NEW digits, NEW n \in Nat
  PROVE  \E v : NumberChain(digits, n, v)
<1> DEFINE Set == {m \in Nat : \E v : NumberChain(digits, m, v)}
<1>1. 0 \in Set
  <2>1. PICK v : v = [k \in 0 .. 0 |-> 0]
    OBVIOUS
  <2>2. v = [k \in 0 .. 0 |-> IF k = 0 THEN 0 ELSE AddDigit(v[k - 1], digits[k])]
    BY <2>1
  <2> QED
    BY <2>2 DEF NumberChain
<1>2. ASSUME NEW m \in Nat, m \in Set PROVE m + 1 \in Set
  <2>1. PICK v : v = [k \in 0 .. m |-> IF k = 0 THEN 0 ELSE AddDigit(v[k - 1], digits[k])]
    BY <1>2 DEF NumberChain
  <2>2. PICK u : u = [k \in 0 .. m + 1 |-> IF k = 0 THEN 0 ELSE AddDigit(v[k - 1], digits[k])]
    OBVIOUS
  <2>3. \A k \in 0 .. m : u[k] = v[k]
    BY <2>1, <2>2
  <2>4. \A k \in 0 .. m + 1 : k # 0 => k - 1 \in 0 .. m
    OBVIOUS
  <2>5. u = [k \in 0 .. m + 1 |-> IF k = 0 THEN 0 ELSE AddDigit(u[k - 1], digits[k])]
    BY <2>2, <2>3, <2>4
  <2> QED
    BY <2>5 DEF NumberChain
<1> HIDE DEF Set
<1>3. Nat \subseteq Set
  BY <1>1, <1>2, AllNumbers
<1> QED
  BY <1>3 DEF Set

LEMMA StrtoulChain ==
  ASSUME NEW digits, NEW n \in Nat, Len(digits) = n
  PROVE  \E v : NumberChain(digits, n, v)
                /\ Strtoul(digits) = IF v[n] >= 16^ULongDigits THEN 255 ELSE v[n] % 256
<1>1. PICK v : v = CHOOSE u : NumberChain(digits, Len(digits), u)
  OBVIOUS
<1>2. NumberChain(digits, n, v)
  BY <1>1, NumberChainExists
<1>3. Strtoul(digits) = IF v[Len(digits)] >= 16^ULongDigits THEN 255 ELSE v[Len(digits)] % 256
  BY <1>1 DEF Strtoul, NumberChain
<1> QED
  BY <1>2, <1>3

(* Whatever it reads, it returns a byte.                                    *)
LEMMA StrtoulByte ==
  ASSUME NEW digits \in Seq(Digit)
  PROVE  Strtoul(digits) \in 0 .. 255
<1>1. PICK n \in Nat : n = Len(digits)
  OBVIOUS
<1>2. PICK v : NumberChain(digits, n, v)
               /\ Strtoul(digits) = IF v[n] >= 16^ULongDigits THEN 255 ELSE v[n] % 256
  BY <1>1, StrtoulChain
<1> DEFINE Set == {m \in Nat : m <= n => v[m] \in Nat}
<1>3. 0 \in Set
  <2>1. 0 \in 0 .. n
    OBVIOUS
  <2> QED
    BY <1>2, <2>1 DEF NumberChain
<1>4. ASSUME NEW m \in Nat, m \in Set PROVE m + 1 \in Set
  <2> SUFFICES ASSUME m + 1 <= n PROVE v[m + 1] \in Nat
    OBVIOUS
  <2>1. v[m] \in Nat
    BY <1>4
  <2>2. PICK k \in 1 .. n : k = m + 1
    OBVIOUS
  <2>3. v[k] = AddDigit(v[k - 1], digits[k])
    BY <1>2, <2>2 DEF NumberChain
  <2>4. digits[k] \in Digit
    BY <1>1, <2>2, ElementOf
  <2>5. digits[k] \in Nat
    BY <2>4 DEF Digit
  <2>6. k - 1 = m
    BY <2>2
  <2>7. AddDigit(v[m], digits[k]) \in Nat
    BY <2>1, <2>5 DEF AddDigit
  <2> QED
    BY <2>2, <2>3, <2>6, <2>7
<1> HIDE DEF Set
<1>5. Nat \subseteq Set
  BY <1>3, <1>4, AllNumbers
<1>6. v[n] \in Nat
  BY <1>5 DEF Set
<1>7. v[n] % 256 \in 0 .. 255
  <2>1. PICK M \in Nat \ {0} : M = 256
    OBVIOUS
  <2>2. v[n] % M \in 0 .. M - 1
    BY <1>6, DivModIn
  <2>3. 0 .. M - 1 = 0 .. 255
    BY <2>1
  <2> QED
    BY <2>1, <2>2, <2>3, Zenon
<1> QED
  BY <1>2, <1>7

(* Of two digits it returns the byte.                                       *)
LEMMA StrtoulPair ==
  ASSUME NEW digits, Len(digits) = 2, NEW hi \in Digit, NEW lo \in Digit,
         digits[1] = hi, digits[2] = lo
  PROVE  Strtoul(digits) = 16 * hi + lo
<1>0. PICK n \in Nat : n = 2
  OBVIOUS
<1>1. PICK v : NumberChain(digits, n, v)
               /\ Strtoul(digits) = IF v[n] >= 16^ULongDigits THEN 255 ELSE v[n] % 256
  <2>1. Len(digits) = n
    BY <1>0
  <2> QED
    BY <2>1, StrtoulChain, Zenon
<1>2. PICK max \in Nat : max = 16^ULongDigits /\ max >= 256
  BY PowersAssumption
<1>3. hi \in 0 .. 15 /\ lo \in 0 .. 15
  BY DEF Digit
<1>4. v[0] = 0
  BY <1>0, <1>1 DEF NumberChain
<1>5. v[1] = AddDigit(v[0], hi)
  <2>1. 1 \in 0 .. 2 /\ 1 # 0 /\ 1 - 1 = 0
    OBVIOUS
  <2> QED
    BY <1>0, <1>1, <2>1 DEF NumberChain
<1>6. v[2] = AddDigit(v[1], lo)
  <2>1. 2 \in 0 .. 2 /\ 2 # 0 /\ 2 - 1 = 1
    OBVIOUS
  <2> QED
    BY <1>0, <1>1, <2>1 DEF NumberChain
<1>7. v[1] = hi
  BY <1>2, <1>3, <1>4, <1>5 DEF AddDigit
<1>8. v[2] = 16 * hi + lo
  BY <1>2, <1>3, <1>6, <1>7 DEF AddDigit
<1> QED
  BY <1>0, <1>1, <1>2, <1>3, <1>8

-----------------------------------------------------------------------------
(* HexToStr. *)
Joined(before, part) == before \o part
FlatChain(parts, n, f) ==
  f = [i \in 1 .. n |-> IF i = 1 THEN parts[i] ELSE Joined(f[i - 1], parts[i])]

LEMMA FlatChainExists ==
  ASSUME NEW parts, NEW n \in Nat
  PROVE  \E f : FlatChain(parts, n, f)
<1> DEFINE Set == {m \in Nat : \E f : FlatChain(parts, m, f)}
<1>1. 0 \in Set
  <2>1. PICK f : f = [i \in 1 .. 0 |-> parts[i]]
    OBVIOUS
  <2>2. f = [i \in 1 .. 0 |-> IF i = 1 THEN parts[i] ELSE Joined(f[i - 1], parts[i])]
    BY <2>1
  <2> QED
    BY <2>2 DEF FlatChain
<1>2. ASSUME NEW m \in Nat, m \in Set PROVE m + 1 \in Set
  <2>1. PICK f : f = [i \in 1 .. m |-> IF i = 1 THEN parts[i] ELSE Joined(f[i - 1], parts[i])]
    BY <1>2 DEF FlatChain
  <2>2. PICK g : g = [i \in 1 .. m + 1 |-> IF i = 1 THEN parts[i] ELSE Joined(f[i - 1], parts[i])]
    OBVIOUS
  <2>3. \A i \in 1 .. m : g[i] = f[i]
    BY <2>1, <2>2
  <2>4. \A i \in 1 .. m + 1 : i # 1 => i - 1 \in 1 .. m
    OBVIOUS
  <2>5. g = [i \in 1 .. m + 1 |-> IF i = 1 THEN parts[i] ELSE Joined(g[i - 1], parts[i])]
    BY <2>2, <2>3, <2>4
  <2> QED
    BY <2>5 DEF FlatChain
<1> HIDE DEF Set
<1>3. Nat \subseteq Set
  BY <1>1, <1>2, AllNumbers
<1> QED
  BY <1>3 DEF Set

(* The first n bytes as text. *)
TextUpTo(t, bytes, n) ==
  /\ t \in Seq(Digit) /\ Len(t) = 2 * n
  /\ \A k \in 1 .. n : t[2 * k - 1] = bytes[k] \div 16 /\ t[2 * k] = bytes[k] % 16

LEMMA TextGrows ==
  ASSUME NEW bytes, NEW n \in Nat, NEW t, TextUpTo(t, bytes, n), bytes[n + 1] \in 0 .. 255
  PROVE  TextUpTo(t \o ByteText(bytes[n + 1]), bytes, n + 1)
<1>1. PICK b \in 0 .. 255 : b = bytes[n + 1]
  OBVIOUS
<1>2. PICK hi \in Digit, lo \in Digit : hi = b \div 16 /\ lo = b % 16
  BY ByteDigits
<1>3. PICK u : u = t \o <<hi, lo>>
  OBVIOUS
<1>4. t \in Seq(Digit) /\ Len(t) = 2 * n
  BY DEF TextUpTo
<1>a. PICK l \in Nat : l = 2 * n
  OBVIOUS
<1>b. Len(t) = l
  BY <1>4, <1>a
<1>c. u \in Seq(Digit) /\ Len(u) = l + 2
  BY <1>3, <1>4, <1>b
<1>d. \A i \in 1 .. l : u[i] = t[i]
  BY <1>3, <1>4, <1>b
<1>e. u[l + 1] = hi /\ u[l + 2] = lo
  BY <1>3, <1>4, <1>b
<1>5. u \in Seq(Digit) /\ Len(u) = 2 * n + 2
  BY <1>a, <1>c
<1>6. \A i \in 1 .. 2 * n : u[i] = t[i]
  BY <1>a, <1>d
<1>7. u[2 * n + 1] = hi /\ u[2 * n + 2] = lo
  BY <1>a, <1>e
<1>8. ASSUME NEW k \in 1 .. n + 1
      PROVE  u[2 * k - 1] = bytes[k] \div 16 /\ u[2 * k] = bytes[k] % 16
  <2>1. CASE k \in 1 .. n
    <3>1. 2 * k - 1 \in 1 .. 2 * n /\ 2 * k \in 1 .. 2 * n
      BY <2>1
    <3> QED
      BY <1>6, <2>1, <3>1 DEF TextUpTo
  <2>2. CASE k = n + 1
    <3>1. 2 * k - 1 = 2 * n + 1 /\ 2 * k = 2 * n + 2
      BY <2>2
    <3> QED
      BY <1>1, <1>2, <1>7, <2>2, <3>1
  <2> QED
    BY <2>1, <2>2
<1>9. u = t \o ByteText(bytes[n + 1])
  BY <1>1, <1>2, <1>3 DEF ByteText
<1>10. 2 * n + 2 = 2 * (n + 1)
  OBVIOUS
<1>11. TextUpTo(u, bytes, n + 1)
  BY <1>5, <1>8, <1>10 DEF TextUpTo
<1> QED
  BY <1>9, <1>11

LEMMA BytesAsText ==
  ASSUME NEW bytes \in [1 .. HexLen -> 0 .. 255]
  PROVE  TextOf(HexToStr(bytes), bytes)
<1>1. HexLen \in Nat /\ HexLen # 0
  BY EncodingsAssumption
<1>2. Len(bytes) = HexLen
  <2>1. bytes \in Seq(0 .. 255)
    BY <1>1
  <2> QED
    BY <1>1, <2>1
<1>3. PICK parts : parts = [k \in 1 .. HexLen |-> ByteText(bytes[k])]
  OBVIOUS
<1>4. Len(parts) = HexLen
  BY <1>1, <1>3
<1>5. PICK f : f = CHOOSE g : FlatChain(parts, Len(parts), g)
  OBVIOUS
<1>6. FlatChain(parts, HexLen, f)
  BY <1>1, <1>4, <1>5, FlatChainExists
<1>7. HexToStr(bytes) = f[HexLen]
  <2>1. HexToStr(bytes) = FlattenSeq(parts)
    BY <1>2, <1>3 DEF HexToStr
  <2>2. FlattenSeq(parts) = f[Len(parts)]
    BY <1>1, <1>4, <1>5 DEF FlattenSeq, FlatChain, Joined
  <2> QED
    BY <1>4, <2>1, <2>2
<1> DEFINE Set == {m \in Nat : m + 1 <= HexLen => TextUpTo(f[m + 1], bytes, m + 1)}
<1>8. 0 \in Set
  <2>1. 1 \in 1 .. HexLen
    BY <1>1
  <2>2. f[1] = ByteText(bytes[1])
    BY <1>3, <1>6, <2>1 DEF FlatChain
  <2>3. TextUpTo(<<>>, bytes, 0)
    BY DEF TextUpTo
  <2>4. bytes[0 + 1] \in 0 .. 255
    <3>1. 0 + 1 = 1
      OBVIOUS
    <3> QED
      BY <2>1, <3>1
  <2>5. TextUpTo(<<>> \o ByteText(bytes[0 + 1]), bytes, 0 + 1)
    BY <2>3, <2>4, TextGrows
  <2>6. <<>> \o ByteText(bytes[0 + 1]) = f[0 + 1]
    <3>1. ByteText(bytes[1]) \in Seq(Digit)
      <4>1. PICK hi, lo \in Digit : hi = bytes[1] \div 16 /\ lo = bytes[1] % 16
        <5>1. bytes[1] \in 0 .. 255
          BY <2>1
        <5> QED
          BY <5>1, ByteDigits
      <4>2. ByteText(bytes[1]) = <<hi, lo>>
        BY <4>1 DEF ByteText
      <4> QED
        BY <4>2
    <3> QED
      BY <2>2, <3>1
  <2> QED
    BY <2>5, <2>6
<1>9. ASSUME NEW m \in Nat, m \in Set PROVE m + 1 \in Set
  <2> SUFFICES ASSUME (m + 1) + 1 <= HexLen PROVE TextUpTo(f[(m + 1) + 1], bytes, (m + 1) + 1)
    OBVIOUS
  <2>1. PICK l \in 1 .. HexLen : l = m + 1
    BY <1>1
  <2>2. PICK k \in 1 .. HexLen : k = l + 1
    BY <1>1, <2>1
  <2>3. TextUpTo(f[l], bytes, l)
    BY <1>1, <1>9, <2>1
  <2>4. f[k] = f[k - 1] \o parts[k]
    <3>1. k \in 1 .. HexLen /\ k # 1
      BY <2>1, <2>2
    <3> QED
      BY <1>6, <3>1 DEF FlatChain, Joined
  <2>5. k - 1 = l /\ parts[k] = ByteText(bytes[k]) /\ bytes[k] \in 0 .. 255 /\ l \in Nat
    <3>1. k - 1 = l /\ l \in Nat
      BY <1>1, <2>1, <2>2
    <3>2. parts[k] = ByteText(bytes[k])
      BY <1>3
    <3>3. bytes[k] \in 0 .. 255
      OBVIOUS
    <3> QED
      BY <3>1, <3>2, <3>3
  <2>6. TextUpTo(f[l] \o ByteText(bytes[l + 1]), bytes, l + 1)
    BY <2>2, <2>3, <2>5, TextGrows
  <2>7. f[l] \o ByteText(bytes[l + 1]) = f[k]
    BY <2>2, <2>4, <2>5
  <2> QED
    BY <2>1, <2>2, <2>6, <2>7
<1> HIDE DEF Set
<1>10. Nat \subseteq Set
  BY <1>8, <1>9, AllNumbers
<1>11. PICK m \in Nat : m + 1 = HexLen
  <2>1. HexLen - 1 \in Nat /\ (HexLen - 1) + 1 = HexLen
    BY <1>1
  <2> QED
    BY <2>1
<1>12. TextUpTo(f[HexLen], bytes, HexLen)
  BY <1>1, <1>10, <1>11 DEF Set
<1> QED
  BY <1>7, <1>12 DEF TextOf, TextUpTo

-----------------------------------------------------------------------------
(* get_str and its padding. *)
PowerOf16 == [k \in 0 .. 2 * HexLen |-> 16^k]
PowerOf256 == [k \in 0 .. HexLen |-> 256^k]

LEMMA HexPowers ==
  PowersOf(16, 2 * HexLen, PowerOf16) /\ PowersOf(256, HexLen, PowerOf256)
<1>1. HexLen \in Nat /\ 2 * HexLen \in Nat
  BY EncodingsAssumption
<1>2. 16^0 = 1 /\ 256^0 = 1
  OBVIOUS
<1>3. PowersOf(16, 2 * HexLen, PowerOf16)
  BY <1>1, <1>2, PowersAssumption, PowersAre DEF PowerOf16
<1>4. PowersOf(256, HexLen, PowerOf256)
  <2>1. /\ \A k \in 0 .. HexLen : 256^k \in Nat
        /\ \A k \in 0 .. HexLen - 1 : 256^(k + 1) = 256 * 256^k
    BY PowersAssumption, Zenon
  <2>2. 256 \in Nat
    OBVIOUS
  <2> QED
    BY <1>1, <1>2, <2>1, <2>2, PowersAre, Zenon DEF PowerOf256
<1> QED
  BY <1>3, <1>4

(* Two digits to a byte. *)
LEMMA TwoDigits ==
  ASSUME NEW k \in 0 .. HexLen
  PROVE  PowerOf256[k] = PowerOf16[2 * k]
<1>1. HexLen \in Nat
  BY EncodingsAssumption
<1>2. PICK p, r : p = PowerOf16 /\ r = PowerOf256
  OBVIOUS
<1>3. /\ p[0] = 1 /\ \A i \in 0 .. 2 * HexLen - 1 : p[i + 1] = 16 * p[i]
      /\ r[0] = 1 /\ \A i \in 0 .. HexLen - 1 : r[i + 1] = 256 * r[i]
      /\ \A i \in 0 .. 2 * HexLen : p[i] \in Nat
  BY <1>2, HexPowers DEF PowersOf
<1> DEFINE Set == {m \in Nat : m <= HexLen => r[m] = p[2 * m]}
<1>4. 0 \in Set
  BY <1>3
<1>5. ASSUME NEW m \in Nat, m \in Set PROVE m + 1 \in Set
  <2> SUFFICES ASSUME m + 1 <= HexLen PROVE r[m + 1] = p[2 * (m + 1)]
    OBVIOUS
  <2>1. PICK l \in Nat : l = 2 * m
    OBVIOUS
  <2>2. r[m] = p[l] /\ m \in 0 .. HexLen - 1
    BY <1>1, <1>5, <2>1
  <2>3. l \in 0 .. 2 * HexLen - 1 /\ l + 1 \in 0 .. 2 * HexLen - 1
    BY <1>1, <2>1
  <2>4. p[l + 1] = 16 * p[l] /\ p[(l + 1) + 1] = 16 * p[l + 1] /\ p[l] \in Nat /\ r[m + 1] = 256 * r[m]
    BY <1>1, <1>3, <2>2, <2>3
  <2>5. (l + 1) + 1 = 2 * (m + 1)
    BY <2>1
  <2> QED
    BY <2>2, <2>4, <2>5
<1> HIDE DEF Set
<1>6. Nat \subseteq Set
  BY <1>4, <1>5, AllNumbers
<1> QED
  BY <1>1, <1>2, <1>6 DEF Set

(* A number's last byte has its last two digits. *)
LEMMA LastDigits ==
  ASSUME NEW w \in Nat
  PROVE  /\ w % 256 \in 0 .. 255
         /\ (w \div 16) % 16 = (w % 256) \div 16
         /\ w % 16 = (w % 256) % 16
<1>1. PICK M \in Nat \ {0}, B \in Nat \ {0} : M = 16 /\ B = 256
  OBVIOUS
<1>2. PICK q \in Nat, lo \in 0 .. M - 1 : w = M * q + lo
  BY DivModExists
<1>3. PICK z \in Nat, hi \in 0 .. M - 1 : q = M * z + hi
  BY DivModExists
<1>4. PICK b \in 0 .. B - 1 : b = M * hi + lo
  BY <1>1
<1>5. w = B * z + b
  BY <1>1, <1>2, <1>3, <1>4
<1>6. w % B = b
  BY <1>5, DivMod, Zenon
<1>7. w \div M = q /\ w % M = lo
  BY <1>2, DivMod, Zenon
<1>8. q % M = hi
  BY <1>3, DivMod, Zenon
<1>9. b \div M = hi /\ b % M = lo
  <2>1. hi \in Nat /\ b \in Nat
    BY <1>1
  <2> QED
    BY <1>4, <2>1, DivMod, Zenon
<1>10. w % B \in 0 .. 255
  BY <1>1, <1>6
<1>11. (w \div M) % M = (w % B) \div M
  BY <1>6, <1>7, <1>8, <1>9, Zenon
<1>12. w % M = (w % B) % M
  BY <1>6, <1>7, <1>9, Zenon
<1> QED
  BY <1>1, <1>10, <1>11, <1>12, Zenon

(* A padded number has at place i the digit of 16^(2 * HexLen - i). *)
LEMMA PaddedDigits ==
  ASSUME NEW v \in BigNumbers
  PROVE  /\ Padded(GetStr(v)) \in Seq(Digit) /\ Len(Padded(GetStr(v))) = 2 * HexLen
         /\ \A i \in 1 .. 2 * HexLen :
              Padded(GetStr(v))[i] = (v \div PowerOf16[2 * HexLen - i]) % 16
<1>1. HexLen \in Nat \ {0} /\ v \in Nat /\ v < 256^HexLen
  <2>1. v \in 0 .. 256^HexLen - 1 /\ HexLen \in Nat \ {0}
    BY EncodingsAssumption
  <2>2. 256^HexLen \in Nat
    BY <2>1, PowersAssumption
  <2> QED
    BY <2>1, <2>2
<1>2. PICK n \in Nat \ {0} : n = 2 * HexLen
  BY <1>1
<1>3. PICK p : p = PowerOf16
  OBVIOUS
<1>4. PowersOf(16, n, p) /\ \A k \in 0 .. n : p[k] = 16^k
  BY <1>2, <1>3, HexPowers DEF PowerOf16
<1>5. v < p[n]
  <2>1. PowerOf256[HexLen] = 256^HexLen /\ HexLen \in 0 .. HexLen
    BY <1>1 DEF PowerOf256
  <2> QED
    BY <1>1, <1>2, <1>3, <2>1, TwoDigits
<1>6. \A k \in 0 .. n : p[k] \in Nat \ {0}
  BY <1>4, PowersPositive
<1> DEFINE Fits(d) == v < 16^d /\ (d = 1 \/ v >= 16^(d - 1))
<1>7. \E d \in 1 .. n : Fits(d)
  <2> DEFINE T == {d \in 1 .. n : v < p[d]}
  <2>1. n \in T /\ T \subseteq Nat
    BY <1>5
  <2>2. PICK low \in T : \A k \in T : low <= k
    BY <2>1, LeastOf
  <2>3. low \in 1 .. n /\ v < p[low] /\ p[low] = 16^low
    BY <1>4, <2>2
  <2>4. CASE low = 1
    BY <2>3, <2>4
  <2>5. CASE low # 1
    <3>1. PICK k \in 1 .. n : k = low - 1
      BY <2>3, <2>5
    <3>2. k \notin T
      BY <2>2, <2>3, <3>1
    <3>3. p[k] \in Nat /\ p[k] = 16^k
      BY <1>4, <1>6
    <3>4. v >= 16^k
      BY <1>1, <3>2, <3>3
    <3> QED
      BY <2>3, <3>1, <3>4
  <2> QED
    BY <2>4, <2>5
<1>8. PICK D : D = DigitsOf(v)
  OBVIOUS
<1>9. D \in 1 .. n /\ Fits(D)
  BY <1>2, <1>7, <1>8, Zenon DEF DigitsOf
<1>10. v < p[D]
  BY <1>4, <1>9
<1>11. PICK digits : digits = [k \in 1 .. D |-> (v \div 16^(D - k)) % 16]
  OBVIOUS
<1>12. GetStr(v) = digits
  BY <1>8, <1>11, Zenon DEF GetStr
<1>13. ASSUME NEW k \in 1 .. D PROVE digits[k] = (v \div p[D - k]) % 16 /\ digits[k] \in Digit
  <2>1. D - k \in 0 .. n
    BY <1>9
  <2>2. p[D - k] = 16^(D - k)
    BY <1>4, <2>1, Zenon
  <2>3. digits[k] = (v \div 16^(D - k)) % 16
    BY <1>11, Zenon
  <2>4. digits[k] = (v \div p[D - k]) % 16
    BY <2>2, <2>3, Zenon
  <2>5. PICK M \in Nat \ {0} : M = 16
    OBVIOUS
  <2>6. p[D - k] \in Nat \ {0}
    BY <1>6, <2>1
  <2>7. v \div p[D - k] \in Nat
    BY <1>1, <2>6, DivModIn
  <2>8. (v \div p[D - k]) % M \in 0 .. M - 1
    BY <2>7, DivModIn
  <2>9. 0 .. M - 1 = Digit
    BY <2>5 DEF Digit
  <2>10. (v \div p[D - k]) % 16 \in Digit
    BY <2>5, <2>8, <2>9, Zenon
  <2> QED
    BY <2>4, <2>10
<1>14. digits \in [1 .. D -> Digit]
  BY <1>11, <1>13
<1>15. digits \in Seq(Digit) /\ Len(digits) = D
  BY <1>9, <1>14
<1>16. PICK pad \in Nat : pad = n - D
  BY <1>9
<1>17. PICK zeros : zeros = [k \in 1 .. pad |-> 0]
  OBVIOUS
<1>18. zeros \in Seq(Digit) /\ Len(zeros) = pad /\ \A k \in 1 .. pad : zeros[k] = 0
  <2>1. zeros \in [1 .. pad -> Digit]
    BY <1>17 DEF Digit
  <2> QED
    BY <1>17, <2>1
<1>19. PICK t : t = zeros \o digits
  OBVIOUS
<1>20. Padded(GetStr(v)) = t
  BY <1>2, <1>12, <1>15, <1>16, <1>17, <1>19 DEF Padded
<1>c. D \in Nat
  BY <1>9
<1>21. t \in Seq(Digit) /\ Len(t) = n
  <2>1. t \in Seq(Digit) /\ Len(t) = pad + D
    BY <1>15, <1>18, <1>19, <1>c
  <2> QED
    BY <1>16, <1>c, <2>1
<1>a. \A i \in 1 .. pad + D : t[i] = IF i <= pad THEN zeros[i] ELSE digits[i - pad]
  BY <1>15, <1>18, <1>19, <1>c, ConcatAt
<1>b. pad + D = n
  BY <1>9, <1>16
<1>22. \A i \in 1 .. pad : t[i] = 0
  <2> SUFFICES ASSUME NEW i \in 1 .. pad PROVE t[i] = 0
    OBVIOUS
  <2>1. i \in 1 .. pad + D /\ i <= pad
    BY <1>9
  <2> QED
    BY <1>18, <1>a, <2>1
<1>23. \A i \in pad + 1 .. n : t[i] = digits[i - pad]
  <2> SUFFICES ASSUME NEW i \in pad + 1 .. n PROVE t[i] = digits[i - pad]
    OBVIOUS
  <2>1. i \in 1 .. pad + D /\ ~(i <= pad)
    BY <1>9, <1>b
  <2> QED
    BY <1>a, <2>1
<1>24. ASSUME NEW i \in 1 .. n PROVE t[i] = (v \div p[n - i]) % 16
  <2>1. CASE i \in 1 .. pad
    <3>1. D \in 0 .. n /\ n - i \in 0 .. n /\ D <= n - i
      BY <1>9, <1>16, <2>1
    <3>2. p[D] <= p[n - i]
      BY <1>4, <3>1, PowersGrow
    <3>3. PICK P \in Nat \ {0} : P = p[n - i]
      BY <1>6, <3>1
    <3>4. v < P
      BY <1>1, <1>6, <1>10, <3>1, <3>2, <3>3
    <3>5. v = P * 0 + v /\ v \in 0 .. P - 1
      BY <1>1, <3>4
    <3>6. v \div P = 0
      BY <3>5, DivMod
    <3>7. 0 % 16 = 0
      OBVIOUS
    <3> QED
      BY <1>22, <2>1, <3>3, <3>6, <3>7
  <2>2. CASE i \in pad + 1 .. n
    <3>1. i - pad \in 1 .. D /\ D - (i - pad) = n - i
      BY <1>9, <1>16, <2>2
    <3>2. digits[i - pad] = (v \div p[D - (i - pad)]) % 16
      BY <1>13, <3>1
    <3> QED
      BY <1>23, <2>2, <3>1, <3>2
  <2> QED
    BY <2>1, <2>2
<1> QED
  BY <1>2, <1>3, <1>20, <1>21, <1>24

LEMMA NumberAsText ==
  ASSUME NEW v \in BigNumbers
  PROVE  BytesOf(v) \in [1 .. HexLen -> 0 .. 255] /\ TextOf(Padded(GetStr(v)), BytesOf(v))
<1>1. HexLen \in Nat \ {0} /\ v \in Nat
  <2>1. v \in 0 .. 256^HexLen - 1 /\ HexLen \in Nat \ {0}
    BY EncodingsAssumption
  <2> QED
    BY <2>1
<1>2. PICK n \in Nat \ {0} : n = 2 * HexLen
  BY <1>1
<1>3. PICK p : p = PowerOf16
  OBVIOUS
<1>4. PowersOf(16, n, p)
  BY <1>2, <1>3, HexPowers
<1>5. PICK t : t = Padded(GetStr(v))
  OBVIOUS
<1>6. t \in Seq(Digit) /\ Len(t) = n /\ \A i \in 1 .. n : t[i] = (v \div p[n - i]) % 16
  BY <1>2, <1>3, <1>5, PaddedDigits
<1>7. ASSUME NEW k \in 1 .. HexLen
      PROVE  /\ BytesOf(v)[k] \in 0 .. 255
             /\ t[2 * k - 1] = BytesOf(v)[k] \div 16 /\ t[2 * k] = BytesOf(v)[k] % 16
  <2>1. PICK e \in 0 .. HexLen : e = HexLen - k
    BY <1>1
  <2>2. PICK M \in Nat \ {0} : M = p[2 * e]
    <3>1. 2 * e \in 0 .. n
      BY <1>1, <1>2
    <3> QED
      BY <1>4, <3>1, PowersPositive
  <2>3. PICK w \in Nat : w = v \div M
    BY <1>1, DivModIn
  <2>4. BytesOf(v)[k] = w % 256
    <3>1. BytesOf(v)[k] = (v \div 256^e) % 256
      BY <2>1, Zenon DEF BytesOf
    <3>2. 256^e = M
      BY <1>3, <2>2, TwoDigits DEF PowerOf256
    <3> QED
      BY <2>3, <3>1, <3>2, Zenon
  <2>5. t[2 * k] = w % 16
    <3>1. 2 * k \in 1 .. n /\ n - 2 * k = 2 * e
      BY <1>1, <1>2, <2>1
    <3>2. t[2 * k] = (v \div p[n - 2 * k]) % 16
      BY <1>6, <3>1, Zenon
    <3> QED
      BY <2>2, <2>3, <3>1, <3>2, Zenon
  <2>6. t[2 * k - 1] = (w \div 16) % 16
    <3>1. 2 * k - 1 \in 1 .. n /\ n - (2 * k - 1) = 2 * e + 1
      BY <1>1, <1>2, <2>1
    <3>2. t[2 * k - 1] = (v \div p[n - (2 * k - 1)]) % 16
      BY <1>6, <3>1, Zenon
    <3>3. 2 * e \in 0 .. n - 1
      BY <1>1, <1>2, <2>1
    <3>4. p[2 * e + 1] = 16 * p[2 * e]
      BY <1>4, <3>3, Zenon DEF PowersOf
    <3>5. PICK F \in Nat \ {0} : F = 16
      OBVIOUS
    <3>6. PICK MF \in Nat \ {0} : MF = p[2 * e + 1]
      BY <2>2, <3>4
    <3>7. MF = M * F
      BY <2>2, <3>4, <3>5, <3>6
    <3>8. (v \div M) \div F = v \div MF
      BY <1>1, <3>7, DivDiv
    <3>9. w \div 16 = v \div p[n - (2 * k - 1)]
      BY <2>3, <3>1, <3>5, <3>6, <3>8, Zenon
    <3> QED
      BY <3>2, <3>9, Zenon
  <2>7. /\ w % 256 \in 0 .. 255
        /\ (w \div 16) % 16 = (w % 256) \div 16
        /\ w % 16 = (w % 256) % 16
    BY LastDigits, Zenon
  <2>8. BytesOf(v)[k] \in 0 .. 255
    BY <2>4, <2>7, Zenon
  <2>9. t[2 * k - 1] = BytesOf(v)[k] \div 16
    BY <2>4, <2>6, <2>7, Zenon
  <2>10. t[2 * k] = BytesOf(v)[k] % 16
    BY <2>4, <2>5, <2>7, Zenon
  <2> QED
    BY <2>8, <2>9, <2>10
<1>8. BytesOf(v) \in [1 .. HexLen -> 0 .. 255]
  BY <1>7 DEF BytesOf
<1>9. TextOf(t, BytesOf(v))
  BY <1>2, <1>6, <1>7 DEF TextOf
<1> QED
  BY <1>5, <1>8, <1>9

-----------------------------------------------------------------------------
(* The text is that of the value, and the bytes read are bytes. *)
EncodingsInv ==
  /\ value \in [1 .. HexLen -> 0 .. 255] /\ TextOf(text, value)
  /\ hexarr \in Seq(0 .. 255) /\ Len(hexarr) <= HexLen
  /\ ReadBackExact

LEMMA ReadByteKeeps ==
  ASSUME EncodingsInv, ReadByte PROVE EncodingsInv'
<1>1. HexLen \in Nat
  BY EncodingsAssumption
<1>2. PICK j \in Nat : j = Len(hexarr)
  BY DEF EncodingsInv
<1>3. j < HexLen /\ UNCHANGED <<value, text>>
  BY <1>2 DEF ReadByte
<1>4. PICK rest \in Behind :
        /\ hexarr' = Append(hexarr, Strtoul(SubSeq(text, 2 * j + 1, 2 * j + 2) \o rest))
        /\ bled' = IF rest = <<>> THEN bled ELSE bled \union {j + 1}
  BY <1>2 DEF ReadByte
<1>5. PICK k \in 1 .. HexLen : k = j + 1
  BY <1>1, <1>3
<1>6. PICK pair : pair = SubSeq(text, 2 * j + 1, 2 * j + 2)
  OBVIOUS
<1>7. PICK hi, lo \in Digit :
        hi = value[k] \div 16 /\ lo = value[k] % 16 /\ 16 * hi + lo = value[k]
  BY ByteDigits DEF EncodingsInv
<1>8. pair \in Seq(Digit) /\ Len(pair) = 2 /\ pair[1] = hi /\ pair[2] = lo
  <2>1. text \in Seq(Digit) /\ Len(text) = 2 * HexLen
    BY DEF EncodingsInv, TextOf
  <2>2. PICK first \in 1 .. 2 * HexLen, second \in 1 .. 2 * HexLen :
          first = 2 * j + 1 /\ second = first + 1
    BY <1>1, <1>3
  <2>3. text[first] = hi /\ text[second] = lo
    <3>1. first = 2 * k - 1 /\ second = 2 * k
      BY <1>5, <2>2
    <3> QED
      BY <1>7, <3>1 DEF EncodingsInv, TextOf
  <2>4. pair = SubSeq(text, first, first + 1)
    <3>1. 2 * j + 2 = first + 1
      BY <2>2
    <3> QED
      BY <1>6, <2>2, <3>1
  <2>5. Len(pair) = 2 /\ pair[1] = text[first] /\ pair[2] = text[first + 1] /\ pair \in Seq(Digit)
    BY <2>1, <2>2, <2>4
  <2> QED
    BY <2>2, <2>3, <2>5
<1>9. rest \in Seq(Digit)
  BY EncodingsAssumption DEF Digit
<1>10. PICK byte : byte = Strtoul(pair \o rest)
  OBVIOUS
<1>11. byte \in 0 .. 255
  <2>1. pair \o rest \in Seq(Digit)
    BY <1>8, <1>9
  <2> QED
    BY <1>10, <2>1, StrtoulByte
<1>12. rest = <<>> => byte = value[k]
  <2> SUFFICES ASSUME rest = <<>> PROVE byte = value[k]
    OBVIOUS
  <2>1. pair \o <<>> = pair
    BY <1>8
  <2>2. Strtoul(pair) = 16 * hi + lo
    BY <1>8, StrtoulPair
  <2> QED
    BY <1>7, <1>10, <2>1, <2>2
<1>13. hexarr \in Seq(0 .. 255) /\ hexarr' = Append(hexarr, byte)
  BY <1>4, <1>6, <1>10 DEF EncodingsInv
<1>14. /\ hexarr' \in Seq(0 .. 255) /\ Len(hexarr') = j + 1 /\ hexarr'[j + 1] = byte
       /\ \A i \in 1 .. j : hexarr'[i] = hexarr[i]
  BY <1>2, <1>11, <1>13
<1>15. ASSUME NEW i \in 1 .. j + 1, i \notin bled' PROVE hexarr'[i] = value'[i]
  <2>1. CASE i \in 1 .. j
    <3>1. i \notin bled
      BY <1>4, <1>15
    <3> QED
      BY <1>2, <1>3, <1>14, <2>1, <3>1 DEF EncodingsInv, ReadBackExact
  <2>2. CASE i = j + 1
    <3>1. rest = <<>>
      BY <1>4, <1>15, <2>2
    <3> QED
      BY <1>3, <1>5, <1>12, <1>14, <2>2, <3>1
  <2> QED
    BY <2>1, <2>2
<1>16. ReadBackExact'
  BY <1>14, <1>15 DEF ReadBackExact
<1>17. TextOf(text, value)' /\ value' \in [1 .. HexLen -> 0 .. 255]
  BY <1>3 DEF EncodingsInv, TextOf
<1>18. Len(hexarr') <= HexLen
  BY <1>1, <1>3, <1>14
<1> QED
  BY <1>14, <1>16, <1>17, <1>18 DEF EncodingsInv

(* For values of every length and every number that fits: what was written   *)
(* is read back byte for byte wherever no digit follows the two characters.  *)
THEOREM TextReadBack == EncodingsSpec => []ReadBackExact
<1>1. EncodingsInit => EncodingsInv
  <2> SUFFICES ASSUME EncodingsInit PROVE EncodingsInv
    OBVIOUS
  <2>1. value \in [1 .. HexLen -> 0 .. 255] /\ TextOf(text, value)
    <3>1. CASE value \in Sources /\ text = HexToStr(value)
      BY <3>1, EncodingsAssumption, BytesAsText
    <3>2. CASE \E v \in BigNumbers : value = BytesOf(v) /\ text = Padded(GetStr(v))
      BY <3>2, NumberAsText
    <3> QED
      BY <3>1, <3>2 DEF EncodingsInit
  <2>2. hexarr = <<>> /\ HexLen \in Nat
    BY EncodingsAssumption DEF EncodingsInit
  <2> QED
    BY <2>1, <2>2 DEF EncodingsInv, ReadBackExact
<1>2. EncodingsInv /\ [ReadByte]_encodingVars => EncodingsInv'
  <2>1. CASE UNCHANGED encodingVars
    BY <2>1 DEF encodingVars, EncodingsInv, ReadBackExact, TextOf
  <2> QED
    BY <2>1, ReadByteKeeps
<1>3. EncodingsInv => ReadBackExact
  BY DEF EncodingsInv
<1> QED
  BY <1>1, <1>2, <1>3, PTL DEF EncodingsSpec

-----------------------------------------------------------------------------
(* BFIdxConv: the index of a digest. *)

(* The powers of two up to 2^Width. *)
PowerOf2 == [k \in 0 .. Width |-> 2^k]

LEMMA PowersOfTwo == PowersOf(2, Width, PowerOf2)
<1>1. 2^0 = 1
  OBVIOUS
<1> QED
  BY <1>1, WidthAssumption, PowersAre DEF PowerOf2

(* v is the number of the first m bits of the bytes d. *)
Reads(p, d, v, m) ==
  /\ v \in Nat /\ v < p[m]
  /\ \A k \in 0 .. m - 1 : (v \div p[m - 1 - k]) % 2 = (d[(k \div 8) + 1] \div p[7 - (k % 8)]) % 2

Taking(p, n, d, q, m, r, byte, v, x, u, w) ==
  /\ n \in Nat /\ n >= 8 /\ PowersOf(2, n, p)
  /\ q \in Nat /\ m \in Nat /\ r \in 1 .. 8 /\ byte \in 0 .. 255
  /\ m = 8 * q /\ m + r <= n /\ byte = d[q + 1] /\ Reads(p, d, v, m)
  /\ x = byte \div p[8 - r] /\ u = v * p[r] /\ w = u + x

(* r more bits, the first ones of the next byte. *)
LEMMA TakeBits ==
  ASSUME NEW p, NEW n, NEW d, NEW q, NEW m, NEW r, NEW byte, NEW v, NEW x, NEW u, NEW w,
         Taking(p, n, d, q, m, r, byte, v, x, u, w)
  PROVE  /\ u \in Nat /\ u + p[r] <= p[m + r] /\ x \in 0 .. p[r] - 1
         /\ Reads(p, d, w, m + r)
<1> /\ n \in Nat /\ n >= 8 /\ PowersOf(2, n, p)
    /\ q \in Nat /\ m \in Nat /\ r \in 1 .. 8 /\ byte \in 0 .. 255
    /\ m = 8 * q /\ m + r <= n /\ byte = d[q + 1] /\ Reads(p, d, v, m)
    /\ x = byte \div p[8 - r] /\ u = v * p[r] /\ w = u + x
  BY DEF Taking
<1>0. \A k \in 0 .. n : p[k] \in Nat \ {0}
  BY PowersPositive
<1>1. p[8] = 256
  <2>1. /\ 0 \in 0 .. n - 1 /\ 1 \in 0 .. n - 1 /\ 2 \in 0 .. n - 1 /\ 3 \in 0 .. n - 1
        /\ 4 \in 0 .. n - 1 /\ 5 \in 0 .. n - 1 /\ 6 \in 0 .. n - 1 /\ 7 \in 0 .. n - 1
    OBVIOUS
  <2>2. /\ p[0] = 1 /\ p[0 + 1] = 2 * p[0] /\ p[1 + 1] = 2 * p[1] /\ p[2 + 1] = 2 * p[2]
        /\ p[3 + 1] = 2 * p[3] /\ p[4 + 1] = 2 * p[4] /\ p[5 + 1] = 2 * p[5]
        /\ p[6 + 1] = 2 * p[6] /\ p[7 + 1] = 2 * p[7]
    BY <2>1, Zenon DEF PowersOf
  <2>3. /\ p[1] = 2 * p[0] /\ p[2] = 2 * p[1] /\ p[3] = 2 * p[2] /\ p[4] = 2 * p[3]
        /\ p[5] = 2 * p[4] /\ p[6] = 2 * p[5] /\ p[7] = 2 * p[6] /\ p[8] = 2 * p[7]
    BY <2>2
  <2> QED
    BY <2>2, <2>3
<1>2. p[0] = 1 /\ p[1] = 2
  <2>1. 0 \in 0 .. n - 1
    OBVIOUS
  <2> QED
    BY <2>1 DEF PowersOf
<1>3. PICK P \in Nat \ {0} : P = p[r]
  BY <1>0
<1>4. PICK Q \in Nat \ {0} : Q = p[8 - r]
  BY <1>0
<1>5. PICK M \in Nat \ {0} : M = p[m]
  BY <1>0
<1>6. P * Q = 256
  <2>1. p[r + (8 - r)] = p[r] * p[8 - r]
    BY PowersAdd
  <2> QED
    BY <1>1, <1>3, <1>4, <2>1
<1>7. p[m + r] = M * P
  BY <1>3, <1>5, PowersAdd
<1>8. v \in Nat /\ v < M
  BY <1>5 DEF Reads
<1>9. u \in Nat /\ u + P <= M * P
  <2>1. u = v * P
    BY <1>3
  <2>2. (v + 1) * P <= M * P
    BY <1>8
  <2>3. (v + 1) * P = v * P + P
    BY <1>8
  <2> QED
    BY <1>8, <2>1, <2>2, <2>3
<1>10. PICK y \in Nat, t \in 0 .. Q - 1 : byte = Q * y + t
  <2>1. byte \in Nat
    OBVIOUS
  <2> QED
    BY <2>1, DivModExists, Zenon
<1>11. x = y
  <2>1. byte \div Q = y
    BY <1>10, DivMod, Zenon
  <2> QED
    BY <1>4, <2>1
<1>12. y < P
  <2>1. SUFFICES ASSUME y >= P PROVE FALSE
    OBVIOUS
  <2>2. Q * y >= Q * P
    BY <2>1
  <2>3. Q * P = 256
    BY <1>6
  <2> QED
    BY <1>10, <2>2, <2>3
<1>13. w \in Nat /\ w < M * P
  BY <1>9, <1>11, <1>12
(* The bits that were there. *)
<1>14. w \div P = v
  <2>1. w = P * v + y
    BY <1>3, <1>8, <1>11
  <2>2. y \in 0 .. P - 1 /\ v \in Nat
    BY <1>8, <1>12
  <2> QED
    BY <2>1, <2>2, DivMod, Zenon
<1>15. ASSUME NEW k \in 0 .. m - 1
       PROVE  (w \div p[m + r - 1 - k]) % 2 = (d[(k \div 8) + 1] \div p[7 - (k % 8)]) % 2
  <2>1. PICK e \in 0 .. n : e = m - 1 - k
    OBVIOUS
  <2>2. PICK E \in Nat \ {0} : E = p[e]
    BY <1>0
  <2>3. r + e <= n /\ m + r - 1 - k = r + e
    BY <2>1
  <2>4. PICK EP \in Nat \ {0} : EP = p[r + e]
    <3>1. r + e \in 0 .. n
      BY <2>1, <2>3
    <3> QED
      BY <1>0, <3>1
  <2>5. EP = P * E
    BY <1>3, <2>2, <2>3, <2>4, PowersAdd
  <2>6. (w \div P) \div E = w \div EP
    BY <1>13, <2>5, DivDiv
  <2>7. (v \div E) % 2 = (d[(k \div 8) + 1] \div p[7 - (k % 8)]) % 2
    BY <2>1, <2>2 DEF Reads
  <2> QED
    BY <1>14, <2>3, <2>4, <2>6, <2>7
(* The new bits. *)
<1>16. ASSUME NEW k \in m .. m + r - 1
       PROVE  (w \div p[m + r - 1 - k]) % 2 = (d[(k \div 8) + 1] \div p[7 - (k % 8)]) % 2
  <2>1. PICK i \in 0 .. r - 1 : k = m + i
    OBVIOUS
  <2>2. k \div 8 = q /\ k % 8 = i
    <3>1. k = 8 * q + i /\ i \in 0 .. 7
      BY <2>1
    <3> QED
      BY <3>1
  <2>3. PICK e \in 0 .. 7 : e = r - 1 - i
    OBVIOUS
  <2>4. m + r - 1 - k = e /\ 7 - (k % 8) = (8 - r) + e /\ e \in 0 .. n /\ 8 - r \in 0 .. n /\ (8 - r) + e <= n
    BY <2>1, <2>2, <2>3
  <2>5. PICK E \in Nat \ {0} : E = p[e]
    BY <1>0, <2>4
  <2>6. PICK EQ \in Nat \ {0} : EQ = p[(8 - r) + e]
    BY <1>0, <2>4
  <2>7. EQ = Q * E
    BY <1>4, <2>4, <2>5, <2>6, PowersAdd
  <2>8. (byte \div Q) \div E = byte \div EQ
    BY <2>7, DivDiv
  <2>9. (x \div E) = byte \div EQ
    BY <1>4, <2>8
  <2>10. PICK h \in Nat, f \in 0 .. E - 1 : y = E * h + f
    BY DivModExists
  <2>11. x \div E = h
    <3>1. y \div E = h
      BY <2>10, DivMod, Zenon
    <3> QED
      BY <1>11, <3>1
  (* u is a multiple of 2 * E. *)
  <2>12. PICK c \in Nat : c = v * p[i]
    <3>1. p[i] \in Nat
      BY <1>0
    <3> QED
      BY <1>8, <3>1
  <2>13. P = E * (2 * p[i])
    <3>1. p[e + (i + 1)] = p[e] * p[i + 1]
      <4>1. PICK l \in 0 .. n : l = i + 1
        OBVIOUS
      <4>2. e \in 0 .. n /\ e + l <= n
        BY <2>3, <4>1
      <4>3. p[e + l] = p[e] * p[l]
        BY <4>2, PowersAdd
      <4> QED
        BY <4>1, <4>3
    <3>2. p[i + 1] = 2 * p[i]
      <4>1. i \in 0 .. n - 1
        OBVIOUS
      <4> QED
        BY <4>1 DEF PowersOf
    <3>3. e + (i + 1) = r
      BY <2>3
    <3> QED
      BY <1>3, <2>5, <3>1, <3>2, <3>3
  <2>14. u = E * (2 * c)
    <3>1. PICK g \in Nat : g = p[i]
      BY <1>0
    <3>2. v * (E * (2 * g)) = E * (2 * (v * g))
      BY <1>8
    <3> QED
      BY <1>3, <2>12, <2>13, <3>1, <3>2
  <2>15. PICK s \in Nat : s = 2 * c + h
    OBVIOUS
  <2>16. w = E * s + f
    <3>1. E * (2 * c + h) = E * (2 * c) + E * h
      OBVIOUS
    <3> QED
      BY <1>11, <2>10, <2>14, <2>15, <3>1
  <2>17. w \div E = s
    BY <2>16, DivMod
  <2>18. s % 2 = h % 2
    BY <2>15
  <2> QED
    BY <2>2, <2>4, <2>5, <2>6, <2>9, <2>11, <2>17, <2>18
<1>17. \A k \in 0 .. m + r - 1 : k \in 0 .. m - 1 \/ k \in m .. m + r - 1
  OBVIOUS
<1>18. Reads(p, d, w, m + r)
  <2>1. ASSUME NEW k \in 0 .. m + r - 1
        PROVE  (w \div p[m + r - 1 - k]) % 2 = (d[(k \div 8) + 1] \div p[7 - (k % 8)]) % 2
    BY <1>15, <1>16, <1>17, Zenon
  <2>2. w \in Nat /\ w < p[m + r]
    BY <1>7, <1>13
  <2> QED
    BY <2>1, <2>2 DEF Reads
<1> QED
  BY <1>3, <1>7, <1>9, <1>11, <1>12, <1>18

-----------------------------------------------------------------------------
(* The number read so far is that of the bits read so far. *)
BitsRead == IF bf_pc = "bytes" THEN 8 * byte_i ELSE n_bits

BFInv ==
  /\ hex_arr \in Digests /\ n_bits \in Bits
  /\ bf_pc \in {"bytes", "done"} /\ byte_i \in 0 .. n_bytes
  /\ Reads(PowerOf2, hex_arr, idx_val, BitsRead)

LEMMA DigestByte ==
  ASSUME NEW d \in Digests, NEW b \in Bits, NEW q \in Nat, 8 * q < b
  PROVE  d[q + 1] \in 0 .. 255
<1>1. b \in Nat /\ d \in Seq(0 .. 255) /\ 8 * Len(d) >= b
  BY BitsAssumption, WidthAssumption, DigestsAssumption
<1>2. q + 1 \in 1 .. Len(d)
  <2>1. PICK length \in Nat : length = Len(d)
    BY <1>1
  <2> QED
    BY <1>1, <2>1
<1>3. \A S : \A f \in Seq(S) : \A i \in 1 .. Len(f) : f[i] \in S
  OBVIOUS
<1> QED
  BY <1>1, <1>2, <1>3, Zenon

(* Taking r bits rest whole bytes, with the words of the code. *)
LEMMA ShiftIn ==
  ASSUME NEW d \in Digests, NEW b \in Bits, NEW q \in Nat, NEW r \in 1 .. 8, 8 * q + r <= b,
         NEW v, Reads(PowerOf2, d, v, 8 * q)
  PROVE  Reads(PowerOf2, d, Shl(v, r) + d[q + 1] \div 2^(8 - r), 8 * q + r)
<1>1. b \in Nat /\ b <= Width /\ Width \in Nat /\ Width >= 8
  BY BitsAssumption, WidthAssumption
<1>2. PICK byte \in 0 .. 255 : byte = d[q + 1]
  BY <1>1, DigestByte
<1>3. PICK m \in Nat : m = 8 * q
  OBVIOUS
<1>4. PICK p : p = PowerOf2
  OBVIOUS
<1>5. PowersOf(2, Width, p) /\ \A k \in 0 .. Width : p[k] = 2^k
  BY <1>4, PowersOfTwo DEF PowerOf2
<1>6. m + r <= Width /\ r \in 0 .. Width /\ 8 - r \in 0 .. Width /\ Width \in 0 .. Width /\ m + r \in 0 .. Width
  BY <1>1, <1>3
<1>7. PICK x : x = byte \div p[8 - r]
  OBVIOUS
<1>8. PICK u : u = v * p[r]
  OBVIOUS
<1>9. PICK w : w = u + x
  OBVIOUS
<1>10. Reads(p, d, v, m)
  BY <1>3, <1>4
<1>11. u \in Nat /\ u + p[r] <= p[m + r] /\ x \in 0 .. p[r] - 1 /\ Reads(p, d, w, m + r)
  <2>1. Taking(p, Width, d, q, m, r, byte, v, x, u, w)
    BY <1>1, <1>2, <1>3, <1>5, <1>6, <1>7, <1>8, <1>9, <1>10 DEF Taking
  <2> QED
    BY <2>1, TakeBits, Zenon
<1>12. p[m + r] <= p[Width]
  <2>0. Width - (m + r) \in 0 .. Width /\ (m + r) + (Width - (m + r)) = Width
    BY <1>1, <1>6
  <2>1. PICK e \in 0 .. Width : (m + r) + e = Width
    BY <2>0
  <2>2. p[(m + r) + e] = p[m + r] * p[e]
    BY <1>1, <1>5, <1>6, <2>1, PowersAdd
  <2>3. p[m + r] \in Nat \ {0} /\ p[e] \in Nat \ {0}
    BY <1>1, <1>5, <1>6, PowersPositive
  <2>4. \A a, c \in Nat \ {0} : a <= a * c
    OBVIOUS
  <2> QED
    BY <2>1, <2>2, <2>3, <2>4
<1>13. Shl(v, r) = u
  <2>1. p[r] \in Nat \ {0} /\ p[Width] \in Nat \ {0} /\ p[m + r] \in Nat \ {0}
    BY <1>1, <1>5, <1>6, PowersPositive
  <2>2. Shl(v, r) = u % p[Width]
    BY <1>5, <1>6, <1>8 DEF Shl
  <2>3. u = p[Width] * 0 + u /\ u \in 0 .. p[Width] - 1
    BY <1>11, <1>12, <2>1
  <2> QED
    BY <2>1, <2>2, <2>3, DivMod
<1>14. x = d[q + 1] \div 2^(8 - r)
  BY <1>2, <1>5, <1>6, <1>7
<1> QED
  BY <1>3, <1>4, <1>9, <1>11, <1>13, <1>14

LEMMA WholeByteKeeps ==
  ASSUME BFInv, WholeByte PROVE BFInv'
<1>1. /\ hex_arr \in Digests /\ n_bits \in Bits /\ byte_i \in 0 .. n_bytes
      /\ bf_pc = "bytes" /\ bf_pc' = "bytes" /\ byte_i < n_bytes /\ byte_i' = byte_i + 1
      /\ hex_arr' = hex_arr /\ n_bits' = n_bits
      /\ idx_val' = Shl(idx_val, 8) + hex_arr[byte_i + 1]
      /\ Reads(PowerOf2, hex_arr, idx_val, 8 * byte_i)
  BY DEF BFInv, WholeByte, BitsRead
<1>2. n_bits \in 1 .. Width /\ n_bytes \in Nat /\ 8 * n_bytes <= n_bits /\ n_bytes' = n_bytes
  BY <1>1, BitsAssumption, WidthAssumption DEF n_bytes
<1>3. byte_i \in Nat /\ 8 * byte_i + 8 <= n_bits /\ 8 \in 1 .. 8 /\ byte_i' \in 0 .. n_bytes'
  BY <1>1, <1>2
<1>4. Reads(PowerOf2, hex_arr, Shl(idx_val, 8) + hex_arr[byte_i + 1] \div 2^(8 - 8), 8 * byte_i + 8)
  BY <1>1, <1>3, ShiftIn
<1>5. hex_arr[byte_i + 1] \div 2^(8 - 8) = hex_arr[byte_i + 1]
  <2>1. hex_arr[byte_i + 1] \in 0 .. 255
    BY <1>1, <1>2, <1>3, DigestByte
  <2>2. 2^(8 - 8) = 1
    OBVIOUS
  <2>3. \A z \in 0 .. 255 : z \div 1 = z
    OBVIOUS
  <2> QED
    BY <2>1, <2>2, <2>3
<1>6. 8 * byte_i + 8 = 8 * byte_i'
  BY <1>1, <1>3
<1>7. Reads(PowerOf2, hex_arr, idx_val', 8 * byte_i')
  BY <1>1, <1>4, <1>5, <1>6
<1>8. Reads(PowerOf2, hex_arr, idx_val, BitsRead)'
  BY <1>1, <1>7 DEF BitsRead, Reads, PowerOf2
<1> QED
  BY <1>1, <1>3, <1>8 DEF BFInv

LEMMA RestBitsKeeps ==
  ASSUME BFInv, RestBits PROVE BFInv'
<1>1. /\ hex_arr \in Digests /\ n_bits \in Bits /\ byte_i = n_bytes
      /\ bf_pc = "bytes" /\ bf_pc' = "done" /\ byte_i' = byte_i
      /\ hex_arr' = hex_arr /\ n_bits' = n_bits
      /\ Reads(PowerOf2, hex_arr, idx_val, 8 * n_bytes)
  BY DEF BFInv, RestBits, BitsRead
<1>2. /\ n_bits \in 1 .. Width /\ n_bytes \in Nat /\ n_bits_rem \in 0 .. 7
      /\ 8 * n_bytes + n_bits_rem = n_bits /\ n_bytes' = n_bytes
  <2>1. n_bits \in 1 .. Width /\ n_bits \in Nat
    BY <1>1, BitsAssumption, WidthAssumption
  <2>2. PICK M \in Nat \ {0} : M = 8
    OBVIOUS
  <2>4. PICK q \in Nat, t \in 0 .. M - 1 : n_bits = M * q + t
    BY <2>1, DivModExists
  <2>5. n_bits \div M = q /\ n_bits % M = t
    BY <2>4, DivMod, Zenon
  <2>6. n_bytes = q /\ n_bits_rem = t
    BY <2>2, <2>5, Zenon DEF n_bytes, n_bits_rem
  <2>3. n_bytes' = n_bytes
    BY <1>1 DEF n_bytes
  <2> QED
    BY <2>1, <2>2, <2>3, <2>4, <2>6
<1>3. Reads(PowerOf2, hex_arr, idx_val', n_bits)
  <2>1. CASE n_bits_rem = 0
    <3>1. idx_val' = idx_val
      BY <2>1 DEF RestBits
    <3> QED
      BY <1>1, <1>2, <2>1, <3>1
  <2>2. CASE n_bits_rem # 0
    <3>1. idx_val' = Shl(idx_val, n_bits_rem) + hex_arr[n_bytes + 1] \div 2^(8 - n_bits_rem)
      BY <2>2 DEF RestBits
    <3>2. n_bits_rem \in 1 .. 8 /\ 8 * n_bytes + n_bits_rem <= n_bits
      BY <1>2, <2>2
    <3>3. Reads(PowerOf2, hex_arr, idx_val', 8 * n_bytes + n_bits_rem)
      BY <1>1, <1>2, <3>1, <3>2, ShiftIn
    <3> QED
      BY <1>2, <3>3
  <2> QED
    BY <2>1, <2>2
<1>4. Reads(PowerOf2, hex_arr, idx_val, BitsRead)'
  BY <1>1, <1>3 DEF BitsRead, Reads, PowerOf2
<1> QED
  BY <1>1, <1>2, <1>4 DEF BFInv

(* For every digest, index size and width of an int: the index is the number *)
(* of the digest's leading bits.                                             *)
THEOREM IndexIsLeadingBits == BFSpec => []LeadingBits
<1>1. BFInit => BFInv
  <2> SUFFICES ASSUME BFInit PROVE BFInv
    OBVIOUS
  <2>1. /\ hex_arr \in Digests /\ n_bits \in Bits /\ idx_val = 0 /\ byte_i = 0 /\ bf_pc = "bytes"
    BY DEF BFInit
  <2>2. n_bytes \in Nat
    BY <2>1, BitsAssumption, WidthAssumption DEF n_bytes
  <2>3. BitsRead = 0
    BY <2>1 DEF BitsRead
  <2>4. PowerOf2[0] = 1
    BY PowersOfTwo DEF PowersOf
  <2>5. Reads(PowerOf2, hex_arr, idx_val, BitsRead)
    BY <2>1, <2>3, <2>4 DEF Reads
  <2> QED
    BY <2>1, <2>2, <2>5 DEF BFInv
<1>2. BFInv /\ [BFNext]_bfVars => BFInv'
  <2>1. CASE BFNext
    BY <2>1, WholeByteKeeps, RestBitsKeeps DEF BFNext
  <2>2. CASE UNCHANGED bfVars
    BY <2>2 DEF bfVars, BFInv, n_bytes, BitsRead, Reads, PowerOf2
  <2> QED
    BY <2>1, <2>2
<1>3. BFInv => LeadingBits
  <2> SUFFICES ASSUME BFInv, bf_pc = "done"
               PROVE  /\ idx_val < 2^n_bits
                      /\ \A k \in 0 .. n_bits - 1 :
                           (idx_val \div 2^(n_bits - 1 - k)) % 2 = Bit(hex_arr, k)
    BY DEF LeadingBits
  <2>1. n_bits \in 1 .. Width /\ Width \in Nat /\ Width >= 8
    BY BitsAssumption, WidthAssumption DEF BFInv
  <2>2. Reads(PowerOf2, hex_arr, idx_val, n_bits)
    BY DEF BFInv, BitsRead
  <2>3. \A k \in 0 .. Width : PowerOf2[k] = 2^k
    BY DEF PowerOf2
  <2>4. n_bits \in 0 .. Width /\ \A k \in 0 .. n_bits - 1 : n_bits - 1 - k \in 0 .. Width /\ 7 - (k % 8) \in 0 .. Width
    BY <2>1
  <2>5. idx_val < 2^n_bits
    BY <2>2, <2>3, <2>4 DEF Reads
  <2>6. ASSUME NEW k \in 0 .. n_bits - 1
        PROVE  (idx_val \div 2^(n_bits - 1 - k)) % 2 = Bit(hex_arr, k)
    <3>1. (idx_val \div PowerOf2[n_bits - 1 - k]) % 2 = (hex_arr[(k \div 8) + 1] \div PowerOf2[7 - (k % 8)]) % 2
      BY <2>2, Zenon DEF Reads
    <3>2. PowerOf2[n_bits - 1 - k] = 2^(n_bits - 1 - k) /\ PowerOf2[7 - (k % 8)] = 2^(7 - (k % 8))
      BY <2>3, <2>4, Zenon
    <3> QED
      BY <3>1, <3>2, Zenon DEF Bit
  <2> QED
    BY <2>5, <2>6
<1> QED
  BY <1>1, <1>2, <1>3, PTL DEF BFSpec
=============================================================================
