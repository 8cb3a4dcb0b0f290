------------------------------ MODULE TSet_proofs ------------------------------
(***************************************************************************)
(* What a set-up stores and a retrieval finds, for every number of         *)
(* keywords, row length, batch size, period of the position byte and       *)
(* assignment of digests to buckets.  Both loops count the positions of a  *)
(* bucket as they come to it: the counters of either are numbers of        *)
(* earlier positions, and so their keys are the same.                      *)
(***************************************************************************)
EXTENDS TSet, FiniteSetTheorems, TLAPS

At(f, w, i)        == f[<<w, i % Period>>]
Before(f, w, b, i) == {j \in 0 .. i - 1 : At(f, w, j) = b}
Count(f, w, b, i)  == Cardinality(Before(f, w, b, i))

(* The key and the value of position i of a row of n entries, database v. *)
KeyOf(f, w, i)      == <<At(f, w, i), Count(f, w, At(f, w, i), i) % JidxMod, Digest(w, i)>>
EntryOf(v, n, w, i) == Mask(Digest(w, i), [last |-> i = n - 1, id |-> <<v, w, i>>])

SetupOK ==
  phase = "setup" =>
    /\ ~complete /\ ver \in 1 .. MaxSetups
    /\ word \in todo /\ pos <= rowlen[word]
    /\ \A b \in Buckets : FreeB[b] = Count(bucket, word, b, pos)

StoredOK ==
  \A w \in Keywords : \A i \in 0 .. Stored(w) - 1 :
    /\ KeyOf(bucket, w, i) \in DOMAIN db
    /\ db[KeyOf(bucket, w, i)] = EntryOf(ver, rowlen[w], w, i)

BatchOK ==
  /\ phase = "query" =>
       /\ batch = <<>> /\ Len(keys) <= N_threads
       /\ \A b \in Buckets : FreeB[b] = Count(bucket, word, b, pos + Len(keys))
       /\ \A n \in 1 .. Len(keys) : keys[n] = KeyOf(bucket, word, pos + n - 1)
  /\ phase = "scan" =>
       /\ keys = <<>> /\ batch # <<>>
       /\ \A b \in Buckets : FreeB[b] = Count(bucket, word, b, pos + Len(batch))
  /\ phase \in {"query", "scan"} => \E q \in Nat : pos + Len(batch) = N_threads * q

WalkOK ==
  complete /\ rowlen[word] > 0 =>
    /\ phase # "overrun"
    /\ phase \in {"query", "scan"} =>
         /\ pos < rowlen[word] /\ Len(tset_row) = pos
         /\ \A i \in 1 .. pos : tset_row[i] = <<ver, word, i - 1>>
    /\ phase = "scan" =>
         \A n \in 1 .. Len(batch) :
           pos + n - 1 < rowlen[word] => batch[n] = EntryOf(ver, rowlen[word], word, pos + n - 1)
    /\ phase = "done" => tset_row = Row(word)

TSetInv == TypeOK /\ SetupOK /\ StoredOK /\ BatchOK /\ WalkOK

-----------------------------------------------------------------------------
(* What is left of a sequence after its first element. *)
LEMMA TailFacts ==
  ASSUME NEW S, NEW s \in Seq(S), s # <<>>
  PROVE  /\ Len(s) \in Nat /\ Len(s) >= 1 /\ Head(s) = s[1] /\ s[1] \in S
         /\ Tail(s) \in Seq(S) /\ Len(Tail(s)) = Len(s) - 1
         /\ \A n \in 1 .. Len(Tail(s)) : Tail(s)[n] = s[n + 1]
         /\ Tail(s) = <<>> <=> Len(s) = 1
<1>1. Len(s) \in Nat /\ Len(s) >= 1
  OBVIOUS
<1>2. Head(s) = s[1] /\ s[1] \in S
  BY <1>1
<1>3. Tail(s) \in Seq(S) /\ Len(Tail(s)) = Len(s) - 1
  BY <1>1
<1>4. \A n \in 1 .. Len(Tail(s)) : Tail(s)[n] = s[n + 1]
  BY <1>1, <1>3
<1>5. Tail(s) = <<>> <=> Len(Tail(s)) = 0
  <2>1. \A t \in Seq(S) : t = <<>> <=> Len(t) = 0
    OBVIOUS
  <2> QED
    BY <1>3, <2>1
<1> QED
  BY <1>1, <1>2, <1>3, <1>4, <1>5

(* A sequence with one element more. *)
LEMMA AppendFacts ==
  ASSUME NEW S, NEW s \in Seq(S), NEW e \in S
  PROVE  /\ Append(s, e) \in Seq(S) /\ Len(s) \in Nat /\ Len(Append(s, e)) = Len(s) + 1
         /\ Append(s, e)[Len(s) + 1] = e
         /\ \A n \in 1 .. Len(s) : Append(s, e)[n] = s[n]
  OBVIOUS

(* Digests of positions. *)
LEMMA PositionByte ==
  ASSUME NEW i \in Nat PROVE i % Period \in 0 .. Period - 1
  BY PeriodAssumption

(* A counter goes up; the counters stay numbers. *)
LEMMA BumpType ==
  ASSUME bucket \in [Digests -> Buckets], NEW w \in Keywords, NEW i \in Nat,
         NEW counters \in [Buckets -> Nat]
  PROVE  /\ Bump(w, i, counters) \in [Buckets -> Nat]
         /\ \A b \in Buckets : Bump(w, i, counters)[b] =
              IF At(bucket, w, i) = b THEN counters[b] + 1 ELSE counters[b]
<1>1. BucketAt(w, i) \in Buckets /\ BucketAt(w, i) = At(bucket, w, i)
  BY PositionByte DEF BucketAt, Digest, Digests, At
<1> QED
  BY <1>1 DEF Bump

(* Where bucket has its type, so has what is read from it. *)
LEMMA AtType ==
  ASSUME NEW f \in [Digests -> Buckets], NEW w \in Keywords, NEW i \in Nat
  PROVE  At(f, w, i) \in Buckets /\ Digest(w, i) \in Digests
  BY PositionByte DEF At, Digest, Digests

(* The positions before i are finitely many. *)
LEMMA BeforeFinite ==
  ASSUME NEW f, NEW w, NEW b, NEW i \in Nat
  PROVE  /\ IsFiniteSet(Before(f, w, b, i))
         /\ Count(f, w, b, i) \in Nat /\ Count(f, w, b, i) <= i
<1>1. IsFiniteSet(0 .. i - 1) /\ Cardinality(0 .. i - 1) = i
  <2>1. CASE i = 0
    <3>1. 0 .. i - 1 = {}
      BY <2>1
    <3> QED
      BY <2>1, <3>1, FS_EmptySet
  <2>2. CASE i > 0
    BY <2>2, FS_Interval
  <2> QED
    BY <2>1, <2>2
<1>2. Before(f, w, b, i) \subseteq 0 .. i - 1
  BY DEF Before
<1>3. IsFiniteSet(Before(f, w, b, i)) /\ Cardinality(Before(f, w, b, i)) <= i
  BY <1>1, <1>2, FS_Subset
<1> QED
  BY <1>3, FS_CardinalityType DEF Count

(* No position comes before the first. *)
LEMMA CountZero == ASSUME NEW f, NEW w, NEW b PROVE Count(f, w, b, 0) = 0
<1>1. Before(f, w, b, 0) = {}
  BY DEF Before
<1> QED
  BY <1>1, FS_EmptySet DEF Count

(* One more position adds one to the count of its bucket. *)
LEMMA CountStep ==
  ASSUME NEW f, NEW w, NEW b, NEW i \in Nat
  PROVE  Count(f, w, b, i + 1) = IF At(f, w, i) = b THEN Count(f, w, b, i) + 1 ELSE Count(f, w, b, i)
<1>1. CASE At(f, w, i) = b
  <2>1. Before(f, w, b, i + 1) = Before(f, w, b, i) \cup {i} /\ i \notin Before(f, w, b, i)
    BY <1>1 DEF Before
  <2>2. Cardinality(Before(f, w, b, i) \cup {i}) = Cardinality(Before(f, w, b, i)) + 1
    BY <2>1, BeforeFinite, FS_AddElement
  <2> QED
    BY <1>1, <2>1, <2>2 DEF Count
<1>2. CASE At(f, w, i) # b
  <2>1. Before(f, w, b, i + 1) = Before(f, w, b, i)
    BY <1>2 DEF Before
  <2> QED
    BY <1>2, <2>1 DEF Count
<1> QED
  BY <1>1, <1>2

(* A later position of the same bucket has a larger count. *)
LEMMA CountGrows ==
  ASSUME NEW f, NEW w, NEW i \in Nat, NEW j \in Nat, i < j
  PROVE  Count(f, w, At(f, w, i), i) < Count(f, w, At(f, w, i), j)
<1> DEFINE b == At(f, w, i)
<1>1. Count(f, w, b, i + 1) = Count(f, w, b, i) + 1
  BY CountStep
<1>2. Before(f, w, b, i + 1) \subseteq Before(f, w, b, j)
  BY DEF Before
<1>3. Count(f, w, b, i + 1) <= Count(f, w, b, j)
  BY <1>2, BeforeFinite, FS_Subset DEF Count
<1>4. Count(f, w, b, i) \in Nat /\ Count(f, w, b, i + 1) \in Nat /\ Count(f, w, b, j) \in Nat
  BY BeforeFinite
<1> QED
  BY <1>1, <1>3, <1>4

(* Two positions of the database never share a key, although the digests of  *)
(* a long row repeat and the counter in a key wraps.                         *)
LEMMA KeysDiffer ==
  ASSUME NEW f, NEW v, NEW w, NEW i \in 0 .. N_max_ids - 1, NEW j \in 0 .. N_max_ids - 1,
         v # w \/ i # j
  PROVE  KeyOf(f, v, i) # KeyOf(f, w, j)
<1> SUFFICES ASSUME KeyOf(f, v, i) = KeyOf(f, w, j) PROVE FALSE
  OBVIOUS
<1>1. /\ v = w /\ At(f, v, i) = At(f, w, j)
      /\ Count(f, v, At(f, v, i), i) % JidxMod = Count(f, w, At(f, w, j), j) % JidxMod
  BY DEF KeyOf, Digest
<1>2. i \in Nat /\ j \in Nat /\ i < JidxMod /\ j < JidxMod /\ JidxMod \in Nat \ {0}
  BY JidxAssumption
<1> DEFINE ci == Count(f, w, At(f, w, i), i)
           cj == Count(f, w, At(f, w, j), j)
<1>3. ci \in Nat /\ cj \in Nat /\ ci < JidxMod /\ cj < JidxMod
  <2>1. ci \in Nat /\ ci <= i /\ cj \in Nat /\ cj <= j
    BY <1>2, BeforeFinite
  <2> QED
    BY <1>2, <2>1
<1>4. ci # cj
  <2>1. i < j \/ j < i
    BY <1>1, <1>2
  <2>2. CASE i < j
    <3>1. Count(f, w, At(f, w, i), i) < Count(f, w, At(f, w, i), j)
      BY <1>2, <2>2, CountGrows
    <3> QED
      BY <1>1, <1>3, <3>1
  <2>3. CASE j < i
    <3>1. Count(f, w, At(f, w, j), j) < Count(f, w, At(f, w, j), i)
      BY <1>2, <2>3, CountGrows
    <3> QED
      BY <1>1, <1>3, <3>1
  <2> QED
    BY <2>1, <2>2, <2>3
<1>5. ci % JidxMod = cj % JidxMod
  BY <1>1
<1> HIDE DEF ci, cj
<1> QED
  BY <1>2, <1>3, <1>4, <1>5
-----------------------------------------------------------------------------
(* Outside a set-up, steps that leave redis alone keep what is stored. *)
LEMMA StoredKept ==
  ASSUME StoredOK, phase # "setup", phase' # "setup", UNCHANGED <<bucket, db, setupVars>>
  PROVE  StoredOK'
<1>1. \A w \in Keywords : Stored(w)' = Stored(w)
  BY DEF Stored, setupVars
<1> SUFFICES ASSUME NEW w \in Keywords, NEW i \in 0 .. Stored(w)' - 1
             PROVE  /\ KeyOf(bucket, w, i) \in DOMAIN db
                    /\ db[KeyOf(bucket, w, i)] = EntryOf(ver, rowlen[w], w, i)
  BY DEF StoredOK, setupVars
<1> QED
  BY <1>1 DEF StoredOK

(* How much is stored is a number, never past the longest row. *)
LEMMA StoredType ==
  ASSUME TypeOK, SetupOK, NEW w \in Keywords
  PROVE  Stored(w) \in 0 .. N_max_ids
<1>1. rowlen[w] \in 0 .. N_max_ids /\ rowlen[word] \in 0 .. N_max_ids /\ N_max_ids \in Nat
  BY JidxAssumption DEF TypeOK
<1> QED
  BY <1>1 DEF Stored, SetupOK, TypeOK

(* The initial states satisfy the invariant. *)
LEMMA TSetInitInv == Init => TSetInv
<1> SUFFICES ASSUME Init PROVE TSetInv
  OBVIOUS
<1>1. TypeOK
  <2>1. DOMAIN db = {}
    BY DEF Init
  <2>2. ver \in 0 .. MaxSetups /\ rowlen \in [Keywords -> 0 .. N_max_ids]
    BY JidxAssumption, SetupsAssumption DEF Init
  <2>3. FreeB \in [Buckets -> Nat] /\ phase \in Phases
    BY DEF Init, NoFreeB, Phases
  <2>4. /\ keys \in Seq(Buckets \X Nat \X Digests)
        /\ batch \in Seq(Values \cup {Absent}) /\ tset_row \in Seq(Ids)
    BY DEF Init
  <2> QED
    BY <2>1, <2>2, <2>3, <2>4 DEF Init, TypeOK
<1>2. SetupOK /\ BatchOK /\ WalkOK
  BY DEF Init, SetupOK, BatchOK, WalkOK
<1>3. StoredOK
  <2>1. \A w \in Keywords : Stored(w) = 0
    BY DEF Init, Stored
  <2> QED
    BY <2>1 DEF StoredOK
<1> QED
  BY <1>1, <1>2, <1>3 DEF TSetInv

(* A set-up begins: nothing of the new database is stored. *)
LEMMA StartSetUpInv == TSetInv /\ StartSetUp => TSetInv'
<1> SUFFICES ASSUME TSetInv, StartSetUp PROVE TSetInv'
  OBVIOUS
<1> USE DEF TSetInv
<1>1. TypeOK'
  <2>1. /\ ver' \in 0 .. MaxSetups /\ complete' \in BOOLEAN /\ phase' \in Phases /\ pos' \in Nat
        /\ todo' \subseteq Keywords /\ word' \in Keywords
    <3>1. ver \in 0 .. MaxSetups /\ ver' = ver + 1 /\ ver < MaxSetups
      BY DEF TypeOK, StartSetUp
    <3>2. ver' \in 0 .. MaxSetups
      BY <3>1, SetupsAssumption
    <3> QED
      BY <3>2 DEF StartSetUp, Phases
  <2>2. FreeB' \in [Buckets -> Nat]
    BY DEF StartSetUp, NoFreeB
  <2> QED
    BY <2>1, <2>2 DEF TypeOK, StartSetUp
<1>2. SetupOK'
  <2>1. \A b \in Buckets : FreeB'[b] = 0
    BY DEF StartSetUp, NoFreeB
  <2>2. \A b \in Buckets : Count(bucket', word', b, 0) = 0
    BY CountZero
  <2>3. 0 <= rowlen'[word'] /\ ver' \in 1 .. MaxSetups
    BY SetupsAssumption, JidxAssumption DEF TypeOK, StartSetUp
  <2> QED
    BY <2>1, <2>2, <2>3 DEF SetupOK, StartSetUp
<1>3. StoredOK'
  <2>1. ASSUME NEW w \in Keywords PROVE Stored(w)' = 0
    <3>1. phase' = "setup" /\ ~complete' /\ pos' = 0 /\ word' \in todo'
          /\ todo' = {u \in Keywords : rowlen'[u] > 0} /\ rowlen' \in [Keywords -> 0 .. N_max_ids]
      BY DEF StartSetUp
    <3>2. w \notin todo' => rowlen'[w] = 0
      BY <3>1, JidxAssumption
    <3> QED
      BY <3>1, <3>2 DEF Stored
  <2> QED
    BY <2>1 DEF StoredOK
<1>4. BatchOK' /\ WalkOK'
  BY DEF BatchOK, WalkOK, StartSetUp
<1> QED
  BY <1>1, <1>2, <1>3, <1>4

(* An entry is stored under a key no other position has. *)
LEMMA StoreEntryInv == TSetInv /\ StoreEntry => TSetInv'
<1> SUFFICES ASSUME TSetInv, StoreEntry PROVE TSetInv'
  OBVIOUS
<1> USE DEF TSetInv
<1> DEFINE key == Key(word, pos, FreeB)
           value == Mask(Digest(word, pos), [last |-> pos = rowlen[word] - 1, id |-> Id(word, pos)])
<1>1. /\ bucket \in [Digests -> Buckets] /\ word \in Keywords /\ pos \in Nat
      /\ ver \in 1 .. MaxSetups /\ rowlen \in [Keywords -> 0 .. N_max_ids]
      /\ FreeB \in [Buckets -> Nat] /\ pos < rowlen[word] /\ phase = "setup" /\ ~complete
      /\ \A b \in Buckets : FreeB[b] = Count(bucket, word, b, pos)
  BY DEF TypeOK, SetupOK, StoreEntry
<1>2. /\ db' = [k \in DOMAIN db \cup {key} |-> IF k = key THEN value ELSE db[k]]
      /\ FreeB' = Bump(word, pos, FreeB) /\ pos' = pos + 1
      /\ UNCHANGED <<bucket, setupVars, phase, word, keys, batch, tset_row>>
  BY DEF StoreEntry
<1>3. At(bucket, word, pos) \in Buckets /\ Digest(word, pos) \in Digests
  BY <1>1, AtType
<1>4. key = KeyOf(bucket, word, pos)
  BY <1>1, <1>3 DEF Key, KeyOf, BucketAt, At, Digest
<1>5. value = EntryOf(ver, rowlen[word], word, pos)
  BY DEF EntryOf, Id
<1>6. TypeOK'
  <2>1. key \in Buckets \X Nat \X Digests
    <3>1. Count(bucket, word, At(bucket, word, pos), pos) % JidxMod \in Nat
      BY <1>1, BeforeFinite, JidxAssumption
    <3> QED
      BY <1>3, <1>4, <3>1 DEF KeyOf
  <2>2. value \in Values
    BY <1>1, <1>3 DEF Mask, Id, Ids, Entries, Values
  <2>3. FreeB' \in [Buckets -> Nat]
    BY <1>1, <1>2, BumpType
  <2> HIDE DEF key, value
  <2> QED
    BY <1>1, <1>2, <2>1, <2>2, <2>3 DEF TypeOK, setupVars
<1>7. SetupOK'
  <2>1. ASSUME NEW b \in Buckets PROVE FreeB'[b] = Count(bucket, word, b, pos + 1)
    <3>1. FreeB'[b] = IF At(bucket, word, pos) = b THEN FreeB[b] + 1 ELSE FreeB[b]
      BY <1>1, <1>2, BumpType
    <3> QED
      BY <1>1, <3>1, CountStep
  <2> QED
    BY <1>1, <1>2, <2>1 DEF SetupOK, setupVars
<1>8. StoredOK'
  <2> HIDE DEF key, value
  <2>1. \A w \in Keywords : IF w = word THEN Stored(w)' = pos + 1 /\ Stored(w) = pos
                             ELSE Stored(w)' = Stored(w)
    BY <1>1, <1>2 DEF Stored, setupVars
  <2> SUFFICES ASSUME NEW w \in Keywords, NEW i \in 0 .. Stored(w)' - 1
               PROVE  /\ KeyOf(bucket, w, i) \in DOMAIN db'
                      /\ db'[KeyOf(bucket, w, i)] = EntryOf(ver, rowlen[w], w, i)
    BY <1>2 DEF StoredOK, setupVars
  <2>2. CASE w = word /\ i = pos
    BY <1>2, <1>4, <1>5, <2>2
  <2>3. CASE ~(w = word /\ i = pos)
    <3>1. i \in 0 .. Stored(w) - 1
      <4>1. CASE w = word
        BY <1>1, <2>1, <2>3, <4>1
      <4>2. CASE w # word
        BY <2>1, <4>2
      <4> QED
        BY <4>1, <4>2
    <3>2. i \in 0 .. N_max_ids - 1 /\ pos \in 0 .. N_max_ids - 1
      BY <1>1, <3>1, StoredType, JidxAssumption
    <3>3. KeyOf(bucket, w, i) # key
      BY <1>4, <2>3, <3>2, KeysDiffer
    <3>4. /\ KeyOf(bucket, w, i) \in DOMAIN db
          /\ db[KeyOf(bucket, w, i)] = EntryOf(ver, rowlen[w], w, i)
      BY <3>1 DEF StoredOK
    <3> QED
      BY <1>2, <3>3, <3>4
  <2> QED
    BY <2>2, <2>3
<1>9. BatchOK' /\ WalkOK'
  BY <1>1, <1>2 DEF BatchOK, WalkOK, setupVars
<1> QED
  BY <1>6, <1>7, <1>8, <1>9

(* A row is stored; the next one begins, or the set-up is complete. *)
LEMMA NextRowInv == TSetInv /\ NextRow => TSetInv'
<1> SUFFICES ASSUME TSetInv, NextRow PROVE TSetInv'
  OBVIOUS
<1> USE DEF TSetInv
<1>1. TypeOK'
  BY DEF TypeOK, NextRow, Phases, NoFreeB
<1>2. SetupOK'
  <2>1. \A b \in Buckets : FreeB'[b] = 0
    BY DEF NextRow, NoFreeB
  <2>2. \A b \in Buckets : Count(bucket', word', b, 0) = 0
    BY CountZero
  <2>3. word' \in Keywords /\ 0 <= rowlen'[word'] /\ (phase' = "setup" => word' \in todo' /\ complete' = complete)
    BY <1>1, JidxAssumption DEF TypeOK, NextRow
  <2> QED
    BY <2>1, <2>2, <2>3 DEF SetupOK, NextRow
<1>3. StoredOK'
  <2>1. ASSUME NEW w \in Keywords PROVE Stored(w)' = Stored(w)
    <3>1. /\ phase = "setup" /\ ~complete /\ pos = rowlen[word] /\ todo' = todo \ {word}
          /\ pos' = 0 /\ UNCHANGED rowlen
      BY DEF NextRow, SetupOK
    <3>2. CASE todo' = {}
      <4>1. complete' = TRUE /\ (w = word \/ w \notin todo)
        BY <3>1, <3>2 DEF NextRow
      <4> QED
        BY <3>1, <4>1 DEF Stored
    <3>3. CASE todo' # {}
      <4>1. word' \in todo' /\ phase' = "setup" /\ ~complete'
        BY <3>1, <3>3 DEF NextRow
      <4> QED
        BY <3>1, <4>1 DEF Stored
    <3> QED
      BY <3>2, <3>3
  <2> SUFFICES ASSUME NEW w \in Keywords, NEW i \in 0 .. Stored(w)' - 1
               PROVE  /\ KeyOf(bucket, w, i) \in DOMAIN db
                      /\ db[KeyOf(bucket, w, i)] = EntryOf(ver, rowlen[w], w, i)
    BY DEF StoredOK, NextRow
  <2> QED
    BY <2>1 DEF StoredOK
<1>4. BatchOK' /\ WalkOK'
  BY DEF BatchOK, WalkOK, NextRow
<1> QED
  BY <1>1, <1>2, <1>3, <1>4

(* A set-up is broken off: nothing is claimed of it. *)
LEMMA InterruptSetUpInv == TSetInv /\ InterruptSetUp => TSetInv'
<1> SUFFICES ASSUME TSetInv, InterruptSetUp PROVE TSetInv'
  OBVIOUS
<1> USE DEF TSetInv
<1>1. TypeOK'
  BY DEF TypeOK, InterruptSetUp, Phases, NoFreeB
<1>2. SetupOK' /\ BatchOK' /\ WalkOK'
  BY DEF SetupOK, BatchOK, WalkOK, InterruptSetUp
<1>3. StoredOK'
  <2>1. \A w \in Keywords : Stored(w)' = 0
    BY DEF SetupOK, InterruptSetUp, Stored
  <2> QED
    BY <2>1 DEF StoredOK
<1> QED
  BY <1>1, <1>2, <1>3
-----------------------------------------------------------------------------
(* A retrieval begins. *)
LEMMA StartRetrieveInv == TSetInv /\ StartRetrieve => TSetInv'
<1> SUFFICES ASSUME TSetInv, StartRetrieve PROVE TSetInv'
  OBVIOUS
<1> USE DEF TSetInv
<1>1. TypeOK'
  <2>1. FreeB' \in [Buckets -> Nat] /\ phase' \in Phases
    BY DEF StartRetrieve, NoFreeB, Phases
  <2>2. /\ keys' \in Seq(Buckets \X Nat \X Digests)
        /\ batch' \in Seq(Values \cup {Absent}) /\ tset_row' \in Seq(Ids)
    BY DEF StartRetrieve
  <2> QED
    BY <2>1, <2>2 DEF TypeOK, StartRetrieve, setupVars
<1>2. SetupOK'
  BY DEF SetupOK, StartRetrieve
<1>3. StoredOK'
  BY StoredKept DEF StartRetrieve
<1>4. BatchOK'
  <2>1. \A b \in Buckets : FreeB'[b] = 0 /\ Count(bucket', word', b, 0) = 0
    BY CountZero DEF StartRetrieve, NoFreeB
  <2>2. /\ phase' = "query" /\ pos' = 0 /\ keys' = <<>> /\ batch' = <<>>
        /\ Len(keys') = 0 /\ Len(batch') = 0 /\ 0 = N_threads * 0
    BY BatchAssumption DEF StartRetrieve
  <2> QED
    BY <2>1, <2>2, BatchAssumption DEF BatchOK
<1>5. WalkOK'
  <2>1. rowlen'[word'] \in Nat
    BY <1>1, JidxAssumption DEF TypeOK
  <2> QED
    BY <2>1 DEF WalkOK, StartRetrieve
<1> QED
  BY <1>1, <1>2, <1>3, <1>4, <1>5

(* The last batch of a row ends inside the hash buffer. *)
LEMMA BatchInBuffer ==
  ASSUME NEW q \in Nat, NEW l \in Nat, N_threads * q < N_max_ids, l < N_threads
  PROVE  N_threads * q + l < N_max_id_words
<1> DEFINE c == (N_max_ids + N_threads - 1) \div N_threads
<1>1. N_threads \in Nat \ {0} /\ N_max_ids \in Nat
  BY BatchAssumption, JidxAssumption
<1>2. c \in Int /\ N_threads * c + N_threads > N_max_ids + N_threads - 1
  BY <1>1
<1> HIDE DEF c
<1>3. q < c
  <2> SUFFICES ASSUME c <= q PROVE FALSE
    BY <1>2
  <2>1. N_threads * c <= N_threads * q
    BY <1>1, <1>2
  <2>2. N_threads * c \in Int /\ N_threads * q \in Int
    BY <1>1, <1>2
  <2> QED
    BY <1>1, <1>2, <2>1, <2>2
<1>4. N_threads * (q + 1) <= N_threads * c
  BY <1>1, <1>2, <1>3
<1>5. N_threads * (q + 1) = N_threads * q + N_threads /\ N_threads * q \in Int /\ N_threads * c \in Int
  BY <1>1, <1>2
<1> QED
  BY <1>1, <1>4, <1>5 DEF N_max_id_words, c

(* A key of the batch is derived. *)
LEMMA DeriveKeyInv == TSetInv /\ DeriveKey => TSetInv'
<1> SUFFICES ASSUME TSetInv, DeriveKey PROVE TSetInv'
  OBVIOUS
<1> USE DEF TSetInv
<1> DEFINE i == pos + Len(keys)
<1>1. /\ phase = "query" /\ batch = <<>> /\ Len(batch) = 0 /\ Len(keys) < N_threads
      /\ pos \in Nat /\ Len(keys) \in Nat /\ i \in Nat /\ word \in Keywords
      /\ bucket \in [Digests -> Buckets] /\ FreeB \in [Buckets -> Nat]
      /\ keys \in Seq(Buckets \X Nat \X Digests)
      /\ \A b \in Buckets : FreeB[b] = Count(bucket, word, b, i)
      /\ \A n \in 1 .. Len(keys) : keys[n] = KeyOf(bucket, word, pos + n - 1)
      /\ UNCHANGED <<bucket, db, setupVars, word, pos, batch, tset_row>>
  BY DEF TypeOK, BatchOK, DeriveKey
<1>2. PICK q \in Nat : pos = N_threads * q
  BY <1>1 DEF BatchOK
<1>3. CASE i >= N_max_id_words
  <2>1. phase' = "overrun" /\ UNCHANGED <<FreeB, keys>>
    BY <1>3 DEF DeriveKey
  <2>2. ~(complete /\ rowlen[word] > 0)
    <3> SUFFICES ASSUME complete, rowlen[word] > 0 PROVE FALSE
      OBVIOUS
    <3>1. pos < N_max_ids
      <4>1. pos < rowlen[word] /\ rowlen[word] \in 0 .. N_max_ids
        BY <1>1 DEF WalkOK, TypeOK
      <4> QED
        BY <1>1, <4>1, JidxAssumption
    <3>2. N_threads * q + Len(keys) < N_max_id_words
      BY <1>1, <1>2, <3>1, BatchInBuffer
    <3>3. N_max_id_words \in Int
      BY BatchAssumption, JidxAssumption DEF N_max_id_words
    <3> QED
      BY <1>1, <1>2, <1>3, <3>2, <3>3
  <2>3. TypeOK'
    BY <1>1, <2>1 DEF TypeOK, Phases, setupVars
  <2>4. SetupOK' /\ BatchOK'
    BY <2>1 DEF SetupOK, BatchOK
  <2>5. StoredOK'
    BY <1>1, <2>1, StoredKept
  <2>6. WalkOK'
    BY <1>1, <2>1, <2>2 DEF WalkOK, setupVars
  <2> QED
    BY <2>3, <2>4, <2>5, <2>6
<1>4. CASE ~(i >= N_max_id_words)
  <2> DEFINE key == Key(word, i, FreeB)
  <2>1. keys' = Append(keys, key) /\ FreeB' = Bump(word, i, FreeB) /\ phase' = "query"
    BY <1>1, <1>4 DEF DeriveKey
  <2>2. At(bucket, word, i) \in Buckets /\ Digest(word, i) \in Digests
    BY <1>1, AtType
  <2>3. key = KeyOf(bucket, word, i)
    BY <1>1, <2>2 DEF Key, KeyOf, BucketAt, At, Digest
  <2>4. key \in Buckets \X Nat \X Digests
    <3>1. Count(bucket, word, At(bucket, word, i), i) % JidxMod \in Nat
      <4>1. Count(bucket, word, At(bucket, word, i), i) \in Nat
        BY <1>1, BeforeFinite
      <4> QED
        BY <4>1, JidxAssumption
    <3> QED
      BY <2>2, <2>3, <3>1 DEF KeyOf
  <2>5. FreeB' \in [Buckets -> Nat]
    BY <1>1, <2>1, BumpType
  <2> HIDE DEF key
  <2>6. /\ keys' \in Seq(Buckets \X Nat \X Digests) /\ Len(keys') = Len(keys) + 1
        /\ \A n \in 1 .. Len(keys') : keys'[n] = IF n = Len(keys) + 1 THEN key ELSE keys[n]
    BY <1>1, <2>1, <2>4
  <2>7. TypeOK'
    BY <1>1, <2>1, <2>5, <2>6 DEF TypeOK, Phases, setupVars
  <2>8. SetupOK' /\ WalkOK'
    BY <1>1, <2>1 DEF SetupOK, WalkOK, setupVars
  <2>9. StoredOK'
    BY <1>1, <2>1, StoredKept
  <2>10. BatchOK'
    <3>1. ASSUME NEW b \in Buckets PROVE FreeB'[b] = Count(bucket, word, b, i + 1)
      <4>1. FreeB'[b] = IF At(bucket, word, i) = b THEN FreeB[b] + 1 ELSE FreeB[b]
        BY <1>1, <2>1, BumpType
      <4>2. Count(bucket, word, b, i + 1) =
              IF At(bucket, word, i) = b THEN Count(bucket, word, b, i) + 1 ELSE Count(bucket, word, b, i)
        BY <1>1, CountStep
      <4>3. FreeB[b] = Count(bucket, word, b, i)
        BY <1>1
      <4> HIDE DEF i
      <4> QED
        BY <4>1, <4>2, <4>3
    <3>2. ASSUME NEW n \in 1 .. Len(keys') PROVE keys'[n] = KeyOf(bucket, word, pos + n - 1)
      <4>1. CASE n = Len(keys) + 1
        <5>1. pos + n - 1 = i
          BY <1>1, <4>1
        <5> QED
          BY <2>3, <2>6, <4>1, <5>1
      <4>2. CASE n # Len(keys) + 1
        <5>1. n \in 1 .. Len(keys)
          BY <1>1, <2>6, <4>2
        <5>2. keys'[n] = keys[n]
          BY <2>6, <4>2
        <5> QED
          BY <1>1, <5>1, <5>2
      <4> QED
        BY <4>1, <4>2
    <3>3. pos + Len(keys') = i + 1 /\ Len(keys') <= N_threads
      BY <1>1, <2>6, BatchAssumption
    <3>4. pos + Len(batch') = N_threads * q
      BY <1>1, <1>2
    <3> HIDE DEF i
    <3> QED
      BY <1>1, <2>1, <3>1, <3>2, <3>3, <3>4 DEF BatchOK
  <2> QED
    BY <2>7, <2>8, <2>9, <2>10
<1> QED
  BY <1>3, <1>4

(* While the database is complete its rows are in redis. *)
LEMMA RowStored ==
  ASSUME TypeOK, StoredOK, complete, NEW i \in Nat, i < rowlen[word]
  PROVE  /\ KeyOf(bucket, word, i) \in DOMAIN db
         /\ db[KeyOf(bucket, word, i)] = EntryOf(ver, rowlen[word], word, i)
         /\ EntryOf(ver, rowlen[word], word, i) \in Values
         /\ EntryOf(ver, rowlen[word], word, i) # Absent
<1>1. i \in 0 .. Stored(word) - 1 /\ word \in Keywords
  BY JidxAssumption DEF TypeOK, Stored
<1>2. /\ KeyOf(bucket, word, i) \in DOMAIN db
      /\ db[KeyOf(bucket, word, i)] = EntryOf(ver, rowlen[word], word, i)
  BY <1>1 DEF StoredOK
<1>3. EntryOf(ver, rowlen[word], word, i) \in Values
  BY <1>2 DEF TypeOK
<1> QED
  BY <1>2, <1>3, AbsentAssumption

(* redis answers a batch. *)
LEMMA QueryBatchInv == TSetInv /\ QueryBatch => TSetInv'
<1> SUFFICES ASSUME TSetInv, QueryBatch PROVE TSetInv'
  OBVIOUS
<1> USE DEF TSetInv
<1>1. /\ phase = "query" /\ batch = <<>> /\ Len(batch) = 0 /\ Len(keys) = N_threads
      /\ pos \in Nat /\ N_threads \in Nat \ {0} /\ phase' \in {"scan", "crashed"} /\ keys' = <<>>
      /\ batch' = [n \in 1 .. N_threads |-> Answer(keys[n])]
      /\ \A b \in Buckets : FreeB[b] = Count(bucket, word, b, pos + Len(keys))
      /\ \A n \in 1 .. N_threads : keys[n] = KeyOf(bucket, word, pos + n - 1)
      /\ UNCHANGED <<bucket, db, setupVars, word, FreeB, pos, tset_row>>
  BY BatchAssumption DEF TypeOK, BatchOK, QueryBatch
<1>2. PICK q \in Nat : pos = N_threads * q
  BY <1>1 DEF BatchOK
<1>3. /\ batch' \in Seq(Values \cup {Absent}) /\ Len(batch') = N_threads /\ batch' # <<>>
      /\ \A n \in 1 .. N_threads : batch'[n] = Answer(keys[n])
  <2>1. \A k : Answer(k) \in Values \cup {Absent}
    BY DEF TypeOK, Answer
  <2> QED
    BY <1>1, <2>1
<1>4. TypeOK'
  <2>1. phase' \in Phases
    BY <1>1 DEF Phases
  <2>2. keys' \in Seq(Buckets \X Nat \X Digests)
    BY <1>1
  <2> QED
    BY <1>1, <1>3, <2>1, <2>2 DEF TypeOK, setupVars
<1>5. SetupOK'
  BY <1>1 DEF SetupOK
<1>6. StoredOK'
  BY <1>1, StoredKept
<1>7. BatchOK'
  <2>1. pos + N_threads = N_threads * (q + 1) /\ q + 1 \in Nat
    BY <1>1, <1>2
  <2> QED
    BY <1>1, <1>3, <2>1 DEF BatchOK
<1>8. WalkOK'
  <2> SUFFICES ASSUME complete, rowlen[word] > 0, NEW n \in 1 .. N_threads, pos + n - 1 < rowlen[word]
               PROVE  batch'[n] = EntryOf(ver, rowlen[word], word, pos + n - 1)
    BY <1>1, <1>3 DEF WalkOK, setupVars
  <2>1. pos + n - 1 \in Nat
    BY <1>1
  <2> QED
    BY <1>1, <1>3, <2>1, RowStored DEF Answer
<1> QED
  BY <1>4, <1>5, <1>6, <1>7, <1>8

(* An entry is unmasked; the row's last one ends the walk. *)
LEMMA ScanEntryInv == TSetInv /\ ScanEntry => TSetInv'
<1> SUFFICES ASSUME TSetInv, ScanEntry PROVE TSetInv'
  OBVIOUS
<1> USE DEF TSetInv
<1>1. PICK entry \in Decodings(Head(batch)) :
        /\ tset_row' = Append(tset_row, entry.id)
        /\ batch' = Tail(batch)
        /\ pos' = pos + 1
        /\ phase' = IF entry.last THEN "done" ELSE IF batch' = <<>> THEN "query" ELSE "scan"
  BY DEF ScanEntry
<1>2. /\ phase = "scan" /\ keys = <<>> /\ batch # <<>> /\ batch \in Seq(Values \cup {Absent})
      /\ pos \in Nat /\ tset_row \in Seq(Ids)
      /\ \A b \in Buckets : FreeB[b] = Count(bucket, word, b, pos + Len(batch))
      /\ UNCHANGED <<bucket, db, setupVars, word, FreeB, keys>>
  BY DEF TypeOK, BatchOK, ScanEntry
<1>3. /\ Len(batch) \in Nat /\ Len(batch) >= 1 /\ Head(batch) = batch[1] /\ batch[1] \in Values \cup {Absent}
      /\ batch' \in Seq(Values \cup {Absent}) /\ Len(batch') = Len(batch) - 1
      /\ \A n \in 1 .. Len(batch') : batch'[n] = batch[n + 1]
      /\ batch' = <<>> <=> Len(batch) = 1
  <2> HIDE DEF TSetInv
  <2>1. batch' = Tail(batch) /\ batch \in Seq(Values \cup {Absent}) /\ batch # <<>>
    BY <1>1, <1>2
  <2> QED
    BY ONLY <2>1, TailFacts
<1>4. entry.id \in Ids /\ entry.last \in BOOLEAN
  <2>1. CASE batch[1] # Absent /\ batch[1].mask = Digest(word, pos)
    <3>1. entry = batch[1].entry /\ batch[1] \in Values
      BY <1>3, <2>1 DEF Decodings
    <3> QED
      BY <3>1 DEF Values, Entries
  <2>2. CASE ~(batch[1] # Absent /\ batch[1].mask = Digest(word, pos))
    <3>1. entry \in [last : BOOLEAN, id : {Garbage}]
      BY <1>3, <2>2 DEF Decodings
    <3> QED
      BY <3>1 DEF Ids
  <2> QED
    BY <2>1, <2>2
<1>5. /\ tset_row' \in Seq(Ids) /\ Len(tset_row') = Len(tset_row) + 1 /\ Len(tset_row) \in Nat
      /\ tset_row'[Len(tset_row) + 1] = entry.id
      /\ \A k \in 1 .. Len(tset_row) : tset_row'[k] = tset_row[k]
  BY <1>1, <1>2, <1>4, AppendFacts
<1>6. TypeOK'
  BY <1>1, <1>2, <1>3, <1>5 DEF TypeOK, Phases, setupVars
<1>7. SetupOK'
  BY <1>1 DEF SetupOK
<1>8. StoredOK'
  BY <1>1, <1>2, StoredKept
<1>9. BatchOK'
  <2>1. pos' + Len(batch') = pos + Len(batch)
    BY <1>1, <1>2, <1>3
  <2>2. PICK q \in Nat : pos + Len(batch) = N_threads * q
    BY <1>2 DEF BatchOK
  <2>3. phase' = "query" => batch' = <<>> /\ Len(batch') = 0 /\ Len(keys') = 0
    BY <1>1, <1>2, <1>3, <1>4
  <2>4. phase' = "scan" => batch' # <<>> /\ keys' = <<>>
    BY <1>1, <1>2, <1>4
  <2>5. phase' = "query" => /\ \A b \in Buckets : FreeB'[b] = Count(bucket', word', b, pos' + Len(keys'))
                            /\ \A n \in 1 .. Len(keys') : keys'[n] = KeyOf(bucket', word', pos' + n - 1)
    <3>1. ASSUME phase' = "query" PROVE pos' + Len(keys') = pos + Len(batch)
      BY <1>1, <1>2, <2>1, <2>3, <3>1
    <3> QED
      BY <1>2, <2>3, <3>1
  <2>6. phase' = "scan" => \A b \in Buckets : FreeB'[b] = Count(bucket', word', b, pos' + Len(batch'))
    BY <1>2, <2>1
  <2>7. phase' = "query" => Len(keys') <= N_threads
    BY <2>3, BatchAssumption
  <2>8. pos' + Len(batch') = N_threads * q
    BY <2>1, <2>2
  <2> QED
    BY <2>3, <2>4, <2>5, <2>6, <2>7, <2>8 DEF BatchOK
<1>10. WalkOK'
  <2> SUFFICES ASSUME complete, rowlen[word] > 0
               PROVE  /\ phase' # "overrun"
                      /\ phase' \in {"query", "scan"} =>
                           /\ pos' < rowlen[word] /\ Len(tset_row') = pos'
                           /\ \A k \in 1 .. pos' : tset_row'[k] = <<ver, word, k - 1>>
                      /\ phase' = "scan" =>
                           \A n \in 1 .. Len(batch') :
                             pos' + n - 1 < rowlen[word] =>
                               batch'[n] = EntryOf(ver, rowlen[word], word, pos' + n - 1)
                      /\ phase' = "done" => tset_row' = [k \in 1 .. rowlen[word] |-> <<ver, word, k - 1>>]
    BY <1>2 DEF WalkOK, setupVars, Row, Id
  <2>1. /\ pos < rowlen[word] /\ Len(tset_row) = pos /\ rowlen[word] \in Nat
        /\ \A k \in 1 .. pos : tset_row[k] = <<ver, word, k - 1>>
        /\ \A n \in 1 .. Len(batch) :
             pos + n - 1 < rowlen[word] => batch[n] = EntryOf(ver, rowlen[word], word, pos + n - 1)
    <3>1. rowlen[word] \in Nat
      BY JidxAssumption DEF TypeOK
    <3>2. WalkOK /\ complete /\ rowlen[word] > 0 /\ phase = "scan"
      BY <1>2
    <3>3. pos < rowlen[word] /\ Len(tset_row) = pos
      BY <3>2 DEF WalkOK
    <3>4. \A k \in 1 .. pos : tset_row[k] = <<ver, word, k - 1>>
      BY <3>2 DEF WalkOK
    <3>5. \A n \in 1 .. Len(batch) :
            pos + n - 1 < rowlen[word] => batch[n] = EntryOf(ver, rowlen[word], word, pos + n - 1)
      BY <3>2 DEF WalkOK
    <3> QED
      BY <3>1, <3>3, <3>4, <3>5
  <2>2. batch[1] = EntryOf(ver, rowlen[word], word, pos) /\ batch[1] # Absent
    <3>1. 1 \in 1 .. Len(batch) /\ pos + 1 - 1 = pos
      BY <1>2, <1>3
    <3>2. batch[1] = EntryOf(ver, rowlen[word], word, pos)
      BY <2>1, <3>1
    <3> QED
      BY <1>2, <2>1, <3>2, RowStored
  <2>3. entry.last = (pos = rowlen[word] - 1) /\ entry.id = <<ver, word, pos>>
    BY <1>3, <2>2 DEF Decodings, EntryOf, Mask
  <2>4. \A k \in 1 .. pos + 1 : tset_row'[k] = <<ver, word, k - 1>>
    <3> SUFFICES ASSUME NEW k \in 1 .. pos + 1 PROVE tset_row'[k] = <<ver, word, k - 1>>
      OBVIOUS
    <3>1. CASE k = pos + 1
      BY <1>2, <1>5, <2>1, <2>3, <3>1
    <3>2. CASE k \in 1 .. pos
      BY <1>5, <2>1, <3>2
    <3> QED
      BY <1>2, <3>1, <3>2
  <2>5. CASE pos = rowlen[word] - 1
    <3>1. phase' = "done" /\ Len(tset_row') = rowlen[word]
      <4>1. entry.last
        BY <2>3, <2>5
      <4>2. Len(tset_row') = pos + 1 /\ pos + 1 = rowlen[word]
        BY <1>2, <1>5, <2>1, <2>5
      <4> QED
        BY <1>1, <4>1, <4>2
    <3>2. tset_row' = [k \in 1 .. rowlen[word] |-> <<ver, word, k - 1>>]
      <4>1. tset_row' \in [1 .. rowlen[word] -> Ids]
        BY <1>5, <3>1
      <4>2. \A k \in 1 .. rowlen[word] : tset_row'[k] = <<ver, word, k - 1>>
        <5>1. pos + 1 = rowlen[word]
          BY <1>2, <2>1, <2>5
        <5> QED
          BY <2>4, <5>1
      <4> QED
        BY <4>1, <4>2
    <3> QED
      BY <3>1, <3>2
  <2>6. CASE pos # rowlen[word] - 1
    <3>1. phase' \in {"query", "scan"} /\ pos' < rowlen[word] /\ Len(tset_row') = pos'
      <4>1. ~entry.last
        BY <2>3, <2>6
      <4>2. phase' \in {"query", "scan"}
        BY <1>1, <4>1
      <4>3. pos' < rowlen[word]
        BY <1>1, <1>2, <2>1, <2>6
      <4>4. Len(tset_row') = pos'
        BY <1>1, <1>5, <2>1
      <4> QED
        BY <4>2, <4>3, <4>4
    <3>2. ASSUME NEW n \in 1 .. Len(batch'), pos' + n - 1 < rowlen[word]
          PROVE  batch'[n] = EntryOf(ver, rowlen[word], word, pos' + n - 1)
      <4>1. n + 1 \in 1 .. Len(batch) /\ pos' + n - 1 = pos + (n + 1) - 1
        BY <1>1, <1>2, <1>3
      <4> QED
        BY <1>3, <2>1, <3>2, <4>1
    <3> QED
      BY <1>1, <2>4, <3>1, <3>2
  <2> QED
    BY <2>5, <2>6
<1> QED
  BY <1>6, <1>7, <1>8, <1>9, <1>10

(* The walk is over. *)
LEMMA EndRetrieveInv == TSetInv /\ EndRetrieve => TSetInv'
<1> SUFFICES ASSUME TSetInv, EndRetrieve PROVE TSetInv'
  OBVIOUS
<1> USE DEF TSetInv
<1>1. TypeOK'
  <2>1. FreeB' \in [Buckets -> Nat] /\ phase' \in Phases
    BY DEF EndRetrieve, NoFreeB, Phases
  <2>2. /\ keys' \in Seq(Buckets \X Nat \X Digests)
        /\ batch' \in Seq(Values \cup {Absent}) /\ tset_row' \in Seq(Ids)
    BY DEF EndRetrieve
  <2> QED
    BY <2>1, <2>2 DEF TypeOK, EndRetrieve, setupVars
<1>2. SetupOK' /\ BatchOK' /\ WalkOK'
  BY DEF SetupOK, BatchOK, WalkOK, EndRetrieve
<1>3. StoredOK'
  BY StoredKept DEF EndRetrieve
<1> QED
  BY <1>1, <1>2, <1>3

-----------------------------------------------------------------------------
(* The invariant holds in every reachable state. *)
LEMMA TSetInvariant == Spec => []TSetInv
<1>1. TSetInv /\ [Next]_vars => TSetInv'
  <2> SUFFICES ASSUME TSetInv, [Next]_vars PROVE TSetInv'
    OBVIOUS
  <2>1. CASE Next
    BY <2>1, StartSetUpInv, StoreEntryInv, NextRowInv, InterruptSetUpInv, StartRetrieveInv,
       DeriveKeyInv, QueryBatchInv, ScanEntryInv, EndRetrieveInv DEF Next
  <2>2. CASE UNCHANGED vars
    BY <2>2 DEF vars, setupVars, TSetInv, TypeOK, SetupOK, StoredOK, Stored, BatchOK, WalkOK, Row, Id
  <2> QED
    BY <2>1, <2>2
<1> QED
  BY <1>1, TSetInitInv, PTL DEF Spec

(* Type correctness of redis and of both loops. *)
THEOREM TypeCorrect == Spec => []TypeOK
<1>1. TSetInv => TypeOK
  BY DEF TSetInv
<1> QED
  BY <1>1, TSetInvariant, PTL

(* Set-up overwrites nothing it has stored, however long the rows and        *)
(* whichever positions share a bucket.                                       *)
THEOREM NothingOverwritten == Spec => []EntriesKept
<1>1. TSetInv => EntriesKept
  <2> SUFFICES ASSUME TSetInv, NEW w \in Keywords, NEW i \in 0 .. Stored(w) - 1
               PROVE  \E k \in DOMAIN db : db[k].entry.id = Id(w, i)
    BY DEF EntriesKept
  <2>1. KeyOf(bucket, w, i) \in DOMAIN db
        /\ db[KeyOf(bucket, w, i)] = EntryOf(ver, rowlen[w], w, i)
    BY DEF TSetInv, StoredOK
  <2>2. EntryOf(ver, rowlen[w], w, i).entry.id = Id(w, i)
    BY DEF EntryOf, Mask, Id
  <2> QED
    BY <2>1, <2>2
<1> QED
  BY <1>1, TSetInvariant, PTL

(* After a complete set-up a retrieval that ends returns the row, for every  *)
(* row length, batch size and assignment of buckets, and whatever older      *)
(* set-ups left behind.                                                      *)
THEOREM RetrievalExact == Spec => []RetrieveExact
<1>1. TSetInv => RetrieveExact
  BY DEF TSetInv, WalkOK, RetrieveExact
<1> QED
  BY <1>1, TSetInvariant, PTL

(* ... and its walk never leaves the hash buffer. *)
THEOREM WalkStaysInBuffer == Spec => []WalkInBuffer
<1>1. TSetInv => WalkInBuffer
  BY DEF TSetInv, WalkOK, WalkInBuffer
<1> QED
  BY <1>1, TSetInvariant, PTL
=============================================================================
