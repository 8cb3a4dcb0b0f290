-------------------------- MODULE CrossTags_proofs --------------------------
(***************************************************************************)
(* What a search answers, for any cipher, group, hash, database and number *)
(* of hash functions that CrossTags' assumptions allow.  Completeness: the *)
(* inductive invariant IInv ties the four computations together: every     *)
(* finished row of eidxdb holds the entries of its ids at their positions  *)
(* (IndexInv), every finished row's tags are in the filter (TagInv), and   *)
(* a search has kept every entry it has passed whose document has the      *)
(* second keyword (MatchInv).  The second part says what else the answer   *)
(* may hold: AnswerIInv.                                                   *)
(***************************************************************************)
EXTENDS CrossTags, TLAPS

RowEntries(k) ==
  [i \in 1 .. Len(widxdb[k].ids) |-> IndexEntry(widxdb[k].kw, widxdb[k].ids[i], i - 1)]

Loops ==
  /\ pc \in {"index", "tags"} => n <= Len(widxdb) + 1
  /\ pc \in {"token", "test", "answered"} => w1 \in Rows /\ w2 \in Rows
  /\ pc \in {"token", "test"} => n <= Len(widxdb[w1].ids) + 1
  /\ pc = "test" => n <= Len(widxdb[w1].ids)

IndexInv ==
  /\ Len(eidxdb) = IF pc = "index" THEN n - 1 ELSE Len(widxdb)
  /\ \A k \in 1 .. Len(eidxdb) : eidxdb[k] = RowEntries(k)

TagInv ==
  /\ pc # "index" =>
       \A k \in Rows : (pc = "tags" => k < n) =>
         \A i \in 1 .. Len(widxdb[k].ids) :
           BloomCells(Xtag(widxdb[k].kw, widxdb[k].ids[i])) \subseteq BF
  /\ pc \notin {"index", "tags"} => serverBF = BF

MatchInv ==
  /\ pc = "test" => XTOKEN = Xtoken(widxdb[w1].kw, widxdb[w2].kw, n - 1)
  /\ pc \in {"token", "test"} =>
       /\ \A i \in 1 .. Len(widxdb[w1].ids) :
            i < n /\ widxdb[w1].ids[i] \in IdsOf(w2) =>
              \E j \in 1 .. Len(ESET) : ESET[j] = RowEntries(w1)[i].e
       /\ \A j \in 1 .. Len(ESET) :
            \E i \in 1 .. Len(widxdb[w1].ids) : ESET[j] = RowEntries(w1)[i].e

IInv == TypeOK /\ Loops /\ IndexInv /\ TagInv /\ MatchInv /\ Complete

-----------------------------------------------------------------------------
(* An element of a sequence over S is in S.                                 *)
LEMMA ElementOfSeq ==
  ASSUME NEW S, NEW s \in Seq(S), NEW i \in 1 .. Len(s)
  PROVE  s[i] \in S
  OBVIOUS

(* Appending an element of S keeps a sequence over S.                       *)
LEMMA AppendToSeq ==
  ASSUME NEW S, NEW s \in Seq(S), NEW e \in S
  PROVE  Append(s, e) \in Seq(S)
  OBVIOUS

(* The number of rows is a natural number.                                  *)
LEMMA DatabaseLength ==
  ASSUME widxdb \in Databases
  PROVE  Len(widxdb) \in Nat
  BY DatabaseAssumption

(* A row of the database, as the code's loops index it. *)
LEMMA AppendOrKeep ==
  ASSUME NEW S, NEW s \in Seq(S), NEW e \in S, NEW t, t = Append(s, e) \/ t = s
  PROVE  /\ Len(s) \in Nat /\ Len(t) \in Nat /\ Len(t) >= Len(s)
         /\ \A j \in 1 .. Len(s) : t[j] = s[j]
         /\ \A j \in 1 .. Len(t) : j \in 1 .. Len(s) \/ t[j] = e
<1>1. CASE t = s
  BY <1>1
<1>2. CASE t = Append(s, e)
  <2>1. Len(s) \in Nat /\ Len(t) = Len(s) + 1
    BY <1>2
  <2>2. (\A j \in 1 .. Len(s) : t[j] = s[j]) /\ t[Len(s) + 1] = e
    BY <1>2, <2>1
  <2> QED
    BY <2>1, <2>2
<1> QED
  BY <1>1, <1>2

(* A row has a keyword and a list of documents.                             *)
LEMMA RowType ==
  ASSUME widxdb \in Databases, NEW k \in Rows
  PROVE  /\ Len(widxdb) \in Nat
         /\ widxdb[k].kw \in Keywords
         /\ widxdb[k].ids \in Seq(Docs)
         /\ Len(widxdb[k].ids) \in Nat
         /\ \A i \in 1 .. Len(widxdb[k].ids) : widxdb[k].ids[i] \in Docs
<1>1. widxdb \in Seq([kw : Keywords, ids : Seq(Docs)])
  BY DatabaseAssumption
<1>2. k \in 1 .. Len(widxdb)
  BY DEF Rows
<1>3. widxdb[k] \in [kw : Keywords, ids : Seq(Docs)]
  BY <1>1, <1>2, ElementOfSeq
<1>4. widxdb[k].kw \in Keywords /\ widxdb[k].ids \in Seq(Docs)
  BY <1>3
<1>5. \A i \in 1 .. Len(widxdb[k].ids) : widxdb[k].ids[i] \in Docs
  BY <1>4, ElementOfSeq
<1> QED
  BY <1>1, <1>4, <1>5

(* Padded values and counted keywords are blocks, and AES of a block is a   *)
(* scalar.                                                                  *)
LEMMA BlockType ==
  /\ \A v \in Keywords \cup Docs : Pad(v) \in Blocks
  /\ \A w \in Keywords, c \in Nat : WithCounter(Pad(w), c) \in Blocks
  /\ \A k \in Scalars, b \in Blocks : PRF(k, b) \in Scalars
<1>1. \A c \in Nat : c % CounterMod \in 0 .. CounterMod - 1
  BY SizesAssumption
<1>2. 0 \in 0 .. CounterMod - 1
  BY SizesAssumption
<1> QED
  BY <1>1, <1>2, CipherAssumption DEF Pad, WithCounter, Blocks, PRF

(* Every part of an index entry and of a token is of its type.              *)
LEMMA EntryType ==
  ASSUME NEW w \in Keywords, NEW id \in Docs, NEW c \in Nat
  PROVE  IndexEntry(w, id, c) \in [y : Scalars, e : Scalars]
<1>1. /\ PRF(KZ, WithCounter(Pad(w), c)) \in Scalars
      /\ AESENC(KS, Pad(w)) \in Scalars
      /\ PRF(KI, Pad(id)) \in Scalars
  BY BlockType, KeysAssumption DEF PRF
<1>2. AESENC(AESENC(KS, Pad(w)), Pad(id)) \in Scalars
  BY <1>1, BlockType, CipherAssumption
<1> QED
  BY <1>1, <1>2, ClosedAssumption DEF IndexEntry

(* A token is a point of the curve.                                         *)
LEMMA TokenType ==
  ASSUME NEW wa \in Keywords, NEW wb \in Keywords, NEW c \in Nat
  PROVE  Xtoken(wa, wb, c) \in Points
<1>1. /\ PRF(KX, Pad(wb)) \in Scalars
      /\ PRF(KZ, WithCounter(Pad(wa), c)) \in Scalars
  BY BlockType, KeysAssumption
<1>2. Mul(PRF(KX, Pad(wb)), PRF(KZ, WithCounter(Pad(wa), c))) \in Scalars
  BY <1>1, ClosedAssumption
<1> QED
  BY <1>2, CurveAssumption DEF Xtoken

(* In the group, the z of the token cancels that of the entry.              *)
LEMMA Cancel ==
  ASSUME NEW x \in Scalars, NEW z \in Scalars, NEW k \in Scalars
  PROVE  Mul(Mul(x, Inv(z)), Mul(k, z)) = Mul(k, x)
<1>1. Inv(z) \in Scalars /\ Mul(k, z) \in Scalars /\ Mul(z, k) \in Scalars
  BY ClosedAssumption
<1>2. Mul(Mul(x, Inv(z)), Mul(k, z)) = Mul(x, Mul(Inv(z), Mul(k, z)))
  BY <1>1, AssociativeAssumption
<1>3. Mul(k, z) = Mul(z, k)
  BY CommutativeAssumption
<1>4. Mul(Inv(z), Mul(z, k)) = Mul(Mul(Inv(z), z), k)
  BY <1>1, AssociativeAssumption
<1>5. Mul(Inv(z), z) = Mul(z, Inv(z))
  BY <1>1, CommutativeAssumption
<1>6. Mul(Mul(z, Inv(z)), k) = k
  BY InverseAssumption
<1>7. Mul(x, k) = Mul(k, x)
  BY CommutativeAssumption
<1> QED
  BY <1>2, <1>3, <1>4, <1>5, <1>6, <1>7

(* OXT's central identity: the entry of (w, id) at position c turns the     *)
(* token for (w, wb) at c into the xtag of (wb, id).                        *)
LEMMA TokenMeetsTag ==
  ASSUME NEW w \in Keywords, NEW wb \in Keywords, NEW id \in Docs, NEW c \in Nat
  PROVE  ScalarMul(IndexEntry(w, id, c).y, Xtoken(w, wb, c)) = Xtag(wb, id)
<1> DEFINE x == PRF(KI, Pad(id))
           z == PRF(KZ, WithCounter(Pad(w), c))
           k == PRF(KX, Pad(wb))
<1>1. x \in Scalars /\ z \in Scalars /\ k \in Scalars
  BY BlockType, KeysAssumption
<1>2. Mul(x, Inv(z)) \in Scalars /\ Mul(k, z) \in Scalars
  BY <1>1, ClosedAssumption
<1>3. IndexEntry(w, id, c).y = Mul(x, Inv(z))
  BY DEF IndexEntry
<1>4. Xtoken(w, wb, c) = ScalarMul(Mul(k, z), Base)
  BY DEF Xtoken
<1>5. Xtag(wb, id) = ScalarMul(Mul(k, x), Base)
  BY DEF Xtag, PRF
<1> HIDE DEF x, z, k
<1>6. ScalarMul(Mul(x, Inv(z)), ScalarMul(Mul(k, z), Base))
        = ScalarMul(Mul(Mul(x, Inv(z)), Mul(k, z)), Base)
  BY <1>2, CurveAssumption
<1>7. Mul(Mul(x, Inv(z)), Mul(k, z)) = Mul(k, x)
  BY <1>1, Cancel
<1> QED
  BY <1>3, <1>4, <1>5, <1>6, <1>7

(* The line of a cell is that of no other cell.                             *)
LEMMA LineOfCell ==
  ASSUME NEW j \in Hashes, NEW b \in Bins
  PROVE  /\ j * MAX_BF_BIN_SIZE + b \in Lines
         /\ (j * MAX_BF_BIN_SIZE + b) \div MAX_BF_BIN_SIZE = j
         /\ (j * MAX_BF_BIN_SIZE + b) % MAX_BF_BIN_SIZE = b
  BY SizesAssumption, SMTT(30) DEF Hashes, Bins, Lines

(* The Bloom filter survives the trip through its file.                     *)
LEMMA FileKeepsFilter ==
  ASSUME NEW bf \in SUBSET (Hashes \X Bins)
  PROVE  ReadBFfromFile(WriteBFtoFile(bf)) = bf
<1> DEFINE cell(l) == <<l \div MAX_BF_BIN_SIZE, l % MAX_BF_BIN_SIZE>>
<1>1. ASSUME NEW p \in bf PROVE p \in ReadBFfromFile(WriteBFtoFile(bf))
  <2>1. PICK j \in Hashes, b \in Bins : p = <<j, b>>
    OBVIOUS
  <2>2. j * MAX_BF_BIN_SIZE + b \in Lines /\ cell(j * MAX_BF_BIN_SIZE + b) = p
    BY <2>1, LineOfCell
  <2> QED
    BY <2>2, <1>1 DEF ReadBFfromFile, WriteBFtoFile
<1>2. ASSUME NEW p \in ReadBFfromFile(WriteBFtoFile(bf)) PROVE p \in bf
  BY <1>2 DEF ReadBFfromFile, WriteBFtoFile
<1> QED
  BY <1>1, <1>2

(* The cells of a point lie inside the filter.                              *)
LEMMA CellsType ==
  ASSUME NEW p \in Points
  PROVE  BloomCells(p) \subseteq Hashes \X Bins
  BY HashAssumption DEF BloomCells

(* An xtag is a point of the curve.                                         *)
LEMMA TagType ==
  ASSUME NEW w \in Keywords, NEW id \in Docs
  PROVE  Xtag(w, id) \in Points
<1>1. AESENC(KX, Pad(w)) \in Scalars /\ PRF(KI, Pad(id)) \in Scalars
  BY BlockType, KeysAssumption DEF PRF
<1>2. Mul(AESENC(KX, Pad(w)), PRF(KI, Pad(id))) \in Scalars
  BY <1>1, ClosedAssumption
<1> QED
  BY <1>2, CurveAssumption DEF Xtag

(* The client's decryption of an entry yields the id it was made from.      *)
LEMMA EntryDecrypts ==
  ASSUME NEW w \in Keywords, NEW id \in Docs, NEW c \in Nat
  PROVE  AESDEC(AESENC(KS, Pad(w)), IndexEntry(w, id, c).e)[1] = id
<1>1. AESENC(KS, Pad(w)) \in Scalars /\ Pad(id) \in Blocks
  BY BlockType, KeysAssumption DEF PRF
<1>2. IndexEntry(w, id, c).e = AESENC(AESENC(KS, Pad(w)), Pad(id))
  BY DEF IndexEntry
<1>3. AESDEC(AESENC(KS, Pad(w)), AESENC(AESENC(KS, Pad(w)), Pad(id))) = Pad(id)
  BY <1>1, CipherAssumption
<1> QED
  BY <1>2, <1>3 DEF Pad

(* The index entries of a row, one for each of its documents.               *)
LEMMA RowEntriesType ==
  ASSUME widxdb \in Databases, NEW k \in Rows
  PROVE  /\ RowEntries(k) \in Seq([y : Scalars, e : Scalars])
         /\ Len(RowEntries(k)) = Len(widxdb[k].ids)
         /\ \A i \in 1 .. Len(widxdb[k].ids) :
              RowEntries(k)[i] = IndexEntry(widxdb[k].kw, widxdb[k].ids[i], i - 1)
<1>1. /\ widxdb[k].kw \in Keywords /\ Len(widxdb[k].ids) \in Nat
      /\ \A i \in 1 .. Len(widxdb[k].ids) : widxdb[k].ids[i] \in Docs
  BY RowType
<1>2. \A i \in 1 .. Len(widxdb[k].ids) :
        IndexEntry(widxdb[k].kw, widxdb[k].ids[i], i - 1) \in [y : Scalars, e : Scalars]
  BY <1>1, EntryType
<1> QED
  BY <1>1, <1>2 DEF RowEntries

-----------------------------------------------------------------------------
(* The invariant holds before set-up, ...                                   *)
LEMMA InitInv == Init => IInv
<1> SUFFICES ASSUME Init PROVE IInv
  OBVIOUS
<1>1. Len(widxdb) \in Nat
  BY DatabaseAssumption DEF Init
<1>2. TypeOK
  BY CurveAssumption DEF Init, TypeOK, NoToken
<1> QED
  BY <1>1, <1>2 DEF Init, IInv, Loops, IndexInv, TagInv, MatchInv, Complete

(* ... the index pass of EDB_SetUp preserves it, ...                        *)
LEMMA IndexRowInv == IInv /\ IndexRow => IInv'
<1> SUFFICES ASSUME IInv, IndexRow PROVE IInv'
  OBVIOUS
<1> USE DEF IndexRow
<1>1. /\ TypeOK /\ n \in Rows /\ Len(eidxdb) = n - 1
      /\ eidxdb' = Append(eidxdb, RowEntries(n))
      /\ Len(widxdb) \in Nat
  <2>1. TypeOK /\ Len(eidxdb) = n - 1
    BY DEF IInv, IndexInv
  <2>2. Len(widxdb) \in Nat
    BY <2>1, DatabaseAssumption DEF TypeOK
  <2> QED
    BY <2>1, <2>2 DEF TypeOK, Rows, RowEntries
<1>2. RowEntries(n) \in Seq([y : Scalars, e : Scalars])
  BY <1>1, RowEntriesType DEF TypeOK
<1>3. TypeOK'
  <2>1. eidxdb' \in Seq(Seq([y : Scalars, e : Scalars]))
    BY <1>1, <1>2, AppendToSeq DEF TypeOK
  <2> QED
    BY <1>1, <2>1 DEF TypeOK
<1>4. Loops'
  BY <1>1 DEF Loops, Rows, TypeOK
<1>5. IndexInv'
  <2>1. \A k \in 1 .. Len(eidxdb) : eidxdb'[k] = RowEntries(k)
    BY <1>1 DEF IInv, IndexInv, TypeOK
  <2>2. eidxdb'[n] = RowEntries(n) /\ Len(eidxdb') = n
    BY <1>1 DEF TypeOK
  <2>3. \A k : RowEntries(k)' = RowEntries(k)
    BY DEF RowEntries
  <2> QED
    BY <1>1, <2>1, <2>2, <2>3 DEF IndexInv, TypeOK
<1> QED
  BY <1>3, <1>4, <1>5 DEF IInv, TagInv, MatchInv, Complete

(* ... and so does the step to the second pass.                             *)
LEMMA IndexDoneInv == IInv /\ IndexDone => IInv'
<1> SUFFICES ASSUME IInv, IndexDone PROVE IInv'
  OBVIOUS
<1> USE DEF IndexDone
<1>1. TypeOK /\ n = Len(widxdb) + 1 /\ Len(widxdb) \in Nat
  <2>1. TypeOK /\ Loops /\ Len(widxdb) \in Nat
    BY DatabaseLength DEF IInv, TypeOK
  <2> QED
    BY <2>1 DEF TypeOK, Loops
<1>2. TypeOK' /\ Loops'
  BY <1>1 DEF TypeOK, Loops
<1>3. IndexInv'
  BY <1>1 DEF IInv, IndexInv, RowEntries
<1>4. TagInv' /\ MatchInv' /\ Complete'
  BY <1>1 DEF TagInv, MatchInv, Complete, Rows
<1> QED
  BY <1>2, <1>3, <1>4 DEF IInv

(* The xtag pass: the row's cells are in the filter from now on.            *)
LEMMA TagRowInv == IInv /\ TagRow => IInv'
<1> SUFFICES ASSUME IInv, TagRow PROVE IInv'
  OBVIOUS
<1> USE DEF TagRow
<1>1. TypeOK /\ n \in Rows /\ Len(widxdb) \in Nat
  BY DatabaseAssumption DEF IInv, TypeOK, Rows
<1>2. \A i \in 1 .. Len(widxdb[n].ids) :
        BloomCells(Xtag(widxdb[n].kw, widxdb[n].ids[i])) \subseteq Hashes \X Bins
  BY <1>1, RowType, TagType, CellsType DEF TypeOK
<1>3. TypeOK'
  BY <1>1, <1>2 DEF TypeOK
<1>4. Loops'
  BY <1>1 DEF Loops, Rows
<1>5. IndexInv'
  BY DEF IInv, IndexInv, RowEntries
<1>6. TagInv'
  <2>1. ASSUME NEW k \in Rows, k < n + 1, NEW i \in 1 .. Len(widxdb[k].ids)
        PROVE  BloomCells(Xtag(widxdb[k].kw, widxdb[k].ids[i])) \subseteq BF'
    <3>1. CASE k = n
      BY <3>1
    <3>2. CASE k # n
      <4>1. k < n
        BY <2>1, <3>2, <1>1 DEF Rows
      <4> QED
        BY <4>1 DEF IInv, TagInv
    <3> QED
      BY <3>1, <3>2
  <2> QED
    BY <2>1 DEF TagInv, Rows, Xtag, BloomCells
<1> QED
  BY <1>3, <1>4, <1>5, <1>6 DEF IInv, MatchInv, Complete

(* The filter arrives whole through the file (FileKeepsFilter).             *)
LEMMA TagsDoneInv == IInv /\ TagsDone => IInv'
<1> SUFFICES ASSUME IInv, TagsDone PROVE IInv'
  OBVIOUS
<1> USE DEF TagsDone
<1>1. TypeOK /\ n = Len(widxdb) + 1 /\ Len(widxdb) \in Nat
  <2>1. TypeOK /\ Loops /\ Len(widxdb) \in Nat
    BY DatabaseLength DEF IInv, TypeOK
  <2> QED
    BY <2>1 DEF TypeOK, Loops
<1>2. serverBF' = BF
  BY <1>1, FileKeepsFilter DEF TypeOK
<1>3. TypeOK' /\ Loops'
  BY <1>1, <1>2 DEF TypeOK, Loops
<1>4. IndexInv'
  BY DEF IInv, IndexInv, RowEntries
<1>5. TagInv'
  <2>1. \A k \in Rows : k < n
    BY <1>1 DEF Rows
  <2> QED
    BY <2>1, <1>2 DEF IInv, TagInv, Rows, Xtag, BloomCells
<1> QED
  BY <1>3, <1>4, <1>5 DEF IInv, MatchInv, Complete

(* A query starts with no matches.                                          *)
LEMMA StartQueryInv == IInv /\ StartQuery => IInv'
<1> SUFFICES ASSUME IInv, StartQuery PROVE IInv'
  OBVIOUS
<1> USE DEF StartQuery
<1>1. TypeOK /\ w1' \in Rows /\ w2' \in Rows /\ Len(widxdb) \in Nat
  BY DatabaseAssumption DEF IInv, TypeOK
<1>2. Len(widxdb[w1'].ids) \in Nat
  BY <1>1, RowType DEF TypeOK
<1>3. TypeOK'
  BY <1>1, CurveAssumption DEF TypeOK, NoToken, Rows
<1>4. Loops'
  BY <1>1, <1>2 DEF Loops, Rows
<1>5. IndexInv'
  BY DEF IInv, IndexInv, RowEntries
<1>6. TagInv'
  BY DEF IInv, TagInv, Rows, Xtag, BloomCells
<1>7. MatchInv'
  BY <1>1, <1>2 DEF MatchInv
<1> QED
  BY <1>3, <1>4, <1>5, <1>6, <1>7 DEF IInv, Complete

(* The token sent is that of the position the loop is at.                   *)
LEMMA SendTokenInv == IInv /\ SendToken => IInv'
<1> SUFFICES ASSUME IInv, SendToken PROVE IInv'
  OBVIOUS
<1> USE DEF SendToken
<1>1. /\ TypeOK /\ w1 \in Rows /\ w2 \in Rows /\ n \in Nat \ {0}
      /\ Len(widxdb) \in Nat
  BY DatabaseLength DEF IInv, TypeOK, Loops
<1>2. Len(eidxdb[w1]) = Len(widxdb[w1].ids) /\ Len(widxdb[w1].ids) \in Nat
  <2>1. eidxdb[w1] = RowEntries(w1)
    BY <1>1 DEF IInv, IndexInv, Rows
  <2> QED
    BY <1>1, <2>1, RowEntriesType, RowType DEF TypeOK
<1>3. widxdb[w1].kw \in Keywords /\ widxdb[w2].kw \in Keywords /\ n - 1 \in Nat
  BY <1>1, RowType DEF TypeOK
<1>4. TypeOK'
  <2>1. XTOKEN' \in Points
    BY <1>1, <1>3, TokenType
  <2> QED
    BY <1>1, <2>1 DEF TypeOK
<1>5. Loops'
  BY <1>1, <1>2 DEF Loops, Rows
<1>6. IndexInv'
  BY DEF IInv, IndexInv, RowEntries
<1>6a. TagInv'
  BY DEF IInv, TagInv, Rows, Xtag, BloomCells
<1>7. MatchInv'
  <2>1. RowEntries(w1)' = RowEntries(w1) /\ IdsOf(w2)' = IdsOf(w2)
    BY DEF RowEntries, IdsOf
  <2>2. Xtoken(widxdb[w1].kw, widxdb[w2].kw, n - 1)' = Xtoken(widxdb[w1].kw, widxdb[w2].kw, n - 1)
    BY DEF Xtoken
  <2> QED
    BY <2>1, <2>2 DEF IInv, MatchInv
<1> QED
  BY <1>4, <1>5, <1>6, <1>6a, <1>7 DEF IInv, Complete

(* The server's test: an entry with both keywords matches (TokenMeetsTag).  *)
LEMMA TestTokenInv == IInv /\ TestToken => IInv'
<1> SUFFICES ASSUME IInv, TestToken PROVE IInv'
  OBVIOUS
<1> DEFINE ids   == widxdb[w1].ids
           entry == RowEntries(w1)[n]
<1>a. /\ TypeOK /\ widxdb \in Databases /\ n \in Nat \ {0}
      /\ w1 \in Rows /\ w2 \in Rows
  BY DEF IInv, TypeOK, Loops, TestToken
<1>b. /\ Len(widxdb) \in Nat /\ Len(ids) \in Nat
      /\ widxdb[w1].kw \in Keywords /\ widxdb[w2].kw \in Keywords
      /\ \A i \in 1 .. Len(ids) : ids[i] \in Docs
  BY <1>a, RowType
<1> USE DEF TestToken
<1>1. /\ TypeOK /\ w1 \in Rows /\ w2 \in Rows
      /\ Len(widxdb) \in Nat /\ Len(ids) \in Nat /\ n \in 1 .. Len(ids)
      /\ ids[n] \in Docs /\ n - 1 \in Nat
  <2>1. n <= Len(ids)
    BY DEF IInv, Loops
  <2> QED
    BY <1>a, <1>b, <2>1
<1>2. eidxdb[w1] = RowEntries(w1)
  BY <1>1 DEF IInv, IndexInv, Rows
<1>3. entry = IndexEntry(widxdb[w1].kw, ids[n], n - 1) /\ entry \in [y : Scalars, e : Scalars]
  <2>1. entry = IndexEntry(widxdb[w1].kw, ids[n], n - 1)
    BY <1>a, <1>1, RowEntriesType
  <2> QED
    BY <1>1, <1>b, <2>1, EntryType
<1>4. \/ ESET' = Append(ESET, entry.e)
      \/ ESET' = ESET /\ ~(BloomCells(ScalarMul(entry.y, XTOKEN)) \subseteq serverBF)
  BY <1>2
<1>5. ids[n] \in IdsOf(w2) => ESET' = Append(ESET, entry.e)
  <2> SUFFICES ASSUME ids[n] \in IdsOf(w2)
               PROVE  BloomCells(ScalarMul(entry.y, XTOKEN)) \subseteq serverBF
    BY <1>4
  <2>1. PICK i \in 1 .. Len(widxdb[w2].ids) : widxdb[w2].ids[i] = ids[n]
    BY DEF IdsOf
  <2>2. BloomCells(Xtag(widxdb[w2].kw, ids[n])) \subseteq serverBF
    BY <1>1, <2>1 DEF IInv, TagInv
  <2>3. ScalarMul(entry.y, XTOKEN) = Xtag(widxdb[w2].kw, ids[n])
    <3>1. XTOKEN = Xtoken(widxdb[w1].kw, widxdb[w2].kw, n - 1)
      BY DEF IInv, MatchInv
    <3> QED
      BY <1>1, <1>b, <1>3, <3>1, TokenMeetsTag
  <2> QED
    BY <2>2, <2>3
<1>6. TypeOK'
  <2>1. entry.e \in Scalars /\ ESET \in Seq(Scalars)
    BY <1>1, <1>3 DEF TypeOK
  <2>2. ESET' \in Seq(Scalars)
    BY <2>1, <1>4, AppendToSeq
  <2> QED
    BY <1>1, <2>2 DEF TypeOK
<1>7. Loops'
  BY <1>1 DEF Loops, Rows
<1>8. IndexInv' /\ TagInv'
  BY DEF IInv, IndexInv, RowEntries, TagInv, Rows, Xtag, BloomCells
<1>9. MatchInv'
  <2>1. RowEntries(w1)' = RowEntries(w1) /\ IdsOf(w2)' = IdsOf(w2)
    BY DEF RowEntries, IdsOf
  <2>2. /\ Len(ESET) \in Nat /\ Len(ESET') \in Nat /\ Len(ESET') >= Len(ESET)
        /\ \A j \in 1 .. Len(ESET) : ESET'[j] = ESET[j]
        /\ \A j \in 1 .. Len(ESET') : j \in 1 .. Len(ESET) \/ ESET'[j] = entry.e
    <3>1. ESET \in Seq(Scalars) /\ entry.e \in Scalars
      BY <1>1, <1>3 DEF TypeOK
    <3>2. ESET' = Append(ESET, entry.e) \/ ESET' = ESET
      BY <1>4
    <3> HIDE DEF TestToken, entry
    <3> QED
      BY <3>1, <3>2, AppendOrKeep
  <2>3. ASSUME NEW i \in 1 .. Len(ids), i < n + 1, ids[i] \in IdsOf(w2)
        PROVE  \E j \in 1 .. Len(ESET') : ESET'[j] = RowEntries(w1)[i].e
    <3>1. CASE i = n
      <4>1. ESET' = Append(ESET, entry.e)
        BY <2>3, <3>1, <1>5
      <4>a. ESET \in Seq(Scalars) /\ entry.e \in Scalars
        BY <1>1, <1>3 DEF TypeOK
      <4>2. Len(ESET') \in 1 .. Len(ESET') /\ ESET'[Len(ESET')] = entry.e
        <5> HIDE DEF TestToken, entry
        <5> QED
          BY <4>1, <4>a
      <4> QED
        BY <3>1, <4>2
    <3>2. CASE i # n
      <4>1. i < n
        BY <2>3, <3>2, <1>1
      <4>2. PICK j \in 1 .. Len(ESET) : ESET[j] = RowEntries(w1)[i].e
        BY <4>1, <2>3 DEF IInv, MatchInv
      <4> QED
        BY <4>2, <2>2
    <3> QED
      BY <3>1, <3>2
  <2>4. ASSUME NEW j \in 1 .. Len(ESET')
        PROVE  \E i \in 1 .. Len(ids) : ESET'[j] = RowEntries(w1)[i].e
    <3>1. CASE j \in 1 .. Len(ESET)
      <4>1. PICK i \in 1 .. Len(ids) : ESET[j] = RowEntries(w1)[i].e
        BY <3>1 DEF IInv, MatchInv
      <4> QED
        BY <4>1, <3>1, <2>2
    <3>2. CASE ESET'[j] = entry.e
      BY <3>2, <1>1
    <3> QED
      BY <3>1, <3>2, <2>2
  <2> QED
    BY <2>1, <2>3, <2>4 DEF MatchInv
<1> QED
  BY <1>6, <1>7, <1>8, <1>9 DEF IInv, Complete

(* Decrypting the matches reports every document with both keywords.        *)
LEMMA AnswerInv == IInv /\ Answer => IInv'
<1> SUFFICES ASSUME IInv, Answer PROVE IInv'
  OBVIOUS
<1> USE DEF Answer
<1> DEFINE ids == widxdb[w1].ids
           ke  == AESENC(KS, Pad(widxdb[w1].kw))
<1>1. /\ TypeOK /\ w1 \in Rows /\ w2 \in Rows
      /\ Len(widxdb) \in Nat /\ Len(ids) \in Nat /\ Len(ESET) \in Nat
  BY DatabaseLength, RowType DEF IInv, TypeOK, Loops
<1>2. n > Len(ids)
  <2>1. eidxdb[w1] = RowEntries(w1)
    BY <1>1 DEF IInv, IndexInv, Rows
  <2> QED
    BY <2>1, <1>1, RowEntriesType DEF TypeOK
<1>3. \A i \in 1 .. Len(ids) : ids[i] \in Docs /\ AESDEC(ke, RowEntries(w1)[i].e)[1] = ids[i]
  <2>1. \A i \in 1 .. Len(ids) :
          ids[i] \in Docs /\ RowEntries(w1)[i] = IndexEntry(widxdb[w1].kw, ids[i], i - 1)
    BY <1>1, RowType, RowEntriesType DEF TypeOK
  <2>2. widxdb[w1].kw \in Keywords /\ \A i \in 1 .. Len(ids) : i - 1 \in Nat
    BY <1>1, RowType DEF TypeOK
  <2> QED
    BY <2>1, <2>2, EntryDecrypts
<1>4. Len(UIDX') = Len(ESET) /\ \A j \in 1 .. Len(ESET) : UIDX'[j] = AESDEC(ke, ESET[j])[1]
  BY <1>1
<1>5. TypeOK'
  <2>1. ASSUME NEW j \in 1 .. Len(ESET) PROVE AESDEC(ke, ESET[j])[1] \in Docs
    <3>1. PICK i \in 1 .. Len(ids) : ESET[j] = RowEntries(w1)[i].e
      BY DEF IInv, MatchInv
    <3> QED
      BY <3>1, <1>3
  <2>2. UIDX' \in Seq(Docs)
    BY <2>1, <1>1
  <2> QED
    BY <1>1, <2>2 DEF TypeOK
<1>6. Loops'
  BY <1>1 DEF Loops, Rows
<1>7. IndexInv' /\ TagInv'
  BY DEF IInv, IndexInv, RowEntries, TagInv, Rows, Xtag, BloomCells
<1>8. Complete'
  <2>1. IdsOf(w1)' = IdsOf(w1) /\ IdsOf(w2)' = IdsOf(w2)
    BY DEF IdsOf
  <2>2. ASSUME NEW id \in IdsOf(w1) \cap IdsOf(w2)
        PROVE  \E j \in 1 .. Len(UIDX') : UIDX'[j] = id
    <3>1. PICK i \in 1 .. Len(ids) : ids[i] = id
      BY DEF IdsOf
    <3>2. i < n
      BY <1>1, <1>2 DEF TypeOK
    <3>3. PICK j \in 1 .. Len(ESET) : ESET[j] = RowEntries(w1)[i].e
      BY <3>1, <3>2 DEF IInv, MatchInv
    <3> QED
      BY <3>1, <3>3, <1>3, <1>4
  <2> QED
    BY <2>1, <2>2 DEF Complete
<1> QED
  BY <1>5, <1>6, <1>7, <1>8 DEF IInv, MatchInv

(* A step that changes nothing preserves the invariant.                     *)
LEMMA StutterInv == IInv /\ UNCHANGED vars => IInv'
<1> SUFFICES ASSUME IInv, UNCHANGED vars PROVE IInv'
  OBVIOUS
<1> USE DEF vars
<1>1. TypeOK' /\ Loops'
  BY DEF IInv, TypeOK, Loops, Rows
<1>2. IndexInv' /\ TagInv'
  BY DEF IInv, IndexInv, RowEntries, TagInv, Rows, Xtag, BloomCells
<1>3. /\ RowEntries(w1)' = RowEntries(w1) /\ IdsOf(w1)' = IdsOf(w1) /\ IdsOf(w2)' = IdsOf(w2)
      /\ Xtoken(widxdb[w1].kw, widxdb[w2].kw, n - 1)' = Xtoken(widxdb[w1].kw, widxdb[w2].kw, n - 1)
  BY DEF RowEntries, IdsOf, Xtoken
<1>4. MatchInv'
  BY <1>3 DEF IInv, MatchInv
<1>5. Complete'
  BY <1>3 DEF IInv, Complete
<1> QED
  BY <1>1, <1>2, <1>4, <1>5 DEF IInv

-----------------------------------------------------------------------------
(* The invariant holds in every reachable state.                            *)
LEMMA Invariance == Spec => []IInv
<1>1. IInv /\ [Next]_vars => IInv'
  BY IndexRowInv, IndexDoneInv, TagRowInv, TagsDoneInv, StartQueryInv, SendTokenInv,
     TestTokenInv, AnswerInv, StutterInv DEF Next
<1> QED
  BY <1>1, InitInv, PTL DEF Spec

(* Every buffer and the filter hold values of their kind; in particular     *)
(* every match decrypts to a document and no cell lies outside the arrays.  *)
THEOREM TypeCorrect == Spec => []TypeOK
  BY Invariance, PTL DEF IInv

(* A search reports every document that has both keywords, whatever cipher, *)
(* hash function and filter size: EDB_SetUp and EDB_Search agree.           *)
THEOREM SearchComplete == Spec => []Complete
  BY Invariance, PTL DEF IInv

-----------------------------------------------------------------------------
(* What the answer consists of.  The filter holds nothing but cells of tags *)
(* (FilterInv), the matches are the row's positions that pass the test,     *)
(* each once and in order (OrderInv), and so is the answer (ReportInv).     *)
Passes(id) == BloomCells(Xtag(widxdb[w2].kw, id)) \subseteq serverBF

FilterInv ==
  \A cell \in BF : \E k \in Rows : \E i \in 1 .. Len(widxdb[k].ids) :
    cell \in BloomCells(Xtag(widxdb[k].kw, widxdb[k].ids[i]))

Increasing(at, m) == \A i, j \in 1 .. m : i < j => at[i] < at[j]

Kept(at) ==
  /\ Increasing(at, Len(ESET))
  /\ \A j \in 1 .. Len(ESET) : ESET[j] = RowEntries(w1)[at[j]].e
  /\ \A i \in 1 .. n - 1 : Passes(widxdb[w1].ids[i]) <=> \E j \in 1 .. Len(ESET) : at[j] = i

OrderInv ==
  pc \in {"token", "test"} => \E at \in [1 .. Len(ESET) -> 1 .. n - 1] : Kept(at)

ReportInv ==
  /\ AnswerInRowOrder
  /\ pc = "answered" => \A i \in 1 .. Len(UIDX) : Passes(UIDX[i])

AnswerIInv == IInv /\ FilterInv /\ OrderInv /\ ReportInv

(* The test of an entry asks whether its document's tag is in the filter,   *)
(* whatever the position: the z of the token cancels that of the entry.     *)
LEMMA TestAsksForTag ==
  ASSUME IInv, pc = "test"
  PROVE  BloomCells(ScalarMul(eidxdb[w1][n].y, XTOKEN)) \subseteq serverBF
           <=> Passes(widxdb[w1].ids[n])
<1>1. /\ widxdb \in Databases /\ w1 \in Rows /\ w2 \in Rows /\ n \in Nat \ {0}
      /\ n <= Len(widxdb[w1].ids)
  BY DEF IInv, TypeOK, Loops
<1>2. /\ Len(widxdb) \in Nat /\ Len(widxdb[w1].ids) \in Nat
      /\ widxdb[w1].kw \in Keywords /\ widxdb[w2].kw \in Keywords
      /\ \A i \in 1 .. Len(widxdb[w1].ids) : widxdb[w1].ids[i] \in Docs
  BY <1>1, RowType
<1>3. n \in 1 .. Len(widxdb[w1].ids) /\ n - 1 \in Nat
  BY <1>1, <1>2
<1>4. eidxdb[w1] = RowEntries(w1)
  BY <1>1, <1>2 DEF IInv, IndexInv, Rows
<1>5. eidxdb[w1][n] = IndexEntry(widxdb[w1].kw, widxdb[w1].ids[n], n - 1)
  BY <1>1, <1>3, <1>4, RowEntriesType
<1>6. XTOKEN = Xtoken(widxdb[w1].kw, widxdb[w2].kw, n - 1)
  BY DEF IInv, MatchInv
<1>7. ScalarMul(eidxdb[w1][n].y, XTOKEN) = Xtag(widxdb[w2].kw, widxdb[w1].ids[n])
  BY <1>2, <1>3, <1>5, <1>6, TokenMeetsTag
<1> QED
  BY <1>7 DEF Passes

(* The filter holds tags only: steps other than TagRow leave it alone.      *)
LEMMA FilterNext == IInv /\ FilterInv /\ [Next]_vars => FilterInv'
<1> SUFFICES ASSUME IInv, FilterInv, [Next]_vars PROVE FilterInv'
  OBVIOUS
<1>1. CASE TagRow
  <2>1. n \in Rows
    BY <1>1 DEF IInv, TypeOK, TagRow, Rows
  <2>2. ASSUME NEW cell \in BF'
        PROVE  \E k \in Rows : \E i \in 1 .. Len(widxdb[k].ids) :
                 cell \in BloomCells(Xtag(widxdb[k].kw, widxdb[k].ids[i]))
    <3>1. CASE cell \in BF
      BY <3>1 DEF FilterInv
    <3>2. CASE cell \notin BF
      <4>1. PICK i \in 1 .. Len(widxdb[n].ids) :
              cell \in BloomCells(Xtag(widxdb[n].kw, widxdb[n].ids[i]))
        BY <1>1, <3>2 DEF TagRow
      <4> QED
        BY <2>1, <4>1
    <3> QED
      BY <3>1, <3>2
  <2>3. widxdb' = widxdb
    BY <1>1 DEF TagRow
  <2> QED
    BY <2>2, <2>3 DEF FilterInv, Rows, Xtag, BloomCells
<1>2. CASE UNCHANGED <<widxdb, BF>>
  BY <1>2 DEF FilterInv, Rows, Xtag, BloomCells
<1>3. TagRow \/ UNCHANGED <<widxdb, BF>>
  BY DEF Next, IndexRow, IndexDone, TagsDone, StartQuery, SendToken, TestToken, Answer, vars
<1> QED
  BY <1>1, <1>2, <1>3

(* Steps outside a query's loop keep what is said of the loop.              *)
LEMMA OrderKept ==
  ASSUME OrderInv, pc \in {"token", "test"}, UNCHANGED <<widxdb, n, serverBF, w1, w2, ESET>>
  PROVE  OrderInv'
<1>1. \A at : Kept(at)' = Kept(at)
  BY DEF Kept, Increasing, RowEntries, Passes, Xtag, BloomCells
<1> QED
  BY <1>1 DEF OrderInv

(* A new query has nothing yet.                                             *)
LEMMA StartQueryOrder == IInv /\ StartQuery => OrderInv'
<1> SUFFICES ASSUME IInv, StartQuery PROVE OrderInv'
  OBVIOUS
<1>1. Len(ESET') = 0 /\ n' = 1
  BY DEF StartQuery
<1>2. PICK at \in [1 .. 0 -> 1 .. 0] : TRUE
  <2>1. [i \in 1 .. 0 |-> i] \in [1 .. 0 -> 1 .. 0]
    OBVIOUS
  <2> QED
    BY <2>1
<1>3. Kept(at)'
  BY <1>1 DEF Kept, Increasing
<1>4. at \in [1 .. Len(ESET') -> 1 .. n' - 1]
  <2>1. n' - 1 = 0
    BY <1>1
  <2> QED
    BY <1>1, <1>2, <2>1
<1> QED
  BY <1>3, <1>4 DEF OrderInv

(* The test keeps the entry just looked at if its document passes.          *)
LEMMA TestTokenOrder == IInv /\ OrderInv /\ TestToken => OrderInv'
<1> SUFFICES ASSUME IInv, OrderInv, TestToken PROVE OrderInv'
  OBVIOUS
<1>1. /\ pc = "test" /\ widxdb \in Databases /\ w1 \in Rows /\ n \in Nat \ {0}
      /\ n <= Len(widxdb[w1].ids) /\ ESET \in Seq(Scalars) /\ Len(ESET) \in Nat
  BY DEF IInv, TypeOK, Loops, TestToken
<1>2. /\ Len(widxdb) \in Nat /\ Len(widxdb[w1].ids) \in Nat
      /\ widxdb[w1].kw \in Keywords
      /\ \A i \in 1 .. Len(widxdb[w1].ids) : widxdb[w1].ids[i] \in Docs
  BY <1>1, RowType
<1>3. n \in 1 .. Len(widxdb[w1].ids) /\ n - 1 \in Nat
  BY <1>1, <1>2
<1>4. eidxdb[w1] = RowEntries(w1)
  BY <1>1, <1>2 DEF IInv, IndexInv, Rows, TestToken
<1>5. RowEntries(w1)[n].e \in Scalars
  BY <1>1, <1>2, <1>3, RowEntriesType, EntryType
<1>6. UNCHANGED <<widxdb, serverBF, w1, w2>> /\ n' = n + 1
  BY DEF TestToken
<1>7. PICK at \in [1 .. Len(ESET) -> 1 .. n - 1] : Kept(at)
  BY <1>1 DEF OrderInv
<1>8. /\ \A i : RowEntries(w1)'[i] = RowEntries(w1)[i]
      /\ \A id : Passes(id)' = Passes(id)
  BY <1>6 DEF RowEntries, Passes, Xtag, BloomCells
<1>9. CASE Passes(widxdb[w1].ids[n])
  <2>1. ESET' = Append(ESET, RowEntries(w1)[n].e)
    BY <1>1, <1>4, <1>9, TestAsksForTag DEF TestToken
  <2> PICK m \in Nat : m = Len(ESET)
    BY <1>1
  <2>2. /\ Len(ESET') = m + 1 /\ ESET'[m + 1] = RowEntries(w1)[n].e
        /\ \A j \in 1 .. m : ESET'[j] = ESET[j]
    BY <1>1, <1>5, <2>1
  <2> DEFINE longer == [j \in 1 .. m + 1 |-> IF j = m + 1 THEN n ELSE at[j]]
  <2>a. /\ longer \in [1 .. m + 1 -> 1 .. n] /\ longer[m + 1] = n
        /\ \A j \in 1 .. m : longer[j] = at[j] /\ at[j] \in 1 .. n - 1
    <3>1. \A j \in 1 .. m : at[j] \in 1 .. n - 1
      OBVIOUS
    <3>2. n \in 1 .. n /\ 1 .. n - 1 \subseteq 1 .. n
      BY <1>1
    <3>3. \A j \in 1 .. m + 1 : j # m + 1 => j \in 1 .. m
      OBVIOUS
    <3>4. longer \in [1 .. m + 1 -> 1 .. n]
      BY <3>1, <3>2, <3>3
    <3>5. m + 1 \in 1 .. m + 1 /\ \A j \in 1 .. m : j \in 1 .. m + 1 /\ j # m + 1
      OBVIOUS
    <3> QED
      BY <3>1, <3>4, <3>5
  <2> HIDE DEF longer
  <2>3. PICK new \in [1 .. m + 1 -> 1 .. n] :
          new[m + 1] = n /\ \A j \in 1 .. m : new[j] = at[j] /\ at[j] \in 1 .. n - 1
    BY <2>a
  <2>4. Increasing(new, m + 1)
    <3> SUFFICES ASSUME NEW i \in 1 .. m + 1, NEW j \in 1 .. m + 1, i < j
                 PROVE  new[i] < new[j]
      BY DEF Increasing
    <3>1. i \in 1 .. m /\ new[i] = at[i] /\ at[i] \in 1 .. n - 1
      BY <2>3
    <3>2. CASE j = m + 1
      BY <1>1, <2>3, <3>1, <3>2
    <3>3. CASE j \in 1 .. m
      BY <1>7, <2>3, <3>1, <3>3 DEF Kept, Increasing
    <3> QED
      BY <3>2, <3>3
  <2>5. \A j \in 1 .. m + 1 : ESET'[j] = RowEntries(w1)[new[j]].e
    <3> TAKE j \in 1 .. m + 1
    <3>1. CASE j = m + 1
      BY <2>2, <2>3, <3>1
    <3>2. CASE j \in 1 .. m
      BY <1>7, <2>2, <2>3, <3>2 DEF Kept
    <3> QED
      BY <3>1, <3>2
  <2>6. \A i \in 1 .. n : Passes(widxdb[w1].ids[i]) <=> \E j \in 1 .. m + 1 : new[j] = i
    <3> TAKE i \in 1 .. n
    <3>1. CASE i = n
      BY <1>9, <2>3, <3>1
    <3>2. CASE i # n
      <4>1. i \in 1 .. n - 1
        BY <1>1, <3>2
      <4>2. (\E j \in 1 .. m : at[j] = i) <=> \E j \in 1 .. m + 1 : new[j] = i
        <5>1. \A j \in 1 .. m + 1 : new[j] = i => j \in 1 .. m
          BY <2>3, <3>2
        <5>2. 1 .. m \subseteq 1 .. m + 1
          OBVIOUS
        <5> QED
          BY <2>3, <5>1, <5>2
      <4> QED
        BY <1>7, <4>1, <4>2 DEF Kept
    <3> QED
      BY <3>1, <3>2
  <2>7. n' - 1 = n
    BY <1>1, <1>6
  <2>8. Kept(new)'
    BY <1>6, <1>8, <2>2, <2>4, <2>5, <2>6, <2>7 DEF Kept, Increasing
  <2> QED
    BY <2>2, <2>3, <2>7, <2>8 DEF OrderInv
<1>10. CASE ~Passes(widxdb[w1].ids[n])
  <2>1. ESET' = ESET
    BY <1>1, <1>10, TestAsksForTag DEF TestToken
  <2>2. n' - 1 = n /\ at \in [1 .. Len(ESET) -> 1 .. n]
    BY <1>1, <1>6
  <2>3. \A i \in 1 .. n : Passes(widxdb[w1].ids[i]) <=> \E j \in 1 .. Len(ESET) : at[j] = i
    <3> TAKE i \in 1 .. n
    <3>1. CASE i = n
      <4>1. \A j \in 1 .. Len(ESET) : at[j] # n
        BY <1>1
      <4> QED
        BY <1>10, <3>1, <4>1
    <3>2. CASE i # n
      BY <1>1, <1>7, <3>2 DEF Kept
    <3> QED
      BY <3>1, <3>2
  <2>4. Kept(at)'
    BY <1>6, <1>7, <1>8, <2>1, <2>2, <2>3 DEF Kept, Increasing
  <2> QED
    BY <2>1, <2>2, <2>4 DEF OrderInv
<1> QED
  BY <1>9, <1>10

(* Only the steps of the loop change what OrderInv is about.                *)
LEMMA OrderNext == IInv /\ OrderInv /\ [Next]_vars => OrderInv'
<1> SUFFICES ASSUME IInv, OrderInv, [Next]_vars PROVE OrderInv'
  OBVIOUS
<1>1. CASE StartQuery
  BY <1>1, StartQueryOrder
<1>2. CASE SendToken
  BY <1>2, OrderKept DEF SendToken
<1>3. CASE TestToken
  BY <1>3, TestTokenOrder
<1>4. CASE Answer
  BY <1>4 DEF Answer, OrderInv
<1>5. CASE IndexRow \/ IndexDone \/ TagRow \/ TagsDone
  BY <1>5 DEF IndexRow, IndexDone, TagRow, TagsDone, OrderInv
<1>6. CASE UNCHANGED vars
  <2>1. UNCHANGED <<pc, widxdb, n, serverBF, w1, w2, ESET>>
    BY <1>6 DEF vars
  <2>2. CASE pc \in {"token", "test"}
    BY <2>1, <2>2, OrderKept
  <2>3. CASE pc \notin {"token", "test"}
    BY <2>1, <2>3 DEF OrderInv
  <2> QED
    BY <2>2, <2>3
<1> QED
  BY <1>1, <1>2, <1>3, <1>4, <1>5, <1>6 DEF Next

(* Decrypting the matches of the whole row gives the documents that pass.   *)
LEMMA AnswerReports == IInv /\ OrderInv /\ Answer => ReportInv'
<1> SUFFICES ASSUME IInv, OrderInv, Answer PROVE ReportInv'
  OBVIOUS
<1> DEFINE ids == widxdb[w1].ids
           ke  == AESENC(KS, Pad(widxdb[w1].kw))
<1>1. /\ pc = "token" /\ widxdb \in Databases /\ w1 \in Rows /\ n \in Nat \ {0}
      /\ n <= Len(ids) + 1 /\ Len(ESET) \in Nat
  BY DEF IInv, TypeOK, Loops, Answer
<1>2. /\ Len(widxdb) \in Nat /\ Len(ids) \in Nat /\ widxdb[w1].kw \in Keywords
      /\ \A i \in 1 .. Len(ids) : ids[i] \in Docs
  BY <1>1, RowType
<1>3. n - 1 = Len(ids)
  <2>1. eidxdb[w1] = RowEntries(w1)
    BY <1>1, <1>2 DEF IInv, IndexInv, Rows
  <2>2. n > Len(ids)
    BY <1>1, <2>1, RowEntriesType DEF Answer
  <2> QED
    BY <1>1, <1>2, <2>2
<1>4. \A i \in 1 .. Len(ids) : AESDEC(ke, RowEntries(w1)[i].e)[1] = ids[i]
  <2> TAKE i \in 1 .. Len(ids)
  <2>1. RowEntries(w1)[i] = IndexEntry(widxdb[w1].kw, ids[i], i - 1) /\ i - 1 \in Nat
    BY <1>1, <1>2, RowEntriesType
  <2> QED
    BY <1>2, <2>1, EntryDecrypts
<1>5. PICK at \in [1 .. Len(ESET) -> 1 .. Len(ids)] : Kept(at)
  BY <1>1, <1>3 DEF OrderInv
<1>6. Len(UIDX') = Len(ESET) /\ \A j \in 1 .. Len(ESET) : UIDX'[j] = AESDEC(ke, ESET[j])[1]
  BY <1>1 DEF Answer
<1>7. \A j \in 1 .. Len(ESET) : UIDX'[j] = ids[at[j]] /\ Passes(ids[at[j]])
  <2> TAKE j \in 1 .. Len(ESET)
  <2>1. at[j] \in 1 .. Len(ids) /\ ESET[j] = RowEntries(w1)[at[j]].e
    BY <1>5 DEF Kept
  <2>2. Passes(ids[at[j]])
    BY <1>3, <1>5, <2>1 DEF Kept
  <2> QED
    BY <1>4, <1>6, <2>1, <2>2
<1>8. \A k \in 1 .. Len(ids) :
        (\E j \in 1 .. Len(ESET) : ids[k] = UIDX'[j]) => \E j \in 1 .. Len(ESET) : at[j] = k
  <2> SUFFICES ASSUME NEW k \in 1 .. Len(ids), NEW j \in 1 .. Len(ESET), ids[k] = UIDX'[j]
               PROVE  \E i \in 1 .. Len(ESET) : at[i] = k
    OBVIOUS
  <2>1. Passes(ids[k])
    BY <1>7
  <2> QED
    BY <1>3, <1>5, <2>1 DEF Kept
<1>9. UNCHANGED <<widxdb, serverBF, w1, w2>>
  BY DEF Answer
<1>10. AnswerInRowOrder'
  BY <1>5, <1>6, <1>7, <1>8, <1>9 DEF AnswerInRowOrder, Kept, Increasing
<1>11. (\A i \in 1 .. Len(UIDX) : Passes(UIDX[i]))'
  BY <1>6, <1>7, <1>9 DEF Passes, Xtag, BloomCells
<1> QED
  BY <1>10, <1>11 DEF ReportInv

(* Nothing but Answer makes a report.                                       *)
LEMMA ReportNext == IInv /\ OrderInv /\ ReportInv /\ [Next]_vars => ReportInv'
<1> SUFFICES ASSUME IInv, OrderInv, ReportInv, [Next]_vars PROVE ReportInv'
  OBVIOUS
<1>1. CASE Answer
  BY <1>1, AnswerReports
<1>2. CASE pc' # "answered"
  BY <1>2 DEF ReportInv, AnswerInRowOrder
<1>3. CASE UNCHANGED vars
  BY <1>3 DEF ReportInv, AnswerInRowOrder, Passes, Xtag, BloomCells, vars
<1>4. Answer \/ pc' # "answered" \/ UNCHANGED vars
  BY DEF Next, IndexRow, IndexDone, TagRow, TagsDone, StartQuery, SendToken, TestToken
<1> QED
  BY <1>1, <1>2, <1>3, <1>4

(* The invariants of the answer hold in every reachable state.              *)
LEMMA AnswerInvariance == Spec => []AnswerIInv
<1>1. Init => FilterInv /\ OrderInv /\ ReportInv
  BY DEF Init, FilterInv, OrderInv, ReportInv, AnswerInRowOrder
<1>2. FilterInv /\ OrderInv /\ ReportInv /\ IInv /\ [Next]_vars
        => FilterInv' /\ OrderInv' /\ ReportInv'
  BY FilterNext, OrderNext, ReportNext
<1>3. IInv /\ FilterInv /\ OrderInv /\ ReportInv <=> AnswerIInv
  BY DEF AnswerIInv
<1> QED
  BY <1>1, <1>2, <1>3, Invariance, PTL DEF Spec

(* The answer is a part of w1's row in the row's order, and with a document *)
(* it has each of its positions: test and decryption agree entry by entry,  *)
(* for every database and whatever collides in the filter.                  *)
THEOREM AnswerKeepsRowOrder == Spec => []AnswerInRowOrder
<1>1. AnswerIInv => AnswerInRowOrder
  BY DEF AnswerIInv, ReportInv
<1> QED
  BY <1>1, AnswerInvariance, PTL

(* A document that passes the test without the second keyword is a keyword  *)
(* whose row has that keyword as a document: no other pair has the tag.     *)
LEMMA PassingTag ==
  ASSUME NoFalsePositives, TagsDistinct, AnswerIInv, pc = "answered",
         NEW id \in Docs, Passes(id)
  PROVE  \/ id \in IdsOf(w2)
         \/ \E k \in Rows : widxdb[k].kw = id /\ widxdb[w2].kw \in IdsOf(k)
<1>1. widxdb \in Databases /\ w2 \in Rows /\ serverBF = BF /\ FilterInv
  BY DEF AnswerIInv, IInv, TypeOK, Loops, TagInv
<1>2. widxdb[w2].kw \in Keywords
  BY <1>1, RowType
<1> DEFINE p == Xtag(widxdb[w2].kw, id)
<1>3. p \in TagPoints /\ BloomCells(p) \subseteq BF
  BY <1>1, <1>2 DEF TagPoints, Passes
<1>4. PICK cell \in BloomCells(p) : cell \notin UNION {BloomCells(t) : t \in TagPoints \ {p}}
  BY <1>3 DEF NoFalsePositives
<1>5. PICK k \in Rows : \E i \in 1 .. Len(widxdb[k].ids) :
        cell \in BloomCells(Xtag(widxdb[k].kw, widxdb[k].ids[i]))
  BY <1>1, <1>3, <1>4 DEF FilterInv
<1> PICK i \in 1 .. Len(widxdb[k].ids) :
      cell \in BloomCells(Xtag(widxdb[k].kw, widxdb[k].ids[i]))
  BY <1>5
<1>6. widxdb[k].kw \in Keywords /\ widxdb[k].ids[i] \in Docs
  BY <1>1, <1>5, RowType
<1>7. Xtag(widxdb[k].kw, widxdb[k].ids[i]) = p
  <2>1. Xtag(widxdb[k].kw, widxdb[k].ids[i]) \in TagPoints
    BY <1>6 DEF TagPoints
  <2> QED
    BY <1>4, <1>5, <2>1
<1>8. \/ widxdb[k].kw = widxdb[w2].kw /\ widxdb[k].ids[i] = id
      \/ widxdb[k].kw = id /\ widxdb[k].ids[i] = widxdb[w2].kw
  BY <1>2, <1>6, <1>7 DEF TagsDistinct
<1>9. widxdb[k].kw = widxdb[w2].kw => k = w2
  BY <1>1, DatabaseAssumption DEF Rows
<1> QED
  BY <1>5, <1>8, <1>9 DEF IdsOf

(* Where nothing else collides, a spurious document is always the swapped   *)
(* pair of another row, for every database and every number of keywords.    *)
THEOREM SpuriousOnlySwapped ==
  ASSUME NoFalsePositives, TagsDistinct
  PROVE  Spec => []SpuriousOnlyIfSwapped
<1>1. AnswerIInv => SpuriousOnlyIfSwapped
  <2> SUFFICES ASSUME AnswerIInv, pc = "answered", NEW i \in 1 .. Len(UIDX)
               PROVE  \/ UIDX[i] \in IdsOf(w2)
                      \/ \E k \in Rows : widxdb[k].kw = UIDX[i] /\ widxdb[w2].kw \in IdsOf(k)
    BY DEF SpuriousOnlyIfSwapped
  <2>1. UIDX[i] \in Docs /\ Passes(UIDX[i])
    BY DEF AnswerIInv, IInv, TypeOK, ReportInv
  <2> QED
    BY <2>1, PassingTag
<1> QED
  BY <1>1, AnswerInvariance, PTL
=============================================================================
