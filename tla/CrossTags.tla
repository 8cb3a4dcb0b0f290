------------------------------ MODULE CrossTags ------------------------------
(***************************************************************************)
(* The cross-tag side of OXT.  Set-up passes twice over the plain database *)
(* (EDB_SetUp): once for the index entries (y, e) of each row, once for    *)
(* the xtags that go into the Bloom filter, which reaches the server as a  *)
(* file.  A search for w1 and w2 lets the client compute one xtoken per    *)
(* entry of w1's row and the server raise it to the entry's y and look the *)
(* result up.                                                              *)
(*                                                                         *)
(* The two passes, the token computation and the test are in four places   *)
(* and two programs; the lookup succeeds only if all of them agree on      *)
(* positions, counters and keys.  Block cipher, hash and curve arithmetic  *)
(* are parameters; how entries travel is TSet's and SearchSession's        *)
(* subject.                                                                *)
(***************************************************************************)
EXTENDS Integers, Sequences

CONSTANTS Keywords, Docs,      \* 4-byte values; the two may overlap
          Databases,           \* sequences of rows [kw, ids]
          N_threads,           \* slots of a batch, and hash functions
          CounterMod,          \* a counter has two bytes (65536)
          MAX_BF_BIN_SIZE,     \* cells of one array of the Bloom filter
          KS, KI, KZ, KX,      \* keys
          AESENC(_, _), AESDEC(_, _),   \* key, block
          Scalars, Mul(_, _), Inv(_),   \* modulo the order of the curve
          Points, Base, ScalarMul(_, _),
          BFIdx(_, _)          \* BFIdxConv of hash j of a point

(* Blocks have sixteen bytes; <<v, c>> has v in its first four bytes and c  *)
(* in its last two.                                                         *)
Blocks == (Keywords \cup Docs \cup {0}) \X (0 .. CounterMod - 1)
Hashes == 0 .. N_threads - 1
Bins   == 0 .. MAX_BF_BIN_SIZE - 1

ASSUME SizesAssumption ==
  N_threads \in Nat \ {0} /\ CounterMod \in Nat \ {0} /\ MAX_BF_BIN_SIZE \in Nat \ {0}
ASSUME KeysAssumption == {KS, KI, KZ, KX} \subseteq Scalars
ASSUME CipherAssumption ==
  \A k \in Scalars : \A b \in Blocks :
    AESENC(k, b) \in Scalars /\ AESDEC(k, AESENC(k, b)) = b
ASSUME ClosedAssumption ==
  \A a, b \in Scalars : Mul(a, b) \in Scalars /\ Inv(a) \in Scalars
ASSUME CommutativeAssumption == \A a, b \in Scalars : Mul(a, b) = Mul(b, a)
ASSUME AssociativeAssumption ==
  \A a, b, c \in Scalars : Mul(Mul(a, b), c) = Mul(a, Mul(b, c))
ASSUME InverseAssumption == \A a, b \in Scalars : Mul(Mul(a, Inv(a)), b) = b
ASSUME CurveAssumption ==
  /\ Base \in Points
  /\ \A a, b \in Scalars : \A p \in Points :
       ScalarMul(a, p) \in Points /\ ScalarMul(a, ScalarMul(b, p)) = ScalarMul(Mul(a, b), p)
ASSUME HashAssumption == \A j \in Hashes : \A p \in Points : BFIdx(j, p) \in Bins
ASSUME DatabaseAssumption ==
  \A db \in Databases :
    /\ db \in Seq([kw : Keywords, ids : Seq(Docs)])
    /\ \A m, n \in 1 .. Len(db) : db[m].kw = db[n].kw => m = n

VARIABLES widxdb,   \* the plain database
          pc,       \* "index", "tags", "idle", "token", "test", "answered"
          n,        \* the row, or the entry of a row, that the loop is at
          eidxdb,   \* the rows of entries (y, e) written so far
          BF,       \* the client's Bloom filter: the cells that are 0x01
          serverBF, \* the server's
          w1, w2,   \* the rows of the query's keywords
          XTOKEN,   \* the token last sent
          ESET,     \* the server's matches
          UIDX      \* the client's, decrypted

vars == <<widxdb, pc, n, eidxdb, BF, serverBF, w1, w2, XTOKEN, ESET, UIDX>>

Rows == 1 .. Len(widxdb)
NoToken == Base   \* stands for the cleared buffer; it is never tested

-----------------------------------------------------------------------------
(* For now PRF is AES, and xtags rely on it: set-up keys them with AESENC,  *)
(* a search with PRF.                                                       *)
PRF(k, b) == AESENC(k, b)

Pad(v) == <<v, 0>>

(* The counter overwrites the last two bytes of the padded keyword.         *)
WithCounter(b, c) == <<b[1], c % CounterMod>>

(* One id of a row, at position c from 0, becomes an index entry.           *)
IndexEntry(w, id, c) ==
  LET z  == PRF(KZ, WithCounter(Pad(w), c))
      ke == AESENC(KS, Pad(w))
  IN [y |-> Mul(PRF(KI, Pad(id)), Inv(z)), e |-> AESENC(ke, Pad(id))]

Xtag(w, id) == ScalarMul(Mul(AESENC(KX, Pad(w)), PRF(KI, Pad(id))), Base)

Xtoken(wa, wb, c) == ScalarMul(Mul(PRF(KX, Pad(wb)), PRF(KZ, WithCounter(Pad(wa), c))), Base)

(* The cells of a point, one in each array. *)
BloomCells(p) == {<<j, BFIdx(j, p)>> : j \in Hashes}

(* bloomfilter.dat: one line per cell, array after array.                   *)
Lines == 0 .. (N_threads * MAX_BF_BIN_SIZE) - 1
WriteBFtoFile(bf) == {l \in Lines : <<l \div MAX_BF_BIN_SIZE, l % MAX_BF_BIN_SIZE>> \in bf}

(* Mutant of ReadBFfromFile: bf_idx is not reset for the next array.        *)
ReadBFfromFileNoReset(file) == {<<l \div MAX_BF_BIN_SIZE, l>> : l \in file}

ReadBFfromFile(file) == {<<l \div MAX_BF_BIN_SIZE, l % MAX_BF_BIN_SIZE>> : l \in file}

-----------------------------------------------------------------------------
Init ==
  /\ widxdb \in Databases
  /\ pc = "index" /\ n = 1
  /\ eidxdb = <<>>
  /\ BF = {} /\ serverBF = {}
  /\ w1 = 1 /\ w2 = 1
  /\ XTOKEN = NoToken /\ ESET = <<>> /\ UIDX = <<>>

(* The first pass: one row of the encrypted index.                          *)
IndexRow ==
  /\ pc = "index"
  /\ n <= Len(widxdb)
  /\ LET row == widxdb[n]
     IN eidxdb' = Append(eidxdb, [i \in 1 .. Len(row.ids) |-> IndexEntry(row.kw, row.ids[i], i - 1)])
  /\ n' = n + 1
  /\ UNCHANGED <<widxdb, pc, BF, serverBF, w1, w2, XTOKEN, ESET, UIDX>>

(* The index goes to the server (TSet, SetupSession).                       *)
IndexDone ==
  /\ pc = "index"
  /\ n > Len(widxdb)
  /\ pc' = "tags" /\ n' = 1
  /\ UNCHANGED <<widxdb, eidxdb, BF, serverBF, w1, w2, XTOKEN, ESET, UIDX>>

(* The second pass: the xtags of one row.                                   *)
TagRow ==
  /\ pc = "tags"
  /\ n <= Len(widxdb)
  /\ BF' = BF \cup UNION {BloomCells(Xtag(widxdb[n].kw, widxdb[n].ids[i])) :
                          i \in 1 .. Len(widxdb[n].ids)}
  /\ n' = n + 1
  /\ UNCHANGED <<widxdb, pc, eidxdb, serverBF, w1, w2, XTOKEN, ESET, UIDX>>

(* The filter is written to a file, sent, and read by the search server.    *)
TagsDone ==
  /\ pc = "tags"
  /\ n > Len(widxdb)
  /\ pc' = "idle"
  /\ serverBF' = ReadBFfromFile(WriteBFtoFile(BF))
  /\ UNCHANGED <<widxdb, n, eidxdb, BF, w1, w2, XTOKEN, ESET, UIDX>>

(* A query of two keywords, the one with fewer documents first.             *)
StartQuery ==
  /\ pc \in {"idle", "answered"}
  /\ \E a, b \in Rows :
       /\ Len(widxdb[a].ids) < Len(widxdb[b].ids)
       /\ w1' = a /\ w2' = b
  /\ pc' = "token" /\ n' = 1
  /\ XTOKEN' = NoToken /\ ESET' = <<>> /\ UIDX' = <<>>
  /\ UNCHANGED <<widxdb, eidxdb, BF, serverBF>>

(* Mutant of SendToken: the token of position 0 for every entry.            *)
SendTokenStuck ==
  /\ pc = "token"
  /\ n <= Len(eidxdb[w1])
  /\ XTOKEN' = Xtoken(widxdb[w1].kw, widxdb[w2].kw, 0)
  /\ pc' = "test"
  /\ UNCHANGED <<widxdb, n, eidxdb, BF, serverBF, w1, w2, ESET, UIDX>>

(* The client's loop over the n_ids_tset positions of w1's row.             *)
SendToken ==
  /\ pc = "token"
  /\ n <= Len(eidxdb[w1])
  /\ XTOKEN' = Xtoken(widxdb[w1].kw, widxdb[w2].kw, n - 1)
  /\ pc' = "test"
  /\ UNCHANGED <<widxdb, n, eidxdb, BF, serverBF, w1, w2, ESET, UIDX>>

(* Mutants of TestToken: matches are put in front; the server is told of no *)
(* second keyword and takes every entry.                                     *)
TestTokenPrepend ==
  /\ pc = "test"
  /\ LET entry == eidxdb[w1][n]
     IN ESET' = IF BloomCells(ScalarMul(entry.y, XTOKEN)) \subseteq serverBF
                  THEN <<entry.e>> \o ESET ELSE ESET
  /\ n' = n + 1
  /\ pc' = "token"
  /\ UNCHANGED <<widxdb, eidxdb, BF, serverBF, w1, w2, XTOKEN, UIDX>>

TestTokenAll ==
  /\ pc = "test"
  /\ ESET' = Append(ESET, eidxdb[w1][n].e)
  /\ n' = n + 1
  /\ pc' = "token"
  /\ UNCHANGED <<widxdb, eidxdb, BF, serverBF, w1, w2, XTOKEN, UIDX>>

(* The server's loop over the same entries: XTAG, BloomFilter_Match_N.      *)
TestToken ==
  /\ pc = "test"
  /\ LET entry == eidxdb[w1][n]
     IN ESET' = IF BloomCells(ScalarMul(entry.y, XTOKEN)) \subseteq serverBF
                  THEN Append(ESET, entry.e) ELSE ESET
  /\ n' = n + 1
  /\ pc' = "token"
  /\ UNCHANGED <<widxdb, eidxdb, BF, serverBF, w1, w2, XTOKEN, UIDX>>

(* The client decrypts and prints the first four bytes of every match.      *)
Answer ==
  /\ pc = "token"
  /\ n > Len(eidxdb[w1])
  /\ LET ke == AESENC(KS, Pad(widxdb[w1].kw))
     IN UIDX' = [i \in 1 .. Len(ESET) |-> AESDEC(ke, ESET[i])[1]]
  /\ pc' = "answered"
  /\ UNCHANGED <<widxdb, n, eidxdb, BF, serverBF, w1, w2, XTOKEN, ESET>>

Next ==
  \/ IndexRow \/ IndexDone \/ TagRow \/ TagsDone
  \/ StartQuery \/ SendToken \/ TestToken \/ Answer

Spec == Init /\ [][Next]_vars

-----------------------------------------------------------------------------
(* Type invariant: among others no cell outside the arrays of the filter,    *)
(* and every match decrypts to a document.                                  *)
TypeOK ==
  /\ widxdb \in Databases
  /\ pc \in {"index", "tags", "idle", "token", "test", "answered"}
  /\ n \in Nat \ {0}
  /\ eidxdb \in Seq(Seq([y : Scalars, e : Scalars]))
  /\ BF \subseteq Hashes \X Bins
  /\ serverBF \subseteq Hashes \X Bins
  /\ {w1, w2} \subseteq Nat
  /\ XTOKEN \in Points
  /\ ESET \in Seq(Scalars)
  /\ UIDX \in Seq(Docs)

IdsOf(k) == {widxdb[k].ids[i] : i \in 1 .. Len(widxdb[k].ids)}

(* Completeness of EDB_Search: whatever the filter's collisions, every      *)
(* document that has both keywords is reported.  The index pass, the xtag   *)
(* pass, the token and the test agree on key, counter and position.         *)
Complete ==
  pc = "answered" => \A id \in IdsOf(w1) \cap IdsOf(w2) : \E i \in 1 .. Len(UIDX) : UIDX[i] = id

(* Every entry reported decrypts, under the key of the query's first        *)
(* keyword, to a document of that keyword's row: the row's positions at[i], *)
(* in the row's order, and with a document every position that has it.      *)
AnswerInRowOrder ==
  pc = "answered" =>
    LET ids == widxdb[w1].ids
    IN \E at \in [1 .. Len(UIDX) -> 1 .. Len(ids)] :
         /\ \A i, j \in 1 .. Len(UIDX) : i < j => at[i] < at[j]
         /\ \A i \in 1 .. Len(UIDX) : UIDX[i] = ids[at[i]]
         /\ \A k \in 1 .. Len(ids) :
              (\E i \in 1 .. Len(UIDX) : ids[k] = UIDX[i]) => \E i \in 1 .. Len(UIDX) : at[i] = k

(* The circumstances under which the answer has nothing else to go wrong:   *)
(* no tag's cells lie in those of other tags, and two pairs of keyword and  *)
(* document share a tag only if one is the other swapped.                   *)
TagPoints == {Xtag(k, id) : k \in Keywords, id \in Docs}
NoFalsePositives ==
  \A p \in TagPoints : ~(BloomCells(p) \subseteq UNION {BloomCells(t) : t \in TagPoints \ {p}})
TagsDistinct ==
  \A k, l \in Keywords : \A id, jd \in Docs :
    Xtag(k, id) = Xtag(l, jd) => (k = l /\ id = jd) \/ (k = jd /\ id = l)

(* Where the filter has no collisions, a document reported without the      *)
(* second keyword w2 is one whose own value is that of a keyword, and that  *)
(* keyword's row holds w2 as a document: KI and KX are the same key, so the *)
(* xtag of (keyword a, document b) is that of (keyword b, document a).      *)
SpuriousOnlyIfSwapped ==
  pc = "answered" =>
    \A i \in 1 .. Len(UIDX) :
      \/ UIDX[i] \in IdsOf(w2)
      \/ \E k \in Rows : widxdb[k].kw = UIDX[i] /\ widxdb[w2].kw \in IdsOf(k)

(* README.md:72: the results are compared with the documents that have both.  The  *)
(* code does not achieve it, even without collisions of the filter.         *)
AnswerExact ==
  pc = "answered" => {UIDX[i] : i \in 1 .. Len(UIDX)} = IdsOf(w1) \cap IdsOf(w2)
=============================================================================
