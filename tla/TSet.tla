-------------------------------- MODULE TSet --------------------------------
(***************************************************************************)
(* The TSet: for every keyword the client stores a row of entries under    *)
(* keys that only the keyword's stag lets one derive (TSet_SetUp), and the *)
(* server, given the stag, derives the same keys again and walks the row   *)
(* to the entry marked as its last (TSet_Retrieve).                        *)
(*                                                                         *)
(* The walk asks redis for N_threads keys at a time, so its last batch     *)
(* usually reaches past the row's end.  For a key that is not there the    *)
(* code dereferences an empty optional: the model takes any entry for it,  *)
(* or a crash.  Setting up does not clear redis, and a run of it may stop  *)
(* in the middle: entries of older rows stay behind.                       *)
(*                                                                         *)
(* A position's digest gives its label and its mask, here the injective    *)
(* term <<keyword, position % Period>>, and its bucket, here any function  *)
(* of that term.  The transport between the programs is SetupSession's     *)
(* and SearchSession's subject.                                            *)
(***************************************************************************)
EXTENDS Naturals, FiniteSets, Sequences

CONSTANTS Keywords,   \* the keywords, each with its own stag
          Buckets,    \* the values of the two bucket bytes
          Period,     \* positions go through one byte of stagi (256)
          JidxMod,    \* the counter in a key has two bytes (65536)
          N_threads,  \* the size of a batch
          N_max_ids,  \* the longest row of the configuration
          MaxSetups,  \* bound of the model: runs of the set-up programs
          Absent,     \* the answer of redis for a key it does not hold
          Garbage     \* the contents of an entry read from no string

ASSUME PeriodAssumption == Period \in Nat \ {0}
ASSUME JidxAssumption == JidxMod \in Nat \ {0} /\ N_max_ids \in Nat /\ N_max_ids <= JidxMod
ASSUME BatchAssumption == N_threads \in Nat \ {0}

VARIABLES bucket,   \* the bucket of each digest
          db,       \* redis
          ver,      \* which database was read last
          rowlen,   \* its rows' lengths (0: the keyword does not occur)
          complete, \* its set-up has stored every entry
          phase,    \* "off", "setup", "query", "scan", "done", "overrun", "crashed"
          todo,     \* rows still to be stored
          word,     \* the keyword whose row is stored or retrieved
          FreeB,    \* per bucket, the positions of this row seen so far
          pos,      \* the position of the row the loop is at
          keys,     \* T_BIDX, T_JIDX, T_LBL: the keys of the batch so far
          batch,    \* what MGDB_QUERY returned for the current batch
          tset_row  \* the entries retrieved so far

setupVars == <<ver, rowlen, complete, todo>>
vars == <<bucket, db, setupVars, phase, word, FreeB, pos, keys, batch, tset_row>>

Digest(w, i)  == <<w, i % Period>>
Digests       == Keywords \X (0 .. Period - 1)
BucketAt(w,i) == bucket[Digest(w, i)]

(* bidx (2 bytes), jidx (2 bytes), label (12 bytes). *)
Key(w, i, freeb) == <<BucketAt(w, i), freeb[BucketAt(w, i)] % JidxMod, Digest(w, i)>>
Bump(w, i, freeb) == [freeb EXCEPT ![BucketAt(w, i)] = @ + 1]
NoFreeB == [b \in Buckets |-> 0]

(* The i-th id of a keyword's row in the current database. *)
Id(w, i) == <<ver, w, i>>
Row(w)   == [i \in 1 .. rowlen[w] |-> Id(w, i - 1)]

(* Mutant of Mask: the value is stored as it is. *)
MaskNothing(d, entry) == entry

(* A stored value: flag and id, masked by the position's digest.  Masking    *)
(* is XOR: unmasking with another digest yields noise.                       *)
Mask(d, entry) == [mask |-> d, entry |-> entry]

(* Hash outputs exist for whole batches only. *)
N_max_id_words == N_threads * ((N_max_ids + N_threads - 1) \div N_threads)

-----------------------------------------------------------------------------
Init ==
  /\ bucket \in [Digests -> Buckets]
  /\ db = [k \in {} |-> Absent]
  /\ ver = 0
  /\ rowlen = [w \in Keywords |-> 0]
  /\ complete = FALSE
  /\ phase = "off"
  /\ todo = {}
  /\ word \in Keywords
  /\ FreeB = NoFreeB
  /\ pos = 0
  /\ keys = <<>>
  /\ batch = <<>>
  /\ tset_row = <<>>

(* TSet_SetUp reads the index file: its rows, in any order. *)
StartSetUp ==
  /\ phase = "off"
  /\ ver < MaxSetups
  /\ ver' = ver + 1
  /\ rowlen' \in [Keywords -> 0 .. N_max_ids]
  /\ todo' = {w \in Keywords : rowlen'[w] > 0}
  /\ complete' = FALSE
  /\ phase' = "setup"
  /\ pos' = 0
  /\ FreeB' = NoFreeB
  /\ todo' # {} /\ word' \in todo'
  /\ UNCHANGED <<bucket, db, keys, batch, tset_row>>

(* Mutants of StoreEntry: the counter is not advanced; the wrong entry is     *)
(* marked as the last one.                                                    *)
StoreEntrySameCounter ==
  /\ phase = "setup"
  /\ pos < rowlen[word]
  /\ LET key   == Key(word, pos, FreeB)
         entry == [last |-> pos = rowlen[word] - 1, id |-> Id(word, pos)]
     IN db' = [k \in DOMAIN db \cup {key} |->
                 IF k = key THEN Mask(Digest(word, pos), entry) ELSE db[k]]
  /\ pos' = pos + 1
  /\ UNCHANGED <<bucket, setupVars, phase, word, FreeB, keys, batch, tset_row>>

StoreEntryLastOffByOne ==
  /\ phase = "setup"
  /\ pos < rowlen[word]
  /\ LET key   == Key(word, pos, FreeB)
         entry == [last |-> pos = rowlen[word], id |-> Id(word, pos)]
     IN db' = [k \in DOMAIN db \cup {key} |->
                 IF k = key THEN Mask(Digest(word, pos), entry) ELSE db[k]]
  /\ FreeB' = Bump(word, pos, FreeB)
  /\ pos' = pos + 1
  /\ UNCHANGED <<bucket, setupVars, phase, word, keys, batch, tset_row>>

(* One turn of the loop over the row: derive key and masked value; the        *)
(* server's redis.set.                                                        *)
StoreEntry ==
  /\ phase = "setup"
  /\ pos < rowlen[word]
  /\ LET key   == Key(word, pos, FreeB)
         entry == [last |-> pos = rowlen[word] - 1, id |-> Id(word, pos)]
     IN db' = [k \in DOMAIN db \cup {key} |->
                 IF k = key THEN Mask(Digest(word, pos), entry) ELSE db[k]]
  /\ FreeB' = Bump(word, pos, FreeB)
  /\ pos' = pos + 1
  /\ UNCHANGED <<bucket, setupVars, phase, word, keys, batch, tset_row>>

(* Mutant of NextRow: the bucket counters run on from row to row. *)
NextRowKeepCounters ==
  /\ phase = "setup"
  /\ pos = rowlen[word]
  /\ todo' = todo \ {word}
  /\ IF todo' = {}
       THEN phase' = "off" /\ complete' = TRUE /\ UNCHANGED word
       ELSE word' \in todo' /\ UNCHANGED <<phase, complete>>
  /\ pos' = 0
  /\ UNCHANGED <<bucket, db, ver, rowlen, FreeB, keys, batch, tset_row>>

(* The next row starts with all bucket counters at 0. *)
NextRow ==
  /\ phase = "setup"
  /\ pos = rowlen[word]
  /\ todo' = todo \ {word}
  /\ IF todo' = {}
       THEN phase' = "off" /\ complete' = TRUE /\ UNCHANGED word
       ELSE word' \in todo' /\ UNCHANGED <<phase, complete>>
  /\ pos' = 0
  /\ FreeB' = NoFreeB
  /\ UNCHANGED <<bucket, db, ver, rowlen, keys, batch, tset_row>>

(* Either set-up program dies: redis keeps what it has. *)
InterruptSetUp ==
  /\ phase = "setup"
  /\ phase' = "off"
  /\ todo' = {}
  /\ FreeB' = NoFreeB
  /\ pos' = 0
  /\ UNCHANGED <<bucket, db, ver, rowlen, complete, word, keys, batch, tset_row>>

-----------------------------------------------------------------------------
(* TSet_Retrieve for the stag of any keyword, stored or not. *)
StartRetrieve ==
  /\ phase = "off"
  /\ word' \in Keywords
  /\ FreeB' = NoFreeB
  /\ pos' = 0
  /\ keys' = <<>>
  /\ batch' = <<>>
  /\ tset_row' = <<>>
  /\ phase' = "query"
  /\ UNCHANGED <<bucket, db, setupVars>>

(* One turn of while(!BETA): first the keys of the batch, one after the       *)
(* other.  Past the hash buffer the code reads what is behind it.             *)
DeriveKey ==
  /\ phase = "query" /\ Len(keys) < N_threads
  /\ LET i == pos + Len(keys) IN
       IF i >= N_max_id_words
       THEN phase' = "overrun" /\ UNCHANGED <<FreeB, keys>>
       ELSE /\ keys' = Append(keys, Key(word, i, FreeB))
            /\ FreeB' = Bump(word, i, FreeB)
            /\ UNCHANGED phase
  /\ UNCHANGED <<bucket, db, setupVars, word, pos, batch, tset_row>>

Answer(key) == IF key \in DOMAIN db THEN db[key] ELSE Absent

(* ... then MGDB_QUERY, which may crash on an absent key.                     *)
QueryBatch ==
  /\ phase = "query" /\ Len(keys) = N_threads
  /\ batch' = [n \in 1 .. N_threads |-> Answer(keys[n])]
  /\ keys' = <<>>
  /\ phase' \in {"scan"} \cup {p \in {"crashed"} : \E n \in 1 .. N_threads : batch'[n] = Absent}
  /\ UNCHANGED <<bucket, db, setupVars, word, FreeB, pos, tset_row>>

(* The entries a query slot may decode to at this position. *)
Decodings(answer) ==
  IF answer # Absent /\ answer.mask = Digest(word, pos)
    THEN {answer.entry}
    ELSE [last : BOOLEAN, id : {Garbage}]

(* ... and then unmask one result, stop at the one marked as last; the        *)
(* next batch starts when this one is used up.                                *)
ScanEntry ==
  /\ phase = "scan"
  /\ \E entry \in Decodings(Head(batch)) :
       /\ tset_row' = Append(tset_row, entry.id)
       /\ batch' = Tail(batch)
       /\ pos' = pos + 1
       /\ phase' = IF entry.last THEN "done" ELSE IF batch' = <<>> THEN "query" ELSE "scan"
  /\ UNCHANGED <<bucket, db, setupVars, word, FreeB, keys>>

(* The row goes to the search; after a crash the server is started again.     *)
EndRetrieve ==
  /\ phase \in {"done", "overrun", "crashed"}
  /\ phase' = "off"
  /\ FreeB' = NoFreeB
  /\ pos' = 0
  /\ keys' = <<>>
  /\ batch' = <<>>
  /\ tset_row' = <<>>
  /\ UNCHANGED <<bucket, db, setupVars, word>>

Next == \/ StartSetUp \/ StoreEntry \/ NextRow \/ InterruptSetUp
        \/ StartRetrieve \/ DeriveKey \/ QueryBatch \/ ScanEntry \/ EndRetrieve

Spec == Init /\ [][Next]_vars

(* The loops run on; starting a set-up or a search is somebody's choice.      *)
FairSpec == Spec /\ WF_vars(StoreEntry) /\ WF_vars(NextRow)
                 /\ WF_vars(DeriveKey) /\ WF_vars(QueryBatch) /\ WF_vars(ScanEntry)

-----------------------------------------------------------------------------
Ids     == ((1 .. MaxSetups) \X Keywords \X Nat) \cup {Garbage}
Entries == [last : BOOLEAN, id : Ids]
Values  == [mask : Digests, entry : Entries]
Phases  == {"off", "setup", "query", "scan", "done", "overrun", "crashed"}

ASSUME AbsentAssumption == Absent \notin Values
ASSUME SetupsAssumption == MaxSetups \in Nat

(* Type invariant of redis, the set-up loop and the retrieval loop. *)
TypeOK ==
  /\ bucket \in [Digests -> Buckets]
  /\ \A k \in DOMAIN db : k \in Buckets \X Nat \X Digests /\ db[k] \in Values
  /\ ver \in 0 .. MaxSetups
  /\ rowlen \in [Keywords -> 0 .. N_max_ids]
  /\ complete \in BOOLEAN
  /\ phase \in Phases
  /\ todo \subseteq Keywords
  /\ word \in Keywords
  /\ FreeB \in [Buckets -> Nat]
  /\ pos \in Nat
  /\ keys \in Seq(Buckets \X Nat \X Digests)
  /\ batch \in Seq(Values \cup {Absent})
  /\ tset_row \in Seq(Ids)

(* A set-up keeps every entry it has stored: no two positions of a row, nor   *)
(* of two rows, get the same key, although the digests of a long row repeat.  *)
Stored(w) == IF complete THEN rowlen[w]
             ELSE IF phase # "setup" THEN 0
             ELSE IF w = word THEN pos
             ELSE IF w \in todo THEN 0 ELSE rowlen[w]

EntriesKept ==
  \A w \in Keywords : \A i \in 0 .. Stored(w) - 1 :
     \E k \in DOMAIN db : db[k].entry.id = Id(w, i)

(* After a complete set-up a retrieval returns the keyword's row of the last  *)
(* database, in order: what lies behind the row's end in its last batch, and  *)
(* what older set-ups left, whole or broken off, never shows.                 *)
RetrieveExact ==
  phase = "done" /\ complete /\ rowlen[word] > 0 => tset_row = Row(word)

(* After a complete set-up the walk over a stored row stays inside the hash   *)
(* buffer, which holds N_max_id_words digests.                                *)
WalkInBuffer == complete /\ rowlen[word] > 0 => phase # "overrun"

(* ... and it ends: with the row, or in the crash on an absent key.           *)
RetrieveEnds ==
  (phase = "query" /\ complete /\ rowlen[word] > 0) ~> (phase \in {"done", "crashed"})
=============================================================================
