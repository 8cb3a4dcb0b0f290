---------------------------- MODULE MC_WorkerOps ----------------------------
(***************************************************************************)
(* What the cases of a worker's switch compute: op is the operation that   *)
(* runs, and the variables of the others stay as one of their calls begins.*)
(***************************************************************************)
EXTENDS BFIdxConv, HashMany, Blake3Rounds, Words, Aes, Curve, Encodings, Dispatch

VARIABLE op

-----------------------------------------------------------------------------
(* BFIdxConv: bytes with every bit, no bit and single bits at both ends. *)
MC_Digests == [1 .. 3 -> {0, 1, 90, 255}]
MC_Bits == {1, 7, 8, 9, 15, 16, 17, 23, 24}

(* hash_many: a mixing that is not symmetric in its arguments, and counters  *)
(* near a carry out of the low half and out of both.                         *)
FlagValue(flags) ==
  (IF "flags" \in flags THEN 16 ELSE 0) + (IF "start" \in flags THEN 1 ELSE 0) + (IF "end" \in flags THEN 2 ELSE 0)
MixWords(f, o) == f[o] + 3 * f[o + 1] + 7 * f[o + 2] + 19 * f[o + 3]
                  + 53 * f[o + 4] + 131 * f[o + 5] + 311 * f[o + 6] + 719 * f[o + 7]
MC_Compress(cv, blk, lo, hi, flags) ==
  LET x == (MixWords(cv, 0) + 11 * MixWords(blk, 0) + 29 * MixWords(blk, 8)
            + 17 * lo + 257 * hi + 5 * FlagValue(flags)) % 32749
  IN [k \in 0 .. 7 |-> (x * (x + 3 * k + 11)) % 32749]
MC_Inputs == [k \in 0 .. 30 |-> [p \in 0 .. 31 |-> 100 * k + p + 1]]
MC_Key == [k \in 0 .. 7 |-> 40 + k]
MC_Counters == {0, 12, 27, 250}
MC_Sizes == {0, 1, 3, 4, 7, 8, 11, 15, 16, 23, 31}

(* Rounds: the IV of the code; the block of the empty message, whose digest  *)
(* is published, and one without a pattern.                                  *)
MC_IV == [k \in 0 .. 7 |->
  <<<<27145, 58983>>, <<47975, 44677>>, <<15470, 62322>>, <<42319, 62778>>,
    <<20750, 21119>>, <<39685, 26764>>, <<8067, 55723>>, <<23520, 52505>>>>[k + 1]]
EmptyJob == [cv |-> MC_IV, block |-> [k \in 0 .. 15 |-> <<0, 0>>],
             tail |-> [k \in 0 .. 3 |-> <<0, IF k = 3 THEN 11 ELSE 0>>]]
OtherJob == [cv    |-> [k \in 0 .. 7 |-> <<(k * 23757) % 65536, (k + 3) * 4099>>],
             block |-> [k \in 0 .. 15 |-> <<(k * 37659) % 65536, ((k + 3) * 14099) % 65536>>],
             tail  |-> [k \in 0 .. 3 |-> <<k, 3 * k>>]]
MC_Jobs == {EmptyJob, OtherJob}

(* What the rounds rely on (WordOps of WorkerOps_proofs), for words whose    *)
(* halves carry, or do not, into each other.                                 *)
SampleWords == LET halves == {0, 1, 255, 4660, 32768, 65535} IN halves \X halves
ASSUME WordsRotateAndAdd ==
  LET Half16 == 0 .. H - 1
      IsWord(x) == x[1] \in Half16 /\ x[2] \in Half16
  IN /\ \A x, y \in SampleWords : IsWord(AddW(x, y)) /\ IsWord(XorW(x, y))
     /\ \A x \in SampleWords, c \in {16, 12, 8, 7} : IsWord(RotrW(x, c))
     /\ \A x, y, z \in SampleWords : AddW(AddW(x, y), z) = AddW(AddW(x, z), y)
     /\ \A x \in SampleWords : ShuffleBytes(x, 2) = RotrW(x, 16) /\ ShuffleBytes(x, 1) = RotrW(x, 8)

(* AES: three bits to a block, the field of eight elements for MixColumns. *)
XorBits(x, y) ==
  LET bit(b) == IF (x \div b) % 2 = (y \div b) % 2 THEN 0 ELSE b IN bit(1) + bit(2) + bit(4)
MC_S(x) == <<3, 6, 1, 7, 0, 5, 2, 4>>[x + 1]
MC_SInv(x) == CHOOSE y \in 0 .. 7 : MC_S(y) = x
MC_Mix(x) == IF x >= 4 THEN XorBits((2 * x) % 8, 3) ELSE 2 * x
MC_MixInv(x) == CHOOSE y \in 0 .. 7 : MC_Mix(y) = x
MC_KeyExp(k, rcon) == XorBits(MC_S(k), rcon % 8)

(* Text: digits that may follow the two characters in memory. *)
MC_Sources == [1 .. 3 -> {0, 7, 16, 171}]
MC_BigNumbers == {0, 15, 16, 255, 256, 4095, 4096, 65536, 1048575, 1048576, 16777215}
MC_Behind == {<<>>, <<0>>, <<4, 2>>, <<1, 2, 3, 4, 5, 6>>}

(* Dispatch: processors of every generation (each has what the one before    *)
(* has), systems that save some of their registers, and a cpuid cut off at   *)
(* leaf 6.                                                                   *)
Generations == <<{"SSSE3"}, {"SSSE3", "SSE41"}, {"AVX"}, {"AVX2"}, {"AVX512F"}, {"AVX512VL"}>>
MC_Processors ==
  [bits : {UNION {Generations[k] : k \in 1 .. gen} \cup os : gen \in 0 .. 6, os \in {{}, {"OSXSAVE"}}},
   max_id : {6, 13},
   xcr0 : {{}, {"xmm"}, YmmState, YmmState \cup {"opmask"}, YmmState \cup ZmmState}]
MC_OldProcessor == CHOOSE c \in MC_Processors : c.bits = {} /\ c.xcr0 = {} /\ c.max_id = 6

-----------------------------------------------------------------------------
Init ==
  /\ op \in {"AES", "SCAMUL", "HASH", "COMPRESS", "BLOOM", "MGDB", "DISPATCH"}
  /\ IF op = "AES" THEN AesInit ELSE AesInit /\ ptext = 0 /\ key = 0
  /\ IF op = "SCAMUL" THEN CurveInit ELSE CurveInit /\ xw = 3 /\ xid = 1 /\ zw = 1
  /\ IF op = "HASH" THEN HashManyInit
     ELSE HashManyInit /\ impl = "portable" /\ num_inputs = 0 /\ counter0 = 0 /\ ~increment
  /\ IF op = "COMPRESS" THEN RoundsInit
     ELSE RoundsInit /\ isa = "sse2" /\ job = [l \in Lanes |-> EmptyJob]
  /\ IF op = "BLOOM" THEN BFInit ELSE BFInit /\ hex_arr = <<0, 0, 0>> /\ n_bits = 1
  /\ IF op = "MGDB" THEN EncodingsInit ELSE EncodingsInit /\ value = <<0, 0, 0>>
  /\ IF op = "DISPATCH" THEN DispatchInit
     ELSE DispatchInit /\ cpu = MC_OldProcessor /\ calls = [t \in HashThreads |-> <<"compress">>]

Next ==
  \/ /\ op = "AES" /\ AesNext
     /\ UNCHANGED <<op, dispatchVars, bfVars, hashManyVars, roundVars, curveVars, encodingVars>>
  \/ /\ op = "SCAMUL" /\ CurveNext
     /\ UNCHANGED <<op, dispatchVars, bfVars, hashManyVars, roundVars, aesVars, encodingVars>>
  \/ /\ op = "HASH" /\ HashManyNext
     /\ UNCHANGED <<op, dispatchVars, bfVars, roundVars, aesVars, curveVars, encodingVars>>
  \/ /\ op = "COMPRESS" /\ RoundsNext
     /\ UNCHANGED <<op, dispatchVars, bfVars, hashManyVars, aesVars, curveVars, encodingVars>>
  \/ /\ op = "BLOOM" /\ BFNext
     /\ UNCHANGED <<op, dispatchVars, hashManyVars, roundVars, aesVars, curveVars, encodingVars>>
  \/ /\ op = "MGDB" /\ ReadByte
     /\ UNCHANGED <<op, dispatchVars, bfVars, hashManyVars, roundVars, aesVars, curveVars>>
  \/ /\ op = "DISPATCH" /\ DispatchNext
     /\ UNCHANGED <<op, bfVars, hashManyVars, roundVars, aesVars, curveVars, encodingVars>>

Spec == Init /\ [][Next]_<<op, bfVars, hashManyVars, roundVars, aesVars, curveVars, encodingVars,
                          dispatchVars>>
=============================================================================
