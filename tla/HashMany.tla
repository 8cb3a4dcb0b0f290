------------------------------- MODULE HashMany -------------------------------
(***************************************************************************)
(* blake3_hash_many: num_inputs messages of equal length hashed by the     *)
(* widest kernel the CPU has, then by narrower ones for what is left.  One *)
(* action per turn of a cascade's loops.  A vector is a function from its  *)
(* lanes to words, the compression of one lane is the constant Compress    *)
(* (module Blake3Rounds models its rounds), flags are sets of names, and   *)
(* the two halves of the 64-bit counter have HalfBits bits each.           *)
(***************************************************************************)
EXTENDS Integers

CONSTANTS Compress(_, _, _, _, _),  \* cv, block, counter low, counter high, flags
          Inputs,      \* the array of messages: functions from positions to words
          Sizes,       \* values of num_inputs
          Blocks,      \* how many blocks of 16 words a message has
          Key,         \* the eight words every message starts from
          Counters,    \* values of the counter a call starts from
          HalfBits     \* bits of half a counter; 15 fits in a half

VARIABLES impl,        \* the implementation the dispatch chose
          num_inputs,  \* inputs of the call
          counter0,    \* counter of the call
          increment,   \* increment_counter
          hashed,      \* inputs done: what the pointer inputs has moved by
          counter,     \* counter of inputs[hashed]
          cvs          \* out, as one chaining value per input hashed
hashManyVars == <<impl, num_inputs, counter0, increment, hashed, counter, cvs>>

Impls == {"portable", "sse2", "sse41", "avx2", "avx512"}
HalfWord == 2^HalfBits

(* Numbers of blocks, of inputs and counters the C types hold, and halves of *)
(* a counter as wide as the widest kernel has lanes.                         *)
ASSUME HashManyAssumption ==
  /\ Blocks \in Nat /\ Sizes \subseteq Nat
  /\ HalfWord \in Nat /\ HalfWord > 15
  /\ Counters \subseteq 0 .. HalfWord * HalfWord - 1

Wrap(c) == c % (HalfWord * HalfWord)
counter_low(c) == c % HalfWord
counter_high(c) == c \div HalfWord

-----------------------------------------------------------------------------
(* The shuffles.  Unpack interleaves, inside each 128-bit lane of four       *)
(* words, elements of w words of a and b, from word `off` of the lane: epi32 *)
(* has w = 1, epi64 w = 2; lo has off = 0, hi off = 2.                       *)
Unpack(w, off, a, b) ==
  [j \in DOMAIN a |->
     LET r == j % 4
     IN (IF (r \div w) % 2 = 0 THEN a ELSE b)
          [4 * (j \div 4) + off + w * (r \div (2 * w)) + (r % w)]]

(* Vector k after the 32-bit and the 64-bit interleaving of the four vectors *)
(* it belongs to.                                                            *)
Quad(v, k) ==
  LET o   == 4 * (k \div 4)
      off == 2 * ((k % 4) \div 2)
  IN Unpack(2, 2 * (k % 2), Unpack(1, off, v[o], v[o + 1]), Unpack(1, off, v[o + 2], v[o + 3]))

Quads(v) == [k \in DOMAIN v |-> Quad(v, k)]

(* 128-bit lane s of a beside lane s of b (permute2x128, 0x20 and 0x31). *)
Permute(a, b, s) == [j \in 0 .. 7 |-> (IF j < 4 THEN a ELSE b)[4 * s + (j % 4)]]

(* Lanes s and s + 2 of a, then of b (shuffle_i32x4, 0x88 and 0xdd). *)
Unpack128(a, b, s) ==
  [j \in 0 .. 15 |->
     LET l == j \div 4 IN (IF l < 2 THEN a ELSE b)[4 * (2 * (l % 2) + s) + (j % 4)]]

Transpose8(v) ==
  LET w == Quads(v)
  IN [k \in DOMAIN v |->
        LET o == 8 * (k \div 8) + (k % 4) IN Permute(w[o], w[o + 4], (k % 8) \div 4)]

Transpose16(v) ==
  LET w == Quads(v)
      e == [k \in 0 .. 15 |->
              LET o == 8 * (k \div 8) + (k % 4) IN Unpack128(w[o], w[o + 4], (k % 8) \div 4)]
  IN [k \in 0 .. 15 |-> Unpack128(e[k % 8], e[8 + (k % 8)], k \div 8)]

transpose_vecs(D, v) ==
  CASE D = 4 -> Quads(v) [] D = 8 -> Transpose8(v) [] D = 16 -> Transpose16(v)

(* Block b of D inputs: D vectors of D consecutive words for each D words of *)
(* the block, transposed so that vector i holds word i of every input.       *)
transpose_msg_vecs(D, b) ==
  transpose_vecs(D, [k \in 0 .. 15 |->
    [j \in 0 .. D - 1 |-> Inputs[hashed + (k % D)][16 * b + D * (k \div D) + j]]])

-----------------------------------------------------------------------------
(* Lane j of the counters: j is added to the low half, and a carry goes to   *)
(* the high half when the sum came out below j, compared without sign; the   *)
(* 4- and 8-lane kernels of AVX-512 add in 64 bits and split the sum.        *)
Delta(j) == IF increment THEN j ELSE 0

(* Mutant of Counter32: the comparison the instruction makes, signed. *)
Counter32Signed(j) ==
  LET Signed(x) == IF x >= HalfWord \div 2 THEN x - HalfWord ELSE x
      l == (counter_low(counter) + Delta(j)) % HalfWord
  IN <<l, (counter_high(counter) + IF Signed(Delta(j)) > Signed(l) THEN 1 ELSE 0) % HalfWord>>

Counter32(j) ==
  LET l == (counter_low(counter) + Delta(j)) % HalfWord
  IN <<l, (counter_high(counter) + IF Delta(j) > l THEN 1 ELSE 0) % HalfWord>>

Counter64(j) ==
  LET c == Wrap(counter + Delta(j)) IN <<counter_low(c), counter_high(c)>>

load_counters(D, j) == IF impl = "avx512" /\ D < 16 THEN Counter64(j) ELSE Counter32(j)

BlockFlags(b) ==
  {"flags"} \cup (IF b = 0 THEN {"start"} ELSE {}) \cup (IF b = Blocks - 1 THEN {"end"} ELSE {})

(* The chaining values of one message, one block after the other. *)
hash_one(input, c) ==
  LET cv[b \in 0 .. Blocks] ==
        IF b = 0 THEN Key
        ELSE Compress(cv[b - 1], [i \in 0 .. 15 |-> input[16 * (b - 1) + i]],
                      counter_low(c), counter_high(c), BlockFlags(b - 1))
  IN cv[Blocks]

(* h_vecs after all blocks: vector i holds word i of every input's value. *)
WideState(D) ==
  LET h[b \in 0 .. Blocks] ==
        IF b = 0 THEN [i \in 0 .. 7 |-> [j \in 0 .. D - 1 |-> Key[i]]]
        ELSE LET m    == transpose_msg_vecs(D, b - 1)
                 prev == h[b - 1]
                 lane == [j \in 0 .. D - 1 |->
                           Compress([i \in 0 .. 7 |-> prev[i][j]],
                                    [i \in 0 .. 15 |-> m[i][j]],
                                    load_counters(D, j)[1], load_counters(D, j)[2],
                                    BlockFlags(b - 1))]
             IN [i \in 0 .. 7 |-> [j \in 0 .. D - 1 |-> lane[j][i]]]
  IN h[Blocks]

(* The outputs, in the order of the stores: a kernel of four lanes stores    *)
(* vectors k and 4 + k; of eight, vector k; of sixteen, the lower half of    *)
(* vector k of a matrix padded with zeros.                                   *)
Stored4(h)  == LET t == transpose_vecs(4, h)
               IN [k \in 0 .. 3 |-> [i \in 0 .. 7 |-> t[k + 4 * (i \div 4)][i % 4]]]
Stored8(h)  == transpose_vecs(8, h)
Stored16(h) ==
  LET t == transpose_vecs(16, [i \in 0 .. 15 |-> IF i < 8 THEN h[i] ELSE [j \in 0 .. 15 |-> 0]])
  IN [k \in 0 .. 15 |-> [i \in 0 .. 7 |-> t[k][i]]]

-----------------------------------------------------------------------------
remaining == num_inputs - hashed

(* The loop of a cascade: D inputs are hashed, and the pointers move on. *)
Advance(D, stored) ==
  /\ cvs' = [k \in 0 .. hashed + D - 1 |-> IF k < hashed THEN cvs[k] ELSE stored[k - hashed]]
  /\ hashed' = hashed + D
  /\ counter' = IF increment THEN Wrap(counter + D) ELSE counter
  /\ UNCHANGED <<impl, num_inputs, counter0, increment>>

Hash16 ==
  /\ impl = "avx512" /\ remaining >= 16
  /\ Advance(16, Stored16(WideState(16)))

Hash8 ==
  /\ impl \in {"avx2", "avx512"} /\ remaining >= 8
  /\ impl = "avx512" => remaining < 16
  /\ Advance(8, Stored8(WideState(8)))

(* AVX2 leaves its last inputs to the kernels of SSE4.1. *)
Hash4 ==
  /\ impl # "portable" /\ remaining >= 4
  /\ impl \in {"avx2", "avx512"} => remaining < 8
  /\ Advance(4, Stored4(WideState(4)))

HashOne ==
  /\ remaining > 0
  /\ impl # "portable" => remaining < 4
  /\ Advance(1, [k \in {0} |-> hash_one(Inputs[hashed], counter)])

HashManyInit ==
  /\ impl \in Impls /\ num_inputs \in Sizes
  /\ counter0 \in Counters /\ increment \in BOOLEAN
  /\ hashed = 0 /\ counter = counter0 /\ cvs = [k \in {} |-> 0]

HashManyNext == Hash16 \/ Hash8 \/ Hash4 \/ HashOne
HashManySpec == HashManyInit /\ [][HashManyNext]_hashManyVars

-----------------------------------------------------------------------------
(* Every output is the one the portable implementation computes for that     *)
(* input at that place, with the counter that belongs to it: the wide        *)
(* kernels mix up neither inputs, words nor counters, and the widths hand    *)
(* over to one another without a gap, the low half of the counter and the    *)
(* whole counter wrapping inside a vector included.                          *)
KernelsAgree ==
  /\ hashed <= num_inputs
  /\ \A k \in 0 .. hashed - 1 :
       cvs[k] = hash_one(Inputs[k], Wrap(counter0 + IF increment THEN k ELSE 0))
=============================================================================
