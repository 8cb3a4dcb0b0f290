------------------------------ MODULE BFIdxConv ------------------------------
(***************************************************************************)
(* BFIdxConv: the first n_bits bits of a digest as an index into one array *)
(* of the Bloom filter, which has MAX_BF_BIN_SIZE cells and no bounds      *)
(* check.  One action per turn of the byte loop.                           *)
(***************************************************************************)
EXTENDS Integers, Sequences

CONSTANTS Digests,  \* sequences of bytes, as long as the index may need
          Bits,     \* values of N_BF_BITS
          Width     \* bits of an unsigned int

(* The last is what 2^k is; the prover knows it only from here.              *)
ASSUME WidthAssumption ==
  /\ Width \in Nat /\ Width >= 16
  /\ \A k \in 0 .. Width : 2^k \in Nat
  /\ \A k \in 0 .. Width - 1 : 2^(k + 1) = 2 * 2^k
ASSUME BitsAssumption == \A b \in Bits : b \in 1 .. Width
ASSUME DigestsAssumption ==
  \A d \in Digests : d \in Seq(0 .. 255) /\ \A b \in Bits : 8 * Len(d) >= b

VARIABLES hex_arr, n_bits, idx_val, byte_i, bf_pc
bfVars == <<hex_arr, n_bits, idx_val, byte_i, bf_pc>>

n_bytes    == n_bits \div 8
n_bits_rem == n_bits % 8

(* Shifting an unsigned int; the low bits it gains are zero, so that | with  *)
(* fewer than k bits is +.                                                   *)
Shl(v, k) == (v * 2^k) % 2^Width

BFInit ==
  /\ hex_arr \in Digests /\ n_bits \in Bits
  /\ idx_val = 0 /\ byte_i = 0 /\ bf_pc = "bytes"

(* Mutant of WholeByte: little-endian. *)
WholeByteLow ==
  /\ bf_pc = "bytes"
  /\ byte_i < n_bytes
  /\ idx_val' = (idx_val + Shl(hex_arr[byte_i + 1], 8 * byte_i)) % 2^Width
  /\ byte_i' = byte_i + 1
  /\ UNCHANGED <<hex_arr, n_bits, bf_pc>>

WholeByte ==
  /\ bf_pc = "bytes"
  /\ byte_i < n_bytes
  /\ idx_val' = Shl(idx_val, 8) + hex_arr[byte_i + 1]
  /\ byte_i' = byte_i + 1
  /\ UNCHANGED <<hex_arr, n_bits, bf_pc>>

(* Mutant of RestBits: the whole last byte is taken. *)
RestBitsWhole ==
  /\ bf_pc = "bytes"
  /\ byte_i = n_bytes
  /\ idx_val' = IF n_bits_rem # 0 THEN Shl(idx_val, n_bits_rem) + hex_arr[n_bytes + 1] ELSE idx_val
  /\ bf_pc' = "done"
  /\ UNCHANGED <<hex_arr, n_bits, byte_i>>

RestBits ==
  /\ bf_pc = "bytes"
  /\ byte_i = n_bytes
  /\ idx_val' = IF n_bits_rem # 0
                  THEN Shl(idx_val, n_bits_rem) + hex_arr[n_bytes + 1] \div 2^(8 - n_bits_rem)
                  ELSE idx_val
  /\ bf_pc' = "done"
  /\ UNCHANGED <<hex_arr, n_bits, byte_i>>

BFNext == WholeByte \/ RestBits
BFSpec == BFInit /\ [][BFNext]_bfVars

-----------------------------------------------------------------------------
(* Bit k of the digest, from the first bit of its first byte.               *)
Bit(d, k) == (d[(k \div 8) + 1] \div 2^(7 - (k % 8))) % 2

(* The index is the number whose binary digits are the digest's first       *)
(* n_bits bits: client and server, and every index size, read a digest the  *)
(* same way.  With MAX_BF_BIN_SIZE = 2^N_BF_BITS, as the configuration's    *)
(* comment has it, no index lies outside BF[k].                             *)
LeadingBits ==
  bf_pc = "done" =>
    /\ idx_val < 2^n_bits
    /\ \A k \in 0 .. n_bits - 1 : (idx_val \div 2^(n_bits - 1 - k)) % 2 = Bit(hex_arr, k)
=============================================================================
