-------------------------------- MODULE Words --------------------------------
(***************************************************************************)
(* The 32-bit words BLAKE3 computes with, as pairs of 16-bit halves, the   *)
(* high half first.                                                        *)
(***************************************************************************)
EXTENDS Integers
LOCAL INSTANCE Bitwise

H == 2^16

AddW(a, b) ==
  LET lo == a[2] + b[2] IN <<(a[1] + b[1] + lo \div H) % H, lo % H>>

XorW(a, b) == <<a[1] ^^ b[1], a[2] ^^ b[2]>>

(* rotr32: what leaves one half on the right enters the other on the left.   *)
(* c is at most 16.                                                          *)
RotrW(w, c) ==
  << w[1] \div 2^c + (w[2] % 2^c) * 2^(16 - c), w[2] \div 2^c + (w[1] % 2^c) * 2^(16 - c) >>

(* Byte q of a word, 0 the lowest, and the word of four bytes. *)
ByteOf(w, q) == (w[2 - q \div 2] \div 2^(8 * (q % 2))) % 256

(* The byte shuffles of rot16 and rot8: byte q of the result is byte q + n.  *)
ShuffleBytes(w, n) ==
  LET b(q) == ByteOf(w, (q + n) % 4) IN << 256 * b(3) + b(2), 256 * b(1) + b(0) >>
=============================================================================
