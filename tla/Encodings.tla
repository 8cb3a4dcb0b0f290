------------------------------ MODULE Encodings ------------------------------
(***************************************************************************)
(* Bytes and big numbers as hexadecimal text, and back: HexToStr and       *)
(* DB_HexToStr* write what goes into the two index files, into Redis and   *)
(* into the results; StrToHex and DB_StrToHex* read it, and take every     *)
(* number of the curve arithmetic from GMP.  A reader converts two         *)
(* characters at a time with strtoul, from an array of two that has no     *)
(* place for a terminating NUL: strtoul goes on into what lies behind it.  *)
(* One action per pair of characters; what lies behind is any of Behind.   *)
(***************************************************************************)
EXTENDS Integers, Sequences, SequencesExt

CONSTANTS HexLen,       \* bytes of a value: 2 to 49 in the code
          ULongDigits,  \* hexadecimal digits of an unsigned long
          Sources,      \* byte arrays that are written
          BigNumbers,   \* numbers below 256^HexLen
          Behind        \* sequences of digits, up to the first character that is none

ASSUME EncodingsAssumption ==
  /\ HexLen \in Nat \ {0} /\ ULongDigits \in Nat /\ ULongDigits >= 2
  /\ Sources \subseteq [1 .. HexLen -> 0 .. 255]
  /\ BigNumbers \subseteq 0 .. 256^HexLen - 1
  /\ Behind \subseteq Seq(0 .. 15)
(* What a power is; the prover knows it only from here.                      *)
ASSUME PowersAssumption ==
  /\ \A k \in 0 .. 2 * HexLen : 16^k \in Nat
  /\ \A k \in 0 .. 2 * HexLen - 1 : 16^(k + 1) = 16 * 16^k
  /\ \A k \in 0 .. HexLen : 256^k \in Nat
  /\ \A k \in 0 .. HexLen - 1 : 256^(k + 1) = 256 * 256^k
  /\ 16^ULongDigits \in Nat /\ 16^ULongDigits >= 256

VARIABLES value,     \* the bytes the text stands for
          text,      \* the digits
          hexarr,    \* the bytes read so far
          bled       \* the positions read with a digit behind the array
encodingVars == <<value, text, hexarr, bled>>

(* Mutant of ByteText: std::hex alone, without setw(2). *)
ByteTextShort(b) == IF b < 16 THEN <<b>> ELSE <<b \div 16, b % 16>>

(* std::hex with setw(2) and setfill('0'). *)
ByteText(b) == <<b \div 16, b % 16>>
HexToStr(bytes) == FlattenSeq([k \in 1 .. Len(bytes) |-> ByteText(bytes[k])])

(* mpz_class::get_str(16): no leading zeros; StrToHex puts them back. *)
DigitsOf(v) == CHOOSE d \in 1 .. 2 * HexLen : v < 16^d /\ (d = 1 \/ v >= 16^(d - 1))
GetStr(v) == [k \in 1 .. DigitsOf(v) |-> (v \div 16^(DigitsOf(v) - k)) % 16]

Padded(digits) == [k \in 1 .. 2 * HexLen - Len(digits) |-> 0] \o digits

BytesOf(v) == [k \in 1 .. HexLen |-> (v \div 256^(HexLen - k)) % 256]

(* ::strtoul(temp, nullptr, 16) & 0xFF: past the largest unsigned long it    *)
(* returns ULONG_MAX.                                                        *)
AddDigit(before, digit) ==   \* stops at the first value that is too large
  IF before >= 16^ULongDigits THEN before ELSE 16 * before + digit
Strtoul(digits) ==
  LET v[k \in 0 .. Len(digits)] == IF k = 0 THEN 0 ELSE AddDigit(v[k - 1], digits[k])
  IN IF v[Len(digits)] >= 16^ULongDigits THEN 255 ELSE v[Len(digits)] % 256

EncodingsInit ==
  /\ \/ value \in Sources /\ text = HexToStr(value)
     \/ \E v \in BigNumbers : value = BytesOf(v) /\ text = Padded(GetStr(v))
  /\ hexarr = <<>> /\ bled = {}

(* temp[0] = text[2*j]; temp[1] = text[2*j+1]; hexarr[j] = strtoul(temp). *)
ReadByte ==
  LET j == Len(hexarr)
  IN /\ j < HexLen
     /\ \E behind \in Behind :
          /\ hexarr' = Append(hexarr, Strtoul(SubSeq(text, 2 * j + 1, 2 * j + 2) \o behind))
          /\ bled' = IF behind = <<>> THEN bled ELSE bled \union {j + 1}
     /\ UNCHANGED <<value, text>>

EncodingsSpec == EncodingsInit /\ [][ReadByte]_encodingVars

-----------------------------------------------------------------------------
(* A value that was written as text is read back byte for byte, leading      *)
(* zeros of a byte and of a number included, unless a digit happens to       *)
(* follow the two characters in memory; and such a digit spoils its byte     *)
(* only, not the ones after it.                                              *)
ReadBackExact == \A k \in 1 .. Len(hexarr) : k \notin bled => hexarr[k] = value[k]
=============================================================================
