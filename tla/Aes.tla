--------------------------------- MODULE Aes ---------------------------------
(***************************************************************************)
(* AESENC and then AESDEC with the same key: the key schedule each of them *)
(* loads for itself, and its rounds.  AESENC encrypts the document         *)
(* identifiers of a row, AESDEC gives the client its answers back; PRF and *)
(* PRF_K are AESENC.  The AES-NI instructions are external: S is SubBytes  *)
(* after ShiftRows, Mix is MixColumns.  One action per instruction.        *)
(***************************************************************************)
EXTENDS Integers

CONSTANTS AesBlocks,         \* 128-bit values
          XorB(_, _),
          S(_), SInv(_), Mix(_), MixInv(_),
          KeyExp(_, _)       \* the next round key, from one and the number of the round

(* What the instructions guarantee: xor is that of bits, the inverse         *)
(* instructions undo the others, and InvMixColumns is linear.                *)
ASSUME XorAssumption ==
  \A x, y \in AesBlocks : XorB(x, y) \in AesBlocks /\ XorB(XorB(x, y), y) = x
ASSUME InstructionsAssumption ==
  \A x \in AesBlocks :
    /\ S(x) \in AesBlocks /\ SInv(S(x)) = x
    /\ Mix(x) \in AesBlocks /\ MixInv(x) \in AesBlocks /\ MixInv(Mix(x)) = x
    /\ \A y \in AesBlocks : MixInv(XorB(x, y)) = XorB(MixInv(x), MixInv(y))
ASSUME KeyExpAssumption == \A x \in AesBlocks, i \in 1 .. 10 : KeyExp(x, i) \in AesBlocks

VARIABLES ptext, key,    \* the arguments
          key_schedule,  \* of the call that runs
          loaded,        \* entries of it that are set
          block, steps,  \* m, and the instructions done on it
          call,          \* the function that runs
          trace, keys    \* history: m after each instruction of AESENC, and its schedule
aesVars == <<ptext, key, key_schedule, loaded, block, steps, call, trace, keys>>

(* Mutant of InvertKeyAt: the middle keys in the order of encryption. *)
InvertKeyForward(i) == MixInv(key_schedule[i - 10])

(* DO_DEC_BLOCK goes through the keys from the last to the first. *)
InvertKeyAt(i) == MixInv(key_schedule[20 - i])

AesInit ==
  /\ ptext \in AesBlocks /\ key \in AesBlocks
  /\ key_schedule = [i \in 0 .. 19 |-> key] /\ loaded = 1
  /\ block = ptext /\ steps = 0 /\ call = "AESENC"
  /\ trace = [i \in 0 .. 10 |-> ptext] /\ keys = key_schedule

(* aes128_load_key_enc_only *)
ExpandKey ==
  /\ loaded \in 1 .. 10
  /\ key_schedule' = [key_schedule EXCEPT ![loaded] = KeyExp(key_schedule[loaded - 1], loaded)]
  /\ loaded' = loaded + 1
  /\ UNCHANGED <<ptext, key, block, steps, call, trace, keys>>

(* the rest of aes128_load_key *)
InvertKey ==
  /\ loaded \in 11 .. 19
  /\ key_schedule' = [key_schedule EXCEPT ![loaded] = InvertKeyAt(loaded)]
  /\ loaded' = loaded + 1
  /\ UNCHANGED <<ptext, key, block, steps, call, trace, keys>>

(* DO_ENC_BLOCK: xor, nine times aesenc, aesenclast. *)
EncStep(m) ==
  XorB(CASE steps = 0 -> m [] steps \in 1 .. 9 -> Mix(S(m)) [] steps = 10 -> S(m), key_schedule[steps])

Encrypt ==
  /\ call = "AESENC" /\ loaded = 20 /\ steps <= 10
  /\ block' = EncStep(block)
  /\ trace' = [trace EXCEPT ![steps] = EncStep(block)]
  /\ steps' = steps + 1
  /\ UNCHANGED <<ptext, key, key_schedule, loaded, call, keys>>

(* AESENC returns; AESDEC is called on what it wrote, and loads the key.     *)
CallDec ==
  /\ call = "AESENC" /\ steps = 11
  /\ call' = "AESDEC" /\ steps' = 0
  /\ keys' = key_schedule
  /\ key_schedule' = [i \in 0 .. 19 |-> key] /\ loaded' = 1
  /\ UNCHANGED <<ptext, key, block, trace>>

(* DO_DEC_BLOCK: the keys from entry 10 on, the last one entry 0. *)
DecStep(m) ==
  XorB(CASE steps = 0 -> m [] steps \in 1 .. 9 -> MixInv(SInv(m)) [] steps = 10 -> SInv(m),
       key_schedule[IF steps = 10 THEN 0 ELSE 10 + steps])

Decrypt ==
  /\ call = "AESDEC" /\ loaded = 20 /\ steps <= 10
  /\ block' = DecStep(block)
  /\ steps' = steps + 1
  /\ UNCHANGED <<ptext, key, key_schedule, loaded, call, trace, keys>>

AesNext == ExpandKey \/ InvertKey \/ Encrypt \/ CallDec \/ Decrypt
AesSpec == AesInit /\ [][AesNext]_aesVars

-----------------------------------------------------------------------------
AesTypeOK ==
  /\ ptext \in AesBlocks /\ key \in AesBlocks /\ block \in AesBlocks
  /\ key_schedule \in [0 .. 19 -> AesBlocks] /\ keys \in [0 .. 19 -> AesBlocks]
  /\ trace \in [0 .. 10 -> AesBlocks]
  /\ loaded \in 1 .. 20 /\ steps \in 0 .. 11
  /\ call \in {"AESENC", "AESDEC"}

(* The middle keys are those of encryption in reverse, brought through       *)
(* InvMixColumns; the first and the last are used as they are.               *)
ScheduleOk ==
  /\ key_schedule[0] = key
  /\ \A i \in 1 .. 10 : i < loaded => key_schedule[i] = KeyExp(key_schedule[i - 1], i)
  /\ \A i \in 11 .. 19 : i < loaded => key_schedule[i] = MixInv(key_schedule[20 - i])

(* While AESENC runs the history is that of the rounds so far.  AESDEC       *)
(* computes the same keys again and walks the rounds of AESENC back.         *)
TraceUpTo(last, ks) ==
  /\ last >= 0 => trace[0] = XorB(ptext, ks[0])
  /\ \A i \in 1 .. 9 : i <= last => trace[i] = XorB(Mix(S(trace[i - 1])), ks[i])
  /\ last >= 10 => trace[10] = XorB(S(trace[9]), ks[10])

EncProgress ==
  call = "AESENC" => /\ steps > 0 => loaded = 20
                     /\ TraceUpTo(steps - 1, key_schedule)
                     /\ block = IF steps = 0 THEN ptext ELSE trace[steps - 1]

DecProgress ==
  call = "AESDEC" =>
    /\ steps > 0 => loaded = 20
    /\ TraceUpTo(10, keys)
    /\ keys[0] = key /\ \A i \in 1 .. 10 : keys[i] = KeyExp(keys[i - 1], i)
    /\ \A i \in 0 .. 10 : i < loaded => key_schedule[i] = keys[i]
    /\ steps = 0 => block = trace[10]
    /\ steps \in 1 .. 10 => block = S(trace[10 - steps])
    /\ steps = 11 => block = ptext

AesInv == AesTypeOK /\ ScheduleOk /\ EncProgress /\ DecProgress

(* AESDEC gives back what AESENC was given, for every key and plaintext:     *)
(* the identifiers a client decrypts are the identifiers it stored.          *)
DecryptionInverts == call = "AESDEC" /\ steps = 11 => block = ptext
=============================================================================
