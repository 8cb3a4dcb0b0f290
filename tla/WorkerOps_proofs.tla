--------------------------- MODULE WorkerOps_proofs ---------------------------
(***************************************************************************)
(* What a worker computes, and the pool it is one of.                      *)
(*                                                                         *)
(* The pool keeps its rounds in step, loses no wake-up, has no data race   *)
(* and implements the abstract batch call, for any number of workers.      *)
(*                                                                         *)
(* AESDEC undoes AESENC, for every block size, substitution, linear layer  *)
(* and key expansion that satisfy the assumptions of module Aes.           *)
(*                                                                         *)
(* It does not matter which BLAKE3 kernel runs: the unlocked cache of the  *)
(* processor's features is harmless, for every number of threads and every *)
(* processor, since all that is ever written to it is the same value; the  *)
(* compression functions it chooses from compute the same words, for every *)
(* block and chaining value; and hash_many gives every input its own hash  *)
(* whatever widths the inputs are taken in.                                *)
(*                                                                         *)
(* The server's product of a token is the set-up's tag, for every curve,   *)
(* keyword, document and blinding.                                         *)
(***************************************************************************)
EXTENDS ThreadPool, Aes, Dispatch, Blake3Rounds, HashMany, Curve, Numbers, FiniteSetTheorems, TLAPS

-----------------------------------------------------------------------------
(* AES. *)

(* The parts of the assumptions, for citing one at a time. *)
LEMMA XorLaws ==
  \A x, y \in AesBlocks : XorB(x, y) \in AesBlocks /\ XorB(XorB(x, y), y) = x
  BY XorAssumption

(* SubBytes and ShiftRows, and what undoes them. *)
LEMMA SLaws == \A x \in AesBlocks : S(x) \in AesBlocks /\ SInv(S(x)) = x
  BY InstructionsAssumption

(* MixColumns, what undoes it, and its linearity. *)
LEMMA MixLaws ==
  /\ \A x \in AesBlocks : Mix(x) \in AesBlocks /\ MixInv(x) \in AesBlocks /\ MixInv(Mix(x)) = x
  /\ \A x, y \in AesBlocks : MixInv(XorB(x, y)) = XorB(MixInv(x), MixInv(y))
  BY InstructionsAssumption

(* The initial states satisfy the invariant. *)
LEMMA AesInitInv == AesInit => AesInv
  BY DEF AesInit, AesInv, AesTypeOK, ScheduleOk, EncProgress, DecProgress, TraceUpTo

(* Loading the next encryption key. *)
LEMMA ExpandKeyInv == AesInv /\ ExpandKey => AesInv'
<1> SUFFICES ASSUME AesInv, ExpandKey PROVE AesInv'
  OBVIOUS
<1> USE DEF AesInv
<1>1. AesTypeOK'
  BY KeyExpAssumption DEF AesTypeOK, ExpandKey
<1>2. ScheduleOk'
  BY DEF AesTypeOK, ScheduleOk, ExpandKey
<1>3. EncProgress'
  BY DEF AesTypeOK, EncProgress, TraceUpTo, ExpandKey
<1>4. DecProgress'
  BY DEF AesTypeOK, ScheduleOk, DecProgress, TraceUpTo, ExpandKey
<1> QED
  BY <1>1, <1>2, <1>3, <1>4

(* Loading the next decryption key. *)
LEMMA InvertKeyInv == AesInv /\ InvertKey => AesInv'
<1> SUFFICES ASSUME AesInv, InvertKey PROVE AesInv'
  OBVIOUS
<1> USE DEF AesInv
<1>0. InvertKeyAt(loaded) \in AesBlocks
  <2>1. 20 - loaded \in 1 .. 9 /\ key_schedule[20 - loaded] \in AesBlocks
    BY DEF AesTypeOK, InvertKey
  <2> QED
    BY <2>1, InstructionsAssumption DEF InvertKeyAt
<1>1. AesTypeOK'
  BY <1>0 DEF AesTypeOK, InvertKey
<1>2. ScheduleOk'
  BY DEF AesTypeOK, ScheduleOk, InvertKey, InvertKeyAt
<1>3. EncProgress'
  BY DEF AesTypeOK, EncProgress, TraceUpTo, InvertKey
<1>4. DecProgress'
  BY DEF AesTypeOK, DecProgress, TraceUpTo, InvertKey
<1> QED
  BY <1>1, <1>2, <1>3, <1>4

(* One instruction of DO_ENC_BLOCK. *)
LEMMA EncryptInv == AesInv /\ Encrypt => AesInv'
<1> SUFFICES ASSUME AesInv, Encrypt PROVE AesInv'
  OBVIOUS
<1> USE DEF AesInv
<1>0. EncStep(block) \in AesBlocks
  <2>1. /\ block \in AesBlocks /\ key_schedule[steps] \in AesBlocks
        /\ steps = 0 \/ steps \in 1 .. 9 \/ steps = 10
    BY DEF AesTypeOK, Encrypt
  <2>2. S(block) \in AesBlocks /\ Mix(S(block)) \in AesBlocks
    BY <2>1, SLaws, MixLaws
  <2>3. CASE steps = 0
    BY <2>1, <2>3, XorLaws DEF EncStep
  <2>4. CASE steps \in 1 .. 9
    <3>1. EncStep(block) = XorB(Mix(S(block)), key_schedule[steps])
      BY <2>4 DEF EncStep
    <3> QED
      BY <3>1, <2>1, <2>2, XorLaws
  <2>5. CASE steps = 10
    <3>1. EncStep(block) = XorB(S(block), key_schedule[steps])
      BY <2>5 DEF EncStep
    <3> QED
      BY <3>1, <2>1, <2>2, XorLaws
  <2> QED
    BY <2>1, <2>3, <2>4, <2>5
<1>1. AesTypeOK'
  BY <1>0 DEF AesTypeOK, Encrypt
<1>2. ScheduleOk'
  BY DEF ScheduleOk, Encrypt
<1>3. EncProgress'
  <2>1. trace'[steps] = EncStep(block) /\ \A i \in 0 .. 10 : i # steps => trace'[i] = trace[i]
    BY DEF AesTypeOK, Encrypt
  <2>2. /\ TraceUpTo(steps - 1, key_schedule)
        /\ block = IF steps = 0 THEN ptext ELSE trace[steps - 1]
        /\ key_schedule' = key_schedule /\ ptext' = ptext /\ steps \in 0 .. 10
        /\ steps' = steps + 1
    BY DEF AesTypeOK, EncProgress, Encrypt
  <2>3. steps = 0 => trace'[0] = XorB(ptext, key_schedule[0])
    BY <2>1, <2>2 DEF EncStep
  <2>4. steps \in 1 .. 9 => trace'[steps] = XorB(Mix(S(trace'[steps - 1])), key_schedule[steps])
    <3> SUFFICES ASSUME steps \in 1 .. 9
                 PROVE  trace'[steps] = XorB(Mix(S(trace'[steps - 1])), key_schedule[steps])
      OBVIOUS
    <3>1. EncStep(block) = XorB(Mix(S(block)), key_schedule[steps])
      BY DEF EncStep
    <3>2. trace'[steps - 1] = block
      BY <2>1, <2>2
    <3> QED
      BY <2>1, <3>1, <3>2
  <2>5. steps = 10 => trace'[10] = XorB(S(trace'[9]), key_schedule[10])
    BY <2>1, <2>2 DEF EncStep
  <2>6. \A i \in 1 .. 9 : i <= steps => trace'[i] = XorB(Mix(S(trace'[i - 1])), key_schedule[i])
    <3> SUFFICES ASSUME NEW i \in 1 .. 9, i < steps
                 PROVE  trace'[i] = XorB(Mix(S(trace'[i - 1])), key_schedule[i])
      BY <2>2, <2>4
    <3>1. trace'[i] = trace[i] /\ trace'[i - 1] = trace[i - 1]
      BY <2>1, <2>2
    <3> QED
      BY <2>2, <3>1 DEF TraceUpTo
  <2>7. TraceUpTo(steps - 1, key_schedule)'
    BY <2>1, <2>2, <2>3, <2>5, <2>6 DEF TraceUpTo
  <2> QED
    BY <2>1, <2>2, <2>7 DEF AesTypeOK, EncProgress, Encrypt
<1>4. DecProgress'
  BY DEF DecProgress, Encrypt
<1> QED
  BY <1>1, <1>2, <1>3, <1>4

(* AESENC returns and AESDEC starts. *)
LEMMA CallDecInv == AesInv /\ CallDec => AesInv'
<1> SUFFICES ASSUME AesInv, CallDec PROVE AesInv'
  OBVIOUS
<1> USE DEF AesInv
<1>1. AesTypeOK' /\ ScheduleOk' /\ EncProgress'
  BY DEF AesTypeOK, ScheduleOk, EncProgress, CallDec
<1>2. DecProgress'
  BY DEF AesTypeOK, ScheduleOk, EncProgress, DecProgress, TraceUpTo, CallDec
<1> QED
  BY <1>1, <1>2

(* One instruction of DO_DEC_BLOCK walks one instruction of AESENC back. *)
LEMMA DecryptInv == AesInv /\ Decrypt => AesInv'
<1> SUFFICES ASSUME AesInv, Decrypt PROVE AesInv'
  OBVIOUS
<1> USE DEF AesInv
<1>t. /\ trace \in [0 .. 10 -> AesBlocks] /\ keys \in [0 .. 19 -> AesBlocks]
      /\ TraceUpTo(10, keys) /\ ptext \in AesBlocks /\ steps \in 0 .. 10 /\ steps' = steps + 1
      /\ block' = DecStep(block)
      /\ \A i \in 0 .. 10 : key_schedule[i] = keys[i]
      /\ \A i \in 11 .. 19 : key_schedule[i] = MixInv(keys[20 - i])
  BY DEF AesTypeOK, ScheduleOk, DecProgress, Decrypt
<1>b. /\ steps = 0 => block = trace[10]
      /\ steps \in 1 .. 10 => block = S(trace[10 - steps])
  BY DEF DecProgress, Decrypt
<1>1. steps = 0 => block' = S(trace[9])
  <2> SUFFICES ASSUME steps = 0 PROVE block' = S(trace[9])
    OBVIOUS
  <2>1. block' = XorB(trace[10], keys[10])
    BY <1>t, <1>b DEF DecStep
  <2>2. trace[10] = XorB(S(trace[9]), keys[10])
    BY <1>t DEF TraceUpTo
  <2>3. S(trace[9]) \in AesBlocks /\ keys[10] \in AesBlocks
    BY <1>t, SLaws
  <2> QED
    BY <2>1, <2>2, <2>3, XorLaws
<1>2. steps \in 1 .. 9 => block' = S(trace[9 - steps])
  <2> SUFFICES ASSUME steps \in 1 .. 9 PROVE block' = S(trace[9 - steps])
    OBVIOUS
  <2>2. /\ 10 - steps \in 1 .. 9 /\ (10 - steps) - 1 = 9 - steps /\ 9 - steps \in 0 .. 10
        /\ 20 - (10 + steps) = 10 - steps /\ 10 + steps \in 11 .. 19
    OBVIOUS
  <2>t. /\ trace[10 - steps] \in AesBlocks /\ trace[9 - steps] \in AesBlocks
        /\ keys[10 - steps] \in AesBlocks
    BY <1>t, <2>2
  <2>1. SInv(block) = trace[10 - steps]
    BY <1>b, <2>t, SLaws
  <2>3. trace[10 - steps] = XorB(Mix(S(trace[9 - steps])), keys[10 - steps])
    <3>1. \A i \in 1 .. 9 : trace[i] = XorB(Mix(S(trace[i - 1])), keys[i])
      BY <1>t DEF TraceUpTo
    <3> QED
      BY <3>1, <2>2
  <2>4. key_schedule[10 + steps] = MixInv(keys[10 - steps])
    BY <1>t, <2>2
  <2> DEFINE x == Mix(S(trace[9 - steps]))
             y == keys[10 - steps]
  <2>5. x \in AesBlocks /\ MixInv(x) = S(trace[9 - steps]) /\ MixInv(x) \in AesBlocks
    BY <2>t, SLaws, MixLaws
  <2>6. MixInv(XorB(x, y)) = XorB(MixInv(x), MixInv(y)) /\ MixInv(y) \in AesBlocks
    BY <2>t, <2>5, MixLaws
  <2>7. XorB(XorB(MixInv(x), MixInv(y)), MixInv(y)) = MixInv(x)
    BY <2>5, <2>6, XorLaws
  <2>8. block' = XorB(MixInv(SInv(block)), key_schedule[10 + steps])
    BY <1>t DEF DecStep
  <2> QED
    BY <2>1, <2>3, <2>4, <2>5, <2>6, <2>7, <2>8
<1>3. steps = 10 => block' = ptext
  <2> SUFFICES ASSUME steps = 10 PROVE block' = ptext
    OBVIOUS
  <2>1. block' = XorB(SInv(block), keys[0])
    BY <1>t DEF DecStep
  <2>2. block = S(trace[0]) /\ trace[0] \in AesBlocks /\ keys[0] \in AesBlocks
    BY <1>t, <1>b
  <2>3. SInv(block) = trace[0]
    BY <2>2, SLaws
  <2>4. trace[0] = XorB(ptext, keys[0])
    BY <1>t DEF TraceUpTo
  <2> QED
    BY <1>t, <2>1, <2>2, <2>3, <2>4, XorLaws
<1>4. block' \in AesBlocks
  <2>1. CASE steps = 10
    BY <1>t, <1>3, <2>1
  <2>2. CASE steps \in 0 .. 9
    <3>1. block' = S(trace[9 - steps]) /\ 9 - steps \in 0 .. 10
      BY <1>1, <1>2, <2>2
    <3>2. trace[9 - steps] \in AesBlocks
      BY <1>t, <3>1
    <3> QED
      BY <3>1, <3>2, SLaws
  <2> QED
    BY <1>t, <2>1, <2>2
<1>5. AesTypeOK' /\ ScheduleOk' /\ EncProgress'
  BY <1>t, <1>4 DEF AesTypeOK, ScheduleOk, EncProgress, Decrypt
<1>6. DecProgress'
  BY <1>t, <1>1, <1>2, <1>3 DEF DecProgress, TraceUpTo, Decrypt
<1> QED
  BY <1>5, <1>6

(* The invariant holds throughout: the key schedules of the two calls agree, *)
(* and every decryption round undoes its encryption round.                   *)
THEOREM AesInvariant == AesSpec => []AesInv
<1>1. AesInit => AesInv
  BY AesInitInv
<1>2. AesInv /\ [AesNext]_aesVars => AesInv'
  <2> SUFFICES ASSUME AesInv, [AesNext]_aesVars PROVE AesInv'
    OBVIOUS
  <2>1. CASE UNCHANGED aesVars
    BY <2>1 DEF aesVars, AesInv, AesTypeOK, ScheduleOk, EncProgress, DecProgress, TraceUpTo
  <2> QED
    BY <2>1, ExpandKeyInv, InvertKeyInv, EncryptInv, CallDecInv, DecryptInv DEF AesNext
<1> QED
  BY <1>1, <1>2, PTL DEF AesSpec

(* AESDEC gives back what AESENC was given, for every key and plaintext. *)
THEOREM DecryptionCorrect == AesSpec => []DecryptionInverts
<1>1. AesInv => DecryptionInverts
  BY DEF AesInv, DecProgress, DecryptionInverts
<1> QED
  BY <1>1, AesInvariant, PTL

-----------------------------------------------------------------------------
(* The choice of a kernel. *)

Found == Detect(cpu)
Layout == <<"degree", "hash_many", "compress">>

CacheOK ==
  /\ cpu \in Processors
  /\ g_cpu_features \in {UNDEFINED, Found}
  /\ features \in [HashThreads -> {UNDEFINED, Found}]
  /\ missed \in [HashThreads -> BOOLEAN]

(* Where a thread may be in its calls. *)
CallsOK ==
  /\ calls \in [HashThreads -> {Layout, Tail(Layout), <<"compress">>, <<>>}]
  /\ \A t \in HashThreads : /\ missed[t] \/ features[t] # UNDEFINED => calls[t] # <<>>
                            /\ missed[t] => features[t] = UNDEFINED

(* What it has run, and the degree its subtree was laid out for. *)
KernelsOK ==
  /\ degree \in [HashThreads -> {0, simd_degree(Found)}]
  /\ DOMAIN kernels = HashThreads
  /\ \A t \in HashThreads :
       /\ calls[t] = Layout => kernels[t] = {}
       /\ calls[t] = Tail(Layout) => degree[t] = simd_degree(Found)
       /\ \A k \in kernels[t] :
            \/ k = <<"compress", compress(Found)>>
            \/ k = <<"hash_many", hash_many(Found)>> /\ degree[t] = simd_degree(Found)

DispatchInv == CacheOK /\ CallsOK /\ KernelsOK

(* The initial states satisfy the invariant. *)
LEMMA DispatchInitInv == DispatchInit => DispatchInv
<1> SUFFICES ASSUME DispatchInit PROVE DispatchInv
  OBVIOUS
<1>1. CacheOK
  BY DEF DispatchInit, CacheOK
<1>2. CallsOK
  BY DEF DispatchInit, CallsOK, Layout
<1>3. KernelsOK
  BY DEF DispatchInit, KernelsOK, Layout
<1> QED
  BY <1>1, <1>2, <1>3 DEF DispatchInv

(* Reading the cache gives the answer, or nothing. *)
LEMMA ReadCacheInv ==
  ASSUME DispatchInv, NEW t \in HashThreads, ReadCache(t) PROVE DispatchInv'
<1>1. CacheOK'
  BY DEF DispatchInv, CacheOK, ReadCache, Found
<1>2. CallsOK'
  BY DEF DispatchInv, CacheOK, CallsOK, ReadCache
<1>3. KernelsOK'
  BY DEF DispatchInv, KernelsOK, ReadCache, Found
<1> QED
  BY <1>1, <1>2, <1>3 DEF DispatchInv

(* Whoever stores into the cache stores the same. *)
LEMMA StoreCacheInv ==
  ASSUME DispatchInv, NEW t \in HashThreads, StoreCache(t) PROVE DispatchInv'
<1>1. CacheOK'
  BY DEF DispatchInv, CacheOK, StoreCache, Found
<1>2. CallsOK'
  BY DEF DispatchInv, CacheOK, CallsOK, StoreCache
<1>3. KernelsOK'
  BY DEF DispatchInv, KernelsOK, StoreCache, Found
<1> QED
  BY <1>1, <1>2, <1>3 DEF DispatchInv

(* A call runs the kernel of the processor's features, and after the degree  *)
(* was asked for nothing changes it before hash_many.                        *)
LEMMA DispatchStepInv ==
  ASSUME DispatchInv, NEW t \in HashThreads, Dispatch(t) PROVE DispatchInv'
<1> USE DEF DispatchInv
<1>1. features[t] = Found /\ Found' = Found
  BY DEF CacheOK, Dispatch, Found
<1>2. CacheOK'
  BY <1>1 DEF CacheOK, Dispatch
<1>3. calls[t] \in {Layout, Tail(Layout), <<"compress">>}
  BY DEF CallsOK, Dispatch
<1>4. /\ Head(Layout) = "degree" /\ Head(Tail(Layout)) = "hash_many" /\ Head(<<"compress">>) = "compress"
      /\ Tail(Tail(Layout)) = <<"compress">> /\ Tail(<<"compress">>) = <<>>
      /\ Layout # Tail(Layout) /\ Layout # <<"compress">> /\ Tail(Layout) # <<"compress">>
  BY DEF Layout
<1>5. CallsOK'
  <2>1. /\ calls' = [calls EXCEPT ![t] = Tail(calls[t])] /\ missed' = missed
        /\ features' = [features EXCEPT ![t] = UNDEFINED] /\ features[t] # UNDEFINED
    BY DEF Dispatch
  <2>2. ~missed[t]
    BY <2>1 DEF CacheOK, CallsOK
  <2> QED
    BY <1>3, <1>4, <2>1, <2>2 DEF CacheOK, CallsOK
<1>6. \A u \in HashThreads : u # t => /\ calls'[u] = calls[u] /\ degree'[u] = degree[u]
                                      /\ kernels'[u] = kernels[u]
  BY DEF CallsOK, KernelsOK, Dispatch
<1>7. DOMAIN kernels' = HashThreads /\ degree' \in [HashThreads -> {0, simd_degree(Found)}]
  BY <1>1 DEF KernelsOK, Dispatch
<1>8. /\ calls'[t] # Layout
      /\ calls'[t] = Tail(Layout) => degree'[t] = simd_degree(Found)
      /\ \A k \in kernels'[t] :
           \/ k = <<"compress", compress(Found)>>
           \/ k = <<"hash_many", hash_many(Found)>> /\ degree'[t] = simd_degree(Found)
  <2>1. CASE calls[t] = Layout
    <3>1. /\ calls'[t] = Tail(Layout) /\ kernels'[t] = {} /\ degree'[t] = simd_degree(Found)
      BY <1>1, <1>4, <2>1 DEF CallsOK, KernelsOK, Dispatch
    <3> QED
      BY <1>4, <3>1
  <2>2. CASE calls[t] = Tail(Layout)
    <3>1. /\ calls'[t] = <<"compress">> /\ degree'[t] = degree[t] /\ degree[t] = simd_degree(Found)
          /\ kernels'[t] = kernels[t] \cup {<<"hash_many", hash_many(Found)>>}
      BY <1>1, <1>4, <2>2 DEF CallsOK, KernelsOK, Dispatch
    <3> QED
      BY <1>4, <3>1 DEF KernelsOK
  <2>3. CASE calls[t] = <<"compress">>
    <3>1. /\ calls'[t] = <<>> /\ degree'[t] = degree[t]
          /\ kernels'[t] = kernels[t] \cup {<<"compress", compress(Found)>>}
      BY <1>1, <1>4, <2>3 DEF CallsOK, KernelsOK, Dispatch
    <3>2. <<>> # Layout /\ <<>> # Tail(Layout)
      BY DEF Layout
    <3> QED
      BY <3>1, <3>2 DEF KernelsOK
  <2> QED
    BY <1>3, <2>1, <2>2, <2>3
<1>9. KernelsOK'
  <2> SUFFICES ASSUME NEW u \in HashThreads
               PROVE  /\ calls'[u] = Layout => kernels'[u] = {}
                      /\ calls'[u] = Tail(Layout) => degree'[u] = simd_degree(Found)
                      /\ \A k \in kernels'[u] :
                           \/ k = <<"compress", compress(Found)>>
                           \/ k = <<"hash_many", hash_many(Found)>> /\ degree'[u] = simd_degree(Found)
    BY <1>1, <1>7 DEF KernelsOK, Layout
  <2>1. CASE u = t
    BY <1>8, <2>1
  <2>2. CASE u # t
    BY <1>6, <2>2 DEF KernelsOK
  <2> QED
    BY <2>1, <2>2
<1> QED
  BY <1>2, <1>5, <1>9

(* The invariant holds in every reachable state. *)
LEMMA DispatchInvariant == DispatchSpec => []DispatchInv
<1>1. DispatchInv /\ [DispatchNext]_dispatchVars => DispatchInv'
  <2> SUFFICES ASSUME DispatchInv, [DispatchNext]_dispatchVars PROVE DispatchInv'
    OBVIOUS
  <2>1. CASE DispatchNext
    BY <2>1, ReadCacheInv, StoreCacheInv, DispatchStepInv DEF DispatchNext
  <2>2. CASE UNCHANGED dispatchVars
    BY <2>2 DEF dispatchVars, DispatchInv, CacheOK, CallsOK, KernelsOK, Found, Layout
  <2> QED
    BY <2>1, <2>2
<1> QED
  BY <1>1, DispatchInitInv, PTL DEF DispatchSpec

(* Every kernel that the features of a processor select runs on it. *)
LEMMA ChoiceSupported ==
  ASSUME NEW c \in Processors, NEW k \in {hash_many(Detect(c)), compress(Detect(c))}
  PROVE  /\ Needs(k).bits \subseteq c.bits
         /\ Needs(k).states # {} => "OSXSAVE" \in c.bits /\ Needs(k).states \subseteq c.xcr0
<1>1. /\ "SSE41" \in Detect(c) => {"SSE41", "SSSE3"} \subseteq c.bits
      /\ "AVX2" \in Detect(c) => "AVX2" \in c.bits /\ "OSXSAVE" \in c.bits /\ YmmState \subseteq c.xcr0
      /\ "AVX512VL" \in Detect(c) => /\ {"AVX512F", "AVX512VL"} \subseteq c.bits
                                     /\ "OSXSAVE" \in c.bits /\ YmmState \cup ZmmState \subseteq c.xcr0
  BY ProcessorsAssumption DEF Detect
<1>2. \/ k = "avx512" /\ "AVX512VL" \in Detect(c)
      \/ k = "avx2" /\ "AVX2" \in Detect(c)
      \/ k = "sse41" /\ "SSE41" \in Detect(c)
      \/ k \in {"sse2", "portable"}
  BY DEF hash_many, compress, WideAvx512
<1> QED
  BY <1>1, <1>2 DEF Needs

(* For every number of threads, every processor and every interleaving of    *)
(* reads and writes of the cache, a worker runs only kernels the processor   *)
(* executes, and hash_many the one its subtree was laid out for.             *)
THEOREM KernelsAlwaysSupported == DispatchSpec => []KernelsSupported
<1>1. DispatchInv => KernelsSupported
  <2> SUFFICES ASSUME DispatchInv, NEW t \in HashThreads, NEW k \in kernels[t]
               PROVE  /\ Needs(k[2]).bits \subseteq cpu.bits
                      /\ Needs(k[2]).states # {} =>
                           "OSXSAVE" \in cpu.bits /\ Needs(k[2]).states \subseteq cpu.xcr0
                      /\ k[1] = "hash_many" => KernelLanes(k[2]) = degree[t]
    BY DEF KernelsSupported
  <2>1. \/ k = <<"compress", compress(Found)>>
        \/ k = <<"hash_many", hash_many(Found)>> /\ degree[t] = simd_degree(Found)
    BY DEF DispatchInv, KernelsOK
  <2>2. k[2] \in {hash_many(Detect(cpu)), compress(Detect(cpu))} /\ cpu \in Processors
    BY <2>1 DEF Found, DispatchInv, CacheOK
  <2>3. k[1] = "hash_many" => k[2] = hash_many(Found) /\ degree[t] = simd_degree(Found)
    BY <2>1
  <2>4. KernelLanes(hash_many(Found)) = simd_degree(Found)
    BY DEF KernelLanes, hash_many, simd_degree
  <2> QED
    BY <2>2, <2>3, <2>4, ChoiceSupported
<1> QED
  BY <1>1, DispatchInvariant, PTL

-----------------------------------------------------------------------------
(* What the rounds rely on: the operations stay inside the words, addends    *)
(* may change places, and a byte shuffle is the rotation it stands for.      *)
WordOps(Word) ==
  /\ \A x, y \in Word : Add(x, y) \in Word /\ Xor(x, y) \in Word
  /\ \A x \in Word, c \in {16, 12, 8, 7} : Rotr(x, c) \in Word
  /\ \A x, y, z \in Word : Add(Add(x, y), z) = Add(Add(x, z), y)
  /\ \A x \in Word : RotrBytes(x, 2) = Rotr(x, 16) /\ RotrBytes(x, 1) = Rotr(x, 8)

(* Addends may change places. *)
LEMMA AddSwap ==
  ASSUME NEW Word, WordOps(Word), NEW a \in Word, NEW b \in Word, NEW c \in Word
  PROVE  Add(Add(a, b), c) = Add(Add(a, c), b)
<1>1. \A x, y, z \in Word : Add(Add(x, y), z) = Add(Add(x, z), y)
  BY DEF WordOps
<1> QED
  BY <1>1

Fours(Word) == Word \X Word \X Word \X Word

(* g on four words. *)
GQ(q, x, y) == half_g(half_g(q, x, 16, 12), y, 8, 7)

(* Half of g stays inside the words; its four words one by one.              *)
IsHalf(Word, q, x, n, k, h) ==
  /\ h \in Fours(Word)
  /\ h[1] = Add(Add(q[1], q[2]), x) /\ h[4] = Rotr(Xor(q[4], h[1]), n)
  /\ h[3] = Add(q[3], h[4]) /\ h[2] = Rotr(Xor(q[2], h[3]), k)

LEMMA HalfType ==
  ASSUME NEW Word, WordOps(Word), NEW q \in Fours(Word), NEW x \in Word,
         NEW n \in {16, 8}, NEW k \in {12, 7}
  PROVE  IsHalf(Word, q, x, n, k, half_g(q, x, n, k))
<1>1. q[1] \in Word /\ q[2] \in Word /\ q[3] \in Word /\ q[4] \in Word
  BY DEF Fours
<1>2. PICK a : a = Add(Add(q[1], q[2]), x)
  OBVIOUS
<1>3. PICK d : d = Rotr(Xor(q[4], a), n)
  OBVIOUS
<1>4. PICK c : c = Add(q[3], d)
  OBVIOUS
<1>5. PICK b : b = Rotr(Xor(q[2], c), k)
  OBVIOUS
<1>6. a \in Word
  BY <1>1, <1>2 DEF WordOps
<1>7. d \in Word
  BY <1>1, <1>3, <1>6 DEF WordOps
<1>8. c \in Word
  BY <1>1, <1>4, <1>7 DEF WordOps
<1>9. b \in Word
  BY <1>1, <1>5, <1>8 DEF WordOps
<1>10. half_g(q, x, n, k) = <<a, b, c, d>>
  BY <1>2, <1>3, <1>4, <1>5, Zenon DEF half_g
<1> QED
  BY <1>2, <1>3, <1>4, <1>5, <1>6, <1>7, <1>8, <1>9, <1>10 DEF Fours, IsHalf

(* g on four words stays inside the words. *)
LEMMA GQType ==
  ASSUME NEW Word, WordOps(Word), NEW q \in Fours(Word), NEW x \in Word, NEW y \in Word
  PROVE  GQ(q, x, y) \in Fours(Word)
<1>1. PICK h : h = half_g(q, x, 16, 12)
  OBVIOUS
<1>2. IsHalf(Word, q, x, 16, 12, h)
  BY <1>1, HalfType
<1>3. h \in Fours(Word)
  BY <1>2 DEF IsHalf
<1>4. IsHalf(Word, h, y, 8, 7, half_g(h, y, 8, 7))
  BY <1>3, HalfType
<1> QED
  BY <1>1, <1>4 DEF GQ, IsHalf

-----------------------------------------------------------------------------
(* Four different places of a state. *)
Places == {p \in (0 .. 15) \X (0 .. 15) \X (0 .. 15) \X (0 .. 15) :
             p[1] # p[2] /\ p[1] # p[3] /\ p[1] # p[4] /\ p[2] # p[3] /\ p[2] # p[4] /\ p[3] # p[4]}

(* A state differs from another at four places only. *)
Keeps(s, t, p) == \A i \in 0 .. 15 : i \notin {p[1], p[2], p[3], p[4]} => t[i] = s[i]

(* What g makes of a state s. *)
Stepped(s, t, p, x, y) == At(t, p) = GQ(At(s, p), x, y) /\ Keeps(s, t, p)

(* Words that are put somewhere are there, and the others stay.              *)
LEMMA PutAt ==
  ASSUME NEW Word, NEW s \in [0 .. 15 -> Word], NEW p \in Places,
         NEW a \in Word, NEW b \in Word, NEW c \in Word, NEW d \in Word
  PROVE  /\ Put(s, p, <<a, b, c, d>>) \in [0 .. 15 -> Word]
         /\ At(Put(s, p, <<a, b, c, d>>), p) = <<a, b, c, d>>
         /\ Keeps(s, Put(s, p, <<a, b, c, d>>), p)
<1>1. /\ p[1] \in 0 .. 15 /\ p[2] \in 0 .. 15 /\ p[3] \in 0 .. 15 /\ p[4] \in 0 .. 15
      /\ p[1] # p[2] /\ p[1] # p[3] /\ p[1] # p[4] /\ p[2] # p[3] /\ p[2] # p[4] /\ p[3] # p[4]
  BY DEF Places
<1>2. PICK t : t = Put(s, p, <<a, b, c, d>>)
  OBVIOUS
<1>3. t = [s EXCEPT ![p[1]] = a, ![p[2]] = b, ![p[3]] = c, ![p[4]] = d]
  BY <1>2 DEF Put
<1>4. /\ t \in [0 .. 15 -> Word]
      /\ t[p[1]] = a /\ t[p[2]] = b /\ t[p[3]] = c /\ t[p[4]] = d
      /\ \A i \in 0 .. 15 : i \notin {p[1], p[2], p[3], p[4]} => t[i] = s[i]
  BY <1>1, <1>3
<1>5. At(t, p) = <<a, b, c, d>>
  BY <1>4 DEF At
<1> QED
  BY <1>2, <1>4, <1>5 DEF Keeps

(* g of the portable code takes four words to GQ of them, and leaves the     *)
(* others alone.                                                             *)
LEMMA GStep ==
  ASSUME NEW Word, WordOps(Word), NEW s \in [0 .. 15 -> Word], NEW x \in Word, NEW y \in Word,
         NEW p \in Places
  PROVE  /\ g(s, p, x, y) \in [0 .. 15 -> Word]
         /\ Stepped(s, g(s, p, x, y), p, x, y)
<1>1. At(s, p) \in Fours(Word)
  BY DEF Fours, At, Places
<1>2. PICK q \in Fours(Word) : q = GQ(At(s, p), x, y)
  BY <1>1, GQType
<1>3. g(s, p, x, y) = Put(s, p, q)
  BY <1>2 DEF g, GQ
<1>4. PICK a \in Word, b \in Word, c \in Word, d \in Word : q = <<a, b, c, d>>
  BY <1>2 DEF Fours
<1>5. /\ Put(s, p, <<a, b, c, d>>) \in [0 .. 15 -> Word]
      /\ At(Put(s, p, <<a, b, c, d>>), p) = <<a, b, c, d>>
      /\ Keeps(s, Put(s, p, <<a, b, c, d>>), p)
  BY <1>4, PutAt
<1>6. g(s, p, x, y) = Put(s, p, <<a, b, c, d>>)
  BY <1>3, <1>4
<1> QED
  BY <1>2, <1>4, <1>5, <1>6, Zenon DEF Stepped

-----------------------------------------------------------------------------
(* The places of a column (turn 0) or diagonal (turn 1): Place, written out. *)
LEMMA PlacesOfTurn ==
  /\ Place(0, 0) = <<0, 4, 8, 12>> /\ Place(0, 1) = <<1, 5, 9, 13>>
  /\ Place(0, 2) = <<2, 6, 10, 14>> /\ Place(0, 3) = <<3, 7, 11, 15>>
  /\ Place(1, 0) = <<0, 5, 10, 15>> /\ Place(1, 1) = <<1, 6, 11, 12>>
  /\ Place(1, 2) = <<2, 7, 8, 13>> /\ Place(1, 3) = <<3, 4, 9, 14>>
  BY DEF Place

(* What G does to the columns, or the diagonals: nothing that one of them    *)
(* reads is written by another.                                              *)
Mixed(s, t, turn, x, y) ==
  \A i \in 0 .. 3 : At(t, Place(turn, i)) = GQ(At(s, Place(turn, i)), x[i], y[i])

(* The columns have no places in common, and neither have the diagonals.     *)
LEMMA KeepsOther ==
  ASSUME NEW turn \in {0, 1}, NEW i \in 0 .. 3, NEW j \in 0 .. 3, i # j, NEW s, NEW t,
         Keeps(s, t, Place(turn, i))
  PROVE  At(t, Place(turn, j)) = At(s, Place(turn, j))
<1>1. \A p, q : Keeps(s, t, p)
               /\ {q[1], q[2], q[3], q[4]} \cap {p[1], p[2], p[3], p[4]} = {}
               /\ q[1] \in 0 .. 15 /\ q[2] \in 0 .. 15 /\ q[3] \in 0 .. 15 /\ q[4] \in 0 .. 15
               => At(t, q) = At(s, q)
  BY DEF Keeps, At
<1>2. ASSUME NEW p, NEW q, p = Place(turn, i), q = Place(turn, j)
      PROVE  {q[1], q[2], q[3], q[4]} \cap {p[1], p[2], p[3], p[4]} = {}
             /\ q[1] \in 0 .. 15 /\ q[2] \in 0 .. 15 /\ q[3] \in 0 .. 15 /\ q[4] \in 0 .. 15
  <2>1. i \in {0, 1, 2, 3} /\ j \in {0, 1, 2, 3}
    OBVIOUS
  <2>2. CASE turn = 0
    <3>1. \A k \in {0, 1, 2, 3} : Place(0, k) = <<k, k + 4, k + 8, k + 12>>
      BY PlacesOfTurn
    <3> QED
      BY <1>2, <2>1, <2>2, <3>1
  <2>3. CASE turn = 1
    <3>1. /\ p \in {<<0, 5, 10, 15>>, <<1, 6, 11, 12>>, <<2, 7, 8, 13>>, <<3, 4, 9, 14>>}
          /\ q \in {<<0, 5, 10, 15>>, <<1, 6, 11, 12>>, <<2, 7, 8, 13>>, <<3, 4, 9, 14>>}
          /\ p[1] = i /\ q[1] = j
      BY <1>2, <2>1, <2>3, PlacesOfTurn
    <3> QED
      BY <3>1
  <2> QED
    BY <2>2, <2>3
<1> QED
  BY <1>1, <1>2

(* G at each of the four columns, or diagonals, one after the other.         *)
LEMMA FourG ==
  ASSUME NEW Word, WordOps(Word), NEW turn \in {0, 1},
         NEW x \in [0 .. 3 -> Word], NEW y \in [0 .. 3 -> Word],
         NEW s \in [0 .. 15 -> Word],
         NEW s0, s0 = g(s, Place(turn, 0), x[0], y[0]),
         NEW s1, s1 = g(s0, Place(turn, 1), x[1], y[1]),
         NEW s2, s2 = g(s1, Place(turn, 2), x[2], y[2]),
         NEW s3, s3 = g(s2, Place(turn, 3), x[3], y[3])
  PROVE  s3 \in [0 .. 15 -> Word] /\ Mixed(s, s3, turn, x, y)
<1>1. /\ Place(turn, 0) \in Places /\ Place(turn, 1) \in Places
      /\ Place(turn, 2) \in Places /\ Place(turn, 3) \in Places
  BY PlacesOfTurn DEF Places
<1>2. s0 \in [0 .. 15 -> Word] /\ Stepped(s, s0, Place(turn, 0), x[0], y[0])
  <2>1. Place(turn, 0) \in Places /\ x[0] \in Word /\ y[0] \in Word /\ s \in [0 .. 15 -> Word]
    BY <1>1
  <2> QED
    BY <2>1, GStep, Zenon
<1>3. s1 \in [0 .. 15 -> Word] /\ Stepped(s0, s1, Place(turn, 1), x[1], y[1])
  <2>1. Place(turn, 1) \in Places /\ x[1] \in Word /\ y[1] \in Word /\ s0 \in [0 .. 15 -> Word]
    BY <1>1, <1>2
  <2> QED
    BY <2>1, GStep, Zenon
<1>4. s2 \in [0 .. 15 -> Word] /\ Stepped(s1, s2, Place(turn, 2), x[2], y[2])
  <2>1. Place(turn, 2) \in Places /\ x[2] \in Word /\ y[2] \in Word /\ s1 \in [0 .. 15 -> Word]
    BY <1>1, <1>3
  <2> QED
    BY <2>1, GStep, Zenon
<1>5. s3 \in [0 .. 15 -> Word] /\ Stepped(s2, s3, Place(turn, 3), x[3], y[3])
  <2>1. Place(turn, 3) \in Places /\ x[3] \in Word /\ y[3] \in Word /\ s2 \in [0 .. 15 -> Word]
    BY <1>1, <1>4
  <2> QED
    BY <2>1, GStep, Zenon
<1>6. \A i, j \in 0 .. 3 : i # j =>
        /\ i = 0 => At(s0, Place(turn, j)) = At(s, Place(turn, j))
        /\ i = 1 => At(s1, Place(turn, j)) = At(s0, Place(turn, j))
        /\ i = 2 => At(s2, Place(turn, j)) = At(s1, Place(turn, j))
        /\ i = 3 => At(s3, Place(turn, j)) = At(s2, Place(turn, j))
  BY <1>2, <1>3, <1>4, <1>5, KeepsOther DEF Stepped
<1>7. /\ At(s3, Place(turn, 0)) = GQ(At(s, Place(turn, 0)), x[0], y[0])
      /\ At(s3, Place(turn, 1)) = GQ(At(s, Place(turn, 1)), x[1], y[1])
      /\ At(s3, Place(turn, 2)) = GQ(At(s, Place(turn, 2)), x[2], y[2])
      /\ At(s3, Place(turn, 3)) = GQ(At(s, Place(turn, 3)), x[3], y[3])
  BY <1>2, <1>3, <1>4, <1>5, <1>6 DEF Stepped
<1> QED
  BY <1>5, <1>7 DEF Mixed

(* A round of the portable code: the columns, then the diagonals.            *)
TwoTurns(Word, s, u, msg) ==
  \E t \in [0 .. 15 -> Word] :
    /\ Mixed(s, t, 0, [i \in 0 .. 3 |-> msg[schedule(2 * i)]], [i \in 0 .. 3 |-> msg[schedule(2 * i + 1)]])
    /\ Mixed(t, u, 1, [i \in 0 .. 3 |-> msg[schedule(8 + 2 * i)]], [i \in 0 .. 3 |-> msg[schedule(9 + 2 * i)]])

LEMMA PortableMixes ==
  ASSUME NEW Word, WordOps(Word), r \in 0 .. 6,
         NEW s \in [0 .. 15 -> Word], NEW msg \in [0 .. 15 -> Word]
  PROVE  /\ PortableRound(s, msg) \in [0 .. 15 -> Word]
         /\ TwoTurns(Word, s, PortableRound(s, msg), msg)
<1> DEFINE W(first) == [i \in 0 .. 3 |-> msg[schedule(first + 2 * i)]]
<1>0. \A i \in 0 .. 15 : schedule(i) \in 0 .. 15
  BY DEF schedule, MSG_SCHEDULE
<1>1. ASSUME NEW first \in {0, 1, 8, 9} PROVE W(first) \in [0 .. 3 -> Word]
  BY <1>0
<1>2. PICK s0 : s0 = g(s, <<0, 4, 8, 12>>, msg[schedule(0)], msg[schedule(1)])
  OBVIOUS
<1>3. PICK s1 : s1 = g(s0, <<1, 5, 9, 13>>, msg[schedule(2)], msg[schedule(3)])
  OBVIOUS
<1>4. PICK s2 : s2 = g(s1, <<2, 6, 10, 14>>, msg[schedule(4)], msg[schedule(5)])
  OBVIOUS
<1>5. PICK s3 : s3 = g(s2, <<3, 7, 11, 15>>, msg[schedule(6)], msg[schedule(7)])
  OBVIOUS
<1>6. PICK s4 : s4 = g(s3, <<0, 5, 10, 15>>, msg[schedule(8)], msg[schedule(9)])
  OBVIOUS
<1>7. PICK s5 : s5 = g(s4, <<1, 6, 11, 12>>, msg[schedule(10)], msg[schedule(11)])
  OBVIOUS
<1>8. PICK s6 : s6 = g(s5, <<2, 7, 8, 13>>, msg[schedule(12)], msg[schedule(13)])
  OBVIOUS
<1>9. PICK s7 : s7 = g(s6, <<3, 4, 9, 14>>, msg[schedule(14)], msg[schedule(15)])
  OBVIOUS
<1>10. PortableRound(s, msg) = s7
  <2>1. /\ 2 * 0 = 0 /\ 2 * 0 + 1 = 1 /\ 2 * 1 = 2 /\ 2 * 1 + 1 = 3
        /\ 2 * 2 = 4 /\ 2 * 2 + 1 = 5 /\ 2 * 3 = 6 /\ 2 * 3 + 1 = 7
        /\ 2 * 4 = 8 /\ 2 * 4 + 1 = 9 /\ 2 * 5 = 10 /\ 2 * 5 + 1 = 11
        /\ 2 * 6 = 12 /\ 2 * 6 + 1 = 13 /\ 2 * 7 = 14 /\ 2 * 7 + 1 = 15
    OBVIOUS
  <2> QED
    BY <1>2, <1>3, <1>4, <1>5, <1>6, <1>7, <1>8, <1>9, <2>1, Zenon DEF PortableRound
<1>11. s3 \in [0 .. 15 -> Word] /\ Mixed(s, s3, 0, W(0), W(1))
  <2>1. /\ s0 = g(s, Place(0, 0), W(0)[0], W(1)[0]) /\ s1 = g(s0, Place(0, 1), W(0)[1], W(1)[1])
        /\ s2 = g(s1, Place(0, 2), W(0)[2], W(1)[2]) /\ s3 = g(s2, Place(0, 3), W(0)[3], W(1)[3])
    BY <1>2, <1>3, <1>4, <1>5, PlacesOfTurn
  <2>2. W(0) \in [0 .. 3 -> Word] /\ W(1) \in [0 .. 3 -> Word]
    BY <1>1
  <2> HIDE DEF W
  <2> QED
    BY <2>1, <2>2, FourG
<1>12. s7 \in [0 .. 15 -> Word] /\ Mixed(s3, s7, 1, W(8), W(9))
  <2>1. /\ s4 = g(s3, Place(1, 0), W(8)[0], W(9)[0]) /\ s5 = g(s4, Place(1, 1), W(8)[1], W(9)[1])
        /\ s6 = g(s5, Place(1, 2), W(8)[2], W(9)[2]) /\ s7 = g(s6, Place(1, 3), W(8)[3], W(9)[3])
    BY <1>6, <1>7, <1>8, <1>9, PlacesOfTurn
  <2>2. W(8) \in [0 .. 3 -> Word] /\ W(9) \in [0 .. 3 -> Word]
    BY <1>1
  <2> HIDE DEF W
  <2> QED
    BY <1>11, <2>1, <2>2, FourG
<1>13. /\ W(0) = [i \in 0 .. 3 |-> msg[schedule(2 * i)]]
       /\ W(1) = [i \in 0 .. 3 |-> msg[schedule(2 * i + 1)]]
  OBVIOUS
<1> QED
  BY <1>10, <1>11, <1>12, <1>13 DEF TwoTurns

-----------------------------------------------------------------------------
(* Vectors of four words. *)
VecOf(Word, x) == \A c \in 1 .. 4 : x[c] \in Word
Column(R, c) == <<R[1][c], R[2][c], R[3][c], R[4][c]>>
Grids(Word) == Fours(Fours(Word))

LEMMA AddVType ==
  ASSUME NEW Word, WordOps(Word), NEW x, VecOf(Word, x), NEW y, VecOf(Word, y)
  PROVE  /\ AddV(x, y) \in Fours(Word) /\ VecOf(Word, AddV(x, y))
         /\ \A c \in 1 .. 4 : AddV(x, y)[c] = Add(x[c], y[c])
<1>1. \A c \in 1 .. 4 : Add(x[c], y[c]) \in Word
  BY DEF WordOps, VecOf
<1> QED
  BY <1>1 DEF AddV, Fours, VecOf

LEMMA XorVType ==
  ASSUME NEW Word, WordOps(Word), NEW x, VecOf(Word, x), NEW y, VecOf(Word, y)
  PROVE  /\ XorV(x, y) \in Fours(Word) /\ VecOf(Word, XorV(x, y))
         /\ \A c \in 1 .. 4 : XorV(x, y)[c] = Xor(x[c], y[c])
<1>1. \A c \in 1 .. 4 : Xor(x[c], y[c]) \in Word
  BY DEF WordOps, VecOf
<1> QED
  BY <1>1 DEF XorV, Fours, VecOf

(* Whichever way an instruction set rotates. *)
LEMMA RotType ==
  ASSUME NEW Word, WordOps(Word), NEW x, VecOf(Word, x), NEW n \in {16, 12, 8, 7}
  PROVE  /\ Rot(x, n) \in Fours(Word) /\ VecOf(Word, Rot(x, n))
         /\ \A c \in 1 .. 4 : Rot(x, n)[c] = Rotr(x[c], n)
<1>1. \A c \in 1 .. 4 : /\ Rotr(x[c], n) \in Word
                        /\ RotrBytes(x[c], 2) = Rotr(x[c], 16) /\ RotrBytes(x[c], 1) = Rotr(x[c], 8)
  BY DEF WordOps, VecOf
<1>2. Rot(x, n) = RotrV(x, n)
  <2>1. CASE n = 16
    BY <1>1, <2>1 DEF Rot, rot16, RotrV, ShuffleV
  <2>2. CASE n = 12
    BY <2>2 DEF Rot, rot12
  <2>3. CASE n = 8
    BY <1>1, <2>3 DEF Rot, rot8, RotrV, ShuffleV
  <2>4. CASE n = 7
    BY <2>4 DEF Rot, rot7
  <2> QED
    BY <2>1, <2>2, <2>3, <2>4
<1> QED
  BY <1>1, <1>2 DEF RotrV, Fours, VecOf

LEMMA FoursVec ==
  ASSUME NEW Word, NEW x \in Fours(Word)
  PROVE  VecOf(Word, x) /\ x = <<x[1], x[2], x[3], x[4]>>
  BY DEF Fours, VecOf

(* Half of g on four vectors is half of g on each of their columns. *)
LEMMA HalfColumns ==
  ASSUME NEW Word, WordOps(Word), NEW R \in Grids(Word), NEW x, VecOf(Word, x),
         NEW n \in {16, 8}, NEW k \in {12, 7}
  PROVE  /\ Half(R, x, n, k) \in Grids(Word)
         /\ \A c \in 1 .. 4 : Column(Half(R, x, n, k), c) = half_g(Column(R, c), x[c], n, k)
<1>1. /\ R[1] \in Fours(Word) /\ R[2] \in Fours(Word) /\ R[3] \in Fours(Word) /\ R[4] \in Fours(Word)
      /\ VecOf(Word, R[1]) /\ VecOf(Word, R[2]) /\ VecOf(Word, R[3]) /\ VecOf(Word, R[4])
  BY FoursVec DEF Grids, Fours
<1>a. PICK row : row = AddV(R[1], x)
  OBVIOUS
<1>b. PICK row0 : row0 = AddV(row, R[2])
  OBVIOUS
<1>c. PICK xor3 : xor3 = XorV(R[4], row0)
  OBVIOUS
<1>d. PICK row3 : row3 = Rot(xor3, n)
  OBVIOUS
<1>e. PICK row2 : row2 = AddV(R[3], row3)
  OBVIOUS
<1>f. PICK xor1 : xor1 = XorV(R[2], row2)
  OBVIOUS
<1>g. PICK row1 : row1 = Rot(xor1, k)
  OBVIOUS
<1>2. row \in Fours(Word) /\ VecOf(Word, row) /\ \A c \in 1 .. 4 : row[c] = Add(R[1][c], x[c])
  BY <1>1, <1>a, AddVType
<1>3. row0 \in Fours(Word) /\ VecOf(Word, row0) /\ \A c \in 1 .. 4 : row0[c] = Add(row[c], R[2][c])
  BY <1>1, <1>2, <1>b, AddVType
<1>4. xor3 \in Fours(Word) /\ VecOf(Word, xor3) /\ \A c \in 1 .. 4 : xor3[c] = Xor(R[4][c], row0[c])
  BY <1>1, <1>3, <1>c, XorVType
<1>5. row3 \in Fours(Word) /\ VecOf(Word, row3) /\ \A c \in 1 .. 4 : row3[c] = Rotr(xor3[c], n)
  BY <1>1, <1>4, <1>d, RotType
<1>6. row2 \in Fours(Word) /\ VecOf(Word, row2) /\ \A c \in 1 .. 4 : row2[c] = Add(R[3][c], row3[c])
  BY <1>1, <1>5, <1>e, AddVType
<1>7. xor1 \in Fours(Word) /\ VecOf(Word, xor1) /\ \A c \in 1 .. 4 : xor1[c] = Xor(R[2][c], row2[c])
  BY <1>1, <1>6, <1>f, XorVType
<1>8. row1 \in Fours(Word) /\ VecOf(Word, row1) /\ \A c \in 1 .. 4 : row1[c] = Rotr(xor1[c], k)
  BY <1>1, <1>7, <1>g, RotType
<1>9. Half(R, x, n, k) = <<row0, row1, row2, row3>>
  BY <1>a, <1>b, <1>c, <1>d, <1>e, <1>f, <1>g DEF Half
<1>10. ASSUME NEW c \in 1 .. 4
       PROVE  <<row0[c], row1[c], row2[c], row3[c]>> = half_g(Column(R, c), x[c], n, k)
  <2>1. PICK q : q = Column(R, c)
    OBVIOUS
  <2>2. /\ q \in Fours(Word) /\ x[c] \in Word
        /\ q[1] = R[1][c] /\ q[2] = R[2][c] /\ q[3] = R[3][c] /\ q[4] = R[4][c]
    BY <1>1, <2>1 DEF Column, Fours, VecOf
  <2>a. PICK h : h = half_g(q, x[c], n, k)
    OBVIOUS
  <2>3. /\ h \in Fours(Word)
        /\ h[1] = Add(Add(q[1], q[2]), x[c]) /\ h[4] = Rotr(Xor(q[4], h[1]), n)
        /\ h[3] = Add(q[3], h[4]) /\ h[2] = Rotr(Xor(q[2], h[3]), k)
    <3>1. q \in Fours(Word) /\ x[c] \in Word
      BY <2>2
    <3>2. IsHalf(Word, q, x[c], n, k, half_g(q, x[c], n, k))
      BY <3>1, HalfType, Zenon
    <3> QED
      BY <2>a, <3>2 DEF IsHalf
  <2>4. row0[c] = h[1]
    <3>1. q[1] \in Word /\ q[2] \in Word /\ x[c] \in Word
      BY <2>2 DEF Fours
    <3>2. Add(Add(q[1], q[2]), x[c]) = Add(Add(q[1], x[c]), q[2])
      BY <3>1, AddSwap
    <3>3. row0[c] = Add(row[c], R[2][c]) /\ row[c] = Add(R[1][c], x[c])
      BY <1>2, <1>3, Zenon
    <3>4. row0[c] = Add(Add(q[1], x[c]), q[2])
      BY <2>2, <3>3
    <3>5. h[1] = Add(Add(q[1], q[2]), x[c])
      BY <2>3
    <3> QED
      BY <3>2, <3>4, <3>5
  <2>5. row3[c] = h[4]
    BY <1>4, <1>5, <2>2, <2>3, <2>4
  <2>6. row2[c] = h[3]
    BY <1>6, <2>2, <2>3, <2>5
  <2>7. row1[c] = h[2]
    BY <1>7, <1>8, <2>2, <2>3, <2>6
  <2>8. h = <<h[1], h[2], h[3], h[4]>>
    BY <2>3, FoursVec
  <2> QED
    BY <2>1, <2>a, <2>4, <2>5, <2>6, <2>7, <2>8
<1>11. <<row0, row1, row2, row3>> \in Grids(Word)
  BY <1>3, <1>5, <1>6, <1>8 DEF Grids, Fours
<1>12. \A c \in 1 .. 4 : Column(<<row0, row1, row2, row3>>, c) = <<row0[c], row1[c], row2[c], row3[c]>>
  BY DEF Column
<1> QED
  BY <1>9, <1>10, <1>11, <1>12

-----------------------------------------------------------------------------
(* g on four rows is g on each of their columns. *)
IsG(Word, R, x, y, Q) ==
  Q \in Grids(Word) /\ \A c \in 1 .. 4 : Column(Q, c) = GQ(Column(R, c), x[c], y[c])

LEMMA TwoHalves ==
  ASSUME NEW Word, WordOps(Word), NEW R \in Grids(Word),
         NEW x, VecOf(Word, x), NEW y, VecOf(Word, y)
  PROVE  IsG(Word, R, x, y, g2(g1(R, x), y))
<1>1. PICK A : A = g1(R, x)
  OBVIOUS
<1>2. PICK B : B = g2(A, y)
  OBVIOUS
<1>3. /\ A \in Grids(Word)
      /\ \A c \in 1 .. 4 : Column(A, c) = half_g(Column(R, c), x[c], 16, 12)
  BY <1>1, HalfColumns DEF g1
<1>4. /\ B \in Grids(Word)
      /\ \A c \in 1 .. 4 : Column(B, c) = half_g(Column(A, c), y[c], 8, 7)
  BY <1>2, <1>3, HalfColumns DEF g2
<1>5. \A c \in 1 .. 4 : Column(B, c) = GQ(Column(R, c), x[c], y[c])
  BY <1>3, <1>4, Zenon DEF GQ
<1> QED
  BY <1>1, <1>2, <1>4, <1>5 DEF IsG

(* Rows are known by their columns. *)
LEMMA SameColumns ==
  ASSUME NEW Word, NEW R \in Grids(Word), NEW Q \in Grids(Word),
         \A c \in 1 .. 4 : Column(R, c) = Column(Q, c)
  PROVE  R = Q
<1>1. \A c \in 1 .. 4 : R[1][c] = Q[1][c] /\ R[2][c] = Q[2][c] /\ R[3][c] = Q[3][c] /\ R[4][c] = Q[4][c]
  BY DEF Column
<1>2. /\ R[1] \in Fours(Word) /\ R[2] \in Fours(Word) /\ R[3] \in Fours(Word) /\ R[4] \in Fours(Word)
      /\ Q[1] \in Fours(Word) /\ Q[2] \in Fours(Word) /\ Q[3] \in Fours(Word) /\ Q[4] \in Fours(Word)
      /\ R = <<R[1], R[2], R[3], R[4]>> /\ Q = <<Q[1], Q[2], Q[3], Q[4]>>
  BY FoursVec DEF Grids, Fours
<1>3. ASSUME NEW x \in Fours(Word), NEW y \in Fours(Word), \A c \in 1 .. 4 : x[c] = y[c]
      PROVE  x = y
  BY <1>3, FoursVec
<1>4. R[1] = Q[1] /\ R[2] = Q[2] /\ R[3] = Q[3] /\ R[4] = Q[4]
  BY <1>1, <1>2, <1>3
<1> QED
  BY <1>2, <1>4

(* The rows of a state: its columns, and the columns it has once its rows    *)
(* are turned, which are the diagonals.                                      *)
Turned == <<3, 0, 1, 2>>
LEMMA RowsColumns ==
  ASSUME NEW Word, NEW s \in [0 .. 15 -> Word]
  PROVE  /\ Rows(s) \in Grids(Word) /\ diagonalize(Rows(s)) \in Grids(Word)
         /\ \A c \in 1 .. 4 : Column(Rows(s), c) = At(s, Place(0, c - 1))
         /\ \A c \in 1 .. 4 : Column(diagonalize(Rows(s)), c) = At(s, Place(1, Turned[c]))
         /\ undiagonalize(diagonalize(Rows(s))) = Rows(s)
<1>1. Rows(s) = << <<s[0], s[1], s[2], s[3]>>, <<s[4], s[5], s[6], s[7]>>,
                   <<s[8], s[9], s[10], s[11]>>, <<s[12], s[13], s[14], s[15]>> >>
  BY DEF Rows, Row
<1>2. PICK R : R = Rows(s)
  OBVIOUS
<1>3. diagonalize(R) = << <<s[3], s[0], s[1], s[2]>>, <<s[4], s[5], s[6], s[7]>>,
                          <<s[9], s[10], s[11], s[8]>>, <<s[14], s[15], s[12], s[13]>> >>
  BY <1>1, <1>2 DEF diagonalize, shuffle_epi32, shuffle_ps2
<1>4. PICK D : D = diagonalize(R)
  OBVIOUS
<1>5. undiagonalize(D) = R
  BY <1>1, <1>2, <1>3, <1>4 DEF undiagonalize, shuffle_epi32, shuffle_ps2
<1>6. R \in Grids(Word) /\ D \in Grids(Word)
  <2>1. \A i \in 0 .. 15 : s[i] \in Word
    OBVIOUS
  <2> QED
    BY <1>1, <1>2, <1>3, <1>4, <2>1 DEF Grids, Fours
<1>7. ASSUME NEW c \in 1 .. 4
      PROVE  Column(R, c) = At(s, Place(0, c - 1)) /\ Column(D, c) = At(s, Place(1, Turned[c]))
  <2>1. c = 1 \/ c = 2 \/ c = 3 \/ c = 4
    OBVIOUS
  <2>2. Turned[1] = 3 /\ Turned[2] = 0 /\ Turned[3] = 1 /\ Turned[4] = 2
    BY DEF Turned
  <2>3. CASE c = 1
    BY <1>1, <1>2, <1>3, <1>4, <2>2, <2>3, PlacesOfTurn DEF Column, At
  <2>4. CASE c = 2
    BY <1>1, <1>2, <1>3, <1>4, <2>2, <2>4, PlacesOfTurn DEF Column, At
  <2>5. CASE c = 3
    BY <1>1, <1>2, <1>3, <1>4, <2>2, <2>5, PlacesOfTurn DEF Column, At
  <2>6. CASE c = 4
    BY <1>1, <1>2, <1>3, <1>4, <2>2, <2>6, PlacesOfTurn DEF Column, At
  <2> QED
    BY <2>1, <2>3, <2>4, <2>5, <2>6
<1> QED
  BY <1>2, <1>4, <1>5, <1>6, <1>7

(* The message vectors a round must have: words of the block in the order of *)
(* round k, the last two turned like the first row.                          *)
Scheduled(b, k, i) == b[MSG_SCHEDULE[k + 1][i + 1]]
Wanted(b, k) ==
  << <<Scheduled(b, k, 0), Scheduled(b, k, 2), Scheduled(b, k, 4), Scheduled(b, k, 6)>>,
     <<Scheduled(b, k, 1), Scheduled(b, k, 3), Scheduled(b, k, 5), Scheduled(b, k, 7)>>,
     <<Scheduled(b, k, 14), Scheduled(b, k, 8), Scheduled(b, k, 10), Scheduled(b, k, 12)>>,
     <<Scheduled(b, k, 15), Scheduled(b, k, 9), Scheduled(b, k, 11), Scheduled(b, k, 13)>> >>

(* They are words. *)
LEMMA WantedType ==
  ASSUME NEW Word, NEW b \in [0 .. 15 -> Word], NEW k \in 0 .. 6
  PROVE  Wanted(b, k) \in Grids(Word)
<1>1. \A i \in 0 .. 15 : MSG_SCHEDULE[k + 1][i + 1] \in 0 .. 15
  BY DEF MSG_SCHEDULE
<1>2. \A i \in 0 .. 15 : Scheduled(b, k, i) \in Word
  BY <1>1 DEF Scheduled
<1> QED
  BY <1>2 DEF Wanted, Grids, Fours

(* The block as it was loaded gives those of the first round.                *)
LEMMA FirstWanted ==
  ASSUME NEW b
  PROVE  FirstMessages(Rows(b)) = Wanted(b, 0)
<1>1. Rows(b) = << <<b[0], b[1], b[2], b[3]>>, <<b[4], b[5], b[6], b[7]>>,
                   <<b[8], b[9], b[10], b[11]>>, <<b[12], b[13], b[14], b[15]>> >>
  BY DEF Rows, Row
<1>2. FirstMessages(Rows(b)) = << <<b[0], b[2], b[4], b[6]>>, <<b[1], b[3], b[5], b[7]>>,
                                  <<b[14], b[8], b[10], b[12]>>, <<b[15], b[9], b[11], b[13]>> >>
  BY <1>1 DEF FirstMessages, shuffle_epi32, shuffle_ps2
<1>3. \A i \in 0 .. 15 : Scheduled(b, 0, i) = b[i]
  BY DEF Scheduled, MSG_SCHEDULE
<1> QED
  BY <1>2, <1>3 DEF Wanted

(* A blend takes whole words. *)
LEMMA Blends ==
  ASSUME NEW a, NEW b
  PROVE  /\ blend(a, b, {1, 3}) = <<a[1], b[2], a[3], b[4]>>
         /\ blend(a, b, {3}) = <<a[1], a[2], a[3], b[4]>>
  BY DEF blend

(* The permutation of the rows of vectors is the one of the schedule: what   *)
(* a round of words leaves behind gives the words of the next round.         *)
Permuted == <<2, 6, 3, 10, 7, 0, 4, 13, 1, 11, 12, 5, 9, 14, 15, 8>>
LEMMA SchedulePermutes ==
  ASSUME NEW k \in 0 .. 5, NEW i \in 0 .. 15
  PROVE  MSG_SCHEDULE[k + 2][i + 1] = MSG_SCHEDULE[k + 1][Permuted[i + 1] + 1]
  BY DEF MSG_SCHEDULE, Permuted

LEMMA NextWanted ==
  ASSUME NEW b, NEW k \in 0 .. 5
  PROVE  NextMessages(Wanted(b, k)) = Wanted(b, k + 1)
<1> DEFINE w(i) == Scheduled(b, k, i)
<1>1. PICK q : q = Wanted(b, k)
  OBVIOUS
<1>2. q = << <<w(0), w(2), w(4), w(6)>>, <<w(1), w(3), w(5), w(7)>>,
             <<w(14), w(8), w(10), w(12)>>, <<w(15), w(9), w(11), w(13)>> >>
  BY <1>1 DEF Wanted
<1>3. \A i \in 0 .. 15 : Scheduled(b, k + 1, i) = w(Permuted[i + 1])
  BY SchedulePermutes DEF Scheduled
<1> HIDE DEF w
<1>4. NextMessages(q) = << <<w(2), w(3), w(7), w(4)>>, <<w(6), w(10), w(0), w(13)>>,
                           <<w(15), w(1), w(12), w(9)>>, <<w(8), w(11), w(5), w(14)>> >>
  BY <1>2, Blends DEF NextMessages, shuffle_epi32, shuffle_ps2, unpacklo_epi32, unpackhi_epi32, unpacklo_epi64
<1>5. Wanted(b, k + 1) = << <<w(2), w(3), w(7), w(4)>>, <<w(6), w(10), w(0), w(13)>>,
                            <<w(15), w(1), w(12), w(9)>>, <<w(8), w(11), w(5), w(14)>> >>
  BY <1>3 DEF Wanted, Permuted
<1> QED
  BY <1>1, <1>4, <1>5

(* What the message vectors of this round say of each column and diagonal.   *)
LEMMA WantedColumns ==
  ASSUME NEW Word, NEW b \in [0 .. 15 -> Word], r \in 0 .. 6, NEW c \in 1 .. 4
  PROVE  /\ Wanted(b, r)[1][c] = b[schedule(2 * (c - 1))]
         /\ Wanted(b, r)[2][c] = b[schedule(2 * (c - 1) + 1)]
         /\ Wanted(b, r)[3][c] = b[schedule(8 + 2 * Turned[c])]
         /\ Wanted(b, r)[4][c] = b[schedule(9 + 2 * Turned[c])]
         /\ Turned[c] \in 0 .. 3 /\ c - 1 \in 0 .. 3
<1>1. c = 1 \/ c = 2 \/ c = 3 \/ c = 4
  OBVIOUS
<1>2. \A i \in 0 .. 15 : Scheduled(b, r, i) = b[schedule(i)]
  BY DEF Scheduled, schedule
<1>3. Turned[1] = 3 /\ Turned[2] = 0 /\ Turned[3] = 1 /\ Turned[4] = 2
  BY DEF Turned
<1>4. CASE c = 1
  BY <1>2, <1>3, <1>4 DEF Wanted
<1>5. CASE c = 2
  BY <1>2, <1>3, <1>5 DEF Wanted
<1>6. CASE c = 3
  BY <1>2, <1>3, <1>6 DEF Wanted
<1>7. CASE c = 4
  BY <1>2, <1>3, <1>7 DEF Wanted
<1> QED
  BY <1>1, <1>4, <1>5, <1>6, <1>7

(* A round on rows does what a round of the portable code does.              *)
LEMMA RowsAgree ==
  ASSUME NEW Word, WordOps(Word), r \in 0 .. 6,
         NEW s \in [0 .. 15 -> Word], NEW b \in [0 .. 15 -> Word]
  PROVE  /\ PortableRound(s, b) \in [0 .. 15 -> Word]
         /\ RowRound(Rows(s), Wanted(b, r)) = Rows(PortableRound(s, b))
<1>1. PICK u : u = PortableRound(s, b)
  OBVIOUS
<1>a. u \in [0 .. 15 -> Word] /\ TwoTurns(Word, s, u, b)
  BY <1>1, PortableMixes
<1>2. PICK t \in [0 .. 15 -> Word] :
        /\ Mixed(s, t, 0, [i \in 0 .. 3 |-> b[schedule(2 * i)]], [i \in 0 .. 3 |-> b[schedule(2 * i + 1)]])
        /\ Mixed(t, u, 1, [i \in 0 .. 3 |-> b[schedule(8 + 2 * i)]], [i \in 0 .. 3 |-> b[schedule(9 + 2 * i)]])
  BY <1>a DEF TwoTurns
<1>3. PICK T : T = Wanted(b, r)
  OBVIOUS
<1>4. /\ VecOf(Word, T[1]) /\ VecOf(Word, T[2]) /\ VecOf(Word, T[3]) /\ VecOf(Word, T[4])
  <2>1. T \in Grids(Word)
    BY <1>3, WantedType
  <2>2. T[1] \in Fours(Word) /\ T[2] \in Fours(Word) /\ T[3] \in Fours(Word) /\ T[4] \in Fours(Word)
    BY <2>1 DEF Grids, Fours
  <2> QED
    BY <2>2, FoursVec
<1>5. \A c \in 1 .. 4 : /\ At(t, Place(0, c - 1)) = GQ(At(s, Place(0, c - 1)), T[1][c], T[2][c])
                         /\ At(u, Place(1, Turned[c])) = GQ(At(t, Place(1, Turned[c])), T[3][c], T[4][c])
  <2> SUFFICES ASSUME NEW c \in 1 .. 4
               PROVE  /\ At(t, Place(0, c - 1)) = GQ(At(s, Place(0, c - 1)), T[1][c], T[2][c])
                      /\ At(u, Place(1, Turned[c])) = GQ(At(t, Place(1, Turned[c])), T[3][c], T[4][c])
    OBVIOUS
  <2>1. /\ T[1][c] = b[schedule(2 * (c - 1))] /\ T[2][c] = b[schedule(2 * (c - 1) + 1)]
        /\ T[3][c] = b[schedule(8 + 2 * Turned[c])] /\ T[4][c] = b[schedule(9 + 2 * Turned[c])]
        /\ Turned[c] \in 0 .. 3 /\ c - 1 \in 0 .. 3
    BY <1>3, WantedColumns
  <2>2. PICK i \in 0 .. 3, j \in 0 .. 3 : i = c - 1 /\ j = Turned[c]
    BY <2>1
  <2>3. /\ At(t, Place(0, i)) = GQ(At(s, Place(0, i)), b[schedule(2 * i)], b[schedule(2 * i + 1)])
        /\ At(u, Place(1, j)) = GQ(At(t, Place(1, j)), b[schedule(8 + 2 * j)], b[schedule(9 + 2 * j)])
    BY <1>2 DEF Mixed
  <2> QED
    BY <2>1, <2>2, <2>3
<1>6. PICK A : A = g2(g1(Rows(s), T[1]), T[2])
  OBVIOUS
<1>7. A = Rows(t)
  <2>1. /\ A \in Grids(Word)
        /\ \A c \in 1 .. 4 : Column(A, c) = GQ(Column(Rows(s), c), T[1][c], T[2][c])
    <3>1. Rows(s) \in Grids(Word)
      BY RowsColumns
    <3>2. IsG(Word, Rows(s), T[1], T[2], g2(g1(Rows(s), T[1]), T[2]))
      BY <1>4, <3>1, TwoHalves, Zenon
    <3> QED
      BY <1>6, <3>2 DEF IsG
  <2>2. \A c \in 1 .. 4 : Column(A, c) = Column(Rows(t), c)
    BY <1>5, <2>1, RowsColumns
  <2>3. Rows(t) \in Grids(Word)
    BY RowsColumns
  <2> QED
    BY <2>1, <2>2, <2>3, SameColumns
<1>8. PICK B : B = g2(g1(diagonalize(A), T[3]), T[4])
  OBVIOUS
<1>9. B = diagonalize(Rows(u))
  <2>0. diagonalize(A) \in Grids(Word)
    BY <1>7, RowsColumns
  <2>1. /\ B \in Grids(Word)
        /\ \A c \in 1 .. 4 : Column(B, c) = GQ(Column(diagonalize(A), c), T[3][c], T[4][c])
    <3>1. IsG(Word, diagonalize(A), T[3], T[4], g2(g1(diagonalize(A), T[3]), T[4]))
      BY <1>4, <2>0, TwoHalves, Zenon
    <3> QED
      BY <1>8, <3>1 DEF IsG
  <2>2. \A c \in 1 .. 4 : /\ Column(diagonalize(A), c) = At(t, Place(1, Turned[c]))
                           /\ Column(diagonalize(Rows(u)), c) = At(u, Place(1, Turned[c]))
    BY <1>a, <1>2, <1>7, RowsColumns
  <2>3. \A c \in 1 .. 4 : Column(B, c) = Column(diagonalize(Rows(u)), c)
    BY <1>5, <2>1, <2>2
  <2>4. diagonalize(Rows(u)) \in Grids(Word)
    BY <1>a, RowsColumns
  <2> QED
    BY <2>1, <2>3, <2>4, SameColumns
<1>10. RowRound(Rows(s), T) = undiagonalize(B)
  BY <1>6, <1>8 DEF RowRound
<1>11. undiagonalize(B) = Rows(u)
  BY <1>a, <1>9, RowsColumns
<1> QED
  BY <1>1, <1>a, <1>3, <1>10, <1>11

-----------------------------------------------------------------------------
(* Sixteen vectors: half of g on four of them is half of g in every lane.    *)
HalfStepped(Word, w, u, p, x, n, k) ==
  /\ u \in [0 .. 15 -> Fours(Word)] /\ Keeps(w, u, p)
  /\ \A l \in 1 .. 4 : Column(At(u, p), l) = half_g(Column(At(w, p), l), x[l], n, k)

LEMMA HalfLanes ==
  ASSUME NEW Word, WordOps(Word), NEW w \in [0 .. 15 -> Fours(Word)], NEW p \in Places,
         NEW x, VecOf(Word, x), NEW n \in {16, 8}, NEW k \in {12, 7}
  PROVE  HalfStepped(Word, w, HalfG(w, p, x, n, k), p, x, n, k)
<1>1. At(w, p) \in Grids(Word)
  BY DEF Grids, At, Places, Fours
<1>2. PICK R : R = Half(At(w, p), x, n, k)
  OBVIOUS
<1>3. /\ R \in Grids(Word)
      /\ \A l \in 1 .. 4 : Column(R, l) = half_g(Column(At(w, p), l), x[l], n, k)
  BY <1>1, <1>2, HalfColumns
<1>4. PICK a \in Fours(Word), b \in Fours(Word), c \in Fours(Word), d \in Fours(Word) : R = <<a, b, c, d>>
  BY <1>3 DEF Grids, Fours
<1>5. PICK u : u = HalfG(w, p, x, n, k)
  OBVIOUS
<1>6. u = Put(w, p, <<a, b, c, d>>)
  BY <1>2, <1>4, <1>5 DEF HalfG
<1>7. /\ u \in [0 .. 15 -> Fours(Word)]
      /\ At(u, p) = R /\ Keeps(w, u, p)
  <2> DEFINE Vecs == Fours(Word)
  <2>1. /\ w \in [0 .. 15 -> Vecs] /\ a \in Vecs /\ b \in Vecs /\ c \in Vecs /\ d \in Vecs
    BY <1>4
  <2> HIDE DEF Vecs
  <2>2. /\ Put(w, p, <<a, b, c, d>>) \in [0 .. 15 -> Vecs]
        /\ At(Put(w, p, <<a, b, c, d>>), p) = <<a, b, c, d>>
        /\ Keeps(w, Put(w, p, <<a, b, c, d>>), p)
    BY <2>1, PutAt
  <2> QED
    BY <1>4, <1>6, <2>2 DEF Vecs
<1> QED
  BY <1>3, <1>5, <1>7 DEF HalfStepped

(* What half a turn does to the columns, or the diagonals, of every lane.    *)
HalfMixed(w, u, turn, x, n, k) ==
  \A i \in 0 .. 3, l \in 1 .. 4 :
    Column(At(u, Place(turn, i)), l) = half_g(Column(At(w, Place(turn, i)), l), x[i][l], n, k)

FourHalves(w, w0, w1, w2, w3, turn, x, n, k) ==
  /\ w0 = HalfG(w, Place(turn, 0), x[0], n, k)
  /\ w1 = HalfG(w0, Place(turn, 1), x[1], n, k)
  /\ w2 = HalfG(w1, Place(turn, 2), x[2], n, k)
  /\ w3 = HalfG(w2, Place(turn, 3), x[3], n, k)
FourVectors(Word, x) == \A i \in 0 .. 3 : VecOf(Word, x[i])

LEMMA FourLanes ==
  ASSUME NEW Word, WordOps(Word), NEW turn \in {0, 1}, NEW n \in {16, 8}, NEW k \in {12, 7},
         NEW x, FourVectors(Word, x), NEW w \in [0 .. 15 -> Fours(Word)],
         NEW w0, NEW w1, NEW w2, NEW w3, FourHalves(w, w0, w1, w2, w3, turn, x, n, k)
  PROVE  w3 \in [0 .. 15 -> Fours(Word)] /\ HalfMixed(w, w3, turn, x, n, k)
<1>0. /\ w0 = HalfG(w, Place(turn, 0), x[0], n, k) /\ w1 = HalfG(w0, Place(turn, 1), x[1], n, k)
      /\ w2 = HalfG(w1, Place(turn, 2), x[2], n, k) /\ w3 = HalfG(w2, Place(turn, 3), x[3], n, k)
  BY DEF FourHalves
<1>1. /\ Place(turn, 0) \in Places /\ Place(turn, 1) \in Places
      /\ Place(turn, 2) \in Places /\ Place(turn, 3) \in Places
      /\ VecOf(Word, x[0]) /\ VecOf(Word, x[1]) /\ VecOf(Word, x[2]) /\ VecOf(Word, x[3])
  BY PlacesOfTurn DEF Places, FourVectors
<1>2. w0 \in [0 .. 15 -> Fours(Word)] /\ HalfStepped(Word, w, w0, Place(turn, 0), x[0], n, k)
  <2>1. w \in [0 .. 15 -> Fours(Word)]
    OBVIOUS
  <2>a. Place(turn, 0) \in Places /\ VecOf(Word, x[0])
    BY <1>1
  <2>b. HalfStepped(Word, w, HalfG(w, Place(turn, 0), x[0], n, k), Place(turn, 0), x[0], n, k)
    BY <2>1, <2>a, HalfLanes, Zenon
  <2>2. HalfStepped(Word, w, w0, Place(turn, 0), x[0], n, k)
    BY <1>0, <2>b
  <2> QED
    BY <2>2 DEF HalfStepped
<1>3. w1 \in [0 .. 15 -> Fours(Word)] /\ HalfStepped(Word, w0, w1, Place(turn, 1), x[1], n, k)
  <2>1. w0 \in [0 .. 15 -> Fours(Word)]
    BY <1>2
  <2>a. Place(turn, 1) \in Places /\ VecOf(Word, x[1])
    BY <1>1
  <2>b. HalfStepped(Word, w0, HalfG(w0, Place(turn, 1), x[1], n, k), Place(turn, 1), x[1], n, k)
    BY <2>1, <2>a, HalfLanes, Zenon
  <2>2. HalfStepped(Word, w0, w1, Place(turn, 1), x[1], n, k)
    BY <1>0, <2>b
  <2> QED
    BY <2>2 DEF HalfStepped
<1>4. w2 \in [0 .. 15 -> Fours(Word)] /\ HalfStepped(Word, w1, w2, Place(turn, 2), x[2], n, k)
  <2>1. w1 \in [0 .. 15 -> Fours(Word)]
    BY <1>3
  <2>a. Place(turn, 2) \in Places /\ VecOf(Word, x[2])
    BY <1>1
  <2>b. HalfStepped(Word, w1, HalfG(w1, Place(turn, 2), x[2], n, k), Place(turn, 2), x[2], n, k)
    BY <2>1, <2>a, HalfLanes, Zenon
  <2>2. HalfStepped(Word, w1, w2, Place(turn, 2), x[2], n, k)
    BY <1>0, <2>b
  <2> QED
    BY <2>2 DEF HalfStepped
<1>5. w3 \in [0 .. 15 -> Fours(Word)] /\ HalfStepped(Word, w2, w3, Place(turn, 3), x[3], n, k)
  <2>1. w2 \in [0 .. 15 -> Fours(Word)]
    BY <1>4
  <2>a. Place(turn, 3) \in Places /\ VecOf(Word, x[3])
    BY <1>1
  <2>b. HalfStepped(Word, w2, HalfG(w2, Place(turn, 3), x[3], n, k), Place(turn, 3), x[3], n, k)
    BY <2>1, <2>a, HalfLanes, Zenon
  <2>2. HalfStepped(Word, w2, w3, Place(turn, 3), x[3], n, k)
    BY <1>0, <2>b
  <2> QED
    BY <2>2 DEF HalfStepped
<1>6. \A i, j \in 0 .. 3 : i # j =>
        /\ i = 0 => At(w0, Place(turn, j)) = At(w, Place(turn, j))
        /\ i = 1 => At(w1, Place(turn, j)) = At(w0, Place(turn, j))
        /\ i = 2 => At(w2, Place(turn, j)) = At(w1, Place(turn, j))
        /\ i = 3 => At(w3, Place(turn, j)) = At(w2, Place(turn, j))
  BY <1>2, <1>3, <1>4, <1>5, KeepsOther DEF HalfStepped
<1>7. /\ At(w3, Place(turn, 0)) = At(w0, Place(turn, 0))
      /\ At(w3, Place(turn, 1)) = At(w1, Place(turn, 1)) /\ At(w0, Place(turn, 1)) = At(w, Place(turn, 1))
      /\ At(w3, Place(turn, 2)) = At(w2, Place(turn, 2)) /\ At(w1, Place(turn, 2)) = At(w, Place(turn, 2))
      /\ At(w2, Place(turn, 3)) = At(w, Place(turn, 3))
  BY <1>6
<1>8. ASSUME NEW i \in 0 .. 3, NEW l \in 1 .. 4
      PROVE  Column(At(w3, Place(turn, i)), l) = half_g(Column(At(w, Place(turn, i)), l), x[i][l], n, k)
  <2>1. CASE i = 0
    BY <1>2, <1>7, <2>1 DEF HalfStepped
  <2>2. CASE i = 1
    BY <1>3, <1>7, <2>2 DEF HalfStepped
  <2>3. CASE i = 2
    BY <1>4, <1>7, <2>3 DEF HalfStepped
  <2>4. CASE i = 3
    BY <1>5, <1>7, <2>4 DEF HalfStepped
  <2> QED
    BY <2>1, <2>2, <2>3, <2>4
<1> QED
  BY <1>5, <1>8 DEF HalfMixed

(* Half a turn of the kernels. *)
Vectors(mw, first) == [i \in 0 .. 3 |-> mw[schedule(first + 2 * i)]]
HalfTurn(Word, w, u, turn, x, n, k) ==
  u \in [0 .. 15 -> Fours(Word)] /\ HalfMixed(w, u, turn, x, n, k)
BlockVectors(Word, mw) == \A i \in 0 .. 15 : VecOf(Word, mw[i])

LEMMA FourMixes ==
  ASSUME NEW Word, WordOps(Word), r \in 0 .. 6, NEW turn \in {0, 1}, NEW first \in {0, 1, 8, 9},
         NEW n \in {16, 8}, NEW k \in {12, 7},
         NEW w \in [0 .. 15 -> Fours(Word)], NEW mw, BlockVectors(Word, mw)
  PROVE  HalfTurn(Word, w, Four(w, mw, turn, first, n, k), turn, Vectors(mw, first), n, k)
<1>1. PICK x : x = Vectors(mw, first)
  OBVIOUS
<1>2. /\ x[0] = mw[schedule(first + 2 * 0)] /\ x[1] = mw[schedule(first + 2 * 1)]
      /\ x[2] = mw[schedule(first + 2 * 2)] /\ x[3] = mw[schedule(first + 2 * 3)]
  BY <1>1 DEF Vectors
<1>3. FourVectors(Word, x)
  <2>1. \A i \in 0 .. 15 : schedule(i) \in 0 .. 15
    BY DEF schedule, MSG_SCHEDULE
  <2>2. \A i \in 0 .. 3 : first + 2 * i \in 0 .. 15
    OBVIOUS
  <2> QED
    BY <1>1, <2>1, <2>2 DEF Vectors, FourVectors, BlockVectors
<1>4. PICK w0 : w0 = HalfG(w, Place(turn, 0), x[0], n, k)
  OBVIOUS
<1>5. PICK w1 : w1 = HalfG(w0, Place(turn, 1), x[1], n, k)
  OBVIOUS
<1>6. PICK w2 : w2 = HalfG(w1, Place(turn, 2), x[2], n, k)
  OBVIOUS
<1>7. PICK w3 : w3 = HalfG(w2, Place(turn, 3), x[3], n, k)
  OBVIOUS
<1>8. Four(w, mw, turn, first, n, k) = w3
  BY <1>2, <1>4, <1>5, <1>6, <1>7, Zenon DEF Four
<1>9. w3 \in [0 .. 15 -> Fours(Word)] /\ HalfMixed(w, w3, turn, x, n, k)
  <2>1. FourHalves(w, w0, w1, w2, w3, turn, x, n, k)
    BY <1>4, <1>5, <1>6, <1>7 DEF FourHalves
  <2> QED
    BY <1>3, <2>1, FourLanes
<1> QED
  BY <1>1, <1>8, <1>9 DEF HalfTurn

(* Lane l of sixteen vectors holds the sixteen words of a state. *)
LaneOf(w, s, l) == \A i \in 0 .. 15 : w[i][l] = s[i]

LEMMA LaneFours ==
  ASSUME NEW w, NEW s, NEW l, LaneOf(w, s, l), NEW turn \in {0, 1}, NEW i \in 0 .. 3
  PROVE  Column(At(w, Place(turn, i)), l) = At(s, Place(turn, i))
<1>1. \A p \in Places : Column(At(w, p), l) = At(s, p)
  BY DEF LaneOf, Places, Column, At
<1>2. \A j \in {0, 1, 2, 3} : Place(turn, j) \in Places
  BY PlacesOfTurn DEF Places
<1> QED
  BY <1>1, <1>2

LEMMA FoursLane ==
  ASSUME NEW w, NEW s, NEW l, NEW turn \in {0, 1},
         \A i \in 0 .. 3 : Column(At(w, Place(turn, i)), l) = At(s, Place(turn, i))
  PROVE  LaneOf(w, s, l)
<1>1. ASSUME NEW p \in Places, Column(At(w, p), l) = At(s, p)
      PROVE  w[p[1]][l] = s[p[1]] /\ w[p[2]][l] = s[p[2]] /\ w[p[3]][l] = s[p[3]] /\ w[p[4]][l] = s[p[4]]
  BY <1>1 DEF Column, At
<1>2. \A i \in {0, 1, 2, 3} : Place(turn, i) \in Places
  BY PlacesOfTurn DEF Places
<1>3. ASSUME NEW i \in {0, 1, 2, 3}, NEW p, p = Place(turn, i)
      PROVE  w[p[1]][l] = s[p[1]] /\ w[p[2]][l] = s[p[2]] /\ w[p[3]][l] = s[p[3]] /\ w[p[4]][l] = s[p[4]]
  BY <1>1, <1>2, <1>3
<1>4. ASSUME NEW j \in 0 .. 15
      PROVE  w[j][l] = s[j]
  <2>1. j \in {0, 1, 2, 3, 4, 5, 6, 7, 8, 9, 10, 11, 12, 13, 14, 15}
    OBVIOUS
  <2>2. CASE turn = 0
    <3>1. /\ w[0][l] = s[0] /\ w[4][l] = s[4] /\ w[8][l] = s[8] /\ w[12][l] = s[12]
      BY <1>3, <2>2, PlacesOfTurn
    <3>2. /\ w[1][l] = s[1] /\ w[5][l] = s[5] /\ w[9][l] = s[9] /\ w[13][l] = s[13]
      BY <1>3, <2>2, PlacesOfTurn
    <3>3. /\ w[2][l] = s[2] /\ w[6][l] = s[6] /\ w[10][l] = s[10] /\ w[14][l] = s[14]
      BY <1>3, <2>2, PlacesOfTurn
    <3>4. /\ w[3][l] = s[3] /\ w[7][l] = s[7] /\ w[11][l] = s[11] /\ w[15][l] = s[15]
      BY <1>3, <2>2, PlacesOfTurn
    <3> QED
      BY <2>1, <3>1, <3>2, <3>3, <3>4
  <2>3. CASE turn = 1
    <3>1. /\ w[0][l] = s[0] /\ w[5][l] = s[5] /\ w[10][l] = s[10] /\ w[15][l] = s[15]
      BY <1>3, <2>3, PlacesOfTurn
    <3>2. /\ w[1][l] = s[1] /\ w[6][l] = s[6] /\ w[11][l] = s[11] /\ w[12][l] = s[12]
      BY <1>3, <2>3, PlacesOfTurn
    <3>3. /\ w[2][l] = s[2] /\ w[7][l] = s[7] /\ w[8][l] = s[8] /\ w[13][l] = s[13]
      BY <1>3, <2>3, PlacesOfTurn
    <3>4. /\ w[3][l] = s[3] /\ w[4][l] = s[4] /\ w[9][l] = s[9] /\ w[14][l] = s[14]
      BY <1>3, <2>3, PlacesOfTurn
    <3> QED
      BY <2>1, <3>1, <3>2, <3>3, <3>4
  <2> QED
    BY <2>2, <2>3
<1> QED
  BY <1>4 DEF LaneOf

(* A turn of the kernels is g on every column, or diagonal, of every lane.   *)
LanesMixed(w, u, turn, x, y) ==
  \A i \in 0 .. 3, l \in 1 .. 4 :
    Column(At(u, Place(turn, i)), l) = GQ(Column(At(w, Place(turn, i)), l), x[i][l], y[i][l])

LEMMA TurnMixes ==
  ASSUME NEW Word, WordOps(Word), r \in 0 .. 6, NEW turn \in {0, 1},
         NEW first \in {0, 1, 8, 9}, NEW second \in {0, 1, 8, 9},
         NEW w \in [0 .. 15 -> Fours(Word)], NEW mw, BlockVectors(Word, mw)
  PROVE  LET u == Four(Four(w, mw, turn, first, 16, 12), mw, turn, second, 8, 7)
         IN /\ u \in [0 .. 15 -> Fours(Word)]
            /\ LanesMixed(w, u, turn, Vectors(mw, first), Vectors(mw, second))
<1>1. PICK t : t = Four(w, mw, turn, first, 16, 12)
  OBVIOUS
<1>2. PICK u : u = Four(t, mw, turn, second, 8, 7)
  OBVIOUS
<1>3. t \in [0 .. 15 -> Fours(Word)] /\ HalfMixed(w, t, turn, Vectors(mw, first), 16, 12)
  <2>1. HalfTurn(Word, w, Four(w, mw, turn, first, 16, 12), turn, Vectors(mw, first), 16, 12)
    BY FourMixes
  <2> QED
    BY <1>1, <2>1 DEF HalfTurn
<1>4. u \in [0 .. 15 -> Fours(Word)] /\ HalfMixed(t, u, turn, Vectors(mw, second), 8, 7)
  <2>1. t \in [0 .. 15 -> Fours(Word)]
    BY <1>3
  <2>2. HalfTurn(Word, t, Four(t, mw, turn, second, 8, 7), turn, Vectors(mw, second), 8, 7)
    BY <2>1, FourMixes
  <2> QED
    BY <1>2, <2>2 DEF HalfTurn
<1>5. PICK x, y : x = Vectors(mw, first) /\ y = Vectors(mw, second)
  OBVIOUS
<1>6. HalfMixed(w, t, turn, x, 16, 12) /\ HalfMixed(t, u, turn, y, 8, 7)
  BY <1>3, <1>4, <1>5
<1>7. LanesMixed(w, u, turn, x, y)
  BY <1>6, Zenon DEF HalfMixed, LanesMixed, GQ
<1> QED
  BY <1>1, <1>2, <1>4, <1>5, <1>7

(* A lane that holds the words of a portable state before a round holds them *)
(* after it.                                                                 *)
LEMMA LanesAgree ==
  ASSUME NEW Word, WordOps(Word), r \in 0 .. 6,
         NEW w \in [0 .. 15 -> Fours(Word)], NEW mw, BlockVectors(Word, mw)
  PROVE  /\ LaneRound(w, mw) \in [0 .. 15 -> Fours(Word)]
         /\ \A l \in 1 .. 4, s \in [0 .. 15 -> Word], b \in [0 .. 15 -> Word] :
              LaneOf(w, s, l) /\ LaneOf(mw, b, l) => LaneOf(LaneRound(w, mw), PortableRound(s, b), l)
<1>1. PICK c : c = Columns(w, mw)
  OBVIOUS
<1>2. PICK u : u = Diagonals(c, mw)
  OBVIOUS
<1>3. LaneRound(w, mw) = u
  BY <1>1, <1>2 DEF LaneRound
<1>4. c \in [0 .. 15 -> Fours(Word)] /\ LanesMixed(w, c, 0, Vectors(mw, 0), Vectors(mw, 1))
  BY <1>1, TurnMixes DEF Columns
<1>5. u \in [0 .. 15 -> Fours(Word)] /\ LanesMixed(c, u, 1, Vectors(mw, 8), Vectors(mw, 9))
  BY <1>2, <1>4, TurnMixes DEF Diagonals
<1>6. ASSUME NEW l \in 1 .. 4, NEW s \in [0 .. 15 -> Word], NEW b \in [0 .. 15 -> Word],
             LaneOf(w, s, l), LaneOf(mw, b, l)
      PROVE  LaneOf(u, PortableRound(s, b), l)
  <2>1. PICK e : e = PortableRound(s, b)
    OBVIOUS
  <2>2. TwoTurns(Word, s, e, b)
    BY <2>1, PortableMixes
  <2>3. PICK t \in [0 .. 15 -> Word] :
          /\ Mixed(s, t, 0, [i \in 0 .. 3 |-> b[schedule(2 * i)]], [i \in 0 .. 3 |-> b[schedule(2 * i + 1)]])
          /\ Mixed(t, e, 1, [i \in 0 .. 3 |-> b[schedule(8 + 2 * i)]], [i \in 0 .. 3 |-> b[schedule(9 + 2 * i)]])
    BY <2>2 DEF TwoTurns
  <2>4. \A i \in 0 .. 3 : /\ Vectors(mw, 0)[i][l] = b[schedule(2 * i)]
                          /\ Vectors(mw, 1)[i][l] = b[schedule(2 * i + 1)]
                          /\ Vectors(mw, 8)[i][l] = b[schedule(8 + 2 * i)]
                          /\ Vectors(mw, 9)[i][l] = b[schedule(9 + 2 * i)]
    <3>1. \A j \in 0 .. 15 : schedule(j) \in 0 .. 15
      BY DEF schedule, MSG_SCHEDULE
    <3>2. \A j \in 0 .. 15 : mw[schedule(j)][l] = b[schedule(j)]
      BY <1>6, <3>1 DEF LaneOf
    <3>3. \A i \in 0 .. 3 : 2 * i \in 0 .. 15 /\ 2 * i + 1 \in 0 .. 15 /\ 8 + 2 * i \in 0 .. 15 /\ 9 + 2 * i \in 0 .. 15
                            /\ 0 + 2 * i = 2 * i /\ 1 + 2 * i = 2 * i + 1
      OBVIOUS
    <3> QED
      BY <3>2, <3>3 DEF Vectors
  <2>5. LaneOf(c, t, l)
    <3>1. \A i \in 0 .. 3 : Column(At(c, Place(0, i)), l) = At(t, Place(0, i))
      <4> SUFFICES ASSUME NEW i \in 0 .. 3 PROVE Column(At(c, Place(0, i)), l) = At(t, Place(0, i))
        OBVIOUS
      <4>1. Column(At(w, Place(0, i)), l) = At(s, Place(0, i))
        BY <1>6, LaneFours
      <4>2. Column(At(c, Place(0, i)), l)
            = GQ(Column(At(w, Place(0, i)), l), Vectors(mw, 0)[i][l], Vectors(mw, 1)[i][l])
        BY <1>4 DEF LanesMixed
      <4>3. At(t, Place(0, i)) = GQ(At(s, Place(0, i)), b[schedule(2 * i)], b[schedule(2 * i + 1)])
        BY <2>3 DEF Mixed
      <4> QED
        BY <2>4, <4>1, <4>2, <4>3
    <3> QED
      BY <3>1, FoursLane
  <2>6. LaneOf(u, e, l)
    <3>1. \A i \in 0 .. 3 : Column(At(u, Place(1, i)), l) = At(e, Place(1, i))
      <4> SUFFICES ASSUME NEW i \in 0 .. 3 PROVE Column(At(u, Place(1, i)), l) = At(e, Place(1, i))
        OBVIOUS
      <4>1. Column(At(c, Place(1, i)), l) = At(t, Place(1, i))
        BY <2>5, LaneFours
      <4>2. Column(At(u, Place(1, i)), l)
            = GQ(Column(At(c, Place(1, i)), l), Vectors(mw, 8)[i][l], Vectors(mw, 9)[i][l])
        BY <1>5 DEF LanesMixed
      <4>3. At(e, Place(1, i)) = GQ(At(t, Place(1, i)), b[schedule(8 + 2 * i)], b[schedule(9 + 2 * i)])
        BY <2>3 DEF Mixed
      <4> QED
        BY <2>4, <4>1, <4>2, <4>3
    <3> QED
      BY <3>1, FoursLane
  <2> QED
    BY <2>1, <2>6
<1> QED
  BY <1>3, <1>5, <1>6

-----------------------------------------------------------------------------
(* What a compression is given consists of words. *)
JobsOf(Word) ==
  /\ \A j \in Jobs : j.cv \in [0 .. 7 -> Word] /\ j.block \in [0 .. 15 -> Word] /\ j.tail \in [0 .. 3 -> Word]
  /\ \A i \in 0 .. 3 : IV[i] \in Word

(* The three implementations in step: the rows and the lanes hold the        *)
(* portable state, and the message vectors are those of the round before.    *)
StatesOK(Word) ==
  r \in 0 .. 7 /\ job \in [Lanes -> Jobs] /\ state \in [Lanes -> [0 .. 15 -> Word]]
RowsOK == rows = [l \in Lanes |-> Rows(state[l])]
MessagesOK ==
  m = [l \in Lanes |-> IF r = 0 THEN Rows(job[l].block) ELSE Wanted(job[l].block, r - 1)]
LanesOK(Word) ==
  v \in [0 .. 15 -> Fours(Word)] /\ \A l \in Lanes : LaneOf(v, state[l], l)
RoundsInv(Word) == StatesOK(Word) /\ RowsOK /\ MessagesOK /\ LanesOK(Word)

LEMMA RoundsInitInv ==
  ASSUME NEW Word, JobsOf(Word), RoundsInit PROVE RoundsInv(Word)
<1>1. \A j \in Jobs : Pre(j) \in [0 .. 15 -> Word]
  BY DEF Pre, JobsOf
<1>2. StatesOK(Word)
  BY <1>1 DEF RoundsInit, StatesOK
<1>3. RowsOK
  BY DEF RoundsInit, RowsOK
<1>4. MessagesOK
  BY DEF RoundsInit, MessagesOK
<1>5. LanesOK(Word)
  <2>1. /\ job[1] \in Jobs /\ job[2] \in Jobs /\ job[3] \in Jobs /\ job[4] \in Jobs
        /\ state[1] = Pre(job[1]) /\ state[2] = Pre(job[2]) /\ state[3] = Pre(job[3]) /\ state[4] = Pre(job[4])
        /\ v = [i \in 0 .. 15 |-> <<Pre(job[1])[i], Pre(job[2])[i], Pre(job[3])[i], Pre(job[4])[i]>>]
    BY DEF RoundsInit, Lanes
  <2>2. PICK s1, s2, s3, s4 : s1 = state[1] /\ s2 = state[2] /\ s3 = state[3] /\ s4 = state[4]
    OBVIOUS
  <2>3. /\ s1 \in [0 .. 15 -> Word] /\ s2 \in [0 .. 15 -> Word]
        /\ s3 \in [0 .. 15 -> Word] /\ s4 \in [0 .. 15 -> Word]
    BY <1>1, <2>1, <2>2
  <2>4. v = [i \in 0 .. 15 |-> <<s1[i], s2[i], s3[i], s4[i]>>]
    BY <2>1, <2>2
  <2>5. v \in [0 .. 15 -> Fours(Word)]
    BY <2>3, <2>4 DEF Fours
  <2>6. LaneOf(v, s1, 1) /\ LaneOf(v, s2, 2) /\ LaneOf(v, s3, 3) /\ LaneOf(v, s4, 4)
    BY <2>4 DEF LaneOf
  <2> QED
    BY <2>2, <2>5, <2>6 DEF LanesOK, Lanes
<1> QED
  BY <1>2, <1>3, <1>4, <1>5 DEF RoundsInv

(* A round with the right message vectors. *)
LEMMA RoundInv ==
  ASSUME NEW Word, WordOps(Word), JobsOf(Word), RoundsInv(Word), r \in 0 .. 6,
         NEW t, t = [l \in Lanes |-> Wanted(job[l].block, r)], Round(t)
  PROVE  RoundsInv(Word)'
<1>1. /\ r' = r + 1 /\ job' = job /\ m' = t
      /\ state' = [l \in Lanes |-> PortableRound(state[l], job[l].block)]
      /\ rows' = [l \in Lanes |-> RowRound(rows[l], t[l])]
      /\ v' = LaneRound(v, [i \in 0 .. 15 |-> [l \in Lanes |-> job[l].block[i]]])
  BY DEF Round
<1>2. /\ job \in [Lanes -> Jobs] /\ state \in [Lanes -> [0 .. 15 -> Word]]
      /\ rows = [l \in Lanes |-> Rows(state[l])]
      /\ v \in [0 .. 15 -> Fours(Word)] /\ \A l \in Lanes : LaneOf(v, state[l], l)
  BY DEF RoundsInv, StatesOK, RowsOK, LanesOK
<1>3. \A l \in Lanes : job[l].block \in [0 .. 15 -> Word] /\ state[l] \in [0 .. 15 -> Word]
  BY <1>2 DEF JobsOf
<1>4. \A l \in Lanes :
        /\ PortableRound(state[l], job[l].block) \in [0 .. 15 -> Word]
        /\ RowRound(Rows(state[l]), Wanted(job[l].block, r)) = Rows(PortableRound(state[l], job[l].block))
  BY <1>3, RowsAgree
<1>5. StatesOK(Word)'
  BY <1>1, <1>2, <1>4 DEF StatesOK
<1>6. RowsOK'
  <2>1. \A l \in Lanes : rows'[l] = Rows(state'[l])
    BY <1>1, <1>2, <1>4
  <2> QED
    BY <1>1, <2>1 DEF RowsOK
<1>7. MessagesOK'
  BY <1>1 DEF MessagesOK
<1>8. LanesOK(Word)'
  <2>1. PICK mw : mw = [i \in 0 .. 15 |-> [l \in Lanes |-> job[l].block[i]]]
    OBVIOUS
  <2>2. BlockVectors(Word, mw)
    BY <1>3, <2>1 DEF VecOf, Lanes, BlockVectors
  <2>3. \A l \in Lanes : LaneOf(mw, job[l].block, l)
    BY <2>1 DEF LaneOf
  <2>4. PICK w : w = LaneRound(v, mw)
    OBVIOUS
  <2>5. w \in [0 .. 15 -> Fours(Word)]
    BY <1>2, <2>2, <2>4, LanesAgree
  <2>6. \A l \in 1 .. 4, s \in [0 .. 15 -> Word], b \in [0 .. 15 -> Word] :
          LaneOf(v, s, l) /\ LaneOf(mw, b, l) => LaneOf(w, PortableRound(s, b), l)
    BY <1>2, <2>2, <2>4, LanesAgree
  <2>7. \A l \in Lanes : LaneOf(w, PortableRound(state[l], job[l].block), l)
    BY <1>2, <1>3, <2>3, <2>6 DEF Lanes
  <2>8. v' = w /\ \A l \in Lanes : state'[l] = PortableRound(state[l], job[l].block)
    BY <1>1, <2>1, <2>4
  <2>9. \A l \in Lanes : LaneOf(v', state'[l], l)
    BY <2>7, <2>8
  <2> QED
    BY <2>5, <2>8, <2>9 DEF LanesOK
<1> QED
  BY <1>5, <1>6, <1>7, <1>8 DEF RoundsInv

(* The message vectors of every round are the right ones. *)
LEMMA RoundsNextInv ==
  ASSUME NEW Word, WordOps(Word), JobsOf(Word), RoundsInv(Word), [RoundsNext]_roundVars
  PROVE  RoundsInv(Word)'
<1>1. CASE FirstRound
  <2>1. r = 0 /\ Round([l \in Lanes |-> FirstMessages(m[l])])
    BY <1>1 DEF FirstRound
  <2>2. [l \in Lanes |-> FirstMessages(m[l])] = [l \in Lanes |-> Wanted(job[l].block, r)]
    BY <2>1, FirstWanted DEF RoundsInv, MessagesOK
  <2> QED
    BY <2>1, <2>2, RoundInv
<1>2. CASE LaterRound
  <2>1. r \in 1 .. 6 /\ Round([l \in Lanes |-> NextMessages(m[l])])
    BY <1>2 DEF LaterRound
  <2>2. \A l \in Lanes : NextMessages(m[l]) = Wanted(job[l].block, r)
    <3>1. PICK k \in 0 .. 5 : k = r - 1
      BY <2>1
    <3>2. \A l \in Lanes : m[l] = Wanted(job[l].block, k)
      BY <2>1, <3>1 DEF RoundsInv, MessagesOK
    <3>3. k + 1 = r
      BY <2>1, <3>1
    <3> QED
      BY <3>2, <3>3, NextWanted
  <2>3. [l \in Lanes |-> NextMessages(m[l])] = [l \in Lanes |-> Wanted(job[l].block, r)]
    BY <2>2
  <2> QED
    BY <2>1, <2>3, RoundInv
<1>3. CASE UNCHANGED roundVars
  BY <1>3 DEF roundVars, RoundsInv, StatesOK, RowsOK, MessagesOK, LanesOK
<1> QED
  BY <1>1, <1>2, <1>3 DEF RoundsNext

(* What is compared is what the invariant says, word by word. *)
LEMMA RoundsInvAgree ==
  ASSUME NEW Word, JobsOf(Word), RoundsInv(Word) PROVE CompressionsAgree
<1> SUFFICES ASSUME NEW l \in Lanes
             PROVE  /\ rows[l] = Rows(state[l])
                    /\ \A i \in 0 .. 15 : v[i][l] = state[l][i]
                    /\ r = 7 => /\ RowsXof(l) = Rows(PortableXof(l))
                                /\ \A i \in 0 .. 7 : LanesCv[i][l] = PortableXof(l)[i]
  BY DEF CompressionsAgree
<1>1. rows[l] = Rows(state[l])
  BY DEF RoundsInv, RowsOK
<1>2. \A i \in 0 .. 15 : v[i][l] = state[l][i]
  BY DEF RoundsInv, LanesOK, LaneOf
<1>3. RowsXof(l) = Rows(PortableXof(l))
  <2>1. PICK s, c : s = state[l] /\ c = job[l].cv
    OBVIOUS
  <2>2. rows[l] = << <<s[0], s[1], s[2], s[3]>>, <<s[4], s[5], s[6], s[7]>>,
                     <<s[8], s[9], s[10], s[11]>>, <<s[12], s[13], s[14], s[15]>> >>
    BY <1>1, <2>1 DEF Rows, Row
  <2>3. PICK x : x = PortableXof(l)
    OBVIOUS
  <2>4. \A i \in 0 .. 15 : x[i] = Xor(s[i], IF i < 8 THEN s[i + 8] ELSE c[i - 8])
    BY <2>1, <2>3 DEF PortableXof
  <2>5. RowsXof(l) = << <<x[0], x[1], x[2], x[3]>>, <<x[4], x[5], x[6], x[7]>>,
                        <<x[8], x[9], x[10], x[11]>>, <<x[12], x[13], x[14], x[15]>> >>
    BY <2>1, <2>2, <2>4 DEF RowsXof, XorV, Row
  <2> QED
    BY <2>3, <2>5 DEF Rows, Row
<1>4. ASSUME NEW i \in 0 .. 7
      PROVE  LanesCv[i][l] = PortableXof(l)[i]
  <2>1. \A x, y : XorV(x, y)[l] = Xor(x[l], y[l])
    BY DEF XorV, Lanes
  <2>2. LanesCv[i] = XorV(v[i], v[i + 8])
    BY DEF LanesCv
  <2>3. v[i][l] = state[l][i] /\ v[i + 8][l] = state[l][i + 8]
    BY <1>2
  <2>4. PortableXof(l)[i] = Xor(state[l][i], state[l][i + 8])
    BY DEF PortableXof
  <2> QED
    BY <2>1, <2>2, <2>3, <2>4
<1> QED
  BY <1>1, <1>2, <1>3, <1>4

(* Portable, row and lane code compute the same words, round by round and in *)
(* what they return: for every block and chaining value, every instruction   *)
(* set, and any words whose addition lets addends change places and whose    *)
(* byte shuffles are the rotations they stand for.                           *)
THEOREM EveryKernelCompresses ==
  ASSUME NEW Word, WordOps(Word), JobsOf(Word)
  PROVE  RoundsSpec => []CompressionsAgree
<1>1. RoundsInit => RoundsInv(Word)
  BY RoundsInitInv
<1>2. RoundsInv(Word) /\ [RoundsNext]_roundVars => RoundsInv(Word)'
  BY RoundsNextInv
<1>3. RoundsInv(Word) => CompressionsAgree
  BY RoundsInvAgree
<1> QED
  BY <1>1, <1>2, <1>3, PTL DEF RoundsSpec

-----------------------------------------------------------------------------
(* hash_many: whatever widths its inputs are hashed in. *)

(* The halves of a counter that has a lane added to it. *)
HalvesFit(H, c, d, l) ==
  /\ (c + d) % (H * H) \in 0 .. H * H - 1
  /\ ((c + d) % (H * H)) % H = l
  /\ ((c + d) % (H * H)) \div H = ((c \div H) + IF d > l THEN 1 ELSE 0) % H

LEMMA Halves ==
  ASSUME NEW H \in Nat, H > 15, NEW c \in 0 .. H * H - 1, NEW d \in 0 .. 15,
         NEW l, l = ((c % H) + d) % H
  PROVE  HalvesFit(H, c, d, l)
<1> USE DEF HalvesFit
<1>1. PICK q \in Nat, t \in 0 .. H - 1 : c = H * q + t
  BY DivModExists
<1>2. c % H = t /\ c \div H = q
  BY <1>1, DivMod
<1>3. q < H
  <2>1. SUFFICES ASSUME q >= H PROVE FALSE
    BY <1>1
  <2>2. H * q >= H * H
    BY <2>1
  <2> QED
    BY <1>1, <2>2
<1>4. PICK M \in Nat \ {0} : M = H * H
  OBVIOUS
<1>a. PICK e \in Nat, b \in Nat : e = c + d /\ b = t + d
  BY <1>1
<1>b. e = H * q + b /\ l = b % H
  BY <1>1, <1>2, <1>a
<1>c. 0 \in Nat /\ 1 \in Nat /\ H \in Nat \ {0}
  OBVIOUS
<1>5. CASE b < H
  <2>1. b \in 0 .. H - 1
    BY <1>5
  <2>2. H * q <= H * (H - 1) /\ H * (H - 1) = H * H - H
    BY <1>3
  <2>3. e \in 0 .. M - 1
    BY <1>4, <1>b, <2>1, <2>2
  <2>4. e % M = e
    <3>1. e = M * 0 + e
      BY <1>4
    <3> QED
      BY <1>4, <1>c, <2>3, <3>1, DivMod
  <2>5. e % H = b /\ e \div H = q
    BY <1>b, <1>c, <2>1, DivMod
  <2>6. l = b
    <3>1. b = H * 0 + b
      OBVIOUS
    <3>2. b % H = b
      BY <1>c, <2>1, <3>1, DivMod
    <3> QED
      BY <1>b, <3>2
  <2>7. q % H = q
    <3>1. q = H * 0 + q /\ q \in 0 .. H - 1
      BY <1>3
    <3> QED
      BY <1>c, <3>1, DivMod
  <2>8. b >= d
    BY <1>a
  <2> QED
    BY <1>2, <1>4, <1>a, <2>3, <2>4, <2>5, <2>6, <2>7, <2>8
<1>6. CASE b >= H
  <2>1. PICK u \in 0 .. H - 1 : u = b - H
    BY <1>6, <1>a
  <2>2. l = u /\ d > u
    <3>1. b = H * 1 + u
      BY <2>1
    <3>2. b % H = u
      BY <1>c, <3>1, DivMod
    <3> QED
      BY <1>a, <1>b, <2>1, <3>2
  <2>3. PICK k \in Nat : k = q + 1
    OBVIOUS
  <2>4. e = H * k + u
    BY <1>b, <2>1, <2>3
  <2>5. CASE k < H
    <3>1. H * k <= H * (H - 1) /\ H * (H - 1) = H * H - H
      BY <2>5
    <3>2. e \in 0 .. M - 1
      BY <1>4, <2>4, <3>1
    <3>3. e % M = e
      <4>1. e = M * 0 + e
        BY <1>4
      <4> QED
        BY <1>4, <1>c, <3>2, <4>1, DivMod
    <3>4. e % H = u /\ e \div H = k
      BY <1>c, <2>4, DivMod
    <3>5. k % H = k
      <4>1. k = H * 0 + k /\ k \in 0 .. H - 1
        BY <2>5
      <4> QED
        BY <1>c, <4>1, DivMod
    <3> QED
      BY <1>2, <1>4, <1>a, <2>2, <2>3, <3>2, <3>3, <3>4, <3>5
  <2>6. CASE k = H
    <3>1. e = M * 1 + u /\ u \in 0 .. M - 1
      BY <1>4, <2>4, <2>6
    <3>2. e % M = u
      BY <1>4, <1>c, <3>1, DivMod
    <3>3. u % H = u /\ u \div H = 0
      <4>1. u = H * 0 + u
        OBVIOUS
      <4> QED
        BY <1>c, <4>1, DivMod
    <3>4. k % H = 0
      <4>1. k = H * 1 + 0 /\ 0 \in 0 .. H - 1
        BY <2>6
      <4> QED
        BY <1>c, <4>1, DivMod
    <3> QED
      BY <1>2, <1>4, <1>a, <2>2, <2>3, <3>1, <3>2, <3>3, <3>4
  <2> QED
    BY <1>3, <2>3, <2>5, <2>6
<1> QED
  BY <1>5, <1>6, <1>a

-----------------------------------------------------------------------------
(* The chaining values of one message, one after the other. *)
BlockAt(inp, b) == [i \in 0 .. 15 |-> inp[16 * b + i]]
OneStep(inp, c, b, before) ==
  Compress(before, BlockAt(inp, b - 1), counter_low(c), counter_high(c), BlockFlags(b - 1))
OneChain(inp, c, n, f) ==
  f = [b \in 0 .. n |-> IF b = 0 THEN Key ELSE OneStep(inp, c, b, f[b - 1])]

(* The recursive function of hash_one is a function.                       *)
LEMMA OneChainExists ==
  ASSUME NEW inp, NEW c, NEW n \in Nat
  PROVE  \E f : OneChain(inp, c, n, f)
<1> DEFINE Set == {k \in Nat : \E f : OneChain(inp, c, k, f)}
<1>1. 0 \in Set
  <2>1. PICK f : f = [b \in 0 .. 0 |-> Key]
    OBVIOUS
  <2>2. f = [b \in 0 .. 0 |-> IF b = 0 THEN Key ELSE OneStep(inp, c, b, f[b - 1])]
    BY <2>1
  <2> QED
    BY <2>2 DEF OneChain
<1>2. ASSUME NEW k \in Nat, k \in Set PROVE k + 1 \in Set
  <2>1. PICK f : f = [b \in 0 .. k |-> IF b = 0 THEN Key ELSE OneStep(inp, c, b, f[b - 1])]
    BY <1>2 DEF OneChain
  <2>2. PICK h : h = [b \in 0 .. k + 1 |-> IF b = 0 THEN Key ELSE OneStep(inp, c, b, f[b - 1])]
    OBVIOUS
  <2>3. \A b \in 0 .. k : h[b] = f[b]
    BY <2>1, <2>2
  <2>4. \A b \in 0 .. k + 1 : b # 0 => b - 1 \in 0 .. k
    OBVIOUS
  <2>5. h = [b \in 0 .. k + 1 |-> IF b = 0 THEN Key ELSE OneStep(inp, c, b, h[b - 1])]
    BY <2>2, <2>3, <2>4
  <2> QED
    BY <2>5 DEF OneChain
<1> HIDE DEF Set
<1>3. Nat \subseteq Set
  BY <1>1, <1>2, AllNumbers
<1> QED
  BY <1>3 DEF Set

(* What hash_one returns is the end of a chain over the blocks.            *)
LEMMA HashOneChain ==
  ASSUME NEW inp, NEW c, Blocks \in Nat
  PROVE  \E f : OneChain(inp, c, Blocks, f) /\ hash_one(inp, c) = f[Blocks]
<1>1. PICK f : f = CHOOSE chain : OneChain(inp, c, Blocks, chain)
  OBVIOUS
<1>2. OneChain(inp, c, Blocks, f)
  BY <1>1, OneChainExists
<1>3. hash_one(inp, c) = f[Blocks]
  BY <1>1 DEF hash_one, OneChain, OneStep, BlockAt
<1> QED
  BY <1>2, <1>3

(* The vectors of a kernel, one block after the other. *)
LaneStep(D, b, before, j) ==
  Compress([i \in 0 .. 7 |-> before[i][j]], [i \in 0 .. 15 |-> transpose_msg_vecs(D, b - 1)[i][j]],
           load_counters(D, j)[1], load_counters(D, j)[2], BlockFlags(b - 1))
WideStep(D, b, before) ==
  LET lane == [j \in 0 .. D - 1 |-> LaneStep(D, b, before, j)]
  IN [i \in 0 .. 7 |-> [j \in 0 .. D - 1 |-> lane[j][i]]]
WideStart(D) == [i \in 0 .. 7 |-> [j \in 0 .. D - 1 |-> Key[i]]]
WideChain(D, n, h) ==
  h = [b \in 0 .. n |-> IF b = 0 THEN WideStart(D) ELSE WideStep(D, b, h[b - 1])]

(* So is that of a kernel of D lanes.                                      *)
LEMMA WideChainExists ==
  ASSUME NEW D, NEW n \in Nat
  PROVE  \E h : WideChain(D, n, h)
<1> DEFINE Set == {k \in Nat : \E h : WideChain(D, k, h)}
<1>1. 0 \in Set
  <2>1. PICK h : h = [b \in 0 .. 0 |-> WideStart(D)]
    OBVIOUS
  <2>2. h = [b \in 0 .. 0 |-> IF b = 0 THEN WideStart(D) ELSE WideStep(D, b, h[b - 1])]
    BY <2>1
  <2> QED
    BY <2>2 DEF WideChain
<1>2. ASSUME NEW k \in Nat, k \in Set PROVE k + 1 \in Set
  <2>1. PICK h : h = [b \in 0 .. k |-> IF b = 0 THEN WideStart(D) ELSE WideStep(D, b, h[b - 1])]
    BY <1>2 DEF WideChain
  <2>2. PICK chain : chain = [b \in 0 .. k + 1 |-> IF b = 0 THEN WideStart(D) ELSE WideStep(D, b, h[b - 1])]
    OBVIOUS
  <2>3. \A b \in 0 .. k : chain[b] = h[b]
    BY <2>1, <2>2
  <2>4. \A b \in 0 .. k + 1 : b # 0 => b - 1 \in 0 .. k
    OBVIOUS
  <2>5. chain = [b \in 0 .. k + 1 |-> IF b = 0 THEN WideStart(D) ELSE WideStep(D, b, chain[b - 1])]
    BY <2>2, <2>3, <2>4
  <2> QED
    BY <2>5 DEF WideChain
<1> HIDE DEF Set
<1>3. Nat \subseteq Set
  BY <1>1, <1>2, AllNumbers
<1> QED
  BY <1>3 DEF Set

(* What the kernel ends with is the end of a chain of vectors.             *)
LEMMA WideStateChain ==
  ASSUME NEW D, Blocks \in Nat
  PROVE  \E h : WideChain(D, Blocks, h) /\ WideState(D) = h[Blocks]
<1>1. PICK h : h = CHOOSE chain : WideChain(D, Blocks, chain)
  OBVIOUS
<1>2. WideChain(D, Blocks, h)
  BY <1>1, WideChainExists
<1>3. WideState(D) = h[Blocks]
  BY <1>1 DEF WideState, WideChain, WideStep, LaneStep, WideStart
<1> QED
  BY <1>2, <1>3

-----------------------------------------------------------------------------
(* Vectors of D words. *)
WordsIn(vecs, n, D) == DOMAIN vecs = 0 .. n - 1 /\ \A k \in 0 .. n - 1 : DOMAIN vecs[k] = 0 .. D - 1

(* Word 2 * pair + f of lane q after an interleaving. *)
LEMMA LanePlace ==
  ASSUME NEW q \in 0 .. 3, NEW pair \in {0, 1}, NEW f \in {0, 1}, NEW j, j = 4 * q + 2 * pair + f
  PROVE  /\ j \in Nat /\ j \div 4 = q /\ j % 4 = 2 * pair + f
         /\ (2 * pair + f) \div 1 = 2 * pair + f /\ (2 * pair + f) % 2 = f /\ (2 * pair + f) \div 2 = pair
         /\ (2 * pair + f) \div 4 = 0 /\ (2 * pair + f) % 1 = 0 /\ pair % 2 = pair
<1>1. j = 4 * q + (2 * pair + f) /\ 2 * pair + f \in 0 .. 4 - 1 /\ q \in Nat /\ 4 \in Nat \ {0}
  OBVIOUS
<1>2. j \div 4 = q /\ j % 4 = 2 * pair + f
  <2>1. PICK t \in 0 .. 4 - 1 : t = 2 * pair + f
    OBVIOUS
  <2>2. j = 4 * q + t
    BY <1>1, <2>1
  <2>3. j % 4 = t /\ j \div 4 = q
    BY <1>1, <2>2, DivMod
  <2> QED
    BY <2>1, <2>3
<1> QED
  BY <1>1, <1>2

(* Where word j of an interleaving comes from.                             *)
LEMMA UnpackAt ==
  ASSUME NEW a, NEW b, NEW off \in 0 .. 3, NEW q \in 0 .. 3, NEW pair \in {0, 1}, NEW f \in {0, 1},
         NEW j \in DOMAIN a, j = 4 * q + 2 * pair + f
  PROVE  /\ \A x : x = 4 * q + off + pair => Unpack(1, off, a, b)[j] = (IF f = 0 THEN a ELSE b)[x]
         /\ \A x : x = 4 * q + off + f => Unpack(2, off, a, b)[j] = (IF pair = 0 THEN a ELSE b)[x]
<1>1. PICK t : t = 2 * pair + f
  OBVIOUS
<1>2. /\ j \div 4 = q /\ j % 4 = t /\ t \div 1 = t /\ t % 2 = f /\ t \div 2 = pair
      /\ t \div 4 = 0 /\ t % 1 = 0 /\ pair % 2 = pair
  BY <1>1, LanePlace
<1>3. Unpack(1, off, a, b)[j]
      = (IF ((j % 4) \div 1) % 2 = 0 THEN a ELSE b)
          [4 * (j \div 4) + off + 1 * ((j % 4) \div (2 * 1)) + ((j % 4) % 1)]
  BY DEF Unpack
<1>4. Unpack(2, off, a, b)[j]
      = (IF ((j % 4) \div 2) % 2 = 0 THEN a ELSE b)
          [4 * (j \div 4) + off + 2 * ((j % 4) \div (2 * 2)) + ((j % 4) % 2)]
  BY DEF Unpack
<1>5. 2 * 1 = 2 /\ 2 * 2 = 4
  OBVIOUS
<1>6. Unpack(1, off, a, b)[j] = (IF f = 0 THEN a ELSE b)[4 * q + off + 1 * pair + 0]
  BY <1>2, <1>3, <1>5, Zenon
<1>7. Unpack(2, off, a, b)[j] = (IF pair = 0 THEN a ELSE b)[4 * q + off + 2 * 0 + f]
  BY <1>2, <1>4, <1>5, Zenon
<1> QED
  BY <1>6, <1>7

(* The two interleavings transpose four by four words of every 128 bits. *)
QuadAt(vecs, D, p, t, x) ==
  DOMAIN x = 0 .. D - 1 /\ \A q \in 0 .. 3, s \in 0 .. 3 : 4 * q + s < D => x[4 * q + s] = vecs[4 * p + s][4 * q + t]

QuadWord(w, vecs, n, D, p, s, q, t) ==
  4 * p + s < n /\ 4 * q + t < D => w[4 * p + s][4 * q + t] = vecs[4 * p + t][4 * q + s]
QuadsOf(w, vecs, n, D) ==
  /\ WordsIn(w, n, D)
  /\ \A p \in 0 .. 3, s \in 0 .. 3, q \in 0 .. 3, t \in 0 .. 3 : QuadWord(w, vecs, n, D, p, s, q, t)

LEMMA QuadsAt ==
  ASSUME NEW D \in {4, 8, 16}, NEW n \in {8, 16}, NEW vecs, WordsIn(vecs, n, D)
  PROVE  QuadsOf(Quads(vecs), vecs, n, D)
<1>1. ASSUME NEW p \in 0 .. 3, NEW s \in 0 .. 3, NEW k0 \in 0 .. n - 1, k0 = 4 * p + s
      PROVE  QuadAt(vecs, D, p, s, Quad(vecs, k0))
  <2>1. PICK a, b, c, d : a = vecs[4 * p] /\ b = vecs[4 * p + 1] /\ c = vecs[4 * p + 2] /\ d = vecs[4 * p + 3]
    OBVIOUS
  <2>2. DOMAIN a = 0 .. D - 1 /\ DOMAIN b = 0 .. D - 1 /\ DOMAIN c = 0 .. D - 1 /\ DOMAIN d = 0 .. D - 1
    BY <1>1, <2>1 DEF WordsIn
  <2>3. PICK off \in {0, 2} : off = 2 * (s \div 2)
    OBVIOUS
  <2>4. PICK lo, hi : lo = Unpack(1, off, a, b) /\ hi = Unpack(1, off, c, d)
    OBVIOUS
  <2>5. Quad(vecs, k0) = Unpack(2, 2 * (s % 2), lo, hi)
    <3>1. k0 \div 4 = p /\ k0 % 4 = s /\ k0 % 2 = s % 2
      BY <1>1
    <3> QED
      BY <2>1, <2>3, <2>4, <3>1 DEF Quad
  <2>6. DOMAIN lo = 0 .. D - 1 /\ DOMAIN hi = 0 .. D - 1
    BY <2>2, <2>4 DEF Unpack
  <2>7. PICK u : u = Unpack(2, 2 * (s % 2), lo, hi)
    OBVIOUS
  <2>8. DOMAIN u = 0 .. D - 1
    BY <2>6, <2>7 DEF Unpack
  <2>9. ASSUME NEW q \in 0 .. 3, NEW t \in 0 .. 3, 4 * q + t < D
        PROVE  u[4 * q + t] = vecs[4 * p + t][4 * q + s]
    <3>3. PICK e \in {0, 1}, f \in {0, 1} : s = 2 * e + f /\ s % 2 = f /\ s \div 2 = e
      OBVIOUS
    <3>4. PICK pair \in {0, 1}, k \in {0, 1} : t = 2 * pair + k
      OBVIOUS
    <3>1. PICK j \in 0 .. D - 1 : j = 4 * q + 2 * pair + k /\ j = 4 * q + t
      BY <2>9, <3>4
    <3>6. PICK x \in 0 .. D - 1 : x = 4 * q + 2 * f + k
      BY <2>9, <3>4
    <3>5. u[j] = (IF pair = 0 THEN lo ELSE hi)[x]
      <4>1. PICK o \in 0 .. 3 : o = 2 * (s % 2) /\ x = 4 * q + o + k
        BY <3>3, <3>6
      <4>2. j \in DOMAIN lo /\ u = Unpack(2, o, lo, hi)
        BY <2>6, <2>7, <4>1
      <4> QED
        BY <3>1, <4>1, <4>2, UnpackAt
    <3>7. PICK y : y = 4 * q + off + f
      OBVIOUS
    <3>8. lo[x] = (IF k = 0 THEN a ELSE b)[y] /\ hi[x] = (IF k = 0 THEN c ELSE d)[y]
      <4>1. x \in DOMAIN a /\ x \in DOMAIN c /\ off \in 0 .. 3
        BY <2>2
      <4> QED
        BY <2>4, <3>6, <3>7, <4>1, UnpackAt
    <3>9. y = 4 * q + s
      BY <2>3, <3>3, <3>7
    <3>10. /\ pair = 0 /\ k = 0 => vecs[4 * p + t] = a
           /\ pair = 0 /\ k = 1 => vecs[4 * p + t] = b
           /\ pair = 1 /\ k = 0 => vecs[4 * p + t] = c
           /\ pair = 1 /\ k = 1 => vecs[4 * p + t] = d
      BY <2>1, <3>4
    <3> QED
      BY <3>1, <3>5, <3>8, <3>9, <3>10
  <2> QED
    BY <2>5, <2>7, <2>8, <2>9 DEF QuadAt
<1>2. \A k \in 0 .. n - 1 : \E p \in 0 .. 3, s \in 0 .. 3 : k = 4 * p + s
  <2> SUFFICES ASSUME NEW k \in 0 .. n - 1 PROVE \E p \in 0 .. 3, s \in 0 .. 3 : k = 4 * p + s
    OBVIOUS
  <2>1. PICK p \in Nat, s \in 0 .. 4 - 1 : k = 4 * p + s
    BY DivModExists
  <2>2. p \in 0 .. 3 /\ s \in 0 .. 3
    BY <2>1
  <2> QED
    BY <2>1, <2>2
<1>3. \A k \in 0 .. n - 1 : DOMAIN Quad(vecs, k) = 0 .. D - 1
  BY <1>1, <1>2 DEF QuadAt
<1>4. PICK w : w = Quads(vecs)
  OBVIOUS
<1>5. DOMAIN w = 0 .. n - 1 /\ \A k \in 0 .. n - 1 : w[k] = Quad(vecs, k)
  BY <1>4 DEF Quads, WordsIn
<1>6. ASSUME NEW p \in 0 .. 3, NEW s \in 0 .. 3, NEW q \in 0 .. 3, NEW t \in 0 .. 3,
             4 * p + s < n, 4 * q + t < D
      PROVE  w[4 * p + s][4 * q + t] = vecs[4 * p + t][4 * q + s]
  <2>1. PICK k \in 0 .. n - 1 : k = 4 * p + s
    BY <1>6
  <2>2. QuadAt(vecs, D, p, s, Quad(vecs, k))
    BY <1>1, <2>1
  <2>3. Quad(vecs, k)[4 * q + t] = vecs[4 * p + t][4 * q + s]
    BY <1>6, <2>2 DEF QuadAt
  <2> QED
    BY <1>5, <2>1, <2>3
<1>7. WordsIn(w, n, D)
  BY <1>3, <1>5 DEF WordsIn
<1>8. ASSUME NEW p \in 0 .. 3, NEW s \in 0 .. 3, NEW q \in 0 .. 3, NEW t \in 0 .. 3
      PROVE  QuadWord(w, vecs, n, D, p, s, q, t)
  BY <1>6 DEF QuadWord
<1>9. QuadsOf(w, vecs, n, D)
  BY <1>7, <1>8, Zenon DEF QuadsOf
<1> QED
  BY <1>4, <1>9

(* Vector d * a + x of the transposed matrix of d lanes. *)
Transposed(w, vecs, n, D) ==
  /\ WordsIn(w, n, D)
  /\ \A a \in 0 .. 3, x \in 0 .. D - 1, y \in 0 .. D - 1 :
       D * a + x < n => w[D * a + x][y] = vecs[D * a + y][x]

(* Four lanes: the interleavings are the whole transposition.              *)
LEMMA Transpose4At ==
  ASSUME NEW n \in {8, 16}, NEW vecs, WordsIn(vecs, n, 4)
  PROVE  Transposed(Quads(vecs), vecs, n, 4)
<1>1. PICK w : w = Quads(vecs)
  OBVIOUS
<1>2. QuadsOf(w, vecs, n, 4)
  BY <1>1, QuadsAt
<1>3. ASSUME NEW a \in 0 .. 3, NEW x \in 0 .. 3, NEW y \in 0 .. 3, 4 * a + x < n
      PROVE  w[4 * a + x][y] = vecs[4 * a + y][x]
  <2>1. 4 * 0 + y = y /\ 4 * 0 + x = x /\ 0 \in 0 .. 3 /\ y < 4
    OBVIOUS
  <2>2. w[4 * a + x][4 * 0 + y] = vecs[4 * a + y][4 * 0 + x]
    <3>1. QuadWord(w, vecs, n, 4, a, x, 0, y)
      BY <1>2, <2>1, Zenon DEF QuadsOf
    <3> QED
      BY <1>3, <2>1, <3>1 DEF QuadWord
  <2> QED
    BY <2>1, <2>2
<1>4. WordsIn(w, n, 4)
  BY <1>2 DEF QuadsOf
<1> QED
  BY <1>1, <1>3, <1>4 DEF Transposed

(* Which half of eight a number is in.                                     *)
LEMMA HalfPlace ==
  ASSUME NEW x \in 0 .. 7
  PROVE  \E e \in {0, 1}, s \in 0 .. 3 : x = 4 * e + s
<1>1. CASE x < 4
  BY <1>1
<1>2. CASE x >= 4
  <2>1. x - 4 \in 0 .. 3 /\ x = 4 * 1 + (x - 4)
    BY <1>2
  <2> QED
    BY <2>1
<1> QED
  BY <1>1, <1>2

(* Eight lanes: the halves change places.                                  *)
LEMMA Transpose8At ==
  ASSUME NEW n \in {8, 16}, NEW vecs, WordsIn(vecs, n, 8)
  PROVE  Transposed(Transpose8(vecs), vecs, n, 8)
<1>1. PICK w : w = Quads(vecs)
  OBVIOUS
<1>2. QuadsOf(w, vecs, n, 8)
  BY <1>1, QuadsAt
<1>3. PICK z : z = Transpose8(vecs)
  OBVIOUS
<1>4. \A k \in 0 .. n - 1 :
        z[k] = Permute(w[8 * (k \div 8) + (k % 4)], w[8 * (k \div 8) + (k % 4) + 4],
                       (k % 8) \div 4)
  BY <1>1, <1>3 DEF Transpose8, WordsIn
<1>5. WordsIn(z, n, 8)
  BY <1>3, <1>4 DEF WordsIn, Transpose8, Permute
<1>6. ASSUME NEW a \in 0 .. 3, NEW x \in 0 .. 7, NEW y \in 0 .. 7, 8 * a + x < n
      PROVE  z[8 * a + x][y] = vecs[8 * a + y][x]
  <2>1. PICK e \in {0, 1}, s \in 0 .. 3 : x = 4 * e + s
    BY HalfPlace
  <2>2. PICK f \in {0, 1}, t \in 0 .. 3 : y = 4 * f + t
    BY HalfPlace
  <2>3. PICK k \in 0 .. n - 1 : k = 8 * a + x
    BY <1>6
  <2>4. k \div 8 = a /\ k % 8 = x /\ k % 4 = s /\ x \div 4 = e /\ y % 4 = t
    BY <2>1, <2>2, <2>3
  <2>5. z[k] = Permute(w[8 * a + s], w[8 * a + s + 4], e)
    BY <1>4, <2>4
  <2>6. Permute(w[8 * a + s], w[8 * a + s + 4], e)[y]
        = (IF y < 4 THEN w[8 * a + s] ELSE w[8 * a + s + 4])[4 * e + t]
    BY <2>4 DEF Permute
  <2>7. PICK p \in 0 .. 3 : p = 2 * a + f
    BY <1>6, <2>1, <2>2
  <2>8. (IF y < 4 THEN w[8 * a + s] ELSE w[8 * a + s + 4]) = w[4 * p + s]
    <3>1. CASE f = 0
      BY <2>2, <2>7, <3>1
    <3>2. CASE f = 1
      BY <2>2, <2>7, <3>2
    <3> QED
      BY <3>1, <3>2
  <2>9. 4 * p + s < n /\ 4 * e + t < 8
    BY <1>6, <2>1, <2>7
  <2>10. w[4 * p + s][4 * e + t] = vecs[4 * p + t][4 * e + s]
    <3>1. QuadWord(w, vecs, n, 8, p, s, e, t)
      <4>1. e \in 0 .. 3
        OBVIOUS
      <4> QED
        BY <1>2, <4>1, Zenon DEF QuadsOf
    <3> QED
      BY <2>9, <3>1 DEF QuadWord
  <2>11. 4 * p + t = 8 * a + y
    BY <2>2, <2>7
  <2> QED
    BY <2>1, <2>3, <2>5, <2>6, <2>8, <2>10, <2>11
<1> QED
  BY <1>3, <1>5, <1>6 DEF Transposed

(* Which quarter of sixteen a number is in.                                *)
LEMMA LanePair ==
  ASSUME NEW x \in 0 .. 15
  PROVE  \E h \in {0, 1}, pair \in {0, 1}, t \in 0 .. 3 : x = 8 * h + 4 * pair + t
<1>1. PICK h \in {0, 1}, rest \in 0 .. 7 : x = 8 * h + rest
  <2>1. CASE x < 8
    <3>1. x = 8 * 0 + x /\ x \in 0 .. 7
      BY <2>1
    <3> QED
      BY <3>1
  <2>2. CASE x >= 8
    <3>1. x = 8 * 1 + (x - 8) /\ x - 8 \in 0 .. 7
      BY <2>2
    <3> QED
      BY <3>1
  <2> QED
    BY <2>1, <2>2
<1>2. PICK pair \in {0, 1}, t \in 0 .. 3 : rest = 4 * pair + t
  BY HalfPlace
<1>3. x = 8 * h + 4 * pair + t
  BY <1>1, <1>2
<1> QED
  BY <1>3

(* Where word j of a shuffle of 128-bit lanes comes from.                  *)
LEMMA Unpack128At ==
  ASSUME NEW a, NEW b, NEW c \in {0, 1}, NEW h \in {0, 1}, NEW pair \in {0, 1}, NEW t \in 0 .. 3,
         NEW j, j = 8 * h + 4 * pair + t, NEW x, x = 4 * (2 * pair + c) + t
  PROVE  Unpack128(a, b, c)[j] = (IF h = 0 THEN a ELSE b)[x]
<1>1. PICK l : l = 2 * h + pair
  OBVIOUS
<1>2. j \in 0 .. 15 /\ j \div 4 = l /\ j % 4 = t /\ l % 2 = pair
  BY <1>1
<1>3. Unpack128(a, b, c)[j]
      = (IF j \div 4 < 2 THEN a ELSE b)[4 * (2 * ((j \div 4) % 2) + c) + (j % 4)]
  BY <1>2 DEF Unpack128
<1>4. (l < 2) <=> (h = 0)
  BY <1>1
<1>5. Unpack128(a, b, c)[j] = (IF l < 2 THEN a ELSE b)[4 * (2 * pair + c) + t]
  BY <1>2, <1>3, Zenon
<1> QED
  BY <1>4, <1>5, Zenon

(* Sixteen lanes: two shuffles of the quarters.                            *)
LEMMA Transpose16At ==
  ASSUME NEW vecs, WordsIn(vecs, 16, 16)
  PROVE  Transposed(Transpose16(vecs), vecs, 16, 16)
<1>0. PICK D \in {4, 8, 16}, n \in {8, 16} : D = 16 /\ n = 16
  OBVIOUS
<1>1. PICK w : w = Quads(vecs)
  OBVIOUS
<1>2. QuadsOf(w, vecs, n, D)
  <2>1. WordsIn(vecs, n, D)
    BY <1>0
  <2> QED
    BY <1>1, <2>1, QuadsAt, Zenon
<1>3. PICK e : e = [k \in 0 .. 15 |->
                      Unpack128(w[8 * (k \div 8) + (k % 4)], w[8 * (k \div 8) + (k % 4) + 4],
                                (k % 8) \div 4)]
  OBVIOUS
<1>4. PICK z : z = [k \in 0 .. 15 |-> Unpack128(e[k % 8], e[8 + (k % 8)], k \div 8)]
  OBVIOUS
<1>5. z = Transpose16(vecs)
  BY <1>1, <1>3, <1>4 DEF Transpose16
<1>6. WordsIn(z, n, D)
  BY <1>0, <1>4 DEF WordsIn, Unpack128
<1>7. ASSUME NEW a \in {0, 1}, NEW c \in {0, 1}, NEW s \in 0 .. 3,
             NEW h \in {0, 1}, NEW pair \in {0, 1}, NEW t \in 0 .. 3
      PROVE  e[8 * a + 4 * c + s][8 * h + 4 * pair + t] = vecs[8 * a + 4 * h + t][8 * pair + 4 * c + s]
  <2>1. PICK k \in 0 .. 15, j \in 0 .. 15 : k = 8 * a + 4 * c + s /\ j = 8 * h + 4 * pair + t
    OBVIOUS
  <2>2. k \div 8 = a /\ k % 4 = s /\ (k % 8) \div 4 = c
    BY <2>1
  <2>3. e[k] = Unpack128(w[8 * a + s], w[8 * a + s + 4], c)
    BY <1>3, <2>2
  <2>4. PICK x : x = 4 * (2 * pair + c) + t
    OBVIOUS
  <2>5. Unpack128(w[8 * a + s], w[8 * a + s + 4], c)[j]
        = (IF h = 0 THEN w[8 * a + s] ELSE w[8 * a + s + 4])[x]
    BY <2>1, <2>4, Unpack128At
  <2>6. PICK p \in 0 .. 3, q \in 0 .. 3 : p = 2 * a + h /\ q = 2 * pair + c
    OBVIOUS
  <2>7. (IF h = 0 THEN w[8 * a + s] ELSE w[8 * a + s + 4]) = w[4 * p + s]
    <3>1. h = 0 => 8 * a + s = 4 * p + s
      BY <2>6
    <3>2. h = 1 => 8 * a + s + 4 = 4 * p + s
      BY <2>6
    <3> QED
      BY <3>1, <3>2
  <2>8. 4 * p + s < n /\ 4 * q + t < D
    BY <1>0
  <2>9. w[4 * p + s][4 * q + t] = vecs[4 * p + t][4 * q + s]
    <3>1. QuadWord(w, vecs, n, D, p, s, q, t)
      BY <1>2, Zenon DEF QuadsOf
    <3> QED
      BY <2>8, <3>1 DEF QuadWord
  <2>10. 4 * p + t = 8 * a + 4 * h + t /\ 4 * q + s = 8 * pair + 4 * c + s /\ x = 4 * q + t
    BY <2>4, <2>6
  <2>11. e[k][j] = vecs[8 * a + 4 * h + t][8 * pair + 4 * c + s]
    BY <2>3, <2>5, <2>7, <2>9, <2>10
  <2> QED
    BY <2>1, <2>11
<1>8. ASSUME NEW x \in 0 .. 15, NEW y \in 0 .. 15
      PROVE  z[x][y] = vecs[y][x]
  <2>1. PICK a \in {0, 1}, c \in {0, 1}, s \in 0 .. 3 : x = 8 * a + 4 * c + s
    BY LanePair
  <2>2. PICK h \in {0, 1}, pair \in {0, 1}, t \in 0 .. 3 : y = 8 * h + 4 * pair + t
    BY LanePair
  <2>3. PICK rest : rest = 4 * c + s
    OBVIOUS
  <2>4. x % 8 = rest /\ x \div 8 = a
    BY <2>1, <2>3
  <2>5. z[x] = Unpack128(e[rest], e[8 + rest], a)
    BY <1>4, <2>4
  <2>6. PICK u : u = 4 * (2 * pair + a) + t
    OBVIOUS
  <2>7. Unpack128(e[rest], e[8 + rest], a)[y] = (IF h = 0 THEN e[rest] ELSE e[8 + rest])[u]
    BY <2>2, <2>6, Unpack128At
  <2>8. (IF h = 0 THEN e[rest] ELSE e[8 + rest]) = e[8 * h + 4 * c + s]
    <3>1. h = 0 => rest = 8 * h + 4 * c + s
      BY <2>3
    <3>2. h = 1 => 8 + rest = 8 * h + 4 * c + s
      BY <2>3
    <3> QED
      BY <3>1, <3>2
  <2>9. u = 8 * pair + 4 * a + t
    BY <2>6
  <2>10. e[8 * h + 4 * c + s][8 * pair + 4 * a + t] = vecs[8 * h + 4 * pair + t][8 * a + 4 * c + s]
    BY <1>7
  <2> QED
    BY <2>1, <2>2, <2>5, <2>7, <2>8, <2>9, <2>10
<1>9. ASSUME NEW a \in 0 .. 3, NEW x \in 0 .. D - 1, NEW y \in 0 .. D - 1, D * a + x < n
      PROVE  z[D * a + x][y] = vecs[D * a + y][x]
  <2>1. D * a + x = x /\ D * a + y = y /\ x \in 0 .. 15 /\ y \in 0 .. 15
    BY <1>0, <1>9
  <2> QED
    BY <1>8, <2>1
<1>10. Transposed(z, vecs, n, D)
  BY <1>6, <1>9, Zenon DEF Transposed
<1> QED
  BY <1>0, <1>5, <1>10

(* Every width transposes.                                                 *)
LEMMA TransposeAt ==
  ASSUME NEW D \in {4, 8, 16}, NEW n \in {8, 16}, D <= n, NEW vecs, WordsIn(vecs, n, D)
  PROVE  Transposed(transpose_vecs(D, vecs), vecs, n, D)
<1>1. CASE D = 4
  BY <1>1, Transpose4At DEF transpose_vecs
<1>2. CASE D = 8
  BY <1>2, Transpose8At DEF transpose_vecs
<1>3. CASE D = 16
  BY <1>3, Transpose16At DEF transpose_vecs
<1> QED
  BY <1>1, <1>2, <1>3

-----------------------------------------------------------------------------
(* Vector i of a block holds word i of every input. *)
LEMMA MessageAt ==
  ASSUME NEW D \in {4, 8, 16}, NEW b \in Nat, hashed \in Nat,
         NEW i \in 0 .. 15, NEW j \in 0 .. D - 1
  PROVE  transpose_msg_vecs(D, b)[i][j] = Inputs[hashed + j][16 * b + i]
<1>1. PICK vecs : vecs = [k \in 0 .. 15 |->
                      [l \in 0 .. D - 1 |-> Inputs[hashed + (k % D)][16 * b + D * (k \div D) + l]]]
  OBVIOUS
<1>2. PICK w : w = transpose_vecs(D, vecs)
  OBVIOUS
<1>3. transpose_msg_vecs(D, b) = w
  BY <1>1, <1>2 DEF transpose_msg_vecs
<1>4. WordsIn(vecs, 16, D)
  BY <1>1 DEF WordsIn
<1>5. PICK n \in {8, 16} : n = 16
  OBVIOUS
<1>6. Transposed(w, vecs, n, D)
  BY <1>2, <1>4, <1>5, TransposeAt
<1>7. PICK a \in 0 .. 3, x \in 0 .. D - 1 : i = D * a + x
  <2>1. D \in Nat \ {0} /\ i \in Nat
    OBVIOUS
  <2>2. PICK a \in Nat, x \in 0 .. D - 1 : i = D * a + x
    BY <2>1, DivModExists
  <2>3. a \in 0 .. 3
    BY <2>2
  <2> QED
    BY <2>2, <2>3
<1>8. w[i][j] = vecs[D * a + j][x]
  <2>1. D * a + x < n
    BY <1>5, <1>7
  <2>2. w[D * a + x][j] = vecs[D * a + j][x]
    BY <1>6, <2>1, Zenon DEF Transposed
  <2> QED
    BY <1>7, <2>2
<1>9. PICK k \in 0 .. 15 : k = D * a + j
  BY <1>7
<1>10. k % D = j /\ k \div D = a
  BY <1>9, DivMod
<1>11. vecs[k][x] = Inputs[hashed + j][16 * b + D * a + x]
  BY <1>1, <1>10
<1>12. 16 * b + D * a + x = 16 * b + i
  BY <1>7
<1> QED
  BY <1>3, <1>8, <1>9, <1>11, <1>12

(* Each lane counts with the halves of its own counter. *)
LEMMA CounterAt ==
  ASSUME NEW D, NEW j \in 0 .. 15, HalfWord \in Nat, HalfWord > 15, increment \in BOOLEAN,
         counter \in 0 .. HalfWord * HalfWord - 1, NEW c, c = Wrap(counter + Delta(j))
  PROVE  /\ c \in 0 .. HalfWord * HalfWord - 1
         /\ load_counters(D, j)[1] = counter_low(c)
         /\ load_counters(D, j)[2] = counter_high(c)
<1>1. PICK H \in Nat : H = HalfWord
  OBVIOUS
<1>2. PICK d \in 0 .. 15 : d = Delta(j)
  BY DEF Delta
<1>a. H > 15
  BY <1>1
<1>b. PICK x \in 0 .. H * H - 1 : x = counter
  BY <1>1
<1>3. PICK l : l = ((x % H) + d) % H
  OBVIOUS
<1>4. c = (x + d) % (H * H)
  BY <1>1, <1>2, <1>b DEF Wrap
<1>5. HalvesFit(H, x, d, l)
  BY <1>a, <1>3, Halves, Zenon
<1>6. counter_low(c) = l /\ counter_high(c) = ((x \div H) + IF d > l THEN 1 ELSE 0) % H
  BY <1>1, <1>4, <1>5 DEF HalvesFit, counter_low, counter_high
<1>7. Counter32(j) = <<l, ((x \div H) + IF d > l THEN 1 ELSE 0) % H>>
  BY <1>1, <1>2, <1>b, <1>3 DEF Counter32, counter_low, counter_high
<1>8. Counter64(j) = <<counter_low(c), counter_high(c)>>
  BY DEF Counter64
<1> QED
  BY <1>1, <1>4, <1>5, <1>6, <1>7, <1>8 DEF HalvesFit, load_counters

(* The stores leave the eight words of input k in place k. *)
Output(h, k) == [i \in 0 .. 7 |-> h[i][k]]

LEMMA Stored4At ==
  ASSUME NEW h, WordsIn(h, 8, 4), NEW k \in 0 .. 3
  PROVE  Stored4(h)[k] = Output(h, k)
<1>1. PICK t : t = transpose_vecs(4, h)
  OBVIOUS
<1>2. Transposed(t, h, 8, 4)
  BY <1>1, TransposeAt
<1>3. ASSUME NEW i \in 0 .. 7
      PROVE  t[k + 4 * (i \div 4)][i % 4] = h[i][k]
  <2>1. PICK a \in {0, 1}, y \in 0 .. 3 : i = 4 * a + y
    BY HalfPlace
  <2>2. i \div 4 = a /\ i % 4 = y /\ 4 * a + k < 8 /\ k + 4 * a = 4 * a + k
    BY <2>1
  <2>3. t[4 * a + k][y] = h[4 * a + y][k]
    BY <1>2, <2>2 DEF Transposed
  <2> QED
    BY <2>1, <2>2, <2>3
<1>4. Stored4(h)[k] = [i \in 0 .. 7 |-> t[k + 4 * (i \div 4)][i % 4]]
  BY <1>1 DEF Stored4
<1> QED
  BY <1>3, <1>4 DEF Output

(* Eight vectors of eight are stored as they are.                          *)
LEMMA Stored8At ==
  ASSUME NEW h, WordsIn(h, 8, 8), NEW k \in 0 .. 7
  PROVE  Stored8(h)[k] = Output(h, k)
<1>1. PICK t : t = Stored8(h)
  OBVIOUS
<1>2. t = Transpose8(h)
  BY <1>1 DEF Stored8, transpose_vecs
<1>3. Transposed(t, h, 8, 8)
  BY <1>2, Transpose8At
<1>4. ASSUME NEW i \in 0 .. 7
      PROVE  t[k][i] = h[i][k]
  <2>1. 8 * 0 + k = k /\ 8 * 0 + i = i /\ 8 * 0 + k < 8 /\ 0 \in 0 .. 3
    OBVIOUS
  <2>2. t[8 * 0 + k][i] = h[8 * 0 + i][k]
    BY <1>3, <2>1 DEF Transposed
  <2> QED
    BY <2>1, <2>2
<1>5. t[k] = [i \in 0 .. 7 |-> t[k][i]]
  <2>1. k \in DOMAIN h
    BY DEF WordsIn
  <2>2. PICK w : w = Quads(h)
    OBVIOUS
  <2>3. PICK a, b, s : a = w[8 * (k \div 8) + (k % 4)] /\ b = w[8 * (k \div 8) + (k % 4) + 4] /\ s = (k % 8) \div 4
    OBVIOUS
  <2>4. t[k] = Permute(a, b, s)
    BY <1>2, <2>1, <2>2, <2>3 DEF Transpose8
  <2> QED
    BY <2>4 DEF Permute
<1> QED
  BY <1>1, <1>4, <1>5 DEF Output

(* Of sixteen words the lower eight are stored.                            *)
LEMMA Stored16At ==
  ASSUME NEW h, WordsIn(h, 8, 16), NEW k \in 0 .. 15
  PROVE  Stored16(h)[k] = Output(h, k)
<1>1. PICK vecs : vecs = [i \in 0 .. 15 |-> IF i < 8 THEN h[i] ELSE [j \in 0 .. 15 |-> 0]]
  OBVIOUS
<1>2. PICK t : t = transpose_vecs(16, vecs)
  OBVIOUS
<1>3. WordsIn(vecs, 16, 16)
  BY <1>1 DEF WordsIn
<1>4. Transposed(t, vecs, 16, 16)
  BY <1>2, <1>3, Transpose16At DEF transpose_vecs
<1>5. ASSUME NEW i \in 0 .. 7
      PROVE  t[k][i] = h[i][k]
  <2>1. 16 * 0 + k = k /\ 16 * 0 + i = i /\ 16 * 0 + k < 16 /\ 0 \in 0 .. 3
    OBVIOUS
  <2>2. t[16 * 0 + k][i] = vecs[16 * 0 + i][k]
    BY <1>4, <2>1 DEF Transposed
  <2>3. vecs[i] = h[i]
    BY <1>1
  <2> QED
    BY <2>1, <2>2, <2>3
<1>6. Stored16(h)[k] = [i \in 0 .. 7 |-> t[k][i]]
  BY <1>1, <1>2 DEF Stored16
<1> QED
  BY <1>5, <1>6 DEF Output

-----------------------------------------------------------------------------
(* Words a compression can be run on: the key's, the messages' and those it  *)
(* returns.                                                                  *)
WordsHash(Word) ==
  /\ Key \in [0 .. 7 -> Word]
  /\ \A n \in Sizes : \A k \in 0 .. n - 1 : Inputs[k] \in [0 .. 16 * Blocks - 1 -> Word]
  /\ \A cv \in [0 .. 7 -> Word], words \in [0 .. 15 -> Word],
        low \in 0 .. HalfWord - 1, high \in 0 .. HalfWord - 1,
        flags \in SUBSET {"flags", "start", "end"} :
       Compress(cv, words, low, high, flags) \in [0 .. 7 -> Word]

Sane == Blocks \in Nat /\ HalfWord \in Nat /\ HalfWord > 15
Count == 0 .. HalfWord * HalfWord - 1
Message(Word) == [0 .. 16 * Blocks - 1 -> Word]

(* The halves of a counter fit in a half.                                  *)
LEMMA HalvesTyped ==
  ASSUME Sane, NEW c \in Count
  PROVE  counter_low(c) \in 0 .. HalfWord - 1 /\ counter_high(c) \in 0 .. HalfWord - 1
<1>1. PICK H \in Nat \ {0} : H = HalfWord
  BY DEF Sane
<1>a. c \in Nat /\ c < H * H
  BY <1>1 DEF Count
<1>2. PICK q \in Nat, t \in 0 .. H - 1 : c = H * q + t
  BY <1>a, DivModExists
<1>3. c % H = t /\ c \div H = q
  BY <1>2, DivMod
<1>4. q < H
  <2>1. SUFFICES ASSUME q >= H PROVE FALSE
    BY <1>2
  <2>2. H * q >= H * H
    BY <2>1
  <2> QED
    BY <1>a, <1>2, <2>2
<1> QED
  BY <1>1, <1>2, <1>3, <1>4 DEF counter_low, counter_high

(* A step of a chain returns words.                                        *)
LEMMA StepTyped ==
  ASSUME NEW Word, WordsHash(Word), Sane, NEW inp \in Message(Word), NEW c \in Count,
         NEW b \in 1 .. Blocks, NEW before \in [0 .. 7 -> Word]
  PROVE  OneStep(inp, c, b, before) \in [0 .. 7 -> Word]
<1>1. BlockAt(inp, b - 1) \in [0 .. 15 -> Word]
  <2>1. \A i \in 0 .. 15 : 16 * (b - 1) + i \in 0 .. 16 * Blocks - 1
    BY DEF Sane
  <2> QED
    BY <2>1 DEF BlockAt, Message
<1>2. counter_low(c) \in 0 .. HalfWord - 1 /\ counter_high(c) \in 0 .. HalfWord - 1
  BY HalvesTyped
<1>3. BlockFlags(b - 1) \in SUBSET {"flags", "start", "end"}
  BY DEF BlockFlags
<1> QED
  BY <1>1, <1>2, <1>3 DEF OneStep, WordsHash

(* Every chaining value has eight words.                                   *)
LEMMA ChainTyped ==
  ASSUME NEW Word, WordsHash(Word), Sane, NEW inp \in Message(Word), NEW c \in Count,
         NEW f, OneChain(inp, c, Blocks, f)
  PROVE  \A b \in 0 .. Blocks : f[b] \in [0 .. 7 -> Word]
<1> DEFINE Set == {b \in Nat : b <= Blocks => f[b] \in [0 .. 7 -> Word]}
<1>1. \A b \in 0 .. Blocks : f[b] = IF b = 0 THEN Key ELSE OneStep(inp, c, b, f[b - 1])
  BY DEF OneChain
<1>2. 0 \in Set
  BY <1>1 DEF WordsHash, Sane
<1>3. ASSUME NEW b \in Nat, b \in Set PROVE b + 1 \in Set
  <2>1. SUFFICES ASSUME b + 1 <= Blocks PROVE f[b + 1] \in [0 .. 7 -> Word]
    OBVIOUS
  <2>2. f[b] \in [0 .. 7 -> Word]
    BY <1>3, <2>1 DEF Sane
  <2>3. PICK d \in 1 .. Blocks : d = b + 1 /\ d - 1 = b
    BY <2>1 DEF Sane
  <2>4. OneStep(inp, c, d, f[b]) \in [0 .. 7 -> Word]
    BY <2>2, StepTyped
  <2>5. f[d] = OneStep(inp, c, d, f[d - 1])
    BY <1>1
  <2> QED
    BY <2>3, <2>4, <2>5
<1> HIDE DEF Set
<1>4. Nat \subseteq Set
  BY <1>2, <1>3, AllNumbers
<1> QED
  BY <1>4 DEF Set, Sane

(* The inputs a kernel of D lanes is given, and their chains. *)
Given(Word, D) ==
  /\ hashed \in Nat /\ counter \in Count /\ increment \in BOOLEAN
  /\ \A j \in 0 .. D - 1 : Inputs[hashed + j] \in Message(Word)

Lane(j) == Wrap(counter + Delta(j))

Chains(D, f) ==
  /\ DOMAIN f = 0 .. D - 1
  /\ \A j \in 0 .. D - 1 :
       /\ OneChain(Inputs[hashed + j], Lane(j), Blocks, f[j])
       /\ hash_one(Inputs[hashed + j], Lane(j)) = f[j][Blocks]

Level(D, f, b) == [i \in 0 .. 7 |-> [j \in 0 .. D - 1 |-> f[j][b][i]]]

(* Every input has its chain.                                              *)
LEMMA ChainsExist ==
  ASSUME NEW D, Sane
  PROVE  \E f : Chains(D, f)
<1> DEFINE Fits(j, chain) == /\ OneChain(Inputs[hashed + j], Lane(j), Blocks, chain)
                         /\ hash_one(Inputs[hashed + j], Lane(j)) = chain[Blocks]
<1>1. PICK f : f = [j \in 0 .. D - 1 |-> CHOOSE chain : Fits(j, chain)]
  OBVIOUS
<1>2. ASSUME NEW j \in 0 .. D - 1 PROVE Fits(j, f[j])
  <2>1. \E chain : Fits(j, chain)
    BY HashOneChain DEF Sane
  <2>2. f[j] = CHOOSE chain : Fits(j, chain)
    BY <1>1
  <2> QED
    BY <2>1, <2>2, Zenon
<1> QED
  BY <1>1, <1>2 DEF Chains

(* A lane takes the step of the chain of its input.                        *)
LEMMA LaneAgrees ==
  ASSUME NEW Word, WordsHash(Word), Sane, NEW D \in {4, 8, 16}, Given(Word, D),
         NEW f, Chains(D, f), NEW b \in 1 .. Blocks, NEW j \in 0 .. D - 1
  PROVE  LaneStep(D, b, Level(D, f, b - 1), j) = f[j][b]
<1>1. PICK c : c = Wrap(counter + Delta(j))
  OBVIOUS
<1>2. /\ c \in Count /\ load_counters(D, j)[1] = counter_low(c)
      /\ load_counters(D, j)[2] = counter_high(c)
  <2>1. j \in 0 .. 15
    OBVIOUS
  <2> QED
    BY <1>1, <2>1, CounterAt DEF Sane, Given, Count
<1>3. PICK inp \in Message(Word) : inp = Inputs[hashed + j]
  BY DEF Given
<1>4. OneChain(inp, c, Blocks, f[j])
  BY <1>1, <1>3 DEF Chains, Lane
<1>5. f[j][b - 1] \in [0 .. 7 -> Word]
  <2>1. b - 1 \in 0 .. Blocks
    BY DEF Sane
  <2> QED
    BY <1>2, <1>4, <2>1, ChainTyped
<1>6. [i \in 0 .. 7 |-> Level(D, f, b - 1)[i][j]] = f[j][b - 1]
  <2>1. \A i \in 0 .. 7 : Level(D, f, b - 1)[i][j] = f[j][b - 1][i]
    BY DEF Level
  <2> QED
    BY <1>5, <2>1
<1>7. [i \in 0 .. 15 |-> transpose_msg_vecs(D, b - 1)[i][j]] = BlockAt(inp, b - 1)
  <2>1. b - 1 \in Nat /\ hashed \in Nat
    BY DEF Sane, Given
  <2>2. \A i \in 0 .. 15 : transpose_msg_vecs(D, b - 1)[i][j] = inp[16 * (b - 1) + i]
    BY <1>3, <2>1, MessageAt
  <2> QED
    BY <2>2 DEF BlockAt
<1>8. LaneStep(D, b, Level(D, f, b - 1), j) = OneStep(inp, c, b, f[j][b - 1])
  BY <1>2, <1>6, <1>7 DEF LaneStep, OneStep
<1>9. f[j][b] = OneStep(inp, c, b, f[j][b - 1])
  BY <1>4 DEF OneChain, Sane
<1> QED
  BY <1>8, <1>9

(* The vectors hold the chaining values of all lanes after every block.    *)
LEMMA LevelsAgree ==
  ASSUME NEW Word, WordsHash(Word), Sane, NEW D \in {4, 8, 16}, Given(Word, D),
         NEW f, Chains(D, f), NEW h, WideChain(D, Blocks, h)
  PROVE  h[Blocks] = Level(D, f, Blocks)
<1> DEFINE Set == {b \in Nat : b <= Blocks => h[b] = Level(D, f, b)}
<1>1. \A b \in 0 .. Blocks : h[b] = IF b = 0 THEN WideStart(D) ELSE WideStep(D, b, h[b - 1])
  BY DEF WideChain
<1>2. 0 \in Set
  <2>1. \A j \in 0 .. D - 1 : f[j][0] = Key
    BY DEF Chains, OneChain, Sane
  <2>2. WideStart(D) = Level(D, f, 0)
    BY <2>1 DEF WideStart, Level
  <2> QED
    BY <1>1, <2>2 DEF Sane
<1>3. ASSUME NEW b \in Nat, b \in Set PROVE b + 1 \in Set
  <2>1. SUFFICES ASSUME b + 1 <= Blocks PROVE h[b + 1] = Level(D, f, b + 1)
    OBVIOUS
  <2>2. PICK d \in 1 .. Blocks : d = b + 1 /\ d - 1 = b
    BY <2>1 DEF Sane
  <2>3. h[d - 1] = Level(D, f, d - 1)
    BY <1>3, <2>1, <2>2 DEF Sane
  <2>4. h[d] = WideStep(D, d, Level(D, f, d - 1))
    BY <1>1, <2>3
  <2>5. \A j \in 0 .. D - 1 : LaneStep(D, d, Level(D, f, d - 1), j) = f[j][d]
    BY LaneAgrees
  <2>6. WideStep(D, d, Level(D, f, d - 1)) = Level(D, f, d)
    BY <2>5 DEF WideStep, Level
  <2> QED
    BY <2>2, <2>4, <2>6
<1> HIDE DEF Set
<1>4. Nat \subseteq Set
  BY <1>2, <1>3, AllNumbers
<1> QED
  BY <1>4 DEF Set, Sane

(* Lane j of a kernel ends with the hash of its input. *)
LEMMA LanesHash ==
  ASSUME NEW Word, WordsHash(Word), Sane, NEW D \in {4, 8, 16}, Given(Word, D)
  PROVE  /\ WordsIn(WideState(D), 8, D)
         /\ \A j \in 0 .. D - 1 : Output(WideState(D), j) = hash_one(Inputs[hashed + j], Lane(j))
<1>1. PICK f : Chains(D, f)
  BY ChainsExist
<1>2. PICK h : WideChain(D, Blocks, h) /\ WideState(D) = h[Blocks]
  BY WideStateChain DEF Sane
<1>3. WideState(D) = Level(D, f, Blocks)
  BY <1>1, <1>2, LevelsAgree
<1>4. WordsIn(Level(D, f, Blocks), 8, D)
  BY DEF WordsIn, Level
<1>5. ASSUME NEW j \in 0 .. D - 1
      PROVE  Output(Level(D, f, Blocks), j) = hash_one(Inputs[hashed + j], Lane(j))
  <2>1. PICK inp \in Message(Word) : inp = Inputs[hashed + j]
    BY DEF Given
  <2>2. Lane(j) \in Count
    <3>1. j \in 0 .. 15
      OBVIOUS
    <3> QED
      BY <3>1, CounterAt DEF Lane, Sane, Given, Count
  <2>3. OneChain(inp, Lane(j), Blocks, f[j])
    BY <1>1, <2>1 DEF Chains
  <2>4. f[j][Blocks] \in [0 .. 7 -> Word]
    BY <2>2, <2>3, ChainTyped DEF Sane
  <2>5. Output(Level(D, f, Blocks), j) = f[j][Blocks]
    BY <2>4 DEF Output, Level
  <2> QED
    BY <1>1, <2>5 DEF Chains
<1> QED
  BY <1>3, <1>4, <1>5

-----------------------------------------------------------------------------
(* The counter that belongs to input k. *)
CounterOf(k) == Wrap(counter0 + IF increment THEN k ELSE 0)

HashManyInv ==
  /\ impl \in Impls /\ num_inputs \in Sizes /\ counter0 \in Counters /\ increment \in BOOLEAN
  /\ hashed \in 0 .. num_inputs /\ counter = CounterOf(hashed)
  /\ \A k \in 0 .. hashed - 1 : cvs[k] = hash_one(Inputs[k], CounterOf(k))

(* What the constants are.                                                 *)
LEMMA HashManySane == Sane
  BY HashManyAssumption DEF Sane

(* The counter of a later input.                                           *)
LEMMA CounterMoves ==
  ASSUME HashManyInv, NEW d \in Nat
  PROVE  Wrap(counter + IF increment THEN d ELSE 0) = CounterOf(hashed + d)
<1>1. PICK M \in Nat \ {0} : M = HalfWord * HalfWord
  BY HashManyAssumption
<1>2. PICK a \in Nat : a = counter0 + IF increment THEN hashed ELSE 0
  BY HashManyAssumption DEF HashManyInv
<1>3. PICK e \in Nat : e = IF increment THEN d ELSE 0
  OBVIOUS
<1>4. counter = a % M
  BY <1>1, <1>2 DEF HashManyInv, CounterOf, Wrap
<1>5. ((a % M) + e) % M = (a + e) % M
  BY ModAdds
<1>6. a + e = counter0 + IF increment THEN hashed + d ELSE 0
  BY <1>2, <1>3, HashManyAssumption DEF HashManyInv
<1> QED
  BY <1>1, <1>3, <1>4, <1>5, <1>6 DEF CounterOf, Wrap

(* The counter stays in its range.                                         *)
LEMMA CounterTyped ==
  ASSUME HashManyInv
  PROVE  counter \in Count
<1>1. PICK M \in Nat \ {0} : M = HalfWord * HalfWord
  BY HashManyAssumption
<1>2. PICK a \in Nat : a = counter0 + IF increment THEN hashed ELSE 0
  BY HashManyAssumption DEF HashManyInv
<1>3. a % M \in 0 .. M - 1
  OBVIOUS
<1> QED
  BY <1>1, <1>2, <1>3 DEF HashManyInv, CounterOf, Wrap, Count

(* A kernel's inputs are messages of the call.                             *)
LEMMA InputsGiven ==
  ASSUME NEW Word, WordsHash(Word), HashManyInv, NEW D \in Nat, hashed + D <= num_inputs
  PROVE  Given(Word, D)
<1>1. hashed \in Nat /\ num_inputs \in Nat
  BY HashManyAssumption DEF HashManyInv
<1>2. \A j \in 0 .. D - 1 : hashed + j \in 0 .. num_inputs - 1
  BY <1>1
<1> QED
  BY <1>1, <1>2, CounterTyped DEF Given, HashManyInv, WordsHash, Message

(* Outputs stored in the order of the inputs extend those there are. *)
LEMMA AdvanceKeeps ==
  ASSUME HashManyInv, NEW D \in {1, 4, 8, 16}, hashed + D <= num_inputs, NEW stored,
         \A j \in 0 .. D - 1 : stored[j] = hash_one(Inputs[hashed + j], CounterOf(hashed + j)),
         Advance(D, stored)
  PROVE  HashManyInv'
<1>1. hashed \in Nat /\ num_inputs \in Nat /\ hashed' = hashed + D
  BY HashManyAssumption DEF HashManyInv, Advance
<1>2. hashed' \in 0 .. num_inputs'
  BY <1>1 DEF Advance
<1>3. \A k : CounterOf(k)' = CounterOf(k)
  BY DEF CounterOf, Advance
<1>4. counter' = CounterOf(hashed')
  <2>1. CASE increment
    <3>1. counter' = Wrap(counter + D)
      BY <2>1 DEF Advance
    <3> QED
      BY <1>1, <2>1, <3>1, CounterMoves
  <2>2. CASE ~increment
    <3>1. counter' = counter /\ counter = CounterOf(hashed)
      BY <2>2 DEF Advance, HashManyInv
    <3> QED
      BY <2>2, <3>1 DEF CounterOf
  <2> QED
    BY <2>1, <2>2
<1>5. ASSUME NEW k \in 0 .. hashed + D - 1
      PROVE  cvs'[k] = hash_one(Inputs[k], CounterOf(k))
  <2>1. cvs'[k] = IF k < hashed THEN cvs[k] ELSE stored[k - hashed]
    BY DEF Advance
  <2>2. CASE k < hashed
    BY <1>1, <2>1, <2>2 DEF HashManyInv
  <2>3. CASE k >= hashed
    <3>1. PICK j \in 0 .. D - 1 : j = k - hashed /\ k = hashed + j
      BY <1>1, <2>3
    <3>2. cvs'[k] = stored[j]
      BY <1>1, <2>1, <2>3, <3>1
    <3> QED
      BY <3>1, <3>2
  <2> QED
    BY <1>1, <2>2, <2>3
<1>6. \A k \in 0 .. hashed' - 1 : cvs'[k] = hash_one(Inputs[k], CounterOf(k))
  BY <1>1, <1>5
<1>7. \A k \in 0 .. hashed' - 1 : cvs'[k] = hash_one(Inputs[k], CounterOf(k)')
  BY <1>3, <1>6
<1> QED
  BY <1>2, <1>3, <1>4, <1>7 DEF HashManyInv, Advance

(* What a kernel of D lanes has for the inputs it is given.                *)
LEMMA WideOutputs ==
  ASSUME NEW Word, WordsHash(Word), HashManyInv, NEW D \in {4, 8, 16}, hashed + D <= num_inputs
  PROVE  /\ WordsIn(WideState(D), 8, D)
         /\ \A j \in 0 .. D - 1 :
              Output(WideState(D), j) = hash_one(Inputs[hashed + j], CounterOf(hashed + j))
<1>1. Given(Word, D)
  BY InputsGiven
<1>2. /\ WordsIn(WideState(D), 8, D)
      /\ \A j \in 0 .. D - 1 : Output(WideState(D), j) = hash_one(Inputs[hashed + j], Lane(j))
  BY <1>1, LanesHash, HashManySane
<1>3. \A j \in 0 .. D - 1 : Lane(j) = CounterOf(hashed + j)
  BY CounterMoves DEF Lane, Delta
<1> QED
  BY <1>2, <1>3

(* Every width keeps the invariant.                                        *)
LEMMA HashManyStep ==
  ASSUME NEW Word, WordsHash(Word), HashManyInv, [HashManyNext]_hashManyVars
  PROVE  HashManyInv'
<1>1. hashed \in Nat /\ num_inputs \in Nat
  BY HashManyAssumption DEF HashManyInv
<1>2. CASE Hash16
  <2>1. hashed + 16 <= num_inputs /\ 16 \in {4, 8, 16} /\ 16 \in {1, 4, 8, 16}
    BY <1>1, <1>2 DEF Hash16, remaining
  <2>2. PICK h : h = WideState(16)
    OBVIOUS
  <2>3. /\ WordsIn(h, 8, 16)
        /\ \A j \in 0 .. 16 - 1 : Output(h, j) = hash_one(Inputs[hashed + j], CounterOf(hashed + j))
    BY <2>1, <2>2, WideOutputs
  <2>4. \A j \in 0 .. 16 - 1 : Stored16(h)[j] = hash_one(Inputs[hashed + j], CounterOf(hashed + j))
    BY <2>3, Stored16At
  <2>5. Advance(16, Stored16(h))
    BY <1>2, <2>2 DEF Hash16
  <2> QED
    BY <2>1, <2>4, <2>5, AdvanceKeeps
<1>3. CASE Hash8
  <2>1. hashed + 8 <= num_inputs /\ 8 \in {4, 8, 16} /\ 8 \in {1, 4, 8, 16}
    BY <1>1, <1>3 DEF Hash8, remaining
  <2>2. PICK h : h = WideState(8)
    OBVIOUS
  <2>3. /\ WordsIn(h, 8, 8)
        /\ \A j \in 0 .. 8 - 1 : Output(h, j) = hash_one(Inputs[hashed + j], CounterOf(hashed + j))
    BY <2>1, <2>2, WideOutputs
  <2>4. \A j \in 0 .. 8 - 1 : Stored8(h)[j] = hash_one(Inputs[hashed + j], CounterOf(hashed + j))
    BY <2>3, Stored8At
  <2>5. Advance(8, Stored8(h))
    BY <1>3, <2>2 DEF Hash8
  <2> QED
    BY <2>1, <2>4, <2>5, AdvanceKeeps
<1>4. CASE Hash4
  <2>1. hashed + 4 <= num_inputs /\ 4 \in {4, 8, 16} /\ 4 \in {1, 4, 8, 16}
    BY <1>1, <1>4 DEF Hash4, remaining
  <2>2. PICK h : h = WideState(4)
    OBVIOUS
  <2>3. /\ WordsIn(h, 8, 4)
        /\ \A j \in 0 .. 4 - 1 : Output(h, j) = hash_one(Inputs[hashed + j], CounterOf(hashed + j))
    BY <2>1, <2>2, WideOutputs
  <2>4. \A j \in 0 .. 4 - 1 : Stored4(h)[j] = hash_one(Inputs[hashed + j], CounterOf(hashed + j))
    BY <2>3, Stored4At
  <2>5. Advance(4, Stored4(h))
    BY <1>4, <2>2 DEF Hash4
  <2> QED
    BY <2>1, <2>4, <2>5, AdvanceKeeps
<1>5. CASE HashOne
  <2>1. hashed + 1 <= num_inputs
    BY <1>1, <1>5 DEF HashOne, remaining
  <2>2. PICK stored : stored = [k \in {0} |-> hash_one(Inputs[hashed], counter)]
    OBVIOUS
  <2>3. \A j \in 0 .. 1 - 1 : stored[j] = hash_one(Inputs[hashed + j], CounterOf(hashed + j))
    <3>1. \A j \in 0 .. 1 - 1 : j = 0 /\ hashed + j = hashed
      BY <1>1
    <3>2. stored[0] = hash_one(Inputs[hashed], CounterOf(hashed))
      BY <2>2 DEF HashManyInv
    <3> QED
      BY <3>1, <3>2
  <2>4. Advance(1, stored)
    BY <1>5, <2>2 DEF HashOne
  <2> QED
    BY <2>1, <2>3, <2>4, AdvanceKeeps
<1>6. CASE UNCHANGED hashManyVars
  <2>1. \A k : CounterOf(k)' = CounterOf(k)
    BY <1>6 DEF hashManyVars, CounterOf
  <2> QED
    BY <1>6, <2>1 DEF HashManyInv, hashManyVars
<1> QED
  BY <1>2, <1>3, <1>4, <1>5, <1>6 DEF HashManyNext

(* hash_many gives every input the hash the portable implementation gives    *)
(* it, with the counter that belongs to it: for every number and length of   *)
(* messages, every counter, every chosen implementation and any compression  *)
(* that returns eight words.                                                 *)
THEOREM EveryWidthHashes ==
  ASSUME NEW Word, WordsHash(Word)
  PROVE  HashManySpec => []KernelsAgree
<1>1. HashManyInit => HashManyInv
  <2> SUFFICES ASSUME HashManyInit PROVE HashManyInv
    OBVIOUS
  <2>1. PICK M \in Nat \ {0} : M = HalfWord * HalfWord
    BY HashManyAssumption
  <2>2. PICK c \in 0 .. M - 1 : c = counter0
    BY <2>1, HashManyAssumption DEF HashManyInit
  <2>3. c = M * 0 + c /\ 0 \in Nat
    BY <2>1
  <2>4. c % M = c
    BY <2>1, <2>3, DivMod
  <2>5. counter = CounterOf(hashed)
    BY <2>1, <2>2, <2>4 DEF HashManyInit, CounterOf, Wrap
  <2> QED
    BY <2>5, HashManyAssumption DEF HashManyInit, HashManyInv
<1>2. HashManyInv /\ [HashManyNext]_hashManyVars => HashManyInv'
  BY HashManyStep
<1>3. HashManyInv => KernelsAgree
  BY HashManyAssumption DEF HashManyInv, KernelsAgree, CounterOf
<1> QED
  BY <1>1, <1>2, <1>3, PTL DEF HashManySpec

-----------------------------------------------------------------------------
(* Scalar multiplication. *)

PowerOfTwo == [k \in 0 .. CurveL |-> 2^k]

(* The powers of two up to the length of a scalar.                           *)
LEMMA TwoPowers == PowersOf(2, CurveL, PowerOfTwo) /\ \A k \in 0 .. CurveL : PowerOfTwo[k] = 2^k
<1>1. 2 \in Nat /\ CurveL \in Nat /\ 2^0 = 1
  BY CurveAssumption
<1>2. PowersOf(2, CurveL, PowerOfTwo)
  BY <1>1, CurveAssumption, PowersAre DEF PowerOfTwo
<1> QED
  BY <1>2 DEF PowerOfTwo

(* The first bit the ladder looks at is the highest one that is set, if any. *)
LEMMA TopBitIn ==
  ASSUME NEW s \in 0 .. CurveL - 1
  PROVE  TopBit(s) \in 0 .. s /\ s < 2^(TopBit(s) + 1)
<1>0. CurveL \in Nat /\ CurveL > 2
  BY CurveAssumption
<1>1. PICK p : p = PowerOfTwo
  OBVIOUS
<1>2. PowersOf(2, CurveL, p) /\ \A k \in 0 .. CurveL : p[k] = 2^k
  BY <1>1, TwoPowers
<1>b. /\ \A k \in 0 .. CurveL : p[k] \in Nat
      /\ \A k \in 0 .. CurveL - 1 : p[k + 1] = 2 * p[k]
  BY <1>2 DEF PowersOf
<1> DEFINE Set == {k \in Nat : k <= CurveL => k < p[k]}
<1>3. 0 \in Set
  BY <1>2 DEF PowersOf
<1>4. ASSUME NEW k \in Nat, k \in Set PROVE k + 1 \in Set
  <2> SUFFICES ASSUME k + 1 <= CurveL PROVE k + 1 < p[k + 1]
    OBVIOUS
  <2>1. k < p[k] /\ p[k] \in Nat /\ p[k + 1] = 2 * p[k]
    BY <1>0, <1>b, <1>4
  <2> QED
    BY <2>1
<1> HIDE DEF Set
<1>5. Nat \subseteq Set
  BY <1>3, <1>4, AllNumbers
<1> DEFINE Fits(b) == s < 2^(b + 1) /\ (b = 0 \/ s >= 2^b)
           T == {b \in 0 .. CurveL - 1 : s < p[b + 1]}
<1>6. s \in T
  <2>1. s + 1 < p[s + 1]
    BY <1>0, <1>5 DEF Set
  <2>2. p[s + 1] \in Nat
    BY <1>0, <1>b
  <2>3. s < p[s + 1]
    BY <1>0, <2>1, <2>2
  <2> QED
    BY <2>3, Zenon
<1>7. PICK low \in T : \A k \in T : low <= k
  <2>1. T \in SUBSET Nat /\ T # {}
    BY <1>0, <1>6
  <2> QED
    BY <2>1, LeastOf
<1>8. low \in 0 .. s /\ s < p[low + 1] /\ p[low + 1] = 2^(low + 1)
  BY <1>0, <1>2, <1>6, <1>7
<1>9. low = 0 \/ s >= 2^low
  <2> SUFFICES ASSUME low # 0 PROVE s >= 2^low
    OBVIOUS
  <2>1. PICK k \in 0 .. CurveL - 1 : k + 1 = low
    <3>1. low - 1 \in 0 .. CurveL - 1 /\ (low - 1) + 1 = low
      BY <1>0, <1>8
    <3> QED
      BY <3>1
  <2>2. k \notin T
    BY <1>7, <2>1
  <2>3. p[low] \in Nat /\ p[low] = 2^low
    <3>1. low \in 0 .. CurveL
      BY <1>0, <1>8
    <3> QED
      BY <1>b, <1>2, <3>1, Zenon
  <2>4. ~(s < p[k + 1])
    BY <2>2, Zenon
  <2> QED
    BY <1>0, <1>8, <2>1, <2>3, <2>4
<1>10. Fits(low)
  BY <1>8, <1>9
<1> HIDE DEF Fits
<1>11. TopBit(s) = CHOOSE b \in 0 .. s : Fits(b)
  BY DEF TopBit, Fits
<1>12. TopBit(s) \in 0 .. s /\ Fits(TopBit(s))
  BY <1>8, <1>10, <1>11
<1> QED
  BY <1>12 DEF Fits

-----------------------------------------------------------------------------
(* The ladder. *)

(* No multiple, and one.                                                     *)
LEMMA TimesNone == \A x : Times(0, x) = Infinity
<1> SUFFICES ASSUME NEW x PROVE Times(0, x) = Infinity
  OBVIOUS
<1> DEFINE Is(f) == f = [j \in 0 .. 0 |-> IF j = 0 THEN Infinity ELSE PlusPoint(f[j - 1], <<x, Lift(x)>>)]
<1>1. PICK seed : seed = [j \in 0 .. 0 |-> Infinity]
  OBVIOUS
<1>2. Is(seed)
  <2>1. \A j \in 0 .. 0 : j = 0
    OBVIOUS
  <2> QED
    BY <1>1, <2>1, Zenon
<1>3. PICK at : at = CHOOSE f : Is(f)
  OBVIOUS
<1>4. Is(at)
  BY <1>2, <1>3, Zenon
<1>5. at[0] = Infinity
  <2>1. 0 \in 0 .. 0
    OBVIOUS
  <2> QED
    BY <1>4, <2>1, Zenon
<1>6. Times(0, x) = at[0]
  BY <1>3, Zenon DEF Times
<1> QED
  BY <1>5, <1>6

LEMMA TimesOne == \A x : Times(1, x) = <<x, Lift(x)>>
<1> SUFFICES ASSUME NEW x PROVE Times(1, x) = <<x, Lift(x)>>
  OBVIOUS
<1> DEFINE pt == <<x, Lift(x)>>
           Is(f) == f = [j \in 0 .. 1 |-> IF j = 0 THEN Infinity ELSE PlusPoint(f[j - 1], pt)]
<1>0. \A Q : PlusPoint(Infinity, Q) = Q
  BY DEF PlusPoint
<1> HIDE DEF pt
<1>1. PICK seed : seed = [j \in 0 .. 1 |-> IF j = 0 THEN Infinity ELSE PlusPoint(Infinity, pt)]
  OBVIOUS
<1>2. seed[0] = Infinity
  <2>1. 0 \in 0 .. 1
    OBVIOUS
  <2> QED
    BY <1>1, <2>1, Zenon
<1>3. Is(seed)
  <2>1. \A j \in 0 .. 1 : j # 0 => j - 1 = 0
    OBVIOUS
  <2> QED
    BY <1>1, <1>2, <2>1
<1>4. PICK at : at = CHOOSE f : Is(f)
  OBVIOUS
<1>5. Is(at)
  BY <1>3, <1>4, Zenon
<1>6. at[0] = Infinity /\ at[1] = PlusPoint(at[0], pt)
  <2>1. 0 \in 0 .. 1 /\ 1 \in 0 .. 1 /\ 1 # 0 /\ 1 - 1 = 0
    OBVIOUS
  <2> QED
    BY <1>5, <2>1
<1>7. Times(1, x) = at[1]
  BY <1>4, Zenon DEF Times, pt
<1> QED
  BY <1>0, <1>6, <1>7 DEF pt

(* The base point of a call: a multiple of the curve's.                      *)
Bases == {Multiple(b) : b \in 1 .. CurveL - 1}

LEMMA BaseFacts ==
  ASSUME NEW x \in Bases
  PROVE  /\ x \in 1 .. CurveP - 1
         /\ DifferentialLaw(x)
         /\ \E b \in 1 .. CurveL - 1 :
              /\ x = Multiple(b)
              /\ \A a \in 0 .. CurveL - 1 : XOf(Times(a, x)) = Multiple((a * b) % CurveL)
<1>1. PICK b \in 1 .. CurveL - 1 : x = Multiple(b)
  BY DEF Bases
<1>2. MultiplesLaw
  BY CurveLaws
<1>3. /\ Multiple(b) \in 1 .. CurveP - 1 /\ DifferentialLaw(Multiple(b))
      /\ \A a \in 0 .. CurveL - 1 : XOf(Times(a, Multiple(b))) = Multiple((a * b) % CurveL)
  BY <1>2, Zenon DEF MultiplesLaw
<1> QED
  BY <1>1, <1>3

(* The x-coordinate of a multiple is a number below CurveP.                  *)
LEMMA XOfIn ==
  ASSUME NEW x \in Bases, NEW a \in 0 .. CurveL - 1
  PROVE  XOf(Times(a, x)) \in 0 .. CurveP - 1
<1>0. CurveL \in Nat \ {0} /\ CurveP \in Nat /\ CurveP > 2
  BY CurveAssumption
<1>1. PICK b \in 1 .. CurveL - 1 : XOf(Times(a, x)) = Multiple((a * b) % CurveL)
  BY BaseFacts
<1>2. PICK c \in Nat : c = a * b
  BY <1>0
<1>3. c % CurveL \in 0 .. CurveL - 1
  BY <1>0, <1>2, DivModIn
<1>4. CASE c % CurveL = 0
  <2>1. Multiple(0) = 0
    BY TimesNone DEF Multiple, XOf
  <2> QED
    BY <1>0, <1>1, <1>2, <1>4, <2>1
<1>5. CASE c % CurveL # 0
  <2>1. c % CurveL \in 1 .. CurveL - 1
    BY <1>0, <1>3, <1>5
  <2>2. Multiple(c % CurveL) \in 1 .. CurveP - 1
    BY <2>1, CurveLaws, Zenon DEF MultiplesLaw
  <2> QED
    BY <1>0, <1>1, <1>2, <2>2
<1> QED
  BY <1>4, <1>5

(* The formulas compute pairs of field elements.                             *)
LEMMA FpIn == \A a \in Int : Fp(a) \in 0 .. CurveP - 1
<1> SUFFICES ASSUME NEW a \in Int PROVE Fp(a) \in 0 .. CurveP - 1
  OBVIOUS
<1>1. PICK M \in Nat \ {0} : M = CurveP
  BY CurveAssumption
<1>2. a % M \in 0 .. M - 1
  OBVIOUS
<1> QED
  BY <1>1, <1>2 DEF Fp

LEMMA StepPairs ==
  ASSUME NEW P \in Pairs, NEW Q \in Pairs, NEW x \in 0 .. CurveP - 1
  PROVE  Double(P) \in Pairs /\ Sum3(P, Q, x) \in Pairs
<1>0. CurveP \in Nat
  BY CurveAssumption
<1>1. \A a \in Int : Fp(a) \in Int /\ Fp(a) \in 0 .. CurveP - 1
  BY <1>0, FpIn
<1>2. /\ P[1] \in Int /\ P[2] \in Int /\ Q[1] \in Int /\ Q[2] \in Int /\ x \in Int
  BY <1>0 DEF Pairs
<1>a. CurveA24 \in Int
  BY CurveAssumption
<1>3. \A a, b \in Int : a + b \in Int /\ a - b \in Int /\ a * b \in Int
  OBVIOUS
<1>4. Double(P) \in Pairs
  <2>1. PICK t4 \in Int : t4 = Fp((P[1] + P[2]) * (P[1] + P[2]))
    BY <1>1, <1>2, <1>3, Zenon
  <2>2. PICK t3 \in Int : t3 = Fp((P[1] - P[2]) * (P[1] - P[2]))
    BY <1>1, <1>2, <1>3, Zenon
  <2>3. PICK t2 \in Int : t2 = Fp(t4 - t3)
    BY <1>1, <1>3, Zenon
  <2>4. Double(P) = <<Fp(t4 * t3), Fp(t2 * Fp(t3 + Fp(CurveA24 * t2)))>>
    BY <2>1, <2>2, <2>3, Zenon DEF Double
  <2>5. t4 * t3 \in Int /\ t2 * Fp(t3 + Fp(CurveA24 * t2)) \in Int
    BY <1>1, <1>3, <1>a, Zenon
  <2> QED
    BY <1>1, <2>4, <2>5 DEF Pairs
<1>5. Sum3(P, Q, x) \in Pairs
  <2>1. PICK t1 \in Int : t1 = Fp(Fp(Q[1] + Q[2]) * Fp(P[1] - P[2]))
    BY <1>1, <1>2, <1>3, Zenon
  <2>2. PICK t0 \in Int : t0 = Fp(Fp(Q[1] - Q[2]) * Fp(P[1] + P[2]))
    BY <1>1, <1>2, <1>3, Zenon
  <2>3. Sum3(P, Q, x) = <<Fp(Fp(t0 + t1) * Fp(t0 + t1)), Fp(x * Fp(Fp(t0 - t1) * Fp(t0 - t1)))>>
    BY <2>1, <2>2, Zenon DEF Sum3
  <2>4. Fp(t0 + t1) * Fp(t0 + t1) \in Int /\ x * Fp(Fp(t0 - t1) * Fp(t0 - t1)) \in Int
    BY <1>1, <1>2, <1>3, Zenon
  <2> QED
    BY <1>1, <2>3, <2>4 DEF Pairs
<1> QED
  BY <1>4, <1>5

(* Where a call begins: nothing read yet, the base point beside it.          *)
LadderAt(prefix, P, Q, x) == Represents(P, Times(prefix, x)) /\ Represents(Q, Times(prefix + 1, x))

LEMMA CallBegins ==
  ASSUME NEW x \in Bases, NEW s \in 0 .. CurveL - 1
  PROVE  /\ <<1, 0>> \in Pairs /\ <<x, 1>> \in Pairs
         /\ TopBit(s) \in 0 .. CurveL - 1
         /\ LadderAt(s \div 2^(TopBit(s) + 1), <<1, 0>>, <<x, 1>>, x)
<1>0. CurveP \in Nat /\ CurveP > 2 /\ CurveL \in Nat
  BY CurveAssumption
<1>1. x \in 1 .. CurveP - 1
  BY BaseFacts
<1>2. TopBit(s) \in 0 .. s /\ s < 2^(TopBit(s) + 1)
  BY TopBitIn
<1>3. s \div 2^(TopBit(s) + 1) = 0
  <2>1. TopBit(s) + 1 \in 0 .. CurveL
    BY <1>0, <1>2
  <2>2. PICK M \in Nat : M = 2^(TopBit(s) + 1)
    BY <2>1, CurveAssumption
  <2>3. M \in Nat \ {0} /\ s \in 0 .. M - 1 /\ s = M * 0 + s
    BY <1>0, <1>2, <2>2
  <2>4. s \div M = 0
    BY <2>3, DivMod
  <2> QED
    BY <2>2, <2>4
<1>4. Represents(<<1, 0>>, Times(0, x))
  BY TimesNone DEF Represents, Infinity
<1>5. Represents(<<x, 1>>, Times(0 + 1, x))
  <2>1. PICK y : y = Lift(x)
    OBVIOUS
  <2>2. Times(0 + 1, x) = <<x, y>>
    BY <2>1, TimesOne
  <2>3. <<x, y>> # Infinity
    BY DEF Infinity
  <2>4. Fp(1 * x) = x
    <3>1. PICK M \in Nat \ {0} : M = CurveP
      BY <1>0
    <3>2. PICK rem \in 0 .. M - 1 : rem = x /\ 1 * x = x
      BY <1>0, <1>1, <3>1
    <3>3. rem % M = rem
      BY <3>1, <3>2, ModSmall
    <3>4. Fp(x) = x
      BY <3>1, <3>2, <3>3, Zenon DEF Fp
    <3>5. 1 * x = x
      BY <3>2
    <3> QED
      BY <3>4, <3>5, Zenon
  <2> QED
    BY <2>2, <2>3, <2>4 DEF Represents
<1> QED
  BY <1>0, <1>1, <1>2, <1>3, <1>4, <1>5 DEF Pairs, LadderAt

(* One bit further.                                                          *)
LEMMA OneBit ==
  ASSUME NEW x \in Bases, NEW s \in 0 .. CurveL - 1, NEW b \in 0 .. CurveL - 1,
         NEW P \in Pairs, NEW Q \in Pairs, LadderAt(s \div 2^(b + 1), P, Q, x)
  PROVE  IF TestBit(s, b) THEN LadderAt(s \div 2^b, Sum3(Q, P, x), Double(Q), x)
                          ELSE LadderAt(s \div 2^b, Double(P), Sum3(P, Q, x), x)
<1>0. CurveL \in Nat /\ CurveL > 2 /\ s \in Nat /\ b \in 0 .. CurveL /\ b + 1 \in 0 .. CurveL
  BY CurveAssumption
<1>1. PICK p : p = PowerOfTwo
  OBVIOUS
<1>2. PowersOf(2, CurveL, p) /\ \A k \in 0 .. CurveL : p[k] = 2^k
  BY <1>1, TwoPowers
<1>3. p[b] \in Nat \ {0}
  BY <1>0, <1>2, PowersPositive
<1>4. p[b + 1] = 2 * p[b]
  BY <1>0, <1>2 DEF PowersOf
<1>5. PICK M \in Nat \ {0} : M = 2^b /\ 2 * M = 2^(b + 1)
  BY <1>0, <1>2, <1>3, <1>4
<1>6. PICK q \in Nat : q = s \div M
  BY <1>0, DivModIn
<1>7. q <= s
  <2>1. PICK t \in 0 .. M - 1 : s = M * q + t
    BY <1>0, <1>6, DivModIn
  <2> QED
    BY <2>1
<1>8. PICK k \in Nat, bit \in 0 .. 1 : q = 2 * k + bit
  <2>1. PICK N \in Nat \ {0} : N = 2
    OBVIOUS
  <2>2. PICK k \in Nat, bit \in 0 .. N - 1 : q = N * k + bit
    BY DivModExists
  <2> QED
    BY <2>1, <2>2
<1>9. q \div 2 = k /\ q % 2 = bit
  BY <1>8
<1>10. k = s \div 2^(b + 1)
  <2>1. PICK N \in Nat \ {0}, MN \in Nat \ {0} : N = 2 /\ MN = M * N
    OBVIOUS
  <2>2. (s \div M) \div N = s \div MN
    BY <1>0, <2>1, DivDiv
  <2>3. MN = 2^(b + 1)
    BY <1>5, <2>1
  <2> QED
    BY <1>6, <1>9, <2>1, <2>2, <2>3
<1>11. k \in {j \in 0 .. CurveL - 1 : 2 * j < CurveL}
  BY <1>0, <1>7, <1>8
<1>12. DifferentialLaw(x)
  BY BaseFacts
<1>13. /\ Represents(Double(P), Times(2 * k, x)) /\ Represents(Double(Q), Times(2 * k + 2, x))
       /\ Represents(Sum3(P, Q, x), Times(2 * k + 1, x)) /\ Represents(Sum3(Q, P, x), Times(2 * k + 1, x))
  <2>1. Represents(P, Times(k, x)) /\ Represents(Q, Times(k + 1, x))
    BY <1>10 DEF LadderAt
  <2> QED
    BY <1>11, <1>12, <2>1, Zenon DEF DifferentialLaw
<1>14. TestBit(s, b) <=> bit = 1
  BY <1>5, <1>6, <1>9 DEF TestBit
<1>15. s \div 2^b = q
  BY <1>5, <1>6
<1>16. CASE bit = 1
  <2>1. q = 2 * k + 1 /\ q + 1 = 2 * k + 2
    BY <1>8, <1>16
  <2> QED
    BY <1>13, <1>14, <1>15, <1>16, <2>1 DEF LadderAt
<1>17. CASE bit = 0
  <2>1. q = 2 * k /\ q + 1 = 2 * k + 1
    BY <1>8, <1>17
  <2> QED
    BY <1>13, <1>14, <1>15, <1>17, <2>1 DEF LadderAt
<1> QED
  BY <1>16, <1>17

(* What ScalarMul returns when it has read every bit.                        *)
LEMMA Returned ==
  ASSUME NEW x \in Bases, NEW s \in 0 .. CurveL - 1, NEW P \in Pairs,
         Represents(P, Times(s, x))
  PROVE  Fp(P[1] * Power(P[2], CurveP - 2, CurveP)) = XOf(Times(s, x))
<1>0. CurveP \in Nat \ {0} /\ CurveP > 2
  BY CurveAssumption
<1>1. PICK M \in Nat \ {0} : M = CurveP /\ M > 2
  BY <1>0
<1>2. PICK u \in Nat, z \in Nat : u = P[1] /\ z = P[2] /\ u \in 0 .. M - 1 /\ z \in 0 .. M - 1
  BY <1>1 DEF Pairs
<1>3. PICK i : i = Power(z, CurveP - 2, CurveP)
  OBVIOUS
<1>4. i \in Nat /\ IF z = 0 THEN i = 0 ELSE (z * i) % M = 1
  <2>1. InverseLaw(CurveP)
    BY CurveLaws
  <2>2. /\ i \in 0 .. CurveP - 1
        /\ IF z = 0 THEN i = 0 ELSE (z * i) % CurveP = 1
    BY <1>1, <1>2, <1>3, <2>1, Zenon DEF InverseLaw
  <2> QED
    BY <1>0, <1>1, <2>2
<1>5. PICK pt : pt = Times(s, x)
  OBVIOUS
<1>6. XOf(pt) \in 0 .. M - 1
  BY <1>1, <1>5, XOfIn, Zenon
<1>7. CASE pt = Infinity
  <2>1. i = 0
    BY <1>2, <1>4, <1>5, <1>7 DEF Represents
  <2>2. u * i = 0
    BY <2>1
  <2>3. 0 % M = 0
    BY ModSmall
  <2>4. XOf(pt) = 0
    BY <1>7 DEF XOf
  <2> QED
    BY <1>1, <1>2, <1>3, <1>5, <2>2, <2>3, <2>4, Zenon DEF Fp
<1>8. CASE pt # Infinity
  <2>1. PICK rem \in Nat : rem = XOf(pt) /\ rem \in 0 .. M - 1
    BY <1>6
  <2>2. rem = pt[1]
    BY <1>8, <2>1, Zenon DEF XOf
  <2>3. z # 0 /\ u = (z * rem) % M
    BY <1>1, <1>2, <1>5, <1>8, <2>2, Zenon DEF Represents, Fp
  <2>4. (z * i) % M = 1
    BY <1>4, <2>3
  <2>5. (u * i) % M = rem % M
    <3>1. M > 1 /\ i \in Nat
      BY <1>1, <1>4
    <3>2. (((z * rem) % M) * i) % M = rem % M
      BY <1>1, <1>2, <2>1, <2>4, <3>1, Cancels
    <3> QED
      BY <2>3, <3>2, Zenon
  <2>6. rem % M = rem
    BY <2>1, ModSmall
  <2> QED
    BY <1>1, <1>2, <1>3, <1>5, <2>1, <2>5, <2>6, Zenon DEF Fp
<1> QED
  BY <1>7, <1>8

-----------------------------------------------------------------------------
(* The three multiplications. *)

(* Products modulo Prime are scalars, and the client's is never 0.           *)
LEMMA Scalars ==
  ASSUME NEW a \in Nat, NEW b \in Nat
  PROVE  ECC_MUL(a, b) \in 0 .. CurveL - 1
<1>1. PICK M \in Nat \ {0} : M = CurveL
  BY CurveAssumption
<1>2. PICK c \in Nat : c = a * b
  OBVIOUS
<1>3. c % M \in 0 .. M - 1
  BY DivModIn
<1> QED
  BY <1>1, <1>2, <1>3 DEF ECC_MUL

(* The exponentiation inverts a blinding that belongs to a keyword.          *)
LEMMA BlindingInverts ==
  ASSUME NEW z \in Blinds, NEW w \in WordKeys
  PROVE  /\ ECC_FPINV(z) \in Nat /\ (z * ECC_FPINV(z)) % CurveL = 1
         /\ ECC_MUL(z, w) \in 1 .. CurveL - 1
<1>1. PICK M \in Nat \ {0} : M = CurveL
  BY CurveAssumption
<1>2. z \in Nat /\ w \in Nat /\ (z * w) % M # 0
  <2>1. z \in Nat /\ w \in Nat
    BY CurveAssumption
  <2>2. (z * w) % CurveL # 0
    BY CurveAssumption, Zenon
  <2> QED
    BY <1>1, <2>1, <2>2, Zenon
<1>3. PICK y \in Nat : y = z % M /\ y \in 0 .. M - 1
  <2>1. z % M \in 0 .. M - 1
    BY <1>2, DivModIn
  <2> QED
    BY <2>1
<1>4. y # 0
  <2> SUFFICES ASSUME y = 0 PROVE FALSE
    OBVIOUS
  <2>1. (y * w) % M = (z * w) % M
    BY <1>2, <1>3, ModTimes
  <2>2. y * w = 0
    BY <1>2
  <2>3. 0 % M = 0
    BY ModSmall
  <2> QED
    BY <1>2, <2>1, <2>2, <2>3
<1>5. PICK i : i = Power(y, CurveL - 2, CurveL)
  OBVIOUS
<1>6. i \in 0 .. M - 1 /\ (y * i) % M = 1
  <2>1. InverseLaw(CurveL)
    BY CurveLaws
  <2> QED
    BY <1>1, <1>3, <1>4, <1>5, <2>1, Zenon DEF InverseLaw
<1>7. (y * i) % M = (z * i) % M
  <2>1. i \in Nat
    BY <1>6
  <2>2. ((z % M) * i) % M = (z * i) % M
    BY <1>2, <2>1, ModTimes
  <2> QED
    BY <1>3, <2>2, Zenon
<1>8. i = ECC_FPINV(z)
  BY <1>1, <1>3, <1>5, Zenon DEF ECC_FPINV
<1>9. ECC_MUL(z, w) \in 0 .. CurveL - 1 /\ ECC_MUL(z, w) # 0
  BY <1>1, <1>2, Scalars DEF ECC_MUL
<1> QED
  BY <1>1, <1>6, <1>7, <1>8, <1>9

(* The exponent undoes the blinding of the token.                            *)
LEMMA Unblinds ==
  ASSUME NEW z \in Blinds, NEW w \in WordKeys, NEW id \in IdKeys
  PROVE  (ECC_MUL(id, ECC_FPINV(z)) * ECC_MUL(z, w)) % CurveL = ECC_MUL(w, id)
<1>1. PICK M \in Nat \ {0} : M = CurveL /\ M > 2
  BY CurveAssumption
<1>2. z \in Nat /\ w \in Nat /\ id \in Nat
  BY CurveAssumption
<1>3. PICK i \in Nat : i = ECC_FPINV(z) /\ (z * i) % M = 1
  BY <1>1, BlindingInverts
<1>4. PICK a \in Nat, b \in Nat : a = id * i /\ b = z * w
  BY <1>2
<1>5. PICK e \in Nat, f \in Nat : e = a % M /\ f = b % M
  <2>1. a % M \in 0 .. M - 1 /\ b % M \in 0 .. M - 1
    BY DivModIn
  <2> QED
    BY <2>1
<1>6. (e * f) % M = (a * f) % M
  BY <1>5, ModTimes
<1>7. (f * a) % M = (b * a) % M
  BY <1>5, ModTimes
<1>8. a * f = f * a
  OBVIOUS
<1>9. PICK c \in Nat, d \in Nat : c = z * i /\ d = id * w
  BY <1>2
<1>10. b * a = c * d
  <2>1. (z * w) * (id * i) = (z * i) * (id * w)
    BY <1>2
  <2> QED
    BY <1>4, <1>9, <2>1
<1>11. ((c % M) * d) % M = (c * d) % M
  BY ModTimes
<1>12. (c % M) * d = d
  BY <1>3, <1>9
<1>13. (e * f) % M = d % M
  BY <1>6, <1>7, <1>8, <1>10, <1>11, <1>12
<1>14. d = w * id
  BY <1>2, <1>9
<1>15. e = ECC_MUL(id, ECC_FPINV(z)) /\ f = ECC_MUL(z, w) /\ d % M = ECC_MUL(w, id)
  BY <1>1, <1>3, <1>4, <1>5, <1>14, Zenon DEF ECC_MUL
<1> QED
  BY <1>1, <1>13, <1>15, Zenon

(* The multiplication that runs is the one its phase stands for, and has the *)
(* ladder's invariant; those before it returned the multiples they stand for.*)
Tag == ECC_MUL(xw, xid)
Token == ECC_MUL(zw, xw)

PhaseInv ==
  /\ phase = "xtag" => sca = Tag /\ basep = CurveBase
  /\ phase # "xtag" => xtag = Multiple(Tag)
  /\ phase = "xtoken" => sca = Token /\ basep = CurveBase
  /\ phase = "match" => sca = yid /\ basep = Multiple(Token)
  /\ phase = "done" => match = Multiple(Tag)

CurveInv ==
  /\ xw \in WordKeys /\ xid \in IdKeys /\ zw \in Blinds
  /\ phase \in {"xtag", "xtoken", "match", "done"}
  /\ sca \in 0 .. CurveL - 1 /\ basep \in Bases
  /\ scalen \in -1 .. CurveL - 1
  /\ P1 \in Pairs /\ P2 \in Pairs
  /\ LadderAt(sca \div 2^(scalen + 1), P2, P1, basep)
  /\ PhaseInv

(* The base point is one of its multiples.                                   *)
LEMMA BaseIn == CurveBase \in Bases
<1>1. CurveBase = Multiple(1) /\ 1 \in 1 .. CurveL - 1
  BY CurveAssumption, CurveLaws
<1> QED
  BY <1>1 DEF Bases

LEMMA YidIn ==
  ASSUME CurveInv
  PROVE  yid \in 0 .. CurveL - 1
<1>1. xid \in Nat /\ ECC_FPINV(zw) \in Nat
  BY CurveAssumption, BlindingInverts DEF CurveInv
<1> QED
  BY <1>1, Scalars DEF yid

(* A call of ScalarMul establishes the ladder's part of the invariant.       *)
LEMMA CallInv ==
  ASSUME NEW s \in 0 .. CurveL - 1, NEW x \in Bases, ScalarMul(s, x)
  PROVE  (/\ sca \in 0 .. CurveL - 1 /\ basep \in Bases
          /\ scalen \in -1 .. CurveL - 1
          /\ P1 \in Pairs /\ P2 \in Pairs
          /\ LadderAt(sca \div 2^(scalen + 1), P2, P1, basep))'
<1>1. sca' = s /\ basep' = x /\ scalen' = TopBit(s) /\ P1' = <<x, 1>> /\ P2' = <<1, 0>>
  BY DEF ScalarMul
<1>2. /\ <<1, 0>> \in Pairs /\ <<x, 1>> \in Pairs
      /\ TopBit(s) \in 0 .. CurveL - 1
      /\ LadderAt(s \div 2^(TopBit(s) + 1), <<1, 0>>, <<x, 1>>, x)
  BY CallBegins
<1>3. TopBit(s) \in -1 .. CurveL - 1
  BY <1>2, CurveAssumption
<1>4. LadderAt(sca' \div 2^(scalen' + 1), P2', P1', basep')
  BY <1>1, <1>2
<1>5. (LadderAt(sca \div 2^(scalen + 1), P2, P1, basep))'
  BY <1>4 DEF LadderAt, Represents, Fp
<1> QED
  BY <1>1, <1>2, <1>3, <1>5 DEF Bases, Pairs

(* What a call that is over returned.                                        *)
LEMMA ProductIs ==
  ASSUME CurveInv, scalen = -1
  PROVE  product = XOf(Times(sca, basep))
<1>1. sca \in 0 .. CurveL - 1 /\ basep \in Bases /\ P2 \in Pairs
  BY DEF CurveInv
<1>2. sca \div 2^(scalen + 1) = sca
  <2>1. 2^0 = 1 /\ scalen + 1 = 0 /\ sca \in Nat
    BY <1>1, CurveAssumption
  <2>2. PICK rem \in Nat : rem = sca
    BY <2>1
  <2>3. rem \div 1 = rem
    OBVIOUS
  <2> QED
    BY <2>1, <2>2, <2>3
<1>3. Represents(P2, Times(sca, basep))
  <2>1. LadderAt(sca \div 2^(scalen + 1), P2, P1, basep)
    BY DEF CurveInv
  <2> QED
    BY <1>2, <2>1, Zenon DEF LadderAt
<1> QED
  BY <1>1, <1>3, Returned DEF product

LEMMA CurveInitInv == CurveInit => CurveInv
<1> SUFFICES ASSUME CurveInit PROVE CurveInv
  OBVIOUS
<1>1. /\ xw \in WordKeys /\ xid \in IdKeys /\ zw \in Blinds /\ phase = "xtag"
      /\ sca = ECC_MUL(xw, xid) /\ basep = CurveBase /\ scalen = TopBit(sca)
      /\ P1 = <<basep, 1>> /\ P2 = <<1, 0>>
  BY DEF CurveInit
<1>2. sca \in 0 .. CurveL - 1
  BY <1>1, CurveAssumption, Scalars
<1>3. basep \in Bases
  BY <1>1, BaseIn
<1>4. /\ <<1, 0>> \in Pairs /\ <<basep, 1>> \in Pairs
      /\ TopBit(sca) \in 0 .. CurveL - 1
      /\ LadderAt(sca \div 2^(TopBit(sca) + 1), <<1, 0>>, <<basep, 1>>, basep)
  BY <1>2, <1>3, CallBegins
<1>5. TopBit(sca) \in -1 .. CurveL - 1
  BY <1>4, CurveAssumption
<1>6. PhaseInv
  BY <1>1 DEF PhaseInv, Tag
<1> QED
  BY <1>1, <1>2, <1>3, <1>4, <1>5, <1>6 DEF CurveInv

LEMMA LadderInv == CurveInv /\ LadderStep => CurveInv'
<1> SUFFICES ASSUME CurveInv, LadderStep PROVE CurveInv'
  OBVIOUS
<1>1. /\ sca \in 0 .. CurveL - 1 /\ basep \in Bases /\ scalen \in 0 .. CurveL - 1
      /\ P1 \in Pairs /\ P2 \in Pairs /\ scalen' = scalen - 1
      /\ LadderAt(sca \div 2^(scalen + 1), P2, P1, basep)
      /\ UNCHANGED <<xw, xid, zw, phase, sca, basep, xtag, xtoken, match>>
  BY CurveAssumption DEF CurveInv, LadderStep
<1>2. scalen' \in -1 .. CurveL - 1 /\ scalen' + 1 = scalen
  BY <1>1, CurveAssumption
<1>3. P1' \in Pairs /\ P2' \in Pairs /\ LadderAt(sca \div 2^scalen, P2', P1', basep)
  <2>0. basep \in 0 .. CurveP - 1
    BY <1>1, BaseFacts, CurveAssumption
  <2>1. CASE TestBit(sca, scalen)
    <3>1. P1' = Double(P1) /\ P2' = Sum3(P1, P2, basep)
      BY <2>1 DEF LadderStep, Ladder
    <3>2. LadderAt(sca \div 2^scalen, Sum3(P1, P2, basep), Double(P1), basep)
      BY <1>1, <2>1, OneBit
    <3> QED
      BY <1>1, <2>0, <3>1, <3>2, StepPairs
  <2>2. CASE ~TestBit(sca, scalen)
    <3>1. P2' = Double(P2) /\ P1' = Sum3(P2, P1, basep)
      BY <2>2 DEF LadderStep, Ladder
    <3>2. LadderAt(sca \div 2^scalen, Double(P2), Sum3(P2, P1, basep), basep)
      BY <1>1, <2>2, OneBit
    <3> QED
      BY <1>1, <2>0, <3>1, <3>2, StepPairs
  <2> QED
    BY <2>1, <2>2
<1>4. LadderAt(sca' \div 2^(scalen' + 1), P2', P1', basep')
  BY <1>1, <1>2, <1>3
<1>5. PhaseInv'
  BY <1>1 DEF CurveInv, PhaseInv, Tag, Token, yid
<1> QED
  BY <1>1, <1>2, <1>3, <1>4, <1>5 DEF CurveInv

LEMMA SetupDoneInv == CurveInv /\ SetupDone => CurveInv'
<1> SUFFICES ASSUME CurveInv, SetupDone PROVE CurveInv'
  OBVIOUS
<1>1. /\ phase = "xtag" /\ scalen = -1 /\ xtag' = product /\ phase' = "xtoken"
      /\ ScalarMul(Token, CurveBase)
      /\ UNCHANGED <<xw, xid, zw>>
  BY DEF SetupDone, Token
<1>2. xtag' = Multiple(Tag)
  BY <1>1, ProductIs DEF CurveInv, PhaseInv, Multiple
<1>3. Token \in 0 .. CurveL - 1
  BY CurveAssumption, Scalars DEF CurveInv, Token
<1>4. sca' = Token /\ basep' = CurveBase
  BY <1>1 DEF ScalarMul
<1>5. PhaseInv'
  BY <1>1, <1>2, <1>4 DEF PhaseInv, Tag, Token
<1> QED
  BY <1>1, <1>3, <1>5, BaseIn, CallInv DEF CurveInv

LEMMA TokenDoneInv == CurveInv /\ TokenDone => CurveInv'
<1> SUFFICES ASSUME CurveInv, TokenDone PROVE CurveInv'
  OBVIOUS
<1>1. /\ phase = "xtoken" /\ scalen = -1 /\ phase' = "match"
      /\ ScalarMul(yid, product)
      /\ UNCHANGED <<xw, xid, zw, xtag>>
  BY DEF TokenDone
<1>2. product = Multiple(Token)
  BY <1>1, ProductIs DEF CurveInv, PhaseInv, Multiple
<1>3. Token \in 1 .. CurveL - 1
  BY BlindingInverts DEF CurveInv, Token
<1>4. product \in Bases
  BY <1>2, <1>3 DEF Bases
<1>5. yid \in 0 .. CurveL - 1
  BY YidIn
<1>6. sca' = yid /\ basep' = Multiple(Token)
  BY <1>1, <1>2 DEF ScalarMul
<1>7. PhaseInv'
  BY <1>1, <1>6 DEF CurveInv, PhaseInv, Tag, Token, yid
<1> QED
  BY <1>1, <1>4, <1>5, <1>7, CallInv DEF CurveInv

LEMMA MatchDoneInv == CurveInv /\ MatchDone => CurveInv'
<1> SUFFICES ASSUME CurveInv, MatchDone PROVE CurveInv'
  OBVIOUS
<1>1. /\ phase = "match" /\ scalen = -1 /\ match' = product /\ phase' = "done"
      /\ UNCHANGED <<xw, xid, zw, sca, basep, scalen, P1, P2, xtag, xtoken>>
  BY DEF MatchDone
<1>2. match' = Multiple(Tag)
  <2>1. match' = XOf(Times(yid, Multiple(Token)))
    BY <1>1, ProductIs DEF CurveInv, PhaseInv
  <2>2. Token \in 1 .. CurveL - 1 /\ yid \in 0 .. CurveL - 1
    BY BlindingInverts, YidIn DEF CurveInv, Token
  <2>3. XOf(Times(yid, Multiple(Token))) = Multiple((yid * Token) % CurveL)
    BY <2>2, CurveLaws, Zenon DEF MultiplesLaw
  <2>4. (yid * Token) % CurveL = Tag
    BY Unblinds DEF CurveInv, yid, Token, Tag
  <2> QED
    BY <2>1, <2>3, <2>4
<1>3. PhaseInv'
  BY <1>1, <1>2 DEF CurveInv, PhaseInv, Tag, Token
<1>4. (LadderAt(sca \div 2^(scalen + 1), P2, P1, basep))'
  BY <1>1 DEF CurveInv, LadderAt, Represents, Fp
<1> QED
  BY <1>1, <1>3, <1>4 DEF CurveInv

LEMMA CurveInvariant == CurveSpec => []CurveInv
<1>1. CurveInv /\ UNCHANGED curveVars => CurveInv'
  BY DEF CurveInv, PhaseInv, curveVars, LadderAt, Represents, Fp, Tag, Token, yid
<1>2. CurveInv /\ [CurveNext]_curveVars => CurveInv'
  BY <1>1, LadderInv, SetupDoneInv, TokenDoneInv, MatchDoneInv DEF CurveNext
<1> QED
  BY <1>2, CurveInitInv, PTL DEF CurveSpec

(* After every bit of every scalar the two registers of the ladder hold the  *)
(* multiple by the bits read so far and the next one: on every curve of the  *)
(* form, field and order for which DoubleAndAdd's formulas are the group's   *)
(* (CurveLaws).                                                              *)
THEOREM LadderMultiplies == CurveSpec => []LadderExact
<1>1. CurveInv => LadderExact
  BY DEF CurveInv, LadderExact, LadderAt
<1> QED
  BY <1>1, CurveInvariant, PTL

(* The search server's product of the client's token and the stored exponent *)
(* is the tag the set-up put in the filter, for every keyword, document and  *)
(* blinding.                                                                 *)
THEOREM TokensAlwaysMeet == CurveSpec => []TokensMeet
<1>1. CurveInv => TokensMeet
  BY DEF CurveInv, PhaseInv, TokensMeet
<1> QED
  BY <1>1, CurveInvariant, PTL

-----------------------------------------------------------------------------
(* The worker pool, for any number of workers, any opcodes and inputs and    *)
(* any wrap-around of the round counters (at least 2).                       *)

(* TypeOK and RoundSync are inductive only together: TypeOK needs RoundSync *)
(* to know that the counter is not decremented below 0.                     *)
SyncInv == TypeOK /\ RoundSync

-----------------------------------------------------------------------------
(* Succ stays in range, and moves. *)
LEMMA SuccType == \A i \in Iterations : Succ(i) \in Iterations /\ Succ(i) # i
  BY IterModAssumption DEF Succ, Iterations

(* The pool has at least one worker.                                        *)
LEMMA ThreadsCard == N_threads \in Nat /\ N_threads # 0
  BY ThreadsAssumption, FS_CardinalityType, FS_EmptySet DEF N_threads

(* The workers that owe a count-down are finitely many, at most all.        *)
LEMMA OwingCard ==
  /\ IsFiniteSet(Owing)
  /\ Cardinality(Owing) \in 0 .. N_threads
  /\ Cardinality(Owing) = 0 => Owing = {}
  BY ThreadsAssumption, FS_Subset, FS_CardinalityType, FS_EmptySet DEF Owing, N_threads

(* A worker is in a round only while one is published. *)
LEMMA WorkingInRound ==
  ASSUME RoundSync, NEW w \in Threads, Working(w)
  PROVE  /\ CallRound \/ ReleaseRound
         /\ w \in Owing
         /\ nWorkerCount = Cardinality(Owing)
  BY DEF RoundSync, Owing

(* Before SetUpThreads no worker is in a round.                             *)
LEMMA InitSync == Init => SyncInv
<1> SUFFICES ASSUME Init PROVE SyncInv
  OBVIOUS
<1>1. TypeOK
  <2>1. N_threads \in 0 .. N_threads
    BY ThreadsCard
  <2>2. 0 \in Iterations /\ 1 \in Iterations
    BY IterModAssumption DEF Iterations
  <2>3. reg \in [Threads -> (OpCodes \cup {Idle}) \X InSlots]
    BY DEF Init, InSlots
  <2> QED
    BY <2>1, <2>2, <2>3 DEF Init, TypeOK, MainStates, WorkerStates, InSlots, OutSlots
<1>2. RoundSync
  <2>1. nNextIteration = [w \in Threads |-> Succ(0)]
    BY IterModAssumption DEF Init, Succ
  <2>2. Succ(0) # 0
    BY IterModAssumption DEF Succ
  <2> QED
    BY <2>1, <2>2 DEF Init, RoundSync, Owing, Working, CallRound, ReleaseRound
<1> QED
  BY <1>1, <1>2 DEF SyncInv

-----------------------------------------------------------------------------
(* Starting a round makes every worker owe its count-down: what Publish and *)
(* ReleaseThreads have in common.                                           *)
LEMMA StartRound ==
  ASSUME TypeOK, RoundSync, Owing = {},
         nCurrentIteration' = Succ(nCurrentIteration),
         UNCHANGED <<wpc, nNextIteration>>
  PROVE  /\ Owing' = Threads
         /\ \A w \in Threads : nNextIteration'[w] = nCurrentIteration'
         /\ \A w \in Threads : ~Working(w)'
<1>1. \A w \in Threads : nNextIteration[w] # nCurrentIteration /\ ~Working(w)
  BY DEF Owing
<1>2. \A w \in Threads : nNextIteration[w] = Succ(nCurrentIteration)
  BY <1>1 DEF RoundSync
<1> QED
  BY <1>1, <1>2 DEF Owing, Working

(* Steps that move no worker into or out of a round, and start none. *)
LEMMA SameRound ==
  ASSUME RoundSync,
         UNCHANGED <<nCurrentIteration, nNextIteration, nWorkerCount>>,
         \A w \in Threads : Working(w)' = Working(w),
         (CallRound \/ ReleaseRound)' = (CallRound \/ ReleaseRound)
  PROVE  RoundSync'
<1>1. Owing' = Owing
  BY DEF Owing
<1> QED
  BY <1>1 DEF RoundSync

(* Every step of main thread and workers keeps rounds and workers in step.  *)
LEMMA NextSync == SyncInv /\ [Next]_vars => SyncInv'
<1> SUFFICES ASSUME TypeOK, RoundSync, [Next]_vars PROVE TypeOK' /\ RoundSync'
  BY DEF SyncInv
<1> USE DEF mainVars, sharedVars, dataVars, workerVars
<1>1. CASE SetUpDone
  <2>1. TypeOK'
    BY <1>1 DEF TypeOK, SetUpDone, MainStates
  <2>2. RoundSync'
    BY <1>1, SameRound DEF SetUpDone, Working, CallRound, ReleaseRound
  <2> QED BY <2>1, <2>2
<1>2. CASE WriteBatch
  <2>1. TypeOK'
    BY <1>2 DEF TypeOK, WriteBatch, MainStates, InSlots, OutSlots
  <2>2. RoundSync'
    BY <1>2, SameRound DEF WriteBatch, Working, CallRound, ReleaseRound
  <2> QED BY <2>1, <2>2
<1>3. CASE Publish
  <2>1. TypeOK'
    BY <1>3, ThreadsCard, SuccType DEF TypeOK, Publish, MainStates
  <2>2. Owing = {}
    BY <1>3 DEF Publish, RoundSync, CallRound, ReleaseRound
  <2>3. RoundSync'
    BY <1>3, <2>2, StartRound
    DEF Publish, RoundSync, N_threads, CallRound, ReleaseRound
  <2> QED BY <2>1, <2>3
<1>4. CASE ReturnBatch
  <2>1. TypeOK'
    BY <1>4 DEF TypeOK, ReturnBatch, MainStates
  <2>2. RoundSync'
    BY <1>4, SameRound DEF ReturnBatch, Working, CallRound, ReleaseRound
  <2> QED BY <2>1, <2>2
<1>5. CASE NotifyWorkers
  <2>1. TypeOK'
    BY <1>5 DEF TypeOK, NotifyWorkers, WakeWorkers, MainStates, WorkerStates
  <2>2. \A w \in Threads : Working(w)' = Working(w)
    BY <1>5 DEF TypeOK, NotifyWorkers, WakeWorkers, Working
  <2>3. RoundSync'
    BY <1>5, <2>2, SameRound DEF NotifyWorkers, CallRound, ReleaseRound
  <2> QED BY <2>1, <2>3
<1>6. CASE AwaitWorkers
  <2>1. TypeOK'
    BY <1>6 DEF TypeOK, AwaitWorkers, MainStates
  <2>2. CASE nWorkerCount = 0
    <3>1. Owing = {}
      BY <1>6, <2>2, OwingCard DEF AwaitWorkers, RoundSync, CallRound, ReleaseRound
    <3>2. Owing' = Owing
      BY <1>6 DEF AwaitWorkers, Owing, Working
    <3>3. ~(CallRound \/ ReleaseRound)'
      BY <1>6, <2>2 DEF AwaitWorkers, CallRound, ReleaseRound
    <3> QED
      BY <1>6, <3>1, <3>2, <3>3, <2>1 DEF AwaitWorkers, RoundSync, Working
  <2>3. CASE nWorkerCount # 0
    BY <1>6, <2>1, <2>3, SameRound DEF AwaitWorkers, Working, CallRound, ReleaseRound
  <2> QED BY <2>2, <2>3
<1>7. CASE ReleaseThreads
  <2>1. TypeOK'
    BY <1>7, ThreadsCard, SuccType DEF TypeOK, ReleaseThreads, MainStates
  <2>2. Owing = {}
    BY <1>7 DEF ReleaseThreads, RoundSync, CallRound, ReleaseRound
  <2>3. RoundSync'
    BY <1>7, <2>2, StartRound
    DEF ReleaseThreads, RoundSync, N_threads, CallRound, ReleaseRound
  <2> QED BY <2>1, <2>3
<1>8. CASE JoinThreads
  <2>1. TypeOK'
    BY <1>8 DEF TypeOK, JoinThreads, MainStates
  <2>2. RoundSync'
    BY <1>8, SameRound DEF JoinThreads, Working, CallRound, ReleaseRound
  <2> QED BY <2>1, <2>2
<1>9. CASE SpuriousWakeMain
  <2>1. TypeOK'
    BY <1>9 DEF TypeOK, SpuriousWakeMain, WakeMain, MainStates
  <2>2. RoundSync'
    BY <1>9, SameRound DEF SpuriousWakeMain, WakeMain, Working, CallRound, ReleaseRound
  <2> QED BY <2>1, <2>2
<1>10. ASSUME NEW w \in Threads, SpawnThread(w) PROVE TypeOK' /\ RoundSync'
  <2>1. TypeOK'
    BY <1>10 DEF TypeOK, SpawnThread, WorkerStates
  <2>2. \A u \in Threads : Working(u)' = Working(u)
    BY <1>10 DEF TypeOK, SpawnThread, Working
  <2>3. RoundSync'
    BY <1>10, <2>2, SameRound DEF SpawnThread, CallRound, ReleaseRound
  <2> QED BY <2>1, <2>3
<1>11. ASSUME NEW w \in Threads, CheckProcessed(w) PROVE TypeOK' /\ RoundSync'
  <2>1. TypeOK'
    BY <1>11 DEF TypeOK, CheckProcessed, WorkerStates
  <2>2. \A u \in Threads : Working(u)' = Working(u)
    BY <1>11 DEF TypeOK, CheckProcessed, Working
  <2>3. RoundSync'
    BY <1>11, <2>2, SameRound DEF CheckProcessed, CallRound, ReleaseRound
  <2> QED BY <2>1, <2>3
<1>12. ASSUME NEW w \in Threads, AwaitRound(w) PROVE TypeOK' /\ RoundSync'
  <2>1. CASE nCurrentIteration = nNextIteration[w]
    <3>1. TypeOK'
      BY <1>12, <2>1, SuccType DEF TypeOK, AwaitRound, WorkerStates
    <3>2. /\ nNextIteration'[w] = Succ(nCurrentIteration) /\ Working(w)'
          /\ \A u \in Threads \ {w} : /\ nNextIteration'[u] = nNextIteration[u]
                                      /\ Working(u)' = Working(u)
      BY <1>12, <2>1 DEF TypeOK, AwaitRound, Working
    <3>3. Owing' = Owing
      BY <1>12, <2>1, <3>2 DEF AwaitRound, Owing
    <3> QED
      BY <1>12, <3>1, <3>2, <3>3 DEF AwaitRound, RoundSync, CallRound, ReleaseRound
  <2>2. CASE nCurrentIteration # nNextIteration[w]
    <3>1. TypeOK'
      BY <1>12, <2>2 DEF TypeOK, AwaitRound, WorkerStates
    <3>2. \A u \in Threads : Working(u)' = Working(u)
      BY <1>12, <2>2 DEF TypeOK, AwaitRound, Working
    <3>3. RoundSync'
      BY <1>12, <2>2, <3>2, SameRound DEF AwaitRound, CallRound, ReleaseRound
    <3> QED BY <3>1, <3>3
  <2> QED BY <2>1, <2>2
<1>13. ASSUME NEW w \in Threads, Fetch(w) PROVE TypeOK' /\ RoundSync'
  <2>1. TypeOK'
    BY <1>13 DEF TypeOK, Fetch, WorkerStates
  <2>2. \A u \in Threads : Working(u)' = Working(u)
    BY <1>13 DEF TypeOK, Fetch, Working
  <2>3. RoundSync'
    BY <1>13, <2>2, SameRound DEF Fetch, CallRound, ReleaseRound
  <2> QED BY <2>1, <2>3
<1>14. ASSUME NEW w \in Threads, Store(w) PROVE TypeOK' /\ RoundSync'
  <2>1. output' \in [Threads -> OutSlots]
    <3>1. reg[w] \in (OpCodes \cup {Idle}) \X InSlots
      BY DEF TypeOK
    <3>2. reg[w][1] # Idle => Result(reg[w][1], reg[w][2]) \in OutSlots
      BY <3>1 DEF Result, Results, OutSlots
    <3> QED
      BY <1>14, <3>2 DEF TypeOK, Store
  <2>2. TypeOK'
    BY <1>14, <2>1 DEF TypeOK, Store, WorkerStates
  <2>3. \A u \in Threads : Working(u)' = Working(u)
    BY <1>14 DEF TypeOK, Store, Working
  <2>4. RoundSync'
    BY <1>14, <2>3, SameRound DEF Store, CallRound, ReleaseRound
  <2> QED BY <2>2, <2>4
<1>15. ASSUME NEW w \in Threads, CountDown(w) PROVE TypeOK' /\ RoundSync'
  <2>1. w \in Owing /\ nWorkerCount = Cardinality(Owing) /\ (CallRound \/ ReleaseRound)
    BY <1>15, WorkingInRound DEF CountDown, Working
  <2>2. Owing' = Owing \ {w}
    <3>1. nNextIteration[w] # nCurrentIteration
      BY <1>15, SuccType DEF CountDown, Working, RoundSync, TypeOK
    <3>2. ~Working(w)' /\ \A u \in Threads \ {w} : Working(u)' = Working(u)
      BY <1>15 DEF TypeOK, CountDown, Working
    <3> QED
      BY <1>15, <3>1, <3>2 DEF CountDown, Owing
  <2>3. nWorkerCount' = Cardinality(Owing') /\ nWorkerCount' \in 0 .. N_threads
    BY <1>15, <2>1, <2>2, OwingCard, ThreadsCard, FS_RemoveElement, FS_CardinalityType,
       FS_Subset DEF CountDown
  <2>4. TypeOK'
    BY <1>15, <2>3 DEF TypeOK, CountDown, WorkerStates
  <2>5. \A u \in Threads : Working(u)' => Working(u)
    BY <1>15 DEF TypeOK, CountDown, Working
  <2>6. (CallRound \/ ReleaseRound)'
    BY <1>15, <2>1 DEF CountDown, CallRound, ReleaseRound
  <2>7. RoundSync'
    BY <1>15, <2>3, <2>5, <2>6 DEF CountDown, RoundSync
  <2> QED BY <2>4, <2>7
<1>16. ASSUME NEW w \in Threads, NotifyMain(w) PROVE TypeOK' /\ RoundSync'
  <2>1. TypeOK'
    BY <1>16 DEF TypeOK, NotifyMain, WakeMain, MainStates, WorkerStates
  <2>2. \A u \in Threads : Working(u)' = Working(u)
    BY <1>16 DEF TypeOK, NotifyMain, Working
  <2>3. RoundSync'
    BY <1>16, <2>2, SameRound DEF NotifyMain, WakeMain, CallRound, ReleaseRound
  <2> QED BY <2>1, <2>3
<1>17. ASSUME NEW w \in Threads, SpuriousWakeWorker(w) PROVE TypeOK' /\ RoundSync'
  <2>1. TypeOK'
    BY <1>17 DEF TypeOK, SpuriousWakeWorker, WorkerStates
  <2>2. \A u \in Threads : Working(u)' = Working(u)
    BY <1>17 DEF TypeOK, SpuriousWakeWorker, Working
  <2>3. RoundSync'
    BY <1>17, <2>2, SameRound DEF SpuriousWakeWorker, CallRound, ReleaseRound
  <2> QED BY <2>1, <2>3
<1>18. CASE UNCHANGED vars
  BY <1>18, SameRound DEF vars, TypeOK, Working, CallRound, ReleaseRound
<1> QED
  BY <1>1, <1>2, <1>3, <1>4, <1>5, <1>6, <1>7, <1>8, <1>9, <1>10, <1>11, <1>12,
     <1>13, <1>14, <1>15, <1>16, <1>17, <1>18
  DEF Next, Call, Wait, Release, WorkerThread

(* Type correctness of the pool, for every execution. *)
THEOREM TypeCorrect == Spec => []TypeOK
<1>1. SyncInv => TypeOK
  BY DEF SyncInv
<1> QED
  BY <1>1, InitSync, NextSync, PTL DEF Spec

(* Main thread and workers stay in step: the count-down that ends a round    *)
(* counts exactly the workers still in it, and no worker lags two rounds.    *)
THEOREM RoundsInStep == Spec => []RoundSync
<1>1. SyncInv => RoundSync
  BY DEF SyncInv
<1> QED
  BY <1>1, InitSync, NextSync, PTL DEF Spec

(* The unlocked accesses of the workers to the batch never race with the     *)
(* main thread's: a worker that touches a slot is in a round.                *)
THEOREM RaceFree == Spec => []NoDataRace
<1>1. SyncInv => NoDataRace
  <2> SUFFICES ASSUME SyncInv, NEW w \in Threads, wpc[w] \in {"fetch", "store"}
               PROVE  mpc \notin {"idle", "publish", "return", "join", "released"}
    BY DEF NoDataRace
  <2>1. CallRound \/ ReleaseRound
    BY WorkingInRound DEF SyncInv, Working
  <2> QED
    BY <2>1 DEF CallRound, ReleaseRound
<1> QED
  BY <1>1, InitSync, NextSync, PTL DEF Spec

-----------------------------------------------------------------------------
(* A step outside the two notifications wakes nobody; what is left to show   *)
(* is that going to sleep and finishing a round keep the invariant.          *)
LEMMA NextWakeup == SyncInv /\ NoLostWakeup /\ [Next]_vars => NoLostWakeup'
<1> SUFFICES ASSUME TypeOK, RoundSync, NoLostWakeup, [Next]_vars PROVE NoLostWakeup'
  BY DEF SyncInv
<1> DEFINE Sleeper(w) == wpc[w] = "asleep" /\ nNextIteration[w] = nCurrentIteration
<1> USE DEF mainVars, sharedVars, dataVars, workerVars
<1>1. CASE SetUpDone \/ WriteBatch \/ ReturnBatch \/ JoinThreads \/ SpuriousWakeMain
  BY <1>1 DEF SetUpDone, WriteBatch, ReturnBatch, JoinThreads, SpuriousWakeMain, WakeMain,
              NoLostWakeup
<1>2. CASE Publish \/ ReleaseThreads
  BY <1>2 DEF Publish, ReleaseThreads, NoLostWakeup
<1>3. CASE NotifyWorkers
  BY <1>3 DEF NotifyWorkers, WakeWorkers, NoLostWakeup, TypeOK
<1>4. CASE AwaitWorkers
  BY <1>4 DEF AwaitWorkers, NoLostWakeup
<1>5. ASSUME NEW w \in Threads,
             SpawnThread(w) \/ CheckProcessed(w) \/ Fetch(w) \/ Store(w) \/ SpuriousWakeWorker(w)
      PROVE  NoLostWakeup'
  <2>1. /\ UNCHANGED <<mpc, nCurrentIteration, nNextIteration, nWorkerCount>>
        /\ wpc'[w] # "asleep" /\ wpc[w] # "notify"
        /\ \A u \in Threads \ {w} : wpc'[u] = wpc[u]
    BY <1>5 DEF SpawnThread, CheckProcessed, Fetch, Store, SpuriousWakeWorker, TypeOK
  <2> QED
    BY <2>1 DEF NoLostWakeup
<1>6. ASSUME NEW w \in Threads, AwaitRound(w) PROVE NoLostWakeup'
  <2>1. /\ UNCHANGED <<mpc, nCurrentIteration, nWorkerCount>>
        /\ wpc'[w] = "asleep" => nNextIteration'[w] # nCurrentIteration
        /\ wpc[w] # "notify"
        /\ \A u \in Threads \ {w} : wpc'[u] = wpc[u] /\ nNextIteration'[u] = nNextIteration[u]
    BY <1>6 DEF AwaitRound, TypeOK
  <2> QED
    BY <2>1 DEF NoLostWakeup
<1>7. ASSUME NEW w \in Threads, CountDown(w) PROVE NoLostWakeup'
  <2>1. /\ UNCHANGED <<mpc, nCurrentIteration, nNextIteration>>
        /\ wpc'[w] = IF nWorkerCount' = 0 THEN "notify" ELSE "check"
        /\ \A u \in Threads \ {w} : wpc'[u] = wpc[u]
    BY <1>7 DEF CountDown, TypeOK
  <2> QED
    BY <2>1 DEF NoLostWakeup
<1>8. ASSUME NEW w \in Threads, NotifyMain(w) PROVE NoLostWakeup'
  <2>1. /\ UNCHANGED <<nCurrentIteration, nNextIteration>>
        /\ mpc' \notin {"asleep", "rel_asleep"}
        /\ mpc \in {"notify", "rel_notify"} => mpc' = mpc
        /\ wpc'[w] = "check"
        /\ \A u \in Threads \ {w} : wpc'[u] = wpc[u]
    BY <1>8 DEF NotifyMain, WakeMain, TypeOK
  <2> QED
    BY <2>1 DEF NoLostWakeup
<1>9. CASE UNCHANGED vars
  BY <1>9 DEF vars, NoLostWakeup
<1> QED
  BY <1>1, <1>2, <1>3, <1>4, <1>5, <1>6, <1>7, <1>8, <1>9
  DEF Next, Call, Wait, Release, WorkerThread

(* Neither condition variable loses a wake-up that matters. *)
THEOREM NoWakeupLost == Spec => []NoLostWakeup
<1>1. Init => NoLostWakeup
  BY DEF Init, NoLostWakeup
<1> QED
  BY <1>1, InitSync, NextSync, NextWakeup, PTL DEF Spec

-----------------------------------------------------------------------------
(* The data of a batch.  While a call is in progress its opcode and inputs   *)
(* stay what the caller gave; a worker computes from exactly these; and a    *)
(* slot whose worker is done holds the result.                               *)
Done(w) == w \notin Owing \/ wpc[w] = "count"

BatchInv ==
  /\ Busy => GL_OPCODE \in OpCodes /\ input \in [Threads -> Vals]
  /\ \A w \in Threads : wpc[w] = "store" => reg[w] = <<GL_OPCODE, input[w]>>
  /\ CallRound \/ mpc = "return"
       => \A w \in Threads : Done(w) => output[w] = Result(GL_OPCODE, input[w])

(* Between calls the opcode is 0, except before the first one. *)
OpcodeReset ==
  ~Busy /\ ret # [t \in Threads |-> Uninit] => GL_OPCODE = Idle

DataInv == BatchInv /\ OpcodeReset

(* Before SetUpThreads nothing has been computed.                           *)
LEMMA InitData == Init => DataInv
  BY DEF Init, DataInv, BatchInv, OpcodeReset, Busy, CallRound

(* A worker's step changes no other worker's slot and no input; it is done   *)
(* in its slot only if it was before, or has just stored the result.         *)
LEMMA WorkerKeepsBatch ==
  ASSUME NEW w \in Threads, SyncInv, DataInv,
         UNCHANGED <<ret, GL_OPCODE, input, nCurrentIteration>>,
         Busy' = Busy, (CallRound \/ mpc = "return")' = (CallRound \/ mpc = "return"),
         \A u \in Threads \ {w} : /\ wpc'[u] = wpc[u] /\ reg'[u] = reg[u]
                                  /\ nNextIteration'[u] = nNextIteration[u]
                                  /\ output'[u] = output[u],
         wpc'[w] = "store" => reg'[w] = <<GL_OPCODE, input[w]>>,
         CallRound /\ Done(w)' => output'[w] = Result(GL_OPCODE, input[w]),
         mpc = "return" /\ Done(w)' => output'[w] = Result(GL_OPCODE, input[w])
  PROVE  DataInv'
<1>1. \A u \in Threads \ {w} : Done(u)' = Done(u)
  BY DEF Done, Owing, Working
<1>2. BatchInv'
  BY <1>1 DEF DataInv, BatchInv
<1>3. OpcodeReset'
  BY DEF DataInv, OpcodeReset
<1> QED
  BY <1>2, <1>3 DEF DataInv

(* Every step keeps the batch's data consistent with its round.             *)
LEMMA NextData == SyncInv /\ DataInv /\ [Next]_vars => DataInv'
<1> SUFFICES ASSUME SyncInv, DataInv, [Next]_vars PROVE DataInv'
  OBVIOUS
<1> USE DEF mainVars, sharedVars, dataVars, workerVars
<1>1. CASE SetUpDone
  BY <1>1 DEF SetUpDone, DataInv, BatchInv, OpcodeReset, Busy, CallRound
<1>2. CASE WriteBatch
  <2>1. \A w \in Threads : wpc[w] # "store"
    BY <1>2, WorkingInRound DEF WriteBatch, SyncInv, Working, CallRound, ReleaseRound
  <2> QED
    BY <1>2, <2>1 DEF WriteBatch, DataInv, BatchInv, OpcodeReset, Busy, CallRound
<1>3. CASE Publish
  <2>1. Owing = {}
    BY <1>3 DEF Publish, SyncInv, RoundSync, CallRound, ReleaseRound
  <2>2. \A w \in Threads : ~Done(w)'
    BY <1>3, <2>1, StartRound DEF Publish, SyncInv, Done, Working
  <2> QED
    BY <1>3, <2>2 DEF Publish, DataInv, BatchInv, OpcodeReset, Busy, CallRound
<1>4. CASE NotifyWorkers
  <2>1. \A w \in Threads : Done(w)' = Done(w) /\ (wpc'[w] = "store" <=> wpc[w] = "store")
    BY <1>4 DEF NotifyWorkers, WakeWorkers, SyncInv, TypeOK, Done, Owing, Working
  <2> QED
    BY <1>4, <2>1 DEF NotifyWorkers, DataInv, BatchInv, OpcodeReset, Busy, CallRound
<1>5. CASE AwaitWorkers
  <2>1. \A w \in Threads : Done(w)' = Done(w)
    BY <1>5 DEF AwaitWorkers, Done, Owing, Working
  <2> QED
    BY <1>5, <2>1 DEF AwaitWorkers, DataInv, BatchInv, OpcodeReset, Busy, CallRound
<1>6. CASE ReturnBatch
  <2>1. \A w \in Threads : wpc[w] # "store"
    BY <1>6, WorkingInRound DEF ReturnBatch, SyncInv, Working, CallRound, ReleaseRound
  <2> QED
    BY <1>6, <2>1 DEF ReturnBatch, DataInv, BatchInv, OpcodeReset, Busy, CallRound
<1>7. CASE ReleaseThreads \/ JoinThreads
  BY <1>7 DEF ReleaseThreads, JoinThreads, DataInv, BatchInv, OpcodeReset, Busy, CallRound
<1>8. CASE SpuriousWakeMain
  <2>1. \A w \in Threads : Done(w)' = Done(w)
    BY <1>8 DEF SpuriousWakeMain, Done, Owing, Working
  <2> QED
    BY <1>8, <2>1
    DEF SpuriousWakeMain, WakeMain, DataInv, BatchInv, OpcodeReset, Busy, CallRound
<1>9. ASSUME NEW w \in Threads, SpawnThread(w) \/ CheckProcessed(w) \/ SpuriousWakeWorker(w)
      PROVE  DataInv'
  <2>1. /\ UNCHANGED <<mpc, ret, GL_OPCODE, input, output, reg, nCurrentIteration, nNextIteration>>
        /\ wpc[w] \in {"unborn", "check", "asleep"} /\ wpc'[w] \in {"check", "lock", "exited"}
        /\ \A u \in Threads \ {w} : wpc'[u] = wpc[u]
    BY <1>9 DEF SpawnThread, CheckProcessed, SpuriousWakeWorker, SyncInv, TypeOK
  <2>2. Done(w)' = Done(w)
    BY <2>1 DEF Done, Owing, Working
  <2> QED
    BY <2>1, <2>2, WorkerKeepsBatch DEF DataInv, BatchInv, Busy, CallRound
<1>10. ASSUME NEW w \in Threads, AwaitRound(w) PROVE DataInv'
  <2>1. /\ UNCHANGED <<mpc, ret, GL_OPCODE, input, output, reg, nCurrentIteration>>
        /\ wpc[w] = "lock" /\ wpc'[w] \in {"fetch", "asleep"}
        /\ wpc'[w] = "asleep" => nNextIteration'[w] = nNextIteration[w]
        /\ \A u \in Threads \ {w} : /\ wpc'[u] = wpc[u]
                                    /\ nNextIteration'[u] = nNextIteration[u]
    BY <1>10 DEF AwaitRound, SyncInv, TypeOK
  <2>2. Done(w)' => Done(w)
    BY <2>1 DEF Done, Owing, Working
  <2> QED
    BY <2>1, <2>2, WorkerKeepsBatch DEF DataInv, BatchInv, Busy, CallRound
<1>11. ASSUME NEW w \in Threads, Fetch(w) PROVE DataInv'
  <2>1. /\ UNCHANGED <<mpc, ret, GL_OPCODE, input, output, nCurrentIteration, nNextIteration>>
        /\ wpc'[w] = "store" /\ reg'[w] = <<GL_OPCODE, input[w]>>
        /\ \A u \in Threads \ {w} : wpc'[u] = wpc[u] /\ reg'[u] = reg[u]
    BY <1>11 DEF Fetch, SyncInv, TypeOK
  <2>2. ~Done(w)'
    BY <2>1 DEF Done, Owing, Working
  <2> QED
    BY <2>1, <2>2, WorkerKeepsBatch DEF Busy, CallRound
<1>12. ASSUME NEW w \in Threads, Store(w) PROVE DataInv'
  <2>1. /\ UNCHANGED <<mpc, ret, GL_OPCODE, input, reg, nCurrentIteration, nNextIteration>>
        /\ wpc'[w] = "count"
        /\ reg[w] = <<GL_OPCODE, input[w]>>
        /\ \A u \in Threads \ {w} : wpc'[u] = wpc[u] /\ output'[u] = output[u]
    BY <1>12 DEF Store, SyncInv, TypeOK, DataInv, BatchInv
  <2>2. CallRound => GL_OPCODE # Idle
    BY OpCodesAssumption DEF DataInv, BatchInv, Busy, CallRound, Idle
  <2>3. CallRound => output'[w] = Result(GL_OPCODE, input[w])
    BY <1>12, <2>1, <2>2 DEF Store, SyncInv, TypeOK
  <2>4. mpc # "return"
    BY <1>12, WorkingInRound DEF Store, SyncInv, Working, CallRound, ReleaseRound
  <2> QED
    BY <2>1, <2>3, <2>4, WorkerKeepsBatch DEF Busy, CallRound
<1>13. ASSUME NEW w \in Threads, CountDown(w) PROVE DataInv'
  <2>1. /\ UNCHANGED <<mpc, ret, GL_OPCODE, input, output, reg, nCurrentIteration, nNextIteration>>
        /\ wpc[w] = "count" /\ wpc'[w] \in {"notify", "check"}
        /\ \A u \in Threads \ {w} : wpc'[u] = wpc[u]
    BY <1>13 DEF CountDown, SyncInv, TypeOK
  <2>2. Done(w)
    BY <2>1 DEF Done
  <2> QED
    BY <2>1, <2>2, WorkerKeepsBatch DEF DataInv, BatchInv, Busy, CallRound
<1>14. ASSUME NEW w \in Threads, NotifyMain(w) PROVE DataInv'
  <2>1. /\ UNCHANGED <<ret, GL_OPCODE, input, output, reg, nCurrentIteration, nNextIteration>>
        /\ wpc[w] = "notify" /\ wpc'[w] = "check"
        /\ \A u \in Threads \ {w} : wpc'[u] = wpc[u]
        /\ Busy' = Busy /\ CallRound' = CallRound /\ (mpc' = "return" <=> mpc = "return")
    BY <1>14 DEF NotifyMain, WakeMain, SyncInv, TypeOK, Busy, CallRound
  <2>2. Done(w)' = Done(w)
    BY <2>1 DEF Done, Owing, Working
  <2> QED
    BY <2>1, <2>2, WorkerKeepsBatch DEF DataInv, BatchInv
<1>15. CASE UNCHANGED vars
  <2>1. \A w \in Threads : Done(w)' = Done(w)
    BY <1>15 DEF vars, Done, Owing, Working
  <2> QED
    BY <1>15, <2>1 DEF vars, DataInv, BatchInv, OpcodeReset, Busy, CallRound
<1> QED
  BY <1>1, <1>2, <1>3, <1>4, <1>5, <1>6, <1>7, <1>8, <1>9, <1>10, <1>11, <1>12, <1>13,
     <1>14, <1>15
  DEF Next, Call, Wait, Release, WorkerThread

(* The round that ends the pool runs no operation once a call has reset the  *)
(* opcode.                                                                   *)
THEOREM ReleaseIsIdle == Spec => []ReleaseRunsNothing
<1>1. DataInv => ReleaseRunsNothing
  BY DEF DataInv, BatchInv, OpcodeReset, ReleaseRunsNothing, Busy, ReleaseRound
<1> QED
  BY <1>1, InitSync, NextSync, InitData, NextData, PTL DEF Spec

-----------------------------------------------------------------------------
(* Every step of the pool is a step of the batch call or leaves it alone.    *)
LEMMA StepRefines == SyncInv /\ DataInv /\ [Next]_vars => [Batch!Next]_(Batch!vars)
<1> SUFFICES ASSUME SyncInv, DataInv, [Next]_vars PROVE [Batch!Next]_(Batch!vars)
  OBVIOUS
<1> USE DEF mainVars, sharedVars, dataVars, workerVars
<1>1. CASE WriteBatch
  <2>1. Batch!Call
    BY <1>1 DEF WriteBatch, Batch!Call, Busy
  <2> QED
    BY <2>1 DEF Batch!Next
<1>2. CASE ReturnBatch
  <2>1. \A w \in Threads : output[w] = Result(GL_OPCODE, input[w])
    BY <1>2 DEF ReturnBatch, SyncInv, RoundSync, DataInv, BatchInv, Done, CallRound, ReleaseRound
  <2>2. output = [t \in Threads |-> Result(GL_OPCODE, input[t])]
    BY <2>1 DEF SyncInv, TypeOK
  <2>3. Batch!Return
    BY <1>2, <2>2 DEF ReturnBatch, Batch!Return, Batch!Result, Result, Busy
  <2> QED
    BY <2>3 DEF Batch!Next
<1>3. CASE ReleaseThreads
  <2>1. Batch!Close
    BY <1>3 DEF ReleaseThreads, Batch!Close, Busy
  <2> QED
    BY <2>1 DEF Batch!Next
<1>4. CASE SetUpDone \/ Publish \/ NotifyWorkers \/ AwaitWorkers \/ JoinThreads \/ SpuriousWakeMain
  <2>1. /\ UNCHANGED <<GL_OPCODE, input, ret>>
        /\ Busy' = Busy
        /\ (mpc \in {"setup", "idle"})' = (mpc \in {"setup", "idle"})
    BY <1>4 DEF SetUpDone, Publish, NotifyWorkers, AwaitWorkers, JoinThreads,
                SpuriousWakeMain, WakeMain, Busy
  <2> QED
    BY <2>1 DEF Batch!vars
<1>5. ASSUME NEW w \in Threads, SpawnThread(w) \/ WorkerThread(w) \/ SpuriousWakeWorker(w)
      PROVE  UNCHANGED Batch!vars
  <2>1. /\ UNCHANGED <<GL_OPCODE, input, ret>>
        /\ Busy' = Busy
        /\ (mpc \in {"setup", "idle"})' = (mpc \in {"setup", "idle"})
    BY <1>5 DEF SpawnThread, WorkerThread, SpuriousWakeWorker, CheckProcessed, AwaitRound,
                Fetch, Store, CountDown, NotifyMain, WakeMain, Busy
  <2> QED
    BY <2>1 DEF Batch!vars
<1>6. CASE UNCHANGED vars
  BY <1>6 DEF vars, Batch!vars, Busy
<1> QED
  BY <1>1, <1>2, <1>3, <1>4, <1>5, <1>6 DEF Next, Call, Wait, Release

(* The worker pool implements the batch call: whatever the number of workers *)
(* and the interleaving, a call returns the result of its opcode on its      *)
(* input in every slot.                                                      *)
THEOREM PoolImplementsBatch == Spec => BatchSpec
<1>1. Init => Batch!Init
  BY DEF Init, Batch!Init, Busy
<1> QED
  BY <1>1, InitSync, NextSync, InitData, NextData, StepRefines, PTL DEF Spec, BatchSpec, Batch!Spec
===============================================================================
