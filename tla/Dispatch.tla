------------------------------ MODULE Dispatch ------------------------------
(***************************************************************************)
(* blake3_dispatch.c: the first call of every worker asks the processor    *)
(* what it supports and caches the answer in a variable that all workers   *)
(* read and write without a lock.  A subtree first asks for the degree     *)
(* (and lays out its input for it), then hashes chunks with the widest     *)
(* kernel, then compresses parents.                                        *)
(***************************************************************************)
EXTENDS Naturals, Sequences

CONSTANTS HashThreads,
          Processors,  \* records: bits (of cpuid), max_id (its last leaf), xcr0 (states the system saves)
          UNDEFINED

VARIABLES cpu, g_cpu_features,
          calls,     \* per thread, the calls of the dispatcher it has ahead
          missed,    \* per thread, whether its call found the cache empty
          features,  \* per thread, what get_cpu_features returned, or UNDEFINED
          degree,    \* per thread, the answer of blake3_simd_degree
          kernels    \* per thread, the kernels it ran: <<call, kernel>>
dispatchVars == <<cpu, g_cpu_features, calls, missed, features, degree, kernels>>

YmmState == {"xmm", "ymm"}
ZmmState == {"opmask", "zmm_hi256", "hi16_zmm"}

(* Mutant of Detect: the state of the wide registers is not asked for. *)
DetectNoZmm(c) ==
  {"SSE2"} \cup (c.bits \cap {"SSSE3", "SSE41"})
  \cup IF "OSXSAVE" \in c.bits /\ YmmState \subseteq c.xcr0
       THEN (c.bits \cap {"AVX"})
            \cup IF c.max_id >= 7 THEN c.bits \cap {"AVX2", "AVX512VL", "AVX512F"} ELSE {}
       ELSE {}

(* The features a processor is found to have. *)
Detect(c) ==
  {"SSE2"} \cup (c.bits \cap {"SSSE3", "SSE41"})
  \cup IF "OSXSAVE" \in c.bits /\ YmmState \subseteq c.xcr0
       THEN (c.bits \cap {"AVX"})
            \cup IF c.max_id >= 7
                 THEN (c.bits \cap {"AVX2"})
                      \cup IF ZmmState \subseteq c.xcr0 THEN c.bits \cap {"AVX512VL", "AVX512F"} ELSE {}
                 ELSE {}
       ELSE {}

(* A processor with AVX512VL has AVX512F, one with SSE4.1 SSSE3; what is     *)
(* found out about a processor is told apart from an empty cache.            *)
ASSUME ProcessorsAssumption ==
  \A c \in Processors :
    /\ "AVX512VL" \in c.bits => "AVX512F" \in c.bits
    /\ "SSE41" \in c.bits => "SSSE3" \in c.bits
    /\ Detect(c) # UNDEFINED

WideAvx512(f) == {"AVX512F", "AVX512VL"} \subseteq f
hash_many(f) == IF WideAvx512(f) THEN "avx512" ELSE IF "AVX2" \in f THEN "avx2"
                ELSE IF "SSE41" \in f THEN "sse41" ELSE IF "SSE2" \in f THEN "sse2" ELSE "portable"
simd_degree(f) == IF WideAvx512(f) THEN 16 ELSE IF "AVX2" \in f THEN 8
                  ELSE IF f \cap {"SSE41", "SSE2"} # {} THEN 4 ELSE 1
compress(f) == IF "AVX512VL" \in f THEN "avx512" ELSE IF "SSE41" \in f THEN "sse41"
               ELSE IF "SSE2" \in f THEN "sse2" ELSE "portable"

DispatchInit ==
  /\ cpu \in Processors
  /\ g_cpu_features = UNDEFINED
  /\ calls \in [HashThreads -> {<<"degree", "hash_many", "compress">>, <<"compress">>}]
  /\ missed = [t \in HashThreads |-> FALSE]
  /\ features = [t \in HashThreads |-> UNDEFINED]
  /\ degree = [t \in HashThreads |-> 0]
  /\ kernels = [t \in HashThreads |-> {}]

(* A call reads the cache; a value there is its answer. *)
ReadCache(t) ==
  /\ calls[t] # <<>> /\ ~missed[t] /\ features[t] = UNDEFINED
  /\ missed' = [missed EXCEPT ![t] = g_cpu_features = UNDEFINED]
  /\ features' = [features EXCEPT ![t] = g_cpu_features]
  /\ UNCHANGED <<cpu, g_cpu_features, calls, degree, kernels>>

(* Otherwise it asks the processor and stores the answer. *)
StoreCache(t) ==
  /\ missed[t]
  /\ missed' = [missed EXCEPT ![t] = FALSE]
  /\ features' = [features EXCEPT ![t] = Detect(cpu)]
  /\ g_cpu_features' = Detect(cpu)
  /\ UNCHANGED <<cpu, calls, degree, kernels>>

(* The call picks its kernel, and returns. *)
Dispatch(t) ==
  /\ features[t] # UNDEFINED
  /\ LET call == Head(calls[t]) IN
       /\ degree' = IF call = "degree" THEN [degree EXCEPT ![t] = simd_degree(features[t])] ELSE degree
       /\ kernels' = [kernels EXCEPT ![t] = @ \cup
            (CASE call = "hash_many" -> {<<call, hash_many(features[t])>>}
               [] call = "compress" -> {<<call, compress(features[t])>>}
               [] OTHER -> {})]
  /\ calls' = [calls EXCEPT ![t] = Tail(@)]
  /\ features' = [features EXCEPT ![t] = UNDEFINED]
  /\ UNCHANGED <<cpu, g_cpu_features, missed>>

DispatchNext == \E t \in HashThreads : ReadCache(t) \/ StoreCache(t) \/ Dispatch(t)
DispatchSpec == DispatchInit /\ [][DispatchNext]_dispatchVars

-----------------------------------------------------------------------------
(* What the instructions of a kernel need of the processor and the system.  *)
Needs(k) ==
  CASE k = "avx512" -> [bits |-> {"AVX512F", "AVX512VL"}, states |-> YmmState \cup ZmmState]
    [] k = "avx2"   -> [bits |-> {"AVX2"}, states |-> YmmState]
    [] k = "sse41"  -> [bits |-> {"SSE41", "SSSE3"}, states |-> {}]
    [] OTHER        -> [bits |-> {}, states |-> {}]
KernelLanes(k) == CASE k = "avx512" -> 16 [] k = "avx2" -> 8 [] k \in {"sse41", "sse2"} -> 4 [] OTHER -> 1

(* Every kernel a worker runs is one the processor executes and whose        *)
(* registers the system saves, whoever filled the cache; and hash_many takes *)
(* the kernel as wide as the degree its subtree was laid out for.            *)
KernelsSupported ==
  \A t \in HashThreads : \A k \in kernels[t] :
    /\ Needs(k[2]).bits \subseteq cpu.bits
    /\ Needs(k[2]).states # {} => "OSXSAVE" \in cpu.bits /\ Needs(k[2]).states \subseteq cpu.xcr0
    /\ k[1] = "hash_many" => KernelLanes(k[2]) = degree[t]
=============================================================================
