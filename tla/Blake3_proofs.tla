---------------------------- MODULE Blake3_proofs ----------------------------
(***************************************************************************)
(* The hasher computes the tree hash, for every message up to MaxMessage,  *)
(* every way to cut it into updates, every width of the vectors, every     *)
(* mode and window, and every compression function.                        *)
(*                                                                         *)
(* HasherInv is inductive.  It says which part of the tree each piece of   *)
(* the state is: the chunk state is that of the bytes taken in since the   *)
(* last whole chunk (ChunkAt), and the stack has a value for every bit of  *)
(* the number q of whole chunks (CoversFrom), or is one subtree short of   *)
(* being merged so (OnTop).  t[d][i] is the chaining value of subtree i of *)
(* 2^d chunks, and the proof has a part for each way to come by one:       *)
(* merging two (MergeCovers), hashing a chunk block by block (ChunkUpdate, *)
(* ChunkOutput) or in lanes (HashChunkIs), and hashing a subtree as wide   *)
(* as the CPU allows (PairIs).  The root follows by going down the stack,  *)
(* each value being the left side of the parent over all that follows it   *)
(* (Climb, RootIs).                                                        *)
(*                                                                         *)
(* A recursive function is defined by CHOOSE: for each there is a ...Chain *)
(* that its body describes, shown to exist, and a lemma with its values.   *)
(***************************************************************************)
EXTENDS Blake3, Numbers, SequenceTheorems

(* A set with 0 that has 2n and 2n + 1 with n has every number. *)
LEMMA AllBinary ==
  ASSUME NEW Set, 0 \in Set, \A n \in Nat : n \in Set => 2 * n \in Set /\ 2 * n + 1 \in Set
  PROVE  Nat \subseteq Set
<1> DEFINE T == {n \in Nat : n \notin Set}
<1> SUFFICES ASSUME T # {} PROVE FALSE
  OBVIOUS
<1>1. PICK least \in T : \A k \in T : least <= k
  BY LeastOf
<1>2. PICK n \in Nat, b \in 0 .. 1 : least = 2 * n + b
  <2>1. least \div 2 \in Nat /\ least % 2 \in 0 .. 1 /\ least = 2 * (least \div 2) + (least % 2)
    OBVIOUS
  <2> QED
    BY <2>1
<1>3. least # 0 /\ n < least
  BY <1>1, <1>2
<1>4. n \in Set
  BY <1>1, <1>3
<1>5. CASE b = 0
  BY <1>1, <1>2, <1>4, <1>5
<1>6. CASE b = 1
  BY <1>1, <1>2, <1>4, <1>6
<1> QED
  BY <1>2, <1>5, <1>6

-----------------------------------------------------------------------------
(* The powers of two, which the prover does not know. *)
Two == [k \in 0 .. SizeBits |-> 2^k]

(* Each is twice the one before; MAX_DEPTH is less than the bits of a size. *)
LEMMA TwoIs ==
  /\ SizeBits \in Nat /\ MAX_DEPTH \in Nat /\ MAX_DEPTH < SizeBits
  /\ PowersOf(2, SizeBits, Two)
  /\ Two[0] = 1
  /\ \A k \in 0 .. SizeBits : 2^k = Two[k] /\ Two[k] \in Nat \ {0}
  /\ \A k \in 0 .. SizeBits - 1 : Two[k + 1] = 2 * Two[k]
<1>1. SizeBits \in Nat /\ MAX_DEPTH \in Nat /\ MAX_DEPTH < SizeBits
  BY LengthsAssumption
<1>2. PowersOf(2, SizeBits, Two)
  <2>1. 2^0 = 1
    OBVIOUS
  <2>2. \A k \in 0 .. SizeBits : 2^k \in Nat
    BY LengthsAssumption
  <2>3. \A k \in 0 .. SizeBits - 1 : 2^(k + 1) = 2 * 2^k
    BY LengthsAssumption
  <2> QED
    BY <1>1, <2>1, <2>2, <2>3, PowersAre DEF Two
<1>3. \A k \in 0 .. SizeBits : 2^k = Two[k]
  BY DEF Two
<1>4. \A k \in 0 .. SizeBits : Two[k] \in Nat \ {0}
  BY <1>1, <1>2, PowersPositive
<1> QED
  BY <1>1, <1>2, <1>3, <1>4 DEF PowersOf

(* A number less than the divisor. *)
LEMMA DivSmall ==
  ASSUME NEW M \in Nat \ {0}, NEW a \in 0 .. M - 1
  PROVE  a \div M = 0
<1>1. PICK q \in Nat : q = 0
  OBVIOUS
<1>2. a = M * q + a
  BY <1>1
<1>3. a \div M = q
  BY <1>2, DivMod
<1> QED
  BY <1>1, <1>3

(* The number of ones of a number, a bit at a time. *)
OnesChain(x, n, f) ==
  f = [k \in 0 .. n |-> IF k = 0 THEN 0 ELSE f[k - 1] + ((x \div 2^(k - 1)) % 2)]

(* The recursive function in popcnt is a function. *)
LEMMA OnesChainExists ==
  ASSUME NEW x, NEW n \in Nat
  PROVE  \E f : OnesChain(x, n, f)
<1> DEFINE Bit(k) == (x \div 2^(k - 1)) % 2
           Set == {m \in Nat : \E f : f = [k \in 0 .. m |-> IF k = 0 THEN 0 ELSE f[k - 1] + Bit(k)]}
<1> HIDE DEF Bit
<1>1. 0 \in Set
  <2>1. PICK f : f = [k \in 0 .. 0 |-> 0]
    OBVIOUS
  <2>2. f = [k \in 0 .. 0 |-> IF k = 0 THEN 0 ELSE f[k - 1] + Bit(k)]
    BY <2>1
  <2> QED
    BY <2>2
<1>2. ASSUME NEW m \in Nat, m \in Set PROVE m + 1 \in Set
  <2>1. PICK f : f = [k \in 0 .. m |-> IF k = 0 THEN 0 ELSE f[k - 1] + Bit(k)]
    BY <1>2
  <2>2. PICK h : h = [k \in 0 .. m + 1 |-> IF k = 0 THEN 0 ELSE f[k - 1] + Bit(k)]
    OBVIOUS
  <2>3. \A k \in 0 .. m : h[k] = f[k]
    BY <2>1, <2>2
  <2>4. \A k \in 0 .. m + 1 : k # 0 => k - 1 \in 0 .. m
    OBVIOUS
  <2>5. h = [k \in 0 .. m + 1 |-> IF k = 0 THEN 0 ELSE h[k - 1] + Bit(k)]
    BY <2>2, <2>3, <2>4
  <2> QED
    BY <2>5
<1> HIDE DEF Set
<1>3. Nat \subseteq Set
  BY <1>1, <1>2, AllNumbers
<1> QED
  BY <1>3 DEF Set, Bit, OnesChain

(* popcnt counts the bits from the lowest on. *)
LEMMA PopcntChain ==
  ASSUME NEW x \in Nat
  PROVE  \E f : /\ popcnt(x) = f[SizeBits] /\ f[0] = 0
                /\ \A k \in 0 .. SizeBits - 1 :
                     f[k] \in Nat /\ f[k + 1] \in Nat /\ f[k + 1] = f[k] + ((x \div Two[k]) % 2)
<1>1. PICK f : f = CHOOSE u : OnesChain(x, SizeBits, u)
  OBVIOUS
<1>2. OnesChain(x, SizeBits, f)
  BY <1>1, OnesChainExists, TwoIs
<1>3. popcnt(x) = f[SizeBits]
  BY <1>1 DEF popcnt, OnesChain
<1>4. \A k \in 0 .. SizeBits - 1 : f[k + 1] = f[k] + ((x \div Two[k]) % 2)
  <2> TAKE k \in 0 .. SizeBits - 1
  <2>1. PICK j : j = k + 1
    OBVIOUS
  <2>2. j \in 0 .. SizeBits /\ j # 0 /\ j - 1 = k /\ k \in 0 .. SizeBits
    BY <2>1, TwoIs
  <2>3. f[j] = f[j - 1] + ((x \div 2^(j - 1)) % 2)
    BY <1>2, <2>2 DEF OnesChain
  <2> QED
    BY <2>1, <2>2, <2>3, TwoIs
<1>5. f[0] = 0
  BY <1>2, TwoIs DEF OnesChain
<1>6. \A k \in 0 .. SizeBits : (x \div Two[k]) % 2 \in Nat
  <2> TAKE k \in 0 .. SizeBits
  <2>1. Two[k] \in Nat \ {0}
    BY TwoIs
  <2>2. x \div Two[k] \in Nat
    BY <2>1, DivModIn
  <2> QED
    BY <2>2
<1> DEFINE Set == {k \in Nat : k <= SizeBits => f[k] \in Nat}
<1>7. 0 \in Set
  BY <1>5
<1>8. ASSUME NEW k \in Nat, k \in Set PROVE k + 1 \in Set
  BY <1>4, <1>6, <1>8, TwoIs
<1> HIDE DEF Set
<1>9. Nat \subseteq Set
  BY <1>7, <1>8, AllNumbers
<1>10. \A k \in 0 .. SizeBits : f[k] \in Nat
  BY <1>9, TwoIs DEF Set
<1>11. \A k \in 0 .. SizeBits - 1 : k \in 0 .. SizeBits /\ k + 1 \in 0 .. SizeBits
  BY TwoIs
<1> QED
  BY <1>3, <1>4, <1>5, <1>10, <1>11

(* popcnt is a number. *)
LEMMA PopcntType ==
  ASSUME NEW x \in Nat
  PROVE  popcnt(x) \in Nat
<1>1. PICK f : /\ popcnt(x) = f[SizeBits] /\ f[0] = 0
                /\ \A k \in 0 .. SizeBits - 1 :
                     f[k] \in Nat /\ f[k + 1] \in Nat /\ f[k + 1] = f[k] + ((x \div Two[k]) % 2)
  BY PopcntChain
<1>2. SizeBits - 1 \in 0 .. SizeBits - 1 /\ (SizeBits - 1) + 1 = SizeBits
  BY TwoIs
<1> QED
  BY <1>1, <1>2

(* No bits in 0. *)
LEMMA PopcntZero == popcnt(0) = 0
<1>1. PICK f : /\ popcnt(0) = f[SizeBits] /\ f[0] = 0
                /\ \A k \in 0 .. SizeBits - 1 :
                     f[k] \in Nat /\ f[k + 1] \in Nat /\ f[k + 1] = f[k] + ((0 \div Two[k]) % 2)
  BY PopcntChain
<1> DEFINE Set == {k \in Nat : k <= SizeBits => f[k] = 0}
<1>2. 0 \in Set
  BY <1>1
<1>3. ASSUME NEW k \in Nat, k \in Set PROVE k + 1 \in Set
  <2> SUFFICES ASSUME k + 1 <= SizeBits PROVE f[k + 1] = 0
    OBVIOUS
  <2>1. k \in 0 .. SizeBits - 1 /\ k \in 0 .. SizeBits
    BY TwoIs
  <2>2. PICK d \in Nat \ {0} : d = Two[k]
    BY <2>1, TwoIs
  <2>4. 0 \div d = 0
    BY DivSmall
  <2>5. f[k] = 0
    BY <1>3, TwoIs
  <2>6. f[k + 1] = f[k] + ((0 \div d) % 2)
    BY <1>1, <2>1, <2>2
  <2> QED
    BY <2>4, <2>5, <2>6
<1> HIDE DEF Set
<1>4. Nat \subseteq Set
  BY <1>2, <1>3, AllNumbers
<1> QED
  BY <1>1, <1>4, TwoIs DEF Set

(* The last bit is counted, and then the rest. *)
LEMMA PopcntStep ==
  ASSUME NEW m \in Nat, NEW b \in 0 .. 1, 2 * m + b < Two[SizeBits]
  PROVE  popcnt(2 * m + b) = popcnt(m) + b
<1>x. PICK x \in Nat : x = 2 * m + b
  OBVIOUS
<1>1. PICK f : /\ popcnt(x) = f[SizeBits] /\ f[0] = 0
               /\ \A k \in 0 .. SizeBits - 1 :
                    f[k] \in Nat /\ f[k + 1] \in Nat /\ f[k + 1] = f[k] + ((x \div Two[k]) % 2)
  BY PopcntChain
<1>2. PICK g : /\ popcnt(m) = g[SizeBits] /\ g[0] = 0
               /\ \A k \in 0 .. SizeBits - 1 :
                    g[k] \in Nat /\ g[k + 1] \in Nat /\ g[k + 1] = g[k] + ((m \div Two[k]) % 2)
  BY PopcntChain
<1>3. x \div 2 = m /\ x % 2 = b
  BY <1>x
<1> DEFINE Set == {k \in Nat : k + 1 <= SizeBits => f[k + 1] = g[k] + b}
<1>4. 0 \in Set
  <2>1. 0 \in 0 .. SizeBits - 1
    BY TwoIs
  <2>2. f[0 + 1] = f[0] + ((x \div Two[0]) % 2)
    BY <1>1, <2>1
  <2>3. x \div Two[0] = x
    BY TwoIs
  <2> QED
    BY <1>1, <1>2, <1>3, <2>2, <2>3
<1>5. ASSUME NEW k \in Nat, k \in Set PROVE k + 1 \in Set
  <2> SUFFICES ASSUME (k + 1) + 1 <= SizeBits PROVE f[(k + 1) + 1] = g[k + 1] + b
    OBVIOUS
  <2>1. k + 1 \in 0 .. SizeBits - 1 /\ k \in 0 .. SizeBits - 1 /\ k \in 0 .. SizeBits /\ k + 1 <= SizeBits
    BY TwoIs
  <2>2. f[(k + 1) + 1] = f[k + 1] + ((x \div Two[k + 1]) % 2)
    BY <1>1, <2>1
  <2>3. g[k + 1] = g[k] + ((m \div Two[k]) % 2) /\ g[k] \in Nat
    BY <1>2, <2>1
  <2>4. x \div Two[k + 1] = m \div Two[k]
    <3>1. PICK d \in Nat \ {0}, e \in Nat \ {0} : d = Two[k] /\ e = Two[k + 1] /\ e = 2 * d
      BY <2>1, TwoIs
    <3>2. (x \div 2) \div d = x \div e
      BY <3>1, DivDiv
    <3> QED
      BY <1>3, <3>1, <3>2
  <2>5. (m \div Two[k]) % 2 \in Nat
    <3>1. PICK d \in Nat \ {0} : d = Two[k]
      BY <2>1, TwoIs
    <3>2. m \div d \in Nat
      BY DivModIn, <3>1
    <3> QED
      BY <3>1, <3>2
  <2> QED
    BY <1>5, <2>1, <2>2, <2>3, <2>4, <2>5
<1> HIDE DEF Set
<1>6. Nat \subseteq Set
  BY <1>4, <1>5, AllNumbers
<1>7. PICK n \in Nat : n + 1 = SizeBits
  BY TwoIs
<1>8. f[n + 1] = g[n] + b
  BY <1>6, <1>7 DEF Set
<1>9. g[n + 1] = g[n] + ((m \div Two[n]) % 2) /\ g[n] \in Nat
  BY <1>2, <1>7
<1>10. m \div Two[n] = 0
  <2>1. PICK d \in Nat \ {0} : d = Two[n] /\ Two[n + 1] = 2 * d
    BY <1>7, TwoIs
  <2>2. m < d
    BY <1>7, <2>1
  <2>3. m \in 0 .. d - 1
    BY <2>2
  <2> QED
    BY <2>1, <2>3, DivSmall
<1> QED
  BY <1>x, <1>1, <1>2, <1>7, <1>8, <1>9, <1>10

(* A number below 2^n has at most n ones. *)
LEMMA PopcntBound ==
  ASSUME NEW n \in 0 .. SizeBits, NEW x \in Nat, x < Two[n]
  PROVE  popcnt(x) <= n
<1> DEFINE Set == {k \in Nat : k <= SizeBits => \A y \in Nat : y < Two[k] => popcnt(y) <= k}
<1>1. 0 \in Set
  BY TwoIs, PopcntZero
<1>2. ASSUME NEW k \in Nat, k \in Set PROVE k + 1 \in Set
  <2> SUFFICES ASSUME k + 1 <= SizeBits, NEW y \in Nat, y < Two[k + 1] PROVE popcnt(y) <= k + 1
    OBVIOUS
  <2>1. PICK m \in Nat, b \in 0 .. 1 : y = 2 * m + b
    <3>1. y \div 2 \in Nat /\ y % 2 \in 0 .. 1 /\ y = 2 * (y \div 2) + (y % 2)
      OBVIOUS
    <3> QED
      BY <3>1
  <2>2. PICK d \in Nat \ {0}, e \in Nat \ {0} : d = Two[k] /\ e = Two[k + 1] /\ e = 2 * d
    BY TwoIs
  <2>3. m < d
    BY <2>1, <2>2
  <2>4. popcnt(m) <= k
    <3>1. k <= SizeBits
      BY TwoIs
    <3> QED
      BY <1>2, <2>2, <2>3, <3>1
  <2>5. y < Two[SizeBits]
    <3>1. k + 1 \in 0 .. SizeBits /\ SizeBits \in 0 .. SizeBits
      BY TwoIs
    <3>2. Two[k + 1] <= Two[SizeBits] /\ Two[SizeBits] \in Nat
      BY <3>1, PowersGrow, TwoIs
    <3> QED
      BY <2>2, <3>2
  <2>6. popcnt(2 * m + b) = popcnt(m) + b
    BY <2>1, <2>5, PopcntStep
  <2> QED
    BY <2>1, <2>4, <2>6, PopcntType
<1> HIDE DEF Set
<1>3. Nat \subseteq Set
  BY <1>1, <1>2, AllNumbers
<1> QED
  BY <1>3 DEF Set

(* A number other than 0 has a one, and at most one more than the number     *)
(* before it.                                                                *)
LEMMA PopcntPred ==
  ASSUME NEW x \in Nat \ {0}, x < Two[SizeBits]
  PROVE  popcnt(x) >= 1 /\ popcnt(x) <= popcnt(x - 1) + 1
<1> DEFINE P(y) == popcnt(y) >= 1 /\ popcnt(y) <= popcnt(y - 1) + 1
           Set == {y \in Nat : y # 0 /\ y < Two[SizeBits] => P(y)}
<1>0. PICK N \in Nat \ {0} : N = Two[SizeBits]
  BY TwoIs
<1>1. 0 \in Set
  OBVIOUS
<1>2. ASSUME NEW m \in Nat, m \in Set PROVE 2 * m \in Set /\ 2 * m + 1 \in Set
  <2>1. ASSUME 2 * m # 0, 2 * m < N PROVE P(2 * m)
    <3>1. PICK j \in Nat : m = j + 1
      BY <2>1
    <3>2. P(m)
      BY <1>0, <1>2, <2>1
    <3>3. popcnt(2 * m + 0) = popcnt(m) + 0
      BY <1>0, <2>1, PopcntStep
    <3>4. popcnt(2 * j + 1) = popcnt(j) + 1
      BY <1>0, <2>1, <3>1, PopcntStep
    <3>5. 2 * m + 0 = 2 * m /\ 2 * m - 1 = 2 * j + 1 /\ m - 1 = j
      BY <3>1
    <3> QED
      BY <3>2, <3>3, <3>4, <3>5, PopcntType
  <2>2. ASSUME 2 * m + 1 < N PROVE P(2 * m + 1)
    <3>1. popcnt(2 * m + 1) = popcnt(m) + 1
      BY <1>0, <2>2, PopcntStep
    <3>2. popcnt(2 * m + 0) = popcnt(m) + 0
      BY <1>0, <2>2, PopcntStep
    <3>3. 2 * m + 0 = (2 * m + 1) - 1
      OBVIOUS
    <3> QED
      BY <3>1, <3>2, <3>3, PopcntType
  <2> QED
    BY <1>0, <2>1, <2>2
<1> HIDE DEF Set
<1>3. Nat \subseteq Set
  BY <1>1, <1>2, AllBinary
<1> QED
  BY <1>3 DEF Set

(* The bits above a place are among all the bits. *)
LEMMA PopcntAbove ==
  ASSUME NEW k \in 0 .. SizeBits, NEW x \in Nat, x < Two[SizeBits]
  PROVE  popcnt(x \div Two[k]) <= popcnt(x)
<1> DEFINE Set == {i \in Nat : i <= SizeBits => popcnt(x \div Two[i]) <= popcnt(x)}
<1>0. PICK N \in Nat \ {0} : N = Two[SizeBits]
  BY TwoIs
<1>1. 0 \in Set
  <2>1. x \div Two[0] = x
    BY TwoIs
  <2> QED
    BY <2>1, PopcntType
<1>2. ASSUME NEW i \in Nat, i \in Set PROVE i + 1 \in Set
  <2> SUFFICES ASSUME i + 1 <= SizeBits PROVE popcnt(x \div Two[i + 1]) <= popcnt(x)
    OBVIOUS
  <2>1. PICK d \in Nat \ {0}, e \in Nat \ {0} : d = Two[i] /\ e = Two[i + 1] /\ e = d * 2
    BY TwoIs
  <2>2. PICK y \in Nat : y = x \div d /\ y <= x
    <3>0. x \div d \in Nat /\ x % d \in 0 .. d - 1 /\ x = d * (x \div d) + (x % d)
      BY DivModIn
    <3>1. x \div d \in Nat /\ x % d \in Nat /\ x = d * (x \div d) + (x % d)
      BY <3>0
    <3>2. PICK q \in Nat, t \in Nat : q = x \div d /\ t = x % d
      BY <3>1
    <3>3. q <= d * q
      OBVIOUS
    <3> QED
      BY <3>1, <3>2, <3>3
  <2>3. x \div e = y \div 2
    BY <2>1, <2>2, DivDiv
  <2>4. PICK m \in Nat, b \in 0 .. 1 : y = 2 * m + b /\ m = y \div 2
    <3>1. y \div 2 \in Nat /\ y % 2 \in 0 .. 1 /\ y = 2 * (y \div 2) + (y % 2)
      OBVIOUS
    <3> QED
      BY <3>1
  <2>5. popcnt(y) = popcnt(m) + b
    <3>1. 2 * m + b < Two[SizeBits]
      BY <1>0, <2>2, <2>4
    <3> QED
      BY <2>4, <3>1, PopcntStep
  <2>6. popcnt(y) <= popcnt(x)
    <3>1. i <= SizeBits
      BY TwoIs
    <3> QED
      BY <1>2, <2>1, <2>2, <3>1
  <2> QED
    BY <2>1, <2>3, <2>4, <2>5, <2>6, PopcntType
<1> HIDE DEF Set
<1>3. Nat \subseteq Set
  BY <1>1, <1>2, AllNumbers
<1> QED
  BY <1>3 DEF Set

(* Above its last bit a number is its half. *)
LEMMA HalfAbove ==
  ASSUME NEW m \in Nat, NEW b \in 0 .. 1, NEW k \in 0 .. SizeBits - 1
  PROVE  (2 * m + b) \div Two[k + 1] = m \div Two[k]
<1>1. PICK d \in Nat \ {0}, e \in Nat \ {0} : d = Two[k] /\ e = Two[k + 1] /\ e = 2 * d
  BY TwoIs
<1>2. PICK x \in Nat : x = 2 * m + b
  OBVIOUS
<1>3. (x \div 2) \div d = x \div e
  BY <1>1, DivDiv
<1>4. x \div 2 = m
  BY <1>2
<1> QED
  BY <1>1, <1>2, <1>3, <1>4

-----------------------------------------------------------------------------
(* Stacks, for any t that has the ith value of the subtrees of 2^k chunks at *)
(* t[k][i].  The stack of m subtrees of 2^s chunks has a value for every bit *)
(* of m.                                                                     *)
Values(t) == UNION {{t[k][i] : i \in Nat} : k \in 0 .. MAX_DEPTH}

(* Bit k of m has its value in st: the subtree of 2^(s + k) chunks that ends *)
(* there. *)
BitHeld(t, st, s, m, k) ==
  (m \div Two[k]) % 2 = 1 => st[popcnt(m \div Two[k])] = t[s + k][(m \div Two[k]) - 1]

(* st has the values of m subtrees of 2^s chunks, one for every bit of m. *)
CoversFrom(t, st, s, m) ==
  /\ st \in Seq(Values(t)) /\ Len(st) = popcnt(m)
  /\ \A k \in 0 .. MAX_DEPTH : s + k <= MAX_DEPTH => BitHeld(t, st, s, m, k)

(* Doubling the number moves its bits up by one. *)
LEMMA BitHeldHalf ==
  ASSUME NEW t, NEW st, NEW s \in Nat, NEW m \in Nat, NEW b \in 0 .. 1, NEW k \in 0 .. MAX_DEPTH
  PROVE  BitHeld(t, st, s, 2 * m + b, k + 1) <=> BitHeld(t, st, s + 1, m, k)
<1>1. k \in 0 .. SizeBits - 1
  BY TwoIs
<1>2. (2 * m + b) \div Two[k + 1] = m \div Two[k]
  BY <1>1, HalfAbove
<1>3. s + (k + 1) = (s + 1) + k
  OBVIOUS
<1> QED
  BY <1>2, <1>3 DEF BitHeld

(* An even number of subtrees is half as many of the next size. *)
LEMMA CoversEven ==
  ASSUME NEW t, NEW st, NEW s \in Nat, NEW m \in Nat, 2 * m < Two[SizeBits]
  PROVE  CoversFrom(t, st, s, 2 * m) <=> CoversFrom(t, st, s + 1, m)
<1>1. popcnt(2 * m) = popcnt(m)
  <2>1. 2 * m + 0 = 2 * m /\ 0 \in 0 .. 1
    OBVIOUS
  <2>2. popcnt(2 * m + 0) = popcnt(m) + 0
    BY <2>1, PopcntStep
  <2> QED
    BY <2>1, <2>2, PopcntType
<1>2. \A k \in 0 .. MAX_DEPTH : BitHeld(t, st, s, 2 * m, k + 1) <=> BitHeld(t, st, s + 1, m, k)
  <2> TAKE k \in 0 .. MAX_DEPTH
  <2>1. 2 * m + 0 = 2 * m /\ 0 \in 0 .. 1
    OBVIOUS
  <2>2. BitHeld(t, st, s, 2 * m + 0, k + 1) <=> BitHeld(t, st, s + 1, m, k)
    BY BitHeldHalf
  <2> QED
    BY <2>1, <2>2
<1>3. BitHeld(t, st, s, 2 * m, 0)
  <2>1. (2 * m) \div Two[0] = 2 * m
    BY TwoIs
  <2>2. (2 * m) % 2 # 1
    OBVIOUS
  <2> QED
    BY <2>1, <2>2 DEF BitHeld
<1>4. ASSUME CoversFrom(t, st, s, 2 * m) PROVE CoversFrom(t, st, s + 1, m)
  <2>1. ASSUME NEW k \in 0 .. MAX_DEPTH, (s + 1) + k <= MAX_DEPTH PROVE BitHeld(t, st, s + 1, m, k)
    <3>1. k + 1 \in 0 .. MAX_DEPTH /\ s + (k + 1) <= MAX_DEPTH
      BY <2>1, TwoIs
    <3>2. BitHeld(t, st, s, 2 * m, k + 1)
      BY <1>4, <3>1 DEF CoversFrom
    <3> QED
      BY <1>2, <3>2
  <2> QED
    BY <1>1, <1>4, <2>1 DEF CoversFrom
<1>5. ASSUME CoversFrom(t, st, s + 1, m) PROVE CoversFrom(t, st, s, 2 * m)
  <2>1. ASSUME NEW k \in 0 .. MAX_DEPTH, s + k <= MAX_DEPTH PROVE BitHeld(t, st, s, 2 * m, k)
    <3>1. CASE k = 0
      BY <1>3, <3>1
    <3>2. CASE k # 0
      <4>1. PICK j \in 0 .. MAX_DEPTH : k = j + 1 /\ (s + 1) + j <= MAX_DEPTH
        <5>1. k - 1 \in 0 .. MAX_DEPTH /\ (s + 1) + (k - 1) <= MAX_DEPTH
          BY <2>1, <3>2, TwoIs
        <5> QED
          BY <5>1
      <4>2. BitHeld(t, st, s + 1, m, j)
        BY <1>5, <4>1 DEF CoversFrom
      <4> QED
        BY <1>2, <4>1, <4>2
    <3> QED
      BY <3>1, <3>2
  <2> QED
    BY <1>1, <1>5, <2>1 DEF CoversFrom
<1> QED
  BY <1>4, <1>5

(* Where the value of a bit is: among those of all the bits. *)
LEMMA BitPlace ==
  ASSUME NEW m \in Nat, m < Two[SizeBits], NEW k \in 0 .. MAX_DEPTH, (m \div Two[k]) % 2 = 1
  PROVE  popcnt(m \div Two[k]) \in 1 .. popcnt(m)
<1>0. k \in 0 .. SizeBits /\ SizeBits \in 0 .. SizeBits
  BY TwoIs
<1>1. PICK d \in Nat \ {0}, N \in Nat : d = Two[k] /\ N = Two[SizeBits]
  BY <1>0, TwoIs
<1>2. PICK y \in Nat : y = m \div d /\ y <= m
  <2>1. m \div d \in Nat /\ m % d \in 0 .. d - 1 /\ m = d * (m \div d) + (m % d)
    BY DivModIn
  <2>2. PICK q \in Nat, r \in Nat : q = m \div d /\ r = m % d
    BY <2>1
  <2>3. q <= d * q
    OBVIOUS
  <2> QED
    BY <2>1, <2>2, <2>3
<1>3. y % 2 = 1
  BY <1>1, <1>2
<1>4. y # 0 /\ y < N
  BY <1>1, <1>2, <1>3
<1>5. popcnt(y) >= 1
  BY <1>1, <1>4, PopcntPred
<1>6. popcnt(m \div Two[k]) <= popcnt(m)
  BY <1>0, PopcntAbove
<1> QED
  BY <1>1, <1>2, <1>5, <1>6, PopcntType

(* An odd number: the last value is the last subtree, and the rest is of the *)
(* next size. *)
LEMMA CoversSplit ==
  ASSUME NEW t, NEW st, NEW s \in Nat, s <= MAX_DEPTH, NEW m \in Nat, 2 * m + 1 < Two[SizeBits],
         CoversFrom(t, st, s, 2 * m + 1)
  PROVE  /\ Len(st) \in Nat \ {0} /\ st[Len(st)] = t[s][2 * m]
         /\ CoversFrom(t, SubSeq(st, 1, Len(st) - 1), s + 1, m)
<1>1. popcnt(2 * m + 1) = popcnt(m) + 1 /\ popcnt(m) \in Nat
  BY PopcntStep, PopcntType
<1>2. st \in Seq(Values(t)) /\ Len(st) = popcnt(m) + 1
  BY <1>1 DEF CoversFrom
<1>3. st[Len(st)] = t[s][2 * m]
  <2>1. 0 \in 0 .. MAX_DEPTH /\ s + 0 <= MAX_DEPTH /\ s + 0 = s
    BY TwoIs
  <2>2. BitHeld(t, st, s, 2 * m + 1, 0)
    BY <2>1 DEF CoversFrom
  <2>3. (2 * m + 1) \div Two[0] = 2 * m + 1
    BY TwoIs
  <2>4. (2 * m + 1) % 2 = 1 /\ (2 * m + 1) - 1 = 2 * m
    OBVIOUS
  <2> QED
    BY <1>1, <1>2, <2>1, <2>2, <2>3, <2>4 DEF BitHeld
<1>4. PICK f : f = SubSeq(st, 1, Len(st) - 1)
  OBVIOUS
<1>5. f \in Seq(Values(t)) /\ Len(f) = popcnt(m) /\ \A i \in 1 .. popcnt(m) : f[i] = st[i]
  BY <1>1, <1>2, <1>4
<1>6. ASSUME NEW k \in 0 .. MAX_DEPTH, (s + 1) + k <= MAX_DEPTH PROVE BitHeld(t, f, s + 1, m, k)
  <2>1. k + 1 \in 0 .. MAX_DEPTH /\ s + (k + 1) <= MAX_DEPTH
    BY <1>6, TwoIs
  <2>2. BitHeld(t, st, s, 2 * m + 1, k + 1)
    BY <2>1 DEF CoversFrom
  <2>3. BitHeld(t, st, s + 1, m, k)
    BY <2>2, BitHeldHalf
  <2>4. m < Two[SizeBits]
    BY TwoIs
  <2>5. (m \div Two[k]) % 2 = 1 => f[popcnt(m \div Two[k])] = st[popcnt(m \div Two[k])]
    BY <1>5, <2>4, BitPlace
  <2> QED
    BY <2>3, <2>5 DEF BitHeld
<1> QED
  BY <1>1, <1>2, <1>3, <1>4, <1>5, <1>6 DEF CoversFrom

(* And back: the last subtree makes an odd number of an even one. *)
LEMMA CoversJoin ==
  ASSUME NEW t, NEW f, NEW s \in Nat, s <= MAX_DEPTH, NEW m \in Nat, 2 * m + 1 < Two[SizeBits],
         CoversFrom(t, f, s + 1, m)
  PROVE  CoversFrom(t, Append(f, t[s][2 * m]), s, 2 * m + 1)
<1>1. popcnt(2 * m + 1) = popcnt(m) + 1 /\ popcnt(m) \in Nat
  BY PopcntStep, PopcntType
<1>2. f \in Seq(Values(t)) /\ Len(f) = popcnt(m)
  BY DEF CoversFrom
<1>3. t[s][2 * m] \in Values(t)
  <2>1. s \in 0 .. MAX_DEPTH /\ 2 * m \in Nat
    BY TwoIs
  <2> QED
    BY <2>1 DEF Values
<1>4. PICK st : st = Append(f, t[s][2 * m])
  OBVIOUS
<1>5. /\ st \in Seq(Values(t)) /\ Len(st) = popcnt(m) + 1
      /\ st[popcnt(m) + 1] = t[s][2 * m]
      /\ \A i \in 1 .. popcnt(m) : st[i] = f[i]
  BY <1>1, <1>2, <1>3, <1>4
<1>6. ASSUME NEW k \in 0 .. MAX_DEPTH, s + k <= MAX_DEPTH PROVE BitHeld(t, st, s, 2 * m + 1, k)
  <2>1. CASE k = 0
    <3>1. (2 * m + 1) \div Two[0] = 2 * m + 1
      BY TwoIs
    <3>2. (2 * m + 1) - 1 = 2 * m /\ s + 0 = s
      OBVIOUS
    <3> QED
      BY <1>1, <1>5, <2>1, <3>1, <3>2 DEF BitHeld
  <2>2. CASE k # 0
    <3>1. PICK j \in 0 .. MAX_DEPTH : k = j + 1 /\ (s + 1) + j <= MAX_DEPTH
      <4>1. k - 1 \in 0 .. MAX_DEPTH /\ (s + 1) + (k - 1) <= MAX_DEPTH
        BY <1>6, <2>2, TwoIs
      <4> QED
        BY <4>1
    <3>2. BitHeld(t, f, s + 1, m, j)
      BY <3>1 DEF CoversFrom
    <3>3. m < Two[SizeBits]
      BY TwoIs
    <3>4. (m \div Two[j]) % 2 = 1 => f[popcnt(m \div Two[j])] = st[popcnt(m \div Two[j])]
      BY <1>5, <3>3, BitPlace
    <3>5. BitHeld(t, st, s + 1, m, j)
      BY <3>2, <3>4 DEF BitHeld
    <3>6. BitHeld(t, st, s, 2 * m + 1, j + 1)
      BY <3>5, BitHeldHalf
    <3> QED
      BY <3>1, <3>6
  <2> QED
    BY <2>1, <2>2
<1> QED
  BY <1>1, <1>4, <1>5, <1>6 DEF CoversFrom

(* The first n elements. *)
LEMMA FirstOf ==
  ASSUME NEW V, NEW st \in Seq(V), NEW n \in 0 .. Len(st)
  PROVE  /\ SubSeq(st, 1, n) \in Seq(V) /\ Len(SubSeq(st, 1, n)) = n
         /\ \A i \in 1 .. n : SubSeq(st, 1, n)[i] = st[i]
<1>1. SubSeq(st, 1, n) = [i \in 1 .. n |-> st[i]]
  BY SubSeqProperties
<1>2. \A i \in 1 .. n : st[i] \in V
  OBVIOUS
<1> QED
  BY <1>1, <1>2

(* Subtrees of 2^s chunks are subtrees of one chunk. *)
LEMMA DepthFits ==
  Two[MAX_DEPTH] \in Nat \ {0} /\ Two[SizeBits] \in Nat \ {0} /\ Two[MAX_DEPTH] < Two[SizeBits]
<1>1. MAX_DEPTH \in 0 .. SizeBits - 1 /\ MAX_DEPTH \in 0 .. SizeBits /\ MAX_DEPTH + 1 \in 0 .. SizeBits
      /\ SizeBits \in 0 .. SizeBits /\ MAX_DEPTH + 1 <= SizeBits
  BY TwoIs
<1>2. PICK d \in Nat \ {0}, e \in Nat \ {0}, N \in Nat \ {0} :
        d = Two[MAX_DEPTH] /\ e = Two[MAX_DEPTH + 1] /\ N = Two[SizeBits] /\ e = 2 * d
  BY <1>1, TwoIs
<1>3. Two[MAX_DEPTH + 1] <= Two[SizeBits]
  BY <1>1, PowersGrow, TwoIs
<1> QED
  BY <1>2, <1>3

(* m subtrees of 2^s chunks are 2^s * m chunks. *)
LEMMA CoversShift ==
  ASSUME NEW t, NEW st, NEW s \in 0 .. MAX_DEPTH, NEW m \in Nat, Two[s] * m <= Two[MAX_DEPTH]
  PROVE  /\ CoversFrom(t, st, 0, Two[s] * m) <=> CoversFrom(t, st, s, m)
         /\ popcnt(Two[s] * m) = popcnt(m)
<1>0. PICK N \in Nat, D \in Nat : N = Two[SizeBits] /\ D = Two[MAX_DEPTH] /\ D < N
  BY DepthFits
<1> DEFINE Same(k, x) == /\ CoversFrom(t, st, 0, Two[k] * x) <=> CoversFrom(t, st, k, x)
                         /\ popcnt(Two[k] * x) = popcnt(x)
           Set == {k \in Nat : k <= MAX_DEPTH => \A x \in Nat : Two[k] * x <= D => Same(k, x)}
<1>1. 0 \in Set
  BY TwoIs
<1>2. ASSUME NEW k \in Nat, k \in Set PROVE k + 1 \in Set
  <2> SUFFICES ASSUME k + 1 <= MAX_DEPTH, NEW x \in Nat, Two[k + 1] * x <= D PROVE Same(k + 1, x)
    OBVIOUS
  <2>1. PICK d \in Nat \ {0}, e \in Nat \ {0} : d = Two[k] /\ e = Two[k + 1] /\ e = 2 * d
    BY TwoIs
  <2>2. PICK y \in Nat : y = 2 * x
    OBVIOUS
  <2>3. d * y = e * x
    BY <2>1, <2>2
  <2>4. y <= d * y
    OBVIOUS
  <2>5. d * y <= D /\ y < N
    <3>1. d * y \in Nat /\ e * x <= D
      BY <2>1
    <3> QED
      BY <1>0, <2>2, <2>3, <2>4, <3>1
  <2>6. k <= MAX_DEPTH
    BY TwoIs
  <2>7. Same(k, y)
    BY <1>2, <2>1, <2>5, <2>6
  <2>8. CoversFrom(t, st, k, 2 * x) <=> CoversFrom(t, st, k + 1, x)
    BY <1>0, <2>2, <2>5, CoversEven
  <2>9. popcnt(2 * x + 0) = popcnt(x) + 0
    BY <1>0, <2>2, <2>5, PopcntStep
  <2> QED
    BY <2>1, <2>2, <2>3, <2>7, <2>8, <2>9, PopcntType
<1> HIDE DEF Set
<1>3. Nat \subseteq Set
  BY <1>1, <1>2, AllNumbers
<1>4. s \in Nat /\ s <= MAX_DEPTH
  BY TwoIs
<1>5. \A x \in Nat : Two[s] * x <= D => Same(s, x)
  BY <1>3, <1>4 DEF Set
<1> QED
  BY <1>0, <1>5

-----------------------------------------------------------------------------
(* hasher_merge_cv_stack. *)
Joins(t) ==
  \A k \in 0 .. MAX_DEPTH - 1, i \in Nat : parent_cv(t[k][2 * i], t[k][2 * i + 1]) = t[k + 1][i]

(* m subtrees of 2^s chunks, the last of them on the stack of the others.    *)
OnTop(t, st, s, m) ==
  /\ st \in Seq(Values(t)) /\ Len(st) >= 1 /\ st[Len(st)] = t[s][m - 1]
  /\ CoversFrom(t, SubSeq(st, 1, Len(st) - 1), s, m - 1)

(* On top of an even number there is nothing to merge. *)
LEMMA OnTopOdd ==
  ASSUME NEW t, NEW st, NEW s \in 0 .. MAX_DEPTH, NEW x \in Nat, 2 * x + 1 < Two[SizeBits],
         OnTop(t, st, s, 2 * x + 1)
  PROVE  CoversFrom(t, st, s, 2 * x + 1)
<1>0. s \in Nat /\ s <= MAX_DEPTH /\ (2 * x + 1) - 1 = 2 * x /\ 2 * x < Two[SizeBits]
  BY TwoIs, DepthFits
<1>1. PICK f : f = SubSeq(st, 1, Len(st) - 1)
  OBVIOUS
<1>2. CoversFrom(t, f, s, 2 * x) /\ st[Len(st)] = t[s][2 * x]
  BY <1>0, <1>1 DEF OnTop
<1>3. CoversFrom(t, f, s + 1, x)
  BY <1>0, <1>2, CoversEven
<1>4. CoversFrom(t, Append(f, t[s][2 * x]), s, 2 * x + 1)
  BY <1>0, <1>3, CoversJoin
<1>5. st = Append(f, st[Len(st)])
  <2>1. st \in Seq(Values(t)) /\ Len(st) >= 1
    BY DEF OnTop
  <2> QED
    BY <1>1, <2>1
<1> QED
  BY <1>2, <1>4, <1>5

(* A turn of the loop of hasher_merge_cv_stack. *)
MergeTop(st) == Append(SubSeq(st, 1, Len(st) - 2), parent_cv(st[Len(st) - 1], st[Len(st)]))

(* On top of an odd number, the two at the top make one of the next size. *)
LEMMA OnTopEven ==
  ASSUME NEW t, Joins(t), NEW st, NEW s \in 0 .. MAX_DEPTH - 1, NEW x \in Nat \ {0}, 2 * x < Two[SizeBits],
         OnTop(t, st, s, 2 * x)
  PROVE  /\ OnTop(t, MergeTop(st), s + 1, x) /\ Len(MergeTop(st)) = Len(st) - 1
         /\ Len(st) > popcnt(2 * x)
<1>0. s \in Nat /\ s <= MAX_DEPTH
  BY TwoIs
<1>1. PICK y \in Nat : x = y + 1 /\ 2 * x - 1 = 2 * y + 1 /\ 2 * y + 1 < Two[SizeBits]
  <2>1. x - 1 \in Nat /\ x = (x - 1) + 1
    OBVIOUS
  <2> QED
    BY <2>1, DepthFits
<1>2. st \in Seq(Values(t)) /\ Len(st) >= 1 /\ st[Len(st)] = t[s][2 * y + 1]
  BY <1>1 DEF OnTop
<1>3. PICK f : f = SubSeq(st, 1, Len(st) - 1)
  OBVIOUS
<1>4. CoversFrom(t, f, s, 2 * y + 1)
  BY <1>1, <1>3 DEF OnTop
<1>5. Len(f) = Len(st) - 1 /\ f \in Seq(Values(t)) /\ \A i \in 1 .. Len(f) : f[i] = st[i]
  <2>1. Len(st) - 1 \in 0 .. Len(st)
    BY <1>2
  <2> QED
    BY <1>2, <1>3, <2>1, FirstOf
<1>6. /\ Len(f) \in Nat \ {0} /\ f[Len(f)] = t[s][2 * y]
      /\ CoversFrom(t, SubSeq(f, 1, Len(f) - 1), s + 1, y)
  BY <1>0, <1>1, <1>4, CoversSplit
<1>7. SubSeq(f, 1, Len(f) - 1) = SubSeq(st, 1, Len(st) - 2)
  BY <1>2, <1>3, <1>5, <1>6
<1>8. parent_cv(st[Len(st) - 1], st[Len(st)]) = t[s + 1][y]
  <2>1. st[Len(st) - 1] = t[s][2 * y]
    BY <1>2, <1>5, <1>6
  <2>2. parent_cv(t[s][2 * y], t[s][2 * y + 1]) = t[s + 1][y]
    BY DEF Joins
  <2> QED
    BY <1>2, <2>1, <2>2
<1>9. PICK g : g = SubSeq(st, 1, Len(st) - 2)
  OBVIOUS
<1>10. g \in Seq(Values(t)) /\ Len(g) = Len(st) - 2
  <2>1. Len(st) - 2 \in 0 .. Len(st)
    BY <1>2, <1>5, <1>6
  <2> QED
    BY <1>2, <1>9, <2>1, FirstOf
<1>11. t[s + 1][y] \in Values(t)
  <2>1. s + 1 \in 0 .. MAX_DEPTH
    BY TwoIs
  <2> QED
    BY <2>1 DEF Values
<1>12. MergeTop(st) = Append(g, t[s + 1][y])
  BY <1>8, <1>9 DEF MergeTop
<1>13. PICK h : h = Append(g, t[s + 1][y])
  OBVIOUS
<1>14. h \in Seq(Values(t)) /\ Len(h) = Len(st) - 1 /\ h[Len(h)] = t[s + 1][y] /\ SubSeq(h, 1, Len(h) - 1) = g
  BY <1>2, <1>5, <1>6, <1>10, <1>11, <1>13
<1>15. x - 1 = y
  BY <1>1
<1>16. OnTop(t, h, s + 1, x)
  <2>1. CoversFrom(t, SubSeq(h, 1, Len(h) - 1), s + 1, x - 1)
    BY <1>6, <1>7, <1>9, <1>14, <1>15
  <2>2. Len(h) >= 1
    BY <1>2, <1>5, <1>6, <1>14
  <2> QED
    BY <1>14, <1>15, <2>1, <2>2 DEF OnTop
<1>17. Len(st) > popcnt(2 * x)
  <2>1. Len(f) = popcnt(2 * y + 1)
    BY <1>4 DEF CoversFrom
  <2>2. popcnt(2 * x) <= popcnt(2 * x - 1) + 1
    <3>1. 2 * x \in Nat \ {0}
      OBVIOUS
    <3> QED
      BY <3>1, PopcntPred
  <2>3. popcnt(2 * y + 1) = popcnt(y) + 1 /\ popcnt(y) \in Nat
    BY <1>1, PopcntStep, PopcntType
  <2>4. popcnt(2 * x + 0) = popcnt(x) + 0 /\ popcnt(x) <= popcnt(y) + 1 /\ popcnt(x) \in Nat
    <3>1. x < Two[SizeBits] /\ 2 * x + 0 < Two[SizeBits]
      BY DepthFits
    <3> QED
      BY <1>15, <3>1, PopcntStep, PopcntPred, PopcntType
  <2>5. 2 * x + 0 = 2 * x
    OBVIOUS
  <2> QED
    BY <1>2, <1>5, <2>1, <2>3, <2>4, <2>5
<1> QED
  BY <1>12, <1>13, <1>14, <1>16, <1>17

MergeStep(st, total) == IF Len(st) <= popcnt(total) THEN st ELSE MergeTop(st)
MergeChain(stack, total, n, f) ==
  f = [k \in 0 .. n |-> IF k = 0 THEN stack ELSE MergeStep(f[k - 1], total)]

(* Such a chain exists. *)
LEMMA MergeChainExists ==
  ASSUME NEW stack, NEW total, NEW n \in Nat
  PROVE  \E f : MergeChain(stack, total, n, f)
<1> DEFINE Set == {m \in Nat : \E f : MergeChain(stack, total, m, f)}
<1>1. 0 \in Set
  <2>1. PICK f : f = [k \in 0 .. 0 |-> stack]
    OBVIOUS
  <2>2. f = [k \in 0 .. 0 |-> IF k = 0 THEN stack ELSE MergeStep(f[k - 1], total)]
    BY <2>1
  <2> QED
    BY <2>2 DEF MergeChain
<1>2. ASSUME NEW m \in Nat, m \in Set PROVE m + 1 \in Set
  <2>1. PICK f : f = [k \in 0 .. m |-> IF k = 0 THEN stack ELSE MergeStep(f[k - 1], total)]
    BY <1>2 DEF MergeChain
  <2>2. PICK h : h = [k \in 0 .. m + 1 |-> IF k = 0 THEN stack ELSE MergeStep(f[k - 1], total)]
    OBVIOUS
  <2>3. \A k \in 0 .. m : h[k] = f[k]
    BY <2>1, <2>2
  <2>4. \A k \in 0 .. m + 1 : k # 0 => k - 1 \in 0 .. m
    OBVIOUS
  <2>5. h = [k \in 0 .. m + 1 |-> IF k = 0 THEN stack ELSE MergeStep(h[k - 1], total)]
    BY <2>2, <2>3, <2>4
  <2> QED
    BY <2>5 DEF MergeChain
<1> HIDE DEF Set
<1>3. Nat \subseteq Set
  BY <1>1, <1>2, AllNumbers
<1> QED
  BY <1>3 DEF Set

(* hasher_merge_cv_stack, turn by turn. *)
LEMMA MergeIs ==
  ASSUME NEW stack, NEW total, Len(stack) \in Nat
  PROVE  \E f : /\ hasher_merge_cv_stack(stack, total) = f[Len(stack)] /\ f[0] = stack
                /\ \A k \in 0 .. Len(stack) - 1 : f[k + 1] = MergeStep(f[k], total)
<1>1. PICK f : f = CHOOSE u : MergeChain(stack, total, Len(stack), u)
  OBVIOUS
<1>2. MergeChain(stack, total, Len(stack), f)
  BY <1>1, MergeChainExists
<1>3. hasher_merge_cv_stack(stack, total) = f[Len(stack)]
  BY <1>1 DEF hasher_merge_cv_stack, MergeChain, MergeStep, MergeTop
<1>4. \A k \in 0 .. Len(stack) - 1 : f[k + 1] = MergeStep(f[k], total)
  <2> TAKE k \in 0 .. Len(stack) - 1
  <2>1. k + 1 \in 0 .. Len(stack) /\ k + 1 # 0 /\ (k + 1) - 1 = k
    OBVIOUS
  <2> QED
    BY <1>2, <2>1 DEF MergeChain
<1>5. f[0] = stack
  BY <1>2 DEF MergeChain
<1> QED
  BY <1>3, <1>4, <1>5

(* A stack with nothing to merge is left as it is. *)
LEMMA MergeNone ==
  ASSUME NEW stack, NEW total, Len(stack) \in Nat, Len(stack) <= popcnt(total)
  PROVE  hasher_merge_cv_stack(stack, total) = stack
<1>1. PICK f : /\ hasher_merge_cv_stack(stack, total) = f[Len(stack)] /\ f[0] = stack
                /\ \A k \in 0 .. Len(stack) - 1 : f[k + 1] = MergeStep(f[k], total)
  BY MergeIs
<1> DEFINE Set == {k \in Nat : k <= Len(stack) => f[k] = stack}
<1>2. 0 \in Set
  BY <1>1
<1>3. ASSUME NEW k \in Nat, k \in Set PROVE k + 1 \in Set
  BY <1>1, <1>3 DEF MergeStep
<1> HIDE DEF Set
<1>4. Nat \subseteq Set
  BY <1>2, <1>3, AllNumbers
<1> QED
  BY <1>1, <1>4 DEF Set

(* What was left on top is merged, until there is one value for every bit.   *)
LEMMA MergeCovers ==
  ASSUME NEW t, Joins(t), NEW st, NEW s \in 0 .. MAX_DEPTH, NEW m \in Nat \ {0}, NEW q \in Nat,
         q = Two[s] * m, q <= Two[MAX_DEPTH], OnTop(t, st, s, m)
  PROVE  CoversFrom(t, hasher_merge_cv_stack(st, q), 0, q)
<1>0. Len(st) \in Nat /\ Len(st) >= 1
  BY DEF OnTop
<1>1. PICK f : /\ hasher_merge_cv_stack(st, q) = f[Len(st)] /\ f[0] = st
               /\ \A k \in 0 .. Len(st) - 1 : f[k + 1] = MergeStep(f[k], q)
  BY <1>0, MergeIs
<1> DEFINE Form(g) == \E a \in 0 .. MAX_DEPTH, x \in Nat \ {0} : q = Two[a] * x /\ OnTop(t, g, a, x)
<1>2. ASSUME NEW g, Form(g)
      PROVE  /\ Len(g) \in Nat /\ Len(g) >= 1
             /\ Len(g) <= popcnt(q) => CoversFrom(t, g, 0, q)
             /\ Len(g) > popcnt(q) => Form(MergeTop(g)) /\ Len(MergeTop(g)) = Len(g) - 1
  <2>1. PICK a \in 0 .. MAX_DEPTH, x \in Nat \ {0} : q = Two[a] * x /\ OnTop(t, g, a, x)
    BY <1>2
  <2>2. Len(g) \in Nat /\ Len(g) >= 1
    BY <2>1 DEF OnTop
  <2>3. PICK d \in Nat \ {0}, N \in Nat \ {0}, D \in Nat \ {0} :
          d = Two[a] /\ N = Two[SizeBits] /\ D = Two[MAX_DEPTH] /\ D < N
    BY <2>1, TwoIs, DepthFits
  <2>4. x <= q /\ x < N
    <3>1. \A u, v \in Nat \ {0} : u <= v * u
      OBVIOUS
    <3>2. x <= d * x
      BY <3>1
    <3> QED
      BY <2>1, <2>3, <3>2
  <2>5. popcnt(q) = popcnt(x) /\ popcnt(q) \in Nat
    BY <2>1, CoversShift, PopcntType, ZenonT(60)
  <2>6. PICK y \in Nat, b \in 0 .. 1 : x = 2 * y + b
    <3>1. x \div 2 \in Nat /\ x % 2 \in 0 .. 1 /\ x = 2 * (x \div 2) + (x % 2)
      OBVIOUS
    <3> QED
      BY <3>1
  <2>7. CASE b = 1
    <3>1. CoversFrom(t, g, a, x)
      BY <2>1, <2>3, <2>4, <2>6, <2>7, OnTopOdd
    <3>2. Len(g) = popcnt(x)
      BY <3>1 DEF CoversFrom
    <3>3. CoversFrom(t, g, 0, q)
      BY <2>1, <3>1, CoversShift
    <3> QED
      BY <2>2, <2>5, <3>2, <3>3
  <2>8. CASE b = 0
    <3>1. x = 2 * y /\ y \in Nat \ {0}
      BY <2>6, <2>8
    <3>2. a < MAX_DEPTH
      <4> SUFFICES ASSUME a = MAX_DEPTH PROVE FALSE
        BY TwoIs
      <4>1. d = D /\ d * x <= D
        BY <2>1, <2>3
      <4>2. \A u \in Nat \ {0}, v \in Nat : u * (v + 2) > u
        OBVIOUS
      <4>3. PICK z \in Nat : x = z + 2
        <5>1. x - 2 \in Nat /\ x = (x - 2) + 2
          BY <3>1
        <5> QED
          BY <5>1
      <4>4. d * (z + 2) > d
        BY <4>2
      <4> QED
        BY <4>1, <4>3, <4>4
    <3>3. a \in 0 .. MAX_DEPTH - 1 /\ a + 1 \in 0 .. MAX_DEPTH
      BY <3>2, TwoIs
    <3>4. /\ OnTop(t, MergeTop(g), a + 1, y) /\ Len(MergeTop(g)) = Len(g) - 1
          /\ Len(g) > popcnt(x)
      BY <2>1, <2>3, <2>4, <3>1, <3>3, OnTopEven
    <3>5. q = Two[a + 1] * y
      <4>1. Two[a + 1] = 2 * d
        BY <2>3, <3>3, TwoIs
      <4>2. d * (2 * y) = (2 * d) * y
        OBVIOUS
      <4> QED
        BY <2>1, <2>3, <3>1, <4>1, <4>2
    <3> QED
      BY <2>2, <2>5, <3>1, <3>3, <3>4, <3>5
  <2> QED
    BY <2>6, <2>7, <2>8
<1>3. Form(st)
  OBVIOUS
<1> HIDE DEF Form
<1> DEFINE Good(g, k) == Form(g) /\ (Len(g) <= popcnt(q) \/ Len(g) + k <= Len(st))
           Set == {k \in Nat : k <= Len(st) => Good(f[k], k)}
<1>4. 0 \in Set
  BY <1>0, <1>1, <1>3
<1>5. ASSUME NEW k \in Nat, k \in Set PROVE k + 1 \in Set
  <2> SUFFICES ASSUME k + 1 <= Len(st) PROVE Good(f[k + 1], k + 1)
    <3> HIDE DEF Good
    <3> QED
      OBVIOUS
  <2>1. k \in 0 .. Len(st) - 1 /\ k <= Len(st)
    BY <1>0
  <2>g. PICK g, h : g = f[k] /\ h = f[k + 1]
    OBVIOUS
  <2>2. Good(g, k)
    <3> HIDE DEF Good
    <3> QED
      BY <1>5, <2>1, <2>g
  <2>3. h = MergeStep(g, q)
    BY <1>1, <2>1, <2>g
  <2>4. Len(g) \in Nat /\ popcnt(q) \in Nat
    BY <1>2, <2>2, PopcntType
  <2>5. CASE Len(g) <= popcnt(q)
    <3>1. h = g
      BY <2>3, <2>5 DEF MergeStep
    <3>2. Good(g, k + 1)
      BY <2>2, <2>5
    <3> QED
      BY <2>g, <3>1, <3>2
  <2>6. CASE Len(g) > popcnt(q)
    <3>1. h = MergeTop(g)
      BY <2>3, <2>4, <2>6 DEF MergeStep
    <3>2. Form(MergeTop(g)) /\ Len(MergeTop(g)) = Len(g) - 1
      BY <1>2, <2>2, <2>6
    <3>3. Len(g) + k <= Len(st)
      BY <2>2, <2>4, <2>6
    <3>4. Len(h) + (k + 1) <= Len(st)
      BY <1>0, <2>4, <3>1, <3>2, <3>3
    <3>5. Good(h, k + 1)
      BY <3>1, <3>2, <3>4
    <3> QED
      BY <2>g, <3>5
  <2>7. Len(g) <= popcnt(q) \/ Len(g) > popcnt(q)
    BY <2>4
  <2> HIDE DEF Good
  <2> QED
    BY <2>5, <2>6, <2>7
<1> HIDE DEF Set
<1>6. Nat \subseteq Set
  BY <1>4, <1>5, AllNumbers
<1>7. Form(f[Len(st)]) /\ (Len(f[Len(st)]) <= popcnt(q) \/ Len(f[Len(st)]) + Len(st) <= Len(st))
  BY <1>0, <1>6 DEF Set
<1>8. Len(f[Len(st)]) \in Nat /\ Len(f[Len(st)]) >= 1
  BY <1>2, <1>7
<1>9. Len(f[Len(st)]) <= popcnt(q)
  BY <1>0, <1>7, <1>8
<1> QED
  BY <1>1, <1>2, <1>7, <1>9

(* The stack of q chunks, whose last subtree may not be merged yet. *)
StackFor(t, st, q) ==
  \/ CoversFrom(t, st, 0, q)
  \/ \E s \in 0 .. MAX_DEPTH, m \in Nat \ {0} : q = Two[s] * m /\ OnTop(t, st, s, m)

(* Whatever waits, the merge leaves a value for every bit. *)
LEMMA MergeFor ==
  ASSUME NEW t, Joins(t), NEW st, NEW q \in Nat, q <= Two[MAX_DEPTH], StackFor(t, st, q)
  PROVE  CoversFrom(t, hasher_merge_cv_stack(st, q), 0, q)
<1>1. CASE CoversFrom(t, st, 0, q)
  <2>1. Len(st) = popcnt(q) /\ popcnt(q) \in Nat
    BY <1>1, PopcntType DEF CoversFrom
  <2> QED
    BY <1>1, <2>1, MergeNone
<1>2. CASE \E s \in 0 .. MAX_DEPTH, m \in Nat \ {0} : q = Two[s] * m /\ OnTop(t, st, s, m)
  BY <1>2, MergeCovers
<1> QED
  BY <1>1, <1>2 DEF StackFor

(* A subtree is put on the stack of the subtrees before it. *)
LEMMA PushFor ==
  ASSUME NEW t, Joins(t), NEW st, NEW s \in 0 .. MAX_DEPTH, NEW m \in Nat, NEW q \in Nat,
         q = Two[s] * m, q <= Two[MAX_DEPTH], StackFor(t, st, q)
  PROVE  OnTop(t, hasher_push_cv(st, t[s][m], q), s, m + 1)
<1>1. PICK g : g = hasher_merge_cv_stack(st, q)
  OBVIOUS
<1>2. CoversFrom(t, g, 0, q)
  BY <1>1, MergeFor
<1>3. CoversFrom(t, g, s, m)
  BY <1>2, CoversShift
<1>4. g \in Seq(Values(t))
  BY <1>3 DEF CoversFrom
<1>5. t[s][m] \in Values(t)
  BY DEF Values
<1>6. PICK h : h = Append(g, t[s][m])
  OBVIOUS
<1>7. h \in Seq(Values(t)) /\ Len(h) >= 1 /\ h[Len(h)] = t[s][m] /\ SubSeq(h, 1, Len(h) - 1) = g
  BY <1>4, <1>5, <1>6
<1>8. (m + 1) - 1 = m
  OBVIOUS
<1>9. OnTop(t, h, s, m + 1)
  BY <1>3, <1>7, <1>8 DEF OnTop
<1> QED
  BY <1>1, <1>6, <1>9 DEF hasher_push_cv

-----------------------------------------------------------------------------
(* The tree, a level at a time. *)
LEMMA Lengths1 ==
  /\ CHUNK_LEN \in Nat \ {0} /\ BLOCK_LEN \in Nat \ {0}
  /\ CHUNK_LEN \div BLOCK_LEN \in Nat \ {0} /\ CHUNK_LEN = BLOCK_LEN * (CHUNK_LEN \div BLOCK_LEN)
<1>1. BLOCK_LEN \in Nat \ {0} /\ CHUNK_LEN % BLOCK_LEN = 0
  BY LengthsAssumption
<1>2. CHUNK_LEN \in Nat \ {0}
  <2>1. PICK k \in 1 .. SizeBits : CHUNK_LEN = 2^k
    BY LengthsAssumption
  <2>2. k \in 0 .. SizeBits
    BY TwoIs
  <2>3. 2^k = Two[k] /\ Two[k] \in Nat \ {0}
    BY <2>2, TwoIs
  <2> QED
    BY <2>1, <2>3
<1>3. CHUNK_LEN \div BLOCK_LEN \in Nat /\ CHUNK_LEN = BLOCK_LEN * (CHUNK_LEN \div BLOCK_LEN) + (CHUNK_LEN % BLOCK_LEN)
  BY <1>1, <1>2, DivModIn
<1>4. PICK b \in Nat : b = CHUNK_LEN \div BLOCK_LEN
  BY <1>3
<1>5. CHUNK_LEN = BLOCK_LEN * b
  BY <1>1, <1>3, <1>4
<1>6. b # 0
  BY <1>1, <1>2, <1>5
<1> QED
  BY <1>1, <1>2, <1>4, <1>5, <1>6

TreeBody(k, fl, d, below) ==
  [from \in Nat |-> [n \in Nat |->
     IF d = 0 THEN Leaf(k, fl, from, n)
     ELSE LET l == CHUNK_LEN * 2^(d - 1)
          IN IF n <= l THEN below[from][n]
             ELSE Parent(k, fl, below[from][l], below[from + l][n - l])]]
TreeChain(k, fl, n, f) == f = [d \in 0 .. n |-> TreeBody(k, fl, d, f[d - 1])]

(* The lowest level does not look at the one below. *)
LEMMA TreeBodyZero ==
  ASSUME NEW k, NEW fl, NEW x, NEW y
  PROVE  TreeBody(k, fl, 0, x) = TreeBody(k, fl, 0, y)
  BY DEF TreeBody

(* Such a chain exists. *)
LEMMA TreeChainExists ==
  ASSUME NEW k, NEW fl, NEW n \in Nat
  PROVE  \E f : TreeChain(k, fl, n, f)
<1> DEFINE Set == {m \in Nat : \E f : TreeChain(k, fl, m, f)}
<1>1. 0 \in Set
  <2>1. PICK f : f = [d \in 0 .. 0 |-> TreeBody(k, fl, 0, 0)]
    OBVIOUS
  <2>2. \A d \in 0 .. 0 : TreeBody(k, fl, d, f[d - 1]) = TreeBody(k, fl, 0, 0)
    <3> TAKE d \in 0 .. 0
    <3>1. d = 0
      OBVIOUS
    <3> QED
      BY <3>1, TreeBodyZero
  <2>3. f = [d \in 0 .. 0 |-> TreeBody(k, fl, d, f[d - 1])]
    BY <2>1, <2>2
  <2> QED
    BY <2>3 DEF TreeChain
<1>2. ASSUME NEW m \in Nat, m \in Set PROVE m + 1 \in Set
  <2>1. PICK f : f = [d \in 0 .. m |-> TreeBody(k, fl, d, f[d - 1])]
    BY <1>2 DEF TreeChain
  <2>2. PICK h : h = [d \in 0 .. m + 1 |-> TreeBody(k, fl, d, f[d - 1])]
    OBVIOUS
  <2>3. \A d \in 0 .. m : h[d] = f[d]
    BY <2>1, <2>2
  <2>4. \A d \in 0 .. m + 1 : TreeBody(k, fl, d, f[d - 1]) = TreeBody(k, fl, d, h[d - 1])
    <3> TAKE d \in 0 .. m + 1
    <3>1. CASE d = 0
      BY <3>1, TreeBodyZero
    <3>2. CASE d # 0
      <4>1. d - 1 \in 0 .. m
        BY <3>2
      <4> QED
        BY <2>3, <4>1
    <3> QED
      BY <3>1, <3>2
  <2>5. h = [d \in 0 .. m + 1 |-> TreeBody(k, fl, d, h[d - 1])]
    BY <2>2, <2>4
  <2> QED
    BY <2>5 DEF TreeChain
<1> HIDE DEF Set
<1>3. Nat \subseteq Set
  BY <1>1, <1>2, AllNumbers
<1> QED
  BY <1>3 DEF Set

(* The tree, level by level. *)
LEMMA TreeLevels ==
  ASSUME NEW k, NEW fl
  PROVE  /\ \A from, n \in Nat : Tree(k, fl)[0][from][n] = Leaf(k, fl, from, n)
         /\ \A d \in 0 .. MAX_DEPTH - 1, from, n \in Nat :
              LET l == CHUNK_LEN * Two[d]
              IN Tree(k, fl)[d + 1][from][n] =
                   IF n <= l THEN Tree(k, fl)[d][from][n]
                   ELSE Parent(k, fl, Tree(k, fl)[d][from][l], Tree(k, fl)[d][from + l][n - l])
<1>1. PICK f : f = CHOOSE u : TreeChain(k, fl, MAX_DEPTH, u)
  OBVIOUS
<1>2. TreeChain(k, fl, MAX_DEPTH, f)
  BY <1>1, TreeChainExists, TwoIs
<1>3. Tree(k, fl) = f
  BY <1>1 DEF Tree, TreeChain, TreeBody
<1>4. \A from, n \in Nat : f[0][from][n] = Leaf(k, fl, from, n)
  <2>1. f[0] = TreeBody(k, fl, 0, f[0 - 1])
    <3>1. 0 \in 0 .. MAX_DEPTH
      BY TwoIs
    <3>2. f = [d \in 0 .. MAX_DEPTH |-> TreeBody(k, fl, d, f[d - 1])]
      BY <1>2 DEF TreeChain
    <3>3. \A d \in 0 .. MAX_DEPTH : f[d] = TreeBody(k, fl, d, f[d - 1])
      BY <3>2, Zenon
    <3> QED
      BY <3>1, <3>3, Zenon
  <2> QED
    BY <2>1 DEF TreeBody
<1>5. ASSUME NEW d \in 0 .. MAX_DEPTH - 1, NEW from \in Nat, NEW n \in Nat, NEW l, l = CHUNK_LEN * Two[d]
      PROVE  f[d + 1][from][n] =
               IF n <= l THEN f[d][from][n] ELSE Parent(k, fl, f[d][from][l], f[d][from + l][n - l])
  <2>1. PICK e : e = d + 1
    OBVIOUS
  <2>2. e \in 0 .. MAX_DEPTH /\ e # 0 /\ e - 1 = d /\ d \in 0 .. SizeBits
    BY <2>1, TwoIs
  <2>3. f[e] = TreeBody(k, fl, e, f[e - 1])
    BY <1>2, <2>2 DEF TreeChain
  <2>4. CHUNK_LEN * 2^(e - 1) = l
    BY <1>5, <2>2, TwoIs
  <2>5. f[e][from][n] = IF n <= CHUNK_LEN * 2^(e - 1) THEN f[e - 1][from][n]
                        ELSE Parent(k, fl, f[e - 1][from][CHUNK_LEN * 2^(e - 1)],
                                    f[e - 1][from + CHUNK_LEN * 2^(e - 1)][n - CHUNK_LEN * 2^(e - 1)])
    BY <2>2, <2>3 DEF TreeBody
  <2> QED
    BY <2>1, <2>2, <2>4, <2>5
<1> QED
  BY <1>3, <1>4, <1>5

(* The tree over n bytes; Node is this for the key and the flags of the *)
(* hasher. *)
NodeOf(k, fl, from, n) == Tree(k, fl)[MAX_DEPTH][from][n]

(* A level that is high enough is as good as the highest. *)
LEMMA TreeTop ==
  ASSUME NEW k, NEW fl, NEW d \in 0 .. MAX_DEPTH, NEW from \in Nat, NEW n \in Nat,
         n <= CHUNK_LEN * Two[d]
  PROVE  NodeOf(k, fl, from, n) = Tree(k, fl)[d][from][n]
<1>0. PICK f : f = Tree(k, fl)
  OBVIOUS
<1> DEFINE Set == {e \in Nat : d + e <= MAX_DEPTH => f[d + e][from][n] = f[d][from][n]}
<1>1. 0 \in Set
  OBVIOUS
<1>2. ASSUME NEW e \in Nat, e \in Set PROVE e + 1 \in Set
  <2> SUFFICES ASSUME d + (e + 1) <= MAX_DEPTH PROVE f[d + (e + 1)][from][n] = f[d][from][n]
    OBVIOUS
  <2>1. PICK c : c = d + e
    OBVIOUS
  <2>2. c \in 0 .. MAX_DEPTH - 1 /\ c + 1 = d + (e + 1) /\ d <= c /\ c \in 0 .. SizeBits /\ d \in 0 .. SizeBits
        /\ d + e <= MAX_DEPTH
    BY <2>1, TwoIs
  <2>3. Two[d] <= Two[c] /\ Two[d] \in Nat /\ Two[c] \in Nat
    BY <2>2, PowersGrow, TwoIs
  <2>4. n <= CHUNK_LEN * Two[c]
    <3>1. \A x, y \in Nat, z \in Nat : x <= y => z * x <= z * y
      OBVIOUS
    <3>2. PICK x \in Nat, y \in Nat : x = CHUNK_LEN * Two[d] /\ y = CHUNK_LEN * Two[c]
      BY <2>3, Lengths1
    <3>3. CHUNK_LEN * Two[d] <= CHUNK_LEN * Two[c]
      BY <2>3, <3>1, Lengths1
    <3> QED
      BY <3>2, <3>3
  <2>5. f[c + 1][from][n] = f[c][from][n]
    BY <1>0, <2>2, <2>4, TreeLevels
  <2> QED
    BY <1>2, <2>1, <2>2, <2>5
<1> HIDE DEF Set
<1>3. Nat \subseteq Set
  BY <1>1, <1>2, AllNumbers
<1>4. PICK e \in Nat : d + e = MAX_DEPTH
  <2>1. MAX_DEPTH - d \in Nat /\ d + (MAX_DEPTH - d) = MAX_DEPTH
    BY TwoIs
  <2> QED
    BY <2>1
<1>5. f[d + e][from][n] = f[d][from][n]
  <2>1. d + e <= MAX_DEPTH
    BY <1>4, TwoIs
  <2> QED
    BY <1>3, <2>1 DEF Set
<1> QED
  BY <1>0, <1>4, <1>5 DEF NodeOf

(* Up to a chunk it is a leaf. *)
LEMMA NodeLeaf ==
  ASSUME NEW k, NEW fl, NEW from \in Nat, NEW n \in Nat, n <= CHUNK_LEN
  PROVE  NodeOf(k, fl, from, n) = Leaf(k, fl, from, n)
<1>1. 0 \in 0 .. MAX_DEPTH /\ CHUNK_LEN * Two[0] = CHUNK_LEN
  BY TwoIs, Lengths1
<1>2. NodeOf(k, fl, from, n) = Tree(k, fl)[0][from][n]
  BY <1>1, TreeTop
<1>3. Tree(k, fl)[0][from][n] = Leaf(k, fl, from, n)
  BY TreeLevels, Zenon
<1> QED
  BY <1>2, <1>3

(* n bytes at from are l bytes on the left, a whole number of chunks, and r  *)
(* at mid on the right.                                                      *)
SplitAt(from, n, d, l, mid, r) ==
  /\ from \in Nat /\ n \in Nat /\ l \in Nat /\ r \in Nat /\ mid \in Nat
  /\ d \in 0 .. MAX_DEPTH - 1 /\ l = CHUNK_LEN * Two[d]
  /\ l < n /\ n <= 2 * l /\ mid = from + l /\ r = n - l

(* Above that, a parent of the nodes of both sides. *)
LEMMA NodeParent ==
  ASSUME NEW k, NEW fl, NEW from, NEW n, NEW d, NEW l, NEW mid, NEW r, SplitAt(from, n, d, l, mid, r)
  PROVE  NodeOf(k, fl, from, n) = Parent(k, fl, NodeOf(k, fl, from, l), NodeOf(k, fl, mid, r))
<1>0. /\ from \in Nat /\ n \in Nat /\ l \in Nat /\ r \in Nat /\ mid \in Nat
      /\ d \in 0 .. MAX_DEPTH - 1 /\ l = CHUNK_LEN * Two[d]
      /\ l < n /\ n <= 2 * l /\ mid = from + l /\ r = n - l
  BY DEF SplitAt
<1>1. d + 1 \in 0 .. MAX_DEPTH /\ d \in 0 .. MAX_DEPTH /\ d \in 0 .. SizeBits - 1 /\ d \in 0 .. SizeBits
  BY <1>0, TwoIs
<1>2. CHUNK_LEN * Two[d + 1] = 2 * l
  <2>1. PICK x \in Nat : x = Two[d] /\ Two[d + 1] = 2 * x
    BY <1>1, TwoIs
  <2>2. \A y \in Nat : y * (2 * x) = 2 * (y * x)
    OBVIOUS
  <2> QED
    BY <1>0, <2>1, <2>2, Lengths1
<1>3. NodeOf(k, fl, from, n) = Tree(k, fl)[d + 1][from][n]
  BY <1>0, <1>1, <1>2, TreeTop
<1>4. Tree(k, fl)[d + 1][from][n] = Parent(k, fl, Tree(k, fl)[d][from][l], Tree(k, fl)[d][mid][r])
  BY <1>0, TreeLevels
<1>5. r <= l
  BY <1>0
<1>6. NodeOf(k, fl, from, l) = Tree(k, fl)[d][from][l]
  BY <1>0, <1>1, TreeTop
<1>7. NodeOf(k, fl, mid, r) = Tree(k, fl)[d][mid][r]
  BY <1>0, <1>1, <1>5, TreeTop
<1> QED
  BY <1>3, <1>4, <1>6, <1>7

(* The values of the complete subtrees. *)
SubtreeAt(k, fl, d, i) == output_chaining_value(NodeOf(k, fl, CHUNK_LEN * Two[d] * i, CHUNK_LEN * Two[d]))

(* t[d][i], as a table. *)
Subtrees(k, fl) == [d \in 0 .. MAX_DEPTH |-> [i \in Nat |-> SubtreeAt(k, fl, d, i)]]

(* Two neighbours of a size have the next size as their parent. *)
LEMMA SubtreeJoins ==
  ASSUME NEW k, NEW fl, NEW d \in 0 .. MAX_DEPTH - 1, NEW i \in Nat
  PROVE  \E a, b :
           /\ SubtreeAt(k, fl, d, 2 * i) = output_chaining_value(a)
           /\ SubtreeAt(k, fl, d, 2 * i + 1) = output_chaining_value(b)
           /\ SubtreeAt(k, fl, d + 1, i) = output_chaining_value(Parent(k, fl, a, b))
<1>1. PICK x \in Nat \ {0} : x = Two[d] /\ Two[d + 1] = 2 * x
  BY TwoIs
<1>2. PICK l \in Nat \ {0} : l = CHUNK_LEN * Two[d]
  <2>1. \A y, z \in Nat \ {0} : y * z \in Nat \ {0}
    OBVIOUS
  <2> QED
    BY <1>1, <2>1, Lengths1
<1>3. PICK from \in Nat : from = l * (2 * i)
  OBVIOUS
<1>4. CHUNK_LEN * Two[d + 1] = 2 * l
  <2>1. \A y \in Nat : y * (2 * x) = 2 * (y * x)
    OBVIOUS
  <2> QED
    BY <1>1, <1>2, <2>1, Lengths1
<1>5. (2 * l) * i = from
  BY <1>3
<1>6. l * (2 * i + 1) = from + l
  BY <1>3
<1>7. 2 * l \in Nat /\ l < 2 * l /\ 2 * l - l = l
  OBVIOUS
<1>8. NodeOf(k, fl, from, 2 * l) = Parent(k, fl, NodeOf(k, fl, from, l), NodeOf(k, fl, from + l, l))
  <2>1. PICK n \in Nat, mid \in Nat : n = 2 * l /\ mid = from + l
    OBVIOUS
  <2>2. SplitAt(from, n, d, l, mid, l)
    BY <1>2, <1>7, <2>1 DEF SplitAt
  <2>3. NodeOf(k, fl, from, n) = Parent(k, fl, NodeOf(k, fl, from, l), NodeOf(k, fl, mid, l))
    BY <2>2, NodeParent
  <2> QED
    BY <2>1, <2>3
<1>9. /\ SubtreeAt(k, fl, d, 2 * i) = output_chaining_value(NodeOf(k, fl, from, l))
      /\ SubtreeAt(k, fl, d, 2 * i + 1) = output_chaining_value(NodeOf(k, fl, from + l, l))
      /\ SubtreeAt(k, fl, d + 1, i) = output_chaining_value(NodeOf(k, fl, from, 2 * l))
  BY <1>2, <1>3, <1>4, <1>5, <1>6 DEF SubtreeAt
<1> QED
  BY <1>8, <1>9

(* parent_cv joins them in the table. *)
LEMMA SubtreesJoin ==
  ASSUME NEW fl, flags = fl
  PROVE  Joins(Subtrees(key, fl))
<1>1. ASSUME NEW d \in 0 .. MAX_DEPTH - 1, NEW i \in Nat
      PROVE  parent_cv(SubtreeAt(key, fl, d, 2 * i), SubtreeAt(key, fl, d, 2 * i + 1))
               = SubtreeAt(key, fl, d + 1, i)
  <2>1. PICK a, b :
           /\ SubtreeAt(key, fl, d, 2 * i) = output_chaining_value(a)
           /\ SubtreeAt(key, fl, d, 2 * i + 1) = output_chaining_value(b)
           /\ SubtreeAt(key, fl, d + 1, i) = output_chaining_value(Parent(key, fl, a, b))
    BY SubtreeJoins
  <2>2. output_chaining_value(Parent(key, fl, a, b)) =
          parent_cv(output_chaining_value(a), output_chaining_value(b))
    BY DEF output_chaining_value, Parent, parent_cv, parent_output, make_output
  <2> QED
    BY <2>1, <2>2
<1>2. \A d \in 0 .. MAX_DEPTH - 1 : d \in 0 .. MAX_DEPTH /\ d + 1 \in 0 .. MAX_DEPTH
  BY TwoIs
<1>3. \A i \in Nat : 2 * i \in Nat /\ 2 * i + 1 \in Nat
  OBVIOUS
<1> QED
  BY <1>1, <1>2, <1>3 DEF Joins, Subtrees

-----------------------------------------------------------------------------
(* Chunks. *)
ChunkBlocks == CHUNK_LEN \div BLOCK_LEN
ChunkStep(fl, from, j, cv) ==
  Compress(cv, Data(from + BLOCK_LEN * (j - 1), BLOCK_LEN), BLOCK_LEN, from \div CHUNK_LEN,
           fl + IF j = 1 THEN CHUNK_START ELSE 0)
ChunkChain(k, fl, from, n, f) ==
  f = [j \in 0 .. n |-> IF j = 0 THEN k ELSE ChunkStep(fl, from, j, f[j - 1])]

(* Such a chain exists. *)
LEMMA ChunkChainExists ==
  ASSUME NEW k, NEW fl, NEW from, NEW n \in Nat
  PROVE  \E f : ChunkChain(k, fl, from, n, f)
<1> DEFINE Set == {m \in Nat : \E f : ChunkChain(k, fl, from, m, f)}
<1>1. 0 \in Set
  <2>1. PICK f : f = [j \in 0 .. 0 |-> k]
    OBVIOUS
  <2>2. f = [j \in 0 .. 0 |-> IF j = 0 THEN k ELSE ChunkStep(fl, from, j, f[j - 1])]
    BY <2>1
  <2> QED
    BY <2>2 DEF ChunkChain
<1>2. ASSUME NEW m \in Nat, m \in Set PROVE m + 1 \in Set
  <2>1. PICK f : f = [j \in 0 .. m |-> IF j = 0 THEN k ELSE ChunkStep(fl, from, j, f[j - 1])]
    BY <1>2 DEF ChunkChain
  <2>2. PICK h : h = [j \in 0 .. m + 1 |-> IF j = 0 THEN k ELSE ChunkStep(fl, from, j, f[j - 1])]
    OBVIOUS
  <2>3. \A j \in 0 .. m : h[j] = f[j]
    BY <2>1, <2>2
  <2>4. \A j \in 0 .. m + 1 : j # 0 => j - 1 \in 0 .. m
    OBVIOUS
  <2>5. h = [j \in 0 .. m + 1 |-> IF j = 0 THEN k ELSE ChunkStep(fl, from, j, h[j - 1])]
    BY <2>2, <2>3, <2>4
  <2> QED
    BY <2>5 DEF ChunkChain
<1> HIDE DEF Set
<1>3. Nat \subseteq Set
  BY <1>1, <1>2, AllNumbers
<1> QED
  BY <1>3 DEF Set

(* ChunkCV, block by block. *)
LEMMA ChunkCVs ==
  ASSUME NEW k, NEW fl, NEW from
  PROVE  \E f : /\ \A b : ChunkCV(k, fl, from, b) = f[b]
                /\ ChunkChain(k, fl, from, ChunkBlocks, f)
<1>0. ChunkBlocks \in Nat
  BY Lengths1 DEF ChunkBlocks
<1>1. PICK f : f = CHOOSE u : ChunkChain(k, fl, from, ChunkBlocks, u)
  OBVIOUS
<1>2. ChunkChain(k, fl, from, ChunkBlocks, f)
  BY <1>0, <1>1, ChunkChainExists
<1>3. \A b : ChunkCV(k, fl, from, b) = f[b]
  BY <1>1 DEF ChunkCV, ChunkChain, ChunkStep, ChunkBlocks
<1> QED
  BY <1>2, <1>3

(* Before the first block it is the key. *)
LEMMA ChunkCVFirst ==
  ASSUME NEW k, NEW fl, NEW from
  PROVE  ChunkCV(k, fl, from, 0) = k
<1>1. ChunkBlocks \in Nat
  BY Lengths1 DEF ChunkBlocks
<1>2. PICK f : /\ \A i : ChunkCV(k, fl, from, i) = f[i]
               /\ ChunkChain(k, fl, from, ChunkBlocks, f)
  BY ChunkCVs
<1>3. f[0] = k
  BY <1>1, <1>2 DEF ChunkChain
<1> QED
  BY <1>2, <1>3

(* Each block is compressed into it. *)
LEMMA ChunkCVNext ==
  ASSUME NEW k, NEW fl, NEW from, NEW b \in 0 .. ChunkBlocks - 1, NEW j, j = b + 1
  PROVE  ChunkCV(k, fl, from, j) = ChunkStep(fl, from, j, ChunkCV(k, fl, from, b))
<1>1. ChunkBlocks \in Nat
  BY Lengths1 DEF ChunkBlocks
<1>2. j \in 0 .. ChunkBlocks /\ j # 0 /\ j - 1 = b
  BY <1>1
<1>3. PICK f : /\ \A i : ChunkCV(k, fl, from, i) = f[i]
               /\ ChunkChain(k, fl, from, ChunkBlocks, f)
  BY ChunkCVs
<1>4. f[j] = ChunkStep(fl, from, j, f[b])
  BY <1>2, <1>3 DEF ChunkChain
<1> QED
  BY <1>3, <1>4

(* Bytes that follow one another. *)
LEMMA DataIs ==
  ASSUME NEW from \in Nat, NEW n \in Nat
  PROVE  Data(from, n) \in Seq(Nat) /\ Len(Data(from, n)) = n
  BY DEF Data

(* No bytes. *)
LEMMA DataNone ==
  ASSUME NEW from \in Nat
  PROVE  Data(from, 0) = <<>>
  BY DEF Data

(* n bytes at from and m bytes at mid are l bytes. *)
Follows(from, n, mid, m, l) ==
  /\ from \in Nat /\ n \in Nat /\ m \in Nat /\ mid \in Nat /\ l \in Nat
  /\ mid = from + n /\ l = n + m

(* Bytes that follow one another. *)
LEMMA DataJoin ==
  ASSUME NEW from, NEW n, NEW mid, NEW m, NEW l, Follows(from, n, mid, m, l)
  PROVE  Data(from, n) \o Data(mid, m) = Data(from, l)
<1>0. from \in Nat /\ n \in Nat /\ m \in Nat /\ mid \in Nat /\ l \in Nat /\ mid = from + n /\ l = n + m
  BY DEF Follows
<1>1. PICK a \in Seq(Nat), b \in Seq(Nat), c \in Seq(Nat) :
        a = Data(from, n) /\ b = Data(mid, m) /\ c = Data(from, l)
  BY <1>0, DataIs
<1>2. Len(a) = n /\ Len(b) = m /\ Len(c) = l
  BY <1>0, <1>1, DataIs
<1>c. PICK ab : ab = a \o b
  OBVIOUS
<1>3. /\ ab \in Seq(Nat) /\ Len(ab) = l
      /\ \A i \in 1 .. l : ab[i] = IF i <= n THEN a[i] ELSE b[i - n]
  <2>1. /\ ab \in Seq(Nat) /\ Len(ab) = Len(a) + Len(b)
        /\ \A i \in 1 .. Len(a) + Len(b) : ab[i] = IF i <= Len(a) THEN a[i] ELSE b[i - Len(a)]
    BY <1>c, ConcatProperties, Zenon
  <2> QED
    BY <1>0, <1>2, <2>1, Zenon
<1>4. \A i \in 1 .. n : a[i] = from + i
  BY <1>1 DEF Data
<1>5. \A i \in 1 .. m : b[i] = from + n + i
  BY <1>0, <1>1 DEF Data
<1>6. \A i \in 1 .. l : c[i] = from + i
  BY <1>1 DEF Data
<1>7. \A i \in 1 .. l : ab[i] = c[i]
  <2> TAKE i \in 1 .. l
  <2>1. CASE i <= n
    <3>1. i \in 1 .. n
      BY <1>0, <2>1
    <3> QED
      BY <1>3, <1>4, <1>6, <2>1, <3>1, Zenon
  <2>2. CASE ~ (i <= n)
    <3>1. i - n \in 1 .. m
      BY <1>0, <2>2
    <3>2. ab[i] = b[i - n]
      BY <1>3, <2>2
    <3>3. b[i - n] = from + i
      BY <1>0, <1>5, <3>1
    <3> QED
      BY <1>6, <3>2, <3>3
  <2> QED
    BY <2>1, <2>2
<1>8. ab = c
  BY <1>2, <1>3, <1>7, SeqEqual
<1> QED
  BY <1>1, <1>c, <1>8

(* The block in which n bytes of a chunk end: a full one is kept.            *)
LastBlock(n) == IF n = 0 THEN 0 ELSE (n - 1) \div BLOCK_LEN

(* The number of the last block, from its bounds. *)
LEMMA LastBlockIs ==
  ASSUME NEW n \in Nat \ {0}, NEW b \in Nat, BLOCK_LEN * b < n, n <= BLOCK_LEN * b + BLOCK_LEN
  PROVE  LastBlock(n) = b
<1>1. BLOCK_LEN \in Nat \ {0}
  BY Lengths1
<1>2. PICK m \in Nat, r \in 0 .. BLOCK_LEN - 1 : m = n - 1 /\ m = BLOCK_LEN * b + r
  <2>1. PICK p \in Nat : p = BLOCK_LEN * b
    BY <1>1
  <2>2. n - 1 \in Nat /\ (n - 1) - p \in 0 .. BLOCK_LEN - 1 /\ n - 1 = p + ((n - 1) - p)
    BY <1>1, <2>1
  <2> QED
    BY <2>1, <2>2
<1>3. m \div BLOCK_LEN = b
  BY <1>1, <1>2, DivMod
<1> QED
  BY <1>2, <1>3 DEF LastBlock

(* The last block lies in the chunk, and holds something if the chunk does. *)
LEMMA LastBlockBounds ==
  ASSUME NEW n \in Nat, n <= CHUNK_LEN
  PROVE  /\ LastBlock(n) \in 0 .. ChunkBlocks - 1
         /\ BLOCK_LEN * LastBlock(n) \in Nat
         /\ n - BLOCK_LEN * LastBlock(n) \in 0 .. BLOCK_LEN
         /\ n # 0 => n - BLOCK_LEN * LastBlock(n) # 0
<1>1. PICK B \in Nat \ {0}, N \in Nat \ {0} : B = BLOCK_LEN /\ N = ChunkBlocks /\ CHUNK_LEN = B * N
  BY Lengths1 DEF ChunkBlocks
<1>2. CASE n = 0
  BY <1>1, <1>2 DEF LastBlock
<1>3. CASE n # 0
  <2>1. PICK m \in Nat : m = n - 1
    BY <1>3
  <2>2. PICK q \in Nat, r \in 0 .. B - 1 : m = B * q + r
    BY DivModExists
  <2>3. LastBlock(n) = q
    <3>1. m \div B = q
      BY <2>2, DivMod
    <3> QED
      BY <1>1, <1>3, <2>1, <3>1 DEF LastBlock
  <2>4. q < N
    <3> SUFFICES ASSUME q >= N PROVE FALSE
      OBVIOUS
    <3>1. B * q >= B * N
      OBVIOUS
    <3>2. PICK x \in Nat, y \in Nat : x = B * q /\ y = B * N
      OBVIOUS
    <3> QED
      BY <1>1, <2>1, <2>2, <3>1, <3>2
  <2>5. PICK x \in Nat : x = B * q
    OBVIOUS
  <2> QED
    BY <1>1, <2>1, <2>2, <2>3, <2>4, <2>5
<1> QED
  BY <1>2, <1>3

(* The state of chunk c with b blocks compressed, and what is in the buffer. *)
ChunkState(k, fl, c, b, buf) ==
  [cv |-> ChunkCV(k, fl, CHUNK_LEN * c, b), chunk_counter |-> c, buf |-> buf,
   blocks_compressed |-> b, flags |-> fl]

(* The state after n bytes of it. *)
ChunkAt(k, fl, c, n) ==
  ChunkState(k, fl, c, LastBlock(n),
             Data(CHUNK_LEN * c + BLOCK_LEN * LastBlock(n), n - BLOCK_LEN * LastBlock(n)))

(* An empty chunk. *)
LEMMA ChunkStarts ==
  ASSUME NEW k, NEW fl, NEW c \in Nat
  PROVE  chunk_state_init(k, fl, c) = ChunkAt(k, fl, c, 0)
<1>1. LastBlock(0) = 0
  BY DEF LastBlock
<1>2. BLOCK_LEN * 0 = 0 /\ CHUNK_LEN * c + 0 = CHUNK_LEN * c /\ CHUNK_LEN * c \in Nat
  BY Lengths1
<1>3. Data(CHUNK_LEN * c + BLOCK_LEN * LastBlock(0), 0 - BLOCK_LEN * LastBlock(0)) = <<>>
  <2>1. Data(CHUNK_LEN * c, 0) = <<>>
    BY <1>2, DataNone
  <2> QED
    BY <1>1, <1>2, <2>1
<1>4. ChunkCV(k, fl, CHUNK_LEN * c, 0) = k
  BY ChunkCVFirst
<1> QED
  BY <1>1, <1>3, <1>4 DEF ChunkAt, ChunkState, chunk_state_init

(* chunk_state_len counts the bytes. *)
LEMMA ChunkLen ==
  ASSUME NEW k, NEW fl, NEW c \in Nat, NEW n \in 0 .. CHUNK_LEN
  PROVE  chunk_state_len(ChunkAt(k, fl, c, n)) = n
<1>0. n \in Nat /\ n <= CHUNK_LEN
  BY Lengths1
<1>1. PICK p \in Nat, r \in Nat : p = BLOCK_LEN * LastBlock(n) /\ r = n - p
  BY <1>0, LastBlockBounds, Lengths1
<1>2. Len(Data(CHUNK_LEN * c + p, r)) = r
  <2>1. CHUNK_LEN * c + p \in Nat
    BY Lengths1
  <2> QED
    BY <2>1, DataIs
<1>3. chunk_state_len(ChunkAt(k, fl, c, n)) = BLOCK_LEN * LastBlock(n) + Len(Data(CHUNK_LEN * c + p, r))
  BY <1>1 DEF chunk_state_len, ChunkAt, ChunkState
<1> QED
  BY <1>0, <1>1, <1>2, <1>3

(* A whole block is compressed: nothing is left in the buffer. *)
LEMMA BlockCompressed ==
  ASSUME NEW k, NEW fl, NEW c \in Nat, NEW b \in 0 .. ChunkBlocks - 1, NEW buf
  PROVE  compress_block(ChunkState(k, fl, c, b, buf), Data(CHUNK_LEN * c + BLOCK_LEN * b, BLOCK_LEN))
           = ChunkState(k, fl, c, b + 1, <<>>)
<1>1. PICK from \in Nat : from = CHUNK_LEN * c
  BY Lengths1
<1>2. from \div CHUNK_LEN = c
  <2>1. from = CHUNK_LEN * c + 0 /\ 0 \in 0 .. CHUNK_LEN - 1
    BY <1>1, Lengths1
  <2> QED
    BY <2>1, DivMod, Lengths1
<1>3. PICK d : d = Data(from + BLOCK_LEN * b, BLOCK_LEN)
  OBVIOUS
<1>4. PICK f : f = fl + IF b = 0 THEN CHUNK_START ELSE 0
  OBVIOUS
<1>j. PICK j : j = b + 1 /\ j - 1 = b /\ (j = 1 <=> b = 0)
  BY Lengths1 DEF ChunkBlocks
<1>v. PICK v : v = Compress(ChunkCV(k, fl, from, b), d, BLOCK_LEN, c, f)
  OBVIOUS
<1>5. ChunkCV(k, fl, from, j) = v
  <2>1. ChunkCV(k, fl, from, j) = ChunkStep(fl, from, j, ChunkCV(k, fl, from, b))
    BY <1>j, ChunkCVNext
  <2>2. f = fl + IF j = 1 THEN CHUNK_START ELSE 0
    BY <1>4, <1>j
  <2>3. ChunkStep(fl, from, j, ChunkCV(k, fl, from, b))
          = Compress(ChunkCV(k, fl, from, b), Data(from + BLOCK_LEN * (j - 1), BLOCK_LEN), BLOCK_LEN,
                     from \div CHUNK_LEN, fl + IF j = 1 THEN CHUNK_START ELSE 0)
    BY DEF ChunkStep
  <2> QED
    BY <1>2, <1>3, <1>j, <1>v, <2>1, <2>2, <2>3, Zenon
<1>6. PICK st : st = ChunkState(k, fl, c, b, buf)
  OBVIOUS
<1>7. /\ st = [cv |-> ChunkCV(k, fl, from, b), chunk_counter |-> c, buf |-> buf,
               blocks_compressed |-> b, flags |-> fl]
      /\ st.cv = ChunkCV(k, fl, from, b) /\ st.chunk_counter = c /\ st.blocks_compressed = b /\ st.flags = fl
  BY <1>1, <1>6 DEF ChunkState
<1>8. st.flags + maybe_start_flag(st) = f
  BY <1>4, <1>7 DEF maybe_start_flag
<1>9. compress_block(st, d) = [st EXCEPT !.cv = v, !.blocks_compressed = j, !.buf = <<>>]
  BY <1>7, <1>8, <1>j, <1>v DEF compress_block
<1>10. [st EXCEPT !.cv = v, !.blocks_compressed = j, !.buf = <<>>]
        = [cv |-> v, chunk_counter |-> c, buf |-> <<>>, blocks_compressed |-> j, flags |-> fl]
  <2>1. PICK w : w = ChunkCV(k, fl, from, b)
    OBVIOUS
  <2>2. st = [cv |-> w, chunk_counter |-> c, buf |-> buf, blocks_compressed |-> b, flags |-> fl]
    BY <1>7, <2>1
  <2>3. PICK s1 : s1 = [st EXCEPT !.cv = v]
    OBVIOUS
  <2>4. PICK s2 : s2 = [s1 EXCEPT !.blocks_compressed = j]
    OBVIOUS
  <2>5. [st EXCEPT !.cv = v, !.blocks_compressed = j, !.buf = <<>>] = [s2 EXCEPT !.buf = <<>>]
    BY <2>3, <2>4
  <2>6. s1 = [cv |-> v, chunk_counter |-> c, buf |-> buf, blocks_compressed |-> b, flags |-> fl]
    BY <2>2, <2>3
  <2>7. s2 = [cv |-> v, chunk_counter |-> c, buf |-> buf, blocks_compressed |-> j, flags |-> fl]
    BY <2>4, <2>6
  <2> QED
    BY <2>5, <2>7
<1> QED
  BY <1>1, <1>3, <1>j, <1>5, <1>6, <1>9, <1>10, Zenon DEF ChunkState

(* The buffer holds r bytes from o on, the n bytes at from follow and m fit. *)
Fills(o, r, n, from, m) ==
  /\ o \in Nat /\ r \in 0 .. BLOCK_LEN /\ n \in Nat /\ from \in Nat /\ m \in Nat
  /\ from = o + r /\ m = r + MinOf(BLOCK_LEN - r, n)

(* chunk_state_fill_buf appends what fits. *)
LEMMA BufferFilled ==
  ASSUME NEW k, NEW fl, NEW c, NEW b, NEW o, NEW r, NEW n, NEW from, NEW m, Fills(o, r, n, from, m)
  PROVE  chunk_state_fill_buf(ChunkState(k, fl, c, b, Data(o, r)), from, n)
           = ChunkState(k, fl, c, b, Data(o, m))
<1>f. /\ o \in Nat /\ r \in 0 .. BLOCK_LEN /\ n \in Nat /\ from \in Nat /\ m \in Nat
      /\ from = o + r /\ m = r + MinOf(BLOCK_LEN - r, n)
  BY DEF Fills
<1>0. BLOCK_LEN \in Nat /\ r \in Nat
  BY <1>f, Lengths1
<1>1. Len(Data(o, r)) = r
  BY <1>0, <1>f, DataIs
<1>2. PICK x \in Nat : x = MinOf(BLOCK_LEN - r, n)
  BY <1>0, <1>f DEF MinOf
<1>3. m = r + x
  BY <1>2, <1>f
<1>4. Data(o, r) \o Data(from, x) = Data(o, m)
  <2>1. Follows(o, r, from, x, m)
    BY <1>0, <1>3, <1>f DEF Follows
  <2> QED
    BY <2>1, DataJoin
<1>5. PICK st : st = ChunkState(k, fl, c, b, Data(o, r))
  OBVIOUS
<1>6. /\ st = [cv |-> ChunkCV(k, fl, CHUNK_LEN * c, b), chunk_counter |-> c, buf |-> Data(o, r),
               blocks_compressed |-> b, flags |-> fl]
      /\ st.buf = Data(o, r)
  BY <1>5 DEF ChunkState
<1>7. chunk_state_fill_buf(st, from, n) = [st EXCEPT !.buf = Data(o, m)]
  BY <1>1, <1>2, <1>4, <1>6 DEF chunk_state_fill_buf
<1>8. [st EXCEPT !.buf = Data(o, m)] =
        [cv |-> ChunkCV(k, fl, CHUNK_LEN * c, b), chunk_counter |-> c, buf |-> Data(o, m),
         blocks_compressed |-> b, flags |-> fl]
  BY <1>6
<1> QED
  BY <1>5, <1>7, <1>8, Zenon DEF ChunkState

(* The blocks that an update compresses one after the other. *)
BlockRun(f, n, base) ==
  \A i \in 0 .. n - 1 : f[i + 1] = compress_block(f[i], Data(base + BLOCK_LEN * i, BLOCK_LEN))
UpdateChain(first, base, n, f) ==
  f = [k \in 0 .. n |-> IF k = 0 THEN first
                        ELSE compress_block(f[k - 1], Data(base + BLOCK_LEN * (k - 1), BLOCK_LEN))]

(* Such a chain exists. *)
LEMMA UpdateChainExists ==
  ASSUME NEW first, NEW base, NEW n \in Nat
  PROVE  \E f : UpdateChain(first, base, n, f)
<1> DEFINE Step(x, k) == compress_block(x, Data(base + BLOCK_LEN * (k - 1), BLOCK_LEN))
           Set == {m \in Nat : \E f : f = [k \in 0 .. m |-> IF k = 0 THEN first ELSE Step(f[k - 1], k)]}
<1> HIDE DEF Step
<1>1. 0 \in Set
  <2>1. PICK f : f = [k \in 0 .. 0 |-> first]
    OBVIOUS
  <2>2. f = [k \in 0 .. 0 |-> IF k = 0 THEN first ELSE Step(f[k - 1], k)]
    BY <2>1
  <2> QED
    BY <2>2
<1>2. ASSUME NEW m \in Nat, m \in Set PROVE m + 1 \in Set
  <2>1. PICK f : f = [k \in 0 .. m |-> IF k = 0 THEN first ELSE Step(f[k - 1], k)]
    BY <1>2
  <2>2. PICK h : h = [k \in 0 .. m + 1 |-> IF k = 0 THEN first ELSE Step(f[k - 1], k)]
    OBVIOUS
  <2>3. \A k \in 0 .. m : h[k] = f[k]
    BY <2>1, <2>2
  <2>4. \A k \in 0 .. m + 1 : k # 0 => k - 1 \in 0 .. m
    OBVIOUS
  <2>5. h = [k \in 0 .. m + 1 |-> IF k = 0 THEN first ELSE Step(h[k - 1], k)]
    BY <2>2, <2>3, <2>4
  <2> QED
    BY <2>5
<1> HIDE DEF Set
<1>3. Nat \subseteq Set
  BY <1>1, <1>2, AllNumbers
<1> QED
  BY <1>3 DEF Set, Step, UpdateChain

(* What chunk_state_update does with a buffer that is not empty. *)
UpdateTake(c, n) == IF c.buf = <<>> THEN 0 ELSE MinOf(BLOCK_LEN - Len(c.buf), n)
UpdateFirst(c, from, n) ==
  IF c.buf = <<>> THEN c
  ELSE LET full == chunk_state_fill_buf(c, from, n)
       IN IF n > UpdateTake(c, n) THEN compress_block(full, full.buf) ELSE full

(* chunk_state_update, block by block. *)
LEMMA UpdateIs ==
  ASSUME NEW c, NEW from, NEW n, NEW take, take = UpdateTake(c, n), NEW first, first = UpdateFirst(c, from, n),
         NEW left, left = n - take, NEW whole \in Nat, whole = WholeBlocks(left), NEW base, base = from + take
  PROVE  \E f : /\ f[0] = first /\ BlockRun(f, whole, base)
                /\ chunk_state_update(c, from, n) =
                     chunk_state_fill_buf(f[whole], base + BLOCK_LEN * whole, left - BLOCK_LEN * whole)
<1>1. PICK f : f = CHOOSE u : UpdateChain(UpdateFirst(c, from, n), from + UpdateTake(c, n),
                                          WholeBlocks(n - UpdateTake(c, n)), u)
  OBVIOUS
<1>2. UpdateChain(first, base, whole, f)
  <2>1. f = CHOOSE u : UpdateChain(first, base, whole, u)
    BY <1>1
  <2> QED
    BY <2>1, UpdateChainExists
<1>3. f[0] = first
  BY <1>2 DEF UpdateChain
<1>4. BlockRun(f, whole, base)
  <2> SUFFICES ASSUME NEW i \in 0 .. whole - 1
               PROVE  f[i + 1] = compress_block(f[i], Data(base + BLOCK_LEN * i, BLOCK_LEN))
    BY DEF BlockRun
  <2>1. PICK j : j = i + 1
    OBVIOUS
  <2>2. j \in 0 .. whole /\ j # 0 /\ j - 1 = i
    BY <2>1
  <2>3. f[j] = compress_block(f[j - 1], Data(base + BLOCK_LEN * (j - 1), BLOCK_LEN))
    BY <1>2, <2>2, Zenon DEF UpdateChain
  <2> QED
    BY <2>1, <2>2, <2>3
<1>5. chunk_state_update(c, from, n) =
        chunk_state_fill_buf(f[whole], base + BLOCK_LEN * whole, left - BLOCK_LEN * whole)
  <2>1. chunk_state_update(c, from, n) =
          chunk_state_fill_buf(f[WholeBlocks(n - UpdateTake(c, n))],
                               from + UpdateTake(c, n) + BLOCK_LEN * WholeBlocks(n - UpdateTake(c, n)),
                               n - UpdateTake(c, n) - BLOCK_LEN * WholeBlocks(n - UpdateTake(c, n)))
    BY <1>1 DEF chunk_state_update, UpdateChain, UpdateTake, UpdateFirst
  <2> QED
    BY <2>1, Zenon
<1> QED
  BY <1>3, <1>4, <1>5

(* n more blocks, after b. *)
BlocksFrom(k, fl, c, b, n, base, f) ==
  /\ c \in Nat /\ b \in Nat /\ n \in Nat /\ b + n <= ChunkBlocks
  /\ base = CHUNK_LEN * c + BLOCK_LEN * b
  /\ f[0] = ChunkState(k, fl, c, b, <<>>) /\ BlockRun(f, n, base)

(* Each is compressed into the chaining value of the chunk. *)
LEMMA BlocksCompressed ==
  ASSUME NEW k, NEW fl, NEW c, NEW b, NEW n, NEW base, NEW f, BlocksFrom(k, fl, c, b, n, base, f)
  PROVE  f[n] = ChunkState(k, fl, c, b + n, <<>>)
<1>b. /\ c \in Nat /\ b \in Nat /\ n \in Nat /\ b + n <= ChunkBlocks
      /\ base = CHUNK_LEN * c + BLOCK_LEN * b
      /\ f[0] = ChunkState(k, fl, c, b, <<>>) /\ BlockRun(f, n, base)
  BY DEF BlocksFrom
<1>0. ChunkBlocks \in Nat \ {0} /\ BLOCK_LEN \in Nat /\ CHUNK_LEN \in Nat
  BY Lengths1 DEF ChunkBlocks
<1>1. PICK o \in Nat : o = CHUNK_LEN * c
  BY <1>0, <1>b
<1> DEFINE Set == {i \in Nat : i <= n => f[i] = ChunkState(k, fl, c, b + i, <<>>)}
<1>2. 0 \in Set
  <2>1. b + 0 = b
    BY <1>b
  <2> QED
    BY <1>b, <2>1
<1>3. ASSUME NEW i \in Nat, i \in Set PROVE i + 1 \in Set
  <2> SUFFICES ASSUME i + 1 <= n PROVE f[i + 1] = ChunkState(k, fl, c, b + (i + 1), <<>>)
    OBVIOUS
  <2>1. PICK d : d = b + i
    OBVIOUS
  <2>2. d \in 0 .. ChunkBlocks - 1 /\ d + 1 = b + (i + 1) /\ i \in 0 .. n - 1 /\ i <= n
    BY <1>0, <1>b, <2>1
  <2>3. base + BLOCK_LEN * i = o + BLOCK_LEN * d
    BY <1>0, <1>1, <1>b, <2>1
  <2>4. f[i] = ChunkState(k, fl, c, d, <<>>)
    BY <1>3, <2>1, <2>2
  <2>5. f[i + 1] = compress_block(f[i], Data(base + BLOCK_LEN * i, BLOCK_LEN))
    BY <1>b, <2>2, Zenon DEF BlockRun
  <2>6. compress_block(ChunkState(k, fl, c, d, <<>>), Data(CHUNK_LEN * c + BLOCK_LEN * d, BLOCK_LEN))
          = ChunkState(k, fl, c, d + 1, <<>>)
    BY <1>b, <2>2, BlockCompressed, Zenon
  <2> QED
    BY <1>1, <2>2, <2>3, <2>4, <2>5, <2>6, Zenon
<1> HIDE DEF Set
<1>4. Nat \subseteq Set
  BY <1>2, <1>3, AllNumbers
<1> QED
  BY <1>4, <1>b DEF Set

(* What is left after a block boundary: whole blocks, then the buffer. *)
LEMMA WholeIs ==
  ASSUME NEW n \in Nat
  PROVE  WholeBlocks(n) = LastBlock(n)
<1>0. BLOCK_LEN \in Nat \ {0}
  BY Lengths1
<1>1. CASE n > BLOCK_LEN
  BY <1>0, <1>1 DEF WholeBlocks, LastBlock
<1>2. CASE n = 0
  BY <1>0, <1>2 DEF WholeBlocks, LastBlock
<1>3. CASE n # 0 /\ n <= BLOCK_LEN
  <2>1. (n - 1) \div BLOCK_LEN = 0
    <3>1. PICK a : a = n - 1
      OBVIOUS
    <3>2. a \in 0 .. BLOCK_LEN - 1
      BY <1>0, <1>3, <3>1
    <3>3. a \div BLOCK_LEN = 0
      BY <1>0, <3>2, DivSmall
    <3> QED
      BY <3>1, <3>3
  <2> QED
    BY <1>0, <1>3, <2>1 DEF WholeBlocks, LastBlock
<1> QED
  BY <1>0, <1>1, <1>2, <1>3

(* The last block, counted from block b on. *)
LEMMA LastBlockAfter ==
  ASSUME NEW b \in Nat, NEW n \in Nat, n # 0 \/ b = 0, NEW m \in Nat, m = BLOCK_LEN * b + n
  PROVE  LastBlock(m) = b + LastBlock(n)
<1>0. BLOCK_LEN \in Nat \ {0}
  BY Lengths1
<1>1. CASE n = 0
  BY <1>0, <1>1 DEF LastBlock
<1>2. CASE n # 0
  <2>1. PICK a \in Nat : a = n - 1
    BY <1>2
  <2>2. PICK q \in Nat, r \in 0 .. BLOCK_LEN - 1 : a = BLOCK_LEN * q + r
    BY <1>0, DivModExists
  <2>3. LastBlock(n) = q
    <3>1. a \div BLOCK_LEN = q
      BY <1>0, <2>2, DivMod
    <3> QED
      BY <1>2, <2>1, <3>1 DEF LastBlock
  <2>4. PICK p \in Nat : p = b + q
    OBVIOUS
  <2>5. m - 1 = BLOCK_LEN * p + r /\ m # 0
    BY <1>0, <1>2, <2>1, <2>2, <2>4
  <2>6. (m - 1) \div BLOCK_LEN = p
    BY <1>0, <2>5, DivMod
  <2> QED
    BY <2>3, <2>4, <2>5, <2>6 DEF LastBlock
<1> QED
  BY <1>1, <1>2

(* b blocks are compressed and n bytes follow. *)
LEMMA AfterBlocks ==
  ASSUME NEW k, NEW fl, NEW c \in Nat, NEW b \in Nat, NEW n \in Nat, n # 0 \/ b = 0,
         NEW m \in 0 .. CHUNK_LEN, m = BLOCK_LEN * b + n,
         NEW whole \in Nat, whole = WholeBlocks(n),
         NEW base, base = CHUNK_LEN * c + BLOCK_LEN * b,
         NEW f, f[0] = ChunkState(k, fl, c, b, <<>>), BlockRun(f, whole, base)
  PROVE  chunk_state_fill_buf(f[whole], base + BLOCK_LEN * whole, n - BLOCK_LEN * whole) = ChunkAt(k, fl, c, m)
<1>0. /\ ChunkBlocks \in Nat \ {0} /\ BLOCK_LEN \in Nat \ {0} /\ CHUNK_LEN \in Nat \ {0}
      /\ m \in Nat /\ m <= CHUNK_LEN
  BY Lengths1 DEF ChunkBlocks
<1>1. PICK d : d = b + whole
  OBVIOUS
<1>2. d \in Nat /\ LastBlock(m) = d
  <2>1. whole = LastBlock(n)
    BY WholeIs
  <2>2. LastBlock(m) = b + LastBlock(n)
    BY <1>0, LastBlockAfter
  <2> QED
    BY <1>1, <2>1, <2>2
<1>3. PICK o \in Nat, p \in Nat : o = CHUNK_LEN * c /\ p = o + BLOCK_LEN * d
  BY <1>0, <1>2
<1>4. PICK r : r = m - BLOCK_LEN * d
  OBVIOUS
<1>5. d \in 0 .. ChunkBlocks - 1 /\ r \in 0 .. BLOCK_LEN
  BY <1>0, <1>2, <1>4, LastBlockBounds
<1>6. base + BLOCK_LEN * whole = p
  BY <1>0, <1>1, <1>3
<1>7. n - BLOCK_LEN * whole = r
  BY <1>0, <1>1, <1>4
<1>8. f[whole] = ChunkState(k, fl, c, d, <<>>)
  <2>1. b + whole <= ChunkBlocks
    BY <1>0, <1>1, <1>5
  <2>2. BlocksFrom(k, fl, c, b, whole, base, f)
    BY <2>1 DEF BlocksFrom
  <2> QED
    BY <1>1, <2>2, BlocksCompressed
<1>9. Data(p, 0) = <<>>
  BY <1>3, DataNone
<1>10. chunk_state_fill_buf(ChunkState(k, fl, c, d, Data(p, 0)), p, r) = ChunkState(k, fl, c, d, Data(p, r))
  <2>1. 0 \in 0 .. BLOCK_LEN /\ r \in Nat /\ p = p + 0
    BY <1>0, <1>3, <1>5
  <2>2. r = 0 + MinOf(BLOCK_LEN - 0, r)
    BY <1>0, <1>5 DEF MinOf
  <2>3. Fills(p, 0, r, p, r)
    BY <1>3, <2>1, <2>2 DEF Fills
  <2> QED
    BY <2>3, BufferFilled
<1>11. ChunkAt(k, fl, c, m) = ChunkState(k, fl, c, d, Data(p, r))
  BY <1>2, <1>3, <1>4 DEF ChunkAt
<1> QED
  BY <1>6, <1>7, <1>8, <1>9, <1>10, <1>11, Zenon

(* An update of n bytes, those at from, after the first L of chunk c.        *)
Extends(c, L, n, m, from) ==
  /\ c \in Nat /\ L \in Nat /\ n \in Nat /\ m \in 0 .. CHUNK_LEN /\ m = L + n
  /\ from \in Nat /\ from = CHUNK_LEN * c + L

(* An update of the chunk state: n more bytes are in it. *)
LEMMA ChunkUpdate ==
  ASSUME NEW k, NEW fl, NEW c, NEW L, NEW n, NEW m, NEW from, Extends(c, L, n, m, from)
  PROVE  chunk_state_update(ChunkAt(k, fl, c, L), from, n) = ChunkAt(k, fl, c, m)
<1> /\ c \in Nat /\ L \in Nat /\ n \in Nat /\ m \in 0 .. CHUNK_LEN /\ m = L + n
    /\ from \in Nat /\ from = CHUNK_LEN * c + L
  BY DEF Extends
<1>0. /\ ChunkBlocks \in Nat \ {0} /\ BLOCK_LEN \in Nat \ {0} /\ CHUNK_LEN \in Nat \ {0}
      /\ m \in Nat /\ m <= CHUNK_LEN /\ L <= CHUNK_LEN
  BY Lengths1 DEF ChunkBlocks
<1>1. PICK b : b = LastBlock(L)
  OBVIOUS
<1>2. b \in 0 .. ChunkBlocks - 1 /\ b \in Nat
  BY <1>0, <1>1, LastBlockBounds
<1>3. PICK o \in Nat, p \in Nat, t \in Nat : o = CHUNK_LEN * c /\ t = BLOCK_LEN * b /\ p = o + t
  BY <1>0, <1>2
<1>4. PICK r : r = L - t
  OBVIOUS
<1>5. r \in 0 .. BLOCK_LEN /\ (L # 0 => r # 0) /\ r \in Nat
  BY <1>0, <1>1, <1>3, <1>4, LastBlockBounds
<1>6. PICK s : s = ChunkAt(k, fl, c, L)
  OBVIOUS
<1>7. s = ChunkState(k, fl, c, b, Data(p, r)) /\ s.buf = Data(p, r)
  <2>1. s = ChunkState(k, fl, c, b, Data(p, r))
    BY <1>1, <1>3, <1>4, <1>6 DEF ChunkAt
  <2> QED
    BY <2>1 DEF ChunkState
<1>8. Len(Data(p, r)) = r
  BY <1>3, <1>5, DataIs
<1>9. CASE L = 0
  <2>1. b = 0 /\ t = 0 /\ r = 0 /\ p = o /\ from = o /\ m = n
    BY <1>0, <1>1, <1>3, <1>4, <1>9 DEF LastBlock
  <2>2. Data(p, r) = <<>>
    BY <1>3, <2>1, DataNone
  <2>3. 0 = UpdateTake(s, n) /\ s = UpdateFirst(s, from, n)
    BY <1>7, <2>2 DEF UpdateTake, UpdateFirst
  <2>4. PICK whole \in Nat : whole = WholeBlocks(n)
    <3>1. LastBlock(n) \in Nat
      <4>1. n <= CHUNK_LEN /\ n \in Nat
        BY <1>0, <2>1
      <4> QED
        BY <1>0, <4>1, LastBlockBounds
    <3> QED
      BY <3>1, WholeIs
  <2>5. n = n - 0 /\ from = from + 0
    OBVIOUS
  <2>6. PICK f : /\ f[0] = s /\ BlockRun(f, whole, from)
                 /\ chunk_state_update(s, from, n) =
                      chunk_state_fill_buf(f[whole], from + BLOCK_LEN * whole, n - BLOCK_LEN * whole)
    BY <2>3, <2>4, <2>5, UpdateIs
  <2>7. f[0] = ChunkState(k, fl, c, b, <<>>)
    BY <1>7, <2>2, <2>6
  <2>8. m = BLOCK_LEN * b + n /\ from = CHUNK_LEN * c + BLOCK_LEN * b
    BY <1>3, <2>1
  <2>9. chunk_state_fill_buf(f[whole], from + BLOCK_LEN * whole, n - BLOCK_LEN * whole) = ChunkAt(k, fl, c, m)
    BY <1>2, <2>1, <2>4, <2>6, <2>7, <2>8, AfterBlocks
  <2> QED
    BY <1>6, <2>6, <2>9
<1>10. CASE L # 0
  <2>1. r # 0 /\ Data(p, r) # <<>>
    BY <1>5, <1>8, <1>10
  <2>2. UpdateTake(s, n) = MinOf(BLOCK_LEN - r, n)
    BY <1>7, <1>8, <2>1 DEF UpdateTake
  <2>3. PICK take \in Nat : take = MinOf(BLOCK_LEN - r, n)
    BY <1>0, <1>5 DEF MinOf
  <2>4. PICK x \in Nat : x = r + take
    BY <1>5
  <2>5. from = p + r
    BY <1>3, <1>4
  <2>6. PICK full : full = chunk_state_fill_buf(s, from, n)
    OBVIOUS
  <2>7. full = ChunkState(k, fl, c, b, Data(p, x)) /\ full.buf = Data(p, x)
    <3>1. full = ChunkState(k, fl, c, b, Data(p, x))
      <4>1. Fills(p, r, n, from, x)
        BY <1>3, <1>5, <2>3, <2>4, <2>5 DEF Fills
      <4> QED
        BY <1>7, <2>6, <4>1, BufferFilled
    <3> QED
      BY <3>1 DEF ChunkState
  <2>8. CASE n <= BLOCK_LEN - r
    <3>1. take = n /\ x = r + n /\ x \in 0 .. BLOCK_LEN
      BY <1>0, <1>5, <2>3, <2>4, <2>8 DEF MinOf
    <3>2. full = UpdateFirst(s, from, n)
      BY <1>7, <2>1, <2>2, <2>3, <2>6, <3>1 DEF UpdateFirst
    <3>3. WholeBlocks(0) = 0
      BY <1>0 DEF WholeBlocks
    <3>4. PICK q : q = from + take
      OBVIOUS
    <3>5. 0 = n - take /\ take = UpdateTake(s, n) /\ 0 \in Nat
      BY <2>2, <2>3, <3>1
    <3>6. PICK f : /\ f[0] = full
                   /\ chunk_state_update(s, from, n) =
                        chunk_state_fill_buf(f[0], q + BLOCK_LEN * 0, 0 - BLOCK_LEN * 0)
      BY <3>2, <3>3, <3>4, <3>5, UpdateIs
    <3>7. q + BLOCK_LEN * 0 = q /\ 0 - BLOCK_LEN * 0 = 0 /\ q \in Nat /\ q = p + x
      <4>1. q \in Nat /\ q = p + x
        BY <1>5, <2>4, <2>5, <3>4
      <4>2. BLOCK_LEN * 0 = 0
        BY <1>0
      <4> QED
        BY <4>1, <4>2
    <3>8. chunk_state_fill_buf(ChunkState(k, fl, c, b, Data(p, x)), q, 0) = ChunkState(k, fl, c, b, Data(p, x))
      <4>1. x = x + MinOf(BLOCK_LEN - x, 0)
        BY <1>0, <3>1 DEF MinOf
      <4>2. Fills(p, x, 0, q, x)
        BY <1>3, <2>4, <3>1, <3>7, <4>1 DEF Fills
      <4> QED
        BY <4>2, BufferFilled
    <3>9. LastBlock(m) = b
      <4>1. m \in Nat \ {0} /\ BLOCK_LEN * b < m /\ m <= BLOCK_LEN * b + BLOCK_LEN
        BY <1>0, <1>3, <1>4, <1>5, <1>10, <3>1
      <4> QED
        BY <1>2, <4>1, LastBlockIs
    <3>10. m - BLOCK_LEN * b = x
      BY <1>3, <1>4, <3>1
    <3>11. ChunkAt(k, fl, c, m) = ChunkState(k, fl, c, b, Data(p, x))
      BY <1>3, <3>9, <3>10 DEF ChunkAt
    <3> QED
      BY <1>6, <2>7, <3>6, <3>7, <3>8, <3>11
  <2>9. CASE n > BLOCK_LEN - r
    <3>1. take = BLOCK_LEN - r /\ x = BLOCK_LEN /\ n > take
      BY <1>0, <1>5, <2>3, <2>4, <2>9 DEF MinOf
    <3>2. PICK first : first = compress_block(full, full.buf)
      OBVIOUS
    <3>3. first = UpdateFirst(s, from, n)
      BY <1>7, <2>1, <2>2, <2>3, <2>6, <3>1, <3>2 DEF UpdateFirst
    <3>4. PICK e \in Nat : e = b + 1
      BY <1>2
    <3>5. first = ChunkState(k, fl, c, e, <<>>)
      BY <1>2, <1>3, <2>7, <3>1, <3>2, <3>4, BlockCompressed
    <3>6. PICK left \in Nat : left = n - take /\ left # 0
      BY <2>3, <3>1
    <3>7. PICK u \in Nat : u = BLOCK_LEN * e
      BY <1>0, <3>4
    <3>a. u = t + BLOCK_LEN
      BY <1>0, <1>2, <1>3, <3>4, <3>7
    <3>8. m = u + left
      BY <1>0, <1>3, <1>4, <3>1, <3>6, <3>a
    <3>9. PICK base \in Nat : base = from + take /\ base = o + u
      <4>1. from + take = o + u
        BY <1>0, <1>3, <1>4, <2>5, <3>1, <3>a
      <4> QED
        BY <1>3, <4>1
    <3>10. PICK whole \in Nat : whole = WholeBlocks(left)
      <4>1. LastBlock(left) \in Nat
        <5>1. left <= CHUNK_LEN
          BY <1>0, <3>6, <3>7, <3>8
        <5>2. LastBlock(left) \in 0 .. ChunkBlocks - 1
          BY <5>1, LastBlockBounds, Zenon
        <5> QED
          BY <1>0, <5>2
      <4> QED
        BY <3>6, <4>1, WholeIs
    <3>11. take = UpdateTake(s, n)
      BY <2>2, <2>3
    <3>12. PICK f : /\ f[0] = first /\ BlockRun(f, whole, base)
                    /\ chunk_state_update(s, from, n) =
                         chunk_state_fill_buf(f[whole], base + BLOCK_LEN * whole, left - BLOCK_LEN * whole)
      BY <3>3, <3>6, <3>9, <3>10, <3>11, UpdateIs
    <3>13. chunk_state_fill_buf(f[whole], base + BLOCK_LEN * whole, left - BLOCK_LEN * whole) = ChunkAt(k, fl, c, m)
      <4>1. base = CHUNK_LEN * c + BLOCK_LEN * e /\ m = BLOCK_LEN * e + left
        BY <1>3, <3>7, <3>8, <3>9
      <4>2. f[0] = ChunkState(k, fl, c, e, <<>>)
        BY <3>5, <3>12
      <4> QED
        BY <3>4, <3>6, <3>10, <3>12, <4>1, <4>2, AfterBlocks
    <3> QED
      BY <1>6, <3>12, <3>13
  <2> QED
    BY <1>0, <1>5, <2>8, <2>9
<1> QED
  BY <1>9, <1>10

(* The output of a chunk is its leaf of the tree. *)
LEMMA ChunkOutput ==
  ASSUME NEW k, NEW fl \in Nat, NEW c \in Nat, NEW n \in 0 .. CHUNK_LEN, NEW from \in Nat, from = CHUNK_LEN * c
  PROVE  chunk_state_output(ChunkAt(k, fl, c, n)) = NodeOf(k, fl, from, n)
<1>0. CHUNK_LEN \in Nat \ {0} /\ BLOCK_LEN \in Nat \ {0} /\ n \in Nat /\ n <= CHUNK_LEN
  BY Lengths1
<1>1. PICK b : b = LastBlock(n)
  OBVIOUS
<1>2. PICK p \in Nat, r \in 0 .. BLOCK_LEN : p = from + BLOCK_LEN * b /\ r = n - BLOCK_LEN * b
  <2>1. BLOCK_LEN * b \in Nat /\ n - BLOCK_LEN * b \in 0 .. BLOCK_LEN
    BY <1>0, <1>1, LastBlockBounds
  <2> QED
    BY <2>1
<1>3. PICK d : d = Data(p, r)
  OBVIOUS
<1>4. Len(d) = r
  BY <1>0, <1>2, <1>3, DataIs
<1>5. PICK st : st = ChunkState(k, fl, c, b, d)
  OBVIOUS
<1>6. ChunkAt(k, fl, c, n) = st
  BY <1>1, <1>2, <1>3, <1>5 DEF ChunkAt
<1>7. st.cv = ChunkCV(k, fl, from, b) /\ st.chunk_counter = c /\ st.buf = d /\ st.blocks_compressed = b /\ st.flags = fl
  BY <1>5 DEF ChunkState
<1>8. PICK f : f = fl + CHUNK_END + IF b = 0 THEN CHUNK_START ELSE 0
  OBVIOUS
<1>9. st.flags + maybe_start_flag(st) + CHUNK_END = f
  BY <1>7, <1>8 DEF maybe_start_flag, CHUNK_START, CHUNK_END
<1>10. chunk_state_output(st) =
         [input_cv |-> ChunkCV(k, fl, from, b), block |-> ZeroPadded(d), block_len |-> r, counter |-> c, flags |-> f]
  BY <1>4, <1>7, <1>9 DEF chunk_state_output, make_output
<1>11. from \div CHUNK_LEN = c
  <2>1. from = CHUNK_LEN * c + 0 /\ 0 \in 0 .. CHUNK_LEN - 1
    BY <1>0
  <2> QED
    BY <1>0, <2>1, DivMod
<1>12. Leaf(k, fl, from, n) =
         [input_cv |-> ChunkCV(k, fl, from, b), block |-> ZeroPadded(d), block_len |-> r, counter |-> c, flags |-> f]
  BY <1>1, <1>2, <1>3, <1>8, <1>11, Zenon DEF Leaf, LastBlock
<1>13. NodeOf(k, fl, from, n) = Leaf(k, fl, from, n)
  BY <1>0, NodeLeaf
<1> QED
  BY <1>6, <1>10, <1>12, <1>13

(* hash_chunk, a block at a time. *)
HashStep(from, counter, b, cv) ==
  Compress(cv, Data(from + BLOCK_LEN * (b - 1), BLOCK_LEN), BLOCK_LEN, counter,
           flags + (IF b = 1 THEN CHUNK_START ELSE 0) + IF b = ChunkBlocks THEN CHUNK_END ELSE 0)
HashChain(from, counter, n, f) ==
  f = [b \in 0 .. n |-> IF b = 0 THEN key ELSE HashStep(from, counter, b, f[b - 1])]

(* Such a chain exists. *)
LEMMA HashChainExists ==
  ASSUME NEW from, NEW counter, NEW n \in Nat
  PROVE  \E f : HashChain(from, counter, n, f)
<1> DEFINE Set == {m \in Nat : \E f : HashChain(from, counter, m, f)}
<1>1. 0 \in Set
  <2>1. PICK f : f = [b \in 0 .. 0 |-> key]
    OBVIOUS
  <2>2. f = [b \in 0 .. 0 |-> IF b = 0 THEN key ELSE HashStep(from, counter, b, f[b - 1])]
    BY <2>1
  <2> QED
    BY <2>2 DEF HashChain
<1>2. ASSUME NEW m \in Nat, m \in Set PROVE m + 1 \in Set
  <2>1. PICK f : f = [b \in 0 .. m |-> IF b = 0 THEN key ELSE HashStep(from, counter, b, f[b - 1])]
    BY <1>2 DEF HashChain
  <2>2. PICK h : h = [b \in 0 .. m + 1 |-> IF b = 0 THEN key ELSE HashStep(from, counter, b, f[b - 1])]
    OBVIOUS
  <2>3. \A b \in 0 .. m : h[b] = f[b]
    BY <2>1, <2>2
  <2>4. \A b \in 0 .. m + 1 : b # 0 => b - 1 \in 0 .. m
    OBVIOUS
  <2>5. h = [b \in 0 .. m + 1 |-> IF b = 0 THEN key ELSE HashStep(from, counter, b, h[b - 1])]
    BY <2>2, <2>3, <2>4
  <2> QED
    BY <2>5 DEF HashChain
<1> HIDE DEF Set
<1>3. Nat \subseteq Set
  BY <1>1, <1>2, AllNumbers
<1> QED
  BY <1>3 DEF Set

(* hash_many on a chunk: the chaining value of its leaf. *)
LEMMA HashChunkIs ==
  ASSUME NEW fl \in Nat, flags = fl, NEW c \in Nat, NEW from \in Nat, from = CHUNK_LEN * c
  PROVE  hash_chunk(from, c) = output_chaining_value(NodeOf(key, fl, from, CHUNK_LEN))
<1>0. PICK N \in Nat \ {0}, B \in Nat \ {0} : N = ChunkBlocks /\ B = BLOCK_LEN /\ CHUNK_LEN = B * N
  BY Lengths1 DEF ChunkBlocks
<1>1. PICK f : f = CHOOSE u : HashChain(from, c, ChunkBlocks, u)
  OBVIOUS
<1>2. HashChain(from, c, N, f)
  BY <1>0, <1>1, HashChainExists
<1>3. hash_chunk(from, c) = f[N]
  BY <1>0, <1>1 DEF hash_chunk, HashChain, HashStep, ChunkBlocks
<1>4. from \div CHUNK_LEN = c
  <2>1. from = CHUNK_LEN * c + 0 /\ 0 \in 0 .. CHUNK_LEN - 1 /\ CHUNK_LEN \in Nat \ {0}
    BY Lengths1
  <2> QED
    BY <2>1, DivMod
<1> DEFINE Set == {b \in Nat : b < N => f[b] = ChunkCV(key, fl, from, b)}
<1>5. 0 \in Set
  <2>1. f[0] = key
    BY <1>0, <1>2 DEF HashChain
  <2>2. ChunkCV(key, fl, from, 0) = key
    BY ChunkCVFirst
  <2> QED
    BY <2>1, <2>2
<1>6. ASSUME NEW b \in Nat, b \in Set PROVE b + 1 \in Set
  <2> SUFFICES ASSUME b + 1 < N PROVE f[b + 1] = ChunkCV(key, fl, from, b + 1)
    OBVIOUS
  <2>1. PICK j : j = b + 1
    OBVIOUS
  <2>2. j \in 0 .. N /\ j # 0 /\ j - 1 = b /\ j # N /\ b \in 0 .. N - 1 /\ b < N
    BY <1>0, <2>1
  <2>3. f[j] = HashStep(from, c, j, f[j - 1])
    BY <1>2, <2>2, Zenon DEF HashChain
  <2>4. ChunkCV(key, fl, from, j) = ChunkStep(fl, from, j, ChunkCV(key, fl, from, b))
    BY <1>0, <2>1, <2>2, ChunkCVNext
  <2>5. f[b] = ChunkCV(key, fl, from, b)
    BY <1>6, <2>2
  <2>6. flags + (IF j = 1 THEN CHUNK_START ELSE 0) + (IF j = ChunkBlocks THEN CHUNK_END ELSE 0)
          = fl + IF j = 1 THEN CHUNK_START ELSE 0
    BY <1>0, <2>2 DEF CHUNK_START
  <2>7. HashStep(from, c, j, f[b]) = ChunkStep(fl, from, j, f[b])
    BY <1>4, <2>6, Zenon DEF HashStep, ChunkStep
  <2> QED
    BY <2>1, <2>2, <2>3, <2>4, <2>5, <2>7
<1> HIDE DEF Set
<1>7. Nat \subseteq Set
  BY <1>5, <1>6, AllNumbers
<1>8. PICK b \in Nat : N = b + 1
  <2>1. N - 1 \in Nat /\ N = (N - 1) + 1
    OBVIOUS
  <2> QED
    BY <2>1
<1>9. f[b] = ChunkCV(key, fl, from, b)
  BY <1>7, <1>8 DEF Set
<1>10. f[N] = HashStep(from, c, N, f[b])
  <2>1. N \in 0 .. N /\ N # 0 /\ N - 1 = b
    BY <1>8
  <2> QED
    BY <1>2, <2>1, Zenon DEF HashChain
<1>11. LastBlock(CHUNK_LEN) = b
  <2>1. CHUNK_LEN \in Nat \ {0}
    BY Lengths1
  <2>2. BLOCK_LEN * b < CHUNK_LEN /\ CHUNK_LEN <= BLOCK_LEN * b + BLOCK_LEN
    BY <1>0, <1>8
  <2> QED
    BY <2>1, <2>2, LastBlockIs
<1>12. PICK p \in Nat : p = from + BLOCK_LEN * b
  BY <1>0
<1>13. PICK d : d = Data(p, BLOCK_LEN)
  OBVIOUS
<1>14. ZeroPadded(d) = d
  <2>1. d \in Seq(Nat) /\ Len(d) = BLOCK_LEN
    BY <1>0, <1>12, <1>13, DataIs
  <2>2. [i \in 1 .. BLOCK_LEN - Len(d) |-> 0] = <<>>
    BY <1>0, <2>1
  <2>3. ZeroPadded(d) = d \o <<>>
    BY <2>2, Zenon DEF ZeroPadded
  <2>4. d \o <<>> = d
    BY <2>1, ConcatEmptySeq
  <2> QED
    BY <2>3, <2>4
<1>15. CHUNK_LEN - BLOCK_LEN * b = BLOCK_LEN
  BY <1>0, <1>8
<1>16. PICK g : g = fl + CHUNK_END + IF b = 0 THEN CHUNK_START ELSE 0
  OBVIOUS
<1>17. Leaf(key, fl, from, CHUNK_LEN) =
         [input_cv |-> ChunkCV(key, fl, from, b), block |-> d, block_len |-> BLOCK_LEN, counter |-> c, flags |-> g]
  <2>1. (IF CHUNK_LEN = 0 THEN 0 ELSE (CHUNK_LEN - 1) \div BLOCK_LEN) = b
    BY <1>11 DEF LastBlock
  <2> QED
    BY <1>4, <1>12, <1>13, <1>14, <1>15, <1>16, <2>1, Zenon DEF Leaf
<1>18. output_chaining_value(Leaf(key, fl, from, CHUNK_LEN)) =
         Compress(ChunkCV(key, fl, from, b), d, BLOCK_LEN, c, g)
  BY <1>17 DEF output_chaining_value
<1>19. HashStep(from, c, N, f[b]) = Compress(f[b], d, BLOCK_LEN, c, g)
  <2>1. flags + (IF N = 1 THEN CHUNK_START ELSE 0) + (IF N = ChunkBlocks THEN CHUNK_END ELSE 0) = g
    BY <1>0, <1>8, <1>16 DEF CHUNK_START, CHUNK_END
  <2>2. N - 1 = b
    BY <1>8
  <2> QED
    BY <1>12, <1>13, <2>1, <2>2, Zenon DEF HashStep
<1>20. NodeOf(key, fl, from, CHUNK_LEN) = Leaf(key, fl, from, CHUNK_LEN)
  BY Lengths1, NodeLeaf
<1> QED
  BY <1>3, <1>9, <1>10, <1>18, <1>19, <1>20

-----------------------------------------------------------------------------
(* Rows of chaining values: M of one level, from the ath on. *)
Row(t, l, a, M) == [k \in 1 .. M |-> t[l][a + k - 1]]

(* M values of a level, from number a on. *)
IsRow(r, t, l, a, M) ==
  /\ r \in Seq(Values(t)) /\ Len(r) = M
  /\ \A k \in 1 .. M : r[k] = t[l][a + k - 1]

(* The row is one. *)
LEMMA RowIs ==
  ASSUME NEW t, NEW l \in 0 .. MAX_DEPTH, NEW a \in Nat, NEW M \in Nat
  PROVE  IsRow(Row(t, l, a, M), t, l, a, M)
<1>1. \A i \in Nat : t[l][i] \in Values(t)
  BY DEF Values
<1>2. \A k \in 1 .. M : a + k - 1 \in Nat
  OBVIOUS
<1>3. \A k \in 1 .. M : t[l][a + k - 1] \in Values(t)
  BY <1>1, <1>2
<1>4. PICK r : r = Row(t, l, a, M)
  OBVIOUS
<1>5. r = [k \in 1 .. M |-> t[l][a + k - 1]]
  BY <1>4 DEF Row
<1>6. r \in Seq(Values(t)) /\ Len(r) = M
  BY <1>3, <1>5
<1>7. \A k \in 1 .. M : r[k] = t[l][a + k - 1]
  BY <1>5
<1> QED
  BY <1>4, <1>6, <1>7 DEF IsRow

(* A subtree of one chunk is the chunk. *)
LEMMA ChunkSubtree ==
  ASSUME NEW k, NEW fl, NEW c \in Nat, NEW from, from = CHUNK_LEN * c
  PROVE  Subtrees(k, fl)[0][c] = output_chaining_value(NodeOf(k, fl, from, CHUNK_LEN))
<1>1. CHUNK_LEN * Two[0] = CHUNK_LEN /\ 0 \in 0 .. MAX_DEPTH
  BY TwoIs, Lengths1
<1>2. CHUNK_LEN * Two[0] * c = from
  BY <1>1
<1>3. Subtrees(k, fl)[0][c] = SubtreeAt(k, fl, 0, c)
  BY <1>1 DEF Subtrees
<1> QED
  BY <1>1, <1>2, <1>3, Zenon DEF SubtreeAt

(* chunk_cv of a whole chunk. *)
LEMMA ChunkCvIs ==
  ASSUME NEW fl \in Nat, flags = fl, NEW c \in Nat, NEW from \in Nat, from = CHUNK_LEN * c
  PROVE  chunk_cv(from, CHUNK_LEN, c) = Subtrees(key, fl)[0][c]
<1>1. chunk_state_init(key, fl, c) = ChunkAt(key, fl, c, 0)
  BY ChunkStarts
<1>2. CHUNK_LEN \in Nat /\ CHUNK_LEN \in 0 .. CHUNK_LEN /\ CHUNK_LEN = 0 + CHUNK_LEN /\ from = CHUNK_LEN * c + 0
  BY Lengths1
<1>3. chunk_state_update(ChunkAt(key, fl, c, 0), from, CHUNK_LEN) = ChunkAt(key, fl, c, CHUNK_LEN)
  <2>1. Extends(c, 0, CHUNK_LEN, CHUNK_LEN, from)
    BY <1>2 DEF Extends
  <2> QED
    BY <2>1, ChunkUpdate
<1>4. chunk_state_output(ChunkAt(key, fl, c, CHUNK_LEN)) = NodeOf(key, fl, from, CHUNK_LEN)
  BY <1>2, ChunkOutput
<1>5. chunk_cv(from, CHUNK_LEN, c) = output_chaining_value(NodeOf(key, fl, from, CHUNK_LEN))
  BY <1>1, <1>3, <1>4, Zenon DEF chunk_cv
<1> QED
  BY <1>5, ChunkSubtree

(* Whole chunks hashed in parallel are a row of the lowest level. *)
LEMMA ChunksRow ==
  ASSUME NEW fl \in Nat, flags = fl, NEW c \in Nat, NEW M \in Nat,
         NEW from \in Nat, from = CHUNK_LEN * c, NEW n \in Nat, n = CHUNK_LEN * M
  PROVE  compress_chunks_parallel(from, n, c) = Row(Subtrees(key, fl), 0, c, M)
<1>1. n \div CHUNK_LEN = M /\ n % CHUNK_LEN = 0
  <2>1. n = CHUNK_LEN * M + 0 /\ 0 \in 0 .. CHUNK_LEN - 1 /\ CHUNK_LEN \in Nat \ {0}
    BY Lengths1
  <2> QED
    BY <2>1, DivMod
<1>2. PICK t : t = Subtrees(key, fl)
  OBVIOUS
<1>3. \A k \in 1 .. M : hash_chunk(from + CHUNK_LEN * (k - 1), c + k - 1) = t[0][c + k - 1]
  <2> TAKE k \in 1 .. M
  <2>1. PICK e \in Nat : e = c + k - 1
    OBVIOUS
  <2>2. PICK p \in Nat : p = CHUNK_LEN * e
    BY Lengths1
  <2>3. from + CHUNK_LEN * (k - 1) = p
    BY <2>1, <2>2, Lengths1
  <2>4. hash_chunk(p, e) = output_chaining_value(NodeOf(key, fl, p, CHUNK_LEN))
    BY <2>2, HashChunkIs
  <2>5. t[0][e] = output_chaining_value(NodeOf(key, fl, p, CHUNK_LEN))
    BY <1>2, <2>2, ChunkSubtree
  <2> QED
    BY <2>1, <2>3, <2>4, <2>5
<1>4. PICK r : r = [k \in 1 .. M |-> hash_chunk(from + CHUNK_LEN * (k - 1), c + k - 1)]
  OBVIOUS
<1>5. r = Row(t, 0, c, M)
  BY <1>3, <1>4 DEF Row
<1>6. compress_chunks_parallel(from, n, c) = r \o <<>>
  BY <1>1, <1>4, Zenon DEF compress_chunks_parallel
<1>7. r \o <<>> = r
  <2>1. 0 \in 0 .. MAX_DEPTH
    BY TwoIs
  <2>2. r \in Seq(Values(t))
    BY <1>5, <2>1, RowIs DEF IsRow
  <2> QED
    BY <2>2, ConcatEmptySeq
<1> QED
  BY <1>2, <1>5, <1>6, <1>7

(* A row of pairs, at the start of cvs. *)
PairsIn(t, l, a, M, n, cvs) ==
  /\ l \in 0 .. MAX_DEPTH - 1 /\ a \in Nat /\ M \in Nat /\ n = 2 * M
  /\ \A k \in 1 .. n : cvs[k] = t[l][2 * a + k - 1]

(* Their parents are a row of the next level. *)
LEMMA ParentsRow ==
  ASSUME NEW t, Joins(t), NEW l, NEW a, NEW M, NEW n, NEW cvs, PairsIn(t, l, a, M, n, cvs)
  PROVE  compress_parents_parallel(cvs, n) = Row(t, l + 1, a, M)
<1> /\ l \in 0 .. MAX_DEPTH - 1 /\ a \in Nat /\ M \in Nat /\ n = 2 * M
    /\ \A k \in 1 .. n : cvs[k] = t[l][2 * a + k - 1]
  BY DEF PairsIn
<1>1. n \div 2 = M /\ n % 2 = 0
  OBVIOUS
<1>2. \A k \in 1 .. M : parent_cv(cvs[2 * k - 1], cvs[2 * k]) = t[l + 1][a + k - 1]
  <2> TAKE k \in 1 .. M
  <2>1. PICK i \in Nat : i = a + k - 1
    OBVIOUS
  <2>2. PICK x, y : x = 2 * k - 1 /\ y = 2 * k
    OBVIOUS
  <2>3. x \in 1 .. n /\ y \in 1 .. n /\ 2 * a + x - 1 = 2 * i /\ 2 * a + y - 1 = 2 * i + 1
    BY <2>1, <2>2
  <2>4. cvs[x] = t[l][2 * i] /\ cvs[y] = t[l][2 * i + 1]
    BY <2>3
  <2>5. parent_cv(t[l][2 * i], t[l][2 * i + 1]) = t[l + 1][i]
    BY DEF Joins
  <2> QED
    BY <2>1, <2>2, <2>4, <2>5
<1>3. PICK r : r = [k \in 1 .. M |-> parent_cv(cvs[2 * k - 1], cvs[2 * k])]
  OBVIOUS
<1>4. r = Row(t, l + 1, a, M)
  BY <1>2, <1>3 DEF Row
<1>5. compress_parents_parallel(cvs, n) = r \o <<>>
  BY <1>1, <1>3 DEF compress_parents_parallel
<1>6. r \o <<>> = r
  <2>1. l + 1 \in 0 .. MAX_DEPTH
    BY TwoIs
  <2>2. r \in Seq(Values(t))
    BY <1>4, <2>1, RowIs DEF IsRow
  <2> QED
    BY <2>2, ConcatEmptySeq
<1> QED
  BY <1>4, <1>5, <1>6

-----------------------------------------------------------------------------
(* The power of two that is asked for is the only one. *)
LEMMA RoundDownIs ==
  ASSUME NEW k \in 0 .. SizeBits, NEW x \in Nat, Two[k] <= x, x < 2 * Two[k]
  PROVE  round_down_to_power_of_2(x) = Two[k]
<1>1. \A i \in 0 .. SizeBits : Two[i] \in Nat \ {0} /\ 2^i = Two[i]
  BY TwoIs
<1>2. ASSUME NEW i \in 0 .. SizeBits, NEW j \in 0 .. SizeBits, i < j, Two[j] <= x
      PROVE  2 * Two[i] <= x
  <2>1. i + 1 \in 0 .. SizeBits /\ i + 1 <= j /\ i \in 0 .. SizeBits - 1
    BY <1>2, TwoIs
  <2>2. Two[i + 1] <= Two[j]
    BY <2>1, PowersGrow, TwoIs, SMTT(40)
  <2>3. Two[i + 1] = 2 * Two[i]
    BY <2>1, TwoIs
  <2> QED
    BY <1>1, <1>2, <2>1, <2>2, <2>3
<1>3. ASSUME NEW q, q \in {2^i : i \in 0 .. SizeBits}, q <= x, x < 2 * q
      PROVE  q = Two[k]
  <2>1. PICK i \in 0 .. SizeBits : q = Two[i]
    BY <1>1, <1>3
  <2>2. ~ (i < k)
    BY <1>1, <1>2, <1>3, <2>1
  <2>3. ~ (k < i)
    BY <1>1, <1>2, <1>3, <2>1
  <2> QED
    BY <2>1, <2>2, <2>3, TwoIs
<1>4. Two[k] \in {2^i : i \in 0 .. SizeBits}
  BY <1>1
<1> QED
  BY <1>3, <1>4 DEF round_down_to_power_of_2

(* The left side of a subtree of whole chunks is half of it. *)
LEMMA LeftLenIs ==
  ASSUME NEW j \in 0 .. MAX_DEPTH - 1, NEW n \in Nat, n = CHUNK_LEN * Two[j + 1]
  PROVE  left_len(n) = CHUNK_LEN * Two[j]
<1>1. PICK x \in Nat \ {0} : x = Two[j] /\ Two[j + 1] = 2 * x
  BY TwoIs
<1>2. PICK y \in Nat : y = 2 * x - 1
  OBVIOUS
<1>3. PICK C \in Nat \ {0} : C = CHUNK_LEN
  BY Lengths1
<1>4. n - 1 = C * y + (C - 1) /\ C - 1 \in 0 .. C - 1
  <2>1. n = C * (2 * x)
    BY <1>1, <1>3
  <2>2. C * (2 * x) = C * y + C
    BY <1>2
  <2> QED
    BY <2>1, <2>2
<1>5. (n - 1) \div C = y
  <2>1. PICK z, r : z = n - 1 /\ r = C - 1
    OBVIOUS
  <2>2. z = C * y + r /\ r \in 0 .. C - 1
    BY <1>4, <2>1
  <2>3. z \div C = y
    BY <2>2, DivMod
  <2> QED
    BY <2>1, <2>3
<1>6. round_down_to_power_of_2(y) = x
  <2>1. j \in 0 .. SizeBits /\ Two[j] <= y /\ y < 2 * Two[j]
    BY <1>1, <1>2, TwoIs
  <2> QED
    BY <1>1, <1>2, <2>1, RoundDownIs
<1>7. left_len(n) = x * C
  BY <1>3, <1>5, <1>6 DEF left_len
<1> QED
  BY <1>1, <1>3, <1>7

-----------------------------------------------------------------------------
(* compress_subtree_wide, a level of calls at a time. *)
WideOffset(ll) == IF ll > CHUNK_LEN /\ degree = 1 THEN 2 ELSE degree

(* The body of compress_subtree_wide, d calls above the deepest. *)
WideJoin(below, f, m, c, ll) ==
  JoinHalves(below[f][ll][c], below[f + ll][m - ll][c + ll \div CHUNK_LEN], WideOffset(ll))
WideBody(d, below) ==
  [f \in Nat |-> [m \in Nat |-> [c \in Nat |->
     IF d = 0 \/ m <= degree * CHUNK_LEN THEN compress_chunks_parallel(f, m, c)
     ELSE WideJoin(below, f, m, c, left_len(m))]]]
WideChain(n, w) == w = [d \in 0 .. n |-> WideBody(d, w[d - 1])]

(* The lowest level does not look at the one below. *)
LEMMA WideBodyZero ==
  ASSUME NEW x, NEW y
  PROVE  WideBody(0, x) = WideBody(0, y)
  BY DEF WideBody

(* Such a chain exists. *)
LEMMA WideChainExists ==
  ASSUME NEW n \in Nat
  PROVE  \E w : WideChain(n, w)
<1> DEFINE Set == {m \in Nat : \E w : WideChain(m, w)}
<1>1. 0 \in Set
  <2>1. PICK f : f = [d \in 0 .. 0 |-> WideBody(0, 0)]
    OBVIOUS
  <2>2. \A d \in 0 .. 0 : WideBody(d, f[d - 1]) = WideBody(0, 0)
    <3> TAKE d \in 0 .. 0
    <3>1. d = 0
      OBVIOUS
    <3> QED
      BY <3>1, WideBodyZero
  <2>3. f = [d \in 0 .. 0 |-> WideBody(d, f[d - 1])]
    BY <2>1, <2>2
  <2> QED
    BY <2>3 DEF WideChain
<1>2. ASSUME NEW m \in Nat, m \in Set PROVE m + 1 \in Set
  <2>1. PICK f : f = [d \in 0 .. m |-> WideBody(d, f[d - 1])]
    BY <1>2 DEF WideChain
  <2>2. PICK h : h = [d \in 0 .. m + 1 |-> WideBody(d, f[d - 1])]
    OBVIOUS
  <2>3. \A d \in 0 .. m : h[d] = f[d]
    BY <2>1, <2>2
  <2>4. \A d \in 0 .. m + 1 : WideBody(d, f[d - 1]) = WideBody(d, h[d - 1])
    <3> TAKE d \in 0 .. m + 1
    <3>1. CASE d = 0
      BY <3>1, WideBodyZero
    <3>2. CASE d # 0
      <4>1. d - 1 \in 0 .. m
        BY <3>2
      <4> QED
        BY <2>3, <4>1
    <3> QED
      BY <3>1, <3>2
  <2>5. h = [d \in 0 .. m + 1 |-> WideBody(d, h[d - 1])]
    BY <2>2, <2>4
  <2> QED
    BY <2>5 DEF WideChain
<1> HIDE DEF Set
<1>3. Nat \subseteq Set
  BY <1>1, <1>2, AllNumbers
<1> QED
  BY <1>3 DEF Set

(* w is the call at every level. *)
IsWide(w) ==
  /\ \A d \in 0 .. MAX_DEPTH, f, m, c \in Nat :
       d = 0 \/ m <= degree * CHUNK_LEN => w[d][f][m][c] = compress_chunks_parallel(f, m, c)
  /\ \A d \in 0 .. MAX_DEPTH - 1, f, m, c \in Nat :
       ~ (m <= degree * CHUNK_LEN) => w[d + 1][f][m][c] = WideJoin(w[d], f, m, c, left_len(m))

(* compress_subtree_wide, call by call. *)
LEMMA WideLevels ==
  \E w : IsWide(w) /\ \A f, m, c : compress_subtree_wide(f, m, c) = w[MAX_DEPTH][f][m][c]
<1>1. PICK w : w = CHOOSE u : WideChain(MAX_DEPTH, u)
  OBVIOUS
<1>2. WideChain(MAX_DEPTH, w)
  BY <1>1, WideChainExists, TwoIs
<1>3. \A f, m, c : compress_subtree_wide(f, m, c) = w[MAX_DEPTH][f][m][c]
  BY <1>1 DEF compress_subtree_wide, WideChain, WideBody, WideJoin, WideOffset
<1>4. \A d \in 0 .. MAX_DEPTH : w[d] = WideBody(d, w[d - 1])
  <2>1. w = [d \in 0 .. MAX_DEPTH |-> WideBody(d, w[d - 1])]
    BY <1>2 DEF WideChain
  <2> QED
    BY <2>1, Zenon
<1>5. ASSUME NEW d \in 0 .. MAX_DEPTH, NEW f \in Nat, NEW m \in Nat, NEW c \in Nat
      PROVE  w[d][f][m][c] = IF d = 0 \/ m <= degree * CHUNK_LEN THEN compress_chunks_parallel(f, m, c)
                             ELSE WideJoin(w[d - 1], f, m, c, left_len(m))
  <2>1. PICK below : below = w[d - 1]
    OBVIOUS
  <2>2. w[d] = WideBody(d, below)
    BY <1>4, <2>1, Zenon
  <2>3. WideBody(d, below)[f][m][c] =
          IF d = 0 \/ m <= degree * CHUNK_LEN THEN compress_chunks_parallel(f, m, c)
          ELSE WideJoin(below, f, m, c, left_len(m))
    BY DEF WideBody
  <2> QED
    BY <2>1, <2>2, <2>3
<1>6. ASSUME NEW d \in 0 .. MAX_DEPTH - 1, NEW f \in Nat, NEW m \in Nat, NEW c \in Nat,
             ~ (m <= degree * CHUNK_LEN)
      PROVE  w[d + 1][f][m][c] = WideJoin(w[d], f, m, c, left_len(m))
  <2>1. PICK e : e = d + 1
    OBVIOUS
  <2>2. e \in 0 .. MAX_DEPTH /\ e # 0 /\ e - 1 = d
    BY <2>1, TwoIs
  <2>3. w[e][f][m][c] = WideJoin(w[e - 1], f, m, c, left_len(m))
    BY <1>5, <1>6, <2>2, Zenon
  <2> QED
    BY <2>1, <2>2, <2>3
<1>7. IsWide(w)
  BY <1>5, <1>6, Zenon DEF IsWide
<1> QED
  BY <1>3, <1>7

(* The first powers of two. *)
LEMMA SmallPowers ==
  ASSUME NEW j \in 0 .. MAX_DEPTH
  PROVE  /\ j = 0 => Two[j] = 1
         /\ j = 1 => Two[j] = 2
         /\ j = 2 => Two[j] = 4
         /\ j = 3 => Two[j] = 8
         /\ j = 4 => Two[j] = 16
         /\ j > 4 => Two[j] > 16
<1>1. \A k \in 0 .. MAX_DEPTH : k # MAX_DEPTH => Two[k + 1] = 2 * Two[k]
  BY TwoIs
<1>2. Two[0] = 1 /\ MAX_DEPTH \in Nat
  BY TwoIs
<1>3. MAX_DEPTH >= 1 => Two[1] = 2
  <2>1. 0 + 1 = 1
    OBVIOUS
  <2> QED
    BY <1>1, <1>2, <2>1
<1>4. MAX_DEPTH >= 2 => Two[2] = 4
  <2>1. 1 + 1 = 2
    OBVIOUS
  <2> QED
    BY <1>1, <1>2, <1>3, <2>1
<1>5. MAX_DEPTH >= 3 => Two[3] = 8
  <2>1. 2 + 1 = 3
    OBVIOUS
  <2> QED
    BY <1>1, <1>2, <1>4, <2>1
<1>6. MAX_DEPTH >= 4 => Two[4] = 16
  <2>1. 3 + 1 = 4
    OBVIOUS
  <2> QED
    BY <1>1, <1>2, <1>5, <2>1
<1>7. MAX_DEPTH >= 5 => Two[5] = 32
  <2>1. 4 + 1 = 5
    OBVIOUS
  <2> QED
    BY <1>1, <1>2, <1>6, <2>1
<1>8. j > 4 => Two[j] > 16
  <2> SUFFICES ASSUME j > 4 PROVE Two[j] > 16
    OBVIOUS
  <2>1. 5 \in 0 .. SizeBits /\ j \in 0 .. SizeBits /\ 5 <= j /\ MAX_DEPTH >= 5
    BY TwoIs
  <2>2. Two[5] <= Two[j]
    BY <2>1, PowersGrow, TwoIs
  <2> QED
    BY <1>7, <2>1, <2>2, TwoIs
<1> QED
  BY <1>2, <1>3, <1>4, <1>5, <1>6, <1>8

(* The levels of parents below the values that are left, of 2^j chunks: the  *)
(* logarithm of their number.                                                *)
Lanes == CASE degree = 1 -> 1 [] degree = 4 -> 2 [] degree = 8 -> 3 [] degree = 16 -> 4

(* The levels between a subtree of 2^j chunks and the values returned for *)
(* it. *)
Held(j) == IF j <= Lanes THEN j ELSE Lanes

(* The levels held, for the degrees there are. *)
LEMMA LanesAre ==
  ASSUME degree \in {1, 4, 8, 16}, NEW j \in 0 .. MAX_DEPTH
  PROVE  /\ Lanes \in 1 .. 4 /\ Held(j) \in 0 .. 4 /\ Held(j) <= j
         /\ Two[j] <= degree => Held(j) = j
         /\ Two[j] > degree => j >= 1 /\ (degree = 1 => Lanes = 1)
                               /\ (degree # 1 => Lanes < j /\ degree = Two[Lanes])
<1>0. PICK x \in Nat :
        /\ x = Two[j] /\ j \in Nat
        /\ (j = 0 => x = 1) /\ (j = 1 => x = 2) /\ (j = 2 => x = 4) /\ (j = 3 => x = 8)
        /\ (j = 4 => x = 16) /\ (j > 4 => x > 16)
  <2>1. Two[j] \in Nat /\ j \in Nat
    BY TwoIs
  <2> QED
    BY <2>1, SmallPowers
<1>1. CASE degree = 1
  <2>1. Lanes = 1
    BY <1>1 DEF Lanes
  <2>2. Two[j] <= degree => j = 0
    BY <1>0, <1>1
  <2>3. Two[j] > degree => j >= 1
    BY <1>0, <1>1
  <2> QED
    BY <1>1, <2>1, <2>2, <2>3 DEF Held
<1>2. CASE degree = 4
  <2>1. Lanes = 2
    BY <1>2 DEF Lanes
  <2>2. Two[j] <= degree => j <= 2
    BY <1>0, <1>2
  <2>3. Two[j] > degree => j > 2
    BY <1>0, <1>2
  <2>4. j > 2 => Two[2] = 4
    <3>1. j > 2 => 2 \in 0 .. MAX_DEPTH
      BY TwoIs
    <3> QED
      BY <3>1, SmallPowers
  <2> QED
    BY <1>2, <2>1, <2>2, <2>3, <2>4 DEF Held
<1>3. CASE degree = 8
  <2>1. Lanes = 3
    BY <1>3 DEF Lanes
  <2>2. Two[j] <= degree => j <= 3
    BY <1>0, <1>3
  <2>3. Two[j] > degree => j > 3
    BY <1>0, <1>3
  <2>4. j > 3 => Two[3] = 8
    <3>1. j > 3 => 3 \in 0 .. MAX_DEPTH
      BY TwoIs
    <3> QED
      BY <3>1, SmallPowers
  <2> QED
    BY <1>3, <2>1, <2>2, <2>3, <2>4 DEF Held
<1>4. CASE degree = 16
  <2>1. Lanes = 4
    BY <1>4 DEF Lanes
  <2>2. Two[j] <= degree => j <= 4
    BY <1>0, <1>4
  <2>3. Two[j] > degree => j > 4
    BY <1>0, <1>4
  <2>4. j > 4 => Two[4] = 16
    <3>1. j > 4 => 4 \in 0 .. MAX_DEPTH
      BY TwoIs
    <3> QED
      BY <3>1, SmallPowers
  <2> QED
    BY <1>4, <2>1, <2>2, <2>3, <2>4 DEF Held
<1> QED
  BY <1>1, <1>2, <1>3, <1>4

(* The two sides of a parent, side by side. *)
LEMMA JoinSingles ==
  ASSUME NEW t, NEW l \in 0 .. MAX_DEPTH, NEW a \in Nat, NEW b, b = a + 1
  PROVE  JoinHalves(Row(t, l, a, 1), Row(t, l, b, 1), 1) = Row(t, l, a, 2)
<1>1. PICK x, y : x = Row(t, l, a, 1) /\ y = Row(t, l, b, 1)
  OBVIOUS
<1>2. Len(x) = 1 /\ Len(y) = 1 /\ x[1] = t[l][a] /\ y[1] = t[l][a + 1]
  <2>1. b \in Nat /\ 1 \in Nat /\ 1 \in 1 .. 1 /\ a + 1 - 1 = a /\ b + 1 - 1 = a + 1
    OBVIOUS
  <2>2. IsRow(x, t, l, a, 1) /\ IsRow(y, t, l, b, 1)
    BY <1>1, <2>1, RowIs
  <2> QED
    BY <2>1, <2>2 DEF IsRow
<1>3. PICK arr : arr = [k \in 1 .. 32 |->
                          IF k <= 1 THEN IF k <= Len(x) THEN x[k] ELSE Garbage
                          ELSE IF k - 1 <= Len(y) THEN y[k - 1] ELSE Garbage]
  OBVIOUS
<1>4. JoinHalves(x, y, 1) = SubSeq(arr, 1, 2)
  BY <1>2, <1>3 DEF JoinHalves
<1>5. arr[1] = t[l][a] /\ arr[2] = t[l][a + 1]
  BY <1>2, <1>3
<1>6. \A k \in 1 .. 2 : arr[k] = t[l][a + k - 1]
  <2> TAKE k \in 1 .. 2
  <2>1. CASE k = 1
    BY <1>5, <2>1
  <2>2. CASE k = 2
    BY <1>5, <2>2
  <2> QED
    BY <2>1, <2>2
<1>7. PICK z : z = Row(t, l, a, 2)
  OBVIOUS
<1>8. z \in Seq(Values(t)) /\ Len(z) = 2 /\ \A k \in 1 .. 2 : z[k] = t[l][a + k - 1]
  <2>1. 2 \in Nat
    OBVIOUS
  <2>2. IsRow(z, t, l, a, 2)
    BY <1>7, <2>1, RowIs
  <2> QED
    BY <2>2 DEF IsRow
<1>9. PICK u : u = SubSeq(arr, 1, 2)
  OBVIOUS
<1>10. u \in Seq(Values(t)) /\ Len(u) = 2 /\ \A k \in 1 .. 2 : u[k] = t[l][a + k - 1]
  <2>1. \A k \in 1 .. 2 : arr[k] \in Values(t)
    <3>1. ASSUME NEW k \in 1 .. 2 PROVE z[k] \in Values(t)
      <4>1. z \in Seq(Values(t)) /\ k \in 1 .. Len(z)
        BY <1>8
      <4> QED
        BY <4>1, ElementOfSeq
    <3> QED
      BY <1>6, <1>8, <3>1
  <2>2. /\ u \in Seq(Values(t)) /\ Len(u) = IF 1 <= 2 THEN 2 - 1 + 1 ELSE 0
        /\ \A k \in 1 .. 2 - 1 + 1 : u[k] = arr[1 + k - 1]
    BY <1>9, <2>1, SubSeqProperties
  <2>3. \A k \in 1 .. 2 : k \in 1 .. 2 - 1 + 1 /\ 1 + k - 1 = k
    OBVIOUS
  <2> QED
    BY <1>6, <2>2, <2>3
<1>11. u = z
  BY <1>8, <1>10, SeqEqual
<1> QED
  BY <1>1, <1>4, <1>7, <1>9, <1>11

(* Rows of M values, side by side. *)
TwoRows(l, a, M, p, r) ==
  l \in 0 .. MAX_DEPTH - 1 /\ a \in Nat /\ M \in 2 .. 16 /\ p = 2 * a /\ r = p + M

(* Their parents, laid out as compress_subtree_wide does. *)
LEMMA JoinRows ==
  ASSUME NEW t, Joins(t), NEW l, NEW a, NEW M, NEW p, NEW r, TwoRows(l, a, M, p, r)
  PROVE  JoinHalves(Row(t, l, p, M), Row(t, l, r, M), M) = Row(t, l + 1, a, M)
<1> l \in 0 .. MAX_DEPTH - 1 /\ a \in Nat /\ M \in 2 .. 16 /\ p = 2 * a /\ r = p + M
  BY DEF TwoRows
<1>1. PICK x, y : x = Row(t, l, p, M) /\ y = Row(t, l, r, M)
  OBVIOUS
<1>2. /\ Len(x) = M /\ Len(y) = M
      /\ \A k \in 1 .. M : x[k] = t[l][p + k - 1] /\ y[k] = t[l][r + k - 1]
  <2>1. l \in 0 .. MAX_DEPTH /\ p \in Nat /\ r \in Nat /\ M \in Nat
    BY TwoIs
  <2>2. IsRow(x, t, l, p, M) /\ IsRow(y, t, l, r, M)
    BY <1>1, <2>1, RowIs
  <2> QED
    BY <2>2 DEF IsRow
<1>3. PICK arr : arr = [k \in 1 .. 32 |->
                          IF k <= M THEN IF k <= Len(x) THEN x[k] ELSE Garbage
                          ELSE IF k - M <= Len(y) THEN y[k - M] ELSE Garbage]
  OBVIOUS
<1>4. JoinHalves(x, y, M) = compress_parents_parallel(arr, M + M)
  <2>1. Len(x) # 1
    BY <1>2
  <2>2. JoinHalves(x, y, M) = compress_parents_parallel(arr, Len(x) + Len(y))
    BY <1>3, <2>1, Zenon DEF JoinHalves
  <2> QED
    BY <1>2, <2>2
<1>5. \A k \in 1 .. M + M : arr[k] = t[l][2 * a + k - 1]
  <2> TAKE k \in 1 .. M + M
  <2>1. k \in 1 .. 32
    OBVIOUS
  <2>2. CASE k <= M
    <3>1. k \in 1 .. M /\ k <= Len(x)
      BY <1>2, <2>2
    <3>2. arr[k] = x[k]
      BY <1>3, <2>1, <2>2, <3>1
    <3> QED
      BY <1>2, <3>1, <3>2
  <2>3. CASE ~ (k <= M)
    <3>1. PICK e : e = k - M
      OBVIOUS
    <3>2. e \in 1 .. M /\ e <= Len(y) /\ r + e - 1 = 2 * a + k - 1
      BY <1>2, <2>3, <3>1
    <3>3. arr[k] = y[e]
      BY <1>3, <2>1, <2>3, <3>1, <3>2
    <3> QED
      BY <1>2, <3>2, <3>3
  <2> QED
    BY <2>2, <2>3
<1>6. compress_parents_parallel(arr, M + M) = Row(t, l + 1, a, M)
  <2>1. PICK n : n = M + M
    OBVIOUS
  <2>2. n = 2 * M /\ M \in Nat
    BY <2>1
  <2>3. \A k \in 1 .. n : arr[k] = t[l][2 * a + k - 1]
    BY <1>5, <2>1
  <2>4. PairsIn(t, l, a, M, n, arr)
    BY <2>2, <2>3 DEF PairsIn
  <2>5. compress_parents_parallel(arr, n) = Row(t, l + 1, a, M)
    BY <2>4, ParentsRow
  <2> QED
    BY <2>1, <2>5
<1> QED
  BY <1>1, <1>4, <1>6

(* The values that compress_subtree_wide leaves of 2^j chunks. *)
WideRow(t, j, i) == Row(t, j - Held(j), Two[Held(j)] * i, Two[Held(j)])

(* What a call returns for subtree i of 2^j chunks. *)
WideAt(w, d, t, j, i) ==
  \A f, m, c \in Nat :
    c = Two[j] * i /\ m = CHUNK_LEN * Two[j] /\ f = CHUNK_LEN * c => w[d][f][m][c] = WideRow(t, j, i)

(* A subtree no wider than the degree: all its chunks. *)
LEMMA WideLeaf ==
  ASSUME degree \in {1, 4, 8, 16}, NEW fl \in Nat, flags = fl, NEW w, IsWide(w), NEW d \in 0 .. MAX_DEPTH,
         NEW j \in 0 .. MAX_DEPTH, Two[j] <= degree, NEW i \in Nat
  PROVE  WideAt(w, d, Subtrees(key, fl), j, i)
<1>1. PICK t : t = Subtrees(key, fl)
  OBVIOUS
<1>2. SUFFICES ASSUME NEW f \in Nat, NEW m \in Nat, NEW c \in Nat,
                      c = Two[j] * i, m = CHUNK_LEN * Two[j], f = CHUNK_LEN * c
               PROVE  w[d][f][m][c] = WideRow(t, j, i)
  BY <1>1 DEF WideAt
<1>3. PICK x \in Nat : x = Two[j]
  BY TwoIs
<1>4. m <= degree * CHUNK_LEN
  <2>1. \A y, z, C \in Nat : y <= z => C * y <= z * C
    OBVIOUS
  <2> QED
    BY <1>2, <1>3, <2>1, Lengths1
<1>5. w[d][f][m][c] = compress_chunks_parallel(f, m, c)
  BY <1>4 DEF IsWide
<1>6. compress_chunks_parallel(f, m, c) = Row(t, 0, c, x)
  BY <1>1, <1>2, <1>3, ChunksRow
<1>7. WideRow(t, j, i) = Row(t, 0, c, x)
  <2>1. Held(j) = j /\ j - j = 0
    BY LanesAre
  <2> QED
    BY <1>2, <1>3, <2>1, Zenon DEF WideRow
<1> QED
  BY <1>5, <1>6, <1>7

(* A wider one: the parents of what its halves return. *)
LEMMA WideParent ==
  ASSUME degree \in {1, 4, 8, 16}, NEW t, Joins(t), NEW w, IsWide(w), NEW d \in 0 .. MAX_DEPTH - 1,
         NEW h \in 0 .. MAX_DEPTH - 1, Two[h + 1] > degree, \A i \in Nat : WideAt(w, d, t, h, i), NEW i \in Nat
  PROVE  WideAt(w, d + 1, t, h + 1, i)
<1>1. SUFFICES ASSUME NEW f \in Nat, NEW m \in Nat, NEW c \in Nat,
                      c = Two[h + 1] * i, m = CHUNK_LEN * Two[h + 1], f = CHUNK_LEN * c
               PROVE  w[d + 1][f][m][c] = WideRow(t, h + 1, i)
  BY DEF WideAt
<1>2. PICK x \in Nat \ {0} : x = Two[h] /\ Two[h + 1] = 2 * x
  BY TwoIs
<1>3. PICK C \in Nat \ {0} : C = CHUNK_LEN
  BY Lengths1
<1>4. PICK ll \in Nat : ll = C * x
  OBVIOUS
<1>5. m = 2 * ll /\ c = x * (2 * i) /\ f = ll * (2 * i)
  <2>1. C * (2 * x) = 2 * (C * x) /\ (2 * x) * i = x * (2 * i) /\ C * (x * (2 * i)) = (C * x) * (2 * i)
    OBVIOUS
  <2> QED
    BY <1>1, <1>2, <1>3, <1>4, <2>1
<1>6. ~ (m <= degree * CHUNK_LEN)
  <2>1. PICK g \in Nat : g = degree /\ g < 2 * x
    BY <1>2
  <2>2. g * C < (2 * x) * C
    <3>1. \A y, z \in Nat : y < z => y * C < z * C
      OBVIOUS
    <3> QED
      BY <2>1, <3>1
  <2>3. (2 * x) * C = m
    BY <1>4, <1>5
  <2>4. PICK u \in Nat : u = g * C
    OBVIOUS
  <2> QED
    BY <1>3, <2>1, <2>2, <2>3, <2>4
<1>7. left_len(m) = ll
  BY <1>1, <1>3, <1>4, <1>2, LeftLenIs
<1>8. w[d + 1][f][m][c] = WideJoin(w[d], f, m, c, ll)
  BY <1>6, <1>7 DEF IsWide
<1>9. PICK f2 \in Nat, c2 \in Nat, i1 \in Nat, i2 \in Nat :
        f2 = f + ll /\ c2 = c + x /\ i1 = 2 * i /\ i2 = 2 * i + 1
  OBVIOUS
<1>10. ll \div C = x /\ m - ll = ll
  <2>1. ll = C * x + 0 /\ 0 \in 0 .. C - 1
    BY <1>4
  <2>2. ll \div C = x
    BY <2>1, DivMod
  <2> QED
    BY <1>5, <2>2
<1>11. PICK left, right : left = w[d][f][ll][c] /\ right = w[d][f2][ll][c2]
  OBVIOUS
<1>12. w[d + 1][f][m][c] = JoinHalves(left, right, WideOffset(ll))
  BY <1>3, <1>8, <1>9, <1>10, <1>11 DEF WideJoin
<1>13. left = WideRow(t, h, i1)
  <2>1. c = Two[h] * i1 /\ ll = CHUNK_LEN * Two[h] /\ f = CHUNK_LEN * c
    BY <1>1, <1>2, <1>3, <1>4, <1>5, <1>9
  <2>2. \A a, b, e \in Nat : e = Two[h] * i1 /\ b = CHUNK_LEN * Two[h] /\ a = CHUNK_LEN * e
                              => w[d][a][b][e] = WideRow(t, h, i1)
    BY Zenon DEF WideAt
  <2>3. w[d][f][ll][c] = WideRow(t, h, i1)
    BY <2>1, <2>2
  <2> QED
    BY <1>11, <2>3
<1>14. right = WideRow(t, h, i2)
  <2>1. c2 = Two[h] * i2 /\ ll = CHUNK_LEN * Two[h]
    BY <1>2, <1>3, <1>4, <1>5, <1>9
  <2>2. f2 = CHUNK_LEN * c2
    <3>1. C * (c + x) = C * c + C * x
      OBVIOUS
    <3> QED
      BY <1>1, <1>3, <1>4, <1>9, <3>1
  <2>3. \A a, b, e \in Nat : e = Two[h] * i2 /\ b = CHUNK_LEN * Two[h] /\ a = CHUNK_LEN * e
                              => w[d][a][b][e] = WideRow(t, h, i2)
    BY Zenon DEF WideAt
  <2>4. w[d][f2][ll][c2] = WideRow(t, h, i2)
    BY <2>1, <2>2, <2>3
  <2> QED
    BY <1>11, <2>4
<1>15. h + 1 \in 0 .. MAX_DEPTH /\ h \in 0 .. MAX_DEPTH /\ h \in Nat
  BY TwoIs
<1>16. /\ Lanes \in 1 .. 4 /\ (degree = 1 => Lanes = 1)
       /\ degree # 1 => Lanes < h + 1 /\ degree = Two[Lanes]
  BY <1>15, LanesAre
<1>17. CASE h = 0
  <2>1. x = 1 /\ ll = C /\ degree = 1 /\ Lanes = 1
    <3>1. x = 1
      BY <1>2, <1>17, TwoIs
    <3>2. degree = 1
      BY <1>2, <3>1
    <3> QED
      BY <1>4, <1>16, <3>1, <3>2
  <2>2. Held(0) = 0 /\ Held(1) = 1 /\ Two[0] = 1 /\ Two[1] = 2
    BY <1>2, <1>17, <2>1 DEF Held
  <2>3. WideOffset(ll) = 1
    BY <1>3, <2>1 DEF WideOffset
  <2>4. left = Row(t, 0, i1, 1) /\ right = Row(t, 0, i2, 1)
    <3>1. 0 - 0 = 0 /\ 1 * i1 = i1 /\ 1 * i2 = i2
      OBVIOUS
    <3> QED
      BY <1>13, <1>14, <1>17, <2>2, <3>1, Zenon DEF WideRow
  <2>5. WideRow(t, 1, i) = Row(t, 0, i1, 2)
    <3>1. 1 - 1 = 0 /\ 2 * i = i1
      BY <1>9
    <3> QED
      BY <2>2, <3>1, Zenon DEF WideRow
  <2>6. JoinHalves(Row(t, 0, i1, 1), Row(t, 0, i2, 1), 1) = Row(t, 0, i1, 2)
    <3>1. i2 = i1 + 1 /\ 0 \in 0 .. MAX_DEPTH
      BY <1>9, <1>15, <1>17
    <3> QED
      BY <3>1, JoinSingles
  <2>7. h + 1 = 1
    BY <1>17
  <2> QED
    BY <1>12, <2>3, <2>4, <2>5, <2>6, <2>7
<1>18. CASE h # 0
  <2>1. Lanes <= h /\ Lanes \in 0 .. MAX_DEPTH
    <3>1. Lanes <= h
      BY <1>15, <1>16, <1>18
    <3> QED
      BY <1>15, <1>16, <3>1, TwoIs
  <2>2. Held(h) = Lanes /\ Held(h + 1) = Lanes
    BY <1>15, <1>16, <2>1 DEF Held
  <2>3. PICK M \in 2 .. 16 : M = Two[Lanes]
    BY <1>16, <2>1, SmallPowers
  <2>4. WideOffset(ll) = M
    <3>1. CASE degree = 1
      <4>1. M = 2
        BY <1>16, <2>1, <2>3, <3>1, SmallPowers
      <4>2. x >= 2
        <5>1. Two[1] <= Two[h]
          <6>1. 1 \in 0 .. SizeBits /\ h \in 0 .. SizeBits /\ 1 <= h
            BY <1>15, <1>18, TwoIs
          <6> QED
            BY <6>1, PowersGrow, TwoIs
        <5>2. Two[1] = 2
          BY <1>16, <2>3, <3>1, <4>1
        <5> QED
          BY <1>2, <5>1, <5>2
      <4>3. ll > C
        <5>1. C * x >= C * 2
          BY <4>2
        <5>2. C * 2 > C
          OBVIOUS
        <5> QED
          BY <1>4, <5>1, <5>2
      <4> QED
        BY <1>3, <3>1, <4>1, <4>3 DEF WideOffset
    <3>2. CASE degree # 1
      BY <1>16, <2>3, <3>2 DEF WideOffset
    <3> QED
      BY <3>1, <3>2
  <2>5. PICK l : l = h - Lanes
    OBVIOUS
  <2>6. l \in 0 .. MAX_DEPTH - 1 /\ (h + 1) - Lanes = l + 1
    BY <1>15, <1>16, <2>1, <2>5, TwoIs
  <2>7. PICK a \in Nat, p \in Nat, r \in Nat : a = M * i /\ p = 2 * a /\ r = p + M
    OBVIOUS
  <2>8. M * i1 = p /\ M * i2 = r
    BY <1>9, <2>7
  <2>9. left = Row(t, l, p, M) /\ right = Row(t, l, r, M)
    BY <1>13, <1>14, <2>2, <2>3, <2>5, <2>8, Zenon DEF WideRow
  <2>10. WideRow(t, h + 1, i) = Row(t, l + 1, a, M)
    BY <2>2, <2>3, <2>6, <2>7, Zenon DEF WideRow
  <2>11. JoinHalves(Row(t, l, p, M), Row(t, l, r, M), M) = Row(t, l + 1, a, M)
    <3>1. TwoRows(l, a, M, p, r)
      BY <2>6, <2>7 DEF TwoRows
    <3> QED
      BY <3>1, JoinRows
  <2> QED
    BY <1>12, <2>4, <2>9, <2>10, <2>11
<1> QED
  BY <1>17, <1>18

(* So every call returns a row, as wide as the degree or two. *)
LEMMA WideRows ==
  ASSUME degree \in {1, 4, 8, 16}, NEW fl \in Nat, flags = fl, NEW t, t = Subtrees(key, fl), NEW w, IsWide(w)
  PROVE  \A j \in 0 .. MAX_DEPTH, i \in Nat : WideAt(w, MAX_DEPTH, t, j, i)
<1>0. Joins(t)
  BY SubtreesJoin
<1>1. \A d \in 0 .. MAX_DEPTH, j \in 0 .. MAX_DEPTH, i \in Nat : Two[j] <= degree => WideAt(w, d, t, j, i)
  BY WideLeaf
<1> DEFINE Set == {d \in Nat : d <= MAX_DEPTH => \A j \in 0 .. d, i \in Nat : WideAt(w, d, t, j, i)}
<1>2. 0 \in Set
  <2>1. 0 \in 0 .. MAX_DEPTH /\ Two[0] <= degree /\ \A j \in 0 .. 0 : j = 0
    BY TwoIs
  <2> QED
    BY <1>1, <2>1
<1>3. ASSUME NEW d \in Nat, d \in Set PROVE d + 1 \in Set
  <2> SUFFICES ASSUME d + 1 <= MAX_DEPTH, NEW j \in 0 .. d + 1, NEW i \in Nat PROVE WideAt(w, d + 1, t, j, i)
    OBVIOUS
  <2>1. d \in 0 .. MAX_DEPTH - 1 /\ d + 1 \in 0 .. MAX_DEPTH /\ d <= MAX_DEPTH /\ j \in 0 .. MAX_DEPTH
    BY TwoIs
  <2>2. CASE Two[j] <= degree
    BY <1>1, <2>1, <2>2
  <2>3. CASE Two[j] > degree
    <3>1. PICK h : j = h + 1
      <4>1. j = (j - 1) + 1
        OBVIOUS
      <4> QED
        BY <4>1
    <3>2. j >= 1
      BY <2>1, <2>3, LanesAre
    <3>3. PICK g : g = j - 1
      OBVIOUS
    <3>4. g \in 0 .. d /\ g \in 0 .. MAX_DEPTH - 1 /\ g + 1 = j
      BY <2>1, <3>2, <3>3, TwoIs
    <3>5. \A u \in Nat : WideAt(w, d, t, g, u)
      BY <1>3, <2>1, <3>4
    <3>6. Two[g + 1] > degree
      BY <2>3, <3>4
    <3>7. WideAt(w, d + 1, t, g + 1, i)
      BY <1>0, <2>1, <3>4, <3>5, <3>6, WideParent
    <3> QED
      BY <3>4, <3>7
  <2>4. Two[j] \in Nat
    BY <2>1, TwoIs
  <2> QED
    BY <2>2, <2>3, <2>4
<1> HIDE DEF Set
<1>4. Nat \subseteq Set
  BY <1>2, <1>3, AllNumbers
<1>5. MAX_DEPTH \in Nat
  BY TwoIs
<1> QED
  BY <1>4, <1>5 DEF Set

-----------------------------------------------------------------------------
(* Layers of parents until two are left. *)
CondenseStep(below) ==
  IF Len(below) <= 2 THEN below ELSE compress_parents_parallel(below, Len(below))

(* Condense, layer by layer. *)
LEMMA CondenseSteps ==
  ASSUME NEW cvs
  PROVE  Condense(cvs) = CondenseStep(CondenseStep(CondenseStep(cvs)))
<1> DEFINE Chain(f) == f = [k \in 0 .. 3 |-> IF k = 0 THEN cvs ELSE CondenseStep(f[k - 1])]
<1>1. PICK a, b, c : a = CondenseStep(cvs) /\ b = CondenseStep(a) /\ c = CondenseStep(b)
  OBVIOUS
<1>2. \E f : Chain(f)
  <2>1. PICK f : f = [k \in 0 .. 3 |-> IF k = 0 THEN cvs ELSE IF k = 1 THEN a ELSE IF k = 2 THEN b ELSE c]
    OBVIOUS
  <2>2. f[0] = cvs /\ f[1] = a /\ f[2] = b /\ f[3] = c
    BY <2>1
  <2>3. \A k \in 0 .. 3 : f[k] = IF k = 0 THEN cvs ELSE CondenseStep(f[k - 1])
    <3> TAKE k \in 0 .. 3
    <3>1. CASE k = 0
      BY <2>2, <3>1
    <3>2. CASE k = 1
      <4>1. k - 1 = 0
        BY <3>2
      <4> QED
        BY <1>1, <2>2, <3>2, <4>1
    <3>3. CASE k = 2
      <4>1. k - 1 = 1
        BY <3>3
      <4> QED
        BY <1>1, <2>2, <3>3, <4>1
    <3>4. CASE k = 3
      <4>1. k - 1 = 2
        BY <3>4
      <4> QED
        BY <1>1, <2>2, <3>4, <4>1
    <3> QED
      BY <3>1, <3>2, <3>3, <3>4
  <2>4. f = [k \in 0 .. 3 |-> f[k]]
    BY <2>1
  <2>5. f = [k \in 0 .. 3 |-> IF k = 0 THEN cvs ELSE CondenseStep(f[k - 1])]
    BY <2>3, <2>4
  <2> QED
    BY <2>5
<1>3. PICK f : f = CHOOSE u : Chain(u)
  OBVIOUS
<1>4. f = [k \in 0 .. 3 |-> IF k = 0 THEN cvs ELSE CondenseStep(f[k - 1])]
  BY <1>2, <1>3
<1>5. Condense(cvs) = f[3]
  BY <1>3 DEF Condense, CondenseStep
<1>6. f[0] = cvs /\ f[1] = CondenseStep(f[0]) /\ f[2] = CondenseStep(f[1]) /\ f[3] = CondenseStep(f[2])
  <2>1. \A k \in 0 .. 3 : f[k] = IF k = 0 THEN cvs ELSE CondenseStep(f[k - 1])
    BY <1>4, Zenon
  <2>2. 1 - 1 = 0 /\ 2 - 1 = 1 /\ 3 - 1 = 2
    OBVIOUS
  <2>3. f[0] = cvs
    BY <2>1
  <2>4. f[1] = CondenseStep(f[1 - 1]) /\ f[2] = CondenseStep(f[2 - 1]) /\ f[3] = CondenseStep(f[3 - 1])
    BY <2>1
  <2> QED
    BY <2>2, <2>3, <2>4
<1> QED
  BY <1>5, <1>6

(* The 2^p values p levels below subtree i of 2^j chunks. *)
LevelRow(t, j, i, p) == Row(t, j - p, Two[p] * i, Two[p])

(* A layer halves the row, down to two. *)
LEMMA CondenseLevel ==
  ASSUME NEW t, Joins(t), NEW j \in 0 .. MAX_DEPTH, NEW i \in Nat, NEW p \in 1 .. 4, p <= j
  PROVE  /\ p = 1 => CondenseStep(LevelRow(t, j, i, p)) = LevelRow(t, j, i, p)
         /\ p # 1 => CondenseStep(LevelRow(t, j, i, p)) = LevelRow(t, j, i, p - 1)
<1>1. p \in 0 .. MAX_DEPTH /\ p - 1 \in 0 .. MAX_DEPTH - 1 /\ j - p \in 0 .. MAX_DEPTH - 1 /\ j - p \in 0 .. MAX_DEPTH
      /\ p - 1 \in 0 .. MAX_DEPTH
  BY TwoIs
<1>2. PICK n \in Nat \ {0}, l, a \in Nat, g \in Nat : n = Two[p] /\ l = j - p /\ a = n * i /\ g = p - 1
  <2>1. Two[p] \in Nat \ {0}
    BY <1>1, TwoIs
  <2>2. Two[p] * i \in Nat
    BY <2>1
  <2> QED
    BY <2>1, <2>2
<1>3. PICK r : r = LevelRow(t, j, i, p) /\ r = Row(t, l, a, n)
  BY <1>2 DEF LevelRow
<1>4. IsRow(r, t, l, a, n)
  BY <1>1, <1>2, <1>3, RowIs
<1>5. Len(r) = n /\ \A k \in 1 .. n : r[k] = t[l][a + k - 1]
  BY <1>4 DEF IsRow
<1>6. CASE p = 1
  <2>1. n = 2
    BY <1>1, <1>2, <1>6, SmallPowers
  <2> QED
    BY <1>3, <1>5, <1>6, <2>1 DEF CondenseStep
<1>7. CASE p # 1
  <2>1. PICK M \in Nat \ {0} : M = Two[g] /\ n = 2 * M
    <3>1. g \in 0 .. MAX_DEPTH /\ g \in 0 .. SizeBits - 1 /\ g + 1 = p
      BY <1>1, <1>2, TwoIs
    <3>2. Two[g + 1] = 2 * Two[g] /\ Two[g] \in Nat \ {0}
      BY <3>1, TwoIs
    <3> QED
      BY <1>2, <3>1, <3>2
  <2>2. M >= 2
    <3>1. g \in 1 .. 3 /\ g \in 0 .. MAX_DEPTH
      BY <1>1, <1>2, <1>7
    <3>2. g = 1 \/ g = 2 \/ g = 3
      BY <3>1
    <3> QED
      BY <2>1, <3>1, <3>2, SmallPowers
  <2>3. PICK b \in Nat : b = M * i
    OBVIOUS
  <2>4. a = 2 * b
    BY <1>2, <2>1, <2>3
  <2>5. PairsIn(t, l, b, M, n, r)
    BY <1>1, <1>2, <1>5, <2>1, <2>4 DEF PairsIn
  <2>6. compress_parents_parallel(r, n) = Row(t, l + 1, b, M)
    BY <2>5, ParentsRow
  <2>7. CondenseStep(r) = compress_parents_parallel(r, n)
    BY <1>5, <2>1, <2>2 DEF CondenseStep
  <2>8. LevelRow(t, j, i, g) = Row(t, l + 1, b, M)
    <3>1. j - g = l + 1
      BY <1>2
    <3> QED
      BY <2>1, <2>3, <3>1, Zenon DEF LevelRow
  <2> QED
    BY <1>2, <1>3, <1>7, <2>6, <2>7, <2>8
<1> QED
  BY <1>6, <1>7

(* It ends with the two halves. *)
LEMMA CondenseIs ==
  ASSUME NEW t, Joins(t), NEW j \in 0 .. MAX_DEPTH, NEW i \in Nat, NEW p \in 1 .. 4, p <= j
  PROVE  Condense(LevelRow(t, j, i, p)) = LevelRow(t, j, i, 1)
<1> DEFINE R(k) == LevelRow(t, j, i, k)
<1>1. \A k \in 1 .. 4 : k <= j => (k = 1 => CondenseStep(R(k)) = R(k)) /\ (k # 1 => CondenseStep(R(k)) = R(k - 1))
  BY CondenseLevel
<1>2. CondenseStep(R(1)) = R(1)
  BY <1>1
<1>3. j >= 2 => CondenseStep(R(2)) = R(1)
  <2>1. j >= 2 => CondenseStep(R(2)) = R(2 - 1)
    BY <1>1
  <2>2. 2 - 1 = 1
    OBVIOUS
  <2> QED
    BY <2>1, <2>2
<1>4. j >= 3 => CondenseStep(R(3)) = R(2)
  <2>1. j >= 3 => CondenseStep(R(3)) = R(3 - 1)
    BY <1>1
  <2>2. 3 - 1 = 2
    OBVIOUS
  <2> QED
    BY <2>1, <2>2
<1>5. j >= 4 => CondenseStep(R(4)) = R(3)
  <2>1. j >= 4 => CondenseStep(R(4)) = R(4 - 1)
    BY <1>1
  <2>2. 4 - 1 = 3
    OBVIOUS
  <2> QED
    BY <2>1, <2>2
<1> HIDE DEF R
<1>6. p = 1 \/ p = 2 \/ p = 3 \/ p = 4
  OBVIOUS
<1>7. CondenseStep(CondenseStep(CondenseStep(R(p)))) = R(1)
  <2>1. j \in Nat
    BY TwoIs
  <2> QED
    BY <1>2, <1>3, <1>4, <1>5, <1>6, <2>1
<1> QED
  BY <1>7, CondenseSteps DEF R

(* A subtree of two chunks or more, as the pair of its sides. *)
LEMMA PairIs ==
  ASSUME degree \in {1, 4, 8, 16}, NEW fl \in Nat, flags = fl, NEW t, t = Subtrees(key, fl),
         NEW j \in 1 .. MAX_DEPTH, NEW i \in Nat, NEW c \in Nat, c = Two[j] * i,
         NEW n \in Nat, n = CHUNK_LEN * Two[j], NEW f \in Nat, f = CHUNK_LEN * c
  PROVE  LET pair == compress_subtree_to_parent_node(f, n, c)
         IN pair[1] = t[j - 1][2 * i] /\ pair[2] = t[j - 1][2 * i + 1]
<1>0. Joins(t) /\ j \in 0 .. MAX_DEPTH /\ j \in Nat /\ MAX_DEPTH \in Nat
  BY SubtreesJoin, TwoIs
<1>1. PICK w : IsWide(w) /\ \A x, y, z : compress_subtree_wide(x, y, z) = w[MAX_DEPTH][x][y][z]
  BY WideLevels
<1>2. WideAt(w, MAX_DEPTH, t, j, i)
  BY <1>0, <1>1, WideRows
<1>3. w[MAX_DEPTH][f][n][c] = WideRow(t, j, i)
  <2>1. \A x, y, z \in Nat : z = Two[j] * i /\ y = CHUNK_LEN * Two[j] /\ x = CHUNK_LEN * z
                             => w[MAX_DEPTH][x][y][z] = WideRow(t, j, i)
    BY <1>2, Zenon DEF WideAt
  <2> QED
    BY <2>1
<1>4. PICK p \in 1 .. 4 : p = Held(j) /\ p <= j
  <2>1. Lanes \in 1 .. 4 /\ Held(j) <= j
    BY <1>0, LanesAre
  <2>2. Held(j) \in 1 .. 4
    BY <1>0, <2>1 DEF Held
  <2> QED
    BY <2>1, <2>2
<1>5. WideRow(t, j, i) = LevelRow(t, j, i, p)
  BY <1>4 DEF WideRow, LevelRow
<1>6. compress_subtree_to_parent_node(f, n, c) = LevelRow(t, j, i, 1)
  <2>1. Condense(LevelRow(t, j, i, p)) = LevelRow(t, j, i, 1)
    BY <1>0, <1>4, CondenseIs
  <2> QED
    BY <1>1, <1>3, <1>5, <2>1, Zenon DEF compress_subtree_to_parent_node
<1>7. PICK l, a \in Nat : l = j - 1 /\ a = 2 * i
  OBVIOUS
<1>8. LevelRow(t, j, i, 1) = Row(t, l, a, 2)
  <2>1. Two[1] = 2
    <3>1. 1 \in 0 .. MAX_DEPTH
      BY <1>0
    <3> QED
      BY <3>1, SmallPowers
  <2> QED
    BY <1>7, <2>1, Zenon DEF LevelRow
<1>9. PICK r : r = Row(t, l, a, 2)
  OBVIOUS
<1>10. IsRow(r, t, l, a, 2)
  <2>1. l \in 0 .. MAX_DEPTH /\ 2 \in Nat
    BY <1>0, <1>7
  <2> QED
    BY <1>9, <2>1, RowIs
<1>11. r[1] = t[l][a] /\ r[2] = t[l][a + 1]
  <2>1. r[1] = t[l][a + 1 - 1] /\ r[2] = t[l][a + 2 - 1]
    BY <1>10 DEF IsRow
  <2>2. a + 1 - 1 = a /\ a + 2 - 1 = a + 1
    OBVIOUS
  <2> QED
    BY <2>1, <2>2
<1> QED
  BY <1>6, <1>7, <1>8, <1>9, <1>11

-----------------------------------------------------------------------------
(* The length of the subtree that a turn of the loop takes. *)
LEMMA MaxMessageIs ==
  /\ MaxMessage = CHUNK_LEN * Two[MAX_DEPTH] /\ MaxMessage \in Nat \ {0}
  /\ \E b \in 1 .. SizeBits : /\ CHUNK_LEN = Two[b] /\ b + MAX_DEPTH = SizeBits
                              /\ MaxMessage = Two[SizeBits]
                              /\ \A j \in 0 .. MAX_DEPTH : b + j \in 0 .. SizeBits /\ Two[b + j] = CHUNK_LEN * Two[j]
<1>1. PICK b \in 1 .. SizeBits : CHUNK_LEN = 2^b /\ b + MAX_DEPTH = SizeBits
  BY LengthsAssumption
<1>2. b \in 0 .. SizeBits /\ MAX_DEPTH \in 0 .. SizeBits /\ MAX_DEPTH \in 0 .. MAX_DEPTH /\ SizeBits \in 0 .. SizeBits
  BY TwoIs
<1>3. CHUNK_LEN = Two[b]
  BY <1>1, <1>2, TwoIs
<1>4. \A j \in 0 .. MAX_DEPTH : b + j \in 0 .. SizeBits /\ Two[b + j] = CHUNK_LEN * Two[j]
  <2> TAKE j \in 0 .. MAX_DEPTH
  <2>1. j \in 0 .. SizeBits /\ b + j <= SizeBits /\ b + j \in 0 .. SizeBits
    BY <1>1, TwoIs
  <2>2. Two[b + j] = Two[b] * Two[j]
    BY <1>2, <2>1, PowersAdd, TwoIs
  <2> QED
    BY <1>3, <2>1, <2>2
<1>5. MaxMessage = CHUNK_LEN * Two[MAX_DEPTH]
  BY <1>2, TwoIs DEF MaxMessage
<1>6. MaxMessage = Two[SizeBits]
  BY <1>1, <1>2, <1>4, <1>5
<1> QED
  BY <1>1, <1>2, <1>3, <1>4, <1>5, <1>6, TwoIs

(* round_down_to_power_of_2 finds a power. *)
LEMMA RoundDownExists ==
  ASSUME NEW x \in Nat \ {0}, x <= Two[SizeBits]
  PROVE  \E k \in 0 .. SizeBits : Two[k] <= x /\ x < 2 * Two[k] /\ round_down_to_power_of_2(x) = Two[k]
<1>1. \A i \in 0 .. SizeBits : Two[i] \in Nat \ {0}
  BY TwoIs
<1> DEFINE T == {k \in 0 .. SizeBits : x < 2 * Two[k]}
<1>2. SizeBits \in T
  <2>1. SizeBits \in 0 .. SizeBits
    BY TwoIs
  <2> QED
    BY <1>1, <2>1
<1>3. PICK k \in T : \A i \in T : k <= i
  <2>1. T \in SUBSET Nat /\ T # {}
    BY <1>2
  <2> QED
    BY <2>1, LeastOf
<1>4. Two[k] <= x
  <2>1. CASE k = 0
    BY <2>1, TwoIs
  <2>2. CASE k # 0
    <3>1. PICK i : i = k - 1
      OBVIOUS
    <3>2. i \in 0 .. SizeBits - 1 /\ i \in 0 .. SizeBits /\ i + 1 = k /\ ~ (k <= i)
      BY <2>2, <3>1, TwoIs
    <3>3. i \notin T
      BY <1>3, <3>2
    <3>4. Two[i + 1] = 2 * Two[i] /\ Two[i] \in Nat
      BY <3>2, TwoIs
    <3> QED
      BY <3>2, <3>3, <3>4
  <2> QED
    BY <2>1, <2>2
<1> QED
  BY <1>3, <1>4, RoundDownIs

(* The next subtree: a power of two of chunks, of which whole ones lie *)
(* before it. *)
LEMMA SubtreeLenIs ==
  ASSUME NEW q \in Nat, q = chunk.chunk_counter, NEW x \in Nat, x = pending, x > CHUNK_LEN, x <= MaxMessage
  PROVE  \E j \in 0 .. MAX_DEPTH, i \in Nat :
           SubtreeLen = CHUNK_LEN * Two[j] /\ CHUNK_LEN * Two[j] <= x /\ q = Two[j] * i
<1>1. PICK b \in 1 .. SizeBits :
        /\ CHUNK_LEN = Two[b] /\ b + MAX_DEPTH = SizeBits /\ MaxMessage = Two[SizeBits]
        /\ \A j \in 0 .. MAX_DEPTH : b + j \in 0 .. SizeBits /\ Two[b + j] = CHUNK_LEN * Two[j]
  BY MaxMessageIs
<1>2. PICK C \in Nat \ {0} : C = CHUNK_LEN
  BY Lengths1
<1>3. PICK K \in 0 .. SizeBits : Two[K] <= x /\ x < 2 * Two[K] /\ round_down_to_power_of_2(x) = Two[K]
  <2>1. x \in Nat \ {0} /\ x <= Two[SizeBits]
    BY <1>1, <1>2
  <2> QED
    BY <2>1, RoundDownExists
<1>4. PICK r \in Nat \ {0} : r = Two[K]
  BY TwoIs
<1>5. PICK Q \in Nat : Q = q * C
  OBVIOUS
<1> DEFINE Fits(s) == /\ s <= r /\ Q % s = 0
                      /\ 2 * s > r \/ Q % (2 * s) # 0
           Powers == {2^k : k \in 0 .. SizeBits}
<1>6. SubtreeLen = CHOOSE s \in Powers : Fits(s)
  BY <1>2, <1>3, <1>4, <1>5 DEF SubtreeLen
<1>7. \A k \in 0 .. SizeBits : Two[k] \in Nat \ {0} /\ Two[k] = 2^k
  BY TwoIs
<1>8. \E s \in Powers : Fits(s)
  <2> DEFINE More(k) == 2 * Two[k] <= r /\ Q % (2 * Two[k]) = 0
             T == {k \in 0 .. SizeBits : ~ More(k)}
  <2>1. K \in T
    BY <1>4, <1>7
  <2>2. PICK k \in T : \A i \in T : k <= i
    <3>1. T \in SUBSET Nat /\ T # {}
      BY <2>1
    <3> HIDE DEF T
    <3> QED
      BY <3>1, LeastOf
  <2>3. k \in 0 .. SizeBits /\ ~ More(k)
    BY <2>2
  <2>4. Two[k] <= r /\ Q % Two[k] = 0
    <3>1. CASE k = 0
      <4>1. Two[k] = 1
        BY <3>1, TwoIs
      <4>2. Q % 1 = 0
        <5>1. Q = 1 * Q + 0 /\ 0 \in 0 .. 1 - 1 /\ 1 \in Nat \ {0} /\ 0 \in Nat
          OBVIOUS
        <5> QED
          BY <5>1, DivMod
      <4> QED
        BY <4>1, <4>2
    <3>2. CASE k # 0
      <4>1. PICK i : i = k - 1
        OBVIOUS
      <4>2. i \in 0 .. SizeBits - 1 /\ i \in 0 .. SizeBits /\ i + 1 = k /\ ~ (k <= i)
        BY <2>3, <3>2, <4>1, TwoIs
      <4>3. i \notin T
        BY <2>2, <4>2
      <4>4. More(i)
        BY <4>2, <4>3
      <4>5. Two[k] = 2 * Two[i]
        BY <4>2, TwoIs
      <4> QED
        BY <4>4, <4>5
    <3> QED
      BY <3>1, <3>2
  <2>5. 2 * Two[k] > r \/ Q % (2 * Two[k]) # 0
    BY <1>7, <2>3
  <2>6. Two[k] \in Powers
    BY <1>7, <2>3
  <2> QED
    BY <2>4, <2>5, <2>6
<1>9. PICK n : n \in Powers /\ Fits(n) /\ n = SubtreeLen
  <2> HIDE DEF Fits, Powers
  <2> QED
    BY <1>6, <1>8
<1>10. PICK k \in 0 .. SizeBits : n = Two[k]
  BY <1>7, <1>9
<1>11. k >= b
  <2> SUFFICES ASSUME k < b PROVE FALSE
    OBVIOUS
  <2>1. PICK e : e = b - k - 1
    OBVIOUS
  <2>2. /\ k + 1 \in 0 .. SizeBits /\ e \in 0 .. SizeBits /\ (k + 1) + e = b /\ (k + 1) + e <= SizeBits
        /\ k \in 0 .. SizeBits - 1 /\ k + 1 <= b /\ b \in 0 .. SizeBits
    BY <2>1, TwoIs
  <2>3. Two[k + 1] = 2 * n /\ 2 * n \in Nat \ {0}
    BY <1>7, <1>10, <2>2, TwoIs
  <2>4. PICK d \in Nat, N \in Nat \ {0} : N = 2 * n /\ d = Two[e] /\ C = N * d
    <3>1. PICK a \in 0 .. SizeBits : a = k + 1
      BY <2>2
    <3>2. Two[a + e] = Two[a] * Two[e]
      <4>1. a + e <= SizeBits /\ 2 \in Nat \ {0} /\ SizeBits \in Nat
        BY <2>2, <3>1, TwoIs
      <4> QED
        BY <2>2, <4>1, PowersAdd, TwoIs
    <3>3. a + e = b /\ Two[a] = 2 * n
      BY <2>2, <2>3, <3>1
    <3> QED
      BY <1>1, <1>2, <1>7, <2>2, <2>3, <3>2, <3>3
  <2>5. Q % N = 0
    <3>1. PICK u \in Nat : u = q * d
      OBVIOUS
    <3>2. Q = N * u + 0 /\ 0 \in 0 .. N - 1
      BY <1>5, <2>4, <3>1
    <3> QED
      BY <3>2, DivMod, ZenonT(60)
  <2>6. N <= r
    <3>1. ~ (K < b)
      <4> SUFFICES ASSUME K < b PROVE FALSE
        OBVIOUS
      <4>1. K + 1 \in 0 .. SizeBits /\ K + 1 <= b /\ K \in 0 .. SizeBits - 1 /\ b \in 0 .. SizeBits
        BY TwoIs
      <4>2. Two[K + 1] <= Two[b] /\ Two[K + 1] = 2 * Two[K]
        BY <4>1, PowersGrow, TwoIs
      <4> QED
        BY <1>1, <1>2, <1>3, <1>4, <4>2
    <3>2. k + 1 <= K
      BY <2>2, <3>1
    <3>3. Two[k + 1] <= Two[K]
      BY <2>2, <3>2, PowersGrow, TwoIs
    <3> QED
      BY <1>4, <2>3, <2>4, <3>3
  <2> QED
    BY <1>4, <1>9, <2>4, <2>5, <2>6
<1>12. PICK j : j = k - b
  OBVIOUS
<1>13. j \in 0 .. MAX_DEPTH /\ k = b + j
  BY <1>1, <1>11, <1>12, TwoIs
<1>14. PICK m \in Nat \ {0} : m = Two[j]
  BY <1>13, TwoIs
<1>15. n = C * m
  BY <1>1, <1>2, <1>10, <1>13, <1>14
<1>16. n <= x
  BY <1>3, <1>4, <1>7, <1>9, <1>10
<1>17. PICK i \in Nat : q = m * i
  <2>1. n \in Nat \ {0} /\ Q % n = 0
    BY <1>7, <1>9, <1>10
  <2>2. PICK i \in Nat, u \in 0 .. n - 1 : Q = n * i + u
    BY <2>1, DivModExists, ZenonT(60)
  <2>3. u = 0
    <3>1. PICK N \in Nat \ {0} : N = n /\ Q = N * i + u /\ u \in 0 .. N - 1
      BY <2>1, <2>2
    <3>2. Q % N = u
      BY <3>1, DivMod, ZenonT(60)
    <3> QED
      BY <2>1, <3>1, <3>2
  <2>4. C * q = C * (m * i)
    <3>1. (C * m) * i = C * (m * i) /\ q * C = C * q
      OBVIOUS
    <3> QED
      BY <1>5, <1>15, <2>1, <2>2, <2>3, <3>1
  <2>5. q = m * i
    <3>1. \A y, z \in Nat : C * y = C * z => y = z
      OBVIOUS
    <3>2. PICK z \in Nat : z = m * i
      OBVIOUS
    <3> QED
      BY <2>4, <3>1, <3>2
  <2> QED
    BY <2>5
<1> QED
  BY <1>2, <1>9, <1>13, <1>14, <1>15, <1>16, <1>17

-----------------------------------------------------------------------------
(* The inductive invariant.  q chunks are closed and L bytes of the next are *)
(* in the chunk state; the stack is that of the q chunks, merged as soon as  *)
(* the chunk state holds something, and not yet merged at the end of a       *)
(* message of whole chunks.                                                  *)
StackAt(t, st, q, L, left) ==
  /\ StackFor(t, st, q)
  /\ L > 0 => CoversFrom(t, st, 0, q)
  /\ L = 0 /\ left = 0 /\ q > 0 =>
       \E s \in 0 .. MAX_DEPTH, m \in Nat \ {0, 1} : q = Two[s] * m /\ OnTop(t, st, s, m)

(* k, fl, c, st, a, left, ps are key, flags, chunk, cv_stack, at, pending, *)
(* pos. *)
Progress(k, fl, c, st, a, left, ps, q, L) ==
  /\ q \in Nat /\ L \in 0 .. CHUNK_LEN /\ a = CHUNK_LEN * q + L
  /\ left \in Nat /\ a + left <= MaxMessage
  /\ c = ChunkAt(k, fl, q, L)
  /\ StackAt(Subtrees(k, fl), st, q, L, left)
  /\ ps \in {"ready", "chunk", "subtrees"}
  /\ ps = "ready" => left = 0
  /\ ps = "chunk" => L > 0 /\ left > 0
  /\ ps = "subtrees" => L = 0

(* All but the output. *)
HasherState ==
  /\ degree \in {1, 4, 8, 16} /\ mode \in {"hash", "keyed", "context", "material"}
  /\ \E q, L : Progress(key, ModeFlag(mode), chunk, cv_stack, at, pending, pos, q, L)
  /\ pos # "ready" => out = <<>>

(* The inductive invariant. *)
HasherInv == HasherState /\ DigestIsTreeHash

(* What is used of it most. *)
LEMMA ProgressFacts ==
  ASSUME NEW k, NEW fl, NEW c, NEW st, NEW a, NEW left, NEW ps, NEW q, NEW L,
         Progress(k, fl, c, st, a, left, ps, q, L)
  PROVE  /\ q \in Nat /\ L \in Nat /\ L <= CHUNK_LEN /\ a \in Nat /\ a = CHUNK_LEN * q + L
         /\ left \in Nat /\ a + left <= MaxMessage
         /\ c.flags = fl /\ c.chunk_counter = q /\ chunk_state_len(c) = L /\ q <= Two[MAX_DEPTH]
<1>1. PICK C \in Nat \ {0} : C = CHUNK_LEN
  BY Lengths1
<1>2. /\ q \in Nat /\ L \in 0 .. C /\ a = C * q + L /\ left \in Nat /\ a + left <= MaxMessage
      /\ c = ChunkAt(k, fl, q, L)
  BY <1>1 DEF Progress
<1>3. L \in Nat /\ L <= C /\ a \in Nat
  BY <1>2
<1>4. c.flags = fl /\ c.chunk_counter = q
  BY <1>2 DEF ChunkAt, ChunkState
<1>5. chunk_state_len(c) = L
  BY <1>1, <1>2, ChunkLen
<1>6. q <= Two[MAX_DEPTH]
  <2>1. PICK D \in Nat, M \in Nat : D = Two[MAX_DEPTH] /\ M = MaxMessage /\ M = C * D
    BY <1>1, MaxMessageIs, DepthFits
  <2>2. C * q <= C * D
    BY <1>2, <1>3, <2>1
  <2>3. \A x, y \in Nat : C * x <= C * y => x <= y
    OBVIOUS
  <2> QED
    BY <1>2, <2>1, <2>2, <2>3
<1> QED
  BY <1>1, <1>2, <1>3, <1>4, <1>5, <1>6

(* Flags are numbers. *)
LEMMA ModeFlagIs ==
  ASSUME NEW md \in {"hash", "keyed", "context", "material"}
  PROVE  ModeFlag(md) \in Nat
<1>1. md = "hash" => ModeFlag(md) = 0
  BY DEF ModeFlag
<1>2. md = "keyed" => ModeFlag(md) = 16
  BY DEF ModeFlag
<1>3. md = "context" => ModeFlag(md) = 32
  BY DEF ModeFlag
<1>4. md = "material" => ModeFlag(md) = 64
  BY DEF ModeFlag
<1> QED
  BY <1>1, <1>2, <1>3, <1>4

(* An empty stack covers nothing. *)
LEMMA CoversNone ==
  ASSUME NEW t
  PROVE  CoversFrom(t, <<>>, 0, 0)
<1>1. <<>> \in Seq(Values(t)) /\ Len(<<>>) = popcnt(0)
  BY PopcntZero
<1>2. ASSUME NEW k \in 0 .. MAX_DEPTH PROVE BitHeld(t, <<>>, 0, 0, k)
  <2>1. PICK d \in Nat \ {0} : d = Two[k]
    BY TwoIs
  <2>2. 0 \div d = 0
    <3>1. 0 \in 0 .. d - 1
      OBVIOUS
    <3> QED
      BY <3>1, DivSmall
  <2> QED
    BY <2>1, <2>2 DEF BitHeld
<1> QED
  BY <1>1, <1>2 DEF CoversFrom

(* A hasher that was just set up. *)
LEMMA ProgressNone ==
  ASSUME NEW k, NEW fl
  PROVE  Progress(k, fl, chunk_state_init(k, fl, 0), <<>>, 0, 0, "ready", 0, 0)
<1>1. chunk_state_init(k, fl, 0) = ChunkAt(k, fl, 0, 0)
  BY ChunkStarts
<1>2. StackAt(Subtrees(k, fl), <<>>, 0, 0, 0)
  BY CoversNone DEF StackAt, StackFor
<1>3. 0 \in 0 .. CHUNK_LEN /\ CHUNK_LEN * 0 + 0 = 0 /\ 0 + 0 <= MaxMessage
  BY Lengths1, MaxMessageIs
<1> QED
  BY <1>1, <1>2, <1>3 DEF Progress

(* The initial states satisfy the invariant. *)
LEMMA InitState == HasherInit => HasherInv
<1> SUFFICES ASSUME HasherInit PROVE HasherInv
  OBVIOUS
<1>1. degree \in {1, 4, 8, 16}
  BY LengthsAssumption DEF HasherInit
<1>2. PICK k, md : md \in {"hash", "keyed", "context"} /\ hasher_init_base(k, md)
  <2>1. CASE hasher_init_base(InitialKey, "hash")
    BY <2>1
  <2>2. CASE hasher_init_base(UserKey, "keyed")
    BY <2>2
  <2>3. CASE hasher_init_base(InitialKey, "context")
    BY <2>3
  <2> QED
    BY <2>1, <2>2, <2>3 DEF HasherInit
<1>3. key = k /\ mode = md /\ chunk = chunk_state_init(key, ModeFlag(mode), 0) /\ cv_stack = <<>>
  BY <1>2 DEF hasher_init_base
<1>4. at = 0 /\ pending = 0 /\ pos = "ready" /\ out = <<>>
  BY DEF HasherInit
<1>5. Progress(key, ModeFlag(mode), chunk, cv_stack, at, pending, pos, 0, 0)
  <2>1. Progress(key, ModeFlag(mode), chunk_state_init(key, ModeFlag(mode), 0), <<>>, 0, 0, "ready", 0, 0)
    BY ProgressNone
  <2> QED
    BY <1>3, <1>4, <2>1
<1>6. mode \in {"hash", "keyed", "context", "material"}
  BY <1>2, <1>3
<1>7. HasherState
  BY <1>1, <1>4, <1>5, <1>6 DEF HasherState
<1>8. DigestIsTreeHash
  BY <1>4 DEF DigestIsTreeHash
<1> QED
  BY <1>7, <1>8 DEF HasherInv

-----------------------------------------------------------------------------
(* Each action keeps it. *)
LEMMA UpdateKeeps ==
  ASSUME HasherState, Update
  PROVE  HasherState' /\ out' = <<>>
<1>1. PICK q, L : Progress(key, ModeFlag(mode), chunk, cv_stack, at, pending, pos, q, L)
  BY DEF HasherState
<1>2. /\ q \in Nat /\ L \in Nat /\ L <= CHUNK_LEN /\ at \in Nat /\ at = CHUNK_LEN * q + L
      /\ chunk_state_len(chunk) = L
  BY <1>1, ProgressFacts
<1>3. PICK n : /\ n \in Nat /\ at + n <= MaxMessage /\ pending' = n
               /\ pos' = IF n = 0 THEN "ready" ELSE IF chunk_state_len(chunk) > 0 THEN "chunk" ELSE "subtrees"
  BY LengthsAssumption DEF Update
<1>4. pending = 0
  BY <1>1 DEF Update, Progress
<1>5. StackAt(Subtrees(key, ModeFlag(mode)), cv_stack, q, L, n)
  <2>1. StackAt(Subtrees(key, ModeFlag(mode)), cv_stack, q, L, 0)
    BY <1>1, <1>4 DEF Progress
  <2> QED
    BY <2>1 DEF StackAt
<1>6. /\ pos' \in {"ready", "chunk", "subtrees"} /\ (pos' = "ready" => n = 0)
      /\ (pos' = "chunk" => L > 0 /\ n > 0) /\ (pos' = "subtrees" => L = 0)
  BY <1>2, <1>3
<1>7. Progress(key, ModeFlag(mode), chunk, cv_stack, at, n, pos', q, L)
  BY <1>1, <1>3, <1>5, <1>6 DEF Progress
<1>8. /\ degree' = degree /\ mode' = mode /\ key' = key /\ chunk' = chunk /\ cv_stack' = cv_stack
      /\ at' = at /\ out' = <<>>
  BY DEF Update
<1>9. Progress(key', ModeFlag(mode'), chunk', cv_stack', at', pending', pos', q, L)
  BY <1>3, <1>7, <1>8
<1> QED
  BY <1>8, <1>9 DEF HasherState

(* The chunk that was begun is filled; if there is more, its value is *)
(* pushed. *)
LEMMA FinishChunkKeeps ==
  ASSUME HasherState, FinishChunk
  PROVE  HasherState' /\ out' = <<>>
<1>1. PICK fl \in Nat : fl = ModeFlag(mode)
  BY ModeFlagIs DEF HasherState
<1>2. PICK q, L : Progress(key, fl, chunk, cv_stack, at, pending, pos, q, L)
  BY <1>1 DEF HasherState
<1>3. PICK C \in Nat \ {0} : C = CHUNK_LEN
  BY Lengths1
<1>4. /\ q \in Nat /\ L \in Nat /\ L <= C /\ at \in Nat /\ at = C * q + L
      /\ pending \in Nat /\ at + pending <= MaxMessage
      /\ chunk.flags = fl /\ chunk.chunk_counter = q /\ chunk_state_len(chunk) = L /\ q <= Two[MAX_DEPTH]
  BY <1>2, <1>3, ProgressFacts
<1>5. flags = fl
  BY <1>4 DEF flags
<1>6. PICK t : t = Subtrees(key, fl)
  OBVIOUS
<1>7. Joins(t)
  BY <1>5, <1>6, SubtreesJoin
<1>8. L > 0 /\ pending > 0
  BY <1>2 DEF FinishChunk, Progress
<1>9. StackFor(t, cv_stack, q) /\ CoversFrom(t, cv_stack, 0, q) /\ chunk = ChunkAt(key, fl, q, L)
  BY <1>2, <1>6, <1>8 DEF Progress, StackAt
<1>10. PICK take : take = MinOf(CHUNK_LEN - chunk_state_len(chunk), pending)
  OBVIOUS
<1>11. take \in Nat /\ take <= C - L /\ take <= pending /\ (take = C - L \/ take = pending)
  BY <1>3, <1>4, <1>10 DEF MinOf
<1>12. PICK m \in Nat : m = L + take
  BY <1>4, <1>11
<1>13. m \in 0 .. C
  BY <1>4, <1>11, <1>12
<1>14. chunk_state_update(chunk, at, take) = ChunkAt(key, fl, q, m)
  <2>1. Extends(q, L, take, m, at)
    BY <1>3, <1>4, <1>11, <1>12, <1>13 DEF Extends
  <2> QED
    BY <1>9, <2>1, ChunkUpdate
<1>15. /\ degree' = degree /\ mode' = mode /\ key' = key /\ out' = out /\ out = <<>>
       /\ at' = at + take /\ pending' = pending - take
  BY <1>10 DEF FinishChunk, HasherState
<1>16. PICK l \in Nat : l = pending - take
  BY <1>4, <1>11
<1>17. ASSUME pending > take
       PROVE  \E r, v : Progress(key, fl, chunk', cv_stack', at', pending', pos', r, v)
  <2>1. m = C
    BY <1>4, <1>11, <1>12, <1>17
  <2>2. chunk_state_output(ChunkAt(key, fl, q, C)) = NodeOf(key, fl, C * q, C)
    <3>1. C \in 0 .. CHUNK_LEN /\ C * q \in Nat /\ C * q = CHUNK_LEN * q
      BY <1>3, <1>4
    <3> QED
      BY <1>4, <3>1, ChunkOutput
  <2>3. output_chaining_value(chunk_state_output(ChunkAt(key, fl, q, C))) = t[0][q]
    BY <1>3, <1>4, <1>6, <2>2, ChunkSubtree
  <2>4. PICK st : st = hasher_push_cv(cv_stack, t[0][q], q)
    OBVIOUS
  <2>5. PICK r \in Nat : r = q + 1
    BY <1>4
  <2>6. OnTop(t, st, 0, r)
    <3>1. 0 \in 0 .. MAX_DEPTH /\ q = Two[0] * q
      BY <1>4, TwoIs
    <3> QED
      BY <1>4, <1>7, <1>9, <2>4, <2>5, <3>1, PushFor
  <2>7. StackFor(t, st, r)
    <3>1. 0 \in 0 .. MAX_DEPTH /\ r = Two[0] * r /\ r \in Nat \ {0}
      BY <1>4, <2>5, TwoIs
    <3> QED
      BY <2>6, <3>1 DEF StackFor
  <2>8. /\ cv_stack' = st /\ chunk' = chunk_state_init(key, fl, r) /\ pos' = "subtrees"
    BY <1>4, <1>5, <1>10, <1>14, <1>17, <2>1, <2>3, <2>4, <2>5 DEF FinishChunk
  <2>9. chunk' = ChunkAt(key, fl, r, 0)
    BY <2>8, ChunkStarts
  <2>10. StackAt(t, st, r, 0, l)
    BY <1>4, <1>11, <1>16, <1>17, <2>7 DEF StackAt
  <2>11. at' = C * r + 0 /\ at' + l <= MaxMessage
    <3>1. PICK p \in Nat : p = C * q
      BY <1>4
    <3>2. C * r = p + C
      BY <1>4, <2>5, <3>1
    <3>3. MaxMessage \in Nat
      BY MaxMessageIs
    <3> QED
      BY <1>4, <1>11, <1>12, <1>15, <1>16, <2>1, <3>1, <3>2, <3>3
  <2>12. 0 \in 0 .. CHUNK_LEN
    BY <1>3
  <2>13. Progress(key, fl, chunk', st, at', l, "subtrees", r, 0)
    BY <1>3, <1>6, <2>9, <2>10, <2>11, <2>12 DEF Progress
  <2> QED
    BY <1>15, <1>16, <2>8, <2>13
<1>18. ASSUME ~ (pending > take)
       PROVE  \E r, v : Progress(key, fl, chunk', cv_stack', at', pending', pos', r, v)
  <2>1. take = pending /\ l = 0
    BY <1>4, <1>11, <1>16, <1>18
  <2>2. chunk' = ChunkAt(key, fl, q, m) /\ cv_stack' = cv_stack /\ pos' = "ready"
    BY <1>10, <1>14, <1>18 DEF FinishChunk
  <2>3. at' = C * q + m /\ at' + 0 <= MaxMessage /\ m > 0
    <3>1. PICK p \in Nat : p = C * q
      BY <1>4
    <3>2. MaxMessage \in Nat
      BY MaxMessageIs
    <3> QED
      BY <1>4, <1>8, <1>11, <1>12, <1>15, <2>1, <3>1, <3>2
  <2>4. StackAt(t, cv_stack, q, m, 0)
    BY <1>9, <2>3 DEF StackAt
  <2>5. Progress(key, fl, chunk', cv_stack, at', 0, "ready", q, m)
    BY <1>3, <1>4, <1>6, <1>13, <2>2, <2>3, <2>4 DEF Progress
  <2> QED
    BY <1>15, <1>16, <2>1, <2>2, <2>5
<1>19. \E r, v : Progress(key', ModeFlag(mode'), chunk', cv_stack', at', pending', pos', r, v)
  BY <1>1, <1>15, <1>17, <1>18
<1> QED
  BY <1>15, <1>19 DEF HasherState

(* A turn that hashes a subtree: its two halves are pushed. *)
SubtreeTwo(t, q, e, i, r, st) ==
  st = hasher_push_cv(hasher_push_cv(cv_stack, t[e][2 * i], q), t[e][2 * i + 1], r)

(* The two pushes leave the second half on top. *)
LEMMA SubtreeTwoOnTop ==
  ASSUME NEW t, Joins(t), NEW q \in Nat, StackFor(t, cv_stack, q), NEW e \in 0 .. MAX_DEPTH - 1, NEW i \in Nat,
         q = Two[e + 1] * i, NEW r \in Nat, r = q + Two[e], r <= Two[MAX_DEPTH],
         NEW st, SubtreeTwo(t, q, e, i, r, st)
  PROVE  OnTop(t, st, e, 2 * i + 2)
<1>1. e \in 0 .. MAX_DEPTH /\ e \in 0 .. SizeBits - 1 /\ e \in 0 .. SizeBits
  BY TwoIs
<1>2. PICK d \in Nat \ {0} : d = Two[e] /\ Two[e + 1] = 2 * d
  BY <1>1, TwoIs
<1>3. PICK a \in Nat : a = 2 * i
  OBVIOUS
<1>4. PICK b \in Nat : b = a + 1
  OBVIOUS
<1>5. q = d * a
  <2>1. (2 * d) * i = d * (2 * i)
    OBVIOUS
  <2> QED
    BY <1>2, <1>3, <2>1
<1>6. r = d * b
  BY <1>2, <1>4, <1>5
<1>7. Two[MAX_DEPTH] \in Nat /\ q <= Two[MAX_DEPTH]
  BY <1>2, DepthFits
<1>8. PICK mid : mid = hasher_push_cv(cv_stack, t[e][a], q)
  OBVIOUS
<1>9. OnTop(t, mid, e, b)
  BY <1>1, <1>2, <1>4, <1>5, <1>7, <1>8, PushFor
<1>10. StackFor(t, mid, r)
  <2>1. b \in Nat \ {0}
    BY <1>4
  <2> QED
    BY <1>1, <1>2, <1>6, <1>9, <2>1 DEF StackFor
<1>11. OnTop(t, hasher_push_cv(mid, t[e][b], r), e, b + 1)
  BY <1>1, <1>2, <1>6, <1>7, <1>10, PushFor
<1>12. st = hasher_push_cv(mid, t[e][b], r)
  BY <1>3, <1>4, <1>8 DEF SubtreeTwo
<1>13. b + 1 = 2 * i + 2
  BY <1>3, <1>4
<1> QED
  BY <1>11, <1>12, <1>13

(* The loop: one subtree, hashed as one chunk or as a pair. *)
LEMMA SubtreeKeeps ==
  ASSUME HasherState, Subtree
  PROVE  HasherState' /\ out' = <<>>
<1>1. PICK fl \in Nat : fl = ModeFlag(mode)
  BY ModeFlagIs DEF HasherState
<1>2. PICK q, L : Progress(key, fl, chunk, cv_stack, at, pending, pos, q, L)
  BY <1>1 DEF HasherState
<1>3. PICK C \in Nat \ {0} : C = CHUNK_LEN
  BY Lengths1
<1>4. /\ q \in Nat /\ at \in Nat /\ at = C * q + L
      /\ pending \in Nat /\ at + pending <= MaxMessage
      /\ chunk.flags = fl /\ chunk.chunk_counter = q /\ q <= Two[MAX_DEPTH]
  BY <1>2, <1>3, ProgressFacts
<1>5. flags = fl
  BY <1>4 DEF flags
<1>6. PICK t : t = Subtrees(key, fl)
  OBVIOUS
<1>7. Joins(t)
  BY <1>5, <1>6, SubtreesJoin
<1>8. pos = "subtrees" /\ pending > C
  BY <1>3 DEF Subtree
<1>9. L = 0 /\ at = C * q
  <2>1. L = 0
    BY <1>2, <1>8 DEF Progress
  <2> QED
    BY <1>4, <2>1
<1>10. StackFor(t, cv_stack, q) /\ chunk = ChunkAt(key, fl, q, 0)
  BY <1>2, <1>6, <1>9 DEF Progress, StackAt
<1>11. MaxMessage \in Nat /\ pending <= MaxMessage
  BY <1>4, MaxMessageIs
<1>12. PICK j \in 0 .. MAX_DEPTH, i \in Nat :
         SubtreeLen = CHUNK_LEN * Two[j] /\ CHUNK_LEN * Two[j] <= pending /\ q = Two[j] * i
  BY <1>3, <1>4, <1>8, <1>11, SubtreeLenIs
<1>13. PICK N \in Nat \ {0} : N = Two[j]
  BY TwoIs
<1>14. PICK n \in Nat \ {0} : n = C * N
  OBVIOUS
<1>15. SubtreeLen = n /\ n <= pending /\ q = N * i
  BY <1>3, <1>12, <1>13, <1>14
<1>16. n \div CHUNK_LEN = N
  <2>1. n = C * N + 0 /\ 0 \in 0 .. C - 1
    BY <1>14
  <2> QED
    BY <1>3, <2>1, DivMod
<1>17. PICK r \in Nat : r = q + N
  BY <1>4
<1>18. PICK l \in Nat : l = pending - n
  BY <1>4, <1>15
<1>19. /\ degree' = degree /\ mode' = mode /\ key' = key /\ out' = out /\ out = <<>> /\ pos' = pos
       /\ at' = at + n /\ pending' = l
  BY <1>8, <1>15, <1>18 DEF Subtree, HasherState
<1>20. chunk' = ChunkAt(key, fl, r, 0)
  <2>1. chunk' = [chunk EXCEPT !.chunk_counter = @ + N]
    BY <1>15, <1>16 DEF Subtree
  <2>2. chunk = chunk_state_init(key, fl, q)
    BY <1>4, <1>10, ChunkStarts
  <2>3. chunk' = chunk_state_init(key, fl, r)
    BY <1>17, <2>1, <2>2 DEF chunk_state_init
  <2> QED
    BY <2>3, ChunkStarts
<1>21. at' = C * r + 0 /\ at' + l <= MaxMessage
  <2>1. PICK p \in Nat : p = C * q
    BY <1>4
  <2>2. C * r = p + n
    BY <1>4, <1>14, <1>17, <2>1
  <2> QED
    BY <1>4, <1>9, <1>11, <1>15, <1>18, <1>19, <2>1, <2>2
<1>22. r <= Two[MAX_DEPTH]
  <2>1. PICK D \in Nat, M \in Nat : D = Two[MAX_DEPTH] /\ M = MaxMessage /\ M = C * D
    BY <1>3, MaxMessageIs, DepthFits
  <2>2. C * r <= C * D
    BY <1>18, <1>21, <2>1
  <2>3. \A x, y \in Nat : C * x <= C * y => x <= y
    OBVIOUS
  <2> QED
    BY <2>1, <2>2, <2>3
<1>23. StackAt(t, cv_stack', r, 0, l)
  <2>1. CASE j = 0
    <3>1. N = 1 /\ n = C
      <4>1. N = 1
        BY <1>13, <2>1, TwoIs
      <4> QED
        BY <1>14, <4>1
    <3>2. cv_stack' = hasher_push_cv(cv_stack, chunk_cv(at, n, q), q)
      BY <1>3, <1>4, <1>15, <3>1 DEF Subtree
    <3>3. chunk_cv(at, n, q) = t[0][q]
      BY <1>3, <1>4, <1>5, <1>6, <1>9, <3>1, ChunkCvIs
    <3>4. OnTop(t, cv_stack', 0, r)
      <4>1. 0 \in 0 .. MAX_DEPTH /\ q = Two[0] * q /\ r = q + 1
        BY <1>4, <1>17, <3>1, TwoIs
      <4> QED
        BY <1>4, <1>7, <1>10, <3>2, <3>3, <4>1, PushFor
    <3>5. 0 \in 0 .. MAX_DEPTH /\ r = Two[0] * r /\ r \in Nat \ {0} /\ l # 0
      BY <1>4, <1>8, <1>17, <1>18, <3>1, TwoIs
    <3>6. StackFor(t, cv_stack', r)
      BY <3>4, <3>5 DEF StackFor
    <3> QED
      BY <3>5, <3>6 DEF StackAt
  <2>2. CASE j # 0
    <3>1. PICK e \in 0 .. MAX_DEPTH - 1 : j = e + 1
      <4>1. j - 1 \in 0 .. MAX_DEPTH - 1 /\ j = (j - 1) + 1
        BY <2>2, TwoIs
      <4> QED
        BY <4>1
    <3>2. e \in 0 .. SizeBits /\ e \in 0 .. SizeBits - 1 /\ j \in 1 .. MAX_DEPTH /\ j - 1 = e /\ e \in 0 .. MAX_DEPTH
      BY <3>1, TwoIs
    <3>3. PICK d \in Nat \ {0} : d = Two[e] /\ N = 2 * d
      BY <1>13, <3>1, <3>2, TwoIs
    <3>4. ~ (n <= CHUNK_LEN) /\ N \div 2 = d
      <4>1. C * N = C * d + C * d /\ C * d >= C
        BY <3>3
      <4> QED
        BY <1>3, <1>14, <3>3, <4>1
    <3>5. PICK pair : pair = compress_subtree_to_parent_node(at, n, q)
      OBVIOUS
    <3>6. pair[1] = t[e][2 * i] /\ pair[2] = t[e][2 * i + 1]
      <4>1. degree \in {1, 4, 8, 16}
        BY DEF HasherState
      <4>2. q = Two[j] * i /\ n = CHUNK_LEN * Two[j] /\ at = CHUNK_LEN * q
        BY <1>3, <1>9, <1>13, <1>14, <1>15
      <4> QED
        BY <1>4, <1>5, <1>6, <3>2, <3>5, <4>1, <4>2, PairIs
    <3>7. PICK h \in Nat : h = q + d
      BY <1>4
    <3>8. SubtreeTwo(t, q, e, i, h, cv_stack')
      <4>1. cv_stack' = hasher_push_cv(hasher_push_cv(cv_stack, pair[1], q), pair[2], q + N \div 2)
        BY <1>4, <1>15, <1>16, <3>4, <3>5 DEF Subtree
      <4> QED
        BY <3>4, <3>6, <3>7, <4>1 DEF SubtreeTwo
    <3>9. h <= Two[MAX_DEPTH]
      BY <1>4, <1>17, <1>22, <3>3, <3>7, DepthFits
    <3>10. OnTop(t, cv_stack', e, 2 * i + 2)
      BY <1>4, <1>7, <1>10, <1>13, <1>15, <3>1, <3>3, <3>7, <3>8, <3>9, SubtreeTwoOnTop
    <3>11. PICK m \in Nat \ {0, 1} : m = 2 * i + 2
      OBVIOUS
    <3>12. r = Two[e] * m
      <4>1. d * (2 * i + 2) = (2 * d) * i + 2 * d
        OBVIOUS
      <4> QED
        BY <1>15, <1>17, <3>3, <3>11, <4>1
    <3>13. StackFor(t, cv_stack', r)
      BY <3>2, <3>10, <3>11, <3>12 DEF StackFor
    <3> QED
      BY <3>2, <3>10, <3>11, <3>12, <3>13 DEF StackAt
  <2> QED
    BY <2>1, <2>2
<1>24. Progress(key, fl, chunk', cv_stack', at', l, "subtrees", r, 0)
  BY <1>3, <1>6, <1>20, <1>21, <1>23 DEF Progress
<1>25. Progress(key', ModeFlag(mode'), chunk', cv_stack', at', pending', pos', r, 0)
  BY <1>1, <1>8, <1>19, <1>24
<1> QED
  BY <1>19, <1>25 DEF HasherState

(* The last bytes go to the chunk state, and the stack is merged. *)
LEMMA RemainderKeeps ==
  ASSUME HasherState, Remainder
  PROVE  HasherState' /\ out' = <<>>
<1>1. PICK fl \in Nat : fl = ModeFlag(mode)
  BY ModeFlagIs DEF HasherState
<1>2. PICK q, L : Progress(key, fl, chunk, cv_stack, at, pending, pos, q, L)
  BY <1>1 DEF HasherState
<1>3. PICK C \in Nat \ {0} : C = CHUNK_LEN
  BY Lengths1
<1>4. /\ q \in Nat /\ at \in Nat /\ at = C * q + L
      /\ pending \in Nat /\ at + pending <= MaxMessage
      /\ chunk.flags = fl /\ chunk.chunk_counter = q /\ q <= Two[MAX_DEPTH]
  BY <1>2, <1>3, ProgressFacts
<1>5. flags = fl
  BY <1>4 DEF flags
<1>6. PICK t : t = Subtrees(key, fl)
  OBVIOUS
<1>7. Joins(t)
  BY <1>5, <1>6, SubtreesJoin
<1>8. pos = "subtrees" /\ pending <= C
  BY <1>3 DEF Remainder
<1>9. L = 0 /\ at = C * q
  <2>1. L = 0
    BY <1>2, <1>8 DEF Progress
  <2> QED
    BY <1>4, <2>1
<1>10. StackAt(t, cv_stack, q, 0, pending) /\ chunk = ChunkAt(key, fl, q, 0)
  BY <1>2, <1>6, <1>9 DEF Progress
<1>11. /\ degree' = degree /\ mode' = mode /\ key' = key /\ out' = out /\ out = <<>> /\ pos' = "ready"
       /\ at' = at + pending /\ pending' = 0
  BY <1>8 DEF Remainder, HasherState
<1>12. PICK n \in Nat : n = pending
  BY <1>4
<1>13. n \in 0 .. CHUNK_LEN
  BY <1>3, <1>8, <1>12
<1>14. at' = C * q + n /\ at' + 0 <= MaxMessage
  BY <1>4, <1>9, <1>11, <1>12, MaxMessageIs
<1>15. chunk' = ChunkAt(key, fl, q, n)
  <2>1. CASE n = 0
    BY <1>10, <1>12, <2>1 DEF Remainder
  <2>2. CASE n # 0
    <3>1. Extends(q, 0, n, n, at)
      BY <1>3, <1>4, <1>9, <1>13 DEF Extends
    <3>2. chunk_state_update(ChunkAt(key, fl, q, 0), at, n) = ChunkAt(key, fl, q, n)
      BY <3>1, ChunkUpdate
    <3> QED
      BY <1>10, <1>12, <2>2, <3>2 DEF Remainder
  <2> QED
    BY <2>1, <2>2
<1>16. StackAt(t, cv_stack', q, n, 0)
  <2>1. CASE n = 0
    BY <1>10, <1>12, <2>1 DEF Remainder
  <2>2. CASE n # 0
    <3>1. cv_stack' = hasher_merge_cv_stack(cv_stack, q)
      BY <1>4, <1>12, <2>2 DEF Remainder
    <3>2. CoversFrom(t, cv_stack', 0, q)
      <4>1. StackFor(t, cv_stack, q)
        BY <1>10 DEF StackAt
      <4> QED
        BY <1>4, <1>7, <3>1, <4>1, MergeFor
    <3> QED
      BY <2>2, <3>2 DEF StackAt, StackFor
  <2> QED
    BY <2>1, <2>2
<1>17. Progress(key, fl, chunk', cv_stack', at', 0, "ready", q, n)
  BY <1>3, <1>4, <1>6, <1>13, <1>14, <1>15, <1>16 DEF Progress
<1>18. Progress(key', ModeFlag(mode'), chunk', cv_stack', at', pending', pos', q, n)
  BY <1>1, <1>11, <1>17
<1> QED
  BY <1>11, <1>18 DEF HasherState

(* The hasher starts again with another key. *)
LEMMA DeriveKeyKeeps ==
  ASSUME HasherState, DeriveKey
  PROVE  HasherState' /\ out' = <<>>
<1>1. /\ degree' = degree /\ mode' = "material" /\ out' = <<>> /\ pos' = "ready" /\ at' = 0 /\ pending' = pending
      /\ cv_stack' = <<>> /\ chunk' = chunk_state_init(key', ModeFlag("material"), 0)
  BY DEF DeriveKey
<1>2. pending = 0
  BY DEF DeriveKey, HasherState, Progress
<1>3. Progress(key', ModeFlag("material"), chunk_state_init(key', ModeFlag("material"), 0), <<>>, 0, 0, "ready", 0, 0)
  BY ProgressNone
<1>4. Progress(key', ModeFlag(mode'), chunk', cv_stack', at', pending', pos', 0, 0)
  BY <1>1, <1>2, <1>3
<1>5. degree \in {1, 4, 8, 16}
  BY DEF HasherState
<1> QED
  BY <1>1, <1>4, <1>5 DEF HasherState

(* A digest leaves the hasher as it is. *)
LEMMA FinalizeKeeps ==
  ASSUME HasherState, Finalize
  PROVE  HasherState'
<1>1. /\ degree' = degree /\ mode' = mode /\ key' = key /\ chunk' = chunk /\ cv_stack' = cv_stack
      /\ at' = at /\ pending' = pending /\ pos' = pos /\ pos = "ready"
  BY DEF Finalize
<1>2. PICK q, L : Progress(key, ModeFlag(mode), chunk, cv_stack, at, pending, pos, q, L)
  BY DEF HasherState
<1>3. Progress(key', ModeFlag(mode'), chunk', cv_stack', at', pending', pos', q, L)
  BY <1>1, <1>2
<1> QED
  BY <1>1, <1>3 DEF HasherState

-----------------------------------------------------------------------------
(* The root.  Going down the stack, the bytes covered so far start where the *)
(* values still on the stack end, and reach to the end of the message.       *)

(* A count of subtrees, as an odd count of subtrees that are as large or     *)
(* larger.                                                                   *)
SameCover(s, m, e, b) == \A t, st : CoversFrom(t, st, s, m) <=> CoversFrom(t, st, e, b)

(* Such an odd count exists. *)
LEMMA OddPart ==
  ASSUME NEW m \in Nat \ {0}, NEW s \in 0 .. MAX_DEPTH, Two[s] * m <= Two[MAX_DEPTH]
  PROVE  \E e \in 0 .. MAX_DEPTH, x \in Nat :
           s <= e /\ Two[s] * m = Two[e] * (2 * x + 1) /\ SameCover(s, m, e, 2 * x + 1)
<1> DEFINE Found(p, n) == \E e \in 0 .. MAX_DEPTH, x \in Nat :
             p <= e /\ Two[p] * n = Two[e] * (2 * x + 1) /\ SameCover(p, n, e, 2 * x + 1)
<1> DEFINE Set == {n \in Nat : n # 0 => \A p \in 0 .. MAX_DEPTH : Two[p] * n <= Two[MAX_DEPTH] => Found(p, n)}
<1>1. 0 \in Set
  OBVIOUS
<1>2. ASSUME NEW n \in Nat, n \in Set PROVE 2 * n \in Set
  <2> SUFFICES ASSUME n # 0, NEW p \in 0 .. MAX_DEPTH, Two[p] * (2 * n) <= Two[MAX_DEPTH] PROVE Found(p, 2 * n)
    OBVIOUS
  <2>1. PICK d \in Nat \ {0}, D \in Nat \ {0}, N \in Nat : d = Two[p] /\ D = Two[MAX_DEPTH] /\ N = Two[SizeBits] /\ D < N
    BY TwoIs, DepthFits
  <2>2. d * (2 * n) <= D
    BY <2>1
  <2>3. d < d * (2 * n)
    <3>1. PICK z \in Nat : n = z + 1
      <4>1. n - 1 \in Nat /\ n = (n - 1) + 1
        OBVIOUS
      <4> QED
        BY <4>1
    <3>2. d * (2 * (z + 1)) = d + d + d * (2 * z) /\ d * (2 * z) >= 0
      OBVIOUS
    <3> QED
      BY <2>1, <3>1, <3>2
  <2>4. p < MAX_DEPTH
    BY <2>1, <2>2, <2>3, TwoIs
  <2>5. PICK r \in 0 .. MAX_DEPTH : r = p + 1 /\ Two[r] = 2 * d
    <3>1. p + 1 \in 0 .. MAX_DEPTH /\ p \in 0 .. SizeBits - 1
      BY <2>4, TwoIs
    <3> QED
      BY <2>1, <3>1, TwoIs
  <2>6. Two[r] * n = Two[p] * (2 * n)
    <3>1. (2 * d) * n = d * (2 * n)
      OBVIOUS
    <3> QED
      BY <2>1, <2>5, <3>1
  <2>7. Found(r, n)
    BY <1>2, <2>6
  <2>8. 2 * n < N
    <3>1. PICK y \in Nat : y = 2 * n
      OBVIOUS
    <3>2. \A u, v \in Nat : u # 0 => v <= u * v
      OBVIOUS
    <3>3. y <= d * y
      BY <2>1, <3>2
    <3> QED
      BY <2>1, <2>2, <3>1, <3>3
  <2>9. SameCover(p, 2 * n, r, n)
    BY <2>1, <2>5, <2>8, CoversEven DEF SameCover
  <2>10. PICK e \in 0 .. MAX_DEPTH, x \in Nat :
           r <= e /\ Two[r] * n = Two[e] * (2 * x + 1) /\ SameCover(r, n, e, 2 * x + 1)
    BY <2>7
  <2>11. SameCover(p, 2 * n, e, 2 * x + 1)
    BY <2>9, <2>10 DEF SameCover
  <2>12. p <= e
    BY <2>5, <2>10
  <2> QED
    BY <2>6, <2>10, <2>11, <2>12
<1>3. ASSUME NEW n \in Nat, n \in Set PROVE 2 * n + 1 \in Set
  <2> SUFFICES ASSUME NEW p \in 0 .. MAX_DEPTH PROVE Found(p, 2 * n + 1)
    OBVIOUS
  <2>1. SameCover(p, 2 * n + 1, p, 2 * n + 1)
    BY DEF SameCover
  <2> QED
    BY <2>1
<1> HIDE DEF Set
<1>4. Nat \subseteq Set
  BY <1>1, <1>2, <1>3, AllBinary
<1>5. m \in Set
  BY <1>4
<1> QED
  BY <1>5 DEF Set

(* The n bytes at from, after m subtrees of 2^s chunks: at most one more.    *)
Rest(s, m, from, n) ==
  /\ s \in 0 .. MAX_DEPTH /\ m \in Nat /\ from \in Nat /\ n \in Nat \ {0}
  /\ from = CHUNK_LEN * (Two[s] * m) /\ n <= CHUNK_LEN * Two[s] /\ from + n <= MaxMessage

(* It is no more than the tree can have. *)
LEMMA RestFits ==
  ASSUME NEW s, NEW m, NEW from, NEW n, Rest(s, m, from, n)
  PROVE  Two[s] * m <= Two[MAX_DEPTH] /\ m < Two[SizeBits]
<1>1. PICK C \in Nat \ {0}, D \in Nat, N \in Nat :
        C = CHUNK_LEN /\ D = Two[MAX_DEPTH] /\ N = Two[SizeBits] /\ D < N /\ MaxMessage = C * D
  BY Lengths1, DepthFits, MaxMessageIs
<1>2. s \in 0 .. MAX_DEPTH /\ m \in Nat /\ from \in Nat /\ n \in Nat
  BY DEF Rest
<1>3. PICK d \in Nat \ {0} : d = Two[s]
  BY <1>2, TwoIs
<1>4. PICK p \in Nat : p = d * m
  BY <1>2
<1>5. C * p <= C * D
  <2>1. from = C * p /\ from + n <= MaxMessage
    BY <1>1, <1>3, <1>4 DEF Rest
  <2>2. C * D \in Nat
    OBVIOUS
  <2> QED
    BY <1>1, <1>2, <2>1, <2>2
<1>6. p <= D
  <2>1. \A x, y \in Nat : C * x <= C * y => x <= y
    OBVIOUS
  <2> QED
    BY <1>5, <2>1
<1>7. m <= p
  <2>1. \A u, v \in Nat : u # 0 => v <= u * v
    OBVIOUS
  <2> QED
    BY <1>2, <1>4, <2>1
<1> QED
  BY <1>1, <1>2, <1>3, <1>4, <1>6, <1>7

(* One parent on: the value at the top is the left side of it.               *)
Above(k, fl, t, st, from, n, a, s, m, f, l) ==
  /\ Rest(s, m, f, l) /\ f + l = from + n
  /\ Len(st) \in Nat \ {0} /\ st[Len(st)] = output_chaining_value(a)
  /\ CoversFrom(t, SubSeq(st, 1, Len(st) - 1), s, m)
  /\ NodeOf(k, fl, f, l) = Parent(k, fl, a, NodeOf(k, fl, from, n))

(* If anything is left on the stack, there is such a parent. *)
LEMMA Climb ==
  ASSUME NEW k, NEW fl, NEW t, t = Subtrees(k, fl), NEW st, NEW s, NEW m, NEW from, NEW n,
         Rest(s, m, from, n), m # 0, CoversFrom(t, st, s, m)
  PROVE  \E a, p, r, f, l : Above(k, fl, t, st, from, n, a, p, r, f, l)
<1>1. PICK C \in Nat \ {0}, D \in Nat, N \in Nat :
        C = CHUNK_LEN /\ D = Two[MAX_DEPTH] /\ N = Two[SizeBits] /\ D < N /\ MaxMessage = C * D
  BY Lengths1, DepthFits, MaxMessageIs
<1>2. /\ s \in 0 .. MAX_DEPTH /\ m \in Nat \ {0} /\ from \in Nat /\ n \in Nat \ {0}
      /\ from = C * (Two[s] * m) /\ n <= C * Two[s] /\ from + n <= C * D
      /\ Two[s] * m <= Two[MAX_DEPTH]
  BY <1>1, RestFits DEF Rest
<1>3. PICK e \in 0 .. MAX_DEPTH, x \in Nat :
        s <= e /\ Two[s] * m = Two[e] * (2 * x + 1) /\ SameCover(s, m, e, 2 * x + 1)
  BY <1>2, OddPart
<1>4. PICK d \in Nat \ {0}, E \in Nat \ {0} : d = Two[s] /\ E = Two[e]
  BY <1>2, TwoIs
<1>5. d <= E
  BY <1>2, <1>3, <1>4, PowersGrow, TwoIs
<1>6. PICK l \in Nat \ {0} : l = C * E
  OBVIOUS
<1>7. PICK y \in Nat : y = 2 * x
  OBVIOUS
<1>8. PICK f \in Nat : f = l * y
  OBVIOUS
<1>9. from = f + l
  <2>1. from = C * (E * (y + 1))
    BY <1>2, <1>3, <1>4, <1>7
  <2>2. C * (E * (y + 1)) = (C * E) * y + C * E
    OBVIOUS
  <2> QED
    BY <1>6, <1>8, <2>1, <2>2
<1>10. n <= l
  <2>1. \A u, v \in Nat : u <= v => C * u <= C * v
    OBVIOUS
  <2>2. C * d <= C * E
    BY <1>5, <2>1
  <2> QED
    BY <1>2, <1>4, <1>6, <2>2
<1>11. PICK h \in Nat \ {0} : h = l + n
  BY <1>2
<1>12. e < MAX_DEPTH
  <2>1. l < C * D
    <3>1. C * D \in Nat
      OBVIOUS
    <3> QED
      BY <1>2, <1>9, <3>1
  <2>2. E # D
    BY <1>6, <2>1
  <2> QED
    BY <1>1, <1>4, <2>2, TwoIs
<1>13. e \in 0 .. MAX_DEPTH - 1 /\ e \in 0 .. SizeBits - 1
  BY <1>12, TwoIs
<1>14. PICK p \in 0 .. MAX_DEPTH : p = e + 1 /\ Two[p] = 2 * E
  <2>1. e + 1 \in 0 .. MAX_DEPTH
    BY <1>12, TwoIs
  <2> QED
    BY <1>4, <1>13, <2>1, TwoIs
<1>15. Rest(p, x, f, h)
  <2>1. C * ((2 * E) * x) = (C * E) * (2 * x) /\ C * (2 * E) = 2 * (C * E)
    OBVIOUS
  <2>2. f = CHUNK_LEN * (Two[p] * x)
    BY <1>1, <1>6, <1>7, <1>8, <1>14, <2>1
  <2>3. h <= CHUNK_LEN * Two[p]
    BY <1>1, <1>2, <1>6, <1>10, <1>11, <1>14, <2>1
  <2>4. f + h <= MaxMessage
    BY <1>1, <1>2, <1>9, <1>11
  <2> QED
    BY <1>11, <1>14, <2>2, <2>3, <2>4 DEF Rest
<1>16. f + h = from + n
  BY <1>2, <1>9, <1>11
<1>17. NodeOf(k, fl, f, h) = Parent(k, fl, NodeOf(k, fl, f, l), NodeOf(k, fl, from, n))
  <2>1. SplitAt(f, h, e, l, from, n)
    BY <1>1, <1>2, <1>4, <1>6, <1>9, <1>10, <1>11, <1>13 DEF SplitAt
  <2> QED
    BY <2>1, NodeParent
<1>18. CoversFrom(t, st, e, 2 * x + 1)
  BY <1>3 DEF SameCover
<1>19. 2 * x + 1 < Two[SizeBits]
  <2>1. PICK z \in Nat : z = 2 * x + 1
    OBVIOUS
  <2>2. \A u, v \in Nat : u # 0 => v <= u * v
    OBVIOUS
  <2>3. z <= E * z
    BY <2>2
  <2> QED
    BY <1>1, <1>2, <1>3, <1>4, <2>1, <2>3
<1>20. /\ Len(st) \in Nat \ {0} /\ st[Len(st)] = t[e][2 * x]
       /\ CoversFrom(t, SubSeq(st, 1, Len(st) - 1), p, x)
  <2>1. e \in Nat /\ e <= MAX_DEPTH
    BY TwoIs
  <2>2. /\ Len(st) \in Nat \ {0} /\ st[Len(st)] = t[e][2 * x]
        /\ CoversFrom(t, SubSeq(st, 1, Len(st) - 1), e + 1, x)
    BY <1>18, <1>19, <2>1, CoversSplit, SMTT(40)
  <2> QED
    BY <1>14, <2>2
<1>21. t[e][2 * x] = output_chaining_value(NodeOf(k, fl, f, l))
  <2>1. t[e][y] = SubtreeAt(k, fl, e, y)
    BY <1>3 DEF Subtrees
  <2>2. SubtreeAt(k, fl, e, y) = output_chaining_value(NodeOf(k, fl, f, l))
    BY <1>1, <1>4, <1>6, <1>8 DEF SubtreeAt
  <2> QED
    BY <1>7, <2>1, <2>2
<1>22. Above(k, fl, t, st, from, n, NodeOf(k, fl, f, l), p, x, f, h)
  BY <1>15, <1>16, <1>17, <1>20, <1>21 DEF Above
<1> QED
  BY <1>22

(* The turns of the finalize, from the value it starts with.                 *)
RootStart == IF chunk_state_len(chunk) > 0 THEN Len(cv_stack) ELSE Len(cv_stack) - 2

(* The value it starts with: the chunk, or the parent of the two at the top. *)
RootFirst ==
  IF chunk_state_len(chunk) > 0 THEN chunk_state_output(chunk)
  ELSE parent_output(cv_stack[RootStart + 1], cv_stack[RootStart + 2], key, flags)
RootStep(k, below) ==
  parent_output(cv_stack[RootStart - k + 1], output_chaining_value(below), key, flags)
RootChain(n, f) == f = [k \in 0 .. n |-> IF k = 0 THEN RootFirst ELSE RootStep(k, f[k - 1])]

(* Such a chain exists. *)
LEMMA RootChainExists ==
  ASSUME NEW n \in Nat
  PROVE  \E f : RootChain(n, f)
<1> DEFINE Set == {m \in Nat : \E f : RootChain(m, f)}
<1>1. 0 \in Set
  <2>1. PICK f : f = [k \in 0 .. 0 |-> RootFirst]
    OBVIOUS
  <2>2. f = [k \in 0 .. 0 |-> IF k = 0 THEN RootFirst ELSE RootStep(k, f[k - 1])]
    BY <2>1
  <2> QED
    BY <2>2 DEF RootChain
<1>2. ASSUME NEW m \in Nat, m \in Set PROVE m + 1 \in Set
  <2>1. PICK f : f = [k \in 0 .. m |-> IF k = 0 THEN RootFirst ELSE RootStep(k, f[k - 1])]
    BY <1>2 DEF RootChain
  <2>2. PICK h : h = [k \in 0 .. m + 1 |-> IF k = 0 THEN RootFirst ELSE RootStep(k, f[k - 1])]
    OBVIOUS
  <2>3. \A k \in 0 .. m : h[k] = f[k]
    BY <2>1, <2>2
  <2>4. \A k \in 0 .. m + 1 : k # 0 => k - 1 \in 0 .. m
    OBVIOUS
  <2>5. h = [k \in 0 .. m + 1 |-> IF k = 0 THEN RootFirst ELSE RootStep(k, h[k - 1])]
    BY <2>2, <2>3, <2>4
  <2> QED
    BY <2>5 DEF RootChain
<1> HIDE DEF Set
<1>3. Nat \subseteq Set
  BY <1>1, <1>2, AllNumbers
<1> QED
  BY <1>3 DEF Set

(* The finalize, turn by turn. *)
LEMMA RootSteps ==
  ASSUME cv_stack # <<>>, RootStart \in Nat
  PROVE  \E f : /\ RootOutput = f[RootStart] /\ f[0] = RootFirst
                /\ \A k \in 0 .. RootStart - 1 : f[k + 1] = RootStep(k + 1, f[k])
<1>1. PICK f : f = CHOOSE u : RootChain(RootStart, u)
  OBVIOUS
<1>2. RootChain(RootStart, f)
  BY <1>1, RootChainExists
<1>3. RootOutput = f[RootStart]
  BY <1>1 DEF RootOutput, RootChain, RootStart, RootFirst, RootStep
<1>4. \A k \in 0 .. RootStart - 1 : f[k + 1] = RootStep(k + 1, f[k])
  <2> TAKE k \in 0 .. RootStart - 1
  <2>1. k + 1 \in 0 .. RootStart /\ k + 1 # 0 /\ (k + 1) - 1 = k
    OBVIOUS
  <2> QED
    BY <1>2, <2>1 DEF RootChain
<1>5. f[0] = RootFirst
  BY <1>2 DEF RootChain
<1> QED
  BY <1>3, <1>4, <1>5

(* parent_output makes the parent node. *)
LEMMA ParentOutputIs ==
  ASSUME NEW fl, flags = fl, NEW a, NEW b, NEW x, NEW y, x = output_chaining_value(a), y = output_chaining_value(b)
  PROVE  parent_output(x, y, key, flags) = Parent(key, fl, a, b)
BY DEF parent_output, make_output, Parent

(* The first values of a stack, and those of its first ones. *)
LEMMA FirstOfFirst ==
  ASSUME NEW V, NEW st \in Seq(V), NEW n \in 0 .. Len(st), NEW m \in 0 .. n
  PROVE  SubSeq(SubSeq(st, 1, n), 1, m) = SubSeq(st, 1, m)
<1>1. PICK f : f = SubSeq(st, 1, n)
  OBVIOUS
<1>2. f \in Seq(V) /\ Len(f) = n /\ \A i \in 1 .. n : f[i] = st[i]
  BY <1>1, FirstOf
<1>3. PICK g : g = SubSeq(f, 1, m)
  OBVIOUS
<1>4. g \in Seq(V) /\ Len(g) = m /\ \A i \in 1 .. m : g[i] = f[i]
  BY <1>2, <1>3, FirstOf
<1>5. PICK h : h = SubSeq(st, 1, m)
  OBVIOUS
<1>6. h \in Seq(V) /\ Len(h) = m /\ \A i \in 1 .. m : h[i] = st[i]
  <2>1. m \in 0 .. Len(st)
    OBVIOUS
  <2> QED
    BY <1>5, <2>1, FirstOf
<1>7. \A i \in 1 .. m : g[i] = h[i]
  BY <1>2, <1>4, <1>6
<1>8. g = h
  BY <1>4, <1>6, <1>7, SeqEqual
<1> QED
  BY <1>1, <1>3, <1>5, <1>8

(* o is the node of all bytes from where the values of st end. *)
RootAt(k, fl, t, st, a, s, m, from, n, o) ==
  /\ Rest(s, m, from, n) /\ from + n = a /\ CoversFrom(t, st, s, m)
  /\ o = NodeOf(k, fl, from, n)

(* The first value covers the end of the message. *)
LEMMA RootBegins ==
  ASSUME NEW fl \in Nat, flags = fl, NEW t, t = Subtrees(key, fl), NEW q, NEW L,
         Progress(key, fl, chunk, cv_stack, at, 0, pos, q, L), cv_stack # <<>>
  PROVE  /\ RootStart \in 0 .. Len(cv_stack)
         /\ \E s, m, from, n : RootAt(key, fl, t, SubSeq(cv_stack, 1, RootStart), at, s, m, from, n, RootFirst)
<1>1. PICK C \in Nat \ {0} : C = CHUNK_LEN
  BY Lengths1
<1>2. /\ q \in Nat /\ L \in Nat /\ L <= C /\ at \in Nat /\ at = C * q + L /\ at + 0 <= MaxMessage
      /\ chunk_state_len(chunk) = L /\ q <= Two[MAX_DEPTH]
  BY <1>1, ProgressFacts
<1>3. StackAt(t, cv_stack, q, L, 0) /\ chunk = ChunkAt(key, fl, q, L)
  BY DEF Progress
<1>4. cv_stack \in Seq(Values(t)) /\ Len(cv_stack) \in Nat
  <2>1. StackFor(t, cv_stack, q)
    BY <1>3 DEF StackAt
  <2>2. cv_stack \in Seq(Values(t))
    BY <2>1 DEF StackFor, CoversFrom, OnTop
  <2> QED
    BY <2>2
<1>5. PICK p \in Nat : p = C * q
  BY <1>2
<1>6. MaxMessage \in Nat
  BY MaxMessageIs
<1>7. CASE L > 0
  <2>1. RootStart = Len(cv_stack) /\ RootFirst = chunk_state_output(chunk)
    BY <1>2, <1>7 DEF RootStart, RootFirst
  <2>2. SubSeq(cv_stack, 1, RootStart) = cv_stack
    <3>1. Len(cv_stack) \in 0 .. Len(cv_stack)
      BY <1>4
    <3>2. PICK g : g = SubSeq(cv_stack, 1, Len(cv_stack))
      OBVIOUS
    <3>3. g \in Seq(Values(t)) /\ Len(g) = Len(cv_stack) /\ \A i \in 1 .. Len(cv_stack) : g[i] = cv_stack[i]
      BY <1>4, <3>1, <3>2, FirstOf
    <3>4. g = cv_stack
      BY <1>4, <3>3, SeqEqual
    <3> QED
      BY <2>1, <3>2, <3>4
  <2>3. Rest(0, q, p, L)
    <3>1. 0 \in 0 .. MAX_DEPTH /\ Two[0] = 1 /\ p = CHUNK_LEN * (Two[0] * q) /\ CHUNK_LEN * Two[0] = C
      BY <1>1, <1>2, <1>5, TwoIs
    <3> QED
      BY <1>2, <1>5, <1>6, <1>7, <3>1 DEF Rest
  <2>4. RootFirst = NodeOf(key, fl, p, L)
    <3>1. L \in 0 .. CHUNK_LEN /\ p = CHUNK_LEN * q
      BY <1>1, <1>2, <1>5
    <3> QED
      BY <1>2, <1>3, <2>1, <3>1, ChunkOutput
  <2>5. CoversFrom(t, cv_stack, 0, q)
    BY <1>3, <1>7 DEF StackAt
  <2>6. RootAt(key, fl, t, SubSeq(cv_stack, 1, RootStart), at, 0, q, p, L, RootFirst)
    BY <1>2, <1>5, <2>2, <2>3, <2>4, <2>5 DEF RootAt
  <2> QED
    BY <1>4, <2>1, <2>6
<1>8. CASE L = 0
  <2>1. q > 0
    <3> SUFFICES ASSUME q = 0 PROVE FALSE
      BY <1>2
    <3>1. CASE CoversFrom(t, cv_stack, 0, q)
      <4>1. Len(cv_stack) = 0
        BY <3>1, PopcntZero DEF CoversFrom
      <4> QED
        BY <1>4, <4>1
    <3>2. CASE \E s \in 0 .. MAX_DEPTH, m \in Nat \ {0} : q = Two[s] * m /\ OnTop(t, cv_stack, s, m)
      <4>1. PICK s \in 0 .. MAX_DEPTH, m \in Nat \ {0} : q = Two[s] * m
        BY <3>2
      <4>2. PICK d \in Nat \ {0} : d = Two[s]
        <5>1. \A e \in 0 .. MAX_DEPTH : Two[e] \in Nat \ {0}
          BY TwoIs
        <5> QED
          BY <5>1
      <4>3. \A u, v \in Nat \ {0} : u * v # 0
        OBVIOUS
      <4> QED
        BY <4>1, <4>2, <4>3
    <3> QED
      BY <1>3, <3>1, <3>2 DEF StackAt, StackFor
  <2>2. PICK s \in 0 .. MAX_DEPTH, m \in Nat \ {0, 1} : q = Two[s] * m /\ OnTop(t, cv_stack, s, m)
    BY <1>2, <1>3, <1>8, <2>1 DEF StackAt
  <2>3. PICK b \in Nat \ {0} : b = m - 1
    BY <2>2
  <2>4. PICK d \in Nat \ {0} : d = Two[s]
    <3>1. \A e \in 0 .. MAX_DEPTH : Two[e] \in Nat \ {0}
      BY TwoIs
    <3> QED
      BY <3>1
  <2>5. PICK n \in Nat \ {0} : n = C * d
    OBVIOUS
  <2>6. PICK from \in Nat : from = n * b
    OBVIOUS
  <2>7. from + n = at
    <3>1. (C * d) * b + C * d = C * (d * (b + 1))
      OBVIOUS
    <3>2. m = b + 1
      BY <2>3
    <3> QED
      BY <1>2, <1>8, <2>2, <2>4, <2>5, <2>6, <3>1, <3>2
  <2>8. Rest(s, b, from, n)
    <3>1. (C * d) * b = C * (d * b)
      OBVIOUS
    <3>2. from = CHUNK_LEN * (Two[s] * b) /\ n <= CHUNK_LEN * Two[s]
      BY <1>1, <2>4, <2>5, <2>6, <3>1
    <3> QED
      BY <1>2, <2>7, <3>2 DEF Rest
  <2>9. PICK N \in Nat : N = Len(cv_stack) /\ N >= 1
    BY <1>4, <2>2 DEF OnTop
  <2>10. PICK c \in Nat : c = N - 1
    BY <2>9
  <2>11. PICK st : st = SubSeq(cv_stack, 1, c)
    OBVIOUS
  <2>12. c \in 0 .. Len(cv_stack)
    BY <2>9, <2>10
  <2>13. st \in Seq(Values(t)) /\ Len(st) = c /\ \A i \in 1 .. c : st[i] = cv_stack[i]
    BY <1>4, <2>11, <2>12, FirstOf
  <2>14. CoversFrom(t, st, s, b) /\ cv_stack[N] = t[s][b]
    BY <2>2, <2>3, <2>9, <2>10, <2>11 DEF OnTop
  <2>15. PICK a, p2, r, f, l : Above(key, fl, t, st, from, n, a, p2, r, f, l)
    BY <2>3, <2>8, <2>14, Climb
  <2>16. PICK j \in Nat : j = c - 1 /\ c \in Nat \ {0}
    BY <2>13, <2>15 DEF Above
  <2>17. RootStart = j /\ j + 1 = c /\ j + 2 = N /\ j \in 0 .. c
    BY <1>2, <1>8, <2>9, <2>10, <2>16 DEF RootStart
  <2>18. SubSeq(st, 1, j) = SubSeq(cv_stack, 1, j)
    BY <1>4, <2>11, <2>12, <2>17, FirstOfFirst
  <2>19. cv_stack[c] = output_chaining_value(a) /\ CoversFrom(t, SubSeq(cv_stack, 1, j), p2, r)
    <3>1. c \in 1 .. c /\ c - 1 = j
      BY <2>16
    <3> QED
      BY <2>13, <2>15, <2>18, <3>1 DEF Above
  <2>20. cv_stack[N] = output_chaining_value(NodeOf(key, fl, from, n))
    <3>1. t[s][b] = SubtreeAt(key, fl, s, b)
      BY <2>2, <2>3 DEF Subtrees
    <3>2. SubtreeAt(key, fl, s, b) = output_chaining_value(NodeOf(key, fl, from, n))
      BY <1>1, <2>4, <2>5, <2>6 DEF SubtreeAt
    <3> QED
      BY <2>14, <3>1, <3>2
  <2>21. RootFirst = Parent(key, fl, a, NodeOf(key, fl, from, n))
    <3>1. RootFirst = parent_output(cv_stack[c], cv_stack[N], key, flags)
      BY <1>2, <1>8, <2>17 DEF RootFirst
    <3> QED
      BY <2>19, <2>20, <3>1, ParentOutputIs
  <2>22. RootAt(key, fl, t, SubSeq(cv_stack, 1, RootStart), at, p2, r, f, l, RootFirst)
    BY <2>7, <2>15, <2>17, <2>19, <2>21 DEF RootAt, Above
  <2>23. RootStart \in 0 .. Len(cv_stack)
    BY <2>9, <2>17
  <2> QED
    BY <2>22, <2>23
<1> QED
  BY <1>2, <1>7, <1>8

(* The last one is the root of the whole message. *)
LEMMA RootIs ==
  ASSUME NEW fl \in Nat, flags = fl, NEW q, NEW L,
         Progress(key, fl, chunk, cv_stack, at, 0, pos, q, L)
  PROVE  RootOutput = NodeOf(key, fl, 0, at)
<1>1. PICK t : t = Subtrees(key, fl)
  OBVIOUS
<1>2. /\ q \in Nat /\ L \in Nat /\ L <= CHUNK_LEN /\ at = CHUNK_LEN * q + L /\ q <= Two[MAX_DEPTH]
  BY ProgressFacts
<1>3. StackAt(t, cv_stack, q, L, 0) /\ chunk = ChunkAt(key, fl, q, L)
  BY <1>1 DEF Progress
<1>4. cv_stack \in Seq(Values(t)) /\ Len(cv_stack) \in Nat
  <2>1. StackFor(t, cv_stack, q)
    BY <1>3 DEF StackAt
  <2>2. cv_stack \in Seq(Values(t))
    BY <2>1 DEF StackFor, CoversFrom, OnTop
  <2> QED
    BY <2>2
<1>5. CASE cv_stack = <<>>
  <2>1. CoversFrom(t, cv_stack, 0, q)
    <3>1. ~ (\E s \in 0 .. MAX_DEPTH, m \in Nat \ {0} : q = Two[s] * m /\ OnTop(t, cv_stack, s, m))
      BY <1>5 DEF OnTop
    <3> QED
      BY <1>3, <3>1 DEF StackAt, StackFor
  <2>2. popcnt(q) = 0
    BY <1>5, <2>1 DEF CoversFrom
  <2>3. q = 0
    <3>1. q < Two[SizeBits]
      BY <1>2, DepthFits
    <3>2. q # 0 => popcnt(q) >= 1
      BY <1>2, <3>1, PopcntPred
    <3> QED
      BY <2>2, <3>2
  <2>4. at = L /\ L \in 0 .. CHUNK_LEN /\ 0 = CHUNK_LEN * 0
    BY <1>2, <2>3, Lengths1
  <2>5. chunk_state_output(ChunkAt(key, fl, 0, L)) = NodeOf(key, fl, 0, L)
    BY <2>4, ChunkOutput
  <2>6. RootOutput = chunk_state_output(chunk)
    BY <1>5 DEF RootOutput
  <2> QED
    BY <1>3, <2>3, <2>4, <2>5, <2>6
<1>6. CASE cv_stack # <<>>
  <2>1. PICK S \in 0 .. Len(cv_stack) : S = RootStart
    BY <1>1, <1>6, RootBegins
  <2>2. S \in Nat /\ S <= Len(cv_stack)
    BY <1>4, <2>1
  <2>3. PICK f : /\ RootOutput = f[S] /\ f[0] = RootFirst
                 /\ \A k \in 0 .. S - 1 : f[k + 1] = RootStep(k + 1, f[k])
    BY <1>6, <2>1, <2>2, RootSteps
  <2> DEFINE Reached(j) == \E s, m, from, n : RootAt(key, fl, t, SubSeq(cv_stack, 1, S - j), at, s, m, from, n, f[j])
  <2> DEFINE Set == {j \in Nat : j <= S => Reached(j)}
  <2>4. 0 \in Set
    <3>1. S - 0 = S
      BY <2>2
    <3>2. \E s, m, from, n : RootAt(key, fl, t, SubSeq(cv_stack, 1, S), at, s, m, from, n, RootFirst)
      BY <1>1, <1>6, <2>1, RootBegins
    <3> QED
      BY <2>3, <3>1, <3>2
  <2>5. ASSUME NEW j \in Nat, j \in Set PROVE j + 1 \in Set
    <3> SUFFICES ASSUME j + 1 <= S PROVE Reached(j + 1)
      OBVIOUS
    <3>1. PICK c \in Nat \ {0} : c = S - j
      BY <2>2
    <3>2. c \in 0 .. Len(cv_stack) /\ c - 1 \in 0 .. c /\ S - (j + 1) = c - 1
      BY <2>2, <3>1
    <3>3. PICK st : st = SubSeq(cv_stack, 1, c)
      OBVIOUS
    <3>4. st \in Seq(Values(t)) /\ Len(st) = c /\ \A i \in 1 .. c : st[i] = cv_stack[i]
      BY <1>4, <3>2, <3>3, FirstOf
    <3>5. Reached(j)
      BY <2>2, <2>5
    <3>6. PICK s, m, from, n : RootAt(key, fl, t, st, at, s, m, from, n, f[j])
      BY <3>1, <3>3, <3>5
    <3>7. m # 0
      BY <3>4, <3>6, PopcntZero DEF RootAt, CoversFrom
    <3>8. PICK a, p, r, g, l : Above(key, fl, t, st, from, n, a, p, r, g, l)
      BY <1>1, <3>6, <3>7, Climb DEF RootAt
    <3>9. SubSeq(st, 1, c - 1) = SubSeq(cv_stack, 1, c - 1)
      BY <1>4, <3>2, <3>3, FirstOfFirst
    <3>10. f[j + 1] = parent_output(cv_stack[c], output_chaining_value(f[j]), key, flags)
      <4>1. j \in 0 .. S - 1 /\ S - (j + 1) + 1 = c
        BY <2>2, <3>1
      <4>2. f[j + 1] = RootStep(j + 1, f[j])
        BY <2>3, <4>1
      <4> QED
        BY <2>1, <4>1, <4>2 DEF RootStep
    <3>11. cv_stack[c] = output_chaining_value(a)
      <4>1. c \in 1 .. c
        OBVIOUS
      <4> QED
        BY <3>4, <3>8, <4>1 DEF Above
    <3>12. f[j] = NodeOf(key, fl, from, n)
      BY <3>6 DEF RootAt
    <3>13. f[j + 1] = Parent(key, fl, a, NodeOf(key, fl, from, n))
      BY <3>10, <3>11, <3>12, ParentOutputIs
    <3>14. RootAt(key, fl, t, SubSeq(cv_stack, 1, c - 1), at, p, r, g, l, f[j + 1])
      BY <3>4, <3>6, <3>8, <3>9, <3>13 DEF RootAt, Above
    <3> QED
      BY <3>2, <3>14
  <2> HIDE DEF Set
  <2>6. Nat \subseteq Set
    BY <2>4, <2>5, AllNumbers
  <2>7. Reached(S)
    BY <2>2, <2>6 DEF Set
  <2>8. PICK s, m, from, n : RootAt(key, fl, t, SubSeq(cv_stack, 1, 0), at, s, m, from, n, f[S])
    BY <2>2, <2>7
  <2>9. Len(SubSeq(cv_stack, 1, 0)) = 0
    <3>1. 0 \in 0 .. Len(cv_stack)
      BY <1>4
    <3> QED
      BY <1>4, <3>1, FirstOf
  <2>10. m = 0
    <3>1. m \in Nat /\ m < Two[SizeBits] /\ popcnt(m) = 0
      BY <2>8, <2>9, RestFits DEF RootAt, Rest, CoversFrom
    <3>2. m # 0 => popcnt(m) >= 1
      BY <3>1, PopcntPred
    <3> QED
      BY <3>1, <3>2
  <2>11. from = 0 /\ n = at
    <3>1. from = CHUNK_LEN * (Two[s] * 0) /\ s \in 0 .. MAX_DEPTH /\ n \in Nat /\ from + n = at
      BY <2>8, <2>10 DEF RootAt, Rest
    <3>2. Two[s] * 0 = 0 /\ CHUNK_LEN * 0 = 0
      BY <3>1, Lengths1, TwoIs
    <3> QED
      BY <3>1, <3>2
  <2> QED
    BY <2>3, <2>8, <2>11 DEF RootAt
<1> QED
  BY <1>5, <1>6

-----------------------------------------------------------------------------
(* What the two properties say, from the invariant. *)
LEMMA CoversIs ==
  ASSUME NEW t, t = Subtrees(key, ModeFlag(mode)), NEW st, NEW m \in Nat, CoversFrom(t, st, 0, m)
  PROVE  Covers(st, m)
<1>1. Len(st) = popcnt(m)
  BY DEF CoversFrom
<1>2. ASSUME NEW k \in 0 .. MAX_DEPTH, (m \div 2^k) % 2 = 1
      PROVE  st[popcnt(m \div 2^k)] = SubtreeCV(k, (m \div 2^k) - 1)
  <2>1. PICK d \in Nat \ {0} : d = Two[k] /\ 2^k = d
    BY TwoIs
  <2>2. PICK h \in Nat : h = m \div d
    <3>1. PICK i \in Nat, u \in 0 .. d - 1 : m = d * i + u
      BY DivModExists
    <3>2. m \div d = i
      BY <3>1, DivMod
    <3> QED
      BY <3>2
  <2>3. PICK i \in Nat : i = h - 1
    <3>1. h % 2 = 1
      BY <1>2, <2>1, <2>2
    <3>2. h # 0
      BY <3>1
    <3>3. h - 1 \in Nat
      BY <3>2
    <3> QED
      BY <3>3
  <2>4. BitHeld(t, st, 0, m, k)
    BY DEF CoversFrom
  <2>5. st[popcnt(h)] = t[k][i]
    BY <1>2, <2>1, <2>2, <2>3, <2>4 DEF BitHeld
  <2>6. t[k][i] = SubtreeAt(key, ModeFlag(mode), k, i)
    BY <2>3 DEF Subtrees
  <2>7. SubtreeAt(key, ModeFlag(mode), k, i) = SubtreeCV(k, i)
    BY <2>1 DEF SubtreeAt, SubtreeCV, NodeOf, Node
  <2> QED
    BY <2>1, <2>2, <2>3, <2>5, <2>6, <2>7
<1> QED
  BY <1>1, <1>2 DEF Covers

(* The invariant implies the property. *)
LEMMA StackCoversIs == HasherState => StackCoversInput
<1> SUFFICES ASSUME HasherState PROVE StackCoversInput
  OBVIOUS
<1>1. PICK fl \in Nat : fl = ModeFlag(mode)
  BY ModeFlagIs DEF HasherState
<1>2. PICK q, L : Progress(key, fl, chunk, cv_stack, at, pending, pos, q, L)
  BY <1>1 DEF HasherState
<1>3. q \in Nat /\ chunk.chunk_counter = q /\ q <= Two[MAX_DEPTH]
  BY <1>2, ProgressFacts
<1>4. PICK t : t = Subtrees(key, fl)
  OBVIOUS
<1>5. StackFor(t, cv_stack, q)
  BY <1>2, <1>4 DEF Progress, StackAt
<1>6. PICK D \in Nat \ {0} : D = Two[MAX_DEPTH] /\ Two[MAX_DEPTH + 1] = 2 * D /\ MAX_DEPTH \in 0 .. SizeBits
                             /\ MAX_DEPTH + 1 \in 0 .. SizeBits
  BY TwoIs
<1>7. CASE CoversFrom(t, cv_stack, 0, q)
  <2>1. Covers(cv_stack, q)
    BY <1>1, <1>3, <1>4, <1>7, CoversIs
  <2>2. q < Two[MAX_DEPTH + 1]
    BY <1>3, <1>6
  <2>3. Len(cv_stack) <= MAX_DEPTH + 1
    BY <1>3, <1>6, <1>7, <2>2, PopcntBound DEF CoversFrom
  <2> QED
    BY <1>3, <2>1, <2>3 DEF StackCoversInput
<1>8. CASE \E s \in 0 .. MAX_DEPTH, m \in Nat \ {0} : q = Two[s] * m /\ OnTop(t, cv_stack, s, m)
  <2>1. PICK s \in 0 .. MAX_DEPTH, m \in Nat \ {0} : q = Two[s] * m /\ OnTop(t, cv_stack, s, m)
    BY <1>8
  <2>2. PICK d \in Nat \ {0} : d = Two[s] /\ 2^s = d
    <3>1. \A e \in 0 .. MAX_DEPTH : Two[e] \in Nat \ {0} /\ 2^e = Two[e]
      BY TwoIs
    <3> QED
      BY <3>1
  <2>3. PICK b \in Nat : b = m - 1
    BY <2>1
  <2>4. PICK p \in Nat : p = d * b
    OBVIOUS
  <2>5. q = p + d /\ q - d = p
    <3>1. d * (b + 1) = d * b + d /\ m = b + 1
      BY <2>3
    <3> QED
      BY <1>3, <2>1, <2>2, <2>4, <3>1
  <2>6. p < D /\ p <= Two[MAX_DEPTH]
    BY <1>3, <1>6, <2>5
  <2>7. PICK n \in Nat : n = Len(cv_stack) /\ n > 0
    BY <2>1 DEF OnTop
  <2>8. PICK st : st = SubSeq(cv_stack, 1, n - 1)
    OBVIOUS
  <2>9. CoversFrom(t, st, s, b) /\ cv_stack[n] = t[s][b]
    BY <2>1, <2>3, <2>7, <2>8 DEF OnTop
  <2>10. CoversFrom(t, st, 0, p)
    <3>1. p = Two[s] * b
      BY <2>2, <2>4
    <3>2. Two[s] * b <= Two[MAX_DEPTH]
      BY <2>6, <3>1
    <3>3. CoversFrom(t, st, 0, Two[s] * b) <=> CoversFrom(t, st, s, b)
      BY <2>3, <3>2, CoversShift
    <3> QED
      BY <2>9, <3>1, <3>3
  <2>11. Covers(st, p)
    BY <1>1, <1>4, <2>10, CoversIs
  <2>12. n <= MAX_DEPTH + 1
    <3>1. Len(st) = n - 1
      <4>1. cv_stack \in Seq(Values(t)) /\ n - 1 \in 0 .. Len(cv_stack)
        BY <2>1, <2>7 DEF OnTop
      <4> QED
        BY <2>8, <4>1, FirstOf
    <3>2. popcnt(p) <= MAX_DEPTH
      BY <1>6, <2>6, PopcntBound
    <3>3. Len(st) = popcnt(p) /\ popcnt(p) \in Nat
      BY <2>10, PopcntType DEF CoversFrom
    <3> QED
      BY <2>7, <3>1, <3>2, <3>3, TwoIs
  <2>13. q % d = 0 /\ q \div d = m
    <3>1. q = d * m + 0 /\ 0 \in 0 .. d - 1
      BY <1>3, <2>1, <2>2
    <3> QED
      BY <1>3, <3>1, DivMod
  <2>14. cv_stack[n] = SubtreeCV(s, b)
    <3>1. t[s][b] = SubtreeAt(key, ModeFlag(mode), s, b)
      BY <1>1, <1>4, <2>1, <2>3 DEF Subtrees
    <3>2. SubtreeAt(key, ModeFlag(mode), s, b) = SubtreeCV(s, b)
      BY <2>2 DEF SubtreeAt, SubtreeCV, NodeOf, Node
    <3> QED
      BY <2>9, <3>1, <3>2
  <2>15. 2^s <= q /\ q % 2^s = 0 /\ q - 2^s = p /\ (q \div 2^s) - 1 = b
    BY <1>3, <2>2, <2>3, <2>5, <2>13
  <2>16. /\ n > 0 /\ Covers(SubSeq(cv_stack, 1, n - 1), q - 2^s)
         /\ cv_stack[n] = SubtreeCV(s, (q \div 2^s) - 1)
    BY <2>7, <2>8, <2>11, <2>14, <2>15
  <2> QED
    BY <1>3, <2>1, <2>7, <2>12, <2>15, <2>16 DEF StackCoversInput
<1> QED
  BY <1>5, <1>7, <1>8 DEF StackFor

(* So the bytes of the digest are those of the root. *)
LEMMA FinalizeIs ==
  ASSUME HasherState, Finalize
  PROVE  DigestIsTreeHash'
<1>1. PICK fl \in Nat : fl = ModeFlag(mode)
  BY ModeFlagIs DEF HasherState
<1>2. PICK q, L : Progress(key, fl, chunk, cv_stack, at, pending, pos, q, L)
  BY <1>1 DEF HasherState
<1>3. pending = 0
  BY <1>2 DEF Finalize, Progress
<1>4. flags = fl
  BY <1>2, ProgressFacts DEF flags
<1>5. RootOutput = NodeOf(key, fl, 0, at)
  BY <1>2, <1>3, <1>4, RootIs
<1>6. PICK w \in Windows : w[2] > 0 /\ out' = <<w[1], output_root_bytes(RootOutput, w[1], w[2])>>
  BY DEF Finalize
<1>7. key' = key /\ mode' = mode /\ at' = at
  BY DEF Finalize
<1>8. PICK root : root = NodeOf(key, fl, 0, at)
  OBVIOUS
<1>9. Node(0, at)' = root
  BY <1>1, <1>7, <1>8 DEF Node, NodeOf
<1>10. PICK bytes : bytes = output_root_bytes(root, w[1], w[2])
  OBVIOUS
<1>11. out' = <<w[1], bytes>>
  BY <1>5, <1>6, <1>8, <1>10
<1>12. bytes = [k \in 1 .. w[2] |-> <<Compress(root.input_cv, root.block, root.block_len,
                                             (w[1] + k - 1) \div BLOCK_LEN, root.flags + ROOT),
                                    (w[1] + k - 1) % BLOCK_LEN>>]
  BY <1>10 DEF output_root_bytes
<1>13. bytes = [k \in DOMAIN bytes |-> <<Compress(root.input_cv, root.block, root.block_len,
                                             (w[1] + k - 1) \div BLOCK_LEN, root.flags + ROOT),
                                    (w[1] + k - 1) % BLOCK_LEN>>]
  BY <1>12
<1>14. out'[1] = w[1] /\ out'[2] = bytes
  BY <1>11
<1> QED
  BY <1>9, <1>13, <1>14 DEF DigestIsTreeHash

(* Every step keeps the invariant. *)
LEMMA HasherStep ==
  ASSUME HasherInv, [HasherNext]_hasherVars
  PROVE  HasherInv'
<1>1. HasherState /\ DigestIsTreeHash
  BY DEF HasherInv
<1>2. ASSUME HasherState' /\ out' = <<>> PROVE HasherInv'
  <2>1. DigestIsTreeHash'
    BY <1>2 DEF DigestIsTreeHash
  <2> QED
    BY <1>2, <2>1 DEF HasherInv
<1>3. CASE Update
  BY <1>1, <1>2, <1>3, UpdateKeeps
<1>4. CASE FinishChunk
  BY <1>1, <1>2, <1>4, FinishChunkKeeps
<1>5. CASE Subtree
  BY <1>1, <1>2, <1>5, SubtreeKeeps
<1>6. CASE Remainder
  BY <1>1, <1>2, <1>6, RemainderKeeps
<1>7. CASE Finalize
  BY <1>1, <1>7, FinalizeKeeps, FinalizeIs DEF HasherInv
<1>8. CASE DeriveKey
  BY <1>1, <1>2, <1>8, DeriveKeyKeeps
<1>9. CASE UNCHANGED hasherVars
  <2>1. HasherState'
    BY <1>1, <1>9 DEF HasherState, hasherVars
  <2>2. DigestIsTreeHash'
    BY <1>1, <1>9 DEF DigestIsTreeHash, Node, hasherVars
  <2> QED
    BY <2>1, <2>2 DEF HasherInv
<1> QED
  BY <1>3, <1>4, <1>5, <1>6, <1>7, <1>8, <1>9 DEF HasherNext

(* However wide the CPU hashes and however the message is cut, the stack     *)
(* covers the closed chunks, in order and without a gap, with at most one    *)
(* subtree not merged yet, and never outgrows the array of the hasher        *)
(* (hasher_merge_cv_stack and hasher_push_cv of blake3.c).                   *)
THEOREM StackCovers == HasherSpec => []StackCoversInput
<1>1. HasherInit => HasherInv
  BY InitState
<1>2. HasherInv /\ [HasherNext]_hasherVars => HasherInv'
  BY HasherStep
<1>3. HasherInv => StackCoversInput
  BY StackCoversIs DEF HasherInv
<1> QED
  BY <1>1, <1>2, <1>3, PTL DEF HasherSpec

(* The digest of blake3_hasher_finalize_seek is that of the tree over the    *)
(* whole message, for every message, cut, vector width, mode and window.     *)
THEOREM DigestCorrect == HasherSpec => []DigestIsTreeHash
<1>1. HasherInit => HasherInv
  BY InitState
<1>2. HasherInv /\ [HasherNext]_hasherVars => HasherInv'
  BY HasherStep
<1>3. HasherInv => DigestIsTreeHash
  BY DEF HasherInv
<1> QED
  BY <1>1, <1>2, <1>3, PTL DEF HasherSpec
=============================================================================
