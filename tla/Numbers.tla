------------------------------- MODULE Numbers -------------------------------
(***************************************************************************)
(* Lemmas about numbers: induction in the form of a set, and division with *)
(* remainder by a number that is not fixed.                                *)
(***************************************************************************)
EXTENDS Integers, WellFoundedInduction, TLAPS

(* A set of numbers has a least one. *)
LEMMA LeastOf ==
  ASSUME NEW T \in SUBSET Nat, T # {}
  PROVE  \E low \in T : \A k \in T : low <= k
<1>1. IsWellFoundedOn(OpToRel(<,Nat), Nat)
  BY NatLessThanWellFounded
<1>2. \E x \in T : \A y \in T : ~ (<<y, x>> \in OpToRel(<,Nat))
  BY <1>1, WFMin
<1>3. \A x, y \in Nat : x < y => <<x, y>> \in OpToRel(<, Nat)
  BY DEF OpToRel
<1>4. PICK x \in T : \A y \in T : ~ (<<y, x>> \in OpToRel(<,Nat))
  BY <1>2, Zenon
<1>5. \A y \in T : ~(y < x)
  BY <1>3, <1>4, Zenon
<1> QED
  BY <1>5

(* A set with 0 and the successor of each of its members has every number. *)
LEMMA AllNumbers ==
  ASSUME NEW Set, 0 \in Set, \A n \in Nat : n \in Set => n + 1 \in Set
  PROVE  Nat \subseteq Set
<1> DEFINE T == {n \in Nat : n \notin Set}
<1> SUFFICES ASSUME T # {} PROVE FALSE
  OBVIOUS
<1>1. PICK least \in T : \A k \in T : least <= k
  BY LeastOf
<1>2. least # 0 /\ least - 1 \in Nat /\ least - 1 \notin T
  BY <1>1
<1> QED
  BY <1>1, <1>2

(* Division with remainder. *)
LEMMA DivMod ==
  ASSUME NEW M \in Nat \ {0}, NEW q \in Nat, NEW t \in 0 .. M - 1, NEW a, a = M * q + t
  PROVE  a % M = t /\ a \div M = q
  OBVIOUS

(* Every number can be divided. *)
LEMMA DivModExists ==
  ASSUME NEW M \in Nat \ {0}, NEW a \in Nat
  PROVE  \E q \in Nat, t \in 0 .. M - 1 : a = M * q + t
<1> DEFINE Set == {n \in Nat : \E q \in Nat, t \in 0 .. M - 1 : n = M * q + t}
<1>1. 0 \in Set
  <2>1. 0 = M * 0 + 0 /\ 0 \in 0 .. M - 1
    OBVIOUS
  <2> QED
    BY <2>1
<1>2. ASSUME NEW n \in Nat, n \in Set PROVE n + 1 \in Set
  <2>1. PICK q \in Nat, t \in 0 .. M - 1 : n = M * q + t
    BY <1>2
  <2>2. CASE t + 1 < M
    <3>1. n + 1 = M * q + (t + 1) /\ t + 1 \in 0 .. M - 1
      BY <2>1, <2>2
    <3> QED
      BY <3>1
  <2>3. CASE t + 1 = M
    <3>1. PICK p \in Nat : p = q + 1
      OBVIOUS
    <3>2. n + 1 = M * p + 0 /\ 0 \in 0 .. M - 1
      BY <2>1, <2>3, <3>1
    <3> QED
      BY <3>2
  <2> QED
    BY <2>2, <2>3
<1> HIDE DEF Set
<1>3. Nat \subseteq Set
  BY <1>1, <1>2, AllNumbers
<1> QED
  BY <1>3 DEF Set

LEMMA DivModIn ==
  ASSUME NEW M \in Nat \ {0}, NEW a \in Nat
  PROVE  a \div M \in Nat /\ a % M \in 0 .. M - 1 /\ a = M * (a \div M) + (a % M)
<1>1. PICK q \in Nat, t \in 0 .. M - 1 : a = M * q + t
  BY DivModExists
<1>2. a % M = t /\ a \div M = q
  BY <1>1, DivMod, Zenon
<1> QED
  BY <1>1, <1>2

(* Steps of a counter that wraps add up. *)
LEMMA ModAdds ==
  ASSUME NEW M \in Nat \ {0}, NEW a \in Nat, NEW d \in Nat
  PROVE  ((a % M) + d) % M = (a + d) % M
<1>1. PICK q \in Nat, t \in 0 .. M - 1 : a = M * q + t
  BY DivModExists
<1>b. PICK b \in Nat : b = t + d
  OBVIOUS
<1>2. PICK p \in Nat, u \in 0 .. M - 1 : b = M * p + u
  BY DivModExists
<1>3. a % M = t
  BY <1>1, DivMod
<1>4. b % M = u
  BY <1>2, DivMod
<1>5. PICK e \in Nat, k \in Nat : e = a + d /\ k = q + p
  OBVIOUS
<1>6. e = M * k + u
  BY <1>1, <1>2, <1>b, <1>5
<1>7. e % M = u
  BY <1>6, DivMod
<1> QED
  BY <1>3, <1>4, <1>b, <1>5, <1>7

(* Dividing twice. *)
LEMMA DivDiv ==
  ASSUME NEW M \in Nat \ {0}, NEW N \in Nat \ {0}, NEW MN \in Nat \ {0}, MN = M * N, NEW a \in Nat
  PROVE  (a \div M) \div N = a \div MN
<1>1. PICK q \in Nat, t \in 0 .. M - 1 : a = M * q + t
  BY DivModExists
<1>2. PICK p \in Nat, u \in 0 .. N - 1 : q = N * p + u
  BY DivModExists
<1>3. a \div M = q
  BY <1>1, DivMod
<1>4. q \div N = p
  BY <1>2, DivMod
<1>5. PICK r \in Nat : r = M * u + t
  OBVIOUS
<1>6. M * u <= M * (N - 1)
  OBVIOUS
<1>7. M * (N - 1) = MN - M
  OBVIOUS
<1>8. r \in 0 .. MN - 1
  BY <1>5, <1>6, <1>7
<1>9. a = MN * p + r
  <2>1. M * (N * p + u) = (M * N) * p + M * u
    OBVIOUS
  <2> QED
    BY <1>1, <1>2, <1>5, <2>1
<1>10. a \div MN = p
  BY <1>8, <1>9, DivMod
<1> QED
  BY <1>3, <1>4, <1>10

(* The powers of b up to the nth, which the prover does not know. *)
PowersOf(b, n, p) ==
  p \in [0 .. n -> Nat] /\ p[0] = 1 /\ \A k \in 0 .. n - 1 : p[k + 1] = b * p[k]

LEMMA PowersAre ==
  ASSUME NEW b \in Nat, NEW n \in Nat, b^0 = 1, \A k \in 0 .. n : b^k \in Nat,
         \A k \in 0 .. n - 1 : b^(k + 1) = b * b^k
  PROVE  PowersOf(b, n, [k \in 0 .. n |-> b^k])
<1>1. PICK p : p = [k \in 0 .. n |-> b^k]
  OBVIOUS
<1>2. p \in [0 .. n -> Nat]
  BY <1>1
<1>3. \A k \in 0 .. n : p[k] = b^k
  BY <1>1
<1>4. p[0] = 1
  <2>1. 0 \in 0 .. n
    OBVIOUS
  <2> QED
    BY <1>3, <2>1, Zenon
<1>5. ASSUME NEW k \in 0 .. n - 1 PROVE p[k + 1] = b * p[k]
  <2>1. k \in 0 .. n /\ k + 1 \in 0 .. n
    OBVIOUS
  <2>2. p[k] = b^k /\ p[k + 1] = b^(k + 1)
    BY <1>3, <2>1, Zenon
  <2> QED
    BY <2>2, Zenon
<1>6. PowersOf(b, n, p)
  BY <1>2, <1>4, <1>5 DEF PowersOf
<1> QED
  BY <1>1, <1>6

LEMMA PowersAdd ==
  ASSUME NEW b \in Nat \ {0}, NEW n \in Nat, NEW p, PowersOf(b, n, p),
         NEW i \in 0 .. n, NEW j \in 0 .. n, i + j <= n
  PROVE  p[i + j] = p[i] * p[j]
<1> DEFINE Set == {k \in Nat : i + k <= n => p[i + k] = p[i] * p[k]}
<1>1. 0 \in Set
  BY DEF PowersOf
<1>2. ASSUME NEW k \in Nat, k \in Set PROVE k + 1 \in Set
  <2> SUFFICES ASSUME i + (k + 1) <= n PROVE p[i + (k + 1)] = p[i] * p[k + 1]
    OBVIOUS
  <2>1. p[i + k] = p[i] * p[k]
    BY <1>2
  <2>2. p[k + 1] = b * p[k] /\ p[i + (k + 1)] = b * p[i + k] /\ p[k] \in Nat /\ p[i] \in Nat
    <3>1. k \in 0 .. n - 1 /\ i + k \in 0 .. n - 1 /\ i + (k + 1) = (i + k) + 1
      OBVIOUS
    <3> QED
      BY <3>1 DEF PowersOf
  <2>3. \A x, y \in Nat : b * (x * y) = x * (b * y)
    OBVIOUS
  <2> QED
    BY <2>1, <2>2, <2>3
<1> HIDE DEF Set
<1>3. Nat \subseteq Set
  BY <1>1, <1>2, AllNumbers
<1> QED
  BY <1>3 DEF Set

LEMMA PowersPositive ==
  ASSUME NEW b \in Nat \ {0}, NEW n \in Nat, NEW p, PowersOf(b, n, p), NEW i \in 0 .. n
  PROVE  p[i] \in Nat \ {0}
<1> DEFINE Set == {k \in Nat : k <= n => p[k] \in Nat \ {0}}
<1>1. 0 \in Set
  BY DEF PowersOf
<1>2. ASSUME NEW k \in Nat, k \in Set PROVE k + 1 \in Set
  <2> SUFFICES ASSUME k + 1 <= n PROVE p[k + 1] \in Nat \ {0}
    OBVIOUS
  <2>1. p[k] \in Nat \ {0} /\ p[k + 1] = b * p[k]
    BY <1>2 DEF PowersOf
  <2>2. \A x \in Nat \ {0} : b * x \in Nat \ {0}
    OBVIOUS
  <2> QED
    BY <2>1, <2>2
<1> HIDE DEF Set
<1>3. Nat \subseteq Set
  BY <1>1, <1>2, AllNumbers
<1> QED
  BY <1>3 DEF Set

LEMMA PowersGrow ==
  ASSUME NEW b \in Nat \ {0}, NEW n \in Nat, NEW p, PowersOf(b, n, p),
         NEW i \in 0 .. n, NEW j \in 0 .. n, i <= j
  PROVE  p[i] <= p[j]
<1>1. j - i \in 0 .. n /\ i + (j - i) = j
  OBVIOUS
<1>2. PICK e \in 0 .. n : i + e = j
  BY <1>1
<1>3. p[i + e] = p[i] * p[e]
  BY <1>2, PowersAdd
<1>4. p[i] \in Nat \ {0} /\ p[e] \in Nat \ {0}
  BY PowersPositive
<1>5. \A a, c \in Nat \ {0} : a <= a * c
  OBVIOUS
<1> QED
  BY <1>2, <1>3, <1>4, <1>5

(* A remainder is its own.                                                   *)
LEMMA ModSmall ==
  ASSUME NEW M \in Nat \ {0}, NEW r \in 0 .. M - 1
  PROVE  r % M = r
<1>1. r = M * 0 + r /\ 0 \in Nat
  OBVIOUS
<1> QED
  BY <1>1, DivMod

(* A factor may be reduced first.                                            *)
LEMMA ModTimes ==
  ASSUME NEW M \in Nat \ {0}, NEW a \in Nat, NEW b \in Nat
  PROVE  ((a % M) * b) % M = (a * b) % M
<1>1. PICK q \in Nat, t \in 0 .. M - 1 : a = M * q + t
  BY DivModExists
<1>2. a % M = t
  BY <1>1, DivMod
<1>3. PICK c \in Nat : c = t * b
  OBVIOUS
<1>4. PICK p \in Nat, u \in 0 .. M - 1 : c = M * p + u
  BY DivModExists
<1>5. PICK e \in Nat, k \in Nat : e = a * b /\ k = q * b + p
  OBVIOUS
<1>6. e = M * k + u
  <2>1. (M * q + t) * b = M * (q * b) + t * b
    OBVIOUS
  <2>2. M * (q * b + p) = M * (q * b) + M * p
    OBVIOUS
  <2> QED
    BY <1>1, <1>3, <1>4, <1>5, <2>1, <2>2
<1>7. e % M = u /\ c % M = u
  BY <1>4, <1>6, DivMod
<1> QED
  BY <1>2, <1>3, <1>5, <1>7

(* What was multiplied comes back when the factor is inverted.               *)
LEMMA Cancels ==
  ASSUME NEW M \in Nat \ {0}, M > 1, NEW z \in Nat, NEW i \in Nat, (z * i) % M = 1, NEW x \in Nat
  PROVE  (((z * x) % M) * i) % M = x % M
<1>1. PICK a \in Nat, b \in Nat : a = z * x /\ b = z * i
  OBVIOUS
<1>2. a * i = b * x
  <2>1. (z * x) * i = (z * i) * x
    OBVIOUS
  <2> QED
    BY <1>1, <2>1
<1>3. ((a % M) * i) % M = (a * i) % M /\ ((b % M) * x) % M = (b * x) % M
  BY ModTimes
<1>4. 1 * x = x
  OBVIOUS
<1> QED
  BY <1>1, <1>2, <1>3, <1>4
=============================================================================
