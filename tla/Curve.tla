-------------------------------- MODULE Curve --------------------------------
(***************************************************************************)
(* ScalarMul of ecc_x25519.cpp, the Montgomery ladder over x-coordinates,  *)
(* and the three multiplications a pair of one document and one keyword    *)
(* goes through: the set-up client's xtag, the search client's xtoken, the *)
(* search server's product of both.  One action per call and per bit of a  *)
(* scalar.  CurveP, CurveA24, CurveL and CurveBase stand for 2^255-19,     *)
(* 121666, the order Prime of the base point, and ecc_basep.  No blinding  *)
(* and no keyword's PRF is a multiple of Prime: the code does not look.    *)
(***************************************************************************)
EXTENDS Integers

CONSTANTS CurveP, CurveA24, CurveL, CurveBase,
          WordKeys,    \* values of FW1: the PRF of a keyword
          IdKeys,      \* of xid: the PRF of a document
          Blinds       \* of z: the PRF of a keyword and a position

ASSUME CurveAssumption ==
  /\ CurveP \in Nat /\ CurveL \in Nat /\ CurveP > 2 /\ CurveL > 2
  /\ CurveBase \in 0 .. CurveP - 1 /\ CurveA24 \in 0 .. CurveP - 1
  /\ WordKeys \subseteq Nat /\ IdKeys \subseteq Nat /\ Blinds \subseteq Nat
  /\ \A z \in Blinds, w \in WordKeys : (z * w) % CurveL # 0
  \* what 2^k is; the prover knows it only from here
  /\ \A k \in 0 .. CurveL : 2^k \in Nat
  /\ \A k \in 0 .. CurveL - 1 : 2^(k + 1) = 2 * 2^k

VARIABLES xw, xid, zw,     \* the secrets
          phase,           \* the multiplication that runs
          sca, basep,      \* its arguments
          scalen,          \* the bit the ladder is at; -1: past bit 0
          P1, P2,          \* <<x, z>>
          xtag, xtoken, match
curveVars == <<xw, xid, zw, phase, sca, basep, scalen, P1, P2, xtag, xtoken, match>>

Fp(x) == x % CurveP
Power(x, e, q) ==
  LET pow[k \in 0 .. e] == IF k = 0 THEN 1 % q
                           ELSE LET h == pow[k \div 2]
                                IN IF k % 2 = 0 THEN (h * h) % q ELSE (((h * h) % q) * x) % q
  IN pow[e]

ECC_FPINV(x) == Power(x % CurveL, CurveL - 2, CurveL)
ECC_MUL(a, b) == (a * b) % CurveL

(* The two results of DoubleAndAdd: the double of P, and the sum of P and Q, *)
(* whose difference has the x-coordinate x1.                                 *)
Double(P) ==
  LET t4 == Fp((P[1] + P[2]) * (P[1] + P[2]))
      t3 == Fp((P[1] - P[2]) * (P[1] - P[2]))
      t2 == Fp(t4 - t3)
  IN <<Fp(t4 * t3), Fp(t2 * Fp(t3 + Fp(CurveA24 * t2)))>>

Sum3(P, Q, x1) ==
  LET t1 == Fp(Fp(Q[1] + Q[2]) * Fp(P[1] - P[2]))
      t0 == Fp(Fp(Q[1] - Q[2]) * Fp(P[1] + P[2]))
  IN <<Fp(Fp(t0 + t1) * Fp(t0 + t1)), Fp(x1 * Fp(Fp(t0 - t1) * Fp(t0 - t1)))>>

TestBit(s, b) == (s \div 2^b) % 2 = 1
TopBit(s) == CHOOSE b \in 0 .. s : s < 2^(b + 1) /\ (b = 0 \/ s >= 2^b)

(* A call of ScalarMul starts. *)
ScalarMul(s, x) ==
  /\ sca' = s /\ basep' = x /\ scalen' = TopBit(s)
  /\ P1' = <<x, 1>> /\ P2' = <<1, 0>>

(* Mutant of Ladder: the sum goes to the wrong register on a clear bit. *)
LadderSwapped(bit) ==
  /\ P1' = Double(P1)
  /\ P2' = Sum3(P1, P2, basep)

(* One turn of the loop. *)
Ladder(bit) ==
  IF bit THEN P1' = Double(P1) /\ P2' = Sum3(P1, P2, basep)
         ELSE P2' = Double(P2) /\ P1' = Sum3(P2, P1, basep)

LadderStep ==
  /\ scalen >= 0
  /\ Ladder(TestBit(sca, scalen))
  /\ scalen' = scalen - 1
  /\ UNCHANGED <<xw, xid, zw, phase, sca, basep, xtag, xtoken, match>>

(* The x-coordinate the ladder ends with: the division by z is a power. *)
product == Fp(P2[1] * Power(P2[2], CurveP - 2, CurveP))

CurveInit ==
  /\ xw \in WordKeys /\ xid \in IdKeys /\ zw \in Blinds
  /\ phase = "xtag"
  /\ sca = ECC_MUL(xw, xid) /\ basep = CurveBase /\ scalen = TopBit(sca)
  /\ P1 = <<CurveBase, 1>> /\ P2 = <<1, 0>>
  /\ xtag = 0 /\ xtoken = 0 /\ match = 0

(* The set-up client stores the xtag; the search client starts the xtoken. *)
SetupDone ==
  /\ phase = "xtag" /\ scalen = -1
  /\ xtag' = product /\ phase' = "xtoken"
  /\ ScalarMul(ECC_MUL(zw, xw), CurveBase)
  /\ UNCHANGED <<xw, xid, zw, xtoken, match>>

(* Mutant of yid: z stays in it. *)
yidBlinded == ECC_MUL(xid, zw)

(* The exponent set-up stored beside the document's ciphertext. *)
yid == ECC_MUL(xid, ECC_FPINV(zw))

(* The server multiplies the token it received by that exponent. *)
TokenDone ==
  /\ phase = "xtoken" /\ scalen = -1
  /\ xtoken' = product /\ phase' = "match"
  /\ ScalarMul(yid, product)
  /\ UNCHANGED <<xw, xid, zw, xtag, match>>

MatchDone ==
  /\ phase = "match" /\ scalen = -1
  /\ match' = product /\ phase' = "done"
  /\ UNCHANGED <<xw, xid, zw, sca, basep, scalen, P1, P2, xtag, xtoken>>

CurveNext == LadderStep \/ SetupDone \/ TokenDone \/ MatchDone
CurveSpec == CurveInit /\ [][CurveNext]_curveVars

-----------------------------------------------------------------------------
(* The group, by chord and tangent.                                          *)
CurveA == (4 * CurveA24 - 2) % CurveP
InverseP(x) == Power(x % CurveP, CurveP - 2, CurveP)
Lift(x) == CHOOSE y \in 0 .. CurveP - 1 : Fp(y * y) = Fp(x * x * x + CurveA * x * x + x)
Infinity == <<>>

PlusPoint(P, Q) ==
  IF P = Infinity THEN Q
  ELSE IF Q = Infinity THEN P
  ELSE IF P[1] = Q[1] /\ Fp(P[2] + Q[2]) = 0 THEN Infinity
  ELSE LET slope == IF P = Q
                    THEN Fp((3 * P[1] * P[1] + 2 * CurveA * P[1] + 1) * InverseP(2 * P[2]))
                    ELSE Fp((Q[2] - P[2]) * InverseP(Q[1] - P[1]))
           x == Fp(slope * slope - CurveA - P[1] - Q[1])
       IN <<x, Fp(slope * (P[1] - x) - P[2])>>

Times(k, x) ==
  LET at[j \in 0 .. k] == IF j = 0 THEN Infinity ELSE PlusPoint(at[j - 1], <<x, Lift(x)>>)
  IN at[k]

Represents(P, pt) ==
  IF pt = Infinity THEN P[1] # 0 /\ P[2] = 0 ELSE P[2] # 0 /\ P[1] = Fp(P[2] * pt[1])

(* What a call of ScalarMul may return. *)
Pairs == (0 .. CurveP - 1) \X (0 .. CurveP - 1)
XOf(pt) == IF pt = Infinity THEN 0 ELSE pt[1]
Multiple(b) == XOf(Times(b, CurveBase))

(* Fermat: a power inverts modulo a prime. *)
InverseLaw(q) ==
  \A x \in 0 .. q - 1 :
    /\ Power(x, q - 2, q) \in 0 .. q - 1
    /\ IF x = 0 THEN Power(x, q - 2, q) = 0 ELSE (x * Power(x, q - 2, q)) % q = 1

(* The formulas of DoubleAndAdd, on points whose difference is x. *)
DifferentialLaw(x) ==
  \A k \in {j \in 0 .. CurveL - 1 : 2 * j < CurveL} :
    LET low == Times(k, x)
        high == Times(k + 1, x)
        lowTwice == Times(2 * k, x)
        both == Times(2 * k + 1, x)
        highTwice == Times(2 * k + 2, x)
    IN \A P \in {R \in Pairs : Represents(R, low)}, Q \in {R \in Pairs : Represents(R, high)} :
         /\ Represents(Double(P), lowTwice) /\ Represents(Double(Q), highTwice)
         /\ Represents(Sum3(P, Q, x), both) /\ Represents(Sum3(Q, P, x), both)

(* The multiples of the base point: none before the CurveL-th is Infinity,   *)
(* no x-coordinate is 0, and a multiple of a multiple is a multiple.         *)
MultiplesLaw ==
  \A b \in 1 .. CurveL - 1 :
    /\ Times(b, CurveBase) # Infinity /\ Multiple(b) \in 1 .. CurveP - 1
    /\ DifferentialLaw(Multiple(b))
    /\ \A a \in 0 .. CurveL - 1 : XOf(Times(a, Multiple(b))) = Multiple((a * b) % CurveL)

(* What Curve25519 gives the ladder to work with: facts about the numbers,   *)
(* which no line of the code checks.                                         *)
ASSUME CurveLaws == InverseLaw(CurveP) /\ InverseLaw(CurveL) /\ MultiplesLaw /\ Multiple(1) = CurveBase

(* The loop invariant of the ladder, against the group law: after the bits   *)
(* above scalen, P2 is the multiple by the prefix of the scalar read so far  *)
(* and P1 the one after it.                                                  *)
LadderExact ==
  LET prefix == sca \div 2^(scalen + 1)
  IN /\ Represents(P2, Times(prefix, basep))
     /\ Represents(P1, Times(prefix + 1, basep))

(* What the server computes from the client's token is the tag the set-up    *)
(* put in the filter, whatever the blinding: a document that holds the       *)
(* keyword is found.                                                         *)
TokensMeet == phase = "done" => match = xtag
=============================================================================
