---------------------------- MODULE MC_CrossTags ----------------------------
(* A group of prime order written additively: exponents are their          *)
(* logarithms.  Values have codes whose pairwise sums differ, so that tags  *)
(* coincide only where the code makes them coincide.                        *)
EXTENDS CrossTags

Order == 53
Code  == <<1, 2, 5, 11, 22>>

MC_AESENC(k, b) == (Code[b[1] + 1] + 31 * b[2] + k) % Order
MC_AESDEC(k, e) == CHOOSE b \in Blocks : MC_AESENC(k, b) = e
MC_Scalars == 0 .. Order - 1
MC_Mul(a, b) == (a + b) % Order
MC_Inv(a) == (Order - a) % Order
MC_ScalarMul(a, p) == (a + p) % Order

(* With MAX_BF_BIN_SIZE = Order there are no collisions. *)
MC_BFIdx(j, p) == ((j + 1) * p + j) % MAX_BF_BIN_SIZE

MC_Keywords == 1 .. 3
MC_Docs == 2 .. 4

(* Rows are in no particular order: each way round for rows of two. *)
RowsOfIds == {<<2>>, <<3>>, <<4>>, <<2, 3>>, <<3, 2>>, <<2, 4>>, <<4, 3>>, <<2, 3, 4>>, <<4, 3, 2>>}
MC_Databases ==
  {<<[kw |-> 1, ids |-> a], [kw |-> 2, ids |-> b], [kw |-> 3, ids |-> c]>> :
     a, b, c \in RowsOfIds}

(* The instance is one SpuriousOnlyIfSwapped speaks of. *)
ASSUME NothingElseCollides == NoFalsePositives /\ TagsDistinct
=============================================================================
