----------------------------- MODULE Blake3Rounds -----------------------------
(***************************************************************************)
(* The compression function of BLAKE3 as the code has it three times over: *)
(* on sixteen words (portable), on four rows that are shuffled between     *)
(* half rounds and message vectors that are permuted in place (sse2,       *)
(* sse41, avx512), and on sixteen vectors, one lane per message (the       *)
(* hash_many kernels).  One action per round, all three in step.           *)
(***************************************************************************)
EXTENDS Integers

CONSTANTS Add(_, _), Xor(_, _), Rotr(_, _),  \* on words
          RotrBytes(_, _),                   \* a rotation done as a byte shuffle
          IV,                                \* four words
          Jobs                               \* [cv : 8 words, block : 16 words, tail : 4 words]

Lanes == 1 .. 4

VARIABLES isa, job, r,
          state,      \* the portable state of every message
          rows,       \* four rows per message
          m,          \* m0 .. m3 per message
          v           \* sixteen vectors, lane l for message l
roundVars == <<isa, job, r, state, rows, m, v>>

MSG_SCHEDULE ==
  << <<0, 1, 2, 3, 4, 5, 6, 7, 8, 9, 10, 11, 12, 13, 14, 15>>,
     <<2, 6, 3, 10, 7, 0, 4, 13, 1, 11, 12, 5, 9, 14, 15, 8>>,
     <<3, 4, 10, 12, 13, 2, 7, 14, 6, 5, 9, 0, 11, 15, 8, 1>>,
     <<10, 7, 12, 9, 14, 3, 13, 15, 4, 0, 11, 2, 5, 8, 1, 6>>,
     <<12, 13, 9, 11, 15, 10, 14, 8, 7, 2, 5, 3, 0, 1, 6, 4>>,
     <<9, 14, 11, 5, 8, 12, 15, 1, 13, 3, 0, 10, 2, 6, 4, 7>>,
     <<11, 15, 5, 0, 1, 9, 8, 6, 14, 10, 2, 12, 3, 4, 7, 13>> >>

schedule(i) == MSG_SCHEDULE[r + 1][i + 1]

-----------------------------------------------------------------------------
(* The words at four places of a state, and a state with others there. *)
At(s, p) == <<s[p[1]], s[p[2]], s[p[3]], s[p[4]]>>
Put(s, p, q) == [s EXCEPT ![p[1]] = q[1], ![p[2]] = q[2], ![p[3]] = q[3], ![p[4]] = q[4]]

(* portable *)
half_g(q, z, n, k) ==   \* half of g on q = <<a, b, c, d>>
  LET a == Add(Add(q[1], q[2]), z)
      d == Rotr(Xor(q[4], a), n)
      c == Add(q[3], d)
  IN <<a, Rotr(Xor(q[2], c), k), c, d>>
g(s, p, x, y) == Put(s, p, half_g(half_g(At(s, p), x, 16, 12), y, 8, 7))

PortableRound(s, msg) ==
  LET G(t, n, a, b, c, d) == g(t, <<a, b, c, d>>, msg[schedule(2 * n)], msg[schedule(2 * n + 1)])
      s0 == G(s, 0, 0, 4, 8, 12)
      s1 == G(s0, 1, 1, 5, 9, 13)
      s2 == G(s1, 2, 2, 6, 10, 14)
      s3 == G(s2, 3, 3, 7, 11, 15)
      s4 == G(s3, 4, 0, 5, 10, 15)
      s5 == G(s4, 5, 1, 6, 11, 12)
      s6 == G(s5, 6, 2, 7, 8, 13)
  IN G(s6, 7, 3, 4, 9, 14)

-----------------------------------------------------------------------------
(* Vectors of four words: an operation on words, lane by lane.  The kernels  *)
(* of eight and sixteen lanes run the same rounds.                           *)
AddV(x, y) == <<Add(x[1], y[1]), Add(x[2], y[2]), Add(x[3], y[3]), Add(x[4], y[4])>>
XorV(x, y) == <<Xor(x[1], y[1]), Xor(x[2], y[2]), Xor(x[3], y[3]), Xor(x[4], y[4])>>
RotrV(x, c) == <<Rotr(x[1], c), Rotr(x[2], c), Rotr(x[3], c), Rotr(x[4], c)>>
ShuffleV(x, n) == <<RotrBytes(x[1], n), RotrBytes(x[2], n), RotrBytes(x[3], n), RotrBytes(x[4], n)>>
rot16(x) == IF isa = "avx512" THEN RotrV(x, 16) ELSE ShuffleV(x, 2)
rot12(x) == RotrV(x, 12)
rot8(x)  == IF isa = "sse41" THEN ShuffleV(x, 1) ELSE RotrV(x, 8)
rot7(x)  == RotrV(x, 7)
Rot(x, n) == CASE n = 16 -> rot16(x) [] n = 12 -> rot12(x) [] n = 8 -> rot8(x) [] n = 7 -> rot7(x)

(* Rows.  A row is a tuple, its first element the lowest word; the operands  *)
(* of _MM_SHUFFLE are in the code's order, from the highest word down.       *)
shuffle_ps2(a, b, d3, d2, d1, d0) == <<a[d0 + 1], a[d1 + 1], b[d2 + 1], b[d3 + 1]>>
shuffle_epi32(a, d3, d2, d1, d0)  == shuffle_ps2(a, a, d3, d2, d1, d0)
unpacklo_epi32(a, b) == <<a[1], b[1], a[2], b[2]>>
unpackhi_epi32(a, b) == <<a[3], b[3], a[4], b[4]>>
unpacklo_epi64(a, b) == <<a[1], a[2], b[1], b[2]>>
(* blend_epi16 with a mask that takes whole words: those of `from` from b. *)
blend(a, b, from) == [j \in 1 .. 4 |-> IF j - 1 \in from THEN b[j] ELSE a[j]]

Half(R, x, d, b) ==
  LET row0 == AddV(AddV(R[1], x), R[2])
      row3 == Rot(XorV(R[4], row0), d)
      row2 == AddV(R[3], row3)
      row1 == Rot(XorV(R[2], row2), b)
  IN <<row0, row1, row2, row3>>
g1(R, x) == Half(R, x, 16, 12)
g2(R, x) == Half(R, x, 8, 7)

diagonalize(R) == <<shuffle_epi32(R[1], 2, 1, 0, 3), R[2],
                    shuffle_epi32(R[3], 0, 3, 2, 1), shuffle_epi32(R[4], 1, 0, 3, 2)>>
undiagonalize(R) == <<shuffle_epi32(R[1], 0, 3, 2, 1), R[2],
                      shuffle_epi32(R[3], 2, 1, 0, 3), shuffle_epi32(R[4], 1, 0, 3, 2)>>

RowRound(R, t) == undiagonalize(g2(g1(diagonalize(g2(g1(R, t[1]), t[2])), t[3]), t[4]))

(* The message vectors of round 1, from the block as it was loaded. *)
FirstMessages(q) ==
  << shuffle_ps2(q[1], q[2], 2, 0, 2, 0),
     shuffle_ps2(q[1], q[2], 3, 1, 3, 1),
     shuffle_epi32(shuffle_ps2(q[3], q[4], 2, 0, 2, 0), 2, 1, 0, 3),
     shuffle_epi32(shuffle_ps2(q[3], q[4], 3, 1, 3, 1), 2, 1, 0, 3) >>

(* Mutant of NextMessages: the second vector of round 2 is blended from the *)
(* wrong half.                                                              *)
NextMessagesBlend(q) ==
  << shuffle_epi32(shuffle_ps2(q[1], q[2], 3, 1, 1, 2), 0, 3, 2, 1),
     blend(shuffle_epi32(q[1], 0, 0, 3, 3), shuffle_ps2(q[3], q[4], 3, 3, 2, 2), {2, 3}),
     shuffle_epi32(blend(unpacklo_epi64(q[4], q[2]), q[3], {3}), 1, 3, 2, 0),
     shuffle_epi32(unpacklo_epi32(q[3], unpackhi_epi32(q[2], q[4])), 0, 1, 3, 2) >>

(* Those of every later round, from those of the round before. *)
NextMessages(q) ==
  << shuffle_epi32(shuffle_ps2(q[1], q[2], 3, 1, 1, 2), 0, 3, 2, 1),
     blend(shuffle_epi32(q[1], 0, 0, 3, 3), shuffle_ps2(q[3], q[4], 3, 3, 2, 2), {1, 3}),
     shuffle_epi32(blend(unpacklo_epi64(q[4], q[2]), q[3], {3}), 1, 3, 2, 0),
     shuffle_epi32(unpacklo_epi32(q[3], unpackhi_epi32(q[2], q[4])), 0, 1, 3, 2) >>

-----------------------------------------------------------------------------
(* One lane per message: w[i] is word i of the four states, mw[i] word i of  *)
(* the four blocks.  The columns take their first halves, then their second; *)
(* then the diagonals.                                                       *)
Place(turn, i) == <<i, 4 + ((i + turn) % 4), 8 + ((i + 2 * turn) % 4), 12 + ((i + 3 * turn) % 4)>>

HalfG(w, p, x, d, b) == Put(w, p, Half(At(w, p), x, d, b))

(* The four columns (turn 0) or diagonals (turn 1), every other word of the  *)
(* schedule from `first` on.                                                 *)
Four(u, mw, turn, first, d, b) ==
  LET one(w, i) == HalfG(w, Place(turn, i), mw[schedule(first + 2 * i)], d, b)
  IN one(one(one(one(u, 0), 1), 2), 3)

Columns(w, mw)   == Four(Four(w, mw, 0, 0, 16, 12), mw, 0, 1, 8, 7)
Diagonals(w, mw) == Four(Four(w, mw, 1, 8, 16, 12), mw, 1, 9, 8, 7)
LaneRound(w, mw) == Diagonals(Columns(w, mw), mw)

-----------------------------------------------------------------------------
Pre(j) == [i \in 0 .. 15 |-> CASE i < 8 -> j.cv[i] [] i \in 8 .. 11 -> IV[i - 8] [] OTHER -> j.tail[i - 12]]
Row(f, q) == <<f[4 * q], f[4 * q + 1], f[4 * q + 2], f[4 * q + 3]>>
Rows(f) == <<Row(f, 0), Row(f, 1), Row(f, 2), Row(f, 3)>>

RoundsInit ==
  /\ isa \in {"sse2", "sse41", "avx512"}
  /\ job \in [Lanes -> Jobs]
  /\ r = 0
  /\ state = [l \in Lanes |-> Pre(job[l])]
  /\ rows = [l \in Lanes |-> Rows(Pre(job[l]))]
  /\ m = [l \in Lanes |-> Rows(job[l].block)]
  /\ v = [i \in 0 .. 15 |-> <<Pre(job[1])[i], Pre(job[2])[i], Pre(job[3])[i], Pre(job[4])[i]>>]

(* One round of all three, t[l] the message vectors of message l.            *)
Round(t) ==
  /\ state' = [l \in Lanes |-> PortableRound(state[l], job[l].block)]
  /\ rows' = [l \in Lanes |-> RowRound(rows[l], t[l])]
  /\ m' = t
  /\ v' = LaneRound(v, [i \in 0 .. 15 |-> [l \in Lanes |-> job[l].block[i]]])
  /\ r' = r + 1
  /\ UNCHANGED <<isa, job>>

FirstRound == r = 0 /\ Round([l \in Lanes |-> FirstMessages(m[l])])
LaterRound == r \in 1 .. 6 /\ Round([l \in Lanes |-> NextMessages(m[l])])

RoundsNext == FirstRound \/ LaterRound
RoundsSpec == RoundsInit /\ [][RoundsNext]_roundVars

(* What a compression returns: compress_xof, and compress_in_place with its  *)
(* first eight words, which is also what a lane kernel keeps.                *)
PortableXof(l) == [i \in 0 .. 15 |-> Xor(state[l][i], IF i < 8 THEN state[l][i + 8] ELSE job[l].cv[i - 8])]
RowsXof(l) == <<XorV(rows[l][1], rows[l][3]), XorV(rows[l][2], rows[l][4]),
                XorV(rows[l][3], Row(job[l].cv, 0)), XorV(rows[l][4], Row(job[l].cv, 1))>>
LanesCv == [i \in 0 .. 7 |-> XorV(v[i], v[i + 8])]

-----------------------------------------------------------------------------
(* After every round the rows and the lanes hold the words of the portable   *)
(* state: the diagonals are put back where they were, with row 1 the one     *)
(* that is never rotated, and no lane reads another lane's message.  After   *)
(* the seventh a compression returns the same words whichever kernel         *)
(* computes it, so a client and a server on different CPUs compute the same  *)
(* keys and tags.                                                            *)
CompressionsAgree ==
  \A l \in Lanes :
    /\ rows[l] = Rows(state[l])
    /\ \A i \in 0 .. 15 : v[i][l] = state[l][i]
    /\ r = 7 => /\ RowsXof(l) = Rows(PortableXof(l))
                /\ \A i \in 0 .. 7 : LanesCv[i][l] = PortableXof(l)[i]
=============================================================================
