-------------------------------- MODULE Blake3 --------------------------------
(***************************************************************************)
(* The hasher of blake3.c: a message arrives in any number of updates, is  *)
(* cut into chunks and subtrees hashed as wide as the CPU allows, and the  *)
(* chaining values wait on a stack, merged no earlier than must be.  One   *)
(* action per call, and one per turn of the loop of blake3_hasher_update.  *)
(*                                                                         *)
(* A chaining value and half a root block are numbers, the byte at offset  *)
(* k of the message is the number k + 1, and Compress is opaque: modules   *)
(* Blake3Rounds and HashMany are about what it and hash_many compute.      *)
(***************************************************************************)
EXTENDS Integers, Sequences

CONSTANTS Compress(_, _, _, _, _),  \* cv, block, block_len, counter, flags
          BLOCK_LEN, CHUNK_LEN,     \* BLAKE3_BLOCK_LEN, BLAKE3_CHUNK_LEN
          MAX_DEPTH,                \* BLAKE3_MAX_DEPTH: of a tree over whole chunks
          SizeBits,                 \* bits of size_t and of the counters
          InitialKey, UserKey,      \* the IV; the key of a keyed hasher
          Degrees,                  \* what blake3_simd_degree returns
          Lengths,                  \* input_len of an update
          Windows,                  \* <<seek, out_len>> of a finalize
          MaxUpdates

ASSUME LengthsAssumption ==
  /\ BLOCK_LEN \in Nat \ {0} /\ CHUNK_LEN % BLOCK_LEN = 0
  /\ SizeBits \in Nat /\ MAX_DEPTH \in Nat
  /\ \E k \in 1 .. SizeBits : CHUNK_LEN = 2^k /\ k + MAX_DEPTH = SizeBits
  /\ Degrees \subseteq {1, 4, 8, 16} /\ Lengths \subseteq Nat
  /\ \A w \in Windows : w[1] \in Nat /\ w[2] \in Nat
  \* what 2^k is; the prover knows it only from here
  /\ \A k \in 0 .. SizeBits : 2^k \in Nat
  /\ \A k \in 0 .. SizeBits - 1 : 2^(k + 1) = 2 * 2^k

(* A bound: the bytes of a message, all hasher_updates together.             *)
MaxMessage == CHUNK_LEN * 2^MAX_DEPTH

VARIABLES degree,
          mode,         \* what the hasher was initialised for
          key,
          chunk,        \* [cv, chunk_counter, buf, blocks_compressed, flags]
          cv_stack,
          at,           \* bytes of the message taken in: where input_bytes points
          pending,      \* input_len: bytes of the running update still to take in
          pos,          \* where the running update is
          updates,      \* made so far
          out           \* <<seek, bytes>> of the last finalize
hasherVars == <<degree, mode, key, chunk, cv_stack, at, pending, pos, updates, out>>

CHUNK_START == 1
CHUNK_END == 2
PARENT == 4
ROOT == 8
ModeFlag(md) == CASE md = "hash" -> 0 [] md = "keyed" -> 16 [] md = "context" -> 32 [] md = "material" -> 64

MinOf(a, b) == IF a <= b THEN a ELSE b
round_down_to_power_of_2(x) == CHOOSE q \in {2^k : k \in 0 .. SizeBits} : q <= x /\ x < 2 * q
popcnt(x) ==
  LET ones[k \in 0 .. SizeBits] == IF k = 0 THEN 0 ELSE ones[k - 1] + ((x \div 2^(k - 1)) % 2)
  IN ones[SizeBits]

Data(from, n) == [k \in 1 .. n |-> from + k]
ZeroPadded(b) == b \o [k \in 1 .. BLOCK_LEN - Len(b) |-> 0]

-----------------------------------------------------------------------------
(* A chunk, one block at a time. *)
chunk_state_init(k, flags, counter) ==
  [cv |-> k, chunk_counter |-> counter, buf |-> <<>>, blocks_compressed |-> 0, flags |-> flags]

chunk_state_len(c) == BLOCK_LEN * c.blocks_compressed + Len(c.buf)

maybe_start_flag(c) == IF c.blocks_compressed = 0 THEN CHUNK_START ELSE 0

(* A block is known not to be the last of its chunk: more input follows. *)
compress_block(c, block) ==
  [c EXCEPT !.cv = Compress(c.cv, block, BLOCK_LEN, c.chunk_counter, c.flags + maybe_start_flag(c)),
            !.blocks_compressed = @ + 1,
            !.buf = <<>>]

chunk_state_fill_buf(c, from, n) ==
  [c EXCEPT !.buf = @ \o Data(from, MinOf(BLOCK_LEN - Len(c.buf), n))]

(* Mutant of WholeBlocks: a last block that is full is compressed at once. *)
WholeBlocksAll(left) == left \div BLOCK_LEN

(* The blocks an update compresses: one is always kept back, since it may be *)
(* the last of its chunk.                                                    *)
WholeBlocks(left) == IF left > BLOCK_LEN THEN (left - 1) \div BLOCK_LEN ELSE 0

chunk_state_update(c, from, n) ==
  LET take  == IF c.buf = <<>> THEN 0 ELSE MinOf(BLOCK_LEN - Len(c.buf), n)
      first == IF c.buf = <<>> THEN c
               ELSE LET full == chunk_state_fill_buf(c, from, n)
                    IN IF n > take THEN compress_block(full, full.buf) ELSE full
      left  == n - take
      whole == WholeBlocks(left)
      then[k \in 0 .. whole] ==
        IF k = 0 THEN first
        ELSE LET before == then[k - 1]
             IN compress_block(before, Data(from + take + BLOCK_LEN * (k - 1), BLOCK_LEN))
  IN chunk_state_fill_buf(then[whole], from + take + BLOCK_LEN * whole, left - BLOCK_LEN * whole)

make_output(cv, block, len, counter, flags) ==
  [input_cv |-> cv, block |-> block, block_len |-> len, counter |-> counter, flags |-> flags]

chunk_state_output(c) ==
  make_output(c.cv, ZeroPadded(c.buf), Len(c.buf), c.chunk_counter,
              c.flags + maybe_start_flag(c) + CHUNK_END)

parent_output(l, r, k, flags) == make_output(k, <<l, r>>, BLOCK_LEN, 0, flags + PARENT)

output_chaining_value(o) == Compress(o.input_cv, o.block, o.block_len, o.counter, o.flags)

(* Bytes seek .. seek + n - 1 of the root's output: which byte of which block. *)
output_root_bytes(o, seek, n) ==
  [k \in 1 .. n |->
     LET b == seek + k - 1
     IN <<Compress(o.input_cv, o.block, o.block_len, b \div BLOCK_LEN, o.flags + ROOT), b % BLOCK_LEN>>]

-----------------------------------------------------------------------------
(* Subtrees.  flags are those of the hasher.                                 *)
flags == chunk.flags

(* blake3_hash_many on one chunk. *)
hash_chunk(from, counter) ==
  LET blocks == CHUNK_LEN \div BLOCK_LEN
      cv[b \in 0 .. blocks] ==
        IF b = 0 THEN key
        ELSE Compress(cv[b - 1], Data(from + BLOCK_LEN * (b - 1), BLOCK_LEN), BLOCK_LEN, counter,
                      flags + (IF b = 1 THEN CHUNK_START ELSE 0) + IF b = blocks THEN CHUNK_END ELSE 0)
  IN cv[blocks]

chunk_cv(from, n, counter) ==
  output_chaining_value(chunk_state_output(
    chunk_state_update(chunk_state_init(key, flags, counter), from, n)))

compress_chunks_parallel(from, n, counter) ==
  LET whole == n \div CHUNK_LEN
  IN [k \in 1 .. whole |-> hash_chunk(from + CHUNK_LEN * (k - 1), counter + k - 1)]
     \o IF n % CHUNK_LEN = 0 THEN <<>>
        ELSE <<chunk_cv(from + CHUNK_LEN * whole, n % CHUNK_LEN, counter + whole)>>

parent_cv(l, r) == output_chaining_value(parent_output(l, r, key, flags))

(* The first n of the chaining values cvs, in pairs; an odd one is kept. *)
compress_parents_parallel(cvs, n) ==
  [k \in 1 .. n \div 2 |-> parent_cv(cvs[2 * k - 1], cvs[2 * k])]
  \o IF n % 2 = 1 THEN <<cvs[n]>> ELSE <<>>

left_len(n) == round_down_to_power_of_2((n - 1) \div CHUNK_LEN) * CHUNK_LEN

Garbage == -1   \* what the array on the stack holds before it is written

(* One layer of parents over both sides, the right one laid where the degree *)
(* says; two single values are left for the caller.                          *)
JoinHalves(lefts, rights, offset) ==
  LET cv_array == [k \in 1 .. 32 |->
                     IF k <= offset THEN IF k <= Len(lefts) THEN lefts[k] ELSE Garbage
                     ELSE IF k - offset <= Len(rights) THEN rights[k - offset] ELSE Garbage]
  IN IF Len(lefts) = 1 THEN SubSeq(cv_array, 1, 2)
     ELSE compress_parents_parallel(cv_array, Len(lefts) + Len(rights))

(* wide[d] is the call as a function of input, input_len and chunk_counter,  *)
(* d calls from the deepest that the tree of a message can need.             *)
compress_subtree_wide(from, n, counter) ==
  LET wide[d \in 0 .. MAX_DEPTH] ==
        [f \in Nat |-> [m \in Nat |-> [c \in Nat |->
           IF d = 0 \/ m <= degree * CHUNK_LEN THEN compress_chunks_parallel(f, m, c)
           ELSE LET ll == left_len(m)
                    offset == IF ll > CHUNK_LEN /\ degree = 1 THEN 2 ELSE degree
                IN JoinHalves(wide[d - 1][f][ll][c],
                              wide[d - 1][f + ll][m - ll][c + ll \div CHUNK_LEN], offset)]]]
  IN wide[MAX_DEPTH][from][n][counter]

(* Layers of parents until two values are left; 16 need three of them.       *)
Condense(cvs) ==
  LET layer[k \in 0 .. 3] ==
        IF k = 0 THEN cvs
        ELSE LET below == layer[k - 1]
             IN IF Len(below) <= 2 THEN below ELSE compress_parents_parallel(below, Len(below))
  IN layer[3]

compress_subtree_to_parent_node(from, n, counter) ==
  Condense(compress_subtree_wide(from, n, counter))

(* The stack: pairs at its top are merged until it has one value for every   *)
(* bit of the total.                                                         *)
hasher_merge_cv_stack(stack, total) ==
  LET merged[k \in 0 .. Len(stack)] ==
        IF k = 0 THEN stack
        ELSE LET st == merged[k - 1]
                 n  == Len(st)
             IN IF n <= popcnt(total) THEN st
                ELSE Append(SubSeq(st, 1, n - 2), parent_cv(st[n - 1], st[n]))
  IN merged[Len(stack)]

(* Mutant of hasher_push_cv: merges with the total that includes the new     *)
(* value, before it is there.                                                *)
hasher_push_cv_early(stack, cv, counter) ==
  Append(hasher_merge_cv_stack(stack, counter + 1), cv)

hasher_push_cv(stack, cv, counter) == Append(hasher_merge_cv_stack(stack, counter), cv)

-----------------------------------------------------------------------------
hasher_init_base(k, md) ==
  /\ key = k /\ mode = md
  /\ chunk = chunk_state_init(k, ModeFlag(md), 0)
  /\ cv_stack = <<>>

HasherInit ==
  /\ degree \in Degrees
  /\ \/ hasher_init_base(InitialKey, "hash")
     \/ hasher_init_base(UserKey, "keyed")
     \/ hasher_init_base(InitialKey, "context")
  /\ at = 0 /\ pending = 0 /\ pos = "ready" /\ updates = 0 /\ out = <<>>

(* blake3_hasher_update is called.  The hasher of a context has one update.  *)
Update ==
  /\ pos = "ready"
  /\ updates < IF mode = "context" THEN 1 ELSE MaxUpdates
  /\ \E n \in Lengths :
       /\ at + n <= MaxMessage
       /\ pending' = n
       /\ pos' = IF n = 0 THEN "ready" ELSE IF chunk_state_len(chunk) > 0 THEN "chunk" ELSE "subtrees"
  /\ updates' = updates + 1 /\ out' = <<>>
  /\ UNCHANGED <<degree, mode, key, chunk, cv_stack, at>>

(* The chunk that was begun is filled, and closed if there is more input. *)
FinishChunk ==
  /\ pos = "chunk"
  /\ LET take  == MinOf(CHUNK_LEN - chunk_state_len(chunk), pending)
         c     == chunk_state_update(chunk, at, take)
     IN /\ at' = at + take /\ pending' = pending - take
        /\ IF pending > take
           THEN /\ cv_stack' = hasher_push_cv(cv_stack, output_chaining_value(chunk_state_output(c)),
                                              chunk.chunk_counter)
                /\ chunk' = chunk_state_init(key, flags, chunk.chunk_counter + 1)
                /\ pos' = "subtrees"
           ELSE chunk' = c /\ pos' = "ready" /\ UNCHANGED cv_stack
  /\ UNCHANGED <<degree, mode, key, updates, out>>

(* The largest power of two that the input fills and that divides the count. *)
SubtreeLen ==
  CHOOSE s \in {2^k : k \in 0 .. SizeBits} :
    /\ s <= round_down_to_power_of_2(pending) /\ (chunk.chunk_counter * CHUNK_LEN) % s = 0
    /\ 2 * s > round_down_to_power_of_2(pending) \/ (chunk.chunk_counter * CHUNK_LEN) % (2 * s) # 0

(* A turn of the loop: one subtree, as one value or as a pair. *)
Subtree ==
  /\ pos = "subtrees" /\ pending > CHUNK_LEN
  /\ LET n       == SubtreeLen
         chunks  == n \div CHUNK_LEN
         counter == chunk.chunk_counter
     IN /\ cv_stack' =
             IF n <= CHUNK_LEN THEN hasher_push_cv(cv_stack, chunk_cv(at, n, counter), counter)
             ELSE LET pair == compress_subtree_to_parent_node(at, n, counter)
                  IN hasher_push_cv(hasher_push_cv(cv_stack, pair[1], counter),
                                    pair[2], counter + chunks \div 2)
        /\ chunk' = [chunk EXCEPT !.chunk_counter = @ + chunks]
        /\ at' = at + n /\ pending' = pending - n
  /\ UNCHANGED <<degree, mode, key, pos, updates, out>>

(* What is left, at most a chunk, goes into the chunk state. *)
Remainder ==
  /\ pos = "subtrees" /\ pending <= CHUNK_LEN
  /\ IF pending > 0
     THEN /\ chunk' = chunk_state_update(chunk, at, pending)
          /\ cv_stack' = hasher_merge_cv_stack(cv_stack, chunk.chunk_counter)
     ELSE UNCHANGED <<chunk, cv_stack>>
  /\ at' = at + pending /\ pending' = 0 /\ pos' = "ready"
  /\ UNCHANGED <<degree, mode, key, updates, out>>

(* The root: the chunk itself, or the merge of the stack from the top down. *)
RootOutput ==
  LET partial == chunk_state_len(chunk) > 0
      start   == IF partial THEN Len(cv_stack) ELSE Len(cv_stack) - 2
      o[k \in 0 .. start] ==   \* after k turns, with start - k values left
        IF k = 0 THEN IF partial THEN chunk_state_output(chunk)
                      ELSE parent_output(cv_stack[start + 1], cv_stack[start + 2], key, flags)
        ELSE parent_output(cv_stack[start - k + 1], output_chaining_value(o[k - 1]), key, flags)
  IN IF cv_stack = <<>> THEN chunk_state_output(chunk) ELSE o[start]

(* blake3_hasher_finalize_seek leaves the hasher as it is. *)
Finalize ==
  /\ pos = "ready"
  /\ \E w \in Windows :
       /\ w[2] > 0
       /\ out' = <<w[1], output_root_bytes(RootOutput, w[1], w[2])>>
  /\ UNCHANGED <<degree, mode, key, chunk, cv_stack, at, pending, pos, updates>>

(* The rest of init_derive_key_raw: the digest of the context is the key. *)
DeriveKey ==
  /\ pos = "ready" /\ mode = "context" /\ updates = 1
  /\ key' = output_root_bytes(RootOutput, 0, 1)[1][1]
  /\ mode' = "material"
  /\ chunk' = chunk_state_init(key', ModeFlag("material"), 0)
  /\ cv_stack' = <<>> /\ at' = 0 /\ updates' = 0 /\ out' = <<>>
  /\ UNCHANGED <<degree, pending, pos>>

HasherNext == Update \/ FinishChunk \/ Subtree \/ Remainder \/ Finalize \/ DeriveKey
HasherSpec == HasherInit /\ [][HasherNext]_hasherVars

-----------------------------------------------------------------------------
(* The tree, as BLAKE3 defines it: a chunk, or a parent whose left side is   *)
(* the largest power of two of chunks that leaves something to the right.    *)
(* k and fl are the key and the flags of the mode.                           *)
ChunkCV(k, fl, from, b) ==   \* of a chunk's first b blocks, more to follow
  LET cv[j \in 0 .. CHUNK_LEN \div BLOCK_LEN] ==
        IF j = 0 THEN k
        ELSE Compress(cv[j - 1], Data(from + BLOCK_LEN * (j - 1), BLOCK_LEN), BLOCK_LEN,
                      from \div CHUNK_LEN, fl + IF j = 1 THEN CHUNK_START ELSE 0)
  IN cv[b]

Leaf(k, fl, from, n) ==
  LET last == IF n = 0 THEN 0 ELSE (n - 1) \div BLOCK_LEN   \* its last block
      left == n - BLOCK_LEN * last
  IN [input_cv |-> ChunkCV(k, fl, from, last),
      block |-> ZeroPadded(Data(from + BLOCK_LEN * last, left)),
      block_len |-> left, counter |-> from \div CHUNK_LEN,
      flags |-> fl + CHUNK_END + IF last = 0 THEN CHUNK_START ELSE 0]

Parent(k, fl, l, r) ==
  [input_cv |-> k, block |-> <<output_chaining_value(l), output_chaining_value(r)>>,
   block_len |-> BLOCK_LEN, counter |-> 0, flags |-> fl + PARENT]

(* The tree over the n bytes at from, at most d levels of parents high.      *)
Tree(k, fl) ==
  LET tree[d \in 0 .. MAX_DEPTH] ==
        [from \in Nat |-> [n \in Nat |->
           IF d = 0 THEN Leaf(k, fl, from, n)
           ELSE LET l == CHUNK_LEN * 2^(d - 1)
                IN IF n <= l THEN tree[d - 1][from][n]
                   ELSE Parent(k, fl, tree[d - 1][from][l], tree[d - 1][from + l][n - l])]]
  IN tree

Node(from, n) == Tree(key, ModeFlag(mode))[MAX_DEPTH][from][n]

(* However a message is cut into updates, however wide the CPU hashes, and   *)
(* whether or not a digest was taken on the way, the output is that of the   *)
(* tree over the whole message, at the bytes that were asked for.            *)
DigestIsTreeHash ==
  out # <<>> =>
    LET root == Node(0, at)
    IN out[2] = [k \in DOMAIN out[2] |->
                   <<Compress(root.input_cv, root.block, root.block_len,
                              (out[1] + k - 1) \div BLOCK_LEN, root.flags + ROOT),
                     (out[1] + k - 1) % BLOCK_LEN>>]

(* The chaining value of the ith subtree of 2^k chunks. *)
SubtreeCV(k, i) == output_chaining_value(Node(CHUNK_LEN * 2^k * i, CHUNK_LEN * 2^k))

(* A value for every bit of q, of the subtree of that size which ends where  *)
(* the bits above it and itself end.                                         *)
Covers(stack, q) ==
  /\ Len(stack) = popcnt(q)
  /\ \A k \in 0 .. MAX_DEPTH :
       (q \div 2^k) % 2 = 1 => stack[popcnt(q \div 2^k)] = SubtreeCV(k, (q \div 2^k) - 1)

(* At every point of an update the stack is that of some number of chunks,   *)
(* with at most one more subtree on top that is not merged yet: it covers    *)
(* the closed chunks without a gap, and fits the array of the hasher.        *)
StackCoversInput ==
  LET closed == chunk.chunk_counter
      n      == Len(cv_stack)
  IN /\ n <= MAX_DEPTH + 1
     /\ \/ Covers(cv_stack, closed)
        \/ \E s \in 0 .. MAX_DEPTH :
             /\ 2^s <= closed /\ closed % 2^s = 0
             /\ n > 0 /\ Covers(SubSeq(cv_stack, 1, n - 1), closed - 2^s)
             /\ cv_stack[n] = SubtreeCV(s, (closed \div 2^s) - 1)
=============================================================================
