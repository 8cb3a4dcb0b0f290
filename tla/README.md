# A formal model of the split OXT experiment

The repository splits the OXT (Oblivious Cross Tags) searchable-encryption
experiment into a client and a server program that talk over TCP. This directory
holds TLA+ models of it, TLC configurations that check them, and TLAPS proofs.
Line numbers are those of `src/OXT_CONJ_CLIENT/client` ("c") and
`src/OXT_CONJ_SERVER/server` ("s"). `mainwindow_client.cpp` and
`mainwindow_server.cpp` are called "mainwindow".

## 1. Inventory

| component | code | state | operations | what makes it correct |
|---|---|---|---|---|
| worker pool | mainwindow: `SetUpThreads`, `FPGA_*`, `MGDB_QUERY`, `WorkerThread`, `ReleaseThreads` (both programs) | mutex `mrun`, condition variables `dataReady`, `workComplete`, round counters, `nWorkerCount`, `processed`, `*GL_OPCODE`, one input and output slot per worker | one batch call, one release | a call returns the result of its own operation on its own inputs; nobody sleeps through a wake-up; release ends |
| TSet | `TSet_SetUp` (c), `TSet_SetUp`, `TSet_Retrieve` (s) | redis, `FreeB` per row, the running hash input | derive and store a row; walk it back in batches | the walk finds exactly the row, whatever lies past its end |
| cross tags | `EDB_SetUp`, `EDB_Search` | index entries (y, e), xtags in the Bloom filter, xtokens | index pass, xtag pass, token pass, xtag test | every document with both keywords matches |
| Bloom filter | `bloom_filter.cpp`, `BFIdxConv` | N_HASH bit arrays | init, set, match, write, read | no false negative, also after a round trip through the file; the index is the digest's leading bits |
| set-up session | `sse_setup_client/server.cpp`, `TSet_SetUp` (c, s), `send_file`, `receive_file` | socket, redis, `bloomfilter.dat` | rows, then pairs, then the file | after a complete session the server has exactly what the client sent |
| search session | `sse_search_client/server.cpp`, `EDB_Search` (c, s) | socket, buffers of both sides | stag, count, xtokens, matches | the client reports the answer to the query it asked |
| query loop | `sse_search_client.cpp` `main` | `freq_map`, `res_query.csv`, `res_id.csv` | read a line, skip or search, write results | result lines answer the query lines; the rarer keyword leads |
| configuration and start-up | `ReadConfAll`, `Sys_Init`, `main` of the four programs, `bloomfilter.dat` | `N_threads` to `N_BF_BITS`, the filter in memory and on disk | read the configuration, allocate, read the filter | two hosts with configurations that agree see the same filter |
| BLAKE3 hasher | `blake3/blake3.c`, `blake_hash.cpp` | chunk state, stack of chaining values | init, update, finalize | the digest does not depend on how the message was split, nor on the processor; the stack holds what was taken |
| BLAKE3 kernels | `blake3_portable.c`, `_sse2.c`, `_sse41.c`, `_avx2.c`, `_avx512.c`, `blake3_dispatch.c` | vectors and lanes; `g_cpu_features` | compress, hash_many, detection of the processor | all kernels compute the same; none runs on a processor without it |
| AES | `aes.cpp`, `aes.h` | round keys | `AESENC`, `AESDEC` | decryption undoes encryption |
| curve | `ecc_x25519.cpp`, `ECC_*` of mainwindow | ladder registers, scalars | `ScalarMul`, `DoubleAndAdd`, inverse modulo the order | the ladder multiplies; a token times an index entry is the tag |
| hexadecimal text | `rawdatautil.cpp`, `DB_*` of mainwindow | text, `temp[2]` | write a byte array or a number, read one back | what is read is what was written |
| offline tools | `db_util.py`, `debug_print.py` | - | count and print | run by hand; not modelled |

What is hard to test here:
 - *Concurrency.* The pool's hand-shake has two condition variables, unlocked
   slots and an unlocked flag.
 - *Failure.* No caller looks at what `recv_all`, `send_all` and
   `receive_file` return. A peer that disappears leaves stale or zero buffers that
   are then used.
 - *Ordering.* TSet positions, index counters and results depend on the same
   order being produced twice, in two programs.
 - *Boundaries.* The last batch of a row is filled with keys that are not in the
   database; the round counters wrap; one counter is a byte. Vector counters carry
   lane by lane, the last vector of a hash is shorter than its kernel.
 - *Races on a cache.* Every worker detects the processor on its first hash and
   writes `g_cpu_features` without a lock.
 - *Undefined reads.* `strtoul` is given two characters without a terminator.

## 2. Plan

| # | module(s) | why at this place | state |
|---|---|---|---|
| 1 | `ThreadPool`, `BatchCall`, `WorkerOps_proofs` | both programs compute with nothing else | checked, proved |
| 2 | `TSet`, `TSet_proofs` | the row walk over a database that answers anything for an absent key | checked, safety proved |
| 3 | `CrossTags`, `CrossTags_proofs` | index, xtag and token passes over an abstract group, and the filter | checked, proved |
| 4 | `SearchSession`, `SearchCall`, `SearchSession_proofs` | client, server and connection, with a connection that breaks anywhere; the abstract search they implement | checked, safety proved |
| 5 | `SetupSession`, `SetupSession_proofs` | the same for set-up, with what the server keeps on disk | checked, safety proved |
| 6 | `QueryLoop`, `TextFiles_proofs` | the client's loop over `input.txt` | checked, proved |
| 7 | `Startup`, `TextFiles_proofs` | what the four programs read before they begin | checked, proved |
| 8 | `Aes`, `WorkerOps_proofs` | what 3 assumes of the cipher | checked, proved |
| 9 | `Encodings`, `BFIdxConv`, `TextFiles_proofs` | numbers, text and indices | checked, proved |
| 10 | `Curve`, `WorkerOps_proofs` | what 3 assumes of the group | checked, proved |
| 11 | `HashMany`, `Blake3Rounds`, `Words`, `Dispatch`, `WorkerOps_proofs` | the kernels of the hash, and which of them runs | checked, proved |
| 12 | `Blake3`, `Blake3_proofs` | the hasher above the kernels | checked, proved |

`Numbers` holds the lemmas on numbers that several proofs use: induction in the form of
a set, division with remainder, powers.

## 3. The modules

Names are those of the code where TLA+ has them. A definition
whose comment says "Mutant of" is a plausible wrong version of the definition
after it; the specifications do not use it. Put in the place of the right one, it
makes a property fail, which shows that the property looks at that code.

### ThreadPool, BatchCall

One main thread, `Threads` workers, the mutex `mrun`, the condition variables
`dataReady` and `workComplete`. Nine functions (`FPGA_AES_ENC` ... `MGDB_QUERY`)
in each program are the same steps with another opcode and other buffers, and
the actions stand for all of them: `WriteBatch` and `Publish` are the section
under the mutex, `NotifyWorkers` the `notify_all` behind it, `AwaitWorkers` the
wait for `nWorkerCount == 0`, `ReturnBatch` the reset of the opcode and the copy
of the results, both without the mutex. `ReleaseThreads`, `JoinThreads` end the
pool. A worker's loop is `CheckProcessed`, `AwaitRound`, `Fetch`, `Store`,
`CountDown`, `NotifyMain`. The source map names, for each of the main thread's four
steps, the statement in one of the nine functions, which stands for the same statement
in the others.

A section under the mutex that touches only protected state is one step; what is
read or written without it (`*GL_OPCODE`, the slots, `processed`) has steps of its
own, so that races show. Condition variables wake spuriously too. The
operations are free terms `<<opcode, input>>`. Before the first call the opcode
is uninitialised memory: any value. The round counters wrap at `IterMod`.

`BatchCall` is what a caller may rely on: a call gives, in every slot, the result
of its own opcode on its own input.

### TSet

`StartSetUp`, `StoreEntry`, `NextRow` are the client's row loop together with the
server's `redis.set`; `InterruptSetUp` is a set-up that stops anywhere.
`StartRetrieve`, `DeriveKey`, `QueryBatch`, `ScanEntry`, `EndRetrieve` are the
server's `TSet_Retrieve`: a batch of keys one after the other, `MGDB_QUERY`, and
the entries one after the other. The digest of a position is the injective term
`<<keyword, position % Period>>` (the position goes through one byte of the cipher's
input); its bucket is any function of it, so TLC tries every pattern of buckets
that coincide. A masked value opens only with the digest it was masked
with; otherwise, and for a key redis does not hold, the walk sees noise. For an
absent key the code dereferences an empty optional: noise, or a crash.

### CrossTags

`IndexRow` and `TagRow` are the two passes of `EDB_SetUp`, `SendToken` the
client's token loop, `TestToken` the server's xtag test, `Answer` the decryption.
Cipher, group, curve and hash are constants with named assumptions. The filter
is a set of cells `<<array, bin>>`, written to and read from the file by line
number. Batches of the loops and the buffers are left out. Rows are the database's;
how the entries get to the server is `TSet` and `SetupSession`.
`AnswerInRowOrder`: the answer's documents are at increasing positions of the row, and no
position between them holds one of these documents without a place in the answer. `SpuriousOnlyIfSwapped` is about hashes and groups in
which nothing collides by accident: `NoFalsePositives` and `TagsDistinct` say so, the
instance satisfies them, and the theorem has them as hypotheses.

### SearchSession, SearchCall

Client and server walk `EDB_Search` message by message. A connection has two
queues, two ends, and may be cut; a program may die at any step and be started
again. `GoneForClient` / `GoneForServer` say when a `recv_all` returns without a
message; the program then goes on with the buffer as it is, or with part of the
message. A send to a connection that is gone is lost or kills the sender. The
server's listen queue holds the clients that wait. What the row is and which
entries match is given by the constants `RowLen` and `Hits`; for a stag or token
that is not one the client sent, the server may compute anything. A cleared buffer,
`Zero`, is no query (`BuffersAssumption`).

`SearchCall` is what the user of the two programs may rely on. A run of the client
asks query after query and writes one line for each; the k-th line is the k-th
query's, which nothing but its place says. If nothing disturbs a query, its line is
its answer; otherwise it is anything of that query's own row. A run that dies leaves
the lines it has, the next one begins an empty file. The mapping: `lines` is
`reported` without the connection each line came over, `phase` follows the client's
program counter, `hurt` is whether the connection of the query being asked was disturbed.

### SetupSession

One run of the set-up server serves one client. The client is the sequence of
its messages: `After` says which one follows which (the loops of its `TSet_SetUp`, then
`send_file`), `Carries` what a message holds. Every receive of the server's `TSet_SetUp` is
an action with two outcomes: the message, or a broken connection, whose result the
code ignores. `receive_file` does look, `main` does not. redis and
`bloomfilter.dat` outlive the runs; opening the file empties it.

Behind the file the server's `Sys_Clear` releases its workers. The set-up server makes no
batch call, so a worker is on its way to its first wait ("starting": it connects to redis
first) or waits there. `ReleaseThreads` sets `processed` and publishes the only round,
`CheckProcessed` is the worker's first look at the flag, `CountDown` what it does in that
round, `EndServer` the end of the wait and of `main`. A worker that looks too late never
counts down, and the server stays until someone kills it (`ServerDies`). What that round
computes from an opcode nobody has set is `ThreadPool`'s subject; if it crashes the
program, that is `ServerDies` as well. The client's own `Sys_Clear` comes before its
`close` (sse_setup_client.cpp:262) and may keep it for ever.

### QueryLoop, Startup, MC_TextFiles

`QueryLoop` is `main` of the search client around `EDB_Search`, up to the release of
its workers: `freq_map`, the lines passed over and the result lines. A field that is not a number makes
`std::stoi` throw and the program abort, with the result lines written so far.
An index past the end of `keyword_vec` is not modelled (undefined behaviour).

`Startup` is the start of the four programs, one after the other, on two hosts
with a configuration file each: `ReadConfAll` line by line (a missing line or
one that is no number throws), the arrays of the filter from `N_HASH` and
`N_BF_BITS`, the set-up client's filter written to the file, the file read back
cell by cell by the search server, and by the search client, which has no use for it. The reader converts two characters with
nothing terminating them; `behind` is the digit that follows them in memory (or
none). Without a file `ReadConfAll` returns -1, nobody looks, and the program
runs on with the defaults, its filter empty; what its threads then write into
buffers of no size is undefined and not followed. The numbers of a configuration are
read into unsigned ints (`ConfsAssumption`). The programs run one
after the other because the sessions between them are `SetupSession`'s and
`SearchSession`'s subject.

`MC_TextFiles` takes one of the two in a behaviour.

### Aes, Curve, Encodings, BFIdxConv

These are the operations of a worker's `switch`, as loops: one turn is one step.

`Aes` is the key schedule (ten rounds; `AESDEC` takes the same keys in reverse
through InvMixColumns) and the rounds of both functions. The processor's
instructions are external: operator constants with assumed inverses.

`Curve` is `ScalarMul`, from the top bit of the scalar down, its registers exchanged on a
clear bit, `DoubleAndAdd` with the formulas of the code, and the arithmetic modulo the
order that blinds a token (`ECC_FPINV`, `ECC_MUL`). Field and order are
constants: the formulas do not depend on 2^255 - 19. The group by chord and tangent is
the reference (`PlusPoint`, `Times`); `Represents` relates registers to its points.

`Encodings` writes bytes and numbers as hexadecimal text (a number without
leading zeros, `DigitsOf` of them, then padded) and reads byte by byte with the
unterminated `temp[2]`; `AddDigit` is a turn of `strtoul`, up to the first value that does
not fit. `BFIdxConv` is the byte loop of the function of that name.
The prover knows of `^` only what `PowersAssumption` and `WidthAssumption` say (what it means);
TLC evaluates both on the instance.

### Blake3, HashMany, Blake3Rounds, Words, Dispatch

`Blake3` is the hasher over an opaque compression: chunk state, `Update` with the
choice of the next subtree, recursion over subtrees with as many chunks at a time
as the kernel's degree, the stack of chaining values with its late merging,
`Finalize` with a seek. Its reference is the tree hash of the whole message (`Tree`). The
code's loops and recursive calls are recursive functions, by the number of turns or
the depth that is left: `MAX_DEPTH` levels are enough for any message of at most
`CHUNK_LEN * 2^MAX_DEPTH` bytes (`MaxMessage`), with the code's 1024 and 54 the 2^64 bytes
its counters can tell apart. `LengthsAssumption` ties the three together, and says what `^` means.

`HashMany` is `blake3_hash_many`: groups of lanes per kernel, the cascade to narrower
kernels for what is left, counters as two halves with the carry each instruction
set computes in its own way (`HalfBits` bits to a half).

`HashManyAssumption` keeps numbers and counters in the range of their C types.

`Blake3Rounds` is the compression three times: on sixteen words (portable), on four
row vectors that are rotated against each other with the message shuffled in
place (`compress_pre` of the SSE files), and on lanes with transposed messages
(`hash4`, `hash8`, `hash16`). `half_g` is the half of a quarter round all three share. `Words` has 32-bit words as pairs of
16-bit halves, within TLC's integers.

`Dispatch` is `get_cpu_features` by several threads at once (reads and
writes of the cache are separate steps) and the choice of a kernel; a thread's
hash asks twice, for the degree and for the kernel. Assumed: AVX512VL
comes with AVX512F, SSE4.1 with SSSE3 (true of every processor made).

`MC_WorkerOps` takes one of the operations in a behaviour. Its `WordsRotateAndAdd`
evaluates, on sample words, the laws of words the theorem about the rounds has as its
hypothesis.

## 4. The runs

| run | module | instance | what it shows |
|---|---|---|---|
| `pool` | `MC_ThreadPool` | 3 workers, symmetric, 2 opcodes, counters wrap at 3 (55 k) | `TypeOK`, `RoundSync`, `NoDataRace`, `NoLostWakeup`, `ReleaseRunsNothing`; the pool implements `BatchCall` (`BatchSpec`); `CallReturns`; `ReleaseReturnsOrMissed` |
| `pool_release_hangs` | `MC_ThreadPool` | 2 workers | `ReleaseReturns` fails (finding 1) |
| `tset_rows` | `MC_TSet` | 2 keywords, rows of up to 3, 2 buckets, 2 set-ups (663 k) | `TypeOK`, `EntriesKept`, `RetrieveExact`, `WalkInBuffer`, `RetrieveEnds` |
| `search_sessions` | `MC_SearchSession` | 2 queries, 2 client runs (240 k) | `TypeOK`, `NoForeignIds`, `TokensInStep`; the programs implement `SearchCall` (`SearchSpec`); `QueryEnds`, `ServerReturns` |
| `search_cut` | `MC_SearchSession` | as above | `ReportedExact` fails (finding 2) |
| `crosstags_search` | `MC_CrossTags` | 729 databases (13 k) | `TypeOK`, `Complete`, `AnswerInRowOrder`, `SpuriousOnlyIfSwapped` |
| `crosstags_same_key` | `MC_CrossTags` | as above | `AnswerExact` fails (finding 3) |
| `setup_sessions` | `MC_SetupSession` | 2 databases of 2 rows, 2 workers (319 k) | `TypeOK`, `CleanRunExact`, `FilterImpliesIndex`; `ServerEnds`: whatever becomes of the client, the server ends, or one of its workers came too late for the release |
| `setup_saved` | `MC_SetupSession` | as above | `SavedAsAnnounced` fails (finding 4) |
| `text_files` | `MC_TextFiles` | 3 keywords, up to 3 lines; 11 configurations per host (460 k) | `ResultsLineUp`, `RarerFirst`; `FilterFaithful`: where both hosts configure the same bins and bits, and the search server no more arrays than were written, it finds every element the set-up stored, as long as no digit follows `temp[2]` in memory |
| `worker_ops` | `MC_WorkerOps` | see below (36 k) | `DecryptionInverts`, `LadderExact`, `TokensMeet`, `KernelsAgree`, `CompressionsAgree`, `LeadingBits`, `ReadBackExact`, `KernelsSupported` |
| `blake3` | `MC_Blake3` | degrees 1, 4, 8, 16; up to 3 updates (101 k) | `DigestIsTreeHash`, `StackCoversInput` |

Bounds, and why they are enough to be of use:

 - *Workers.* Two workers are the least for which one can lag behind another; three
   give every mixture of sleeping, working and returning ones. Counters wrap
   within a behaviour (`IterMod = 3`); two opcodes tell rounds apart. The theorems hold for
   any number of each. The set-up server has two: one may miss the release while the other
   waits for it.
 - *Rows.* `Period = 2`, `N_threads = 2`, `N_max_ids = 3` make a row longer than
   the period of the position byte, a row that ends inside a batch and one that
   ends with it. `JidxMod = 3` is the least the longest row allows. Two buckets
   have positions that share one and positions that do not.
 - *Set-ups.* Two: one old, one new, the new one shorter or longer.
 - *Queries and runs.* Two queries with different row lengths show leaks from one to
   the next, two runs of the client show a query after a broken one.
 - *Databases.* Three keywords and three documents, values of keywords and
   documents overlapping as in `db6k.dat`; every combination of nine rows. The filter
   of `CrossTags.cfg` has no collisions: a collision could only hide a missing
   tag. `Complete` for filters with collisions is a theorem.
 - *Group.* Exponents are logarithms modulo 53 with codes whose sums differ,
   so that tags coincide only where the code makes them coincide.
 - *Text files.* Three lines with two iterations: a text that is too long, too short
   and right. Configurations that agree, that differ in each of the numbers that matter,
   a short one, one that is no number, none.
 - *AES.* Eight blocks, so that all keys and plaintexts are tried; S is a
   permutation and MixColumns a multiplication in the field of eight elements.
 - *Curve.* A Montgomery curve over 43 elements, a24 = 2, whose point x = 4 has
   prime order 11: scalars of four bits walk every pattern of swaps.
 - *Hash.* Blocks of 4 and chunks of 8 bytes; updates of 0 to 200 bytes cross
   chunk and subtree boundaries of every degree, within the 512 of six levels; two blocks to a message of
   hash_many tell first, inner and last apart; 0 to 31 messages cross every cascade;
   halves of 4 bits put the carries within reach. The compression in these
   runs is a number that depends on each argument in another way. The rounds run with
   the code's IV, on the job of the empty message (whose digest is published)
   and on one without a pattern, in every distribution over the lanes.
 - *Text.* Three bytes, `unsigned long` of four digits: values longer and shorter than
   one, with and without leading zeros; no, one, two and too many digits behind.
 - *Digest bytes.* 0, 1, 90 and 255 at 1 to 24 bits: every bit set and clear, and widths on
   either side of a byte.
 - *Processors.* Seven generations, with and without an operating system that saves
   their registers, cpuid cut off or not; two threads.

`CHECK_DEADLOCK FALSE` stands where the program ends (pool released, set-up over,
loop over). `TSet` and `SearchSession` never stop and are checked for deadlock.

Fairness. `ThreadPool`: weak fairness of every thread's own steps (the operating
system runs them) and none of making a call or releasing. `mrun` needs none beyond that:
the main thread does not take it again before the workers had their turn.
`TSet`: the two loops run on. The sessions: the client and the server process run
on; cuts, deaths and restarts are nobody's duty, and a program that is down need
not come back. In `SetupSession` each worker of the server runs on too, and the client up to
its last message; nothing says that it closes the connection, since its release may hang.

## 5. The proofs

The worker pool (in `WorkerOps_proofs`, with the cases of a worker's `switch`), for every number of workers, every set of opcodes and inputs and
every `IterMod >= 2`: type correctness (`TypeCorrect`), `RoundsInStep`, `RaceFree`,
`NoWakeupLost`, `ReleaseIsIdle`, and that the pool implements `BatchCall`
(`PoolImplementsBatch`).
`RoundSync` alone is inductive together with `TypeOK` (`SyncInv`): the set `Owing` of workers
that still have to count down has as many members as `nWorkerCount` says, and
nobody is more than one round behind, so that `==` on wrapping counters is "my
round has begun". That is what makes the other facts go through: the main
thread leaves its wait only with an empty `Owing`, hence with no worker near the
slots. `DataInv` adds what registers and slots hold during a round.

`CrossTags_proofs`, for every database, cipher, group, hash and filter size:
`TypeCorrect`, `SearchComplete` (`Complete`), `AnswerKeepsRowOrder`
(`AnswerInRowOrder`) and `SpuriousOnlySwapped` (`SpuriousOnlyIfSwapped`). The invariant
`IInv` says what each loop has done up to its position (`Loops`, `IndexInv`, `TagInv`,
`MatchInv`). The core is `TokenMeetsTag`: an entry's y times the token of its position is
the xtag of the second keyword and the entry's document, because z cancels. `FileKeepsFilter`
says that writing and reading the file returns the same cells. The other two theorems need more
(`AnswerIInv`): every cell of the filter is a cell of some row's tag (`FilterInv`), the
matches are the row's positions that pass the test, each once and in order (`OrderInv`),
and so is the answer (`ReportInv`). Assumed, by name in the
module: decryption undoes encryption; scalars multiply commutatively and
associatively and have inverses (0 has none: z is 0 with probability
2^-128, left out); scalar multiplication composes; hashes give indices
inside the arrays (`BFIdxConv`); a keyword has one row. Only `SpuriousOnlySwapped` also has
`NoFalsePositives` and `TagsDistinct` as hypotheses.

`TSet_proofs`, for every number of keywords, row length, batch size, period of the
position byte and assignment of digests to buckets, and for any number of set-ups:
`TypeCorrect`, `NothingOverwritten`, `RetrievalExact`, `WalkStaysInBuffer`. The idea
of `TSetInv`: at each position of either loop, `FreeB[b]` is the number of earlier
positions whose digest falls into bucket b (`Count`), so a key is a function of
keyword and position alone (`KeyOf`). `KeysDiffer`: two positions that share digest
and bucket have different counts, and a count below the longest row
does not wrap, so no two positions share a key. `StoredOK` says that what is stored is at its
key; `BatchOK` that a batch asks for the keys of its positions and begins at a
multiple of the batch size, which keeps it in the buffer (`BatchInBuffer`);
`WalkOK` that the walk has read the row so far. Assumed: the longest
row is not longer than the key's counter can count; redis' answer for an absent
key is not a stored value.

`SearchSession_proofs`, for any number of queries, runs of the client and documents, whatever
is cut, dies and is started again: `TypeCorrect`, `NothingForeign`, `LoopsInStep`,
`ExactUnlessDisturbed`, and that the two programs implement `SearchCall`
(`ProgramsImplementSearch`). `SearchInv` gives every connection a query (`TalkOK`). How many
messages each end has sent and received follows from the program counters (`Sent`,
`Taken`, `Given`, `Heard`); what is under way is the next of that query's session, as far as
it goes (`OfQuery`). On a connection nothing has disturbed nothing of it is missing, the
server's matches are those of the entries it has tested, and the client knows what the
server has told it (`InStep`). The query and the ESET of a connection are quantified, not
stored: once both programs have moved on, only the connection knows them. The
refinement needs one more fact, that a run has written the lines of the queries before
the current one (`LinesInv`), and that a disturbed connection stays so.

`SetupSession_proofs`, for every sequence of databases, whatever earlier runs left:
`TypeCorrect`, `CleanRunLeavesAll` (`CleanRunExact`), `FilterHasIndex` (`FilterImpliesIndex`).
`SetupInv`: either the channel holds consecutive messages that begin with the one the server's
loops expect and end before the one the client sends next, and redis holds every entry the
loops have reached (`InSync`); or a message is missing, and then the server hears nothing any more
until it has ended (`Lost`). It gets as far as opening the file only in sync, so a file
that names a run finds that run's index complete. The steps of the release touch
neither redis nor the file: both facts hold also while it waits.

`TextFiles_proofs` is about text that one program writes and another reads.

 - `LinesMatch` (`ResultsLineUp`), for every table of frequencies and every text whose lines before the
   current one are as the test generator writes them (a line of two keywords of the same frequency
   is not), and `RarerGoesFirst` (`RarerFirst`), for every text, from `LoopInv`: generated and result lines grow together, a line that is passed over adds to neither.
 - `FilterReadBack` (`FilterFaithful`), for any two configurations with the same bins and bits and
   no more arrays in the server's than were written, and all numberings of the cells, from `StartupInv`: cell (k, j) of the written filter is on line k * bins + j + 1 of the file
   (`WrittenOK`), and the reader is at the line of the cell it fills next, with the cells before it equal
   to the written ones (`ReadingOK`). This holds for as long as no digit was read from behind
   the buffer.
 - `TextReadBack` (`ReadBackExact`), for every length, array and number: the text is two
   digits per byte of the value, padded or not (`TextOf`), and `strtoul` of two digits alone is
   their byte.
 - `IndexIsLeadingBits` (`LeadingBits`), for every digest, index size and width of an int, from
   `BFInv`: the number so far is that of the bits read so far (`Reads`), so the shift never overflows.

The rest of `WorkerOps_proofs` is about the cases of a worker's `switch`.

 - `DecryptionCorrect`, for any blocks and any instructions with the assumed inverses,
   from `AesInv`: the schedule built so far (`ScheduleOk`), the
   blocks encryption went through (`trace`, `EncProgress`), and that decryption
   after n instructions holds S of the block encryption had after its round 10 - n
   (`DecProgress`), which uses that InvMixColumns is linear.
 - `KernelsAlwaysSupported`, for any number of threads and any processor. The
   race is harmless because only one value is ever written over `UNDEFINED`
   (`CacheOK`): whoever reads the cache reads nothing or what it would have found.
 - `EveryKernelCompresses` (`CompressionsAgree`), for every block, chaining value and instruction
   set, from `RoundsInv`: rows and lanes hold the words of the portable state, and the message
   vectors are what the previous round's shuffle left of the block (`Wanted`). The core is that a
   round on columns, then on rows turned against each other, is the eight quarter rounds. Hypothesis:
   the operations stay in the set of words, an addition's operands may change places, and
   the byte shuffles are the rotations by 16 and 8 (`WordOps`); jobs consist of words (`JobsOf`).
 - `EveryWidthHashes` (`KernelsAgree`), for every number and length of messages, every counter
   and any compression that returns eight words (`WordsHash`), from `HashManyInv`: the outputs
   written are the hashes of their inputs with counter `CounterOf(k)`. It rests on the
   transpositions of 4, 8 and 16 vectors, on the carry between the halves of a counter, and on
   lane j being, block after block, the chain of input j.

 - `LadderMultiplies` (`LadderExact`), `TokensAlwaysMeet` (`TokensMeet`), for every field, order,
   keyword, document and blinding, from `CurveInv`: a call's base point is a multiple of the
   curve's (`Bases`), the registers hold the multiple by the bits read so far and the next
   one (`LadderAt`), and what earlier calls returned is the multiple it stands for (`PhaseInv`).
   Proved: the top bit the ladder starts at is the scalar's (`TopBitIn`), a turn appends a bit
   (`OneBit`), the final power divides (`Returned`), and the blinding cancels
   (`Unblinds`). Assumed (`CurveAssumption`, `CurveLaws`, evaluated by TLC on the small
   curve): p - 2 and L - 2 are exponents that invert; the base point has order L and no multiple
   of it the x-coordinate 0; a multiple of a multiple is a multiple; and on two
   points whose difference is the base point `Double` and `Sum3` are the group's double and sum,
   which is algebra the provers do not do. No z and no keyword's PRF is a multiple of L.

`Blake3_proofs`, for every message of at most `MaxMessage` bytes, every way to cut it into updates,
every degree, mode and window, any lengths of blocks and chunks and any compression function:
`DigestCorrect` (`DigestIsTreeHash`) and `StackCovers` (`StackCoversInput`). Neither is inductive.
`HasherInv` says of every piece of the state which part of the tree it is (`Progress`): q chunks
are closed, the chunk state is that of the L bytes after them (`ChunkAt`), and the stack holds
a value for each bit of q (`CoversFrom`) or one more that is still to be merged (`OnTop`). The
last is what lazy merging needs: while the chunk state holds something the stack is merged;
at the end of a message of whole chunks it is not, and has the two sides of the root at
its top. One part of the proof for each way the code comes by a chaining value:

 - `MergeCovers`, `PushFor`: merging pairs until there are as many values as bits is adding
   one subtree to a binary counter of subtrees.
 - `ChunkUpdate`, `ChunkOutput`: however the bytes of a chunk arrive, the chunk state is the same,
   with the last block kept back; `HashChunkIs`: hash_many's value of a chunk is the same one.
 - `SubtreeLenIs`, `PairIs`: the next subtree is a power of two of chunks, of which whole ones lie
   before it; hashing it as wide as the CPU allows, each half laid at its offset, and condensing the
   values gives its two halves, whatever the degree.
 - `Climb`, `RootIs`: going down the stack, each value is the left side of the parent over all bytes
   from there to the end of the message.

Assumed (`LengthsAssumption`): a chunk is a power of two and consists of whole blocks; degrees are
1, 4, 8 or 16, which is what `blake3_simd_degree` returns on the processors this is built for.

Induction over numbers (blocks, digits, positions) is written with the set of numbers for
which a statement holds (`AllNumbers` in `Numbers`, from the well-foundedness of <), since the
library's induction theorems take an operator as a parameter.

Only model-checked: all liveness (`CallReturns`, `ReleaseReturnsOrMissed`, `RetrieveEnds`,
`QueryEnds`, `ServerReturns`, `ServerEnds`), out of the prover's reach. Every invariant the
passing runs check is also proved.

## 6. What the runs found

 1. *The release of the pool can hang* (mainwindow c321, s320). A worker on its way
    to its first wait, or back from a round, reads `processed` without the mutex. If `ReleaseThreads` has set
    it by then, the worker leaves without the count-down `ReleaseThreads` waits for.
    `ReleaseReturnsOrMissed` says that this is the only way. The set-up server needs
    no more for it than a client that leaves right after connecting: the row loops and
    `receive_file` fall through, and `main` is at the release (sse_setup_server.cpp:271)
    while workers still connect to redis. `ServerEnds` says that nothing else keeps it.
 2. *A broken connection is reported as an empty answer* (mainwindow c920, c1148,
    c1153). `recv_all`'s result is ignored, so the client writes "no documents".
 3. *Documents without the second keyword are reported* (sse_setup_client.cpp:100-104).
    KI and KX are the same bytes and keywords and documents share their values,
    so the tag of (a, b) is the tag of (b, a). `SpuriousOnlyIfSwapped` says that this
    is the only way apart from collisions of the filter.
 4. *The set-up server announces a filter it has not saved*
    (sse_setup_server.cpp:267). The result of `receive_file` is ignored.

What holds and is worth knowing: `FilterImpliesIndex` — because the filter is sent last and
written last, a filter on disk that no later run has overtaken belongs to a
complete index, whatever broke on the way.

## 7. What is not modelled

 - The hardware's AES instructions and MPIR: external, with what the code relies on.
 - The assembly variants of the BLAKE3 kernels, NEON and the Rust bindings of the
   vendored copy: not part of this build. The server's copy of the hasher and of the
   kernels has the same text as the client's; the map names both. The two programs hash
   messages of 16 and of 40 bytes only: one block of one chunk. The tree above it and the wide
   kernels are modelled because the copy is compiled in, and are reached by longer messages.
 - Sizes of buffers: rows longer than the configuration's `N_max_ids` (mainwindow
   c482), a count from the peer larger than the buffers (c953). What is
   overwritten then depends on the allocator; the models stay inside the configuration,
   and a half-received count of `SetupSession` inside the longest row.
 - An index in `input.txt` past the end of `keyword_vec`; memory after a missing
   configuration.
 - `DB_Callback_*`, `BloomFilter_Match`, `BloomFilter_Set_N`, the client's own
   `TSet_Retrieve`: no caller.
 - A second set-up client at the same time; two search servers; the exact length of
   the listen backlog.
 - The Python scripts that generate data, count and compare, except for the lines
   `QueryLoop` refers to (what the tester expects of the result file).
 - Two hazards are in the models without a property: a line of two keywords of the same frequency is
   passed over and shifts the result lines behind it (sse_search_client.cpp:351), which
   `ResultsLineUp` leaves out by its condition on the lines; and a digit behind `temp[2]` joins the
   byte that is read (mainwindow c1942), which `ReadBackExact` and `FilterFaithful` leave out.
