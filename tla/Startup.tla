------------------------------- MODULE Startup -------------------------------
(***************************************************************************)
(* What the four programs read before they do anything, one after the      *)
(* other as README.md has them started: the configuration of their host,   *)
(* and in the two search programs the Bloom filter the set-up client wrote *)
(* (the client reads its host's file and makes no use of it).  The number  *)
(* of arrays of the filter is the number of worker threads in the          *)
(* configuration, which each host has a file of its own for.               *)
(***************************************************************************)
EXTENDS Integers, Sequences, FiniteSets, SequencesExt

CONSTANTS Confs,       \* configurations: sequences of lines, or Missing
          Missing,     \* no such file
          NotNumber,   \* a line std::stoi does not take
          Elements,    \* digests: per hash function, an index of DigestBits bits
          DigestBits,
          MaxSet,      \* bound of the model: elements the set-up puts in the filter
          Behinds      \* hexadecimal digits that may follow temp[2]; -1: none

(* The numbers of a configuration are read into unsigned ints. *)
ASSUME ConfsAssumption ==
  \A c \in Confs \ {Missing} : \A k \in {2, 5, 6} :
    k <= Len(c) /\ c[k] # NotNumber => c[k] \in Nat

Programs == <<"setup_server", "setup_client", "search_server", "search_client">>

VARIABLES conf,        \* per host, its configuration file
          turn,        \* the program that runs, an index of Programs
          at,          \* "conf", "init", "filter", "ready", "stopped", "undefined"
          N_threads, N_HASH, MAX_BF_BIN_SIZE, N_BF_BITS,  \* of the program that runs
          BF,          \* its arrays
          inserted,    \* the elements set by the set-up client
          written,     \* the set-up client's filter when it wrote it
          bloomfilter_file, \* on either host: one number per line
          line, n_hash, bf_idx, behind  \* the loop of BloomFilter_ReadBFfromFile
startupVars == <<conf, turn, at, N_threads, N_HASH, MAX_BF_BIN_SIZE, N_BF_BITS, BF, inserted,
                 written, bloomfilter_file, line, n_hash, bf_idx, behind>>
sizes == <<N_threads, N_HASH, MAX_BF_BIN_SIZE, N_BF_BITS>>
reading == <<line, n_hash, bf_idx, behind>>

program == Programs[turn]
Host(p) == IF p \in {"setup_server", "search_server"} THEN "server" ELSE "client"
(* What the sizes are in a program that has not read them. *)
Default(p) == IF p = "search_server" THEN 1 ELSE 16
Nothing == [hashes |-> 0, bins |-> 0, bits |-> 0, cells |-> <<>>]

StartupInit ==
  /\ conf \in [{"client", "server"} -> Confs]
  /\ turn = 1 /\ at = "conf"
  /\ N_threads = Default("setup_server") /\ N_HASH = 0 /\ MAX_BF_BIN_SIZE = 0 /\ N_BF_BITS = 0
  /\ BF = <<>> /\ inserted = {} /\ written = Nothing /\ bloomfilter_file = <<>>
  /\ line = 1 /\ n_hash = 0 /\ bf_idx = 0 /\ behind = -1

-----------------------------------------------------------------------------
file == conf[Host(program)]
(* The lines ReadConfAll takes as numbers; past the end a line is empty. *)
Takes(k) == k <= Len(file) /\ file[k] # NotNumber

ConfRead ==
  /\ at = "conf" /\ file # Missing
  /\ \A k \in 2 .. 6 : Takes(k)
  /\ N_threads' = file[2] /\ N_HASH' = file[2]
  /\ MAX_BF_BIN_SIZE' = file[5] /\ N_BF_BITS' = file[6]
  /\ at' = "init"
  /\ UNCHANGED <<conf, turn, BF, inserted, written, bloomfilter_file, reading>>

(* An exception nothing catches: the program ends. *)
ConfThrows ==
  /\ at = "conf" /\ file # Missing
  /\ \E k \in 2 .. 6 : ~Takes(k)
  /\ at' = "stopped"
  /\ UNCHANGED <<conf, turn, sizes, BF, inserted, written, bloomfilter_file, reading>>

(* No file: -1, which main does not look at; it runs on with the defaults,   *)
(* and with buffers of no size for its threads to write to.                  *)
ConfMissing ==
  /\ at = "conf" /\ file = Missing
  /\ at' = "init"
  /\ UNCHANGED <<conf, turn, sizes, BF, inserted, written, bloomfilter_file, reading>>

(* The programs whose main reads the filter after Sys_Init. *)
Readers == {"search_server", "search_client"}

(* Sys_Init, BloomFilter_Init: all cells zero. *)
SysInit ==
  /\ at = "init"
  /\ BF' = [k \in 0 .. N_HASH - 1 |-> [j \in 0 .. MAX_BF_BIN_SIZE - 1 |-> 0]]
  /\ at' = IF program \in Readers \cup {"setup_client"} THEN "filter" ELSE "ready"
  /\ behind' \in IF program \in Readers THEN Behinds ELSE {behind}
  /\ UNCHANGED <<conf, turn, sizes, inserted, written, bloomfilter_file, line, n_hash, bf_idx>>

-----------------------------------------------------------------------------
(* The leading bits of a digest (BFIdxConv). *)
Index(d, k, bits) == d[k] \div 2^(DigestBits - bits)

(* EDB_SetUp puts a pair's xtag into the filter: BloomFilter_Set. *)
BloomFilter_Set(d) ==
  /\ program = "setup_client" /\ at = "filter"
  /\ d \notin inserted /\ Cardinality(inserted) < MaxSet
  /\ IF \A k \in DOMAIN BF : Index(d, k, N_BF_BITS) \in DOMAIN BF[k]
     THEN /\ BF' = [k \in DOMAIN BF |-> [BF[k] EXCEPT ![Index(d, k, N_BF_BITS)] = 1]]
          /\ inserted' = inserted \cup {d}
          /\ UNCHANGED at
     ELSE /\ at' = "undefined"          \* a byte outside the array is set
          /\ UNCHANGED <<BF, inserted>>
  /\ UNCHANGED <<conf, turn, sizes, written, bloomfilter_file, reading>>

(* BloomFilter_WriteBFtoFile, send_file and receive_file: array by array.    *)
WriteBFtoFile ==
  /\ program = "setup_client" /\ at = "filter"
  /\ bloomfilter_file' = [l \in 1 .. N_HASH * MAX_BF_BIN_SIZE |->
                            BF[(l - 1) \div MAX_BF_BIN_SIZE][(l - 1) % MAX_BF_BIN_SIZE]]
  /\ written' = [hashes |-> N_HASH, bins |-> MAX_BF_BIN_SIZE, bits |-> N_BF_BITS, cells |-> BF]
  /\ at' = "ready"
  /\ UNCHANGED <<conf, turn, sizes, BF, inserted, reading>>

-----------------------------------------------------------------------------
(* The byte of a line whose two characters strtoul reads, and with them the  *)
(* digit that lies behind the two in memory.                                 *)
Byte(x) == IF behind = -1 THEN x ELSE (16 * x + behind) % 256

More == line <= Len(bloomfilter_file) /\ n_hash < N_HASH

(* Mutant of LastOfArray: one cell late. *)
LastOfArrayLate == bf_idx = MAX_BF_BIN_SIZE

LastOfArray == bf_idx + 1 = MAX_BF_BIN_SIZE

(* One turn of BloomFilter_ReadBFfromFile. *)
ReadLine ==
  /\ program \in Readers /\ at = "filter" /\ More
  /\ BF' = [BF EXCEPT ![n_hash][bf_idx] = Byte(bloomfilter_file[line])]
  /\ line' = line + 1
  /\ IF LastOfArray THEN n_hash' = n_hash + 1 /\ bf_idx' = 0
                    ELSE bf_idx' = bf_idx + 1 /\ UNCHANGED n_hash
  /\ UNCHANGED <<conf, turn, at, sizes, inserted, written, bloomfilter_file, behind>>

ReadDone ==
  /\ program \in Readers /\ at = "filter" /\ ~More
  /\ at' = "ready"
  /\ UNCHANGED <<conf, turn, sizes, BF, inserted, written, bloomfilter_file, reading>>

(* The program has done its work or has ended; the next one is started.      *)
NextProgram ==
  /\ at \in {"ready", "stopped"} /\ turn < Len(Programs)
  /\ turn' = turn + 1 /\ at' = "conf"
  /\ N_threads' = Default(Programs[turn + 1])
  /\ N_HASH' = 0 /\ MAX_BF_BIN_SIZE' = 0 /\ N_BF_BITS' = 0 /\ BF' = <<>>
  /\ line' = 1 /\ n_hash' = 0 /\ bf_idx' = 0 /\ behind' = -1
  /\ UNCHANGED <<conf, inserted, written, bloomfilter_file>>

StartupNext ==
  \/ ConfRead \/ ConfThrows \/ ConfMissing \/ SysInit
  \/ \E d \in Elements : BloomFilter_Set(d)
  \/ WriteBFtoFile \/ ReadLine \/ ReadDone \/ NextProgram
StartupSpec == StartupInit /\ [][StartupNext]_startupVars

-----------------------------------------------------------------------------
Match(cells, bits, d) == \A k \in DOMAIN cells : cells[k][Index(d, k, bits)] = 1

(* When the search server answers queries with the filter of a set-up whose  *)
(* arrays had the size of its own, it finds every document the set-up put in *)
(* as long as it does not test more arrays than the client's host has        *)
(* threads, and with as many it answers every test as the set-up's filter    *)
(* would: unless a digit behind temp joins the bytes it reads.               *)
FilterFaithful ==
  program = "search_server" /\ at = "ready" /\ behind = -1
  /\ written.bins = MAX_BF_BIN_SIZE /\ written.bits = N_BF_BITS /\ written.hashes > 0 =>
    /\ N_HASH <= written.hashes => \A d \in inserted : Match(BF, N_BF_BITS, d)
    /\ N_HASH = written.hashes =>
         \A d \in Elements :
           (\A k \in DOMAIN BF : Index(d, k, N_BF_BITS) \in DOMAIN BF[k])
           => (Match(BF, N_BF_BITS, d) <=> Match(written.cells, N_BF_BITS, d))
=============================================================================
