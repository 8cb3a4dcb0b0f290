---------------------------- MODULE SetupSession ----------------------------
(***************************************************************************)
(* The set-up programs.  One run of the client sends one database to one   *)
(* run of the server, which accepts one connection and ends after it:      *)
(*                                                                         *)
(*    n_rows, per row: n_row_ids, (key, value) ..., then file size, file   *)
(*                                                                         *)
(* redis and bloomfilter.dat outlive the server's runs; the search server  *)
(* uses whatever they hold.  The server's row loops ignore what recv_all   *)
(* returns: when the connection is gone they go on to the end with what    *)
(* the variables held, and set redis entries from it.  receive_file does   *)
(* notice, but main does not look at what it returns.                      *)
(*                                                                         *)
(* The server ends by releasing its worker threads (module ThreadPool).    *)
(* They never had a call, so a worker is still on its way to its first     *)
(* wait, or waits; what the release makes of that is modelled here.        *)
(*                                                                         *)
(* Keys and values are those of module TSet: a key names a row and a       *)
(* position, a value also the database it is from.                         *)
(***************************************************************************)
EXTENDS Naturals, Sequences, SequencesExt

CONSTANTS Shapes,       \* per database, its rows' lengths
          MaxRowIds,    \* the longest of them
          Workers,      \* the server's N_threads workers
          None,         \* no bloomfilter.dat
          Torn,         \* a bloomfilter.dat opened and not written
          Junk          \* bytes nobody sent as a whole

Versions == DOMAIN Shapes   \* the database of the client's v-th run

ASSUME ShapesAssumption ==
  /\ MaxRowIds \in Nat /\ Shapes \in Seq(Seq(1 .. MaxRowIds))
  /\ {None, Torn, Junk} \cap Nat = {}

VARIABLES run,       \* how often the programs were started
          redis, bloom,                     \* what the server machine keeps
          cpc, cmsg,                        \* the client; the message it sends next
          chan, closed, disturbed,          \* the connection
          spc, n_rows, n_row_ids, n, i,     \* the server's TSet_SetUp
          db_in_key, db_in_val,             \* its buffers, or the stack under them
          worker,    \* where each of its workers is
          announced, \* main has printed that the filter was received and saved
          touched    \* the last run that has set an entry

serverLocals == <<n_rows, n_row_ids, n, i, db_in_key, db_in_val>>
vars == <<run, redis, bloom, cpc, cmsg, chan, closed, disturbed, spc, serverLocals,
          worker, announced, touched>>

Key(r, p)    == <<r, p>>
Val(v, r, p) == <<v, r, p>>
Positions(v) == {k \in (1 .. Len(Shapes[v])) \X (1 .. MaxRowIds) : k[2] <= Shapes[v][k[1]]}
Entries(v)   == [k \in Positions(v) |-> Val(v, k[1], k[2])]

(* A message is named by what it is, and the row and the entry it is of.    *)
Message(what, r, p) == <<what, r, p>>
Rows  == Message("rows", 0, 0)
Size  == Message("size", 0, 0)
File  == Message("file", 0, 0)
Done  == Message("done", 0, 0)   \* nothing more
Piece == Message("piece", 0, 0)  \* not all of a message's bytes
Messages == {"rows", "count", "key", "val", "size", "file"} \X Nat \X Nat

(* The loops of the client's TSet_SetUp, then send_file: what comes next.    *)
RowFrom(v, r)     == IF r <= Len(Shapes[v]) THEN Message("count", r, 0) ELSE Size
PairFrom(v, r, p) == IF p <= Shapes[v][r] THEN Message("key", r, p) ELSE RowFrom(v, r + 1)
After(v, m) ==
  CASE m[1] = "rows"  -> RowFrom(v, 1)
    [] m[1] = "count" -> PairFrom(v, m[2], 1)
    [] m[1] = "key"   -> Message("val", m[2], m[3])
    [] m[1] = "val"   -> PairFrom(v, m[2], m[3] + 1)
    [] m[1] = "size"  -> File
    [] OTHER          -> Done

(* The bytes of a message of database v. *)
Carries(v, m) ==
  CASE m[1] = "rows"  -> Len(Shapes[v])
    [] m[1] = "count" -> Shapes[v][m[2]]
    [] m[1] = "key"   -> Key(m[2], m[3])
    [] m[1] = "val"   -> Val(v, m[2], m[3])
    [] OTHER          -> v

(* What arrives of the messages under way when the connection breaks: the   *)
(* first of them, and perhaps a piece of the next.                          *)
Remains(msgs) == Prefixes(msgs) \cup {Append(m, Piece) : m \in Prefixes(msgs)}

Hears  == chan # <<>> /\ Head(chan) # Piece
Recv   == Hears /\ chan' = Tail(chan)
Bytes  == Carries(run, Head(chan))
(* recv_all returns 0 or -1, with a piece in the buffer or nothing.         *)
Broken == closed /\ ~Hears /\ chan' = <<>>

Init ==
  /\ run = 0
  /\ redis = [k \in {} |-> Junk] /\ bloom = None
  /\ cpc = "off" /\ cmsg = Done
  /\ chan = <<>> /\ closed = TRUE /\ disturbed = FALSE
  /\ spc = "down" /\ n_rows = 0 /\ n_row_ids = 0 /\ n = 0 /\ i = 0
  /\ db_in_key = Junk /\ db_in_val = Junk
  /\ worker = [w \in Workers |-> "starting"]
  /\ announced = FALSE /\ touched = 0

-----------------------------------------------------------------------------
(* The operator starts the server, then the client; they connect, and the    *)
(* server's SetUpThreads starts its workers.                                *)
StartRun ==
  /\ spc = "down" /\ cpc = "off"
  /\ run < Len(Shapes)
  /\ run' = run + 1
  /\ cpc' = "sending" /\ cmsg' = Rows
  /\ chan' = <<>> /\ closed' = FALSE /\ disturbed' = FALSE
  /\ spc' = "rows" /\ n_rows' = 0 /\ n_row_ids' = 0 /\ n' = 0 /\ i' = 0
  /\ db_in_key' = Junk /\ db_in_val' = Junk
  /\ worker' = [w \in Workers |-> "starting"]
  /\ announced' = FALSE
  /\ UNCHANGED <<redis, bloom, touched>>

(* send_all: into the connection, or, when that is gone, into nothing or to *)
(* the client's death (SIGPIPE).                                            *)
ClientSend ==
  /\ cpc = "sending" /\ cmsg # Done
  /\ \/ ~closed /\ chan' = Append(chan, cmsg) /\ cmsg' = After(run, cmsg) /\ UNCHANGED cpc
     \/ closed /\ cmsg' = After(run, cmsg) /\ UNCHANGED <<chan, cpc>>
     \/ closed /\ cpc' = "off" /\ cmsg' = Done /\ UNCHANGED chan
  /\ UNCHANGED <<run, redis, bloom, closed, disturbed, spc, serverLocals, worker, announced,
                 touched>>

(* The client's own Sys_Clear comes first, and may keep it for ever.        *)
ClientCloses ==
  /\ cpc = "sending" /\ cmsg = Done
  /\ cpc' = "off" /\ closed' = TRUE
  /\ UNCHANGED <<run, redis, bloom, cmsg, chan, disturbed, spc, serverLocals, worker, announced,
                 touched>>

-----------------------------------------------------------------------------
serverRest == <<run, cpc, cmsg, closed, disturbed, worker>>

(* Mutant of RecvRows: wait for the number. *)
RecvRowsRetry ==
  /\ spc = "rows"
  /\ Recv /\ n_rows' = Bytes
  /\ n' = 0
  /\ spc' = "row"
  /\ UNCHANGED <<serverRest, redis, bloom, n_row_ids, i, db_in_key, db_in_val, announced, touched>>

(* A piece of a number has its low bytes only. *)
RecvRows ==
  /\ spc = "rows"
  /\ \/ Recv /\ n_rows' = Bytes
     \/ Broken /\ n_rows' \in IF chan = <<>> THEN {n_rows} ELSE 0 .. Len(Shapes[run])
  /\ n' = 0
  /\ spc' = "row"
  /\ UNCHANGED <<serverRest, redis, bloom, n_row_ids, i, db_in_key, db_in_val, announced, touched>>

(* Mutant of RecvCount: i goes on from the last row. *)
RecvCountKeepI ==
  /\ spc = "row"
  /\ n < n_rows
  /\ \/ Recv /\ n_row_ids' = Bytes
     \/ Broken /\ n_row_ids' \in IF chan = <<>> THEN {n_row_ids} ELSE 0 .. MaxRowIds
  /\ spc' = "pair"
  /\ UNCHANGED <<serverRest, redis, bloom, n_rows, n, i, db_in_key, db_in_val, announced, touched>>

(* A piece of the number mixes with what the last row's number left.        *)
RecvCount ==
  /\ spc = "row"
  /\ n < n_rows
  /\ \/ Recv /\ n_row_ids' = Bytes
     \/ Broken /\ n_row_ids' \in IF chan = <<>> THEN {n_row_ids} ELSE 0 .. MaxRowIds
  /\ i' = 0
  /\ spc' = "pair"
  /\ UNCHANGED <<serverRest, redis, bloom, n_rows, n, db_in_key, db_in_val, announced, touched>>

(* The buffers are new, uninitialised variables for every entry: without a  *)
(* message they hold the last entry's bytes or others.                      *)
RecvKey ==
  /\ spc = "pair"
  /\ i < n_row_ids
  /\ \/ Recv /\ db_in_key' = Bytes
     \/ Broken /\ db_in_key' \in {db_in_key, Junk}
  /\ spc' = "val"
  /\ UNCHANGED <<serverRest, redis, bloom, n_rows, n_row_ids, n, i, db_in_val, announced, touched>>

Put(db, k, v) == [key \in DOMAIN db \cup {k} |-> IF key = k THEN v ELSE db[key]]

(* Mutant of RecvVal: the entry is set before its value is there. *)
RecvValLate ==
  /\ spc = "val"
  /\ \/ Recv /\ db_in_val' = Bytes
     \/ Broken /\ db_in_val' \in {db_in_val, Junk}
  /\ redis' = Put(redis, db_in_key, db_in_val)
  /\ touched' = run
  /\ i' = i + 1
  /\ spc' = "pair"
  /\ UNCHANGED <<serverRest, bloom, n_rows, n_row_ids, n, db_in_key, announced>>

RecvVal ==
  /\ spc = "val"
  /\ \/ Recv /\ db_in_val' = Bytes
     \/ Broken /\ db_in_val' \in {db_in_val, Junk}
  /\ redis' = Put(redis, db_in_key, db_in_val')
  /\ touched' = run
  /\ i' = i + 1
  /\ spc' = "pair"
  /\ UNCHANGED <<serverRest, bloom, n_rows, n_row_ids, n, db_in_key, announced>>

EndRow ==
  /\ spc = "pair"
  /\ i >= n_row_ids
  /\ n' = n + 1
  /\ spc' = "row"
  /\ UNCHANGED <<serverRest, redis, bloom, chan, n_rows, n_row_ids, i, db_in_key, db_in_val,
                 announced, touched>>

EndRows ==
  /\ spc = "row"
  /\ n >= n_rows
  /\ spc' = "size"
  /\ UNCHANGED <<serverRest, redis, bloom, chan, serverLocals, announced, touched>>

(* receive_file returns -1 when size or data do not arrive whole.           *)
RecvSize ==
  /\ spc = "size"
  /\ \/ Recv /\ spc' = "data"
     \/ Broken /\ spc' = "received"
  /\ UNCHANGED <<serverRest, redis, bloom, serverLocals, announced, touched>>

RecvData ==
  /\ spc = "data"
  /\ \/ Recv /\ spc' = "open"
     \/ Broken /\ spc' = "received"
  /\ UNCHANGED <<serverRest, redis, bloom, serverLocals, announced, touched>>

(* Opening the file empties it. *)
OpenFile ==
  /\ spc = "open"
  /\ spc' = "write" /\ bloom' = Torn
  /\ UNCHANGED <<serverRest, redis, chan, serverLocals, announced, touched>>

(* Mutant of WriteFile: nothing is written. *)
WriteFileNot ==
  /\ spc = "write"
  /\ spc' = "received"
  /\ UNCHANGED <<serverRest, redis, bloom, chan, serverLocals, announced, touched>>

WriteFile ==
  /\ spc = "write"
  /\ spc' = "received" /\ bloom' = run
  /\ UNCHANGED <<serverRest, redis, chan, serverLocals, announced, touched>>

(* "[SERVER] Bloom filter received and saved".                              *)
Announce ==
  /\ spc = "received"
  /\ spc' = "clear" /\ announced' = TRUE
  /\ UNCHANGED <<serverRest, redis, bloom, chan, serverLocals, touched>>

(* Sys_Clear: ReleaseThreads sets processed and publishes a round.          *)
ReleaseThreads ==
  /\ spc = "clear"
  /\ spc' = "release"
  /\ UNCHANGED <<serverRest, redis, bloom, chan, serverLocals, announced, touched>>

(* It waits until nWorkerCount, the workers that have not counted down, is  *)
(* 0, and joins them; main closes the connection and returns.               *)
EndServer ==
  /\ spc = "release"
  /\ \A w \in Workers : worker[w] = "counted"
  /\ spc' = "down" /\ closed' = TRUE /\ chan' = <<>>
  /\ UNCHANGED <<run, redis, bloom, cpc, cmsg, disturbed, serverLocals, worker, announced, touched>>

-----------------------------------------------------------------------------
processed  == spc = "release"
workerRest == <<run, redis, bloom, cpc, cmsg, chan, closed, disturbed, spc, serverLocals,
                announced, touched>>

(* WorkerThread's first test of processed, behind its connection to redis:  *)
(* it goes on to wait for the first round, or comes too late and leaves.    *)
CheckProcessed(w) ==
  /\ spc # "down" /\ worker[w] = "starting"
  /\ worker' = [worker EXCEPT ![w] = IF processed THEN "late" ELSE "waiting"]
  /\ UNCHANGED workerRest

(* The first round is that of the release; after it the worker leaves.      *)
CountDown(w) ==
  /\ processed /\ worker[w] = "waiting"
  /\ worker' = [worker EXCEPT ![w] = "counted"]
  /\ UNCHANGED workerRest

-----------------------------------------------------------------------------
(* The connection breaks; a program dies.                                   *)
Cut ==
  /\ ~closed /\ spc # "down"
  /\ closed' = TRUE /\ disturbed' = TRUE
  /\ chan' \in Remains(chan)
  /\ UNCHANGED <<run, redis, bloom, cpc, cmsg, spc, serverLocals, worker, announced, touched>>

ClientDies ==
  /\ cpc = "sending"
  /\ cpc' = "off" /\ cmsg' = Done
  /\ disturbed' = TRUE
  /\ IF closed THEN UNCHANGED <<chan, closed>> ELSE closed' = TRUE /\ chan' \in Remains(chan)
  /\ UNCHANGED <<run, redis, bloom, spc, serverLocals, worker, announced, touched>>

ServerDies ==
  /\ spc # "down"
  /\ spc' = "down"
  /\ closed' = TRUE /\ chan' = <<>> /\ disturbed' = TRUE
  /\ UNCHANGED <<run, redis, bloom, cpc, cmsg, serverLocals, worker, announced, touched>>

Client == ClientSend \/ ClientCloses
Server ==
  \/ RecvRows \/ RecvCount \/ RecvKey \/ RecvVal \/ EndRow \/ EndRows
  \/ RecvSize \/ RecvData \/ OpenFile \/ WriteFile \/ Announce
  \/ ReleaseThreads \/ EndServer
WorkerThread(w) == CheckProcessed(w) \/ CountDown(w)
Next ==
  \/ StartRun \/ Client \/ Server \/ Cut \/ ClientDies \/ ServerDies
  \/ \E w \in Workers : WorkerThread(w)

Spec == Init /\ [][Next]_vars

(* Programs that have not died go on.  The client only as far as its last   *)
(* message: it closes behind a release of its own workers, which may last   *)
(* for ever.                                                                *)
FairSpec ==
  /\ Spec /\ WF_vars(ClientSend) /\ WF_vars(Server)
  /\ \A w \in Workers : WF_vars(WorkerThread(w))

-----------------------------------------------------------------------------
(* The server is done with receive_file, or is not there.                   *)
AfterFile == {"received", "clear", "release", "down"}

(* Type invariant of the connection and of the server's TSet_SetUp.        *)
TypeOK ==
  /\ run \in 0 .. Len(Shapes) /\ touched \in 0 .. run
  /\ bloom \in Versions \cup {None, Torn}
  /\ cpc \in {"off", "sending"}
  /\ spc \in {"down", "rows", "row", "pair", "val", "size", "data", "open", "write"} \cup AfterFile
  /\ worker \in [Workers -> {"starting", "waiting", "counted", "late"}]
  /\ closed \in BOOLEAN /\ disturbed \in BOOLEAN /\ announced \in BOOLEAN
  /\ cmsg \in Messages \cup {Done} /\ chan \in Seq(Messages \cup {Piece})
  /\ n_rows \in Nat /\ n \in 0 .. n_rows
  /\ n_row_ids \in 0 .. MaxRowIds
  /\ spc \in {"pair", "val"} => i \in 0 .. n_row_ids

(* Undisturbed, whatever earlier runs left and whether or not its release   *)
(* ends, a run has left each entry of its database in redis with this run's *)
(* value, and the file is this run's filter.                                *)
CleanRunExact ==
  spc \in AfterFile /\ run > 0 /\ ~disturbed =>
    /\ \A k \in Positions(run) : k \in DOMAIN redis /\ redis[k] = Entries(run)[k]
    /\ bloom = run

(* The file is written last: as long as no later run has set an entry, the  *)
(* filter on disk belongs to the entries in redis, all of them, even when   *)
(* the run that wrote it or a later one was broken off.                     *)
FilterImpliesIndex ==
  bloom \in Versions /\ touched <= bloom =>
    \A k \in Positions(bloom) : k \in DOMAIN redis /\ redis[k] = Entries(bloom)[k]

(* Whatever becomes of the client, the server's run ends, unless one of its *)
(* workers came to its first test of processed only after Sys_Clear had set *)
(* it: that worker leaves without counting down, and the release waits.     *)
ServerEnds == spc # "down" ~> spc = "down" \/ \E w \in Workers : worker[w] = "late"

(* sse_setup_server.cpp:269 announces that the filter was received and      *)
(* saved.  The code announces it whatever receive_file returned.            *)
SavedAsAnnounced == announced => bloom = run
=============================================================================
