--------------------------- MODULE SearchSession ---------------------------
(***************************************************************************)
(* The search programs and the TCP connections between them.  The client   *)
(* opens one connection per query and walks EDB_Search with the server:    *)
(*                                                                         *)
(*      stag ->   <- row length n   n x (xtoken ->)   <- nmatch  <- ESET   *)
(*                                                                         *)
(* The server serves one connection at a time; others wait in its listen   *)
(* queue.  Neither side looks at what recv_all and send_all return: when   *)
(* the connection is gone a receive leaves the buffer as it was (or with   *)
(* part of the message) and the program goes on with it; a send is lost or *)
(* kills the sender (SIGPIPE).  Connections may be cut, either program may *)
(* die at any step and be started again.                                   *)
(*                                                                         *)
(* An entry of a row is <<query, position>>, and so is its token.  What    *)
(* TSet_Retrieve and the xtag test compute for the query is RowLen and     *)
(* Hits (modules TSet and CrossTags); for anything else they may compute   *)
(* anything.                                                               *)
(***************************************************************************)
EXTENDS Naturals, Sequences, SequencesExt

CONSTANTS NQueries,  \* the lines of the input file
          RowLen,    \* per query, the length of its first keyword's row
          Hits,      \* per query, the positions that pass the xtag test
          MaxRow,    \* the longest row
          MaxRuns,   \* bound of the model: times the client is started
          Zero,      \* a buffer cleared by memset
          Junk       \* what is left of a broken-off message, or of decrypting Zero

Queries == 1 .. NQueries
Conns   == 1 .. MaxRuns * NQueries

ASSUME QueriesAssumption == NQueries \in Nat \ {0} /\ MaxRuns \in Nat \ {0}
ASSUME BuffersAssumption == Zero \notin Queries
ASSUME RowsAssumption ==
  /\ MaxRow \in Nat \ {0}
  /\ RowLen \in [Queries -> 1 .. MaxRow]
  /\ \A q \in Queries : Hits[q] \subseteq 1 .. RowLen[q]

VARIABLES conn,      \* the connections
          nconn,     \* connections made so far
          runs,      \* client runs so far
          cpc, q, c_n, c_i, c_nmatch, c_eset,        \* the client's EDB_Search
          spc, s_conn, s_stag, s_n, s_i, s_xt, s_eset, \* the server's EDB_Search
          reported   \* res_id.csv: one entry per query written in this run

clientVars == <<cpc, q, c_n, c_i, c_nmatch, c_eset, runs, reported>>
serverVars == <<spc, s_conn, s_stag, s_n, s_i, s_xt, s_eset>>
vars == <<conn, nconn, clientVars, serverVars>>

(* The buffers of a side's EDB_Search before it has received anything. *)
ClientFrame == c_n = 0 /\ c_i = 0 /\ c_nmatch = 0 /\ c_eset = <<>>
ServerFrame == s_stag = Zero /\ s_n = 0 /\ s_i = 0 /\ s_xt = Zero /\ s_eset = <<>>

(* A connection: is the client's end open; is the server's end queued,      *)
(* open or closed; is the path cut; what is under way; and, for the         *)
(* properties, was it disturbed by a cut or a death.                        *)
Unused == [cl |-> FALSE, sv |-> "unused", cut |-> FALSE,
           c2s |-> <<>>, s2c |-> <<>>, disturbed |-> FALSE]

FreeClientFrame == c_n' = 0 /\ c_i' = 0 /\ c_nmatch' = 0 /\ c_eset' = <<>>
(* Mutant of FreeServerFrame: ESET survives the session. *)
FreeServerFrameKeepEset ==
  s_stag' = Zero /\ s_n' = 0 /\ s_i' = 0 /\ s_xt' = Zero /\ UNCHANGED s_eset

FreeServerFrame == s_stag' = Zero /\ s_n' = 0 /\ s_i' = 0 /\ s_xt' = Zero /\ s_eset' = <<>>

(* Closing an end drops what it has not read. *)
ClientEndClosed(r) == [r EXCEPT !.cl = FALSE, !.s2c = <<>>]
ServerEndClosed(r) == [r EXCEPT !.sv = "closed", !.c2s = <<>>]

GoneForClient(c) == conn[c].cut \/ conn[c].sv = "closed"
GoneForServer(c) == conn[c].cut \/ ~conn[c].cl

Entry(query, i) == <<query, i>>
Answer(query)   == {Entry(query, i) : i \in Hits[query]}

Init ==
  /\ conn = [c \in Conns |-> Unused]
  /\ nconn = 0
  /\ runs = 1
  /\ cpc = "connect" /\ q = 1 /\ ClientFrame
  /\ reported = <<>>
  /\ spc = "accept" /\ s_conn = 0 /\ ServerFrame

-----------------------------------------------------------------------------
(* send_all by the client: ends in the state next, or dead.                 *)
ClientSends(m, next) ==
  IF GoneForClient(nconn)
    THEN \/ cpc' = next /\ UNCHANGED conn
         \/ cpc' = "exited" /\ conn' = [conn EXCEPT ![nconn] = ClientEndClosed(@)]
    ELSE cpc' = next /\ conn' = [conn EXCEPT ![nconn].c2s = Append(@, m)]

ClientHears == conn[nconn].s2c # <<>>
ClientRecv  == conn' = [conn EXCEPT ![nconn].s2c = Tail(@)]

(* connect(); without a listening server the client exits.                  *)
Connect ==
  /\ cpc = "connect"
  /\ q <= NQueries
  /\ IF spc = "down"
       THEN cpc' = "exited" /\ UNCHANGED <<conn, nconn>>
       ELSE /\ cpc' = "stag"
            /\ nconn' = nconn + 1
            /\ conn' = [conn EXCEPT ![nconn'] = [Unused EXCEPT !.cl = TRUE, !.sv = "queued"]]
  /\ UNCHANGED <<q, c_n, c_i, c_nmatch, c_eset, runs, reported, serverVars>>

SendStag ==
  /\ cpc = "stag"
  /\ ClientSends([stag |-> q], "n")
  /\ UNCHANGED <<nconn, q, c_n, c_i, c_nmatch, c_eset, runs, reported, serverVars>>

(* n_ids_tset stays 0 when nothing arrives.                                 *)
RecvN ==
  /\ cpc = "n"
  /\ \/ ClientHears /\ ClientRecv /\ c_n' = Head(conn[nconn].s2c).n
     \/ ~ClientHears /\ GoneForClient(nconn) /\ UNCHANGED <<conn, c_n>>
  /\ cpc' = "tokens"
  /\ UNCHANGED <<nconn, q, c_i, c_nmatch, c_eset, runs, reported, serverVars>>

(* Mutant of SendToken: the counter of the first token is 0. *)
SendTokenFromZero ==
  /\ cpc = "tokens"
  /\ IF c_i < c_n
       THEN ClientSends([xtoken |-> Entry(q, c_i)], "tokens") /\ c_i' = c_i + 1
       ELSE cpc' = "count" /\ UNCHANGED <<conn, c_i>>
  /\ UNCHANGED <<nconn, q, c_n, c_nmatch, c_eset, runs, reported, serverVars>>

(* One turn of the token loop, or its end. *)
SendToken ==
  /\ cpc = "tokens"
  /\ IF c_i < c_n
       THEN ClientSends([xtoken |-> Entry(q, c_i + 1)], "tokens") /\ c_i' = c_i + 1
       ELSE cpc' = "count" /\ UNCHANGED <<conn, c_i>>
  /\ UNCHANGED <<nconn, q, c_n, c_nmatch, c_eset, runs, reported, serverVars>>

RecvCount ==
  /\ cpc = "count"
  /\ \/ ClientHears /\ ClientRecv /\ c_nmatch' = Head(conn[nconn].s2c).nmatch
     \/ ~ClientHears /\ GoneForClient(nconn) /\ UNCHANGED <<conn, c_nmatch>>
  /\ cpc' = "eset"
  /\ UNCHANGED <<nconn, q, c_n, c_i, c_eset, runs, reported, serverVars>>

RecvEset ==
  /\ cpc = "eset"
  /\ \/ ClientHears /\ ClientRecv /\ c_eset' = Head(conn[nconn].s2c).eset
     \/ ~ClientHears /\ GoneForClient(nconn) /\ UNCHANGED <<conn, c_eset>>
  /\ cpc' = "report"
  /\ UNCHANGED <<nconn, q, c_n, c_i, c_nmatch, runs, reported, serverVars>>

(* Decrypt nmatch entries of ESET, close, write the line, next query.       *)
Report ==
  /\ cpc = "report"
  /\ LET ids == {IF k <= Len(c_eset) THEN c_eset[k] ELSE Junk : k \in 1 .. c_nmatch}
     IN reported' = Append(reported, [query |-> q, over |-> nconn, ids |-> ids])
  /\ conn' = [conn EXCEPT ![nconn] = ClientEndClosed(@)]
  /\ q' = q + 1
  /\ cpc' = IF q = NQueries THEN "finished" ELSE "connect"
  /\ FreeClientFrame
  /\ UNCHANGED <<nconn, runs, serverVars>>

-----------------------------------------------------------------------------
Live(c) == conn[c].cl \/ conn[c].sv \in {"queued", "open"}

(* What arrives of the messages under way to the client when the server's   *)
(* end or the path is lost: the first of them; of a broken-off ESET, its    *)
(* beginning.                                                               *)
Remains(msgs) ==
  Prefixes(msgs) \cup
  UNION {IF "eset" \in DOMAIN msgs[k]
           THEN {Append(SubSeq(msgs, 1, k - 1), [eset |-> part]) :
                    part \in Prefixes(msgs[k].eset)}
           ELSE {} : k \in DOMAIN msgs}

(* The server process ends: its listening socket and all its ends close.    *)
ServerDies ==
  /\ spc' = "down"
  /\ conn' = [c \in Conns |->
                IF conn[c].sv \in {"queued", "open"}
                  THEN [ServerEndClosed(conn[c]) EXCEPT !.disturbed = TRUE]
                  ELSE conn[c]]

ServerSends(m, next) ==
  IF GoneForServer(s_conn)
    THEN \/ spc' = next /\ UNCHANGED conn
         \/ ServerDies
    ELSE spc' = next /\ conn' = [conn EXCEPT ![s_conn].s2c = Append(@, m)]

ServerHears == conn[s_conn].c2s # <<>>
ServerRecv  == conn' = [conn EXCEPT ![s_conn].c2s = Tail(@)]

(* accept() the oldest queued connection; EDB_Search begins with fresh      *)
(* buffers, all zero.                                                       *)
Accept ==
  /\ spc = "accept"
  /\ \E c \in Conns :
       /\ conn[c].sv = "queued"
       /\ \A d \in 1 .. c - 1 : conn[d].sv # "queued"
       /\ s_conn' = c
       /\ conn' = [conn EXCEPT ![c].sv = "open"]
  /\ spc' = "stag"
  /\ UNCHANGED <<nconn, s_stag, s_n, s_i, s_xt, s_eset, clientVars>>

(* Mutant of RecvStag: receive until there is something. *)
RecvStagRetry ==
  /\ spc = "stag"
  /\ ServerHears /\ ServerRecv /\ s_stag' = Head(conn[s_conn].c2s).stag
  /\ spc' = "retrieve"
  /\ UNCHANGED <<nconn, s_conn, s_n, s_i, s_xt, s_eset, clientVars>>

(* A failed receive leaves stag all zero. *)
RecvStag ==
  /\ spc = "stag"
  /\ \/ ServerHears /\ ServerRecv /\ s_stag' = Head(conn[s_conn].c2s).stag
     \/ ~ServerHears /\ GoneForServer(s_conn) /\ UNCHANGED <<conn, s_stag>>
  /\ spc' = "retrieve"
  /\ UNCHANGED <<nconn, s_conn, s_n, s_i, s_xt, s_eset, clientVars>>

(* TSet_Retrieve: for a stag nobody stored, a walk of any length.           *)
Retrieve ==
  /\ spc = "retrieve"
  /\ IF s_stag \in Queries THEN s_n' = RowLen[s_stag] ELSE s_n' \in 1 .. MaxRow
  /\ spc' = "n"
  /\ UNCHANGED <<conn, nconn, s_conn, s_stag, s_i, s_xt, s_eset, clientVars>>

(* Mutant of SendN: the row's length is not sent. *)
SendNoN ==
  /\ spc = "n"
  /\ spc' = "tokens"
  /\ UNCHANGED <<conn, nconn, s_conn, s_stag, s_n, s_i, s_xt, s_eset, clientVars>>

SendN ==
  /\ spc = "n"
  /\ ServerSends([n |-> s_n], "tokens")
  /\ UNCHANGED <<nconn, s_conn, s_stag, s_n, s_i, s_xt, s_eset, clientVars>>

(* Does the entry at the server's position pass?  A token of this entry is  *)
(* decided by the filter's contents, any other may pass by chance.          *)
Passes(stag, i, token) ==
  IF stag \in Queries /\ token = Entry(stag, i) THEN {i \in Hits[stag]} ELSE BOOLEAN

EntryId(stag, i) == IF stag \in Queries THEN Entry(stag, i) ELSE Junk

(* Mutant of TestEntry: one turn too many. *)
TestEntryOneMore ==
  /\ spc = "tokens"
  /\ s_i <= s_n
  /\ \/ ServerHears /\ ServerRecv /\ s_xt' = Head(conn[s_conn].c2s).xtoken
     \/ ~ServerHears /\ GoneForServer(s_conn) /\ UNCHANGED conn /\ s_xt' \in {s_xt, Junk}
  /\ UNCHANGED s_eset
  /\ s_i' = s_i + 1
  /\ UNCHANGED <<nconn, spc, s_conn, s_stag, s_n, clientVars>>

(* One turn of the loop over the row: receive a token, test, keep the id.   *)
(* A failed receive leaves the last token, or half of a new one.            *)
TestEntry ==
  /\ spc = "tokens"
  /\ s_i < s_n
  /\ \/ ServerHears /\ ServerRecv /\ s_xt' = Head(conn[s_conn].c2s).xtoken
     \/ ~ServerHears /\ GoneForServer(s_conn) /\ UNCHANGED conn /\ s_xt' \in {s_xt, Junk}
  /\ \E pass \in Passes(s_stag, s_i + 1, s_xt') :
       s_eset' = IF pass THEN Append(s_eset, EntryId(s_stag, s_i + 1)) ELSE s_eset
  /\ s_i' = s_i + 1
  /\ UNCHANGED <<nconn, spc, s_conn, s_stag, s_n, clientVars>>

(* Mutant of SendCount: the row's length goes out as the count of matches. *)
SendRowLength ==
  /\ spc = "tokens"
  /\ s_i = s_n
  /\ ServerSends([nmatch |-> s_n], "eset")
  /\ UNCHANGED <<nconn, s_conn, s_stag, s_n, s_i, s_xt, s_eset, clientVars>>

SendCount ==
  /\ spc = "tokens"
  /\ s_i = s_n
  /\ ServerSends([nmatch |-> Len(s_eset)], "eset")
  /\ UNCHANGED <<nconn, s_conn, s_stag, s_n, s_i, s_xt, s_eset, clientVars>>

SendEset ==
  /\ spc = "eset"
  /\ ServerSends([eset |-> s_eset], "close")
  /\ UNCHANGED <<nconn, s_conn, s_stag, s_n, s_i, s_xt, s_eset, clientVars>>

CloseConn ==
  /\ spc = "close"
  /\ conn' = [conn EXCEPT ![s_conn] = ServerEndClosed(@)]
  /\ spc' = "accept"
  /\ FreeServerFrame
  /\ UNCHANGED <<nconn, s_conn, clientVars>>


-----------------------------------------------------------------------------
(* The network, deaths and restarts.                                        *)

(* The path between the two ends is lost, with what is under way.           *)
Cut(c) ==
  /\ Live(c) /\ ~conn[c].cut
  /\ \E c2s \in Prefixes(conn[c].c2s), s2c \in Remains(conn[c].s2c) :
       conn' = [conn EXCEPT ![c].cut = TRUE, ![c].disturbed = TRUE,
                            ![c].c2s = c2s, ![c].s2c = s2c]
  /\ UNCHANGED <<nconn, clientVars, serverVars>>

ServerCrash ==
  /\ spc # "down"
  /\ ServerDies
  /\ UNCHANGED <<nconn, s_conn, s_stag, s_n, s_i, s_xt, s_eset, clientVars>>

RestartServer ==
  /\ spc = "down"
  /\ spc' = "accept"
  /\ FreeServerFrame
  /\ UNCHANGED <<conn, nconn, s_conn, clientVars>>

ClientCrash ==
  /\ cpc \notin {"connect", "exited", "finished"}
  /\ cpc' = "exited"
  /\ \E c2s \in Prefixes(conn[nconn].c2s) :
       conn' = [conn EXCEPT ![nconn] = [ClientEndClosed(@) EXCEPT !.c2s = c2s,
                                                                  !.disturbed = TRUE]]
  /\ UNCHANGED <<nconn, q, c_n, c_i, c_nmatch, c_eset, runs, reported, serverVars>>

(* The client starts over: its result files are truncated.                  *)
RestartClient ==
  /\ cpc \in {"exited", "finished"}
  /\ runs < MaxRuns
  /\ runs' = runs + 1
  /\ cpc' = "connect" /\ q' = 1 /\ reported' = <<>> /\ FreeClientFrame
  /\ UNCHANGED <<conn, nconn, serverVars>>

-----------------------------------------------------------------------------
ClientStep == \/ Connect \/ SendStag \/ RecvN \/ SendToken \/ RecvCount
              \/ RecvEset \/ Report
ServerStep == \/ Accept \/ RecvStag \/ Retrieve \/ SendN \/ TestEntry
              \/ SendCount \/ SendEset \/ CloseConn
Failure    == \/ \E c \in Conns : Cut(c)
              \/ ServerCrash \/ RestartServer \/ ClientCrash \/ RestartClient

Next == ClientStep \/ ServerStep \/ Failure

Spec == Init /\ [][Next]_vars

(* Both processes run on; cuts, deaths and restarts are nobody's duty.      *)
FairSpec == Spec /\ WF_vars(ClientStep) /\ WF_vars(ServerStep)

-----------------------------------------------------------------------------
EntryIds == {Entry(query, i) : query \in Queries, i \in 1 .. MaxRow} \cup {Junk}
ToClient == [n : 1 .. MaxRow] \cup [nmatch : 0 .. MaxRow] \cup [eset : Seq(EntryIds)]
ToServer == [stag : Queries] \cup [xtoken : EntryIds]
Connections == [cl : BOOLEAN, sv : {"unused", "queued", "open", "closed"}, cut : BOOLEAN,
                c2s : Seq(ToServer), s2c : Seq(ToClient), disturbed : BOOLEAN]

(* Type invariant of the connections and of both EDB_Search frames. *)
TypeOK ==
  /\ conn \in [Conns -> Connections]
  /\ nconn \in 0 .. MaxRuns * NQueries /\ runs \in 1 .. MaxRuns
  /\ cpc \in {"connect", "stag", "n", "tokens", "count", "eset", "report", "exited", "finished"}
  /\ q \in 1 .. NQueries + 1 /\ c_n \in 0 .. MaxRow /\ c_i \in 0 .. MaxRow
  /\ c_nmatch \in 0 .. MaxRow /\ c_eset \in Seq(EntryIds)
  /\ spc \in {"accept", "stag", "retrieve", "n", "tokens", "eset", "close", "down"}
  /\ s_conn \in Conns \cup {0} /\ s_stag \in Queries \cup {Zero}
  /\ s_n \in 0 .. MaxRow /\ s_i \in 0 .. s_n
  /\ s_xt \in EntryIds \cup {Zero} /\ s_eset \in Seq(EntryIds)

Own(query) == {Entry(query, i) : i \in 1 .. MaxRow} \cup {Junk}

(* Even over a disturbed connection no other query's documents are reported: *)
(* what an older session left in buffers or channels does not leak into it.  *)
NoForeignIds ==
  \A k \in DOMAIN reported : reported[k].ids \subseteq Own(reported[k].query)

(* The lines a run writes are the queries' in their order, exact wherever    *)
(* nothing disturbed the query, and its own run's only: the two programs,    *)
(* their connections and their failures implement the search of SearchCall.  *)
Asking  == cpc \in {"stag", "n", "tokens", "count", "eset", "report"}
Hurt    == Asking /\ conn[nconn].disturbed
Phase   == IF Asking THEN "asking" ELSE IF cpc = "connect" THEN "idle" ELSE "over"
Line(r) == [query |-> r.query, ids |-> r.ids]
Lines   == [k \in DOMAIN reported |-> Line(reported[k])]

Search == INSTANCE SearchCall WITH
  Exact <- [query \in Queries |-> Answer(query)],
  Possible <- [query \in Queries |-> Own(query)],
  phase <- Phase, lines <- Lines, hurt <- Hurt

SearchSpec == Search!Spec

(* On an undisturbed connection the two loops run in step: the server never  *)
(* tests an entry with another entry's token.                                *)
TokensInStep ==
  [][s_i' = s_i + 1 /\ ~conn[s_conn].disturbed => s_xt' = Entry(s_stag, s_i')]_vars

(* A query, once begun, ends: the client never waits for ever for a server   *)
(* that has gone or waits for the client.                                    *)
QueryEnds == (cpc = "stag") ~> (cpc \in {"connect", "exited", "finished"})

(* The server gets back to accept (or dies) whatever its client does, so the *)
(* next client in the queue is served.                                       *)
ServerReturns == (spc = "stag") ~> (spc \in {"accept", "down"})

(* Every line written to the results is the query's answer. *)
ReportedExact == \A k \in DOMAIN reported : reported[k].ids = Answer(reported[k].query)
=============================================================================
