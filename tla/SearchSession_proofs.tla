-------------------------- MODULE SearchSession_proofs --------------------------
(***************************************************************************)
(* The two EDB_Search programs, for any number of queries, runs and        *)
(* documents, and whatever is cut, dies and is started again.  Every       *)
(* connection belongs to one query: what is under way on it is the next of *)
(* what that query's client sends and of what its server answers.  While   *)
(* nothing has disturbed it, nothing of either is missing.                 *)
(***************************************************************************)
EXTENDS SearchSession, SequenceTheorems, TLAPS

(* Who is at the two ends of connection c. *)
ClientOn(c) == c = nconn /\ cpc \in {"stag", "n", "tokens", "count", "eset", "report"}
ServerOn(c) == c = s_conn /\ spc \in {"stag", "retrieve", "n", "tokens", "eset", "close"}

(* The messages of a query's session in their order, and what the server's  *)
(* may be when its connection was disturbed.                                *)
ClientMsg(query, k)     == IF k = 1 THEN [stag |-> query] ELSE [xtoken |-> Entry(query, k - 1)]
ServerMsg(query, e, k)  == CASE k = 1 -> [n |-> RowLen[query]]
                             [] k = 2 -> [nmatch |-> Len(e)]
                             [] OTHER -> [eset |-> e]
ServerMsgs(query, k)    == CASE k = 1 -> [n : 1 .. MaxRow]
                             [] k = 2 -> [nmatch : 0 .. MaxRow]
                             [] k = 3 -> [eset : Seq(Own(query))]
                             [] OTHER -> {}

(* How many of them each end has sent and received, or gone on without. *)
Sent(c, query) ==
  IF ClientOn(c) THEN IF cpc = "stag" THEN 0 ELSE 1 + c_i ELSE 1 + RowLen[query]
Heard(c) ==
  IF ClientOn(c) THEN CASE cpc \in {"stag", "n"}       -> 0
                        [] cpc \in {"tokens", "count"} -> 1
                        [] cpc = "eset"                -> 2
                        [] OTHER                       -> 3
  ELSE 3
Taken(c, query) ==
  IF ServerOn(c) THEN IF spc = "stag" THEN 0 ELSE 1 + s_i
  ELSE IF conn[c].sv = "queued" THEN 0 ELSE 1 + RowLen[query]
Given(c) ==
  IF ServerOn(c) THEN CASE spc \in {"stag", "retrieve", "n"} -> 0
                        [] spc = "tokens"                    -> 1
                        [] spc = "eset"                      -> 2
                        [] OTHER                             -> 3
  ELSE IF conn[c].sv = "queued" THEN 0 ELSE 3

Found(query, upto) == {Entry(query, i) : i \in {j \in Hits[query] : j <= upto}}

(* What holds of connection c, which is of this query, even if disturbed. *)
OfQuery(c, query) ==
  /\ ClientOn(c) => query = q /\ c_eset \in Seq(Own(query))
  /\ ServerOn(c) => s_stag \in {Zero, query} /\ s_eset \in Seq(Own(query))
  /\ \A k \in 1 .. Len(conn[c].c2s) : conn[c].c2s[k] = ClientMsg(query, Taken(c, query) + k)
  /\ \A k \in 1 .. Len(conn[c].s2c) : conn[c].s2c[k] \in ServerMsgs(query, Heard(c) + k)

ServerKnows(query, e) ==
  /\ spc # "stag" => s_stag = query
  /\ spc \in {"n", "tokens", "eset", "close"} => s_n = RowLen[query]
  /\ Range(s_eset) = Found(query, s_i)
  /\ spc \in {"eset", "close"} => s_eset = e

ClientKnows(query, e) ==
  /\ cpc \in {"tokens", "count", "eset", "report"} => c_n = RowLen[query]
  /\ cpc \in {"eset", "report"} => c_nmatch = Len(e)
  /\ cpc = "report" => c_eset = e

(* And while it is not: e is the ESET, once the server has all of it. *)
InStep(c, query, e) ==
  /\ Len(conn[c].c2s) = Sent(c, query) - Taken(c, query)
  /\ Len(conn[c].s2c) = Given(c) - Heard(c)
  /\ \A k \in 1 .. Len(conn[c].s2c) : conn[c].s2c[k] = ServerMsg(query, e, Heard(c) + k)
  /\ Given(c) >= 2 => Range(e) = Answer(query)
  /\ ServerOn(c) => ServerKnows(query, e)
  /\ ClientOn(c) => ClientKnows(query, e)

Talk(c, query, e) == OfQuery(c, query) /\ (~conn[c].disturbed => InStep(c, query, e))
TalkOK(c) == \E query \in Queries : \E e \in Seq(Own(query)) : Talk(c, query, e)

LinkOK(c) ==
  /\ conn[c].cl <=> ClientOn(c)
  /\ conn[c].sv = "open" <=> ServerOn(c)
  /\ conn[c].sv = "unused" <=> c > nconn
  /\ conn[c].sv = "closed" => conn[c].c2s = <<>>
  /\ ~conn[c].cl => conn[c].s2c = <<>>
  /\ conn[c].cut => conn[c].disturbed
  /\ conn[c].disturbed => conn[c].cut \/ conn[c].sv = "closed" \/ ~conn[c].cl

ClientOK ==
  /\ cpc \notin {"finished", "exited"} => q \in Queries
  /\ cpc \in {"connect", "stag", "n"} => c_i = 0 /\ c_n = 0
  /\ cpc \in {"connect", "stag"} => c_eset = <<>> /\ c_nmatch = 0
  /\ c_i <= c_n
  /\ cpc \in {"count", "eset", "report"} => c_i = c_n
  /\ cpc \in {"n", "tokens", "count", "eset"} => c_eset = <<>>
  /\ cpc = "connect" => nconn <= (runs - 1) * NQueries + q - 1
  /\ cpc \in {"stag", "n", "tokens", "count", "eset", "report"} =>
       nconn >= 1 /\ nconn <= (runs - 1) * NQueries + q
  /\ cpc \in {"exited", "finished"} => nconn <= runs * NQueries

ServerOK ==
  /\ spc \in {"accept", "stag"} => s_stag = Zero /\ s_n = 0
  /\ spc \in {"accept", "stag", "retrieve", "n"} => s_i = 0 /\ s_eset = <<>>
  /\ spc \in {"n", "tokens", "eset", "close"} => s_n >= 1
  /\ spc \in {"eset", "close"} => s_i = s_n
  /\ Len(s_eset) <= s_i
  /\ spc \notin {"accept", "down"} => s_conn \in 1 .. nconn

(* A query whose connection was never disturbed is answered exactly, also    *)
(* right after a query, a client or a server that broke off.                 *)
UndisturbedExact ==
  \A k \in DOMAIN reported :
     ~conn[reported[k].over].disturbed => reported[k].ids = Answer(reported[k].query)

ReportOK ==
  /\ reported \in Seq([query : Queries, over : 1 .. nconn, ids : SUBSET EntryIds])
  /\ \A k \in DOMAIN reported : reported[k].ids \subseteq Own(reported[k].query)
  /\ UndisturbedExact

SearchInv ==
  /\ TypeOK /\ ClientOK /\ ServerOK
  /\ \A c \in Conns : LinkOK(c)
  /\ \A c \in 1 .. nconn : TalkOK(c)
  /\ ReportOK

-----------------------------------------------------------------------------
(* The connections there are. *)
LEMMA Numbers ==
  /\ NQueries \in Nat /\ NQueries >= 1 /\ MaxRuns \in Nat /\ MaxRuns >= 1
  /\ MaxRow \in Nat /\ MaxRow >= 1
  /\ \A query \in Queries : /\ RowLen[query] \in Nat /\ RowLen[query] \in 1 .. MaxRow
                            /\ Hits[query] \subseteq 1 .. RowLen[query]
  BY QueriesAssumption, RowsAssumption

LEMMA RunsBound ==
  ASSUME NEW r \in 1 .. MaxRuns
  PROVE  /\ r * NQueries \in Nat /\ (r - 1) * NQueries \in Nat
         /\ r * NQueries = (r - 1) * NQueries + NQueries
         /\ r * NQueries <= MaxRuns * NQueries /\ MaxRuns * NQueries \in Nat
<1>1. r \in Nat /\ r - 1 \in Nat /\ r >= 1 /\ r <= MaxRuns /\ MaxRuns \in Nat /\ NQueries \in Nat
  BY Numbers
<1>2. r * NQueries \in Nat /\ (r - 1) * NQueries \in Nat /\ MaxRuns * NQueries \in Nat
  BY <1>1
<1>3. r * NQueries = (r - 1) * NQueries + NQueries
  BY <1>1
<1>4. PICK d \in Nat : MaxRuns = r + d
  <2>1. MaxRuns - r \in Nat /\ MaxRuns = r + (MaxRuns - r)
    BY <1>1
  <2> QED
    BY <2>1
<1>5. MaxRuns * NQueries = r * NQueries + d * NQueries /\ d * NQueries \in Nat
  BY <1>1, <1>4
<1> QED
  BY <1>2, <1>3, <1>5

(* Where the counter of connections may stand during the r-th run.          *)
LEMMA RunsCounter ==
  ASSUME NEW r \in 1 .. MaxRuns, NEW k \in Queries
  PROVE  \E a, z \in Nat : /\ (r - 1) * NQueries = a /\ r * NQueries = a + NQueries
                           /\ MaxRuns * NQueries = z /\ a + NQueries <= z
                           /\ k \in Nat /\ 1 <= k /\ k <= NQueries /\ NQueries \in Nat
                           /\ Conns = 1 .. z
<1>1. PICK a, z \in Nat : (r - 1) * NQueries = a /\ MaxRuns * NQueries = z
  BY RunsBound
<1>2. r * NQueries = a + NQueries /\ a + NQueries <= z
  BY <1>1, RunsBound
<1> QED
  BY <1>1, <1>2, Numbers DEF Queries, Conns

LEMMA ConnsType ==
  ASSUME TypeOK
  PROVE  nconn \in Nat /\ nconn + 1 \in Nat /\ 1 .. nconn \subseteq Conns /\ Conns \subseteq Nat
<1>1. MaxRuns * NQueries \in Nat
  BY RunsBound, Numbers
<1> QED
  BY <1>1 DEF TypeOK, Conns

(* What the invariant says, and the ranges a type gives. *)
LEMMA Parts ==
  ASSUME SearchInv
  PROVE  TypeOK /\ ClientOK /\ ServerOK /\ \A c \in Conns : LinkOK(c)
  BY DEF SearchInv

LEMMA Types ==
  ASSUME TypeOK
  PROVE  /\ conn \in [Conns -> Connections] /\ nconn \in Nat /\ runs \in 1 .. MaxRuns
         /\ c_n \in Nat /\ c_i \in Nat /\ c_nmatch \in Nat
         /\ s_n \in 0 .. MaxRow /\ s_i \in 0 .. s_n /\ s_i \in Nat /\ s_xt \in EntryIds \cup {Zero}
         /\ s_eset \in Seq(EntryIds) /\ Len(s_eset) \in Nat
<1>1. /\ conn \in [Conns -> Connections] /\ runs \in 1 .. MaxRuns /\ s_eset \in Seq(EntryIds)
      /\ s_xt \in EntryIds \cup {Zero} /\ s_n \in 0 .. MaxRow /\ s_i \in 0 .. s_n
  BY DEF TypeOK
<1>2. nconn \in Nat /\ c_n \in Nat /\ c_i \in Nat /\ c_nmatch \in Nat
  BY ConnsType DEF TypeOK
<1> QED
  BY <1>1, <1>2, Numbers

(* A connection's record with one of its fields, or an end, changed. *)
LEMMA FieldsType ==
  ASSUME NEW r \in Connections
  PROVE  /\ r.cl \in BOOLEAN /\ r.cut \in BOOLEAN /\ r.disturbed \in BOOLEAN
         /\ r.sv \in {"unused", "queued", "open", "closed"}
         /\ r.c2s \in Seq(ToServer) /\ r.s2c \in Seq(ToClient)
  BY DEF Connections

LEMMA Updated ==
  ASSUME NEW f \in [Conns -> Connections], NEW c \in Conns, NEW r \in Connections,
         NEW g, g = [f EXCEPT ![c] = r]
  PROVE  /\ g \in [Conns -> Connections] /\ g[c] = r
         /\ \A d \in Conns : d # c => g[d] = f[d]
  OBVIOUS

LEMMA EndClosedType ==
  ASSUME NEW r \in Connections
  PROVE  /\ ClientEndClosed(r) \in Connections
         /\ ClientEndClosed(r).cl = FALSE /\ ClientEndClosed(r).s2c = <<>>
         /\ ClientEndClosed(r).sv = r.sv /\ ClientEndClosed(r).cut = r.cut
         /\ ClientEndClosed(r).c2s = r.c2s /\ ClientEndClosed(r).disturbed = r.disturbed
         /\ ServerEndClosed(r) \in Connections
         /\ ServerEndClosed(r).sv = "closed" /\ ServerEndClosed(r).c2s = <<>>
         /\ ServerEndClosed(r).cl = r.cl /\ ServerEndClosed(r).cut = r.cut
         /\ ServerEndClosed(r).s2c = r.s2c /\ ServerEndClosed(r).disturbed = r.disturbed
<1>1. <<>> \in Seq(ToServer) /\ <<>> \in Seq(ToClient)
  OBVIOUS
<1> QED
  BY <1>1 DEF Connections, ClientEndClosed, ServerEndClosed

LEMMA C2SUpdated ==
  ASSUME conn \in [Conns -> Connections], NEW c \in Conns, NEW s \in Seq(ToServer),
         conn' = [conn EXCEPT ![c].c2s = s]
  PROVE  /\ conn' \in [Conns -> Connections] /\ \A d \in Conns : d # c => conn'[d] = conn[d]
         /\ conn'[c].c2s = s /\ conn'[c].s2c = conn[c].s2c /\ conn'[c].sv = conn[c].sv
         /\ conn'[c].cl = conn[c].cl /\ conn'[c].cut = conn[c].cut
         /\ conn'[c].disturbed = conn[c].disturbed
<1> DEFINE r == [conn[c] EXCEPT !.c2s = s]
<1>1. /\ r \in Connections /\ r.c2s = s /\ r.s2c = conn[c].s2c /\ r.sv = conn[c].sv
      /\ r.cl = conn[c].cl /\ r.cut = conn[c].cut /\ r.disturbed = conn[c].disturbed
  BY DEF Connections
<1>2. conn' = [conn EXCEPT ![c] = r]
  OBVIOUS
<1> HIDE DEF r
<1> QED
  BY <1>1, <1>2, Updated

LEMMA S2CUpdated ==
  ASSUME conn \in [Conns -> Connections], NEW c \in Conns, NEW s \in Seq(ToClient),
         conn' = [conn EXCEPT ![c].s2c = s]
  PROVE  /\ conn' \in [Conns -> Connections] /\ \A d \in Conns : d # c => conn'[d] = conn[d]
         /\ conn'[c].s2c = s /\ conn'[c].c2s = conn[c].c2s /\ conn'[c].sv = conn[c].sv
         /\ conn'[c].cl = conn[c].cl /\ conn'[c].cut = conn[c].cut
         /\ conn'[c].disturbed = conn[c].disturbed
<1> DEFINE r == [conn[c] EXCEPT !.s2c = s]
<1>1. /\ r \in Connections /\ r.s2c = s /\ r.c2s = conn[c].c2s /\ r.sv = conn[c].sv
      /\ r.cl = conn[c].cl /\ r.cut = conn[c].cut /\ r.disturbed = conn[c].disturbed
  BY DEF Connections
<1>2. conn' = [conn EXCEPT ![c] = r]
  OBVIOUS
<1> HIDE DEF r
<1> QED
  BY <1>1, <1>2, Updated

(* Sequences: what is left after the first, what is there after one more. *)
LEMMA SequenceOver ==
  ASSUME NEW S, NEW s \in Seq(S)
  PROVE  Len(s) \in Nat /\ \A k \in 1 .. Len(s) : s[k] \in S
  OBVIOUS

LEMMA TailFacts ==
  ASSUME NEW S, NEW s \in Seq(S), s # <<>>
  PROVE  /\ Len(s) \in Nat /\ Len(s) >= 1 /\ Head(s) = s[1] /\ s[1] \in S
         /\ Tail(s) \in Seq(S) /\ Len(Tail(s)) = Len(s) - 1
         /\ \A k \in 1 .. Len(Tail(s)) : Tail(s)[k] = s[k + 1] /\ k + 1 \in 1 .. Len(s)
<1>1. Len(s) \in Nat /\ Len(s) >= 1
  OBVIOUS
<1>2. Head(s) = s[1] /\ s[1] \in S
  BY <1>1
<1>3. Tail(s) \in Seq(S) /\ Len(Tail(s)) = Len(s) - 1
  BY <1>1
<1>4. \A k \in 1 .. Len(Tail(s)) : Tail(s)[k] = s[k + 1] /\ k + 1 \in 1 .. Len(s)
  BY <1>1, <1>3
<1> QED
  BY <1>1, <1>2, <1>3, <1>4

LEMMA AppendFacts ==
  ASSUME NEW S, NEW s \in Seq(S), NEW m \in S
  PROVE  /\ Append(s, m) \in Seq(S) /\ Len(s) \in Nat /\ Len(Append(s, m)) = Len(s) + 1
         /\ \A k \in 1 .. Len(s) : Append(s, m)[k] = s[k]
         /\ Append(s, m)[Len(s) + 1] = m
         /\ \A k \in 1 .. Len(Append(s, m)) : k \in 1 .. Len(s) \/ k = Len(s) + 1
  OBVIOUS

LEMMA PrefixFacts ==
  ASSUME NEW S, NEW s \in Seq(S), NEW p \in Prefixes(s)
  PROVE  /\ p \in Seq(S) /\ Len(p) \in Nat /\ Len(p) <= Len(s)
         /\ \A k \in 1 .. Len(p) : p[k] = s[k] /\ k \in 1 .. Len(s)
<1>1. PICK l \in 0 .. Len(s) : p = SubSeq(s, 1, l)
  BY DEF Prefixes
<1>2. l \in Nat /\ l <= Len(s) /\ Len(s) \in Nat
  BY <1>1
<1>3. p \in Seq(S)
  BY <1>1, <1>2
<1>4. Len(p) = l
  BY <1>1, <1>2
<1>5. \A k \in 1 .. l : p[k] = s[k]
  BY <1>1, <1>2
<1> QED
  BY <1>2, <1>3, <1>4, <1>5

LEMMA EmptySequence ==
  ASSUME NEW S, NEW s \in Seq(S)
  PROVE  s = <<>> <=> Len(s) = 0
  OBVIOUS

(* The range of a sequence with one more element. *)
LEMMA RangeAppend ==
  ASSUME NEW S, NEW s \in Seq(S), NEW m \in S
  PROVE  Range(Append(s, m)) = Range(s) \cup {m}
<1>1. DOMAIN s = 1 .. Len(s) /\ DOMAIN Append(s, m) = 1 .. Len(s) + 1 /\ Len(s) \in Nat
  OBVIOUS
<1>2. /\ \A k \in 1 .. Len(s) : Append(s, m)[k] = s[k]
      /\ Append(s, m)[Len(s) + 1] = m
  BY AppendFacts
<1> QED
  BY <1>1, <1>2 DEF Range

-----------------------------------------------------------------------------
(* The initial states satisfy the invariant. *)
LEMMA SearchInitInv == Init => SearchInv
<1> SUFFICES ASSUME Init PROVE SearchInv
  OBVIOUS
<1>1. /\ conn = [c \in Conns |-> Unused] /\ nconn = 0 /\ runs = 1 /\ cpc = "connect" /\ q = 1
      /\ c_n = 0 /\ c_i = 0 /\ c_nmatch = 0 /\ c_eset = <<>> /\ reported = <<>>
      /\ spc = "accept" /\ s_conn = 0 /\ s_stag = Zero /\ s_n = 0 /\ s_i = 0 /\ s_xt = Zero
      /\ s_eset = <<>>
  BY DEF Init, ClientFrame, ServerFrame
<1>2. Unused \in Connections
  BY DEF Unused, Connections
<1>3. conn \in [Conns -> Connections] /\ \A c \in Conns : conn[c] = Unused
  BY <1>1, <1>2
<1>4. 1 \in Queries /\ 1 \in 1 .. MaxRuns /\ MaxRuns * NQueries \in Nat /\ Conns \subseteq Nat \ {0}
  BY Numbers, RunsBound DEF Queries, Conns
<1>5. TypeOK
  BY <1>1, <1>3, <1>4, Numbers DEF TypeOK
<1>6. ClientOK /\ ServerOK
  BY <1>1, <1>4, Numbers DEF ClientOK, ServerOK
<1>7. ASSUME NEW c \in Conns PROVE LinkOK(c)
  BY <1>1, <1>3, <1>4 DEF LinkOK, ClientOn, ServerOn, Unused
<1>8. 1 .. nconn = {}
  BY <1>1
<1>9. ReportOK
  BY <1>1 DEF ReportOK, UndisturbedExact
<1> QED
  BY <1>5, <1>6, <1>7, <1>8, <1>9 DEF SearchInv

(* Where the client is neither before nor after, its steps change nothing. *)
LEMMA ClientElsewhere ==
  ASSUME SearchInv, NEW c \in Conns, ~ClientOn(c), ~ClientOn(c)', conn'[c] = conn[c],
         UNCHANGED serverVars
  PROVE  /\ (c > nconn' <=> c > nconn) => LinkOK(c)'
         /\ TalkOK(c) => TalkOK(c)'
<1>1. ServerOn(c)' = ServerOn(c)
  BY DEF ServerOn, serverVars
<1>2. (c > nconn' <=> c > nconn) => LinkOK(c)'
  BY <1>1 DEF SearchInv, LinkOK
<1>3. \A query : Taken(c, query)' = Taken(c, query) /\ Sent(c, query)' = Sent(c, query)
  BY <1>1 DEF Taken, Sent, serverVars
<1>4. Heard(c)' = Heard(c) /\ Given(c)' = Given(c)
  BY <1>1 DEF Heard, Given, serverVars
<1>5. \A query, e : ServerKnows(query, e)' = ServerKnows(query, e)
  BY DEF ServerKnows, Range, serverVars
<1>6. ASSUME NEW query, NEW e, Talk(c, query, e) PROVE Talk(c, query, e)'
  <2>1. OfQuery(c, query)'
    BY <1>1, <1>3, <1>4, <1>6 DEF Talk, OfQuery, serverVars
  <2>2. ~conn[c].disturbed => InStep(c, query, e)'
    BY <1>1, <1>3, <1>4, <1>5, <1>6 DEF Talk, InStep
  <2> QED
    BY <2>1, <2>2 DEF Talk
<1> QED
  BY <1>2, <1>6 DEF TalkOK

(* The same of the server. *)
LEMMA ServerElsewhere ==
  ASSUME SearchInv, NEW c \in Conns, ~ServerOn(c), ~ServerOn(c)', conn'[c] = conn[c],
         UNCHANGED <<nconn, clientVars>>
  PROVE  LinkOK(c)' /\ (TalkOK(c) => TalkOK(c)')
<1>1. ClientOn(c)' = ClientOn(c)
  BY DEF ClientOn, clientVars
<1>2. LinkOK(c)'
  BY <1>1 DEF SearchInv, LinkOK
<1>3. \A query : Taken(c, query)' = Taken(c, query) /\ Sent(c, query)' = Sent(c, query)
  BY <1>1 DEF Taken, Sent, clientVars
<1>4. Heard(c)' = Heard(c) /\ Given(c)' = Given(c)
  BY <1>1 DEF Heard, Given, clientVars
<1>5. \A query, e : ClientKnows(query, e)' = ClientKnows(query, e)
  BY DEF ClientKnows, clientVars
<1>6. ASSUME NEW query, NEW e, Talk(c, query, e) PROVE Talk(c, query, e)'
  <2>1. OfQuery(c, query)'
    BY <1>1, <1>3, <1>4, <1>6 DEF Talk, OfQuery, clientVars
  <2>2. ~conn[c].disturbed => InStep(c, query, e)'
    BY <1>1, <1>3, <1>4, <1>5, <1>6 DEF Talk, InStep
  <2> QED
    BY <2>1, <2>2 DEF Talk
<1> QED
  BY <1>2, <1>6 DEF TalkOK

(* A step at the client's connection leaves the others alone. *)
LEMMA ClientSide ==
  ASSUME SearchInv, nconn \in Conns, UNCHANGED <<nconn, serverVars>>,
         \A d \in Conns : d # nconn => conn'[d] = conn[d],
         LinkOK(nconn)', TalkOK(nconn)'
  PROVE  (\A c \in Conns : LinkOK(c)') /\ (\A c \in 1 .. nconn' : TalkOK(c)')
<1>1. ASSUME NEW c \in Conns, c # nconn PROVE ~ClientOn(c) /\ ~ClientOn(c)' /\ conn'[c] = conn[c]
  BY <1>1 DEF ClientOn
<1>2. 1 .. nconn' = 1 .. nconn /\ 1 .. nconn \subseteq Conns
  BY ConnsType DEF SearchInv
<1>3. \A c \in 1 .. nconn : TalkOK(c)
  BY DEF SearchInv
<1> QED
  BY <1>1, <1>2, <1>3, ClientElsewhere

(* A step at the server's does, too. *)
LEMMA ServerSide ==
  ASSUME SearchInv, s_conn \in Conns, s_conn' = s_conn, UNCHANGED <<nconn, clientVars>>,
         \A d \in Conns : d # s_conn => conn'[d] = conn[d],
         LinkOK(s_conn)', TalkOK(s_conn)'
  PROVE  (\A c \in Conns : LinkOK(c)') /\ (\A c \in 1 .. nconn' : TalkOK(c)')
<1>1. ASSUME NEW c \in Conns, c # s_conn PROVE ~ServerOn(c) /\ ~ServerOn(c)' /\ conn'[c] = conn[c]
  BY <1>1 DEF ServerOn
<1>2. 1 .. nconn' = 1 .. nconn /\ 1 .. nconn \subseteq Conns
  BY ConnsType DEF SearchInv
<1>3. \A c \in 1 .. nconn : TalkOK(c)
  BY DEF SearchInv
<1> QED
  BY <1>1, <1>2, <1>3, ServerElsewhere

(* The lines already written stay right: a connection that was disturbed     *)
(* stays so.                                                                 *)
LEMMA ReportKept ==
  ASSUME SearchInv, reported' = reported, nconn' \in Nat, nconn' >= nconn,
         \A c \in 1 .. nconn : ~conn'[c].disturbed => ~conn[c].disturbed
  PROVE  ReportOK'
<1>1. nconn \in Nat /\ 1 .. nconn \subseteq 1 .. nconn'
  BY ConnsType DEF SearchInv
<1> DEFINE Reports(last) == [query : Queries, over : 1 .. last, ids : SUBSET EntryIds]
<1>2. reported \in Seq(Reports(nconn)) /\ \A k \in DOMAIN reported : reported[k] \in Reports(nconn)
  <2>1. reported \in Seq(Reports(nconn))
    BY DEF SearchInv, ReportOK
  <2> HIDE DEF Reports
  <2> QED
    BY <2>1
<1>3. Reports(nconn) \subseteq Reports(nconn')
  BY <1>1
<1>4. reported' \in Seq(Reports(nconn'))
  <2> HIDE DEF Reports
  <2> QED
    BY <1>2, <1>3
<1>5. \A k \in DOMAIN reported : reported[k].over \in 1 .. nconn
  BY <1>2
<1>6. UndisturbedExact'
  BY <1>5 DEF SearchInv, ReportOK, UndisturbedExact
<1> QED
  BY <1>4, <1>6 DEF SearchInv, ReportOK

-----------------------------------------------------------------------------
(* A client inside a query, and its connection. *)
LEMMA ClientAt ==
  ASSUME SearchInv, cpc \in {"stag", "n", "tokens", "count", "eset", "report"}
  PROVE  /\ nconn \in Conns /\ nconn \in 1 .. nconn /\ nconn \in Nat /\ q \in Queries
         /\ ClientOn(nconn) /\ LinkOK(nconn) /\ conn[nconn] \in Connections
         /\ conn[nconn].cl /\ conn[nconn].sv \in {"queued", "open", "closed"}
         /\ \E e \in Seq(Own(q)) : Talk(nconn, q, e)
<1>1. nconn \in Nat /\ nconn >= 1 /\ nconn \in 1 .. nconn /\ 1 .. nconn \subseteq Conns /\ q \in Queries
  BY ConnsType DEF SearchInv, ClientOK
<1>2. nconn \in Conns
  BY <1>1
<1>3. ClientOn(nconn) /\ LinkOK(nconn) /\ conn[nconn] \in Connections
  BY <1>2 DEF ClientOn, SearchInv, TypeOK
<1>4. conn[nconn].cl /\ conn[nconn].sv \in {"queued", "open", "closed"}
  BY <1>1, <1>3, FieldsType DEF LinkOK
<1>5. PICK query \in Queries : \E e \in Seq(Own(query)) : Talk(nconn, query, e)
  BY <1>1 DEF SearchInv, TalkOK
<1>6. query = q
  BY <1>3, <1>5 DEF Talk, OfQuery
<1> QED
  BY <1>1, <1>2, <1>3, <1>4, <1>5, <1>6

(* The server's numbers. *)
LEMMA GivenType ==
  ASSUME TypeOK, NEW c, NEW query \in Queries
  PROVE  Given(c) \in 0 .. 3 /\ Heard(c) \in 0 .. 3 /\ Taken(c, query) \in Nat /\ Sent(c, query) \in Nat
<1>1. RowLen[query] \in Nat /\ s_i \in Nat /\ c_i \in Nat
  BY Numbers DEF TypeOK
<1> QED
  BY <1>1 DEF Given, Heard, Taken, Sent

(* A client that still has messages to send has lost the server only when    *)
(* something went wrong.                                                     *)
LEMMA SenderGone ==
  ASSUME SearchInv, cpc = "stag" \/ (cpc = "tokens" /\ c_i < c_n), GoneForClient(nconn)
  PROVE  conn[nconn].disturbed
<1> SUFFICES ASSUME ~conn[nconn].disturbed PROVE FALSE
  OBVIOUS
<1>1. /\ q \in Queries /\ ClientOn(nconn) /\ LinkOK(nconn) /\ conn[nconn] \in Connections
      /\ \E e \in Seq(Own(q)) : Talk(nconn, q, e)
  BY ClientAt
<1>2. PICK e \in Seq(Own(q)) : InStep(nconn, q, e)
  BY <1>1 DEF Talk
<1>3. conn[nconn].sv = "closed" /\ ~ServerOn(nconn)
  BY <1>1 DEF GoneForClient, LinkOK
<1>4. Taken(nconn, q) = 1 + RowLen[q]
  BY <1>3 DEF Taken
<1>5. Len(conn[nconn].c2s) \in Nat /\ RowLen[q] \in Nat /\ c_i \in Nat /\ c_n \in Nat
  BY <1>1, FieldsType, Numbers DEF SearchInv, TypeOK
<1>6. Sent(nconn, q) < 1 + RowLen[q]
  BY <1>1, <1>2, <1>5 DEF Sent, InStep, ClientKnows
<1> QED
  BY <1>2, <1>4, <1>5, <1>6 DEF InStep, Sent

(* The client sends its next message: into the connection, into nothing, or  *)
(* to its death.                                                             *)
LEMMA ClientSendInv ==
  ASSUME SearchInv, NEW m, NEW next, ClientSends(m, next),
         \/ cpc = "stag" /\ m = [stag |-> q] /\ next = "n" /\ c_i' = c_i
         \/ /\ cpc = "tokens" /\ c_i < c_n /\ m = [xtoken |-> Entry(q, c_i + 1)]
            /\ next = "tokens" /\ c_i' = c_i + 1,
         UNCHANGED <<nconn, q, c_n, c_nmatch, c_eset, runs, reported, serverVars>>
  PROVE  SearchInv'
<1> DEFINE c == nconn
<1>1. /\ c \in Conns /\ c \in 1 .. nconn /\ nconn \in Nat /\ q \in Queries /\ ClientOn(c)
      /\ LinkOK(c) /\ conn[c] \in Connections /\ conn[c].cl
      /\ conn[c].sv \in {"queued", "open", "closed"}
  BY ClientAt
<1>2. PICK e \in Seq(Own(q)) : Talk(c, q, e)
  BY ClientAt
<1>3. TypeOK /\ ClientOK /\ ServerOK /\ conn \in [Conns -> Connections]
  BY Parts, Types
<1>4. /\ c_i \in Nat /\ c_n \in 0 .. MaxRow /\ MaxRow \in Nat /\ c_i' \in Nat /\ c_i' <= c_n
      /\ m \in ToServer /\ m = ClientMsg(q, Sent(c, q) + 1)
      /\ Taken(c, q) \in Nat /\ Sent(c, q) \in Nat
  <2>1. c_i \in Nat /\ c_n \in 0 .. MaxRow /\ MaxRow \in Nat /\ c_i' \in Nat /\ c_i' <= c_n
    BY <1>3, Numbers DEF TypeOK, ClientOK
  <2>2. Taken(c, q) \in Nat /\ Sent(c, q) \in Nat
    BY <1>1, <1>3, GivenType
  <2>3. CASE cpc = "stag" /\ m = [stag |-> q]
    <3>1. m \in [stag : Queries]
      BY <1>1, <2>3
    <3>2. Sent(c, q) + 1 = 1
      BY <1>1, <2>3 DEF Sent
    <3> QED
      BY <2>1, <2>2, <2>3, <3>1, <3>2 DEF ToServer, ClientMsg
  <2>4. CASE cpc = "tokens" /\ c_i < c_n /\ m = [xtoken |-> Entry(q, c_i + 1)]
    <3>1. c_i + 1 \in 1 .. MaxRow
      BY <2>1, <2>4
    <3>2. Entry(q, c_i + 1) \in EntryIds
      BY <1>1, <3>1 DEF EntryIds
    <3>3. m \in [xtoken : EntryIds]
      BY <2>4, <3>2
    <3>4. Sent(c, q) + 1 # 1 /\ (Sent(c, q) + 1) - 1 = c_i + 1
      BY <1>1, <2>1, <2>4 DEF Sent
    <3> QED
      BY <2>1, <2>2, <2>4, <3>3, <3>4 DEF ToServer, ClientMsg
  <2> QED
    BY <2>3, <2>4
<1>5. ServerOK'
  BY <1>3 DEF ServerOK, serverVars
<1>6. cpc' \in {next, "exited"}
  BY DEF ClientSends
<1>7. ClientOK'
  <2>1. nconn >= 1 /\ nconn <= (runs - 1) * NQueries + q
    BY <1>3 DEF ClientOK
  <2>2. nconn <= runs * NQueries
    BY <1>1, <1>3, <2>1, RunsBound, Numbers DEF TypeOK, Queries
  <2> QED
    BY <1>1, <1>3, <1>4, <1>6, <2>1, <2>2 DEF ClientOK
<1>8. conn' \in [Conns -> Connections] => TypeOK'
  <2>1. c_i' \in 0 .. MaxRow
    BY <1>4
  <2>2. cpc' \in {"n", "tokens", "exited"}
    BY <1>6
  <2> QED
    BY <1>3, <2>1, <2>2 DEF TypeOK, serverVars
<1>9. ASSUME conn'[c].sv = conn[c].sv
      PROVE  Taken(c, q)' = Taken(c, q) /\ Given(c)' = Given(c) /\ ServerOn(c)' = ServerOn(c)
  BY <1>9 DEF Taken, Given, ServerOn, serverVars
<1>10. ASSUME cpc' = next
       PROVE  ClientOn(c)' /\ Sent(c, q)' = Sent(c, q) + 1 /\ Heard(c)' = Heard(c)
  BY <1>1, <1>3, <1>4, <1>10 DEF ClientOn, Sent, Heard, ClientOK
<1>11. ASSUME cpc' = "exited" PROVE ~ClientOn(c)'
  BY <1>11 DEF ClientOn
<1>12. ASSUME conn' \in [Conns -> Connections], \A d \in Conns : d # c => conn'[d] = conn[d],
              conn'[c].disturbed = conn[c].disturbed, LinkOK(c)', Talk(c, q, e)'
       PROVE  SearchInv'
  <2>1. TalkOK(c)'
    BY <1>1, <1>2, <1>12 DEF TalkOK
  <2>2. (\A d \in Conns : LinkOK(d)') /\ (\A d \in 1 .. nconn' : TalkOK(d)')
    BY <1>1, <1>12, <2>1, ClientSide
  <2>3. ReportOK'
    <3>1. \A d \in 1 .. nconn : conn'[d].disturbed = conn[d].disturbed
      BY <1>3, <1>12, ConnsType
    <3> QED
      BY <1>1, <3>1, ReportKept
  <2> QED
    BY <1>5, <1>7, <1>8, <1>12, <2>2, <2>3 DEF SearchInv
<1>13. CASE GoneForClient(c) /\ cpc' = next /\ UNCHANGED conn
  <2>1. conn[c].disturbed
    BY <1>13, SenderGone
  <2>2. LinkOK(c)'
    BY <1>1, <1>9, <1>10, <1>13 DEF LinkOK
  <2>3. OfQuery(c, q)'
    BY <1>1, <1>2, <1>9, <1>10, <1>13 DEF Talk, OfQuery, serverVars
  <2> QED
    BY <1>3, <1>12, <1>13, <2>1, <2>2, <2>3 DEF Talk
<1>14. CASE GoneForClient(c) /\ cpc' = "exited" /\ conn' = [conn EXCEPT ![nconn] = ClientEndClosed(@)]
  <2>1. conn[c].disturbed
    BY <1>14, SenderGone
  <2> DEFINE r == ClientEndClosed(conn[c])
  <2>2. /\ conn' \in [Conns -> Connections] /\ conn'[c] = r
        /\ \A d \in Conns : d # c => conn'[d] = conn[d]
    <3>1. r \in Connections /\ conn' = [conn EXCEPT ![c] = r]
      BY <1>1, <1>14, EndClosedType
    <3> HIDE DEF r
    <3> QED
      BY <1>1, <1>3, <3>1, Updated
  <2>3. /\ ~r.cl /\ r.s2c = <<>> /\ r.sv = conn[c].sv /\ r.cut = conn[c].cut
        /\ r.c2s = conn[c].c2s /\ r.disturbed = conn[c].disturbed
    BY <1>1, EndClosedType
  <2> HIDE DEF r
  <2>4. LinkOK(c)'
    BY <1>1, <1>9, <1>11, <1>14, <2>1, <2>2, <2>3 DEF LinkOK
  <2>5. OfQuery(c, q)'
    BY <1>1, <1>2, <1>9, <1>11, <1>14, <2>2, <2>3 DEF Talk, OfQuery, serverVars
  <2> QED
    BY <1>12, <2>1, <2>2, <2>3, <2>4, <2>5 DEF Talk
<1>15. CASE ~GoneForClient(c) /\ cpc' = next /\ conn' = [conn EXCEPT ![nconn].c2s = Append(@, m)]
  <2>1. ~conn[c].cut /\ conn[c].sv # "closed" /\ ~conn[c].disturbed
    BY <1>1, <1>15 DEF GoneForClient, LinkOK
  <2> DEFINE s == Append(conn[c].c2s, m)
  <2>2. /\ conn[c].c2s \in Seq(ToServer) /\ s \in Seq(ToServer) /\ Len(conn[c].c2s) \in Nat
        /\ Len(s) = Len(conn[c].c2s) + 1 /\ \A k \in 1 .. Len(conn[c].c2s) : s[k] = conn[c].c2s[k]
        /\ s[Len(conn[c].c2s) + 1] = m
        /\ \A k \in 1 .. Len(s) : k \in 1 .. Len(conn[c].c2s) \/ k = Len(conn[c].c2s) + 1
    <3> DEFINE old == conn[c].c2s
    <3>1. old \in Seq(ToServer) /\ m \in ToServer
      BY <1>1, <1>4, FieldsType
    <3> HIDE DEF old
    <3>2. /\ Append(old, m) \in Seq(ToServer) /\ Len(old) \in Nat
          /\ Len(Append(old, m)) = Len(old) + 1
          /\ \A k \in 1 .. Len(old) : Append(old, m)[k] = old[k]
          /\ Append(old, m)[Len(old) + 1] = m
          /\ \A k \in 1 .. Len(Append(old, m)) : k \in 1 .. Len(old) \/ k = Len(old) + 1
      BY <3>1, AppendFacts
    <3> QED
      BY <3>1, <3>2 DEF old
  <2> HIDE DEF s
  <2>3. conn' = [conn EXCEPT ![c].c2s = s]
    BY <1>15 DEF s
  <2>4. /\ conn' \in [Conns -> Connections] /\ \A d \in Conns : d # c => conn'[d] = conn[d]
        /\ conn'[c].c2s = s /\ conn'[c].s2c = conn[c].s2c /\ conn'[c].sv = conn[c].sv
        /\ conn'[c].cl = conn[c].cl /\ conn'[c].cut = conn[c].cut
        /\ conn'[c].disturbed = conn[c].disturbed
    BY <1>1, <1>3, <2>2, <2>3, C2SUpdated
  <2>5. LinkOK(c)'
    BY <1>1, <1>9, <1>10, <1>15, <2>1, <2>4 DEF LinkOK
  <2>6. OfQuery(c, q) /\ InStep(c, q, e)
    BY <1>2, <2>1 DEF Talk
  <2>7. ASSUME NEW k \in 1 .. Len(s) PROVE s[k] = ClientMsg(q, Taken(c, q) + k)
    <3>1. Len(conn[c].c2s) = Sent(c, q) - Taken(c, q)
      BY <2>6 DEF InStep
    <3>2. CASE k = Len(conn[c].c2s) + 1
      <4>1. Taken(c, q) + k = Sent(c, q) + 1
        BY <1>4, <2>2, <3>1, <3>2
      <4> QED
        BY <1>4, <2>2, <3>2, <4>1
    <3>3. CASE k \in 1 .. Len(conn[c].c2s)
      BY <2>2, <2>6, <3>3 DEF OfQuery
    <3> QED
      BY <2>2, <3>2, <3>3
  <2>8. OfQuery(c, q)'
    BY <1>1, <1>9, <1>10, <1>15, <2>4, <2>6, <2>7 DEF OfQuery, serverVars
  <2>9. InStep(c, q, e)'
    <3>1. ServerKnows(q, e)' = ServerKnows(q, e)
      BY DEF ServerKnows, Range, serverVars
    <3>2. ClientKnows(q, e) => ClientKnows(q, e)'
      BY <1>15 DEF ClientKnows
    <3>3. Len(s) = (Sent(c, q) + 1) - Taken(c, q)
      BY <1>4, <2>2, <2>6 DEF InStep
    <3> QED
      BY <1>1, <1>9, <1>10, <1>15, <2>4, <2>6, <3>1, <3>2, <3>3 DEF InStep
  <2> QED
    BY <1>12, <2>4, <2>5, <2>8, <2>9 DEF Talk
<1> QED
  BY <1>13, <1>14, <1>15 DEF ClientSends

LEMMA SendStagInv == SearchInv /\ SendStag => SearchInv'
  BY ClientSendInv DEF SendStag

(* The token loop goes on or ends. *)
LEMMA SendTokenInv == SearchInv /\ SendToken => SearchInv'
<1> SUFFICES ASSUME SearchInv, SendToken PROVE SearchInv'
  OBVIOUS
<1>1. CASE c_i < c_n
  BY <1>1, ClientSendInv DEF SendToken
<1>2. CASE ~(c_i < c_n)
  <2> DEFINE c == nconn
  <2>1. /\ cpc = "tokens" /\ cpc' = "count"
        /\ UNCHANGED <<conn, nconn, q, c_n, c_i, c_nmatch, c_eset, runs, reported, serverVars>>
    BY <1>2 DEF SendToken
  <2>2. /\ c \in Conns /\ c \in 1 .. nconn /\ nconn \in Nat /\ q \in Queries /\ ClientOn(c)
        /\ LinkOK(c)
    BY <2>1, ClientAt
  <2>3. PICK e \in Seq(Own(q)) : Talk(c, q, e)
    BY <2>1, ClientAt
  <2>4. TypeOK /\ ClientOK /\ ServerOK /\ conn \in [Conns -> Connections]
    BY Parts, Types
  <2>5. TypeOK' /\ ServerOK'
    BY <2>1, <2>4 DEF TypeOK, ServerOK, serverVars
  <2>6. ClientOK'
    <3>1. c_i = c_n
      BY <1>2, <2>4 DEF TypeOK, ClientOK
    <3> QED
      BY <2>1, <2>4, <3>1 DEF ClientOK
  <2>7. ClientOn(c)' /\ Heard(c)' = Heard(c) /\ Sent(c, q)' = Sent(c, q)
    BY <2>1, <2>2 DEF ClientOn, Heard, Sent
  <2>8. Taken(c, q)' = Taken(c, q) /\ Given(c)' = Given(c) /\ ServerOn(c)' = ServerOn(c)
    BY <2>1 DEF Taken, Given, ServerOn, serverVars
  <2>9. Talk(c, q, e)'
    <3>1. OfQuery(c, q)'
      BY <2>1, <2>2, <2>3, <2>7, <2>8 DEF Talk, OfQuery, serverVars
    <3>2. ASSUME InStep(c, q, e) PROVE InStep(c, q, e)'
      <4>1. ServerKnows(q, e)' = ServerKnows(q, e)
        BY <2>1 DEF ServerKnows, Range, serverVars
      <4>2. ClientKnows(q, e)'
        BY <2>1, <2>2, <3>2 DEF InStep, ClientKnows
      <4> QED
        BY <2>1, <2>7, <2>8, <3>2, <4>1, <4>2 DEF InStep
    <3> QED
      BY <2>1, <2>3, <3>1, <3>2 DEF Talk
  <2>10. LinkOK(c)' /\ TalkOK(c)'
    BY <2>1, <2>2, <2>3, <2>7, <2>8, <2>9 DEF LinkOK, TalkOK
  <2>11. (\A d \in Conns : LinkOK(d)') /\ (\A d \in 1 .. nconn' : TalkOK(d)')
    BY <2>1, <2>2, <2>10, ClientSide
  <2>12. ReportOK'
    BY <2>1, <2>2, ReportKept
  <2> QED
    BY <2>5, <2>6, <2>11, <2>12 DEF SearchInv
<1> QED
  BY <1>1, <1>2

(* A client that hears nothing any more has missed something. *)
LEMMA ReceiverGone ==
  ASSUME SearchInv, cpc \in {"n", "count", "eset"}, ~ClientHears, GoneForClient(nconn)
  PROVE  conn[nconn].disturbed
<1> SUFFICES ASSUME ~conn[nconn].disturbed PROVE FALSE
  OBVIOUS
<1>1. /\ q \in Queries /\ ClientOn(nconn) /\ LinkOK(nconn) /\ conn[nconn] \in Connections
      /\ \E e \in Seq(Own(q)) : Talk(nconn, q, e)
  BY ClientAt
<1>2. PICK e \in Seq(Own(q)) : InStep(nconn, q, e)
  BY <1>1 DEF Talk
<1>3. conn[nconn].sv = "closed" /\ ~ServerOn(nconn)
  BY <1>1 DEF GoneForClient, LinkOK
<1>4. Given(nconn) = 3
  BY <1>3 DEF Given
<1>5. Heard(nconn) \in 0 .. 2
  BY <1>1 DEF Heard
<1>6. Len(conn[nconn].s2c) = 0
  BY <1>1, FieldsType, EmptySequence DEF ClientHears
<1> QED
  BY <1>2, <1>4, <1>5, <1>6 DEF InStep

(* What the client hears is the next of what its server says. *)
LEMMA HeardMsg ==
  ASSUME SearchInv, cpc \in {"n", "count", "eset"}, ClientHears
  PROVE  /\ Head(conn[nconn].s2c) \in ServerMsgs(q, Heard(nconn) + 1)
         /\ \A e : InStep(nconn, q, e) =>
              Head(conn[nconn].s2c) = ServerMsg(q, e, Heard(nconn) + 1)
<1>1. conn[nconn] \in Connections /\ OfQuery(nconn, q)
  BY ClientAt DEF Talk
<1>2. /\ Head(conn[nconn].s2c) = conn[nconn].s2c[1] /\ 1 \in 1 .. Len(conn[nconn].s2c)
  BY <1>1, FieldsType, TailFacts DEF ClientHears
<1> QED
  BY <1>1, <1>2 DEF OfQuery, InStep

(* It takes it, or goes on without. *)
LEMMA ClientRecvInv ==
  ASSUME SearchInv, TypeOK' \/ conn' \notin [Conns -> Connections], ClientOK',
         \/ cpc = "n" /\ cpc' = "tokens" /\ c_i = 0
         \/ cpc = "count" /\ cpc' = "eset"
         \/ cpc = "eset" /\ cpc' = "report",
         (ClientHears /\ ClientRecv) \/ (~ClientHears /\ GoneForClient(nconn) /\ UNCHANGED conn),
         UNCHANGED <<nconn, q, c_i, runs, reported, serverVars>>,
         c_eset' \in Seq(Own(q)),
         ClientHears => \A e : InStep(nconn, q, e) => ClientKnows(q, e)'
  PROVE  SearchInv'
<1> DEFINE c == nconn
<1>1. /\ c \in Conns /\ c \in 1 .. nconn /\ nconn \in Nat /\ q \in Queries /\ ClientOn(c)
      /\ LinkOK(c) /\ conn[c] \in Connections /\ conn[c].cl
      /\ conn[c].sv \in {"queued", "open", "closed"}
  BY ClientAt
<1>2. PICK e \in Seq(Own(q)) : Talk(c, q, e)
  BY ClientAt
<1>3. TypeOK /\ ClientOK /\ ServerOK /\ conn \in [Conns -> Connections]
  BY Parts, Types
<1>4. ServerOK'
  BY <1>3 DEF ServerOK, serverVars
<1>5. ASSUME conn'[c].sv = conn[c].sv
      PROVE  Taken(c, q)' = Taken(c, q) /\ Given(c)' = Given(c) /\ ServerOn(c)' = ServerOn(c)
  BY <1>5 DEF Taken, Given, ServerOn, serverVars
<1>6. /\ ClientOn(c)' /\ Heard(c)' = Heard(c) + 1 /\ Sent(c, q)' = Sent(c, q) /\ Heard(c) \in 0 .. 2
  BY <1>1 DEF ClientOn, Heard, Sent
<1>7. ASSUME conn' \in [Conns -> Connections], \A d \in Conns : d # c => conn'[d] = conn[d],
             conn'[c].disturbed = conn[c].disturbed, LinkOK(c)', Talk(c, q, e)'
      PROVE  SearchInv'
  <2>1. TalkOK(c)'
    BY <1>1, <1>2, <1>7 DEF TalkOK
  <2>2. (\A d \in Conns : LinkOK(d)') /\ (\A d \in 1 .. nconn' : TalkOK(d)')
    BY <1>1, <1>7, <2>1, ClientSide
  <2>3. ReportOK'
    <3>1. \A d \in 1 .. nconn : conn'[d].disturbed = conn[d].disturbed
      BY <1>3, <1>7, ConnsType
    <3> QED
      BY <1>1, <3>1, ReportKept
  <2> QED
    BY <1>4, <1>7, <2>2, <2>3 DEF SearchInv
<1>8. CASE ~ClientHears /\ GoneForClient(c) /\ UNCHANGED conn
  <2>1. conn[c].disturbed
    BY <1>8, ReceiverGone
  <2>2. LinkOK(c)'
    BY <1>1, <1>5, <1>6, <1>8 DEF LinkOK
  <2>3. conn[c].s2c = <<>> /\ Len(conn[c].s2c) = 0
    BY <1>1, <1>8, FieldsType, EmptySequence DEF ClientHears
  <2>4. OfQuery(c, q)'
    BY <1>1, <1>2, <1>5, <1>6, <1>8, <2>3 DEF Talk, OfQuery, serverVars
  <2> QED
    BY <1>3, <1>7, <1>8, <2>1, <2>2, <2>4 DEF Talk
<1>9. CASE ClientHears /\ ClientRecv
  <2> DEFINE s == Tail(conn[c].s2c)
  <2>1. /\ s \in Seq(ToClient) /\ Len(conn[c].s2c) \in Nat /\ Len(s) = Len(conn[c].s2c) - 1
        /\ \A k \in 1 .. Len(s) : s[k] = conn[c].s2c[k + 1] /\ k + 1 \in 1 .. Len(conn[c].s2c)
    <3> DEFINE old == conn[c].s2c
    <3>1. old \in Seq(ToClient) /\ old # <<>>
      BY <1>1, <1>9, FieldsType DEF ClientHears
    <3> HIDE DEF old
    <3>2. /\ Tail(old) \in Seq(ToClient) /\ Len(old) \in Nat /\ Len(Tail(old)) = Len(old) - 1
          /\ \A k \in 1 .. Len(Tail(old)) : Tail(old)[k] = old[k + 1] /\ k + 1 \in 1 .. Len(old)
      BY <3>1, TailFacts
    <3> QED
      BY <3>2 DEF old
  <2> HIDE DEF s
  <2>2. conn' = [conn EXCEPT ![c].s2c = s]
    BY <1>9 DEF ClientRecv, s
  <2>3. /\ conn' \in [Conns -> Connections] /\ \A d \in Conns : d # c => conn'[d] = conn[d]
        /\ conn'[c].s2c = s /\ conn'[c].c2s = conn[c].c2s /\ conn'[c].sv = conn[c].sv
        /\ conn'[c].cl = conn[c].cl /\ conn'[c].cut = conn[c].cut
        /\ conn'[c].disturbed = conn[c].disturbed
    BY <1>1, <1>3, <2>1, <2>2, S2CUpdated
  <2>4. LinkOK(c)'
    BY <1>1, <1>5, <1>6, <2>3 DEF LinkOK
  <2>5. OfQuery(c, q)'
    <3>1. OfQuery(c, q)
      BY <1>2 DEF Talk
    <3>2. ASSUME NEW k \in 1 .. Len(s) PROVE s[k] \in ServerMsgs(q, Heard(c)' + k)
      <4>1. k \in Nat /\ Heard(c)' + k = Heard(c) + (k + 1)
        BY <1>6, <2>1
      <4> QED
        BY <2>1, <3>1, <4>1 DEF OfQuery
    <3> QED
      BY <1>1, <1>5, <1>6, <2>3, <3>1, <3>2 DEF OfQuery, serverVars
  <2>6. ASSUME InStep(c, q, e) PROVE InStep(c, q, e)'
    <3>1. ASSUME NEW k \in 1 .. Len(s) PROVE s[k] = ServerMsg(q, e, Heard(c)' + k)
      <4>1. k \in Nat /\ Heard(c)' + k = Heard(c) + (k + 1)
        BY <1>6, <2>1
      <4> QED
        BY <2>1, <2>6, <4>1 DEF InStep
    <3>2. Len(s) = Given(c) - Heard(c)'
      <4>1. Given(c) \in Int
        BY DEF Given
      <4> QED
        BY <1>6, <2>1, <2>6, <4>1 DEF InStep
    <3>3. ServerKnows(q, e)' = ServerKnows(q, e)
      BY DEF ServerKnows, Range, serverVars
    <3>4. ClientKnows(q, e)'
      BY <1>9, <2>6
    <3> QED
      BY <1>1, <1>5, <1>6, <2>3, <2>6, <3>1, <3>2, <3>3, <3>4 DEF InStep
  <2>7. Talk(c, q, e)'
    BY <1>2, <2>3, <2>5, <2>6 DEF Talk
  <2> QED
    BY <1>7, <2>3, <2>4, <2>7
<1> QED
  BY <1>8, <1>9

(* n_ids_tset arrives, or does not. *)
LEMMA RecvNInv == SearchInv /\ RecvN => SearchInv'
<1> SUFFICES ASSUME SearchInv, RecvN PROVE SearchInv'
  OBVIOUS
<1>1. /\ cpc = "n" /\ cpc' = "tokens"
      /\ UNCHANGED <<nconn, q, c_i, c_nmatch, c_eset, runs, reported, serverVars>>
  BY DEF RecvN
<1>2. /\ q \in Queries /\ ClientOn(nconn) /\ nconn \in Nat
      /\ TypeOK /\ ClientOK /\ c_i = 0 /\ c_n = 0 /\ c_eset = <<>>
  BY <1>1, ClientAt DEF SearchInv, ClientOK
<1>3. Heard(nconn) = 0
  BY <1>1, <1>2 DEF Heard
<1>4. c_n' \in 0 .. MaxRow
  <2>1. CASE ClientHears /\ c_n' = Head(conn[nconn].s2c).n
    <3>1. Head(conn[nconn].s2c) \in [n : 1 .. MaxRow]
      BY <1>1, <1>3, <2>1, HeardMsg DEF ServerMsgs
    <3> QED
      BY <2>1, <3>1, Numbers
  <2>2. CASE UNCHANGED c_n
    BY <1>2, <2>2 DEF TypeOK
  <2> QED
    BY <2>1, <2>2 DEF RecvN
<1>5. TypeOK' \/ conn' \notin [Conns -> Connections]
  BY <1>1, <1>2, <1>4 DEF TypeOK, serverVars
<1>6. ClientOK'
  BY <1>1, <1>2, <1>4 DEF ClientOK
<1>7. ASSUME ClientHears, NEW e, InStep(nconn, q, e) PROVE ClientKnows(q, e)'
  <2>1. Head(conn[nconn].s2c) = [n |-> RowLen[q]]
    BY <1>1, <1>3, <1>7, HeardMsg DEF ServerMsg
  <2> QED
    BY <1>1, <1>7, <2>1 DEF RecvN, ClientKnows
<1>8. c_eset' \in Seq(Own(q))
  BY <1>1, <1>2
<1> QED
  BY <1>1, <1>2, <1>5, <1>6, <1>7, <1>8, ClientRecvInv DEF RecvN

(* nmatch arrives, or does not. *)
LEMMA RecvCountInv == SearchInv /\ RecvCount => SearchInv'
<1> SUFFICES ASSUME SearchInv, RecvCount PROVE SearchInv'
  OBVIOUS
<1>1. /\ cpc = "count" /\ cpc' = "eset"
      /\ UNCHANGED <<nconn, q, c_n, c_i, c_eset, runs, reported, serverVars>>
  BY DEF RecvCount
<1>2. /\ q \in Queries /\ ClientOn(nconn) /\ nconn \in Nat
      /\ TypeOK /\ ClientOK /\ c_eset = <<>>
  BY <1>1, ClientAt DEF SearchInv, ClientOK
<1>3. Heard(nconn) = 1
  BY <1>1, <1>2 DEF Heard
<1>4. c_nmatch' \in 0 .. MaxRow
  <2>1. CASE ClientHears /\ c_nmatch' = Head(conn[nconn].s2c).nmatch
    <3>1. Head(conn[nconn].s2c) \in [nmatch : 0 .. MaxRow]
      BY <1>1, <1>3, <2>1, HeardMsg DEF ServerMsgs
    <3> QED
      BY <2>1, <3>1
  <2>2. CASE UNCHANGED c_nmatch
    BY <1>2, <2>2 DEF TypeOK
  <2> QED
    BY <2>1, <2>2 DEF RecvCount
<1>5. TypeOK' \/ conn' \notin [Conns -> Connections]
  BY <1>1, <1>2, <1>4 DEF TypeOK, serverVars
<1>6. ClientOK'
  BY <1>1, <1>2 DEF ClientOK
<1>7. ASSUME ClientHears, NEW e, InStep(nconn, q, e) PROVE ClientKnows(q, e)'
  <2>1. Head(conn[nconn].s2c) = [nmatch |-> Len(e)]
    BY <1>1, <1>3, <1>7, HeardMsg DEF ServerMsg
  <2>2. c_n = RowLen[q]
    BY <1>1, <1>2, <1>7 DEF InStep, ClientKnows
  <2> QED
    BY <1>1, <1>7, <2>1, <2>2 DEF RecvCount, ClientKnows
<1>8. c_eset' \in Seq(Own(q))
  BY <1>1, <1>2
<1> QED
  BY <1>1, <1>5, <1>6, <1>7, <1>8, ClientRecvInv DEF RecvCount

(* ESET arrives, in whole or in part, or does not. *)
LEMMA RecvEsetInv == SearchInv /\ RecvEset => SearchInv'
<1> SUFFICES ASSUME SearchInv, RecvEset PROVE SearchInv'
  OBVIOUS
<1>1. /\ cpc = "eset" /\ cpc' = "report"
      /\ UNCHANGED <<nconn, q, c_n, c_i, c_nmatch, runs, reported, serverVars>>
  BY DEF RecvEset
<1>2. /\ q \in Queries /\ ClientOn(nconn) /\ nconn \in Nat
      /\ TypeOK /\ ClientOK /\ c_eset = <<>>
  BY <1>1, ClientAt DEF SearchInv, ClientOK
<1>3. Heard(nconn) = 2
  BY <1>1, <1>2 DEF Heard
<1>4. c_eset' \in Seq(Own(q))
  <2>1. CASE ClientHears /\ c_eset' = Head(conn[nconn].s2c).eset
    <3>1. Head(conn[nconn].s2c) \in [eset : Seq(Own(q))]
      BY <1>1, <1>3, <2>1, HeardMsg DEF ServerMsgs
    <3> QED
      BY <2>1, <3>1
  <2>2. CASE UNCHANGED c_eset
    BY <1>2, <2>2
  <2> QED
    BY <2>1, <2>2 DEF RecvEset
<1>5. TypeOK' \/ conn' \notin [Conns -> Connections]
  <2>1. Own(q) \subseteq EntryIds
    BY <1>2 DEF Own, EntryIds
  <2>2. c_eset' \in Seq(EntryIds)
    BY <1>4, <2>1
  <2> QED
    BY <1>1, <1>2, <2>2 DEF TypeOK, serverVars
<1>6. ClientOK'
  BY <1>1, <1>2 DEF ClientOK
<1>7. ASSUME ClientHears, NEW e, InStep(nconn, q, e) PROVE ClientKnows(q, e)'
  <2>1. Head(conn[nconn].s2c) = [eset |-> e]
    BY <1>1, <1>3, <1>7, HeardMsg DEF ServerMsg
  <2>2. c_n = RowLen[q] /\ c_nmatch = Len(e)
    BY <1>1, <1>2, <1>7 DEF InStep, ClientKnows
  <2> QED
    BY <1>1, <1>7, <2>1, <2>2 DEF RecvEset, ClientKnows
<1> QED
  BY <1>1, <1>4, <1>5, <1>6, <1>7, ClientRecvInv DEF RecvEset

(* A new connection, or nobody to connect to. *)
LEMMA ConnectInv == SearchInv /\ Connect => SearchInv'
<1> SUFFICES ASSUME SearchInv, Connect PROVE SearchInv'
  OBVIOUS
<1>1. /\ cpc = "connect" /\ q <= NQueries
      /\ UNCHANGED <<q, c_n, c_i, c_nmatch, c_eset, runs, reported, serverVars>>
  BY DEF Connect
<1>2. /\ TypeOK /\ ClientOK /\ ServerOK /\ conn \in [Conns -> Connections] /\ nconn \in Nat
      /\ 1 .. nconn \subseteq Conns /\ Conns \subseteq Nat /\ q \in Queries /\ runs \in 1 .. MaxRuns
      /\ nconn <= (runs - 1) * NQueries + q - 1 /\ c_eset = <<>>
  BY <1>1, Parts, Types, ConnsType DEF ClientOK
<1>3. nconn + 1 <= (runs - 1) * NQueries + q /\ nconn <= runs * NQueries /\ nconn + 1 \in Conns
  <2>1. PICK a, z \in Nat : /\ (runs - 1) * NQueries = a /\ runs * NQueries = a + NQueries
                           /\ a + NQueries <= z /\ Conns = 1 .. z
                           /\ q \in Nat /\ 1 <= q /\ q <= NQueries /\ NQueries \in Nat
    BY <1>2, RunsCounter
  <2>2. nconn \in Nat /\ nconn <= a + q - 1
    BY <1>2, <2>1
  <2>3. nconn + 1 <= a + q /\ nconn <= a + NQueries /\ nconn + 1 \in 1 .. z
    BY <2>1, <2>2
  <2> QED
    BY <2>1, <2>3
<1>4. ServerOK'
  <2>1. ServerOK => (\/ UNCHANGED serverVars /\ nconn' \in Nat /\ nconn' >= nconn => ServerOK')
    BY <1>2 DEF ServerOK, serverVars
  <2>2. nconn' \in Nat /\ nconn' >= nconn
    BY <1>2 DEF Connect
  <2> QED
    BY <1>1, <1>2, <2>1, <2>2
<1>5. CASE spc = "down"
  <2>1. cpc' = "exited" /\ UNCHANGED <<conn, nconn>>
    BY <1>5 DEF Connect
  <2>2. TypeOK' /\ ClientOK'
    BY <1>1, <1>2, <1>3, <2>1 DEF TypeOK, ClientOK, serverVars
  <2>3. \A c \in Conns : ~ClientOn(c) /\ ~ClientOn(c)'
    BY <1>1, <2>1 DEF ClientOn
  <2>4. \A c \in Conns : LinkOK(c)' /\ (TalkOK(c) => TalkOK(c)')
    BY <1>1, <2>1, <2>3, ClientElsewhere
  <2>5. ReportOK'
    BY <1>1, <1>2, <2>1, ReportKept
  <2> QED
    BY <1>2, <1>4, <2>1, <2>2, <2>4, <2>5 DEF SearchInv
<1>6. CASE spc # "down"
  <2> PICK c \in Conns : c = nconn + 1
    BY <1>3
  <2> DEFINE r == [Unused EXCEPT !.cl = TRUE, !.sv = "queued"]
  <2>1. cpc' = "stag" /\ nconn' = c /\ conn' = [conn EXCEPT ![c] = r]
    BY <1>6 DEF Connect
  <2>2. /\ r \in Connections /\ r.cl /\ r.sv = "queued" /\ r.c2s = <<>> /\ r.s2c = <<>>
        /\ ~r.cut /\ ~r.disturbed
    <3>1. Unused \in Connections /\ ~Unused.cut /\ ~Unused.disturbed
          /\ Unused.c2s = <<>> /\ Unused.s2c = <<>>
      BY DEF Unused, Connections
    <3>2. ASSUME NEW u \in Connections
          PROVE  LET v == [u EXCEPT !.cl = TRUE, !.sv = "queued"]
                 IN  /\ v \in Connections /\ v.cl /\ v.sv = "queued" /\ v.c2s = u.c2s
                     /\ v.s2c = u.s2c /\ v.cut = u.cut /\ v.disturbed = u.disturbed
      BY DEF Connections
    <3> QED
      BY <3>1, <3>2
  <2> HIDE DEF r
  <2>3. /\ conn' \in [Conns -> Connections] /\ conn'[c] = r
        /\ \A d \in Conns : d # c => conn'[d] = conn[d]
    BY <1>2, <1>3, <2>1, <2>2, Updated
  <2>4. TypeOK' /\ ClientOK'
    <3>1. nconn' \in 0 .. MaxRuns * NQueries
      BY <1>2, <1>3, <2>1 DEF Conns
    <3> QED
      BY <1>1, <1>2, <1>3, <2>1, <2>3, <3>1 DEF TypeOK, ClientOK, serverVars
  <2>5. ClientOn(c)' /\ ~ServerOn(c) /\ ~ServerOn(c)'
    <3>1. ClientOn(c)'
      BY <2>1 DEF ClientOn
    <3>2. c > nconn
      BY <1>2
    <3>3. ~ServerOn(c)
      BY <1>3, <3>2 DEF SearchInv, LinkOK
    <3> QED
      BY <1>1, <3>1, <3>3 DEF ServerOn, serverVars
  <2>6. LinkOK(c)'
    BY <1>2, <2>1, <2>2, <2>3, <2>5 DEF LinkOK
  <2>7. Talk(c, q, <<>>)'
    <3>1. /\ Sent(c, q)' = 0 /\ Taken(c, q)' = 0 /\ Given(c)' = 0 /\ Heard(c)' = 0
      BY <1>1, <2>1, <2>2, <2>3, <2>5 DEF Sent, Taken, Given, Heard
    <3>2. Len(conn'[c].c2s) = 0 /\ Len(conn'[c].s2c) = 0
      BY <2>2, <2>3
    <3>3. OfQuery(c, q)'
      BY <1>1, <1>2, <2>5, <3>2 DEF OfQuery
    <3>4. InStep(c, q, <<>>)'
      BY <2>1, <2>5, <3>1, <3>2 DEF InStep, ClientKnows
    <3> QED
      BY <1>1, <3>3, <3>4 DEF Talk
  <2>8. TalkOK(c)'
    <3>1. <<>> \in Seq(Own(q))
      OBVIOUS
    <3> QED
      BY <1>1, <1>2, <2>7, <3>1 DEF TalkOK
  <2>9. ASSUME NEW d \in Conns, d # c
        PROVE  LinkOK(d)' /\ (TalkOK(d) => TalkOK(d)')
    <3>1. ~ClientOn(d) /\ ~ClientOn(d)' /\ conn'[d] = conn[d]
      BY <1>1, <2>1, <2>3, <2>9 DEF ClientOn
    <3>2. d > nconn' <=> d > nconn
      BY <1>2, <2>1, <2>9
    <3> QED
      BY <1>1, <3>1, <3>2, ClientElsewhere
  <2>10. \A d \in 1 .. nconn' : d = c \/ d \in 1 .. nconn
    BY <1>2, <2>1
  <2>11. ReportOK'
    <3>1. \A d \in 1 .. nconn : conn'[d] = conn[d]
      BY <1>2, <2>3
    <3> QED
      BY <1>1, <1>2, <2>1, <3>1, ReportKept
  <2> QED
    BY <1>2, <1>4, <2>4, <2>6, <2>8, <2>9, <2>10, <2>11 DEF SearchInv
<1> QED
  BY <1>5, <1>6

(* The query's line is written, the connection closed. *)
LEMMA ReportInv == SearchInv /\ Report => SearchInv'
<1> SUFFICES ASSUME SearchInv, Report PROVE SearchInv'
  OBVIOUS
<1> DEFINE c == nconn
           r == ClientEndClosed(conn[c])
           ids == {IF k <= Len(c_eset) THEN c_eset[k] ELSE Junk : k \in 1 .. c_nmatch}
           line == [query |-> q, over |-> nconn, ids |-> ids]
<1>1. /\ cpc = "report" /\ reported' = Append(reported, line)
      /\ conn' = [conn EXCEPT ![c] = r]
      /\ q' = q + 1 /\ cpc' = IF q = NQueries THEN "finished" ELSE "connect"
      /\ c_n' = 0 /\ c_i' = 0 /\ c_nmatch' = 0 /\ c_eset' = <<>>
      /\ UNCHANGED <<nconn, runs, serverVars>>
  BY DEF Report, FreeClientFrame
<1>2. /\ c \in Conns /\ c \in 1 .. nconn /\ nconn \in Nat /\ q \in Queries /\ ClientOn(c)
      /\ LinkOK(c) /\ conn[c] \in Connections /\ conn[c].cl
  BY <1>1, ClientAt
<1>3. PICK e \in Seq(Own(q)) : Talk(c, q, e)
  BY <1>1, ClientAt
<1>4. /\ TypeOK /\ ClientOK /\ ServerOK /\ conn \in [Conns -> Connections] /\ c_i = c_n
      /\ nconn <= (runs - 1) * NQueries + q /\ runs \in 1 .. MaxRuns /\ c_eset \in Seq(Own(q))
      /\ c_nmatch \in Nat
  <2>1. TypeOK /\ ClientOK /\ ServerOK
    BY DEF SearchInv
  <2>2. c_i = c_n /\ nconn <= (runs - 1) * NQueries + q
    BY <1>1, <2>1 DEF ClientOK
  <2>3. conn \in [Conns -> Connections] /\ runs \in 1 .. MaxRuns /\ c_nmatch \in Nat
    BY <2>1 DEF TypeOK
  <2>4. c_eset \in Seq(Own(q))
    BY <1>2, <1>3 DEF Talk, OfQuery
  <2> QED
    BY <2>1, <2>2, <2>3, <2>4
<1>5. /\ conn' \in [Conns -> Connections] /\ conn'[c] = r
      /\ \A d \in Conns : d # c => conn'[d] = conn[d]
  <2>1. r \in Connections
    BY <1>2, EndClosedType
  <2> HIDE DEF r
  <2> QED
    BY <1>1, <1>2, <1>4, <2>1, Updated
<1>6. /\ ~r.cl /\ r.s2c = <<>> /\ r.sv = conn[c].sv /\ r.cut = conn[c].cut
      /\ r.c2s = conn[c].c2s /\ r.disturbed = conn[c].disturbed
  BY <1>2, EndClosedType
<1> HIDE DEF r
<1>7. TypeOK' /\ ServerOK'
  <2>1. q' \in 1 .. NQueries + 1
    BY <1>1, <1>2, Numbers DEF Queries
  <2>2. cpc' \in {"finished", "connect"}
    BY <1>1
  <2>3. c_eset' \in Seq(EntryIds)
    BY <1>1
  <2> QED
    BY <1>1, <1>4, <1>5, <2>1, <2>2, <2>3, Numbers DEF TypeOK, ServerOK, serverVars
<1>8. ClientOK'
  <2>1. nconn <= runs * NQueries /\ nconn <= (runs - 1) * NQueries + (q + 1) - 1
    <3>1. PICK a, z \in Nat : /\ (runs - 1) * NQueries = a /\ runs * NQueries = a + NQueries
                             /\ q \in Nat /\ q <= NQueries /\ NQueries \in Nat
      BY <1>2, <1>4, RunsCounter
    <3>2. nconn \in Nat /\ nconn <= a + q
      BY <1>2, <1>4, <3>1
    <3>3. nconn <= a + NQueries /\ nconn <= a + (q + 1) - 1
      BY <3>1, <3>2
    <3> QED
      BY <3>1, <3>3
  <2>2. q # NQueries => q + 1 \in Queries
    BY <1>2, Numbers DEF Queries
  <2> QED
    BY <1>1, <2>1, <2>2 DEF ClientOK
<1>9. ~ClientOn(c)' /\ ServerOn(c)' = ServerOn(c) /\ Heard(c) = 3 /\ Heard(c)' = 3
  BY <1>1, <1>2 DEF ClientOn, ServerOn, Heard, serverVars
<1>10. Given(c)' = Given(c)
  BY <1>1, <1>5, <1>6, <1>9 DEF Given, serverVars
<1>11. LinkOK(c)'
  BY <1>1, <1>2, <1>5, <1>6, <1>9 DEF LinkOK
<1>12. ASSUME ~conn[c].disturbed
       PROVE  Given(c) = 3 /\ Range(e) = Answer(q) /\ c_n = RowLen[q] /\ c_nmatch = Len(e) /\ c_eset = e
  <2>1. InStep(c, q, e)
    BY <1>3, <1>12 DEF Talk
  <2>2. Given(c) \in 0 .. 3 /\ Len(conn[c].s2c) \in Nat
    BY <1>2, FieldsType DEF Given
  <2>3. Given(c) = 3
    BY <1>9, <2>1, <2>2 DEF InStep
  <2> QED
    BY <1>1, <1>2, <2>1, <2>3 DEF InStep, ClientKnows
<1>13. TalkOK(c)'
  <2>1. ASSUME NEW x, x = q PROVE OfQuery(c, x)' /\ (~conn'[c].disturbed => InStep(c, x, e)')
    <3>1. Taken(c, x)' = Taken(c, x)
      BY <1>1, <1>5, <1>6, <1>9 DEF Taken, serverVars
    <3>2. OfQuery(c, x)'
      BY <1>1, <1>3, <1>5, <1>6, <1>9, <2>1, <3>1 DEF Talk, OfQuery, serverVars
    <3>3. ASSUME ~conn'[c].disturbed PROVE InStep(c, x, e)'
      <4>1. InStep(c, x, e) /\ ~conn[c].disturbed
        BY <1>3, <1>5, <1>6, <2>1, <3>3 DEF Talk
      <4>2. Sent(c, x)' = Sent(c, x)
        BY <1>1, <1>2, <1>4, <1>9, <1>12, <2>1, <4>1 DEF Sent
      <4>3. ServerKnows(x, e)' = ServerKnows(x, e)
        BY <1>1 DEF ServerKnows, Range, serverVars
      <4> QED
        BY <1>1, <1>5, <1>6, <1>9, <1>10, <1>12, <3>1, <4>1, <4>2, <4>3 DEF InStep
    <3> QED
      BY <3>2, <3>3
  <2>2. PICK x \in Queries : x = q
    BY <1>2
  <2>3. e \in Seq(Own(x)) /\ Talk(c, x, e)'
    BY <1>1, <1>3, <2>1, <2>2 DEF Talk
  <2> QED
    BY <1>1, <2>2, <2>3 DEF TalkOK
<1>14. (\A d \in Conns : LinkOK(d)') /\ (\A d \in 1 .. nconn' : TalkOK(d)')
  BY <1>1, <1>2, <1>5, <1>11, <1>13, ClientSide
<1>15. ids \subseteq Own(q)
  <2>1. ASSUME NEW k \in 1 .. c_nmatch
        PROVE  (IF k <= Len(c_eset) THEN c_eset[k] ELSE Junk) \in Own(q)
    BY <1>4 DEF Own
  <2> QED
    BY <2>1
<1>16. ~conn[c].disturbed => ids = Answer(q)
  <2> SUFFICES ASSUME ~conn[c].disturbed PROVE ids = Answer(q)
    OBVIOUS
  <2>1. Range(e) = Answer(q) /\ c_nmatch = Len(e) /\ c_eset = e
    BY <1>12
  <2>2. Range(e) = {e[k] : k \in 1 .. Len(e)}
    BY <1>3 DEF Range
  <2>3. ids = {e[k] : k \in 1 .. Len(e)}
    BY <1>3, <2>1
  <2> QED
    BY <2>1, <2>2, <2>3
<1>17. ReportOK'
  <2> DEFINE Reports == [query : Queries, over : 1 .. nconn, ids : SUBSET EntryIds]
  <2>1. reported \in Seq(Reports)
    BY DEF SearchInv, ReportOK
  <2>2. line \in Reports /\ line.query = q /\ line.over = c /\ line.ids = ids
    <3>1. Own(q) \subseteq EntryIds
      BY <1>2 DEF Own, EntryIds
    <3> HIDE DEF ids
    <3>2. ids \in SUBSET EntryIds
      BY <1>15, <3>1
    <3> QED
      BY <1>2, <3>2
  <2> HIDE DEF Reports, line, ids
  <2>3. /\ reported' \in Seq(Reports) /\ Len(reported) \in Nat
        /\ \A k \in 1 .. Len(reported) : reported'[k] = reported[k]
        /\ reported'[Len(reported) + 1] = line
        /\ \A k \in 1 .. Len(reported') : k \in 1 .. Len(reported) \/ k = Len(reported) + 1
    BY <1>1, <2>1, <2>2, AppendFacts
  <2>4. DOMAIN reported' = 1 .. Len(reported') /\ DOMAIN reported = 1 .. Len(reported)
    BY <2>1, <2>3
  <2>5. \A k \in 1 .. Len(reported) : reported[k] \in Reports
    BY <2>1
  <2>6. \A k \in 1 .. Len(reported) : reported[k].over \in 1 .. nconn
    BY <2>5 DEF Reports
  <2>7. \A d \in 1 .. nconn : conn'[d].disturbed = conn[d].disturbed
    BY <1>4, <1>5, <1>6, ConnsType
  <2>8. ASSUME NEW k \in 1 .. Len(reported')
        PROVE  /\ reported'[k].ids \subseteq Own(reported'[k].query)
               /\ ~conn'[reported'[k].over].disturbed => reported'[k].ids = Answer(reported'[k].query)
    <3>1. CASE k \in 1 .. Len(reported)
      BY <2>3, <2>4, <2>6, <2>7, <3>1 DEF SearchInv, ReportOK, UndisturbedExact
    <3>2. CASE k = Len(reported) + 1
      BY <1>2, <1>15, <1>16, <2>2, <2>3, <2>7, <3>2
    <3> QED
      BY <2>3, <3>1, <3>2
  <2>9. reported' \in Seq([query : Queries, over : 1 .. nconn', ids : SUBSET EntryIds])
    BY <1>1, <2>3 DEF Reports
  <2> QED
    BY <2>4, <2>8, <2>9 DEF ReportOK, UndisturbedExact
<1> QED
  BY <1>7, <1>8, <1>14, <1>17 DEF SearchInv

-----------------------------------------------------------------------------
(* What is left of answers under way is the first of them, the last of these *)
(* perhaps a piece of an ESET.                                               *)
LEMMA RemainsFacts ==
  ASSUME NEW s \in Seq(ToClient), NEW t \in Remains(s)
  PROVE  /\ t \in Seq(ToClient) /\ Len(t) \in Nat /\ Len(t) <= Len(s)
         /\ \A k \in 1 .. Len(t) :
              /\ k \in 1 .. Len(s)
              /\ \/ t[k] = s[k]
                 \/ /\ "eset" \in DOMAIN s[k]
                    /\ \E part \in Prefixes(s[k].eset) : t[k] = [eset |-> part]
<1>1. Len(s) \in Nat /\ DOMAIN s = 1 .. Len(s)
  OBVIOUS
<1>2. CASE t \in Prefixes(s)
  BY <1>2, PrefixFacts
<1>3. CASE \E k \in DOMAIN s : /\ "eset" \in DOMAIN s[k]
                               /\ \E part \in Prefixes(s[k].eset) :
                                    t = Append(SubSeq(s, 1, k - 1), [eset |-> part])
  <2>0. PICK k \in DOMAIN s : /\ "eset" \in DOMAIN s[k]
                              /\ \E part \in Prefixes(s[k].eset) :
                                   t = Append(SubSeq(s, 1, k - 1), [eset |-> part])
    BY <1>3
  <2>1. PICK part \in Prefixes(s[k].eset) :
          /\ k \in 1 .. Len(s) /\ "eset" \in DOMAIN s[k]
          /\ t = Append(SubSeq(s, 1, k - 1), [eset |-> part])
    BY <1>1, <2>0
  <2> DEFINE m == [eset |-> part]
             front == SubSeq(s, 1, k - 1)
  <2>2. m \in ToClient
    <3>1. s[k] \in ToClient
      BY <2>1, SequenceOver
    <3>2. s[k] \in [eset : Seq(EntryIds)]
      <4>1. s[k] \notin [n : 1 .. MaxRow]
        BY <2>1
      <4>2. s[k] \notin [nmatch : 0 .. MaxRow]
        BY <2>1
      <4> QED
        BY <3>1, <4>1, <4>2 DEF ToClient
    <3>3. s[k].eset \in Seq(EntryIds)
      BY <3>2
    <3>4. part \in Seq(EntryIds)
      BY <2>1, <3>3, PrefixFacts
    <3>5. m \in [eset : Seq(EntryIds)]
      BY <3>4
    <3> QED
      BY <3>5 DEF ToClient
  <2>3. k \in Nat /\ k - 1 \in Nat /\ k - 1 <= Len(s) /\ k >= 1 /\ k <= Len(s)
    BY <1>1, <2>1
  <2>4. front \in Seq(ToClient)
    BY <1>1, <2>3
  <2>5. Len(front) = k - 1
    BY <1>1, <2>3
  <2>6. \A j \in 1 .. k - 1 : front[j] = s[j]
    BY <1>1, <2>3
  <2> HIDE DEF front
  <2>7. t = Append(front, m)
    BY <2>1 DEF front
  <2> HIDE DEF m
  <2>8. /\ t \in Seq(ToClient) /\ Len(t) = k /\ t[k] = m
        /\ \A j \in 1 .. Len(front) : t[j] = front[j]
    BY <2>2, <2>3, <2>4, <2>5, <2>7, AppendFacts
  <2>9. ASSUME NEW j \in 1 .. Len(t)
        PROVE  j \in 1 .. Len(s) /\ (t[j] = s[j] \/ j = k)
    BY <1>1, <2>3, <2>5, <2>6, <2>8
  <2> QED
    BY <1>1, <2>1, <2>3, <2>8, <2>9 DEF m
<1> QED
  BY <1>2, <1>3 DEF Remains

(* The same where they are of one query. *)
LEMMA RemainsOfQuery ==
  ASSUME NEW s \in Seq(ToClient), NEW t \in Remains(s), NEW query, NEW h \in Nat,
         \A k \in 1 .. Len(s) : s[k] \in ServerMsgs(query, h + k)
  PROVE  \A k \in 1 .. Len(t) : t[k] \in ServerMsgs(query, h + k)
<1> SUFFICES ASSUME NEW k \in 1 .. Len(t) PROVE t[k] \in ServerMsgs(query, h + k)
  OBVIOUS
<1>1. k \in 1 .. Len(s) /\ s[k] \in ServerMsgs(query, h + k)
  BY RemainsFacts
<1>2. CASE t[k] = s[k]
  BY <1>1, <1>2
<1>3. CASE "eset" \in DOMAIN s[k] /\ \E part \in Prefixes(s[k].eset) : t[k] = [eset |-> part]
  <2>1. PICK part \in Prefixes(s[k].eset) : t[k] = [eset |-> part]
    BY <1>3
  <2>2. s[k] \notin [n : 1 .. MaxRow]
    BY <1>3
  <2>3. s[k] \notin [nmatch : 0 .. MaxRow]
    BY <1>3
  <2>4. h + k = 3 /\ s[k] \in [eset : Seq(Own(query))]
    BY <1>1, <2>2, <2>3 DEF ServerMsgs
  <2>5. s[k].eset \in Seq(Own(query))
    BY <2>4
  <2>6. part \in Seq(Own(query))
    BY <2>1, <2>5, PrefixFacts
  <2>7. t[k] \in [eset : Seq(Own(query))]
    BY <2>1, <2>6
  <2> QED
    BY <2>4, <2>7 DEF ServerMsgs
<1> QED
  BY <1>2, <1>3, RemainsFacts

(* The path is cut. *)
LEMMA CutInv ==
  ASSUME SearchInv, NEW c \in Conns, Cut(c)
  PROVE  SearchInv'
<1>1. /\ Live(c) /\ ~conn[c].cut /\ UNCHANGED <<nconn, clientVars, serverVars>>
  BY DEF Cut
<1>2. PICK c2s \in Prefixes(conn[c].c2s), s2c \in Remains(conn[c].s2c) :
        conn' = [conn EXCEPT ![c].cut = TRUE, ![c].disturbed = TRUE,
                             ![c].c2s = c2s, ![c].s2c = s2c]
  BY DEF Cut
<1>3. /\ TypeOK /\ ClientOK /\ ServerOK /\ conn \in [Conns -> Connections] /\ nconn \in Nat
      /\ conn[c] \in Connections /\ LinkOK(c) /\ 1 .. nconn \subseteq Conns /\ c \in Nat /\ c >= 1
  <2>1. TypeOK /\ ClientOK /\ ServerOK /\ LinkOK(c)
    BY DEF SearchInv
  <2>2. conn \in [Conns -> Connections] /\ conn[c] \in Connections
    BY <2>1 DEF TypeOK
  <2>3. nconn \in Nat /\ 1 .. nconn \subseteq Conns /\ c \in Nat
    BY <2>1, ConnsType
  <2>4. c >= 1
    BY DEF Conns
  <2> QED
    BY <2>1, <2>2, <2>3, <2>4
<1>4. /\ conn[c].c2s \in Seq(ToServer) /\ conn[c].s2c \in Seq(ToClient)
      /\ conn[c].sv \in {"unused", "queued", "open", "closed"}
  BY <1>3, FieldsType
<1>5. c \in 1 .. nconn
  <2>1. conn[c].sv # "unused"
    BY <1>1, <1>3 DEF Live, LinkOK, ClientOn
  <2> QED
    BY <1>3, <2>1 DEF LinkOK
<1>6. /\ c2s \in Seq(ToServer) /\ Len(c2s) \in Nat /\ Len(c2s) <= Len(conn[c].c2s)
      /\ \A k \in 1 .. Len(c2s) : c2s[k] = conn[c].c2s[k] /\ k \in 1 .. Len(conn[c].c2s)
  BY <1>4, PrefixFacts
<1>7. s2c \in Seq(ToClient) /\ Len(s2c) \in Nat /\ Len(s2c) <= Len(conn[c].s2c)
  BY <1>4, RemainsFacts
<1> DEFINE r == [conn[c] EXCEPT !.cut = TRUE, !.disturbed = TRUE, !.c2s = c2s, !.s2c = s2c]
<1>8. /\ r \in Connections /\ r.cut /\ r.disturbed /\ r.c2s = c2s /\ r.s2c = s2c
      /\ r.sv = conn[c].sv /\ r.cl = conn[c].cl
  BY <1>3, <1>6, <1>7 DEF Connections
<1>9. conn' = [conn EXCEPT ![c] = r]
  BY <1>2
<1> HIDE DEF r
<1>10. /\ conn' \in [Conns -> Connections] /\ conn'[c] = r
       /\ \A d \in Conns : d # c => conn'[d] = conn[d]
  BY <1>3, <1>8, <1>9, Updated
<1>11. TypeOK' /\ ClientOK' /\ ServerOK'
  BY <1>1, <1>3, <1>10 DEF TypeOK, ClientOK, ServerOK, clientVars, serverVars
<1>12. \A d \in Conns : ClientOn(d)' = ClientOn(d) /\ ServerOn(d)' = ServerOn(d)
  BY <1>1 DEF ClientOn, ServerOn, clientVars, serverVars
<1>13. \A query, e : ServerKnows(query, e)' = ServerKnows(query, e)
                  /\ ClientKnows(query, e)' = ClientKnows(query, e)
  BY <1>1 DEF ServerKnows, ClientKnows, Range, clientVars, serverVars
<1>14. ASSUME NEW d \in Conns
       PROVE  /\ Heard(d)' = Heard(d) /\ Given(d)' = Given(d)
              /\ \A query : Taken(d, query)' = Taken(d, query) /\ Sent(d, query)' = Sent(d, query)
  <2>1. conn'[d].sv = conn[d].sv
    BY <1>8, <1>10
  <2> QED
    BY <1>1, <1>12, <2>1 DEF Heard, Given, Taken, Sent, clientVars, serverVars
<1>15. ASSUME NEW d \in Conns, d # c PROVE LinkOK(d)' /\ (TalkOK(d) => TalkOK(d)')
  <2>1. conn'[d] = conn[d]
    BY <1>10, <1>15
  <2>2. LinkOK(d)'
    BY <1>1, <1>12, <2>1 DEF SearchInv, LinkOK
  <2>3. ASSUME NEW query, NEW e, Talk(d, query, e) PROVE Talk(d, query, e)'
    <3>1. OfQuery(d, query)'
      BY <1>1, <1>12, <1>14, <2>1, <2>3 DEF Talk, OfQuery, clientVars, serverVars
    <3>2. ~conn[d].disturbed => InStep(d, query, e)'
      BY <1>12, <1>13, <1>14, <2>1, <2>3 DEF Talk, InStep
    <3> QED
      BY <2>1, <3>1, <3>2 DEF Talk
  <2> QED
    BY <2>2, <2>3 DEF TalkOK
<1>16. LinkOK(c)'
  <2>1. conn[c].sv = "closed" => c2s = <<>>
    BY <1>3, <1>4, <1>6, EmptySequence DEF LinkOK
  <2>2. ~conn[c].cl => s2c = <<>>
    BY <1>3, <1>4, <1>7, EmptySequence DEF LinkOK
  <2>3. ~conn[c].cl \/ conn[c].sv # "unused"
    BY <1>1, <1>5, <1>3 DEF Live, LinkOK
  <2> QED
    BY <1>1, <1>3, <1>8, <1>10, <1>12, <2>1, <2>2 DEF LinkOK
<1>17. TalkOK(c)'
  <2>0. PICK query \in Queries : \E e \in Seq(Own(query)) : Talk(c, query, e)
    BY <1>5 DEF SearchInv, TalkOK
  <2>1. PICK e \in Seq(Own(query)) : Talk(c, query, e)
    BY <2>0
  <2>2. OfQuery(c, query)
    BY <2>1 DEF Talk
  <2>3. Heard(c) \in Nat
    BY DEF Heard
  <2>4. \A k \in 1 .. Len(s2c) : s2c[k] \in ServerMsgs(query, Heard(c) + k)
    BY <1>2, <1>4, <2>2, <2>3, RemainsOfQuery DEF OfQuery
  <2>5. \A k \in 1 .. Len(c2s) : c2s[k] = ClientMsg(query, Taken(c, query) + k)
    BY <1>6, <2>2 DEF OfQuery
  <2>6. OfQuery(c, query)'
    BY <1>1, <1>8, <1>10, <1>12, <1>14, <2>2, <2>4, <2>5 DEF OfQuery, clientVars, serverVars
  <2>7. Talk(c, query, e)'
    BY <1>8, <1>10, <2>6 DEF Talk
  <2> QED
    BY <2>1, <2>7 DEF TalkOK
<1>18. ReportOK'
  <2>1. \A d \in 1 .. nconn : ~conn'[d].disturbed => ~conn[d].disturbed
    BY <1>3, <1>8, <1>10
  <2> QED
    BY <1>1, <1>3, <2>1, ReportKept DEF clientVars
<1> QED
  BY <1>1, <1>5, <1>11, <1>15, <1>16, <1>17, <1>18, <1>3 DEF SearchInv

(* The client dies inside a query. *)
LEMMA ClientCrashInv == SearchInv /\ ClientCrash => SearchInv'
<1> SUFFICES ASSUME SearchInv, ClientCrash PROVE SearchInv'
  OBVIOUS
<1> DEFINE c == nconn
<1>1. /\ cpc \notin {"connect", "exited", "finished"} /\ cpc' = "exited"
      /\ UNCHANGED <<nconn, q, c_n, c_i, c_nmatch, c_eset, runs, reported, serverVars>>
  BY DEF ClientCrash
<1>2. PICK c2s \in Prefixes(conn[c].c2s) :
        conn' = [conn EXCEPT ![nconn] = [ClientEndClosed(@) EXCEPT !.c2s = c2s, !.disturbed = TRUE]]
  BY DEF ClientCrash
<1>3. cpc \in {"stag", "n", "tokens", "count", "eset", "report"}
  BY <1>1 DEF SearchInv, TypeOK
<1>4. /\ c \in Conns /\ c \in 1 .. nconn /\ nconn \in Nat /\ q \in Queries /\ ClientOn(c)
      /\ LinkOK(c) /\ conn[c] \in Connections /\ conn[c].cl
      /\ conn[c].sv \in {"queued", "open", "closed"} /\ OfQuery(c, q)
  BY <1>3, ClientAt DEF Talk
<1>5. /\ TypeOK /\ ClientOK /\ ServerOK /\ conn \in [Conns -> Connections] /\ runs \in 1 .. MaxRuns
      /\ nconn <= (runs - 1) * NQueries + q
  BY <1>3, Parts, Types DEF ClientOK
<1>6. conn[c].c2s \in Seq(ToServer)
  BY <1>4, FieldsType
<1>7. /\ c2s \in Seq(ToServer) /\ Len(c2s) \in Nat /\ Len(c2s) <= Len(conn[c].c2s)
      /\ \A k \in 1 .. Len(c2s) : c2s[k] = conn[c].c2s[k] /\ k \in 1 .. Len(conn[c].c2s)
  BY <1>6, PrefixFacts
<1> DEFINE end == ClientEndClosed(conn[c])
           r == [end EXCEPT !.c2s = c2s, !.disturbed = TRUE]
<1>8. /\ end \in Connections /\ ~end.cl /\ end.s2c = <<>> /\ end.sv = conn[c].sv
      /\ end.cut = conn[c].cut
  BY <1>4, EndClosedType
<1>9. /\ r \in Connections /\ ~r.cl /\ r.s2c = <<>> /\ r.sv = conn[c].sv /\ r.cut = conn[c].cut
      /\ r.c2s = c2s /\ r.disturbed
  <2> HIDE DEF end
  <2> QED
    BY <1>7, <1>8 DEF Connections
<1>10. conn' = [conn EXCEPT ![c] = r]
  BY <1>2
<1> HIDE DEF r
<1>11. /\ conn' \in [Conns -> Connections] /\ conn'[c] = r
       /\ \A d \in Conns : d # c => conn'[d] = conn[d]
  BY <1>4, <1>5, <1>9, <1>10, Updated
<1>12. TypeOK' /\ ServerOK'
  BY <1>1, <1>5, <1>11 DEF TypeOK, ServerOK, serverVars
<1>13. ClientOK'
  <2>1. nconn <= runs * NQueries
    BY <1>4, <1>5, RunsBound, Numbers DEF Queries
  <2> QED
    BY <1>1, <1>5, <2>1 DEF ClientOK
<1>14. ~ClientOn(c)' /\ ServerOn(c)' = ServerOn(c) /\ Taken(c, q)' = Taken(c, q)
  BY <1>1, <1>9, <1>11 DEF ClientOn, ServerOn, Taken, serverVars
<1>15. LinkOK(c)'
  <2>1. conn[c].sv = "closed" => c2s = <<>>
    BY <1>4, <1>6, <1>7, EmptySequence DEF LinkOK
  <2> QED
    BY <1>1, <1>4, <1>9, <1>11, <1>14, <2>1 DEF LinkOK
<1>16. TalkOK(c)'
  <2>1. OfQuery(c, q)'
    BY <1>1, <1>4, <1>7, <1>9, <1>11, <1>14 DEF OfQuery, serverVars
  <2>2. <<>> \in Seq(Own(q))
    OBVIOUS
  <2> QED
    BY <1>1, <1>4, <1>9, <1>11, <2>1, <2>2 DEF TalkOK, Talk
<1>17. (\A d \in Conns : LinkOK(d)') /\ (\A d \in 1 .. nconn' : TalkOK(d)')
  BY <1>1, <1>4, <1>11, <1>15, <1>16, ClientSide
<1>18. ReportOK'
  <2>1. \A d \in 1 .. nconn : ~conn'[d].disturbed => ~conn[d].disturbed
    BY <1>5, <1>9, <1>11, ConnsType
  <2> QED
    BY <1>1, <1>4, <2>1, ReportKept
<1> QED
  BY <1>12, <1>13, <1>17, <1>18 DEF SearchInv

(* The client starts over. *)
LEMMA RestartClientInv == SearchInv /\ RestartClient => SearchInv'
<1> SUFFICES ASSUME SearchInv, RestartClient PROVE SearchInv'
  OBVIOUS
<1>1. /\ cpc \in {"exited", "finished"} /\ runs < MaxRuns /\ runs' = runs + 1
      /\ cpc' = "connect" /\ q' = 1 /\ reported' = <<>>
      /\ c_n' = 0 /\ c_i' = 0 /\ c_nmatch' = 0 /\ c_eset' = <<>>
      /\ UNCHANGED <<conn, nconn, serverVars>>
  BY DEF RestartClient, FreeClientFrame
<1>2. /\ TypeOK /\ ClientOK /\ ServerOK /\ runs \in 1 .. MaxRuns /\ nconn <= runs * NQueries
      /\ nconn \in Nat /\ 1 .. nconn \subseteq Conns
  BY <1>1, Parts, Types, ConnsType DEF ClientOK
<1>3. runs' \in 1 .. MaxRuns /\ (runs' - 1) = runs /\ runs * NQueries \in Nat
  BY <1>1, <1>2, RunsBound, Numbers
<1>4. TypeOK' /\ ServerOK'
  <2>1. c_eset' \in Seq(EntryIds) /\ q' \in 1 .. NQueries + 1
    BY <1>1, Numbers
  <2> QED
    BY <1>1, <1>2, <1>3, <2>1, Numbers DEF TypeOK, ServerOK, serverVars
<1>5. ClientOK'
  <2> DEFINE before == (runs' - 1) * NQueries
  <2>0. before = runs * NQueries /\ before \in Nat
    BY <1>3
  <2> HIDE DEF before
  <2>1. 1 \in Queries /\ nconn <= before + 1 - 1
    BY <1>2, <1>3, <2>0, Numbers DEF Queries
  <2> QED
    BY <1>1, <2>1 DEF ClientOK, before
<1>6. \A c \in Conns : ~ClientOn(c) /\ ~ClientOn(c)'
  BY <1>1 DEF ClientOn
<1>7. \A c \in Conns : LinkOK(c)' /\ (TalkOK(c) => TalkOK(c)')
  BY <1>1, <1>6, ClientElsewhere
<1>8. ReportOK'
  BY <1>1 DEF ReportOK, UndisturbedExact
<1> QED
  BY <1>1, <1>2, <1>4, <1>5, <1>7, <1>8 DEF SearchInv

-----------------------------------------------------------------------------
(* A server inside a session, and its connection. *)
LEMMA ServerAt ==
  ASSUME SearchInv, spc \in {"stag", "retrieve", "n", "tokens", "eset", "close"}
  PROVE  /\ s_conn \in Conns /\ s_conn \in 1 .. nconn /\ s_conn \in Nat /\ nconn \in Nat
         /\ ServerOn(s_conn) /\ LinkOK(s_conn) /\ conn[s_conn] \in Connections
         /\ conn[s_conn].sv = "open"
         /\ \E query \in Queries : \E e \in Seq(Own(query)) : Talk(s_conn, query, e)
<1>1. s_conn \in 1 .. nconn /\ 1 .. nconn \subseteq Conns /\ nconn \in Nat /\ s_conn \in Nat
  BY ConnsType DEF SearchInv, ServerOK
<1>2. s_conn \in Conns
  BY <1>1
<1>3. ServerOn(s_conn) /\ LinkOK(s_conn) /\ conn[s_conn] \in Connections
  BY <1>2 DEF ServerOn, SearchInv, TypeOK
<1>4. conn[s_conn].sv = "open"
  BY <1>3 DEF LinkOK
<1> QED
  BY <1>1, <1>2, <1>3, <1>4 DEF SearchInv, TalkOK

(* A server in a session has lost its client only when something went wrong. *)
LEMMA ServerGone ==
  ASSUME SearchInv, spc \in {"stag", "retrieve", "n", "tokens", "eset"}, GoneForServer(s_conn)
  PROVE  conn[s_conn].disturbed
<1> SUFFICES ASSUME ~conn[s_conn].disturbed PROVE FALSE
  OBVIOUS
<1>1. /\ ServerOn(s_conn) /\ LinkOK(s_conn) /\ conn[s_conn] \in Connections
      /\ \E query \in Queries : \E e \in Seq(Own(query)) : Talk(s_conn, query, e)
  BY ServerAt
<1>2. PICK query \in Queries : \E e \in Seq(Own(query)) : Talk(s_conn, query, e)
  BY <1>1
<1>3. Len(conn[s_conn].s2c) = Given(s_conn) - Heard(s_conn)
  BY <1>2 DEF Talk, InStep
<1>4. Heard(s_conn) = 3
  BY <1>1 DEF GoneForServer, LinkOK, Heard
<1>5. Given(s_conn) \in 0 .. 2
  BY <1>1 DEF Given
<1>6. Len(conn[s_conn].s2c) \in Nat
  BY <1>1, FieldsType
<1> QED
  BY <1>3, <1>4, <1>5, <1>6

(* The server dies, and all its ends close. *)
LEMMA ServerDiesInv ==
  ASSUME SearchInv, ServerDies,
         UNCHANGED <<nconn, s_conn, s_stag, s_n, s_i, s_xt, s_eset, clientVars>>
  PROVE  SearchInv'
<1>1. /\ TypeOK /\ ClientOK /\ ServerOK /\ conn \in [Conns -> Connections] /\ nconn \in Nat
      /\ 1 .. nconn \subseteq Conns
  BY Parts, Types, ConnsType
<1> DEFINE end(r) == [ServerEndClosed(r) EXCEPT !.disturbed = TRUE]
<1>2. ASSUME NEW r \in Connections
      PROVE  /\ end(r) \in Connections /\ end(r).sv = "closed" /\ end(r).c2s = <<>>
             /\ end(r).disturbed /\ end(r).cl = r.cl /\ end(r).s2c = r.s2c /\ end(r).cut = r.cut
  <2> DEFINE x == ServerEndClosed(r)
  <2>1. /\ x \in Connections /\ x.sv = "closed" /\ x.c2s = <<>>
        /\ x.cl = r.cl /\ x.s2c = r.s2c /\ x.cut = r.cut
    BY EndClosedType
  <2> HIDE DEF x
  <2>2. LET y == [x EXCEPT !.disturbed = TRUE]
        IN  /\ y \in Connections /\ y.sv = x.sv /\ y.c2s = x.c2s
            /\ y.disturbed /\ y.cl = x.cl /\ y.s2c = x.s2c /\ y.cut = x.cut
    BY <2>1 DEF Connections
  <2> QED
    BY <2>1, <2>2 DEF x
<1>3. /\ spc' = "down"
      /\ conn' = [c \in Conns |-> IF conn[c].sv \in {"queued", "open"} THEN end(conn[c]) ELSE conn[c]]
  BY DEF ServerDies
<1> HIDE DEF end
<1>4. conn' \in [Conns -> Connections]
  BY <1>1, <1>2, <1>3
<1>5. TypeOK' /\ ClientOK' /\ ServerOK'
  BY <1>1, <1>3, <1>4 DEF TypeOK, ClientOK, ServerOK, clientVars
<1>6. \A c \in Conns : ~ServerOn(c)' /\ ClientOn(c)' = ClientOn(c) /\ Heard(c)' = Heard(c)
  BY <1>3 DEF ServerOn, ClientOn, Heard, clientVars
<1>7. ASSUME NEW c \in Conns, conn[c].sv \notin {"queued", "open"}
      PROVE  LinkOK(c)' /\ (TalkOK(c) => TalkOK(c)') /\ conn'[c].disturbed = conn[c].disturbed
  <2>1. ~ServerOn(c) /\ conn'[c] = conn[c]
    BY <1>3, <1>7 DEF SearchInv, LinkOK
  <2> QED
    BY <1>6, <2>1, ServerElsewhere
<1>8. ASSUME NEW c \in Conns, conn[c].sv \in {"queued", "open"}
      PROVE  LinkOK(c)' /\ (TalkOK(c) => TalkOK(c)') /\ conn'[c].disturbed
  <2>1. /\ conn'[c].sv = "closed" /\ conn'[c].c2s = <<>> /\ conn'[c].disturbed
        /\ conn'[c].cl = conn[c].cl /\ conn'[c].s2c = conn[c].s2c /\ conn'[c].cut = conn[c].cut
    BY <1>1, <1>2, <1>3, <1>8
  <2>2. LinkOK(c)'
    BY <1>6, <1>8, <2>1 DEF SearchInv, LinkOK
  <2>3. ASSUME NEW query, NEW e, Talk(c, query, e) PROVE Talk(c, query, e)'
    <3>1. OfQuery(c, query)'
      BY <1>6, <2>1, <2>3 DEF Talk, OfQuery, clientVars
    <3> QED
      BY <2>1, <3>1 DEF Talk
  <2> QED
    BY <2>1, <2>2, <2>3 DEF TalkOK
<1>9. ReportOK'
  <2>1. \A c \in 1 .. nconn : ~conn'[c].disturbed => ~conn[c].disturbed
    BY <1>1, <1>7, <1>8
  <2> QED
    BY <1>1, <2>1, ReportKept DEF clientVars
<1> QED
  BY <1>1, <1>5, <1>7, <1>8, <1>9 DEF SearchInv

LEMMA ServerCrashInv == SearchInv /\ ServerCrash => SearchInv'
  BY ServerDiesInv DEF ServerCrash

(* It is started again. *)
LEMMA RestartServerInv == SearchInv /\ RestartServer => SearchInv'
<1> SUFFICES ASSUME SearchInv, RestartServer PROVE SearchInv'
  OBVIOUS
<1>1. /\ spc = "down" /\ spc' = "accept"
      /\ s_stag' = Zero /\ s_n' = 0 /\ s_i' = 0 /\ s_xt' = Zero /\ s_eset' = <<>>
      /\ UNCHANGED <<conn, nconn, s_conn, clientVars>>
  BY DEF RestartServer, FreeServerFrame
<1>2. /\ TypeOK /\ ClientOK /\ ServerOK /\ nconn \in Nat /\ 1 .. nconn \subseteq Conns
  BY ConnsType DEF SearchInv
<1>3. TypeOK' /\ ClientOK' /\ ServerOK'
  <2>1. s_eset' \in Seq(EntryIds) /\ Len(s_eset') = 0
    BY <1>1
  <2> QED
    BY <1>1, <1>2, <2>1, Numbers DEF TypeOK, ClientOK, ServerOK, clientVars
<1>4. \A c \in Conns : ~ServerOn(c) /\ ~ServerOn(c)'
  BY <1>1 DEF ServerOn
<1>5. \A c \in Conns : LinkOK(c)' /\ (TalkOK(c) => TalkOK(c)')
  BY <1>1, <1>4, ServerElsewhere
<1>6. ReportOK'
  BY <1>1, <1>2, ReportKept DEF clientVars
<1> QED
  BY <1>1, <1>2, <1>3, <1>5, <1>6 DEF SearchInv

(* When the row has been walked, ESET is the query's answer. *)
LEMMA ChooseEset ==
  ASSUME SearchInv, spc = "tokens", s_i = s_n, NEW query \in Queries, NEW e,
         Talk(s_conn, query, e)
  PROVE  /\ s_eset \in Seq(Own(query)) /\ Talk(s_conn, query, s_eset)
         /\ ~conn[s_conn].disturbed => Range(s_eset) = Answer(query)
<1>1. ServerOn(s_conn) /\ conn[s_conn] \in Connections
  BY ServerAt
<1>2. OfQuery(s_conn, query) /\ s_eset \in Seq(Own(query))
  BY <1>1 DEF Talk, OfQuery
<1>3. ASSUME ~conn[s_conn].disturbed
      PROVE  Range(s_eset) = Answer(query) /\ InStep(s_conn, query, s_eset)
  <2>1. InStep(s_conn, query, e)
    BY <1>3 DEF Talk
  <2>2. s_i = RowLen[query] /\ Range(s_eset) = Found(query, s_i)
    BY <1>1, <2>1 DEF InStep, ServerKnows
  <2>3. Found(query, s_i) = Answer(query)
    <3>1. {j \in Hits[query] : j <= s_i} = Hits[query]
      BY <2>2, Numbers
    <3> QED
      BY <3>1 DEF Found, Answer
  <2>4. Given(s_conn) = 1 /\ Heard(s_conn) \in 0 .. 3 /\ Len(conn[s_conn].s2c) \in Nat
    BY <1>1, FieldsType DEF Given, Heard
  <2>5. Heard(s_conn) <= 1 /\ Len(conn[s_conn].s2c) = 1 - Heard(s_conn)
    BY <2>1, <2>4 DEF InStep
  <2>6. ServerKnows(query, s_eset)
    BY <1>1, <2>1 DEF InStep, ServerKnows
  <2>7. ClientOn(s_conn) => ClientKnows(query, s_eset)
    BY <2>1, <2>5 DEF InStep, ClientKnows, Heard
  <2>8. \A k \in 1 .. Len(conn[s_conn].s2c) :
          conn[s_conn].s2c[k] = ServerMsg(query, s_eset, Heard(s_conn) + k)
    <3> SUFFICES ASSUME NEW k \in 1 .. Len(conn[s_conn].s2c)
                 PROVE  conn[s_conn].s2c[k] = ServerMsg(query, s_eset, Heard(s_conn) + k)
      OBVIOUS
    <3>1. Heard(s_conn) + k = 1
      BY <2>4, <2>5
    <3> QED
      BY <2>1, <3>1 DEF InStep, ServerMsg
  <2> QED
    BY <2>1, <2>2, <2>3, <2>4, <2>6, <2>7, <2>8 DEF InStep
<1> QED
  BY <1>2, <1>3 DEF Talk

(* The server sends its next message: into the connection, into nothing, or  *)
(* to its death.                                                             *)
LEMMA ServerSendInv ==
  ASSUME SearchInv, NEW m, NEW next, ServerSends(m, next),
         \/ spc = "n" /\ m = [n |-> s_n] /\ next = "tokens"
         \/ spc = "tokens" /\ s_i = s_n /\ m = [nmatch |-> Len(s_eset)] /\ next = "eset"
         \/ spc = "eset" /\ m = [eset |-> s_eset] /\ next = "close",
         UNCHANGED <<nconn, s_conn, s_stag, s_n, s_i, s_xt, s_eset, clientVars>>
  PROVE  SearchInv'
<1> DEFINE c == s_conn
<1>1. /\ c \in Conns /\ c \in 1 .. nconn /\ nconn \in Nat /\ ServerOn(c)
      /\ LinkOK(c) /\ conn[c] \in Connections /\ conn[c].sv = "open"
  BY ServerAt
<1>2. /\ TypeOK /\ ClientOK /\ ServerOK /\ conn \in [Conns -> Connections]
      /\ s_n \in 0 .. MaxRow /\ s_i \in 0 .. s_n /\ MaxRow \in Nat
      /\ s_eset \in Seq(EntryIds) /\ Len(s_eset) \in Nat /\ Len(s_eset) <= s_i
      /\ s_n >= 1
  BY Parts, Types, Numbers DEF ServerOK
<1>3. PICK query \in Queries : \E e \in Seq(Own(query)) :
        /\ Talk(c, query, e)
        /\ spc \in {"tokens", "eset"} /\ ~conn[c].disturbed =>
             s_eset = e /\ Range(e) = Answer(query)
  <2>1. PICK query \in Queries : \E e \in Seq(Own(query)) : Talk(c, query, e)
    BY ServerAt
  <2>2. PICK e \in Seq(Own(query)) : Talk(c, query, e)
    BY <2>1
  <2>3. CASE spc = "tokens"
    BY <2>2, <2>3, ChooseEset
  <2>4. CASE spc = "eset"
    <3>1. ~conn[c].disturbed => s_eset = e /\ Range(e) = Answer(query)
      BY <1>1, <2>2, <2>4 DEF Talk, InStep, ServerKnows, Given
    <3> QED
      BY <2>2, <2>4, <3>1
  <2>5. CASE spc = "n"
    BY <2>2, <2>5
  <2> QED
    BY <2>3, <2>4, <2>5
<1>4. PICK e \in Seq(Own(query)) :
        /\ Talk(c, query, e)
        /\ spc \in {"tokens", "eset"} /\ ~conn[c].disturbed =>
             s_eset = e /\ Range(e) = Answer(query)
  BY <1>3
<1>5. OfQuery(c, query) /\ s_eset \in Seq(Own(query))
  BY <1>1, <1>4 DEF Talk, OfQuery
<1>6. m \in ToClient /\ m \in ServerMsgs(query, Given(c) + 1) /\ Given(c) \in 0 .. 2
  <2>1. CASE spc = "n" /\ m = [n |-> s_n]
    <3>1. Given(c) = 0 /\ s_n \in 1 .. MaxRow
      BY <1>1, <1>2, <2>1 DEF Given
    <3>2. m \in [n : 1 .. MaxRow]
      BY <2>1, <3>1
    <3> QED
      BY <3>1, <3>2 DEF ToClient, ServerMsgs
  <2>2. CASE spc = "tokens" /\ m = [nmatch |-> Len(s_eset)]
    <3>1. Given(c) = 1 /\ Len(s_eset) \in 0 .. MaxRow
      BY <1>1, <1>2, <2>2 DEF Given
    <3>2. m \in [nmatch : 0 .. MaxRow]
      BY <2>2, <3>1
    <3> QED
      BY <3>1, <3>2 DEF ToClient, ServerMsgs
  <2>3. CASE spc = "eset" /\ m = [eset |-> s_eset]
    <3>1. Given(c) = 2
      BY <1>1, <2>3 DEF Given
    <3>2. m \in [eset : Seq(EntryIds)] /\ m \in [eset : Seq(Own(query))]
      BY <1>2, <1>5, <2>3
    <3> QED
      BY <3>1, <3>2 DEF ToClient, ServerMsgs
  <2> QED
    BY <2>1, <2>2, <2>3
<1>7. InStep(c, query, e) /\ ~conn[c].disturbed => m = ServerMsg(query, e, Given(c) + 1)
  BY <1>1, <1>4 DEF InStep, ServerKnows, ServerMsg, Given
<1>8. CASE GoneForServer(c) /\ ServerDies
  BY <1>8, ServerDiesInv
<1>9. CASE ~(GoneForServer(c) /\ ServerDies)
  <2>1. spc' = next /\ ServerOn(c)' /\ ClientOn(c)' = ClientOn(c)
    BY <1>9 DEF ServerSends, ServerOn, ClientOn, clientVars
  <2>2. ClientOK' /\ ServerOK'
    BY <1>2, <2>1 DEF ClientOK, ServerOK, clientVars
  <2>3. conn' \in [Conns -> Connections] => TypeOK'
    BY <1>2, <2>1 DEF TypeOK, clientVars
  <2>4. /\ Taken(c, query)' = Taken(c, query) /\ Sent(c, query)' = Sent(c, query)
        /\ Given(c)' = Given(c) + 1 /\ Heard(c)' = Heard(c) /\ Heard(c) \in 0 .. 3
    BY <1>1, <2>1 DEF Taken, Sent, Given, Heard, clientVars
  <2>5. ASSUME conn' \in [Conns -> Connections], \A d \in Conns : d # c => conn'[d] = conn[d],
               conn'[c].disturbed = conn[c].disturbed, LinkOK(c)', Talk(c, query, e)'
        PROVE  SearchInv'
    <3>1. TalkOK(c)'
      BY <2>5 DEF TalkOK
    <3>2. (\A d \in Conns : LinkOK(d)') /\ (\A d \in 1 .. nconn' : TalkOK(d)')
      BY <1>1, <2>5, <3>1, ServerSide
    <3>3. ReportOK'
      <4>1. \A d \in 1 .. nconn : conn'[d].disturbed = conn[d].disturbed
        BY <1>2, <2>5, ConnsType
      <4> QED
        BY <1>1, <4>1, ReportKept DEF clientVars
    <3> QED
      BY <2>2, <2>3, <2>5, <3>2, <3>3 DEF SearchInv
  <2>6. CASE GoneForServer(c)
    <3>1. UNCHANGED conn
      BY <1>9, <2>6 DEF ServerSends
    <3>2. conn[c].disturbed
      BY <2>6, ServerGone
    <3>3. LinkOK(c)'
      BY <1>1, <2>1, <3>1 DEF LinkOK
    <3>4. OfQuery(c, query)'
      BY <1>1, <1>5, <2>1, <2>4, <3>1 DEF OfQuery, clientVars
    <3> QED
      BY <1>2, <2>5, <3>1, <3>2, <3>3, <3>4 DEF Talk
  <2>7. CASE ~GoneForServer(c)
    <3>1. ~conn[c].cut /\ conn[c].cl /\ ~conn[c].disturbed
      BY <1>1, <2>7 DEF GoneForServer, LinkOK
    <3> DEFINE s == Append(conn[c].s2c, m)
    <3>2. /\ s \in Seq(ToClient) /\ Len(conn[c].s2c) \in Nat
          /\ Len(s) = Len(conn[c].s2c) + 1 /\ \A k \in 1 .. Len(conn[c].s2c) : s[k] = conn[c].s2c[k]
          /\ s[Len(conn[c].s2c) + 1] = m
          /\ \A k \in 1 .. Len(s) : k \in 1 .. Len(conn[c].s2c) \/ k = Len(conn[c].s2c) + 1
      <4> DEFINE old == conn[c].s2c
      <4>1. old \in Seq(ToClient) /\ m \in ToClient
        BY <1>1, <1>6, FieldsType
      <4> HIDE DEF old
      <4>2. /\ Append(old, m) \in Seq(ToClient) /\ Len(old) \in Nat
            /\ Len(Append(old, m)) = Len(old) + 1
            /\ \A k \in 1 .. Len(old) : Append(old, m)[k] = old[k]
            /\ Append(old, m)[Len(old) + 1] = m
            /\ \A k \in 1 .. Len(Append(old, m)) : k \in 1 .. Len(old) \/ k = Len(old) + 1
        BY <4>1, AppendFacts
      <4> QED
        BY <4>1, <4>2 DEF old
    <3> HIDE DEF s
    <3>3. conn' = [conn EXCEPT ![c].s2c = s]
      BY <2>7 DEF ServerSends, s
    <3>4. /\ conn' \in [Conns -> Connections] /\ \A d \in Conns : d # c => conn'[d] = conn[d]
          /\ conn'[c].s2c = s /\ conn'[c].c2s = conn[c].c2s /\ conn'[c].sv = conn[c].sv
          /\ conn'[c].cl = conn[c].cl /\ conn'[c].cut = conn[c].cut
          /\ conn'[c].disturbed = conn[c].disturbed
      BY <1>1, <1>2, <3>2, <3>3, S2CUpdated
    <3>5. LinkOK(c)'
      BY <1>1, <2>1, <3>1, <3>4 DEF LinkOK
    <3>6. InStep(c, query, e) /\ Len(conn[c].s2c) = Given(c) - Heard(c)
      BY <1>4, <3>1 DEF Talk, InStep
    <3>7. ASSUME NEW k \in 1 .. Len(s)
          PROVE  /\ s[k] \in ServerMsgs(query, Heard(c) + k)
                 /\ s[k] = ServerMsg(query, e, Heard(c) + k)
      <4>1. CASE k = Len(conn[c].s2c) + 1
        <5>1. Heard(c) + k = Given(c) + 1
          BY <1>6, <2>4, <3>2, <3>6, <4>1
        <5> QED
          BY <1>6, <1>7, <3>1, <3>2, <3>6, <4>1, <5>1
      <4>2. CASE k \in 1 .. Len(conn[c].s2c)
        BY <1>5, <3>2, <3>6, <4>2 DEF OfQuery, InStep
      <4> QED
        BY <3>2, <4>1, <4>2
    <3>8. OfQuery(c, query)'
      BY <1>1, <1>5, <2>1, <2>4, <3>4, <3>7 DEF OfQuery, clientVars
    <3>9. InStep(c, query, e)'
      <4>1. ServerKnows(query, e)'
        BY <1>1, <1>4, <2>1, <3>1, <3>6 DEF InStep, ServerKnows, Range
      <4>2. ClientKnows(query, e)' = ClientKnows(query, e)
        BY DEF ClientKnows, clientVars
      <4>3. Len(s) = (Given(c) + 1) - Heard(c)
        BY <1>6, <2>4, <3>2, <3>6
      <4>4. Given(c)' >= 2 => Range(e) = Answer(query)
        <5>1. Given(c)' >= 2 => spc \in {"tokens", "eset"}
          BY <1>1, <2>4 DEF Given
        <5> QED
          BY <1>4, <3>1, <5>1
      <4> QED
        BY <2>1, <2>4, <3>4, <3>6, <3>7, <4>1, <4>2, <4>3, <4>4 DEF InStep
    <3> QED
      BY <2>5, <3>4, <3>5, <3>8, <3>9 DEF Talk
  <2> QED
    BY <2>6, <2>7
<1> QED
  BY <1>8, <1>9

LEMMA SendNInv == SearchInv /\ SendN => SearchInv'
  BY ServerSendInv DEF SendN

LEMMA SendCountInv == SearchInv /\ SendCount => SearchInv'
  BY ServerSendInv DEF SendCount

LEMMA SendEsetInv == SearchInv /\ SendEset => SearchInv'
  BY ServerSendInv DEF SendEset

(* What the server hears is the next of what its client says. *)
LEMMA TakenMsg ==
  ASSUME SearchInv, spc \in {"stag", "tokens"}, ServerHears, NEW query, OfQuery(s_conn, query)
  PROVE  Head(conn[s_conn].c2s) = ClientMsg(query, Taken(s_conn, query) + 1)
<1>1. conn[s_conn] \in Connections
  BY ServerAt
<1>2. /\ Head(conn[s_conn].c2s) = conn[s_conn].c2s[1] /\ 1 \in 1 .. Len(conn[s_conn].c2s)
  BY <1>1, FieldsType, TailFacts DEF ServerHears
<1> QED
  BY <1>2 DEF OfQuery

(* It takes it, or goes on without. *)
LEMMA ServerRecvInv ==
  ASSUME SearchInv, TypeOK' \/ conn' \notin [Conns -> Connections], ServerOK',
         \/ spc = "stag" /\ spc' = "retrieve" /\ s_i' = s_i
         \/ spc = "tokens" /\ spc' = "tokens" /\ s_i' = s_i + 1,
         (ServerHears /\ ServerRecv) \/ (~ServerHears /\ GoneForServer(s_conn) /\ UNCHANGED conn),
         UNCHANGED <<nconn, s_conn, clientVars>>,
         \A query \in Queries : OfQuery(s_conn, query) =>
           s_stag' \in {Zero, query} /\ s_eset' \in Seq(Own(query)),
         ServerHears => \A query \in Queries : \A e \in Seq(Own(query)) :
           OfQuery(s_conn, query) /\ InStep(s_conn, query, e) => ServerKnows(query, e)'
  PROVE  SearchInv'
<1> DEFINE c == s_conn
<1>1. /\ c \in Conns /\ c \in 1 .. nconn /\ nconn \in Nat /\ ServerOn(c)
      /\ LinkOK(c) /\ conn[c] \in Connections /\ conn[c].sv = "open"
  BY ServerAt
<1>2. TypeOK /\ ClientOK /\ ServerOK /\ conn \in [Conns -> Connections] /\ s_i \in Nat
  BY Parts, Types
<1>3. PICK query \in Queries : \E e \in Seq(Own(query)) : Talk(c, query, e)
  BY ServerAt
<1>4. PICK e \in Seq(Own(query)) : Talk(c, query, e)
  BY <1>3
<1>5. OfQuery(c, query) /\ s_stag' \in {Zero, query} /\ s_eset' \in Seq(Own(query))
  BY <1>4 DEF Talk
<1>6. ClientOK'
  BY <1>2 DEF ClientOK, clientVars
<1>7. /\ ServerOn(c)' /\ ClientOn(c)' = ClientOn(c) /\ Heard(c)' = Heard(c) /\ Given(c)' = Given(c)
      /\ Taken(c, query)' = Taken(c, query) + 1 /\ Sent(c, query)' = Sent(c, query)
      /\ Taken(c, query) \in Nat /\ Sent(c, query) \in Nat
  <2>1. ServerOn(c)' /\ ClientOn(c)' = ClientOn(c)
    BY <1>1 DEF ServerOn, ClientOn, clientVars
  <2>2. Heard(c)' = Heard(c) /\ Sent(c, query)' = Sent(c, query)
    BY <2>1 DEF Heard, Sent, clientVars
  <2>3. Given(c)' = Given(c)
    BY <1>1, <2>1 DEF Given
  <2>4. Taken(c, query)' = Taken(c, query) + 1
    <3>1. spc = "stag" => s_i = 0
      BY <1>2 DEF ServerOK
    <3> QED
      BY <1>1, <1>2, <2>1, <3>1 DEF Taken
  <2> QED
    BY <1>2, <2>1, <2>2, <2>3, <2>4, GivenType
<1>8. ASSUME conn' \in [Conns -> Connections], \A d \in Conns : d # c => conn'[d] = conn[d],
             conn'[c].disturbed = conn[c].disturbed, LinkOK(c)', Talk(c, query, e)'
      PROVE  SearchInv'
  <2>1. TalkOK(c)'
    BY <1>8 DEF TalkOK
  <2>2. (\A d \in Conns : LinkOK(d)') /\ (\A d \in 1 .. nconn' : TalkOK(d)')
    BY <1>1, <1>8, <2>1, ServerSide
  <2>3. ReportOK'
    <3>1. \A d \in 1 .. nconn : conn'[d].disturbed = conn[d].disturbed
      BY <1>2, <1>8, ConnsType
    <3> QED
      BY <1>1, <3>1, ReportKept DEF clientVars
  <2> QED
    BY <1>6, <1>8, <2>2, <2>3 DEF SearchInv
<1>9. CASE ~ServerHears /\ GoneForServer(c) /\ UNCHANGED conn
  <2>1. conn[c].disturbed
    BY <1>9, ServerGone
  <2>2. LinkOK(c)'
    BY <1>1, <1>7, <1>9 DEF LinkOK
  <2>3. Len(conn[c].c2s) = 0
    BY <1>1, <1>9, FieldsType, EmptySequence DEF ServerHears
  <2>4. OfQuery(c, query)'
    BY <1>5, <1>7, <1>9, <2>3 DEF OfQuery, clientVars
  <2> QED
    BY <1>2, <1>8, <1>9, <2>1, <2>2, <2>4 DEF Talk
<1>10. CASE ServerHears /\ ServerRecv
  <2> DEFINE s == Tail(conn[c].c2s)
  <2>1. /\ s \in Seq(ToServer) /\ Len(conn[c].c2s) \in Nat /\ Len(s) = Len(conn[c].c2s) - 1
        /\ \A k \in 1 .. Len(s) : s[k] = conn[c].c2s[k + 1] /\ k + 1 \in 1 .. Len(conn[c].c2s)
    <3> DEFINE old == conn[c].c2s
    <3>1. old \in Seq(ToServer) /\ old # <<>>
      BY <1>1, <1>10, FieldsType DEF ServerHears
    <3> HIDE DEF old
    <3>2. /\ Tail(old) \in Seq(ToServer) /\ Len(old) \in Nat /\ Len(Tail(old)) = Len(old) - 1
          /\ \A k \in 1 .. Len(Tail(old)) : Tail(old)[k] = old[k + 1] /\ k + 1 \in 1 .. Len(old)
      BY <3>1, TailFacts
    <3> QED
      BY <3>2 DEF old
  <2> HIDE DEF s
  <2>2. conn' = [conn EXCEPT ![c].c2s = s]
    BY <1>10 DEF ServerRecv, s
  <2>3. /\ conn' \in [Conns -> Connections] /\ \A d \in Conns : d # c => conn'[d] = conn[d]
        /\ conn'[c].c2s = s /\ conn'[c].s2c = conn[c].s2c /\ conn'[c].sv = conn[c].sv
        /\ conn'[c].cl = conn[c].cl /\ conn'[c].cut = conn[c].cut
        /\ conn'[c].disturbed = conn[c].disturbed
    BY <1>1, <1>2, <2>1, <2>2, C2SUpdated
  <2>4. LinkOK(c)'
    BY <1>1, <1>7, <2>3 DEF LinkOK
  <2>5. OfQuery(c, query)'
    <3>1. ASSUME NEW k \in 1 .. Len(s) PROVE s[k] = ClientMsg(query, Taken(c, query)' + k)
      <4>1. k \in Nat /\ Taken(c, query)' + k = Taken(c, query) + (k + 1)
        BY <1>7, <2>1
      <4> QED
        BY <1>5, <2>1, <4>1 DEF OfQuery
    <3> QED
      BY <1>5, <1>7, <2>3, <3>1 DEF OfQuery, clientVars
  <2>6. ASSUME InStep(c, query, e) PROVE InStep(c, query, e)'
    <3>1. Len(s) = Sent(c, query) - Taken(c, query)'
      BY <1>7, <2>1, <2>6 DEF InStep
    <3>2. ServerKnows(query, e)'
      BY <1>5, <1>10, <2>6
    <3>3. ClientKnows(query, e)' = ClientKnows(query, e)
      BY DEF ClientKnows, clientVars
    <3> QED
      BY <1>7, <2>3, <2>6, <3>1, <3>2, <3>3 DEF InStep
  <2>7. Talk(c, query, e)'
    BY <1>4, <2>3, <2>5, <2>6 DEF Talk
  <2> QED
    BY <1>8, <2>3, <2>4, <2>7
<1> QED
  BY <1>9, <1>10

(* The stag arrives, or stays zero. *)
LEMMA RecvStagInv == SearchInv /\ RecvStag => SearchInv'
<1> SUFFICES ASSUME SearchInv, RecvStag PROVE SearchInv'
  OBVIOUS
<1>1. /\ spc = "stag" /\ spc' = "retrieve"
      /\ UNCHANGED <<nconn, s_conn, s_n, s_i, s_xt, s_eset, clientVars>>
  BY DEF RecvStag
<1>2. /\ TypeOK /\ ServerOK /\ s_stag = Zero /\ s_i = 0 /\ s_eset = <<>> /\ ServerOn(s_conn)
      /\ \E query \in Queries : \E e \in Seq(Own(query)) : Talk(s_conn, query, e)
  BY <1>1, ServerAt DEF SearchInv, ServerOK
<1>3. ASSUME NEW query \in Queries, OfQuery(s_conn, query)
      PROVE  s_stag' \in {Zero, query} /\ (ServerHears => s_stag' = query)
  <2>1. CASE ServerHears /\ s_stag' = Head(conn[s_conn].c2s).stag
    <3>1. Taken(s_conn, query) + 1 = 1
      BY <1>1, <1>2 DEF Taken
    <3>2. Head(conn[s_conn].c2s) = [stag |-> query]
      BY <1>1, <1>3, <2>1, <3>1, TakenMsg DEF ClientMsg
    <3> QED
      BY <2>1, <3>2
  <2>2. CASE ~ServerHears /\ UNCHANGED s_stag
    BY <1>2, <2>2
  <2> QED
    BY <2>1, <2>2 DEF RecvStag
<1>4. PICK query \in Queries : OfQuery(s_conn, query)
  BY <1>2 DEF Talk
<1>5. s_stag' \in Queries \cup {Zero}
  BY <1>3, <1>4
<1>6. TypeOK' \/ conn' \notin [Conns -> Connections]
  BY <1>1, <1>2, <1>5 DEF TypeOK, clientVars
<1>7. ServerOK'
  BY <1>1, <1>2 DEF ServerOK
<1>8. ASSUME ServerHears, NEW x \in Queries, NEW e, OfQuery(s_conn, x), InStep(s_conn, x, e)
      PROVE  ServerKnows(x, e)'
  <2>1. s_stag' = x
    BY <1>3, <1>8
  <2>2. Range(s_eset) = Found(x, s_i)
    BY <1>2, <1>8 DEF InStep, ServerKnows
  <2> QED
    BY <1>1, <2>1, <2>2 DEF ServerKnows, Range
<1>9. \A x \in Queries : OfQuery(s_conn, x) => s_stag' \in {Zero, x} /\ s_eset' \in Seq(Own(x))
  BY <1>1, <1>2, <1>3
<1> QED
  BY <1>1, <1>6, <1>7, <1>8, <1>9, ServerRecvInv DEF RecvStag

(* The entries found up to a position. *)
LEMMA FoundNext ==
  ASSUME NEW query \in Queries, NEW k \in Nat
  PROVE  Found(query, k + 1) =
           Found(query, k) \cup (IF k + 1 \in Hits[query] THEN {Entry(query, k + 1)} ELSE {})
<1>1. \A j \in Hits[query] : j \in Nat
  BY Numbers
<1>2. {j \in Hits[query] : j <= k + 1} =
        {j \in Hits[query] : j <= k} \cup (IF k + 1 \in Hits[query] THEN {k + 1} ELSE {})
  BY <1>1
<1> QED
  BY <1>2 DEF Found

(* An entry is tested with the token that arrived, or with what was left. *)
LEMMA TestEntryInv == SearchInv /\ TestEntry => SearchInv'
<1> SUFFICES ASSUME SearchInv, TestEntry PROVE SearchInv'
  OBVIOUS
<1>1. /\ spc = "tokens" /\ spc' = "tokens" /\ s_i < s_n /\ s_i' = s_i + 1
      /\ UNCHANGED <<nconn, s_conn, s_stag, s_n, clientVars>>
  BY DEF TestEntry
<1>2. PICK pass \in Passes(s_stag, s_i + 1, s_xt') :
        s_eset' = IF pass THEN Append(s_eset, EntryId(s_stag, s_i + 1)) ELSE s_eset
  BY DEF TestEntry
<1>3. /\ TypeOK /\ ServerOK /\ ServerOn(s_conn) /\ s_i \in Nat /\ s_n \in 0 .. MaxRow /\ MaxRow \in Nat
      /\ s_i + 1 \in 1 .. MaxRow /\ s_i + 1 \in 0 .. s_n /\ s_xt \in EntryIds \cup {Zero}
      /\ s_eset \in Seq(EntryIds) /\ Len(s_eset) \in Nat /\ Len(s_eset) <= s_i
      /\ \E query \in Queries : \E e \in Seq(Own(query)) : Talk(s_conn, query, e)
  BY <1>1, ServerAt, Parts, Types, Numbers DEF ServerOK
<1>4. ASSUME NEW query \in Queries, OfQuery(s_conn, query), ServerHears
      PROVE  s_xt' = Entry(query, s_i + 1)
  <2>1. Taken(s_conn, query) + 1 # 1 /\ (Taken(s_conn, query) + 1) - 1 = s_i + 1
    BY <1>1, <1>3 DEF Taken
  <2>2. Head(conn[s_conn].c2s) = [xtoken |-> Entry(query, s_i + 1)]
    BY <1>1, <1>4, <2>1, TakenMsg DEF ClientMsg
  <2> QED
    BY <1>4, <2>2 DEF TestEntry
<1>5. PICK query \in Queries : OfQuery(s_conn, query)
  BY <1>3 DEF Talk
<1>6. s_xt' \in EntryIds \cup {Zero}
  <2>1. CASE ServerHears
    <3>1. Entry(query, s_i + 1) \in EntryIds
      BY <1>3 DEF EntryIds
    <3> QED
      BY <1>4, <1>5, <2>1, <3>1
  <2>2. CASE ~ServerHears
    BY <1>3, <2>2 DEF TestEntry, EntryIds
  <2> QED
    BY <2>1, <2>2
<1>7. ASSUME NEW x \in Queries, OfQuery(s_conn, x)
      PROVE  EntryId(s_stag, s_i + 1) \in Own(x) /\ s_eset' \in Seq(Own(x))
  <2>1. s_stag \in {Zero, x} /\ s_eset \in Seq(Own(x))
    BY <1>3, <1>7 DEF OfQuery
  <2>2. EntryId(s_stag, s_i + 1) \in Own(x)
    BY <1>3, <2>1, BuffersAssumption DEF EntryId, Own
  <2>3. Append(s_eset, EntryId(s_stag, s_i + 1)) \in Seq(Own(x))
    BY <2>1, <2>2, AppendFacts
  <2> QED
    BY <1>2, <2>1, <2>2, <2>3
<1>8. s_eset' \in Seq(EntryIds)
  <2>1. Own(query) \subseteq EntryIds
    BY DEF Own, EntryIds
  <2>2. s_eset' \in Seq(Own(query))
    BY <1>5, <1>7
  <2> QED
    BY <2>1, <2>2
<1>9. Len(s_eset') <= s_i + 1
  <2>1. Len(Append(s_eset, EntryId(s_stag, s_i + 1))) = Len(s_eset) + 1
    <3>1. EntryId(s_stag, s_i + 1) \in Own(query) /\ s_eset \in Seq(Own(query))
      BY <1>3, <1>5, <1>7 DEF OfQuery
    <3> QED
      BY <3>1, AppendFacts
  <2> QED
    BY <1>2, <1>3, <2>1
<1>10. TypeOK' \/ conn' \notin [Conns -> Connections]
  BY <1>1, <1>3, <1>6, <1>8 DEF TypeOK, clientVars
<1>11. ServerOK'
  BY <1>1, <1>3, <1>9 DEF ServerOK
<1>12. ASSUME ServerHears, NEW x \in Queries, NEW e, OfQuery(s_conn, x), InStep(s_conn, x, e)
       PROVE  ServerKnows(x, e)'
  <2>1. s_stag = x /\ s_n = RowLen[x] /\ Range(s_eset) = Found(x, s_i)
    BY <1>1, <1>3, <1>12 DEF InStep, ServerKnows
  <2>2. s_xt' = Entry(x, s_i + 1)
    BY <1>4, <1>12
  <2>3. pass = (s_i + 1 \in Hits[x])
    BY <1>2, <2>1, <2>2 DEF Passes
  <2>4. EntryId(s_stag, s_i + 1) = Entry(x, s_i + 1)
    BY <2>1 DEF EntryId
  <2>5. Range(s_eset') = Found(x, s_i + 1)
    <3>1. CASE s_i + 1 \in Hits[x]
      <4>1. s_eset' = Append(s_eset, Entry(x, s_i + 1))
        BY <1>2, <2>3, <2>4, <3>1
      <4>2. s_eset \in Seq(Own(x)) /\ Entry(x, s_i + 1) \in Own(x)
        BY <1>3, <1>7, <1>12, <2>4 DEF OfQuery
      <4>3. Range(s_eset') = Range(s_eset) \cup {Entry(x, s_i + 1)}
        BY <4>1, <4>2, RangeAppend
      <4>4. Found(x, s_i + 1) = Found(x, s_i) \cup {Entry(x, s_i + 1)}
        BY <1>3, <3>1, FoundNext
      <4> QED
        BY <2>1, <4>3, <4>4
    <3>2. CASE s_i + 1 \notin Hits[x]
      <4>1. s_eset' = s_eset
        BY <1>2, <2>3, <3>2
      <4>2. Found(x, s_i + 1) = Found(x, s_i) \cup {}
        BY <1>3, <3>2, FoundNext, Zenon
      <4> QED
        BY <2>1, <4>1, <4>2
    <3> QED
      BY <3>1, <3>2
  <2> QED
    BY <1>1, <2>1, <2>5 DEF ServerKnows
<1>13. (ServerHears /\ ServerRecv) \/ (~ServerHears /\ GoneForServer(s_conn) /\ UNCHANGED conn)
  BY DEF TestEntry
<1>14. \A x \in Queries : OfQuery(s_conn, x) => s_stag' \in {Zero, x} /\ s_eset' \in Seq(Own(x))
  BY <1>1, <1>3, <1>7 DEF OfQuery
<1> QED
  BY <1>1, <1>10, <1>11, <1>12, <1>13, <1>14, ServerRecvInv

(* The row is looked up. *)
LEMMA RetrieveInv == SearchInv /\ Retrieve => SearchInv'
<1> SUFFICES ASSUME SearchInv, Retrieve PROVE SearchInv'
  OBVIOUS
<1> DEFINE c == s_conn
<1>1. /\ spc = "retrieve" /\ spc' = "n"
      /\ UNCHANGED <<conn, nconn, s_conn, s_stag, s_i, s_xt, s_eset, clientVars>>
  BY DEF Retrieve
<1>2. /\ c \in Conns /\ c \in 1 .. nconn /\ nconn \in Nat /\ ServerOn(c)
      /\ LinkOK(c) /\ conn[c] \in Connections /\ conn[c].sv = "open"
  BY <1>1, ServerAt
<1>3. /\ TypeOK /\ ClientOK /\ ServerOK /\ s_i = 0 /\ s_eset = <<>>
  BY <1>1 DEF SearchInv, ServerOK
<1>4. s_n' \in 1 .. MaxRow /\ (s_stag \in Queries => s_n' = RowLen[s_stag])
  BY Numbers DEF Retrieve
<1>5. TypeOK' /\ ClientOK' /\ ServerOK'
  BY <1>1, <1>3, <1>4, Numbers DEF TypeOK, ClientOK, ServerOK, clientVars
<1>6. ServerOn(c)' /\ ClientOn(c)' = ClientOn(c)
  BY <1>1, <1>2 DEF ServerOn, ClientOn, clientVars
<1>7. LinkOK(c)'
  BY <1>1, <1>2, <1>6 DEF LinkOK
<1>8. TalkOK(c)'
  <2>1. PICK query \in Queries : \E e \in Seq(Own(query)) : Talk(c, query, e)
    BY <1>1, ServerAt
  <2>2. PICK e \in Seq(Own(query)) : Talk(c, query, e)
    BY <2>1
  <2>3. /\ Taken(c, query)' = Taken(c, query) /\ Sent(c, query)' = Sent(c, query)
        /\ Given(c)' = Given(c) /\ Heard(c)' = Heard(c)
    BY <1>1, <1>2, <1>6 DEF Taken, Sent, Given, Heard, clientVars
  <2>4. OfQuery(c, query)'
    BY <1>1, <1>2, <1>6, <2>2, <2>3 DEF Talk, OfQuery, clientVars
  <2>5. ASSUME InStep(c, query, e) PROVE InStep(c, query, e)'
    <3>1. ServerKnows(query, e)'
      BY <1>1, <1>2, <1>4, <2>5 DEF InStep, ServerKnows, Range
    <3>2. ClientKnows(query, e)' = ClientKnows(query, e)
      BY <1>1 DEF ClientKnows, clientVars
    <3> QED
      BY <1>1, <1>6, <2>3, <2>5, <3>1, <3>2 DEF InStep
  <2>6. Talk(c, query, e)'
    BY <1>1, <2>2, <2>4, <2>5 DEF Talk
  <2> QED
    BY <2>6 DEF TalkOK
<1>9. (\A d \in Conns : LinkOK(d)') /\ (\A d \in 1 .. nconn' : TalkOK(d)')
  BY <1>1, <1>2, <1>7, <1>8, ServerSide
<1>10. ReportOK'
  BY <1>1, <1>2, ReportKept DEF clientVars
<1> QED
  BY <1>5, <1>9, <1>10 DEF SearchInv

(* The session ends. *)
LEMMA CloseConnInv == SearchInv /\ CloseConn => SearchInv'
<1> SUFFICES ASSUME SearchInv, CloseConn PROVE SearchInv'
  OBVIOUS
<1> DEFINE c == s_conn
           r == ServerEndClosed(conn[c])
<1>1. /\ spc = "close" /\ spc' = "accept" /\ conn' = [conn EXCEPT ![c] = r]
      /\ s_stag' = Zero /\ s_n' = 0 /\ s_i' = 0 /\ s_xt' = Zero /\ s_eset' = <<>>
      /\ UNCHANGED <<nconn, s_conn, clientVars>>
  BY DEF CloseConn, FreeServerFrame
<1>2. /\ c \in Conns /\ c \in 1 .. nconn /\ nconn \in Nat /\ ServerOn(c)
      /\ LinkOK(c) /\ conn[c] \in Connections /\ conn[c].sv = "open"
  BY <1>1, ServerAt
<1>3. /\ TypeOK /\ ClientOK /\ ServerOK /\ conn \in [Conns -> Connections] /\ s_i = s_n
      /\ c_i \in Nat /\ c_n \in Nat /\ c_i <= c_n
  BY <1>1, Parts, Types DEF ServerOK, ClientOK
<1>4. /\ conn' \in [Conns -> Connections] /\ conn'[c] = r
      /\ \A d \in Conns : d # c => conn'[d] = conn[d]
  <2>1. r \in Connections
    BY <1>2, EndClosedType
  <2> HIDE DEF r
  <2> QED
    BY <1>1, <1>2, <1>3, <2>1, Updated
<1>5. /\ r.sv = "closed" /\ r.c2s = <<>> /\ r.cl = conn[c].cl /\ r.cut = conn[c].cut
      /\ r.s2c = conn[c].s2c /\ r.disturbed = conn[c].disturbed
  BY <1>2, EndClosedType
<1> HIDE DEF r
<1>6. TypeOK' /\ ClientOK' /\ ServerOK'
  <2>1. s_eset' \in Seq(EntryIds) /\ Len(s_eset') = 0
    BY <1>1
  <2> QED
    BY <1>1, <1>3, <1>4, <2>1, Numbers DEF TypeOK, ClientOK, ServerOK, clientVars
<1>7. ~ServerOn(c)' /\ ClientOn(c)' = ClientOn(c) /\ Heard(c)' = Heard(c)
      /\ Given(c) = 3 /\ Given(c)' = 3
  <2>1. ~ServerOn(c)' /\ ClientOn(c)' = ClientOn(c)
    BY <1>1 DEF ServerOn, ClientOn, clientVars
  <2>2. conn'[s_conn'].sv = "closed"
    BY <1>1, <1>4, <1>5
  <2> QED
    BY <1>1, <1>2, <2>1, <2>2 DEF Heard, Given, clientVars
<1>8. LinkOK(c)'
  BY <1>1, <1>2, <1>4, <1>5, <1>7 DEF LinkOK
<1>9. TalkOK(c)'
  <2>1. PICK query \in Queries : \E e \in Seq(Own(query)) : Talk(c, query, e)
    BY <1>1, ServerAt
  <2>2. PICK e \in Seq(Own(query)) : Talk(c, query, e)
    BY <2>1
  <2>3. OfQuery(c, query)'
    BY <1>1, <1>2, <1>4, <1>5, <1>7, <2>2 DEF Talk, OfQuery, clientVars
  <2>4. ASSUME ~conn[c].disturbed, InStep(c, query, e) PROVE InStep(c, query, e)'
    <3>1. s_n = RowLen[query] /\ RowLen[query] \in Nat
      BY <1>1, <1>2, <2>4, Numbers DEF InStep, ServerKnows
    <3>2. Taken(c, query) = 1 + RowLen[query]
      BY <1>1, <1>2, <1>3, <3>1 DEF Taken
    <3>3. Taken(c, query)' = 1 + RowLen[query]
      BY <1>1, <1>4, <1>5, <1>7 DEF Taken
    <3>4. Sent(c, query)' = Sent(c, query) /\ Sent(c, query) \in Nat
      BY <1>1, <1>3, <1>7, GivenType DEF Sent, clientVars
    <3>5. Sent(c, query) <= 1 + RowLen[query]
      <4>1. ClientOn(c) => ClientKnows(query, e)
        BY <2>4 DEF InStep
      <4>2. ClientOn(c) /\ cpc # "stag" => c_i <= RowLen[query]
        BY <1>3, <3>1, <4>1 DEF ClientKnows, ClientOn, ClientOK
      <4> QED
        BY <1>3, <3>1, <4>2 DEF Sent
    <3>6. Len(conn[c].c2s) \in Nat
      BY <1>2, FieldsType
    <3>7. Sent(c, query) = 1 + RowLen[query]
      BY <2>4, <3>1, <3>2, <3>4, <3>5, <3>6 DEF InStep
    <3>8. ClientKnows(query, e)' = ClientKnows(query, e)
      BY <1>1 DEF ClientKnows, clientVars
    <3> QED
      BY <1>1, <1>4, <1>5, <1>7, <2>4, <3>1, <3>3, <3>4, <3>7, <3>8 DEF InStep
  <2>5. Talk(c, query, e)'
    BY <1>1, <1>4, <1>5, <2>2, <2>3, <2>4 DEF Talk
  <2> QED
    BY <2>5 DEF TalkOK
<1>10. (\A d \in Conns : LinkOK(d)') /\ (\A d \in 1 .. nconn' : TalkOK(d)')
  BY <1>1, <1>2, <1>4, <1>8, <1>9, ServerSide
<1>11. ReportOK'
  <2>1. \A d \in 1 .. nconn : conn'[d].disturbed = conn[d].disturbed
    BY <1>3, <1>4, <1>5, ConnsType
  <2> QED
    BY <1>1, <1>2, <2>1, ReportKept DEF clientVars
<1> QED
  BY <1>6, <1>10, <1>11 DEF SearchInv

(* The next connection in the queue is served. *)
LEMMA AcceptInv == SearchInv /\ Accept => SearchInv'
<1> SUFFICES ASSUME SearchInv, Accept PROVE SearchInv'
  OBVIOUS
<1>1. /\ spc = "accept" /\ spc' = "stag"
      /\ UNCHANGED <<nconn, s_stag, s_n, s_i, s_xt, s_eset, clientVars>>
  BY DEF Accept
<1>2. PICK c \in Conns : /\ conn[c].sv = "queued" /\ s_conn' = c
                         /\ conn' = [conn EXCEPT ![c].sv = "open"]
  BY DEF Accept
<1>3. /\ TypeOK /\ ClientOK /\ ServerOK /\ conn \in [Conns -> Connections] /\ nconn \in Nat
      /\ 1 .. nconn \subseteq Conns /\ conn[c] \in Connections /\ LinkOK(c)
      /\ s_i = 0 /\ s_eset = <<>> /\ s_stag = Zero /\ s_n = 0
  BY <1>1, Parts, Types, ConnsType DEF ServerOK
<1>4. c \in 1 .. nconn
  <2>1. ~(c > nconn) /\ c \in Nat /\ c >= 1
    BY <1>2, <1>3 DEF LinkOK, Conns
  <2> QED
    BY <1>3, <2>1
<1> DEFINE r == [conn[c] EXCEPT !.sv = "open"]
<1>5. /\ r \in Connections /\ r.sv = "open" /\ r.cl = conn[c].cl /\ r.cut = conn[c].cut
      /\ r.c2s = conn[c].c2s /\ r.s2c = conn[c].s2c /\ r.disturbed = conn[c].disturbed
  BY <1>3 DEF Connections
<1>6. conn' = [conn EXCEPT ![c] = r]
  BY <1>2
<1> HIDE DEF r
<1>7. /\ conn' \in [Conns -> Connections] /\ conn'[c] = r
      /\ \A d \in Conns : d # c => conn'[d] = conn[d]
  BY <1>3, <1>5, <1>6, Updated
<1>8. TypeOK' /\ ClientOK' /\ ServerOK'
  BY <1>1, <1>2, <1>3, <1>4, <1>7 DEF TypeOK, ClientOK, ServerOK, clientVars
<1>9. ServerOn(c)' /\ ~ServerOn(c) /\ ClientOn(c)' = ClientOn(c)
  BY <1>1, <1>2 DEF ServerOn, ClientOn, clientVars
<1>10. LinkOK(c)'
  BY <1>1, <1>2, <1>3, <1>4, <1>5, <1>7, <1>9 DEF LinkOK
<1>11. TalkOK(c)'
  <2>1. PICK query \in Queries : \E e \in Seq(Own(query)) : Talk(c, query, e)
    BY <1>4 DEF SearchInv, TalkOK
  <2>2. PICK e \in Seq(Own(query)) : Talk(c, query, e)
    BY <2>1
  <2>3. /\ Taken(c, query)' = Taken(c, query) /\ Sent(c, query)' = Sent(c, query)
        /\ Given(c)' = Given(c) /\ Heard(c)' = Heard(c) /\ Given(c) = 0
    BY <1>1, <1>2, <1>9 DEF Taken, Sent, Given, Heard, clientVars
  <2>4. OfQuery(c, query)'
    BY <1>1, <1>3, <1>5, <1>7, <1>9, <2>2, <2>3 DEF Talk, OfQuery, clientVars
  <2>5. ASSUME InStep(c, query, e) PROVE InStep(c, query, e)'
    <3>1. Range(s_eset) = {} /\ Found(query, s_i) = {}
      <4>1. {j \in Hits[query] : j <= s_i} = {}
        BY <1>3, Numbers
      <4> QED
        BY <1>3, <4>1 DEF Found, Range
    <3>2. ServerKnows(query, e)'
      BY <1>1, <3>1 DEF ServerKnows, Range, Found
    <3>3. ClientKnows(query, e)' = ClientKnows(query, e)
      BY <1>1 DEF ClientKnows, clientVars
    <3> QED
      BY <1>5, <1>7, <1>9, <2>3, <2>5, <3>2, <3>3 DEF InStep
  <2>6. Talk(c, query, e)'
    BY <1>5, <1>7, <2>2, <2>4, <2>5 DEF Talk
  <2> QED
    BY <2>6 DEF TalkOK
<1>12. ASSUME NEW d \in Conns, d # c PROVE LinkOK(d)' /\ (TalkOK(d) => TalkOK(d)')
  <2>1. ~ServerOn(d) /\ ~ServerOn(d)' /\ conn'[d] = conn[d]
    BY <1>1, <1>2, <1>7, <1>12 DEF ServerOn
  <2> QED
    BY <1>1, <2>1, ServerElsewhere
<1>13. ReportOK'
  <2>1. \A d \in 1 .. nconn : conn'[d].disturbed = conn[d].disturbed
    BY <1>3, <1>5, <1>7
  <2> QED
    BY <1>1, <1>3, <2>1, ReportKept DEF clientVars
<1> QED
  BY <1>1, <1>3, <1>8, <1>10, <1>11, <1>12, <1>13 DEF SearchInv

-----------------------------------------------------------------------------
(* Every step keeps every connection to its query. *)
LEMMA SearchNextInv == SearchInv /\ [Next]_vars => SearchInv'
<1> SUFFICES ASSUME SearchInv, [Next]_vars PROVE SearchInv'
  OBVIOUS
<1>1. CASE ClientStep
  BY <1>1, ConnectInv, SendStagInv, RecvNInv, SendTokenInv, RecvCountInv, RecvEsetInv, ReportInv
  DEF ClientStep
<1>2. CASE ServerStep
  BY <1>2, AcceptInv, RecvStagInv, RetrieveInv, SendNInv, TestEntryInv, SendCountInv, SendEsetInv,
     CloseConnInv DEF ServerStep
<1>3. CASE Failure
  BY <1>3, CutInv, ServerCrashInv, RestartServerInv, ClientCrashInv, RestartClientInv DEF Failure
<1>4. CASE UNCHANGED vars
  <2>1. UNCHANGED <<conn, nconn, clientVars, serverVars>>
    BY <1>4 DEF vars
  <2>2. TypeOK' /\ ClientOK' /\ ServerOK'
    BY <2>1 DEF SearchInv, TypeOK, ClientOK, ServerOK, clientVars, serverVars
  <2>3. \A c \in Conns : LinkOK(c)' = LinkOK(c)
    BY <2>1 DEF LinkOK, ClientOn, ServerOn, clientVars, serverVars
  <2>4. ASSUME NEW c PROVE TalkOK(c)' = TalkOK(c)
    <3>1. /\ ClientOn(c)' = ClientOn(c) /\ ServerOn(c)' = ServerOn(c)
      BY <2>1 DEF ClientOn, ServerOn, clientVars, serverVars
    <3>2. \A query, e : Talk(c, query, e)' = Talk(c, query, e)
      BY <2>1, <3>1 DEF Talk, OfQuery, InStep, Sent, Taken, Given, Heard, ClientKnows, ServerKnows,
         Range, clientVars, serverVars
    <3> QED
      BY <3>2 DEF TalkOK
  <2>5. ReportOK'
    BY <2>1 DEF SearchInv, ReportOK, UndisturbedExact, clientVars
  <2> QED
    BY <2>1, <2>2, <2>3, <2>4, <2>5 DEF SearchInv
<1> QED
  BY <1>1, <1>2, <1>3, <1>4 DEF Next

(* The inductive invariant: what is on a connection is the next of one       *)
(* query's session, all of it as long as nothing went wrong.                 *)
THEOREM SearchInvariant == Spec => []SearchInv
  BY SearchInitInv, SearchNextInv, PTL DEF Spec

(* No buffer, counter or channel of either side leaves its type, whatever is *)
(* cut and whoever dies.                                                     *)
THEOREM TypeCorrect == Spec => []TypeOK
<1>1. SearchInv => TypeOK
  BY DEF SearchInv
<1> QED
  BY <1>1, SearchInvariant, PTL

(* A query over a connection nothing disturbed is answered exactly.          *)
THEOREM ExactUnlessDisturbed == Spec => []UndisturbedExact
<1>1. SearchInv => UndisturbedExact
  BY DEF SearchInv, ReportOK
<1> QED
  BY <1>1, SearchInvariant, PTL

(* No query's line holds another query's documents, disturbed or not.        *)
THEOREM NothingForeign == Spec => []NoForeignIds
<1>1. SearchInv => NoForeignIds
  BY DEF SearchInv, ReportOK, NoForeignIds, Own
<1> QED
  BY <1>1, SearchInvariant, PTL

(* The server tests each entry with that entry's own token.                  *)
THEOREM LoopsInStep == Spec => TokensInStep
<1> DEFINE A == s_i' = s_i + 1 /\ ~conn[s_conn].disturbed => s_xt' = Entry(s_stag, s_i')
<1>1. ASSUME SearchInv, [Next]_vars PROVE [A]_vars
  <2> SUFFICES ASSUME s_i' = s_i + 1, ~conn[s_conn].disturbed PROVE s_xt' = Entry(s_stag, s_i')
    OBVIOUS
  <2>1. s_i \in Nat /\ s_i + 1 # s_i /\ s_i + 1 # 0
    BY <1>1 DEF SearchInv, TypeOK
  <2>2. TestEntry
    <3>1. ~UNCHANGED vars
      BY <2>1 DEF vars, serverVars
    <3>2. ~ClientStep
      BY <2>1 DEF ClientStep, Connect, SendStag, RecvN, SendToken, RecvCount, RecvEset, Report,
         serverVars
    <3>3. ~Failure
      BY <2>1 DEF Failure, Cut, ServerCrash, RestartServer, ClientCrash, RestartClient,
         FreeServerFrame, serverVars
    <3>4. ServerStep
      BY <1>1, <3>1, <3>2, <3>3 DEF Next
    <3> QED
      BY <2>1, <3>4 DEF ServerStep, Accept, RecvStag, Retrieve, SendN, SendCount, SendEset,
         CloseConn, FreeServerFrame
  <2>3. spc = "tokens"
    BY <2>2 DEF TestEntry
  <2>4. /\ ServerOn(s_conn)
        /\ \E query \in Queries : \E e \in Seq(Own(query)) : Talk(s_conn, query, e)
    BY <1>1, <2>3, ServerAt
  <2>5. PICK query \in Queries : \E e \in Seq(Own(query)) : Talk(s_conn, query, e)
    BY <2>4
  <2>6. OfQuery(s_conn, query) /\ s_stag = query
    BY <2>3, <2>4, <2>5 DEF Talk, InStep, ServerKnows
  <2>7. ServerHears
    BY <1>1, <2>2, <2>3, ServerGone DEF TestEntry
  <2>8. Taken(s_conn, query) + 1 # 1 /\ (Taken(s_conn, query) + 1) - 1 = s_i + 1
    BY <2>1, <2>3, <2>4 DEF Taken
  <2>9. Head(conn[s_conn].c2s) = [xtoken |-> Entry(query, s_i + 1)]
    BY <1>1, <2>3, <2>6, <2>7, <2>8, TakenMsg DEF ClientMsg
  <2> QED
    BY <2>2, <2>6, <2>7, <2>9 DEF TestEntry
<1> QED
  BY <1>1, SearchInvariant, PTL DEF Spec, TokensInStep

-----------------------------------------------------------------------------
(* A run has written the lines of the queries before the current one. *)
LinesInv == Phase # "over" => Len(Lines) = q - 1

LEMMA LinesType ==
  ASSUME NEW R, NEW s \in Seq(R)
  PROVE  LET l == [k \in DOMAIN s |-> Line(s[k])]
         IN l \in Seq({Line(r) : r \in R}) /\ Len(l) = Len(s) /\ Len(s) \in Nat
<1>1. DOMAIN s = 1 .. Len(s) /\ Len(s) \in Nat
  OBVIOUS
<1> QED
  BY <1>1

LEMMA LinesAppend ==
  ASSUME NEW R, NEW s \in Seq(R), NEW r \in R
  PROVE  [k \in DOMAIN Append(s, r) |-> Line(Append(s, r)[k])]
           = Append([k \in DOMAIN s |-> Line(s[k])], Line(r))
<1> DEFINE S    == {Line(x) : x \in R}
           l    == [k \in DOMAIN s |-> Line(s[k])]
           more == [k \in DOMAIN Append(s, r) |-> Line(Append(s, r)[k])]
<1>1. l \in Seq(S) /\ Len(l) = Len(s) /\ Len(s) \in Nat /\ Line(r) \in S
  BY LinesType
<1>2. Append(s, r) \in Seq(R) /\ Len(Append(s, r)) = Len(s) + 1
  BY AppendFacts
<1>3. more \in Seq(S) /\ Len(more) = Len(s) + 1
  BY <1>2, LinesType
<1>4. Append(l, Line(r)) \in Seq(S) /\ Len(Append(l, Line(r))) = Len(s) + 1
  BY <1>1, AppendFacts
<1>5. ASSUME NEW k \in 1 .. Len(s) + 1 PROVE more[k] = Append(l, Line(r))[k]
  <2>1. k \in DOMAIN Append(s, r) /\ more[k] = Line(Append(s, r)[k])
    BY <1>2
  <2>2. CASE k = Len(s) + 1
    <3>1. Append(s, r)[k] = r
      BY <2>2
    <3>2. Append(l, Line(r))[k] = Line(r)
      BY <1>1, <2>2
    <3> QED
      BY <2>1, <3>1, <3>2
  <2>3. CASE k # Len(s) + 1
    <3>1. k \in 1 .. Len(s)
      BY <1>1, <2>3
    <3>2. Append(s, r)[k] = s[k]
      BY <3>1, AppendFacts
    <3>3. Append(l, Line(r))[k] = l[k]
      BY <1>1, <3>1, AppendFacts
    <3>4. l[k] = Line(s[k])
      BY <3>1
    <3> QED
      BY <2>1, <3>2, <3>3, <3>4
  <2> QED
    BY <2>2, <2>3
<1> HIDE DEF l, more, S
<1>6. more = Append(l, Line(r))
  BY <1>1, <1>3, <1>4, <1>5, SeqEqual
<1> QED
  BY <1>6 DEF l, more

(* What the client writes at the end of a query. *)
LEMMA NewLine ==
  ASSUME SearchInv, LinesInv, Report
  PROVE  \E ids \in SUBSET Own(q) :
           /\ ~Hurt => ids = Answer(q)
           /\ Lines' = Append(Lines, [query |-> q, ids |-> ids])
           /\ Len(Lines) = q - 1 /\ Len(Lines') = q /\ q \in Queries
<1> DEFINE R    == [query : Queries, over : 1 .. nconn, ids : SUBSET EntryIds]
           ids  == {IF k <= Len(c_eset) THEN c_eset[k] ELSE Junk : k \in 1 .. c_nmatch}
           line == [query |-> q, over |-> nconn, ids |-> ids]
<1>1. /\ cpc = "report" /\ reported' = Append(reported, line) /\ nconn' = nconn
      /\ conn' = [conn EXCEPT ![nconn] = ClientEndClosed(@)]
  BY DEF Report
<1>2. SearchInv'
  BY ReportInv
<1>3. /\ nconn \in Conns /\ q \in Queries /\ q \in Nat /\ conn[nconn] \in Connections
      /\ conn \in [Conns -> Connections]
  BY <1>1, ClientAt DEF SearchInv, TypeOK, Queries
<1>4. conn'[nconn].disturbed = conn[nconn].disturbed
  BY <1>1, <1>3, EndClosedType
<1>5. reported \in Seq(R) /\ reported' \in Seq(R)
  BY <1>1, <1>2 DEF SearchInv, ReportOK
<1> HIDE DEF R, ids
<1>6. Len(reported) \in Nat /\ Len(reported') = Len(reported) + 1 /\ reported'[Len(reported')] = line
      /\ DOMAIN reported' = 1 .. Len(reported')
  BY <1>1, <1>5
<1>7. line \in R /\ Len(reported') \in DOMAIN reported'
  BY <1>5, <1>6
<1>8. line.query = q /\ line.over = nconn /\ line.ids = ids /\ Line(line) = [query |-> q, ids |-> ids]
  BY DEF Line
<1>9. ids \in SUBSET Own(q) /\ (~conn[nconn].disturbed => ids = Answer(q))
  BY <1>2, <1>4, <1>6, <1>7, <1>8 DEF SearchInv, ReportOK, UndisturbedExact
<1>10. Lines' = Append(Lines, [query |-> q, ids |-> ids])
  BY <1>1, <1>5, <1>7, <1>8, LinesAppend DEF Lines
<1>11. Len(Lines) = Len(reported) /\ Len(Lines') = Len(reported')
  BY <1>5, LinesType DEF Lines
<1>12. Asking
  BY <1>1 DEF Asking
<1>13. Len(Lines) = q - 1
  BY <1>12 DEF LinesInv, Phase
<1>14. Len(Lines') = q
  BY <1>3, <1>6, <1>11, <1>13
<1>15. ~Hurt => ids = Answer(q)
  BY <1>9, <1>12 DEF Hurt
<1> HIDE DEF line
<1> QED
  BY <1>3, <1>9, <1>10, <1>13, <1>14, <1>15

LEMMA LinesInit == Init => LinesInv
<1> SUFFICES ASSUME Init PROVE LinesInv
  OBVIOUS
<1>1. reported = <<>> /\ q = 1
  BY DEF Init
<1>2. Len(Lines) = 0
  BY <1>1 DEF Lines
<1> QED
  BY <1>1, <1>2 DEF LinesInv

LEMMA LinesNext == SearchInv /\ LinesInv /\ [Next]_vars => LinesInv'
<1> SUFFICES ASSUME SearchInv, LinesInv, [Next]_vars PROVE LinesInv'
  OBVIOUS
<1>1. CASE Report
  <2>1. q' = q + 1 /\ q \in Nat
    BY <1>1 DEF Report, SearchInv, TypeOK
  <2>2. Len(Lines') = q
    BY <1>1, NewLine
  <2> QED
    BY <2>1, <2>2 DEF LinesInv
<1>2. CASE RestartClient
  <2>1. reported' = <<>> /\ q' = 1
    BY <1>2 DEF RestartClient
  <2>2. Len(Lines') = 0
    BY <2>1 DEF Lines
  <2> QED
    BY <2>1, <2>2 DEF LinesInv
<1>3. CASE Connect \/ SendStag \/ RecvN \/ SendToken \/ RecvCount \/ RecvEset \/ ClientCrash
  <2>1. UNCHANGED <<q, reported>> /\ (Phase' # "over" => Phase # "over")
    BY <1>3 DEF Connect, SendStag, RecvN, SendToken, RecvCount, RecvEset, ClientCrash, ClientSends,
       Phase, Asking
  <2> QED
    BY <2>1 DEF LinesInv, Lines
<1>4. CASE ServerStep \/ (\E c \in Conns : Cut(c)) \/ ServerCrash \/ RestartServer \/ UNCHANGED vars
  <2>1. UNCHANGED <<cpc, q, reported>>
    BY <1>4 DEF ServerStep, Accept, RecvStag, Retrieve, SendN, TestEntry, SendCount, SendEset,
       CloseConn, Cut, ServerCrash, RestartServer, clientVars, vars
  <2> QED
    BY <2>1 DEF LinesInv, Lines, Phase, Asking
<1> QED
  BY <1>1, <1>2, <1>3, <1>4 DEF Next, ClientStep, Failure

(* A step that leaves the client where it is at most disturbs its query. *)
LEMMA OnlyDisturbs ==
  ASSUME UNCHANGED <<Phase, Lines>>, Hurt => Hurt'
  PROVE  [Search!Next]_(Search!vars)
<1>1. CASE Hurt' = Hurt
  BY <1>1 DEF Search!vars
<1>2. CASE Hurt' # Hurt
  <2>1. Hurt' /\ ~Hurt
    BY <1>2 DEF Hurt
  <2>2. Phase = "asking"
    BY <2>1 DEF Hurt, Phase
  <2>3. Search!Disturb
    BY <2>1, <2>2 DEF Search!Disturb
  <2> QED
    BY <2>3 DEF Search!Next
<1> QED
  BY <1>1, <1>2

(* A disturbed connection stays so.                                         *)
LEMMA StaysDisturbed ==
  ASSUME SearchInv, Next, NEW c \in 1 .. nconn, conn[c].disturbed
  PROVE  conn'[c].disturbed
<1>1. /\ conn \in [Conns -> Connections] /\ c \in Conns /\ nconn \in Nat /\ c # nconn + 1
  BY ConnsType DEF SearchInv, TypeOK
<1>2. ASSUME NEW d, NEW m, \/ conn' = [conn EXCEPT ![d].c2s = m] \/ conn' = [conn EXCEPT ![d].s2c = m]
                           \/ conn' = [conn EXCEPT ![d].sv = m]
      PROVE  conn'[c].disturbed
  BY <1>1, <1>2 DEF Connections
<1>3. ASSUME NEW d, conn' = [conn EXCEPT ![d] = ClientEndClosed(@)]
                    \/ conn' = [conn EXCEPT ![d] = ServerEndClosed(@)]
      PROVE  conn'[c].disturbed
  <2>1. ClientEndClosed(conn[c]).disturbed /\ ServerEndClosed(conn[c]).disturbed
    BY <1>1, EndClosedType
  <2> QED
    BY <1>1, <1>3, <2>1
<1>4. ServerDies => conn'[c].disturbed
  <2> SUFFICES ASSUME ServerDies PROVE conn'[c].disturbed
    OBVIOUS
  <2>1. ServerEndClosed(conn[c]) \in Connections
    BY <1>1, EndClosedType
  <2>2. [ServerEndClosed(conn[c]) EXCEPT !.disturbed = TRUE].disturbed
    BY <2>1 DEF Connections
  <2> QED
    BY <1>1, <2>2 DEF ServerDies
<1>5. CASE conn' = conn
  BY <1>5
<1>6. CASE Connect
  BY <1>1, <1>6 DEF Connect
<1>7. CASE SendStag \/ SendToken
  <2>1. PICK m : \/ conn' = conn \/ conn' = [conn EXCEPT ![nconn].c2s = m]
                 \/ conn' = [conn EXCEPT ![nconn] = ClientEndClosed(@)]
    BY <1>7 DEF SendStag, SendToken, ClientSends
  <2> QED
    BY <1>2, <1>3, <1>5, <2>1
<1>8. CASE RecvN \/ RecvCount \/ RecvEset
  <2>1. conn' = conn \/ conn' = [conn EXCEPT ![nconn].s2c = Tail(conn[nconn].s2c)]
    BY <1>1, <1>8 DEF RecvN, RecvCount, RecvEset, ClientRecv
  <2> QED
    BY <1>2, <1>5, <2>1
<1>9. CASE Report
  BY <1>3, <1>9 DEF Report
<1>10. CASE Accept
  BY <1>2, <1>10 DEF Accept
<1>11. CASE RecvStag \/ TestEntry
  <2>1. conn' = conn \/ conn' = [conn EXCEPT ![s_conn].c2s = Tail(conn[s_conn].c2s)]
    <3>1. CASE RecvStag
      <4>1. s_conn \in 1 .. nconn /\ 1 .. nconn \subseteq Conns
        BY <3>1, ConnsType DEF RecvStag, SearchInv, ServerOK
      <4> QED
        BY <1>1, <3>1, <4>1 DEF RecvStag, ServerRecv
    <3>2. CASE TestEntry
      <4>1. s_conn \in 1 .. nconn /\ 1 .. nconn \subseteq Conns
        BY <3>2, ConnsType DEF TestEntry, SearchInv, ServerOK
      <4> QED
        BY <1>1, <3>2, <4>1 DEF TestEntry, ServerRecv
    <3> QED
      BY <1>11, <3>1, <3>2
  <2> QED
    BY <1>2, <1>5, <2>1
<1>12. CASE SendN \/ SendCount \/ SendEset
  <2>1. PICK m : conn' = conn \/ ServerDies \/ conn' = [conn EXCEPT ![s_conn].s2c = m]
    BY <1>12 DEF SendN, SendCount, SendEset, ServerSends
  <2> QED
    BY <1>2, <1>4, <1>5, <2>1
<1>13. CASE Retrieve \/ RestartServer \/ RestartClient
  BY <1>13 DEF Retrieve, RestartServer, RestartClient
<1>14. CASE CloseConn
  BY <1>3, <1>14 DEF CloseConn
<1>15. ASSUME NEW d \in Conns, Cut(d) PROVE conn'[c].disturbed
  <2>1. conn[c].disturbed /\ DOMAIN conn[c] = {"cl", "sv", "cut", "c2s", "s2c", "disturbed"}
    BY <1>1 DEF Connections
  <2>2. PICK a, b : conn' = [conn EXCEPT ![d].cut = TRUE, ![d].disturbed = TRUE,
                                            ![d].c2s = a, ![d].s2c = b]
    BY <1>15 DEF Cut
  <2> QED
    BY <1>1, <2>1, <2>2
<1>16. CASE ServerCrash
  BY <1>4, <1>16 DEF ServerCrash
<1>17. CASE ClientCrash
  <2>1. PICK a : conn' = [conn EXCEPT ![nconn] = [ClientEndClosed(@) EXCEPT !.c2s = a, !.disturbed = TRUE]]
    BY <1>17 DEF ClientCrash
  <2>2. ClientEndClosed(conn[c]) \in Connections
    BY <1>1, EndClosedType
  <2>3. [ClientEndClosed(conn[c]) EXCEPT !.c2s = a, !.disturbed = TRUE].disturbed
    BY <2>2 DEF Connections
  <2> QED
    BY <1>1, <2>1, <2>3
<1> QED
  BY <1>6, <1>7, <1>8, <1>9, <1>10, <1>11, <1>12, <1>13, <1>14, <1>15, <1>16, <1>17
  DEF Next, ClientStep, ServerStep, Failure

(* Every step of the programs is a step of the search or leaves it alone.    *)
LEMMA StepRefines == SearchInv /\ LinesInv /\ [Next]_vars => [Search!Next]_(Search!vars)
<1> SUFFICES ASSUME SearchInv, LinesInv, [Next]_vars PROVE [Search!Next]_(Search!vars)
  OBVIOUS
<1>1. CASE Connect
  <2>1. cpc = "connect" /\ UNCHANGED reported /\ q \in Nat /\ q <= NQueries
    BY <1>1 DEF Connect, SearchInv, TypeOK
  <2>2. CASE spc = "down"
    <3>1. cpc' = "exited"
      BY <1>1, <2>2 DEF Connect
    <3>2. Search!Stop
      BY <2>1, <3>1 DEF Search!Stop, Phase, Asking, Hurt, Lines
    <3> QED
      BY <3>2 DEF Search!Next
  <2>3. CASE spc # "down"
    <3>1. cpc' = "stag" /\ conn' = [conn EXCEPT ![nconn'] = [Unused EXCEPT !.cl = TRUE, !.sv = "queued"]]
          /\ nconn' = nconn + 1
      BY <1>1, <2>3 DEF Connect
    <3>2. nconn' \in Conns /\ conn \in [Conns -> Connections]
      <4>1. SearchInv'
        BY <1>1, ConnectInv
      <4>2. nconn' \in 0 .. MaxRuns * NQueries /\ nconn' >= 1
        <5>1. nconn \in Nat
          BY ConnsType DEF SearchInv
        <5>2. nconn' \in 0 .. MaxRuns * NQueries
          BY <4>1 DEF SearchInv, TypeOK
        <5> QED
          BY <3>1, <5>1, <5>2
      <4> QED
        BY <4>2, RunsBound, Numbers DEF Conns, SearchInv, TypeOK
    <3>3. ~conn'[nconn'].disturbed
      BY <3>1, <3>2 DEF Unused
    <3>4. Search!Current = q
      BY <2>1 DEF Search!Current, LinesInv, Phase, Asking
    <3>5. Search!Ask
      BY <2>1, <3>1, <3>3, <3>4 DEF Search!Ask, Phase, Asking, Hurt, Lines
    <3> QED
      BY <3>5 DEF Search!Next
  <2> QED
    BY <2>2, <2>3
<1>2. CASE Report
  <2>1. PICK ids \in SUBSET Own(q) :
             /\ ~Hurt => ids = Answer(q)
             /\ Lines' = Append(Lines, [query |-> q, ids |-> ids])
             /\ Len(Lines) = q - 1 /\ q \in Queries
    BY <1>2, NewLine
  <2>2. Search!Current = q
    BY <2>1 DEF Search!Current, Queries
  <2>3. cpc = "report" /\ cpc' = IF q = NQueries THEN "finished" ELSE "connect"
    BY <1>2 DEF Report
  <2>4. /\ Phase = "asking" /\ Phase' = (IF q = NQueries THEN "over" ELSE "idle") /\ Hurt' = FALSE
    BY <2>3 DEF Phase, Asking, Hurt
  <2>5. Search!Report
    BY <2>1, <2>2, <2>4 DEF Search!Report
  <2> QED
    BY <2>5 DEF Search!Next
<1>3. CASE RestartClient
  <2>1. cpc \in {"exited", "finished"} /\ cpc' = "connect" /\ reported' = <<>>
    BY <1>3 DEF RestartClient
  <2>2. Lines' = <<>>
    BY <2>1 DEF Lines
  <2>3. Search!Restart
    BY <2>1, <2>2 DEF Search!Restart, Phase, Asking, Hurt
  <2> QED
    BY <2>3 DEF Search!Next
<1>4. CASE ClientCrash \/ ((SendStag \/ SendToken) /\ cpc' = "exited")
  <2>1. cpc' = "exited" /\ Phase # "over" /\ UNCHANGED reported
    BY <1>4 DEF ClientCrash, SendStag, SendToken, Phase, Asking, SearchInv, TypeOK
  <2>2. Search!Stop
    BY <2>1 DEF Search!Stop, Phase, Asking, Hurt, Lines
  <2> QED
    BY <2>2 DEF Search!Next
<1>5. CASE RecvN \/ RecvCount \/ RecvEset \/ ((SendStag \/ SendToken) /\ cpc' # "exited")
  <2>1. Asking /\ Asking' /\ UNCHANGED <<nconn, reported>>
    BY <1>5 DEF SendStag, RecvN, SendToken, RecvCount, RecvEset, ClientSends, Asking
  <2>2. nconn \in 1 .. nconn /\ Next
    <3>1. ClientOn(nconn)
      BY <2>1 DEF ClientOn, Asking
    <3>2. nconn \in Nat /\ nconn >= 1
      BY <2>1 DEF SearchInv, TypeOK, ClientOK, Asking
    <3> QED
      BY <1>5, <3>2 DEF Next, ClientStep
  <2>3. Hurt => Hurt'
    BY <2>1, <2>2, StaysDisturbed DEF Hurt
  <2> QED
    BY <2>1, <2>3, OnlyDisturbs DEF Phase, Lines
<1>6. CASE ServerStep \/ (\E c \in Conns : Cut(c)) \/ ServerCrash \/ RestartServer
  <2>1. UNCHANGED <<cpc, nconn, reported>>
    BY <1>6 DEF ServerStep, Accept, RecvStag, Retrieve, SendN, TestEntry, SendCount, SendEset,
       CloseConn, Cut, ServerCrash, RestartServer, clientVars
  <2>2. Asking => nconn \in 1 .. nconn
    BY DEF Asking, SearchInv, TypeOK, ClientOK
  <2>3. Hurt => Hurt'
    BY <1>6, <2>1, <2>2, StaysDisturbed DEF Hurt, Asking, Next, Failure
  <2> QED
    BY <2>1, <2>3, OnlyDisturbs DEF Phase, Asking, Lines
<1>7. CASE UNCHANGED vars
  BY <1>7 DEF vars, clientVars, Search!vars, Phase, Asking, Lines, Hurt
<1> QED
  BY <1>1, <1>2, <1>3, <1>4, <1>5, <1>6, <1>7 DEF Next, ClientStep, Failure

(* The search programs implement the abstract search, for any number of      *)
(* queries and runs and whatever fails: the lines of a run are the queries'  *)
(* in their order, exact unless the query was disturbed.                     *)
THEOREM ProgramsImplementSearch == Spec => SearchSpec
<1>1. Init => Search!Init
  <2> SUFFICES ASSUME Init PROVE Search!Init
    OBVIOUS
  <2>1. cpc = "connect" /\ reported = <<>>
    BY DEF Init
  <2>2. Lines = <<>>
    BY <2>1 DEF Lines
  <2> QED
    BY <2>1, <2>2 DEF Search!Init, Phase, Asking, Hurt
<1> QED
  BY <1>1, SearchInitInv, SearchNextInv, LinesInit, LinesNext, StepRefines, PTL
  DEF Spec, SearchSpec, Search!Spec
=============================================================================
