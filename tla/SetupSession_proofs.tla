-------------------------- MODULE SetupSession_proofs --------------------------
(***************************************************************************)
(* What the set-up programs leave behind, for every sequence of databases  *)
(* and whatever breaks.  As long as the server has missed nothing, the     *)
(* connection holds a run of the client's messages that begins with the    *)
(* one the server's loops expect; once it has missed one, it never hears   *)
(* another, and never gets as far as the file.                             *)
(***************************************************************************)
EXTENDS SetupSession, TLAPS

(* What the server's loops are about to receive. *)
Expects ==
  CASE spc = "rows" -> Rows
    [] spc = "row"  -> RowFrom(run, n + 1)
    [] spc = "pair" -> PairFrom(run, n + 1, i + 1)
    [] spc = "val"  -> Message("val", n + 1, i + 1)
    [] spc = "size" -> Size
    [] spc = "data" -> File
    [] OTHER        -> Done

(* The entries they have set. *)
Reached(k) ==
  CASE spc = "rows" -> FALSE
    [] spc = "row"  -> k[1] <= n
    [] spc \in {"pair", "val"} -> k[1] <= n \/ (k[1] = n + 1 /\ k[2] <= i)
    [] OTHER -> TRUE

Holds(v, k) == k \in DOMAIN redis /\ redis[k] = Entries(v)[k]
Full(v)     == \A k \in Positions(v) : Holds(v, k)

NumbersOK ==
  /\ spc # "rows" => n_rows = Len(Shapes[run])
  /\ spc \in {"pair", "val"} => n < n_rows /\ n_row_ids = Shapes[run][n + 1]
  /\ spc = "val" => i < n_row_ids /\ db_in_key = Key(n + 1, i + 1)

(* The connection holds what comes between the server and the client. *)
ChainOK ==
  /\ \A k \in 1 .. Len(chan) :
       IF chan[k] = Piece THEN disturbed
       ELSE chan[k] = IF k = 1 THEN Expects ELSE After(run, chan[k - 1])
  /\ ~disturbed =>
       /\ cmsg = IF chan = <<>> THEN Expects ELSE After(run, chan[Len(chan)])
       /\ closed => cmsg = Done

RedisOK == \A k \in Positions(run) : Reached(k) => Holds(run, k)

InSync == NumbersOK /\ ChainOK /\ RedisOK
Lost   == closed /\ ~Hears

SyncOK ==
  /\ disturbed => closed
  /\ spc # "down" => /\ run \in Versions
                     /\ InSync \/ (disturbed /\ Lost)
  /\ spc \in {"data", "open", "write"} => Full(run)

FilesOK ==
  /\ bloom \in Versions => bloom <= run /\ (bloom = run => spc \in AfterFile)
  /\ run > 0 /\ ~disturbed /\ spc \in AfterFile => bloom = run /\ Full(run)
  /\ FilterImpliesIndex

LoopsOK ==
  /\ spc \in {"pair", "val"} => n < n_rows
  /\ spc = "val" => i < n_row_ids

SetupInv == TypeOK /\ LoopsOK /\ SyncOK /\ FilesOK

USE DEF AfterFile

-----------------------------------------------------------------------------
(* A sequence over a set. *)
LEMMA SequenceOver ==
  ASSUME NEW S, NEW s \in Seq(S)
  PROVE  Len(s) \in Nat /\ \A k \in 1 .. Len(s) : s[k] \in S
  OBVIOUS

(* The databases of the client. *)
LEMMA ShapesType ==
  /\ Len(Shapes) \in Nat /\ Versions = 1 .. Len(Shapes)
  /\ \A v \in Versions :
       /\ Len(Shapes[v]) \in Nat
       /\ \A r \in 1 .. Len(Shapes[v]) : Shapes[v][r] \in 1 .. MaxRowIds
<1>1. Shapes \in Seq(Seq(1 .. MaxRowIds))
  BY ShapesAssumption
<1>2. Len(Shapes) \in Nat /\ Versions = 1 .. Len(Shapes)
  BY <1>1 DEF Versions
<1>3. ASSUME NEW v \in Versions
      PROVE  /\ Len(Shapes[v]) \in Nat
             /\ \A r \in 1 .. Len(Shapes[v]) : Shapes[v][r] \in 1 .. MaxRowIds
  <2>1. v \in 1 .. Len(Shapes)
    BY <1>2
  <2>2. Shapes[v] \in Seq(1 .. MaxRowIds)
    <3> DEFINE Rowlists == Seq(1 .. MaxRowIds)
    <3>1. Shapes \in Seq(Rowlists)
      BY <1>1
    <3> HIDE DEF Rowlists
    <3>2. Shapes[v] \in Rowlists
      BY <2>1, <3>1
    <3> QED
      BY <3>2 DEF Rowlists
  <2> QED
    BY <2>2, SequenceOver, Zenon
<1> QED
  BY <1>2, <1>3

(* What follows a message is a message, or the end; neither is a piece. *)
LEMMA AfterType ==
  ASSUME NEW v, NEW m \in Messages
  PROVE  After(v, m) \in Messages \cup {Done}
<1> DEFINE r == m[2]
           p == m[3]
<1>1. r \in Nat /\ p \in Nat
  BY DEF Messages
<1>2. \A k \in Nat : RowFrom(v, k) \in Messages
  BY DEF RowFrom, Size, Message, Messages
<1>3. \A l \in Nat : PairFrom(v, r, l) \in Messages
  BY <1>1, <1>2 DEF PairFrom, Message, Messages
<1>4. Message("val", r, p) \in Messages /\ File \in Messages
  BY <1>1 DEF Message, File, Messages
<1>5. p + 1 \in Nat
  BY <1>1
<1> HIDE DEF r, p
<1> QED
  BY <1>2, <1>3, <1>4, <1>5 DEF After, r, p

LEMMA MessagesWhole == Done \notin Messages /\ Piece \notin Messages /\ Done # Piece
  BY DEF Done, Piece, Message, Messages

(* The loops still expect something. *)
LEMMA ExpectsSomething ==
  ASSUME TypeOK, spc \in {"rows", "row", "pair", "val", "size", "data"}
  PROVE  Expects \in Messages
<1>1. n \in Nat /\ n + 1 \in Nat /\ n + 2 \in Nat /\ (spc \in {"pair", "val"} => i + 1 \in Nat)
  BY DEF TypeOK
<1>2. \A k \in Nat : RowFrom(run, k) \in Messages
  BY DEF RowFrom, Size, Message, Messages
<1>3. spc = "pair" => PairFrom(run, n + 1, i + 1) \in Messages
  BY <1>1, <1>2 DEF PairFrom, Message, Messages
<1>4. spc = "val" => Message("val", n + 1, i + 1) \in Messages
  BY <1>1 DEF Message, Messages
<1>5. Rows \in Messages /\ Size \in Messages /\ File \in Messages
  BY DEF Rows, Size, File, Message, Messages
<1> QED
  BY <1>1, <1>2, <1>3, <1>4, <1>5 DEF Expects

(* A message that is heard is the expected one. *)
LEMMA HearsExpected ==
  ASSUME SetupInv, spc # "down", Hears
  PROVE  InSync /\ chan # <<>> /\ Head(chan) = Expects
<1>1. InSync /\ chan # <<>> /\ Head(chan) # Piece
  BY DEF SetupInv, SyncOK, Lost, Hears
<1>2. Len(chan) \in Nat /\ Len(chan) >= 1 /\ Head(chan) = chan[1]
  BY <1>1 DEF SetupInv, TypeOK
<1> QED
  BY <1>1, <1>2 DEF InSync, ChainOK

(* A server that waits for a message that will not come has been cut off. *)
LEMMA BrokenDisturbed ==
  ASSUME SetupInv, spc \in {"rows", "row", "pair", "val", "size", "data"}, Broken
  PROVE  closed /\ disturbed /\ chan' = <<>>
<1> SUFFICES ASSUME ~disturbed PROVE FALSE
  BY DEF Broken
<1>1. InSync /\ closed /\ ~Hears
  BY DEF SetupInv, SyncOK, Broken
<1>2. cmsg = Done
  BY <1>1 DEF InSync, ChainOK
<1>3. chan = <<>>
  <2> SUFFICES ASSUME chan # <<>> PROVE FALSE
    OBVIOUS
  <2>1. Head(chan) = Piece /\ Head(chan) = chan[1] /\ 1 \in 1 .. Len(chan)
    BY <1>1 DEF Hears, SetupInv, TypeOK
  <2> QED
    BY <1>1, <2>1 DEF InSync, ChainOK
<1> QED
  BY <1>1, <1>2, <1>3, ExpectsSomething, MessagesWhole DEF InSync, ChainOK, SetupInv

(* What is left of the connection's contents. *)
LEMMA TailFacts ==
  ASSUME NEW S, NEW s \in Seq(S), s # <<>>
  PROVE  /\ Len(s) \in Nat /\ Len(s) >= 1 /\ Head(s) = s[1] /\ s[1] \in S
         /\ Tail(s) \in Seq(S) /\ Len(Tail(s)) = Len(s) - 1
         /\ \A k \in 1 .. Len(Tail(s)) : Tail(s)[k] = s[k + 1]
         /\ Tail(s) = <<>> <=> Len(s) = 1
<1>1. Len(s) \in Nat /\ Len(s) >= 1
  OBVIOUS
<1>2. Head(s) = s[1] /\ s[1] \in S
  BY <1>1
<1>3. Tail(s) \in Seq(S) /\ Len(Tail(s)) = Len(s) - 1
  BY <1>1
<1>4. \A k \in 1 .. Len(Tail(s)) : Tail(s)[k] = s[k + 1]
  BY <1>1, <1>3
<1>5. Tail(s) = <<>> <=> Len(Tail(s)) = 0
  <2>1. \A t \in Seq(S) : t = <<>> <=> Len(t) = 0
    OBVIOUS
  <2> QED
    BY <1>3, <2>1
<1> QED
  BY <1>1, <1>2, <1>3, <1>4, <1>5

(* Receiving the expected message moves the chain on. *)
LEMMA ChainShift ==
  ASSUME TypeOK, ChainOK, chan # <<>>, Head(chan) = Expects, chan' = Tail(chan),
         Expects' = After(run, Expects), UNCHANGED <<run, closed, disturbed, cmsg>>
  PROVE  ChainOK'
<1>1. chan \in Seq(Messages \cup {Piece})
  BY DEF TypeOK
<1>2. /\ Len(chan) \in Nat /\ Len(chan) >= 1 /\ Expects = chan[1] /\ Len(chan') = Len(chan) - 1
      /\ \A k \in 1 .. Len(chan') : chan'[k] = chan[k + 1]
      /\ chan' = <<>> <=> Len(chan) = 1
  BY <1>1, TailFacts
<1>3. ASSUME NEW k \in 1 .. Len(chan')
      PROVE  IF chan'[k] = Piece THEN disturbed
             ELSE chan'[k] = IF k = 1 THEN Expects' ELSE After(run, chan'[k - 1])
  <2>1. /\ k + 1 \in 1 .. Len(chan) /\ k + 1 # 1 /\ chan'[k] = chan[k + 1] /\ (k + 1) - 1 = k
        /\ k # 1 => k - 1 \in 1 .. Len(chan') /\ (k - 1) + 1 = k
    BY <1>2
  <2>2. IF chan[k + 1] = Piece THEN disturbed ELSE chan[k + 1] = After(run, chan[k])
    BY <2>1 DEF ChainOK
  <2>3. CASE k = 1
    BY <1>2, <2>1, <2>2, <2>3
  <2>4. CASE k # 1
    <3>1. chan'[k - 1] = chan[k]
      BY <1>2, <2>1, <2>4
    <3> QED
      BY <2>1, <2>2, <2>4, <3>1
  <2> QED
    BY <2>3, <2>4
<1>4. ASSUME ~disturbed
      PROVE  cmsg = IF chan' = <<>> THEN Expects' ELSE After(run, chan'[Len(chan')])
  <2>1. cmsg = After(run, chan[Len(chan)])
    BY <1>2, <1>4 DEF ChainOK
  <2>2. CASE chan' = <<>>
    BY <1>2, <2>1, <2>2
  <2>3. CASE chan' # <<>>
    <3>1. Len(chan') \in 1 .. Len(chan') /\ Len(chan') + 1 = Len(chan)
      BY <1>2, <2>3
    <3> QED
      BY <1>2, <2>1, <2>3, <3>1
  <2> QED
    BY <2>2, <2>3
<1> QED
  BY <1>3, <1>4 DEF ChainOK

(* Steps that do not receive leave it as it is. *)
LEMMA ChainKept ==
  ASSUME ChainOK, Expects' = Expects, UNCHANGED <<chan, run, closed, disturbed, cmsg>>
  PROVE  ChainOK'
  BY DEF ChainOK

-----------------------------------------------------------------------------
(* The initial states satisfy the invariant. *)
LEMMA SetupInitInv == Init => SetupInv
<1> SUFFICES ASSUME Init PROVE SetupInv
  OBVIOUS
<1>1. TypeOK
  <2>1. chan \in Seq(Messages \cup {Piece})
    BY DEF Init
  <2>2. run \in 0 .. Len(Shapes) /\ touched \in 0 .. run /\ n_row_ids \in 0 .. MaxRowIds
    BY ShapesType, ShapesAssumption DEF Init
  <2> QED
    BY <2>1, <2>2 DEF Init, TypeOK
<1>2. SyncOK
  BY DEF Init, SyncOK
<1>3. FilesOK
  <2>1. bloom \notin Versions
    <3>1. None \notin Nat /\ bloom = None
      BY ShapesAssumption DEF Init
    <3> QED
      BY <3>1, ShapesType
  <2> QED
    BY <2>1 DEF Init, FilesOK, FilterImpliesIndex
<1> QED
  BY <1>1, <1>2, <1>3 DEF SetupInv, LoopsOK, Init

(* The programs are started: nothing of the new database has been sent. *)
LEMMA StartRunInv == SetupInv /\ StartRun => SetupInv'
<1> SUFFICES ASSUME SetupInv, StartRun PROVE SetupInv'
  OBVIOUS
<1> USE DEF SetupInv
<1>1. run' = run + 1 /\ run' \in Versions /\ run \in Nat /\ run' \in 0 .. Len(Shapes)
  BY ShapesType DEF TypeOK, StartRun
<1>2. TypeOK'
  <2>1. chan' \in Seq(Messages \cup {Piece}) /\ Rows \in Messages
    BY DEF StartRun, Rows, Message, Messages
  <2>2. touched' \in 0 .. run' /\ n_row_ids' \in 0 .. MaxRowIds
    BY <1>1, ShapesAssumption DEF TypeOK, StartRun
  <2>3. bloom' \in Versions \cup {None, Torn} /\ n_rows' \in Nat /\ n' \in 0 .. n_rows'
    BY DEF TypeOK, StartRun
  <2> QED
    BY <1>1, <2>1, <2>2, <2>3 DEF TypeOK, StartRun
<1>3. SyncOK'
  <2>1. spc' = "rows" /\ Expects' = Rows /\ chan' = <<>> /\ cmsg' = Rows /\ ~disturbed' /\ ~closed'
    BY DEF StartRun, Expects
  <2>2. NumbersOK' /\ RedisOK'
    BY <2>1 DEF NumbersOK, RedisOK, Reached
  <2>3. ChainOK'
    BY <2>1 DEF ChainOK
  <2> QED
    BY <1>1, <2>1, <2>2, <2>3 DEF SyncOK, InSync
<1>4. FilesOK'
  <2>1. bloom \in Versions => bloom <= run /\ bloom \in Nat
    BY ShapesType DEF FilesOK
  <2> QED
    BY <1>1, <2>1 DEF FilesOK, FilterImpliesIndex, StartRun
<1> QED
  BY <1>2, <1>3, <1>4 DEF StartRun, LoopsOK

(* While nothing but the connection and the client changes, the files stay   *)
(* what they are.                                                           *)
LEMMA FilesKept ==
  ASSUME FilesOK, UNCHANGED <<run, redis, bloom, touched>>,
         spc' = spc \/ (spc' \in AfterFile /\ spc \in AfterFile),
         ~disturbed' => ~disturbed
  PROVE  FilesOK'
  BY DEF FilesOK, FilterImpliesIndex, Full, Holds

(* A message of the client goes out, or is lost. *)
LEMMA ClientSendInv == SetupInv /\ ClientSend => SetupInv'
<1> SUFFICES ASSUME SetupInv, ClientSend PROVE SetupInv'
  OBVIOUS
<1> USE DEF SetupInv
<1>1. /\ cmsg \in Messages /\ chan \in Seq(Messages \cup {Piece}) /\ Len(chan) \in Nat
      /\ UNCHANGED <<run, redis, bloom, closed, disturbed, spc, serverLocals, worker, announced, touched>>
  BY DEF TypeOK, ClientSend
<1>2. After(run, cmsg) \in Messages \cup {Done}
  BY <1>1, AfterType
<1>3. /\ Expects' = Expects /\ NumbersOK' = NumbersOK /\ RedisOK' = RedisOK
      /\ \A v \in Versions : Full(v)' = Full(v)
  BY <1>1 DEF Expects, NumbersOK, RedisOK, Reached, Full, Holds, serverLocals
<1>4. FilesOK'
  BY <1>1, FilesKept
<1>5. CASE ~closed
  <2>1. chan' = Append(chan, cmsg) /\ cmsg' = After(run, cmsg) /\ UNCHANGED cpc
    BY <1>5 DEF ClientSend
  <2>2. /\ chan' \in Seq(Messages \cup {Piece}) /\ Len(chan') = Len(chan) + 1
        /\ chan'[Len(chan) + 1] = cmsg /\ \A k \in 1 .. Len(chan) : chan'[k] = chan[k]
    BY <1>1, <2>1
  <2>3. TypeOK'
    BY <1>1, <1>2, <2>1, <2>2 DEF TypeOK, serverLocals
  <2>4. ASSUME spc # "down" PROVE ChainOK'
    <3>1. ChainOK /\ ~disturbed
      BY <1>5, <2>4 DEF SyncOK, InSync
    <3>2. cmsg = (IF Len(chan) = 0 THEN Expects ELSE After(run, chan[Len(chan)])) /\ cmsg # Piece
      BY <1>1, <3>1, MessagesWhole DEF ChainOK
    <3>3. ASSUME NEW k \in 1 .. Len(chan')
          PROVE  IF chan'[k] = Piece THEN disturbed
                 ELSE chan'[k] = IF k = 1 THEN Expects ELSE After(run, chan'[k - 1])
      <4>1. CASE k = Len(chan) + 1
        <5>1. k # 1 => k - 1 \in 1 .. Len(chan) /\ k - 1 = Len(chan) /\ Len(chan) # 0
          BY <1>1, <4>1
        <5>2. k = 1 => Len(chan) = 0
          BY <1>1, <4>1
        <5> QED
          BY <2>2, <3>2, <4>1, <5>1, <5>2
      <4>2. CASE k # Len(chan) + 1
        <5>1. k \in 1 .. Len(chan) /\ (k # 1 => k - 1 \in 1 .. Len(chan))
          BY <1>1, <2>2, <4>2
        <5> QED
          BY <2>2, <3>1, <5>1 DEF ChainOK
      <4> QED
        BY <4>1, <4>2
    <3>4. cmsg' = After(run, chan'[Len(chan')]) /\ chan' # <<>> /\ ~closed'
      BY <1>1, <1>5, <2>1, <2>2
    <3> QED
      BY <1>1, <1>3, <3>3, <3>4 DEF ChainOK
  <2>5. SyncOK'
    BY <1>1, <1>3, <1>5, <2>4 DEF SyncOK, InSync
  <2> QED
    BY <1>1, <1>4, <2>3, <2>5 DEF serverLocals, LoopsOK
<1>6. CASE closed
  <2>1. UNCHANGED chan /\ cmsg' \in Messages \cup {Done} /\ cpc' \in {"off", "sending"}
    BY <1>1, <1>2, <1>6 DEF ClientSend
  <2>2. TypeOK'
    BY <1>1, <2>1 DEF TypeOK, serverLocals
  <2>3. ASSUME spc # "down" PROVE disturbed
    <3> SUFFICES ASSUME ~disturbed PROVE FALSE
      OBVIOUS
    <3>1. cmsg = Done
      BY <1>6, <2>3 DEF SyncOK, InSync, ChainOK
    <3> QED
      BY <1>1, <3>1, MessagesWhole
  <2>4. spc # "down" /\ InSync => InSync'
    BY <1>1, <1>3, <2>1, <2>3 DEF InSync, ChainOK
  <2>5. SyncOK'
    BY <1>1, <1>3, <2>1, <2>3, <2>4 DEF SyncOK, Lost, Hears
  <2> QED
    BY <1>1, <1>4, <2>2, <2>5 DEF serverLocals, LoopsOK
<1> QED
  BY <1>5, <1>6

(* The client has sent everything and closes. *)
LEMMA ClientClosesInv == SetupInv /\ ClientCloses => SetupInv'
<1> SUFFICES ASSUME SetupInv, ClientCloses PROVE SetupInv'
  OBVIOUS
<1> USE DEF SetupInv
<1>1. /\ cmsg = Done /\ cpc' = "off" /\ closed'
      /\ UNCHANGED <<run, redis, bloom, cmsg, chan, disturbed, spc, serverLocals, worker, announced, touched>>
  BY DEF ClientCloses
<1>2. TypeOK'
  BY <1>1 DEF TypeOK, serverLocals
<1>3. FilesOK'
  BY <1>1, FilesKept
<1>4. InSync => InSync'
  BY <1>1 DEF InSync, NumbersOK, ChainOK, RedisOK, Reached, Holds, Expects, serverLocals
<1>5. SyncOK'
  BY <1>1, <1>4 DEF SyncOK, Lost, Hears, Full, Holds
<1> QED
  BY <1>1, <1>2, <1>3, <1>5 DEF serverLocals, LoopsOK

-----------------------------------------------------------------------------
(* What a receive of the server leaves of the connection. *)
LEMMA ReceiveType ==
  ASSUME TypeOK, Recv \/ Broken
  PROVE  chan' \in Seq(Messages \cup {Piece})
<1>1. CASE Recv
  <2>1. chan \in Seq(Messages \cup {Piece}) /\ chan # <<>> /\ chan' = Tail(chan)
    BY <1>1 DEF TypeOK, Recv, Hears
  <2> QED
    BY <2>1, TailFacts
<1>2. CASE Broken
  BY <1>2 DEF Broken
<1> QED
  BY <1>1, <1>2

(* After a message heard, the server is where it should be. *)
LEMMA HeardSync ==
  ASSUME SetupInv, spc # "down", Recv, UNCHANGED serverRest,
         Expects' = After(run, Expects), NumbersOK', RedisOK',
         spc' \in {"data", "open", "write"} => Full(run)'
  PROVE  SyncOK'
<1>1. InSync /\ chan # <<>> /\ Head(chan) = Expects /\ chan' = Tail(chan)
  BY HearsExpected DEF Recv
<1>2. ChainOK'
  BY <1>1, ChainShift DEF InSync, SetupInv, serverRest
<1> QED
  BY <1>2 DEF SyncOK, InSync, SetupInv, serverRest

(* After a message missed, it hears no other. *)
LEMMA MissedSync ==
  ASSUME SetupInv, spc \in {"rows", "row", "pair", "val", "size", "data"}, Broken,
         UNCHANGED serverRest, spc' \notin {"data", "open", "write"}
  PROVE  SyncOK'
<1>1. closed /\ disturbed /\ chan' = <<>>
  BY BrokenDisturbed
<1> QED
  BY <1>1 DEF SyncOK, Lost, Hears, SetupInv, serverRest

(* The filter of this run is not written before its last step. *)
LEMMA FilesAway ==
  ASSUME FilesOK, UNCHANGED <<run, redis, bloom, touched>>, spc \notin AfterFile,
         disturbed' \/ spc' \notin AfterFile
  PROVE  FilesOK'
  BY DEF FilesOK, FilterImpliesIndex, Full, Holds

(* The positions of a database. *)
LEMMA PositionsType ==
  ASSUME NEW v \in Versions, NEW k \in Positions(v)
  PROVE  /\ k = <<k[1], k[2]>>
         /\ k[1] \in Nat /\ k[1] >= 1 /\ k[1] <= Len(Shapes[v])
         /\ k[2] \in Nat /\ k[2] >= 1 /\ k[2] <= Shapes[v][k[1]]
<1>1. k \in (1 .. Len(Shapes[v])) \X (1 .. MaxRowIds) /\ k[2] <= Shapes[v][k[1]]
  BY DEF Positions
<1>2. Len(Shapes[v]) \in Nat /\ MaxRowIds \in Nat
  BY ShapesType, ShapesAssumption
<1> QED
  BY <1>1, <1>2

(* n_rows arrives, or does not. *)
LEMMA RecvRowsInv == SetupInv /\ RecvRows => SetupInv'
<1> SUFFICES ASSUME SetupInv, RecvRows PROVE SetupInv'
  OBVIOUS
<1> USE DEF SetupInv
<1>1. /\ spc = "rows" /\ spc' = "row" /\ n' = 0 /\ (Recv \/ Broken)
      /\ UNCHANGED <<serverRest, redis, bloom, n_row_ids, i, db_in_key, db_in_val, announced, touched>>
  BY DEF RecvRows
<1>2. run \in Versions /\ Len(Shapes[run]) \in Nat
  BY <1>1, ShapesType DEF SyncOK
<1>3. n_rows' \in Nat
  <2>1. CASE Recv /\ n_rows' = Bytes
    <3>1. Head(chan) = Rows
      BY <1>1, <2>1, HearsExpected DEF Recv, Expects
    <3> QED
      BY <1>2, <2>1, <3>1 DEF Bytes, Carries, Rows, Message
  <2>2. CASE n_rows' \in IF chan = <<>> THEN {n_rows} ELSE 0 .. Len(Shapes[run])
    BY <1>2, <2>2 DEF TypeOK
  <2> QED
    BY <2>1, <2>2 DEF RecvRows
<1>4. TypeOK' /\ LoopsOK'
  BY <1>1, <1>3, ReceiveType DEF TypeOK, LoopsOK, serverRest
<1>5. FilesOK'
  BY <1>1, FilesAway DEF serverRest
<1>6. SyncOK'
  <2>1. CASE Recv /\ n_rows' = Bytes
    <3>1. InSync /\ Head(chan) = Rows /\ Expects = Rows
      BY <1>1, <2>1, HearsExpected DEF Recv, Expects
    <3>2. n_rows' = Len(Shapes[run])
      BY <2>1, <3>1 DEF Bytes, Carries, Rows, Message
    <3>3. Expects' = After(run, Expects)
      BY <1>1, <3>1 DEF Expects, After, Rows, Message, serverRest
    <3>4. NumbersOK'
      BY <1>1, <3>2 DEF NumbersOK, serverRest
    <3>5. RedisOK'
      BY <1>1, <1>2, PositionsType DEF RedisOK, Reached, serverRest
    <3> QED
      BY <1>1, <2>1, <3>3, <3>4, <3>5, HeardSync
  <2>2. CASE Broken
    BY <1>1, <2>2, MissedSync
  <2> QED
    BY <2>1, <2>2 DEF RecvRows
<1> QED
  BY <1>4, <1>5, <1>6

(* n_row_ids arrives, or does not. *)
LEMMA RecvCountInv == SetupInv /\ RecvCount => SetupInv'
<1> SUFFICES ASSUME SetupInv, RecvCount PROVE SetupInv'
  OBVIOUS
<1> USE DEF SetupInv
<1>1. /\ spc = "row" /\ spc' = "pair" /\ n < n_rows /\ i' = 0 /\ (Recv \/ Broken)
      /\ UNCHANGED <<serverRest, redis, bloom, n_rows, n, db_in_key, db_in_val, announced, touched>>
  BY DEF RecvCount
<1>2. run \in Versions /\ n \in Nat /\ n_rows \in Nat /\ MaxRowIds \in Nat
  BY <1>1, ShapesAssumption DEF SyncOK, TypeOK
<1>3. ASSUME Recv
      PROVE  /\ InSync /\ n_rows = Len(Shapes[run]) /\ n + 1 \in 1 .. Len(Shapes[run])
             /\ Expects = Message("count", n + 1, 0) /\ Bytes = Shapes[run][n + 1]
  <2>1. InSync /\ Head(chan) = Expects
    BY <1>1, <1>3, HearsExpected DEF Recv
  <2>2. n_rows = Len(Shapes[run]) /\ n + 1 \in 1 .. Len(Shapes[run])
    BY <1>1, <1>2, <2>1 DEF InSync, NumbersOK
  <2>3. Expects = Message("count", n + 1, 0)
    BY <1>1, <1>2, <2>2 DEF Expects, RowFrom
  <2> QED
    BY <2>1, <2>2, <2>3 DEF Bytes, Carries, Message
<1>4. n_row_ids' \in 0 .. MaxRowIds
  <2>1. CASE Recv /\ n_row_ids' = Bytes
    BY <1>2, <1>3, <2>1, ShapesType
  <2>2. CASE n_row_ids' \in IF chan = <<>> THEN {n_row_ids} ELSE 0 .. MaxRowIds
    BY <2>2 DEF TypeOK
  <2> QED
    BY <2>1, <2>2 DEF RecvCount
<1>5. TypeOK' /\ LoopsOK'
  BY <1>1, <1>2, <1>4, ReceiveType DEF TypeOK, LoopsOK, serverRest
<1>6. FilesOK'
  BY <1>1, FilesAway DEF serverRest
<1>7. SyncOK'
  <2>1. CASE Recv /\ n_row_ids' = Bytes
    <3>1. Expects' = After(run, Expects)
      BY <1>1, <1>2, <1>3, <2>1 DEF Expects, After, Message, serverRest
    <3>2. NumbersOK'
      BY <1>1, <1>3, <2>1 DEF NumbersOK, serverRest
    <3>3. RedisOK'
      <4> SUFFICES ASSUME NEW k \in Positions(run), Reached(k)' PROVE Holds(run, k)'
        BY <1>1 DEF RedisOK, serverRest
      <4>1. Reached(k)
        BY <1>1, <1>2, PositionsType DEF Reached
      <4> QED
        BY <1>1, <1>3, <2>1, <4>1 DEF InSync, RedisOK, Holds, serverRest
    <3> QED
      BY <1>1, <2>1, <3>1, <3>2, <3>3, HeardSync
  <2>2. CASE Broken
    BY <1>1, <2>2, MissedSync
  <2> QED
    BY <2>1, <2>2 DEF RecvCount
<1> QED
  BY <1>5, <1>6, <1>7

(* An entry's key arrives, or does not. *)
LEMMA RecvKeyInv == SetupInv /\ RecvKey => SetupInv'
<1> SUFFICES ASSUME SetupInv, RecvKey PROVE SetupInv'
  OBVIOUS
<1> USE DEF SetupInv
<1>1. /\ spc = "pair" /\ spc' = "val" /\ i < n_row_ids /\ (Recv \/ Broken)
      /\ UNCHANGED <<serverRest, redis, bloom, n_rows, n_row_ids, n, i, db_in_val, announced, touched>>
  BY DEF RecvKey
<1>2. TypeOK' /\ LoopsOK'
  BY <1>1, ReceiveType DEF TypeOK, LoopsOK, serverRest
<1>3. FilesOK'
  BY <1>1, FilesAway DEF serverRest
<1>4. SyncOK'
  <2>1. CASE Recv /\ db_in_key' = Bytes
    <3>1. InSync /\ Head(chan) = Expects
      BY <1>1, <2>1, HearsExpected DEF Recv
    <3>2. i \in Nat /\ n_row_ids \in Nat /\ n_row_ids = Shapes[run][n + 1] /\ n \in Nat
      BY <1>1, <3>1, ShapesAssumption DEF TypeOK, InSync, NumbersOK
    <3>3. Expects = Message("key", n + 1, i + 1)
      BY <1>1, <3>2 DEF Expects, PairFrom
    <3>4. db_in_key' = Key(n + 1, i + 1)
      BY <2>1, <3>1, <3>3 DEF Bytes, Carries, Message
    <3>5. Expects' = After(run, Expects)
      BY <1>1, <3>3 DEF Expects, After, Message
    <3>6. NumbersOK' /\ RedisOK'
      BY <1>1, <3>1, <3>4 DEF InSync, NumbersOK, RedisOK, Reached, Holds, serverRest
    <3> QED
      BY <1>1, <2>1, <3>5, <3>6, HeardSync
  <2>2. CASE Broken
    BY <1>1, <2>2, MissedSync
  <2> QED
    BY <2>1, <2>2 DEF RecvKey
<1> QED
  BY <1>2, <1>3, <1>4

(* An entry's value arrives, or does not; the entry is set. *)
LEMMA RecvValInv == SetupInv /\ RecvVal => SetupInv'
<1> SUFFICES ASSUME SetupInv, RecvVal PROVE SetupInv'
  OBVIOUS
<1> USE DEF SetupInv
<1>1. /\ spc = "val" /\ spc' = "pair" /\ i' = i + 1 /\ touched' = run
      /\ redis' = Put(redis, db_in_key, db_in_val')
      /\ (Recv \/ Broken)
      /\ UNCHANGED <<serverRest, bloom, n_rows, n_row_ids, n, db_in_key, announced>>
  BY DEF RecvVal
<1>2. /\ run \in Versions /\ run \in Nat /\ i \in Nat /\ n \in Nat /\ n_row_ids \in Nat
      /\ i < n_row_ids /\ n < n_rows
  BY <1>1, ShapesType, ShapesAssumption DEF TypeOK, LoopsOK, SyncOK
<1>3. TypeOK' /\ LoopsOK'
  BY <1>1, <1>2, ReceiveType DEF TypeOK, LoopsOK, serverRest
<1>4. FilesOK'
  <2>1. bloom \in Versions => bloom < run /\ bloom \in Nat
    BY <1>1, <1>2, ShapesType DEF FilesOK
  <2> QED
    BY <1>1, <1>2, <2>1 DEF FilesOK, FilterImpliesIndex, serverRest
<1>5. SyncOK'
  <2>1. CASE Recv /\ db_in_val' = Bytes
    <3>1. InSync /\ Head(chan) = Expects
      BY <1>1, <2>1, HearsExpected DEF Recv
    <3>2. Expects = Message("val", n + 1, i + 1)
      BY <1>1 DEF Expects
    <3>3. db_in_key = Key(n + 1, i + 1) /\ db_in_val' = Val(run, n + 1, i + 1)
      BY <1>1, <2>1, <3>1, <3>2 DEF InSync, NumbersOK, Bytes, Carries, Message
    <3>4. Expects' = After(run, Expects)
      BY <1>1, <3>2 DEF Expects, After, Message, serverRest
    <3>5. NumbersOK'
      BY <1>1, <3>1 DEF InSync, NumbersOK, serverRest
    <3>6. RedisOK'
      <4> SUFFICES ASSUME NEW k \in Positions(run), Reached(k)' PROVE Holds(run, k)'
        BY <1>1 DEF RedisOK, serverRest
      <4>1. k = <<k[1], k[2]>> /\ k[1] \in Nat /\ k[2] \in Nat
        BY <1>2, PositionsType
      <4>2. Entries(run)[k] = Val(run, k[1], k[2])
        BY DEF Entries
      <4>3. k = db_in_key \/ Reached(k)
        BY <1>1, <1>2, <3>3, <4>1 DEF Reached, Key
      <4>4. k \in DOMAIN redis' /\ redis'[k] = IF k = db_in_key THEN db_in_val' ELSE redis[k]
        BY <1>1, <3>1, <4>3 DEF Put, InSync, RedisOK, Holds
      <4>5. CASE k = db_in_key
        <5>1. k[1] = n + 1 /\ k[2] = i + 1
          BY <3>3, <4>5 DEF Key
        <5> QED
          BY <1>1, <3>3, <4>2, <4>4, <4>5, <5>1 DEF Holds, serverRest
      <4>6. CASE k # db_in_key
        BY <1>1, <3>1, <4>3, <4>4, <4>6 DEF InSync, RedisOK, Holds, serverRest
      <4> QED
        BY <4>5, <4>6
    <3> QED
      BY <1>1, <2>1, <3>4, <3>5, <3>6, HeardSync
  <2>2. CASE Broken
    BY <1>1, <2>2, MissedSync
  <2> QED
    BY <2>1, <2>2 DEF RecvVal
<1> QED
  BY <1>3, <1>4, <1>5

(* A row ends. *)
LEMMA EndRowInv == SetupInv /\ EndRow => SetupInv'
<1> SUFFICES ASSUME SetupInv, EndRow PROVE SetupInv'
  OBVIOUS
<1> USE DEF SetupInv
<1>1. /\ spc = "pair" /\ spc' = "row" /\ i >= n_row_ids /\ n' = n + 1
      /\ UNCHANGED <<serverRest, redis, bloom, chan, n_rows, n_row_ids, i, db_in_key, db_in_val,
                     announced, touched>>
  BY DEF EndRow
<1>2. /\ run \in Versions /\ n \in Nat /\ n_rows \in Nat /\ n < n_rows
      /\ i = n_row_ids /\ n_row_ids \in Nat
  BY <1>1, ShapesAssumption DEF TypeOK, LoopsOK, SyncOK
<1>3. TypeOK' /\ LoopsOK'
  BY <1>1, <1>2 DEF TypeOK, LoopsOK, serverRest
<1>4. FilesOK'
  BY <1>1, FilesAway DEF serverRest
<1>5. ASSUME InSync PROVE InSync'
  <2>1. n_row_ids = Shapes[run][n + 1] /\ n_rows = Len(Shapes[run])
    BY <1>1, <1>5 DEF InSync, NumbersOK
  <2>2. Expects' = Expects
    BY <1>1, <1>2, <2>1 DEF Expects, PairFrom, serverRest
  <2>3. ChainOK'
    BY <1>1, <1>5, <2>2, ChainKept DEF InSync, serverRest
  <2>4. RedisOK'
    <3> SUFFICES ASSUME NEW k \in Positions(run), Reached(k)' PROVE Holds(run, k)'
      BY <1>1 DEF RedisOK, serverRest
    <3>1. k[1] \in Nat /\ k[2] \in Nat /\ k[2] <= Shapes[run][k[1]]
      BY <1>2, PositionsType
    <3>2. Reached(k)
      BY <1>1, <1>2, <2>1, <3>1 DEF Reached
    <3> QED
      BY <1>1, <1>5, <3>2 DEF InSync, RedisOK, Holds, serverRest
  <2> QED
    BY <1>1, <2>1, <2>3, <2>4 DEF InSync, NumbersOK, serverRest
<1>6. SyncOK'
  BY <1>1, <1>5 DEF SyncOK, Lost, Hears, serverRest
<1> QED
  BY <1>3, <1>4, <1>6

(* All rows have come. *)
LEMMA EndRowsInv == SetupInv /\ EndRows => SetupInv'
<1> SUFFICES ASSUME SetupInv, EndRows PROVE SetupInv'
  OBVIOUS
<1> USE DEF SetupInv
<1>1. /\ spc = "row" /\ spc' = "size" /\ n >= n_rows
      /\ UNCHANGED <<serverRest, redis, bloom, chan, serverLocals, announced, touched>>
  BY DEF EndRows
<1>2. run \in Versions /\ n \in Nat /\ n_rows \in Nat /\ n = n_rows
  BY <1>1 DEF TypeOK, SyncOK
<1>3. TypeOK' /\ LoopsOK'
  BY <1>1 DEF TypeOK, LoopsOK, serverRest, serverLocals
<1>4. FilesOK'
  BY <1>1, FilesAway DEF serverRest
<1>5. ASSUME InSync PROVE InSync'
  <2>1. n_rows = Len(Shapes[run])
    BY <1>1, <1>5 DEF InSync, NumbersOK
  <2>2. Expects' = Expects
    BY <1>1, <1>2, <2>1 DEF Expects, RowFrom
  <2>3. ChainOK'
    BY <1>1, <1>5, <2>2, ChainKept DEF InSync, serverRest
  <2>4. RedisOK'
    <3> SUFFICES ASSUME NEW k \in Positions(run) PROVE Holds(run, k)'
      BY <1>1 DEF RedisOK, serverRest
    <3>1. k[1] <= n
      BY <1>2, <2>1, PositionsType
    <3> QED
      BY <1>1, <1>5, <3>1 DEF InSync, RedisOK, Reached, Holds, serverRest
  <2> QED
    BY <1>1, <2>1, <2>3, <2>4 DEF InSync, NumbersOK, serverRest, serverLocals
<1>6. SyncOK'
  BY <1>1, <1>5 DEF SyncOK, Lost, Hears, serverRest
<1> QED
  BY <1>3, <1>4, <1>6

(* The size of the file arrives, or does not. *)
LEMMA RecvSizeInv == SetupInv /\ RecvSize => SetupInv'
<1> SUFFICES ASSUME SetupInv, RecvSize PROVE SetupInv'
  OBVIOUS
<1> USE DEF SetupInv
<1>1. /\ spc = "size" /\ (Recv \/ Broken)
      /\ spc' \in {"data", "received"}
      /\ UNCHANGED <<serverRest, redis, bloom, serverLocals, announced, touched>>
  BY DEF RecvSize
<1>2. TypeOK' /\ LoopsOK'
  BY <1>1, ReceiveType DEF TypeOK, LoopsOK, serverRest, serverLocals
<1>3. CASE Recv /\ spc' = "data"
  <2>1. InSync
    BY <1>1, <1>3, HearsExpected DEF Recv
  <2>2. Expects' = After(run, Expects)
    BY <1>1, <1>3 DEF Expects, After, Size, Message
  <2>3. NumbersOK' /\ RedisOK' /\ Full(run)'
    BY <1>1, <1>3, <2>1
    DEF InSync, NumbersOK, RedisOK, Reached, Full, Holds, serverRest, serverLocals
  <2>4. SyncOK'
    BY <1>1, <1>3, <2>2, <2>3, HeardSync DEF serverRest
  <2>5. FilesOK'
    BY <1>1, <1>3, FilesAway DEF serverRest
  <2> QED
    BY <1>2, <2>4, <2>5
<1>4. CASE Broken /\ spc' = "received"
  <2>1. disturbed'
    BY <1>1, <1>4, BrokenDisturbed DEF serverRest
  <2>2. FilesOK'
    BY <1>1, <2>1, FilesAway DEF serverRest
  <2> QED
    BY <1>1, <1>2, <1>4, <2>2, MissedSync
<1> QED
  BY <1>3, <1>4 DEF RecvSize

(* The file arrives, or does not. *)
LEMMA RecvDataInv == SetupInv /\ RecvData => SetupInv'
<1> SUFFICES ASSUME SetupInv, RecvData PROVE SetupInv'
  OBVIOUS
<1> USE DEF SetupInv
<1>1. /\ spc = "data" /\ (Recv \/ Broken) /\ spc' \in {"open", "received"}
      /\ UNCHANGED <<serverRest, redis, bloom, serverLocals, announced, touched>>
  BY DEF RecvData
<1>2. TypeOK' /\ LoopsOK'
  BY <1>1, ReceiveType DEF TypeOK, LoopsOK, serverRest, serverLocals
<1>3. CASE Recv /\ spc' = "open"
  <2>1. InSync
    BY <1>1, <1>3, HearsExpected DEF Recv
  <2>2. Expects' = After(run, Expects)
    BY <1>1, <1>3 DEF Expects, After, File, Message
  <2>3. NumbersOK' /\ RedisOK' /\ Full(run)'
    BY <1>1, <1>3, <2>1
    DEF InSync, NumbersOK, RedisOK, Reached, Full, Holds, serverRest, serverLocals
  <2>4. SyncOK'
    BY <1>1, <1>3, <2>2, <2>3, HeardSync DEF serverRest
  <2>5. FilesOK'
    BY <1>1, <1>3, FilesAway DEF serverRest
  <2> QED
    BY <1>2, <2>4, <2>5
<1>4. CASE Broken /\ spc' = "received"
  <2>1. disturbed'
    BY <1>1, <1>4, BrokenDisturbed DEF serverRest
  <2>2. FilesOK'
    BY <1>1, <2>1, FilesAway DEF serverRest
  <2> QED
    BY <1>1, <1>2, <1>4, <2>2, MissedSync
<1> QED
  BY <1>3, <1>4 DEF RecvData

(* bloomfilter.dat is opened, and empty. *)
LEMMA OpenFileInv == SetupInv /\ OpenFile => SetupInv'
<1> SUFFICES ASSUME SetupInv, OpenFile PROVE SetupInv'
  OBVIOUS
<1> USE DEF SetupInv
<1>1. /\ spc = "open" /\ spc' = "write" /\ bloom' = Torn
      /\ UNCHANGED <<serverRest, redis, chan, serverLocals, announced, touched>>
  BY DEF OpenFile
<1>2. TypeOK' /\ LoopsOK'
  BY <1>1 DEF TypeOK, LoopsOK, serverRest, serverLocals
<1>3. SyncOK'
  <2>1. Expects' = Expects
    BY <1>1 DEF Expects
  <2>2. InSync => InSync'
    BY <1>1, <2>1
    DEF InSync, NumbersOK, ChainOK, RedisOK, Reached, Holds, serverRest, serverLocals
  <2> QED
    BY <1>1, <2>2 DEF SyncOK, Lost, Hears, Full, Holds, serverRest
<1>4. FilesOK'
  <2>1. bloom' \notin Versions
    BY <1>1, ShapesType, ShapesAssumption
  <2> QED
    BY <1>1, <2>1 DEF FilesOK, FilterImpliesIndex
<1> QED
  BY <1>2, <1>3, <1>4

(* It is written: every entry of the run is set by now. *)
LEMMA WriteFileInv == SetupInv /\ WriteFile => SetupInv'
<1> SUFFICES ASSUME SetupInv, WriteFile PROVE SetupInv'
  OBVIOUS
<1> USE DEF SetupInv
<1>1. /\ spc = "write" /\ spc' = "received" /\ bloom' = run
      /\ UNCHANGED <<serverRest, redis, chan, serverLocals, announced, touched>>
  BY DEF WriteFile
<1>2. run \in Versions /\ run \in Nat /\ Full(run)
  BY <1>1, ShapesType DEF SyncOK
<1>3. TypeOK' /\ LoopsOK'
  BY <1>1, <1>2 DEF TypeOK, LoopsOK, serverRest, serverLocals
<1>4. SyncOK'
  <2>1. Expects' = Expects
    BY <1>1 DEF Expects
  <2>2. InSync => InSync'
    BY <1>1, <2>1
    DEF InSync, NumbersOK, ChainOK, RedisOK, Reached, Holds, serverRest, serverLocals
  <2> QED
    BY <1>1, <2>2 DEF SyncOK, Lost, Hears, serverRest
<1>5. FilesOK'
  BY <1>1, <1>2 DEF FilesOK, FilterImpliesIndex, Full, Holds, serverRest
<1> QED
  BY <1>3, <1>4, <1>5

(* main announces the file, and begins to release the workers. *)
LEMMA AnnounceInv == SetupInv /\ (Announce \/ ReleaseThreads) => SetupInv'
<1> SUFFICES ASSUME SetupInv, Announce \/ ReleaseThreads PROVE SetupInv'
  OBVIOUS
<1> USE DEF SetupInv
<1>1. /\ spc \in {"received", "clear"} /\ spc' \in {"clear", "release"} /\ announced' \in BOOLEAN
      /\ UNCHANGED <<serverRest, redis, bloom, chan, serverLocals, touched>>
  BY DEF Announce, ReleaseThreads, TypeOK
<1>2. TypeOK' /\ LoopsOK'
  BY <1>1 DEF TypeOK, LoopsOK, serverRest, serverLocals
<1>3. SyncOK'
  <2>1. Expects' = Expects
    BY <1>1 DEF Expects
  <2>2. InSync => InSync'
    BY <1>1, <2>1
    DEF InSync, NumbersOK, ChainOK, RedisOK, Reached, Holds, serverRest, serverLocals
  <2> QED
    BY <1>1, <2>2 DEF SyncOK, Lost, Hears, serverRest
<1>4. FilesOK'
  BY <1>1, FilesKept DEF serverRest
<1> QED
  BY <1>2, <1>3, <1>4

(* The workers are gone; the server closes the connection and ends. *)
LEMMA EndServerInv == SetupInv /\ EndServer => SetupInv'
<1> SUFFICES ASSUME SetupInv, EndServer PROVE SetupInv'
  OBVIOUS
<1> USE DEF SetupInv
<1>1. /\ spc = "release" /\ spc' = "down" /\ closed' = TRUE /\ chan' = <<>>
      /\ UNCHANGED <<run, redis, bloom, cpc, cmsg, disturbed, serverLocals, worker, announced, touched>>
  BY DEF EndServer
<1>2. TypeOK' /\ LoopsOK'
  BY <1>1 DEF TypeOK, LoopsOK, serverLocals
<1>3. SyncOK'
  BY <1>1 DEF SyncOK
<1>4. FilesOK'
  BY <1>1, FilesKept
<1> QED
  BY <1>2, <1>3, <1>4

(* A worker begins to wait, counts down, or comes too late. *)
LEMMA WorkerThreadInv ==
  ASSUME SetupInv, NEW w \in Workers, WorkerThread(w)
  PROVE  SetupInv'
<1> USE DEF SetupInv
<1>1. /\ UNCHANGED workerRest
      /\ \E s \in {"waiting", "counted", "late"} : worker' = [worker EXCEPT ![w] = s]
  BY DEF WorkerThread, CheckProcessed, CountDown
<1>2. TypeOK' /\ LoopsOK'
  BY <1>1 DEF TypeOK, LoopsOK, workerRest, serverLocals
<1>3. SyncOK'
  BY <1>1 DEF workerRest, serverLocals, SyncOK, InSync, NumbersOK, ChainOK, RedisOK, Reached, Lost,
     Hears, Full, Holds, Expects
<1>4. FilesOK'
  BY <1>1, FilesKept DEF workerRest
<1> QED
  BY <1>2, <1>3, <1>4

-----------------------------------------------------------------------------
(* What is left of messages under way is the first of them, as they were.   *)
LEMMA RemainsFacts ==
  ASSUME NEW S, NEW s \in Seq(S), Piece \in S, NEW c \in Remains(s)
  PROVE  /\ c \in Seq(S)
         /\ \A k \in 1 .. Len(c) :
              c[k] = Piece \/ (k \in 1 .. Len(s) /\ \A j \in 1 .. k : c[j] = s[j])
<1>1. Len(s) \in Nat
  OBVIOUS
<1>2. ASSUME NEW p \in Prefixes(s)
      PROVE  /\ p \in Seq(S) /\ Len(p) \in Nat /\ Len(p) <= Len(s)
             /\ \A k \in 1 .. Len(p) : p[k] = s[k]
  <2>1. PICK l \in 0 .. Len(s) : p = SubSeq(s, 1, l)
    BY DEF Prefixes
  <2>2. l \in Nat /\ l <= Len(s)
    BY <1>1, <2>1
  <2>3. p \in Seq(S)
    BY <2>1, <2>2, <1>1
  <2>4. Len(p) = l
    BY <2>1, <2>2, <1>1
  <2>5. \A k \in 1 .. l : p[k] = s[k]
    BY <2>1, <2>2, <1>1
  <2> QED
    BY <2>2, <2>3, <2>4, <2>5
<1>3. CASE c \in Prefixes(s)
  <2>1. c \in Seq(S) /\ Len(c) \in Nat /\ Len(c) <= Len(s) /\ \A k \in 1 .. Len(c) : c[k] = s[k]
    BY <1>2, <1>3
  <2>2. ASSUME NEW k \in 1 .. Len(c)
        PROVE  k \in 1 .. Len(s) /\ \A j \in 1 .. k : c[j] = s[j]
    BY <1>1, <2>1
  <2> QED
    BY <2>1, <2>2
<1>4. CASE \E p \in Prefixes(s) : c = Append(p, Piece)
  <2>1. PICK p \in Prefixes(s) : c = Append(p, Piece)
    BY <1>4
  <2>2. p \in Seq(S) /\ Len(p) \in Nat /\ Len(p) <= Len(s) /\ \A k \in 1 .. Len(p) : p[k] = s[k]
    BY <1>2
  <2>3. /\ c \in Seq(S) /\ Len(c) = Len(p) + 1 /\ c[Len(p) + 1] = Piece
        /\ \A k \in 1 .. Len(p) : c[k] = p[k]
    BY <2>1, <2>2
  <2>4. ASSUME NEW k \in 1 .. Len(c), c[k] # Piece
        PROVE  k \in 1 .. Len(s) /\ \A j \in 1 .. k : c[j] = s[j]
    <3>1. k \in 1 .. Len(p)
      BY <2>2, <2>3, <2>4
    <3> QED
      BY <1>1, <2>2, <2>3, <3>1
  <2> QED
    BY <2>3, <2>4
<1> QED
  BY <1>3, <1>4 DEF Remains

(* A connection that breaks, or whose client dies, stays in step as far as   *)
(* anything is left of it.                                                  *)
LEMMA BreakSync ==
  ASSUME SetupInv, UNCHANGED <<run, redis, spc, serverLocals>>, disturbed', closed',
         IF closed THEN chan' = chan ELSE chan' \in Remains(chan)
  PROVE  SyncOK' /\ chan' \in Seq(Messages \cup {Piece})
<1> USE DEF SetupInv
<1> DEFINE S == Messages \cup {Piece}
<1>1. chan \in Seq(S) /\ Piece \in S
  BY DEF TypeOK
<1>2. /\ Expects' = Expects /\ NumbersOK' = NumbersOK /\ RedisOK' = RedisOK
      /\ \A v \in Versions : Full(v)' = Full(v)
  BY DEF Expects, NumbersOK, RedisOK, Reached, Full, Holds, serverLocals
<1>3. CASE closed
  <2>1. chan' = chan
    BY <1>3
  <2>2. ASSUME InSync PROVE InSync'
    BY <1>2, <2>1, <2>2 DEF InSync, ChainOK
  <2>3. SyncOK'
    BY <1>2, <1>3, <2>1, <2>2 DEF SyncOK, Lost, Hears
  <2> QED
    BY <1>1, <2>1, <2>3
<1>4. CASE ~closed
  <2> HIDE DEF S
  <2>1. chan' \in Remains(chan)
    BY <1>4
  <2>2. /\ chan' \in Seq(S)
        /\ \A k \in 1 .. Len(chan') :
             chan'[k] = Piece \/ (k \in 1 .. Len(chan) /\ \A j \in 1 .. k : chan'[j] = chan[j])
    BY <1>1, <2>1, RemainsFacts
  <2>3. Len(chan) \in Nat /\ Len(chan') \in Nat
    BY <1>1, <2>2
  <2>4. ASSUME ChainOK PROVE ChainOK'
    <3> SUFFICES ASSUME NEW k \in 1 .. Len(chan'), chan'[k] # Piece
                 PROVE  chan'[k] = IF k = 1 THEN Expects ELSE After(run, chan'[k - 1])
      BY <1>2 DEF ChainOK
    <3>1. k \in 1 .. Len(chan) /\ k \in 1 .. k /\ (k # 1 => k - 1 \in 1 .. k)
      BY <2>2, <2>3
    <3>2. chan'[k] = chan[k] /\ (k # 1 => chan'[k - 1] = chan[k - 1])
      BY <2>2, <3>1
    <3> QED
      BY <2>4, <3>1, <3>2 DEF ChainOK
  <2>5. SyncOK'
    BY <1>2, <1>4, <2>4 DEF SyncOK, InSync, Lost
  <2> QED
    BY <2>2, <2>5 DEF S
<1> QED
  BY <1>3, <1>4

(* The connection breaks. *)
LEMMA CutInv == SetupInv /\ Cut => SetupInv'
<1> SUFFICES ASSUME SetupInv, Cut PROVE SetupInv'
  OBVIOUS
<1>1. /\ ~closed /\ closed' = TRUE /\ disturbed' = TRUE /\ chan' \in Remains(chan)
      /\ UNCHANGED <<run, redis, bloom, cpc, cmsg, spc, serverLocals, worker, announced, touched>>
  BY DEF Cut
<1>2. SyncOK' /\ chan' \in Seq(Messages \cup {Piece})
  BY <1>1, BreakSync
<1>3. TypeOK' /\ LoopsOK'
  BY <1>1, <1>2 DEF SetupInv, TypeOK, LoopsOK, serverLocals
<1>4. FilesOK'
  BY <1>1, FilesKept DEF SetupInv
<1> QED
  BY <1>2, <1>3, <1>4 DEF SetupInv

(* The client dies. *)
LEMMA ClientDiesInv == SetupInv /\ ClientDies => SetupInv'
<1> SUFFICES ASSUME SetupInv, ClientDies PROVE SetupInv'
  OBVIOUS
<1>1. /\ cpc' = "off" /\ cmsg' = Done /\ disturbed' = TRUE /\ closed' = TRUE
      /\ IF closed THEN chan' = chan ELSE chan' \in Remains(chan)
      /\ UNCHANGED <<run, redis, bloom, spc, serverLocals, worker, announced, touched>>
  BY DEF ClientDies, SetupInv, TypeOK
<1>2. SyncOK' /\ chan' \in Seq(Messages \cup {Piece})
  BY <1>1, BreakSync
<1>3. TypeOK' /\ LoopsOK'
  BY <1>1, <1>2 DEF SetupInv, TypeOK, LoopsOK, serverLocals
<1>4. FilesOK'
  BY <1>1, FilesKept DEF SetupInv
<1> QED
  BY <1>2, <1>3, <1>4 DEF SetupInv

(* The server dies. *)
LEMMA ServerDiesInv == SetupInv /\ ServerDies => SetupInv'
<1> SUFFICES ASSUME SetupInv, ServerDies PROVE SetupInv'
  OBVIOUS
<1> USE DEF SetupInv
<1>1. /\ spc' = "down" /\ closed' = TRUE /\ chan' = <<>> /\ disturbed' = TRUE
      /\ UNCHANGED <<run, redis, bloom, cpc, cmsg, serverLocals, worker, announced, touched>>
  BY DEF ServerDies
<1>2. TypeOK' /\ LoopsOK'
  BY <1>1 DEF TypeOK, LoopsOK, serverLocals
<1>3. SyncOK' /\ FilesOK'
  BY <1>1 DEF SyncOK, FilesOK, FilterImpliesIndex, Full, Holds
<1> QED
  BY <1>2, <1>3

-----------------------------------------------------------------------------
(* Every step keeps the connection in step or lost, and the files true. *)
LEMMA SetupNextInv == SetupInv /\ [Next]_vars => SetupInv'
<1> SUFFICES ASSUME SetupInv, [Next]_vars PROVE SetupInv'
  OBVIOUS
<1>1. CASE StartRun
  BY <1>1, StartRunInv
<1>2. CASE Client
  BY <1>2, ClientSendInv, ClientClosesInv DEF Client
<1>3. CASE Server
  BY <1>3, RecvRowsInv, RecvCountInv, RecvKeyInv, RecvValInv, EndRowInv, EndRowsInv, RecvSizeInv,
     RecvDataInv, OpenFileInv, WriteFileInv, AnnounceInv, EndServerInv DEF Server
<1>4. CASE Cut \/ ClientDies \/ ServerDies
  BY <1>4, CutInv, ClientDiesInv, ServerDiesInv
<1>5. CASE \E w \in Workers : WorkerThread(w)
  BY <1>5, WorkerThreadInv
<1>6. CASE UNCHANGED vars
  BY <1>6 DEF vars, serverLocals, SetupInv, TypeOK, LoopsOK, SyncOK, InSync, NumbersOK, ChainOK,
     RedisOK, Reached, Lost, Hears, FilesOK, FilterImpliesIndex, Full, Holds, Expects
<1> QED
  BY <1>1, <1>2, <1>3, <1>4, <1>5, <1>6 DEF Next

(* The inductive invariant: in step with the client or cut off for good. *)
THEOREM SetupInvariant == Spec => []SetupInv
  BY SetupInitInv, SetupNextInv, PTL DEF Spec

(* The loops of TSet_SetUp stay within the numbers they were given, whatever *)
(* arrives in the middle of which message.                                   *)
THEOREM TypeCorrect == Spec => []TypeOK
<1>1. SetupInv => TypeOK
  BY DEF SetupInv
<1> QED
  BY <1>1, SetupInvariant, PTL

(* A run that nothing disturbed leaves exactly what its client sent, however *)
(* many broken runs went before it.                                          *)
THEOREM CleanRunLeavesAll == Spec => []CleanRunExact
<1>1. SetupInv => CleanRunExact
  <2> SUFFICES ASSUME SetupInv PROVE CleanRunExact
    OBVIOUS
  <2> QED
    BY DEF SetupInv, FilesOK, CleanRunExact, Full, Holds
<1> QED
  BY <1>1, SetupInvariant, PTL

(* A filter on the server's disk comes with every entry of its database,     *)
(* unless a later run has begun to replace them.                             *)
THEOREM FilterHasIndex == Spec => []FilterImpliesIndex
<1>1. SetupInv => FilterImpliesIndex
  BY DEF SetupInv, FilesOK
<1> QED
  BY <1>1, SetupInvariant, PTL
=============================================================================
