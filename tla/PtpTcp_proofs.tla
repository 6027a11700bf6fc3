---------------------------- MODULE PtpTcp_proofs ----------------------------
(***************************************************************************)
(* Theorems about PTP over TCP for every size of the buffer, set of        *)
(* operations and number of transactions and connections, however recv     *)
(* cuts the stream: while nothing has failed on a connection, host and     *)
(* camera are at the same point of the same exchange (StepInv).            *)
(*                                                                         *)
(* What the host has of the read in progress, what is in its buffer and    *)
(* what is in the stream are taken together (Ahead).  A recv does not      *)
(* change them, whatever it returns; so the invariant says at each point   *)
(* of the code what Ahead may be, and each step takes a piece off it.      *)
(***************************************************************************)
EXTENDS PtpTcp, TLAPS, SequenceTheorems

Kinds == {"none", "req", "part", "start", "data", "pay", "end", "init", "ack",
          "fail", "tid", "par", "len", "ok", "err"}

Token == [k : Kinds, id : Nat, n : Nat]

\* Tokens of the stream: a packet that is read for its body has one, and a
\* response is that of an operation asked for, and of one carried out.
Known(n, ids) ==
    {t \in Token : /\ t.k \in {"start", "data", "end"} => t.n > 0
                   /\ t.k \in {"ok", "err"} => t.id < n
                   /\ t.k = "ok" => t.id \in ids}

KnownTok == Known(Len(ops), done)

Codes == {"none", "ok", "err", "dataexpected", "badparam", "io", "handler",
          "respexpected"}

Reading == {"fill", "recv", "got"}

ConnType == [n : Nat, cmd : BOOLEAN, ev : BOOLEAN, ai : BOOLEAN,
             connected : BOOLEAN, id : Nat, open : SUBSET ({"cmd", "ev"} \X Nat),
             refused : SUBSET Nat]

BufType == [pos : Nat, data : Seq(KnownTok)]

RdType == [part : {"none", "hdr", "body", "pay"},
           want : {"none", "start", "data", "end", "resp"},
           hdr : KnownTok, size : Nat, dst : Seq(KnownTok)]

GetType == [total : Nat, read : Nat, end : BOOLEAN, left : Nat,
            blk : Seq(Token), data : Seq(Token), blocks : Seq(Nat)]

ResultType == [id : Nat, rc : Codes, from : Nat, data : Seq(Token),
               blocks : Seq(Nat)]

CamType == [link : BOOLEAN, st : {"ready", "recv"}, id : Nat, n : 0..3,
            session : BOOLEAN]

TypeOK ==
    /\ pc \in Calling \cup {"down", "initcmd", "ack", "event", "failed", "opened",
                            "idle", "closing"}
    /\ phase \in {"open", "info", "use", "close"}
    /\ conn \in ConnType
    /\ cur \in [id : Nat, op : TcpOpType]
    /\ ops \in Seq(TcpOpType)
    /\ buf \in BufType /\ fill \in Seq(KnownTok) /\ rd \in RdType
    /\ get \in GetType
    /\ result \in ResultType
    /\ faultAt \in Nat
    /\ outs \in Seq(Token) /\ ins \in Seq(KnownTok)
    /\ cam \in CamType
    /\ done \in SUBSET Nat

\* Whatever fails: the numbers of operations, the phases and the flags of the
\* connection.
CallInv ==
    /\ faultAt <= conn.n
    /\ \A i \in done : i < Len(ops)
    /\ \A i \in 1..Len(outs) : outs[i].k = "req" => outs[i].id < Len(ops)
    /\ cam.st = "recv" => cam.id < Len(ops)
    /\ pc \in Calling =>
          /\ Len(ops) = cur.id + 1 /\ ops[cur.id + 1] = cur.op
          /\ conn.n > 0
          /\ phase = "open" => cur.op = OpenSession
          /\ phase = "close" => cur.op = CloseSession
          /\ phase \in {"info", "use"} => cur.op \in TcpOps \cup {DeviceInfo}
    /\ pc \in {"opened", "idle", "closing", "failed", "initcmd", "ack", "event"}
          => conn.n > 0
    /\ pc \in Calling /\ phase \in {"info", "use", "close"} => conn.connected
    /\ pc = "idle" => conn.connected
    /\ pc \in {"down", "initcmd", "ack", "event", "opened"} => ~conn.connected
    /\ pc \in Calling /\ phase = "open" => ~conn.connected
    /\ pc = "down" => ~conn.cmd /\ ~conn.ev /\ ~conn.ai

\* Whatever fails: buffer, partial load and destination of the read in progress.
ReadInv ==
    /\ buf.data = <<>> => buf = Empty
    /\ pc = "fill" => buf.data = <<>> /\ Len(rd.dst) + Len(fill) < rd.size
    /\ pc = "recv" => buf.data = <<>> /\ fill = <<>> /\ Len(rd.dst) < rd.size
    /\ pc = "got"  => fill = <<>> /\ Len(rd.dst) = rd.size
    /\ pc \in Reading /\ rd.part = "hdr" => rd.size = 1
    /\ pc \in Reading /\ rd.part = "body" => rd.size = BodyLen(rd.hdr)
    /\ pc \in Reading /\ rd.part = "pay" =>
          /\ rd.size <= get.left
          /\ cur.op.block # 0 => rd.size + Len(get.blk) <= cur.op.block
    /\ pc \in Calling /\ pc # "handler" /\ cur.op.block # 0
          => Len(get.blk) < cur.op.block

-----------------------------------------------------------------------------
\* What the host has not asked for yet, and with it what it has of the read in
\* progress.
Later == buf.data \o ins

Ahead ==
    IF pc \notin Reading THEN Later
    ELSE (IF rd.part = "body" THEN <<rd.hdr>> ELSE <<>>) \o rd.dst \o fill \o Later

\* What the camera may have to say of an operation x: its response; after r
\* units of its data phase; inside a packet; from the start.
Success(x) == Resp("ok", x.id, x.op.par)
Refusal(x) == Resp("err", x.id, 0)
EndPkt(x)  == DataPkt("end", x.id, 1, 0)

Closing(x, ended) == IF ended THEN Success(x) ELSE EndPkt(x) \o Success(x)

LastOf(x, r) ==
    {DataPkt("end", x.id, r + 1, x.op.size) \o Success(x),
     DataPkt("data", x.id, r + 1, x.op.size) \o Closing(x, FALSE)}

Packets(x, r) ==
    LastOf(x, r) \cup
    UNION {{DataPkt("data", x.id, r + 1, b) \o s : s \in LastOf(x, b)} :
              b \in r + 1 .. x.op.size - 1}

After(x, b, ended) ==
    IF b < x.op.size /\ ~ended THEN Packets(x, b)
    ELSE IF b = x.op.size THEN {Closing(x, ended)} ELSE {}

InPacket(x, g) ==
    {PayToks(x.id, g.read + 1, g.read + g.left) \o s :
        s \in After(x, g.read + g.left, g.end)}

StartPkt(x) == TcpPacket("start", x.id, <<Tok("len", x.id, x.op.size)>>)

Answers(x) == {StartPkt(x) \o s : s \in Packets(x, 0)}

-----------------------------------------------------------------------------
Pay(id, j) == Tok("pay", id, j)

\* What getdata holds of a data phase is its first part, in full blocks.
Gotten(x, g) ==
    /\ g.total = x.op.size /\ g.read <= x.op.size
    /\ Len(g.data) + Len(g.blk) = g.read
    /\ \A j \in 1..Len(g.data) : g.data[j] = Pay(x.id, j)
    /\ \A j \in 1..Len(g.blk) : g.blk[j] = Pay(x.id, Len(g.data) + j)
    /\ x.op.block = 0 => g.blk = <<>> /\ g.blocks = <<>>
    /\ x.op.block # 0 => /\ \A i \in 1..Len(g.blocks) : g.blocks[i] = x.op.block
                         /\ Len(g.data) = x.op.block * Len(g.blocks)

AllGotten(x, g) ==
    IF x.op.phase = "get"
    THEN /\ g.data = PayToks(x.id, 1, x.op.size)
         /\ g.blocks = BlocksOf(x.op)
    ELSE g = NoGet

\* The messages of an operation, and how many of them the host has sent and
\* the camera has taken.
Messages(x) ==
    IF x.op.phase # "send" THEN <<Tok("req", x.id, 0)>>
    ELSE <<Tok("req", x.id, 0)>> \o [i \in 1..4 |-> Tok(DataParts[i], x.id, x.op.size)]

SentSoFar == CASE pc = "sendreq"  -> 0
               [] pc = "senddata" -> 1
               [] OTHER -> Len(Messages(cur))

TakenSoFar == IF cam.st = "recv" THEN cam.n + 1 ELSE 0

OnTheWire ==
    cam.link =>
        /\ cam.st = "recv" => cur.op.phase = "send" /\ cam.id = cur.id
        /\ cam.st = "ready" => cam.n = 0
        /\ Len(outs) = SentSoFar - TakenSoFar
        /\ \A i \in 1..Len(outs) : outs[i] = Messages(cur)[TakenSoFar + i]

Rested == cam.link => outs = <<>> /\ cam.st = "ready" /\ cam.n = 0

\* The session of the camera, by whether it has carried out the operation.
Session(ok) == cam.session = IF ok THEN phase # "close" ELSE phase # "open"

FirstWant(x) == IF x.op.phase = "get" THEN "start" ELSE "resp"

\* The camera has not answered yet.
Asking ==
    /\ OnTheWire
    /\ buf.data = <<>> /\ ins = <<>>
    /\ \/ pc = "sendreq"
       \/ pc = "senddata" /\ cur.op.phase = "send"
       \/ pc = "fill" /\ rd.part = "hdr" /\ rd.want = FirstWant(cur)
          /\ rd.dst = <<>> /\ fill = <<>>
    /\ get = NoGet
    /\ cur.id \notin done
    /\ Session(FALSE)

\* What recv did not return of an init ack comes before the first response: the
\* open of the session will not succeed.
Odd(t) == t.k \in {"tid", "pay"}

Spoiled ==
    /\ phase = "open"
    /\ OnTheWire \/ Rested
    /\ pc = "sendreq" \/ (pc \in {"fill", "got"} /\ rd.part = "hdr")
    /\ Ahead # <<>> /\ Odd(Ahead[1])

\* The camera has answered, and the host is at this place in the answer.
Control(want) == pc \in Reading /\ rd.part \in {"hdr", "body"} /\ rd.want = want

Placed(ok) ==
    \/ /\ Control("start") /\ cur.op.phase = "get" /\ get = NoGet
       /\ IF ok THEN Ahead \in Answers(cur) ELSE Ahead = Refusal(cur)
    \/ /\ Control("data") /\ cur.op.phase = "get" /\ ok
       /\ Gotten(cur, get) /\ ~get.end
       /\ Ahead \in Packets(cur, get.read)
    \/ /\ pc \in {"recv", "got"} /\ rd.part = "pay" /\ cur.op.phase = "get" /\ ok
       /\ Gotten(cur, get) /\ get.left > 0
       /\ cur.op.block = 0 => rd.size = get.left
       /\ Ahead \in InPacket(cur, get)
    \/ /\ pc = "handler" /\ cur.op.phase = "get" /\ ok
       /\ Gotten(cur, get) /\ get.blk # <<>>
       /\ Len(get.blk) <= cur.op.block
       /\ Len(get.blk) < cur.op.block => get.read = cur.op.size
       /\ Ahead \in InPacket(cur, get)
    \/ /\ Control("end") /\ cur.op.phase = "get" /\ ok
       /\ AllGotten(cur, get)
       /\ Ahead = Closing(cur, FALSE)
    \/ /\ Control("resp")
       /\ \/ cur.op.phase = "get" /\ ok /\ AllGotten(cur, get)
          \/ cur.op.phase # "get" /\ get = NoGet
       /\ Ahead = IF ok THEN Success(cur) ELSE Refusal(cur)

Answered(ok) ==
    /\ Rested
    /\ (cur.id \in done) = ok
    /\ Session(ok)
    /\ Placed(ok)

\* Within a call, and between the calls.
CallStep ==
    pc \in Calling => Asking \/ Spoiled \/ \E ok \in BOOLEAN : Answered(ok)

AtRest == buf = Empty /\ ins = <<>> /\ Rested /\ cam.session

Begun == /\ ~cam.session /\ buf = Empty
         /\ cam.link => cam.st = "ready" /\ cam.n = 0

RestStep ==
    /\ pc \in {"idle", "opened"} => AtRest
    /\ pc = "initcmd" => Begun /\ outs = <<>> /\ ins = <<>>
    /\ pc = "ack" =>
          /\ Begun
          /\ \/ /\ ins = <<>>
                /\ cam.link => \/ outs = <<>>
                               \/ Len(outs) = 1 /\ outs[1].k \in {"init", "part"}
             \/ /\ cam.link => outs = <<>>
                /\ ins # <<>>
                /\ ins[1].k = "ack" => \A i \in 2..Len(ins) : Odd(ins[i])
    /\ pc = "event" => /\ Begun /\ Rested
                       /\ \A i \in 1..Len(ins) : Odd(ins[i])
    /\ pc = "failed" => IF conn.connected THEN AtRest ELSE Rested /\ ~cam.session
    /\ pc \in {"closing", "down"} => Rested /\ (cam.session => result.rc = "err")

\* Until something fails on a connection, both ends are at the same point.
StepInv == Clean => CallStep /\ RestStep

BaseInv == TypeOK /\ CallInv /\ ReadInv

IndInv == BaseInv /\ StepInv /\ OwnData
-----------------------------------------------------------------------------
(***************************************************************************)
(* Lemmas on sequences and on the packet buffer.                           *)
(***************************************************************************)
\* A sequence over a set is one over every larger set.
LEMMA SeqGrows ==
    ASSUME NEW S, NEW T, S \subseteq T
    PROVE  Seq(S) \subseteq Seq(T)
<1> SUFFICES ASSUME NEW s \in Seq(S) PROVE s \in Seq(T)
  OBVIOUS
<1>1. Len(s) \in Nat /\ s = [i \in 1..Len(s) |-> s[i]] /\ \A i \in 1..Len(s) : s[i] \in T
  BY LenProperties, ElementOfSeq
<1>2. [i \in 1..Len(s) |-> s[i]] \in Seq(T)
  BY <1>1, IsASeq
<1> QED BY <1>1, <1>2

\* The first k tokens of what has come, and the others.
LEMMA CutAt ==
    ASSUME NEW S, NEW s \in Seq(S), NEW k \in 0..Len(s)
    PROVE  /\ SubSeq(s, 1, k) \in Seq(S) /\ SubSeq(s, k + 1, Len(s)) \in Seq(S)
           /\ Len(SubSeq(s, 1, k)) = k /\ Len(SubSeq(s, k + 1, Len(s))) = Len(s) - k
           /\ SubSeq(s, 1, k) \o SubSeq(s, k + 1, Len(s)) = s
<1>1. Len(s) \in Nat /\ k \in Nat /\ k <= Len(s) /\ \A j \in 1..Len(s) : s[j] \in S
  BY LenProperties, ElementOfSeq
<1>2. /\ SubSeq(s, 1, k) \in Seq(S)
      /\ Len(SubSeq(s, 1, k)) = IF 1 <= k THEN k - 1 + 1 ELSE 0
  BY <1>1, SubSeqProperties
<1>3. /\ SubSeq(s, k + 1, Len(s)) \in Seq(S)
      /\ Len(SubSeq(s, k + 1, Len(s))) = IF k + 1 <= Len(s) THEN Len(s) - (k + 1) + 1 ELSE 0
  BY <1>1, SubSeqProperties
<1>4. SubSeq(s, 1, k) \o SubSeq(s, k + 1, Len(s)) = SubSeq(s, 1, Len(s))
  <2>1. 1 \in 1..Len(s) + 1 /\ k \in 1 - 1 .. Len(s) /\ Len(s) \in k..Len(s)
    BY <1>1
  <2> QED BY <2>1, ConcatAdjacentSubSeq
<1>5. SubSeq(s, 1, Len(s)) = s
  BY SubSeqFull
<1>6. Len(SubSeq(s, 1, k)) = k
  BY <1>1, <1>2
<1>7. Len(SubSeq(s, k + 1, Len(s))) = Len(s) - k
  BY <1>1, <1>3
<1> QED BY <1>2, <1>3, <1>4, <1>5, <1>6, <1>7, Zenon

\* Two ways to cut the same sequence at the same place are one.
LEMMA CutOnce ==
    ASSUME NEW S, NEW a \in Seq(S), NEW b \in Seq(S), NEW c \in Seq(S), NEW d \in Seq(S),
           a \o b = c \o d, Len(a) = Len(c)
    PROVE  a = c /\ b = d
<1>1. /\ Len(a) \in Nat /\ Len(b) \in Nat /\ Len(c) \in Nat /\ Len(d) \in Nat
      /\ Len(a \o b) = Len(a) + Len(b) /\ Len(c \o d) = Len(c) + Len(d)
      /\ \A i \in 1..Len(a) + Len(b) :
            (a \o b)[i] = IF i <= Len(a) THEN a[i] ELSE b[i - Len(a)]
      /\ \A i \in 1..Len(c) + Len(d) :
            (c \o d)[i] = IF i <= Len(c) THEN c[i] ELSE d[i - Len(c)]
  BY LenProperties, ConcatProperties
<1>2. Len(b) = Len(d)
  BY <1>1
<1>3. \A i \in 1..Len(a) : a[i] = c[i]
  <2> TAKE i \in 1..Len(a)
  <2>1. i \in 1..Len(a) + Len(b) /\ i \in 1..Len(c) + Len(d)
    BY <1>1
  <2> QED BY <1>1, <2>1
<1>4. \A i \in 1..Len(b) : b[i] = d[i]
  <2> TAKE i \in 1..Len(b)
  <2>1. /\ Len(a) + i \in 1..Len(a) + Len(b) /\ Len(a) + i \in 1..Len(c) + Len(d)
        /\ ~(Len(a) + i <= Len(a)) /\ (Len(a) + i) - Len(a) = i
    BY <1>1, <1>2
  <2> QED BY <1>1, <2>1
<1> QED BY <1>2, <1>3, <1>4, SeqEqual

\* What ptp_transport_read_from_buffer hands over and what it leaves are, one
\* after the other, what was in the buffer.
LEMMA TakeLemma ==
    ASSUME NEW S, NEW b \in [pos : Nat, data : Seq(S)], NEW n \in Nat,
           b.data = <<>> => b = Empty
    PROVE  /\ Taken(b, n) \in Seq(S)
           /\ AfterTake(b, n) \in [pos : Nat, data : Seq(S)]
           /\ AfterTake(b, n).data = <<>> => AfterTake(b, n) = Empty
           /\ Taken(b, n) \o AfterTake(b, n).data = b.data
           /\ TakeLen(b, n) = Len(Taken(b, n)) /\ Len(Taken(b, n)) \in Nat
           /\ Len(Taken(b, n)) <= n
           /\ Len(b.data) >= n => Len(Taken(b, n)) = n
           /\ Len(b.data) < n => AfterTake(b, n).data = <<>> /\ Len(Taken(b, n)) < n
<1> DEFINE k == TakeLen(b, n)
           r == SubSeq(b.data, k + 1, Len(b.data))
<1>1. b.data \in Seq(S) /\ b.pos \in Nat /\ Len(b.data) \in Nat
  BY LenProperties
<1>2. k = IF Len(b.data) > n THEN n ELSE Len(b.data)
  BY DEF TakeLen
<1>3. k \in Nat /\ k <= Len(b.data) /\ k <= n
  BY <1>1, <1>2
<1>4. k \in 0..Len(b.data) /\ Taken(b, n) = SubSeq(b.data, 1, k)
  BY <1>1, <1>3 DEF Taken
<1> HIDE DEF k
<1>5. /\ Taken(b, n) \in Seq(S) /\ Len(Taken(b, n)) = k
      /\ r \in Seq(S) /\ Len(r) = Len(b.data) - k
      /\ Taken(b, n) \o r = b.data
  BY <1>1, <1>4, CutAt, ZenonT(40)
<1>6. r = <<>> <=> k = Len(b.data)
  <2> HIDE DEF r
  <2>1. Len(r) = 0 <=> r = <<>>
    BY <1>5, EmptySeq
  <2> QED BY <2>1, <1>1, <1>3, <1>5
<1> HIDE DEF r
<1>7. AfterTake(b, n).data = r /\ (r = <<>> => AfterTake(b, n) = Empty)
      /\ AfterTake(b, n) \in [pos : Nat, data : Seq(S)]
  <2>1. CASE b.data = <<>>
    <3>1. Len(b.data) = 0
      BY <2>1
    <3>2. k = Len(b.data)
      BY <3>1, <1>3
    <3> QED BY <2>1, <3>2, <1>6 DEF AfterTake, Empty
  <2>2. CASE b.data # <<>> /\ k = Len(b.data)
    <3>1. AfterTake(b, n) = Empty
      BY <2>2 DEF AfterTake, k
    <3>2. Empty \in [pos : Nat, data : Seq(S)] /\ Empty.data = <<>>
      BY EmptySeq DEF Empty
    <3> QED BY <3>1, <3>2, <2>2, <1>6
  <2>3. CASE b.data # <<>> /\ k # Len(b.data)
    <3>1. AfterTake(b, n) = [pos |-> b.pos + k, data |-> r]
      BY <2>3 DEF AfterTake, k, r
    <3>2. b.pos + k \in Nat
      BY <1>1, <1>3
    <3> QED BY <3>1, <3>2, <2>3, <1>5, <1>6
  <2> QED BY <2>1, <2>2, <2>3
<1>8. Len(b.data) >= n => k = n
  BY <1>1, <1>2
<1>9. Len(b.data) < n => k = Len(b.data) /\ k < n
  BY <1>1, <1>2
<1> QED BY <1>3, <1>5, <1>6, <1>7, <1>8, <1>9 DEF k

-----------------------------------------------------------------------------
(***************************************************************************)
(* What the code may rely on whatever fails: types, the ids of messages,   *)
(* and where a read in progress has come to (BaseInv).                     *)
(***************************************************************************)
\* What is known stays known when more is requested or carried out.
LEMMA KnownGrows ==
    ASSUME NEW n \in Nat, NEW m \in Nat, n <= m, NEW a, NEW b, a \subseteq b
    PROVE  Known(n, a) \subseteq Known(m, b) /\ Seq(Known(n, a)) \subseteq Seq(Known(m, b))
<1>1. Known(n, a) \subseteq Known(m, b)
  <2> SUFFICES ASSUME NEW t \in Known(n, a) PROVE t \in Known(m, b)
    OBVIOUS
  <2>1. t \in Token /\ t.id \in Nat
    BY DEF Known, Token
  <2>2. t.id < n => t.id < m
    BY <2>1
  <2> QED BY <2>1, <2>2 DEF Known
<1> QED BY <1>1, SeqGrows

\* Known tokens are tokens.
LEMMA KnownTokens == KnownTok \subseteq Token /\ Seq(KnownTok) \subseteq Seq(Token)
<1>1. KnownTok \subseteq Token
  BY DEF KnownTok, Known
<1> QED BY <1>1, SeqGrows

\* The read that StartRead begins: what it has and what it leaves in the buffer
\* are what was in the buffer.
LEMMA StartReadFacts ==
    ASSUME BaseInv, NEW part \in {"hdr", "body", "pay"},
           NEW want \in {"none", "start", "data", "end", "resp"},
           NEW hdr \in KnownTok, NEW n \in Nat, StartRead(part, want, hdr, n)
    PROVE  /\ pc' \in Reading /\ pc' \in Calling /\ pc' # "handler"
           /\ rd' \in RdType /\ buf' \in BufType /\ fill' = <<>>
           /\ rd'.part = part /\ rd'.want = want /\ rd'.hdr = hdr /\ rd'.size = n
           /\ rd'.dst \in Seq(KnownTok) /\ Len(rd'.dst) \in Nat
           /\ buf'.data \in Seq(KnownTok)
           /\ buf'.data = <<>> => buf' = Empty
           /\ rd'.dst \o buf'.data = buf.data
           /\ pc' = "got" => Len(rd'.dst) = n
           /\ pc' # "got" => buf'.data = <<>> /\ Len(rd'.dst) < n
           /\ pc' = "recv" => part = "pay"
           /\ pc' = "fill" => part # "pay"
<1>1. /\ buf \in [pos : Nat, data : Seq(KnownTok)] /\ (buf.data = <<>> => buf = Empty)
      /\ Len(buf.data) \in Nat
  BY LenProperties DEF BaseInv, TypeOK, BufType, ReadInv
<1>2. /\ rd' = [part |-> part, want |-> want, hdr |-> hdr, size |-> n, dst |-> Taken(buf, n)]
      /\ buf' = AfterTake(buf, n) /\ fill' = <<>>
      /\ pc' = IF Len(buf.data) >= n THEN "got" ELSE IF part = "pay" THEN "recv" ELSE "fill"
  BY DEF StartRead
<1>3. /\ Taken(buf, n) \in Seq(KnownTok)
      /\ AfterTake(buf, n) \in [pos : Nat, data : Seq(KnownTok)]
      /\ AfterTake(buf, n).data = <<>> => AfterTake(buf, n) = Empty
      /\ Taken(buf, n) \o AfterTake(buf, n).data = buf.data
      /\ Len(Taken(buf, n)) \in Nat
      /\ Len(buf.data) >= n => Len(Taken(buf, n)) = n
      /\ Len(buf.data) < n => AfterTake(buf, n).data = <<>> /\ Len(Taken(buf, n)) < n
  BY <1>1, TakeLemma
<1>4. pc' # "got" => Len(buf.data) < n
  BY <1>1, <1>2
<1> QED BY <1>1, <1>2, <1>3, <1>4 DEF Reading, Calling, RdType, BufType

\* So the read in progress has a legal place.
LEMMA StartReadInv ==
    ASSUME BaseInv, NEW part \in {"hdr", "body", "pay"},
           NEW want \in {"none", "start", "data", "end", "resp"},
           NEW hdr \in KnownTok, NEW n \in Nat, StartRead(part, want, hdr, n),
           part = "hdr" => n = 1,
           part = "body" => n = BodyLen(hdr),
           part = "pay" => /\ n <= get'.left
                           /\ cur'.op.block # 0 => n + Len(get'.blk) <= cur'.op.block,
           cur'.op.block # 0 => Len(get'.blk) < cur'.op.block
    PROVE  ReadInv'
<1> HIDE DEF StartRead
<1>1. /\ pc' \in Reading /\ fill' = <<>> /\ pc' # "handler"
      /\ rd'.part = part /\ rd'.hdr = hdr /\ rd'.size = n
      /\ Len(rd'.dst) \in Nat
      /\ buf'.data = <<>> => buf' = Empty
      /\ pc' = "got" => Len(rd'.dst) = n
      /\ pc' # "got" => buf'.data = <<>> /\ Len(rd'.dst) < n
  BY StartReadFacts, ZenonT(40)
<1>2. Len(rd'.dst) + Len(fill') = Len(rd'.dst)
  BY <1>1
<1>3. BodyLen(rd'.hdr) = BodyLen(hdr)
  BY <1>1
<1> QED BY <1>1, <1>2, <1>3 DEF ReadInv, BodyLen, IsData

\* A step of a transaction keeps BaseInv if it keeps the types and the reads.
LEMMA CallBase ==
    ASSUME BaseInv, pc \in Calling, UNCHANGED <<phase, conn, cur, ops, done>>,
           faultAt' \in {faultAt, conn.n},
           cam' \in {cam, [cam EXCEPT !.link = FALSE]},
           outs' \in Seq(Token),
           \A i \in 1..Len(outs') : outs'[i].k = "req" => outs'[i].id < Len(ops),
           ins' \in Seq(KnownTok), get' \in GetType, rd' \in RdType, buf' \in BufType,
           fill' \in Seq(KnownTok),
           \/ pc' \in Calling /\ result' = result
           \/ \E rc \in Codes, from \in Nat : Finish(rc, from),
           pc' \in Calling => ReadInv',
           buf'.data = <<>> => buf' = Empty
    PROVE  BaseInv'
<1>1. /\ pc \in Calling /\ KnownTok' = KnownTok
      /\ conn.n \in Nat /\ faultAt \in Nat /\ faultAt <= conn.n
  BY DEF BaseInv, TypeOK, ConnType, KnownTok, CallInv
<1>2. RdType' = RdType /\ BufType' = BufType
  BY <1>1 DEF RdType, BufType
<1>3. /\ result' \in ResultType
      /\ \/ pc' \in Calling
         \/ pc' = "idle" /\ phase \in {"use", "info"}
         \/ pc' = "closing" /\ phase = "close"
         \/ pc' = "opened" /\ phase = "open"
         \/ pc' = "failed" /\ phase \in {"open", "info"}
  <2>1. CASE pc' \in Calling /\ result' = result
    BY <2>1 DEF BaseInv, TypeOK
  <2>2. CASE \E rc \in Codes, from \in Nat : Finish(rc, from)
    <3> PICK rc \in Codes, from \in Nat : Finish(rc, from)
      BY <2>2
    <3>1. cur.id \in Nat /\ get.data \in Seq(Token) /\ get.blocks \in Seq(Nat)
          /\ phase \in {"open", "info", "use", "close"}
      BY DEF BaseInv, TypeOK, GetType
    <3> QED BY <3>1 DEF Finish, ResultType
  <2> QED BY <2>1, <2>2
<1>4. TypeOK'
  <2>1. cam' \in CamType
    BY DEF BaseInv, TypeOK, CamType
  <2>2. faultAt' \in Nat
    BY <1>1
  <2>3. pc' \in Calling \cup {"down", "initcmd", "ack", "event", "failed", "opened",
                            "idle", "closing"}
    BY <1>3
  <2>4. /\ phase' \in {"open", "info", "use", "close"} /\ conn' \in ConnType
        /\ cur' \in [id : Nat, op : TcpOpType] /\ ops' \in Seq(TcpOpType)
        /\ done' \in SUBSET Nat
    BY DEF BaseInv, TypeOK
  <2> QED BY <1>1, <1>2, <1>3, <2>1, <2>2, <2>3, <2>4 DEF TypeOK
<1>5. CallInv'
  <2>1. /\ faultAt' <= conn'.n
        /\ \A i \in done' : i < Len(ops')
        /\ \A i \in 1..Len(outs') : outs'[i].k = "req" => outs'[i].id < Len(ops')
        /\ cam'.st = "recv" => cam'.id < Len(ops')
    <3>1. faultAt' <= conn'.n
      BY <1>1
    <3>2. \A i \in done' : i < Len(ops')
      BY DEF BaseInv, CallInv
    <3>3. cam'.st = cam.st /\ cam'.id = cam.id
      BY DEF BaseInv, TypeOK, CamType
    <3>4. cam.st = "recv" => cam.id < Len(ops)
      BY DEF BaseInv, CallInv
    <3> QED BY <3>1, <3>2, <3>3, <3>4
  <2>2. /\ Len(ops') = cur'.id + 1 /\ ops'[cur'.id + 1] = cur'.op /\ conn'.n > 0
        /\ phase' = "open" => cur'.op = OpenSession
        /\ phase' = "close" => cur'.op = CloseSession
        /\ phase' \in {"info", "use"} => cur'.op \in TcpOps \cup {DeviceInfo}
    BY <1>1 DEF BaseInv, CallInv
  <2>3. /\ phase' \in {"info", "use", "close"} => conn'.connected
        /\ phase' = "open" => ~conn'.connected
    BY <1>1 DEF BaseInv, CallInv
  <2>4. pc' \notin {"down", "initcmd", "ack", "event"}
        /\ (pc' = "idle" => phase \in {"use", "info"})
        /\ (pc' = "opened" => phase = "open")
    BY <1>3 DEF Calling
  <2> QED BY <2>1, <2>2, <2>3, <2>4 DEF CallInv
<1>6. ReadInv'
  <2>1. CASE pc' \in Calling
    BY <2>1
  <2>2. CASE pc' \notin Calling
    BY <2>2 DEF ReadInv, Calling, Reading
  <2> QED BY <2>1, <2>2
<1> QED BY <1>4, <1>5, <1>6 DEF BaseInv

\* The read of a header has no header yet.
LEMMA NoHeader == Tok("none", 0, 0) \in KnownTok
  BY DEF Tok, KnownTok, Known, Token, Kinds

\* What StartRead leaves, where CallBase asks for it.
LEMMA StartReadBase ==
    ASSUME BaseInv, NEW part \in {"hdr", "body", "pay"},
           NEW want \in {"none", "start", "data", "end", "resp"},
           NEW hdr \in KnownTok, NEW n \in Nat, StartRead(part, want, hdr, n),
           part = "hdr" => n = 1,
           part = "body" => n = BodyLen(hdr),
           part = "pay" => /\ n <= get'.left
                           /\ cur'.op.block # 0 => n + Len(get'.blk) <= cur'.op.block,
           cur'.op.block # 0 => Len(get'.blk) < cur'.op.block
    PROVE  /\ pc' \in Calling /\ rd' \in RdType /\ buf' \in BufType
           /\ fill' \in Seq(KnownTok) /\ ReadInv' /\ (buf'.data = <<>> => buf' = Empty)
<1> HIDE DEF StartRead
<1>1. /\ pc' \in Calling /\ rd' \in RdType /\ buf' \in BufType /\ fill' = <<>>
      /\ buf'.data = <<>> => buf' = Empty
  BY StartReadFacts
<1>2. ReadInv'
  BY StartReadInv
<1>3. fill' \in Seq(KnownTok)
  BY <1>1, EmptySeq
<1> QED BY <1>1, <1>2, <1>3

\* The same of the read of a header.
LEMMA ReadControlBase ==
    ASSUME BaseInv, NEW want \in {"start", "data", "end", "resp"}, ReadControl(want),
           cur'.op.block # 0 => Len(get'.blk) < cur'.op.block
    PROVE  /\ pc' \in Calling /\ rd' \in RdType /\ buf' \in BufType
           /\ fill' \in Seq(KnownTok) /\ ReadInv' /\ (buf'.data = <<>> => buf' = Empty)
<1>1. StartRead("hdr", want, Tok("none", 0, 0), 1)
  BY DEF ReadControl
<1>2. /\ "hdr" \in {"hdr", "body", "pay"} /\ want \in {"none", "start", "data", "end", "resp"}
      /\ Tok("none", 0, 0) \in KnownTok /\ 1 \in Nat
  BY NoHeader
<1> HIDE DEF StartRead
<1> QED BY <1>1, <1>2, StartReadBase

\* The same where getdata goes on: in the packet, or with the next, or with the
\* handler.
LEMMA GoOnBase ==
    ASSUME BaseInv, NEW g \in GetType, GoOn(g), get' \in GetType, UNCHANGED cur,
           g.left = get'.left, g.blk = get'.blk,
           cur.op.block # 0 => Len(g.blk) < cur.op.block
    PROVE  /\ pc' \in Calling /\ rd' \in RdType /\ buf' \in BufType
           /\ fill' \in Seq(KnownTok) /\ ReadInv' /\ (buf'.data = <<>> => buf' = Empty)
<1>1. /\ cur.op.block \in Nat /\ g.left \in Nat /\ Len(g.blk) \in Nat
      /\ rd.want \in {"none", "start", "data", "end", "resp"} /\ rd.hdr \in KnownTok
  BY LenProperties DEF BaseInv, TypeOK, TcpOpType, GetType, RdType
<1>2. cur'.op.block # 0 => Len(get'.blk) < cur'.op.block
  OBVIOUS
<1>3. CASE g.left > 0
  <2> DEFINE n == IF cur.op.block = 0 THEN g.left
                  ELSE MinLen(cur.op.block - Len(g.blk), g.left)
  <2>1. n \in Nat /\ n <= g.left /\ (cur.op.block # 0 => n + Len(g.blk) <= cur.op.block)
    BY <1>1 DEF MinLen
  <2>2. StartRead("pay", rd.want, rd.hdr, n)
    BY <1>3 DEF GoOn, NextPay
  <2> HIDE DEF StartRead, n
  <2>3. "pay" = "pay" => /\ n <= get'.left
                         /\ cur'.op.block # 0 => n + Len(get'.blk) <= cur'.op.block
    BY <2>1
  <2>4. "pay" \in {"hdr", "body", "pay"} /\ "pay" # "hdr" /\ "pay" # "body"
    OBVIOUS
  <2> QED BY <1>1, <1>2, <2>1, <2>2, <2>3, <2>4, StartReadBase
<1>4. CASE ~(g.left > 0)
  <2>1. LoopEnd(g)
    BY <1>4 DEF GoOn
  <2>2. CASE ReadControl("data") \/ ReadControl("resp") \/ ReadControl("end")
    <3> HIDE DEF ReadControl
    <3> QED BY <2>2, <1>2, ReadControlBase
  <2>3. CASE pc' = "handler" /\ UNCHANGED <<rd, buf, fill>>
    <3>1. pc' \in Calling /\ pc' \notin Reading
      BY <2>3 DEF Calling, Reading
    <3>2. /\ rd \in RdType /\ buf \in BufType /\ fill \in Seq(KnownTok)
          /\ buf.data = <<>> => buf = Empty
      BY DEF BaseInv, TypeOK, ReadInv
    <3> QED BY <3>1, <3>2, <2>3 DEF ReadInv, Reading
  <2> QED BY <2>1, <2>2, <2>3 DEF LoopEnd
<1> QED BY <1>3, <1>4

\* Types of what the host has.
LEMMA HostTypes ==
    ASSUME BaseInv
    PROVE  /\ rd \in RdType /\ buf \in BufType /\ fill \in Seq(KnownTok)
           /\ get \in GetType /\ outs \in Seq(Token) /\ ins \in Seq(KnownTok)
           /\ \A i \in 1..Len(outs) : outs[i].k = "req" => outs[i].id < Len(ops)
           /\ buf.data = <<>> => buf = Empty
           /\ cur.id \in Nat /\ conn.n \in Nat /\ faultAt \in Nat
           /\ cur.op \in TcpOpType /\ cur.op.size \in Nat /\ cur.op.block \in Nat
           /\ cur.op.par \in Nat /\ cur.op.phase \in {"none", "get", "send"}
           /\ rd.dst \in Seq(KnownTok) /\ Len(rd.dst) \in Nat /\ rd.size \in Nat
           /\ buf.data \in Seq(KnownTok) /\ rd.hdr \in KnownTok /\ rd.hdr \in Token
           /\ rd.want \in {"none", "start", "data", "end", "resp"}
           /\ get.blk \in Seq(Token) /\ get.data \in Seq(Token) /\ get.blocks \in Seq(Nat)
           /\ Len(get.blk) \in Nat /\ Len(get.data) \in Nat
           /\ get.left \in Nat /\ get.read \in Nat /\ get.total \in Nat /\ get.end \in BOOLEAN
<1>1. /\ rd \in RdType /\ buf \in BufType /\ fill \in Seq(KnownTok)
      /\ get \in GetType /\ outs \in Seq(Token) /\ ins \in Seq(KnownTok)
      /\ cur \in [id : Nat, op : TcpOpType] /\ conn \in ConnType /\ faultAt \in Nat
  BY DEF BaseInv, TypeOK
<1>2. /\ \A i \in 1..Len(outs) : outs[i].k = "req" => outs[i].id < Len(ops)
      /\ buf.data = <<>> => buf = Empty
  BY DEF BaseInv, CallInv, ReadInv
<1>3. /\ cur.id \in Nat /\ conn.n \in Nat /\ cur.op \in TcpOpType /\ cur.op.size \in Nat
      /\ cur.op.block \in Nat /\ cur.op.par \in Nat /\ cur.op.phase \in {"none", "get", "send"}
  BY <1>1 DEF ConnType, TcpOpType
<1>4. /\ rd.dst \in Seq(KnownTok) /\ Len(rd.dst) \in Nat /\ rd.size \in Nat
      /\ buf.data \in Seq(KnownTok) /\ rd.hdr \in KnownTok /\ rd.hdr \in Token
      /\ rd.want \in {"none", "start", "data", "end", "resp"}
  BY <1>1, LenProperties, KnownTokens DEF RdType, BufType
<1>5. /\ get.blk \in Seq(Token) /\ get.data \in Seq(Token) /\ get.blocks \in Seq(Nat)
      /\ Len(get.blk) \in Nat /\ Len(get.data) \in Nat
      /\ get.left \in Nat /\ get.read \in Nat /\ get.total \in Nat /\ get.end \in BOOLEAN
  BY <1>1, LenProperties DEF GetType
<1> QED BY <1>1, <1>2, <1>3, <1>4, <1>5

\* The transaction has room for more in its block.
LEMMA BlockRoom ==
    ASSUME BaseInv, pc \in Calling, pc # "handler"
    PROVE  cur.op.block # 0 => Len(get.blk) < cur.op.block
  BY DEF BaseInv, ReadInv

\* An operation that fails, or ends, keeps what the reads rely on.
LEMMA EndBase ==
    ASSUME BaseInv, pc \in Calling, UNCHANGED <<phase, conn, cur, ops, done, get>>,
           faultAt' \in {faultAt, conn.n},
           cam' \in {cam, [cam EXCEPT !.link = FALSE]},
           UNCHANGED outs \/ outs' = <<>>, ins' \in Seq(KnownTok),
           rd' \in RdType, buf' \in BufType, fill' \in Seq(KnownTok),
           buf'.data = <<>> => buf' = Empty,
           NEW rc \in Codes, NEW from \in Nat, Finish(rc, from)
    PROVE  BaseInv'
<1>1. /\ outs' \in Seq(Token)
      /\ \A i \in 1..Len(outs') : outs'[i].k = "req" => outs'[i].id < Len(ops)
  <2>1. CASE UNCHANGED outs
    BY <2>1, HostTypes
  <2>2. CASE outs' = <<>>
    BY <2>2, EmptySeq
  <2> QED BY <2>1, <2>2
<1>2. pc' \notin Calling /\ get' \in GetType
  <2>1. phase \in {"open", "info", "use", "close"}
    BY DEF BaseInv, TypeOK
  <2> QED BY <2>1, HostTypes DEF Finish, Calling
<1>3. \E r \in Codes, f \in Nat : Finish(r, f)
  OBVIOUS
<1> HIDE DEF Finish
<1> QED BY <1>1, <1>2, <1>3, CallBase

\* A transaction keeps BaseInv when it is aborted without more.
LEMMA AbortBase ==
    ASSUME BaseInv, pc \in Calling,
           UNCHANGED <<phase, conn, cur, ops, done, get, rd, buf, fill>>,
           cam' \in {cam, [cam EXCEPT !.link = FALSE]},
           UNCHANGED outs \/ outs' = <<>>, UNCHANGED ins \/ ins' = <<>>,
           NEW rc \in Codes, Abort(rc)
    PROVE  BaseInv'
<1>1. /\ Finish(rc, cur.id) /\ cur.id \in Nat /\ faultAt' \in {faultAt, conn.n}
      /\ rd' \in RdType /\ buf' \in BufType /\ fill' \in Seq(KnownTok)
      /\ buf'.data = <<>> => buf' = Empty
  BY HostTypes DEF Abort
<1>2. ins' \in Seq(KnownTok)
  BY HostTypes, EmptySeq
<1> HIDE DEF Finish
<1> QED BY <1>1, <1>2, EndBase

\* What recv takes and what it leaves.
LEMMA RecvFacts ==
    ASSUME BaseInv, NEW k \in Nat, NEW room \in Nat, Recv(k, room)
    PROVE  /\ k \in 1..Len(ins) /\ k <= room
           /\ SubSeq(ins, 1, k) \in Seq(KnownTok) /\ Len(SubSeq(ins, 1, k)) = k
           /\ ins' \in Seq(KnownTok)
           /\ SubSeq(ins, 1, k) \o ins' = ins
<1>1. ins \in Seq(KnownTok) /\ Len(ins) \in Nat
  BY HostTypes, LenProperties
<1>2. k \in 1..Len(ins) /\ k <= room /\ ins' = SubSeq(ins, k + 1, Len(ins))
  BY <1>1 DEF Recv, MinLen
<1>3. k \in 0..Len(ins)
  BY <1>1, <1>2
<1> QED BY <1>1, <1>2, <1>3, CutAt

\* The recv after which ptp_transport_read_to_buffer has enough.
FillsUp(k) ==
    /\ Recv(k, BufLen - Len(fill))
    /\ Enough(Len(fill \o SubSeq(ins, 1, k)))
    /\ rd' = [rd EXCEPT !.dst = @ \o Taken(Loaded(fill \o SubSeq(ins, 1, k)),
                                           rd.size - Len(rd.dst))]
    /\ buf' = AfterTake(Loaded(fill \o SubSeq(ins, 1, k)), rd.size - Len(rd.dst))

\* Fill, while the read goes on or ends, keeps what has been sent to the host.
LEMMA FillFacts ==
    ASSUME BaseInv, pc = "fill", NEW k \in 1..BufLen, FillsUp(k)
    PROVE  /\ rd' \in RdType /\ buf' \in BufType /\ (buf'.data = <<>> => buf' = Empty)
           /\ rd'.dst \in Seq(KnownTok) /\ Len(rd'.dst) = rd.size
           /\ buf'.data \in Seq(KnownTok)
           /\ rd'.dst \o buf'.data = rd.dst \o (fill \o SubSeq(ins, 1, k))
           /\ TakeLen(Loaded(fill \o SubSeq(ins, 1, k)), rd.size - Len(rd.dst))
                 = rd.size - Len(rd.dst)
<1> DEFINE all == fill \o SubSeq(ins, 1, k)
           need == rd.size - Len(rd.dst)
<1>1. /\ rd.size \in Nat /\ rd.dst \in Seq(KnownTok) /\ Len(rd.dst) \in Nat
      /\ rd \in RdType /\ fill \in Seq(KnownTok) /\ Len(fill) \in Nat
  BY HostTypes, LenProperties
<1>2. Len(rd.dst) + Len(fill) < rd.size
  BY DEF BaseInv, ReadInv
<1>3. need \in Nat /\ k \in Nat
  BY <1>1, <1>2
<1>4. all \in Seq(KnownTok) /\ Len(all) \in Nat
  <2>1. SubSeq(ins, 1, k) \in Seq(KnownTok)
    <3>1. ins \in Seq(KnownTok) /\ Len(ins) \in Nat
      BY HostTypes, LenProperties
    <3>2. k \in 0..Len(ins)
      <4>1. k <= Len(ins)
        BY <1>1, <1>3, <3>1, TcpAssumption DEF FillsUp, Recv, MinLen
      <4> QED BY <4>1, <1>3, <3>1
    <3> QED BY <3>1, <3>2, CutAt
  <2> QED BY <2>1, <1>1, ConcatProperties, LenProperties
<1>5. Len(all) >= need
  BY <1>1, <1>4 DEF FillsUp, Enough
<1>13. Len(rd.dst) + need = rd.size
  BY <1>1
<1> HIDE DEF all, need
<1>6. /\ Loaded(all) \in [pos : Nat, data : Seq(KnownTok)] /\ Loaded(all).data = all
      /\ Loaded(all).data = <<>> => Loaded(all) = Empty
  BY <1>4 DEF Loaded, Empty
<1>7. /\ Taken(Loaded(all), need) \in Seq(KnownTok)
      /\ AfterTake(Loaded(all), need) \in [pos : Nat, data : Seq(KnownTok)]
      /\ AfterTake(Loaded(all), need).data = <<>> => AfterTake(Loaded(all), need) = Empty
      /\ Taken(Loaded(all), need) \o AfterTake(Loaded(all), need).data = all
      /\ TakeLen(Loaded(all), need) = Len(Taken(Loaded(all), need))
      /\ Len(Taken(Loaded(all), need)) = need
  BY <1>3, <1>5, <1>6, TakeLemma
<1>8. /\ rd'.dst = rd.dst \o Taken(Loaded(all), need)
      /\ rd' = [rd EXCEPT !.dst = rd.dst \o Taken(Loaded(all), need)]
      /\ buf' = AfterTake(Loaded(all), need)
  BY <1>1 DEF FillsUp, all, need, RdType
<1>9. rd'.dst \in Seq(KnownTok) /\ Len(rd'.dst) = Len(rd.dst) + need
  <2> DEFINE t == Taken(Loaded(all), need)
  <2>1. t \in Seq(KnownTok) /\ Len(t) = need
    BY <1>7
  <2> HIDE DEF t
  <2>2. rd.dst \o t \in Seq(KnownTok) /\ Len(rd.dst \o t) = Len(rd.dst) + Len(t)
    BY <1>1, <2>1, ConcatProperties
  <2>3. rd'.dst = rd.dst \o t
    BY <1>8 DEF t
  <2> QED BY <2>1, <2>2, <2>3
<1>10. rd' \in RdType
  BY <1>1, <1>8, <1>9 DEF RdType
<1>11. Len(rd'.dst) = rd.size
  BY <1>9, <1>13
<1>12. rd'.dst \o buf'.data = rd.dst \o all
  <2> DEFINE d == rd.dst
             t == Taken(Loaded(all), need)
             u == AfterTake(Loaded(all), need).data
  <2>1. d \in Seq(KnownTok) /\ t \in Seq(KnownTok) /\ u \in Seq(KnownTok)
    BY <1>1, <1>7
  <2>5. t \o u = all
    BY <1>7
  <2>2. rd'.dst = d \o t /\ buf'.data = u
    BY <1>8
  <2> HIDE DEF d, t, u
  <2>3. (d \o t) \o u = d \o (t \o u)
    BY <2>1, ConcatAssociative
  <2>4. rd'.dst \o buf'.data = d \o all
    BY <2>2, <2>3, <2>5
  <2> QED BY <2>4 DEF d
<1> QED BY <1>7, <1>8, <1>9, <1>10, <1>11, <1>12 DEF BufType, all, need

\* ptp_transport_read_to_buffer: BaseInv holds after each recv.
LEMMA FillBase == ASSUME BaseInv, Fill PROVE BaseInv'
<1>1. /\ pc = "fill" /\ pc \in Calling /\ pc # "handler"
      /\ UNCHANGED <<phase, conn, cur, ops, get, done>>
  BY DEF Fill, Calling
<1>2. ASSUME NEW k \in 1..BufLen, Recv(k, BufLen - Len(fill)), Enough(Len(fill \o SubSeq(ins, 1, k))),
             rd' = [rd EXCEPT !.dst = @ \o Taken(Loaded(fill \o SubSeq(ins, 1, k)),
                                                rd.size - Len(rd.dst))],
             buf' = AfterTake(Loaded(fill \o SubSeq(ins, 1, k)), rd.size - Len(rd.dst)),
             fill' = <<>>, UNCHANGED <<outs, cam>>,
             \/ pc' = "got" /\ UNCHANGED <<result, faultAt>>
             \/ Abort("badparam")
      PROVE  BaseInv'
  <2>1. /\ rd' \in RdType /\ buf' \in BufType /\ (buf'.data = <<>> => buf' = Empty)
        /\ rd'.dst \in Seq(KnownTok) /\ Len(rd'.dst) = rd.size
    <3>1. FillsUp(k)
      BY <1>2 DEF FillsUp
    <3> QED BY <1>1, <3>1, FillFacts
  <2>2. ins' \in Seq(KnownTok)
    <3>1. ins \in Seq(KnownTok) /\ Len(ins) \in Nat /\ Len(fill) \in Nat
      BY HostTypes, LenProperties
    <3>2. k \in 0..Len(ins) /\ ins' = SubSeq(ins, k + 1, Len(ins))
      BY <1>2, <3>1, TcpAssumption DEF Recv, MinLen
    <3> QED BY <3>1, <3>2, CutAt
  <2>3. fill' \in Seq(KnownTok)
    BY <1>2, EmptySeq
  <2>4. CASE pc' = "got" /\ UNCHANGED <<result, faultAt>>
    <3>1. ReadInv'
      <4>1. /\ rd'.part = rd.part /\ rd'.hdr = rd.hdr /\ rd'.size = rd.size
        BY <1>2, HostTypes DEF RdType
      <4>2. /\ rd.part = "hdr" => rd.size = 1
            /\ rd.part = "body" => rd.size = BodyLen(rd.hdr)
            /\ rd.part = "pay" => /\ rd.size <= get.left
                                  /\ cur.op.block # 0 => rd.size + Len(get.blk) <= cur.op.block
            /\ cur.op.block # 0 => Len(get.blk) < cur.op.block
        BY <1>1 DEF BaseInv, ReadInv, Reading
      <4> QED BY <2>1, <2>4, <1>1, <1>2, <4>1, <4>2 DEF ReadInv, Reading, BodyLen, IsData
    <3>2. pc' \in Calling
      BY <2>4 DEF Calling
    <3> QED BY <1>1, <1>2, <2>1, <2>2, <2>3, <2>4, <3>1, <3>2, HostTypes, CallBase
  <2>5. CASE Abort("badparam")
    <3>1. Finish("badparam", cur.id) /\ cur.id \in Nat /\ faultAt' = conn.n
          /\ "badparam" \in Codes
      BY <2>5, HostTypes DEF Abort, Codes
    <3> HIDE DEF Finish
    <3> QED BY <1>1, <1>2, <2>1, <2>2, <2>3, <3>1, EndBase
  <2> QED BY <1>2, <2>4, <2>5
<1>3. ASSUME NEW k \in 1..BufLen, Recv(k, BufLen - Len(fill)),
             ~Enough(Len(fill \o SubSeq(ins, 1, k))), fill' = fill \o SubSeq(ins, 1, k),
             UNCHANGED <<rd, buf, pc, result, faultAt, outs, cam>>
      PROVE  BaseInv'
  <2>1. ins \in Seq(KnownTok) /\ Len(ins) \in Nat /\ Len(fill) \in Nat
        /\ fill \in Seq(KnownTok)
    BY HostTypes, LenProperties
  <2>2. k \in 0..Len(ins) /\ ins' = SubSeq(ins, k + 1, Len(ins))
    BY <1>3, <2>1, TcpAssumption DEF Recv, MinLen
  <2>3. ins' \in Seq(KnownTok) /\ SubSeq(ins, 1, k) \in Seq(KnownTok)
    BY <2>1, <2>2, CutAt
  <2>4. fill' \in Seq(KnownTok) /\ Len(fill') \in Nat
    BY <1>3, <2>1, <2>3, ConcatProperties, LenProperties
  <2>5. Len(rd.dst) + Len(fill') < rd.size
    <3>1. ~(Len(rd.dst) + Len(fill') >= rd.size)
      BY <1>3 DEF Enough
    <3> QED BY <3>1, <2>4, HostTypes, SMTT(20)
  <2>6. ReadInv'
    BY <1>1, <1>3, <2>5 DEF BaseInv, ReadInv, Reading, BodyLen, IsData
  <2> QED BY <1>1, <1>3, <2>3, <2>4, <2>6, HostTypes, CallBase
<1>4. ASSUME RecvEnds, Abort("io"), UNCHANGED <<rd, buf, fill>>
      PROVE  BaseInv'
  <2>1. "io" \in Codes
    BY DEF Codes
  <2> HIDE DEF Abort
  <2> QED BY <1>1, <1>4, <2>1, AbortBase DEF RecvEnds
<1> QED BY <1>2, <1>3, <1>4 DEF Fill

\* ptp_tcp_read_data: BaseInv holds after each recv.
LEMMA RecvDataBase == ASSUME BaseInv, RecvData PROVE BaseInv'
<1>1. /\ pc = "recv" /\ pc \in Calling /\ pc # "handler"
      /\ UNCHANGED <<phase, conn, cur, ops, buf, fill, get, done>>
  BY DEF RecvData, Calling
<1>2. ASSUME NEW k \in 1..(rd.size - Len(rd.dst)), Recv(k, rd.size - Len(rd.dst)),
             rd' = [rd EXCEPT !.dst = @ \o SubSeq(ins, 1, k)],
             pc' = (IF Len(rd.dst) + k = rd.size THEN "got" ELSE "recv"),
             UNCHANGED <<result, faultAt, outs, cam>>
      PROVE  BaseInv'
  <2>1. /\ rd.size \in Nat /\ rd.dst \in Seq(KnownTok) /\ Len(rd.dst) \in Nat
        /\ rd \in RdType
    BY HostTypes
  <2>2. k \in Nat /\ rd.size - Len(rd.dst) \in Nat /\ k <= rd.size - Len(rd.dst)
    BY <2>1, <1>1 DEF BaseInv, ReadInv
  <2>3. /\ SubSeq(ins, 1, k) \in Seq(KnownTok) /\ Len(SubSeq(ins, 1, k)) = k
        /\ ins' \in Seq(KnownTok)
    BY <1>2, <2>2, RecvFacts
  <2>4. /\ rd'.dst \in Seq(KnownTok) /\ Len(rd'.dst) = Len(rd.dst) + k
        /\ rd' \in RdType
        /\ rd'.part = rd.part /\ rd'.hdr = rd.hdr /\ rd'.size = rd.size
    <3> DEFINE t == SubSeq(ins, 1, k)
    <3>1. rd' = [rd EXCEPT !.dst = rd.dst \o t] /\ t \in Seq(KnownTok) /\ Len(t) = k
      BY <1>2, <2>3
    <3> HIDE DEF t
    <3>2. rd.dst \o t \in Seq(KnownTok) /\ Len(rd.dst \o t) = Len(rd.dst) + Len(t)
      BY <2>1, <3>1, ConcatProperties
    <3>3. rd'.dst = rd.dst \o t
      BY <2>1, <3>1 DEF RdType
    <3>4. rd' \in RdType /\ rd'.part = rd.part /\ rd'.hdr = rd.hdr /\ rd'.size = rd.size
      BY <2>1, <3>1, <3>2 DEF RdType
    <3> QED BY <3>1, <3>2, <3>3, <3>4
  <2>5. pc' \in {"got", "recv"} /\ (pc' = "got" => Len(rd'.dst) = rd.size)
        /\ (pc' = "recv" => Len(rd'.dst) < rd.size)
    BY <1>2, <2>1, <2>2, <2>4
  <2>6. /\ rd.part = "hdr" => rd.size = 1
        /\ rd.part = "body" => rd.size = BodyLen(rd.hdr)
        /\ rd.part = "pay" => /\ rd.size <= get.left
                              /\ cur.op.block # 0 => rd.size + Len(get.blk) <= cur.op.block
        /\ cur.op.block # 0 => Len(get.blk) < cur.op.block
        /\ buf.data = <<>> /\ fill = <<>> /\ buf = Empty
    BY <1>1 DEF BaseInv, ReadInv, Reading
  <2>7. ReadInv'
    BY <1>1, <2>4, <2>5, <2>6 DEF ReadInv, Reading, BodyLen, IsData
  <2>8. pc' \in Calling
    BY <2>5 DEF Calling
  <2> QED BY <1>1, <1>2, <2>3, <2>4, <2>7, <2>8, HostTypes, CallBase
<1>3. ASSUME RecvEnds, Abort("io"), UNCHANGED rd
      PROVE  BaseInv'
  <2>1. "io" \in Codes
    BY DEF Codes
  <2> HIDE DEF Abort
  <2> QED BY <1>1, <1>3, <2>1, AbortBase DEF RecvEnds
<1> QED BY <1>2, <1>3 DEF RecvData

\* Messages of which the requests are of operations there are.
Sendable(o, n) ==
    o \in Seq(Token) /\ \A i \in 1..Len(o) : o[i].k = "req" => o[i].id < n

\* They stay so with one more of that kind.
LEMMA SendMore ==
    ASSUME NEW n, NEW o, Sendable(o, n), NEW t \in Token, t.k = "req" => t.id < n
    PROVE  Sendable(Append(o, t), n) /\ Sendable(o \o <<t>>, n)
<1>1. o \in Seq(Token) /\ Len(o) \in Nat
  BY LenProperties DEF Sendable
<1>2. /\ Append(o, t) \in Seq(Token) /\ Len(Append(o, t)) = Len(o) + 1
      /\ \A j \in 1..Len(o) : Append(o, t)[j] = o[j]
      /\ Append(o, t)[Len(o) + 1] = t
  BY <1>1, AppendProperties
<1>3. \A j \in 1..Len(o) + 1 : j \in 1..Len(o) \/ j = Len(o) + 1
  BY <1>1
<1>4. Sendable(Append(o, t), n)
  BY <1>2, <1>3 DEF Sendable
<1>5. o \o <<t>> = Append(o, t)
  BY <1>1, AppendIsConcat
<1> QED BY <1>4, <1>5

\* What a write leaves in the stream to the camera.
LEMMA SendsBase ==
    ASSUME BaseInv, NEW t \in Token, t.k = "req" => t.id < Len(ops), Sends(t)
    PROVE  Sendable(outs', Len(ops))
<1>1. Sendable(outs, Len(ops))
  BY HostTypes DEF Sendable
<1>2. CASE outs' = outs
  BY <1>1, <1>2
<1>3. CASE outs' = Append(outs, t)
  BY <1>1, <1>3, SendMore
<1> QED BY <1>2, <1>3 DEF Sends

\* What reads rely on, between two reads of a transaction.
LEMMA NoReadInv ==
    ASSUME BaseInv, pc \in Calling, pc # "handler",
           pc' \in {"senddata", "handler"}, UNCHANGED <<cur, get, buf>>
    PROVE  ReadInv'
  BY DEF BaseInv, ReadInv, Reading, Calling

\* The request is sent: BaseInv is kept.
LEMMA SendReqBase == ASSUME BaseInv, SendReq PROVE BaseInv'
<1>1. /\ pc \in Calling /\ pc # "handler"
      /\ UNCHANGED <<phase, conn, cur, ops, get, ins, cam, done>>
  BY DEF SendReq, Calling
<1>2. /\ Tok("req", cur.id, 0) \in Token /\ Tok("part", cur.id, 0) \in Token
      /\ Tok("req", cur.id, 0).id = cur.id /\ Tok("part", cur.id, 0).id = cur.id
  BY HostTypes DEF Tok, Token, Kinds
<1>5. cur.id < Len(ops)
  <2>1. Len(ops) = cur.id + 1
    BY <1>1 DEF BaseInv, CallInv
  <2>2. cur.id \in Nat
    BY HostTypes
  <2> QED BY <2>1, <2>2
<1>3. ASSUME NEW t \in {Tok("req", cur.id, 0), Tok("part", cur.id, 0)}, Sends(t),
             faultAt' \in {faultAt, conn.n}, AfterSend, UNCHANGED result
      PROVE  BaseInv'
  <2>1. t \in Token /\ t.id < Len(ops)
    BY <1>2, <1>5
  <2>2. /\ outs' \in Seq(Token)
        /\ \A i \in 1..Len(outs') : outs'[i].k = "req" => outs'[i].id < Len(ops)
    BY <1>3, <2>1, SendsBase DEF Sendable
  <2>3. cur'.op.block # 0 => Len(get'.blk) < cur'.op.block
    BY <1>1, BlockRoom
  <2>4. /\ pc' \in Calling /\ rd' \in RdType /\ buf' \in BufType
        /\ fill' \in Seq(KnownTok) /\ ReadInv' /\ (buf'.data = <<>> => buf' = Empty)
    <3>1. CASE pc' = "senddata" /\ UNCHANGED <<rd, buf, fill>>
      <4>1. pc' \in Calling
        BY <3>1 DEF Calling
      <4>2. ReadInv'
        BY <1>1, <3>1, NoReadInv
      <4> QED BY <3>1, <4>1, <4>2, HostTypes
    <3>2. CASE ReadControl("start") \/ ReadControl("resp")
      <4> HIDE DEF ReadControl
      <4> QED BY <3>2, <2>3, ReadControlBase
    <3> QED BY <1>3, <3>1, <3>2 DEF AfterSend
  <2> QED BY <1>1, <1>3, <2>2, <2>4, HostTypes, CallBase
<1>4. ASSUME Abort("io"), UNCHANGED <<outs, rd, buf, fill>>
      PROVE  BaseInv'
  <2>1. "io" \in Codes
    BY DEF Codes
  <2>2. fill' = fill
    BY <1>4
  <2> HIDE DEF Abort
  <2> QED BY <1>1, <1>4, <2>1, <2>2, AbortBase
<1> QED BY <1>3, <1>4 DEF SendReq

\* The writes of the data phase: BaseInv is kept.
LEMMA SendDataBase == ASSUME BaseInv, SendData PROVE BaseInv'
<1>1. /\ pc \in Calling /\ pc # "handler"
      /\ UNCHANGED <<phase, conn, cur, ops, get, ins, cam, done>>
  BY DEF SendData, Calling
<1>2. PICK sent \in SUBSET (1..4) :
          /\ outs' = IF cam.link
                     THEN outs \o DataPart(1, sent) \o DataPart(2, sent)
                               \o DataPart(3, sent) \o DataPart(4, sent)
                     ELSE outs
          /\ IF 4 \in sent
             THEN /\ ReadControl("resp")
                  /\ faultAt' = IF sent = 1..4 THEN faultAt ELSE conn.n
                  /\ UNCHANGED result
             ELSE Abort("io") /\ UNCHANGED <<rd, buf, fill>>
  BY DEF SendData
<1>3. ASSUME NEW o, Sendable(o, Len(ops)), NEW i \in 1..4
      PROVE  Sendable(o \o DataPart(i, sent), Len(ops))
  <2>1. CASE DataPart(i, sent) = <<>>
    <3>1. o \in Seq(Token)
      BY <1>3 DEF Sendable
    <3>2. o \o DataPart(i, sent) = o
      BY <3>1, <2>1, ConcatEmptySeq
    <3> QED BY <1>3, <3>2
  <2>2. CASE DataPart(i, sent) = <<Tok(DataParts[i], cur.id, cur.op.size)>>
    <3> DEFINE t == Tok(DataParts[i], cur.id, cur.op.size)
    <3>1. t \in Token /\ t.k # "req"
      <4>1. cur.id \in Nat /\ cur.op.size \in Nat
        BY HostTypes
      <4>2. DataParts[i] \in {"start", "data", "pay", "end"}
        BY DEF DataParts
      <4> QED BY <4>1, <4>2 DEF Tok, Token, Kinds
    <3>2. DataPart(i, sent) = <<t>>
      BY <2>2
    <3> HIDE DEF t
    <3>3. Sendable(o \o <<t>>, Len(ops))
      BY <1>3, <3>1, SendMore
    <3> QED BY <3>2, <3>3
  <2> QED BY <2>1, <2>2 DEF DataPart
<1>4. Sendable(outs, Len(ops))
  BY HostTypes DEF Sendable
<1>5. Sendable(outs', Len(ops))
  <2>1. Sendable(outs \o DataPart(1, sent), Len(ops))
    BY <1>3, <1>4
  <2>2. Sendable(outs \o DataPart(1, sent) \o DataPart(2, sent), Len(ops))
    BY <1>3, <2>1
  <2>3. Sendable(outs \o DataPart(1, sent) \o DataPart(2, sent) \o DataPart(3, sent), Len(ops))
    BY <1>3, <2>2
  <2>4. Sendable(outs \o DataPart(1, sent) \o DataPart(2, sent) \o DataPart(3, sent)
                      \o DataPart(4, sent), Len(ops))
    BY <1>3, <2>3
  <2> QED BY <1>2, <1>4, <2>4
<1>6. /\ outs' \in Seq(Token)
      /\ \A i \in 1..Len(outs') : outs'[i].k = "req" => outs'[i].id < Len(ops)
  BY <1>5 DEF Sendable
<1>7. CASE ReadControl("resp") /\ faultAt' \in {faultAt, conn.n} /\ UNCHANGED result
  <2>1. cur'.op.block # 0 => Len(get'.blk) < cur'.op.block
    BY <1>1, BlockRoom
  <2> HIDE DEF ReadControl
  <2>2. /\ pc' \in Calling /\ rd' \in RdType /\ buf' \in BufType
        /\ fill' \in Seq(KnownTok) /\ ReadInv' /\ (buf'.data = <<>> => buf' = Empty)
    BY <1>7, <2>1, ReadControlBase
  <2> QED BY <1>1, <1>6, <1>7, <2>2, HostTypes, CallBase
<1>8. CASE Abort("io") /\ UNCHANGED <<rd, buf, fill>>
  <2>1. Finish("io", cur.id) /\ faultAt' = conn.n /\ "io" \in Codes
    BY <1>8 DEF Abort, Codes
  <2>2. \E rc \in Codes, from \in Nat : Finish(rc, from)
    BY <2>1, HostTypes
  <2>3. pc' \notin Calling
    <3>1. phase \in {"open", "info", "use", "close"}
      BY DEF BaseInv, TypeOK
    <3> QED BY <2>1, <3>1 DEF Finish, Calling
  <2> HIDE DEF Finish, Abort
  <2> QED BY <1>1, <1>6, <1>8, <2>1, <2>2, <2>3, HostTypes, CallBase
<1> QED BY <1>2, <1>7, <1>8

\* A step of the host within a transaction that fails nothing.
LEMMA StepBase ==
    ASSUME BaseInv, pc \in Calling,
           UNCHANGED <<phase, conn, cur, ops, faultAt, result, net>>,
           get' \in GetType,
           pc' \in Calling, rd' \in RdType, buf' \in BufType, fill' \in Seq(KnownTok),
           ReadInv', buf'.data = <<>> => buf' = Empty
    PROVE  BaseInv'
<1>1. /\ UNCHANGED <<phase, conn, cur, ops, done, cam, outs, ins>>
      /\ faultAt' = faultAt /\ cam' = cam /\ result' = result
  BY DEF net
<1>2. /\ outs' \in Seq(Token) /\ ins' \in Seq(KnownTok)
      /\ \A i \in 1..Len(outs') : outs'[i].k = "req" => outs'[i].id < Len(ops)
  BY <1>1, HostTypes
<1> QED BY <1>1, <1>2, CallBase

\* What was read of a header or of a body.
LEMMA GotFacts ==
    ASSUME BaseInv, pc = "got"
    PROVE  /\ pc \in Calling /\ pc # "handler" /\ fill = <<>>
           /\ \A i \in 1..rd.size : rd.dst[i] \in KnownTok
           /\ rd.part = "hdr" => rd.size = 1
           /\ rd.part = "body" => rd.size = BodyLen(rd.hdr)
<1>1. Len(rd.dst) = rd.size /\ fill = <<>> /\ pc \in Reading
  BY DEF BaseInv, ReadInv, Reading
<1>2. rd.dst \in Seq(KnownTok)
  BY HostTypes
<1>3. \A i \in 1..rd.size : rd.dst[i] \in KnownTok
  BY <1>1, <1>2, ElementOfSeq
<1> QED BY <1>1, <1>3 DEF BaseInv, ReadInv, Calling, Reading

\* A header has come: BaseInv is kept.
LEMMA HeaderBase == ASSUME BaseInv, Header PROVE BaseInv'
<1>1. /\ pc = "got" /\ rd.part = "hdr" /\ UNCHANGED <<phase, conn, cur, ops, get, net>>
  BY DEF Header
<1> DEFINE h == rd.dst[1]
<1>2. /\ pc \in Calling /\ pc # "handler" /\ h \in KnownTok
      /\ rd.want \in {"none", "start", "data", "end", "resp"}
  BY <1>1, GotFacts, HostTypes
<1>3. BodyLen(h) \in Nat
  BY <1>2 DEF BodyLen, KnownTok, Known, Token
<1>4. cur'.op.block # 0 => Len(get'.blk) < cur'.op.block
  BY <1>1, <1>2, BlockRoom
<1>5. CASE StartRead("body", rd.want, h, BodyLen(h)) /\ UNCHANGED <<result, faultAt>>
  <2> HIDE DEF StartRead, h
  <2>1. /\ pc' \in Calling /\ rd' \in RdType /\ buf' \in BufType
        /\ fill' \in Seq(KnownTok) /\ ReadInv' /\ (buf'.data = <<>> => buf' = Empty)
    BY <1>2, <1>3, <1>4, <1>5, StartReadBase
  <2>2. get' \in GetType
    BY <1>1, HostTypes
  <2> QED BY <1>1, <1>2, <1>5, <2>1, <2>2, StepBase
<1>6. CASE Abort("badparam") /\ UNCHANGED <<rd, buf, fill>>
  <2>1. "badparam" \in Codes
    BY DEF Codes
  <2> HIDE DEF Abort
  <2> QED BY <1>1, <1>2, <1>6, <2>1, AbortBase DEF net
<1> QED BY <1>5, <1>6 DEF Header

\* The data phase starts: BaseInv is kept.
LEMMA StartDataBase == ASSUME BaseInv, StartData PROVE BaseInv'
<1>1. /\ pc = "got" /\ rd.part = "body" /\ UNCHANGED <<phase, conn, cur, ops, net>>
      /\ pc \in Calling /\ pc # "handler" /\ rd.size = BodyLen(rd.hdr)
  BY GotFacts DEF StartData
<1>2. CASE /\ rd.hdr.k = "start" /\ get' = [get EXCEPT !.total = rd.dst[1].n]
           /\ ReadControl("data") /\ UNCHANGED <<result, faultAt>>
  <2>1. rd.size > 0
    BY <1>1, <1>2, HostTypes DEF BodyLen, IsData, KnownTok, Known
  <2>2. rd.dst[1].n \in Nat
    <3>1. rd.dst[1] \in KnownTok
      BY <1>1, <2>1, GotFacts, HostTypes
    <3> QED BY <3>1 DEF KnownTok, Known, Token
  <2>3. get' \in GetType /\ get'.blk = get.blk
    BY <1>2, <2>2, HostTypes DEF GetType
  <2>4. cur'.op.block # 0 => Len(get'.blk) < cur'.op.block
    BY <1>1, <2>3, BlockRoom
  <2> HIDE DEF ReadControl
  <2>5. /\ pc' \in Calling /\ rd' \in RdType /\ buf' \in BufType
        /\ fill' \in Seq(KnownTok) /\ ReadInv' /\ (buf'.data = <<>> => buf' = Empty)
    BY <1>2, <2>4, ReadControlBase
  <2> QED BY <1>1, <1>2, <2>3, <2>5, StepBase
<1>3. CASE Finish("dataexpected", cur.id) /\ UNCHANGED <<get, faultAt, rd, buf, fill>>
  <2>1. /\ "dataexpected" \in Codes /\ cur.id \in Nat /\ ins' \in Seq(KnownTok)
        /\ rd' \in RdType /\ buf' \in BufType /\ fill' \in Seq(KnownTok)
        /\ buf'.data = <<>> => buf' = Empty
    BY <1>1, <1>3, HostTypes DEF Codes, net
  <2>2. UNCHANGED <<phase, conn, cur, ops, done, get>> /\ cam' = cam /\ outs' = outs
        /\ faultAt' = faultAt
    BY <1>1, <1>3 DEF net
  <2> HIDE DEF Finish
  <2> QED BY <1>1, <1>3, <2>1, <2>2, EndBase
<1>4. CASE Abort("badparam") /\ UNCHANGED <<get, rd, buf, fill>>
  <2>1. "badparam" \in Codes
    BY DEF Codes
  <2> HIDE DEF Abort
  <2> QED BY <1>1, <1>4, <2>1, AbortBase DEF net
<1> QED BY <1>2, <1>3, <1>4 DEF StartData

\* A data packet starts: BaseInv is kept.
LEMMA DataStartsBase == ASSUME BaseInv, DataStarts PROVE BaseInv'
<1>1. /\ pc = "got" /\ UNCHANGED <<phase, conn, cur, ops, net>>
      /\ pc \in Calling /\ pc # "handler"
  BY GotFacts DEF DataStarts
<1>2. CASE /\ IsData(rd.hdr) /\ GoOn(get') /\ UNCHANGED <<result, faultAt>>
           /\ get' = [get EXCEPT !.left = rd.hdr.n - 1, !.end = @ \/ rd.hdr.k = "end"]
  <2>1. rd.hdr.n \in Nat /\ rd.hdr.n > 0
    <3>1. rd.hdr \in KnownTok /\ rd.hdr.k \in {"data", "end"}
      BY <1>2, HostTypes DEF IsData
    <3> QED BY <3>1 DEF KnownTok, Known, Token
  <2>2. get' \in GetType /\ get'.blk = get.blk
    <3> DEFINE l == rd.hdr.n - 1
               e == get.end \/ rd.hdr.k = "end"
    <3>1. l \in Nat /\ e \in BOOLEAN /\ get \in GetType
      <4>1. l \in Nat
        BY <2>1
      <4>2. get \in GetType
        BY HostTypes
      <4>3. e \in BOOLEAN
        BY Zenon
      <4> QED BY <4>1, <4>2, <4>3
    <3>2. get' = [get EXCEPT !.left = l, !.end = e]
      BY <1>2
    <3> HIDE DEF l, e
    <3> QED BY <3>1, <3>2 DEF GetType
  <2>3. cur.op.block # 0 => Len(get'.blk) < cur.op.block
    BY <1>1, <2>2, BlockRoom
  <2> HIDE DEF GoOn
  <2> DEFINE g == get'
  <2>4. /\ g \in GetType /\ GoOn(g) /\ g.left = get'.left /\ g.blk = get'.blk
        /\ cur.op.block # 0 => Len(g.blk) < cur.op.block
    BY <1>2, <2>2, <2>3
  <2> HIDE DEF g
  <2>5. /\ pc' \in Calling /\ rd' \in RdType /\ buf' \in BufType
        /\ fill' \in Seq(KnownTok) /\ ReadInv' /\ (buf'.data = <<>> => buf' = Empty)
    BY <1>1, <2>2, <2>4, GoOnBase
  <2> QED BY <1>1, <1>2, <2>2, <2>5, StepBase
<1>3. CASE Abort("dataexpected") /\ UNCHANGED <<get, rd, buf, fill>>
  <2>1. "dataexpected" \in Codes
    BY DEF Codes
  <2> HIDE DEF Abort
  <2> QED BY <1>1, <1>3, <2>1, AbortBase DEF net
<1> QED BY <1>2, <1>3 DEF DataStarts

\* Payload has come: BaseInv is kept.
LEMMA PayReadBase == ASSUME BaseInv, PayRead PROVE BaseInv'
<1>1. /\ pc = "got" /\ rd.part = "pay"
      /\ UNCHANGED <<phase, conn, cur, ops, result, faultAt, net>>
      /\ pc \in Calling /\ pc # "handler"
  BY GotFacts DEF PayRead
<1> DEFINE g == [get EXCEPT !.left = @ - rd.size, !.read = @ + rd.size]
<1>2. /\ rd.size <= get.left /\ Len(rd.dst) = rd.size
      /\ cur.op.block # 0 => rd.size + Len(get.blk) <= cur.op.block
  BY <1>1 DEF BaseInv, ReadInv, Reading
<1>3. /\ get.left \in Nat /\ get.read \in Nat /\ rd.size \in Nat /\ Len(get.blk) \in Nat
      /\ get.blk \in Seq(Token) /\ get.data \in Seq(Token) /\ rd.dst \in Seq(Token)
      /\ get \in GetType /\ cur.op.block \in Nat
  BY HostTypes, KnownTokens
<1>4. get.left - rd.size \in Nat /\ get.read + rd.size \in Nat
  BY <1>2, <1>3
<1>5. g \in GetType /\ g.blk = get.blk /\ g.data = get.data
  BY <1>3, <1>4 DEF GetType
<1>6. CASE cur.op.block = 0
  <2>1. get' = [g EXCEPT !.data = @ \o rd.dst] /\ GoOn(g)
    BY <1>6 DEF PayRead
  <2>2. get.data \o rd.dst \in Seq(Token)
    BY <1>3, ConcatProperties
  <2> HIDE DEF GoOn, g
  <2>3. get' \in GetType /\ get'.left = g.left /\ get'.blk = g.blk
    BY <1>5, <2>1, <2>2 DEF GetType
  <2>4. /\ pc' \in Calling /\ rd' \in RdType /\ buf' \in BufType
        /\ fill' \in Seq(KnownTok) /\ ReadInv' /\ (buf'.data = <<>> => buf' = Empty)
    BY <1>1, <1>5, <1>6, <2>1, <2>3, GoOnBase
  <2> QED BY <1>1, <2>3, <2>4, StepBase
<1>7. CASE cur.op.block # 0
  <2>1. /\ get' = [g EXCEPT !.blk = @ \o rd.dst]
        /\ IF Len(get'.blk) = cur.op.block
           THEN pc' = "handler" /\ UNCHANGED <<rd, buf, fill>>
           ELSE GoOn(get')
    BY <1>7 DEF PayRead
  <2>2. get.blk \o rd.dst \in Seq(Token) /\ Len(get.blk \o rd.dst) = Len(get.blk) + Len(rd.dst)
    BY <1>3, ConcatProperties
  <2> HIDE DEF GoOn, g
  <2>3. get' \in GetType /\ get'.blk = get.blk \o rd.dst
    BY <1>5, <2>1, <2>2 DEF GetType
  <2>4. Len(get'.blk) <= cur.op.block
    <3>1. Len(get'.blk) = Len(get.blk) + rd.size
      BY <1>2, <2>2, <2>3
    <3> QED BY <1>2, <1>3, <1>7, <3>1
  <2>5. CASE pc' = "handler" /\ UNCHANGED <<rd, buf, fill>>
    <3>1. ReadInv' /\ pc' \in Calling
      BY <2>5, HostTypes DEF ReadInv, Reading, Calling
    <3> QED BY <1>1, <2>3, <2>5, <3>1, HostTypes, StepBase
  <2>6. CASE GoOn(get') /\ Len(get'.blk) # cur.op.block
    <3>1. Len(get'.blk) < cur.op.block
      <4>1. Len(get'.blk) \in Nat
        BY <2>3, LenProperties DEF GetType
      <4> QED BY <1>3, <2>4, <2>6, <4>1
    <3> DEFINE q == get'
    <3>2. /\ q \in GetType /\ GoOn(q) /\ q.left = get'.left /\ q.blk = get'.blk
          /\ cur.op.block # 0 => Len(q.blk) < cur.op.block
      BY <2>3, <2>6, <3>1
    <3> HIDE DEF q
    <3>3. /\ pc' \in Calling /\ rd' \in RdType /\ buf' \in BufType
          /\ fill' \in Seq(KnownTok) /\ ReadInv' /\ (buf'.data = <<>> => buf' = Empty)
      BY <1>1, <2>3, <3>2, GoOnBase
    <3> QED BY <1>1, <2>3, <3>3, StepBase
  <2> QED BY <2>1, <2>5, <2>6
<1> QED BY <1>6, <1>7

\* The handler has a block: BaseInv is kept.
LEMMA HandlerBase == ASSUME BaseInv, Handler PROVE BaseInv'
<1>1. pc = "handler" /\ pc \in Calling /\ UNCHANGED <<phase, conn, cur, ops, net>>
  BY DEF Handler, Calling
<1>2. CASE get' = Flushed /\ GoOn(get') /\ UNCHANGED <<result, faultAt>>
  <2>1. get.data \o get.blk \in Seq(Token) /\ Append(get.blocks, Len(get.blk)) \in Seq(Nat)
    BY HostTypes, ConcatProperties, AppendProperties
  <2>2. get' \in GetType /\ get'.blk = <<>>
    BY <1>2, <2>1, HostTypes, EmptySeq DEF GetType, Flushed
  <2>3. cur.op.block # 0 => Len(get'.blk) < cur.op.block
    BY <2>2, HostTypes, SMTT(20)
  <2> DEFINE q == get'
  <2> HIDE DEF GoOn
  <2>4. /\ q \in GetType /\ GoOn(q) /\ q.left = get'.left /\ q.blk = get'.blk
        /\ cur.op.block # 0 => Len(q.blk) < cur.op.block
    BY <1>2, <2>2, <2>3
  <2> HIDE DEF q
  <2>5. /\ pc' \in Calling /\ rd' \in RdType /\ buf' \in BufType
        /\ fill' \in Seq(KnownTok) /\ ReadInv' /\ (buf'.data = <<>> => buf' = Empty)
    BY <1>1, <2>2, <2>4, GoOnBase
  <2> QED BY <1>1, <1>2, <2>2, <2>5, StepBase
<1>3. CASE Abort("handler") /\ UNCHANGED <<get, rd, buf, fill>>
  <2>1. "handler" \in Codes
    BY DEF Codes
  <2> HIDE DEF Abort
  <2> QED BY <1>1, <1>3, <2>1, AbortBase DEF net
<1> QED BY <1>2, <1>3 DEF Handler

\* The end packet of the data phase: BaseInv is kept.
LEMMA EndDataBase == ASSUME BaseInv, EndData PROVE BaseInv'
<1>1. /\ pc = "got" /\ UNCHANGED <<phase, conn, cur, ops, get, net>>
      /\ pc \in Calling /\ pc # "handler"
  BY GotFacts DEF EndData
<1>2. CASE ReadControl("resp") /\ UNCHANGED <<result, faultAt>>
  <2>1. cur'.op.block # 0 => Len(get'.blk) < cur'.op.block
    BY <1>1, BlockRoom
  <2> HIDE DEF ReadControl
  <2>2. /\ pc' \in Calling /\ rd' \in RdType /\ buf' \in BufType
        /\ fill' \in Seq(KnownTok) /\ ReadInv' /\ (buf'.data = <<>> => buf' = Empty)
    BY <1>2, <2>1, ReadControlBase
  <2>3. get' \in GetType
    BY <1>1, HostTypes
  <2> QED BY <1>1, <1>2, <2>2, <2>3, StepBase
<1>3. CASE Abort("dataexpected") /\ UNCHANGED <<rd, buf, fill>>
  <2>1. "dataexpected" \in Codes
    BY DEF Codes
  <2> HIDE DEF Abort
  <2> QED BY <1>1, <1>3, <2>1, AbortBase DEF net
<1> QED BY <1>2, <1>3 DEF EndData

\* The response has come: BaseInv is kept.
LEMMA ResponseBase == ASSUME BaseInv, Response PROVE BaseInv'
<1>1. /\ pc = "got" /\ UNCHANGED <<phase, conn, cur, ops, buf, rd, fill, get, net>>
      /\ pc \in Calling /\ pc # "handler"
  BY GotFacts DEF Response
<1>2. CASE IsResp(rd.hdr) /\ Finish(Code(rd.hdr), rd.hdr.id) /\ UNCHANGED faultAt
  <2>1. Code(rd.hdr) \in Codes /\ rd.hdr.id \in Nat
    BY <1>2, HostTypes DEF IsResp, Code, Codes, Token
  <2>2. /\ rd' \in RdType /\ buf' \in BufType /\ fill' \in Seq(KnownTok)
        /\ ins' \in Seq(KnownTok) /\ (buf'.data = <<>> => buf' = Empty)
    BY <1>1, HostTypes DEF net
  <2>3. UNCHANGED <<phase, conn, cur, ops, done, get>> /\ cam' = cam /\ outs' = outs
        /\ faultAt' = faultAt
    BY <1>1, <1>2 DEF net
  <2> HIDE DEF Finish, Code
  <2> QED BY <1>1, <1>2, <2>1, <2>2, <2>3, EndBase
<1>3. CASE Abort("respexpected")
  <2>1. "respexpected" \in Codes
    BY DEF Codes
  <2> HIDE DEF Abort
  <2> QED BY <1>1, <1>3, <2>1, AbortBase DEF net
<1> QED BY <1>2, <1>3 DEF Response

-----------------------------------------------------------------------------
(***************************************************************************)
(* BaseInv outside of a transaction, and at the camera.                    *)
(***************************************************************************)
\* A transaction begins: BaseInv is kept.
LEMMA BeginBase ==
    ASSUME BaseInv, pc \notin Calling, conn' \in ConnType, conn'.n = conn.n, conn.n > 0,
           NEW op \in TcpOpType, NEW ph \in {"open", "info", "use", "close"}, Begin(op, ph),
           ph = "open" => op = OpenSession,
           ph = "close" => op = CloseSession,
           ph \in {"info", "use"} => op \in TcpOps \cup {DeviceInfo},
           conn'.connected = (ph # "open"),
           UNCHANGED <<buf, rd, fill, result, faultAt, net>>
    PROVE  BaseInv'
<1>1. /\ ops \in Seq(TcpOpType) /\ Len(ops) \in Nat /\ conn.n \in Nat
  BY LenProperties DEF BaseInv, TypeOK, ConnType
<1>2. /\ cur' = [id |-> Len(ops), op |-> op] /\ ops' = Append(ops, op) /\ phase' = ph
      /\ get' = NoGet /\ pc' = "sendreq"
  BY DEF Begin
<1>3. /\ ops' \in Seq(TcpOpType) /\ Len(ops') = Len(ops) + 1
      /\ ops'[Len(ops) + 1] = op
  BY <1>1, <1>2, AppendProperties
<1>4. UNCHANGED <<outs, ins, cam, done>>
  BY DEF net
<1>5. KnownTok' = Known(Len(ops'), done) /\ KnownTok = Known(Len(ops), done)
  BY <1>4 DEF KnownTok
<1>6. KnownTok \subseteq KnownTok' /\ Seq(KnownTok) \subseteq Seq(KnownTok')
  <2>1. Len(ops') \in Nat /\ Len(ops) <= Len(ops')
    BY <1>1, <1>3
  <2> QED BY <1>1, <1>5, <2>1, KnownGrows
<1>7. TypeOK'
  <2>1. rd' \in RdType'
    BY <1>6 DEF BaseInv, TypeOK, RdType
  <2>2. buf' \in BufType' /\ fill' \in Seq(KnownTok') /\ ins' \in Seq(KnownTok')
    BY <1>4, <1>6 DEF BaseInv, TypeOK, BufType
  <2>3. get' \in GetType /\ cur' \in [id : Nat, op : TcpOpType]
    BY <1>1, <1>2, EmptySeq DEF NoGet, GetType
  <2>4. pc' \in Calling
    BY <1>2 DEF Calling
  <2>5. /\ result' \in ResultType /\ faultAt' \in Nat /\ outs' \in Seq(Token)
        /\ cam' \in CamType /\ done' \in SUBSET Nat
    BY <1>4 DEF BaseInv, TypeOK
  <2> QED BY <1>2, <1>3, <2>1, <2>2, <2>3, <2>4, <2>5 DEF TypeOK
<1>8. CallInv'
  <2>1. /\ faultAt' <= conn'.n
        /\ \A i \in done' : i < Len(ops')
        /\ \A i \in 1..Len(outs') : outs'[i].k = "req" => outs'[i].id < Len(ops')
        /\ cam'.st = "recv" => cam'.id < Len(ops')
    <3>1. \A i \in Nat : i < Len(ops) => i < Len(ops')
      BY <1>1, <1>3
    <3>2. /\ \A i \in done : i \in Nat /\ i < Len(ops)
          /\ \A i \in 1..Len(outs) : outs[i].id \in Nat /\ (outs[i].k = "req" => outs[i].id < Len(ops))
          /\ cam.id \in Nat /\ (cam.st = "recv" => cam.id < Len(ops))
          /\ faultAt <= conn.n
      <4>1. outs \in Seq(Token)
        BY DEF BaseInv, TypeOK
      <4>2. \A i \in 1..Len(outs) : outs[i].id \in Nat
        <5>1. \A i \in 1..Len(outs) : outs[i] \in Token
          BY <4>1, ElementOfSeq
        <5> QED BY <5>1 DEF Token
      <4>3. /\ \A i \in done : i < Len(ops)
            /\ \A i \in 1..Len(outs) : outs[i].k = "req" => outs[i].id < Len(ops)
            /\ cam.st = "recv" => cam.id < Len(ops)
            /\ faultAt <= conn.n
        BY DEF BaseInv, CallInv
      <4>4. cam.id \in Nat /\ \A i \in done : i \in Nat
        BY DEF BaseInv, TypeOK, CamType
      <4> QED BY <4>2, <4>3, <4>4
    <3> QED BY <1>4, <3>1, <3>2
  <2>2. Len(ops') = cur'.id + 1 /\ ops'[cur'.id + 1] = cur'.op /\ conn'.n > 0
    BY <1>2, <1>3
  <2>3. /\ phase' = "open" => cur'.op = OpenSession
        /\ phase' = "close" => cur'.op = CloseSession
        /\ phase' \in {"info", "use"} => cur'.op \in TcpOps \cup {DeviceInfo}
        /\ phase' \in {"info", "use", "close"} => conn'.connected
        /\ phase' = "open" => ~conn'.connected
    BY <1>2
  <2>4. pc' \notin {"down", "initcmd", "ack", "event", "opened", "idle", "closing", "failed"}
    BY <1>2
  <2> QED BY <2>1, <2>2, <2>3, <2>4 DEF CallInv
<1>9. ReadInv'
  <2>1. buf.data = <<>> => buf = Empty
    BY DEF BaseInv, ReadInv
  <2>2. cur'.op.block # 0 => Len(get'.blk) < cur'.op.block
    <3>1. get'.blk = <<>> /\ cur'.op.block \in Nat
      BY <1>2 DEF NoGet, TcpOpType
    <3> QED BY <3>1
  <2> QED BY <1>2, <2>1, <2>2 DEF ReadInv, Reading
<1> QED BY <1>7, <1>8, <1>9 DEF BaseInv

\* The operations of init_ptp_tcp and close_camera_tcp are operations.
LEMMA OwnOps == OpenSession \in TcpOpType /\ DeviceInfo \in TcpOpType /\ CloseSession \in TcpOpType
  BY DEF OpenSession, DeviceInfo, CloseSession, TcpOpType

\* A caller starts a transaction: BaseInv is kept.
LEMMA TransactionBase == ASSUME BaseInv, NEW op \in TcpOps, Transaction(op) PROVE BaseInv'
<1>1. /\ pc = "idle" /\ Begin(op, "use")
      /\ UNCHANGED <<conn, buf, rd, fill, result, faultAt, net>>
  BY DEF Transaction
<1>2. /\ pc \notin Calling /\ conn' = conn /\ conn \in ConnType /\ conn.n > 0 /\ conn.connected
      /\ op \in TcpOpType
  BY <1>1, TcpAssumption DEF BaseInv, TypeOK, CallInv, Calling
<1>3. conn' \in ConnType /\ conn'.n = conn.n /\ conn'.connected = ("use" # "open")
  BY <1>2 DEF ConnType
<1> HIDE DEF Begin
<1> QED BY <1>1, <1>2, <1>3, BeginBase

\* The session was opened: BaseInv is kept.
LEMMA OpenedBase == ASSUME BaseInv, Opened PROVE BaseInv'
<1>1. /\ pc = "opened" /\ conn' = [conn EXCEPT !.connected = TRUE] /\ Begin(DeviceInfo, "info")
      /\ UNCHANGED <<buf, rd, fill, result, faultAt, net>>
  BY DEF Opened, ConnectedBy
<1>2. /\ pc \notin Calling /\ conn \in ConnType /\ conn.n > 0
  BY <1>1 DEF BaseInv, TypeOK, CallInv, Calling
<1>3. conn' \in ConnType /\ conn'.n = conn.n /\ conn'.connected = ("info" # "open")
  BY <1>1, <1>2 DEF ConnType
<1> HIDE DEF Begin
<1> QED BY <1>1, <1>2, <1>3, OwnOps, BeginBase

\* A step that only moves the connection on keeps BaseInv.
LEMMA ConnBase ==
    ASSUME BaseInv, pc \notin Calling,
           UNCHANGED <<phase, cur, ops, rd, fill, get, result, faultAt, done>>,
           pc' \in {"down", "initcmd", "ack", "event", "failed", "opened", "idle", "closing"},
           buf' \in {buf, Empty}, conn' \in ConnType, conn'.n >= conn.n,
           outs' \in Seq(Token),
           \A i \in 1..Len(outs') : outs'[i].k = "req" => outs'[i].id < Len(ops),
           ins' \in Seq(KnownTok), cam' \in CamType,
           cam'.st = "recv" => cam'.id < Len(ops),
           pc' # "down" => conn'.n > 0,
           pc' = "idle" => conn'.connected,
           pc' \in {"down", "initcmd", "ack", "event", "opened"} => ~conn'.connected,
           pc' = "down" => ~conn'.cmd /\ ~conn'.ev /\ ~conn'.ai
    PROVE  BaseInv'
<1>1. KnownTok' = KnownTok /\ RdType' = RdType /\ BufType' = BufType
  BY DEF KnownTok, RdType, BufType
<1>2. TypeOK'
  <2>1. buf' \in BufType
    <3>1. Empty \in BufType
      BY EmptySeq DEF Empty, BufType
    <3> QED BY <3>1 DEF BaseInv, TypeOK
  <2>2. pc' \in Calling \cup {"down", "initcmd", "ack", "event", "failed", "opened",
                            "idle", "closing"}
    OBVIOUS
  <2>3. /\ phase' \in {"open", "info", "use", "close"} /\ cur' \in [id : Nat, op : TcpOpType]
        /\ ops' \in Seq(TcpOpType) /\ done' \in SUBSET Nat /\ fill' \in Seq(KnownTok)
        /\ rd' \in RdType /\ get' \in GetType /\ result' \in ResultType /\ faultAt' \in Nat
    BY DEF BaseInv, TypeOK
  <2> QED BY <1>1, <2>1, <2>2, <2>3 DEF TypeOK
<1>3. pc' \notin Calling /\ pc' \notin Reading
  BY DEF Calling, Reading
<1>4. CallInv'
  <2>1. faultAt' <= conn'.n
    <3>1. faultAt \in Nat /\ conn.n \in Nat /\ faultAt <= conn.n
      BY HostTypes DEF BaseInv, CallInv
    <3>2. conn'.n \in Nat
      BY DEF ConnType
    <3> QED BY <3>1, <3>2
  <2>2. \A i \in done' : i < Len(ops')
    BY DEF BaseInv, CallInv
  <2> QED BY <1>3, <2>1, <2>2 DEF CallInv
<1>5. ReadInv'
  <2>1. buf'.data = <<>> => buf' = Empty
    BY DEF BaseInv, ReadInv, Empty
  <2>2. pc' \notin {"fill", "recv", "got"}
    BY <1>3 DEF Reading
  <2> QED BY <1>3, <2>1, <2>2 DEF ReadInv
<1> QED BY <1>2, <1>4, <1>5 DEF BaseInv

\* A socket is opened, and its number stored in ptp_cs.
LEMMA OpensConn ==
    ASSUME NEW c \in ConnType, NEW s \in {"cmd", "ev"}
    PROVE  /\ Opens(c, s) \in ConnType /\ Opens(c, s).n = c.n
           /\ Opens(c, s).connected = c.connected
           /\ Opens(c, s).open = c.open \cup {<<s, c.n>>}
           /\ Opens(c, s).refused = c.refused
           /\ s = "cmd" => Opens(c, s).cmd /\ Opens(c, s).ev = c.ev
           /\ s = "ev" => Opens(c, s).ev /\ Opens(c, s).cmd = c.cmd
<1>1. <<s, c.n>> \in {"cmd", "ev"} \X Nat
  BY DEF ConnType
<1>2. c.open \cup {<<s, c.n>>} \in SUBSET ({"cmd", "ev"} \X Nat)
  BY <1>1 DEF ConnType
<1>3. CASE s = "cmd"
  BY <1>2, <1>3 DEF ConnType, Opens
<1>4. CASE s = "ev"
  BY <1>2, <1>4 DEF ConnType, Opens
<1> QED BY <1>3, <1>4

\* The event socket that did not connect is open, and not in ptp_cs.
LEMMA RefusedConn ==
    ASSUME conn \in ConnType
    PROVE  /\ EventRefused \in ConnType /\ EventRefused.n = conn.n
           /\ EventRefused.connected = conn.connected
           /\ EventRefused.cmd = conn.cmd /\ EventRefused.ev = conn.ev
           /\ EventRefused.open = conn.open \cup {<<"ev", conn.n>>}
           /\ EventRefused.refused = conn.refused \cup {conn.n}
<1>1. <<"ev", conn.n>> \in {"cmd", "ev"} \X Nat /\ conn.n \in Nat
  BY DEF ConnType
<1>2. /\ conn.open \cup {<<"ev", conn.n>>} \in SUBSET ({"cmd", "ev"} \X Nat)
      /\ conn.refused \cup {conn.n} \in SUBSET Nat
  BY <1>1 DEF ConnType
<1> QED BY <1>2 DEF ConnType, EventRefused

\* The sockets of ptp_cs are closed.
LEMMA ReleasedConn ==
    ASSUME conn \in ConnType
    PROVE  /\ Released \in ConnType /\ Released.n = conn.n
           /\ ~Released.connected /\ ~Released.cmd /\ ~Released.ev /\ ~Released.ai
           /\ Released.open = conn.open \ Named(conn) /\ Released.refused = conn.refused
<1>1. conn.open \ Named(conn) \in SUBSET ({"cmd", "ev"} \X Nat)
  BY DEF ConnType
<1> QED BY <1>1 DEF ConnType, Released

\* What Connect makes of the connection.
LEMMA ConnectConn ==
    ASSUME conn \in ConnType, Connect
    PROVE  /\ conn' \in ConnType /\ conn'.n = conn.n + 1 /\ conn'.connected = conn.connected
           /\ conn'.refused = conn.refused
           /\ conn'.ev = conn.ev
           /\ \/ conn'.open = conn.open
              \/ conn'.open = conn.open \cup {<<"cmd", conn'.n>>} /\ conn'.cmd
<1>1. /\ conn.n + 1 \in Nat
      /\ conn' \in {[conn EXCEPT !.n = @ + 1],
                    [conn EXCEPT !.n = @ + 1, !.ai = TRUE],
                    Opens([conn EXCEPT !.n = @ + 1, !.ai = TRUE], "cmd")}
  BY DEF Connect, ConnType
<1>2. CASE conn' = [conn EXCEPT !.n = @ + 1]
  BY <1>1, <1>2 DEF ConnType
<1>3. CASE conn' = [conn EXCEPT !.n = @ + 1, !.ai = TRUE]
  BY <1>1, <1>3 DEF ConnType
<1>4. CASE conn' = Opens([conn EXCEPT !.n = @ + 1, !.ai = TRUE], "cmd")
  <2>1. PICK c : c = [conn EXCEPT !.n = @ + 1, !.ai = TRUE]
    OBVIOUS
  <2>2. /\ c \in ConnType /\ c.n = conn.n + 1 /\ c.connected = conn.connected
        /\ c.refused = conn.refused /\ c.ev = conn.ev /\ c.open = conn.open
    BY <1>1, <2>1 DEF ConnType
  <2> QED BY <1>4, <2>1, <2>2, OpensConn
<1> QED BY <1>1, <1>2, <1>3, <1>4

\* connect_cam_tcp: BaseInv is kept.
LEMMA ConnectBase == ASSUME BaseInv, Connect PROVE BaseInv'
<1>1. /\ pc = "down" /\ buf' = Empty
      /\ pc' = (IF conn'.cmd THEN "initcmd" ELSE "failed")
      /\ outs' = <<>> /\ ins' = <<>>
      /\ cam' = [link |-> conn'.cmd, st |-> "ready", id |-> 0, n |-> 0, session |-> FALSE]
      /\ UNCHANGED <<phase, cur, ops, rd, fill, get, result, faultAt, done>>
  BY DEF Connect, BufAtInit
<1>2. conn \in ConnType /\ ~conn.connected /\ conn.n \in Nat
  BY <1>1 DEF BaseInv, TypeOK, CallInv, ConnType
<1>3. conn' \in ConnType /\ conn'.n = conn.n + 1 /\ ~conn'.connected
  BY <1>2, ConnectConn
<1>4. conn'.n >= conn.n /\ conn'.n > 0
  BY <1>2, <1>3
<1>5. cam' \in CamType /\ cam'.st = "ready"
  BY <1>1, <1>3 DEF CamType, ConnType
<1>6. /\ outs' \in Seq(Token) /\ ins' \in Seq(KnownTok) /\ pc \notin Calling
      /\ \A i \in 1..Len(outs') : outs'[i].k = "req" => outs'[i].id < Len(ops)
  BY <1>1, EmptySeq DEF Calling
<1>7. pc' \in {"initcmd", "failed"}
  BY <1>1
<1> QED BY <1>1, <1>3, <1>4, <1>5, <1>6, <1>7, ConnBase

\* What the steps of a connection that is being made have in common.
LEMMA StartingFacts ==
    ASSUME BaseInv, pc \in {"initcmd", "ack", "event"}
    PROVE  /\ pc \notin Calling /\ conn \in ConnType /\ conn.n > 0 /\ conn.n >= conn.n
           /\ ~conn.connected /\ cam \in CamType
           /\ cam.st = "recv" => cam.id < Len(ops)
<1>1. /\ conn \in ConnType /\ cam \in CamType /\ conn.n \in Nat
      /\ cam.st = "recv" => cam.id < Len(ops)
  BY DEF BaseInv, TypeOK, CallInv, ConnType
<1>2. conn.n >= conn.n
  BY <1>1
<1> QED BY <1>1, <1>2 DEF BaseInv, CallInv, Calling

\* The init request is sent: BaseInv is kept.
LEMMA SendInitBase == ASSUME BaseInv, SendInit PROVE BaseInv'
<1>1. /\ pc = "initcmd" /\ pc' \in {"ack", "failed"}
      /\ UNCHANGED <<phase, conn, cur, ops, buf, rd, fill, get, result, faultAt, ins, cam, done>>
  BY DEF SendInit
<1>2. /\ outs' \in Seq(Token)
      /\ \A i \in 1..Len(outs') : outs'[i].k = "req" => outs'[i].id < Len(ops)
  <2>1. CASE \E k \in {"init", "part"} : Sends(Tok(k, conn.n, 0))
    <3> PICK k \in {"init", "part"} : Sends(Tok(k, conn.n, 0))
      BY <2>1
    <3>1. Tok(k, conn.n, 0) \in Token /\ Tok(k, conn.n, 0).k # "req"
      <4>1. conn.n \in Nat
        BY HostTypes
      <4> QED BY <4>1 DEF Tok, Token, Kinds
    <3>2. Sendable(outs', Len(ops))
      <4> HIDE DEF Sends
      <4> QED BY <3>1, SendsBase
    <3> QED BY <3>2 DEF Sendable
  <2>2. CASE UNCHANGED outs
    BY <2>2, HostTypes
  <2> QED BY <2>1, <2>2 DEF SendInit
<1>3. ins' \in Seq(KnownTok) /\ buf' = buf
  BY <1>1, HostTypes
<1> QED BY <1>1, <1>2, <1>3, StartingFacts, ConnBase

\* The reply to it: BaseInv is kept.
LEMMA InitAckBase == ASSUME BaseInv, InitAck PROVE BaseInv'
<1>1. /\ pc = "ack" /\ pc' \in {"event", "failed"}
      /\ UNCHANGED <<phase, cur, ops, buf, rd, fill, get, result, faultAt, done>>
  BY DEF InitAck
<1>2. /\ pc \notin Calling /\ conn \in ConnType /\ conn.n > 0 /\ conn.n \in Nat /\ ~conn.connected
      /\ cam \in CamType /\ (cam.st = "recv" => cam.id < Len(ops))
  BY <1>1, StartingFacts, HostTypes
<1>3. ins \in Seq(KnownTok) /\ outs \in Seq(Token)
      /\ \A i \in 1..Len(outs) : outs[i].k = "req" => outs[i].id < Len(ops)
  BY HostTypes
<1>4. CASE \E k \in 1..Len(ins) :
            /\ Recv(k, Len(ins))
            /\ IF ins[1].k = "ack"
               THEN /\ conn' = [conn EXCEPT !.id = IF k > 1 THEN ins[2].id ELSE 0]
                    /\ pc' = "event"
               ELSE pc' = "failed" /\ UNCHANGED conn
            /\ UNCHANGED <<outs, cam>>
  <2> PICK k \in 1..Len(ins) :
            /\ Recv(k, Len(ins))
            /\ IF ins[1].k = "ack"
               THEN /\ conn' = [conn EXCEPT !.id = IF k > 1 THEN ins[2].id ELSE 0]
                    /\ pc' = "event"
               ELSE pc' = "failed" /\ UNCHANGED conn
            /\ UNCHANGED <<outs, cam>>
    BY <1>4
  <2>1. Len(ins) \in Nat /\ k \in Nat
    BY <1>3, LenProperties
  <2>2. ins' \in Seq(KnownTok)
    BY <2>1, RecvFacts
  <2>3. k > 1 => ins[2] \in KnownTok
    BY <1>3, <2>1, ElementOfSeq
  <2>4. (IF k > 1 THEN ins[2].id ELSE 0) \in Nat
    BY <2>3 DEF KnownTok, Known, Token
  <2>5. conn' \in ConnType /\ conn'.n = conn.n /\ ~conn'.connected
    BY <1>2, <2>4 DEF ConnType
  <2>6. conn'.n >= conn.n /\ conn'.n > 0
    BY <1>2, <2>5
  <2> QED BY <1>1, <1>2, <1>3, <2>2, <2>5, <2>6, ConnBase
<1>5. CASE pc' = "failed" /\ UNCHANGED <<conn, outs, ins, cam>>
  <2>1. conn'.n >= conn.n /\ conn'.n > 0 /\ conn' \in ConnType
    BY <1>2, <1>5
  <2> QED BY <1>1, <1>2, <1>3, <1>5, <2>1, ConnBase
<1>6. CASE RecvEnds /\ pc' = "failed" /\ UNCHANGED conn
  <2>1. conn'.n >= conn.n /\ conn'.n > 0 /\ conn' \in ConnType
    BY <1>2, <1>6
  <2>2. ins' \in Seq(KnownTok) /\ outs' \in Seq(Token) /\ outs' = <<>>
    BY <1>6, EmptySeq DEF RecvEnds
  <2>3. cam' \in CamType /\ (cam'.st = "recv" => cam'.id < Len(ops))
    BY <1>2, <1>6 DEF RecvEnds, CamType
  <2>4. \A i \in 1..Len(outs') : outs'[i].k = "req" => outs'[i].id < Len(ops)
    BY <2>2
  <2> QED BY <1>1, <1>2, <1>6, <2>1, <2>2, <2>3, <2>4, ConnBase
<1> QED BY <1>4, <1>5, <1>6 DEF InitAck

\* The event channel: BaseInv is kept.
LEMMA EventChannelBase == ASSUME BaseInv, EventChannel PROVE BaseInv'
<1>1. /\ pc = "event" /\ UNCHANGED <<buf, rd, fill, result, faultAt, net>>
  BY DEF EventChannel
<1>2. /\ pc \notin Calling /\ conn \in ConnType /\ conn.n > 0 /\ conn.n \in Nat /\ ~conn.connected
      /\ cam \in CamType /\ (cam.st = "recv" => cam.id < Len(ops))
  BY <1>1, StartingFacts, HostTypes
<1>3. CASE conn' = Opens(conn, "ev") /\ Begin(OpenSession, "open")
  <2>1. /\ conn' \in ConnType /\ conn'.n = conn.n /\ conn'.connected = conn.connected
        /\ conn'.connected \in BOOLEAN /\ ~conn'.connected
    BY <1>2, <1>3, OpensConn DEF ConnType
  <2>2. conn'.connected = ("open" # "open")
    BY <2>1
  <2> HIDE DEF Begin
  <2> QED BY <1>1, <1>2, <1>3, <2>1, <2>2, OwnOps, BeginBase
<1>4. CASE /\ conn' \in {conn, EventRefused, Opens(conn, "ev")}
           /\ pc' = "failed" /\ UNCHANGED <<phase, cur, ops, get>>
  <2>1. conn' \in ConnType /\ conn'.n = conn.n
    BY <1>2, <1>4, OpensConn, RefusedConn
  <2>2. conn'.n >= conn.n /\ conn'.n > 0
    BY <1>2, <2>1
  <2>3. UNCHANGED <<outs, ins, cam, done>>
    BY <1>1 DEF net
  <2>4. ins' \in Seq(KnownTok) /\ outs' \in Seq(Token) /\ outs' = outs
    BY <2>3, HostTypes
  <2>5. \A i \in 1..Len(outs') : outs'[i].k = "req" => outs'[i].id < Len(ops)
    BY <2>4, HostTypes
  <2> QED BY <1>1, <1>2, <1>4, <2>1, <2>2, <2>3, <2>4, <2>5, ConnBase
<1> QED BY <1>3, <1>4 DEF EventChannel

\* close_camera_tcp: BaseInv is kept.
LEMMA CloseBase == ASSUME BaseInv, Close PROVE BaseInv'
<1>1. /\ pc \in {"failed", "idle"} /\ UNCHANGED <<conn, buf, rd, fill, result, faultAt, net>>
  BY DEF Close
<1>2. /\ pc \notin Calling /\ conn \in ConnType /\ conn.n > 0 /\ conn.n \in Nat
      /\ cam \in CamType /\ (cam.st = "recv" => cam.id < Len(ops))
  BY <1>1, HostTypes DEF BaseInv, TypeOK, CallInv, Calling
<1>3. CASE conn.connected /\ Begin(CloseSession, "close")
  <2>1. conn' \in ConnType /\ conn'.n = conn.n /\ conn'.connected = ("close" # "open")
    BY <1>1, <1>2, <1>3 DEF ConnType
  <2> HIDE DEF Begin
  <2> QED BY <1>1, <1>2, <1>3, <2>1, OwnOps, BeginBase
<1>4. CASE pc' = "closing" /\ UNCHANGED <<phase, cur, ops, get>>
  <2>2. conn'.n >= conn.n /\ conn'.n > 0 /\ conn' \in ConnType
    BY <1>1, <1>2
  <2>3. UNCHANGED <<outs, ins, cam, done>>
    BY <1>1 DEF net
  <2>4. ins' \in Seq(KnownTok) /\ outs' \in Seq(Token) /\ outs' = outs
    BY <2>3, HostTypes
  <2>5. \A i \in 1..Len(outs') : outs'[i].k = "req" => outs'[i].id < Len(ops)
    BY <2>4, HostTypes
  <2> QED BY <1>1, <1>2, <1>4, <2>2, <2>3, <2>4, <2>5, ConnBase
<1> QED BY <1>3, <1>4 DEF Close

\* And the close of the sockets.
LEMMA CloseSocketsBase == ASSUME BaseInv, CloseSockets PROVE BaseInv'
<1>1. /\ pc = "closing" /\ pc' = "down" /\ conn' = Released /\ cam' = [cam EXCEPT !.link = FALSE]
      /\ UNCHANGED <<phase, cur, ops, buf, rd, fill, get, result, faultAt, outs, ins, done>>
  BY DEF CloseSockets
<1>2. /\ pc \notin Calling /\ conn \in ConnType /\ conn.n \in Nat
      /\ cam \in CamType /\ (cam.st = "recv" => cam.id < Len(ops))
  BY <1>1, HostTypes DEF BaseInv, TypeOK, CallInv, Calling
<1>3. /\ conn' \in ConnType /\ conn'.n = conn.n /\ ~conn'.connected
      /\ ~conn'.cmd /\ ~conn'.ev /\ ~conn'.ai
  BY <1>1, <1>2, ReleasedConn
<1>4. conn'.n >= conn.n
  BY <1>2, <1>3
<1>5. cam' \in CamType /\ (cam'.st = "recv" => cam'.id < Len(ops))
  BY <1>1, <1>2 DEF CamType
<1>6. /\ ins' \in Seq(KnownTok) /\ outs' \in Seq(Token)
      /\ \A i \in 1..Len(outs') : outs'[i].k = "req" => outs'[i].id < Len(ops)
  BY <1>1, HostTypes
<1> QED BY <1>1, <1>2, <1>3, <1>4, <1>5, <1>6, ConnBase

-----------------------------------------------------------------------------
(***************************************************************************)
(* Packets.                                                                *)
(***************************************************************************)
\* A sequence of one element.
LEMMA OneSeq ==
    ASSUME NEW S, NEW t \in S
    PROVE  <<t>> \in Seq(S) /\ Len(<<t>>) = 1 /\ <<t>>[1] = t
  OBVIOUS

\* The units a to b of the payload.
LEMMA PayToksFacts ==
    ASSUME NEW id \in Nat, NEW a \in Nat, NEW b \in Nat, a <= b + 1, NEW n, NEW ids
    PROVE  /\ PayToks(id, a, b) \in Seq(Known(n, ids))
           /\ Len(PayToks(id, a, b)) = b - a + 1
           /\ \A i \in 1..(b - a + 1) : PayToks(id, a, b)[i] = Pay(id, a + i - 1)
<1>1. b - a + 1 \in Nat
  OBVIOUS
<1>2. \A i \in 1..(b - a + 1) : Tok("pay", id, a + i - 1) \in Known(n, ids)
  <2> TAKE i \in 1..(b - a + 1)
  <2>1. a + i - 1 \in Nat
    BY <1>1
  <2> QED BY <2>1 DEF Tok, Known, Token, Kinds
<1> DEFINE m == b - a + 1
           f(i) == Tok("pay", id, a + i - 1)
<1>3. m \in Nat /\ \A i \in 1..m : f(i) \in Known(n, ids)
  BY <1>1, <1>2
<1>4. PayToks(id, a, b) = [i \in 1..m |-> f(i)] /\ \A i \in 1..m : f(i) = Pay(id, a + i - 1)
  BY DEF PayToks, Pay
<1> HIDE DEF m, f
<1>5. [i \in 1..m |-> f(i)] \in Seq(Known(n, ids))
  BY <1>3, IsASeq
<1>6. Len([i \in 1..m |-> f(i)]) = m
  BY <1>3
<1>7. PayToks(id, a, b) \in Seq(Known(n, ids)) /\ Len(PayToks(id, a, b)) = m
      /\ \A i \in 1..m : PayToks(id, a, b)[i] = Pay(id, a + i - 1)
  BY <1>4, <1>5, <1>6
<1> QED BY <1>7 DEF m

\* A data packet: a header, a transaction id and payload.
LEMMA DataPktFacts ==
    ASSUME NEW k \in {"data", "end"}, NEW id \in Nat, NEW a \in Nat, NEW b \in Nat,
           a <= b + 1, NEW n, NEW ids
    PROVE  /\ DataPkt(k, id, a, b) =
                 <<Tok(k, id, b - a + 2)>> \o (<<Tok("tid", id, 0)>> \o PayToks(id, a, b))
           /\ Tok(k, id, b - a + 2) \in Known(n, ids) /\ Tok("tid", id, 0) \in Known(n, ids)
           /\ DataPkt(k, id, a, b) \in Seq(Known(n, ids))
<1> DEFINE h == Tok(k, id, b - a + 2)
           t == Tok("tid", id, 0)
           p == PayToks(id, a, b)
           S == Known(n, ids)
<1>1. p \in Seq(S) /\ Len(p) = b - a + 1
  BY PayToksFacts
<1>2. t \in S
  BY DEF Tok, Known, Token, Kinds
<1>3. h \in S
  <2>1. b - a + 2 \in Nat /\ b - a + 2 > 0
    OBVIOUS
  <2> QED BY <2>1 DEF Tok, Known, Token, Kinds
<1>4. DataPkt(k, id, a, b) = <<Tok(k, id, Len(<<t>> \o p))>> \o (<<t>> \o p)
  BY DEF DataPkt, TcpPacket
<1>5. b - a + 2 = 1 + (b - a + 1)
  OBVIOUS
<1> HIDE DEF p, S, t
<1>6. <<t>> \in Seq(S) /\ Len(<<t>>) = 1
  BY <1>2, OneSeq
<1>7. <<t>> \o p \in Seq(S) /\ Len(<<t>> \o p) = 1 + Len(p)
  BY <1>1, <1>6, ConcatProperties
<1>8. Tok(k, id, Len(<<t>> \o p)) = h
  BY <1>1, <1>5, <1>7
<1>9. DataPkt(k, id, a, b) = <<h>> \o (<<t>> \o p)
  BY <1>4, <1>8
<1> HIDE DEF h
<1>10. <<h>> \in Seq(S)
  BY <1>3, OneSeq
<1>11. DataPkt(k, id, a, b) \in Seq(S)
  BY <1>7, <1>9, <1>10, ConcatProperties
<1> QED BY <1>2, <1>3, <1>9, <1>11 DEF h, t, p, S

\* A response: a header and the parameters.
Pars(id, par) == [i \in 1..(par + 1) |-> Tok("par", id, i - 1)]

\* A response is these tokens, all of them known where its operation was asked
\* for and, if it is one of success, carried out.
LEMMA RespFacts ==
    ASSUME NEW k \in {"ok", "err"}, NEW id \in Nat, NEW par \in Nat, NEW n \in Nat, NEW ids,
           id < n, k = "ok" => id \in ids
    PROVE  /\ Resp(k, id, par) = <<Tok(k, id, par + 1)>> \o Pars(id, par)
           /\ Tok(k, id, par + 1) \in Known(n, ids)
           /\ Pars(id, par) \in Seq(Known(n, ids)) /\ Len(Pars(id, par)) = par + 1
           /\ Resp(k, id, par) \in Seq(Known(n, ids))
<1> DEFINE S == Known(n, ids)
           h == Tok(k, id, par + 1)
           m == par + 1
           f(i) == Tok("par", id, i - 1)
<1>1. m \in Nat /\ \A i \in 1..m : f(i) \in S
  <2>1. m \in Nat
    OBVIOUS
  <2>2. ASSUME NEW i \in 1..m PROVE f(i) \in S
    <3>1. i - 1 \in Nat
      BY <2>1
    <3> QED BY <3>1 DEF Tok, Known, Token, Kinds
  <2> QED BY <2>1, <2>2
<1>2. h \in S
  BY DEF Tok, Known, Token, Kinds
<1>3. Pars(id, par) = [i \in 1..m |-> f(i)]
  BY DEF Pars
<1> HIDE DEF f, m
<1>4. [i \in 1..m |-> f(i)] \in Seq(S)
  BY <1>1, IsASeq
<1>5. Pars(id, par) \in Seq(S) /\ Len(Pars(id, par)) = m
  BY <1>1, <1>3, <1>4
<1>6. Resp(k, id, par) = <<h>> \o Pars(id, par)
  <2>1. Resp(k, id, par) = <<Tok(k, id, Len(Pars(id, par)))>> \o Pars(id, par)
    BY DEF Resp, TcpPacket, Pars
  <2> QED BY <2>1, <1>5 DEF m
<1> HIDE DEF h, S
<1>7. <<h>> \in Seq(S)
  BY <1>2, OneSeq
<1>8. Resp(k, id, par) \in Seq(S)
  BY <1>5, <1>6, <1>7, ConcatProperties
<1> QED BY <1>2, <1>5, <1>6, <1>8 DEF h, S, m

\* The start of a data phase: a header and the length.
LEMMA StartPktFacts ==
    ASSUME NEW id \in Nat, NEW size \in Nat, NEW n, NEW ids
    PROVE  /\ TcpPacket("start", id, <<Tok("len", id, size)>>) =
                 <<Tok("start", id, 1)>> \o <<Tok("len", id, size)>>
           /\ Tok("start", id, 1) \in Known(n, ids) /\ Tok("len", id, size) \in Known(n, ids)
           /\ TcpPacket("start", id, <<Tok("len", id, size)>>) \in Seq(Known(n, ids))
<1> DEFINE h == Tok("start", id, 1)
           t == Tok("len", id, size)
           S == Known(n, ids)
<1>1. h \in S /\ t \in S
  BY DEF Tok, Known, Token, Kinds
<1>2. TcpPacket("start", id, <<t>>) = <<h>> \o <<t>>
  BY DEF TcpPacket
<1> HIDE DEF h, t, S
<1>3. <<h>> \in Seq(S) /\ <<t>> \in Seq(S)
  BY <1>1, OneSeq
<1>4. <<h>> \o <<t>> \in Seq(S)
  BY <1>3, ConcatProperties
<1> QED BY <1>1, <1>2, <1>4 DEF h, t, S

\* A data phase cut after unit a, with the last unit in the end packet or not.
PhaseOf(id, size, a, e) ==
    TcpPacket("start", id, <<Tok("len", id, size)>>)
    \o (IF a = 0 THEN <<>> ELSE DataPkt("data", id, 1, a))
    \o (IF e THEN DataPkt("end", id, a + 1, size)
        ELSE DataPkt("data", id, a + 1, size) \o DataPkt("end", id, 1, 0))

\* Every data phase is such a one.
LEMMA PhaseShape ==
    ASSUME NEW id, NEW size, NEW d \in DataPhases(id, size)
    PROVE  \E a \in {i \in 0..size : i < size \/ i = 0}, e \in BOOLEAN :
              d = PhaseOf(id, size, a, e)
<1>1. DataPhases(id, size) =
          {PhaseOf(id, size, a, e) : a \in {i \in 0..size : i < size \/ i = 0}, e \in BOOLEAN}
  BY DEF DataPhases, PhaseOf
<1> HIDE DEF PhaseOf
<1> QED BY <1>1

\* Every data phase is made of such packets.
LEMMA DataPhaseTokens ==
    ASSUME NEW id \in Nat, NEW size \in Nat, NEW n, NEW ids, NEW d \in DataPhases(id, size)
    PROVE  d \in Seq(Known(n, ids))
<1> DEFINE S == Known(n, ids)
<1>8. PICK a \in {i \in 0..size : i < size \/ i = 0}, e \in BOOLEAN :
           d = PhaseOf(id, size, a, e)
  BY PhaseShape
<1>1. a \in Nat /\ 1 <= a + 1 /\ a + 1 \in Nat /\ a + 1 <= size + 1 /\ 1 <= 0 + 1
  OBVIOUS
<1>2. TcpPacket("start", id, <<Tok("len", id, size)>>) \in Seq(S)
  BY StartPktFacts
<1>3. DataPkt("data", id, 1, a) \in Seq(S) /\ <<>> \in Seq(S)
  BY <1>1, DataPktFacts, EmptySeq
<1>4. /\ DataPkt("end", id, a + 1, size) \in Seq(S)
      /\ DataPkt("data", id, a + 1, size) \in Seq(S)
      /\ DataPkt("end", id, 1, 0) \in Seq(S)
  BY <1>1, DataPktFacts
<1>5. DataPkt("data", id, a + 1, size) \o DataPkt("end", id, 1, 0) \in Seq(S)
  BY <1>4, ConcatProperties
<1> DEFINE p == TcpPacket("start", id, <<Tok("len", id, size)>>)
           q == IF a = 0 THEN <<>> ELSE DataPkt("data", id, 1, a)
           r == IF e THEN DataPkt("end", id, a + 1, size)
                ELSE DataPkt("data", id, a + 1, size) \o DataPkt("end", id, 1, 0)
<1>6. p \in Seq(S) /\ q \in Seq(S) /\ r \in Seq(S) /\ d = p \o q \o r
  BY <1>2, <1>3, <1>4, <1>5, <1>8 DEF PhaseOf
<1> HIDE DEF p, q, r, S
<1>7. p \o q \in Seq(S)
  BY <1>6, ConcatProperties
<1>9. (p \o q) \o r \in Seq(S)
  BY <1>6, <1>7, ConcatProperties
<1> QED BY <1>6, <1>9 DEF S

\* A step of the camera or the network keeps BaseInv if it keeps the types.
LEMMA NetBase ==
    ASSUME BaseInv, UNCHANGED host, done \subseteq done', done' \in SUBSET Nat,
           \A i \in done' : i < Len(ops), Sendable(outs', Len(ops)),
           ins' \in Seq(Known(Len(ops), done')),
           cam' \in CamType, cam'.st = "recv" => cam'.id < Len(ops)
    PROVE  BaseInv'
<1>1. UNCHANGED <<pc, phase, conn, cur, ops, buf, rd, fill, get, result, faultAt>>
  BY DEF host
<1>2. /\ KnownTok' = Known(Len(ops), done') /\ KnownTok = Known(Len(ops), done)
      /\ Len(ops) \in Nat
  BY <1>1, LenProperties DEF KnownTok, BaseInv, TypeOK
<1>3. KnownTok \subseteq KnownTok' /\ Seq(KnownTok) \subseteq Seq(KnownTok')
  <2>1. Len(ops) <= Len(ops)
    BY <1>2
  <2> QED BY <1>2, <2>1, KnownGrows
<1>4. TypeOK'
  <2>1. rd' \in RdType'
    BY <1>1, <1>3 DEF BaseInv, TypeOK, RdType
  <2>2. buf' \in BufType' /\ fill' \in Seq(KnownTok') /\ ins' \in Seq(KnownTok')
    BY <1>1, <1>2, <1>3 DEF BaseInv, TypeOK, BufType
  <2>3. outs' \in Seq(Token)
    BY DEF Sendable
  <2> QED BY <1>1, <2>1, <2>2, <2>3 DEF BaseInv, TypeOK
<1>5. CallInv'
  <2>1. \A i \in 1..Len(outs') : outs'[i].k = "req" => outs'[i].id < Len(ops)
    BY DEF Sendable
  <2> QED BY <1>1, <2>1 DEF BaseInv, CallInv
<1>6. ReadInv'
  BY <1>1 DEF BaseInv, ReadInv, Reading, BodyLen, IsData
<1> QED BY <1>4, <1>5, <1>6 DEF BaseInv

\* The camera or the network closes the connection: BaseInv is kept.
LEMMA CamCloseBase == ASSUME BaseInv, CamClose PROVE BaseInv'
<1>1. /\ UNCHANGED host /\ outs' = outs /\ ins' = ins /\ done' = done
      /\ cam' = [cam EXCEPT !.link = FALSE]
  BY DEF CamClose
<1>2. /\ cam \in CamType /\ (cam.st = "recv" => cam.id < Len(ops))
      /\ done \in SUBSET Nat /\ \A i \in done : i < Len(ops)
  BY DEF BaseInv, TypeOK, CallInv
<1>3. cam' \in CamType /\ (cam'.st = "recv" => cam'.id < Len(ops))
  BY <1>1, <1>2 DEF CamType
<1>4. Sendable(outs', Len(ops)) /\ ins' \in Seq(Known(Len(ops), done'))
  BY <1>1, HostTypes DEF Sendable, KnownTok
<1> QED BY <1>1, <1>2, <1>3, <1>4, NetBase

\* The camera answers.
LEMMA ReplyBase ==
    ASSUME BaseInv, UNCHANGED host, NEW id \in Nat, id < Len(ops), Reply(id),
           Sendable(outs', Len(ops))
    PROVE  BaseInv'
<1> DEFINE op == ops[id + 1]
<1>1. /\ Len(ops) \in Nat /\ cam \in CamType /\ done \in SUBSET Nat
      /\ ins \in Seq(Known(Len(ops), done)) /\ \A i \in done : i < Len(ops)
      /\ ops \in Seq(TcpOpType)
  BY LenProperties DEF BaseInv, TypeOK, CallInv, KnownTok
<1>2. op \in TcpOpType
  <2>1. id + 1 \in 1..Len(ops)
    BY <1>1
  <2> QED BY <1>1, <2>1, ElementOfSeq
<1>3. op.size \in Nat /\ op.par \in Nat
  BY <1>2 DEF TcpOpType
<1>4. CASE /\ \E d \in IF op.phase = "get" THEN DataPhases(id, op.size) ELSE {<<>>} :
                ins' = ins \o d \o Resp("ok", id, op.par)
           /\ done' = done \cup {id}
           /\ cam' = [cam EXCEPT !.st = "ready", !.n = 0,
                        !.session = CASE op = OpenSession -> TRUE
                                      [] op = CloseSession -> FALSE
                                      [] OTHER -> @]
  <2> DEFINE S == Known(Len(ops), done')
  <2>1. done' \in SUBSET Nat /\ done \subseteq done' /\ (\A i \in done' : i < Len(ops)) /\ id \in done'
    BY <1>1, <1>4
  <2>2. ins \in Seq(S)
    <3>1. Len(ops) <= Len(ops)
      BY <1>1
    <3> QED BY <1>1, <2>1, <3>1, KnownGrows
  <2>3. Resp("ok", id, op.par) \in Seq(S)
    <3> HIDE DEF op
    <3> QED BY <1>1, <1>3, <2>1, RespFacts
  <2> PICK d \in IF op.phase = "get" THEN DataPhases(id, op.size) ELSE {<<>>} :
                ins' = ins \o d \o Resp("ok", id, op.par)
    BY <1>4
  <2>4. d \in Seq(S)
    <3>1. CASE op.phase = "get"
      <4>1. d \in DataPhases(id, op.size)
        BY <3>1
      <4> QED BY <1>3, <4>1, DataPhaseTokens
    <3>2. CASE op.phase # "get"
      BY <3>2, EmptySeq
    <3> QED BY <3>1, <3>2
  <2>5. ins' \in Seq(S)
    <3> DEFINE r == Resp("ok", id, op.par)
    <3>1. ins' = (ins \o d) \o r /\ r \in Seq(S)
      BY <2>3
    <3> HIDE DEF r, S
    <3>2. ins \o d \in Seq(S)
      BY <2>2, <2>4, ConcatProperties
    <3> QED BY <3>1, <3>2, ConcatProperties
  <2>6. cam' \in CamType /\ cam'.st = "ready"
    <3> DEFINE s == CASE op = OpenSession -> TRUE [] op = CloseSession -> FALSE
                      [] OTHER -> cam.session
    <3>1. s \in BOOLEAN /\ cam' = [cam EXCEPT !.st = "ready", !.n = 0, !.session = s]
      BY <1>1, <1>4 DEF CamType
    <3> HIDE DEF s
    <3>2. cam' = [link |-> cam.link, st |-> "ready", id |-> cam.id, n |-> 0, session |-> s]
      BY <1>1, <3>1 DEF CamType
    <3>3. cam.link \in BOOLEAN /\ cam.id \in Nat /\ 0 \in 0..3
      BY <1>1 DEF CamType
    <3> QED BY <3>1, <3>2, <3>3 DEF CamType
  <2>7. cam'.st = "recv" => cam'.id < Len(ops)
    BY <2>6
  <2> HIDE DEF op
  <2> QED BY <2>1, <2>5, <2>6, <2>7, NetBase
<1>5. CASE /\ ins' = ins \o Resp("err", id, 0)
           /\ cam' = [cam EXCEPT !.st = "ready", !.n = 0]
           /\ UNCHANGED done
  <2> DEFINE S == Known(Len(ops), done)
             r == Resp("err", id, 0)
  <2>1. r \in Seq(S)
    BY <1>1, RespFacts
  <2>2. ins' = ins \o r /\ ins \in Seq(S)
    BY <1>1, <1>5
  <2> HIDE DEF r, S
  <2>3. ins' \in Seq(S)
    BY <2>1, <2>2, ConcatProperties
  <2>4. cam' \in CamType /\ cam'.st = "ready"
    <3>1. cam' = [link |-> cam.link, st |-> "ready", id |-> cam.id, n |-> 0,
                  session |-> cam.session]
      BY <1>1, <1>5 DEF CamType
    <3>2. cam.link \in BOOLEAN /\ cam.id \in Nat /\ 0 \in 0..3 /\ cam.session \in BOOLEAN
      BY <1>1 DEF CamType
    <3> QED BY <3>1, <3>2 DEF CamType
  <2>5. cam'.st = "recv" => cam'.id < Len(ops)
    BY <2>4
  <2>6. ins' \in Seq(Known(Len(ops), done')) /\ done' = done
    BY <1>5, <2>3 DEF S
  <2> QED BY <1>1, <2>4, <2>5, <2>6, NetBase
<1> QED BY <1>4, <1>5 DEF Reply

\* The replies to an init request.
AckPkt(id) == TcpPacket("ack", id, <<Tok("tid", id, 0), Tok("pay", id, 0)>>)
FailPkt(id) == TcpPacket("fail", id, <<>>)

\* Only the first token of a reply says what it is.
LEMMA AckFacts ==
    ASSUME NEW id \in Nat, NEW n, NEW ids
    PROVE  /\ AckPkt(id) \in Seq(Known(n, ids)) /\ FailPkt(id) \in Seq(Known(n, ids))
           /\ Len(AckPkt(id)) = 3 /\ Len(FailPkt(id)) = 1
           /\ AckPkt(id)[1].k = "ack" /\ FailPkt(id)[1].k = "fail"
           /\ \A i \in 2..3 : AckPkt(id)[i].k \in {"tid", "pay"}
<1> DEFINE S == Known(n, ids)
           a == Tok("ack", id, 2)
           b == Tok("tid", id, 0)
           c == Tok("pay", id, 0)
           f == Tok("fail", id, 0)
<1>1. a \in S /\ b \in S /\ c \in S /\ f \in S
  BY DEF Tok, Known, Token, Kinds
<1>2. AckPkt(id) = <<a>> \o <<b, c>> /\ FailPkt(id) = <<f>> \o <<>>
  BY DEF AckPkt, FailPkt, TcpPacket
<1>3. a.k = "ack" /\ b.k = "tid" /\ c.k = "pay" /\ f.k = "fail"
  BY DEF Tok
<1> HIDE DEF a, b, c, f, S
<1>4. /\ <<a>> \in Seq(S) /\ Len(<<a>>) = 1 /\ <<a>>[1] = a
      /\ <<f>> \in Seq(S) /\ Len(<<f>>) = 1 /\ <<f>>[1] = f
      /\ <<b, c>> \in Seq(S) /\ Len(<<b, c>>) = 2 /\ <<b, c>>[1] = b /\ <<b, c>>[2] = c
  BY <1>1
<1>5. FailPkt(id) = <<f>>
  BY <1>2, <1>4, ConcatEmptySeq
<1>6. /\ AckPkt(id) \in Seq(S) /\ Len(AckPkt(id)) = 1 + 2
      /\ \A i \in 1..1 + 2 : AckPkt(id)[i] = IF i <= 1 THEN <<a>>[i] ELSE <<b, c>>[i - 1]
  BY <1>2, <1>4, ConcatProperties
<1>7. AckPkt(id)[1] = a /\ AckPkt(id)[2] = b /\ AckPkt(id)[3] = c
  BY <1>4, <1>6
<1>8. \A i \in 2..3 : i = 2 \/ i = 3
  OBVIOUS
<1>9. Len(AckPkt(id)) = 3
  BY <1>6
<1> QED BY <1>3, <1>4, <1>5, <1>6, <1>7, <1>8, <1>9 DEF S

\* The camera takes a message: BaseInv is kept.
LEMMA CamReadBase == ASSUME BaseInv, CamRead PROVE BaseInv'
<1>1. /\ cam.link /\ outs # <<>> /\ outs' = Tail(outs) /\ UNCHANGED host
  BY DEF CamRead
<1> DEFINE m == Head(outs)
<1>2. /\ Len(ops) \in Nat /\ cam \in CamType /\ done \in SUBSET Nat
      /\ ins \in Seq(Known(Len(ops), done)) /\ \A i \in done : i < Len(ops)
      /\ ops \in Seq(TcpOpType) /\ (cam.st = "recv" => cam.id < Len(ops))
      /\ cam.id \in Nat /\ cam.n \in 0..3
  BY LenProperties DEF BaseInv, TypeOK, CallInv, KnownTok, CamType
<1>3. Sendable(outs, Len(ops)) /\ outs \in Seq(Token) /\ Len(outs) \in Nat /\ Len(outs) > 0
  BY <1>1, HostTypes, LenProperties, EmptySeq DEF Sendable
<1>4. m \in Token /\ m = outs[1] /\ (m.k = "req" => m.id < Len(ops)) /\ m.id \in Nat
  <2>1. m = outs[1]
    BY <1>1, <1>3, HeadTailProperties
  <2>2. outs[1] \in Token
    BY <1>3, ElementOfSeq
  <2>3. outs[1].k = "req" => outs[1].id < Len(ops)
    BY <1>3 DEF Sendable
  <2> QED BY <2>1, <2>2, <2>3 DEF Token
<1>5. Sendable(outs', Len(ops))
  <2>1. /\ Tail(outs) \in Seq(Token) /\ Len(Tail(outs)) = Len(outs) - 1
        /\ \A i \in 1..Len(Tail(outs)) : Tail(outs)[i] = outs[i + 1]
    BY <1>1, <1>3, HeadTailProperties
  <2>2. \A i \in 1..Len(Tail(outs)) : i + 1 \in 1..Len(outs)
    BY <1>3, <2>1
  <2> QED BY <1>1, <1>3, <2>1, <2>2 DEF Sendable
<1>6. CASE /\ ins' \in {ins \o AckPkt(m.id), ins \o FailPkt(m.id)}
           /\ UNCHANGED <<cam, done>>
  <2> DEFINE S == Known(Len(ops), done)
             p == AckPkt(m.id)
             q == FailPkt(m.id)
  <2>1. p \in Seq(S) /\ q \in Seq(S)
    BY <1>4, AckFacts
  <2>2. ins' \in {ins \o p, ins \o q} /\ ins \in Seq(S)
    BY <1>2, <1>6
  <2> HIDE DEF S, p, q
  <2>3. ins' \in Seq(S)
    BY <2>1, <2>2, ConcatProperties
  <2>4. ins' \in Seq(Known(Len(ops), done')) /\ cam' = cam /\ done' = done
    BY <1>6, <2>3 DEF S
  <2> QED BY <1>1, <1>2, <1>5, <2>4, NetBase
<1>7. CASE /\ m.k = "req" /\ cam' = [cam EXCEPT !.st = "recv", !.id = m.id]
           /\ UNCHANGED <<ins, done>>
  <2>1. cam' \in CamType /\ cam'.id < Len(ops)
    BY <1>2, <1>4, <1>7 DEF CamType
  <2>2. ins' \in Seq(Known(Len(ops), done')) /\ done' = done
    BY <1>2, <1>7
  <2> QED BY <1>1, <1>2, <1>5, <2>1, <2>2, NetBase
<1>8. CASE m.k = "req" /\ Reply(m.id)
  <2> HIDE DEF Reply
  <2> QED BY <1>1, <1>4, <1>5, <1>8, ReplyBase
<1>9. CASE cam.st = "recv" /\ Reply(cam.id)
  <2> HIDE DEF Reply
  <2> QED BY <1>1, <1>2, <1>5, <1>9, ReplyBase
<1>10. CASE /\ cam.st = "recv" /\ m.k = DataParts[cam.n + 1] /\ m.k # "end"
            /\ cam' = [cam EXCEPT !.n = @ + 1] /\ UNCHANGED <<ins, done>>
  <2>1. cam.n + 1 \in 0..3
    <3>1. cam.n # 3
      <4>1. DataParts[4] = "end"
        BY DEF DataParts
      <4>2. 3 + 1 = 4
        OBVIOUS
      <4> QED BY <1>10, <4>1, <4>2
    <3> QED BY <1>2, <3>1
  <2>2. cam' \in CamType /\ cam'.id = cam.id
    BY <1>2, <1>10, <2>1 DEF CamType
  <2>3. ins' \in Seq(Known(Len(ops), done')) /\ done' = done /\ cam'.id < Len(ops)
    BY <1>2, <1>10, <2>2
  <2> QED BY <1>1, <1>2, <1>5, <2>2, <2>3, NetBase
<1>11. CASE cam' = [cam EXCEPT !.link = FALSE] /\ UNCHANGED <<ins, done>>
  <2>1. cam' \in CamType /\ (cam'.st = "recv" => cam'.id < Len(ops))
    BY <1>2, <1>11 DEF CamType
  <2>2. ins' \in Seq(Known(Len(ops), done')) /\ done' = done
    BY <1>2, <1>11
  <2> QED BY <1>1, <1>2, <1>5, <2>1, <2>2, NetBase
<1>12. DataParts[cam.n + 1] \in {"start", "data", "pay", "end"}
  <2>1. cam.n + 1 \in 1..4
    BY <1>2
  <2>2. \A i \in 1..4 : DataParts[i] \in {"start", "data", "pay", "end"}
    BY DEF DataParts
  <2> QED BY <2>1, <2>2
<1> HIDE DEF Reply, m
<1> QED
  <2>1. CASE m.k = "init"
    <3>1. /\ ins' \in {ins \o AckPkt(m.id), ins \o FailPkt(m.id)}
          /\ UNCHANGED <<cam, done>>
      BY <2>1, <1>12 DEF CamRead, m, AckPkt, FailPkt
    <3> QED BY <3>1, <1>6
  <2>2. CASE m.k = "req" /\ cam.st = "ready"
    BY <2>2, <1>7, <1>8 DEF CamRead, m
  <2>3. CASE m.k # "init" /\ ~(m.k = "req" /\ cam.st = "ready")
    BY <2>3, <1>9, <1>10, <1>11 DEF CamRead, m
  <2> QED BY <2>1, <2>2, <2>3

\* Nothing has happened yet.
LEMMA InitBase == ASSUME Init PROVE BaseInv
<1>1. /\ pc = "down" /\ phase = "use" /\ conn = NewConn
      /\ cur = [id |-> 0, op |-> OpenSession] /\ ops = <<>> /\ buf = Empty /\ rd = NoRead
      /\ fill = <<>> /\ get = NoGet
      /\ result = [id |-> 0, rc |-> "none", from |-> 0, data |-> <<>>, blocks |-> <<>>]
      /\ faultAt = 0 /\ outs = <<>> /\ ins = <<>>
      /\ cam = [link |-> FALSE, st |-> "ready", id |-> 0, n |-> 0, session |-> FALSE]
      /\ done = {}
  BY DEF Init
<1>2. TypeOK
  <2>1. conn \in ConnType /\ get \in GetType /\ result \in ResultType /\ cam \in CamType
    BY <1>1, EmptySeq DEF NewConn, ConnType, NoGet, GetType, ResultType, Codes, CamType
  <2>2. cur \in [id : Nat, op : TcpOpType] /\ ops \in Seq(TcpOpType)
    BY <1>1, OwnOps, EmptySeq
  <2>3. buf \in BufType /\ rd \in RdType
    BY <1>1, NoHeader, EmptySeq DEF BufType, Empty, RdType, NoRead
  <2>4. fill \in Seq(KnownTok) /\ ins \in Seq(KnownTok) /\ outs \in Seq(Token)
    BY <1>1, EmptySeq
  <2> QED BY <1>1, <2>1, <2>2, <2>3, <2>4 DEF TypeOK
<1>3. CallInv
  BY <1>1 DEF CallInv, NewConn, Calling
<1>4. ReadInv
  BY <1>1 DEF ReadInv, Reading, Calling, Empty
<1> QED BY <1>2, <1>3, <1>4 DEF BaseInv

\* Whatever happens, the types, the ids and the reads are right.
LEMMA BaseStep == ASSUME BaseInv, [Next]_vars PROVE BaseInv'
<1>1. CASE UNCHANGED vars
  <2>1. UNCHANGED host /\ UNCHANGED <<outs, ins, cam, done>>
    BY <1>1 DEF vars, net
  <2>2. /\ cam \in CamType /\ (cam.st = "recv" => cam.id < Len(ops))
        /\ done \in SUBSET Nat /\ \A i \in done : i < Len(ops)
    BY DEF BaseInv, TypeOK, CallInv
  <2>3. Sendable(outs', Len(ops)) /\ ins' \in Seq(Known(Len(ops), done'))
    BY <2>1, HostTypes DEF Sendable, KnownTok
  <2> QED BY <2>1, <2>2, <2>3, NetBase
<1>2. CASE Next
  <2>1. CASE \E op \in TcpOps : Transaction(op)
    <3> HIDE DEF Transaction
    <3> QED BY <2>1, TransactionBase
  <2>2. CASE Connect \/ SendInit \/ InitAck \/ EventChannel \/ Opened \/ Close \/ CloseSockets
    BY <2>2, ConnectBase, SendInitBase, InitAckBase, EventChannelBase, OpenedBase, CloseBase,
       CloseSocketsBase
  <2>3. CASE \/ SendReq \/ SendData \/ Fill \/ RecvData \/ Header \/ StartData \/ DataStarts
             \/ PayRead \/ Handler \/ EndData \/ Response \/ CamRead \/ CamClose
    BY <2>3, SendReqBase, SendDataBase, FillBase, RecvDataBase, HeaderBase, StartDataBase,
       DataStartsBase, PayReadBase, HandlerBase, EndDataBase, ResponseBase, CamReadBase,
       CamCloseBase
  <2> QED BY <1>2, <2>1, <2>2, <2>3 DEF Next
<1> QED BY <1>1, <1>2

\* What the code may rely on whatever fails: the types, that an operation is the
\* one it was requested as, and that a read hands over what it was asked for.
THEOREM TcpTypeCorrect == Spec => []BaseInv
<1>1. Init => BaseInv
  BY InitBase
<1>2. BaseInv /\ [Next]_vars => BaseInv'
  BY BaseStep
<1> QED BY <1>1, <1>2, PTL DEF Spec

-----------------------------------------------------------------------------
(***************************************************************************)
(* What lies ahead of the host, and how the steps of a read leave it.      *)
(***************************************************************************)
\* A first element taken off both.
LEMMA FirstCut ==
    ASSUME NEW S, NEW h \in S, NEW t \in S, NEW v \in Seq(S), NEW w \in Seq(S),
           <<h>> \o v = <<t>> \o w
    PROVE  h = t /\ v = w
<1>1. /\ <<h>> \in Seq(S) /\ Len(<<h>>) = 1 /\ <<h>>[1] = h
      /\ <<t>> \in Seq(S) /\ Len(<<t>>) = 1 /\ <<t>>[1] = t
  BY OneSeq
<1>2. <<h>> = <<t>> /\ v = w
  BY <1>1, CutOnce
<1> QED BY <1>1, <1>2

\* Concatenation is associative, and has a neutral element.
Assoc(a, b, c) == (a \o b) \o c = a \o (b \o c)

Neutral(a) == a \o <<>> = a /\ <<>> \o a = a

\* Both hold of all sequences of one set.
LEMMA AssocLemma ==
    ASSUME NEW S, NEW a \in Seq(S), NEW b \in Seq(S), NEW c \in Seq(S)
    PROVE  Assoc(a, b, c)
  BY ConcatAssociative DEF Assoc

\* The same of the empty sequence.
LEMMA NeutralLemma == ASSUME NEW S, NEW a \in Seq(S) PROVE Neutral(a)
  BY ConcatEmptySeq DEF Neutral

\* The pieces of what lies ahead, put together in the order they are read.
Regrouped(p, d, f, b, i) == p \o d \o f \o (b \o i) = p \o (((d \o f) \o b) \o i)

\* The two ways to group what the host has, the buffer and the stream.
LEMMA Regroup ==
    ASSUME NEW S, NEW p \in Seq(S), NEW d \in Seq(S), NEW f \in Seq(S), NEW b \in Seq(S),
           NEW i \in Seq(S)
    PROVE  /\ Regrouped(p, d, f, b, i)
           /\ ((d \o f) \o b) \o i \in Seq(S) /\ p \o (((d \o f) \o b) \o i) \in Seq(S)
<1>1. d \o f \in Seq(S) /\ b \o i \in Seq(S) /\ p \o d \in Seq(S)
  BY ConcatProperties
<1>2. (d \o f) \o b \in Seq(S)
  BY <1>1, ConcatProperties
<1>3. ((d \o f) \o b) \o i \in Seq(S)
  BY <1>2, ConcatProperties
<1>4. p \o (((d \o f) \o b) \o i) \in Seq(S)
  BY <1>3, ConcatProperties
<1>5. Assoc(p, d, f) /\ Assoc(p, d \o f, b \o i) /\ Assoc(d \o f, b, i)
  BY <1>1, AssocLemma
<1>6. Regrouped(p, d, f, b, i)
  BY <1>5 DEF Assoc, Regrouped
<1> QED BY <1>3, <1>4, <1>6

\* Nothing of it is lost or doubled where a part moves from the stream to the
\* host: x is what recv returned.
Moved(d, f, x, i) ==
    /\ ((d \o f) \o <<>>) \o (x \o i) = (d \o (f \o x)) \o i
    /\ (((d \o x) \o <<>>) \o <<>>) \o i = ((d \o <<>>) \o <<>>) \o (x \o i)
    /\ ((d \o (f \o x)) \o <<>>) \o i = ((d \o f) \o <<>>) \o (x \o i)

\* It holds whatever recv returns.
LEMMA Moves ==
    ASSUME NEW S, NEW d \in Seq(S), NEW f \in Seq(S), NEW x \in Seq(S), NEW i \in Seq(S)
    PROVE  Moved(d, f, x, i)
<1>1. d \o f \in Seq(S) /\ f \o x \in Seq(S) /\ d \o x \in Seq(S)
  BY ConcatProperties
<1>2. d \o (f \o x) \in Seq(S)
  BY <1>1, ConcatProperties
<1>3. Neutral(d) /\ Neutral(d \o f) /\ Neutral(d \o x) /\ Neutral(d \o (f \o x))
  BY <1>1, <1>2, NeutralLemma
<1>4. Assoc(d, f, x) /\ Assoc(d, x, i) /\ Assoc(d \o f, x, i)
  BY <1>1, AssocLemma
<1>5. /\ (d \o f) \o <<>> = d \o f /\ d \o <<>> = d /\ (d \o x) \o <<>> = d \o x
      /\ (d \o (f \o x)) \o <<>> = d \o (f \o x)
  BY <1>3 DEF Neutral
<1>6. ((d \o f) \o x) \o i = (d \o f) \o (x \o i) /\ (d \o f) \o x = d \o (f \o x)
      /\ (d \o x) \o i = d \o (x \o i)
  BY <1>4 DEF Assoc
<1> QED BY <1>5, <1>6 DEF Moved

\* The types of the pieces.
LEMMA Pieces ==
    ASSUME BaseInv
    PROVE  /\ rd.dst \in Seq(Token) /\ fill \in Seq(Token) /\ buf.data \in Seq(Token)
           /\ ins \in Seq(Token) /\ Later \in Seq(Token) /\ rd.hdr \in Token
           /\ <<rd.hdr>> \in Seq(Token) /\ <<>> \in Seq(Token)
<1>1. /\ rd.dst \in Seq(Token) /\ fill \in Seq(Token) /\ buf.data \in Seq(Token)
      /\ ins \in Seq(Token) /\ rd.hdr \in Token
  BY HostTypes, KnownTokens
<1>2. Later \in Seq(Token)
  BY <1>1, ConcatProperties DEF Later
<1> QED BY <1>1, <1>2, OneSeq, EmptySeq

\* What lies ahead while reading: the header of a body, and the rest in order.
Front(r) == IF r.part = "body" THEN <<r.hdr>> ELSE <<>>

\* They are what is called Ahead.
LEMMA AheadReading ==
    ASSUME BaseInv, pc \in Reading
    PROVE  /\ Ahead = Front(rd) \o (((rd.dst \o fill) \o buf.data) \o ins)
           /\ ((rd.dst \o fill) \o buf.data) \o ins \in Seq(Token)
           /\ Ahead \in Seq(Token)
<1> DEFINE p == Front(rd)
           d == rd.dst
           b == buf.data
<1>1. p \in Seq(Token) /\ d \in Seq(Token) /\ b \in Seq(Token) /\ fill \in Seq(Token)
      /\ ins \in Seq(Token)
  BY Pieces DEF Front
<1>2. Ahead = p \o d \o fill \o (b \o ins)
  BY DEF Ahead, Later, Front
<1> HIDE DEF p, d, b
<1>3. /\ Regrouped(p, d, fill, b, ins)
      /\ ((d \o fill) \o b) \o ins \in Seq(Token) /\ p \o (((d \o fill) \o b) \o ins) \in Seq(Token)
  BY <1>1, Regroup
<1>4. /\ Ahead = p \o (((d \o fill) \o b) \o ins)
      /\ ((d \o fill) \o b) \o ins \in Seq(Token)
      /\ Ahead \in Seq(Token)
  BY <1>2, <1>3 DEF Regrouped
<1> QED BY <1>4 DEF p, d, b

\* Outside of reads it is what is in the buffer and in the stream.
LEMMA AheadElse == ASSUME BaseInv, pc \notin Reading PROVE Ahead = Later /\ Ahead \in Seq(Token)
  BY Pieces DEF Ahead

\* The whole of what was asked for is there.
LEMMA AheadGot ==
    ASSUME BaseInv, pc = "got"
    PROVE  /\ rd.part = "body" => Ahead = <<rd.hdr>> \o (rd.dst \o Later)
           /\ rd.part # "body" => Ahead = rd.dst \o Later
           /\ Len(rd.dst) = rd.size /\ rd.dst \o Later \in Seq(Token)
<1> DEFINE d == rd.dst
           b == buf.data
<1>1. /\ d \in Seq(Token) /\ b \in Seq(Token) /\ ins \in Seq(Token) /\ fill = <<>>
      /\ Len(rd.dst) = rd.size /\ pc \in Reading
  BY Pieces DEF BaseInv, ReadInv, Reading
<1>2. Ahead = Front(rd) \o (((d \o <<>>) \o b) \o ins)
  BY <1>1, AheadReading
<1>3. Later = b \o ins
  BY DEF Later
<1> HIDE DEF d, b
<1>4. d \o <<>> = d
  BY <1>1, ConcatEmptySeq
<1>5. (d \o b) \o ins = d \o (b \o ins)
  BY <1>1, ConcatAssociative
<1>6. b \o ins \in Seq(Token) /\ d \o (b \o ins) \in Seq(Token)
  BY <1>1, ConcatProperties
<1>7. <<>> \o (d \o (b \o ins)) = d \o (b \o ins)
  BY <1>6, ConcatEmptySeq
<1>8. /\ rd.part = "body" => Ahead = <<rd.hdr>> \o (d \o Later)
      /\ rd.part # "body" => Ahead = d \o Later
      /\ d \o Later \in Seq(Token)
  BY <1>2, <1>3, <1>4, <1>5, <1>6, <1>7 DEF Front
<1> QED BY <1>1, <1>8 DEF d

\* A read that begins takes what lies ahead to be read.
LEMMA StartReadAhead ==
    ASSUME BaseInv, NEW part \in {"hdr", "body", "pay"},
           NEW want \in {"none", "start", "data", "end", "resp"},
           NEW hdr \in KnownTok, NEW n \in Nat, StartRead(part, want, hdr, n), ins' = ins
    PROVE  Ahead' = IF part = "body" THEN <<hdr>> \o Later ELSE Later
<1> HIDE DEF StartRead
<1> DEFINE d == rd'.dst
           b == buf'.data
           c == buf.data
           p == IF part = "body" THEN <<hdr>> ELSE <<>>
<1>1. /\ pc' \in Reading /\ fill' = <<>> /\ rd'.part = part /\ rd'.hdr = hdr
      /\ d \in Seq(KnownTok) /\ b \in Seq(KnownTok) /\ d \o b = c
  BY StartReadFacts, ZenonT(40)
<1>2. d \in Seq(Token) /\ b \in Seq(Token) /\ c \in Seq(Token) /\ ins \in Seq(Token)
      /\ <<>> \in Seq(Token)
  BY <1>1, Pieces, KnownTokens
<1>3. p \in Seq(Token)
  <2>1. hdr \in Token
    BY KnownTokens
  <2> QED BY <2>1, OneSeq, EmptySeq
<1>4. Ahead' = p \o d \o <<>> \o (b \o ins)
  BY <1>1 DEF Ahead, Later, Reading
<1>5. Later = c \o ins
  BY DEF Later
<1>6. p = IF part = "body" THEN <<hdr>> ELSE <<>>
  OBVIOUS
<1>9. d \o b = c
  BY <1>1
<1> HIDE DEF d, b, c, p
<1>7. /\ Regrouped(p, d, <<>>, b, ins)
      /\ Neutral(d) /\ Neutral(c \o ins)
  <2>1. Regrouped(p, d, <<>>, b, ins)
    BY <1>2, <1>3, Regroup
  <2>2. c \o ins \in Seq(Token)
    BY <1>2, ConcatProperties
  <2> QED BY <1>2, <2>1, <2>2, NeutralLemma
<1>8. Ahead' = p \o (c \o ins) /\ <<>> \o (c \o ins) = c \o ins
  BY <1>4, <1>7, <1>9 DEF Neutral, Regrouped
<1> QED BY <1>5, <1>6, <1>8

\* The same of the read of a header.
LEMMA ReadControlAhead ==
    ASSUME BaseInv, NEW want \in {"start", "data", "end", "resp"}, ReadControl(want), ins' = ins
    PROVE  /\ Ahead' = Later
           /\ pc' \in {"fill", "got"} /\ rd'.part = "hdr" /\ rd'.want = want
           /\ buf.data = <<>> => /\ pc' = "fill" /\ buf'.data = <<>>
                                 /\ rd'.dst = <<>> /\ fill' = <<>>
<1>1. StartRead("hdr", want, Tok("none", 0, 0), 1)
  BY DEF ReadControl
<1>2. /\ "hdr" \in {"hdr", "body", "pay"} /\ want \in {"none", "start", "data", "end", "resp"}
      /\ Tok("none", 0, 0) \in KnownTok /\ 1 \in Nat
  BY NoHeader
<1>3. buf.data = <<>> => /\ pc' = "fill" /\ buf'.data = <<>>
                         /\ rd'.dst = <<>> /\ fill' = <<>>
  <2>1. HAVE buf.data = <<>>
  <2>2. Len(buf.data) = 0 /\ TakeLen(buf, 1) = 0
    BY <2>1 DEF TakeLen
  <2>3. Taken(buf, 1) = <<>> /\ AfterTake(buf, 1) = buf
    BY <2>1, <2>2 DEF Taken, AfterTake
  <2>4. ~(Len(buf.data) >= 1)
    BY <2>2
  <2> QED BY <1>1, <2>1, <2>3, <2>4 DEF StartRead
<1> HIDE DEF StartRead
<1>4. Ahead' = Later
  BY <1>1, <1>2, StartReadAhead
<1>5. /\ pc' \in {"fill", "got"} /\ rd'.part = "hdr" /\ rd'.want = want
  BY <1>1, <1>2, StartReadFacts, ZenonT(40) DEF Reading
<1> QED BY <1>3, <1>4, <1>5

\* What a recv leaves alone where the operation does not fail.
Unmoved ==
    UNCHANGED <<phase, conn, cur, ops, get, result, faultAt, outs, cam, done>>

\* A recv of ptp_transport_read_to_buffer, where nothing fails: what lies ahead
\* stays what it was.
LEMMA FillAhead ==
    ASSUME BaseInv, Fill, Clean'
    PROVE  /\ Ahead' = Ahead /\ ins # <<>> /\ Unmoved
           /\ pc' \in {"fill", "got"} /\ rd'.part = rd.part /\ rd'.want = rd.want
           /\ rd'.hdr = rd.hdr
<1>1. /\ pc = "fill" /\ pc \in Reading /\ UNCHANGED <<phase, conn, cur, ops, get, done>>
      /\ buf.data = <<>>
  BY DEF Fill, Reading, BaseInv, ReadInv
<1>2. ~(\E rc \in Codes : Abort(rc))
  BY <1>1 DEF Abort, Clean
<1>3. "io" \in Codes /\ "badparam" \in Codes
  BY DEF Codes
<1> HIDE DEF Abort
<1>4. PICK k \in 1..BufLen :
         /\ Recv(k, BufLen - Len(fill))
         /\ UNCHANGED <<outs, cam, result, faultAt>>
         /\ \/ FillsUp(k) /\ fill' = <<>> /\ pc' = "got"
            \/ fill' = fill \o SubSeq(ins, 1, k) /\ UNCHANGED <<rd, buf, pc>>
  BY <1>2, <1>3 DEF Fill, FillsUp
<1> DEFINE d == rd.dst
           x == SubSeq(ins, 1, k)
<1>5. /\ d \in Seq(Token) /\ fill \in Seq(Token) /\ ins \in Seq(Token) /\ Len(ins) \in Nat
      /\ rd \in RdType
  BY Pieces, HostTypes, LenProperties
<1>6. /\ k \in 1..Len(ins) /\ ins' = SubSeq(ins, k + 1, Len(ins))
  <2>1. k \in Nat /\ Len(fill) \in Nat /\ BufLen \in Nat
    BY <1>5, TcpAssumption, LenProperties
  <2> QED BY <1>4, <1>5, <2>1 DEF Recv, MinLen
<1>7. x \in Seq(Token) /\ ins' \in Seq(Token) /\ x \o ins' = ins /\ ins # <<>>
  <2>1. k \in 0..Len(ins) /\ Len(ins) # 0
    BY <1>5, <1>6
  <2>2. ins # <<>>
    BY <2>1
  <2> QED BY <1>5, <1>6, <2>1, <2>2, CutAt
<1>8. Ahead = Front(rd) \o (((d \o fill) \o <<>>) \o ins)
  BY <1>1, AheadReading
<1>9. CASE FillsUp(k) /\ fill' = <<>> /\ pc' = "got"
  <2> DEFINE e == rd'.dst
             b == buf'.data
             p == Front(rd)
  <2>1. /\ e \o b = d \o (fill \o x) /\ e \in Seq(KnownTok) /\ b \in Seq(KnownTok)
    BY <1>1, <1>9, FillFacts
  <2>2. rd'.part = rd.part /\ rd'.want = rd.want /\ rd'.hdr = rd.hdr
    BY <1>5, <1>9 DEF FillsUp, RdType
  <2>3. p \in Seq(Token) /\ e \in Seq(Token) /\ b \in Seq(Token) /\ <<>> \in Seq(Token)
    BY <2>1, Pieces, KnownTokens DEF Front
  <2>4. Ahead' = p \o e \o <<>> \o (b \o ins')
    BY <1>9, <2>2 DEF Ahead, Later, Reading, Front
  <2>5. e \o b = d \o (fill \o x)
    BY <2>1
  <2>6. x \o ins' = ins
    BY <1>7
  <2>7. Ahead = p \o (((d \o fill) \o <<>>) \o ins)
    BY <1>8
  <2>11. x \in Seq(Token) /\ ins' \in Seq(Token)
    BY <1>7
  <2> HIDE DEF e, b, p, d, x
  <2>8. Regrouped(p, e, <<>>, b, ins') /\ Neutral(e)
    BY <2>3, <2>11, Regroup, NeutralLemma
  <2>9. Moved(d, fill, x, ins')
    BY <1>5, <2>11, Moves
  <2>12. Ahead' = p \o ((e \o b) \o ins')
    BY <2>4, <2>8 DEF Regrouped, Neutral
  <2>10. Ahead' = Ahead
    BY <2>5, <2>6, <2>7, <2>9, <2>12 DEF Moved
  <2> QED BY <1>1, <1>4, <1>7, <1>9, <2>2, <2>10 DEF Unmoved
<1>10. CASE fill' = fill \o SubSeq(ins, 1, k) /\ UNCHANGED <<rd, buf, pc>>
  <2> DEFINE p == Front(rd)
  <2>1. Ahead' = p \o d \o (fill \o x) \o (<<>> \o ins')
    BY <1>1, <1>10 DEF Ahead, Later, Front, Reading
  <2>2. p \in Seq(Token) /\ <<>> \in Seq(Token) /\ fill \o x \in Seq(Token)
    BY <1>5, <1>7, Pieces, ConcatProperties DEF Front
  <2>3. x \in Seq(Token) /\ ins' \in Seq(Token) /\ x \o ins' = ins
    BY <1>7
  <2>4. Ahead = p \o (((d \o fill) \o <<>>) \o ins)
    BY <1>8
  <2> HIDE DEF p, d, x
  <2>5. Regrouped(p, d, fill \o x, <<>>, ins')
    BY <1>5, <2>2, <2>3, Regroup
  <2>6. Moved(d, fill, x, ins')
    BY <1>5, <2>3, Moves
  <2>7. Neutral(d \o (fill \o x))
    <3>1. d \o (fill \o x) \in Seq(Token)
      BY <1>5, <2>2, ConcatProperties
    <3> QED BY <3>1, NeutralLemma
  <2>8. Ahead' = p \o ((d \o (fill \o x)) \o ins')
    BY <2>1, <2>5, <2>7 DEF Regrouped, Neutral
  <2>9. Ahead' = Ahead
    BY <2>3, <2>4, <2>6, <2>8 DEF Moved
  <2> QED BY <1>1, <1>4, <1>7, <1>10, <2>9 DEF Unmoved
<1> QED BY <1>4, <1>9, <1>10

\* A recv of ptp_tcp_read_data.
LEMMA RecvDataAhead ==
    ASSUME BaseInv, RecvData, Clean'
    PROVE  /\ Ahead' = Ahead /\ ins # <<>> /\ Unmoved /\ UNCHANGED buf
           /\ pc' \in {"recv", "got"} /\ rd'.part = rd.part /\ rd'.want = rd.want
           /\ rd'.hdr = rd.hdr /\ rd'.size = rd.size
<1>1. /\ pc = "recv" /\ pc \in Reading /\ UNCHANGED <<phase, conn, cur, ops, buf, fill, get, done>>
      /\ buf.data = <<>> /\ fill = <<>> /\ Len(rd.dst) < rd.size
  BY DEF RecvData, Reading, BaseInv, ReadInv
<1>2. ~(\E rc \in Codes : Abort(rc))
  BY <1>1 DEF Abort, Clean
<1>3. "io" \in Codes
  BY DEF Codes
<1> HIDE DEF Abort
<1>4. PICK k \in 1..(rd.size - Len(rd.dst)) :
         /\ Recv(k, rd.size - Len(rd.dst))
         /\ rd' = [rd EXCEPT !.dst = @ \o SubSeq(ins, 1, k)]
         /\ pc' = (IF Len(rd.dst) + k = rd.size THEN "got" ELSE "recv")
         /\ UNCHANGED <<result, faultAt, outs, cam>>
  BY <1>2, <1>3 DEF RecvData
<1> DEFINE d == rd.dst
           x == SubSeq(ins, 1, k)
           p == Front(rd)
<1>5. /\ d \in Seq(Token) /\ fill \in Seq(Token) /\ ins \in Seq(Token) /\ Len(ins) \in Nat
      /\ rd \in RdType /\ p \in Seq(Token) /\ <<>> \in Seq(Token)
  BY Pieces, HostTypes, LenProperties DEF Front
<1>6. k \in 1..Len(ins) /\ ins' = SubSeq(ins, k + 1, Len(ins))
  <2>1. k \in Nat /\ rd.size - Len(rd.dst) \in Nat
    BY <1>1, HostTypes, SMTT(20)
  <2> QED BY <1>4, <1>5, <2>1 DEF Recv, MinLen
<1>7. x \in Seq(Token) /\ ins' \in Seq(Token) /\ x \o ins' = ins /\ ins # <<>>
  <2>1. k \in 0..Len(ins) /\ Len(ins) # 0
    BY <1>5, <1>6
  <2>2. ins # <<>>
    BY <2>1
  <2> QED BY <1>5, <1>6, <2>1, <2>2, CutAt
<1>8. Ahead = p \o (((d \o <<>>) \o <<>>) \o ins)
  <2>1. Ahead = p \o (((d \o fill) \o buf.data) \o ins)
    BY <1>1, AheadReading
  <2>2. fill = <<>> /\ buf.data = <<>>
    BY <1>1
  <2> HIDE DEF d, p
  <2> QED BY <2>1, <2>2, Zenon
<1>9. /\ rd'.dst = d \o x /\ rd'.part = rd.part /\ rd'.want = rd.want /\ rd'.hdr = rd.hdr
      /\ rd'.size = rd.size
  BY <1>4, <1>5 DEF RdType
<1>10. Ahead' = p \o (d \o x) \o <<>> \o (<<>> \o ins')
  <2>1. pc' \in Reading
    BY <1>4 DEF Reading
  <2>2. fill' = <<>> /\ buf'.data = <<>>
    BY <1>1
  <2>3. Front(rd)' = p
    BY <1>9 DEF Front
  <2>4. Ahead' = Front(rd)' \o rd'.dst \o fill' \o (buf'.data \o ins')
    BY <2>1 DEF Ahead, Later, Front
  <2>5. rd'.dst = d \o x
    BY <1>9
  <2> HIDE DEF d, p, x
  <2> QED BY <2>2, <2>3, <2>4, <2>5, Zenon
<1>11. Ahead' = Ahead
  <2>1. x \o ins' = ins /\ x \in Seq(Token) /\ ins' \in Seq(Token)
    BY <1>7
  <2> HIDE DEF d, x, p
  <2>2. d \o x \in Seq(Token)
    BY <1>5, <2>1, ConcatProperties
  <2>3. Regrouped(p, d \o x, <<>>, <<>>, ins')
    BY <1>5, <2>1, <2>2, Regroup
  <2>4. Moved(d, <<>>, x, ins')
    BY <1>5, <2>1, Moves
  <2>5. Ahead' = p \o ((((d \o x) \o <<>>) \o <<>>) \o ins')
    BY <1>10, <2>3 DEF Regrouped
  <2> QED BY <1>8, <2>1, <2>4, <2>5 DEF Moved
<1> QED BY <1>1, <1>4, <1>7, <1>9, <1>11 DEF Unmoved

-----------------------------------------------------------------------------
(***************************************************************************)
(* The answer of the camera, and how the host takes it apart.              *)
(***************************************************************************)
\* w is the header h and the body u; w and then v; v is all that lies ahead
\* after the header h and the body u.
PacketOf(w, h, u) == w = <<h>> \o u

Then(y, w, v) == y = w \o v

Begins(t, u, v) == Ahead = <<t>> \o (u \o v)

\* An operation, for what its answer is made of.
Asked(x) == x.id \in Nat /\ x.op.size \in Nat /\ x.op.par \in Nat

\* The operation in progress is one.
LEMMA CurAsked == ASSUME BaseInv PROVE Asked(cur)
  BY HostTypes DEF Asked

\* The responses and the end of a data phase, in tokens.
LEMMA CallTokens ==
    ASSUME NEW x, Asked(x)
    PROVE  /\ PacketOf(Success(x), Tok("ok", x.id, x.op.par + 1), Pars(x.id, x.op.par))
           /\ PacketOf(Refusal(x), Tok("err", x.id, 1), Pars(x.id, 0))
           /\ Pars(x.id, x.op.par) \in Seq(Token) /\ Len(Pars(x.id, x.op.par)) = x.op.par + 1
           /\ Pars(x.id, 0) \in Seq(Token) /\ Len(Pars(x.id, 0)) = 1
           /\ Tok("ok", x.id, x.op.par + 1) \in Token /\ Tok("err", x.id, 1) \in Token
           /\ Success(x) \in Seq(Token) /\ Refusal(x) \in Seq(Token)
           /\ EndPkt(x) \in Seq(Token)
<1> DEFINE id == x.id
           par == x.op.par
           S == Known(id + 1, {id})
<1>1. id \in Nat /\ par \in Nat /\ id + 1 \in Nat /\ id < id + 1 /\ 0 \in Nat /\ 1 \in Nat
  BY DEF Asked
<1>2. S \subseteq Token /\ Seq(S) \subseteq Seq(Token)
  <2>1. S \subseteq Token
    BY DEF Known
  <2> QED BY <2>1, SeqGrows
<1>3. /\ Resp("ok", id, par) = <<Tok("ok", id, par + 1)>> \o Pars(id, par)
      /\ Tok("ok", id, par + 1) \in S
      /\ Pars(id, par) \in Seq(S) /\ Len(Pars(id, par)) = par + 1
      /\ Resp("ok", id, par) \in Seq(S)
  BY <1>1, RespFacts
<1>4. /\ Resp("err", id, 0) = <<Tok("err", id, 0 + 1)>> \o Pars(id, 0)
      /\ Tok("err", id, 0 + 1) \in S
      /\ Pars(id, 0) \in Seq(S) /\ Len(Pars(id, 0)) = 0 + 1
      /\ Resp("err", id, 0) \in Seq(S)
  BY <1>1, RespFacts
<1>6. 0 + 1 = 1 /\ 1 <= 0 + 1
  OBVIOUS
<1>5. DataPkt("end", id, 1, 0) \in Seq(S)
  <2> HIDE DEF S, id
  <2>1. DataPkt("end", id, 1, 0) \in Seq(Known(id + 1, {id}))
    BY <1>1, <1>6, DataPktFacts
  <2> QED BY <2>1 DEF S
<1>7. PacketOf(Success(x), Tok("ok", id, par + 1), Pars(id, par))
  BY <1>3 DEF PacketOf, Success
<1>8. PacketOf(Refusal(x), Tok("err", id, 1), Pars(id, 0)) /\ Len(Pars(id, 0)) = 1
  BY <1>4, <1>6 DEF PacketOf, Refusal
<1>9. Tok("err", id, 1) \in S
  BY <1>4, <1>6
<1>10. Success(x) \in Seq(S) /\ Refusal(x) \in Seq(S) /\ EndPkt(x) \in Seq(S)
  BY <1>3, <1>4, <1>5 DEF Success, Refusal, EndPkt
<1>11. Pars(id, par) \in Seq(S) /\ Len(Pars(id, par)) = par + 1 /\ Pars(id, 0) \in Seq(S)
       /\ Tok("ok", id, par + 1) \in S
  BY <1>3, <1>4
<1> HIDE DEF S
<1> QED BY <1>2, <1>7, <1>8, <1>9, <1>10, <1>11 DEF id, par

\* A data packet in tokens.
LEMMA PktTokens ==
    ASSUME NEW k \in {"data", "end"}, NEW id \in Nat, NEW a \in Nat, NEW b \in Nat, a <= b + 1
    PROVE  /\ PacketOf(DataPkt(k, id, a, b), Tok(k, id, b - a + 2),
                       <<Tok("tid", id, 0)>> \o PayToks(id, a, b))
           /\ Tok(k, id, b - a + 2) \in Token /\ Tok("tid", id, 0) \in Token
           /\ PayToks(id, a, b) \in Seq(Token) /\ Len(PayToks(id, a, b)) = b - a + 1
           /\ DataPkt(k, id, a, b) \in Seq(Token)
<1> DEFINE S == Known(0, {})
<1>2. S \subseteq Token /\ Seq(S) \subseteq Seq(Token)
  <2>1. S \subseteq Token
    BY DEF Known
  <2> QED BY <2>1, SeqGrows
<1>3. /\ DataPkt(k, id, a, b) =
                 <<Tok(k, id, b - a + 2)>> \o (<<Tok("tid", id, 0)>> \o PayToks(id, a, b))
      /\ Tok(k, id, b - a + 2) \in S /\ Tok("tid", id, 0) \in S
      /\ DataPkt(k, id, a, b) \in Seq(S)
  BY DataPktFacts, ZenonT(40)
<1>4. PayToks(id, a, b) \in Seq(S) /\ Len(PayToks(id, a, b)) = b - a + 1
  BY PayToksFacts
<1>5. PacketOf(DataPkt(k, id, a, b), Tok(k, id, b - a + 2),
               <<Tok("tid", id, 0)>> \o PayToks(id, a, b))
  BY <1>3 DEF PacketOf
<1>6. Tok(k, id, b - a + 2) \in S /\ Tok("tid", id, 0) \in S /\ DataPkt(k, id, a, b) \in Seq(S)
  BY <1>3
<1> HIDE DEF S
<1> QED BY <1>2, <1>4, <1>5, <1>6

\* The packets that may come next: one of the last ones, or one before them.
LEMMA PacketsAre ==
    ASSUME NEW x, NEW r, NEW w
    PROVE  w \in Packets(x, r) <=>
              \/ w \in LastOf(x, r)
              \/ \E b \in r + 1 .. x.op.size - 1 : \E s \in LastOf(x, b) :
                    Then(w, DataPkt("data", x.id, r + 1, b), s)
<1> DEFINE B == r + 1 .. x.op.size - 1
           f(b, s) == DataPkt("data", x.id, r + 1, b) \o s
<1>1. Packets(x, r) = LastOf(x, r) \cup UNION {{f(b, s) : s \in LastOf(x, b)} : b \in B}
  BY DEF Packets
<1>2. \A b, s : Then(w, DataPkt("data", x.id, r + 1, b), s) <=> w = f(b, s)
  BY DEF Then
<1> HIDE DEF B, f, LastOf
<1>3. w \in Packets(x, r) <=>
         w \in LastOf(x, r) \/ \E b \in B : \E s \in LastOf(x, b) : w = f(b, s)
  BY <1>1
<1>4. w \in Packets(x, r) <=>
         \/ w \in LastOf(x, r)
         \/ \E b \in B : \E s \in LastOf(x, b) : Then(w, DataPkt("data", x.id, r + 1, b), s)
  BY <1>2, <1>3, Zenon
<1> QED BY <1>4 DEF B

\* What may follow in an answer is made of tokens.
LEMMA AnswerTokens ==
    ASSUME NEW x, Asked(x), NEW r \in Nat, r <= x.op.size
    PROVE  /\ LastOf(x, r) \subseteq Seq(Token) /\ Packets(x, r) \subseteq Seq(Token)
           /\ \A e \in BOOLEAN : Closing(x, e) \in Seq(Token) /\ After(x, r, e) \subseteq Seq(Token)
<1>1. x.id \in Nat /\ x.op.size \in Nat
  BY DEF Asked
<1>2. \A e \in BOOLEAN : Closing(x, e) \in Seq(Token)
  <2>1. Success(x) \in Seq(Token) /\ EndPkt(x) \in Seq(Token)
    BY CallTokens
  <2>2. EndPkt(x) \o Success(x) \in Seq(Token)
    BY <2>1, ConcatProperties
  <2> QED BY <2>1, <2>2 DEF Closing
<1>3. ASSUME NEW b \in Nat, b <= x.op.size PROVE LastOf(x, b) \subseteq Seq(Token)
  <2>1. b + 1 \in Nat /\ b + 1 <= x.op.size + 1
    BY <1>1, <1>3
  <2>2. /\ DataPkt("end", x.id, b + 1, x.op.size) \in Seq(Token)
        /\ DataPkt("data", x.id, b + 1, x.op.size) \in Seq(Token)
    BY <1>1, <2>1, PktTokens
  <2>3. Success(x) \in Seq(Token) /\ Closing(x, FALSE) \in Seq(Token)
    BY <1>2, CallTokens
  <2>4. /\ DataPkt("end", x.id, b + 1, x.op.size) \o Success(x) \in Seq(Token)
        /\ DataPkt("data", x.id, b + 1, x.op.size) \o Closing(x, FALSE) \in Seq(Token)
    BY <2>2, <2>3, ConcatProperties
  <2> QED BY <2>4 DEF LastOf
<1>4. Packets(x, r) \subseteq Seq(Token)
  <2>1. ASSUME NEW b \in r + 1 .. x.op.size - 1, NEW s \in LastOf(x, b), NEW w,
               Then(w, DataPkt("data", x.id, r + 1, b), s)
        PROVE  w \in Seq(Token)
    <3>1. b \in Nat /\ b <= x.op.size /\ r + 1 \in Nat /\ r + 1 <= b + 1
      BY <1>1
    <3>2. s \in Seq(Token)
      BY <1>3, <3>1
    <3>3. DataPkt("data", x.id, r + 1, b) \in Seq(Token)
      BY <1>1, <3>1, PktTokens
    <3> QED BY <2>1, <3>2, <3>3, ConcatProperties DEF Then
  <2>2. LastOf(x, r) \subseteq Seq(Token)
    BY <1>3
  <2> QED BY <2>1, <2>2, PacketsAre, Zenon
<1>5. \A e \in BOOLEAN : After(x, r, e) \subseteq Seq(Token)
  BY <1>2, <1>4 DEF After
<1> QED BY <1>2, <1>3, <1>4, <1>5

\* While r units are there of a data phase that is not ended, a data packet
\* with the next ones, up to b, comes next.
KindOf(e) == IF e THEN "end" ELSE "data"

\* The packets that may come are such a packet and what may follow it.
LEMMA NextPacket ==
    ASSUME NEW x, Asked(x), NEW r \in Nat, r <= x.op.size, NEW w \in Packets(x, r)
    PROVE  \E e \in BOOLEAN, b \in Nat :
              /\ r <= b /\ b <= x.op.size
              /\ \E s \in After(x, b, e) : Then(w, DataPkt(KindOf(e), x.id, r + 1, b), s)
<1>1. x.op.size \in Nat /\ x.op.size <= x.op.size
  BY DEF Asked
<1>4. KindOf(TRUE) = "end" /\ KindOf(FALSE) = "data"
  BY DEF KindOf
<1> HIDE DEF KindOf
<1>2. CASE w \in LastOf(x, r)
  <2>1. CASE Then(w, DataPkt("end", x.id, r + 1, x.op.size), Success(x))
    <3>1. Success(x) \in After(x, x.op.size, TRUE)
      BY <1>1 DEF After, Closing
    <3> QED BY <1>1, <1>4, <2>1, <3>1
  <2>2. CASE Then(w, DataPkt("data", x.id, r + 1, x.op.size), Closing(x, FALSE))
    <3>1. Closing(x, FALSE) \in After(x, x.op.size, FALSE)
      <4>1. ~(x.op.size < x.op.size)
        BY <1>1
      <4> QED BY <4>1 DEF After
    <3> QED BY <1>1, <1>4, <2>2, <3>1
  <2> QED BY <1>2, <2>1, <2>2 DEF LastOf, Then
<1>3. CASE w \notin LastOf(x, r)
  <2>1. PICK b \in r + 1 .. x.op.size - 1 :
           \E s \in LastOf(x, b) : Then(w, DataPkt("data", x.id, r + 1, b), s)
    BY <1>3, PacketsAre
  <2>2. PICK s \in LastOf(x, b) : Then(w, DataPkt("data", x.id, r + 1, b), s)
    BY <2>1
  <2>3. b \in Nat /\ r <= b /\ b <= x.op.size /\ b < x.op.size
    BY <1>1
  <2>4. s \in After(x, b, FALSE)
    <3>1. s \in Packets(x, b)
      BY PacketsAre
    <3> QED BY <2>3, <3>1 DEF After
  <2> QED BY <1>4, <2>2, <2>3, <2>4
<1> QED BY <1>2, <1>3

\* A data phase that begins is one of the answers, with success after it.
LEMMA AnswerShape ==
    ASSUME NEW x, Asked(x), NEW d \in DataPhases(x.id, x.op.size)
    PROVE  d \o Success(x) \in Answers(x)
<1> DEFINE id == x.id
           size == x.op.size
           w == Success(x)
           p == StartPkt(x)
<1>1. id \in Nat /\ size \in Nat /\ w \in Seq(Token) /\ EndPkt(x) \in Seq(Token)
  BY CallTokens DEF Asked
<1>2. PICK a \in {i \in 0..size : i < size \/ i = 0}, e \in BOOLEAN : d = PhaseOf(id, size, a, e)
  BY PhaseShape
<1>3. /\ a \in Nat /\ 0 \in Nat /\ 1 \in Nat /\ 1 <= a + 1 /\ a + 1 \in Nat /\ a + 1 <= size + 1
      /\ a # 0 => a \in 0 + 1 .. size - 1
  BY <1>1
<1> DEFINE q == DataPkt("data", id, 1, a)
           r == IF e THEN DataPkt("end", id, a + 1, size)
                ELSE DataPkt("data", id, a + 1, size) \o EndPkt(x)
<1>4. p \in Seq(Token)
  <2>1. p \in Seq(Known(0, {}))
    BY <1>1, StartPktFacts DEF StartPkt
  <2>2. Known(0, {}) \subseteq Token
    BY DEF Known
  <2> QED BY <2>1, <2>2, SeqGrows
<1>5. q \in Seq(Token) /\ DataPkt("end", id, a + 1, size) \in Seq(Token)
      /\ DataPkt("data", id, a + 1, size) \in Seq(Token)
  BY <1>1, <1>3, PktTokens
<1>6. r \in Seq(Token) /\ <<>> \in Seq(Token)
  <2>1. DataPkt("data", id, a + 1, size) \o EndPkt(x) \in Seq(Token)
    BY <1>1, <1>5, ConcatProperties
  <2> QED BY <1>5, <2>1, EmptySeq
<1>7. r \o w \in LastOf(x, a)
  <2>1. CASE e
    BY <2>1 DEF LastOf
  <2>2. CASE ~e
    <3> DEFINE y == DataPkt("data", id, a + 1, size)
               z == EndPkt(x)
    <3>1. r \o w = (y \o z) \o w /\ y \in Seq(Token) /\ z \in Seq(Token)
      BY <2>2, <1>1, <1>5
    <3> HIDE DEF y, z, w, r
    <3>2. Assoc(y, z, w)
      BY <1>1, <3>1, AssocLemma
    <3>3. r \o w = y \o (z \o w)
      BY <3>1, <3>2 DEF Assoc
    <3>4. z \o w = Closing(x, FALSE)
      BY DEF z, w, Closing
    <3> QED BY <3>3, <3>4 DEF LastOf, y
  <2> QED BY <2>1, <2>2
<1>8. d = p \o (IF a = 0 THEN <<>> ELSE q) \o r
  BY <1>2 DEF PhaseOf, StartPkt, EndPkt
<1> HIDE DEF p, q, r, w
<1>9. CASE a = 0
  <2>1. d = (p \o <<>>) \o r /\ Neutral(p) /\ Assoc(p, r, w)
    BY <1>1, <1>4, <1>6, <1>8, <1>9, NeutralLemma, AssocLemma
  <2>2. d \o w = p \o (r \o w)
    BY <2>1 DEF Neutral, Assoc
  <2>3. r \o w \in Packets(x, 0)
    BY <1>7, <1>9 DEF Packets
  <2> QED BY <2>2, <2>3 DEF Answers, p, w
<1>10. CASE a # 0
  <2>1. d = (p \o q) \o r
    BY <1>8, <1>10
  <2>2. p \o q \in Seq(Token) /\ q \o r \in Seq(Token) /\ r \o w \in Seq(Token)
    BY <1>1, <1>4, <1>5, <1>6, ConcatProperties
  <2>3. Assoc(p \o q, r, w) /\ Assoc(p, q, r \o w)
    BY <1>1, <1>4, <1>5, <1>6, <2>2, AssocLemma
  <2>4. d \o w = p \o (q \o (r \o w))
    BY <2>1, <2>3 DEF Assoc
  <2>5. q \o (r \o w) \in Packets(x, 0)
    <3>1. a \in 0 + 1 .. x.op.size - 1 /\ 0 + 1 = 1
      BY <1>3, <1>10
    <3>2. Then(q \o (r \o w), DataPkt("data", x.id, 0 + 1, a), r \o w)
      BY <3>1 DEF Then, q
    <3> QED BY <1>7, <3>1, <3>2, PacketsAre
  <2> QED BY <2>4, <2>5 DEF Answers, p, w
<1> QED BY <1>9, <1>10

\* The first packet of what lies ahead.
LEMMA BeginsPacket ==
    ASSUME NEW t \in Token, NEW u \in Seq(Token), NEW v \in Seq(Token), NEW w,
           PacketOf(w, t, u), Then(Ahead, w, v)
    PROVE  Begins(t, u, v)
<1>1. <<t>> \in Seq(Token)
  BY OneSeq
<1>2. Assoc(<<t>>, u, v)
  BY <1>1, AssocLemma
<1> HIDE DEF Ahead
<1> QED BY <1>2 DEF PacketOf, Then, Begins, Assoc

\* The same where it is all of it.
LEMMA BeginsAlone ==
    ASSUME NEW t \in Token, NEW u \in Seq(Token), PacketOf(Ahead, t, u)
    PROVE  Begins(t, u, <<>>)
<1>1. Neutral(u)
  BY NeutralLemma
<1> HIDE DEF Ahead
<1> QED BY <1>1 DEF PacketOf, Begins, Neutral

\* Of the body of a packet the first part may be taken alone.
LEMMA BeginsLonger ==
    ASSUME NEW t \in Token, NEW u \in Seq(Token), NEW y \in Seq(Token), NEW v \in Seq(Token),
           Begins(t, u \o y, v)
    PROVE  Begins(t, u, y \o v)
<1>1. Assoc(u, y, v)
  BY AssocLemma
<1> HIDE DEF Ahead
<1> QED BY <1>1 DEF Begins, Assoc

\* A control read hands over the header and the fixed part of what lies ahead.
LEMMA BodyCut ==
    ASSUME BaseInv, pc = "got", rd.part = "body",
           NEW t \in Token, NEW u \in Seq(Token), NEW v \in Seq(Token),
           Len(u) = BodyLen(t), Begins(t, u, v)
    PROVE  rd.hdr = t /\ rd.dst = u /\ Later = v
<1> DEFINE h == rd.hdr
           d == rd.dst
           y == u \o v
           z == d \o Later
<1>1. /\ Ahead = <<h>> \o z /\ z \in Seq(Token) /\ Len(d) = rd.size
  BY AheadGot
<1>2. h \in Token /\ d \in Seq(Token) /\ Later \in Seq(Token)
  BY Pieces
<1>3. rd.size = BodyLen(rd.hdr)
  BY GotFacts
<1>4. y \in Seq(Token)
  BY ConcatProperties
<1>5. <<h>> \o z = <<t>> \o y
  BY <1>1 DEF Begins
<1> HIDE DEF Later, BodyLen
<1>6. h = t /\ z = y
  <2>1. z \in Seq(Token)
    BY <1>1
  <2> HIDE DEF h, y, z
  <2> QED BY <1>2, <1>4, <1>5, <2>1, FirstCut, ZenonT(40)
<1>7. Len(d) = Len(u)
  BY <1>1, <1>3, <1>6
<1>8. d \o Later = u \o v
  BY <1>6
<1> HIDE DEF d, h
<1>9. d = u /\ Later = v
  BY <1>2, <1>7, <1>8, CutOnce
<1> QED BY <1>6, <1>9 DEF d, h

-----------------------------------------------------------------------------
(***************************************************************************)
(* The payload.                                                            *)
(***************************************************************************)
\* The payload of a packet in two pieces.
LEMMA PaySplit ==
    ASSUME NEW id \in Nat, NEW a \in Nat, NEW b \in Nat, NEW c \in Nat, a <= c + 1, c <= b
    PROVE  Then(PayToks(id, a, b), PayToks(id, a, c), PayToks(id, c + 1, b))
<1> DEFINE w == PayToks(id, a, b)
           u == PayToks(id, a, c)
           v == PayToks(id, c + 1, b)
           S == Known(0, {})
<1>1. /\ w \in Seq(S) /\ Len(w) = b - a + 1
      /\ \A i \in 1..(b - a + 1) : w[i] = Pay(id, a + i - 1)
  <2>1. a <= b + 1
    OBVIOUS
  <2> QED BY <2>1, PayToksFacts, ZenonT(40)
<1>2. /\ u \in Seq(S) /\ Len(u) = c - a + 1
      /\ \A i \in 1..(c - a + 1) : u[i] = Pay(id, a + i - 1)
  BY PayToksFacts, ZenonT(40)
<1>3. /\ v \in Seq(S) /\ Len(v) = b - (c + 1) + 1
      /\ \A i \in 1..(b - (c + 1) + 1) : v[i] = Pay(id, (c + 1) + i - 1)
  <2>1. c + 1 \in Nat /\ c + 1 <= b + 1
    OBVIOUS
  <2> QED BY <2>1, PayToksFacts, ZenonT(40)
<1> HIDE DEF w, u, v, S
<1>4. /\ u \o v \in Seq(S) /\ Len(u \o v) = Len(u) + Len(v)
      /\ \A i \in 1..Len(u) + Len(v) : (u \o v)[i] = IF i <= Len(u) THEN u[i] ELSE v[i - Len(u)]
  BY <1>2, <1>3, ConcatProperties
<1>5. Len(u \o v) = Len(w)
  BY <1>1, <1>2, <1>3, <1>4
<1>6. ASSUME NEW i \in 1..Len(w) PROVE w[i] = (u \o v)[i]
  <2>1. i \in 1..(b - a + 1) /\ i \in 1..Len(u) + Len(v) /\ i \in Nat
    BY <1>1, <1>2, <1>3
  <2>2. w[i] = Pay(id, a + i - 1)
    BY <1>1, <2>1
  <2>3. CASE i <= Len(u)
    <3>1. i \in 1..(c - a + 1)
      BY <1>2, <2>1, <2>3
    <3> QED BY <1>2, <1>4, <2>1, <2>2, <2>3, <3>1
  <2>4. CASE ~(i <= Len(u))
    <3>1. i - Len(u) \in 1..(b - (c + 1) + 1) /\ (c + 1) + (i - Len(u)) - 1 = a + i - 1
      BY <1>1, <1>2, <1>3, <2>1, <2>4
    <3>2. v[i - Len(u)] = Pay(id, (c + 1) + (i - Len(u)) - 1)
      BY <1>3, <3>1
    <3> QED BY <1>4, <2>1, <2>2, <2>4, <3>1, <3>2
  <2> QED BY <2>3, <2>4
<1>7. w = u \o v
  BY <1>1, <1>4, <1>5, <1>6, SeqEqual
<1> QED BY <1>7 DEF Then, w, u, v

\* What lies ahead within a packet is its payload and what may follow.
LEMMA InPacketIs ==
    ASSUME NEW x, NEW g, NEW w
    PROVE  w \in InPacket(x, g) <=>
              \E s \in After(x, g.read + g.left, g.end) :
                 Then(w, PayToks(x.id, g.read + 1, g.read + g.left), s)
<1> DEFINE A == After(x, g.read + g.left, g.end)
           f(s) == PayToks(x.id, g.read + 1, g.read + g.left) \o s
<1>1. InPacket(x, g) = {f(s) : s \in A}
  BY DEF InPacket
<1>2. \A s : Then(w, PayToks(x.id, g.read + 1, g.read + g.left), s) <=> w = f(s)
  BY DEF Then
<1> HIDE DEF A, f
<1>3. w \in InPacket(x, g) <=> \E s \in A : w = f(s)
  BY <1>1
<1>4. w \in InPacket(x, g) <=>
         \E s \in A : Then(w, PayToks(x.id, g.read + 1, g.read + g.left), s)
  BY <1>2, <1>3, Zenon
<1> QED BY <1>4 DEF A

\* A packet does not go beyond the end of the payload.
LEMMA AfterInside ==
    ASSUME NEW x, Asked(x), NEW b \in Nat, NEW e, NEW s \in After(x, b, e)
    PROVE  b <= x.op.size
<1>1. x.op.size \in Nat
  BY DEF Asked
<1> QED BY <1>1 DEF After

\* A span of n units after the first k has n of them.
LEMMA SpanLemma == \A k, n \in Nat : ((k + n) - (k + 1)) + 1 = n
OBVIOUS

\* A read of n units of the payload hands over the next ones and leaves the rest.
LEMMA PayCut ==
    ASSUME NEW x, Asked(x), NEW g, g.read \in Nat, g.left \in Nat, g.end \in BOOLEAN,
           NEW h, NEW n \in Nat, n <= g.left,
           h.left = g.left - n, h.read = g.read + n, h.end = g.end,
           NEW w \in InPacket(x, g), NEW d \in Seq(Token), NEW v \in Seq(Token),
           Then(w, d, v), Len(d) = n
    PROVE  /\ d = PayToks(x.id, g.read + 1, g.read + n)
           /\ v \in InPacket(x, h)
           /\ g.read + g.left <= x.op.size
<1> DEFINE r == g.read
           b == g.read + g.left
           p == PayToks(x.id, r + 1, b)
           p1 == PayToks(x.id, r + 1, r + n)
           p2 == PayToks(x.id, (r + n) + 1, b)
<1>1. /\ x.id \in Nat /\ r \in Nat /\ b \in Nat /\ r + n \in Nat /\ r + 1 \in Nat
      /\ r + 1 <= (r + n) + 1 /\ r + n <= b /\ r + 1 <= b + 1 /\ (r + n) + 1 <= b + 1
      /\ (r + n) + 1 \in Nat
  <2>1. x.id \in Nat /\ r \in Nat /\ g.left \in Nat
    BY DEF Asked
  <2>2. b \in Nat /\ r + n \in Nat /\ r + 1 \in Nat /\ (r + n) + 1 \in Nat
    BY <2>1, SMTT(20)
  <2>3. r + n <= b
    BY <2>1
  <2> HIDE DEF b, r
  <2> QED BY <2>1, <2>2, <2>3
<1>2. PICK s \in After(x, b, g.end) : Then(w, p, s)
  BY InPacketIs
<1>3. b <= x.op.size
  BY <1>1, <1>2, AfterInside
<1>4. s \in Seq(Token)
  BY <1>1, <1>3, AnswerTokens
<1>5. p1 \in Seq(Token) /\ Len(p1) = (r + n) - (r + 1) + 1 /\ p2 \in Seq(Token)
  BY <1>1, PktTokens, ZenonT(40)
<1>6. Then(p, p1, p2)
  BY <1>1, PaySplit
<1>7. Len(p1) = n
  <2>1. ((r + n) - (r + 1)) + 1 = n
    <3>1. r \in Nat
      BY <1>1
    <3> HIDE DEF r
    <3> QED BY ONLY <3>1, n \in Nat, SpanLemma
  <2>2. Len(p1) = ((r + n) - (r + 1)) + 1
    BY <1>5
  <2> HIDE DEF p1
  <2> QED BY <2>1, <2>2
<1>8. p2 = PayToks(x.id, h.read + 1, h.read + h.left) /\ h.read + h.left = b
  BY <1>1, SMTT(20)
<1> HIDE DEF p, p1, p2
<1>9. Assoc(p1, p2, s)
  BY <1>4, <1>5, AssocLemma
<1>10. p2 \o s \in Seq(Token)
  BY <1>4, <1>5, ConcatProperties
<1>11. d \o v = p1 \o (p2 \o s)
  BY <1>2, <1>6, <1>9 DEF Then, Assoc
<1>12. d = p1 /\ v = p2 \o s
  BY <1>5, <1>7, <1>10, <1>11, CutOnce
<1>13. Then(v, p2, s)
  BY <1>12 DEF Then
<1>14. v \in InPacket(x, h)
  <2>1. s \in After(x, h.read + h.left, h.end)
    BY <1>8
  <2>2. Then(v, PayToks(x.id, h.read + 1, h.read + h.left), s)
    BY <1>8, <1>13
  <2> QED BY <2>1, <2>2, InPacketIs
<1>15. d = PayToks(x.id, g.read + 1, g.read + n)
  BY <1>12 DEF p1
<1> QED BY <1>3, <1>14, <1>15

\* At the end of a packet what may follow is what lies ahead.
LEMMA PacketEnds ==
    ASSUME NEW x, Asked(x), NEW g, g.read \in Nat, g.left = 0, g.end \in BOOLEAN,
           NEW w \in InPacket(x, g)
    PROVE  w \in After(x, g.read, g.end) /\ g.read <= x.op.size
<1>1. x.id \in Nat /\ g.read + g.left = g.read
  BY DEF Asked
<1>2. PICK s \in After(x, g.read, g.end) : Then(w, PayToks(x.id, g.read + 1, g.read), s)
  BY <1>1, InPacketIs
<1>3. g.read <= x.op.size
  BY AfterInside
<1>4. s \in Seq(Token)
  BY <1>3, AnswerTokens
<1>5. PayToks(x.id, g.read + 1, g.read) = <<>>
  <2>1. g.read + 1 \in Nat /\ g.read + 1 <= g.read + 1 /\ g.read - (g.read + 1) + 1 = 0
    OBVIOUS
  <2>2. PayToks(x.id, g.read + 1, g.read) \in Seq(Token)
        /\ Len(PayToks(x.id, g.read + 1, g.read)) = 0
    BY <1>1, <2>1, PktTokens, ZenonT(40)
  <2> QED BY <2>2, EmptySeq
<1>6. Neutral(s)
  BY <1>4, NeutralLemma
<1>7. w = s
  BY <1>2, <1>5, <1>6 DEF Then, Neutral
<1> QED BY <1>3, <1>7

-----------------------------------------------------------------------------
(***************************************************************************)
(* What getdata has got.                                                   *)
(***************************************************************************)
\* A product grows with its factor.
LEMMA MoreIsMore ==
    ASSUME NEW m \in Nat, NEW a \in Int, NEW b \in Int, a < b
    PROVE  m * b >= m * a + m
<1>1. PICK d \in Nat : b = a + 1 + d
  <2>1. b - a - 1 \in Nat /\ b = a + 1 + (b - a - 1)
    OBVIOUS
  <2> QED BY <2>1
<1>2. m * b = m * a + m + m * d
  BY <1>1
<1>3. m * d \in Nat /\ m * a \in Int
  OBVIOUS
<1> QED BY <1>2, <1>3

\* The blocks that are full, and the rest.
LEMMA DivIs ==
    ASSUME NEW m \in Nat \ {0}, NEW q \in Nat, NEW r \in Nat, r < m, NEW n \in Nat,
           n = m * q + r
    PROVE  n \div m = q /\ n % m = r
<1> DEFINE Q == n \div m
           R == n % m
<1>1. Q \in Int /\ R \in Nat /\ R < m /\ n = m * Q + R
  OBVIOUS
<1> HIDE DEF Q, R
<1>2. m * q \in Int /\ m * Q \in Int /\ m \in Nat
  BY <1>1
<1>3. ~(q < Q)
  <2>1. q < Q => m * Q >= m * q + m
    BY <1>1, MoreIsMore
  <2> QED BY <1>1, <1>2, <2>1
<1>4. ~(Q < q)
  <2>1. Q < q => m * q >= m * Q + m
    BY <1>1, MoreIsMore
  <2> QED BY <1>1, <1>2, <2>1
<1>5. Q = q
  BY <1>1, <1>3, <1>4
<1>6. R = r
  BY <1>1, <1>2, <1>5
<1> QED BY <1>5, <1>6 DEF Q, R

\* The blocks of a payload that fills them.
LEMMA BlocksFull ==
    ASSUME NEW op \in TcpOpType, op.block # 0, op.phase = "get", NEW b \in Seq(Nat),
           \A i \in 1..Len(b) : b[i] = op.block, op.size = op.block * Len(b)
    PROVE  b = BlocksOf(op)
<1> DEFINE m == op.block
           f == [i \in 1..Len(b) |-> m]
<1>1. m \in Nat \ {0} /\ op.size \in Nat /\ Len(b) \in Nat
  BY LenProperties DEF TcpOpType
<1>2. op.size = m * Len(b) + 0 /\ 0 \in Nat /\ 0 < m
  BY <1>1
<1>3. op.size \div m = Len(b) /\ op.size % m = 0
  <2> HIDE DEF m
  <2> QED BY <1>1, <1>2, DivIs, SMTT(20)
<1>4. BlocksOf(op) = f \o <<>>
  BY <1>3 DEF BlocksOf
<1>5. f \in Seq(Nat) /\ Len(f) = Len(b) /\ \A i \in 1..Len(b) : f[i] = m
  BY <1>1, IsASeq
<1> HIDE DEF f
<1>6. Neutral(f)
  BY <1>5, NeutralLemma
<1>7. BlocksOf(op) = f
  BY <1>4, <1>6 DEF Neutral
<1>8. f = b
  BY <1>5, SeqEqual
<1> QED BY <1>7, <1>8

\* The blocks of one that leaves a rest.
LEMMA BlocksRest ==
    ASSUME NEW op \in TcpOpType, op.block # 0, op.phase = "get", NEW b \in Seq(Nat),
           NEW r \in Nat, r # 0, r < op.block,
           \A i \in 1..Len(b) : b[i] = op.block, op.size = op.block * Len(b) + r
    PROVE  Append(b, r) = BlocksOf(op)
<1> DEFINE m == op.block
           f == [i \in 1..Len(b) |-> m]
<1>1. m \in Nat \ {0} /\ op.size \in Nat /\ Len(b) \in Nat
  BY LenProperties DEF TcpOpType
<1>3. op.size \div m = Len(b) /\ op.size % m = r
  <2>1. op.size = m * Len(b) + r /\ r < m
    OBVIOUS
  <2> HIDE DEF m
  <2> QED BY <1>1, <2>1, DivIs, ZenonT(40)
<1>4. BlocksOf(op) = f \o <<r>>
  BY <1>3 DEF BlocksOf
<1>5. f \in Seq(Nat) /\ Len(f) = Len(b) /\ \A i \in 1..Len(b) : f[i] = m
  BY <1>1, IsASeq
<1> HIDE DEF f
<1>6. f = b
  BY <1>5, SeqEqual
<1>7. b \o <<r>> = Append(b, r)
  BY AppendIsConcat
<1> QED BY <1>4, <1>6, <1>7

\* Units of the payload in order, and more of them.
InOrder(x, s) == \A j \in 1..Len(s) : s[j] = Pay(x.id, j)

Onward(x, s, t) == \A j \in 1..Len(t) : t[j] = Pay(x.id, Len(s) + j)

\* Both together are in order again.
LEMMA JoinedPay ==
    ASSUME NEW x, NEW s \in Seq(Token), NEW t \in Seq(Token), InOrder(x, s), Onward(x, s, t)
    PROVE  /\ s \o t \in Seq(Token) /\ Len(s \o t) = Len(s) + Len(t)
           /\ InOrder(x, s \o t)
<1>1. /\ s \o t \in Seq(Token) /\ Len(s \o t) = Len(s) + Len(t)
      /\ Len(s) \in Nat /\ Len(t) \in Nat
      /\ \A i \in 1..Len(s) + Len(t) : (s \o t)[i] = IF i <= Len(s) THEN s[i] ELSE t[i - Len(s)]
  BY LenProperties, ConcatProperties
<1>2. ASSUME NEW j \in 1..Len(s) + Len(t) PROVE (s \o t)[j] = Pay(x.id, j)
  <2>1. CASE j <= Len(s)
    <3>1. j \in 1..Len(s)
      BY <1>1, <2>1
    <3> QED BY <1>1, <2>1, <3>1 DEF InOrder
  <2>2. CASE ~(j <= Len(s))
    <3>1. j - Len(s) \in 1..Len(t) /\ Len(s) + (j - Len(s)) = j
      BY <1>1, <2>2
    <3>2. t[j - Len(s)] = Pay(x.id, Len(s) + (j - Len(s)))
      BY <3>1 DEF Onward
    <3> QED BY <1>1, <2>2, <3>1, <3>2
  <2> QED BY <2>1, <2>2
<1> QED BY <1>1, <1>2 DEF InOrder

\* The units a to b, one by one.
LEMMA PayToksAre ==
    ASSUME NEW id \in Nat, NEW a \in Nat, NEW b \in Nat, a <= b + 1
    PROVE  /\ Len(PayToks(id, a, b)) = b - a + 1
           /\ \A i \in 1..(b - a + 1) : PayToks(id, a, b)[i] = Pay(id, a + i - 1)
<1>1. /\ PayToks(id, a, b) \in Seq(Known(0, {}))
      /\ Len(PayToks(id, a, b)) = b - a + 1
      /\ \A i \in 1..(b - a + 1) : PayToks(id, a, b)[i] = Pay(id, a + i - 1)
  BY PayToksFacts
<1> QED BY <1>1

\* The units after those that are there.
LEMMA UnitsAfter ==
    ASSUME NEW x, Asked(x), NEW s, NEW a \in Nat, NEW n \in Nat, Len(s) = a
    PROVE  Onward(x, s, PayToks(x.id, a + 1, a + n))
<1>1. /\ x.id \in Nat /\ a + 1 \in Nat /\ a + n \in Nat /\ a + 1 <= (a + n) + 1
      /\ (a + n) - (a + 1) + 1 = n
  BY DEF Asked
<1> DEFINE p == PayToks(x.id, a + 1, a + n)
<1>2. /\ Len(p) = (a + n) - (a + 1) + 1
      /\ \A i \in 1..((a + n) - (a + 1) + 1) : p[i] = Pay(x.id, (a + 1) + i - 1)
  <2> PICK lo \in Nat, hi \in Nat, id \in Nat : lo = a + 1 /\ hi = a + n /\ id = x.id
    BY <1>1
  <2>1. lo <= hi + 1
    BY <1>1
  <2>2. /\ Len(PayToks(id, lo, hi)) = hi - lo + 1
        /\ \A i \in 1..(hi - lo + 1) : PayToks(id, lo, hi)[i] = Pay(id, lo + i - 1)
    BY ONLY <2>1, PayToksAre, lo \in Nat, hi \in Nat, id \in Nat
  <2> QED BY <2>2
<1> HIDE DEF p
<1>3. Len(p) = n /\ \A i \in 1..n : p[i] = Pay(x.id, (a + 1) + i - 1)
  BY <1>1, <1>2
<1>4. ASSUME NEW i \in 1..Len(p) PROVE p[i] = Pay(x.id, Len(s) + i)
  <2>1. (a + 1) + i - 1 = Len(s) + i /\ i \in 1..n
    BY <1>3
  <2> QED BY <1>3, <2>1
<1>5. Onward(x, s, p)
  BY <1>4 DEF Onward
<1> QED BY <1>5 DEF p

\* All units in order are the payload.
LEMMA DataWhole ==
    ASSUME NEW x, Asked(x), NEW s \in Seq(Token), InOrder(x, s), Len(s) = x.op.size
    PROVE  s = PayToks(x.id, 1, x.op.size)
<1>1. x.id \in Nat /\ 1 \in Nat /\ x.op.size \in Nat /\ 1 <= x.op.size + 1
      /\ x.op.size - 1 + 1 = x.op.size
  BY DEF Asked
<1> DEFINE p == PayToks(x.id, 1, x.op.size)
<1>2. /\ p \in Seq(Known(0, {})) /\ Len(p) = x.op.size - 1 + 1
      /\ \A i \in 1..(x.op.size - 1 + 1) : p[i] = Pay(x.id, 1 + i - 1)
  BY <1>1, PayToksFacts, ZenonT(40)
<1> HIDE DEF p
<1>3. p \in Seq(Token)
  <2>1. Known(0, {}) \subseteq Token
    BY DEF Known
  <2> QED BY <1>2, <2>1, SeqGrows
<1>4. \A i \in 1..Len(s) : s[i] = p[i]
  <2> TAKE i \in 1..Len(s)
  <2>1. 1 + i - 1 = i /\ i \in 1..(x.op.size - 1 + 1)
    BY <1>1
  <2>2. p[i] = Pay(x.id, 1 + i - 1)
    BY <1>2, <2>1
  <2> QED BY <2>1, <2>2 DEF InOrder
<1>5. s = p
  BY <1>1, <1>2, <1>3, <1>4, SeqEqual
<1> QED BY <1>5 DEF p

\* An operation as the host has it.
Taking(x) == x.op \in TcpOpType /\ x.op.phase = "get" /\ Asked(x)

\* With the last unit and no block in progress everything was handed over.
LEMMA WholeData ==
    ASSUME NEW x, Taking(x), NEW g \in GetType, Gotten(x, g), g.read = x.op.size, g.blk = <<>>
    PROVE  AllGotten(x, g)
<1>1. g.data \in Seq(Token) /\ g.blocks \in Seq(Nat) /\ Len(g.data) \in Nat /\ x.op.size \in Nat
  BY LenProperties DEF GetType, Taking, TcpOpType
<1>2. Len(g.data) = x.op.size
  <2>1. Len(g.blk) = 0
    OBVIOUS
  <2> QED BY <1>1, <2>1 DEF Gotten
<1>3. g.data = PayToks(x.id, 1, x.op.size)
  BY <1>1, <1>2, DataWhole DEF Gotten, InOrder, Taking
<1>4. g.blocks = BlocksOf(x.op)
  <2>1. CASE x.op.block = 0
    BY <2>1 DEF BlocksOf, Gotten
  <2>2. CASE x.op.block # 0
    <3>1. /\ \A i \in 1..Len(g.blocks) : g.blocks[i] = x.op.block
          /\ x.op.size = x.op.block * Len(g.blocks)
      BY <1>2, <2>2 DEF Gotten
    <3> QED BY <1>1, <2>2, <3>1, BlocksFull DEF Taking
  <2> QED BY <2>1, <2>2
<1> QED BY <1>3, <1>4 DEF AllGotten, Taking

\* A full block handed over is part of what was got.
LEMMA FlushedBlock ==
    ASSUME NEW x, Taking(x), NEW g \in GetType, Gotten(x, g), Len(g.blk) = x.op.block,
           g.blk # <<>>, NEW h, h.data = g.data \o g.blk,
           h.blocks = Append(g.blocks, Len(g.blk)), h.blk = <<>>,
           h.total = g.total, h.read = g.read
    PROVE  Gotten(x, h)
<1> DEFINE m == x.op.block
           d == g.data
           b == g.blk
           k == g.blocks
<1>1. d \in Seq(Token) /\ b \in Seq(Token) /\ k \in Seq(Nat) /\ Len(d) \in Nat /\ Len(b) \in Nat
      /\ Len(k) \in Nat /\ x.op.size \in Nat /\ m \in Nat
  BY LenProperties DEF GetType, Taking, TcpOpType
<1>2. m # 0
  <2>1. Len(b) # 0
    BY <1>1, EmptySeq
  <2> QED BY <2>1
<1>3. InOrder(x, d) /\ Onward(x, d, b)
  BY DEF Gotten, InOrder, Onward
<1>4. /\ g.total = x.op.size /\ g.read <= x.op.size /\ Len(d) + Len(b) = g.read
      /\ \A i \in 1..Len(k) : k[i] = m
      /\ Len(d) = m * Len(k)
  BY <1>2 DEF Gotten
<1>5. d \o b \in Seq(Token) /\ Len(d \o b) = Len(d) + Len(b) /\ InOrder(x, d \o b)
  <2> HIDE DEF d, b
  <2> QED BY <1>1, <1>3, JoinedPay
<1>6. /\ Append(k, Len(b)) \in Seq(Nat) /\ Len(Append(k, Len(b))) = Len(k) + 1
      /\ \A i \in 1..Len(k) : Append(k, Len(b))[i] = k[i]
      /\ Append(k, Len(b))[Len(k) + 1] = Len(b)
  BY <1>1, AppendProperties
<1>7. /\ h.data = d \o b /\ h.blocks = Append(k, Len(b)) /\ h.blk = <<>> /\ h.total = x.op.size
      /\ h.read = Len(d) + Len(b) /\ Len(b) = m /\ g.read = Len(d) + Len(b)
  BY <1>4
<1> HIDE DEF m, d, b, k
<1>8. Len(h.data) + Len(h.blk) = h.read /\ h.read <= x.op.size
  BY <1>1, <1>4, <1>5, <1>7
<1>9. \A j \in 1..Len(h.data) : h.data[j] = Pay(x.id, j)
  BY <1>5, <1>7 DEF InOrder
<1>10. \A i \in 1..Len(h.blocks) : h.blocks[i] = m
  <2> TAKE i \in 1..Len(h.blocks)
  <2>1. i \in 1..Len(k) \/ i = Len(k) + 1
    BY <1>1, <1>6, <1>7
  <2> QED BY <1>4, <1>6, <1>7, <2>1
<1>11. Len(h.data) = m * Len(h.blocks)
  <2>1. m * (Len(k) + 1) = m * Len(k) + m
    BY <1>1
  <2> QED BY <1>1, <1>4, <1>5, <1>6, <1>7, <2>1
<1>12. \A j \in 1..Len(h.blk) : h.blk[j] = Pay(x.id, Len(h.data) + j)
  <2>1. Len(h.blk) = 0
    BY <1>7
  <2> QED BY <2>1
<1> QED BY <1>2, <1>7, <1>8, <1>9, <1>10, <1>11, <1>12 DEF Gotten, m

\* The rest handed over, everything was.
LEMMA FlushedRest ==
    ASSUME NEW x, Taking(x), NEW g \in GetType, Gotten(x, g), Len(g.blk) < x.op.block,
           g.blk # <<>>, g.read = x.op.size, NEW h, h.data = g.data \o g.blk,
           h.blocks = Append(g.blocks, Len(g.blk))
    PROVE  AllGotten(x, h)
<1> DEFINE m == x.op.block
           d == g.data
           b == g.blk
           k == g.blocks
<1>1. d \in Seq(Token) /\ b \in Seq(Token) /\ k \in Seq(Nat) /\ Len(d) \in Nat /\ Len(b) \in Nat
      /\ Len(k) \in Nat /\ x.op.size \in Nat /\ m \in Nat /\ x.op \in TcpOpType
  BY LenProperties DEF GetType, Taking, TcpOpType
<1>2. m # 0 /\ Len(b) # 0
  <2>1. Len(b) # 0
    BY <1>1, EmptySeq
  <2> QED BY <1>1, <2>1
<1>3. InOrder(x, d) /\ Onward(x, d, b)
  BY DEF Gotten, InOrder, Onward
<1>4. /\ Len(d) + Len(b) = x.op.size
      /\ \A i \in 1..Len(k) : k[i] = m
      /\ Len(d) = m * Len(k)
  BY <1>2 DEF Gotten
<1>5. d \o b \in Seq(Token) /\ Len(d \o b) = Len(d) + Len(b) /\ InOrder(x, d \o b)
  <2> HIDE DEF d, b
  <2> QED BY <1>1, <1>3, JoinedPay
<1>6. d \o b = PayToks(x.id, 1, x.op.size)
  BY <1>4, <1>5, DataWhole DEF Taking
<1>7. Append(k, Len(b)) = BlocksOf(x.op)
  <2>1. x.op.size = m * Len(k) + Len(b) /\ Len(b) < m /\ x.op.phase = "get"
    BY <1>4 DEF Taking
  <2> HIDE DEF k, b
  <2> QED BY <1>1, <1>2, <1>4, <2>1, BlocksRest DEF m
<1> QED BY <1>6, <1>7 DEF AllGotten, Taking

-----------------------------------------------------------------------------
(***************************************************************************)
(* Where getdata goes on to.                                               *)
(***************************************************************************)
\* The read of the next packet, by what is wanted.
LEMMA ControlNext ==
    ASSUME BaseInv, NEW want \in {"start", "data", "end", "resp"}, ReadControl(want),
           UNCHANGED <<cur, ins>>, cur.op.phase = "get",
           \/ want = "data" /\ Gotten(cur, get') /\ ~get'.end /\ Later \in Packets(cur, get'.read)
           \/ want = "end" /\ AllGotten(cur, get') /\ Later = Closing(cur, FALSE)
           \/ want = "resp" /\ AllGotten(cur, get') /\ Later = Success(cur)
    PROVE  Placed(TRUE)'
<1>1. /\ Ahead' = Later /\ pc' \in Reading /\ rd'.part = "hdr" /\ rd'.want = want
  BY ReadControlAhead DEF Reading
<1>2. cur' = cur
  OBVIOUS
<1> HIDE DEF ReadControl, Later, Ahead, Gotten, AllGotten, Packets, Closing, Success, Answers,
         Refusal, InPacket
<1>3. Control(want)'
  BY <1>1 DEF Control
<1> HIDE DEF Control
<1>4. CASE want = "data" /\ Gotten(cur, get') /\ ~get'.end /\ Later \in Packets(cur, get'.read)
  BY <1>1, <1>2, <1>3, <1>4 DEF Placed
<1>5. CASE want = "end" /\ AllGotten(cur, get') /\ Later = Closing(cur, FALSE)
  BY <1>1, <1>2, <1>3, <1>5 DEF Placed
<1>6. CASE want = "resp" /\ AllGotten(cur, get') /\ Later = Success(cur)
  BY <1>1, <1>2, <1>3, <1>6 DEF Placed
<1> QED BY <1>4, <1>5, <1>6

\* The last unit was handed over: the end of the data phase or the response
\* comes next.
LEMMA LastStep ==
    ASSUME BaseInv, NEW g \in GetType, g.left = 0, ~(g.read < g.total), g.blk = <<>>,
           GoOn(g), cur' = cur, ins' = ins, cur.op.phase = "get", AllGotten(cur, get'),
           Later = Closing(cur, g.end)
    PROVE  Placed(TRUE)'
<1>1. ReadControl(IF g.end THEN "resp" ELSE "end") /\ g.end \in BOOLEAN
  BY DEF GoOn, LoopEnd, GetType
<1> HIDE DEF ReadControl, GoOn, Later, AllGotten
<1>2. CASE g.end
  <2>1. ReadControl("resp") /\ Later = Success(cur)
    BY <1>1, <1>2 DEF Closing
  <2> QED BY <2>1, ControlNext
<1>3. CASE ~g.end
  <2>1. ReadControl("end") /\ Later = Closing(cur, FALSE)
    BY <1>1, <1>3 DEF Closing
  <2> QED BY <2>1, ControlNext
<1> QED BY <1>2, <1>3

\* After a read of payload, a block or the header of a packet, getdata goes on
\* where the camera does.
LEMMA GoOnStep ==
    ASSUME BaseInv, pc \in Calling, NEW g \in GetType, GoOn(g), get' \in GetType,
           UNCHANGED <<cur, ins>>, Taking(cur), Gotten(cur, get'),
           g.left = get'.left, g.read = get'.read, g.total = get'.total, g.end = get'.end,
           g.blk = get'.blk, cur.op.block # 0 => Len(g.blk) < cur.op.block,
           Later \in InPacket(cur, get')
    PROVE  Placed(TRUE)'
<1>1. /\ g.left \in Nat /\ g.read \in Nat /\ g.total \in Nat /\ g.end \in BOOLEAN
      /\ g.blk \in Seq(Token) /\ Len(g.blk) \in Nat /\ cur.op.phase = "get" /\ Asked(cur)
      /\ cur.op.size \in Nat /\ cur.op.block \in Nat
  BY LenProperties DEF GetType, Taking, TcpOpType
<1>2. g.total = cur.op.size /\ g.read <= cur.op.size
  BY DEF Gotten
<1> HIDE DEF Later, Ahead, InPacket, GoOn, Gotten
<1>3. CASE g.left > 0
  <2> DEFINE n == IF cur.op.block = 0 THEN g.left
                  ELSE MinLen(cur.op.block - Len(g.blk), g.left)
  <2>1. StartRead("pay", rd.want, rd.hdr, n)
    BY <1>3 DEF GoOn, NextPay
  <2>2. n \in Nat /\ (cur.op.block = 0 => n = g.left)
    BY <1>1 DEF MinLen
  <2>3. /\ rd.want \in {"none", "start", "data", "end", "resp"} /\ rd.hdr \in KnownTok
        /\ "pay" \in {"hdr", "body", "pay"}
    BY HostTypes
  <2>4. pc' \in {"got", "recv"}
    BY <2>1 DEF StartRead
  <2> HIDE DEF n, StartRead
  <2>5. Ahead' = Later
    <3>1. ins' = ins
      OBVIOUS
    <3>2. Ahead' = IF "pay" = "body" THEN <<rd.hdr>> \o Later ELSE Later
      BY <2>1, <2>2, <2>3, <3>1, StartReadAhead
    <3> QED BY <3>2
  <2>6. rd'.part = "pay" /\ rd'.size = n
    BY <2>1, <2>2, <2>3, StartReadFacts
  <2>7. get'.left > 0 /\ (cur.op.block = 0 => rd'.size = get'.left)
    BY <1>3, <2>2, <2>6
  <2> QED BY <1>1, <2>4, <2>5, <2>6, <2>7 DEF Placed
<1>4. CASE g.left = 0
  <2>1. Later \in After(cur, g.read, g.end)
    <3>1. get'.read \in Nat /\ get'.left = 0 /\ get'.end \in BOOLEAN
      BY <1>1, <1>4
    <3> QED BY <1>1, <3>1, PacketEnds
  <2>2. LoopEnd(g)
    BY <1>4 DEF GoOn
  <2>3. CASE g.read < g.total
    <3>1. ReadControl("data")
      BY <2>2, <2>3 DEF LoopEnd
    <3>2. ~g.end /\ Later \in Packets(cur, g.read)
      BY <1>1, <1>2, <2>1, <2>3 DEF After
    <3> HIDE DEF ReadControl
    <3> QED BY <1>1, <3>1, <3>2, ControlNext
  <2>4. CASE ~(g.read < g.total) /\ g.blk # <<>>
    <3>1. pc' = "handler" /\ UNCHANGED <<rd, buf, fill>>
      BY <2>2, <2>4 DEF LoopEnd
    <3>2. Ahead' = Later
      BY <3>1 DEF Ahead, Later, Reading
    <3>3. get'.read = cur.op.size
      BY <1>1, <1>2, <2>4
    <3>4. Len(get'.blk) <= cur.op.block
      <4>1. cur.op.block # 0
        <5>1. cur.op.block = 0 => get'.blk = <<>>
          BY DEF Gotten
        <5> QED BY <2>4, <5>1
      <4> QED BY <1>1, <4>1
    <3> QED BY <1>1, <2>4, <3>1, <3>2, <3>3, <3>4 DEF Placed
  <2>5. CASE ~(g.read < g.total) /\ g.blk = <<>>
    <3>1. get'.read = cur.op.size /\ get'.blk = <<>>
      BY <1>1, <1>2, <2>5
    <3>2. AllGotten(cur, get')
      BY <3>1, WholeData
    <3>3. Later = Closing(cur, g.end)
      <4>1. g.read = cur.op.size /\ ~(g.read < cur.op.size)
        BY <1>2, <2>5, <3>1
      <4>2. After(cur, g.read, g.end) = {Closing(cur, g.end)}
        BY <4>1 DEF After
      <4> QED BY <2>1, <4>2
    <3>4. /\ g \in GetType /\ g.left = 0 /\ ~(g.read < g.total) /\ g.blk = <<>>
          /\ cur.op.phase = "get" /\ cur' = cur /\ ins' = ins
      BY <1>1, <1>4, <2>5
    <3> QED BY ONLY BaseInv, GoOn(g), <3>2, <3>3, <3>4, LastStep
  <2> QED BY <2>3, <2>4, <2>5
<1>5. g.left > 0 \/ g.left = 0
  BY ONLY <1>1
<1> QED BY <1>3, <1>4, <1>5, Zenon

-----------------------------------------------------------------------------
(***************************************************************************)
(* Each step leaves host and camera at the same point of the exchange, or  *)
(* records a fault (StepInv).                                              *)
(***************************************************************************)
\* Where no fault is recorded, there was none before and none was added.
LEMMA CleanBefore ==
    ASSUME conn' = conn, faultAt' \in {faultAt, conn.n}, Clean'
    PROVE  Clean /\ faultAt' = faultAt
  BY DEF Clean

\* An operation that is abandoned records a fault.
LEMMA NotAborted == ASSUME conn' = conn, Clean', NEW rc PROVE ~Abort(rc)
  BY DEF Abort, Clean

\* A step within a call.
LEMMA StepWithin ==
    ASSUME pc' \in Calling, CallStep'
    PROVE  StepInv'
  BY DEF StepInv, RestStep, Calling

\* Where an answer is being read it has a place.
LEMMA GotAnswered ==
    ASSUME StepInv, Clean, \/ pc = "got" /\ rd.part # "hdr"
                           \/ pc \in {"recv", "handler"}
    PROVE  \E ok \in BOOLEAN : Answered(ok)
<1>1. CallStep /\ pc \in Calling
  BY DEF StepInv, Calling
<1>2. ~Asking
  BY DEF Asking
<1>3. ~Spoiled
  BY DEF Spoiled
<1> QED BY <1>1, <1>2, <1>3 DEF CallStep

\* A step that goes on to another place in the answer.
LEMMA StepAnswered ==
    ASSUME NEW ok \in BOOLEAN, Answered(ok), UNCHANGED <<outs, cam, done, phase, cur>>,
           Placed(ok)'
    PROVE  StepInv'
<1>1. pc' \in Calling
  BY DEF Placed, Control, Reading, Calling
<1>2. Rested' /\ Session(ok)' /\ ((cur.id \in done) = ok)'
  BY DEF Answered, Rested, Session
<1>3. Answered(ok)'
  BY <1>2 DEF Answered
<1>4. CallStep'
  BY <1>3 DEF CallStep
<1> QED BY <1>1, <1>4, StepWithin

\* A read that goes on, or turns from the header of a packet to its body,
\* stays where it is in the answer.
LEMMA SamePlace ==
    ASSUME NEW ok \in BOOLEAN, Answered(ok),
           UNCHANGED <<phase, cur, get, outs, cam, done>>, Ahead' = Ahead,
           pc # "handler", pc' \in Reading, rd'.want = rd.want,
           rd.part \in {"hdr", "body"} => rd'.part \in {"hdr", "body"},
           pc \in {"recv", "got"} /\ rd.part = "pay" =>
              pc' \in {"recv", "got"} /\ rd'.part = "pay" /\ rd'.size = rd.size
    PROVE  StepInv'
<1>1. \A want : Control(want) => Control(want)'
  BY DEF Control
<1>2. Placed(ok)
  BY DEF Answered
<1>3. Placed(ok)'
  <2>1. CASE /\ Control("start") /\ cur.op.phase = "get" /\ get = NoGet
             /\ IF ok THEN Ahead \in Answers(cur) ELSE Ahead = Refusal(cur)
    BY <1>1, <2>1 DEF Placed
  <2>2. CASE /\ Control("data") /\ cur.op.phase = "get" /\ ok
             /\ Gotten(cur, get) /\ ~get.end
             /\ Ahead \in Packets(cur, get.read)
    BY <1>1, <2>2 DEF Placed
  <2>3. CASE /\ pc \in {"recv", "got"} /\ rd.part = "pay" /\ cur.op.phase = "get" /\ ok
             /\ Gotten(cur, get) /\ get.left > 0
             /\ cur.op.block = 0 => rd.size = get.left
             /\ Ahead \in InPacket(cur, get)
    BY <2>3 DEF Placed
  <2>4. CASE /\ Control("end") /\ cur.op.phase = "get" /\ ok
             /\ AllGotten(cur, get)
             /\ Ahead = Closing(cur, FALSE)
    BY <1>1, <2>4 DEF Placed
  <2>5. CASE /\ Control("resp")
             /\ \/ cur.op.phase = "get" /\ ok /\ AllGotten(cur, get)
                \/ cur.op.phase # "get" /\ get = NoGet
             /\ Ahead = IF ok THEN Success(cur) ELSE Refusal(cur)
    BY <1>1, <2>5 DEF Placed
  <2> QED BY <1>2, <2>1, <2>2, <2>3, <2>4, <2>5 DEF Placed
<1> QED BY <1>3, StepAnswered

\* A read that goes on in a stream that holds the rest of an init ack.
LEMMA SameSpoiled ==
    ASSUME Spoiled, UNCHANGED <<phase, cur, outs, cam>>, Ahead' = Ahead,
           pc \in Reading, pc' \in {"fill", "got"}, rd'.part = "hdr"
    PROVE  StepInv'
<1>1. SentSoFar' = SentSoFar /\ TakenSoFar' = TakenSoFar
  BY DEF SentSoFar, TakenSoFar, Reading, Messages
<1>2. OnTheWire => OnTheWire'
  BY <1>1 DEF OnTheWire
<1>3. Rested => Rested'
  BY DEF Rested
<1>4. Spoiled'
  BY <1>2, <1>3 DEF Spoiled
<1>5. pc' \in Calling
  BY DEF Calling
<1> QED BY <1>4, <1>5, StepWithin DEF CallStep

\* A recv of a control read.
LEMMA FillStep == ASSUME BaseInv, StepInv, Fill, Clean' PROVE StepInv'
<1>1. /\ Ahead' = Ahead /\ ins # <<>> /\ Unmoved
      /\ pc' \in {"fill", "got"} /\ rd'.part = rd.part /\ rd'.want = rd.want
  BY FillAhead
<1>2. /\ pc = "fill" /\ pc \in Reading /\ pc \in Calling
      /\ UNCHANGED <<phase, conn, cur, get, outs, cam, done>>
      /\ faultAt' = faultAt
  BY <1>1 DEF Unmoved, Fill, Reading, Calling
<1>3. Clean
  BY <1>2 DEF Clean
<1>4. ~Asking
  BY <1>1 DEF Asking
<1>5. CASE Spoiled
  <2>1. rd'.part = "hdr"
    BY <1>1, <1>2, <1>5 DEF Spoiled
  <2> QED BY <1>1, <1>2, <1>5, <2>1, SameSpoiled
<1>6. CASE \E ok \in BOOLEAN : Answered(ok)
  <2>1. PICK ok \in BOOLEAN : Answered(ok)
    BY <1>6
  <2>2. pc' \in Reading
    BY <1>1 DEF Reading
  <2> QED BY <1>1, <1>2, <2>1, <2>2, SamePlace
<1> QED BY <1>2, <1>3, <1>4, <1>5, <1>6 DEF StepInv, CallStep

\* A recv of payload.
LEMMA RecvDataStep == ASSUME BaseInv, StepInv, RecvData, Clean' PROVE StepInv'
<1>1. /\ Ahead' = Ahead /\ Unmoved
      /\ pc' \in {"recv", "got"} /\ rd'.part = rd.part /\ rd'.want = rd.want
      /\ rd'.size = rd.size
  BY RecvDataAhead
<1>2. /\ pc = "recv"
      /\ UNCHANGED <<phase, conn, cur, get, outs, cam, done>>
      /\ faultAt' = faultAt
  BY <1>1 DEF Unmoved, RecvData
<1>3. Clean
  BY <1>2 DEF Clean
<1>4. PICK ok \in BOOLEAN : Answered(ok)
  BY <1>2, <1>3, GotAnswered
<1>5. pc' \in Reading
  BY <1>1 DEF Reading
<1> QED BY <1>1, <1>2, <1>4, <1>5, SamePlace

\* A header read: the read of the body takes its place.
LEMMA HeaderStep == ASSUME BaseInv, StepInv, Header, Clean' PROVE StepInv'
<1>1. /\ pc = "got" /\ rd.part = "hdr" /\ UNCHANGED <<phase, conn, cur, get, outs, ins, cam, done>>
      /\ ins' = ins
  BY DEF Header, net
<1> DEFINE h == rd.dst[1]
<1>2. /\ h.k \notin {"pay", "par", "tid"}
      /\ StartRead("body", rd.want, h, BodyLen(h))
      /\ faultAt' = faultAt
  BY <1>1, NotAborted DEF Header
<1>3. Clean
  BY <1>1, <1>2 DEF Clean
<1>4. h \in KnownTok /\ Len(rd.dst) = 1 /\ rd.dst \in Seq(Token)
  <2>1. rd.size = 1 /\ \A i \in 1..rd.size : rd.dst[i] \in KnownTok
    BY <1>1, GotFacts
  <2>2. Len(rd.dst) = rd.size
    BY <1>1 DEF BaseInv, ReadInv
  <2> QED BY <2>1, <2>2, Pieces
<1>5. Ahead = <<h>> \o Later
  <2>1. Ahead = rd.dst \o Later
    BY <1>1, AheadGot
  <2>2. rd.dst = <<h>>
    <3>1. <<h>> \in Seq(Token) /\ Len(<<h>>) = 1 /\ <<h>>[1] = h
      <4>1. h \in Token
        BY <1>4, KnownTokens
      <4> QED BY <4>1, OneSeq
    <3>2. \A i \in 1..Len(rd.dst) : rd.dst[i] = <<h>>[i]
      BY <1>4, <3>1
    <3> QED BY <1>4, <3>1, <3>2, SeqEqual
  <2> QED BY <2>1, <2>2
<1>6. BodyLen(h) \in Nat
  BY <1>4 DEF BodyLen, KnownTok, Known, Token
<1>7. /\ rd.want \in {"none", "start", "data", "end", "resp"}
      /\ "body" \in {"hdr", "body", "pay"}
  BY HostTypes
<1> HIDE DEF h
<1>8. Ahead' = <<h>> \o Later
  <2>1. Ahead' = IF "body" = "body" THEN <<h>> \o Later ELSE Later
    BY <1>1, <1>2, <1>4, <1>6, <1>7, StartReadAhead
  <2> QED BY <2>1
<1>9. pc' \in Reading /\ rd'.part = "body" /\ rd'.want = rd.want
  BY <1>2, <1>4, <1>6, <1>7, StartReadFacts
<1>10. ~Spoiled
  <2>1. SUFFICES ASSUME Spoiled PROVE FALSE
    OBVIOUS
  <2>2. Odd(Ahead[1])
    BY <2>1 DEF Spoiled
  <2>3. Ahead[1] = h
    <3>1. <<h>> \in Seq(Token) /\ Len(<<h>>) = 1 /\ <<h>>[1] = h /\ Later \in Seq(Token)
      <4>1. h \in Token
        BY <1>4, KnownTokens
      <4> QED BY <4>1, OneSeq, Pieces
    <3>2. (<<h>> \o Later)[1] = h
      <4>1. Len(Later) \in Nat /\ 1 \in 1..(Len(<<h>>) + Len(Later))
        BY <3>1, LenProperties
      <4> HIDE DEF Later
      <4> QED BY <3>1, <4>1, ConcatProperties
    <3> QED BY <1>5, <3>2
  <2> QED BY <1>2, <2>2, <2>3 DEF Odd
<1>11. ~Asking
  BY <1>1 DEF Asking
<1>12. PICK ok \in BOOLEAN : Answered(ok)
  BY <1>1, <1>3, <1>10, <1>11 DEF StepInv, CallStep, Calling
<1>13. Ahead' = Ahead
  BY <1>5, <1>8
<1> QED BY <1>1, <1>9, <1>12, <1>13, SamePlace

\* Nothing lies ahead when the stream and the buffer are empty.
LEMMA NothingLater ==
    ASSUME BaseInv, Later = <<>>
    PROVE  buf = Empty /\ ins = <<>>
<1> DEFINE b == buf.data
<1>1. b \in Seq(Token) /\ ins \in Seq(Token) /\ Len(b) \in Nat /\ Len(ins) \in Nat
  BY Pieces, LenProperties
<1>2. Len(b \o ins) = Len(b) + Len(ins)
  <2> HIDE DEF b
  <2> QED BY <1>1, ConcatProperties
<1>3. b \o ins = <<>>
  BY DEF Later
<1> HIDE DEF b
<1>4. Len(b) + Len(ins) = 0
  BY <1>2, <1>3
<1>5. b = <<>> /\ ins = <<>>
  <2>1. Len(b) = 0 /\ Len(ins) = 0
    BY <1>1, <1>4
  <2> QED BY <1>1, <2>1, EmptySeq
<1>6. buf.data = <<>> => buf = Empty
  BY HostTypes
<1> QED BY <1>5, <1>6 DEF b

\* A call ends: the host is at rest with the camera.  Only a get is abandoned
\* without a fault for a response that should not come.
LEMMA FinishRest ==
    ASSUME BaseInv, NEW ok \in BOOLEAN, Rested, Session(ok), Later = <<>>, pc \in Calling,
           NEW rc, NEW from, Finish(rc, from), UNCHANGED <<conn, buf, ins, outs, cam>>,
           (rc = "ok") = ok, ok \/ rc = "err" \/ phase \in {"info", "use"}
    PROVE  StepInv'
<1>1. buf = Empty /\ ins = <<>> /\ buf' = buf /\ ins' = ins /\ outs' = outs /\ cam' = cam
      /\ conn' = conn
  BY NothingLater
<1>2. Rested'
  BY <1>1 DEF Rested
<1>3. AtRest' <=> cam.session
  BY <1>1, <1>2 DEF AtRest
<1>4. phase \in {"open", "info", "use", "close"}
  BY DEF BaseInv, TypeOK
<1>5. phase \in {"info", "use", "close"} => conn.connected
  BY DEF BaseInv, CallInv
<1>6. phase = "open" => ~conn.connected
  BY DEF BaseInv, CallInv
<1>7. cam.session = IF ok THEN phase # "close" ELSE phase # "open"
  BY DEF Session
<1>8. result'.rc = rc
  BY DEF Finish
<1>9. CASE phase = "use"
  <2>1. pc' = "idle" /\ AtRest'
    BY <1>3, <1>7, <1>9 DEF Finish
  <2> QED BY <2>1 DEF StepInv, CallStep, RestStep, Calling
<1>10. CASE phase = "close"
  <2>1. pc' = "closing" /\ (cam.session => rc = "err")
    BY <1>7, <1>10 DEF Finish
  <2> QED BY <1>1, <1>2, <1>8, <2>1 DEF StepInv, CallStep, RestStep, Calling
<1>11. CASE phase = "open"
  <2>1. CASE ok
    <3>1. pc' = "opened" /\ AtRest'
      BY <1>3, <1>7, <1>11, <2>1 DEF Finish
    <3> QED BY <3>1 DEF StepInv, CallStep, RestStep, Calling
  <2>2. CASE ~ok
    <3>1. pc' = "failed" /\ ~cam.session
      BY <1>7, <1>11, <2>2 DEF Finish
    <3> QED BY <1>1, <1>2, <1>6, <1>11, <3>1 DEF StepInv, CallStep, RestStep, Calling
  <2> QED BY <2>1, <2>2
<1>12. CASE phase = "info"
  <2>1. pc' \in {"idle", "failed"} /\ AtRest'
    BY <1>3, <1>7, <1>12 DEF Finish
  <2> QED BY <1>1, <1>5, <1>12, <2>1 DEF StepInv, CallStep, RestStep, Calling
<1> QED BY <1>4, <1>9, <1>10, <1>11, <1>12

\* A get is never the operation that opens or closes the session.
LEMMA GetPhase ==
    ASSUME BaseInv, pc \in Calling, cur.op.phase = "get"
    PROVE  phase \in {"info", "use"} /\ Taking(cur)
<1>1. OpenSession.phase = "none" /\ CloseSession.phase = "none"
  BY DEF OpenSession, CloseSession
<1>2. phase \in {"open", "info", "use", "close"}
  BY DEF BaseInv, TypeOK
<1>3. phase \in {"info", "use"}
  BY <1>1, <1>2 DEF BaseInv, CallInv
<1> QED BY <1>3, CurAsked, HostTypes DEF Taking

\* The start of a data phase is at hand.
LEMMA StartHere ==
    ASSUME BaseInv, pc = "got", rd.part = "body", rd.want = "start", Answered(TRUE)
    PROVE  rd.hdr.k = "start" /\ rd.dst[1].n = cur.op.size /\ Later \in Packets(cur, 0)
<1>1. Ahead \in Answers(cur) /\ Asked(cur)
  BY CurAsked DEF Answered, Placed, Control
<1>2. PICK s \in Packets(cur, 0) : Then(Ahead, StartPkt(cur), s)
  BY <1>1 DEF Answers, Then
<1> DEFINE t == Tok("start", cur.id, 1)
           l == Tok("len", cur.id, cur.op.size)
<1>3. /\ StartPkt(cur) = <<t>> \o <<l>>
      /\ t \in Known(0, {}) /\ l \in Known(0, {})
  BY <1>1, StartPktFacts DEF StartPkt, Asked
<1>4. PacketOf(StartPkt(cur), t, <<l>>)
  BY <1>3 DEF PacketOf
<1>5. t \in Token /\ l \in Token
  BY <1>3 DEF Known
<1>6. t.k = "start" /\ t.n = 1 /\ l.n = cur.op.size
  BY DEF Tok
<1> HIDE DEF t, l
<1>7. s \in Seq(Token)
  <2>1. 0 \in Nat /\ 0 <= cur.op.size
    BY <1>1 DEF Asked
  <2> QED BY <1>1, <2>1, AnswerTokens
<1>8. <<l>> \in Seq(Token) /\ Len(<<l>>) = 1 /\ <<l>>[1] = l
  BY <1>5, OneSeq
<1>9. Begins(t, <<l>>, s)
  BY <1>2, <1>4, <1>5, <1>7, <1>8, BeginsPacket
<1>10. Len(<<l>>) = BodyLen(t)
  BY <1>6, <1>8 DEF BodyLen, IsData
<1>11. rd.hdr = t /\ rd.dst = <<l>> /\ Later = s
  BY <1>5, <1>7, <1>8, <1>9, <1>10, BodyCut
<1> QED BY <1>6, <1>8, <1>11

\* The start of a data phase, or the response of an operation refused.
LEMMA StartDataStep == ASSUME BaseInv, StepInv, StartData, Clean' PROVE StepInv'
<1>1. /\ pc = "got" /\ rd.part = "body" /\ rd.want = "start" /\ pc \in Calling
      /\ UNCHANGED <<phase, conn, cur, outs, cam, done>> /\ ins' = ins
  BY DEF StartData, net, Calling
<1>2. faultAt' = faultAt
  BY <1>1, NotAborted DEF StartData
<1>3. Clean
  BY <1>1, <1>2 DEF Clean
<1>4. PICK ok \in BOOLEAN : Answered(ok)
  BY <1>1, <1>3, GotAnswered
<1>5. /\ cur.op.phase = "get" /\ get = NoGet
      /\ IF ok THEN Ahead \in Answers(cur) ELSE Ahead = Refusal(cur)
  BY <1>1, <1>4 DEF Answered, Placed, Control
<1>6. Asked(cur) /\ phase \in {"info", "use"} /\ get \in GetType
  BY <1>1, <1>5, CurAsked, GetPhase, HostTypes
<1>7. CASE ok
  <2>1. Answered(TRUE)
    BY <1>4, <1>7
  <2>2. rd.hdr.k = "start" /\ rd.dst[1].n = cur.op.size /\ Later \in Packets(cur, 0)
    BY <1>1, <2>1, StartHere
  <2>3. get' = [get EXCEPT !.total = cur.op.size] /\ ReadControl("data")
    <3>1. ~IsResp(rd.hdr) /\ rd.hdr.k = "start" /\ rd.dst[1].n = cur.op.size
      BY <2>2 DEF IsResp
    <3> QED BY <3>1 DEF StartData
  <2>4. Gotten(cur, get') /\ ~get'.end /\ get'.read = 0
    <3>1. /\ get'.total = cur.op.size /\ get'.read = 0 /\ get'.data = <<>> /\ get'.blk = <<>>
          /\ get'.blocks = <<>> /\ get'.end = FALSE
      BY <1>5, <2>3 DEF NoGet
    <3>2. cur.op.size \in Nat /\ cur.op.block \in Nat /\ cur.op.block * 0 = 0
      BY HostTypes, SMTT(20)
    <3> QED BY <3>1, <3>2 DEF Gotten
  <2>5. Placed(TRUE)'
    <3>1. Later \in Packets(cur, get'.read)
      BY <2>2, <2>4
    <3>2. UNCHANGED <<cur, ins>>
      BY <1>1
    <3> QED BY <1>5, <2>3, <2>4, <3>1, <3>2, ControlNext
  <2>6. Answered(TRUE) /\ Placed(TRUE)'
    BY <1>4, <1>7, <2>5
  <2> QED BY <1>1, <2>6, StepAnswered
<1>8. CASE ~ok
  <2> DEFINE t == Tok("err", cur.id, 1)
             u == Pars(cur.id, 0)
  <2>1. PacketOf(Ahead, t, u) /\ u \in Seq(Token) /\ Len(u) = 1 /\ t \in Token
    BY <1>5, <1>6, <1>8, CallTokens
  <2>2. t.k = "err" /\ t.n = 1
    BY DEF Tok
  <2> HIDE DEF t, u
  <2>3. Begins(t, u, <<>>) /\ <<>> \in Seq(Token)
    BY <2>1, BeginsAlone, EmptySeq
  <2>4. Len(u) = BodyLen(t)
    BY <2>1, <2>2 DEF BodyLen, IsData
  <2>5. rd.hdr = t /\ Later = <<>>
    BY <1>1, <2>1, <2>3, <2>4, BodyCut
  <2>6. Finish("dataexpected", cur.id) /\ UNCHANGED buf
    <3>1. IsResp(rd.hdr) /\ rd.hdr.k # "start"
      BY <2>2, <2>5 DEF IsResp
    <3> QED BY <3>1 DEF StartData
  <2>7. Rested /\ Session(ok)
    BY <1>4 DEF Answered
  <2>8. UNCHANGED <<conn, buf, ins, outs, cam>> /\ ("dataexpected" = "ok") = ok
    BY <1>1, <1>8, <2>6
  <2> QED BY <1>1, <1>6, <2>5, <2>6, <2>7, <2>8, FinishRest
<1> QED BY <1>7, <1>8

\* A data packet with the next units is at hand.
LEMMA DataHere ==
    ASSUME BaseInv, pc = "got", rd.part = "body", rd.want = "data", Answered(TRUE)
    PROVE  \E e \in BOOLEAN, b \in Nat : \E s \in After(cur, b, e) :
              /\ get.read <= b /\ b <= cur.op.size
              /\ rd.hdr.k = KindOf(e) /\ rd.hdr.n - 1 = b - get.read
              /\ Then(Later, PayToks(cur.id, get.read + 1, b), s)
<1>1. /\ cur.op.phase = "get" /\ Gotten(cur, get) /\ ~get.end
      /\ Ahead \in Packets(cur, get.read)
  BY DEF Answered, Placed, Control
<1>2. Asked(cur) /\ get.read \in Nat /\ get.read <= cur.op.size
      /\ cur.id \in Nat /\ cur.op.size \in Nat
  BY <1>1, CurAsked, HostTypes DEF Gotten
<1> DEFINE r == get.read
<1>3. PICK e \in BOOLEAN, b \in Nat :
         /\ r <= b /\ b <= cur.op.size
         /\ \E s \in After(cur, b, e) : Then(Ahead, DataPkt(KindOf(e), cur.id, r + 1, b), s)
  BY <1>1, <1>2, NextPacket
<1>4. PICK s \in After(cur, b, e) : Then(Ahead, DataPkt(KindOf(e), cur.id, r + 1, b), s)
  BY <1>3
<1> DEFINE k == KindOf(e)
           t == Tok(k, cur.id, b - (r + 1) + 2)
           i == Tok("tid", cur.id, 0)
           p == PayToks(cur.id, r + 1, b)
           w == DataPkt(k, cur.id, r + 1, b)
<1>5. k \in {"data", "end"} /\ (k = "end" <=> e) /\ r + 1 \in Nat /\ r + 1 <= b + 1
  BY <1>2, <1>3 DEF KindOf
<1>6. /\ PacketOf(w, t, <<i>> \o p) /\ t \in Token /\ i \in Token /\ p \in Seq(Token)
  <2> HIDE DEF k
  <2> QED BY <1>2, <1>5, PktTokens, ZenonT(40)
<1>7. t.k = k /\ t.n = b - (r + 1) + 2
  BY DEF Tok
<1>8. s \in Seq(Token)
  BY <1>2, <1>3, <1>4, AnswerTokens
<1>9. Then(Ahead, w, s)
  BY <1>4
<1>10. t.n - 1 = b - r
  BY <1>2, <1>7
<1> HIDE DEF t, i, p, w, k
<1>11. <<i>> \in Seq(Token) /\ Len(<<i>>) = 1 /\ <<i>> \o p \in Seq(Token)
  <2>1. <<i>> \in Seq(Token) /\ Len(<<i>>) = 1
    BY <1>6, OneSeq
  <2>2. <<i>> \o p \in Seq(Token)
    BY <1>6, <2>1, ConcatProperties
  <2> QED BY <2>1, <2>2
<1>12. Begins(t, <<i>> \o p, s)
  BY <1>6, <1>8, <1>9, <1>11, BeginsPacket
<1>13. Begins(t, <<i>>, p \o s) /\ p \o s \in Seq(Token)
  <2>1. p \o s \in Seq(Token)
    BY <1>6, <1>8, ConcatProperties
  <2>2. Begins(t, <<i>>, p \o s)
    BY <1>6, <1>8, <1>11, <1>12, BeginsLonger
  <2> QED BY <2>1, <2>2
<1>14. Len(<<i>>) = BodyLen(t)
  BY <1>5, <1>7, <1>11 DEF BodyLen, IsData
<1>15. rd.hdr = t /\ Later = p \o s
  BY <1>6, <1>11, <1>13, <1>14, BodyCut
<1>16. rd.hdr.k = k /\ rd.hdr.n - 1 = b - r
  BY <1>7, <1>10, <1>15
<1>17. Then(Later, p, s)
  BY <1>15 DEF Then
<1> QED BY <1>3, <1>16, <1>17 DEF k, p

\* A data packet begins.
LEMMA DataStartsStep == ASSUME BaseInv, StepInv, DataStarts, Clean' PROVE StepInv'
<1>1. /\ pc = "got" /\ rd.part = "body" /\ rd.want = "data" /\ pc \in Calling
      /\ UNCHANGED <<phase, conn, cur, outs, cam, done>> /\ ins' = ins
  BY DEF DataStarts, net, Calling
<1>2. /\ IsData(rd.hdr) /\ faultAt' = faultAt
      /\ get' = [get EXCEPT !.left = rd.hdr.n - 1, !.end = @ \/ rd.hdr.k = "end"]
      /\ GoOn(get')
  BY <1>1, NotAborted DEF DataStarts
<1>3. Clean
  BY <1>1, <1>2 DEF Clean
<1>4. PICK ok \in BOOLEAN : Answered(ok)
  BY <1>1, <1>3, GotAnswered
<1>5. /\ cur.op.phase = "get" /\ ok /\ Gotten(cur, get) /\ ~get.end
      /\ Ahead \in Packets(cur, get.read)
  BY <1>1, <1>4 DEF Answered, Placed, Control
<1>6. Asked(cur) /\ Taking(cur) /\ get \in GetType /\ get.read \in Nat /\ get.read <= cur.op.size
      /\ cur.id \in Nat /\ cur.op.size \in Nat
  BY <1>1, <1>5, CurAsked, GetPhase, HostTypes DEF Gotten
<1> DEFINE r == get.read
<1>7. Answered(TRUE)
  BY <1>4, <1>5
<1>8. PICK e \in BOOLEAN, b \in Nat : \E s \in After(cur, b, e) :
         /\ r <= b /\ b <= cur.op.size
         /\ rd.hdr.k = KindOf(e) /\ rd.hdr.n - 1 = b - r
         /\ Then(Later, PayToks(cur.id, r + 1, b), s)
  BY <1>1, <1>7, DataHere
<1>9. PICK s \in After(cur, b, e) :
         /\ r <= b /\ b <= cur.op.size
         /\ rd.hdr.k = KindOf(e) /\ rd.hdr.n - 1 = b - r
         /\ Then(Later, PayToks(cur.id, r + 1, b), s)
  BY <1>8
<1>10. /\ get'.left = b - r /\ get'.read = r /\ get'.end = e /\ get'.total = get.total
       /\ get'.data = get.data /\ get'.blk = get.blk /\ get'.blocks = get.blocks
       /\ get' \in GetType
  <2>1. rd.hdr.n - 1 = b - r /\ b - r \in Nat /\ (rd.hdr.k = "end" <=> e)
    <3>1. rd.hdr.n - 1 = b - r /\ rd.hdr.k = KindOf(e)
      BY <1>9
    <3>2. b - r \in Nat
      BY <1>6, <1>9
    <3>3. KindOf(e) = "end" <=> e
      BY DEF KindOf
    <3> QED BY <3>1, <3>2, <3>3, Zenon
  <2> DEFINE n == rd.hdr.n - 1
             f == get.end \/ rd.hdr.k = "end"
  <2>2. n \in Nat /\ f \in BOOLEAN /\ f = e /\ n = b - r
    BY <1>5, <2>1
  <2>3. get' = [get EXCEPT !.left = n, !.end = f]
    BY <1>2
  <2> HIDE DEF n, f
  <2> QED BY <1>6, <2>2, <2>3 DEF GetType
<1>11. Gotten(cur, get')
  BY <1>5, <1>10 DEF Gotten
<1>12. Later \in InPacket(cur, get')
  <2>1. get'.read + get'.left = b
    BY <1>6, <1>9, <1>10
  <2>2. Then(Later, PayToks(cur.id, get'.read + 1, get'.read + get'.left), s)
    BY <1>9, <1>10, <2>1
  <2>3. s \in After(cur, get'.read + get'.left, get'.end)
    BY <1>10, <2>1
  <2> QED BY <2>2, <2>3, InPacketIs
<1>13. cur.op.block # 0 => Len(get'.blk) < cur.op.block
  BY <1>1, <1>10, BlockRoom
<1>14. Placed(TRUE)'
  <2> DEFINE g == get'
  <2>1. g \in GetType /\ GoOn(g) /\ UNCHANGED <<cur, ins>>
    BY <1>1, <1>2, <1>10
  <2> QED BY <1>1, <1>6, <1>11, <1>12, <1>13, <2>1, GoOnStep
<1>15. Answered(TRUE)
  BY <1>4, <1>5
<1> QED BY <1>1, <1>14, <1>15, StepAnswered

\* Payload read: the units that come next, in order.
LEMMA PayReadStep == ASSUME BaseInv, StepInv, PayRead, Clean' PROVE StepInv'
<1>1. /\ pc = "got" /\ rd.part = "pay" /\ pc \in Calling
      /\ UNCHANGED <<phase, conn, cur, outs, cam, done>> /\ ins' = ins /\ faultAt' = faultAt
  BY DEF PayRead, net, Calling
<1>3. Clean
  BY <1>1 DEF Clean
<1>4. PICK ok \in BOOLEAN : Answered(ok)
  BY <1>1, <1>3, GotAnswered
<1>5. /\ cur.op.phase = "get" /\ ok /\ Gotten(cur, get)
      /\ Ahead \in InPacket(cur, get)
  BY <1>1, <1>4 DEF Answered, Placed, Control
<1>6. /\ Asked(cur) /\ Taking(cur) /\ get \in GetType /\ get.read \in Nat /\ get.left \in Nat
      /\ get.end \in BOOLEAN /\ cur.id \in Nat /\ cur.op.size \in Nat /\ cur.op.block \in Nat
      /\ get.data \in Seq(Token) /\ get.blk \in Seq(Token) /\ get.blocks \in Seq(Nat)
      /\ get.total \in Nat
  BY <1>1, <1>5, CurAsked, GetPhase, HostTypes
<1> DEFINE n == rd.size
           d == rd.dst
           g == [get EXCEPT !.left = @ - n, !.read = @ + n]
<1>7. /\ n \in Nat /\ n <= get.left /\ Len(d) = n /\ d \in Seq(Token) /\ Later \in Seq(Token)
      /\ cur.op.block # 0 => n + Len(get.blk) <= cur.op.block
  <2>1. n \in Nat
    BY HostTypes
  <2>2. n <= get.left /\ (cur.op.block # 0 => n + Len(get.blk) <= cur.op.block)
    BY <1>1 DEF BaseInv, ReadInv, Reading
  <2>3. Len(d) = n
    BY <1>1 DEF BaseInv, ReadInv
  <2> QED BY <2>1, <2>2, <2>3, Pieces
<1>8. /\ g.left = get.left - n /\ g.read = get.read + n /\ g.end = get.end
      /\ g.total = get.total /\ g.data = get.data /\ g.blk = get.blk /\ g.blocks = get.blocks
      /\ g \in GetType
  <2>1. get.left - n \in Nat /\ get.read + n \in Nat
    BY <1>6, <1>7, SMTT(20)
  <2> HIDE DEF n
  <2> QED BY <1>6, <2>1 DEF GetType
<1>9. /\ d = PayToks(cur.id, get.read + 1, get.read + n)
      /\ Later \in InPacket(cur, g)
      /\ get.read + get.left <= cur.op.size
  <2>1. Then(Ahead, d, Later)
    BY <1>1, AheadGot DEF Then
  <2> HIDE DEF d, n, g
  <2> QED BY <1>5, <1>6, <1>7, <1>8, <2>1, PayCut
<1>10. IF cur.op.block = 0
       THEN get' = [g EXCEPT !.data = @ \o d] /\ GoOn(g)
       ELSE /\ get' = [g EXCEPT !.blk = @ \o d]
            /\ IF Len(get'.blk) = cur.op.block
               THEN pc' = "handler" /\ UNCHANGED <<rd, buf, fill>>
               ELSE GoOn(get')
  BY DEF PayRead
<1>11. g.read \in Nat /\ g.read <= cur.op.size
  <2>1. get.read + n \in Nat /\ get.read + n <= cur.op.size
    <3>1. get.read \in Nat /\ get.left \in Nat /\ cur.op.size \in Nat
      BY <1>6
    <3>2. n \in Nat /\ n <= get.left
      BY <1>7
    <3>3. get.read + get.left <= cur.op.size
      BY <1>9
    <3> HIDE DEF n
    <3> QED BY ONLY <3>1, <3>2, <3>3
  <2>2. g.read = get.read + n
    BY <1>8
  <2> HIDE DEF g, n
  <2> QED BY <2>1, <2>2
<1>12. /\ InOrder(cur, get.data) /\ Onward(cur, get.data, get.blk)
       /\ get.total = cur.op.size /\ Len(get.data) + Len(get.blk) = get.read
       /\ Len(get.data) \in Nat /\ Len(get.blk) \in Nat
  BY <1>5, <1>6, LenProperties DEF Gotten, InOrder, Onward
<1> HIDE DEF g
<1>13. CASE cur.op.block = 0
  <2>1. get' = [g EXCEPT !.data = @ \o d] /\ GoOn(g)
    BY <1>10, <1>13
  <2>2. get.blk = <<>> /\ get.blocks = <<>> /\ Len(get.data) = get.read
    <3>1. get.blk = <<>> /\ get.blocks = <<>>
      BY <1>5, <1>13 DEF Gotten
    <3>2. Len(get.blk) = 0
      BY <3>1
    <3> QED BY <1>12, <3>1, <3>2
  <2>3. Onward(cur, get.data, d)
    <3> HIDE DEF d, n
    <3> QED BY <1>6, <1>7, <1>9, <2>2, UnitsAfter
  <2>4. /\ get.data \o d \in Seq(Token) /\ Len(get.data \o d) = Len(get.data) + Len(d)
        /\ InOrder(cur, get.data \o d)
    <3> HIDE DEF d
    <3> QED BY <1>6, <1>7, <1>12, <2>3, JoinedPay
  <2>5. /\ get'.data = get.data \o d /\ get'.left = g.left /\ get'.read = g.read
        /\ get'.end = g.end /\ get'.total = g.total /\ get'.blk = g.blk
        /\ get'.blocks = g.blocks /\ get' \in GetType
    <3> DEFINE y == get.data \o d
    <3>1. g.data = get.data /\ y \in Seq(Token) /\ get' = [g EXCEPT !.data = y]
      BY <1>8, <2>1, <2>4
    <3> HIDE DEF y, d
    <3>2. /\ get'.data = y /\ get'.left = g.left /\ get'.read = g.read
          /\ get'.end = g.end /\ get'.total = g.total /\ get'.blk = g.blk
          /\ get'.blocks = g.blocks /\ get' \in GetType
      BY <1>8, <3>1 DEF GetType
    <3> QED BY <3>2 DEF y
  <2>6. Gotten(cur, get')
    <3>1. Len(get'.data) + Len(get'.blk) = get'.read
      <4>1. Len(get'.data) = get.read + n
        <5>1. Len(get.data \o d) = Len(get.data) + Len(d)
          BY <2>4
        <5>2. get'.data = get.data \o d
          BY <2>5
        <5> HIDE DEF d, n
        <5> QED BY <1>7, <2>2, <5>1, <5>2
      <4>2. Len(get'.blk) = 0
        <5>1. get'.blk = <<>>
          BY <1>8, <2>2, <2>5
        <5> QED BY <5>1
      <4>3. get'.read = get.read + n
        BY <1>8, <2>5
      <4>4. get.read \in Nat /\ n \in Nat
        BY <1>6, <1>7
      <4> HIDE DEF n
      <4> QED BY ONLY <4>1, <4>2, <4>3, <4>4
    <3>2. get'.total = cur.op.size /\ get'.read <= cur.op.size /\ get'.blk = <<>>
          /\ get'.blocks = <<>>
      BY <1>8, <1>11, <1>12, <2>2, <2>5
    <3>3. \A j \in 1..Len(get'.data) : get'.data[j] = Pay(cur.id, j)
      BY <2>4, <2>5 DEF InOrder
    <3>4. Len(get'.blk) = 0
      BY <3>2
    <3> QED BY ONLY <1>13, <3>1, <3>2, <3>3, <3>4 DEF Gotten
  <2>7. Later \in InPacket(cur, get')
    BY <1>9, <2>5 DEF InPacket
  <2>8. Placed(TRUE)'
    <3>1. cur.op.block # 0 => Len(g.blk) < cur.op.block
      BY <1>13
    <3>2. UNCHANGED <<cur, ins>>
      BY <1>1
    <3> QED BY <1>1, <1>6, <1>8, <2>1, <2>5, <2>6, <2>7, <3>1, <3>2, GoOnStep
  <2>9. Answered(TRUE)
    BY <1>4, <1>5
  <2> QED BY <1>1, <2>8, <2>9, StepAnswered
<1>14. CASE cur.op.block # 0
  <2>1. /\ get' = [g EXCEPT !.blk = @ \o d]
        /\ IF Len(get'.blk) = cur.op.block
           THEN pc' = "handler" /\ UNCHANGED <<rd, buf, fill>>
           ELSE GoOn(get')
    BY <1>10, <1>14
  <2>2. /\ get.blk \o d \in Seq(Token) /\ Len(get.blk \o d) = Len(get.blk) + Len(d)
        /\ Onward(cur, get.data, get.blk \o d)
    <3> DEFINE u == get.data
               v == get.blk
    <3>1. /\ u \in Seq(Token) /\ v \in Seq(Token) /\ u \o v \in Seq(Token)
          /\ Len(u \o v) = get.read
      <4>1. u \in Seq(Token) /\ v \in Seq(Token)
        BY <1>6
      <4>2. Len(u) + Len(v) = get.read
        BY <1>12
      <4> HIDE DEF u, v
      <4> QED BY <4>1, <4>2, ConcatProperties
    <3> HIDE DEF u, v
    <3>2. Onward(cur, u \o v, d)
      <4> HIDE DEF d, n
      <4> QED BY <1>6, <1>7, <1>9, <3>1, UnitsAfter
    <3>3. /\ v \o d \in Seq(Token) /\ Len(v \o d) = Len(v) + Len(d)
          /\ Len(v) \in Nat /\ Len(d) \in Nat /\ Len(u) \in Nat
          /\ \A i \in 1..Len(v) + Len(d) : (v \o d)[i] = IF i <= Len(v) THEN v[i] ELSE d[i - Len(v)]
      <4> HIDE DEF d
      <4> QED BY <1>7, <3>1, ConcatProperties, LenProperties
    <3>4. \A j \in 1..Len(v) : v[j] = Pay(cur.id, Len(u) + j)
      BY <1>12 DEF Onward, u, v
    <3>5. \A j \in 1..Len(d) : d[j] = Pay(cur.id, Len(u) + Len(v) + j)
      <4>1. Len(u \o v) = Len(u) + Len(v)
        BY <3>1, ConcatProperties
      <4> QED BY <3>2, <4>1 DEF Onward
    <3>6. ASSUME NEW j \in 1..Len(v) + Len(d) PROVE (v \o d)[j] = Pay(cur.id, Len(u) + j)
      <4>1. CASE j <= Len(v)
        <5>1. j \in 1..Len(v)
          BY <3>3, <4>1
        <5> QED BY <3>3, <3>4, <4>1, <5>1
      <4>2. CASE ~(j <= Len(v))
        <5>1. j - Len(v) \in 1..Len(d) /\ Len(u) + Len(v) + (j - Len(v)) = Len(u) + j
          BY <3>3, <4>2
        <5>2. d[j - Len(v)] = Pay(cur.id, Len(u) + Len(v) + (j - Len(v)))
          BY <3>5, <5>1
        <5> QED BY <3>3, <4>2, <5>1, <5>2
      <4> QED BY <4>1, <4>2
    <3>7. Onward(cur, u, v \o d)
      BY <3>3, <3>6 DEF Onward
    <3> QED BY <3>3, <3>7 DEF u, v
  <2>3. /\ get'.blk = get.blk \o d /\ get'.left = g.left /\ get'.read = g.read
        /\ get'.end = g.end /\ get'.total = g.total /\ get'.data = g.data
        /\ get'.blocks = g.blocks /\ get' \in GetType
    <3> DEFINE y == get.blk \o d
    <3>1. y \in Seq(Token) /\ get' = [g EXCEPT !.blk = y]
      BY <1>8, <2>1, <2>2
    <3> HIDE DEF y, d
    <3>2. /\ get'.blk = y /\ get'.left = g.left /\ get'.read = g.read
          /\ get'.end = g.end /\ get'.total = g.total /\ get'.data = g.data
          /\ get'.blocks = g.blocks /\ get' \in GetType
      BY <1>8, <3>1 DEF GetType
    <3> QED BY <3>2 DEF y
  <2>4. Gotten(cur, get')
    <3>1. Len(get'.data) + Len(get'.blk) = get'.read
      <4>1. Len(get'.data) = Len(get.data)
        BY <1>8, <2>3
      <4>2. Len(get'.blk) = Len(get.blk) + n
        <5>1. Len(get.blk \o d) = Len(get.blk) + Len(d)
          BY <2>2
        <5>2. get'.blk = get.blk \o d
          BY <2>3
        <5> HIDE DEF d, n
        <5> QED BY <1>7, <5>1, <5>2
      <4>3. get'.read = get.read + n
        BY <1>8, <2>3
      <4>4. /\ get.read \in Nat /\ n \in Nat /\ Len(get.data) \in Nat /\ Len(get.blk) \in Nat
            /\ Len(get.data) + Len(get.blk) = get.read
        BY <1>6, <1>7, <1>12
      <4> DEFINE a == Len(get.data)
                 b == Len(get.blk)
                 a1 == Len(get'.data)
                 b1 == Len(get'.blk)
      <4>5. /\ a1 = a /\ b1 = b + n /\ get'.read = get.read + n
            /\ a \in Nat /\ b \in Nat /\ n \in Nat /\ a + b = get.read
        BY <4>1, <4>2, <4>3, <4>4
      <4> HIDE DEF n, a, b, a1, b1
      <4>6. a1 + b1 = get'.read
        BY ONLY <4>5
      <4> QED BY <4>6 DEF a1, b1
    <3>2. get'.total = cur.op.size /\ get'.read <= cur.op.size /\ get'.data = get.data
          /\ get'.blocks = get.blocks
      BY <1>8, <1>11, <1>12, <2>3
    <3>3. \A j \in 1..Len(get'.blk) : get'.blk[j] = Pay(cur.id, Len(get'.data) + j)
      BY <2>2, <2>3, <3>2 DEF Onward
    <3>4. \A j \in 1..Len(get'.data) : get'.data[j] = Pay(cur.id, j)
      BY <1>12, <3>2 DEF InOrder
    <3>5. /\ \A i \in 1..Len(get'.blocks) : get'.blocks[i] = cur.op.block
          /\ Len(get'.data) = cur.op.block * Len(get'.blocks)
      BY <1>5, <1>14, <3>2 DEF Gotten
    <3> QED BY ONLY <1>14, <3>1, <3>2, <3>3, <3>4, <3>5 DEF Gotten
  <2>5. Later \in InPacket(cur, get')
    BY <1>9, <2>3 DEF InPacket
  <2>6. Answered(TRUE)
    BY <1>4, <1>5
  <2>7. CASE Len(get'.blk) = cur.op.block
    <3>1. pc' = "handler" /\ UNCHANGED <<rd, buf, fill>>
      BY <2>1, <2>7
    <3>2. Ahead' = Later
      BY <1>1, <3>1 DEF Ahead, Later, Reading
    <3>3. get'.blk # <<>>
      <4>1. Len(get'.blk) # 0
        BY <1>14, <2>7
      <4> QED BY <4>1
    <3>4. Len(get'.blk) <= cur.op.block /\ ~(Len(get'.blk) < cur.op.block)
      BY <1>6, <2>7
    <3>5. Placed(TRUE)'
      BY <1>1, <1>5, <2>4, <2>5, <3>1, <3>2, <3>3, <3>4 DEF Placed
    <3> QED BY <1>1, <2>6, <3>5, StepAnswered
  <2>8. CASE Len(get'.blk) # cur.op.block
    <3>1. GoOn(get')
      BY <2>1, <2>8
    <3>2. Len(get'.blk) < cur.op.block
      <4>1. Len(get'.blk) = Len(get.blk) + n /\ n + Len(get.blk) <= cur.op.block
        BY <1>7, <1>14, <2>2, <2>3
      <4> QED BY <1>6, <1>7, <1>12, <2>8, <4>1, SMTT(20)
    <3>3. get' \in GetType /\ UNCHANGED <<cur, ins>>
      BY <1>1, <2>3
    <3>4. Placed(TRUE)'
      BY <1>1, <1>6, <2>4, <2>5, <3>1, <3>2, <3>3, GoOnStep
    <3> QED BY <1>1, <2>6, <3>4, StepAnswered
  <2> QED BY <2>7, <2>8
<1> QED BY <1>13, <1>14

\* A block handed to the handler.
LEMMA HandlerStep == ASSUME BaseInv, StepInv, Handler, Clean' PROVE StepInv'
<1>1. /\ pc = "handler" /\ pc \in Calling /\ pc \notin Reading
      /\ UNCHANGED <<phase, conn, cur, outs, cam, done>> /\ ins' = ins
  BY DEF Handler, net, Calling, Reading
<1>2. get' = Flushed /\ GoOn(get') /\ faultAt' = faultAt
  BY <1>1, NotAborted DEF Handler
<1>3. Clean
  BY <1>1, <1>2 DEF Clean
<1>4. PICK ok \in BOOLEAN : Answered(ok)
  BY <1>1, <1>3, GotAnswered
<1>5. /\ cur.op.phase = "get" /\ ok /\ Gotten(cur, get) /\ get.blk # <<>>
      /\ Len(get.blk) <= cur.op.block
      /\ Len(get.blk) < cur.op.block => get.read = cur.op.size
      /\ Ahead \in InPacket(cur, get)
  BY <1>1, <1>4 DEF Answered, Placed, Control, Reading
<1>6. /\ Asked(cur) /\ Taking(cur) /\ get \in GetType /\ get.read \in Nat /\ get.left \in Nat
      /\ get.end \in BOOLEAN /\ cur.id \in Nat /\ cur.op.size \in Nat /\ cur.op.block \in Nat
      /\ get.data \in Seq(Token) /\ get.blk \in Seq(Token) /\ get.blocks \in Seq(Nat)
      /\ Len(get.blk) \in Nat
  BY <1>1, <1>5, CurAsked, GetPhase, HostTypes, LenProperties
<1>7. /\ get'.data = get.data \o get.blk /\ get'.blocks = Append(get.blocks, Len(get.blk))
      /\ get'.blk = <<>> /\ get'.left = get.left /\ get'.read = get.read
      /\ get'.end = get.end /\ get'.total = get.total /\ get' \in GetType
  <2> DEFINE y == get.data \o get.blk
             z == Append(get.blocks, Len(get.blk))
  <2>1. y \in Seq(Token) /\ z \in Seq(Nat) /\ <<>> \in Seq(Token)
    BY <1>6, ConcatProperties, AppendProperties, EmptySeq
  <2>2. get' = [get EXCEPT !.data = y, !.blocks = z, !.blk = <<>>]
    BY <1>2 DEF Flushed
  <2> HIDE DEF y, z
  <2>3. /\ get'.data = y /\ get'.blocks = z
        /\ get'.blk = <<>> /\ get'.left = get.left /\ get'.read = get.read
        /\ get'.end = get.end /\ get'.total = get.total /\ get' \in GetType
    BY <1>6, <2>1, <2>2 DEF GetType
  <2> QED BY <2>3 DEF y, z
<1>8. Ahead = Later
  BY <1>1, AheadElse
<1>9. Later \in InPacket(cur, get')
  <2>1. InPacket(cur, get') = InPacket(cur, get)
    BY <1>7 DEF InPacket
  <2> QED BY <1>5, <1>8, <2>1
<1>10. Answered(TRUE)
  BY <1>4, <1>5
<1>11. CASE Len(get.blk) = cur.op.block
  <2>1. Gotten(cur, get')
    BY <1>5, <1>6, <1>7, <1>11, FlushedBlock
  <2>2. cur.op.block # 0 => Len(get'.blk) < cur.op.block
    <3>1. Len(get'.blk) = 0
      BY <1>7
    <3> QED BY <1>6, <3>1
  <2>3. get' \in GetType /\ UNCHANGED <<cur, ins>>
    BY <1>1, <1>7
  <2>4. Placed(TRUE)'
    BY <1>1, <1>2, <1>6, <1>9, <2>1, <2>2, <2>3, GoOnStep
  <2> QED BY <1>1, <1>10, <2>4, StepAnswered
<1>12. CASE Len(get.blk) # cur.op.block
  <2>1. Len(get.blk) < cur.op.block /\ get.read = cur.op.size
    BY <1>5, <1>6, <1>12
  <2>2. AllGotten(cur, get')
    BY <1>5, <1>6, <1>7, <2>1, FlushedRest
  <2>3. PICK s \in After(cur, get.read + get.left, get.end) :
           Then(Ahead, PayToks(cur.id, get.read + 1, get.read + get.left), s)
    BY <1>5, InPacketIs
  <2>4. get.left = 0
    <3>1. get.read + get.left \in Nat
      BY <1>6
    <3>2. get.read + get.left <= cur.op.size
      BY <1>6, <2>3, <3>1, AfterInside
    <3> QED BY <1>6, <2>1, <3>2
  <2>5. Later \in After(cur, get.read, get.end)
    <3>1. get'.read \in Nat /\ get'.left = 0 /\ get'.end \in BOOLEAN
      BY <1>6, <1>7, <2>4
    <3>2. Later \in After(cur, get'.read, get'.end)
      BY <1>6, <1>9, <3>1, PacketEnds
    <3> QED BY <1>7, <3>2
  <2>6. Later = Closing(cur, get.end)
    <3>1. get.read = cur.op.size /\ ~(get.read < cur.op.size)
      BY <1>6, <2>1
    <3>2. After(cur, get.read, get.end) = {Closing(cur, get.end)}
      BY <3>1 DEF After
    <3> QED BY <2>5, <3>2
  <2>7. Placed(TRUE)'
    <3>1. get' \in GetType /\ get'.left = 0 /\ get'.blk = <<>> /\ get'.read = get.read
      BY <1>7, <2>4
    <3>2. ~(get'.read < get'.total)
      <4>1. get.total = cur.op.size
        BY <1>5 DEF Gotten
      <4> QED BY <1>6, <1>7, <2>1, <4>1
    <3>3. Later = Closing(cur, get'.end)
      BY <1>7, <2>6
    <3>4. cur' = cur /\ ins' = ins
      BY <1>1
    <3> QED BY ONLY BaseInv, <1>2, <1>5, <2>2, <3>1, <3>2, <3>3, <3>4, LastStep
  <2> QED BY <1>1, <1>10, <2>7, StepAnswered
<1> QED BY <1>11, <1>12

\* The end packet without payload is at hand.
LEMMA EndHere ==
    ASSUME BaseInv, pc = "got", rd.part = "body", rd.want = "end", Answered(TRUE)
    PROVE  rd.hdr.k = "end" /\ Later = Success(cur)
<1>1. Ahead = Closing(cur, FALSE)
  BY DEF Answered, Placed, Control
<1>2. Asked(cur) /\ cur.id \in Nat
  BY CurAsked, HostTypes
<1> DEFINE t == Tok("end", cur.id, 0 - 1 + 2)
           i == Tok("tid", cur.id, 0)
           p == PayToks(cur.id, 1, 0)
<1>3. /\ PacketOf(EndPkt(cur), t, <<i>> \o p) /\ t \in Token /\ i \in Token
      /\ p \in Seq(Token) /\ Len(p) = 0 - 1 + 1
  <2>1. "end" \in {"data", "end"} /\ 1 \in Nat /\ 0 \in Nat /\ 1 <= 0 + 1
    OBVIOUS
  <2> QED BY <1>2, <2>1, PktTokens DEF EndPkt
<1>4. Success(cur) \in Seq(Token) /\ t.k = "end"
  BY <1>2, CallTokens DEF Tok
<1>5. Then(Ahead, EndPkt(cur), Success(cur))
  BY <1>1 DEF Then, Closing
<1> HIDE DEF t, i, p
<1>6. p = <<>>
  <2>1. Len(p) = 0
    BY <1>3
  <2> QED BY <1>3, <2>1, EmptySeq
<1>7. <<i>> \in Seq(Token) /\ Len(<<i>>) = 1 /\ Neutral(<<i>>)
  BY <1>3, OneSeq, NeutralLemma
<1>8. PacketOf(EndPkt(cur), t, <<i>>)
  BY <1>3, <1>6, <1>7 DEF PacketOf, Neutral
<1>9. Begins(t, <<i>>, Success(cur))
  BY <1>3, <1>4, <1>5, <1>7, <1>8, BeginsPacket
<1>10. Len(<<i>>) = BodyLen(t)
  BY <1>4, <1>7 DEF BodyLen, IsData
<1>11. rd.hdr = t /\ Later = Success(cur)
  BY <1>3, <1>4, <1>7, <1>9, <1>10, BodyCut
<1> QED BY <1>4, <1>11

\* The end packet that holds no payload.
LEMMA EndDataStep == ASSUME BaseInv, StepInv, EndData, Clean' PROVE StepInv'
<1>1. /\ pc = "got" /\ rd.part = "body" /\ rd.want = "end" /\ pc \in Calling
      /\ UNCHANGED <<phase, conn, cur, get, outs, cam, done>> /\ ins' = ins
  BY DEF EndData, net, Calling
<1>2. ReadControl("resp") /\ faultAt' = faultAt
  BY <1>1, NotAborted DEF EndData
<1>3. Clean
  BY <1>1, <1>2 DEF Clean
<1>4. PICK ok \in BOOLEAN : Answered(ok)
  BY <1>1, <1>3, GotAnswered
<1>5. cur.op.phase = "get" /\ ok /\ AllGotten(cur, get) /\ Ahead = Closing(cur, FALSE)
  BY <1>1, <1>4 DEF Answered, Placed, Control
<1>6. Asked(cur) /\ cur.id \in Nat
  BY CurAsked, HostTypes
<1>7. Answered(TRUE)
  BY <1>4, <1>5
<1>8. Later = Success(cur)
  BY <1>1, <1>7, EndHere
<1>9. Placed(TRUE)'
  <2>1. UNCHANGED <<cur, ins>> /\ AllGotten(cur, get')
    BY <1>1, <1>5
  <2> QED BY <1>2, <1>5, <1>8, <2>1, ControlNext
<1>10. Answered(TRUE)
  BY <1>4, <1>5
<1> QED BY <1>1, <1>9, <1>10, StepAnswered

\* The response: it is that of the operation, and success only where the camera
\* carried it out, with the whole data phase.
LEMMA ResponseFacts ==
    ASSUME BaseInv, StepInv, Response, Clean'
    PROVE  \E ok \in BOOLEAN :
              /\ Answered(ok) /\ Later = <<>>
              /\ Finish(IF ok THEN "ok" ELSE "err", cur.id)
              /\ ok => AllGotten(cur, get)
<1>1. /\ pc = "got" /\ rd.part = "body" /\ rd.want = "resp" /\ conn' = conn
  BY DEF Response, net
<1>2. IsResp(rd.hdr) /\ Finish(Code(rd.hdr), rd.hdr.id) /\ faultAt' = faultAt
  BY <1>1, NotAborted DEF Response
<1>3. Clean
  BY <1>1, <1>2 DEF Clean
<1>4. PICK ok \in BOOLEAN : Answered(ok)
  BY <1>1, <1>3, GotAnswered
<1>5. /\ \/ cur.op.phase = "get" /\ ok /\ AllGotten(cur, get)
         \/ cur.op.phase # "get" /\ get = NoGet
      /\ Ahead = IF ok THEN Success(cur) ELSE Refusal(cur)
  BY <1>1, <1>4 DEF Answered, Placed, Control
<1>6. Asked(cur)
  BY CurAsked
<1>7. ok => AllGotten(cur, get)
  BY <1>5 DEF AllGotten
<1> DEFINE t == IF ok THEN Tok("ok", cur.id, cur.op.par + 1) ELSE Tok("err", cur.id, 1)
           u == IF ok THEN Pars(cur.id, cur.op.par) ELSE Pars(cur.id, 0)
<1>8. PacketOf(Ahead, t, u) /\ t \in Token /\ u \in Seq(Token)
  BY <1>5, <1>6, CallTokens
<1>9. Len(u) = BodyLen(t) /\ t.id = cur.id /\ t.k = (IF ok THEN "ok" ELSE "err")
  <2>1. CASE ok
    <3>1. Len(u) = cur.op.par + 1
      BY <1>6, <2>1, CallTokens
    <3> QED BY <2>1, <3>1 DEF BodyLen, IsData, Tok
  <2>2. CASE ~ok
    <3>1. Len(u) = 1
      BY <1>6, <2>2, CallTokens
    <3> QED BY <2>2, <3>1 DEF BodyLen, IsData, Tok
  <2> QED BY <2>1, <2>2
<1> HIDE DEF t, u
<1>10. Begins(t, u, <<>>) /\ <<>> \in Seq(Token)
  BY <1>8, BeginsAlone, EmptySeq
<1>11. rd.hdr = t /\ Later = <<>>
  BY <1>1, <1>8, <1>9, <1>10, BodyCut
<1>12. Finish(IF ok THEN "ok" ELSE "err", cur.id)
  <2>1. Code(rd.hdr) = (IF ok THEN "ok" ELSE "err") /\ rd.hdr.id = cur.id
    BY <1>9, <1>11 DEF Code
  <2> HIDE DEF Finish
  <2> QED BY <1>2, <2>1
<1> QED BY <1>4, <1>7, <1>11, <1>12

\* The end of a call.
LEMMA ResponseStep == ASSUME BaseInv, StepInv, Response, Clean' PROVE StepInv'
<1>1. PICK ok \in BOOLEAN :
         /\ Answered(ok) /\ Later = <<>>
         /\ Finish(IF ok THEN "ok" ELSE "err", cur.id)
  BY ResponseFacts
<1>2. pc \in Calling /\ UNCHANGED <<conn, buf, ins, outs, cam>>
  BY DEF Response, net, Calling
<1>3. Rested /\ Session(ok)
  BY <1>1 DEF Answered
<1> DEFINE rc == IF ok THEN "ok" ELSE "err"
<1>4. (rc = "ok") = ok /\ (ok \/ rc = "err")
  OBVIOUS
<1>5. Finish(rc, cur.id)
  BY <1>1
<1> HIDE DEF rc
<1> QED BY <1>1, <1>2, <1>3, <1>4, <1>5, FinishRest

\* What a call that returns success returns is its own.
LEMMA ResponseOwn == ASSUME BaseInv, StepInv, Response PROVE OwnData'
<1> SUFFICES ASSUME Clean', pc' = "idle", result'.rc = "ok" PROVE OwnData'
  BY DEF OwnData
<1>1. PICK ok \in BOOLEAN :
         /\ Answered(ok)
         /\ Finish(IF ok THEN "ok" ELSE "err", cur.id)
         /\ ok => AllGotten(cur, get)
  BY ResponseFacts
<1>2. /\ result'.id = cur.id /\ result'.from = cur.id /\ result'.data = get.data
      /\ result'.blocks = get.blocks /\ result'.rc = IF ok THEN "ok" ELSE "err"
  BY <1>1 DEF Finish
<1>3. ok /\ AllGotten(cur, get)
  BY <1>1, <1>2
<1>4. cur.id \in done
  BY <1>1, <1>3 DEF Answered
<1>5. UNCHANGED <<ops, done>> /\ ops[cur.id + 1] = cur.op
  BY DEF Response, net, BaseInv, CallInv, Calling
<1>6. /\ get.data = IF cur.op.phase = "get" THEN PayToks(cur.id, 1, cur.op.size) ELSE <<>>
      /\ get.blocks = BlocksOf(cur.op)
  <2>1. CASE cur.op.phase = "get"
    BY <1>3, <2>1 DEF AllGotten
  <2>2. CASE cur.op.phase # "get"
    BY <1>3, <2>2 DEF AllGotten, NoGet, BlocksOf
  <2> QED BY <2>1, <2>2
<1> QED BY <1>2, <1>4, <1>5, <1>6 DEF OwnData

\* A call begins: nothing has been asked yet.
LEMMA BeginAsking ==
    ASSUME BaseInv, pc \notin Calling, NEW op, NEW ph, Begin(op, ph),
           UNCHANGED <<buf, net>>, Rested, buf.data = <<>>, cam.session = (ph # "open")
    PROVE  /\ OnTheWire' /\ Session(FALSE)' /\ pc' = "sendreq" /\ pc' \in Calling
           /\ cur'.id \notin done' /\ get' = NoGet /\ phase' = ph
           /\ ins = <<>> => Asking'
<1>1. /\ pc' = "sendreq" /\ phase' = ph /\ get' = NoGet /\ cur'.id = Len(ops)
      /\ cam' = cam /\ outs' = outs /\ ins' = ins /\ done' = done /\ buf' = buf
  BY DEF Begin, net
<1>2. OnTheWire'
  <2>1. SUFFICES ASSUME cam.link PROVE OnTheWire'
    BY <1>1 DEF OnTheWire
  <2>2. outs = <<>> /\ cam.st = "ready" /\ cam.n = 0
    BY <2>1 DEF Rested
  <2>3. SentSoFar' = 0 /\ TakenSoFar' = 0
    BY <1>1, <2>2 DEF SentSoFar, TakenSoFar
  <2>4. Len(outs') = 0
    BY <1>1, <2>2
  <2> QED BY <1>1, <2>2, <2>3, <2>4 DEF OnTheWire
<1>3. Session(FALSE)'
  BY <1>1 DEF Session
<1>4. cur'.id \notin done'
  <2>1. \A i \in done : i < Len(ops)
    BY DEF BaseInv, CallInv
  <2>2. Len(ops) \in Nat
    BY LenProperties DEF BaseInv, TypeOK
  <2> QED BY <1>1, <2>1, <2>2
<1>5. pc' \in Calling
  BY <1>1 DEF Calling
<1> QED BY <1>1, <1>2, <1>3, <1>4, <1>5 DEF Asking

\* A caller starts a transaction.
LEMMA TransactionStep ==
    ASSUME BaseInv, StepInv, NEW op \in TcpOps, Transaction(op), Clean'
    PROVE  StepInv'
<1>1. /\ pc = "idle" /\ pc \notin Calling /\ Begin(op, "use") /\ UNCHANGED <<buf, net>>
      /\ UNCHANGED <<conn, faultAt>>
  BY DEF Transaction, Calling
<1>2. AtRest
  BY <1>1 DEF StepInv, RestStep, Clean
<1>3. Rested /\ buf.data = <<>> /\ ins = <<>> /\ cam.session = ("use" # "open")
  BY <1>2 DEF AtRest, Empty
<1>4. Asking' /\ pc' \in Calling
  BY <1>1, <1>3, BeginAsking
<1> QED BY <1>4, StepWithin DEF CallStep

\* The session is open: the device info is asked for.
LEMMA OpenedStep == ASSUME BaseInv, StepInv, Opened, Clean' PROVE StepInv'
<1>1. /\ pc = "opened" /\ pc \notin Calling /\ Begin(DeviceInfo, "info") /\ UNCHANGED <<buf, net>>
      /\ conn'.n = conn.n /\ faultAt' = faultAt
  <2>1. conn \in ConnType
    BY DEF BaseInv, TypeOK
  <2> QED BY <2>1 DEF Opened, Calling, ConnType
<1>2. AtRest
  BY <1>1 DEF StepInv, RestStep, Clean
<1>3. Rested /\ buf.data = <<>> /\ ins = <<>> /\ cam.session = ("info" # "open")
  BY <1>2 DEF AtRest, Empty
<1>4. Asking' /\ pc' \in Calling
  BY <1>1, <1>3, BeginAsking
<1> QED BY <1>4, StepWithin DEF CallStep

\* The session is closed, if there is one.
LEMMA CloseStep == ASSUME BaseInv, StepInv, Close, Clean' PROVE StepInv'
<1>1. /\ pc \in {"failed", "idle"} /\ pc \notin Calling /\ UNCHANGED <<buf, net>>
      /\ UNCHANGED <<conn, faultAt>> /\ (pc = "idle" => conn.connected)
  BY DEF Close, Calling
<1>2. Clean
  BY <1>1 DEF Clean
<1>3. CASE conn.connected
  <2>1. AtRest
    BY <1>1, <1>2, <1>3 DEF StepInv, RestStep
  <2>2. Rested /\ buf.data = <<>> /\ ins = <<>> /\ cam.session = ("close" # "open")
    BY <2>1 DEF AtRest, Empty
  <2>3. Begin(CloseSession, "close")
    BY <1>3 DEF Close
  <2>4. Asking' /\ pc' \in Calling
    BY <1>1, <2>2, <2>3, BeginAsking
  <2> QED BY <2>4, StepWithin DEF CallStep
<1>4. CASE ~conn.connected
  <2>1. pc = "failed" /\ Rested /\ ~cam.session
    BY <1>1, <1>2, <1>4 DEF StepInv, RestStep
  <2>2. pc' = "closing"
    BY <1>4 DEF Close
  <2>3. Rested' /\ ~cam'.session
    BY <1>1, <2>1 DEF Rested, net
  <2> QED BY <2>2, <2>3 DEF StepInv, CallStep, RestStep, Calling
<1> QED BY <1>3, <1>4

\* The event channel: a session is opened, or the connect has failed.
LEMMA EventChannelStep == ASSUME BaseInv, StepInv, EventChannel, Clean' PROVE StepInv'
<1>1. /\ pc = "event" /\ pc \notin Calling /\ UNCHANGED <<buf, net>> /\ faultAt' = faultAt
  BY DEF EventChannel, Calling
<1>2. conn'.n = conn.n /\ conn'.connected = conn.connected
  <2>1. conn \in ConnType
    BY DEF BaseInv, TypeOK
  <2> QED BY <2>1, OpensConn, RefusedConn DEF EventChannel
<1>3. Begun /\ Rested /\ \A i \in 1..Len(ins) : Odd(ins[i])
  BY <1>1, <1>2 DEF StepInv, RestStep, Clean
<1>4. buf.data = <<>> /\ ~cam.session /\ cam.session = ("open" # "open")
  BY <1>3, HostTypes DEF Begun, Empty, BaseInv, TypeOK, CamType
<1>5. CASE Begin(OpenSession, "open")
  <2>1. /\ OnTheWire' /\ pc' = "sendreq" /\ pc' \in Calling /\ phase' = "open"
        /\ ins = <<>> => Asking'
    BY <1>1, <1>3, <1>4, <1>5, BeginAsking
  <2>2. CASE ins = <<>>
    BY <2>1, <2>2, StepWithin DEF CallStep
  <2>3. CASE ins # <<>>
    <3>1. Ahead' = ins
      <4>1. buf'.data = <<>> /\ ins' = ins
        BY <1>1, <1>4 DEF net
      <4>2. Neutral(ins)
        BY Pieces, NeutralLemma
      <4>3. Ahead' = <<>> \o ins
        BY <2>1, <4>1 DEF Ahead, Later, Reading
      <4> QED BY <4>2, <4>3 DEF Neutral
    <3>2. Odd(ins[1])
      <4>1. 1 \in 1..Len(ins)
        BY <2>3, Pieces, LenProperties, EmptySeq
      <4> QED BY <1>3, <4>1
    <3>3. Spoiled'
      BY <2>1, <2>3, <3>1, <3>2 DEF Spoiled, Odd
    <3> QED BY <2>1, <3>3, StepWithin DEF CallStep
  <2> QED BY <2>2, <2>3
<1>6. CASE pc' = "failed"
  <2>1. Rested' /\ ~cam'.session
    BY <1>1, <1>3, <1>4 DEF Rested, net
  <2>2. ~conn'.connected
    BY <1>1, <1>2 DEF BaseInv, CallInv
  <2> QED BY <1>6, <2>1, <2>2 DEF StepInv, CallStep, RestStep, Calling
<1> QED BY <1>5, <1>6 DEF EventChannel

\* The sockets are closed.
LEMMA CloseSocketsStep == ASSUME BaseInv, StepInv, CloseSockets, Clean' PROVE StepInv'
<1>1. /\ pc = "closing" /\ pc' = "down" /\ conn'.n = conn.n /\ faultAt' = faultAt
      /\ result' = result /\ cam'.link = FALSE /\ cam'.session = cam.session
  <2>1. conn \in ConnType /\ cam \in CamType
    BY DEF BaseInv, TypeOK
  <2> QED BY <2>1, ReleasedConn DEF CloseSockets, CamType
<1>2. cam.session => result.rc = "err"
  BY <1>1 DEF StepInv, RestStep, Clean
<1>3. Rested'
  BY <1>1 DEF Rested
<1> QED BY <1>1, <1>2, <1>3 DEF StepInv, CallStep, RestStep, Calling

\* A socket is connected: nothing was exchanged on it yet.
LEMMA ConnectStep == ASSUME BaseInv, StepInv, Connect, Clean' PROVE StepInv'
<1>1. /\ pc' \in {"initcmd", "failed"} /\ buf' = Empty /\ outs' = <<>> /\ ins' = <<>>
      /\ cam' = [link |-> conn'.cmd, st |-> "ready", id |-> 0, n |-> 0, session |-> FALSE]
      /\ conn'.connected = conn.connected /\ pc = "down"
  <2>1. conn \in ConnType
    BY DEF BaseInv, TypeOK
  <2> QED BY <2>1, ConnectConn DEF Connect, BufAtInit
<1>2. ~conn'.connected
  BY <1>1 DEF BaseInv, CallInv
<1>3. Begun' /\ Rested' /\ ~cam'.session
  BY <1>1 DEF Begun, Rested
<1> QED BY <1>1, <1>2, <1>3 DEF StepInv, CallStep, RestStep, Calling

\* The init request.
LEMMA SendInitStep == ASSUME BaseInv, StepInv, SendInit, Clean' PROVE StepInv'
<1>1. /\ pc = "initcmd" /\ UNCHANGED <<conn, faultAt, buf, ins, cam>>
  BY DEF SendInit
<1>2. Begun /\ outs = <<>> /\ ins = <<>>
  BY <1>1 DEF StepInv, RestStep, Clean
<1>3. Begun'
  BY <1>1, <1>2 DEF Begun
<1>4. ~conn.connected
  BY <1>1 DEF BaseInv, CallInv
<1>5. CASE \E k \in {"init", "part"} : Sends(Tok(k, conn.n, 0)) /\ pc' = "ack"
  <2>1. PICK k \in {"init", "part"} : Sends(Tok(k, conn.n, 0)) /\ pc' = "ack"
    BY <1>5
  <2> DEFINE t == Tok(k, conn.n, 0)
  <2>2. t.k \in {"init", "part"}
    BY DEF Tok
  <2>3. outs' = IF cam.link THEN Append(<<>>, t) ELSE <<>>
    BY <1>2, <2>1 DEF Sends
  <2> HIDE DEF t
  <2>4. cam.link => Len(outs') = 1 /\ outs'[1] = t
    BY <2>3
  <2> QED BY <1>1, <1>2, <1>3, <2>1, <2>2, <2>4 DEF StepInv, CallStep, RestStep, Calling
<1>6. CASE pc' = "failed" /\ UNCHANGED outs
  <2>1. Rested' /\ ~cam'.session
    BY <1>1, <1>2, <1>6 DEF Begun, Rested
  <2> QED BY <1>1, <1>4, <1>6, <2>1 DEF StepInv, CallStep, RestStep, Calling
<1> QED BY <1>5, <1>6 DEF SendInit

\* The reply to it: what one recv returns, the rest stays in the stream.
LEMMA InitAckStep == ASSUME BaseInv, StepInv, InitAck, Clean' PROVE StepInv'
<1>1. pc = "ack" /\ UNCHANGED <<faultAt, buf>> /\ conn'.n = conn.n /\ conn'.connected = conn.connected
  <2>1. conn \in ConnType
    BY DEF BaseInv, TypeOK
  <2> QED BY <2>1 DEF InitAck, ConnType
<1>2. /\ Begun
      /\ \/ /\ ins = <<>>
            /\ cam.link => \/ outs = <<>>
                           \/ Len(outs) = 1 /\ outs[1].k \in {"init", "part"}
         \/ /\ cam.link => outs = <<>>
            /\ ins # <<>>
            /\ ins[1].k = "ack" => \A i \in 2..Len(ins) : Odd(ins[i])
  BY <1>1 DEF StepInv, RestStep, Clean
<1>3. ~conn'.connected
  BY <1>1 DEF BaseInv, CallInv
<1>4. ins \in Seq(Token) /\ Len(ins) \in Nat /\ (ins = <<>> <=> Len(ins) = 0) /\ cam \in CamType
  BY Pieces, LenProperties, EmptySeq DEF BaseInv, TypeOK
<1>5. CASE UNCHANGED <<outs, cam>> /\ ins # <<>> /\ pc' = "failed"
  <2>1. Rested' /\ ~cam'.session
    BY <1>2, <1>5 DEF Begun, Rested
  <2> QED BY <1>1, <1>3, <1>5, <2>1 DEF StepInv, CallStep, RestStep, Calling
<1>6. CASE RecvEnds /\ pc' = "failed"
  <2>1. Rested' /\ ~cam'.session
    BY <1>2, <1>4, <1>6 DEF Begun, Rested, RecvEnds, CamType
  <2> QED BY <1>1, <1>3, <1>6, <2>1 DEF StepInv, CallStep, RestStep, Calling
<1>7. CASE /\ \E k \in 1..Len(ins) : Recv(k, Len(ins))
           /\ ins[1].k = "ack" /\ pc' = "event" /\ UNCHANGED <<outs, cam>>
  <2>1. PICK k \in 1..Len(ins) : Recv(k, Len(ins))
    BY <1>7
  <2>2. ins # <<>> /\ k \in Nat /\ k >= 1 /\ k <= Len(ins)
    BY <1>4, <2>1
  <2>3. /\ cam.link => outs = <<>>
        /\ \A i \in 2..Len(ins) : Odd(ins[i])
    BY <1>2, <1>7, <2>2
  <2>4. ins' = SubSeq(ins, k + 1, Len(ins))
    BY <2>1 DEF Recv
  <2>5. \A i \in 1..Len(ins') : Odd(ins'[i])
    <3> SUFFICES ASSUME NEW i \in 1..Len(ins') PROVE Odd(ins'[i])
      OBVIOUS
    <3>1. /\ Len(ins') = IF k + 1 <= Len(ins) THEN Len(ins) - (k + 1) + 1 ELSE 0
          /\ \A j \in 1..Len(ins) - (k + 1) + 1 : ins'[j] = ins[(k + 1) + j - 1]
      BY <1>4, <2>2, <2>4, SubSeqProperties
    <3>2. i \in 1..Len(ins) - (k + 1) + 1 /\ (k + 1) + i - 1 \in 2..Len(ins)
      BY <1>4, <2>2, <3>1
    <3> QED BY <2>3, <3>1, <3>2
  <2>6. Begun' /\ Rested'
    BY <1>1, <1>2, <1>7, <2>3 DEF Begun, Rested
  <2> QED BY <1>7, <2>5, <2>6 DEF StepInv, CallStep, RestStep, Calling
<1> QED
  <2>1. CASE /\ \E k \in 1..Len(ins) :
                   /\ Recv(k, Len(ins))
                   /\ IF ins[1].k = "ack"
                      THEN /\ conn' = [conn EXCEPT !.id = IF k > 1 THEN ins[2].id ELSE 0]
                           /\ pc' = "event"
                      ELSE pc' = "failed" /\ UNCHANGED conn
             /\ UNCHANGED <<outs, cam>>
    <3>1. ins # <<>>
      BY <1>4, <2>1
    <3> QED BY <1>5, <1>7, <2>1, <3>1
  <2> QED BY <1>5, <1>6, <2>1 DEF InitAck

\* The place in an answer is that of the host and of what lies ahead.
LEMMA PlacedSame ==
    ASSUME NEW ok \in BOOLEAN, Placed(ok), UNCHANGED <<pc, rd, cur, get>>, Ahead' = Ahead
    PROVE  Placed(ok)'
<1>1. \A want : Control(want) => Control(want)'
  BY DEF Control
<1>2. CASE /\ Control("start") /\ cur.op.phase = "get" /\ get = NoGet
           /\ IF ok THEN Ahead \in Answers(cur) ELSE Ahead = Refusal(cur)
  BY <1>1, <1>2 DEF Placed
<1>3. CASE /\ Control("data") /\ cur.op.phase = "get" /\ ok
           /\ Gotten(cur, get) /\ ~get.end
           /\ Ahead \in Packets(cur, get.read)
  BY <1>1, <1>3 DEF Placed
<1>4. CASE /\ pc \in {"recv", "got"} /\ rd.part = "pay" /\ cur.op.phase = "get" /\ ok
           /\ Gotten(cur, get) /\ get.left > 0
           /\ cur.op.block = 0 => rd.size = get.left
           /\ Ahead \in InPacket(cur, get)
  BY <1>4 DEF Placed
<1>5. CASE /\ pc = "handler" /\ cur.op.phase = "get" /\ ok
           /\ Gotten(cur, get) /\ get.blk # <<>>
           /\ Len(get.blk) <= cur.op.block
           /\ Len(get.blk) < cur.op.block => get.read = cur.op.size
           /\ Ahead \in InPacket(cur, get)
  BY <1>5 DEF Placed
<1>6. CASE /\ Control("end") /\ cur.op.phase = "get" /\ ok
           /\ AllGotten(cur, get)
           /\ Ahead = Closing(cur, FALSE)
  BY <1>1, <1>6 DEF Placed
<1>7. CASE /\ Control("resp")
           /\ \/ cur.op.phase = "get" /\ ok /\ AllGotten(cur, get)
              \/ cur.op.phase # "get" /\ get = NoGet
           /\ Ahead = IF ok THEN Success(cur) ELSE Refusal(cur)
  BY <1>1, <1>7 DEF Placed
<1> QED BY <1>2, <1>3, <1>4, <1>5, <1>6, <1>7 DEF Placed

\* The link is lost: what has come stays there to be read.
LEMMA LinkLost ==
    ASSUME BaseInv, StepInv, UNCHANGED <<host, ins, done>>, cam' = [cam EXCEPT !.link = FALSE],
           outs = <<>> => outs' = <<>>, Clean'
    PROVE  StepInv'
<1>1. /\ UNCHANGED <<pc, phase, conn, cur, ops, buf, rd, fill, get, result, faultAt>>
      /\ ins' = ins /\ done' = done
  BY DEF host
<1>2. /\ cam'.link = FALSE /\ cam'.st = cam.st /\ cam'.n = cam.n /\ cam'.session = cam.session
  BY DEF BaseInv, TypeOK, CamType
<1>3. Clean /\ CallStep /\ RestStep
  BY <1>1 DEF StepInv, Clean
<1>4. Ahead' = Ahead
  BY <1>1 DEF Ahead, Later
<1>5. OnTheWire' /\ Rested' /\ (Session(FALSE) => Session(FALSE)') /\ (Session(TRUE) => Session(TRUE)')
  BY <1>1, <1>2 DEF OnTheWire, Rested, Session
<1>6. CallStep'
  <2> SUFFICES ASSUME pc \in Calling
               PROVE  Asking' \/ Spoiled' \/ \E ok \in BOOLEAN : Answered(ok)'
    BY <1>1 DEF CallStep
  <2>1. CASE Asking
    BY <1>1, <1>5, <2>1 DEF Asking
  <2>2. CASE Spoiled
    BY <1>1, <1>4, <1>5, <2>2 DEF Spoiled
  <2>3. ASSUME NEW ok \in BOOLEAN, Answered(ok) PROVE Answered(ok)'
    <3>1. Placed(ok)'
      BY <1>1, <1>4, <2>3, PlacedSame DEF Answered
    <3>2. Session(ok)'
      BY <1>1, <1>2, <2>3 DEF Answered, Session
    <3> QED BY <1>1, <1>5, <2>3, <3>1, <3>2 DEF Answered
  <2> QED BY <1>3, <2>1, <2>2, <2>3 DEF CallStep
<1>7. RestStep'
  <2>1. Begun => Begun'
    BY <1>1, <1>2 DEF Begun
  <2>2. AtRest => AtRest'
    BY <1>1, <1>2, <1>5 DEF AtRest
  <2> QED BY <1>1, <1>2, <1>3, <1>5, <2>1, <2>2 DEF RestStep
<1> QED BY <1>6, <1>7 DEF StepInv

\* The camera closes the connection.
LEMMA CamCloseStep == ASSUME BaseInv, StepInv, CamClose, Clean' PROVE StepInv'
  BY LinkLost DEF CamClose

\* The messages of an operation.
LEMMA MessagesAre ==
    ASSUME NEW x, Asked(x)
    PROVE  /\ Messages(x)[1] = Tok("req", x.id, 0)
           /\ x.op.phase # "send" => Len(Messages(x)) = 1
           /\ x.op.phase = "send" =>
                 /\ Len(Messages(x)) = 5
                 /\ \A i \in 1..4 : Messages(x)[i + 1] = Tok(DataParts[i], x.id, x.op.size)
<1> DEFINE t == Tok("req", x.id, 0)
           f == [i \in 1..4 |-> Tok(DataParts[i], x.id, x.op.size)]
<1>1. t \in Token
  BY DEF Tok, Token, Kinds, Asked
<1>2. \A i \in 1..4 : DataParts[i] \in {"start", "data", "pay", "end"}
  BY DEF DataParts
<1>3. \A i \in 1..4 : Tok(DataParts[i], x.id, x.op.size) \in Token
  BY <1>2 DEF Tok, Token, Kinds, Asked
<1>4. /\ f \in Seq(Token) /\ Len(f) = 4
      /\ \A i \in 1..4 : f[i] = Tok(DataParts[i], x.id, x.op.size)
  BY <1>3
<1>5. <<t>> \in Seq(Token) /\ Len(<<t>>) = 1 /\ <<t>>[1] = t
  BY <1>1, OneSeq
<1>6. Messages(x) = IF x.op.phase # "send" THEN <<t>> ELSE <<t>> \o f
  BY DEF Messages
<1> HIDE DEF t, f
<1>7. CASE x.op.phase # "send"
  BY <1>5, <1>6, <1>7 DEF t
<1>8. CASE x.op.phase = "send"
  <2>1. /\ Len(<<t>> \o f) = 1 + 4
        /\ \A i \in 1..1 + 4 : (<<t>> \o f)[i] = IF i <= 1 THEN <<t>>[i] ELSE f[i - 1]
    <3>1. f \in Seq(Token) /\ Len(f) = 4
      BY <1>4
    <3>2. /\ Len(<<t>> \o f) = Len(<<t>>) + Len(f)
          /\ \A i \in 1..Len(<<t>>) + Len(f) :
                (<<t>> \o f)[i] = IF i <= Len(<<t>>) THEN <<t>>[i] ELSE f[i - Len(<<t>>)]
      BY <1>5, <3>1, ConcatProperties
    <3> QED BY <1>5, <3>1, <3>2
  <2>2. (<<t>> \o f)[1] = t
    BY <1>5, <2>1
  <2>3. \A i \in 1..4 : (<<t>> \o f)[i + 1] = f[i]
    <3> TAKE i \in 1..4
    <3>1. i + 1 \in 1..1 + 4 /\ ~(i + 1 <= 1) /\ (i + 1) - 1 = i
      OBVIOUS
    <3> QED BY <2>1, <3>1
  <2> QED BY <1>4, <1>6, <1>8, <2>1, <2>2, <2>3 DEF t
<1> QED BY <1>7, <1>8

\* Nothing of the operation is on its way, and the request is sent.
LEMMA RequestSent ==
    ASSUME BaseInv, cam.link => outs = <<>> /\ cam.st = "ready" /\ cam.n = 0,
           Sends(Tok("req", cur.id, 0)), UNCHANGED <<cam, cur>>,
           \/ pc' = "senddata"
           \/ pc' \in {"fill", "got"} /\ cur.op.phase # "send"
    PROVE  OnTheWire'
<1> DEFINE t == Tok("req", cur.id, 0)
<1>1. SUFFICES ASSUME cam.link PROVE OnTheWire'
  BY DEF OnTheWire
<1>2. cam.st = "ready" /\ cam.n = 0 /\ outs' = Append(<<>>, t)
  BY <1>1 DEF Sends
<1>3. Len(outs') = 1 /\ outs'[1] = t
  <2> HIDE DEF t
  <2> QED BY <1>2
<1>4. Messages(cur)[1] = t /\ (cur.op.phase # "send" => Len(Messages(cur)) = 1)
  BY CurAsked, MessagesAre
<1>5. SentSoFar' = 1
  BY <1>4 DEF SentSoFar, Messages
<1>6. TakenSoFar' = 0
  BY <1>2 DEF TakenSoFar
<1>7. Messages(cur)' = Messages(cur)
  BY DEF Messages
<1> HIDE DEF t
<1>8. \A i \in 1..Len(outs') : outs'[i] = Messages(cur)[0 + i]
  <2> TAKE i \in 1..Len(outs')
  <2>1. i = 1 /\ 0 + i = 1
    BY <1>3
  <2> QED BY <1>3, <1>4, <2>1
<1> QED BY <1>2, <1>3, <1>5, <1>6, <1>7, <1>8 DEF OnTheWire

\* At the start of a call, and after it, nothing of it is on its way.
LEMMA WireBefore ==
    ASSUME BaseInv, pc = "sendreq", OnTheWire \/ Rested, cam.link
    PROVE  outs = <<>> /\ cam.st = "ready" /\ cam.n = 0
<1>1. CASE OnTheWire
  <2>1. cam.n \in 0..3 /\ Len(outs) \in Nat /\ (Len(outs) = 0 => outs = <<>>)
        /\ cam.st \in {"ready", "recv"}
    BY HostTypes, LenProperties, EmptySeq DEF BaseInv, TypeOK, CamType
  <2>2. Len(outs) = 0 - TakenSoFar
    BY <1>1 DEF OnTheWire, SentSoFar
  <2>3. cam.st # "recv" /\ TakenSoFar = 0
    BY <2>1, <2>2 DEF TakenSoFar
  <2> QED BY <1>1, <2>1, <2>2, <2>3 DEF OnTheWire
<1>2. CASE Rested
  BY <1>2 DEF Rested
<1> QED BY <1>1, <1>2

\* The read of the first control packet of an answer, asked for.
LEMMA NowAsking ==
    ASSUME BaseInv, ReadControl(FirstWant(cur)), UNCHANGED <<phase, cur, get, ins, cam, done>>,
           OnTheWire', buf.data = <<>>, ins = <<>>, get = NoGet, cur.id \notin done,
           Session(FALSE)
    PROVE  StepInv'
<1>1. FirstWant(cur) \in {"start", "data", "end", "resp"}
  BY DEF FirstWant
<1>2. pc' = "fill" /\ buf'.data = <<>> /\ rd'.dst = <<>> /\ fill' = <<>>
      /\ rd'.part = "hdr" /\ rd'.want = FirstWant(cur)
  BY <1>1, ReadControlAhead
<1>3. Session(FALSE)' /\ FirstWant(cur)' = FirstWant(cur)
  BY DEF Session, FirstWant
<1>4. Asking'
  BY <1>2, <1>3 DEF Asking
<1> QED BY <1>2, <1>4, StepWithin DEF CallStep, Calling

\* The request.
LEMMA SendReqStep == ASSUME BaseInv, StepInv, SendReq, Clean' PROVE StepInv'
<1>1. /\ pc = "sendreq" /\ pc \in Calling
      /\ UNCHANGED <<phase, conn, cur, get, ins, cam, done>>
  BY DEF SendReq, Calling
<1>2. Sends(Tok("req", cur.id, 0)) /\ AfterSend /\ faultAt' = faultAt
  <2>1. faultAt' # conn.n
    BY <1>1 DEF Clean
  <2> HIDE DEF AfterSend
  <2> QED BY <1>1, <2>1, NotAborted DEF SendReq
<1>3. Clean
  BY <1>1, <1>2 DEF Clean
<1>4. Asking \/ Spoiled
  <2>1. ~\E ok \in BOOLEAN : Answered(ok)
    BY <1>1 DEF Answered, Placed, Control, Reading
  <2> QED BY <1>1, <1>3, <2>1 DEF StepInv, CallStep
<1>5. cam.link => outs = <<>> /\ cam.st = "ready" /\ cam.n = 0
  BY <1>1, <1>4, WireBefore DEF Asking, Spoiled
<1>6. cur.op.phase \in {"none", "get", "send"}
  BY HostTypes
<1>7. CASE cur.op.phase = "send"
  <2>1. pc' = "senddata" /\ UNCHANGED <<rd, buf, fill>>
    BY <1>2, <1>7 DEF AfterSend
  <2>2. OnTheWire'
    BY <1>1, <1>2, <1>5, <2>1, RequestSent
  <2>3. ~Spoiled
    <3>1. OpenSession.phase = "none"
      BY DEF OpenSession
    <3> QED BY <1>1, <1>7, <3>1 DEF Spoiled, BaseInv, CallInv
  <2>4. Asking'
    <3>1. Session(FALSE)'
      BY <1>1, <1>4, <2>3 DEF Asking, Session
    <3> QED BY <1>1, <1>4, <1>7, <2>1, <2>2, <2>3, <3>1 DEF Asking
  <2> QED BY <2>1, <2>4, StepWithin DEF CallStep, Calling
<1>8. CASE cur.op.phase # "send"
  <2>1. ReadControl(FirstWant(cur))
    BY <1>2, <1>6, <1>8 DEF AfterSend, FirstWant
  <2>2. FirstWant(cur) \in {"start", "data", "end", "resp"}
    BY DEF FirstWant
  <2>3. Ahead' = Later /\ pc' \in {"fill", "got"} /\ rd'.part = "hdr"
    BY <1>1, <2>1, <2>2, ReadControlAhead
  <2>4. OnTheWire'
    BY <1>1, <1>2, <1>5, <1>8, <2>3, RequestSent
  <2>5. CASE Asking
    BY <1>1, <2>1, <2>4, <2>5, NowAsking DEF Asking
  <2>6. CASE Spoiled
    <3>1. Ahead' = Ahead
      BY <1>1, <2>3, AheadElse DEF Reading
    <3>2. Spoiled'
      BY <1>1, <2>3, <2>4, <2>6, <3>1 DEF Spoiled
    <3> QED BY <2>3, <3>2, StepWithin DEF CallStep, Calling
  <2> QED BY <1>4, <2>5, <2>6
<1> QED BY <1>7, <1>8

\* Four messages more.
FourOn(r, o, a, b, c, d) == r = o \o <<a>> \o <<b>> \o <<c>> \o <<d>>

\* They are the last ones of the stream.
LEMMA FourMore ==
    ASSUME NEW o \in Seq(Token), NEW a \in Token, NEW b \in Token, NEW c \in Token,
           NEW d \in Token, NEW r, FourOn(r, o, a, b, c, d)
    PROVE  /\ Len(r) = Len(o) + 4 /\ Len(o) \in Nat
           /\ \A i \in 1..Len(o) : r[i] = o[i]
           /\ r[Len(o) + 1] = a /\ r[Len(o) + 2] = b /\ r[Len(o) + 3] = c /\ r[Len(o) + 4] = d
<1> DEFINE p == o \o <<a>>
           q == p \o <<b>>
           s == q \o <<c>>
<1>1. ASSUME NEW u \in Seq(Token), NEW t \in Token
      PROVE  /\ u \o <<t>> \in Seq(Token) /\ Len(u \o <<t>>) = Len(u) + 1 /\ Len(u) \in Nat
             /\ \A i \in 1..Len(u) : (u \o <<t>>)[i] = u[i]
             /\ (u \o <<t>>)[Len(u) + 1] = t
  <2>1. <<t>> \in Seq(Token) /\ Len(<<t>>) = 1 /\ <<t>>[1] = t /\ Len(u) \in Nat
    BY OneSeq, LenProperties
  <2>2. /\ u \o <<t>> \in Seq(Token) /\ Len(u \o <<t>>) = Len(u) + 1
        /\ \A i \in 1..Len(u) + 1 :
              (u \o <<t>>)[i] = IF i <= Len(u) THEN u[i] ELSE <<t>>[i - Len(u)]
    BY <2>1, ConcatProperties
  <2>3. /\ \A i \in 1..Len(u) : i \in 1..Len(u) + 1 /\ i <= Len(u)
        /\ Len(u) + 1 \in 1..Len(u) + 1 /\ ~(Len(u) + 1 <= Len(u)) /\ Len(u) + 1 - Len(u) = 1
    BY <2>1
  <2> QED BY <2>1, <2>2, <2>3
<1>2. /\ p \in Seq(Token) /\ Len(p) = Len(o) + 1 /\ Len(o) \in Nat
      /\ \A i \in 1..Len(o) : p[i] = o[i]
      /\ p[Len(o) + 1] = a
  BY <1>1
<1>3. r = s \o <<d>>
  BY DEF FourOn
<1> HIDE DEF p
<1>4. /\ q \in Seq(Token) /\ Len(q) = Len(p) + 1
      /\ \A i \in 1..Len(p) : q[i] = p[i]
      /\ q[Len(p) + 1] = b
  BY <1>1, <1>2
<1> HIDE DEF q
<1>5. /\ s \in Seq(Token) /\ Len(s) = Len(q) + 1
      /\ \A i \in 1..Len(q) : s[i] = q[i]
      /\ s[Len(q) + 1] = c
  BY <1>1, <1>4
<1> HIDE DEF s
<1>6. /\ Len(r) = Len(s) + 1
      /\ \A i \in 1..Len(s) : r[i] = s[i]
      /\ r[Len(s) + 1] = d
  BY <1>1, <1>3, <1>5
<1>7. /\ Len(q) = Len(o) + 2 /\ Len(s) = Len(o) + 3 /\ Len(r) = Len(o) + 4
      /\ Len(p) + 1 = Len(o) + 2 /\ Len(q) + 1 = Len(o) + 3 /\ Len(s) + 1 = Len(o) + 4
  BY <1>2, <1>4, <1>5, <1>6
<1>8. \A i \in 1..Len(p) : i \in 1..Len(q) /\ i \in 1..Len(s)
  BY <1>2, <1>7
<1>9. \A i \in 1..Len(o) : i \in 1..Len(p)
  BY <1>2
<1>10. Len(o) + 1 \in 1..Len(p) /\ Len(o) + 2 \in 1..Len(q) /\ Len(o) + 2 \in 1..Len(s)
       /\ Len(o) + 3 \in 1..Len(s)
  BY <1>2, <1>7
<1>11. \A i \in 1..Len(p) : r[i] = p[i]
  BY <1>4, <1>5, <1>6, <1>8
<1>12. \A i \in 1..Len(o) : r[i] = o[i]
  BY <1>2, <1>9, <1>11
<1>13. r[Len(o) + 1] = a
  BY <1>2, <1>10, <1>11
<1>14. r[Len(o) + 2] = b
  BY <1>4, <1>5, <1>6, <1>7, <1>10
<1>15. r[Len(o) + 3] = c
  BY <1>5, <1>6, <1>7, <1>10
<1>16. r[Len(o) + 4] = d
  BY <1>6, <1>7
<1> QED BY <1>2, <1>7, <1>12, <1>13, <1>14, <1>15, <1>16

\* The data phase of a send.
LEMMA SendDataStep == ASSUME BaseInv, StepInv, SendData, Clean' PROVE StepInv'
<1>1. /\ pc = "senddata" /\ pc \in Calling
      /\ UNCHANGED <<phase, conn, cur, get, ins, cam, done>>
  BY DEF SendData, Calling
<1>2. PICK sent \in SUBSET (1..4) :
         /\ outs' = IF cam.link
                    THEN outs \o DataPart(1, sent) \o DataPart(2, sent)
                              \o DataPart(3, sent) \o DataPart(4, sent)
                    ELSE outs
         /\ IF 4 \in sent
            THEN /\ ReadControl("resp")
                 /\ faultAt' = IF sent = 1..4 THEN faultAt ELSE conn.n
                 /\ UNCHANGED result
            ELSE Abort("io") /\ UNCHANGED <<rd, buf, fill>>
  BY DEF SendData
<1>3. sent = 1..4 /\ ReadControl("resp") /\ faultAt' = faultAt
  <2>1. faultAt' # conn.n
    BY <1>1 DEF Clean
  <2> HIDE DEF ReadControl
  <2> QED BY <1>1, <1>2, <2>1, NotAborted
<1>4. Clean
  BY <1>1, <1>3 DEF Clean
<1>5. Asking
  <2>1. ~\E ok \in BOOLEAN : Answered(ok)
    BY <1>1 DEF Answered, Placed, Control, Reading
  <2>2. ~Spoiled
    BY <1>1 DEF Spoiled
  <2> QED BY <1>1, <1>4, <2>1, <2>2 DEF StepInv, CallStep
<1>6. cur.op.phase = "send" /\ Asked(cur)
  BY <1>1, <1>5, CurAsked DEF Asking
<1>7. pc' = "fill"
  BY <1>1, <1>3, <1>5, ReadControlAhead DEF Asking
<1>8. OnTheWire'
  <2> SUFFICES ASSUME cam.link PROVE OnTheWire'
    BY <1>1 DEF OnTheWire
  <2> DEFINE P(i) == Tok(DataParts[i], cur.id, cur.op.size)
             M == Messages(cur)
  <2>1. \A i \in 1..4 : DataPart(i, sent) = <<P(i)>>
    BY <1>3 DEF DataPart
  <2>2. \A i \in 1..4 : P(i) \in Token
    <3>1. \A i \in 1..4 : DataParts[i] \in {"start", "data", "pay", "end"}
      BY DEF DataParts
    <3> QED BY <1>6, <3>1 DEF Tok, Token, Kinds, Asked
  <2>3. Len(M) = 5 /\ \A i \in 1..4 : M[i + 1] = P(i)
    BY <1>6, MessagesAre
  <2>4. /\ cam.st = "recv" => cam.id = cur.id
        /\ cam.st = "ready" => cam.n = 0
        /\ Len(outs) = 1 - TakenSoFar
        /\ \A i \in 1..Len(outs) : outs[i] = M[TakenSoFar + i]
    BY <1>1, <1>5 DEF Asking, OnTheWire, SentSoFar
  <2>5. TakenSoFar' = TakenSoFar /\ SentSoFar' = 5
    BY <1>1, <1>7, <2>3 DEF TakenSoFar, SentSoFar, Messages
  <2>6. Messages(cur)' = M
    BY <1>1 DEF Messages
  <2>7. TakenSoFar \in Nat
    BY DEF TakenSoFar, BaseInv, TypeOK, CamType
  <2>8. FourOn(outs', outs, P(1), P(2), P(3), P(4))
    <3>1. outs' = outs \o DataPart(1, sent) \o DataPart(2, sent)
                       \o DataPart(3, sent) \o DataPart(4, sent)
      BY <1>2
    <3>2. /\ DataPart(1, sent) = <<P(1)>> /\ DataPart(2, sent) = <<P(2)>>
          /\ DataPart(3, sent) = <<P(3)>> /\ DataPart(4, sent) = <<P(4)>>
      BY <2>1
    <3> HIDE DEF P
    <3> QED BY ONLY <3>1, <3>2 DEF FourOn
  <2> HIDE DEF P, M
  <2>9. outs \in Seq(Token) /\ P(1) \in Token /\ P(2) \in Token /\ P(3) \in Token /\ P(4) \in Token
    BY <2>2, HostTypes
  <2> DEFINE n == Len(outs)
             T == TakenSoFar
  <2>10. /\ Len(outs') = n + 4 /\ n \in Nat
         /\ \A i \in 1..n : outs'[i] = outs[i]
         /\ outs'[n + 1] = P(1) /\ outs'[n + 2] = P(2) /\ outs'[n + 3] = P(3) /\ outs'[n + 4] = P(4)
    BY <2>8, <2>9, FourMore
  <2>11. M[2] = P(1) /\ M[3] = P(2) /\ M[4] = P(3) /\ M[5] = P(4)
    <3>1. 1 + 1 = 2 /\ 2 + 1 = 3 /\ 3 + 1 = 4 /\ 4 + 1 = 5
      OBVIOUS
    <3> QED BY <2>3, <3>1
  <2>12. n = 1 - T /\ T \in Nat /\ (\A i \in 1..n : outs[i] = M[T + i])
    BY <2>4, <2>7
  <2> HIDE DEF n, T
  <2>13. \A i \in 1..Len(outs') : outs'[i] = M[T + i]
    <3> TAKE i \in 1..Len(outs')
    <3>1. \/ i \in 1..n
          \/ i = n + 1 /\ T + i = 2
          \/ i = n + 2 /\ T + i = 3
          \/ i = n + 3 /\ T + i = 4
          \/ i = n + 4 /\ T + i = 5
      BY <2>10, <2>12
    <3>2. CASE i \in 1..n
      BY <2>10, <2>12, <3>2
    <3> QED BY <2>10, <2>11, <3>1, <3>2
  <2>14. Len(outs') = 5 - T
    BY <2>10, <2>12
  <2> QED BY <1>1, <1>6, <2>4, <2>5, <2>6, <2>13, <2>14 DEF OnTheWire, T
<1>9. ReadControl(FirstWant(cur))
  BY <1>3, <1>6 DEF FirstWant
<1> QED BY <1>1, <1>5, <1>8, <1>9, NowAsking DEF Asking

\* What the camera does with a message, by what it has read before.
LEMMA CamReads ==
    ASSUME BaseInv, CamRead, NEW m \in Token, m = Head(outs)
    PROVE  /\ m.k = "init" => /\ ins' \in {ins \o AckPkt(m.id), ins \o FailPkt(m.id)}
                              /\ UNCHANGED <<cam, done>>
           /\ m.k = "req" /\ cam.st = "ready" /\ ops[m.id + 1].phase = "send" =>
                 cam' = [cam EXCEPT !.st = "recv", !.id = m.id] /\ UNCHANGED <<ins, done>>
           /\ m.k = "req" /\ cam.st = "ready" /\ ops[m.id + 1].phase # "send" => Reply(m.id)
           /\ cam.st = "recv" /\ m.k = DataParts[cam.n + 1] /\ m.k = "end" => Reply(cam.id)
           /\ cam.st = "recv" /\ m.k = DataParts[cam.n + 1] /\ m.k # "end" =>
                 cam' = [cam EXCEPT !.n = @ + 1] /\ UNCHANGED <<ins, done>>
           /\ cam.st = "ready" /\ m.k = "part" =>
                 cam' = [cam EXCEPT !.link = FALSE] /\ UNCHANGED <<ins, done>>
<1>1. DataParts[cam.n + 1] \in {"start", "data", "pay", "end"}
  <2>1. cam.n + 1 \in 1..4
    BY DEF BaseInv, TypeOK, CamType
  <2>2. \A i \in 1..4 : DataParts[i] \in {"start", "data", "pay", "end"}
    BY DEF DataParts
  <2> QED BY <2>1, <2>2
<1> HIDE DEF Reply
<1>2. CASE m.k = "init"
  BY <1>1, <1>2 DEF CamRead, AckPkt, FailPkt
<1>3. CASE m.k = "req" /\ cam.st = "ready" /\ ops[m.id + 1].phase = "send"
  BY <1>1, <1>3 DEF CamRead
<1>4. CASE m.k = "req" /\ cam.st = "ready" /\ ops[m.id + 1].phase # "send"
  BY <1>1, <1>4 DEF CamRead
<1>5. CASE cam.st = "recv" /\ m.k = DataParts[cam.n + 1] /\ m.k = "end"
  BY <1>1, <1>5 DEF CamRead
<1>6. CASE cam.st = "recv" /\ m.k = DataParts[cam.n + 1] /\ m.k # "end"
  BY <1>1, <1>6 DEF CamRead
<1>7. CASE cam.st = "ready" /\ m.k = "part"
  BY <1>1, <1>7 DEF CamRead
<1>8. ~(cam.st = "ready" /\ cam.st = "recv")
  OBVIOUS
<1> QED BY <1>1, <1>2, <1>3, <1>4, <1>5, <1>6, <1>7, <1>8

\* The message it takes.
LEMMA CamTakes ==
    ASSUME BaseInv, CamRead
    PROVE  /\ cam.link /\ outs # <<>> /\ Len(outs) \in Nat /\ Len(outs) >= 1
           /\ Head(outs) \in Token /\ Head(outs) = outs[1]
           /\ Len(outs') = Len(outs) - 1
           /\ \A i \in 1..Len(outs') : outs'[i] = outs[i + 1]
           /\ Len(outs) = 1 => outs' = <<>>
           /\ UNCHANGED <<pc, phase, conn, cur, ops, buf, rd, fill, get, result, faultAt>>
<1>1. /\ cam.link /\ outs # <<>> /\ outs' = Tail(outs)
      /\ UNCHANGED <<pc, phase, conn, cur, ops, buf, rd, fill, get, result, faultAt>>
  BY DEF CamRead, host
<1>2. outs \in Seq(Token) /\ Len(outs) \in Nat /\ Len(outs) # 0
  BY <1>1, HostTypes, LenProperties, EmptySeq
<1>3. /\ Head(outs) = outs[1] /\ Tail(outs) \in Seq(Token) /\ Len(Tail(outs)) = Len(outs) - 1
      /\ \A i \in 1..Len(Tail(outs)) : Tail(outs)[i] = outs[i + 1]
  BY <1>1, <1>2, HeadTailProperties
<1>4. outs[1] \in Token
  <2>1. 1 \in 1..Len(outs)
    BY <1>2
  <2> QED BY <1>2, <2>1, ElementOfSeq
<1>5. Len(outs) = 1 => Tail(outs) = <<>>
  <2>1. Len(outs) = 1 => Len(Tail(outs)) = 0
    BY <1>3
  <2> QED BY <1>3, <2>1, EmptySeq
<1> QED BY <1>1, <1>2, <1>3, <1>4, <1>5

\* A response is added to what lies ahead.
LEMMA AheadAppend ==
    ASSUME BaseInv, pc \in Reading, rd.part = "hdr", UNCHANGED <<pc, buf, rd, fill>>,
           NEW x \in Seq(Token), Then(ins', ins, x), Ahead # <<>>
    PROVE  Ahead' # <<>> /\ Ahead'[1] = Ahead[1]
<1> DEFINE p == Front(rd)
           d == rd.dst
           b == buf.data
           z == (d \o fill) \o b
           a == Ahead
           y == Ahead'
<1>1. p \in Seq(Token) /\ d \in Seq(Token) /\ b \in Seq(Token) /\ fill \in Seq(Token)
      /\ ins \in Seq(Token)
  BY Pieces DEF Front
<1>2. y = p \o d \o fill \o (b \o ins')
  BY DEF Ahead, Later, Front, Reading
<1>3. a = p \o (z \o ins) /\ a \in Seq(Token)
  BY AheadReading
<1> HIDE DEF p, d, b, a, y
<1>4. ins' \in Seq(Token)
  BY <1>1, ConcatProperties DEF Then
<1>5. Regrouped(p, d, fill, b, ins')
  BY <1>1, <1>4, Regroup
<1>6. y = p \o (z \o ins')
  BY <1>2, <1>5 DEF Regrouped
<1>7. z \in Seq(Token)
  <2>1. d \o fill \in Seq(Token)
    BY <1>1, ConcatProperties
  <2> QED BY <1>1, <2>1, ConcatProperties
<1> HIDE DEF z
<1>8. z \o ins \in Seq(Token)
  BY <1>1, <1>7, ConcatProperties
<1>9. Assoc(z, ins, x) /\ Assoc(p, z \o ins, x)
  BY <1>1, <1>7, <1>8, AssocLemma
<1>10. y = a \o x
  BY <1>3, <1>6, <1>9 DEF Assoc, Then
<1>11. Len(a) \in Nat /\ Len(a) # 0 /\ Len(x) \in Nat
  BY <1>3, LenProperties, EmptySeq DEF a
<1>12. /\ Len(a \o x) = Len(a) + Len(x)
       /\ \A i \in 1..Len(a) + Len(x) : (a \o x)[i] = IF i <= Len(a) THEN a[i] ELSE x[i - Len(a)]
  BY <1>3, ConcatProperties
<1>13. 1 \in 1..Len(a) + Len(x) /\ 1 <= Len(a) /\ Len(a) + Len(x) # 0
  BY <1>11
<1>14. y[1] = a[1] /\ Len(y) # 0
  BY <1>10, <1>12, <1>13
<1>15. y # <<>>
  BY <1>14
<1> QED BY <1>14, <1>15 DEF y, a

\* All of an operation has been sent, and the camera answers it.
LEMMA AnswerStep ==
    ASSUME BaseInv, Asking, pc = "fill", Reply(cur.id), outs' = <<>>,
           UNCHANGED <<pc, phase, conn, cur, ops, buf, rd, fill, get>>
    PROVE  StepInv'
<1>1. /\ pc \in Calling /\ rd.part = "hdr" /\ rd.want = FirstWant(cur) /\ rd.dst = <<>>
      /\ fill = <<>> /\ buf.data = <<>> /\ ins = <<>> /\ get = NoGet /\ cur.id \notin done
      /\ cam.session = (phase # "open")
  BY DEF Asking, Calling, Session
<1>2. ops[cur.id + 1] = cur.op /\ phase \in {"open", "info", "use", "close"}
      /\ (phase = "open" => cur.op = OpenSession) /\ (phase = "close" => cur.op = CloseSession)
      /\ (phase \in {"info", "use"} => cur.op \in TcpOps \cup {DeviceInfo})
      /\ cam \in CamType
  BY <1>1 DEF BaseInv, CallInv, TypeOK
<1>3. Asked(cur) /\ Success(cur) \in Seq(Token) /\ Refusal(cur) \in Seq(Token)
  BY CurAsked, CallTokens
<1>4. ASSUME NEW w \in Seq(Token), ins' = w PROVE Ahead' = w
  <2>1. Ahead' = <<>> \o <<>> \o <<>> \o (<<>> \o ins')
    BY <1>1 DEF Ahead, Later, Reading
  <2>2. Neutral(w) /\ <<>> \o <<>> = <<>>
    <3>1. <<>> \in Seq(Token)
      BY EmptySeq
    <3> QED BY <3>1, NeutralLemma DEF Neutral
  <2>3. <<>> \o (<<>> \o w) = w
    BY <2>2 DEF Neutral
  <2> QED BY <1>4, <2>1, <2>2, <2>3
<1>5. CASE /\ \E d \in IF cur.op.phase = "get" THEN DataPhases(cur.id, cur.op.size) ELSE {<<>>} :
                 ins' = ins \o d \o Resp("ok", cur.id, cur.op.par)
           /\ done' = done \cup {cur.id}
           /\ cam' = [cam EXCEPT !.st = "ready", !.n = 0,
                        !.session = CASE cur.op = OpenSession -> TRUE
                                      [] cur.op = CloseSession -> FALSE
                                      [] OTHER -> @]
  <2> PICK d \in IF cur.op.phase = "get" THEN DataPhases(cur.id, cur.op.size) ELSE {<<>>} :
                 Then(ins', ins \o d, Success(cur))
    BY <1>5 DEF Success, Then
  <2>1. d \in Seq(Token)
    <3>1. CASE cur.op.phase = "get"
      <4>1. d \in DataPhases(cur.id, cur.op.size) /\ cur.id \in Nat /\ cur.op.size \in Nat
        BY <1>3, <3>1 DEF Asked
      <4>2. Known(0, {}) \subseteq Token
        BY DEF Known
      <4>3. d \in Seq(Known(0, {}))
        BY <4>1, DataPhaseTokens
      <4> QED BY <4>2, <4>3, SeqGrows
    <3>2. CASE cur.op.phase # "get"
      BY <3>2, EmptySeq
    <3> QED BY <3>1, <3>2
  <2>2. ins' = d \o Success(cur) /\ ins' \in Seq(Token)
    <3>1. Neutral(d)
      BY <2>1, NeutralLemma
    <3>2. ins \o d = d
      BY <1>1, <3>1 DEF Neutral
    <3>3. ins' = d \o Success(cur)
      BY <3>2 DEF Then
    <3>4. d \o Success(cur) \in Seq(Token)
      BY <1>3, <2>1, ConcatProperties
    <3> QED BY <3>3, <3>4
  <2>3. Ahead' = d \o Success(cur)
    BY <1>4, <2>2
  <2>4. Placed(TRUE)'
    <3>1. CASE cur.op.phase = "get"
      <4>1. Ahead' \in Answers(cur)
        BY <1>3, <2>3, <3>1, AnswerShape
      <4>2. Control("start")'
        BY <1>1, <3>1 DEF Control, FirstWant, Reading
      <4>3. Ahead' \in Answers(cur')
        BY <4>1
      <4> QED BY <1>1, <3>1, <4>2, <4>3 DEF Placed
    <3>2. CASE cur.op.phase # "get"
      <4>1. Ahead' = Success(cur)
        <5>1. d = <<>> /\ Neutral(Success(cur))
          BY <1>3, <3>2, NeutralLemma
        <5> QED BY <2>3, <5>1 DEF Neutral
      <4>2. Control("resp")'
        BY <1>1, <3>2 DEF Control, FirstWant, Reading
      <4>3. Ahead' = Success(cur')
        BY <4>1
      <4> QED BY <1>1, <3>2, <4>2, <4>3 DEF Placed
    <3> QED BY <3>1, <3>2
  <2>5. cam'.st = "ready" /\ cam'.n = 0 /\ cam'.session = (phase # "close")
    <3> DEFINE s == CASE cur.op = OpenSession -> TRUE [] cur.op = CloseSession -> FALSE
                      [] OTHER -> cam.session
    <3>1. cam' = [cam EXCEPT !.st = "ready", !.n = 0, !.session = s]
      BY <1>5
    <3>2. OpenSession # CloseSession
      BY DEF OpenSession, CloseSession
    <3>3. s = (phase # "close")
      <4>1. CASE phase = "open"
        BY <1>2, <3>2, <4>1
      <4>2. CASE phase = "close"
        BY <1>2, <3>2, <4>2
      <4>3. CASE phase \in {"info", "use"}
        <5>1. DeviceInfo # OpenSession /\ DeviceInfo # CloseSession
          BY DEF OpenSession, CloseSession, DeviceInfo
        <5>2. cur.op # OpenSession /\ cur.op # CloseSession
          BY <1>2, <4>3, <5>1, TcpAssumption
        <5>3. s = cam.session
          BY <5>2
        <5> HIDE DEF s
        <5> QED BY <1>1, <4>3, <5>3
      <4> QED BY <1>2, <4>1, <4>2, <4>3
    <3> HIDE DEF s
    <3> QED BY <1>2, <3>1, <3>3 DEF CamType
  <2>6. Answered(TRUE)'
    <3>1. Rested' /\ Session(TRUE)'
      BY <2>5 DEF Rested, Session
    <3>2. cur'.id \in done'
      BY <1>5
    <3> QED BY <2>4, <3>1, <3>2 DEF Answered
  <2> QED BY <1>1, <2>6, StepWithin DEF CallStep
<1>6. CASE /\ ins' = ins \o Resp("err", cur.id, 0)
           /\ cam' = [cam EXCEPT !.st = "ready", !.n = 0]
           /\ UNCHANGED done
  <2>1. ins' = Refusal(cur)
    <3>1. Neutral(Refusal(cur))
      BY <1>3, NeutralLemma
    <3>2. ins' = <<>> \o Refusal(cur)
      BY <1>1, <1>6 DEF Refusal
    <3> QED BY <3>1, <3>2 DEF Neutral
  <2>2. Ahead' = Refusal(cur) /\ Ahead' = Refusal(cur')
    BY <1>3, <1>4, <2>1
  <2>3. Placed(FALSE)'
    <3>1. CASE cur.op.phase = "get"
      <4>1. Control("start")'
        BY <1>1, <3>1 DEF Control, FirstWant, Reading
      <4> QED BY <1>1, <2>2, <3>1, <4>1 DEF Placed
    <3>2. CASE cur.op.phase # "get"
      <4>1. Control("resp")'
        BY <1>1, <3>2 DEF Control, FirstWant, Reading
      <4> QED BY <1>1, <2>2, <3>2, <4>1 DEF Placed
    <3> QED BY <3>1, <3>2
  <2>4. cam'.st = "ready" /\ cam'.n = 0 /\ cam'.session = cam.session
    BY <1>2, <1>6 DEF CamType
  <2>5. Answered(FALSE)'
    <3>1. Rested' /\ Session(FALSE)'
      BY <1>1, <2>4 DEF Rested, Session
    <3>2. (cur'.id \in done') = FALSE
      BY <1>1, <1>6
    <3> QED BY <2>3, <3>1, <3>2, Zenon DEF Answered
  <2> QED BY <1>1, <2>5, StepWithin DEF CallStep
<1> QED BY <1>2, <1>5, <1>6 DEF Reply

\* The camera takes a message of the operation in progress.
LEMMA CamReadAsking ==
    ASSUME BaseInv, Asking, pc \in Calling, CamRead
    PROVE  StepInv'
<1> DEFINE m == Head(outs)
           T == TakenSoFar
           M == Messages(cur)
<1>1. /\ cam.link /\ outs # <<>> /\ Len(outs) \in Nat /\ Len(outs) >= 1
      /\ m \in Token /\ m = outs[1] /\ Len(outs') = Len(outs) - 1
      /\ \A i \in 1..Len(outs') : outs'[i] = outs[i + 1]
      /\ Len(outs) = 1 => outs' = <<>>
      /\ UNCHANGED <<pc, phase, conn, cur, ops, buf, rd, fill, get>>
  BY CamTakes
<1>2. /\ cam.st = "recv" => cur.op.phase = "send" /\ cam.id = cur.id
      /\ cam.st = "ready" => cam.n = 0
      /\ Len(outs) = SentSoFar - T
      /\ \A i \in 1..Len(outs) : outs[i] = M[T + i]
  BY <1>1 DEF Asking, OnTheWire
<1>3. cam \in CamType /\ cam.n \in 0..3 /\ cam.st \in {"ready", "recv"} /\ cam.link \in BOOLEAN
      /\ T \in Nat
  BY DEF BaseInv, TypeOK, CamType, TakenSoFar
<1>4. /\ M[1] = Tok("req", cur.id, 0)
      /\ cur.op.phase # "send" => Len(M) = 1
      /\ cur.op.phase = "send" =>
            Len(M) = 5 /\ \A i \in 1..4 : M[i + 1] = Tok(DataParts[i], cur.id, cur.op.size)
  BY CurAsked, MessagesAre
<1>5. SentSoFar' = SentSoFar /\ Messages(cur)' = M
  BY <1>1 DEF SentSoFar, Messages
<1>6. m = M[T + 1] /\ ops[cur.id + 1] = cur.op
  <2>1. 1 \in 1..Len(outs)
    BY <1>1
  <2> QED BY <1>1, <1>2, <2>1 DEF BaseInv, CallInv
<1>7. \/ pc = "sendreq" /\ SentSoFar = 0
      \/ pc = "senddata" /\ SentSoFar = 1 /\ cur.op.phase = "send"
      \/ pc = "fill" /\ SentSoFar = Len(M)
  BY DEF Asking, SentSoFar
<1>8. ASSUME TakenSoFar' = T + 1, UNCHANGED <<ins, done>>, cam'.session = cam.session,
             cur.op.phase = "send", cam'.st = "recv", cam'.id = cur.id
      PROVE  StepInv'
  <2>1. Len(outs') = SentSoFar - (T + 1)
    BY <1>1, <1>2, <1>3, <1>4, <1>7, SMTT(20)
  <2>2. \A i \in 1..Len(outs') : outs'[i] = M[(T + 1) + i]
    <3> TAKE i \in 1..Len(outs')
    <3>1. i + 1 \in 1..Len(outs) /\ T + (i + 1) = (T + 1) + i
      BY <1>1, <1>3
    <3>2. outs'[i] = outs[i + 1] /\ outs[i + 1] = M[T + (i + 1)]
      BY <1>1, <1>2, <3>1
    <3> QED BY <3>1, <3>2
  <2> HIDE DEF M, T
  <2>3. OnTheWire'
    BY <1>1, <1>5, <1>8, <2>1, <2>2 DEF OnTheWire
  <2>4. Asking'
    <3>1. Session(FALSE)' /\ FirstWant(cur)' = FirstWant(cur)
      BY <1>1, <1>8 DEF Asking, Session, FirstWant
    <3> QED BY <1>1, <1>8, <2>3, <3>1 DEF Asking
  <2> QED BY <1>1, <2>4, StepWithin DEF CallStep
<1>9. CASE cam.st = "ready"
  <2>1. T = 0 /\ m = Tok("req", cur.id, 0) /\ m.k = "req" /\ m.id = cur.id
    <3>1. T = 0
      BY <1>9 DEF TakenSoFar
    <3>2. T + 1 = 1
      BY <3>1
    <3> QED BY <1>4, <1>6, <3>1, <3>2 DEF Tok
  <2> HIDE DEF m
  <2>2. CASE cur.op.phase = "send"
    <3>1. cam' = [cam EXCEPT !.st = "recv", !.id = m.id] /\ UNCHANGED <<ins, done>>
      BY <1>1, <1>6, <1>9, <2>1, <2>2, CamReads, ZenonT(40) DEF m
    <3>2. /\ cam'.st = "recv" /\ cam'.id = cur.id /\ cam'.n = 0
          /\ cam'.session = cam.session
      BY <1>2, <1>3, <1>9, <2>1, <3>1 DEF CamType
    <3>3. TakenSoFar' = T + 1
      BY <2>1, <3>2 DEF TakenSoFar
    <3> QED BY <1>8, <2>2, <3>1, <3>2, <3>3, SMTT(20)
  <2>3. CASE cur.op.phase # "send"
    <3> HIDE DEF Reply
    <3>1. Reply(cur.id)
      <4>1. ops[m.id + 1].phase # "send"
        BY <1>6, <2>1, <2>3
      <4> QED BY <1>1, <1>9, <2>1, <4>1, CamReads DEF m
    <3>2. pc = "fill" /\ outs' = <<>>
      <4>1. SentSoFar = 1 /\ pc = "fill"
        BY <1>1, <1>2, <1>4, <1>7, <2>1, <2>3
      <4>2. Len(outs) = 1
        BY <1>2, <2>1, <4>1
      <4> QED BY <1>1, <4>1, <4>2
    <3> QED BY <1>1, <3>1, <3>2, AnswerStep
  <2> QED BY <2>2, <2>3
<1>10. CASE cam.st = "recv"
  <2>1. T = cam.n + 1 /\ cur.op.phase = "send" /\ cam.id = cur.id
    BY <1>2, <1>10 DEF TakenSoFar
  <2>2. m = Tok(DataParts[cam.n + 1], cur.id, cur.op.size)
    <3>1. cam.n + 1 \in 1..4
      BY <1>3
    <3> QED BY <1>4, <1>6, <2>1, <3>1
  <2>3. m.k = DataParts[cam.n + 1]
    BY <2>2 DEF Tok
  <2>4. DataParts[1] = "start" /\ DataParts[2] = "data" /\ DataParts[3] = "pay" /\ DataParts[4] = "end"
    BY DEF DataParts
  <2>5. cam.n = 3 <=> m.k = "end"
    <3>1. \/ cam.n = 0 /\ m.k = "start"
          \/ cam.n = 1 /\ m.k = "data"
          \/ cam.n = 2 /\ m.k = "pay"
          \/ cam.n = 3 /\ m.k = "end"
      <4>1. \/ cam.n = 0 /\ cam.n + 1 = 1
            \/ cam.n = 1 /\ cam.n + 1 = 2
            \/ cam.n = 2 /\ cam.n + 1 = 3
            \/ cam.n = 3 /\ cam.n + 1 = 4
        BY <1>3
      <4> QED BY <2>3, <2>4, <4>1
    <3> QED BY <3>1
  <2> HIDE DEF m
  <2>6. CASE m.k = "end"
    <3> HIDE DEF Reply
    <3>1. Reply(cur.id)
      BY <1>1, <1>10, <2>1, <2>3, <2>6, CamReads DEF m
    <3>2. pc = "fill" /\ outs' = <<>>
      <4>1. T = 4
        BY <2>1, <2>5, <2>6
      <4>2. SentSoFar = 5 /\ pc = "fill"
        BY <1>1, <1>2, <1>4, <1>7, <2>1, <4>1
      <4>3. Len(outs) = 1
        BY <1>2, <4>1, <4>2
      <4> QED BY <1>1, <4>2, <4>3
    <3> QED BY <1>1, <3>1, <3>2, AnswerStep
  <2>7. CASE m.k # "end"
    <3>1. cam' = [cam EXCEPT !.n = @ + 1] /\ UNCHANGED <<ins, done>>
      BY <1>1, <1>10, <2>3, <2>7, CamReads DEF m
    <3>2. cam'.st = "recv" /\ cam'.id = cur.id /\ cam'.n = cam.n + 1 /\ cam'.session = cam.session
      BY <1>3, <1>10, <2>1, <3>1 DEF CamType
    <3>3. TakenSoFar' = T + 1
      BY <2>1, <3>2 DEF TakenSoFar
    <3> QED BY <1>8, <2>1, <3>1, <3>2, <3>3
  <2> QED BY <2>6, <2>7
<1> QED BY <1>3, <1>9, <1>10

\* It answers the open of a session while the rest of an init ack is read: the
\* host has met that, or will.
LEMMA CamReadSpoiled ==
    ASSUME BaseInv, Spoiled, pc \in Calling, CamRead
    PROVE  StepInv'
<1> DEFINE m == Head(outs)
<1>1. /\ cam.link /\ outs # <<>> /\ Len(outs) \in Nat /\ Len(outs) >= 1
      /\ m \in Token /\ m = outs[1]
      /\ Len(outs) = 1 => outs' = <<>>
      /\ UNCHANGED <<pc, phase, conn, cur, ops, buf, rd, fill, get>>
  BY CamTakes
<1>2. cur.op = OpenSession /\ cur.op.phase = "none" /\ ops[cur.id + 1] = cur.op /\ cam \in CamType
  BY DEF Spoiled, BaseInv, TypeOK, CallInv, OpenSession
<1>3. Len(Messages(cur)) = 1 /\ Messages(cur)[1] = Tok("req", cur.id, 0)
  BY <1>2, CurAsked, MessagesAre
<1>4. ~Rested /\ OnTheWire
  BY <1>1 DEF Rested, Spoiled
<1>5. cam.st = "ready" /\ TakenSoFar = 0
  BY <1>1, <1>2, <1>4 DEF OnTheWire, CamType, TakenSoFar
<1>6. pc \in {"fill", "got"} /\ rd.part = "hdr" /\ Ahead # <<>> /\ Odd(Ahead[1])
  BY <1>1, <1>4, WireBefore DEF Spoiled
<1>7. Len(outs) = 1 /\ outs[1] = Messages(cur)[0 + 1]
  <2>1. SentSoFar = 1
    BY <1>3, <1>6 DEF SentSoFar
  <2>2. Len(outs) = 1
    BY <1>1, <1>4, <1>5, <2>1 DEF OnTheWire
  <2>3. 1 \in 1..Len(outs)
    BY <2>2
  <2> QED BY <1>1, <1>4, <1>5, <2>2, <2>3 DEF OnTheWire
<1>8. outs' = <<>> /\ m.k = "req" /\ m.id = cur.id
  <2>1. 0 + 1 = 1
    BY SMTT(20)
  <2> QED BY <1>1, <1>3, <1>7, <2>1 DEF Tok
<1> HIDE DEF m, Reply
<1>9. Reply(cur.id)
  <2>1. ops[m.id + 1].phase # "send"
    BY <1>2, <1>8
  <2> QED BY <1>1, <1>5, <1>8, <2>1, CamReads DEF m
<1>10. \E x \in Seq(Token) : Then(ins', ins, x) /\ cam'.st = "ready" /\ cam'.n = 0
  <2>1. CASE /\ \E d \in IF cur.op.phase = "get" THEN DataPhases(cur.id, cur.op.size) ELSE {<<>>} :
                 ins' = ins \o d \o Resp("ok", cur.id, cur.op.par)
             /\ cam'.st = "ready" /\ cam'.n = 0
    <3>1. ins' = ins \o <<>> \o Success(cur)
      BY <1>2, <2>1 DEF Success
    <3>2. Success(cur) \in Seq(Token) /\ ins \in Seq(Token)
      BY CurAsked, CallTokens, Pieces
    <3>3. Neutral(ins)
      BY <3>2, NeutralLemma
    <3>4. Then(ins', ins, Success(cur))
      BY <3>1, <3>3 DEF Neutral, Then
    <3> QED BY <2>1, <3>2, <3>4
  <2>2. CASE /\ ins' = ins \o Resp("err", cur.id, 0)
             /\ cam'.st = "ready" /\ cam'.n = 0
    <3>1. Then(ins', ins, Refusal(cur)) /\ Refusal(cur) \in Seq(Token)
      BY <2>2, CurAsked, CallTokens DEF Refusal, Then
    <3> QED BY <2>2, <3>1
  <2> QED BY <1>2, <1>9, <2>1, <2>2 DEF Reply, CamType
<1>11. PICK x \in Seq(Token) : Then(ins', ins, x)
  BY <1>10
<1>12. Ahead' # <<>> /\ Ahead'[1] = Ahead[1]
  BY <1>1, <1>6, <1>11, AheadAppend DEF Reading
<1>13. Rested'
  BY <1>8, <1>10 DEF Rested
<1>14. Spoiled'
  BY <1>1, <1>6, <1>12, <1>13 DEF Spoiled
<1> QED BY <1>1, <1>14, StepWithin DEF CallStep

\* It answers the init request, or takes a part of one for the end.
LEMMA CamReadInit ==
    ASSUME BaseInv, StepInv, Clean, Clean', pc = "ack", CamRead
    PROVE  StepInv'
<1> DEFINE m == Head(outs)
<1>1. /\ cam.link /\ outs # <<>> /\ Len(outs) \in Nat /\ Len(outs) >= 1
      /\ m \in Token /\ m = outs[1]
      /\ Len(outs) = 1 => outs' = <<>>
      /\ UNCHANGED <<pc, phase, conn, cur, ops, buf, rd, fill, get>>
  BY CamTakes
<1>2. /\ Begun /\ ins = <<>> /\ Len(outs) = 1 /\ m.k \in {"init", "part"}
  BY <1>1 DEF StepInv, RestStep
<1>3. m.id \in Nat /\ cam.st = "ready"
  BY <1>1, <1>2 DEF Token, Begun
<1> HIDE DEF m
<1>4. CASE m.k = "init"
  <2> DEFINE a == AckPkt(m.id)
             f == FailPkt(m.id)
  <2>1. ins' \in {ins \o a, ins \o f} /\ UNCHANGED <<cam, done>>
    BY <1>1, <1>4, CamReads DEF m
  <2>2. /\ a \in Seq(Known(0, {})) /\ f \in Seq(Known(0, {}))
        /\ Len(a) = 3 /\ Len(f) = 1 /\ a[1].k = "ack" /\ f[1].k = "fail"
        /\ \A i \in 2..3 : a[i].k \in {"tid", "pay"}
    BY <1>3, AckFacts
  <2> HIDE DEF a, f
  <2>3. Neutral(a) /\ Neutral(f)
    BY <2>2, NeutralLemma
  <2>4. ins' \in {a, f}
    BY <1>2, <2>1, <2>3 DEF Neutral
  <2>5. ins' # <<>> /\ (ins'[1].k = "ack" => \A i \in 2..Len(ins') : Odd(ins'[i]))
    <3>1. CASE ins' = a
      <4>1. Len(ins') = 3 /\ ins' # <<>>
        BY <2>2, <3>1
      <4> QED BY <2>2, <3>1, <4>1 DEF Odd
    <3>2. CASE ins' = f
      <4>1. Len(ins') = 1 /\ ins'[1].k = "fail"
        BY <2>2, <3>2
      <4>2. ins' # <<>>
        BY <4>1
      <4> QED BY <4>1, <4>2
    <3> QED BY <2>4, <3>1, <3>2
  <2>6. Begun' /\ outs' = <<>>
    BY <1>1, <1>2, <2>1 DEF Begun
  <2> QED BY <1>1, <2>5, <2>6, SMTT(20) DEF StepInv, CallStep, RestStep, Calling
<1>5. CASE m.k = "part"
  <2>1. cam' = [cam EXCEPT !.link = FALSE] /\ UNCHANGED <<ins, done>>
    BY <1>1, <1>3, <1>5, CamReads DEF m
  <2>2. UNCHANGED host
    BY DEF CamRead
  <2> QED BY <1>1, <2>1, <2>2, LinkLost, SMTT(20)
<1> QED BY <1>2, <1>4, <1>5

\* The camera takes a message.
LEMMA CamReadStep == ASSUME BaseInv, StepInv, CamRead, Clean' PROVE StepInv'
<1>1. cam.link /\ outs # <<>> /\ UNCHANGED <<conn, faultAt>>
  BY CamTakes
<1>2. Clean
  BY <1>1 DEF Clean
<1>3. ~Rested
  BY <1>1 DEF Rested
<1>4. CASE pc \in Calling
  <2>1. Asking \/ Spoiled
    BY <1>2, <1>3, <1>4 DEF StepInv, CallStep, Answered
  <2> QED BY <1>4, <2>1, CamReadAsking, CamReadSpoiled
<1>5. CASE pc \notin Calling
  <2>1. pc \in {"down", "initcmd", "ack", "event", "failed", "opened", "idle", "closing"}
    BY <1>5 DEF BaseInv, TypeOK
  <2>2. RestStep
    BY <1>2 DEF StepInv
  <2>3. pc = "ack"
    BY <1>1, <1>3, <2>1, <2>2 DEF RestStep, AtRest
  <2> QED BY <1>2, <2>3, CamReadInit
<1> QED BY <1>4, <1>5

\* Nothing has happened yet.
LEMMA InitStep == ASSUME Init PROVE StepInv /\ OwnData
<1>1. /\ pc = "down" /\ outs = <<>> /\ result.rc = "none" /\ cam.session = FALSE
      /\ cam.link = FALSE
  BY DEF Init
<1> QED BY <1>1 DEF StepInv, CallStep, RestStep, Rested, Calling, OwnData

\* Every step keeps host and camera together, or records a fault.
LEMMA TcpStep == ASSUME BaseInv, StepInv, [Next]_vars, Clean' PROVE StepInv'
<1>1. CASE UNCHANGED vars
  <2>1. UNCHANGED <<pc, phase, conn, cur, ops, buf, rd, fill, get, result, faultAt,
                    outs, ins, cam, done>>
    BY <1>1 DEF vars, host, net
  <2>2. Ahead' = Ahead /\ SentSoFar' = SentSoFar /\ TakenSoFar' = TakenSoFar
    BY <2>1 DEF Ahead, Later, SentSoFar, TakenSoFar, Messages
  <2>3. (OnTheWire => OnTheWire') /\ (Rested => Rested') /\ (Begun => Begun') /\ (AtRest => AtRest')
    <3>1. Messages(cur)' = Messages(cur)
      BY <2>1 DEF Messages
    <3> QED BY <2>1, <2>2, <3>1 DEF OnTheWire, Rested, Begun, AtRest
  <2>4. Clean /\ CallStep /\ RestStep
    BY <2>1 DEF StepInv, Clean
  <2>5. RestStep'
    BY <2>1, <2>3, <2>4 DEF RestStep
  <2>6. CallStep'
    <3> SUFFICES ASSUME pc \in Calling
                 PROVE  Asking' \/ Spoiled' \/ \E ok \in BOOLEAN : Answered(ok)'
      BY <2>1 DEF CallStep
    <3>1. CASE Asking
      <4>1. Session(FALSE)' /\ FirstWant(cur)' = FirstWant(cur)
        BY <2>1, <3>1 DEF Asking, Session, FirstWant
      <4> QED BY <2>1, <2>3, <3>1, <4>1 DEF Asking
    <3>2. CASE Spoiled
      BY <2>1, <2>2, <2>3, <3>2 DEF Spoiled
    <3>3. ASSUME NEW ok \in BOOLEAN, Answered(ok) PROVE Answered(ok)'
      <4>1. Placed(ok)'
        BY <2>1, <2>2, <3>3, PlacedSame DEF Answered
      <4>2. Session(ok)'
        BY <2>1, <3>3 DEF Answered, Session
      <4> QED BY <2>1, <2>3, <3>3, <4>1, <4>2 DEF Answered
    <3> QED BY <2>4, <3>1, <3>2, <3>3 DEF CallStep
  <2> QED BY <2>5, <2>6 DEF StepInv
<1>2. CASE Next
  <2>1. CASE Connect \/ SendInit \/ InitAck \/ EventChannel \/ Opened \/ Close \/ CloseSockets
             \/ \E op \in TcpOps : Transaction(op)
    BY <2>1, ConnectStep, SendInitStep, InitAckStep, EventChannelStep, OpenedStep, CloseStep,
       CloseSocketsStep, TransactionStep
  <2>2. CASE SendReq \/ SendData \/ Fill \/ RecvData \/ Header \/ StartData
    BY <2>2, SendReqStep, SendDataStep, FillStep, RecvDataStep, HeaderStep, StartDataStep
  <2>3. CASE DataStarts \/ PayRead \/ Handler \/ EndData \/ Response
    BY <2>3, DataStartsStep, PayReadStep, HandlerStep, EndDataStep, ResponseStep
  <2>4. CASE CamRead \/ CamClose
    BY <2>4, CamReadStep, CamCloseStep
  <2> QED BY <1>2, <2>1, <2>2, <2>3, <2>4 DEF Next
<1> QED BY <1>1, <1>2

\* A step that keeps to the call it is in, or returns without success.
Unreturned == Clean' => pc' # "idle" \/ result'.rc # "ok"

\* An operation that is abandoned does not return while nothing has failed.
LEMMA AbortOwn == ASSUME NEW rc, Abort(rc), conn' = conn PROVE Unreturned
  BY NotAborted DEF Unreturned

\* A read that begins does not return.
LEMMA StartReadOwn ==
    ASSUME NEW part, NEW want, NEW hdr, NEW n, StartRead(part, want, hdr, n)
    PROVE  pc' # "idle"
  BY DEF StartRead

\* The same of the reads the data phase goes on with.
LEMMA GoOnOwn == ASSUME NEW g, GoOn(g) PROVE pc' # "idle"
<1>1. ASSUME NEW want, ReadControl(want) PROVE pc' # "idle"
  BY <1>1, StartReadOwn DEF ReadControl
<1>2. CASE NextPay(g)
  BY <1>2, StartReadOwn DEF NextPay
<1>3. CASE LoopEnd(g)
  BY <1>1, <1>3 DEF LoopEnd
<1> QED BY <1>2, <1>3 DEF GoOn

\* Only the response ends a call with success.
LEMMA HostOwn ==
    ASSUME \/ SendReq \/ SendData \/ Fill \/ RecvData \/ Header \/ StartData
           \/ DataStarts \/ PayRead \/ Handler \/ EndData
    PROVE  Unreturned
<1>1. ASSUME NEW want, ReadControl(want) PROVE Unreturned
  BY <1>1, StartReadOwn DEF ReadControl, Unreturned
<1>2. conn' = conn
  BY DEF SendReq, SendData, Fill, RecvData, Header, StartData, DataStarts, PayRead, Handler,
         EndData
<1>3. CASE SendReq
  <2>1. AfterSend => pc' # "idle"
    BY StartReadOwn DEF AfterSend, ReadControl
  <2>2. AfterSend \/ Abort("io")
    BY <1>3 DEF SendReq
  <2> QED BY <1>2, <2>1, <2>2, AbortOwn DEF Unreturned
<1>4. CASE SendData
  <2>1. ReadControl("resp") \/ Abort("io")
    BY <1>4 DEF SendData
  <2> QED BY <1>1, <1>2, <2>1, AbortOwn
<1>5. CASE Fill
  <2>1. pc' # "idle" \/ Abort("badparam") \/ Abort("io")
    BY <1>5 DEF Fill
  <2> QED BY <1>2, <2>1, AbortOwn DEF Unreturned
<1>6. CASE RecvData
  <2>1. pc' # "idle" \/ Abort("io")
    BY <1>6 DEF RecvData
  <2> QED BY <1>2, <2>1, AbortOwn DEF Unreturned
<1>7. CASE Header
  <2>1. pc' # "idle" \/ Abort("badparam")
    BY <1>7, StartReadOwn DEF Header
  <2> QED BY <1>2, <2>1, AbortOwn DEF Unreturned
<1>8. CASE StartData
  <2>1. ReadControl("data") \/ Finish("dataexpected", cur.id) \/ Abort("badparam")
    BY <1>8 DEF StartData
  <2>2. Finish("dataexpected", cur.id) => result'.rc # "ok"
    BY DEF Finish
  <2> QED BY <1>1, <1>2, <2>1, <2>2, AbortOwn DEF Unreturned
<1>9. CASE DataStarts
  <2>1. pc' # "idle" \/ Abort("dataexpected")
    BY <1>9, GoOnOwn DEF DataStarts
  <2> QED BY <1>2, <2>1, AbortOwn DEF Unreturned
<1>10. CASE PayRead
  <2>1. pc' # "idle"
    BY <1>10, GoOnOwn DEF PayRead
  <2> QED BY <2>1 DEF Unreturned
<1>11. CASE Handler
  <2>1. pc' # "idle" \/ Abort("handler")
    BY <1>11, GoOnOwn DEF Handler
  <2> QED BY <1>2, <2>1, AbortOwn DEF Unreturned
<1>12. CASE EndData
  <2>1. ReadControl("resp") \/ Abort("dataexpected")
    BY <1>12 DEF EndData
  <2> QED BY <1>1, <1>2, <2>1, AbortOwn
<1> QED BY <1>3, <1>4, <1>5, <1>6, <1>7, <1>8, <1>9, <1>10, <1>11, <1>12

\* The camera carries out one operation more, or none.
LEMMA CamDone ==
    ASSUME BaseInv, CamRead
    PROVE  \/ UNCHANGED done
           \/ /\ \/ cam.st = "ready" /\ outs[1].k = "req" /\ done' = done \cup {outs[1].id}
                 \/ cam.st = "recv" /\ done' = done \cup {cam.id}
              /\ UNCHANGED host
<1> DEFINE m == Head(outs)
<1>1. m = outs[1] /\ UNCHANGED host /\ cam.st \in {"ready", "recv"}
  BY CamTakes DEF CamRead, BaseInv, TypeOK, CamType
<1>2. ASSUME NEW id, Reply(id) PROVE UNCHANGED done \/ done' = done \cup {id}
  BY <1>2, SMTT(20) DEF Reply
<1> HIDE DEF m, Reply
<1>3. CASE m.k = "init"
  BY <1>3, CamTakes, CamReads DEF m
<1>4. CASE m.k = "req" /\ cam.st = "ready"
  <2>1. UNCHANGED done \/ Reply(m.id)
    BY <1>4, CamTakes, CamReads DEF m
  <2> QED BY <1>1, <1>2, <1>4, <2>1, SMTT(20)
<1>5. CASE m.k # "init" /\ ~(m.k = "req" /\ cam.st = "ready")
  <2>1. UNCHANGED done \/ (cam.st = "recv" /\ Reply(cam.id))
    BY <1>5 DEF CamRead, m
  <2> QED BY <1>1, <1>2, <2>1
<1> QED BY <1>3, <1>4, <1>5

\* Success stays what it was where no call returns.
LEMMA OwnStep == ASSUME BaseInv, StepInv, OwnData, [Next]_vars PROVE OwnData'
<1>1. ASSUME Unreturned PROVE OwnData'
  BY <1>1 DEF Unreturned, OwnData
<1>2. ASSUME UNCHANGED <<pc, conn, faultAt, result, ops>>, done \subseteq done'
      PROVE  OwnData'
  BY <1>2 DEF OwnData, Clean
<1>3. CASE UNCHANGED vars \/ CamClose
  BY <1>2, <1>3 DEF vars, host, net, CamClose
<1>4. CASE CamRead
  <2>1. done \subseteq done'
    BY <1>4, CamDone
  <2> QED BY <1>2, <1>4, <2>1 DEF CamRead, host
<1>5. CASE Connect \/ SendInit \/ InitAck \/ EventChannel \/ Opened \/ Close \/ CloseSockets
           \/ \E op \in TcpOps : Transaction(op)
  <2>1. pc' # "idle"
    BY <1>5 DEF Connect, SendInit, InitAck, EventChannel, Opened, Close, CloseSockets,
                Transaction, Begin
  <2> QED BY <2>1 DEF OwnData
<1>6. CASE SendReq \/ SendData \/ Fill \/ RecvData \/ Header \/ StartData
           \/ DataStarts \/ PayRead \/ Handler \/ EndData
  BY <1>1, <1>6, HostOwn
<1>7. CASE Response
  BY <1>7, ResponseOwn
<1> QED BY <1>3, <1>4, <1>5, <1>6, <1>7 DEF Next

\* The inductive invariant, in every state.
THEOREM InductiveTcp == Spec => []IndInv
<1>1. Init => IndInv
  BY InitBase, InitStep DEF IndInv
<1>2. IndInv /\ [Next]_vars => IndInv'
  <2> SUFFICES ASSUME BaseInv, StepInv, OwnData, [Next]_vars PROVE IndInv'
    BY DEF IndInv
  <2>1. BaseInv' /\ OwnData'
    BY BaseStep, OwnStep
  <2>2. StepInv'
    BY TcpStep DEF StepInv
  <2> QED BY <2>1, <2>2 DEF IndInv
<1> QED BY <1>1, <1>2, PTL DEF Spec

\* TcpInStep: while nothing has failed on a connection, nothing is left in the
\* stream or in the buffer between calls.
THEOREM StreamInStep == Spec => []TcpInStep
<1>1. IndInv => TcpInStep
  BY DEF IndInv, StepInv, RestStep, AtRest, Rested, TcpInStep
<1> QED BY <1>1, InductiveTcp, PTL

\* OwnData: a call that returns success has its own response and the whole of
\* its data phase, in blocks of the size of its handler, however recv cuts the
\* stream and the camera the data phase.
THEOREM DataIsOwn == Spec => []OwnData
<1>1. IndInv => OwnData
  BY DEF IndInv
<1> QED BY <1>1, InductiveTcp, PTL

\* The sockets that are open are those ptp_cs has the numbers of and, for each
\* event channel that did not connect, that of the attempt.
SocketInv ==
    conn.open \subseteq Named(conn) \cup {<<"ev", i>> : i \in conn.refused}

\* A step that leaves the sockets alone.
LEMMA SameSockets ==
    ASSUME SocketInv, conn'.n = conn.n, conn'.cmd = conn.cmd, conn'.ev = conn.ev,
           conn'.open = conn.open, conn'.refused = conn.refused
    PROVE  SocketInv'
<1>1. Named(conn)' = Named(conn)
  <2>1. \A x \in {"cmd", "ev"} : conn'[x] = conn[x]
    OBVIOUS
  <2> QED BY <2>1 DEF Named
<1> QED BY <1>1 DEF SocketInv

\* A socket is in ptp_cs where its field is set.
LEMMA NamedHas ==
    ASSUME NEW c
    PROVE  /\ c.cmd => <<"cmd", c.n>> \in Named(c)
           /\ c.ev => <<"ev", c.n>> \in Named(c)
           /\ ~c.cmd /\ ~c.ev => Named(c) = {}
           /\ Named(c) \subseteq {<<"cmd", c.n>>, <<"ev", c.n>>}
           /\ <<"cmd", c.n>> \in Named(c) => c.cmd
           /\ <<"ev", c.n>> \in Named(c) => c.ev
  BY DEF Named

\* Every step keeps it: a connect begins with no socket in ptp_cs, and the end
\* of a connection closes those that are.
LEMMA SocketStep == ASSUME BaseInv, SocketInv, [Next]_vars PROVE SocketInv'
<1>1. conn \in ConnType
  BY DEF BaseInv, TypeOK
<1>2. CASE Connect
  <2>1. ~conn.cmd /\ ~conn.ev
    BY <1>2 DEF Connect, BaseInv, CallInv
  <2>2. conn.open \subseteq {<<"ev", i>> : i \in conn.refused}
    BY <2>1, NamedHas DEF SocketInv
  <2>3. /\ conn'.refused = conn.refused
        /\ \/ conn'.open = conn.open
           \/ conn'.open = conn.open \cup {<<"cmd", conn'.n>>} /\ conn'.cmd
    BY <1>1, <1>2, ConnectConn
  <2>4. conn'.cmd => <<"cmd", conn'.n>> \in Named(conn')
    BY NamedHas
  <2> QED BY <2>2, <2>3, <2>4 DEF SocketInv
<1>3. CASE EventChannel
  <2>1. \/ conn' = Opens(conn, "ev") \/ conn' = conn \/ conn' = EventRefused
    BY <1>3 DEF EventChannel
  <2>2. CASE conn' = conn
    BY <2>2, SameSockets
  <2>3. CASE conn' = EventRefused
    <3>1. /\ conn'.n = conn.n /\ conn'.cmd = conn.cmd /\ conn'.ev = conn.ev
          /\ conn'.open = conn.open \cup {<<"ev", conn.n>>}
          /\ conn'.refused = conn.refused \cup {conn.n}
      BY <1>1, <2>3, RefusedConn
    <3>2. Named(conn') = Named(conn)
      <4>1. \A x \in {"cmd", "ev"} : conn'[x] = conn[x]
        BY <3>1
      <4> QED BY <3>1, <4>1 DEF Named
    <3> QED BY <3>1, <3>2 DEF SocketInv
  <2>4. CASE conn' = Opens(conn, "ev")
    <3>1. /\ conn'.n = conn.n /\ conn'.cmd = conn.cmd /\ conn'.ev
          /\ conn'.open = conn.open \cup {<<"ev", conn.n>>}
          /\ conn'.refused = conn.refused
      BY <1>1, <2>4, OpensConn
    <3>2. <<"ev", conn'.n>> \in Named(conn') /\ (conn'.cmd => <<"cmd", conn'.n>> \in Named(conn'))
      BY <3>1, NamedHas
    <3>3. Named(conn) \subseteq Named(conn')
      BY <3>1, <3>2, NamedHas
    <3> QED BY <3>1, <3>2, <3>3 DEF SocketInv
  <2> QED BY <2>1, <2>2, <2>3, <2>4
<1>4. CASE CloseSockets
  <2>1. conn'.open = conn.open \ Named(conn) /\ conn'.refused = conn.refused
    BY <1>1, <1>4, ReleasedConn DEF CloseSockets
  <2> QED BY <2>1 DEF SocketInv
<1>5. CASE InitAck \/ Opened
  <2>1. /\ conn'.n = conn.n /\ conn'.cmd = conn.cmd /\ conn'.ev = conn.ev
        /\ conn'.open = conn.open /\ conn'.refused = conn.refused
    BY <1>1, <1>5 DEF InitAck, Opened, ConnType
  <2> QED BY <2>1, SameSockets
<1>6. CASE \/ SendInit \/ Close \/ \E op \in TcpOps : Transaction(op)
           \/ SendReq \/ SendData \/ Fill \/ RecvData \/ Header \/ StartData
           \/ DataStarts \/ PayRead \/ Handler \/ EndData \/ Response
           \/ CamRead \/ CamClose \/ UNCHANGED vars
  <2>1. conn' = conn
    BY <1>6 DEF SendInit, Close, Transaction, SendReq, SendData, Fill, RecvData, Header,
       StartData, DataStarts, PayRead, Handler, EndData, Response, CamRead, CamClose, vars, host
  <2> QED BY <2>1, SameSockets
<1> QED BY <1>2, <1>3, <1>4, <1>5, <1>6 DEF Next

\* ClosedDown: after the end of a connection, or of a connect that failed, no
\* socket of any connection is open but that of an event channel that did not
\* connect, and the session neither unless the camera refused.
THEOREM DownIsClosed == Spec => []ClosedDown
<1>1. Init => SocketInv
  BY DEF Init, NewConn, SocketInv
<1>2. IndInv /\ SocketInv /\ [Next]_vars => SocketInv'
  BY SocketStep DEF IndInv
<1>3. IndInv /\ SocketInv => ClosedDown
  <2> SUFFICES ASSUME IndInv, SocketInv, pc = "down" PROVE ClosedDown
    BY DEF ClosedDown
  <2>1. ~conn.cmd /\ ~conn.ev /\ ~conn.ai /\ ~conn.connected
    BY DEF IndInv, BaseInv, CallInv
  <2>2. Named(conn) = {}
    BY <2>1, NamedHas
  <2>3. conn.open \subseteq {<<"ev", i>> : i \in conn.refused}
    BY <2>2 DEF SocketInv
  <2>4. Clean /\ cam.session => result.rc = "err"
    BY DEF IndInv, StepInv, RestStep
  <2> QED BY <2>1, <2>2, <2>3, <2>4 DEF ClosedDown
<1> QED BY <1>1, <1>2, <1>3, InductiveTcp, PTL DEF Spec

-----------------------------------------------------------------------------
(***************************************************************************)
(* A transaction is a call of PtpRpc.                                      *)
(***************************************************************************)
Refusals == {"err", "dataexpected"}

\* Where no call has failed, nothing has on the connection there is.
LEMMA NoFaultClean == ASSUME BaseInv, faultAt = 0, pc # "down" PROVE Clean
<1>1. conn.n > 0
  BY DEF BaseInv, TypeOK, CallInv
<1>2. conn.n # 0
  BY <1>1, HostTypes DEF BaseInv, TypeOK, ConnType
<1> QED BY <1>2 DEF Clean

\* The end of a transaction is a return of PtpRpc.
LEMMA RpcReturns ==
    ASSUME BaseInv, pc \in Calling, UNCHANGED <<ops, done>>,
           NEW rc \in Codes \ {"none"}, NEW from \in Nat, Finish(rc, from),
           from < Len(ops),
           faultAt' = 0 <=> faultAt = 0 /\ rc \in {"ok"} \cup Refusals,
           rc = "ok" => from \in done,
           rc = "ok" /\ faultAt = 0 => from = cur.id,
           rc \in Refusals /\ faultAt = 0 => cur.id \notin done
    PROVE  TcpRpc!Return
<1> DEFINE kind == CASE rc = "ok" -> "ok"
                     [] rc \in Refusals -> "refused"
                     [] OTHER -> "failed"
<1>1. Len(ops) = cur.id + 1 /\ cur.id \in Nat
  BY DEF BaseInv, TypeOK, CallInv
<1>2. Len(ops) - 1 = cur.id /\ from \in 0..Len(ops)-1
  BY <1>1
<1>3. /\ pc' \notin Calling
      /\ result'.rc = rc /\ result'.id = cur.id /\ result'.from = from
  BY DEF Finish, Calling, BaseInv, TypeOK
<1>4. kind \in {"ok", "refused", "failed"}
  OBVIOUS
<1>5. /\ kind = "ok" <=> rc = "ok"
      /\ kind = "refused" <=> rc \in Refusals
      /\ kind = "failed" <=> rc \notin {"ok"} \cup Refusals
  BY DEF Refusals
<1>6. [rc   |-> CASE result'.rc \in {"none", "ok"} -> result'.rc
                  [] result'.rc \in {"err", "dataexpected"} -> "refused"
                  [] OTHER -> "failed",
       id   |-> result'.id,
       from |-> result'.from]
      = [rc |-> kind, id |-> Len(ops) - 1, from |-> from]
  <2>1. (CASE result'.rc \in {"none", "ok"} -> result'.rc
           [] result'.rc \in {"err", "dataexpected"} -> "refused"
           [] OTHER -> "failed") = kind
    BY <1>3 DEF Refusals
  <2> HIDE DEF kind
  <2> QED BY <2>1, <1>2, <1>3
<1>7. faultAt' = 0 <=> faultAt = 0 /\ kind # "failed"
  BY <1>5
<1> HIDE DEF kind
<1> QED BY <1>1, <1>2, <1>3, <1>4, <1>5, <1>6, <1>7 DEF TcpRpc!Return, TcpRpc!Results

\* An early return: the failure is recorded, and is not taken for a refusal.
LEMMA RpcAborts ==
    ASSUME BaseInv, pc \in Calling, UNCHANGED <<ops, done>>,
           NEW rc \in Codes \ {"none", "ok", "err"}, Abort(rc),
           rc = "dataexpected" => faultAt # 0
    PROVE  TcpRpc!Return
<1>1. cur.id \in Nat /\ cur.id < Len(ops) /\ conn.n # 0
  BY DEF BaseInv, TypeOK, CallInv, ConnType
<1>2. Finish(rc, cur.id) /\ faultAt' # 0
  BY <1>1 DEF Abort
<1>3. faultAt' = 0 <=> faultAt = 0 /\ rc \in {"ok"} \cup Refusals
  BY <1>2 DEF Refusals
<1> QED BY <1>1, <1>2, <1>3, RpcReturns DEF Refusals

\* A step within a transaction is no step of PtpRpc, or the failure of the
\* transport that its caller is not told of.
LEMMA RpcGoesOn ==
    ASSUME BaseInv, pc \in Calling, pc' \in Calling, UNCHANGED <<ops, done, result>>,
           faultAt' \in {faultAt, conn.n}
    PROVE  TcpRpc!Fault \/ UNCHANGED TcpRpc!vars
<1>1. conn.n # 0
  BY DEF BaseInv, TypeOK, CallInv, ConnType
<1>2. (pc' \in Calling) = (pc \in Calling)
  OBVIOUS
<1>3. CASE faultAt' = faultAt
  BY <1>2, <1>3 DEF TcpRpc!vars
<1>4. CASE faultAt' = conn.n
  <2>1. (faultAt' = 0) = FALSE
    BY <1>1, <1>4
  <2> QED BY <1>2, <2>1 DEF TcpRpc!Fault
<1> QED BY <1>3, <1>4

\* A step outside of a transaction is no step of PtpRpc.
LEMMA RpcStutters ==
    ASSUME pc \notin Calling, pc' \notin Calling, UNCHANGED <<ops, done, result, faultAt>>
    PROVE  UNCHANGED TcpRpc!vars
<1>1. (pc \in Calling) = FALSE /\ (pc' \in Calling) = FALSE
  OBVIOUS
<1> QED BY <1>1 DEF TcpRpc!vars

\* A transaction begins.
LEMMA RpcBegins ==
    ASSUME BaseInv, pc \notin Calling, NEW op, op \in TcpOpType, NEW ph, Begin(op, ph),
           UNCHANGED <<result, faultAt, done>>
    PROVE  TcpRpc!Call
<1>1. Len(ops') = Len(ops) + 1
  BY AppendProperties DEF Begin, BaseInv, TypeOK
<1>2. (pc' \in Calling) = TRUE /\ (pc \in Calling) = FALSE
  BY DEF Begin, Calling
<1> QED BY <1>1, <1>2 DEF TcpRpc!Call

\* Where a response comes instead of a data phase, the camera has refused.
LEMMA StrayRefused ==
    ASSUME BaseInv, StepInv, Clean, pc = "got", rd.part = "body", rd.want = "start",
           IsResp(rd.hdr)
    PROVE  cur.id \notin done
<1>1. PICK ok \in BOOLEAN : Answered(ok)
  BY GotAnswered
<1>2. ~ok
  <2>1. rd.hdr.k # "start"
    BY DEF IsResp
  <2> QED BY <1>1, <2>1, StartHere
<1> QED BY <1>1, <1>2 DEF Answered

\* While nothing has failed, a data phase is not broken off.
LEMMA NotBroken ==
    ASSUME BaseInv, StepInv, Clean, pc = "got", rd.part = "body"
    PROVE  /\ rd.want = "data" => IsData(rd.hdr)
           /\ rd.want = "end" => rd.hdr.k = "end"
<1>1. PICK ok \in BOOLEAN : Answered(ok)
  BY GotAnswered
<1>2. rd.want \in {"data", "end"} => Answered(TRUE)
  <2>1. rd.want \in {"data", "end"} => ok
    BY <1>1 DEF Answered, Placed, Control
  <2> QED BY <1>1, <2>1
<1>3. rd.want = "data" => IsData(rd.hdr)
  BY <1>2, DataHere DEF KindOf, IsData
<1>4. rd.want = "end" => rd.hdr.k = "end"
  BY <1>2, EndHere
<1> QED BY <1>3, <1>4

\* The response is returned with the number of the operation it answers.
LEMMA RpcResponds ==
    ASSUME BaseInv, StepInv, Response
    PROVE  TcpRpc!Return
<1>1. /\ pc = "got" /\ rd.part = "body" /\ rd.want = "resp" /\ pc \in Calling
      /\ UNCHANGED <<ops, done, conn>> /\ rd.hdr \in KnownTok
  BY DEF Response, net, Calling, BaseInv, TypeOK, RdType
<1>2. rd.hdr.id \in Nat
  BY <1>1 DEF KnownTok, Known, Token
<1>3. CASE IsResp(rd.hdr)
  <2>1. Finish(rd.hdr.k, rd.hdr.id) /\ faultAt' = faultAt
    BY <1>3 DEF Response, Code
  <2>2. /\ rd.hdr.k \in {"ok", "err"} /\ rd.hdr.id < Len(ops)
        /\ rd.hdr.k = "ok" => rd.hdr.id \in done
    BY <1>1, <1>3 DEF IsResp, KnownTok, Known
  <2>3. rd.hdr.k \in Codes \ {"none"}
    BY <2>2 DEF Codes
  <2>4. ASSUME faultAt = 0
        PROVE  /\ rd.hdr.k = "ok" => rd.hdr.id = cur.id
               /\ rd.hdr.k = "err" => cur.id \notin done
    <3>1. Clean'
      <4>1. Clean
        BY <1>1, <2>4, NoFaultClean
      <4> QED BY <1>1, <2>1, <4>1 DEF Clean
    <3>2. PICK ok \in BOOLEAN :
             Answered(ok) /\ Finish(IF ok THEN "ok" ELSE "err", cur.id)
      BY <3>1, ResponseFacts
    <3>3. /\ result'.rc = rd.hdr.k /\ result'.from = rd.hdr.id
          /\ result'.rc = (IF ok THEN "ok" ELSE "err") /\ result'.from = cur.id
      BY <2>1, <3>2 DEF Finish
    <3>4. (cur.id \in done) = ok
      BY <3>2 DEF Answered
    <3> QED BY <3>3, <3>4
  <2>5. faultAt' = 0 <=> faultAt = 0 /\ rd.hdr.k \in {"ok"} \cup Refusals
    BY <2>1, <2>2 DEF Refusals
  <2>6. rd.hdr.k \in Refusals /\ faultAt = 0 => cur.id \notin done
    BY <2>2, <2>4 DEF Refusals
  <2> DEFINE rc == rd.hdr.k
             from == rd.hdr.id
  <2>7. /\ rc \in Codes \ {"none"} /\ from \in Nat /\ Finish(rc, from) /\ from < Len(ops)
        /\ faultAt' = 0 <=> faultAt = 0 /\ rc \in {"ok"} \cup Refusals
        /\ rc = "ok" => from \in done
        /\ rc = "ok" /\ faultAt = 0 => from = cur.id
        /\ rc \in Refusals /\ faultAt = 0 => cur.id \notin done
    BY <1>2, <2>1, <2>2, <2>3, <2>4, <2>5, <2>6
  <2> HIDE DEF rc, from
  <2> QED BY <1>1, <2>7, RpcReturns
<1>4. CASE ~IsResp(rd.hdr)
  <2>1. Abort("respexpected")
    BY <1>4 DEF Response
  <2>2. "respexpected" \in Codes \ {"none", "ok", "err"} /\ "respexpected" # "dataexpected"
    BY DEF Codes
  <2> QED BY <1>1, <2>1, <2>2, RpcAborts
<1> QED BY <1>3, <1>4

\* A read that begins is within the transaction.
LEMMA StartReadCalls ==
    ASSUME NEW part, NEW want, NEW hdr, NEW n, StartRead(part, want, hdr, n)
    PROVE  pc' \in Calling
  BY DEF StartRead, Calling

\* The same of the reads the data phase goes on with.
LEMMA GoOnCalls == ASSUME NEW g, GoOn(g) PROVE pc' \in Calling
<1>1. ASSUME NEW want, ReadControl(want) PROVE pc' \in Calling
  BY <1>1, StartReadCalls DEF ReadControl
<1>2. CASE NextPay(g)
  BY <1>2, StartReadCalls DEF NextPay
<1>3. CASE LoopEnd(g)
  BY <1>1, <1>3 DEF LoopEnd, Calling
<1> QED BY <1>2, <1>3 DEF GoOn

\* What a step of the host within a transaction is for PtpRpc.
LEMMA RpcHost ==
    ASSUME BaseInv, StepInv,
           \/ SendReq \/ SendData \/ Fill \/ RecvData \/ Header \/ StartData
           \/ DataStarts \/ PayRead \/ Handler \/ EndData \/ Response
    PROVE  TcpRpc!Next \/ UNCHANGED TcpRpc!vars
<1>1. pc \in Calling /\ UNCHANGED <<ops, done, conn>>
  BY DEF SendReq, SendData, Fill, RecvData, Header, StartData, DataStarts, PayRead, Handler,
         EndData, Response, net, Calling
<1>2. ASSUME pc' \in Calling, UNCHANGED result, faultAt' \in {faultAt, conn.n}
      PROVE  TcpRpc!Next \/ UNCHANGED TcpRpc!vars
  BY <1>1, <1>2, RpcGoesOn DEF TcpRpc!Next
<1>3. ASSUME NEW rc \in {"badparam", "io", "handler"}, Abort(rc)
      PROVE  TcpRpc!Next
  <2>1. rc \in Codes \ {"none", "ok", "err"} /\ rc # "dataexpected"
    BY <1>3 DEF Codes
  <2> QED BY <1>1, <1>3, <2>1, RpcAborts DEF TcpRpc!Next
<1>4. ASSUME Abort("dataexpected"), faultAt # 0
      PROVE  TcpRpc!Next
  <2>1. "dataexpected" \in Codes \ {"none", "ok", "err"}
    BY DEF Codes
  <2> QED BY <1>1, <1>4, <2>1, RpcAborts DEF TcpRpc!Next
<1>5. ASSUME NEW want, ReadControl(want)
      PROVE  pc' \in Calling
  BY <1>5, StartReadCalls DEF ReadControl
<1>6. faultAt = 0 => Clean
  BY <1>1, NoFaultClean DEF Calling
<1>7. CASE SendReq
  <2>1. \/ AfterSend /\ UNCHANGED result /\ faultAt' \in {faultAt, conn.n}
        \/ Abort("io")
    BY <1>7 DEF SendReq
  <2>2. AfterSend => pc' \in Calling
    BY <1>5 DEF AfterSend, Calling
  <2> QED BY <2>1, <2>2, <1>2, <1>3
<1>8. CASE SendData
  <2>1. \/ ReadControl("resp") /\ UNCHANGED result /\ faultAt' \in {faultAt, conn.n}
        \/ Abort("io")
    BY <1>8 DEF SendData
  <2> QED BY <2>1, <1>2, <1>3, <1>5
<1>9. CASE Fill
  <2>1. \/ pc' \in Calling /\ UNCHANGED <<result, faultAt>>
        \/ Abort("badparam") \/ Abort("io")
    BY <1>9, <1>1 DEF Fill, Calling
  <2> QED BY <2>1, <1>2, <1>3
<1>10. CASE RecvData
  <2>1. \/ pc' \in Calling /\ UNCHANGED <<result, faultAt>>
        \/ Abort("io")
    BY <1>10 DEF RecvData, Calling
  <2> QED BY <2>1, <1>2, <1>3
<1>11. CASE Header
  <2>1. \/ pc' \in Calling /\ UNCHANGED <<result, faultAt>>
        \/ Abort("badparam")
    BY <1>11, StartReadCalls DEF Header
  <2> QED BY <2>1, <1>2, <1>3
<1>12. CASE StartData
  <2>1. \/ ReadControl("data") /\ UNCHANGED <<result, faultAt>>
        \/ IsResp(rd.hdr) /\ Finish("dataexpected", cur.id) /\ UNCHANGED faultAt
        \/ Abort("badparam")
    BY <1>12 DEF StartData
  <2>2. ASSUME IsResp(rd.hdr), Finish("dataexpected", cur.id), UNCHANGED faultAt
        PROVE  TcpRpc!Next
    <3>1. pc = "got" /\ rd.part = "body" /\ rd.want = "start"
      BY <1>12 DEF StartData
    <3>2. faultAt = 0 => cur.id \notin done
      BY <1>6, <2>2, <3>1, StrayRefused
    <3>3. "dataexpected" \in (Codes \ {"none"}) \cap Refusals
      BY DEF Codes, Refusals
    <3>4. cur.id \in Nat /\ cur.id < Len(ops)
      BY <1>1 DEF BaseInv, TypeOK, CallInv
    <3> QED BY <1>1, <2>2, <3>2, <3>3, <3>4, RpcReturns DEF TcpRpc!Next
  <2> QED BY <2>1, <2>2, <1>2, <1>3, <1>5
<1>13. CASE DataStarts
  <2>1. \/ GoOn(get') /\ UNCHANGED <<result, faultAt>>
        \/ ~IsData(rd.hdr) /\ Abort("dataexpected")
    BY <1>13 DEF DataStarts
  <2>2. ~IsData(rd.hdr) => faultAt # 0
    BY <1>6, <1>13, NotBroken DEF DataStarts
  <2> QED BY <2>1, <2>2, <1>2, <1>4, GoOnCalls
<1>14. CASE PayRead
  <2>1. pc' \in Calling /\ UNCHANGED <<result, faultAt>>
    BY <1>14, GoOnCalls DEF PayRead, Calling
  <2> QED BY <2>1, <1>2
<1>15. CASE Handler
  <2>1. \/ GoOn(get') /\ UNCHANGED <<result, faultAt>>
        \/ Abort("handler")
    BY <1>15 DEF Handler
  <2> QED BY <2>1, <1>2, <1>3, GoOnCalls
<1>16. CASE EndData
  <2>1. \/ ReadControl("resp") /\ UNCHANGED <<result, faultAt>>
        \/ rd.hdr.k # "end" /\ Abort("dataexpected")
    BY <1>16 DEF EndData
  <2>2. rd.hdr.k # "end" => faultAt # 0
    BY <1>6, <1>16, NotBroken DEF EndData
  <2> QED BY <2>1, <2>2, <1>2, <1>4, <1>5
<1>17. CASE Response
  BY <1>17, RpcResponds DEF TcpRpc!Next
<1> QED BY <1>7, <1>8, <1>9, <1>10, <1>11, <1>12, <1>13, <1>14, <1>15, <1>16, <1>17

\* There is no camera where there is no connection.
DownInv == pc = "down" => ~cam.link

\* The only way there is the end of a connection.
LEMMA DownStep == ASSUME BaseInv, DownInv, [Next]_vars PROVE DownInv'
<1>1. ASSUME pc' # "down" PROVE DownInv'
  BY <1>1 DEF DownInv
<1>2. ASSUME pc' = pc, cam'.link => cam.link PROVE DownInv'
  BY <1>2 DEF DownInv
<1>3. ASSUME pc' \in Calling PROVE DownInv'
  BY <1>1, <1>3 DEF Calling
<1>4. phase \in {"open", "info", "use", "close"}
  BY DEF BaseInv, TypeOK
<1>5. ASSUME NEW rc, NEW from, Finish(rc, from) PROVE DownInv'
  BY <1>1, <1>4, <1>5 DEF Finish
<1>6. ASSUME NEW rc, Abort(rc) PROVE DownInv'
  BY <1>5, <1>6 DEF Abort
<1>7. ASSUME NEW want, ReadControl(want) PROVE DownInv'
  BY <1>3, <1>7, StartReadCalls DEF ReadControl
<1>8. CASE UNCHANGED vars
  BY <1>2, <1>8 DEF vars, net, host
<1>9. CASE CamClose \/ CloseSockets
  BY <1>9 DEF CamClose, CloseSockets, DownInv, BaseInv, TypeOK, CamType, host
<1>10. CASE CamRead
  <2>1. pc # "down" /\ pc' = pc
    BY <1>10, CamTakes DEF DownInv
  <2> QED BY <1>1, <2>1
<1>11. CASE Connect \/ SendInit \/ InitAck \/ EventChannel \/ Opened \/ Close
            \/ \E op \in TcpOps : Transaction(op)
  <2>1. pc' # "down"
    BY <1>11 DEF Connect, SendInit, InitAck, EventChannel, Opened, Close, Transaction, Begin
  <2> QED BY <1>1, <2>1
<1>12. CASE SendReq
  <2>1. AfterSend \/ Abort("io")
    BY <1>12 DEF SendReq
  <2>2. AfterSend => DownInv'
    BY <1>1, <1>7 DEF AfterSend
  <2> QED BY <1>6, <2>1, <2>2
<1>13. CASE SendData \/ EndData
  <2>1. ReadControl("resp") \/ Abort("io") \/ Abort("dataexpected")
    BY <1>13 DEF SendData, EndData
  <2> QED BY <1>6, <1>7, <2>1
<1>14. CASE Fill \/ RecvData
  <2>1. pc' # "down" \/ Abort("badparam") \/ Abort("io")
    BY <1>14 DEF Fill, RecvData
  <2> QED BY <1>1, <1>6, <2>1
<1>15. CASE Header
  <2>1. pc' \in Calling \/ Abort("badparam")
    BY <1>15, StartReadCalls DEF Header
  <2> QED BY <1>3, <1>6, <2>1
<1>16. CASE StartData
  <2>1. ReadControl("data") \/ Finish("dataexpected", cur.id) \/ Abort("badparam")
    BY <1>16 DEF StartData
  <2> QED BY <1>5, <1>6, <1>7, <2>1
<1>17. CASE DataStarts \/ PayRead \/ Handler
  <2>1. pc' \in Calling \/ Abort("dataexpected") \/ Abort("handler")
    BY <1>17, GoOnCalls DEF DataStarts, PayRead, Handler, Calling
  <2> QED BY <1>3, <1>6, <2>1
<1>18. CASE Response
  <2>1. Finish(Code(rd.hdr), rd.hdr.id) \/ Abort("respexpected")
    BY <1>18 DEF Response
  <2> QED BY <1>5, <1>6, <2>1
<1> QED BY <1>8, <1>9, <1>10, <1>11, <1>12, <1>13, <1>14, <1>15, <1>16, <1>17, <1>18 DEF Next

\* While nothing has failed, the camera carries out the operation in progress.
LEMMA CamServes ==
    ASSUME BaseInv, StepInv, Clean, CamRead
    PROVE  IF pc \in Calling
           THEN /\ cam.st = "ready" /\ outs[1].k = "req" => outs[1].id = cur.id
                /\ cam.st = "recv" => cam.id = cur.id
           ELSE cam.st = "ready" /\ outs[1].k # "req"
<1>1. cam.link /\ outs # <<>> /\ Len(outs) \in Nat /\ Len(outs) >= 1
  BY CamTakes
<1>2. ~Rested
  BY <1>1 DEF Rested
<1>3. CASE pc \in Calling
  <2>1. OnTheWire
    BY <1>2, <1>3 DEF StepInv, CallStep, Answered, Asking, Spoiled
  <2>2. /\ cam.st = "recv" => cam.id = cur.id
        /\ \A i \in 1..Len(outs) : outs[i] = Messages(cur)[TakenSoFar + i]
    BY <1>1, <2>1 DEF OnTheWire
  <2>3. cam.st = "ready" => outs[1] = Tok("req", cur.id, 0)
    <3> SUFFICES ASSUME cam.st = "ready" PROVE outs[1] = Tok("req", cur.id, 0)
      OBVIOUS
    <3>1. TakenSoFar = 0 /\ 0 + 1 = 1 /\ 1 \in 1..Len(outs)
      BY <1>1 DEF TakenSoFar
    <3>2. Messages(cur)[1] = Tok("req", cur.id, 0)
      BY CurAsked, MessagesAre
    <3> QED BY <2>2, <3>1, <3>2
  <2> QED BY <1>3, <2>2, <2>3 DEF Tok
<1>4. CASE pc \notin Calling
  <2>1. pc \in {"down", "initcmd", "ack", "event", "failed", "opened", "idle", "closing"}
    BY <1>4 DEF BaseInv, TypeOK
  <2>2. pc = "ack" /\ RestStep
    BY <1>1, <1>2, <2>1 DEF StepInv, RestStep, AtRest
  <2>3. cam.st = "ready" /\ outs[1].k \in {"init", "part"}
    BY <1>1, <2>2 DEF RestStep, Begun
  <2> QED BY <1>4, <2>3
<1> QED BY <1>3, <1>4

\* What a step of the camera is for PtpRpc.
LEMMA RpcCamera ==
    ASSUME BaseInv, StepInv, DownInv, CamRead
    PROVE  TcpRpc!Next \/ UNCHANGED TcpRpc!vars
<1>1. UNCHANGED <<pc, ops, result, faultAt>>
  BY DEF CamRead, host
<1>2. CASE UNCHANGED done
  BY <1>1, <1>2 DEF TcpRpc!vars
<1>3. CASE done' # done
  <2>1. PICK id \in Nat :
           /\ id < Len(ops) /\ done' = done \cup {id}
           /\ \/ cam.st = "ready" /\ outs[1].k = "req" /\ id = outs[1].id
              \/ cam.st = "recv" /\ id = cam.id
    <3>1. /\ 1 \in 1..Len(outs) /\ outs[1] \in Token
      BY CamTakes
    <3>2. outs[1].id \in Nat /\ cam.id \in Nat
      BY <3>1 DEF Token, BaseInv, TypeOK, CamType
    <3>3. /\ outs[1].k = "req" => outs[1].id < Len(ops)
          /\ cam.st = "recv" => cam.id < Len(ops)
      BY <3>1 DEF BaseInv, CallInv
    <3> QED BY <1>3, <3>2, <3>3, CamDone
  <2>2. id \notin done
    BY <1>3, <2>1
  <2>3. faultAt = 0 => pc \in Calling /\ id = cur.id
    <3> SUFFICES ASSUME faultAt = 0 PROVE pc \in Calling /\ id = cur.id
      OBVIOUS
    <3>1. pc # "down"
      BY CamTakes DEF DownInv
    <3>2. Clean
      BY <3>1, NoFaultClean
    <3> QED BY <2>1, <3>2, CamServes
  <2>4. pc \in Calling => Len(ops) - 1 = cur.id
    BY DEF BaseInv, TypeOK, CallInv
  <2>5. id \in 0..Len(ops)-1
    <3>1. Len(ops) \in Nat
      BY LenProperties DEF BaseInv, TypeOK
    <3> QED BY <2>1, <3>1
  <2>6. faultAt = 0 => pc \in Calling /\ id = Len(ops) - 1
    BY <2>3, <2>4
  <2>7. TcpRpc!Execute
    BY <1>1, <2>1, <2>2, <2>5, <2>6 DEF TcpRpc!Execute
  <2> QED BY <2>7 DEF TcpRpc!Next
<1> QED BY <1>2, <1>3

\* What a step of the start or the end of a connection is for PtpRpc, and one
\* of a caller.
LEMMA RpcCaller ==
    ASSUME BaseInv,
           \/ Connect \/ SendInit \/ InitAck \/ EventChannel \/ Opened \/ Close
           \/ CloseSockets \/ \E op \in TcpOps : Transaction(op)
    PROVE  TcpRpc!Next \/ UNCHANGED TcpRpc!vars
<1>1. /\ pc \notin Calling
      /\ UNCHANGED <<result, faultAt, done>>
  BY DEF Connect, SendInit, InitAck, EventChannel, Opened, Close, CloseSockets, Transaction,
         Calling, net
<1>2. ASSUME NEW op \in TcpOpType, NEW ph, Begin(op, ph) PROVE TcpRpc!Next
  BY <1>1, <1>2, RpcBegins DEF TcpRpc!Next
<1>3. ASSUME pc' \notin Calling, UNCHANGED ops PROVE UNCHANGED TcpRpc!vars
  BY <1>1, <1>3, RpcStutters
<1>4. CASE Connect \/ SendInit \/ InitAck \/ CloseSockets
  <2>1. pc' \notin Calling /\ UNCHANGED ops
    BY <1>4 DEF Connect, SendInit, InitAck, CloseSockets, Calling
  <2> QED BY <1>3, <2>1
<1>5. CASE EventChannel \/ Opened \/ Close
  <2>1. \/ Begin(OpenSession, "open") \/ Begin(DeviceInfo, "info")
        \/ Begin(CloseSession, "close")
        \/ pc' \in {"failed", "closing"} /\ UNCHANGED ops
    BY <1>5 DEF EventChannel, Opened, Close
  <2>2. pc' \in {"failed", "closing"} => pc' \notin Calling
    BY DEF Calling
  <2> QED BY <1>2, <1>3, <2>1, <2>2, OwnOps
<1>6. ASSUME NEW op \in TcpOps, Transaction(op) PROVE TcpRpc!Next
  <2>1. op \in TcpOpType /\ Begin(op, "use")
    BY <1>6, TcpAssumption DEF Transaction
  <2> QED BY <1>2, <2>1
<1> QED BY <1>4, <1>5, <1>6

\* Every step is a step of PtpRpc or none.
LEMMA RpcStep ==
    ASSUME BaseInv, StepInv, DownInv, [Next]_vars
    PROVE  [TcpRpc!Next]_TcpRpc!vars
<1>1. CASE UNCHANGED vars \/ CamClose
  BY <1>1 DEF vars, host, net, CamClose, TcpRpc!vars
<1>2. CASE CamRead
  BY <1>2, RpcCamera
<1>3. CASE Connect \/ SendInit \/ InitAck \/ EventChannel \/ Opened \/ Close \/ CloseSockets
           \/ \E op \in TcpOps : Transaction(op)
  BY <1>3, RpcCaller
<1>4. CASE SendReq \/ SendData \/ Fill \/ RecvData \/ Header \/ StartData
           \/ DataStarts \/ PayRead \/ Handler \/ EndData \/ Response
  BY <1>4, RpcHost
<1> QED BY <1>1, <1>2, <1>3, <1>4 DEF Next

\* RefinesRpc: a transaction over TCP keeps the contract of one over USB. It is
\* carried out at most once, success means that the operation whose response
\* was taken was carried out, and until the first failure on any connection
\* that is the caller's own and a refusal means it was not.
THEOREM TcpTransactionIsCall == Spec => RefinesRpc
<1>1. Init => DownInv
  BY DEF Init, DownInv
<1>2. IndInv /\ DownInv /\ [Next]_vars => DownInv'
  BY DownStep DEF IndInv
<1>3. Init => TcpRpc!Init
  <2> SUFFICES ASSUME Init PROVE TcpRpc!Init
    OBVIOUS
  <2>1. Len(ops) = 0 /\ (pc \in Calling) = FALSE /\ (faultAt = 0) = TRUE
    BY DEF Init, Calling
  <2> QED BY <2>1 DEF Init, TcpRpc!Init
<1>4. IndInv /\ DownInv /\ [Next]_vars => [TcpRpc!Next]_TcpRpc!vars
  BY RpcStep DEF IndInv
<1> QED BY <1>1, <1>2, <1>3, <1>4, InductiveTcp, PTL DEF Spec, RefinesRpc, TcpRpc!Spec

=============================================================================
