------------------------------- MODULE PtpTcp -------------------------------
(***************************************************************************)
(* PTP over TCP: the start and the end of a connection and the             *)
(* transactions on its command channel.  The stream is counted in tokens:  *)
(* one for the header of a PTP/IP packet (8 bytes), one for a transaction  *)
(* id with what is of fixed length beside it, one per response parameter   *)
(* and per unit of payload.  A recv returns any part of what the camera    *)
(* has sent; unlike a USB read it has no timeout.  Camera and network are  *)
(* external: the camera answers in order, splits data phases as it likes,  *)
(* refuses any operation, and either end may lose the link at any time.    *)
(***************************************************************************)
EXTENDS PktBuf, Integers

CONSTANTS
    BufLen,     \* PTP_PACKET_BUFFER_SIZE in tokens
    TcpOps,     \* the operations the callers may request
    MaxTrans,   \* bound on the transactions before a caller starts one
    MaxConn     \* bound on the connections

\* An operation; the session is opened and closed by init_ptp_tcp and
\* close_camera_tcp only (OpenSession and CloseSession).
TcpOpType == [code : Nat, phase : {"none", "get", "send"}, size : Nat,
              block : Nat, par : Nat]

OpenSession == [code |-> 1, phase |-> "none", size |-> 0, block |-> 0, par |-> 0]
DeviceInfo  == [code |-> 2, phase |-> "get", size |-> 1, block |-> 0, par |-> 0]
CloseSession == [OpenSession EXCEPT !.code = 3]

ASSUME TcpAssumption ==
    /\ BufLen \in Nat \ {0} /\ MaxTrans \in Nat /\ MaxConn \in Nat
    /\ TcpOps \subseteq TcpOpType \ {OpenSession, CloseSession}

\* A response fits the buffer, as a PTPIPContainer does: a load of more than
\* PTP_PACKET_BUFFER_SIZE, which ptp_transport_read_to_buffer refuses, is asked
\* for by no caller.
ASSUME ResponseFits == \A op \in TcpOps : op.par < BufLen

VARIABLES
    pc,      \* what the host does next
    phase,   \* what a transaction is for: open, info, use or close
    conn,    \* PTP_CON_STATE: sockets, address list, connected flag; in open the
             \* sockets there are, in refused where no event channel came about
    cur,     \* the operation in progress and its number
    ops,     \* every operation requested so far; number i is ops[i+1]
    buf,     \* params->pkt_buf
    rd,      \* the read in progress
    fill,    \* what ptp_transport_read_to_buffer has read so far
    get,     \* the locals of ptp_tcp_getdata
    result,  \* what the last transaction returned
    faultAt, \* the last connection on which a socket call or a handler failed
    outs,    \* the stream to the camera, in messages
    ins,     \* the stream from the camera, in tokens
    cam,     \* the camera's end of the command channel
    done     \* the operations the camera carried out

host == <<pc, phase, conn, cur, ops, buf, rd, fill, get, result, faultAt>>
net == <<outs, ins, cam, done>>
vars == <<host, net>>

Tok(k, id, n) == [k |-> k, id |-> id, n |-> n]

\* A packet: the header says how many tokens follow.
TcpPacket(k, id, body) == <<Tok(k, id, Len(body))>> \o body

Resp(k, id, par) ==
    TcpPacket(k, id, [i \in 1..(par + 1) |-> Tok("par", id, i - 1)])

PayToks(id, a, b) == [i \in 1..(b - a + 1) |-> Tok("pay", id, a + i - 1)]

DataPkt(k, id, a, b) ==
    TcpPacket(k, id, <<Tok("tid", id, 0)>> \o PayToks(id, a, b))

MinLen(a, b) == IF a < b THEN a ELSE b

-----------------------------------------------------------------------------
(***************************************************************************)
(* Reads.  Both kinds take from the buffer first; a control read then      *)
(* loads the buffer, a data read goes on to its destination.               *)
(***************************************************************************)
NoRead == [part |-> "none", want |-> "none", hdr |-> Tok("none", 0, 0),
           size |-> 0, dst |-> <<>>]

\* ptp_control_read_buffered and ptp_tcp_read_data up to the first recv.
StartRead(part, want, hdr, n) ==
    /\ rd' = [part |-> part, want |-> want, hdr |-> hdr, size |-> n,
              dst |-> Taken(buf, n)]
    /\ buf' = AfterTake(buf, n)
    /\ fill' = <<>>
    /\ pc' = IF Len(buf.data) >= n THEN "got"
             ELSE IF part = "pay" THEN "recv" ELSE "fill"

\* ptp_tcp_read_control: the header of the next packet.
ReadControl(want) == StartRead("hdr", want, Tok("none", 0, 0), 1)

\* Mutant of Code: any response is a success.
CodeIgnored(h) == "ok"

\* What getresp makes of a response whose code is not that of success.
Code(h) == h.k

\* ptp_transaction and ptp_getdata_transaction end.  What comes after those
\* of init_ptp_tcp and close_camera_tcp depends on the phase.
Finish(rc, from) ==
    /\ result' = [id |-> cur.id, rc |-> rc, from |-> from, data |-> get.data,
                  blocks |-> get.blocks]
    /\ pc' = CASE phase = "use"   -> "idle"
               [] phase = "close" -> "closing"
               [] phase = "open"  -> IF rc = "ok" THEN "opened" ELSE "failed"
               [] phase = "info"  -> IF rc = "ok" THEN "idle" ELSE "failed"

Abort(rc) == Finish(rc, cur.id) /\ faultAt' = conn.n

\* ptp_tcp_read_func: recv returns the first k tokens of what has come, at
\* most the room there is.
Recv(k, room) ==
    /\ k \in 1..MinLen(room, Len(ins))
    /\ ins' = SubSeq(ins, k + 1, Len(ins))

\* recv fails, or the camera has closed and everything was read.
RecvEnds ==
    /\ cam' = [cam EXCEPT !.link = FALSE]
    /\ ins' = <<>>
    /\ outs' = <<>>

\* The end of the loop of ptp_transport_read_to_buffer.
Enough(n) == Len(rd.dst) + n >= rd.size

Fill ==
    /\ pc = "fill"
    /\ \/ \E k \in 1..BufLen :
            LET all  == fill \o SubSeq(ins, 1, k)
                need == rd.size - Len(rd.dst)
            IN  /\ Recv(k, BufLen - Len(fill))
                /\ IF Enough(Len(all))
                   THEN /\ rd' = [rd EXCEPT !.dst = @ \o Taken(Loaded(all), need)]
                        /\ buf' = AfterTake(Loaded(all), need)
                        /\ fill' = <<>>
                        /\ IF TakeLen(Loaded(all), need) = need
                           THEN pc' = "got" /\ UNCHANGED <<result, faultAt>>
                           ELSE Abort("badparam")
                   ELSE fill' = all /\ UNCHANGED <<rd, buf, pc, result, faultAt>>
                /\ UNCHANGED <<outs, cam>>
       \/ RecvEnds /\ Abort("io") /\ UNCHANGED <<rd, buf, fill>>
    /\ UNCHANGED <<phase, conn, cur, ops, get, done>>

\* The loop of ptp_tcp_read_data.
RecvData ==
    /\ pc = "recv"
    /\ \/ \E k \in 1..(rd.size - Len(rd.dst)) :
            /\ Recv(k, rd.size - Len(rd.dst))
            /\ rd' = [rd EXCEPT !.dst = @ \o SubSeq(ins, 1, k)]
            /\ pc' = IF Len(rd.dst) + k = rd.size THEN "got" ELSE "recv"
            /\ UNCHANGED <<result, faultAt, outs, cam>>
       \/ RecvEnds /\ Abort("io") /\ UNCHANGED rd
    /\ UNCHANGED <<phase, conn, cur, ops, buf, fill, get, done>>

-----------------------------------------------------------------------------
(***************************************************************************)
(* Transactions.                                                           *)
(***************************************************************************)
NoGet == [total |-> 0, read |-> 0, end |-> FALSE, left |-> 0, blk |-> <<>>,
          data |-> <<>>, blocks |-> <<>>]

Begin(op, ph) ==
    /\ cur' = [id |-> Len(ops), op |-> op]
    /\ ops' = Append(ops, op)
    /\ phase' = ph
    /\ get' = NoGet
    /\ pc' = "sendreq"

Transaction(op) ==
    /\ pc = "idle"
    /\ Len(ops) < MaxTrans
    /\ Begin(op, "use")
    /\ UNCHANGED <<conn, buf, rd, fill, result, faultAt, net>>

\* ptp_tcp_write_func: send() is taken to have sent everything unless it
\* fails; it may have taken a part ("part").
Sends(sent) == outs' = IF cam.link THEN Append(outs, sent) ELSE outs

AfterSend ==
    CASE cur.op.phase = "send" -> pc' = "senddata" /\ UNCHANGED <<rd, buf, fill>>
      [] cur.op.phase = "get"  -> ReadControl("start")
      [] OTHER                 -> ReadControl("resp")

SendReq ==
    /\ pc = "sendreq"
    /\ \/ /\ \/ Sends(Tok("req", cur.id, 0)) /\ UNCHANGED faultAt
             \/ Sends(Tok("part", cur.id, 0)) /\ faultAt' = conn.n
          /\ AfterSend
          /\ UNCHANGED result
       \/ Abort("io") /\ UNCHANGED <<outs, rd, buf, fill>>
    /\ UNCHANGED <<phase, conn, cur, ops, get, ins, cam, done>>

\* ptp_tcp_senddata: four writes, of which the last one makes the result.
DataParts == <<"start", "data", "pay", "end">>

\* What a write of a part leaves on the wire, by whether it failed.
DataPart(i, sent) ==
    IF i \in sent THEN <<Tok(DataParts[i], cur.id, cur.op.size)>> ELSE <<>>

SendData ==
    /\ pc = "senddata"
    /\ \E sent \in SUBSET (1..4) :
          /\ outs' = IF cam.link
                     THEN outs \o DataPart(1, sent) \o DataPart(2, sent)
                               \o DataPart(3, sent) \o DataPart(4, sent)
                     ELSE outs
          /\ IF 4 \in sent
             THEN /\ ReadControl("resp")
                  /\ faultAt' = IF sent = 1..4 THEN faultAt ELSE conn.n
                  /\ UNCHANGED result
             ELSE Abort("io") /\ UNCHANGED <<rd, buf, fill>>
    /\ UNCHANGED <<phase, conn, cur, ops, get, ins, cam, done>>

-----------------------------------------------------------------------------
IsResp(h) == h.k \in {"ok", "err"}
IsData(h) == h.k \in {"data", "end"}

\* Mutant of BodyLen: what is of fixed length, without the parameters.
BodyLenFixed(h) == 1

\* ptp_tcp_read_control after the header: the whole of a packet without
\* payload, the transaction id of one with.
BodyLen(h) == IF IsData(h) THEN 1 ELSE h.n

Header ==
    /\ pc = "got" /\ rd.part = "hdr"
    /\ LET h == rd.dst[1] IN
       \/ /\ h.k \notin {"pay", "par", "tid"}
          /\ StartRead("body", rd.want, h, BodyLen(h))
          /\ UNCHANGED <<result, faultAt>>
       \/ /\ h.k \in {"pay", "par", "tid"}
          /\ Abort("badparam")
          /\ UNCHANGED <<rd, buf, fill>>
    /\ UNCHANGED <<phase, conn, cur, ops, get, net>>

\* Mutant of NextPay: all of the packet, whether it fits the block or not.
NextPayWhole(g) == StartRead("pay", rd.want, rd.hdr, g.left)

\* The next read of the payload of a packet with g.left tokens to come: what
\* fits the block, or all of it where there is no handler.
NextPay(g) ==
    StartRead("pay", rd.want, rd.hdr,
              IF cur.op.block = 0 THEN g.left
              ELSE MinLen(cur.op.block - Len(g.blk), g.left))

\* The end of the do ... while loop of getdata, and what follows it.
LoopEnd(g) ==
    IF g.read < g.total THEN ReadControl("data")
    ELSE IF g.blk # <<>> THEN pc' = "handler" /\ UNCHANGED <<rd, buf, fill>>
    ELSE ReadControl(IF g.end THEN "resp" ELSE "end")

\* Inside a packet go on with it, after it with the loop.
GoOn(g) == IF g.left > 0 THEN NextPay(g) ELSE LoopEnd(g)

\* The whole of a control packet is there: getdata's start, its data packets
\* and its end, and getresp.  A transaction id is not looked at.
StartData ==
    /\ pc = "got" /\ rd.part = "body" /\ rd.want = "start"
    /\ \/ /\ rd.hdr.k = "start"
          /\ get' = [get EXCEPT !.total = rd.dst[1].n]
          /\ ReadControl("data")
          /\ UNCHANGED <<result, faultAt>>
       \/ /\ IsResp(rd.hdr)
          /\ Finish("dataexpected", cur.id)
          /\ UNCHANGED <<get, faultAt, rd, buf, fill>>
       \/ /\ ~IsResp(rd.hdr) /\ rd.hdr.k # "start"
          /\ Abort("badparam")
          /\ UNCHANGED <<get, rd, buf, fill>>
    /\ UNCHANGED <<phase, conn, cur, ops, net>>

DataStarts ==
    /\ pc = "got" /\ rd.part = "body" /\ rd.want = "data"
    /\ \/ /\ IsData(rd.hdr)
          /\ get' = [get EXCEPT !.left = rd.hdr.n - 1,
                                !.end = @ \/ rd.hdr.k = "end"]
          /\ GoOn(get')
          /\ UNCHANGED <<result, faultAt>>
       \/ /\ ~IsData(rd.hdr)
          /\ Abort("dataexpected")
          /\ UNCHANGED <<get, rd, buf, fill>>
    /\ UNCHANGED <<phase, conn, cur, ops, net>>

PayRead ==
    /\ pc = "got" /\ rd.part = "pay"
    /\ LET g == [get EXCEPT !.left = @ - rd.size, !.read = @ + rd.size]
       IN  IF cur.op.block = 0
           THEN get' = [g EXCEPT !.data = @ \o rd.dst] /\ GoOn(g)
           ELSE /\ get' = [g EXCEPT !.blk = @ \o rd.dst]
                /\ IF Len(get'.blk) = cur.op.block
                   THEN pc' = "handler" /\ UNCHANGED <<rd, buf, fill>>
                   ELSE GoOn(get')
    /\ UNCHANGED <<phase, conn, cur, ops, result, faultAt, net>>

Flushed ==
    [get EXCEPT !.data = @ \o get.blk, !.blocks = Append(@, Len(get.blk)),
                !.blk = <<>>]

Handler ==
    /\ pc = "handler"
    /\ \/ /\ get' = Flushed
          /\ GoOn(get')
          /\ UNCHANGED <<result, faultAt>>
       \/ Abort("handler") /\ UNCHANGED <<get, rd, buf, fill>>
    /\ UNCHANGED <<phase, conn, cur, ops, net>>

EndData ==
    /\ pc = "got" /\ rd.part = "body" /\ rd.want = "end"
    /\ IF rd.hdr.k = "end"
       THEN ReadControl("resp") /\ UNCHANGED <<result, faultAt>>
       ELSE Abort("dataexpected") /\ UNCHANGED <<rd, buf, fill>>
    /\ UNCHANGED <<phase, conn, cur, ops, get, net>>

Response ==
    /\ pc = "got" /\ rd.part = "body" /\ rd.want = "resp"
    /\ IF IsResp(rd.hdr)
       THEN Finish(Code(rd.hdr), rd.hdr.id) /\ UNCHANGED faultAt
       ELSE Abort("respexpected")
    /\ UNCHANGED <<phase, conn, cur, ops, buf, rd, fill, get, net>>
-----------------------------------------------------------------------------
(***************************************************************************)
(* The start of a connection: connect_cam_tcp and init_ptp_tcp.            *)
(***************************************************************************)
\* ptp_cs of a new connection, and what chdk_connection leaves in it.
NewConn == [n |-> 0, cmd |-> FALSE, ev |-> FALSE, ai |-> FALSE,
            connected |-> FALSE, id |-> 0, open |-> {}, refused |-> {}]

\* The sockets that ptp_cs has the numbers of.
Named(c) == {s \in {"cmd", "ev"} : c[s]} \X {c.n}

Opens(c, s) == [c EXCEPT ![s] = TRUE, !.open = @ \cup {<<s, c.n>>}]

BufAtInit == Empty

\* Up to the command socket.  Where no address accepts, the socket is invalid
\* and it is the write of the init request that fails.
Connect ==
    /\ pc = "down"
    /\ conn.n < MaxConn
    /\ buf' = BufAtInit
    /\ conn' \in {[conn EXCEPT !.n = @ + 1],
                  [conn EXCEPT !.n = @ + 1, !.ai = TRUE],
                  Opens([conn EXCEPT !.n = @ + 1, !.ai = TRUE], "cmd")}
    /\ pc' = IF conn'.cmd THEN "initcmd" ELSE "failed"
    /\ outs' = <<>> /\ ins' = <<>>
    /\ cam' = [link |-> conn'.cmd, st |-> "ready", id |-> 0, n |-> 0,
               session |-> FALSE]
    /\ UNCHANGED <<phase, cur, ops, rd, fill, get, result, faultAt, done>>

SendInit ==
    /\ pc = "initcmd"
    /\ \/ \E k \in {"init", "part"} : Sends(Tok(k, conn.n, 0)) /\ pc' = "ack"
       \/ pc' = "failed" /\ UNCHANGED outs
    /\ UNCHANGED <<phase, conn, cur, ops, buf, rd, fill, get, result, faultAt,
                   ins, cam, done>>

\* The reply is what one recv returns: of an ack that comes in two parts the
\* rest stays in the stream, and the connection number may be missing.
InitAck ==
    /\ pc = "ack"
    /\ \/ \E k \in 1..Len(ins) :
            /\ Recv(k, Len(ins))
            /\ IF ins[1].k = "ack"
               THEN /\ conn' = [conn EXCEPT !.id = IF k > 1 THEN ins[2].id ELSE 0]
                    /\ pc' = "event"
               ELSE pc' = "failed" /\ UNCHANGED conn
            /\ UNCHANGED <<outs, cam>>
       \/ ins # <<>> /\ pc' = "failed" /\ UNCHANGED <<conn, outs, ins, cam>>
       \/ RecvEnds /\ pc' = "failed" /\ UNCHANGED conn
    /\ UNCHANGED <<phase, cur, ops, buf, rd, fill, get, result, faultAt, done>>

\* The event socket does not connect: the return before its number is stored
\* leaves it open, and nothing has its number.
EventRefused ==
    [conn EXCEPT !.open = @ \cup {<<"ev", conn.n>>}, !.refused = @ \cup {conn.n}]

\* init_event_channel_tcp.  The camera accepts its own connection number.
\* Where there is no socket connect fails, and nothing is open.
EventChannel ==
    /\ pc = "event"
    /\ \/ /\ conn.id = conn.n
          /\ conn' = Opens(conn, "ev")
          /\ Begin(OpenSession, "open")
       \/ /\ conn' \in {conn, EventRefused, Opens(conn, "ev")}
          /\ pc' = "failed"
          /\ UNCHANGED <<phase, cur, ops, get>>
    /\ UNCHANGED <<buf, rd, fill, result, faultAt, net>>

\* Which of the two transactions of init_ptp_tcp sets ptp_cs->connected.
ConnectedBy(ph) == ph = "open"

Opened ==
    /\ pc = "opened"
    /\ conn' = [conn EXCEPT !.connected = ConnectedBy("open")]
    /\ Begin(DeviceInfo, "info")
    /\ UNCHANGED <<buf, rd, fill, result, faultAt, net>>

(***************************************************************************)
(* The end of a connection.                                                *)
(***************************************************************************)
\* close_camera_tcp after a failed connect, and for con:disconnect and the
\* finalizer, which call it for a connected one only.
Close ==
    /\ \/ pc = "failed"
       \/ pc = "idle" /\ conn.connected
    /\ IF conn.connected
       THEN Begin(CloseSession, "close")
       ELSE pc' = "closing" /\ UNCHANGED <<phase, cur, ops, get>>
    /\ UNCHANGED <<conn, buf, rd, fill, result, faultAt, net>>

\* Mutant of Released: the event socket is forgotten, not closed.
ReleasedCmdOnly ==
    [conn EXCEPT !.cmd = FALSE, !.ev = FALSE, !.ai = FALSE, !.connected = FALSE,
                 !.open = @ \ {<<"cmd", conn.n>>}]

Released == [conn EXCEPT !.cmd = FALSE, !.ev = FALSE, !.ai = FALSE,
                         !.connected = FALSE, !.open = @ \ Named(conn)]

CloseSockets ==
    /\ pc = "closing"
    /\ pc' = "down"
    /\ conn' = Released
    /\ cam' = [cam EXCEPT !.link = FALSE]
    /\ UNCHANGED <<phase, cur, ops, buf, rd, fill, get, result, faultAt,
                   outs, ins, done>>

-----------------------------------------------------------------------------
(***************************************************************************)
(* Camera (external).                                                      *)
(***************************************************************************)
\* The data phase of a get in one or two data packets, the last of which may
\* be the end packet.
DataPhases(id, size) ==
    {TcpPacket("start", id, <<Tok("len", id, size)>>)
     \o (IF a = 0 THEN <<>> ELSE DataPkt("data", id, 1, a))
     \o (IF e THEN DataPkt("end", id, a + 1, size)
         ELSE DataPkt("data", id, a + 1, size) \o DataPkt("end", id, 1, 0)) :
        a \in {i \in 0..size : i < size \/ i = 0}, e \in BOOLEAN}

Reply(id) ==
    LET op == ops[id + 1] IN
    \/ /\ \E d \in IF op.phase = "get" THEN DataPhases(id, op.size) ELSE {<<>>} :
            ins' = ins \o d \o Resp("ok", id, op.par)
       /\ done' = done \cup {id}
       /\ cam' = [cam EXCEPT !.st = "ready", !.n = 0,
                    !.session = CASE op = OpenSession -> TRUE
                                  [] op = CloseSession -> FALSE
                                  [] OTHER -> @]
    \/ /\ ins' = ins \o Resp("err", id, 0)
       /\ cam' = [cam EXCEPT !.st = "ready", !.n = 0]
       /\ UNCHANGED done

\* A message that does not continue the exchange ends the connection.
CamRead ==
    /\ cam.link /\ outs # <<>>
    /\ outs' = Tail(outs)
    /\ LET m == Head(outs) IN
       CASE m.k = "init" ->
              /\ ins' \in {ins \o TcpPacket("ack", m.id, <<Tok("tid", m.id, 0),
                                                           Tok("pay", m.id, 0)>>),
                           ins \o TcpPacket("fail", m.id, <<>>)}
              /\ UNCHANGED <<cam, done>>
         [] m.k = "req" /\ cam.st = "ready" /\ ops[m.id + 1].phase = "send" ->
              /\ cam' = [cam EXCEPT !.st = "recv", !.id = m.id]
              /\ UNCHANGED <<ins, done>>
         [] m.k = "req" /\ cam.st = "ready" /\ ops[m.id + 1].phase # "send" ->
              Reply(m.id)
         [] cam.st = "recv" /\ m.k = DataParts[cam.n + 1] ->
              IF m.k = "end" THEN Reply(cam.id)
              ELSE cam' = [cam EXCEPT !.n = @ + 1] /\ UNCHANGED <<ins, done>>
         [] OTHER -> cam' = [cam EXCEPT !.link = FALSE] /\ UNCHANGED <<ins, done>>
    /\ UNCHANGED host

CamClose ==
    /\ cam.link
    /\ cam' = [cam EXCEPT !.link = FALSE]
    /\ UNCHANGED <<host, outs, ins, done>>

-----------------------------------------------------------------------------
Init ==
    /\ pc = "down" /\ phase = "use"
    /\ conn = NewConn
    /\ cur = [id |-> 0, op |-> OpenSession]
    /\ ops = <<>>
    /\ buf = Empty
    /\ rd = NoRead
    /\ fill = <<>>
    /\ get = NoGet
    /\ result = [id |-> 0, rc |-> "none", from |-> 0, data |-> <<>>, blocks |-> <<>>]
    /\ faultAt = 0
    /\ outs = <<>> /\ ins = <<>>
    /\ cam = [link |-> FALSE, st |-> "ready", id |-> 0, n |-> 0, session |-> FALSE]
    /\ done = {}

Next ==
    \/ Connect \/ SendInit \/ InitAck \/ EventChannel \/ Opened
    \/ Close \/ CloseSockets
    \/ \E op \in TcpOps : Transaction(op)
    \/ SendReq \/ SendData \/ Fill \/ RecvData
    \/ Header \/ StartData \/ DataStarts \/ PayRead \/ Handler \/ EndData
    \/ Response
    \/ CamRead \/ CamClose

Spec == Init /\ [][Next]_vars

-----------------------------------------------------------------------------
(***************************************************************************)
(* Correctness.                                                            *)
(***************************************************************************)
Clean == conn.n # faultAt

\* While nothing has failed on the connection, whatever happened on earlier
\* ones and however recv cuts the stream: a call that returns success has its
\* own response and the whole data phase in order, and a getdata handler was
\* given blocks of its block size, the last one with the rest.
BlocksOf(op) ==
    IF op.block = 0 \/ op.phase # "get" THEN <<>>
    ELSE LET full == op.size \div op.block
             rest == op.size % op.block
         IN  [i \in 1..full |-> op.block] \o IF rest = 0 THEN <<>> ELSE <<rest>>

OwnData ==
    Clean /\ pc = "idle" /\ result.rc = "ok" =>
        LET op == ops[result.id + 1] IN
        /\ result.from = result.id
        /\ result.id \in done
        /\ result.data = IF op.phase = "get" THEN PayToks(result.id, 1, op.size)
                         ELSE <<>>
        /\ result.blocks = BlocksOf(op)

\* A connection that was accepted has read the whole init ack, though the code
\* takes it from one recv: if a part was left, opening the session has met it.
\* Between calls, while nothing has failed, nothing is left in the stream or
\* in the buffer, also on a second connection over the same PTPParams.
TcpInStep ==
    Clean /\ pc = "idle" =>
        /\ buf = Empty
        /\ ins = <<>>
        /\ cam.link => outs = <<>> /\ cam.session

\* After a disconnect or a connect that failed, of this connection and of all
\* before it, no socket is open but the known case: an event socket that did not
\* connect, which init_event_channel_tcp never closes.  The address list is
\* freed, and a session the camera has opened was closed unless the camera
\* refused, also where only the device info failed.
ClosedDown ==
    pc = "down" =>
        /\ conn.open \subseteq {<<"ev", i>> : i \in conn.refused}
        /\ Named(conn) = {} /\ ~conn.ai /\ ~conn.connected
        /\ Clean /\ cam.session => result.rc = "err"

\* Without that case it does not hold: after a connect that failed as the
\* camera refused the event channel, its socket is still open.
NothingLeftOpen == pc = "down" => conn.open = {}

\* A transaction over TCP keeps the contract of one over USB.
Calling == {"sendreq", "senddata", "fill", "recv", "got", "handler"}

TcpRpc == INSTANCE PtpRpc WITH
    calls    <- Len(ops),
    busy     <- pc \in Calling,
    executed <- done,
    clean    <- faultAt = 0,
    last     <- [rc   |-> CASE result.rc \in {"none", "ok"} -> result.rc
                            [] result.rc \in {"err", "dataexpected"} -> "refused"
                            [] OTHER -> "failed",
                 id   |-> result.id,
                 from |-> result.from]

RefinesRpc == TcpRpc!Spec
=============================================================================
