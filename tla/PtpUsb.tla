------------------------------- MODULE PtpUsb -------------------------------
(***************************************************************************)
(* PTP transactions over the USB bulk pipes: ptp_transaction and           *)
(* ptp_getdata_transaction with the usb send and receive functions, down   *)
(* to the calls of the transport's read_func and write_func.               *)
(*                                                                         *)
(* The data a container carries is counted in tokens: one for a container  *)
(* header, one per response parameter, one per unit of payload.  A USB     *)
(* packet is a sequence of at most PacketLen tokens, the empty sequence    *)
(* being a zero length packet.  The camera is external: it answers the     *)
(* commands in order, at any speed, and may refuse any of them.            *)
(***************************************************************************)
EXTENDS PktBuf, Integers

CONSTANTS
    PacketLen,  \* PTP_USB_BULK_HS_MAX_PACKET_LEN = PTP_PACKET_BUFFER_SIZE
    Ops,        \* the operations the callers may request
    MaxTrans    \* bound on the number of transactions of a connection

\* An operation: its code, its data phase, the length of its data, the block
\* size of its getdata handler (0: ptp_transaction, no handler) and the
\* number of parameters of its response.
Op == [code : Nat, phase : {"none", "send", "get"}, size : Nat,
       block : Nat, par : 0..PacketLen-2]

ASSUME PacketLenAssumption == PacketLen \in Nat /\ PacketLen >= 2
ASSUME OpsAssumption == Ops \subseteq Op
ASSUME MaxTransAssumption == MaxTrans \in Nat

VARIABLES
    pc,      \* what the host does next
    cur,     \* the operation in progress and its Transaction_ID
    ops,     \* every operation requested so far; id i is ops[i+1]
    buf,     \* params->pkt_buf
    rd,      \* the read in progress
    fill,    \* what ptp_transport_read_to_buffer has read so far
    got,     \* the data phase as delivered to the caller
    left,    \* to_read of ptp_usb_getdata
    result,  \* what the last transaction returned
    faulted, \* a transport call, or a getdata handler, has failed
    outq,    \* the bulk out pipe
    inp,     \* the bulk in pipe
    cam,     \* the camera: ready, receiving a data phase, or replying
    camq,    \* the packets of the reply still to be sent
    done     \* the operations the camera carried out, with the data it had

hostVars == <<pc, cur, ops, buf, rd, fill, got, left, result, faulted>>
camVars  == <<cam, camq, done>>
vars     == <<hostVars, outq, inp, camVars>>

(***************************************************************************)
(* Containers and packets.                                                 *)
(***************************************************************************)
DataHdr == [k : {"data"}, id : Nat, n : Nat]
RespHdr == [k : {"ok", "err"}, id : Nat, n : 0..PacketLen-2]
Body    == [k : {"pay", "par"}, id : Nat, n : Nat]
Token   == DataHdr \cup RespHdr \cup Body
Packet  == {s \in Seq(Token) : Len(s) <= PacketLen}

DataContainer(id) ==
    [i \in 1..(ops[id+1].size + 1) |->
        IF i = 1 THEN [k |-> "data", id |-> id, n |-> ops[id+1].size]
        ELSE [k |-> "pay", id |-> id, n |-> i - 1]]

Response(kind, id, par) ==
    [i \in 1..(par + 1) |->
        IF i = 1 THEN [k |-> kind, id |-> id, n |-> par]
        ELSE [k |-> "par", id |-> id, n |-> i - 1]]

\* A transfer on the wire: full packets, then a short one; where the length
\* is a multiple of the packet size, a zero length packet if zlp says so.
Packets(s, zlp) ==
    LET full == Len(s) \div PacketLen
        short == IF Len(s) % PacketLen # 0 \/ zlp THEN 1 ELSE 0
    IN  [i \in 1..(full + short) |->
            SubSeq(s, (i - 1) * PacketLen + 1,
                   IF i <= full THEN i * PacketLen ELSE Len(s))]

MinOf(a, b) == IF a < b THEN a ELSE b

-----------------------------------------------------------------------------
(***************************************************************************)
(* Host                                                                    *)
(***************************************************************************)
NoHdr == [k |-> "ok", id |-> 0, n |-> 0]

NoRead == [stage |-> "none", size |-> 0, dst |-> <<>>, bulk |-> 0, min |-> 0,
           hdr |-> NoHdr]

NoOp == [code |-> 0, phase |-> "none", size |-> 0, block |-> 0, par |-> 0]

Init ==
    /\ pc = "idle"
    /\ cur = [id |-> 0, op |-> NoOp]
    /\ ops = <<>>
    /\ buf = Empty
    /\ rd = NoRead
    /\ fill = <<>>
    /\ got = <<>>
    /\ left = 0
    /\ result = [id |-> 0, rc |-> "none", from |-> 0, data |-> <<>>]
    /\ faulted = FALSE
    /\ outq = <<>>
    /\ inp = <<>>
    /\ cam = [st |-> "ready", id |-> 0, n |-> 0]
    /\ camq = <<>>
    /\ done = {}

\* Mutant of Finish: getresp takes the code of the response for success.
FinishIgnoringCode(rc, from) ==
    /\ pc' = "idle"
    /\ rd' = NoRead
    /\ result' = [id |-> cur.id, rc |-> IF rc = "err" THEN "ok" ELSE rc,
                  from |-> from, data |-> got]

\* The transaction returns rc; from is the id of the response it took.
Finish(rc, from) ==
    /\ pc' = "idle"
    /\ rd' = NoRead
    /\ result' = [id |-> cur.id, rc |-> rc, from |-> from, data |-> got]

\* An early return on an error that leaves the rest of the exchange unread.
Abort(rc) ==
    /\ Finish(rc, cur.id)
    /\ faulted' = TRUE

\* A call of read_control_func or read_data_func for n tokens.
StartRead(stage, n) ==
    /\ pc' = "take"
    /\ rd' = [NoRead EXCEPT !.stage = stage, !.size = n]

\* ptp_transaction and ptp_getdata_transaction up to the request.
Transaction(op) ==
    /\ pc = "idle"
    /\ Len(ops) < MaxTrans
    /\ cur' = [id |-> Len(ops), op |-> op]
    /\ ops' = Append(ops, op)
    /\ pc' = "sendreq"
    /\ got' = <<>>
    /\ left' = 0
    /\ UNCHANGED <<buf, rd, fill, result, faulted, outq, inp, camVars>>

\* write_func fails; the device may or may not have received the packets ps.
WriteFails(ps) ==
    /\ \E i \in 0..Len(ps) : outq' = outq \o SubSeq(ps, 1, i)
    /\ Abort("io")

AfterSend == 
    CASE cur.op.phase = "send" -> pc' = "senddata" /\ UNCHANGED rd
      [] cur.op.phase = "get"  -> StartRead("datahdr", 1)
      [] OTHER                 -> StartRead("resphdr", 1)

SendReq ==
    LET req == <<[k |-> "cmd", id |-> cur.id, n |-> 0]>>
    IN  /\ pc = "sendreq"
        /\ \/ outq' = outq \o req /\ AfterSend /\ UNCHANGED <<result, faulted>>
           \/ WriteFails(req)
        /\ UNCHANGED <<cur, ops, buf, fill, got, left, inp, camVars>>

DataPacket(n) == [k |-> "pkt", id |-> cur.id, n |-> n]

\* Mutant of FirstLen: the payload of the first packet does not leave room
\* for the header.
FirstLenNoHeader == MinOf(cur.op.size, PacketLen) + 1

\* The first write of ptp_usb_senddata: the header and what fits with it.
FirstLen == MinOf(cur.op.size, PacketLen - 1) + 1

\* Mutant of NeedsZlp: the header is not counted.
NeedsZlpNoHeader == cur.op.size % PacketLen = 0

NeedsZlp == (cur.op.size + 1) % PacketLen = 0

AfterData ==
    IF NeedsZlp THEN pc' = "sendzlp" /\ UNCHANGED rd
    ELSE StartRead("resphdr", 1)

SendData ==
    LET first == <<DataPacket(FirstLen)>>
    IN  /\ pc = "senddata"
        /\ \/ /\ outq' = outq \o first
              /\ IF cur.op.size > PacketLen - 1
                 THEN pc' = "sendrest" /\ UNCHANGED rd
                 ELSE AfterData
              /\ UNCHANGED <<result, faulted>>
           \/ WriteFails(first)
        /\ UNCHANGED <<cur, ops, buf, fill, got, left, inp, camVars>>

SendRest ==
    LET rest == cur.op.size - (PacketLen - 1)
        full == rest \div PacketLen
        short == IF rest % PacketLen = 0 THEN 0 ELSE 1
        ps == [i \in 1..(full + short) |->
                 DataPacket(IF i <= full THEN PacketLen ELSE rest % PacketLen)]
    IN  /\ pc = "sendrest"
        /\ \/ outq' = outq \o ps /\ AfterData /\ UNCHANGED <<result, faulted>>
           \/ WriteFails(ps)
        /\ UNCHANGED <<cur, ops, buf, fill, got, left, inp, camVars>>

\* The zero length packet that ends the transfer; its result is ignored.
SendZlp ==
    /\ pc = "sendzlp"
    /\ \/ outq' = Append(outq, DataPacket(0)) /\ UNCHANGED faulted
       \/ outq' = outq /\ faulted' = TRUE
    /\ StartRead("resphdr", 1)
    /\ UNCHANGED <<cur, ops, buf, fill, got, left, result, inp, camVars>>

(***************************************************************************)
(* Reading.  ptp_control_read_buffered and ptp_usb_read_data both take     *)
(* what the buffer has first.  A control read then loads the buffer with   *)
(* at least the missing tokens; a data read first reads whole packets      *)
(* straight to the destination, and loads the buffer for the rest.         *)
(***************************************************************************)
\* Mutant of NewDst: dst and not dst+rtotal, what the buffer has comes first.
NewDstFront(n) == Taken(buf, n) \o rd.dst

NewDst(n) == rd.dst \o Taken(buf, n)

Take ==
    LET dst == NewDst(rd.size)
        toread == rd.size - Len(dst)
        isData == rd.stage = "data"
        rest == IF isData THEN toread % PacketLen ELSE toread
        bulk == IF isData THEN rd.size - rest ELSE 0
    IN  /\ pc = "take"
        /\ buf' = AfterTake(buf, rd.size)
        /\ rd' = [rd EXCEPT !.dst = dst, !.min = rest, !.bulk = bulk]
        /\ fill' = <<>>
        /\ pc' = IF toread = 0 THEN "return"
                 ELSE IF Len(dst) < bulk THEN "bulk" ELSE "fill"
        /\ UNCHANGED <<cur, ops, got, left, result, faulted,
                       outq, inp, camVars>>

\* read_func(p, room) returns packet i of the in pipe: one packet of the read,
\* the second one after the retry that skips a zero length packet.
ReadOk(room, i) ==
    /\ i <= Len(inp)
    /\ i = 1 => inp[1] # <<>>
    /\ i = 2 => inp[1] = <<>>
    /\ Len(inp[i]) <= room
    /\ inp' = SubSeq(inp, i + 1, Len(inp))

\* Nothing came before the timeout, but for a zero length packet at most, or
\* the packet does not fit in the room that is left.
ReadFails(room) ==
    \/ /\ inp \in {<<>>, <<<<>>>>}
       /\ inp' = <<>>
    \/ \E i \in {1, 2} : /\ i <= Len(inp)
                         /\ i = 2 => inp[1] = <<>>
                         /\ Len(inp[i]) > room
                         /\ inp' = SubSeq(inp, i + 1, Len(inp))

\* while(rtotal < bulktotal) of ptp_usb_read_data
BulkRead ==
    LET room == rd.bulk - Len(rd.dst)
    IN  /\ pc = "bulk"
        /\ \/ \E i \in {1, 2} :
                /\ ReadOk(room, i)
                /\ rd' = [rd EXCEPT !.dst = @ \o inp[i]]
                /\ pc' = IF Len(inp[i]) < room THEN "bulk" ELSE "fill"
                /\ UNCHANGED <<result, faulted>>
           \/ ReadFails(room) /\ Abort("io")
        /\ UNCHANGED <<cur, ops, buf, fill, got, left, outq, camVars>>

\* The first check of ptp_transport_read_to_buffer, where it fails with
\* BADPARAM.  NeverRefused says that it never does.
BufferBusy == buf # Empty \/ rd.min > PacketLen

\* The loop of ptp_transport_read_to_buffer: it reads once even for min 0.
Fill ==
    LET room == PacketLen - Len(fill)
    IN  /\ pc = "fill"
        /\ ~BufferBusy
        /\ \/ \E i \in {1, 2} :
                /\ ReadOk(room, i)
                /\ IF Len(fill \o inp[i]) < rd.min
                   THEN fill' = fill \o inp[i] /\ UNCHANGED <<buf, pc>>
                   ELSE /\ buf' = Loaded(fill \o inp[i])
                        /\ fill' = <<>>
                        /\ pc' = "take2"
                /\ UNCHANGED <<rd, result, faulted>>
           \/ /\ ReadFails(room)
              /\ Abort("io")
              /\ fill' = <<>>
              /\ UNCHANGED buf
        /\ UNCHANGED <<cur, ops, got, left, outq, camVars>>

\* The second ptp_transport_read_from_buffer and the check of its length.
Take2 ==
    LET dst == NewDst(rd.min)
    IN  /\ pc = "take2"
        /\ buf' = AfterTake(buf, rd.min)
        /\ IF Len(dst) = rd.size
           THEN pc' = "return" /\ rd' = [rd EXCEPT !.dst = dst]
                /\ UNCHANGED <<result, faulted>>
           ELSE Abort(IF rd.stage = "data" THEN "io" ELSE "badparam")
        /\ UNCHANGED <<cur, ops, fill, got, left, outq, inp, camVars>>

(***************************************************************************)
(* What the read was for.                                                  *)
(***************************************************************************)
Hdr == rd.dst[1]

IsResponse(h) == h.k \in {"ok", "err"}

\* Mutants of NextBlock: the last block is read whole, and the loop does not
\* stop when nothing is left to read.
NextBlockUnclamped(n) ==
    IF cur.op.block = 0 THEN StartRead("data", n)
    ELSE IF n > 0 THEN StartRead("data", cur.op.block)
    ELSE StartRead("resphdr", 1)

NextBlockEndless(n) ==
    IF cur.op.block = 0 THEN StartRead("data", n)
    ELSE StartRead("data", MinOf(n, cur.op.block))

\* Where the loop over the blocks of a data phase goes with n tokens to read.
NextBlock(n) ==
    IF cur.op.block = 0 THEN StartRead("data", n)
    ELSE IF n > 0 THEN StartRead("data", MinOf(n, cur.op.block))
    ELSE StartRead("resphdr", 1)

\* ptp_usb_getdata after its read_control_func: the camera may have answered
\* with a response and no data phase, whose parameters are read too.
DataHeader ==
    /\ pc = "return"
    /\ rd.stage = "datahdr"
    /\ \/ /\ IsResponse(Hdr)
          /\ IF Hdr.n > 0 THEN StartRead("stray", Hdr.n) /\ UNCHANGED result
                          ELSE Finish("dataexpected", cur.id)
          /\ UNCHANGED <<left, faulted>>
       \/ /\ Hdr.k = "data"
          /\ ops[Hdr.id + 1].code = cur.op.code
          /\ left' = Hdr.n
          /\ NextBlock(Hdr.n)
          /\ UNCHANGED <<result, faulted>>
       \/ /\ Hdr.k = "data"
          /\ ops[Hdr.id + 1].code # cur.op.code
          /\ Abort("code")
          /\ UNCHANGED left
       \/ /\ Hdr.k \in {"pay", "par"}
          /\ Abort("badparam")
          /\ UNCHANGED left
    /\ UNCHANGED <<cur, ops, buf, fill, got, outq, inp, camVars>>

StrayResponse ==
    /\ pc = "return"
    /\ rd.stage = "stray"
    /\ Finish("dataexpected", cur.id)
    /\ UNCHANGED <<cur, ops, buf, fill, got, left, faulted, outq, inp, camVars>>

DataRead ==
    /\ pc = "return"
    /\ rd.stage = "data"
    /\ left' = left - rd.size
    /\ IF cur.op.block = 0
       THEN got' = rd.dst /\ StartRead("resphdr", 1)
       ELSE pc' = "handler" /\ UNCHANGED <<got, rd>>
    /\ UNCHANGED <<cur, ops, buf, fill, result, faulted, outq, inp, camVars>>

\* The caller's handler takes a block, or fails (a full disk): the data phase
\* is then left where it is.
Handler ==
    /\ pc = "handler"
    /\ \/ /\ got' = got \o rd.dst
          /\ NextBlock(left)
          /\ UNCHANGED <<result, faulted>>
       \/ /\ Abort("handler")
          /\ UNCHANGED got
    /\ UNCHANGED <<cur, ops, buf, fill, left, outq, inp, camVars>>

\* ptp_usb_getresp.  The transaction id of the response is not looked at.
RespHeader ==
    /\ pc = "return"
    /\ rd.stage = "resphdr"
    /\ \/ /\ IsResponse(Hdr)
          /\ IF Hdr.n > 0
             THEN /\ pc' = "take"
                  /\ rd' = [NoRead EXCEPT !.stage = "resppar", !.size = Hdr.n,
                                          !.hdr = Hdr]
                  /\ UNCHANGED result
             ELSE Finish(Hdr.k, Hdr.id)
          /\ UNCHANGED faulted
       \/ Hdr.k = "data" /\ Abort("respexpected")
       \/ Hdr.k \in {"pay", "par"} /\ Abort("badparam")
    /\ UNCHANGED <<cur, ops, buf, fill, got, left, outq, inp, camVars>>

RespParams ==
    /\ pc = "return"
    /\ rd.stage = "resppar"
    /\ Finish(rd.hdr.k, rd.hdr.id)
    /\ UNCHANGED <<cur, ops, buf, fill, got, left, faulted, outq, inp, camVars>>

Host ==
    \/ SendReq \/ SendData \/ SendRest \/ SendZlp
    \/ Take \/ BulkRead \/ Fill \/ Take2
    \/ DataHeader \/ StrayResponse \/ DataRead \/ Handler
    \/ RespHeader \/ RespParams

-----------------------------------------------------------------------------
(***************************************************************************)
(* Camera (external).  A data phase from the host ends with a short packet.*)
(***************************************************************************)
Reply(id, n) ==
    \/ /\ \E zlp \in BOOLEAN :
            camq' = (IF ops[id+1].phase = "get"
                     THEN Packets(DataContainer(id), zlp) ELSE <<>>)
                    \o <<Response("ok", id, ops[id+1].par)>>
       /\ done' = done \cup {[id |-> id, n |-> n]}
       /\ cam' = [st |-> "reply", id |-> id, n |-> n]
    \/ /\ \E par \in {0, ops[id+1].par} : camq' = <<Response("err", id, par)>>
       /\ done' = done
       /\ cam' = [st |-> "reply", id |-> id, n |-> n]

CamCommand ==
    /\ cam.st = "ready"
    /\ outq # <<>>
    /\ outq' = Tail(outq)
    /\ LET m == Head(outq) IN
       CASE m.k = "pkt" -> UNCHANGED camVars
         [] m.k = "cmd" /\ ops[m.id+1].phase = "send" ->
                /\ cam' = [st |-> "recv", id |-> m.id, n |-> 0]
                /\ UNCHANGED <<camq, done>>
         [] OTHER -> Reply(m.id, 0)
    /\ UNCHANGED <<hostVars, inp>>

CamReceive ==
    /\ cam.st = "recv"
    /\ outq # <<>>
    /\ outq' = Tail(outq)
    /\ LET m == Head(outq) IN
       IF m.k = "cmd" THEN UNCHANGED camVars
       ELSE IF m.n < PacketLen THEN Reply(cam.id, cam.n + m.n)
       ELSE cam' = [cam EXCEPT !.n = @ + m.n] /\ UNCHANGED <<camq, done>>
    /\ UNCHANGED <<hostVars, inp>>

CamSend ==
    /\ cam.st = "reply"
    /\ inp' = Append(inp, Head(camq))
    /\ camq' = Tail(camq)
    /\ cam' = IF Len(camq) = 1 THEN [cam EXCEPT !.st = "ready"] ELSE cam
    /\ UNCHANGED <<hostVars, outq, done>>

Camera == CamCommand \/ CamReceive \/ CamSend

\* The caller: every transaction the bound allows.
Caller == \E op \in Ops : Transaction(op)

Next == Caller \/ Host \/ Camera

Spec == Init /\ [][Next]_vars

\* Every call of the host returns: reads and writes have a timeout.
LiveSpec == Spec /\ WF_vars(Host)

-----------------------------------------------------------------------------
(***************************************************************************)
(* Correctness.                                                            *)
(***************************************************************************)
Stages == {"none", "datahdr", "stray", "data", "resphdr", "resppar"}

Codes == {"none", "ok", "err", "io", "badparam", "code", "dataexpected",
          "respexpected", "handler"}

\* The types of the host, the pipes and the camera.
TypeOK ==
    /\ pc \in {"idle", "sendreq", "senddata", "sendrest", "sendzlp", "take",
               "bulk", "fill", "take2", "return", "handler"}
    /\ cur \in [id : Nat, op : Ops \cup {NoOp}]
    /\ ops \in Seq(Ops)
    /\ buf \in [pos : Nat, data : Seq(Token)]
    /\ rd \in [stage : Stages, size : Nat, dst : Seq(Token), bulk : Nat,
               min : Nat, hdr : RespHdr]
    /\ fill \in Seq(Token)
    /\ got \in Seq(Token)
    /\ left \in Nat
    /\ result \in [id : Nat, rc : Codes, from : Nat, data : Seq(Token)]
    /\ faulted \in BOOLEAN
    /\ outq \in Seq([k : {"cmd", "pkt"}, id : Nat, n : 0..PacketLen])
    /\ inp \in Seq(Packet)
    /\ cam \in [st : {"ready", "recv", "reply"}, id : Nat, n : Nat]
    /\ camq \in Seq(Packet)
    /\ done \in SUBSET [id : Nat, n : Nat]

\* The unread part never leaves the array of the packet buffer, an empty
\* buffer is rewound, and a partial load never exceeds the array either.
BufferInBounds ==
    /\ buf.pos + Len(buf.data) <= PacketLen
    /\ buf.data = <<>> => buf.pos = 0
    /\ Len(fill) <= PacketLen

\* "if less than size came from buffer, we know it's empty": whatever failed
\* before, ptp_transport_read_to_buffer is never called with data left in the
\* buffer, nor for more than the buffer can hold.
NeverRefused == pc = "fill" => ~BufferBusy

\* The length checks after the buffer was loaded never fail: a read that got
\* its data hands over exactly the number of tokens asked for, even when the
\* buffer was loaded from a pipe that is out of step.
ReadsExact == 
    /\ pc = "take2" => Len(NewDst(rd.min)) = rd.size
    /\ pc = "return" => Len(rd.dst) = rd.size

\* A response whose transaction did not fail, as long as no earlier one did,
\* is the response of this transaction, carried out once with the data sent,
\* and the data phase is its own, complete and in order.
Payload(id) == Tail(DataContainer(id))

OwnResult ==
    ~faulted /\ result.rc = "ok" =>
        /\ result.from = result.id
        /\ LET op == ops[result.id + 1] IN
           /\ [id |-> result.id, n |-> IF op.phase = "send" THEN op.size + 1
                                       ELSE 0] \in done
           /\ result.data = IF op.phase = "get" THEN Payload(result.id) ELSE <<>>

\* Between transactions, while nothing has failed, both pipes, the packet
\* buffer and the camera are idle: no zero length packet, response or excess
\* data is left for the next transaction.  A refusal by the camera, with or
\* without a data phase, keeps host and camera in step.
InStep ==
    pc = "idle" /\ ~faulted =>
        /\ buf = Empty
        /\ inp = <<>>
        /\ outq = <<>>
        /\ cam.st = "ready"

\* However far out of step the host is after a failure, a data phase that is
\* returned with success is the whole data phase of one operation with the
\* same code: never cut short, never joined from two.
WholeDataPhase ==
    result.rc = "ok" /\ ops[result.id+1].phase = "get" =>
        \E i \in 0..result.id : /\ ops[i+1].code = ops[result.id+1].code
                                /\ result.data = Payload(i)

(***************************************************************************)
(* The inductive invariant behind the first four: what the read in         *)
(* progress has, what is missing and where it will come from.              *)
(***************************************************************************)
Reading == pc \in {"take", "bulk", "fill", "take2", "return"}

ReadInv ==
    /\ Reading =>
        /\ rd.stage # "none"
        /\ rd.stage \in {"datahdr", "resphdr"} => rd.size = 1
        /\ rd.stage # "data" => rd.size <= PacketLen
        /\ rd.stage = "data" => rd.size <= left
    /\ pc = "take" => rd.dst = <<>>
    /\ pc = "bulk" => /\ buf = Empty
                      /\ fill = <<>>
                      /\ Len(rd.dst) < rd.bulk
                      /\ rd.bulk + rd.min = rd.size
                      /\ rd.min <= PacketLen
    /\ pc = "fill" => /\ buf = Empty
                      /\ Len(rd.dst) + rd.min = rd.size
                      /\ rd.min <= PacketLen
    /\ pc = "take2" => /\ Len(rd.dst) + rd.min = rd.size
                       /\ Len(buf.data) >= rd.min
    /\ pc = "return" => Len(rd.dst) = rd.size

IdsInv ==
    /\ pc # "idle" => cur.id < Len(ops)
    /\ pc = "sendrest" => cur.op.size >= PacketLen
    /\ \A i \in 1..Len(outq) : outq[i].id < Len(ops)
    /\ cam.st = "recv" => cam.id < Len(ops)
    /\ cam.st = "reply" => camq # <<>>

IndInv == TypeOK /\ BufferInBounds /\ ReadInv /\ IdsInv

\* What the comment of ptp_transaction says of success, that the container is
\* that of the Response Phase of the transaction, whatever happened before.
ResponseIsOwn == result.rc = "ok" => result.from = result.id

\* No transaction hangs: every one returns, whatever the camera does.
Returns == pc # "idle" ~> pc = "idle"

\* The contract the transport gives its callers.
Rpc == INSTANCE PtpRpc WITH
    calls    <- Len(ops),
    busy     <- pc # "idle",
    executed <- {d.id : d \in done},
    clean    <- ~faulted,
    last     <- [rc   |-> CASE result.rc \in {"none", "ok"} -> result.rc
                            [] result.rc \in {"err", "dataexpected"} -> "refused"
                            [] OTHER -> "failed",
                 id   |-> result.id,
                 from |-> result.from]

RefinesRpc == Rpc!Spec
=============================================================================
