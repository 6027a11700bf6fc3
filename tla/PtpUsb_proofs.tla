---------------------------- MODULE PtpUsb_proofs ----------------------------
(***************************************************************************)
(* Theorems about PtpUsb for every packet length, set of operations and    *)
(* number of transactions: first what a read may rely on whatever fails;   *)
(* then the exchange: as long as no call has failed, host and camera are   *)
(* in step and a transaction returns its own result; and what its caller   *)
(* is given in any case, the call of PtpRpc.                               *)
(***************************************************************************)
EXTENDS PtpUsb, TLAPS, SequenceTheorems

\* The host may read the buffer of any state of it.
Buffer == [pos : Nat, data : Seq(Token)]

-----------------------------------------------------------------------------
(***************************************************************************)
(* Lemmas on the operators.                                                *)
(***************************************************************************)

\* What ptp_transport_read_from_buffer hands over and what it leaves: the
\* unread part shrinks by what was taken and stays inside the array.
LEMMA TakeLemma ==
    ASSUME NEW b \in Buffer, NEW n \in Nat,
           b.pos + Len(b.data) <= PacketLen,
           b.data = <<>> => b.pos = 0
    PROVE  /\ TakeLen(b, n) = IF Len(b.data) > n THEN n ELSE Len(b.data)
           /\ Taken(b, n) \in Seq(Token)
           /\ Len(Taken(b, n)) = TakeLen(b, n)
           /\ AfterTake(b, n) \in Buffer
           /\ AfterTake(b, n).pos + Len(AfterTake(b, n).data) <= PacketLen
           /\ AfterTake(b, n).data = <<>> => AfterTake(b, n).pos = 0
           /\ TakeLen(b, n) < n => AfterTake(b, n) = Empty
<1> DEFINE k == TakeLen(b, n)
           r == SubSeq(b.data, k + 1, Len(b.data))
<1>1. /\ b.data \in Seq(Token)
      /\ b.pos \in Nat
      /\ b = [pos |-> b.pos, data |-> b.data]
      /\ Len(b.data) \in Nat
      /\ \A i \in 1..Len(b.data) : b.data[i] \in Token
  BY LenProperties, ElementOfSeq DEF Buffer
<1>2. k = IF Len(b.data) > n THEN n ELSE Len(b.data)
  BY DEF TakeLen
<1>3. k \in Nat /\ k <= Len(b.data) /\ k <= n
  BY <1>1, <1>2
<1>4. Taken(b, n) \in Seq(Token) /\ Len(Taken(b, n)) = k
  <2>1. \A i \in 1..k : b.data[i] \in Token
    BY <1>1, <1>3
  <2> HIDE DEF k
  <2>2. /\ SubSeq(b.data, 1, k) \in Seq(Token)
        /\ Len(SubSeq(b.data, 1, k)) = IF 1 <= k THEN k - 1 + 1 ELSE 0
    BY <2>1, <1>3, SubSeqProperties
  <2>3. Taken(b, n) = SubSeq(b.data, 1, k)
    BY DEF Taken, k
  <2> QED BY <2>2, <2>3, <1>3
<1>5. r \in Seq(Token) /\ Len(r) = Len(b.data) - k
  <2>1. \A i \in (k+1)..Len(b.data) : b.data[i] \in Token
    BY <1>1, <1>3
  <2> QED BY <2>1, <1>1, <1>3, SubSeqProperties
<1> HIDE DEF k, r
<1>6. CASE b.data = <<>>
  <2>1. AfterTake(b, n) = b
    BY <1>6 DEF AfterTake
  <2>2. b = Empty
    BY <1>1, <1>6 DEF Empty
  <2>3. b.pos + Len(b.data) <= PacketLen /\ Len(b.data) = 0
    BY <1>6
  <2> QED BY <2>1, <2>2, <2>3, <1>1, <1>2, <1>4, <1>6 DEF k, Buffer
<1>7. CASE b.data # <<>> /\ k = Len(b.data)
  <2>1. AfterTake(b, n) = Empty
    BY <1>7 DEF AfterTake, k
  <2>2. Empty \in Buffer /\ Empty.pos = 0 /\ Len(Empty.data) = 0
    BY DEF Empty, Buffer
  <2>3. 0 + 0 <= PacketLen
    BY PacketLenAssumption
  <2> QED BY <2>1, <2>2, <2>3, <1>2, <1>4 DEF k
<1>8. CASE b.data # <<>> /\ k # Len(b.data)
  <2>1. AfterTake(b, n) = [pos |-> b.pos + k, data |-> r]
    BY <1>8 DEF AfterTake, k, r
  <2>2. r # <<>>
    BY <1>8, <1>3, <1>5, <1>1
  <2>3. AfterTake(b, n) \in Buffer
    BY <2>1, <1>1, <1>3, <1>5 DEF Buffer
  <2>4. /\ AfterTake(b, n).pos = b.pos + k
        /\ AfterTake(b, n).data = r
    BY <2>1
  <2>5. b.pos + k + Len(r) <= PacketLen
    BY <1>1, <1>3, <1>5, PacketLenAssumption
  <2>6. ~(k < n)
    BY <1>2, <1>3, <1>8, <1>1
  <2> QED BY <2>2, <2>3, <2>4, <2>5, <2>6, <1>2, <1>4 DEF k
<1> QED BY <1>6, <1>7, <1>8

\* Quotient and remainder by the packet length.
LEMMA QuotientNat ==
    ASSUME NEW q \in Int, NEW r \in 0..PacketLen-1, PacketLen * q + r >= 0
    PROVE  q \in Nat
<1>1. ASSUME q <= -1
      PROVE  FALSE
  <2>1. PacketLen * q <= 0 - PacketLen
    BY <1>1, PacketLenAssumption
  <2>2. PacketLen * q \in Int
    BY PacketLenAssumption
  <2> QED BY <2>1, <2>2, PacketLenAssumption
<1> QED BY <1>1

LEMMA DivMod ==
    ASSUME NEW n \in Nat
    PROVE  /\ n \div PacketLen \in Nat
           /\ n % PacketLen \in 0..PacketLen-1
           /\ n = PacketLen * (n \div PacketLen) + (n % PacketLen)
<1>1. n \div PacketLen \in Int
  BY PacketLenAssumption
<1>2. n % PacketLen \in 0..PacketLen-1
  BY PacketLenAssumption
<1>3. n = PacketLen * (n \div PacketLen) + (n % PacketLen)
  BY PacketLenAssumption
<1>4. PacketLen * (n \div PacketLen) + (n % PacketLen) >= 0
  BY <1>3
<1>5. n \div PacketLen \in Nat
  BY <1>1, <1>2, <1>4, QuotientNat
<1> QED BY <1>2, <1>3, <1>5

\* The packets of a transfer are packets: none is longer than PacketLen.
LEMMA PacketsType ==
    ASSUME NEW s \in Seq(Token), NEW zlp \in BOOLEAN
    PROVE  Packets(s, zlp) \in Seq(Packet)
<1> DEFINE full == Len(s) \div PacketLen
           short == IF Len(s) % PacketLen # 0 \/ zlp THEN 1 ELSE 0
           hi(i) == IF i <= full THEN i * PacketLen ELSE Len(s)
           p(i) == SubSeq(s, (i - 1) * PacketLen + 1, hi(i))
<1>1. /\ Len(s) \in Nat /\ full \in Nat /\ short \in {0, 1}
      /\ Len(s) = PacketLen * full + (Len(s) % PacketLen)
      /\ Len(s) % PacketLen \in 0..PacketLen-1
      /\ \A i \in 1..Len(s) : s[i] \in Token
  <2>1. Len(s) \in Nat /\ \A i \in 1..Len(s) : s[i] \in Token
    BY LenProperties, ElementOfSeq
  <2> QED BY <2>1, DivMod
<1> HIDE DEF full, short
<1>2. ASSUME NEW i \in 1..(full + short)
      PROVE  p(i) \in Packet
  <2> DEFINE lo == (i - 1) * PacketLen + 1
  <2>1. i \in Nat /\ i >= 1 /\ i <= full + 1
    BY <1>1
  <2>2. lo \in Nat /\ lo >= 1
    <3>1. (i - 1) * PacketLen \in Nat
      BY <2>1, PacketLenAssumption
    <3> QED BY <3>1
  <2>3. hi(i) \in Nat /\ hi(i) <= Len(s) /\ hi(i) <= lo - 1 + PacketLen
    <3>1. CASE i <= full
      <4>1. i * PacketLen = (i - 1) * PacketLen + PacketLen
        BY <2>1, PacketLenAssumption
      <4>2. full * PacketLen >= i * PacketLen
        BY <3>1, <2>1, <1>1, PacketLenAssumption
      <4>3. i * PacketLen \in Nat /\ full * PacketLen = PacketLen * full
        BY <2>1, <1>1, PacketLenAssumption
      <4>4. hi(i) = i * PacketLen
        BY <3>1
      <4>5. i * PacketLen <= Len(s)
        BY <4>2, <4>3, <1>1, PacketLenAssumption
      <4>6. i * PacketLen <= lo - 1 + PacketLen
        <5>1. (i - 1) * PacketLen \in Nat
          BY <2>1, PacketLenAssumption
        <5>2. lo - 1 = (i - 1) * PacketLen
          BY <5>1
        <5> HIDE DEF lo
        <5> QED BY <5>1, <5>2, <4>1, PacketLenAssumption
      <4> HIDE DEF hi, lo
      <4> QED BY <4>3, <4>4, <4>5, <4>6
    <3>2. CASE i = full + 1
      <4>1. (i - 1) * PacketLen = PacketLen * full
        BY <3>2, <1>1, PacketLenAssumption
      <4> QED BY <4>1, <3>2, <1>1, PacketLenAssumption
    <3> QED BY <3>1, <3>2, <2>1, <1>1
  <2> HIDE DEF lo, hi
  <2>4. \A j \in lo..hi(i) : s[j] \in Token
    BY <2>2, <2>3, <1>1
  <2>5. /\ SubSeq(s, lo, hi(i)) \in Seq(Token)
        /\ Len(SubSeq(s, lo, hi(i))) = IF lo <= hi(i) THEN hi(i) - lo + 1 ELSE 0
    BY <2>2, <2>3, <2>4, SubSeqProperties
  <2>6. Len(SubSeq(s, lo, hi(i))) <= PacketLen
    BY <2>2, <2>3, <2>5, PacketLenAssumption
  <2>7. p(i) = SubSeq(s, lo, hi(i))
    BY DEF lo
  <2> QED BY <2>5, <2>6, <2>7 DEF Packet
<1>3. Packets(s, zlp) = [i \in 1..(full + short) |-> p(i)]
  BY DEF Packets, full, short
<1>4. full + short \in Nat
  BY <1>1
<1> HIDE DEF p
<1> QED BY <1>2, <1>3, <1>4, IsASeq

\* The containers the camera sends are sequences of tokens, and a response
\* fits in one packet.
LEMMA ContainerTypes ==
    ASSUME ops \in Seq(Ops), NEW id \in Nat, id < Len(ops)
    PROVE  /\ DataContainer(id) \in Seq(Token)
           /\ \A kind \in {"ok", "err"}, par \in {0, ops[id+1].par} :
                 Response(kind, id, par) \in Packet
<1>1. ops[id+1] \in Op
  <2>1. id + 1 \in 1..Len(ops)
    BY LenProperties
  <2> QED BY <2>1, ElementOfSeq, OpsAssumption
<1>2. ops[id+1].size \in Nat /\ ops[id+1].par \in 0..PacketLen-2
  BY <1>1 DEF Op
<1>3. DataContainer(id) \in Seq(Token)
  <2> DEFINE m == ops[id+1].size + 1
             e(i) == IF i = 1 THEN [k |-> "data", id |-> id, n |-> ops[id+1].size]
                     ELSE [k |-> "pay", id |-> id, n |-> i - 1]
  <2>1. m \in Nat
    BY <1>2
  <2>2. \A i \in 1..m : e(i) \in Token
    BY <1>2 DEF Token, DataHdr, Body
  <2>3. DataContainer(id) = [i \in 1..m |-> e(i)]
    BY DEF DataContainer
  <2> HIDE DEF m, e
  <2> QED BY <2>1, <2>2, <2>3, IsASeq
<1>4. ASSUME NEW kind \in {"ok", "err"}, NEW par \in {0, ops[id+1].par}
      PROVE  Response(kind, id, par) \in Packet
  <2> DEFINE m == par + 1
             e(i) == IF i = 1 THEN [k |-> kind, id |-> id, n |-> par]
                     ELSE [k |-> "par", id |-> id, n |-> i - 1]
  <2>1. m \in Nat /\ par \in 0..PacketLen-2 /\ m <= PacketLen
    BY <1>2, PacketLenAssumption
  <2>2. \A i \in 1..m : e(i) \in Token
    BY <2>1 DEF Token, RespHdr, Body
  <2>3. Response(kind, id, par) = [i \in 1..m |-> e(i)]
    BY DEF Response
  <2>4. Len([i \in 1..m |-> e(i)]) = m
    BY <2>1
  <2> HIDE DEF m, e
  <2> QED BY <2>1, <2>2, <2>3, <2>4, IsASeq DEF Packet
<1> QED BY <1>3, <1>4

-----------------------------------------------------------------------------
(***************************************************************************)
(* The inductive invariant.  Every action is a step of its own; most of    *)
(* them start a read or return, so these two come first.                   *)
(***************************************************************************)
ReadType == [stage : Stages, size : Nat, dst : Seq(Token), bulk : Nat,
             min : Nat, hdr : RespHdr]

ResultType == [id : Nat, rc : Codes, from : Nat, data : Seq(Token)]

LEMMA NoReadType == NoRead \in ReadType /\ NoRead.stage = "none"
<1>1. NoHdr \in RespHdr
  BY PacketLenAssumption DEF NoHdr, RespHdr
<1>2. <<>> \in Seq(Token)
  BY EmptySeq
<1> QED BY <1>1, <1>2 DEF NoRead, ReadType, Stages

LEMMA StartReadLemma ==
    ASSUME NEW stage \in Stages, NEW n \in Nat, StartRead(stage, n)
    PROVE  /\ pc' = "take"
           /\ rd' \in ReadType
           /\ rd'.stage = stage
           /\ rd'.size = n
           /\ rd'.dst = <<>>
<1>1. rd' = [NoRead EXCEPT !.stage = stage, !.size = n]
  BY DEF StartRead
<1>2. NoRead \in ReadType /\ NoRead.dst = <<>>
  BY NoReadType DEF NoRead
<1> QED BY <1>1, <1>2 DEF StartRead, ReadType

LEMMA FinishLemma ==
    ASSUME TypeOK, NEW rc \in Codes, NEW from \in Nat, Finish(rc, from)
    PROVE  pc' = "idle" /\ rd' \in ReadType /\ result' \in ResultType
<1>1. cur.id \in Nat /\ got \in Seq(Token)
  BY DEF TypeOK
<1> QED BY <1>1, NoReadType DEF Finish, ResultType

LEMMA AbortLemma ==
    ASSUME TypeOK, NEW rc \in Codes, Abort(rc)
    PROVE  /\ pc' = "idle" /\ rd' \in ReadType
           /\ result' \in ResultType /\ faulted' = TRUE
<1>1. cur.id \in Nat
  BY DEF TypeOK
<1> QED BY <1>1, FinishLemma DEF Abort

LEMMA InitInd == Init => IndInv
<1> SUFFICES ASSUME Init PROVE IndInv
  OBVIOUS
<1>1. TypeOK
  <2>1. /\ <<>> \in Seq(Token) /\ <<>> \in Seq(Ops) /\ <<>> \in Seq(Packet)
        /\ <<>> \in Seq([k : {"cmd", "pkt"}, id : Nat, n : 0..PacketLen])
    BY EmptySeq
  <2> QED BY <2>1, NoReadType
          DEF Init, TypeOK, Empty, ReadType, Codes
<1>2. BufferInBounds
  BY PacketLenAssumption DEF Init, BufferInBounds, Empty
<1>3. ReadInv
  BY DEF Init, ReadInv, Reading
<1>4. IdsInv
  BY DEF Init, IdsInv
<1> QED BY <1>1, <1>2, <1>3, <1>4 DEF IndInv

LEMMA TransactionInd ==
    ASSUME IndInv, NEW op \in Ops, Transaction(op)
    PROVE  IndInv'
<1>1. TypeOK /\ Len(ops) \in Nat /\ ops' \in Seq(Ops) /\ Len(ops') = Len(ops) + 1
  BY AppendProperties, LenProperties DEF IndInv, TypeOK, Transaction
<1>2. TypeOK'
  BY <1>1, EmptySeq DEF TypeOK, Transaction, camVars
<1>3. BufferInBounds'
  BY DEF IndInv, BufferInBounds, Transaction
<1>4. ReadInv'
  BY DEF ReadInv, Reading, Transaction
<1>5. IdsInv'
  <2>1. \A i \in 1..Len(outq) : outq[i].id \in Nat /\ outq[i].id < Len(ops)
    <3>1. \A i \in 1..Len(outq) :
             outq[i] \in [k : {"cmd", "pkt"}, id : Nat, n : 0..PacketLen]
      BY ElementOfSeq DEF IndInv, TypeOK
    <3> QED BY <3>1 DEF IndInv, IdsInv
  <2>2. cam.id \in Nat /\ (cam.st = "recv" => cam.id < Len(ops))
    BY DEF IndInv, TypeOK, IdsInv
  <2>3. cam.st = "reply" => camq # <<>>
    BY DEF IndInv, IdsInv
  <2>4. cur'.id = Len(ops) /\ pc' = "sendreq" /\ UNCHANGED <<outq, cam, camq>>
    BY DEF Transaction, camVars
  <2> QED BY <1>1, <2>1, <2>2, <2>3, <2>4 DEF IdsInv
<1> QED BY <1>2, <1>3, <1>4, <1>5 DEF IndInv

\* What a write of the packets ps, or of a part of them, leaves in the pipe.
Written(ps) == \E i \in 0..Len(ps) : outq' = outq \o SubSeq(ps, 1, i)

OutMsg == [k : {"cmd", "pkt"}, id : Nat, n : 0..PacketLen]

LEMMA WrittenLemma ==
    ASSUME IndInv, pc # "idle", NEW ps \in Seq(OutMsg), Written(ps),
           \A i \in 1..Len(ps) : ps[i].id = cur.id
    PROVE  /\ outq' \in Seq(OutMsg)
           /\ \A i \in 1..Len(outq') : outq'[i].id < Len(ops)
<1> PICK j \in 0..Len(ps) : outq' = outq \o SubSeq(ps, 1, j)
  BY DEF Written
<1> DEFINE t == SubSeq(ps, 1, j)
<1>1. /\ Len(ps) \in Nat /\ \A i \in 1..Len(ps) : ps[i] \in OutMsg
      /\ outq \in Seq(OutMsg) /\ Len(outq) \in Nat
      /\ \A i \in 1..Len(outq) : outq[i].id < Len(ops)
      /\ cur.id < Len(ops)
  BY LenProperties, ElementOfSeq DEF IndInv, TypeOK, IdsInv, OutMsg
<1>2. \A i \in 1..j : ps[i] \in OutMsg
  BY <1>1
<1>3. /\ t \in Seq(OutMsg) /\ Len(t) = j
      /\ \A i \in 1..j : t[i] = ps[i]
  BY <1>1, <1>2, SubSeqProperties
<1> HIDE DEF t
<1>4. /\ outq \o t \in Seq(OutMsg)
      /\ Len(outq \o t) = Len(outq) + j
      /\ \A i \in 1..Len(outq) + j : (outq \o t)[i] =
            IF i <= Len(outq) THEN outq[i] ELSE t[i - Len(outq)]
  BY <1>1, <1>3, ConcatProperties
<1>5. outq' = outq \o t
  BY DEF t
<1>6. ASSUME NEW i \in 1..Len(outq')
      PROVE  outq'[i].id < Len(ops)
  <2>1. CASE i <= Len(outq)
    BY <2>1, <1>1, <1>4, <1>5
  <2>2. CASE i > Len(outq)
    <3>1. i - Len(outq) \in 1..j
      BY <2>2, <1>1, <1>4, <1>5
    <3>2. outq'[i] = ps[i - Len(outq)]
      BY <2>2, <3>1, <1>1, <1>3, <1>4, <1>5
    <3>3. i - Len(outq) \in 1..Len(ps)
      BY <3>1, <1>1
    <3> QED BY <3>2, <3>3, <1>1
  <2> QED BY <2>1, <2>2, <1>1, <1>4, <1>5
<1> QED BY <1>4, <1>5, <1>6

\* The writes of a transaction change the out pipe and then start a read, go
\* on to the next write, or fail.
WriteStep(ps) ==
    /\ pc \in {"sendreq", "senddata", "sendrest", "sendzlp"}
    /\ Written(ps)
    /\ \/ /\ StartRead("datahdr", 1) \/ StartRead("resphdr", 1)
          /\ UNCHANGED result
       \/ /\ pc' \in {"senddata", "sendrest", "sendzlp"}
          /\ pc' = "sendrest" => cur.op.size >= PacketLen
          /\ UNCHANGED <<rd, result>>
       \/ Abort("io")
    /\ faulted' \in BOOLEAN
    /\ UNCHANGED <<cur, ops, buf, fill, got, left, inp, camVars>>

LEMMA WriteInd ==
    ASSUME IndInv, NEW ps \in Seq(OutMsg), WriteStep(ps),
           \A i \in 1..Len(ps) : ps[i].id = cur.id
    PROVE  IndInv'
<1>1. TypeOK /\ pc # "idle"
  BY DEF IndInv, WriteStep
<1>2. /\ outq' \in Seq(OutMsg)
      /\ \A i \in 1..Len(outq') : outq'[i].id < Len(ops)
  BY <1>1, WrittenLemma DEF WriteStep
<1>3. \/ /\ pc' = "take" /\ rd' \in ReadType /\ rd'.dst = <<>> /\ rd'.size = 1
         /\ rd'.stage \in {"datahdr", "resphdr"} /\ result' = result
      \/ /\ pc' \in {"senddata", "sendrest", "sendzlp"}
         /\ pc' = "sendrest" => cur.op.size >= PacketLen
         /\ rd' = rd /\ result' = result
      \/ pc' = "idle" /\ rd' \in ReadType /\ result' \in ResultType
  <2>1. /\ "datahdr" \in Stages /\ "resphdr" \in Stages /\ "io" \in Codes
    BY DEF Stages, Codes
  <2>2. CASE StartRead("datahdr", 1) /\ UNCHANGED result
    BY <2>1, <2>2, StartReadLemma
  <2>3. CASE StartRead("resphdr", 1) /\ UNCHANGED result
    BY <2>1, <2>3, StartReadLemma
  <2>4. CASE Abort("io")
    BY <2>1, <2>4, <1>1, AbortLemma
  <2> QED BY <2>2, <2>3, <2>4 DEF WriteStep
<1>4. TypeOK'
  <2>1. rd' \in ReadType /\ result' \in ResultType
    BY <1>1, <1>3 DEF TypeOK, ReadType, ResultType
  <2>2. pc' \in {"take", "senddata", "sendrest", "sendzlp", "idle"}
    BY <1>3
  <2>3. /\ UNCHANGED <<cur, ops, buf, fill, got, left, inp, cam, camq, done>>
        /\ faulted' \in BOOLEAN
    BY DEF WriteStep, camVars
  <2> QED BY <1>1, <1>2, <2>1, <2>2, <2>3
          DEF TypeOK, ReadType, ResultType, OutMsg
<1>5. BufferInBounds'
  BY DEF IndInv, BufferInBounds, WriteStep
<1>6. ReadInv'
  BY <1>3, PacketLenAssumption DEF ReadInv, Reading
<1>7. IdsInv'
  BY <1>1, <1>2, <1>3 DEF IndInv, IdsInv, WriteStep, camVars
<1> QED BY <1>4, <1>5, <1>6, <1>7 DEF IndInv

LEMMA OpType == ASSUME TypeOK PROVE cur.op \in Op
<1>1. NoOp \in Op
  BY PacketLenAssumption DEF NoOp, Op
<1> QED BY <1>1, OpsAssumption DEF TypeOK

\* A write of one packet.
LEMMA OneMessage ==
    ASSUME TypeOK, NEW kind \in {"cmd", "pkt"}, NEW n \in 0..PacketLen
    PROVE  LET ps == <<[k |-> kind, id |-> cur.id, n |-> n]>>
           IN  /\ ps \in Seq(OutMsg)
               /\ \A i \in 1..Len(ps) : ps[i].id = cur.id
               /\ Written(ps) <=> outq' = outq \/ outq' = outq \o ps
<1> DEFINE m == [k |-> kind, id |-> cur.id, n |-> n]
<1>1. m \in OutMsg /\ m.id = cur.id
  BY DEF TypeOK, OutMsg
<1>2. outq \in Seq(OutMsg)
  BY DEF TypeOK, OutMsg
<1> HIDE DEF m
<1> DEFINE ps == <<m>>
<1>3. ps \in Seq(OutMsg) /\ Len(ps) = 1 /\ ps[1] = m
  BY <1>1
<1> HIDE DEF ps
<1>4. SubSeq(ps, 1, 1) = ps
  <2>1. SubSeq(ps, 1, Len(ps)) = ps
    BY <1>3, SubSeqFull
  <2> QED BY <2>1, <1>3
<1>5. SubSeq(ps, 1, 0) = <<>>
  BY SubSeqEmpty
<1>6. Written(ps) <=> outq' = outq \/ outq' = outq \o ps
  <2>1. 0..Len(ps) = {0, 1}
    BY <1>3
  <2>2. outq \o <<>> = outq
    BY <1>2, ConcatEmptySeq
  <2> QED BY <2>1, <2>2, <1>4, <1>5 DEF Written
<1>7. \A i \in 1..Len(ps) : ps[i].id = cur.id
  BY <1>1, <1>3
<1> QED BY <1>3, <1>6, <1>7 DEF m, ps

LEMMA SendReqInd ==
    ASSUME IndInv, SendReq
    PROVE  IndInv'
<1> DEFINE req == <<[k |-> "cmd", id |-> cur.id, n |-> 0]>>
<1>1. TypeOK
  BY DEF IndInv
<1>2. /\ req \in Seq(OutMsg)
      /\ \A i \in 1..Len(req) : req[i].id = cur.id
      /\ Written(req) <=> outq' = outq \/ outq' = outq \o req
  BY <1>1, OneMessage, PacketLenAssumption
<1>3. \/ outq' = outq \o req /\ AfterSend /\ UNCHANGED <<result, faulted>>
      \/ WriteFails(req)
  BY DEF SendReq
<1>4. /\ pc = "sendreq"
      /\ UNCHANGED <<cur, ops, buf, fill, got, left, inp, camVars>>
  BY DEF SendReq
<1> HIDE DEF req
<1>5. WriteStep(req)
  <2>1. CASE outq' = outq \o req /\ AfterSend /\ UNCHANGED <<result, faulted>>
    <3>1. \/ StartRead("datahdr", 1) \/ StartRead("resphdr", 1)
          \/ pc' = "senddata" /\ UNCHANGED rd
      BY <2>1 DEF AfterSend
    <3>2. faulted' \in BOOLEAN
      BY <2>1, <1>1 DEF TypeOK
    <3> QED BY <1>2, <1>4, <2>1, <3>1, <3>2 DEF WriteStep
  <2>2. CASE WriteFails(req)
    BY <2>2, <1>4 DEF WriteStep, WriteFails, Written, Abort
  <2> QED BY <2>1, <2>2, <1>3
<1> QED BY <1>2, <1>5, WriteInd

LEMMA SendDataInd ==
    ASSUME IndInv, SendData
    PROVE  IndInv'
<1> DEFINE first == <<DataPacket(FirstLen)>>
<1>1. TypeOK
  BY DEF IndInv
<1>2. FirstLen \in 0..PacketLen
  BY <1>1, OpType, PacketLenAssumption DEF FirstLen, MinOf, Op
<1>3. /\ first \in Seq(OutMsg)
      /\ \A i \in 1..Len(first) : first[i].id = cur.id
      /\ Written(first) <=> outq' = outq \/ outq' = outq \o first
  BY <1>1, <1>2, OneMessage DEF DataPacket
<1>4. \/ /\ outq' = outq \o first
         /\ IF cur.op.size > PacketLen - 1
            THEN pc' = "sendrest" /\ UNCHANGED rd
            ELSE AfterData
         /\ UNCHANGED <<result, faulted>>
      \/ WriteFails(first)
  BY DEF SendData
<1>5. /\ pc = "senddata"
      /\ UNCHANGED <<cur, ops, buf, fill, got, left, inp, camVars>>
  BY DEF SendData
<1> HIDE DEF first
<1>6. WriteStep(first)
  <2>1. CASE WriteFails(first)
    BY <2>1, <1>5 DEF WriteStep, WriteFails, Written, Abort
  <2>2. CASE ~WriteFails(first)
    <3>1. \/ StartRead("resphdr", 1)
          \/ /\ pc' \in {"sendrest", "sendzlp"}
             /\ pc' = "sendrest" => cur.op.size >= PacketLen
             /\ UNCHANGED rd
      <4>1. cur.op.size \in Nat
        BY <1>1, OpType DEF Op
      <4> QED BY <4>1, <2>2, <1>4, PacketLenAssumption DEF AfterData
    <3>2. faulted' \in BOOLEAN
      BY <2>2, <1>1, <1>4 DEF TypeOK
    <3> QED BY <1>3, <1>4, <1>5, <2>2, <3>1, <3>2 DEF WriteStep
  <2> QED BY <2>1, <2>2
<1> QED BY <1>3, <1>6, WriteInd

LEMMA SendRestInd ==
    ASSUME IndInv, SendRest
    PROVE  IndInv'
<1> DEFINE rest == cur.op.size - (PacketLen - 1)
           full == rest \div PacketLen
           short == IF rest % PacketLen = 0 THEN 0 ELSE 1
           ps == [i \in 1..(full + short) |->
                    DataPacket(IF i <= full THEN PacketLen
                               ELSE rest % PacketLen)]
<1>1. /\ pc = "sendrest"
      /\ \/ outq' = outq \o ps /\ AfterData /\ UNCHANGED <<result, faulted>>
         \/ WriteFails(ps)
      /\ UNCHANGED <<cur, ops, buf, fill, got, left, inp, camVars>>
  BY DEF SendRest
<1>2. TypeOK
  BY DEF IndInv
<1>3. full + short \in Nat /\ rest % PacketLen \in 0..PacketLen
  <2>1. cur.op.size \in Nat /\ cur.op.size >= PacketLen
    BY <1>1, <1>2, OpType DEF Op, IndInv, IdsInv
  <2>2. rest \in Nat
    BY <2>1, PacketLenAssumption
  <2> HIDE DEF rest
  <2> QED BY <2>2, DivMod, PacketLenAssumption
<1>4. /\ ps \in Seq(OutMsg)
      /\ \A i \in 1..Len(ps) : ps[i].id = cur.id
  <2> HIDE DEF full, short, rest
  <2>1. \A i \in 1..(full + short) :
           /\ DataPacket(IF i <= full THEN PacketLen ELSE rest % PacketLen)
                 \in OutMsg
           /\ DataPacket(IF i <= full THEN PacketLen ELSE rest % PacketLen).id
                 = cur.id
    BY <1>2, <1>3, PacketLenAssumption DEF DataPacket, OutMsg, TypeOK
  <2> QED BY <2>1, <1>3, IsASeq
<1> HIDE DEF ps
<1>5. Len(ps) \in Nat /\ SubSeq(ps, 1, Len(ps)) = ps
  BY <1>4, SubSeqFull, LenProperties
<1>6. WriteStep(ps)
  <2>1. CASE WriteFails(ps)
    BY <2>1, <1>1 DEF WriteStep, WriteFails, Written, Abort
  <2>2. CASE ~WriteFails(ps)
    <3>1. \/ StartRead("resphdr", 1)
          \/ pc' = "sendzlp" /\ UNCHANGED rd
      BY <2>2, <1>1 DEF AfterData
    <3>2. faulted' \in BOOLEAN
      BY <2>2, <1>1, <1>2 DEF TypeOK
    <3>3. Written(ps)
      <4>1. Len(ps) \in 0..Len(ps)
        BY <1>5
      <4> QED BY <4>1, <2>2, <1>1, <1>5 DEF Written
    <3> QED BY <1>1, <2>2, <3>1, <3>2, <3>3 DEF WriteStep
  <2> QED BY <2>1, <2>2
<1> QED BY <1>4, <1>6, WriteInd

LEMMA SendZlpInd ==
    ASSUME IndInv, SendZlp
    PROVE  IndInv'
<1> DEFINE zlp == <<DataPacket(0)>>
<1>1. TypeOK
  BY DEF IndInv
<1>2. /\ zlp \in Seq(OutMsg)
      /\ \A i \in 1..Len(zlp) : zlp[i].id = cur.id
      /\ Written(zlp) <=> outq' = outq \/ outq' = outq \o zlp
  BY <1>1, OneMessage, PacketLenAssumption DEF DataPacket
<1>3. outq' = outq \/ outq' = outq \o zlp
  <2>1. outq \in Seq(OutMsg) /\ DataPacket(0) \in OutMsg
    BY <1>1, PacketLenAssumption DEF TypeOK, OutMsg, DataPacket
  <2>2. Append(outq, DataPacket(0)) = outq \o zlp
    BY <2>1, AppendIsConcat
  <2> QED BY <2>2 DEF SendZlp
<1> HIDE DEF zlp
<1>4. WriteStep(zlp)
  BY <1>1, <1>2, <1>3 DEF SendZlp, WriteStep, TypeOK
<1> QED BY <1>2, <1>4, WriteInd

\* A step of the host that neither writes nor touches the camera.
LEMMA HostIds ==
    ASSUME IndInv, pc # "idle", pc' # "sendrest",
           UNCHANGED <<cur, ops, outq, cam, camq>>
    PROVE  IdsInv'
  BY DEF IndInv, IdsInv

LEMMA TakeInd ==
    ASSUME IndInv, Take
    PROVE  IndInv'
<1> DEFINE dst == NewDst(rd.size)
           toread == rd.size - Len(dst)
           isData == rd.stage = "data"
           rest == IF isData THEN toread % PacketLen ELSE toread
           bulk == IF isData THEN rd.size - rest ELSE 0
<1>1. /\ TypeOK /\ BufferInBounds /\ pc = "take"
      /\ rd.stage \in Stages /\ rd.stage # "none" /\ rd.dst = <<>>
      /\ rd.stage \in {"datahdr", "resphdr"} => rd.size = 1
      /\ rd.stage # "data" => rd.size <= PacketLen
      /\ rd.stage = "data" => rd.size <= left
      /\ rd.size \in Nat /\ rd.hdr \in RespHdr /\ buf \in Buffer
  BY DEF IndInv, ReadInv, Reading, Take, TypeOK, Buffer
<1>2. /\ TakeLen(buf, rd.size) = IF Len(buf.data) > rd.size THEN rd.size
                                 ELSE Len(buf.data)
      /\ Taken(buf, rd.size) \in Seq(Token)
      /\ Len(Taken(buf, rd.size)) = TakeLen(buf, rd.size)
      /\ AfterTake(buf, rd.size) \in Buffer
      /\ AfterTake(buf, rd.size).pos + Len(AfterTake(buf, rd.size).data)
            <= PacketLen
      /\ AfterTake(buf, rd.size).data = <<>> => AfterTake(buf, rd.size).pos = 0
      /\ TakeLen(buf, rd.size) < rd.size => AfterTake(buf, rd.size) = Empty
  BY <1>1, TakeLemma DEF BufferInBounds
<1>3. dst \in Seq(Token) /\ Len(dst) = TakeLen(buf, rd.size)
  <2>1. dst = Taken(buf, rd.size)
    BY <1>1, <1>2, ConcatEmptySeq DEF NewDst
  <2> QED BY <2>1, <1>2
<1>4. Len(buf.data) \in Nat
  BY <1>1, LenProperties DEF Buffer
<1>5. Len(dst) \in Nat /\ toread \in Nat
  BY <1>1, <1>2, <1>3, <1>4
<1>6. /\ rd' = [rd EXCEPT !.dst = dst, !.min = rest, !.bulk = bulk]
      /\ buf' = AfterTake(buf, rd.size)
      /\ fill' = <<>>
      /\ pc' = IF toread = 0 THEN "return"
               ELSE IF Len(dst) < bulk THEN "bulk" ELSE "fill"
      /\ UNCHANGED <<cur, ops, got, left, result, faulted,
                     outq, inp, cam, camq, done>>
  BY DEF Take, camVars
<1>7. /\ rest \in Nat /\ rest <= toread /\ bulk \in Nat
      /\ isData => rest <= PacketLen /\ bulk + rest = rd.size
      /\ isData => bulk >= Len(dst)
      /\ ~isData => rest = toread /\ bulk = 0
  <2>1. CASE isData
    <3>1. rest = toread % PacketLen
      BY <2>1
    <3>2. rest \in 0..PacketLen-1 /\ rest <= toread
      <4> HIDE DEF toread
      <4>1. /\ toread \div PacketLen \in Nat
            /\ toread % PacketLen \in 0..PacketLen-1
            /\ toread = PacketLen * (toread \div PacketLen)
                        + (toread % PacketLen)
        BY <1>5, DivMod
      <4>2. PacketLen * (toread \div PacketLen) \in Nat
        BY <4>1, PacketLenAssumption
      <4> QED BY <3>1, <4>1, <4>2
    <3>3. bulk = rd.size - rest
      BY <2>1
    <3> HIDE DEF rest, bulk, dst
    <3> QED BY <2>1, <3>2, <3>3, <1>1, <1>5, PacketLenAssumption
  <2>2. CASE ~isData
    BY <2>2, <1>5
  <2> QED BY <2>1, <2>2
<1> HIDE DEF dst, rest, bulk, isData
<1>8. /\ rd' \in ReadType
      /\ rd'.dst = dst /\ rd'.min = rest /\ rd'.bulk = bulk
      /\ rd'.size = rd.size /\ rd'.stage = rd.stage
  BY <1>1, <1>3, <1>6, <1>7 DEF TypeOK, ReadType
<1>9. TypeOK'
  <2>1. pc' \in {"return", "bulk", "fill"}
    BY <1>6
  <2>2. buf' \in Buffer /\ fill' \in Seq(Token)
    BY <1>2, <1>6, EmptySeq
  <2> QED BY <1>1, <1>6, <1>8, <2>1, <2>2 DEF TypeOK, Buffer, ReadType
<1>10. BufferInBounds'
  BY <1>2, <1>6, PacketLenAssumption DEF BufferInBounds
<1>11. ReadInv'
  <2>1. CASE toread = 0
    <3>1. pc' = "return" /\ Len(dst) = rd.size
      BY <2>1, <1>1, <1>5, <1>6
    <3> QED BY <3>1, <1>1, <1>6, <1>8 DEF ReadInv, Reading
  <2>2. CASE toread # 0
    <3>1. buf' = Empty
      BY <2>2, <1>1, <1>2, <1>3, <1>4, <1>6
    <3>2. CASE Len(dst) < bulk
      <4>1. pc' = "bulk" /\ isData
        BY <2>2, <3>2, <1>5, <1>6, <1>7
      <4> QED BY <3>1, <3>2, <4>1, <1>1, <1>6, <1>7, <1>8
              DEF ReadInv, Reading
    <3>3. CASE ~(Len(dst) < bulk)
      <4>1. pc' = "fill"
        BY <2>2, <3>3, <1>6
      <4>2. Len(dst) + rest = rd.size
        BY <3>3, <1>1, <1>5, <1>7
      <4>3. rest <= PacketLen
        <5>1. ~isData => rest <= rd.size /\ rd.size <= PacketLen
          BY <1>1, <1>5, <1>7 DEF isData
        <5>2. isData => rest <= PacketLen
          BY <1>7
        <5> QED BY <5>1, <5>2, <1>1, <1>7, PacketLenAssumption
      <4> QED BY <3>1, <4>1, <4>2, <4>3, <1>1, <1>6, <1>8
              DEF ReadInv, Reading
    <3> QED BY <3>2, <3>3
  <2> QED BY <2>1, <2>2
<1>12. IdsInv'
  BY <1>1, <1>6, HostIds
<1> QED BY <1>9, <1>10, <1>11, <1>12 DEF IndInv

\* What read_func takes from the pipe are packets, and so is what it leaves.
LEMMA ReadOkLemma ==
    ASSUME TypeOK, NEW room \in Nat, NEW i \in {1, 2}, ReadOk(room, i)
    PROVE  /\ inp[i] \in Seq(Token) /\ Len(inp[i]) \in Nat
           /\ Len(inp[i]) <= room
           /\ inp' \in Seq(Packet)
<1>1. inp \in Seq(Packet) /\ Len(inp) \in Nat /\ i <= Len(inp)
  BY LenProperties DEF TypeOK, ReadOk
<1>2. \A j \in 1..Len(inp) : inp[j] \in Packet
  BY <1>1, ElementOfSeq
<1>3. inp[i] \in Seq(Token)
  BY <1>1, <1>2 DEF Packet
<1>4. \A j \in (i+1)..Len(inp) : inp[j] \in Packet
  BY <1>1, <1>2
<1>5. SubSeq(inp, i + 1, Len(inp)) \in Seq(Packet)
  BY <1>1, <1>4, SubSeqProperties
<1> QED BY <1>3, <1>5, LenProperties DEF ReadOk

LEMMA ReadFailsLemma ==
    ASSUME TypeOK, NEW room \in Nat, ReadFails(room)
    PROVE  inp' \in Seq(Packet)
<1>1. CASE inp' = <<>>
  BY <1>1, EmptySeq
<1>2. CASE \E i \in {1, 2} : i <= Len(inp) /\ inp' = SubSeq(inp, i + 1, Len(inp))
  <2> PICK i \in {1, 2} : i <= Len(inp) /\ inp' = SubSeq(inp, i + 1, Len(inp))
    BY <1>2
  <2>1. inp \in Seq(Packet) /\ Len(inp) \in Nat
    BY LenProperties DEF TypeOK
  <2>2. \A j \in (i+1)..Len(inp) : inp[j] \in Packet
    BY <2>1, ElementOfSeq
  <2> QED BY <2>1, <2>2, SubSeqProperties
<1> QED BY <1>1, <1>2 DEF ReadFails

\* A read that fails returns from the transaction with an error.
LEMMA AbortInd ==
    ASSUME IndInv, pc # "idle", NEW rc \in Codes, Abort(rc),
           inp' \in Seq(Packet), buf' = buf,
           fill' = <<>> \/ fill' = fill, left' \in Nat,
           UNCHANGED <<cur, ops, got, outq, camVars>>
    PROVE  IndInv'
<1>1. TypeOK /\ BufferInBounds
  BY DEF IndInv
<1>2. /\ pc' = "idle" /\ rd' \in ReadType
      /\ result' \in ResultType /\ faulted' = TRUE
  BY <1>1, AbortLemma
<1>3. fill' \in Seq(Token) /\ Len(fill') <= PacketLen
  <2>1. fill \in Seq(Token) /\ Len(fill) <= PacketLen
    BY <1>1 DEF TypeOK, BufferInBounds
  <2>2. <<>> \in Seq(Token) /\ Len(<<>>) = 0
    BY EmptySeq
  <2>3. CASE fill' = <<>>
    BY <2>2, <2>3, PacketLenAssumption
  <2>4. CASE fill' = fill
    BY <2>1, <2>4
  <2> QED BY <2>3, <2>4
<1>4. TypeOK'
  BY <1>1, <1>2, <1>3 DEF TypeOK, ReadType, ResultType, camVars
<1>5. BufferInBounds'
  BY <1>1, <1>3 DEF BufferInBounds
<1>6. ReadInv'
  BY <1>2 DEF ReadInv, Reading
<1>7. IdsInv'
  BY <1>2, HostIds DEF camVars
<1> QED BY <1>4, <1>5, <1>6, <1>7 DEF IndInv

LEMMA BulkReadInd ==
    ASSUME IndInv, BulkRead
    PROVE  IndInv'
<1> DEFINE room == rd.bulk - Len(rd.dst)
<1>1. /\ TypeOK /\ BufferInBounds /\ pc = "bulk"
      /\ buf = Empty /\ fill = <<>>
      /\ Len(rd.dst) < rd.bulk
      /\ rd.bulk + rd.min = rd.size /\ rd.min <= PacketLen
      /\ rd.stage # "none"
      /\ rd.stage \in {"datahdr", "resphdr"} => rd.size = 1
      /\ rd.stage # "data" => rd.size <= PacketLen
      /\ rd.stage = "data" => rd.size <= left
  BY DEF IndInv, ReadInv, Reading, BulkRead
<1>2. /\ rd \in ReadType /\ rd.dst \in Seq(Token) /\ Len(rd.dst) \in Nat
      /\ rd.bulk \in Nat /\ rd.min \in Nat /\ rd.size \in Nat
      /\ left \in Nat
  BY <1>1, LenProperties DEF TypeOK, ReadType
<1>3. room \in Nat
  BY <1>1, <1>2
<1>4. CASE ReadFails(room) /\ Abort("io")
  <2>1. inp' \in Seq(Packet)
    BY <1>1, <1>3, <1>4, ReadFailsLemma
  <2>2. "io" \in Codes
    BY DEF Codes
  <2> QED BY <2>1, <2>2, <1>1, <1>2, <1>4, AbortInd DEF BulkRead
<1>5. ASSUME NEW i \in {1, 2}, ReadOk(room, i),
             rd' = [rd EXCEPT !.dst = @ \o inp[i]],
             pc' = IF Len(inp[i]) < room THEN "bulk" ELSE "fill",
             UNCHANGED <<result, faulted>>
      PROVE  IndInv'
  <2>1. /\ inp[i] \in Seq(Token) /\ Len(inp[i]) \in Nat
        /\ Len(inp[i]) <= room /\ inp' \in Seq(Packet)
    BY <1>1, <1>3, <1>5, ReadOkLemma
  <2> DEFINE d == rd.dst \o inp[i]
  <2>2. d \in Seq(Token) /\ Len(d) = Len(rd.dst) + Len(inp[i])
    BY <2>1, <1>2, ConcatProperties
  <2> HIDE DEF d
  <2>a. /\ Len(inp[i]) < room => Len(d) < rd.bulk
        /\ ~(Len(inp[i]) < room) => Len(d) + rd.min = rd.size
    <3> DEFINE a == Len(rd.dst)
               b == Len(inp[i])
               c == rd.bulk
               m == rd.min
               z == rd.size
               e == Len(d)
    <3>1. /\ a \in Nat /\ b \in Nat /\ c \in Nat /\ m \in Nat /\ z \in Nat
          /\ b <= c - a /\ c + m = z /\ e = a + b
      BY <1>1, <1>2, <2>1, <2>2
    <3> HIDE DEF a, b, c, m, z, e
    <3>2. (b < c - a => e < c) /\ (~(b < c - a) => e + m = z)
      BY <3>1
    <3> QED BY <3>2 DEF a, b, c, m, z, e
  <2>3. /\ rd' \in ReadType /\ rd'.dst = d
        /\ rd'.stage = rd.stage /\ rd'.size = rd.size
        /\ rd'.bulk = rd.bulk /\ rd'.min = rd.min
    BY <2>2, <1>2, <1>5 DEF ReadType, d
  <2>4. UNCHANGED <<cur, ops, buf, fill, got, left, outq, cam, camq, done>>
    BY DEF BulkRead, camVars
  <2>5. TypeOK'
    BY <1>1, <1>5, <2>1, <2>3, <2>4 DEF TypeOK, ReadType
  <2>6. BufferInBounds'
    BY <1>1, <2>4 DEF BufferInBounds
  <2>7. ReadInv'
    <3>1. CASE Len(inp[i]) < room
      <4>1. pc' = "bulk"
        BY <3>1, <1>5
      <4>2. Len(d) < rd.bulk
        BY <3>1, <2>a
      <4> QED BY <4>1, <4>2, <1>1, <2>3, <2>4 DEF ReadInv, Reading
    <3>2. CASE ~(Len(inp[i]) < room)
      <4>1. pc' = "fill"
        BY <3>2, <1>5
      <4>2. Len(d) + rd.min = rd.size
        BY <3>2, <2>a
      <4> QED BY <4>1, <4>2, <1>1, <2>3, <2>4 DEF ReadInv, Reading
    <3> QED BY <3>1, <3>2
  <2>8. IdsInv'
    BY <1>1, <1>5, <2>4, HostIds
  <2> QED BY <2>5, <2>6, <2>7, <2>8 DEF IndInv
<1> QED BY <1>4, <1>5 DEF BulkRead

LEMMA FillInd ==
    ASSUME IndInv, Fill
    PROVE  IndInv'
<1> DEFINE room == PacketLen - Len(fill)
<1>1. /\ TypeOK /\ BufferInBounds /\ pc = "fill" /\ buf = Empty
      /\ Len(rd.dst) + rd.min = rd.size /\ rd.min <= PacketLen
      /\ rd.stage # "none"
      /\ rd.stage \in {"datahdr", "resphdr"} => rd.size = 1
      /\ rd.stage # "data" => rd.size <= PacketLen
      /\ rd.stage = "data" => rd.size <= left
  BY DEF IndInv, ReadInv, Reading, Fill
<1>2. /\ fill \in Seq(Token) /\ Len(fill) \in Nat /\ Len(fill) <= PacketLen
      /\ rd.min \in Nat /\ left \in Nat
  BY <1>1, LenProperties DEF TypeOK, BufferInBounds
<1>3. room \in Nat
  BY <1>2, PacketLenAssumption
<1>4. UNCHANGED <<cur, ops, got, left, outq, cam, camq, done>>
  BY DEF Fill, camVars
<1>5. CASE ReadFails(room) /\ Abort("io") /\ fill' = <<>> /\ UNCHANGED buf
  <2>1. inp' \in Seq(Packet)
    BY <1>1, <1>3, <1>5, ReadFailsLemma
  <2>2. "io" \in Codes
    BY DEF Codes
  <2> QED BY <2>1, <2>2, <1>1, <1>2, <1>4, <1>5, AbortInd DEF camVars
<1>6. ASSUME NEW i \in {1, 2}, ReadOk(room, i),
             IF Len(fill \o inp[i]) < rd.min
             THEN fill' = fill \o inp[i] /\ UNCHANGED <<buf, pc>>
             ELSE /\ buf' = Loaded(fill \o inp[i])
                  /\ fill' = <<>>
                  /\ pc' = "take2",
             UNCHANGED <<rd, result, faulted>>
      PROVE  IndInv'
  <2> DEFINE f == fill \o inp[i]
  <2>1. /\ inp[i] \in Seq(Token) /\ Len(inp[i]) \in Nat
        /\ Len(inp[i]) <= room /\ inp' \in Seq(Packet)
    BY <1>1, <1>3, <1>6, ReadOkLemma
  <2>2. f \in Seq(Token) /\ Len(f) = Len(fill) + Len(inp[i])
    BY <2>1, <1>2, ConcatProperties
  <2>3. Len(f) \in Nat /\ Len(f) <= PacketLen
    BY <2>1, <2>2, <1>2, PacketLenAssumption
  <2>4. IF Len(f) < rd.min
        THEN fill' = f /\ UNCHANGED <<buf, pc>>
        ELSE buf' = Loaded(f) /\ fill' = <<>> /\ pc' = "take2"
    BY <1>6
  <2> HIDE DEF f
  <2>5. CASE Len(f) < rd.min
    <3>1. fill' = f /\ buf' = buf /\ pc' = pc
      BY <2>4, <2>5
    <3>2. TypeOK'
      BY <1>1, <1>4, <1>6, <2>1, <2>2, <3>1 DEF TypeOK
    <3>3. BufferInBounds'
      BY <1>1, <2>3, <3>1 DEF BufferInBounds
    <3>4. ReadInv'
      BY <1>1, <1>4, <1>6, <3>1 DEF ReadInv, Reading
    <3>5. IdsInv'
      BY <1>1, <1>4, <3>1, HostIds
    <3> QED BY <3>2, <3>3, <3>4, <3>5 DEF IndInv
  <2>6. CASE ~(Len(f) < rd.min)
    <3>1. fill' = <<>> /\ buf' = [pos |-> 0, data |-> f] /\ pc' = "take2"
      BY <2>4, <2>6 DEF Loaded
    <3>2. buf' \in Buffer /\ fill' \in Seq(Token)
      BY <2>2, <3>1, EmptySeq DEF Buffer
    <3>3. TypeOK'
      BY <1>1, <1>4, <1>6, <2>1, <3>1, <3>2 DEF TypeOK, Buffer
    <3>4. BufferInBounds'
      BY <2>3, <3>1, PacketLenAssumption DEF BufferInBounds
    <3>5. ReadInv'
      BY <1>1, <1>2, <1>4, <1>6, <2>3, <2>6, <3>1 DEF ReadInv, Reading
    <3>6. IdsInv'
      BY <1>1, <1>4, <3>1, HostIds
    <3> QED BY <3>3, <3>4, <3>5, <3>6 DEF IndInv
  <2> QED BY <2>5, <2>6
<1> QED BY <1>5, <1>6 DEF Fill

LEMMA Take2Ind ==
    ASSUME IndInv, Take2
    PROVE  IndInv'
<1> DEFINE dst == NewDst(rd.min)
<1>1. /\ TypeOK /\ BufferInBounds /\ pc = "take2"
      /\ Len(rd.dst) + rd.min = rd.size /\ Len(buf.data) >= rd.min
      /\ rd.stage # "none"
      /\ rd.stage \in {"datahdr", "resphdr"} => rd.size = 1
      /\ rd.stage # "data" => rd.size <= PacketLen
      /\ rd.stage = "data" => rd.size <= left
  BY DEF IndInv, ReadInv, Reading, Take2
<1>2. /\ rd \in ReadType /\ rd.dst \in Seq(Token) /\ rd.min \in Nat
      /\ buf \in Buffer /\ Len(buf.data) \in Nat /\ Len(rd.dst) \in Nat
  BY <1>1, LenProperties DEF TypeOK, ReadType, Buffer
<1>3. /\ TakeLen(buf, rd.min) = IF Len(buf.data) > rd.min THEN rd.min
                                ELSE Len(buf.data)
      /\ Taken(buf, rd.min) \in Seq(Token)
      /\ Len(Taken(buf, rd.min)) = TakeLen(buf, rd.min)
      /\ AfterTake(buf, rd.min) \in Buffer
      /\ AfterTake(buf, rd.min).pos + Len(AfterTake(buf, rd.min).data)
            <= PacketLen
      /\ AfterTake(buf, rd.min).data = <<>> => AfterTake(buf, rd.min).pos = 0
  BY <1>1, <1>2, TakeLemma DEF BufferInBounds
<1>4. dst \in Seq(Token) /\ Len(dst) = rd.size
  <2>1. TakeLen(buf, rd.min) = rd.min
    BY <1>1, <1>2, <1>3
  <2>2. /\ dst \in Seq(Token)
        /\ Len(dst) = Len(rd.dst) + Len(Taken(buf, rd.min))
    BY <1>2, <1>3, ConcatProperties DEF NewDst
  <2> QED BY <2>1, <2>2, <1>1, <1>3
<1>5. /\ buf' = AfterTake(buf, rd.min)
      /\ pc' = "return" /\ rd' = [rd EXCEPT !.dst = dst]
      /\ UNCHANGED <<result, faulted, cur, ops, fill, got, left,
                     outq, inp, cam, camq, done>>
  BY <1>4 DEF Take2, camVars
<1> HIDE DEF dst
<1>6. /\ rd' \in ReadType /\ rd'.dst = dst
      /\ rd'.stage = rd.stage /\ rd'.size = rd.size
  BY <1>2, <1>4, <1>5 DEF ReadType
<1>7. TypeOK'
  BY <1>1, <1>3, <1>5, <1>6 DEF TypeOK, Buffer, ReadType
<1>8. BufferInBounds'
  BY <1>1, <1>3, <1>5 DEF BufferInBounds
<1>9. ReadInv'
  BY <1>1, <1>4, <1>5, <1>6 DEF ReadInv, Reading
<1>10. IdsInv'
  BY <1>1, <1>5, HostIds
<1> QED BY <1>7, <1>8, <1>9, <1>10 DEF IndInv

\* What follows a read: the next read, the handler, or the return.
LEMMA AfterReadInd ==
    ASSUME IndInv, pc # "idle",
           UNCHANGED <<cur, ops, buf, fill, outq, inp, camVars>>,
           got' \in Seq(Token), left' \in Nat, faulted' \in BOOLEAN,
           rd' \in ReadType, result' \in ResultType,
           \/ pc' \in {"idle", "handler"}
           \/ /\ pc' = "take" /\ rd'.stage # "none" /\ rd'.dst = <<>>
              /\ rd'.stage \in {"datahdr", "resphdr"} => rd'.size = 1
              /\ rd'.stage # "data" => rd'.size <= PacketLen
              /\ rd'.stage = "data" => rd'.size <= left'
    PROVE  IndInv'
<1>1. TypeOK /\ BufferInBounds
  BY DEF IndInv
<1>2. TypeOK'
  BY <1>1 DEF TypeOK, ReadType, ResultType, camVars
<1>3. BufferInBounds'
  BY <1>1 DEF BufferInBounds
<1>4. ReadInv'
  BY DEF ReadInv, Reading
<1>5. IdsInv'
  BY HostIds DEF camVars
<1> QED BY <1>2, <1>3, <1>4, <1>5 DEF IndInv

\* The facts of a read that has returned.
LEMMA ReturnFacts ==
    ASSUME IndInv, pc = "return"
    PROVE  /\ TypeOK /\ rd \in ReadType /\ result \in ResultType
           /\ left \in Nat /\ got \in Seq(Token) /\ faulted \in BOOLEAN
           /\ cur.id \in Nat /\ cur.op \in Op
           /\ rd.stage \in {"datahdr", "resphdr"} =>
                 /\ Hdr \in Token
                 /\ IsResponse(Hdr) => Hdr \in RespHdr
                 /\ Hdr.k = "data" => Hdr \in DataHdr
                 /\ Hdr.k \in {"ok", "err", "data", "pay", "par"}
           /\ rd.stage = "data" => rd.size <= left
<1>1. /\ TypeOK /\ rd \in ReadType /\ result \in ResultType
      /\ left \in Nat /\ got \in Seq(Token) /\ faulted \in BOOLEAN
      /\ cur.id \in Nat /\ cur.op \in Op
  BY OpType DEF IndInv, TypeOK, ReadType, ResultType
<1>2. ASSUME rd.stage \in {"datahdr", "resphdr"}
      PROVE  Hdr \in Token
  <2>1. Len(rd.dst) = 1
    BY <1>2 DEF IndInv, ReadInv, Reading
  <2>2. rd.dst \in Seq(Token)
    BY <1>1 DEF ReadType
  <2> QED BY <2>1, <2>2, ElementOfSeq DEF Hdr
<1>3. ASSUME NEW h \in Token
      PROVE  /\ IsResponse(h) => h \in RespHdr
             /\ h.k = "data" => h \in DataHdr
             /\ h.k \in {"ok", "err", "data", "pay", "par"}
  BY DEF Token, RespHdr, DataHdr, Body, IsResponse
<1>4. rd.stage = "data" => rd.size <= left
  BY DEF IndInv, ReadInv, Reading
<1> QED BY <1>1, <1>2, <1>3, <1>4

LEMMA NextBlockLemma ==
    ASSUME TypeOK, NEW n \in Nat, NextBlock(n)
    PROVE  /\ pc' = "take" /\ rd' \in ReadType /\ rd'.dst = <<>>
           /\ \/ rd'.stage = "data" /\ rd'.size <= n
              \/ rd'.stage = "resphdr" /\ rd'.size = 1
<1>1. cur.op.block \in Nat
  BY OpType DEF Op
<1>2. "data" \in Stages /\ "resphdr" \in Stages
  BY DEF Stages
<1>3. CASE StartRead("data", n)
  BY <1>2, <1>3, StartReadLemma
<1>4. CASE StartRead("data", MinOf(n, cur.op.block))
  <2>1. MinOf(n, cur.op.block) \in Nat /\ MinOf(n, cur.op.block) <= n
    BY <1>1 DEF MinOf
  <2> QED BY <2>1, <1>2, <1>4, StartReadLemma
<1>5. CASE StartRead("resphdr", 1)
  BY <1>2, <1>5, StartReadLemma
<1> QED BY <1>3, <1>4, <1>5 DEF NextBlock

LEMMA DataHeaderInd ==
    ASSUME IndInv, DataHeader
    PROVE  IndInv'
<1>1. /\ pc = "return" /\ rd.stage = "datahdr"
      /\ UNCHANGED <<cur, ops, buf, fill, got, outq, inp, camVars>>
  BY DEF DataHeader
<1>2. /\ TypeOK /\ rd \in ReadType /\ result \in ResultType
      /\ left \in Nat /\ got \in Seq(Token) /\ faulted \in BOOLEAN
      /\ cur.id \in Nat
      /\ IsResponse(Hdr) => Hdr \in RespHdr
      /\ Hdr.k = "data" => Hdr \in DataHdr
  BY <1>1, ReturnFacts
<1>3. CASE /\ IsResponse(Hdr)
           /\ IF Hdr.n > 0 THEN StartRead("stray", Hdr.n) /\ UNCHANGED result
                           ELSE Finish("dataexpected", cur.id)
           /\ UNCHANGED <<left, faulted>>
  <2>1. Hdr.n \in Nat /\ Hdr.n <= PacketLen
    BY <1>2, <1>3, PacketLenAssumption DEF RespHdr
  <2>2. CASE StartRead("stray", Hdr.n) /\ UNCHANGED result
    <3>1. "stray" \in Stages
      BY DEF Stages
    <3>2. /\ pc' = "take" /\ rd' \in ReadType /\ rd'.stage = "stray"
          /\ rd'.size = Hdr.n /\ rd'.dst = <<>>
      BY <2>1, <2>2, <3>1, StartReadLemma
    <3> QED BY <3>2, <2>1, <2>2, <1>1, <1>2, <1>3, AfterReadInd
  <2>3. CASE Finish("dataexpected", cur.id)
    <3>1. "dataexpected" \in Codes
      BY DEF Codes
    <3>2. pc' = "idle" /\ rd' \in ReadType /\ result' \in ResultType
      BY <2>3, <3>1, <1>2, FinishLemma
    <3> QED BY <3>2, <1>1, <1>2, <1>3, AfterReadInd
  <2> QED BY <2>2, <2>3, <1>3
<1>4. CASE /\ Hdr.k = "data" /\ left' = Hdr.n /\ NextBlock(Hdr.n)
           /\ UNCHANGED <<result, faulted>>
  <2>1. Hdr.n \in Nat
    BY <1>2, <1>4 DEF DataHdr
  <2>2. /\ pc' = "take" /\ rd' \in ReadType /\ rd'.dst = <<>>
        /\ \/ rd'.stage = "data" /\ rd'.size <= Hdr.n
           \/ rd'.stage = "resphdr" /\ rd'.size = 1
    BY <2>1, <1>2, <1>4, NextBlockLemma
  <2> QED BY <2>1, <2>2, <1>1, <1>2, <1>4, PacketLenAssumption, AfterReadInd
<1>5. ASSUME NEW rc \in Codes, Abort(rc), UNCHANGED left
      PROVE  IndInv'
  <2>1. /\ pc' = "idle" /\ rd' \in ReadType
        /\ result' \in ResultType /\ faulted' = TRUE
    BY <1>2, <1>5, AbortLemma
  <2> QED BY <2>1, <1>1, <1>2, <1>5, AfterReadInd
<1>6. "code" \in Codes /\ "badparam" \in Codes
  BY DEF Codes
<1> QED BY <1>3, <1>4, <1>5, <1>6 DEF DataHeader

LEMMA StrayResponseInd ==
    ASSUME IndInv, StrayResponse
    PROVE  IndInv'
<1>1. /\ TypeOK /\ got \in Seq(Token) /\ left \in Nat /\ faulted \in BOOLEAN
      /\ cur.id \in Nat /\ pc # "idle"
  BY DEF IndInv, TypeOK, StrayResponse
<1>2. "dataexpected" \in Codes
  BY DEF Codes
<1>3. pc' = "idle" /\ rd' \in ReadType /\ result' \in ResultType
  BY <1>1, <1>2, FinishLemma DEF StrayResponse
<1> QED BY <1>1, <1>3, AfterReadInd DEF StrayResponse

LEMMA DataReadInd ==
    ASSUME IndInv, DataRead
    PROVE  IndInv'
<1>1. /\ TypeOK /\ rd \in ReadType /\ result \in ResultType /\ pc # "idle"
      /\ left \in Nat /\ got \in Seq(Token) /\ faulted \in BOOLEAN
      /\ rd.size <= left
  BY ReturnFacts DEF DataRead
<1>2. left' \in Nat
  BY <1>1 DEF DataRead, ReadType
<1>3. CASE got' = rd.dst /\ StartRead("resphdr", 1)
  <2>1. "resphdr" \in Stages
    BY DEF Stages
  <2>2. /\ pc' = "take" /\ rd' \in ReadType /\ rd'.stage = "resphdr"
        /\ rd'.size = 1 /\ rd'.dst = <<>>
    BY <1>3, <2>1, StartReadLemma
  <2>3. got' \in Seq(Token)
    BY <1>1, <1>3 DEF ReadType
  <2> QED BY <2>2, <2>3, <1>1, <1>2, PacketLenAssumption, AfterReadInd
          DEF DataRead
<1>4. CASE pc' = "handler" /\ UNCHANGED <<got, rd>>
  BY <1>1, <1>2, <1>4, AfterReadInd DEF DataRead
<1> QED BY <1>3, <1>4 DEF DataRead

LEMMA HandlerInd ==
    ASSUME IndInv, Handler
    PROVE  IndInv'
<1>1. /\ TypeOK /\ rd \in ReadType /\ result \in ResultType
      /\ left \in Nat /\ got \in Seq(Token) /\ faulted \in BOOLEAN
      /\ pc # "idle"
      /\ UNCHANGED <<cur, ops, buf, fill, left, outq, inp, camVars>>
  BY DEF IndInv, TypeOK, ReadType, ResultType, Handler
<1>2. CASE /\ got' = got \o rd.dst /\ NextBlock(left)
           /\ UNCHANGED <<result, faulted>>
  <2>1. /\ pc' = "take" /\ rd' \in ReadType /\ rd'.dst = <<>>
        /\ \/ rd'.stage = "data" /\ rd'.size <= left
           \/ rd'.stage = "resphdr" /\ rd'.size = 1
    BY <1>1, <1>2, NextBlockLemma
  <2>2. got' \in Seq(Token)
    BY <1>1, <1>2, ConcatProperties DEF ReadType
  <2> QED BY <2>1, <2>2, <1>1, <1>2, PacketLenAssumption, AfterReadInd
<1>3. CASE Abort("handler") /\ UNCHANGED got
  <2>1. "handler" \in Codes
    BY DEF Codes
  <2>2. /\ pc' = "idle" /\ rd' \in ReadType
        /\ result' \in ResultType /\ faulted' = TRUE
    BY <2>1, <1>1, <1>3, AbortLemma
  <2> QED BY <2>2, <1>1, <1>3, AfterReadInd
<1> QED BY <1>2, <1>3 DEF Handler

LEMMA RespHeaderInd ==
    ASSUME IndInv, RespHeader
    PROVE  IndInv'
<1>1. /\ pc = "return" /\ rd.stage = "resphdr"
      /\ UNCHANGED <<cur, ops, buf, fill, got, left, outq, inp, camVars>>
  BY DEF RespHeader
<1>2. /\ TypeOK /\ rd \in ReadType /\ result \in ResultType
      /\ left \in Nat /\ got \in Seq(Token) /\ faulted \in BOOLEAN
      /\ IsResponse(Hdr) => Hdr \in RespHdr
  BY <1>1, ReturnFacts
<1>3. CASE IsResponse(Hdr) /\ Hdr.n > 0 /\ UNCHANGED <<result, faulted>>
           /\ pc' = "take"
           /\ rd' = [NoRead EXCEPT !.stage = "resppar", !.size = Hdr.n,
                                   !.hdr = Hdr]
  <2>1. Hdr \in RespHdr /\ Hdr.n \in Nat /\ Hdr.n <= PacketLen
    BY <1>2, <1>3, PacketLenAssumption DEF RespHdr
  <2>2. NoRead \in ReadType /\ NoRead.dst = <<>>
    BY NoReadType DEF NoRead
  <2>3. /\ rd' \in ReadType /\ rd'.stage = "resppar" /\ rd'.dst = <<>>
        /\ rd'.size = Hdr.n
    BY <2>1, <2>2, <1>3 DEF ReadType, Stages
  <2> QED BY <2>1, <2>3, <1>1, <1>2, <1>3, AfterReadInd
<1>4. CASE IsResponse(Hdr) /\ Finish(Hdr.k, Hdr.id) /\ UNCHANGED faulted
  <2>1. Hdr.k \in Codes /\ Hdr.id \in Nat
    BY <1>2, <1>4 DEF RespHdr, Codes
  <2>2. pc' = "idle" /\ rd' \in ReadType /\ result' \in ResultType
    BY <2>1, <1>2, <1>4, FinishLemma
  <2> QED BY <2>2, <1>1, <1>2, <1>4, AfterReadInd
<1>5. ASSUME NEW rc \in Codes, Abort(rc)
      PROVE  IndInv'
  <2>1. /\ pc' = "idle" /\ rd' \in ReadType
        /\ result' \in ResultType /\ faulted' = TRUE
    BY <1>2, <1>5, AbortLemma
  <2> QED BY <2>1, <1>1, <1>2, AfterReadInd
<1>6. "respexpected" \in Codes /\ "badparam" \in Codes
  BY DEF Codes
<1> QED BY <1>3, <1>4, <1>5, <1>6 DEF RespHeader

LEMMA RespParamsInd ==
    ASSUME IndInv, RespParams
    PROVE  IndInv'
<1>1. /\ TypeOK /\ got \in Seq(Token) /\ left \in Nat /\ faulted \in BOOLEAN
      /\ pc # "idle" /\ rd.hdr \in RespHdr
  BY DEF IndInv, TypeOK, RespParams
<1>2. rd.hdr.k \in Codes /\ rd.hdr.id \in Nat
  BY <1>1 DEF RespHdr, Codes
<1>3. pc' = "idle" /\ rd' \in ReadType /\ result' \in ResultType
  BY <1>1, <1>2, FinishLemma DEF RespParams
<1> QED BY <1>1, <1>3, AfterReadInd DEF RespParams

\* A step of the camera leaves the host alone.
LEMMA CameraInd ==
    ASSUME IndInv, UNCHANGED hostVars,
           outq' \in Seq(OutMsg), inp' \in Seq(Packet),
           \A i \in 1..Len(outq') : outq'[i].id < Len(ops),
           cam' \in [st : {"ready", "recv", "reply"}, id : Nat, n : Nat],
           camq' \in Seq(Packet), done' \in SUBSET [id : Nat, n : Nat],
           cam'.st = "recv" => cam'.id < Len(ops),
           cam'.st = "reply" => camq' # <<>>
    PROVE  IndInv'
<1>1. TypeOK'
  BY DEF IndInv, TypeOK, hostVars, OutMsg
<1>2. BufferInBounds'
  BY DEF IndInv, BufferInBounds, hostVars
<1>3. ReadInv'
  BY DEF IndInv, ReadInv, Reading, hostVars
<1>4. IdsInv'
  BY DEF IndInv, IdsInv, hostVars
<1> QED BY <1>1, <1>2, <1>3, <1>4 DEF IndInv

LEMMA ReplyLemma ==
    ASSUME IndInv, NEW id \in Nat, id < Len(ops), NEW n \in Nat, Reply(id, n)
    PROVE  /\ cam' \in [st : {"ready", "recv", "reply"}, id : Nat, n : Nat]
           /\ cam'.st = "reply"
           /\ camq' \in Seq(Packet) /\ camq' # <<>>
           /\ done' \in SUBSET [id : Nat, n : Nat]
<1>1. ops \in Seq(Ops) /\ done \in SUBSET [id : Nat, n : Nat]
  BY DEF IndInv, TypeOK
<1>2. /\ DataContainer(id) \in Seq(Token)
      /\ \A kind \in {"ok", "err"}, par \in {0, ops[id+1].par} :
            Response(kind, id, par) \in Packet
  BY <1>1, ContainerTypes
<1>3. cam' = [st |-> "reply", id |-> id, n |-> n]
  BY DEF Reply
<1>4. done' \in SUBSET [id : Nat, n : Nat]
  BY <1>1 DEF Reply
<1>5. ASSUME NEW p \in Packet
      PROVE  <<p>> \in Seq(Packet) /\ Len(<<p>>) = 1
  OBVIOUS
<1>6. ASSUME NEW q \in Seq(Packet), NEW p \in Packet
      PROVE  q \o <<p>> \in Seq(Packet) /\ q \o <<p>> # <<>>
  <2>1. /\ q \o <<p>> \in Seq(Packet)
        /\ Len(q \o <<p>>) = Len(q) + 1 /\ Len(q) \in Nat
    BY <1>5, ConcatProperties, LenProperties
  <2>2. Len(q \o <<p>>) # 0
    BY <2>1
  <2> QED BY <2>1, <2>2, EmptySeq
<1>7. camq' \in Seq(Packet) /\ camq' # <<>>
  <2>1. CASE \E zlp \in BOOLEAN :
               camq' = (IF ops[id+1].phase = "get"
                        THEN Packets(DataContainer(id), zlp) ELSE <<>>)
                       \o <<Response("ok", id, ops[id+1].par)>>
    <3> PICK zlp \in BOOLEAN :
               camq' = (IF ops[id+1].phase = "get"
                        THEN Packets(DataContainer(id), zlp) ELSE <<>>)
                       \o <<Response("ok", id, ops[id+1].par)>>
      BY <2>1
    <3> DEFINE q == IF ops[id+1].phase = "get"
                    THEN Packets(DataContainer(id), zlp) ELSE <<>>
    <3>1. q \in Seq(Packet)
      BY <1>2, PacketsType, EmptySeq
    <3>2. Response("ok", id, ops[id+1].par) \in Packet
      BY <1>2
    <3> QED BY <3>1, <3>2, <1>6
  <2>2. CASE \E par \in {0, ops[id+1].par} :
               camq' = <<Response("err", id, par)>>
    <3> PICK par \in {0, ops[id+1].par} : camq' = <<Response("err", id, par)>>
      BY <2>2
    <3>1. Response("err", id, par) \in Packet
      BY <1>2
    <3> QED BY <3>1, <1>5, EmptySeq
  <2> QED BY <2>1, <2>2 DEF Reply
<1> QED BY <1>3, <1>4, <1>7

\* The facts of the out pipe when the camera takes its first message.
LEMMA OutHead ==
    ASSUME IndInv, outq # <<>>
    PROVE  /\ Head(outq) \in OutMsg /\ Head(outq).id < Len(ops)
           /\ Tail(outq) \in Seq(OutMsg)
           /\ \A i \in 1..Len(Tail(outq)) : Tail(outq)[i].id < Len(ops)
<1>1. /\ outq \in Seq(OutMsg)
      /\ \A i \in 1..Len(outq) : outq[i].id < Len(ops)
  BY DEF IndInv, TypeOK, IdsInv, OutMsg
<1>2. Len(outq) \in Nat /\ Len(outq) # 0
  BY <1>1, LenProperties, EmptySeq
<1>3. /\ Head(outq) \in OutMsg /\ Head(outq) = outq[1]
      /\ Tail(outq) \in Seq(OutMsg)
      /\ Len(Tail(outq)) = Len(outq) - 1
      /\ \A i \in 1..Len(Tail(outq)) : Tail(outq)[i] = outq[i+1]
  BY <1>1, <1>2, HeadTailProperties
<1> QED BY <1>1, <1>2, <1>3

LEMMA CamCommandInd ==
    ASSUME IndInv, CamCommand
    PROVE  IndInv'
<1> DEFINE m == Head(outq)
<1>1. /\ TypeOK /\ inp \in Seq(Packet) /\ camq \in Seq(Packet)
      /\ done \in SUBSET [id : Nat, n : Nat] /\ cam.st = "ready"
      /\ cam \in [st : {"ready", "recv", "reply"}, id : Nat, n : Nat]
      /\ outq # <<>> /\ outq' = Tail(outq) /\ UNCHANGED hostVars /\ inp' = inp
  BY DEF IndInv, TypeOK, CamCommand
<1>2. /\ m \in OutMsg /\ m.id < Len(ops) /\ m.id \in Nat
      /\ outq' \in Seq(OutMsg)
      /\ \A i \in 1..Len(outq') : outq'[i].id < Len(ops)
  <2>1. m \in OutMsg /\ m.id < Len(ops) /\ outq' \in Seq(OutMsg)
        /\ \A i \in 1..Len(outq') : outq'[i].id < Len(ops)
    BY <1>1, OutHead
  <2> QED BY <2>1 DEF OutMsg
<1> HIDE DEF m
<1>3. CASE UNCHANGED camVars
  BY <1>1, <1>2, <1>3, CameraInd DEF camVars
<1>4. CASE cam' = [st |-> "recv", id |-> m.id, n |-> 0]
           /\ UNCHANGED <<camq, done>>
  BY <1>1, <1>2, <1>4, CameraInd
<1>5. CASE Reply(m.id, 0)
  <2>1. /\ cam' \in [st : {"ready", "recv", "reply"}, id : Nat, n : Nat]
        /\ cam'.st = "reply" /\ camq' \in Seq(Packet) /\ camq' # <<>>
        /\ done' \in SUBSET [id : Nat, n : Nat]
    BY <1>2, <1>5, ReplyLemma
  <2> QED BY <1>1, <1>2, <2>1, CameraInd
<1> QED BY <1>3, <1>4, <1>5 DEF CamCommand, m

LEMMA CamReceiveInd ==
    ASSUME IndInv, CamReceive
    PROVE  IndInv'
<1> DEFINE m == Head(outq)
<1>1. /\ TypeOK /\ inp \in Seq(Packet) /\ camq \in Seq(Packet)
      /\ done \in SUBSET [id : Nat, n : Nat] /\ cam.st = "recv"
      /\ cam \in [st : {"ready", "recv", "reply"}, id : Nat, n : Nat]
      /\ cam.id < Len(ops)
      /\ outq # <<>> /\ outq' = Tail(outq) /\ UNCHANGED hostVars /\ inp' = inp
  BY DEF IndInv, TypeOK, IdsInv, CamReceive
<1>2. /\ m.n \in Nat
      /\ outq' \in Seq(OutMsg)
      /\ \A i \in 1..Len(outq') : outq'[i].id < Len(ops)
  <2>1. m \in OutMsg /\ outq' \in Seq(OutMsg)
        /\ \A i \in 1..Len(outq') : outq'[i].id < Len(ops)
    BY <1>1, OutHead
  <2> QED BY <2>1, PacketLenAssumption DEF OutMsg
<1> HIDE DEF m
<1>3. cam.id \in Nat /\ cam.n + m.n \in Nat
  BY <1>1, <1>2
<1>4. CASE UNCHANGED camVars
  BY <1>1, <1>2, <1>4, CameraInd DEF camVars
<1>5. CASE cam' = [cam EXCEPT !.n = @ + m.n] /\ UNCHANGED <<camq, done>>
  <2>1. /\ cam' \in [st : {"ready", "recv", "reply"}, id : Nat, n : Nat]
        /\ cam'.st = "recv" /\ cam'.id = cam.id
    BY <1>1, <1>3, <1>5
  <2> QED BY <1>1, <1>2, <1>5, <2>1, CameraInd
<1>6. CASE Reply(cam.id, cam.n + m.n)
  <2>1. /\ cam' \in [st : {"ready", "recv", "reply"}, id : Nat, n : Nat]
        /\ cam'.st = "reply" /\ camq' \in Seq(Packet) /\ camq' # <<>>
        /\ done' \in SUBSET [id : Nat, n : Nat]
    BY <1>1, <1>3, <1>6, ReplyLemma
  <2> QED BY <1>1, <1>2, <2>1, CameraInd
<1> QED BY <1>4, <1>5, <1>6 DEF CamReceive, m

LEMMA CamSendInd ==
    ASSUME IndInv, CamSend
    PROVE  IndInv'
<1>1. /\ TypeOK /\ inp \in Seq(Packet) /\ camq \in Seq(Packet)
      /\ outq \in Seq(OutMsg) /\ camq # <<>>
      /\ \A i \in 1..Len(outq) : outq[i].id < Len(ops)
      /\ done \in SUBSET [id : Nat, n : Nat] /\ cam.st = "reply"
      /\ cam \in [st : {"ready", "recv", "reply"}, id : Nat, n : Nat]
  BY DEF IndInv, TypeOK, IdsInv, CamSend, OutMsg
<1>2. /\ inp' = Append(inp, Head(camq)) /\ camq' = Tail(camq)
      /\ cam' = IF Len(camq) = 1 THEN [cam EXCEPT !.st = "ready"] ELSE cam
      /\ UNCHANGED <<hostVars, outq, done>>
  BY DEF CamSend
<1>3. /\ Head(camq) \in Packet /\ camq' \in Seq(Packet)
      /\ Len(camq) \in Nat /\ Len(camq') = Len(camq) - 1
  BY <1>1, <1>2, HeadTailProperties, LenProperties
<1>4. inp' \in Seq(Packet)
  BY <1>1, <1>2, <1>3, AppendProperties
<1>5. cam' \in [st : {"ready", "recv", "reply"}, id : Nat, n : Nat]
  BY <1>1, <1>2
<1>6. cam'.st # "recv" /\ (cam'.st = "reply" => camq' # <<>>)
  <2>1. CASE Len(camq) = 1
    BY <2>1, <1>1, <1>2
  <2>2. CASE Len(camq) # 1
    <3>1. Len(camq) # 0
      BY <1>1, EmptySeq
    <3>2. Len(camq') # 0
      BY <2>2, <3>1, <1>3
    <3> QED BY <3>2, <2>2, <1>1, <1>2, <1>3, EmptySeq
  <2> QED BY <2>1, <2>2
<1> QED BY <1>1, <1>2, <1>3, <1>4, <1>5, <1>6, CameraInd

LEMMA StepInd ==
    ASSUME IndInv, [Next]_vars
    PROVE  IndInv'
<1>1. CASE UNCHANGED vars
  <2>1. outq' \in Seq(OutMsg) /\ inp' \in Seq(Packet)
    BY <1>1 DEF IndInv, TypeOK, vars, OutMsg
  <2> QED BY <1>1, <2>1, CameraInd
          DEF IndInv, TypeOK, IdsInv, vars, camVars
<1>2. CASE Caller
  BY <1>2, TransactionInd DEF Caller
<1>3. CASE Host
  BY <1>3, SendReqInd, SendDataInd, SendRestInd, SendZlpInd, TakeInd,
     BulkReadInd, FillInd, Take2Ind, DataHeaderInd,
     StrayResponseInd, DataReadInd, HandlerInd, RespHeaderInd, RespParamsInd
     DEF Host
<1>4. CASE Camera
  BY <1>4, CamCommandInd, CamReceiveInd, CamSendInd DEF Camera
<1> QED BY <1>1, <1>2, <1>3, <1>4 DEF Next

-----------------------------------------------------------------------------
(***************************************************************************)
(* The theorems.                                                           *)
(***************************************************************************)

\* The inductive invariant holds in every reachable state.
THEOREM Inductive == Spec => []IndInv
<1>1. Init => IndInv
  BY InitInd
<1>2. IndInv /\ [Next]_vars => IndInv'
  BY StepInd
<1> QED BY <1>1, <1>2, PTL DEF Spec

\* The host, the pipes and the camera keep their types.
THEOREM TypeCorrect == Spec => []TypeOK
<1>1. IndInv => TypeOK
  BY DEF IndInv
<1> QED BY <1>1, Inductive, PTL

\* The packet buffer never runs over, and is rewound when it is empty.
THEOREM BufferSafe == Spec => []BufferInBounds
<1>1. IndInv => BufferInBounds
  BY DEF IndInv
<1> QED BY <1>1, Inductive, PTL

\* ptp_transport_read_to_buffer is never called with data in the buffer.
THEOREM BufferEmptyWhenLoaded == Spec => []NeverRefused
<1>1. IndInv => NeverRefused
  <2> SUFFICES ASSUME IndInv, pc = "fill" PROVE ~BufferBusy
    BY DEF NeverRefused
  <2>1. rd.min \in Nat /\ rd.min <= PacketLen /\ buf = Empty
    BY DEF IndInv, ReadInv, TypeOK
  <2> QED BY <2>1, PacketLenAssumption DEF BufferBusy
<1> QED BY <1>1, Inductive, PTL

\* A read that succeeds hands over exactly what was asked for.
THEOREM ReadsComplete == Spec => []ReadsExact
<1>1. IndInv => ReadsExact
  <2> SUFFICES ASSUME IndInv PROVE ReadsExact
    OBVIOUS
  <2>1. pc = "return" => Len(rd.dst) = rd.size
    BY DEF IndInv, ReadInv
  <2>2. ASSUME pc = "take2"
        PROVE  Len(NewDst(rd.min)) = rd.size
    <3>1. /\ Len(rd.dst) + rd.min = rd.size /\ Len(buf.data) >= rd.min
          /\ rd.dst \in Seq(Token) /\ rd.min \in Nat /\ buf \in Buffer
          /\ buf.pos + Len(buf.data) <= PacketLen
          /\ buf.data = <<>> => buf.pos = 0
      <4>1. TypeOK /\ BufferInBounds /\ ReadInv
        BY DEF IndInv
      <4>2. rd.dst \in Seq(Token) /\ rd.min \in Nat /\ buf \in Buffer
        BY <4>1 DEF TypeOK, Buffer
      <4> QED BY <4>1, <4>2, <2>2 DEF ReadInv, BufferInBounds
    <3>2. /\ TakeLen(buf, rd.min) = IF Len(buf.data) > rd.min THEN rd.min
                                    ELSE Len(buf.data)
          /\ Taken(buf, rd.min) \in Seq(Token)
          /\ Len(Taken(buf, rd.min)) = TakeLen(buf, rd.min)
      BY <3>1, TakeLemma
    <3>3. Len(buf.data) \in Nat
      BY <3>1, LenProperties DEF Buffer
    <3>4. TakeLen(buf, rd.min) = rd.min
      BY <3>1, <3>2, <3>3
    <3>5. Len(NewDst(rd.min)) = Len(rd.dst) + Len(Taken(buf, rd.min))
      <4>1. rd.dst \in Seq(Token) /\ Taken(buf, rd.min) \in Seq(Token)
        BY <3>1, <3>2
      <4>2. Len(rd.dst \o Taken(buf, rd.min))
               = Len(rd.dst) + Len(Taken(buf, rd.min))
        BY <4>1, ConcatProperties
      <4> QED BY <4>2 DEF NewDst
    <3>6. Len(NewDst(rd.min)) = Len(rd.dst) + rd.min
      BY <3>2, <3>4, <3>5
    <3> QED BY <3>1, <3>6
  <2> QED BY <2>1, <2>2 DEF ReadsExact
<1> QED BY <1>1, Inductive, PTL

-----------------------------------------------------------------------------
(***************************************************************************)
(* The invariant: until a call has failed, host and camera are at the same *)
(* point of the same exchange.                                             *)
(***************************************************************************)
\* The offset of the i-th of the packets still to come, were all of them full.
Off(i) == (i - 1) * PacketLen

\* The operations the camera has carried out.
DoneIds == {d.id : d \in done}

\* The responses the camera may give to a transaction x (as in cur).
Replies(x) == {Response("ok", x.id, x.op.par)}
              \cup {Response("err", x.id, n) : n \in {0, x.op.par}}

\* The length of the data container that comes before response r.
DataLen(x, r) ==
    IF x.op.phase = "get" /\ r[1].k = "ok" THEN x.op.size + 1 ELSE 0

\* The j-th token of a data container, and of the whole answer that ends with
\* the response r.
DataTok(x, j) == IF j = 1 THEN [k |-> "data", id |-> x.id, n |-> x.op.size]
                 ELSE [k |-> "pay", id |-> x.id, n |-> j - 1]

Tok(x, r, j) ==
    IF j <= DataLen(x, r) THEN DataTok(x, j) ELSE r[j - DataLen(x, r)]

\* s is what the answer has from offset o on.
At(s, x, r, o) ==
    /\ o + Len(s) <= DataLen(x, r) + Len(r)
    /\ \A j \in 1..Len(s) : s[j] = Tok(x, r, o + j)

\* q is what is still to be read of the answer when p tokens of it were: the
\* rest of the data container in full packets, then a short one or none, and
\* the response; or nothing.
Cut(q, x, r, p) ==
    \/ q = <<>> /\ p = DataLen(x, r) + Len(r)
    \/ /\ q # <<>>
       /\ q[Len(q)] = r
       /\ p <= DataLen(x, r)
       /\ DataLen(x, r) - p <= Off(Len(q))
       /\ Len(q) > 1 => Off(Len(q) - 1) <= DataLen(x, r) - p
       /\ \A i \in 1..Len(q)-1 :
             /\ Len(q[i]) = MinOf(PacketLen, DataLen(x, r) - p - Off(i))
             /\ At(q[i], x, r, p + Off(i))

\* Where a read begins in the answer: by its stage, and by how much of the data
\* phase is not read before it.
Base(x, r, stage, unread) ==
    CASE stage = "datahdr" -> 0
      [] stage = "stray"   -> 1
      [] stage = "data"    -> DataLen(x, r) - unread
      [] stage = "resphdr" -> DataLen(x, r)
      [] OTHER             -> DataLen(x, r) + 1

Unread == IF pc = "handler" THEN left + Len(rd.dst) ELSE left

Start(r) == Base(cur, r, rd.stage, Unread)

\* How far the host has come in the answer, the packet buffer left out.
Place(r) == Start(r) + Len(rd.dst)

\* What the host has of the answer: in the read, in the data phase for the
\* caller, in the packet buffer; and what is still to come.
Holds(r) ==
    /\ At(rd.dst, cur, r, Start(r))
    /\ got # <<>> => At(got, cur, r, 1)
    /\ At(buf.data, cur, r, Place(r))
    /\ Cut(inp \o camq, cur, r, Place(r) + Len(buf.data))
    /\ inp \o camq = <<>> => Place(r) >= DataLen(cur, r)

\* The read in progress fits the answer.
StageFits(r) ==
    /\ rd.stage # "none"
    /\ rd.stage \in {"datahdr", "stray"} => cur.op.phase = "get" /\ got = <<>>
    /\ rd.stage = "stray" => DataLen(cur, r) = 0 /\ rd.size + 1 = Len(r)
    /\ rd.stage = "data" =>
          /\ DataLen(cur, r) = cur.op.size + 1
          /\ Start(r) >= 1
          /\ Len(got) = Start(r) - 1
          /\ cur.op.block = 0 =>
                Start(r) = 1 /\ rd.size = cur.op.size /\ pc # "handler"
    /\ rd.stage \in {"resphdr", "resppar"} =>
          /\ cur.op.phase = "get" => DataLen(cur, r) = cur.op.size + 1
          /\ Len(got) = IF cur.op.phase = "get" THEN cur.op.size ELSE 0
    /\ rd.stage = "resppar" => rd.hdr = r[1] /\ rd.size + 1 = Len(r)

\* How the pipe is read: whole packets first, then one load of the buffer.
ReadFits ==
    /\ fill = <<>>
    /\ pc = "bulk" => /\ rd.stage = "data"
                      /\ (rd.bulk - Len(rd.dst)) % PacketLen = 0
    /\ pc \in {"fill", "take2"} => rd.stage \in {"datahdr", "data", "resphdr"}
    /\ pc = "fill" /\ rd.stage # "data" => rd.min = 1

\* What the camera carried out: the operation with the data it was sent, unless
\* it refused it.
CarriedOut(x) ==
    [id |-> x.id, n |-> IF x.op.phase = "send" THEN x.op.size + 1 ELSE 0]

Carried(r) ==
    IF r[1].k = "ok" THEN CarriedOut(cur) \in done ELSE cur.id \notin DoneIds

\* The camera has answered, and the host reads the answer.
Answering ==
    /\ Reading \/ (pc = "handler" /\ rd.stage = "data")
    /\ outq = <<>>
    /\ cam.st = IF camq = <<>> THEN "ready" ELSE "reply"
    /\ ReadFits
    /\ \E r \in Replies(cur) : StageFits(r) /\ Holds(r) /\ Carried(r)

\* How much of the data container the host has written at a point of it.
DataWritten(x, p) ==
    CASE p = "senddata" -> 0
      [] p = "sendrest" -> PacketLen
      [] OTHER          -> x.op.size + 1

Piece(x, n) == [k |-> "pkt", id |-> x.id, n |-> n]

\* q is what the camera has still to take of what was written when it has n.
Sent(q, n, x, p) ==
    /\ n <= DataWritten(x, p)
    /\ \A i \in 1..Len(q) :
          q[i] = Piece(x, MinOf(PacketLen, DataWritten(x, p) - n - Off(i)))
    /\ IF p \in {"senddata", "sendrest", "sendzlp"}
       THEN DataWritten(x, p) - n = Off(Len(q) + 1)
       ELSE /\ q # <<>>
            /\ Off(Len(q)) <= DataWritten(x, p) - n
            /\ DataWritten(x, p) - n < Off(Len(q) + 1)

Command(x) == [k |-> "cmd", id |-> x.id, n |-> 0]

\* The camera has not answered: the host sends the request and the data, or
\* waits.
HostAsks ==
    \/ pc \in {"senddata", "sendrest", "sendzlp"} /\ cur.op.phase = "send"
    \/ /\ pc \in {"take", "fill"}
       /\ rd.dst = <<>> /\ rd.size = 1
       /\ rd.stage = IF cur.op.phase = "get" THEN "datahdr" ELSE "resphdr"
       /\ pc = "fill" => rd.min = 1

CamHears ==
    IF cur.op.phase = "send"
    THEN \/ /\ cam.st = "ready" /\ outq # <<>> /\ Head(outq) = Command(cur)
            /\ Sent(Tail(outq), 0, cur, pc)
         \/ cam.st = "recv" /\ cam.id = cur.id /\ Sent(outq, cam.n, cur, pc)
    ELSE cam.st = "ready" /\ outq = <<Command(cur)>>

Unanswered ==
    /\ inp = <<>> /\ camq = <<>> /\ buf = Empty /\ fill = <<>> /\ got = <<>>
    /\ cur.id \notin DoneIds

Asking == HostAsks /\ CamHears /\ Unanswered

\* Nothing is on its way.
Quiet ==
    /\ inp = <<>> /\ camq = <<>> /\ buf = Empty /\ fill = <<>>
    /\ outq = <<>> /\ cam.st = "ready"

LockStep ==
    \/ pc = "idle" /\ Quiet
    \/ pc = "sendreq" /\ Quiet /\ Unanswered
    \/ Asking
    \/ Answering

\* The operation in progress is the last one requested; what was carried out or
\* returned was requested before.
CurInv ==
    /\ pc # "idle" => Len(ops) = cur.id + 1 /\ ops[cur.id + 1] = cur.op
    /\ \A d \in done : d.id < Len(ops)
    /\ result.rc # "none" => result.id < Len(ops)

StepInv == CurInv /\ (~faulted => LockStep /\ OwnResult)

-----------------------------------------------------------------------------
(***************************************************************************)
(* Lemmas on offsets, responses and parts of an answer.                    *)
(***************************************************************************)
\* The transactions the invariant speaks about.
Trans == [id : Nat, op : Op]

\* A part of a sequence.
LEMMA SubSeqSpan ==
    ASSUME NEW S, NEW s \in Seq(S), NEW o \in Nat, NEW n \in Nat,
           o + n <= Len(s)
    PROVE  /\ SubSeq(s, o + 1, o + n) \in Seq(S)
           /\ Len(SubSeq(s, o + 1, o + n)) = n
           /\ \A j \in 1..n : SubSeq(s, o + 1, o + n)[j] = s[o + j]
<1>1. Len(s) \in Nat /\ \A j \in 1..Len(s) : s[j] \in S
  BY LenProperties, ElementOfSeq
<1>2. /\ \A j \in (o + 1)..(o + n) : s[j] \in S
      /\ o + 1 \in Nat /\ o + 1 >= 1 /\ o + n \in Nat
  BY <1>1
<1>3. /\ SubSeq(s, o + 1, o + n) \in Seq(S)
      /\ Len(SubSeq(s, o + 1, o + n)) =
            IF o + 1 <= o + n THEN (o + n) - (o + 1) + 1 ELSE 0
      /\ \A j \in 1..(o + n) - (o + 1) + 1 :
            SubSeq(s, o + 1, o + n)[j] = s[o + 1 + j - 1]
  BY <1>2, SubSeqProperties
<1>4. /\ (o + n) - (o + 1) + 1 = n
      /\ \A j \in 1..n : o + 1 + j - 1 = o + j
      /\ n = IF o + 1 <= o + n THEN n ELSE 0
  OBVIOUS
<1> QED BY <1>3, <1>4

\* Offsets grow by a packet.
LEMMA OffFacts ==
    /\ Off(1) = 0
    /\ Off(2) = PacketLen
    /\ \A i \in Nat : Off(i + 1) \in Nat /\ Off(i + 2) = Off(i + 1) + PacketLen
<1>1. ASSUME NEW i \in Nat
      PROVE  Off(i + 1) \in Nat /\ Off(i + 2) = Off(i + 1) + PacketLen
  <2>1. Off(i + 1) = i * PacketLen /\ Off(i + 2) = (i + 1) * PacketLen
    BY DEF Off
  <2>2. i * PacketLen \in Nat /\ (i + 1) * PacketLen = i * PacketLen + PacketLen
    BY PacketLenAssumption
  <2> QED BY <2>1, <2>2
<1> QED BY <1>1, PacketLenAssumption DEF Off

\* The offset of a packet after j others.
LEMMA OffSum ==
    ASSUME NEW i \in Nat, NEW j \in Nat
    PROVE  Off(i + j + 1) = Off(i + 1) + Off(j + 1)
<1>1. /\ Off(i + j + 1) = (i + j) * PacketLen
      /\ Off(i + 1) = i * PacketLen /\ Off(j + 1) = j * PacketLen
  BY DEF Off
<1>2. (i + j) * PacketLen = i * PacketLen + j * PacketLen
  BY PacketLenAssumption
<1> QED BY <1>1, <1>2

\* A later packet begins a packet's length further at least.
LEMMA OffMono ==
    ASSUME NEW i \in Nat, NEW j \in Nat, i < j
    PROVE  Off(j + 1) >= Off(i + 1) + PacketLen
<1>1. j - i - 1 \in Nat /\ i + 1 \in Nat /\ j = (i + 1) + (j - i - 1)
  OBVIOUS
<1>2. Off((i + 1) + (j - i - 1) + 1) = Off((i + 1) + 1) + Off((j - i - 1) + 1)
  BY <1>1, OffSum
<1>3. Off(j + 1) = Off(i + 2) + Off(j - i)
  <2>1. /\ (i + 1) + (j - i - 1) + 1 = j + 1 /\ (i + 1) + 1 = i + 2
        /\ (j - i - 1) + 1 = j - i
    OBVIOUS
  <2> QED BY <1>2, <2>1
<1>4. Off(j - i) \in Nat
  <2>1. (j - i - 1) + 1 = j - i
    OBVIOUS
  <2> QED BY <1>1, <2>1, OffFacts
<1>5. Off(i + 2) = Off(i + 1) + PacketLen /\ Off(i + 1) \in Nat
  BY OffFacts
<1> QED BY <1>3, <1>4, <1>5, PacketLenAssumption

\* The response to a transaction: a header that counts its parameters.
LEMMA ReplyFacts ==
    ASSUME NEW x \in Trans, NEW r \in Replies(x)
    PROVE  /\ r \in Seq(Token) /\ Len(r) \in Nat
           /\ Len(r) >= 1 /\ Len(r) < PacketLen
           /\ r[1].k \in {"ok", "err"}
           /\ r[1].id = x.id /\ r[1].n = Len(r) - 1
           /\ r # <<>>
           /\ DataLen(x, r) \in Nat
<1>1. PICK kind \in {"ok", "err"}, n \in 0..PacketLen-2 : r = Response(kind, x.id, n)
  <2>1. x.op.par \in 0..PacketLen-2 /\ 0 \in 0..PacketLen-2
    BY PacketLenAssumption DEF Trans, Op
  <2> QED BY <2>1 DEF Replies
<1>2. n \in Nat /\ x.id \in Nat /\ n + 1 < PacketLen
  BY PacketLenAssumption DEF Trans
<1> DEFINE e(i) == IF i = 1 THEN [k |-> kind, id |-> x.id, n |-> n]
                   ELSE [k |-> "par", id |-> x.id, n |-> i - 1]
           m == n + 1
<1>3. r = [i \in 1..m |-> e(i)]
  BY <1>1 DEF Response
<1>4. \A i \in 1..m : e(i) \in Token
  BY <1>2 DEF Token, RespHdr, Body
<1>5. m \in Nat /\ m >= 1
  BY <1>2
<1>6. e(1) = [k |-> kind, id |-> x.id, n |-> n]
  OBVIOUS
<1>7. r \in Seq(Token) /\ Len(r) = m /\ r[1] = e(1)
  <2> HIDE DEF m, e
  <2>1. r \in Seq(Token)
    BY <1>3, <1>4, <1>5, IsASeq
  <2>2. Len(r) = m /\ r[1] = e(1)
    BY <1>3, <1>5
  <2> QED BY <2>1, <2>2
<1>8. r[1].k = kind /\ r[1].id = x.id /\ r[1].n = n
  BY <1>6, <1>7
<1>9. DataLen(x, r) \in Nat
  BY DEF DataLen, Trans, Op
<1>10. r # <<>>
  BY <1>5, <1>7
<1> QED BY <1>2, <1>5, <1>7, <1>8, <1>9, <1>10 DEF m

\* A response is the end of its answer, and each token of it one of the answer.
LEMMA AtReply ==
    ASSUME NEW x \in Trans, NEW r \in Replies(x)
    PROVE  At(r, x, r, DataLen(x, r))
<1>1. Len(r) \in Nat /\ DataLen(x, r) \in Nat
  BY ReplyFacts
<1>2. ASSUME NEW j \in 1..Len(r)
      PROVE  r[j] = Tok(x, r, DataLen(x, r) + j)
  <2> DEFINE d == DataLen(x, r)
  <2>1. ~(d + j <= d) /\ (d + j) - d = j
    BY <1>1
  <2> QED BY <2>1 DEF Tok
<1> QED BY <1>1, <1>2 DEF At

\* A part of what the answer has from an offset on.
LEMMA AtPart ==
    ASSUME NEW x, NEW r, DataLen(x, r) \in Nat, Len(r) \in Nat,
           NEW s \in Seq(Token), NEW o \in Nat, At(s, x, r, o),
           NEW k \in 0..Len(s)
    PROVE  /\ At(SubSeq(s, 1, k), x, r, o)
           /\ At(SubSeq(s, k + 1, Len(s)), x, r, o + k)
<1>1. Len(s) \in Nat /\ k \in Nat /\ k <= Len(s) /\ \A i \in 1..Len(s) : s[i] \in Token
  BY LenProperties, ElementOfSeq
<1>2. /\ Len(SubSeq(s, 1, k)) = k
      /\ \A i \in 1..k : SubSeq(s, 1, k)[i] = s[i]
  <2>1. \A i \in 1..k : s[i] \in Token
    BY <1>1
  <2>2. Len(SubSeq(s, 1, k)) = IF 1 <= k THEN k - 1 + 1 ELSE 0
    BY <1>1, <2>1, SubSeqProperties
  <2>3. \A i \in 1..k - 1 + 1 : SubSeq(s, 1, k)[i] = s[1 + i - 1]
    BY <1>1, <2>1, SubSeqProperties
  <2> QED BY <1>1, <2>2, <2>3
<1>3. /\ Len(SubSeq(s, k + 1, Len(s))) = Len(s) - k
      /\ \A i \in 1..Len(s) - k : SubSeq(s, k + 1, Len(s))[i] = s[k + i]
  <2>1. \A i \in (k + 1)..Len(s) : s[i] \in Token
    BY <1>1
  <2>2. Len(SubSeq(s, k + 1, Len(s))) =
          IF k + 1 <= Len(s) THEN Len(s) - (k + 1) + 1 ELSE 0
    BY <1>1, <2>1, SubSeqProperties
  <2>3. \A i \in 1..Len(s) - (k + 1) + 1 :
           SubSeq(s, k + 1, Len(s))[i] = s[k + 1 + i - 1]
    BY <1>1, <2>1, SubSeqProperties
  <2> QED BY <1>1, <2>2, <2>3
<1>4. /\ o + Len(s) <= DataLen(x, r) + Len(r)
      /\ \A j \in 1..Len(s) : s[j] = Tok(x, r, o + j)
  BY DEF At
<1>5. At(SubSeq(s, 1, k), x, r, o)
  BY <1>1, <1>2, <1>4 DEF At
<1>6. At(SubSeq(s, k + 1, Len(s)), x, r, o + k)
  <2>1. ASSUME NEW j \in 1..Len(s) - k
        PROVE  s[k + j] = Tok(x, r, (o + k) + j)
    <3>1. k + j \in 1..Len(s) /\ o + (k + j) = (o + k) + j
      BY <1>1
    <3> QED BY <3>1, <1>4
  <2>2. (o + k) + (Len(s) - k) <= DataLen(x, r) + Len(r)
    BY <1>1, <1>4
  <2> QED BY <2>1, <2>2, <1>3 DEF At
<1> QED BY <1>5, <1>6

\* Two parts of the answer, one behind the other.
LEMMA AtJoin ==
    ASSUME NEW x, NEW r, DataLen(x, r) \in Nat, Len(r) \in Nat,
           NEW s \in Seq(Token), NEW t \in Seq(Token), NEW o \in Nat,
           At(s, x, r, o), At(t, x, r, o + Len(s))
    PROVE  At(s \o t, x, r, o) /\ Len(s \o t) = Len(s) + Len(t)
<1>1. /\ Len(s) \in Nat /\ Len(t) \in Nat
      /\ Len(s \o t) = Len(s) + Len(t)
      /\ \A i \in 1..Len(s) + Len(t) : (s \o t)[i] =
            IF i <= Len(s) THEN s[i] ELSE t[i - Len(s)]
  BY LenProperties, ConcatProperties
<1>2. ASSUME NEW j \in 1..Len(s) + Len(t)
      PROVE  (s \o t)[j] = Tok(x, r, o + j)
  <2>1. CASE j <= Len(s)
    BY <2>1, <1>1 DEF At
  <2>2. CASE j > Len(s)
    <3>1. j - Len(s) \in 1..Len(t) /\ (o + Len(s)) + (j - Len(s)) = o + j
      BY <2>2, <1>1
    <3> QED BY <2>2, <3>1, <1>1 DEF At
  <2> QED BY <2>1, <2>2, <1>1
<1>3. o + Len(s \o t) <= DataLen(x, r) + Len(r)
  BY <1>1 DEF At
<1> QED BY <1>1, <1>2, <1>3 DEF At

\* A multiple of the packet length has no remainder.
LEMMA MultMod ==
    ASSUME NEW k \in Nat
    PROVE  (PacketLen * k) % PacketLen = 0
<1> DEFINE n == PacketLen * k
           d == n \div PacketLen
           m == n % PacketLen
<1>1. n \in Nat
  BY PacketLenAssumption
<1>2. d \in Nat /\ m \in 0..PacketLen-1 /\ n = PacketLen * d + m
  BY <1>1, DivMod
<1> HIDE DEF d, m
<1>3. PacketLen * k = PacketLen * d + m
  BY <1>2
<1>4. PacketLen * (k - d) = m
  <2>1. PacketLen * (k - d) = PacketLen * k - PacketLen * d
    BY <1>2, PacketLenAssumption
  <2> QED BY <2>1, <1>2, <1>3, PacketLenAssumption
<1>5. ASSUME k - d >= 1
      PROVE  FALSE
  <2>1. PacketLen * (k - d) >= PacketLen
    BY <1>5, <1>2, PacketLenAssumption
  <2> QED BY <2>1, <1>2, <1>4, PacketLenAssumption
<1>6. ASSUME k - d <= -1
      PROVE  FALSE
  <2>1. PacketLen * (k - d) <= 0 - PacketLen
    BY <1>6, <1>2, PacketLenAssumption
  <2> QED BY <2>1, <1>2, <1>4, PacketLenAssumption
<1>7. k - d = 0
  BY <1>5, <1>6, <1>2
<1>8. PacketLen * (k - d) = 0
  BY <1>7, PacketLenAssumption
<1>9. m = 0
  BY <1>4, <1>8
<1> QED BY <1>9 DEF m

\* What a data read takes in whole packets is a multiple of the packet length,
\* before and after each of them.
LEMMA WholePackets ==
    ASSUME NEW n \in Nat
    PROVE  /\ n - (n % PacketLen) \in Nat
           /\ (n - (n % PacketLen)) % PacketLen = 0
           /\ n > 0 /\ n % PacketLen = 0 =>
                 n >= PacketLen /\ (n - PacketLen) % PacketLen = 0
<1> DEFINE d == n \div PacketLen
           m == n % PacketLen
<1>1. d \in Nat /\ m \in 0..PacketLen-1 /\ n = PacketLen * d + m
  BY DivMod
<1>2. n - m = PacketLen * d /\ n - m \in Nat
  <2>1. PacketLen * d \in Nat
    BY <1>1, PacketLenAssumption
  <2> HIDE DEF d, m
  <2> QED BY <2>1, <1>1
<1>3. (n - m) % PacketLen = 0
  BY <1>1, <1>2, MultMod
<1>4. ASSUME n > 0, m = 0
      PROVE  n >= PacketLen /\ (n - PacketLen) % PacketLen = 0
  <2>1. n = PacketLen * d
    <3> HIDE DEF d, m
    <3>1. PacketLen * d \in Nat
      BY <1>1, PacketLenAssumption
    <3> QED BY <1>1, <1>4, <3>1
  <2>2. d >= 1
    <3> HIDE DEF d, m
    <3>1. d = 0 => PacketLen * d = 0
      BY PacketLenAssumption
    <3> QED BY <3>1, <2>1, <1>1, <1>4
  <2>3. d - 1 \in Nat
    <3> HIDE DEF d
    <3> QED BY <1>1, <2>2
  <2>4. PacketLen * (d - 1) = n - PacketLen /\ PacketLen * (d - 1) >= 0
    <3> HIDE DEF d
    <3>1. PacketLen * (d - 1) = PacketLen * d - PacketLen
      BY <1>1, PacketLenAssumption
    <3>2. PacketLen * (d - 1) >= 0
      BY <2>3, PacketLenAssumption
    <3> QED BY <3>1, <3>2, <2>1
  <2>5. (PacketLen * (d - 1)) % PacketLen = 0
    BY <2>3, MultMod
  <2>6. n >= PacketLen
    <3> HIDE DEF d
    <3> QED BY <2>4, PacketLenAssumption
  <2> QED BY <2>4, <2>5, <2>6
<1> QED BY <1>2, <1>3, <1>4 DEF m

\* Reading the first packet of what is to come, behind a zero length packet at
\* most: it is the next part of the data container, or, when that has been read,
\* the whole response.
LEMMA CutTake ==
    ASSUME NEW x \in Trans, NEW r \in Replies(x), NEW q \in Seq(Packet),
           NEW p \in Nat, Cut(q, x, r, p), NEW i \in {1, 2}, i <= Len(q),
           i = 1 => q[1] # <<>>, i = 2 => q[1] = <<>>
    PROVE  /\ At(q[i], x, r, p)
           /\ Cut(SubSeq(q, i + 1, Len(q)), x, r, p + Len(q[i]))
           /\ Len(q[i]) >= 1
           /\ \/ /\ p < DataLen(x, r) /\ i = 1
                 /\ Len(q[i]) = MinOf(PacketLen, DataLen(x, r) - p)
                 /\ SubSeq(q, i + 1, Len(q)) # <<>>
              \/ /\ p = DataLen(x, r) /\ q[i] = r
                 /\ SubSeq(q, i + 1, Len(q)) = <<>>
<1> DEFINE d == DataLen(x, r)
           t == SubSeq(q, i + 1, Len(q))
<1>1. /\ d \in Nat /\ Len(r) \in Nat /\ Len(r) >= 1 /\ r # <<>>
      /\ At(r, x, r, d)
  BY ReplyFacts, AtReply
<1>2. /\ Len(q) \in Nat /\ Len(q) >= 1 /\ q # <<>>
      /\ \A j \in 1..Len(q) : q[j] \in Packet
      /\ \A j \in 1..Len(q) : q[j] \in Seq(Token) /\ Len(q[j]) \in Nat
  <2>1. Len(q) \in Nat /\ \A j \in 1..Len(q) : q[j] \in Packet
    BY LenProperties, ElementOfSeq
  <2>2. \A s \in Packet : s \in Seq(Token) /\ Len(s) \in Nat
    BY LenProperties DEF Packet
  <2>3. q # <<>>
    BY <2>1
  <2> QED BY <2>1, <2>2, <2>3
<1>3. /\ q[Len(q)] = r /\ p <= d
      /\ d - p <= Off(Len(q))
      /\ Len(q) > 1 => Off(Len(q) - 1) <= d - p
      /\ \A j \in 1..Len(q)-1 : /\ Len(q[j]) = MinOf(PacketLen, d - p - Off(j))
                                /\ At(q[j], x, r, p + Off(j))
  BY <1>2 DEF Cut
<1>4. /\ Len(t) = Len(q) - i
      /\ \A j \in 1..Len(q) - i : t[j] = q[i + j]
      /\ t = <<>> <=> Len(q) = i
      /\ t \in Seq(Packet)
  <2>1. \A j \in (i + 1)..Len(q) : q[j] \in Packet
    BY <1>2
  <2>2. /\ t \in Seq(Packet)
        /\ Len(t) = IF i + 1 <= Len(q) THEN Len(q) - (i + 1) + 1 ELSE 0
        /\ \A j \in 1..Len(q) - (i + 1) + 1 : t[j] = q[i + 1 + j - 1]
    BY <1>2, <2>1, SubSeqProperties
  <2>3. Len(t) = Len(q) - i /\ \A j \in 1..Len(q) - i : t[j] = q[i + j]
    BY <1>2, <2>2
  <2>4. t = <<>> <=> Len(t) = 0
    BY <2>2, EmptySeq, LenProperties
  <2> QED BY <2>2, <2>3, <2>4, <1>2
<1>5. Off(1) = 0 /\ PacketLen \in Nat /\ PacketLen >= 2
  BY OffFacts, PacketLenAssumption
<1>10. /\ Len(q) \in Nat /\ Len(q) >= 1
       /\ Len(q) = 1 \/ Len(q) = 2 \/ Len(q) > 2
       /\ Len(q) # 1 <=> Len(q) > 1
  <2>1. \A k \in Nat : k >= 1 => /\ k = 1 \/ k = 2 \/ k > 2
                                 /\ k # 1 <=> k > 1
    OBVIOUS
  <2>2. Len(q) \in Nat /\ Len(q) >= 1
    BY <1>2
  <2> QED BY <2>1, <2>2
<1> HIDE DEF d, t
<1>6. ASSUME q[i] = r, p = d, t = <<>>
      PROVE  At(q[i], x, r, p) /\ Cut(t, x, r, p + Len(q[i])) /\ Len(q[i]) >= 1
  BY <1>1, <1>6 DEF Cut, d
<1>7. CASE Len(q) = 1
  <2>1. i = 1 /\ q[i] = r /\ t = <<>>
    BY <1>2, <1>3, <1>4, <1>7
  <2>2. p = d
    BY <1>1, <1>3, <1>5, <1>7
  <2> QED BY <2>1, <2>2, <1>6 DEF d, t
<1>8. CASE Len(q) > 1 /\ i = 2
  <2>1. 1 \in 1..Len(q)-1 /\ Len(q[1]) = 0
    BY <1>2, <1>8
  <2>2. MinOf(PacketLen, d - p - Off(1)) = 0
    BY <2>1, <1>3
  <2>3. p = d
    BY <2>2, <1>1, <1>3, <1>5 DEF MinOf
  <2>4. Len(q) = 2
    <3> DEFINE k == Len(q) - 2
    <3>1. ASSUME Len(q) > 2 PROVE FALSE
      <4>1. 0 \in Nat /\ k \in Nat /\ 0 < k /\ k + 1 = Len(q) - 1 /\ 0 + 1 = 1
        BY <3>1, <1>10
      <4>2. Off(k + 1) >= Off(0 + 1) + PacketLen
        <5> HIDE DEF k
        <5> QED BY <4>1, OffMono
      <4>3. Off(k + 1) \in Nat
        <5> HIDE DEF k
        <5> QED BY <4>1, OffFacts
      <4>4. Off(k + 1) <= d - p
        BY <4>1, <1>3, <1>8
      <4> HIDE DEF k
      <4> QED BY <4>1, <4>2, <4>3, <4>4, <2>3, <1>1, <1>5
    <3>2. Len(q) # 1
      BY <1>8, <1>10, Zenon
    <3> QED BY <3>1, <3>2, <1>10, Zenon
  <2>5. q[i] = r /\ t = <<>>
    BY <2>4, <1>3, <1>4, <1>8
  <2> QED BY <2>3, <2>5, <1>6 DEF d, t
<1>9. CASE Len(q) > 1 /\ i = 1
  <2> DEFINE n == Len(q[1])
             k == Len(q)
  <2>1. /\ n \in Nat /\ n # 0 /\ n = MinOf(PacketLen, d - p) /\ At(q[1], x, r, p)
    <3>1. 1 \in 1..Len(q)-1 /\ q[1] # <<>>
      BY <1>2, <1>9
    <3>2. d - p - Off(1) = d - p /\ p + Off(1) = p
      BY <1>1, <1>5
    <3>3. n \in Nat /\ n # 0
      BY <3>1, <1>2, EmptySeq
    <3> QED BY <3>1, <3>2, <3>3, <1>3
  <2>2. p < d
    BY <2>1, <1>1, <1>3, <1>5 DEF MinOf
  <2>3. Len(t) = k - 1 /\ t # <<>> /\ k \in Nat /\ k >= 2 /\ t[k - 1] = r
    BY <1>2, <1>3, <1>4, <1>9
  <2>4. /\ Off(k - 1) \in Nat /\ Off(k) = Off(k - 1) + PacketLen
    <3>1. k - 2 \in Nat /\ (k - 2) + 1 = k - 1 /\ (k - 2) + 2 = k
      BY <2>3
    <3>2. Off((k - 2) + 1) \in Nat /\ Off((k - 2) + 2) = Off((k - 2) + 1) + PacketLen
      BY <3>1, OffFacts
    <3> QED BY <3>1, <3>2
  <2> HIDE DEF n, k
  <2>5. /\ d - p <= Off(k)
        /\ Off(k - 1) <= d - p
    <3> QED BY <1>3, <1>9 DEF k
  <2>6. p + n <= d /\ d - (p + n) <= Off(k - 1)
    BY <2>1, <2>4, <2>5, <1>1, <1>3, <1>5 DEF MinOf
  <2>7. ASSUME k >= 3
        PROVE  n = PacketLen /\ Off(k - 2) <= d - (p + n)
    <3>1. k - 3 \in Nat /\ (k - 3) + 1 = k - 2 /\ (k - 3) + 2 = k - 1
      BY <2>3, <2>7
    <3>2. Off((k - 3) + 1) \in Nat /\ Off((k - 3) + 2) = Off((k - 3) + 1) + PacketLen
      BY <3>1, OffFacts
    <3>3. Off(k - 2) \in Nat /\ Off(k - 1) = Off(k - 2) + PacketLen
      BY <3>1, <3>2
    <3>4. n = PacketLen
      BY <3>3, <2>1, <2>5, <1>1, <1>5 DEF MinOf
    <3> QED BY <3>3, <3>4, <2>5, <1>1, <1>5
  <2>8. ASSUME NEW j \in 1..(k - 1) - 1
        PROVE  /\ Len(t[j]) = MinOf(PacketLen, d - (p + n) - Off(j))
               /\ At(t[j], x, r, (p + n) + Off(j))
    <3>1. k >= 3 /\ j \in Nat /\ j - 1 \in Nat /\ j + 1 \in 1..Len(q)-1
      BY <2>3 DEF k
    <3>2. t[j] = q[1 + j] /\ 1 + j = j + 1
      BY <3>1, <1>4, <1>9, <1>2
    <3>3. Off(j) \in Nat /\ Off(j + 1) = Off(j) + PacketLen
      <4>1. (j - 1) + 1 = j /\ (j - 1) + 2 = j + 1
        BY <3>1
      <4>2. Off((j - 1) + 1) \in Nat /\ Off((j - 1) + 2) = Off((j - 1) + 1) + PacketLen
        BY <3>1, OffFacts
      <4> QED BY <4>1, <4>2
    <3>4. /\ d - (p + n) - Off(j) = d - p - Off(j + 1)
          /\ (p + n) + Off(j) = p + Off(j + 1)
      BY <3>1, <3>3, <2>7, <1>1, <1>5
    <3> QED BY <3>1, <3>2, <3>4, <1>3
  <2>9. Cut(t, x, r, p + n)
    <3>1. k - 1 > 1 => Off((k - 1) - 1) <= d - (p + n)
      <4>1. (k - 1) - 1 = k - 2
        BY <2>3
      <4> QED BY <4>1, <2>3, <2>7
    <3> QED BY <3>1, <2>3, <2>6, <2>8 DEF Cut, d
  <2> QED BY <2>1, <2>2, <2>3, <2>9, <1>9 DEF n, d, t
<1>11. Len(q) = 1 \/ (Len(q) > 1 /\ i = 2) \/ (Len(q) > 1 /\ i = 1)
  BY <1>10, Zenon
<1> QED BY <1>7, <1>8, <1>9, <1>11

\* Packets come from the pipe in the order the camera gives them to it.
LEMMA PipeFront ==
    ASSUME NEW s \in Seq(Packet), NEW t \in Seq(Packet), NEW i \in 1..Len(s)
    PROVE  /\ s \o t \in Seq(Packet) /\ i <= Len(s \o t)
           /\ \A j \in 1..i : (s \o t)[j] = s[j]
           /\ SubSeq(s, i + 1, Len(s)) \o t = SubSeq(s \o t, i + 1, Len(s \o t))
<1> DEFINE u == s \o t
           a == SubSeq(s, i + 1, Len(s))
           b == SubSeq(u, i + 1, Len(u))
<1>1. /\ Len(s) \in Nat /\ Len(t) \in Nat /\ u \in Seq(Packet)
      /\ Len(u) = Len(s) + Len(t)
      /\ \A j \in 1..Len(s) + Len(t) : u[j] =
            IF j <= Len(s) THEN s[j] ELSE t[j - Len(s)]
      /\ \A j \in 1..Len(s) : s[j] \in Packet
      /\ \A j \in 1..Len(u) : u[j] \in Packet
  <2>1. /\ Len(s) \in Nat /\ Len(t) \in Nat /\ u \in Seq(Packet)
        /\ Len(u) = Len(s) + Len(t)
        /\ \A j \in 1..Len(s) + Len(t) : u[j] =
              IF j <= Len(s) THEN s[j] ELSE t[j - Len(s)]
    BY LenProperties, ConcatProperties
  <2> HIDE DEF u
  <2> QED BY <2>1, ElementOfSeq
<1> HIDE DEF u
<1>2. /\ a \in Seq(Packet) /\ Len(a) = Len(s) - i
      /\ \A j \in 1..Len(s) - i : a[j] = s[i + j]
  <2>1. \A j \in (i + 1)..Len(s) : s[j] \in Packet
    BY <1>1
  <2>2. /\ a \in Seq(Packet)
        /\ Len(a) = IF i + 1 <= Len(s) THEN Len(s) - (i + 1) + 1 ELSE 0
        /\ \A j \in 1..Len(s) - (i + 1) + 1 : a[j] = s[i + 1 + j - 1]
    BY <1>1, <2>1, SubSeqProperties
  <2> HIDE DEF a
  <2> QED BY <1>1, <2>2
<1>3. /\ b \in Seq(Packet) /\ Len(b) = Len(u) - i
      /\ \A j \in 1..Len(u) - i : b[j] = u[i + j]
  <2>1. \A j \in (i + 1)..Len(u) : u[j] \in Packet
    BY <1>1
  <2>2. /\ b \in Seq(Packet)
        /\ Len(b) = IF i + 1 <= Len(u) THEN Len(u) - (i + 1) + 1 ELSE 0
        /\ \A j \in 1..Len(u) - (i + 1) + 1 : b[j] = u[i + 1 + j - 1]
    BY <1>1, <2>1, SubSeqProperties
  <2> HIDE DEF b
  <2> QED BY <1>1, <2>2
<1> HIDE DEF a, b
<1>4. /\ a \o t \in Seq(Packet) /\ Len(a \o t) = Len(a) + Len(t)
      /\ \A j \in 1..Len(a) + Len(t) : (a \o t)[j] =
            IF j <= Len(a) THEN a[j] ELSE t[j - Len(a)]
  BY <1>2, ConcatProperties
<1>5. Len(a \o t) = Len(b)
  BY <1>1, <1>2, <1>3, <1>4
<1>6. ASSUME NEW j \in 1..Len(b)
      PROVE  (a \o t)[j] = b[j]
  <2>1. j \in 1..Len(a) + Len(t) /\ b[j] = u[i + j] /\ i + j \in 1..Len(s) + Len(t)
    BY <1>1, <1>2, <1>3
  <2>2. CASE j <= Len(a)
    <3>1. i + j <= Len(s) /\ j \in 1..Len(s) - i /\ Len(a) \in Nat
      BY <2>1, <2>2, <1>1, <1>2
    <3>2. (a \o t)[j] = a[j]
      BY <2>1, <2>2, <1>4
    <3> QED BY <2>1, <3>1, <3>2, <1>1, <1>2
  <2>3. CASE j > Len(a)
    <3>1. ~(i + j <= Len(s)) /\ i + j - Len(s) = j - Len(a) /\ ~(j <= Len(a))
      <4>1. Len(s) \in Nat /\ i \in 1..Len(s) /\ Len(a) = Len(s) - i
        BY <1>1, <1>2
      <4>2. j \in Nat
        BY <2>1, <1>1, <4>1
      <4> QED BY <4>1, <4>2, <2>3
    <3>2. (a \o t)[j] = t[j - Len(a)]
      BY <2>1, <3>1, <1>4, Zenon
    <3>3. u[i + j] = t[i + j - Len(s)]
      <4>1. \A k \in 1..Len(s) + Len(t) : u[k] =
               IF k <= Len(s) THEN s[k] ELSE t[k - Len(s)]
        BY <1>1, Zenon
      <4>2. u[i + j] = IF i + j <= Len(s) THEN s[i + j] ELSE t[i + j - Len(s)]
        BY <2>1, <4>1
      <4> QED BY <3>1, <4>2
    <3> QED BY <2>1, <3>1, <3>2, <3>3, Zenon
  <2> QED BY <2>1, <2>2, <2>3, <1>2
<1>7. a \o t = b
  BY <1>3, <1>4, <1>5, <1>6, SeqEqual
<1>8. u \in Seq(Packet) /\ i <= Len(u) /\ \A j \in 1..i : u[j] = s[j]
  BY <1>1
<1> QED BY <1>7, <1>8 DEF u, a, b

\* A data container as the packets of its transfer, and the response behind it.
LEMMA CutPackets ==
    ASSUME NEW x \in Trans, x.op.phase = "get", NEW s \in Seq(Token),
           Len(s) = x.op.size + 1, \A j \in 1..Len(s) : s[j] = DataTok(x, j),
           NEW r \in Replies(x), r[1].k = "ok", NEW zlp \in BOOLEAN
    PROVE  Cut(Packets(s, zlp) \o <<r>>, x, r, 0)
<1> DEFINE full == Len(s) \div PacketLen
           short == IF Len(s) % PacketLen # 0 \/ zlp THEN 1 ELSE 0
           hi(i) == IF i <= full THEN i * PacketLen ELSE Len(s)
           e(i) == SubSeq(s, (i - 1) * PacketLen + 1, hi(i))
           P == Packets(s, zlp)
           N == full + short
           L == Len(s)
           m == Len(s) % PacketLen
<1>1. /\ L \in Nat /\ full \in Nat /\ short \in {0, 1} /\ m \in 0..PacketLen-1
      /\ L = PacketLen * full + m
      /\ m # 0 => short = 1
      /\ \A i \in 1..L : s[i] \in Token
  <2>1. L \in Nat /\ \A i \in 1..L : s[i] \in Token
    BY LenProperties, ElementOfSeq
  <2> QED BY <2>1, DivMod
<1>2. P = [i \in 1..N |-> e(i)]
  BY DEF Packets
<1>3. DataLen(x, r) = L
  BY DEF DataLen
<1>4. P \in Seq(Packet)
  BY PacketsType
<1>5. PacketLen \in Nat /\ PacketLen >= 2
  BY PacketLenAssumption
<1>6. Len(r) \in Nat /\ Len(r) >= 1
  BY ReplyFacts
<1> HIDE DEF full, short, P, m, L
<1>7. N \in Nat /\ Len(P) = N /\ \A i \in 1..N : P[i] = e(i)
  <2>1. N \in Nat
    BY <1>1
  <2> HIDE DEF N, e
  <2> QED BY <2>1, <1>2
<1>8. /\ Off(full + 1) = PacketLen * full /\ Off(full + 1) \in Nat
      /\ Off(full + 2) = Off(full + 1) + PacketLen
      /\ L = Off(full + 1) + m
  <2>1. Off(full + 1) = PacketLen * full
    BY <1>1, <1>5 DEF Off
  <2> QED BY <2>1, <1>1, OffFacts
<1>9. L <= Off(N + 1)
  <2>1. CASE short = 0
    <3>1. m = 0 /\ N + 1 = full + 1
      BY <2>1, <1>1
    <3> QED BY <3>1, <1>8, <1>1
  <2>2. CASE short = 1
    <3>1. N + 1 = full + 2
      BY <2>2, <1>1
    <3>2. Off(full + 1) + m <= Off(full + 1) + PacketLen
      <4>1. Off(full + 1) \in Nat /\ m \in Nat /\ PacketLen \in Nat /\ m <= PacketLen
        BY <1>8, <1>1, <1>5
      <4> QED BY <4>1
    <3> QED BY <3>1, <3>2, <1>8, Zenon
  <2> QED BY <2>1, <2>2, <1>1
<1>10. N > 0 => Off(N) <= L
  <2>1. CASE short = 0 /\ N > 0
    <3>1. N = full /\ full - 1 \in Nat /\ (full - 1) + 1 = full /\ (full - 1) + 2 = full + 1
      BY <2>1, <1>1
    <3>2. Off((full - 1) + 1) \in Nat /\ Off((full - 1) + 2) = Off((full - 1) + 1) + PacketLen
      BY <3>1, OffFacts
    <3> QED BY <3>1, <3>2, <1>8, <1>1, <1>5
  <2>2. CASE short = 1
    <3>1. N = full + 1
      BY <2>2, <1>1
    <3> QED BY <3>1, <1>8, <1>1
  <2> QED BY <2>1, <2>2, <1>1
<1>11. ASSUME NEW i \in 1..N
       PROVE  /\ Len(P[i]) = MinOf(PacketLen, L - Off(i))
              /\ At(P[i], x, r, Off(i))
  <2> DEFINE o == Off(i)
             n == hi(i) - o
  <2>1. /\ i \in Nat /\ i >= 1 /\ i <= full + 1 /\ o \in Nat
        /\ Off(i + 1) = o + PacketLen
    <3>1. i \in Nat /\ i >= 1 /\ i <= full + 1 /\ i - 1 \in Nat
          /\ (i - 1) + 1 = i /\ (i - 1) + 2 = i + 1
      BY <1>1
    <3>2. Off((i - 1) + 1) \in Nat /\ Off((i - 1) + 2) = Off((i - 1) + 1) + PacketLen
      BY <3>1, OffFacts
    <3> QED BY <3>1, <3>2
  <2>2. /\ hi(i) \in Nat /\ hi(i) >= o /\ hi(i) <= L
        /\ n \in Nat /\ n = MinOf(PacketLen, L - o)
    <3>1. CASE i <= full
      <4>1. hi(i) = o + PacketLen
        <5>1. hi(i) = i * PacketLen /\ o = (i - 1) * PacketLen
          BY <3>1 DEF Off
        <5>2. (i - 1) * PacketLen = i * PacketLen - PacketLen
          BY <2>1, <1>5
        <5>3. hi(i) \in Int
          BY <5>1, <2>1, <1>5
        <5> HIDE DEF hi
        <5> QED BY <5>1, <5>2, <5>3, <1>5
      <4>2. Off(full + 1) >= o + PacketLen
        <5>1. CASE i = full
          <6>1. Off(full + 1) = o + PacketLen
            BY <5>1, <2>1
          <6> HIDE DEF o
          <6> QED BY <6>1, <1>5, <2>1
        <5>2. CASE i < full
          <6>1. /\ i - 1 \in Nat /\ full \in Nat /\ i - 1 < full
                /\ (i - 1) + 1 = i
            BY <5>2, <2>1, <1>1
          <6>2. Off(full + 1) >= Off((i - 1) + 1) + PacketLen
            BY <6>1, OffMono
          <6> QED BY <6>1, <6>2
        <5> QED BY <5>1, <5>2, <3>1, <2>1, <1>1
      <4>3. L - o >= PacketLen
        <5>1. Off(full + 1) \in Nat /\ L = Off(full + 1) + m /\ o \in Nat
              /\ L \in Nat /\ m \in Nat
          BY <1>8, <1>1, <2>1
        <5> HIDE DEF o
        <5> QED BY <4>2, <5>1, <1>5
      <4> HIDE DEF hi, o
      <4>4. o \in Nat /\ L \in Nat /\ PacketLen \in Nat
        BY <2>1, <1>1, <1>5
      <4>5. MinOf(PacketLen, L - o) = PacketLen
        BY <4>3, <4>4 DEF MinOf
      <4>6. hi(i) \in Nat /\ hi(i) >= o /\ hi(i) <= L /\ hi(i) - o = PacketLen
        BY <4>1, <4>3, <4>4
      <4> QED BY <4>4, <4>5, <4>6
    <3>2. CASE i = full + 1
      <4>1. hi(i) = L
        BY <3>2, <1>1 DEF L
      <4>2. o = Off(full + 1)
        BY <3>2
      <4>3. Off(full + 1) \in Nat /\ L = Off(full + 1) + m /\ o \in Nat
            /\ L \in Nat /\ m \in 0..PacketLen-1
        BY <1>8, <1>1, <2>1
      <4>4. L - o = m /\ MinOf(PacketLen, m) = m
        <5> HIDE DEF o
        <5> QED BY <4>2, <4>3, <1>5 DEF MinOf
      <4> HIDE DEF hi, o
      <4>5. hi(i) - o = m /\ m \in Nat /\ hi(i) >= o
        BY <4>1, <4>3, <4>4
      <4>6. n = MinOf(PacketLen, L - o)
        BY <4>4, <4>5, Zenon
      <4>7. hi(i) \in Nat /\ hi(i) <= L /\ n \in Nat
        <5>1. L <= L
          BY <4>3
        <5> QED BY <5>1, <4>1, <4>3, <4>5, Zenon
      <4> QED BY <4>5, <4>6, <4>7, Zenon
    <3> QED BY <3>1, <3>2, <2>1, <1>1
  <2>3. P[i] = SubSeq(s, o + 1, o + n)
    <3>1. P[i] = SubSeq(s, o + 1, hi(i))
      BY <1>7 DEF Off
    <3>2. o + n = hi(i)
      <4> HIDE DEF hi, o
      <4> QED BY <2>1, <2>2
    <3> QED BY <3>1, <3>2
  <2> HIDE DEF o, n
  <2>4. o + n <= L
    <3>1. o + n = hi(i)
      <4> HIDE DEF hi
      <4> QED BY <2>1, <2>2 DEF n
    <3> QED BY <3>1, <2>2
  <2>5. Len(P[i]) = n /\ \A j \in 1..n : P[i][j] = s[o + j]
    <3>1. o \in Nat /\ n \in Nat /\ o + n <= Len(s)
      BY <2>1, <2>2, <2>4 DEF L
    <3>2. /\ SubSeq(s, o + 1, o + n) \in Seq(Token)
          /\ Len(SubSeq(s, o + 1, o + n)) = n
          /\ \A j \in 1..n : SubSeq(s, o + 1, o + n)[j] = s[o + j]
      BY <3>1, SubSeqSpan, Zenon
    <3> QED BY <3>2, <2>3, Zenon
  <2>6. ASSUME NEW j \in 1..n
        PROVE  P[i][j] = Tok(x, r, o + j)
    <3>1. o + j \in 1..L /\ o + j <= DataLen(x, r)
      BY <2>1, <2>2, <2>4, <1>1, <1>3
    <3> QED BY <3>1, <2>5 DEF Tok, L
  <2>7. At(P[i], x, r, o)
    BY <2>1, <2>2, <2>4, <2>5, <2>6, <1>1, <1>3, <1>6 DEF At
  <2> QED BY <2>2, <2>5, <2>7 DEF o
<1> DEFINE q == P \o <<r>>
<1> HIDE DEF N, e
<1>12. /\ Len(q) = N + 1 /\ q[N + 1] = r /\ q # <<>>
       /\ \A i \in 1..N : q[i] = P[i]
  <2>1. <<r>> \in Seq(Seq(Token)) /\ P \in Seq(Seq(Token)) /\ Len(<<r>>) = 1 /\ <<r>>[1] = r
    <3>1. P \in Seq(Seq(Token))
      <4>1. \A i \in 1..Len(P) : P[i] \in Seq(Token)
        BY <1>4, ElementOfSeq DEF Packet
      <4>2. P = [i \in 1..Len(P) |-> P[i]] /\ Len(P) \in Nat
        BY <1>4, LenProperties
      <4>3. [i \in 1..Len(P) |-> P[i]] \in Seq(Seq(Token))
        BY <4>1, <4>2
      <4> QED BY <4>2, <4>3
    <3> QED BY <3>1, ReplyFacts
  <2>2. /\ Len(q) = N + 1
        /\ \A i \in 1..N + 1 : q[i] = IF i <= N THEN P[i] ELSE <<r>>[i - N]
        /\ q \in Seq(Seq(Token))
    BY <2>1, <1>7, ConcatProperties
  <2>3. q[N + 1] = r
    <3>1. N + 1 \in 1..N + 1 /\ ~(N + 1 <= N) /\ (N + 1) - N = 1
      BY <1>7
    <3>2. q[N + 1] = <<r>>[(N + 1) - N]
      BY <2>2, <3>1
    <3> QED BY <2>1, <3>1, <3>2
  <2>4. q # <<>>
    BY <2>2, <1>7
  <2> HIDE DEF q
  <2> QED BY <2>2, <2>3, <2>4, <1>7
<1> HIDE DEF q
<1>13. Cut(q, x, r, 0)
  <2>1. /\ Len(q) - 1 = N /\ L - 0 = L
        /\ \A i \in 1..N : Off(i) \in Nat /\ 0 + Off(i) = Off(i) /\ L - 0 - Off(i) = L - Off(i)
    <3>1. ASSUME NEW i \in 1..N PROVE Off(i) \in Nat
      <4>1. i - 1 \in Nat /\ (i - 1) + 1 = i
        BY <1>7
      <4>2. Off((i - 1) + 1) \in Nat
        BY <4>1, OffFacts
      <4> QED BY <4>1, <4>2
    <3> QED BY <3>1, <1>1, <1>7, <1>12
  <2>2. \A i \in 1..Len(q) - 1 : /\ Len(q[i]) = MinOf(PacketLen, L - 0 - Off(i))
                                 /\ At(q[i], x, r, 0 + Off(i))
    BY <2>1, <1>11, <1>12
  <2>3. Len(q) > 1 => Off(Len(q) - 1) <= L - 0
    BY <2>1, <1>10, <1>12, <1>7
  <2>4. q[Len(q)] = r /\ 0 <= L /\ L - 0 <= Off(Len(q))
    BY <2>1, <1>9, <1>12, <1>1
  <2> QED BY <2>2, <2>3, <2>4, <1>3, <1>12 DEF Cut
<1> QED BY <1>13 DEF q, P

\* An answer without a data container.
LEMMA CutSingle ==
    ASSUME NEW x \in Trans, NEW r \in Replies(x), DataLen(x, r) = 0
    PROVE  Cut(<<r>>, x, r, 0)
<1>1. Len(<<r>>) = 1 /\ <<r>>[1] = r /\ <<r>> # <<>> /\ Off(1) = 0
  BY OffFacts
<1> QED BY <1>1 DEF Cut

\* The container of an operation that was requested.
LEMMA ContainerTok ==
    ASSUME ops \in Seq(Ops), NEW id \in Nat, id < Len(ops),
           NEW x, x = [id |-> id, op |-> ops[id + 1]]
    PROVE  /\ x \in Trans
           /\ DataContainer(id) \in Seq(Token)
           /\ Len(DataContainer(id)) = x.op.size + 1
           /\ \A j \in 1..x.op.size + 1 : DataContainer(id)[j] = DataTok(x, j)
<1> DEFINE m == ops[id + 1].size + 1
<1>1. ops[id+1] \in Op
  <2>1. id + 1 \in 1..Len(ops)
    BY LenProperties
  <2> QED BY <2>1, ElementOfSeq, OpsAssumption
<1>2. x \in Trans /\ m \in Nat
  BY <1>1 DEF Trans, Op
<1>3. DataContainer(id) = [j \in 1..m |-> DataTok(x, j)]
  BY DEF DataContainer, DataTok
<1>4. Len(DataContainer(id)) = m /\ \A j \in 1..m : DataContainer(id)[j] = DataTok(x, j)
  <2> HIDE DEF m
  <2> QED BY <1>2, <1>3
<1> QED BY <1>2, <1>4, ContainerTypes

\* What the camera answers is an answer, and it carries the operation out
\* unless it refuses it.
LEMMA ReplyAnswers ==
    ASSUME IndInv, NEW id \in Nat, id < Len(ops), NEW n \in Nat, Reply(id, n),
           NEW x, x = [id |-> id, op |-> ops[id + 1]]
    PROVE  \E r \in Replies(x) :
              /\ Cut(camq', x, r, 0)
              /\ done' = IF r[1].k = "ok" THEN done \cup {[id |-> id, n |-> n]}
                         ELSE done
<1>1. ops \in Seq(Ops)
  BY DEF IndInv, TypeOK
<1>2. /\ x \in Trans
      /\ DataContainer(id) \in Seq(Token)
      /\ Len(DataContainer(id)) = x.op.size + 1
      /\ \A j \in 1..x.op.size + 1 : DataContainer(id)[j] = DataTok(x, j)
  BY <1>1, ContainerTok
<1>3. x.id = id /\ x.op = ops[id + 1]
  OBVIOUS
<1>4. ASSUME NEW kind \in {"ok", "err"}, NEW par \in Nat
      PROVE  Response(kind, id, par)[1].k = kind
  <2> DEFINE e(i) == IF i = 1 THEN [k |-> kind, id |-> id, n |-> par]
                     ELSE [k |-> "par", id |-> id, n |-> i - 1]
  <2>1. Response(kind, id, par) = [i \in 1..par + 1 |-> e(i)]
    BY DEF Response
  <2>2. 1 \in 1..par + 1 /\ e(1).k = kind
    OBVIOUS
  <2> HIDE DEF e
  <2> QED BY <2>1, <2>2
<1>5. x.op.par \in Nat
  BY <1>2, PacketLenAssumption DEF Trans, Op
<1>6. CASE \E zlp \in BOOLEAN :
             /\ camq' = (IF ops[id+1].phase = "get"
                         THEN Packets(DataContainer(id), zlp) ELSE <<>>)
                        \o <<Response("ok", id, ops[id+1].par)>>
             /\ done' = done \cup {[id |-> id, n |-> n]}
  <2> PICK zlp \in BOOLEAN :
             /\ camq' = (IF ops[id+1].phase = "get"
                         THEN Packets(DataContainer(id), zlp) ELSE <<>>)
                        \o <<Response("ok", id, ops[id+1].par)>>
             /\ done' = done \cup {[id |-> id, n |-> n]}
    BY <1>6
  <2> DEFINE r == Response("ok", id, x.op.par)
  <2>1. r \in Replies(x) /\ r[1].k = "ok"
    BY <1>3, <1>4, <1>5 DEF Replies
  <2>2. CASE x.op.phase = "get"
    <3>1. camq' = Packets(DataContainer(id), zlp) \o <<r>>
      BY <2>2, <1>3
    <3>2. Cut(Packets(DataContainer(id), zlp) \o <<r>>, x, r, 0)
      <4> HIDE DEF r
      <4> QED BY <1>2, <2>1, <2>2, CutPackets
    <3> QED BY <2>1, <3>1, <3>2
  <2>3. CASE x.op.phase # "get"
    <3>1. camq' = <<>> \o <<r>>
      BY <2>3, <1>3
    <3>2. DataLen(x, r) = 0
      BY <2>3 DEF DataLen
    <3> HIDE DEF r
    <3>3. <<>> \o <<r>> = <<r>>
      OBVIOUS
    <3>4. Cut(<<r>>, x, r, 0)
      BY <1>2, <2>1, <3>2, CutSingle
    <3> QED BY <2>1, <3>1, <3>3, <3>4
  <2> QED BY <2>2, <2>3
<1>7. CASE /\ \E par \in {0, ops[id+1].par} : camq' = <<Response("err", id, par)>>
           /\ done' = done
  <2> PICK par \in {0, ops[id+1].par} : camq' = <<Response("err", id, par)>>
    BY <1>7
  <2> DEFINE r == Response("err", id, par)
  <2>1. r \in Replies(x) /\ r[1].k = "err"
    BY <1>3, <1>4, <1>5 DEF Replies
  <2>2. DataLen(x, r) = 0
    BY <2>1 DEF DataLen
  <2>3. camq' = <<r>> /\ done' = done
    BY <1>7
  <2> HIDE DEF r
  <2> QED BY <1>2, <2>1, <2>2, <2>3, CutSingle
<1> QED BY <1>6, <1>7 DEF Reply

-----------------------------------------------------------------------------
(***************************************************************************)
(* What the steps of a read have in common.                                *)
(***************************************************************************)
\* Taking from the packet buffer what comes next in the answer.
LEMMA TakePart ==
    ASSUME NEW x, NEW r, DataLen(x, r) \in Nat, Len(r) \in Nat,
           NEW b \in Buffer, b.pos + Len(b.data) <= PacketLen,
           b.data = <<>> => b.pos = 0, NEW n \in Nat,
           NEW d \in Seq(Token), NEW o \in Nat,
           At(d, x, r, o), At(b.data, x, r, o + Len(d))
    PROVE  /\ TakeLen(b, n) \in Nat /\ TakeLen(b, n) <= n
           /\ TakeLen(b, n) <= Len(b.data) /\ Len(b.data) \in Nat
           /\ TakeLen(b, n) < n => TakeLen(b, n) = Len(b.data)
           /\ d \o Taken(b, n) \in Seq(Token)
           /\ Len(d \o Taken(b, n)) = Len(d) + TakeLen(b, n)
           /\ At(d \o Taken(b, n), x, r, o)
           /\ Len(AfterTake(b, n).data) = Len(b.data) - TakeLen(b, n)
           /\ At(AfterTake(b, n).data, x, r, o + Len(d \o Taken(b, n)))
<1> DEFINE k == TakeLen(b, n)
           s == b.data
           t == Taken(b, n)
           a == AfterTake(b, n)
<1>1. /\ k = IF Len(s) > n THEN n ELSE Len(s)
      /\ t \in Seq(Token) /\ Len(t) = k
      /\ a \in Buffer
  BY TakeLemma
<1>2. s \in Seq(Token) /\ Len(s) \in Nat /\ Len(d) \in Nat
  BY LenProperties DEF Buffer
<1> HIDE DEF k, s, t, a
<1>3. /\ k \in Nat /\ k <= n /\ k <= Len(s)
      /\ k < n => k = Len(s)
      /\ k \in 0..Len(s)
  BY <1>1, <1>2
<1>4. t = SubSeq(s, 1, k)
  BY DEF Taken, t, s, k
<1>5. At(s, x, r, o + Len(d)) /\ o + Len(d) \in Nat
  BY <1>2 DEF s
<1>6. At(t, x, r, o + Len(d)) /\ At(SubSeq(s, k + 1, Len(s)), x, r, (o + Len(d)) + k)
  BY <1>2, <1>3, <1>4, <1>5, AtPart
<1>7. At(d \o t, x, r, o) /\ Len(d \o t) = Len(d) + k
  <2>1. \A u \in Seq(Token) : At(u, x, r, o + Len(d)) =>
           At(d \o u, x, r, o) /\ Len(d \o u) = Len(d) + Len(u)
    BY AtJoin
  <2> QED BY <2>1, <1>1, <1>6
<1>8. d \o t \in Seq(Token)
  BY <1>1, ConcatProperties
<1>9. /\ Len(SubSeq(s, k + 1, Len(s))) = Len(s) - k
  <2>1. \A i \in (k + 1)..Len(s) : s[i] \in Token
    BY <1>2, <1>3, ElementOfSeq
  <2>2. Len(SubSeq(s, k + 1, Len(s))) =
          IF k + 1 <= Len(s) THEN Len(s) - (k + 1) + 1 ELSE 0
    BY <1>2, <1>3, <2>1, SubSeqProperties
  <2> QED BY <2>2, <1>2, <1>3
<1>10. At(<<>>, x, r, o + Len(d) + Len(s)) /\ Len(<<>>) = 0
  <2>1. (o + Len(d)) + Len(s) <= DataLen(x, r) + Len(r)
    BY <1>5 DEF At
  <2> QED BY <2>1, <1>2 DEF At
<1>11. Len(a.data) = Len(s) - k /\ At(a.data, x, r, o + Len(d \o t))
  <2>1. CASE s = <<>>
    <3>1. a.data = <<>> /\ Len(s) = 0 /\ k = 0
      BY <2>1, <1>2, <1>3 DEF AfterTake, a, s
    <3>2. o + Len(d \o t) = o + Len(d) + Len(s)
      BY <3>1, <1>7, <1>2
    <3> QED BY <3>1, <3>2, <1>10
  <2>2. CASE s # <<>> /\ k = Len(s)
    <3>1. a.data = <<>>
      BY <2>2 DEF AfterTake, a, s, k, Empty
    <3>2. o + Len(d \o t) = o + Len(d) + Len(s) /\ Len(s) - k = 0
      BY <2>2, <1>7, <1>2
    <3> QED BY <3>1, <3>2, <1>10
  <2>3. CASE s # <<>> /\ k # Len(s)
    <3>1. a.data = SubSeq(s, k + 1, Len(s))
      BY <2>3 DEF AfterTake, a, s, k
    <3>2. o + Len(d \o t) = (o + Len(d)) + k
      BY <1>7, <1>2, <1>3
    <3> QED BY <3>1, <3>2, <1>6, <1>9
  <2> QED BY <2>1, <2>2, <2>3
<1> QED BY <1>2, <1>3, <1>7, <1>8, <1>11 DEF k, s, t, a

\* What a host that has d of the answer from offset o on takes from the buffer b.
Took(x, r, b, n, d, o) ==
    /\ TakeLen(b, n) \in Nat /\ TakeLen(b, n) <= n
    /\ TakeLen(b, n) <= Len(b.data) /\ Len(b.data) \in Nat
    /\ TakeLen(b, n) < n => TakeLen(b, n) = Len(b.data)
    /\ d \o Taken(b, n) \in Seq(Token)
    /\ Len(d \o Taken(b, n)) = Len(d) + TakeLen(b, n)
    /\ At(d \o Taken(b, n), x, r, o)
    /\ Len(AfterTake(b, n).data) = Len(b.data) - TakeLen(b, n)
    /\ At(AfterTake(b, n).data, x, r, o + Len(d \o Taken(b, n)))

\* TakePart, as one fact.
LEMMA TakeSome ==
    ASSUME NEW x, NEW r, DataLen(x, r) \in Nat, Len(r) \in Nat,
           NEW b \in Buffer, b.pos + Len(b.data) <= PacketLen,
           b.data = <<>> => b.pos = 0, NEW n \in Nat,
           NEW d \in Seq(Token), NEW o \in Nat,
           At(d, x, r, o), At(b.data, x, r, o + Len(d))
    PROVE  Took(x, r, b, n, d, o)
BY TakePart DEF Took

\* The facts of an exchange that is in progress.
LEMMA TransFacts ==
    ASSUME IndInv, CurInv, pc # "idle"
    PROVE  /\ cur \in Trans /\ cur.id \in Nat /\ cur.op \in Op
           /\ cur = [id |-> cur.id, op |-> ops[cur.id + 1]]
           /\ ops \in Seq(Ops) /\ cur.id < Len(ops) /\ Len(ops) = cur.id + 1
           /\ cur.op.size \in Nat /\ cur.op.block \in Nat
           /\ cur.op.phase \in {"none", "send", "get"}
           /\ rd \in ReadType /\ buf \in Buffer /\ rd.dst \in Seq(Token)
           /\ buf.data \in Seq(Token) /\ Len(buf.data) \in Nat
           /\ Len(rd.dst) \in Nat /\ rd.size \in Nat /\ rd.min \in Nat
           /\ rd.bulk \in Nat /\ left \in Nat /\ got \in Seq(Token)
           /\ Len(got) \in Nat /\ buf.pos + Len(buf.data) <= PacketLen
           /\ buf.data = <<>> => buf.pos = 0
           /\ inp \in Seq(Packet) /\ camq \in Seq(Packet)
<1>1. TypeOK /\ BufferInBounds /\ IdsInv
  BY DEF IndInv
<1>2. cur.op \in Op /\ cur.id \in Nat /\ cur = [id |-> cur.id, op |-> cur.op]
  BY <1>1, OpType DEF TypeOK
<1>3. cur \in Trans
  BY <1>2 DEF Trans
<1>4. /\ cur.op.size \in Nat /\ cur.op.block \in Nat
      /\ cur.op.phase \in {"none", "send", "get"}
  BY <1>2 DEF Op
<1>5. /\ ops[cur.id + 1] = cur.op /\ Len(ops) = cur.id + 1
  BY DEF CurInv
<1>6. /\ rd \in ReadType /\ buf \in Buffer /\ rd.dst \in Seq(Token)
      /\ buf.data \in Seq(Token) /\ rd.size \in Nat /\ rd.min \in Nat
      /\ rd.bulk \in Nat /\ left \in Nat /\ got \in Seq(Token)
      /\ inp \in Seq(Packet) /\ camq \in Seq(Packet) /\ ops \in Seq(Ops)
  BY <1>1 DEF TypeOK, ReadType, Buffer
<1>7. Len(buf.data) \in Nat /\ Len(rd.dst) \in Nat /\ Len(got) \in Nat
  BY <1>6, LenProperties
<1> QED BY <1>1, <1>2, <1>3, <1>4, <1>5, <1>6, <1>7 DEF IdsInv, BufferInBounds

\* The place of the host in an answer.
LEMMA PlaceFacts ==
    ASSUME IndInv, CurInv, pc # "idle", NEW r \in Replies(cur), StageFits(r)
    PROVE  Start(r) \in Nat /\ Place(r) \in Nat
<1>1. /\ DataLen(cur, r) \in Nat /\ Len(rd.dst) \in Nat /\ left \in Nat
  BY TransFacts, ReplyFacts
<1>2. Unread \in Nat
  BY <1>1 DEF Unread
<1>3. Start(r) \in Int
  BY <1>1, <1>2 DEF Start, Base
<1>4. rd.stage = "data" => Start(r) >= 1
  BY DEF StageFits
<1>5. Start(r) \in Nat
  <2>1. CASE rd.stage = "data"
    BY <2>1, <1>3, <1>4
  <2>2. CASE rd.stage # "data"
    BY <2>2, <1>1 DEF Start, Base
  <2> QED BY <2>1, <2>2
<1> QED BY <1>1, <1>5 DEF Place

\* A step of the host that neither starts nor ends a transaction.
LEMMA CurKept ==
    ASSUME IndInv, CurInv, pc # "idle", UNCHANGED <<cur, ops, done>>,
           result' = result \/ result'.id = cur.id
    PROVE  CurInv'
<1>1. cur.id < Len(ops)
  BY DEF IndInv, IdsInv
<1> QED BY <1>1 DEF CurInv

\* A step of the host on an answer, in the middle of it.
LEMMA ReadStep ==
    ASSUME IndInv, StepInv, ~faulted, Answering, pc # "idle",
           NEW r \in Replies(cur), Carried(r),
           UNCHANGED <<cur, ops, outq, cam, camq, done, result, faulted>>,
           Reading' \/ (pc' = "handler" /\ rd'.stage = "data"),
           ReadFits', StageFits(r)', Holds(r)'
    PROVE  StepInv'
<1>1. CurInv'
  BY CurKept DEF StepInv
<1>2. OwnResult'
  BY DEF StepInv, OwnResult, Payload, DataContainer
<1>3. Carried(r)' /\ r \in Replies(cur')
  BY DEF Carried, DoneIds
<1>4. outq' = <<>> /\ cam'.st = IF camq' = <<>> THEN "ready" ELSE "reply"
  BY DEF Answering
<1>5. Answering'
  BY <1>3, <1>4 DEF Answering
<1> QED BY <1>1, <1>2, <1>5 DEF StepInv, LockStep

\* When the host has read the response, nothing is left of the answer.
LEMMA AllRead ==
    ASSUME IndInv, CurInv, pc # "idle", NEW r \in Replies(cur),
           StageFits(r), Holds(r), Place(r) = DataLen(cur, r) + Len(r)
    PROVE  buf = Empty /\ inp = <<>> /\ camq = <<>>
<1>1. /\ Len(r) \in Nat /\ Len(r) >= 1 /\ DataLen(cur, r) \in Nat
      /\ Len(buf.data) \in Nat
      /\ inp \in Seq(Packet) /\ camq \in Seq(Packet)
  BY TransFacts, ReplyFacts
<1>2. Cut(inp \o camq, cur, r, Place(r) + Len(buf.data))
  BY DEF Holds
<1>3. inp \o camq = <<>> /\ Len(buf.data) = 0
  <2>1. ~(Place(r) + Len(buf.data) <= DataLen(cur, r))
    BY <1>1
  <2>2. inp \o camq = <<>> /\ Place(r) + Len(buf.data) = DataLen(cur, r) + Len(r)
    BY <1>2, <2>1 DEF Cut
  <2> QED BY <2>2, <1>1
<1>4. buf = Empty
  <2>1. buf.data = <<>> /\ buf.pos = 0 /\ buf = [pos |-> buf.pos, data |-> buf.data]
    BY <1>3, TransFacts, EmptySeq DEF Buffer
  <2> QED BY <2>1 DEF Empty
<1>5. inp = <<>> /\ camq = <<>>
  <2>1. Len(inp) + Len(camq) = Len(inp \o camq) /\ Len(inp) \in Nat /\ Len(camq) \in Nat
    BY <1>1, ConcatProperties, LenProperties
  <2>2. Len(inp \o camq) = 0
    BY <1>3
  <2>3. Len(inp) = 0 /\ Len(camq) = 0
    BY <2>1, <2>2
  <2> QED BY <2>3, <1>1, EmptySeq
<1> QED BY <1>4, <1>5

\* The data phase of an operation that was carried out, whole.
LEMMA WholePayload ==
    ASSUME ops \in Seq(Ops), NEW id \in Nat, id < Len(ops),
           NEW x, x = [id |-> id, op |-> ops[id + 1]], x.op.phase = "get",
           NEW r \in Replies(x), r[1].k = "ok",
           NEW s \in Seq(Token), Len(s) = x.op.size,
           s # <<>> => At(s, x, r, 1)
    PROVE  s = Payload(id)
<1> DEFINE c == DataContainer(id)
<1>1. /\ c \in Seq(Token) /\ Len(c) = x.op.size + 1 /\ x.op.size \in Nat
      /\ \A j \in 1..x.op.size + 1 : c[j] = DataTok(x, j)
  BY ContainerTok DEF Trans, Op
<1> HIDE DEF c
<1>2. /\ Tail(c) \in Seq(Token) /\ Len(Tail(c)) = x.op.size
      /\ \A j \in 1..x.op.size : Tail(c)[j] = c[j + 1]
  <2>1. c # <<>>
    BY <1>1
  <2>2. /\ Tail(c) \in Seq(Token) /\ Len(Tail(c)) = Len(c) - 1
        /\ \A j \in 1..Len(Tail(c)) : Tail(c)[j] = c[j + 1]
    BY <2>1, <1>1, HeadTailProperties
  <2>3. Len(Tail(c)) = x.op.size
    BY <2>2, <1>1
  <2> QED BY <2>2, <2>3
<1>3. ASSUME NEW j \in 1..Len(s)
      PROVE  s[j] = Tail(c)[j]
  <2>1. s # <<>>
    BY <1>1, <1>3
  <2>2. s[j] = Tok(x, r, 1 + j)
    BY <2>1, <1>3 DEF At
  <2>3. 1 + j <= DataLen(x, r) /\ 1 + j = j + 1 /\ j + 1 \in 1..x.op.size + 1
    BY <1>1, <1>3 DEF DataLen
  <2> QED BY <2>2, <2>3, <1>1, <1>2 DEF Tok
<1>4. s = Tail(c)
  BY <1>1, <1>2, <1>3, SeqEqual
<1> QED BY <1>4 DEF Payload, c

\* The host returns with the answer read to its end.
LEMMA FinishStep ==
    ASSUME IndInv, StepInv, ~faulted, Answering, pc # "idle",
           NEW r \in Replies(cur), StageFits(r), Holds(r), Carried(r),
           Place(r) = DataLen(cur, r) + Len(r),
           UNCHANGED <<cur, ops, buf, fill, got, outq, inp, cam, camq, done>>,
           pc' = "idle", NEW rc, NEW from,
           result' = [id |-> cur.id, rc |-> rc, from |-> from, data |-> got],
           rc = "ok" => /\ r[1].k = "ok" /\ from = cur.id
                        /\ rd.stage \in {"resphdr", "resppar"}
    PROVE  StepInv'
<1>1. CurInv'
  BY CurKept DEF StepInv
<1>2. Quiet'
  <2>1. buf = Empty /\ inp = <<>> /\ camq = <<>>
    BY AllRead DEF StepInv
  <2>2. fill = <<>> /\ outq = <<>> /\ cam.st = "ready"
    BY <2>1 DEF Answering, ReadFits
  <2> QED BY <2>1, <2>2 DEF Quiet
<1>3. ASSUME rc = "ok"
      PROVE  /\ from = cur.id /\ CarriedOut(cur) \in done
             /\ got = IF cur.op.phase = "get" THEN Payload(cur.id) ELSE <<>>
  <2>1. r[1].k = "ok" /\ from = cur.id /\ rd.stage \in {"resphdr", "resppar"}
    BY <1>3
  <2>2. CarriedOut(cur) \in done
    BY <2>1 DEF Carried
  <2>3. Len(got) = IF cur.op.phase = "get" THEN cur.op.size ELSE 0
    BY <2>1 DEF StageFits
  <2>4. got # <<>> => At(got, cur, r, 1)
    BY DEF Holds
  <2>5. /\ ops \in Seq(Ops) /\ cur.id \in Nat /\ cur.id < Len(ops)
        /\ cur = [id |-> cur.id, op |-> ops[cur.id + 1]] /\ got \in Seq(Token)
    BY TransFacts DEF StepInv
  <2>6. CASE cur.op.phase = "get"
    <3>1. got = Payload(cur.id)
      BY <2>1, <2>3, <2>4, <2>5, <2>6, WholePayload
    <3> QED BY <2>1, <2>2, <2>6, <3>1
  <2>7. CASE cur.op.phase # "get"
    <3>1. Len(got) = 0
      BY <2>3, <2>7
    <3>2. got = <<>>
      BY <3>1, <2>5, EmptySeq
    <3> QED BY <2>1, <2>2, <2>7, <3>2
  <2> QED BY <2>6, <2>7
<1>4. OwnResult'
  <2>1. SUFFICES ASSUME rc = "ok"
        PROVE  /\ from = cur.id
               /\ [id |-> cur.id, n |-> IF ops[cur.id+1].phase = "send"
                                        THEN ops[cur.id+1].size + 1 ELSE 0] \in done
               /\ got = IF ops[cur.id+1].phase = "get" THEN Payload(cur.id) ELSE <<>>
    BY DEF OwnResult, Payload, DataContainer
  <2>2. ops[cur.id + 1] = cur.op
    BY DEF StepInv, CurInv
  <2> QED BY <2>1, <2>2, <1>3 DEF CarriedOut
<1> QED BY <1>1, <1>2, <1>4 DEF StepInv, LockStep

-----------------------------------------------------------------------------
(***************************************************************************)
(* The steps of a read.                                                    *)
(***************************************************************************)
\* A read begins with what the packet buffer has.
LEMMA TakeAnswering ==
    ASSUME IndInv, StepInv, ~faulted, Answering, Take
    PROVE  StepInv'
<1> PICK r \in Replies(cur) : StageFits(r) /\ Holds(r) /\ Carried(r)
  BY DEF Answering
<1> DEFINE D == NewDst(rd.size)
           k == TakeLen(buf, rd.size)
           S == Start(r)
           L == DataLen(cur, r)
           toread == rd.size - Len(D)
           rest == IF rd.stage = "data" THEN toread % PacketLen ELSE toread
           bulk == IF rd.stage = "data" THEN rd.size - rest ELSE 0
<1>1. /\ pc = "take" /\ CurInv /\ rd.dst = <<>>
      /\ rd.stage \in {"datahdr", "resphdr"} => rd.size = 1
      /\ rd.stage \in Stages
  BY DEF Take, StepInv, IndInv, ReadInv, Reading, TypeOK
<1>2. /\ cur \in Trans /\ rd \in ReadType /\ buf \in Buffer /\ buf.data \in Seq(Token)
      /\ Len(buf.data) \in Nat /\ rd.size \in Nat
      /\ buf.pos + Len(buf.data) <= PacketLen
      /\ buf.data = <<>> => buf.pos = 0
      /\ left \in Nat
  BY <1>1, TransFacts
<1>3. L \in Nat /\ Len(r) \in Nat /\ Len(r) >= 1
  BY <1>2, ReplyFacts
<1>4. S \in Nat /\ Place(r) = S /\ Len(<<>>) = 0
  <2>1. Start(r) \in Nat
    BY <1>1, PlaceFacts
  <2>2. Len(rd.dst) = 0
    BY <1>1
  <2> QED BY <2>1, <2>2 DEF Place
<1>5. /\ buf' = AfterTake(buf, rd.size)
      /\ rd' = [rd EXCEPT !.dst = D, !.min = rest, !.bulk = bulk]
      /\ fill' = <<>>
      /\ pc' = IF toread = 0 THEN "return"
               ELSE IF Len(D) < bulk THEN "bulk" ELSE "fill"
      /\ UNCHANGED <<cur, ops, got, left, result, faulted, outq, inp, camVars>>
  BY DEF Take
<1>6. D = <<>> \o Taken(buf, rd.size)
  BY <1>1 DEF NewDst
<1>7. At(<<>>, cur, r, S) /\ At(buf.data, cur, r, S + Len(<<>>))
  <2>1. S + Len(<<>>) = S
    BY <1>4
  <2> QED BY <1>1, <1>4, <2>1 DEF Holds
<1>8. /\ k \in Nat /\ k <= rd.size /\ k <= Len(buf.data)
      /\ k < rd.size => k = Len(buf.data)
      /\ D \in Seq(Token) /\ Len(D) = k /\ At(D, cur, r, S)
      /\ Len(buf'.data) = Len(buf.data) - k
      /\ At(buf'.data, cur, r, S + k)
  <2> DEFINE e == <<>>
  <2>1. /\ e \in Seq(Token) /\ Len(e) = 0 /\ D = e \o Taken(buf, rd.size)
        /\ At(e, cur, r, S) /\ At(buf.data, cur, r, S + Len(e))
    BY <1>6, <1>7, EmptySeq
  <2>2. /\ DataLen(cur, r) \in Nat /\ Len(r) \in Nat
    BY <1>3
  <2>4. S \in Nat
    BY <1>4
  <2> HIDE DEF S, L, D, e
  <2>3. /\ buf \in Buffer /\ buf.pos + Len(buf.data) <= PacketLen
        /\ buf.data = <<>> => buf.pos = 0
        /\ rd.size \in Nat
    BY <1>2
  <2>7. Took(cur, r, buf, rd.size, e, S)
    <3>1. e \in Seq(Token) /\ At(e, cur, r, S) /\ At(buf.data, cur, r, S + Len(e))
      BY <2>1
    <3> QED BY <2>2, <2>3, <2>4, <3>1, TakeSome
  <2>5. /\ k \in Nat /\ k <= rd.size /\ k <= Len(buf.data)
        /\ k < rd.size => k = Len(buf.data)
        /\ D \in Seq(Token) /\ Len(D) = Len(e) + k /\ At(D, cur, r, S)
        /\ Len(AfterTake(buf, rd.size).data) = Len(buf.data) - k
        /\ At(AfterTake(buf, rd.size).data, cur, r, S + Len(D))
    BY <2>1, <2>7, Zenon DEF Took, k
  <2>6. Len(D) = k
    BY <2>1, <2>5
  <2> QED BY <2>5, <2>6, <1>5
<1> HIDE DEF D, k
<1>9. /\ rd'.stage = rd.stage /\ rd'.size = rd.size /\ rd'.hdr = rd.hdr
      /\ rd'.dst = D /\ rd'.min = rest /\ rd'.bulk = bulk
      /\ pc' \in {"return", "bulk", "fill"}
  BY <1>2, <1>5 DEF ReadType
<1>10. Start(r)' = S /\ Place(r)' = S + k
  <2>1. Start(r)' = S
    BY <1>1, <1>5, <1>9 DEF Start, Unread
  <2> QED BY <2>1, <1>8, <1>9 DEF Place
<1>11. Holds(r)'
  <2>1. (S + k) + Len(buf'.data) = S + Len(buf.data)
    BY <1>2, <1>4, <1>8
  <2>2. Cut(inp' \o camq', cur', r, (S + k) + Len(buf'.data))
    BY <2>1, <1>4, <1>5 DEF Holds, camVars
  <2>3. inp' \o camq' = <<>> => S + k >= DataLen(cur', r)
    <3>1. inp' \o camq' = <<>> => S >= L
      BY <1>4, <1>5 DEF Holds, camVars
    <3> HIDE DEF S
    <3>2. DataLen(cur', r) = L
      BY <1>5
    <3> HIDE DEF L
    <3> QED BY <3>1, <3>2, <1>3, <1>4, <1>8
  <2>4. got' # <<>> => At(got', cur', r, 1)
    BY <1>5 DEF Holds
  <2> QED BY <2>2, <2>3, <2>4, <1>5, <1>8, <1>9, <1>10 DEF Holds
<1>12. StageFits(r)'
  BY <1>1, <1>5, <1>9, <1>10 DEF StageFits
<1>13. ReadFits'
  <2>1. toread \in Nat /\ toread = rd.size - k
    BY <1>2, <1>8
  <2> HIDE DEF toread
  <2>2. rest \in Nat /\ (rd.stage = "data" => rest = toread % PacketLen /\ rest <= toread)
    <3>1. /\ toread % PacketLen \in 0..PacketLen-1
          /\ toread - (toread % PacketLen) \in Nat
      BY <2>1, DivMod, WholePackets
    <3> QED BY <3>1, <2>1, PacketLenAssumption
  <2>3. ASSUME pc' = "bulk"
        PROVE  rd.stage = "data" /\ (bulk - Len(D)) % PacketLen = 0
    <3>1. rd.stage = "data"
      BY <2>3, <1>5, <1>8
    <3>2. bulk - Len(D) = toread - (toread % PacketLen)
      <4>1. bulk = rd.size - rest /\ rest = toread % PacketLen
        BY <3>1
      <4> HIDE DEF rest, bulk
      <4> QED BY <4>1, <2>1, <2>2, <1>2, <1>8
    <3> QED BY <3>1, <3>2, <2>1, WholePackets
  <2>4. ASSUME pc' = "fill"
        PROVE  /\ rd.stage \in {"datahdr", "data", "resphdr"}
               /\ rd.stage # "data" => rest = 1
    <3>1. toread # 0
      BY <2>4, <1>5
    <3>2. k < rd.size /\ k = Len(buf.data)
      BY <3>1, <2>1, <1>2, <1>8
    <3>3. rd.stage \in {"datahdr", "resphdr"} => rest = 1
      <4>1. SUFFICES ASSUME rd.size = 1, rd.stage # "data" PROVE rest = 1
        BY <1>1
      <4>2. toread = 1
        BY <4>1, <3>1, <2>1, <1>8
      <4> QED BY <4>1, <4>2
    <3>4. ASSUME rd.stage \in {"stray", "resppar"}
          PROVE  FALSE
      <4>1. S \in Nat /\ L \in Nat /\ Len(r) \in Nat /\ Len(buf.data) \in Nat
        BY <1>2, <1>3, <1>4
      <4>2. S = L + 1 /\ rd.size + 1 = Len(r)
        BY <3>4 DEF StageFits, Start, Base
      <4>3. Cut(inp \o camq, cur, r, S + Len(buf.data))
        BY <1>4 DEF Holds
      <4>4. \/ S + Len(buf.data) = L + Len(r)
            \/ S + Len(buf.data) <= L
        BY <4>3 DEF Cut
      <4> HIDE DEF S, L
      <4>5. Len(buf.data) = rd.size
        <5>1. \A a, b, c, d, e \in Nat :
                 (a = b + 1 /\ e + 1 = d /\ (a + c = b + d \/ a + c <= b)) => c = e
          OBVIOUS
        <5>2. rd.size \in Nat
          BY <1>2
        <5> QED BY <4>1, <4>2, <4>4, <5>1, <5>2, Zenon
      <4> QED BY <4>5, <3>2, <1>2
    <3>5. rd.stage # "none"
      BY DEF StageFits
    <3> QED BY <3>3, <3>4, <3>5, <1>1 DEF Stages
  <2> QED BY <2>3, <2>4, <1>5, <1>9 DEF ReadFits
<1>14. Reading'
  BY <1>9 DEF Reading
<1>15. UNCHANGED <<cur, ops, outq, cam, camq, done, result, faulted>>
  BY <1>5 DEF camVars
<1> HIDE DEF S, L, toread, rest, bulk
<1> QED BY <1>1, <1>11, <1>12, <1>13, <1>14, <1>15, ReadStep

\* What the packet buffer has is taken first.
LEMMA TakeStep ==
    ASSUME IndInv, StepInv, Take
    PROVE  StepInv'
<1>1. /\ pc = "take" /\ faulted' = faulted
      /\ UNCHANGED <<cur, ops, got, left, result, faulted, outq, inp, cam, camq, done>>
  BY DEF Take, camVars
<1>2. CurInv'
  BY <1>1, CurKept DEF StepInv
<1>3. CASE faulted
  BY <1>1, <1>2, <1>3 DEF StepInv
<1>4. CASE ~faulted /\ Asking
  <2>1. /\ buf = Empty /\ rd.dst = <<>> /\ rd.size = 1 /\ rd.stage # "data"
    BY <1>1, <1>4 DEF Asking, HostAsks, Unanswered
  <2>2. rd \in ReadType
    BY <1>1, TransFacts DEF StepInv
  <2>3. /\ NewDst(rd.size) = <<>> /\ AfterTake(buf, rd.size) = Empty
        /\ Len(<<>>) = 0 /\ rd.size - 0 = 1
    <3>1. Empty.data = <<>> /\ TakeLen(Empty, 1) = 0
      BY DEF Empty, TakeLen
    <3>2. SubSeq(<<>>, 1, 0) = <<>>
      BY SubSeqEmpty
    <3>3. Taken(Empty, 1) = <<>>
      BY <3>1, <3>2 DEF Taken
    <3>4. AfterTake(Empty, 1) = Empty
      BY <3>1 DEF AfterTake
    <3> QED BY <2>1, <3>3, <3>4 DEF NewDst
  <2>4. /\ buf' = Empty /\ fill' = <<>> /\ pc' = "fill"
        /\ rd' = [rd EXCEPT !.dst = <<>>, !.min = 1, !.bulk = 0]
    <3> DEFINE e == <<>>
    <3>1. NewDst(rd.size) = e /\ rd.size - Len(e) = 1 /\ ~(Len(e) < 0)
      BY <2>1, <2>3
    <3> HIDE DEF e
    <3>3. /\ buf' = AfterTake(buf, rd.size) /\ fill' = <<>>
          /\ rd' = [rd EXCEPT !.dst = NewDst(rd.size),
                             !.min = rd.size - Len(NewDst(rd.size)), !.bulk = 0]
          /\ pc' = IF rd.size - Len(NewDst(rd.size)) = 0 THEN "return"
                   ELSE IF Len(NewDst(rd.size)) < 0 THEN "bulk" ELSE "fill"
      BY <2>1, Zenon DEF Take
    <3>4. rd' = [rd EXCEPT !.dst = e, !.min = 1, !.bulk = 0]
      BY <3>1, <3>3
    <3>5. pc' = "fill"
      BY <3>1, <3>3
    <3>6. buf' = Empty /\ fill' = <<>>
      BY <2>3, <3>3
    <3> QED BY <3>4, <3>5, <3>6 DEF e
  <2>5. /\ rd'.dst = <<>> /\ rd'.size = 1 /\ rd'.min = 1 /\ rd'.stage = rd.stage
    BY <2>1, <2>2, <2>4 DEF ReadType
  <2>6. HostAsks'
    BY <1>1, <1>4, <2>4, <2>5 DEF Asking, HostAsks
  <2>7. Unanswered'
    BY <1>1, <1>4, <2>4 DEF Asking, Unanswered, DoneIds
  <2>8. CamHears'
    <3>1. ASSUME NEW q, NEW n
          PROVE  Sent(q, n, cur, pc) <=> Sent(q, n, cur', pc')
      BY <1>1, <2>4 DEF Sent, DataWritten
    <3> QED BY <1>1, <1>4, <3>1 DEF Asking, CamHears
  <2>9. OwnResult'
    BY <1>1, <1>4 DEF StepInv, OwnResult, Payload, DataContainer
  <2> QED BY <1>2, <2>6, <2>7, <2>8, <2>9 DEF StepInv, LockStep, Asking
<1>5. CASE ~faulted /\ Answering
  BY <1>5, TakeAnswering
<1> QED BY <1>1, <1>3, <1>4, <1>5 DEF StepInv, LockStep

\* A step in the middle of an exchange that fails, or after a failure.
LEMMA FaultStep ==
    ASSUME IndInv, StepInv, pc # "idle", UNCHANGED <<cur, ops, done>>,
           result' = result \/ result'.id = cur.id, faulted'
    PROVE  StepInv'
<1>1. CurInv'
  BY CurKept DEF StepInv
<1> QED BY <1>1 DEF StepInv

\* The next packet in the in pipe is the next of the answer.
LEMMA PipeRead ==
    ASSUME IndInv, CurInv, pc # "idle", NEW r \in Replies(cur),
           StageFits(r), Holds(r), buf = Empty,
           NEW room, NEW i \in {1, 2}, ReadOk(room, i), UNCHANGED camq
    PROVE  /\ inp[i] \in Seq(Token) /\ Len(inp[i]) \in Nat /\ Len(inp[i]) >= 1
           /\ At(inp[i], cur, r, Place(r))
           /\ Cut(inp' \o camq', cur, r, Place(r) + Len(inp[i]))
           /\ \/ /\ Place(r) < DataLen(cur, r) /\ inp' \o camq' # <<>>
                 /\ Len(inp[i]) = MinOf(PacketLen, DataLen(cur, r) - Place(r))
              \/ /\ Place(r) = DataLen(cur, r) /\ inp[i] = r
                 /\ inp' \o camq' = <<>>
<1> DEFINE q == inp \o camq
           P == Place(r)
<1>1. /\ inp \in Seq(Packet) /\ camq \in Seq(Packet) /\ cur \in Trans
      /\ Len(buf.data) = 0 /\ P \in Nat
  <2>1. buf.data = <<>>
    BY DEF Empty
  <2>2. Len(buf.data) = 0
    BY <2>1
  <2> QED BY <2>2, TransFacts, PlaceFacts
<1>2. /\ i <= Len(inp) /\ inp' = SubSeq(inp, i + 1, Len(inp))
      /\ i = 1 => inp[1] # <<>>
      /\ i = 2 => inp[1] = <<>>
  BY DEF ReadOk
<1>3. Len(inp) \in Nat /\ i \in 1..Len(inp) /\ 1 \in 1..i
  BY <1>1, <1>2, LenProperties
<1>4. /\ q \in Seq(Packet) /\ i <= Len(q)
      /\ \A j \in 1..i : q[j] = inp[j]
      /\ inp' \o camq' = SubSeq(q, i + 1, Len(q))
  <2>1. /\ inp \o camq \in Seq(Packet) /\ i <= Len(inp \o camq)
        /\ \A j \in 1..i : (inp \o camq)[j] = inp[j]
        /\ SubSeq(inp, i + 1, Len(inp)) \o camq
             = SubSeq(inp \o camq, i + 1, Len(inp \o camq))
    BY <1>1, <1>3, PipeFront, Zenon
  <2> QED BY <1>2, <2>1, Zenon DEF q
<1>5. q[i] = inp[i] /\ q[1] = inp[1]
  BY <1>3, <1>4
<1>6. Cut(q, cur, r, P)
  <2>1. P + Len(buf.data) = P
    BY <1>1
  <2> QED BY <2>1 DEF Holds
<1> HIDE DEF q, P
<1>7. /\ At(q[i], cur, r, P)
      /\ Cut(SubSeq(q, i + 1, Len(q)), cur, r, P + Len(q[i]))
      /\ Len(q[i]) >= 1
      /\ \/ /\ P < DataLen(cur, r) /\ i = 1
            /\ Len(q[i]) = MinOf(PacketLen, DataLen(cur, r) - P)
            /\ SubSeq(q, i + 1, Len(q)) # <<>>
         \/ /\ P = DataLen(cur, r) /\ q[i] = r
            /\ SubSeq(q, i + 1, Len(q)) = <<>>
  <2>1. (i = 1 => q[1] # <<>>) /\ (i = 2 => q[1] = <<>>)
    BY <1>2, <1>5
  <2>2. /\ q \in Seq(Packet) /\ P \in Nat /\ Cut(q, cur, r, P) /\ i <= Len(q)
        /\ cur \in Trans
    BY <1>1, <1>4, <1>6
  <2> QED BY <2>1, <2>2, CutTake
<1>8. inp[i] \in Seq(Token) /\ Len(inp[i]) \in Nat
  <2>1. inp[i] \in Packet
    BY <1>1, <1>3, ElementOfSeq
  <2>2. inp[i] \in Seq(Token)
    BY <2>1 DEF Packet
  <2> QED BY <2>2, LenProperties
<1> QED BY <1>4, <1>5, <1>7, <1>8 DEF P

\* A read of the data phase does not go beyond it.
LEMMA ReadWithin ==
    ASSUME IndInv, CurInv, Reading, NEW r \in Replies(cur), StageFits(r),
           rd.stage = "data"
    PROVE  Start(r) + rd.size <= DataLen(cur, r)
<1>1. /\ pc # "idle" /\ pc # "handler" /\ rd.size <= left
  BY DEF IndInv, ReadInv, Reading
<1>2. /\ DataLen(cur, r) \in Nat /\ left \in Nat /\ rd.size \in Nat
  BY <1>1, TransFacts, ReplyFacts
<1>3. Start(r) = DataLen(cur, r) - left
  BY <1>1 DEF Start, Base, Unread
<1> QED BY <1>1, <1>2, <1>3

\* A read of whole packets straight to the destination.
LEMMA BulkReadStep ==
    ASSUME IndInv, StepInv, BulkRead
    PROVE  StepInv'
<1>1. /\ pc = "bulk" /\ CurInv /\ buf = Empty /\ fill = <<>>
      /\ Len(rd.dst) < rd.bulk /\ rd.bulk + rd.min = rd.size
      /\ UNCHANGED <<cur, ops, buf, fill, got, left, outq, cam, camq, done>>
  BY DEF BulkRead, StepInv, IndInv, ReadInv, camVars
<1>2. CASE faulted'
  <2>1. result' = result \/ Abort("io")
    BY DEF BulkRead
  <2>2. Abort("io") => result'.id = cur.id
    BY DEF Abort, Finish
  <2> QED BY <1>1, <1>2, <2>1, <2>2, FaultStep
<1>3. CASE ~faulted'
  <2> DEFINE room == rd.bulk - Len(rd.dst)
  <2>1. PICK i \in {1, 2} :
           /\ ReadOk(room, i)
           /\ rd' = [rd EXCEPT !.dst = @ \o inp[i]]
           /\ pc' = IF Len(inp[i]) < room THEN "bulk" ELSE "fill"
           /\ UNCHANGED <<result, faulted>>
    BY <1>3 DEF BulkRead, Abort
  <2>2. ~faulted /\ Answering
    BY <1>1, <1>3, <2>1 DEF StepInv, LockStep, Asking, HostAsks
  <2> PICK r \in Replies(cur) : StageFits(r) /\ Holds(r) /\ Carried(r)
    BY <2>2 DEF Answering
  <2> DEFINE S == Start(r)
             L == DataLen(cur, r)
             n == Len(inp[i])
  <2>3. rd.stage = "data" /\ room % PacketLen = 0
    BY <1>1, <2>2 DEF Answering, ReadFits
  <2>4. /\ cur \in Trans /\ rd \in ReadType /\ rd.dst \in Seq(Token)
        /\ Len(rd.dst) \in Nat /\ rd.size \in Nat /\ rd.bulk \in Nat
        /\ rd.min \in Nat
    BY <1>1, TransFacts
  <2>5. L \in Nat /\ Len(r) \in Nat /\ S \in Nat /\ Place(r) = S + Len(rd.dst)
    BY <1>1, <2>4, PlaceFacts, ReplyFacts DEF Place
  <2>6. S + rd.size <= L
    BY <1>1, <2>3, ReadWithin DEF Reading
  <2>7. /\ inp[i] \in Seq(Token) /\ n \in Nat /\ n >= 1
        /\ At(inp[i], cur, r, Place(r))
        /\ Cut(inp' \o camq', cur, r, Place(r) + n)
        /\ \/ /\ Place(r) < L /\ inp' \o camq' # <<>>
              /\ n = MinOf(PacketLen, L - Place(r))
           \/ Place(r) = L
    <3> HIDE DEF room
    <3> QED BY <1>1, <2>1, PipeRead
  <2>8. room \in Nat /\ room > 0 /\ room >= PacketLen /\ (room - PacketLen) % PacketLen = 0
    <3>1. room \in Nat /\ room > 0
      BY <1>1, <2>4
    <3> HIDE DEF room
    <3> QED BY <3>1, <2>3, WholePackets
  <2>9. n = PacketLen /\ inp' \o camq' # <<>>
    <3> HIDE DEF S, L, n
    <3>1. Place(r) + room <= L
      <4>1. \A a \in Nat, b \in Nat, d \in Nat, e \in Nat, z \in Nat, y \in Nat :
               b + d = z /\ a + z <= y => (a + e) + (b - e) <= y
        OBVIOUS
      <4>2. rd.bulk + rd.min = rd.size
        BY <1>1
      <4> QED BY <4>1, <4>2, <2>4, <2>5, <2>6, Zenon DEF room
    <3> HIDE DEF room
    <3>2. Place(r) < L /\ L - Place(r) >= PacketLen
      BY <3>1, <2>4, <2>5, <2>8, PacketLenAssumption
    <3>3. \A a, b \in Int : b >= a => MinOf(a, b) = a
      BY DEF MinOf
    <3>4. L - Place(r) \in Int /\ PacketLen \in Int /\ Place(r) # L
      BY <3>2, <2>4, <2>5, PacketLenAssumption
    <3>5. MinOf(PacketLen, L - Place(r)) = PacketLen
      BY <3>2, <3>3, <3>4
    <3> QED BY <3>4, <3>5, <2>7
  <2>10. /\ rd'.stage = rd.stage /\ rd'.size = rd.size /\ rd'.hdr = rd.hdr
         /\ rd'.dst = rd.dst \o inp[i] /\ rd'.bulk = rd.bulk /\ rd'.min = rd.min
         /\ pc' \in {"bulk", "fill"}
    BY <2>1, <2>4 DEF ReadType
  <2>11. /\ At(rd'.dst, cur, r, S) /\ Len(rd'.dst) = Len(rd.dst) + n
    <3>1. At(rd.dst, cur, r, S)
      BY DEF Holds
    <3>2. At(inp[i], cur, r, S + Len(rd.dst))
      BY <2>5, <2>7
    <3>3. \A s, t \in Seq(Token), o \in Nat :
             At(s, cur, r, o) /\ At(t, cur, r, o + Len(s)) =>
               At(s \o t, cur, r, o) /\ Len(s \o t) = Len(s) + Len(t)
      BY <2>5, AtJoin
    <3> HIDE DEF S
    <3> QED BY <2>4, <2>5, <2>7, <2>10, <3>1, <3>2, <3>3
  <2>12. Start(r)' = S /\ Place(r)' = Place(r) + n
    <3>1. Start(r)' = S
      BY <1>1, <2>10 DEF Start, Unread
    <3>2. Place(r)' = S + Len(rd'.dst)
      BY <3>1 DEF Place
    <3> HIDE DEF S, n
    <3> QED BY <3>1, <3>2, <2>4, <2>5, <2>7, <2>11
  <2>13. Holds(r)'
    <3>1. buf'.data = <<>> /\ Len(buf'.data) = 0 /\ cur' = cur
      BY <1>1 DEF Empty
    <3>2. Place(r) + n <= L + Len(r)
      BY <2>7 DEF At
    <3>3. Place(r) \in Nat
      BY <2>4, <2>5
    <3> HIDE DEF n, S
    <3>4. At(<<>>, cur, r, Place(r) + n)
      BY <3>2 , <3>3, <2>7 DEF At
    <3>5. (Place(r) + n) + Len(buf'.data) = Place(r) + n
      BY <3>1, <3>3, <2>7
    <3>6. At(rd'.dst, cur', r, Start(r)')
      BY <2>11, <2>12, <3>1
    <3>7. got' # <<>> => At(got', cur', r, 1)
      BY <1>1 DEF Holds
    <3>8. At(buf'.data, cur', r, Place(r)')
      BY <2>12, <3>1, <3>4
    <3>9. Cut(inp' \o camq', cur', r, Place(r)' + Len(buf'.data))
      BY <2>7, <2>12, <3>1, <3>5
    <3>10. inp' \o camq' # <<>>
      BY <2>9
    <3> QED BY <3>6, <3>7, <3>8, <3>9, <3>10 DEF Holds
  <2>14. StageFits(r)'
    BY <1>1, <2>10, <2>12 DEF StageFits
  <2>15. ReadFits'
    <3>1. pc' = "bulk" => (rd'.bulk - Len(rd'.dst)) % PacketLen = 0
      <4>1. rd'.bulk - Len(rd'.dst) = room - PacketLen
        BY <2>4, <2>9, <2>10, <2>11, PacketLenAssumption
      <4> QED BY <4>1, <2>8
    <3> QED BY <1>1, <2>3, <2>10, <3>1 DEF ReadFits
  <2>16. Reading'
    BY <2>10 DEF Reading
  <2>17. UNCHANGED <<cur, ops, outq, cam, camq, done, result, faulted>>
    BY <1>1, <2>1
  <2>18. pc # "idle"
    BY <1>1
  <2> HIDE DEF S, L, n, room
  <2> QED BY <2>2, <2>13, <2>14, <2>15, <2>16, <2>17, <2>18, ReadStep
<1> QED BY <1>2, <1>3
\* Loading the packet buffer: in step, one packet is enough.
LEMMA FillStep ==
    ASSUME IndInv, StepInv, Fill
    PROVE  StepInv'
<1>1. /\ pc = "fill" /\ CurInv /\ buf = Empty
      /\ Len(rd.dst) + rd.min = rd.size /\ rd.min <= PacketLen
      /\ UNCHANGED <<cur, ops, got, left, outq, cam, camq, done>>
  BY DEF Fill, StepInv, IndInv, ReadInv, camVars
<1>2. CASE faulted'
  <2>1. result' = result \/ Abort("io")
    BY DEF Fill
  <2>2. Abort("io") => result'.id = cur.id
    BY DEF Abort, Finish
  <2> QED BY <1>1, <1>2, <2>1, <2>2, FaultStep
<1>3. CASE ~faulted'
  <2>1. PICK i \in {1, 2} :
           /\ ReadOk(PacketLen - Len(fill), i)
           /\ IF Len(fill \o inp[i]) < rd.min
              THEN fill' = fill \o inp[i] /\ UNCHANGED <<buf, pc>>
              ELSE /\ buf' = Loaded(fill \o inp[i])
                   /\ fill' = <<>>
                   /\ pc' = "take2"
           /\ UNCHANGED <<rd, result, faulted>>
    BY <1>3 DEF Fill, Abort
  <2>2. ~faulted /\ Answering
    <3>1. ~faulted /\ LockStep
      BY <1>3, <2>1 DEF StepInv
    <3>2. inp # <<>>
      <4>1. i <= Len(inp)
        BY <2>1 DEF ReadOk
      <4> QED BY <4>1
    <3> QED BY <1>1, <3>1, <3>2 DEF LockStep, Asking, Unanswered
  <2> PICK r \in Replies(cur) : StageFits(r) /\ Holds(r) /\ Carried(r)
    BY <2>2 DEF Answering
  <2> DEFINE S == Start(r)
             L == DataLen(cur, r)
             n == Len(inp[i])
             P == Place(r)
             m == rd.min
  <2>3. /\ fill = <<>> /\ rd.stage \in {"datahdr", "data", "resphdr"}
        /\ rd.stage # "data" => m = 1
    BY <1>1, <2>2 DEF Answering, ReadFits
  <2>4. /\ rd.dst \in Seq(Token)
        /\ Len(rd.dst) \in Nat /\ rd.size \in Nat /\ m \in Nat
    BY <1>1, TransFacts
  <2>5. L \in Nat /\ S \in Nat /\ P = S + Len(rd.dst) /\ P \in Nat
    BY <1>1, <2>4, PlaceFacts, ReplyFacts, TransFacts DEF Place
  <2>6. rd.stage = "data" => S + rd.size <= L
    BY <1>1, ReadWithin DEF Reading
  <2>7. /\ inp[i] \in Seq(Token) /\ n \in Nat /\ n >= 1
        /\ At(inp[i], cur, r, P)
        /\ Cut(inp' \o camq', cur, r, P + n)
        /\ \/ /\ P < L /\ inp' \o camq' # <<>>
              /\ n = MinOf(PacketLen, L - P)
           \/ P = L
    BY <1>1, <2>1, PipeRead
  <2>8. fill \o inp[i] = inp[i]
    BY <2>3, <2>7, ConcatEmptySeq
  <2>9. n >= m
    <3>1. CASE rd.stage # "data"
      BY <3>1, <2>3, <2>7
    <3>2. CASE rd.stage = "data"
      <4> HIDE DEF S, L, n, P, m
      <4>1. P + m <= L
        BY <1>1, <2>4, <2>5, <2>6, <3>2 DEF m
      <4>2. CASE P = L
        BY <4>1, <4>2, <2>4, <2>5, <2>7
      <4>3. CASE P < L
        <5>1. P # L
          BY <4>3, <2>5
        <5>2. n = MinOf(PacketLen, L - P)
          BY <5>1, <2>7, Zenon
        <5>3. m <= PacketLen
          BY <1>1 DEF m
        <5>4. m <= L - P
          BY <4>1, <2>4, <2>5
        <5> QED BY <5>2, <5>3, <5>4, Zenon DEF MinOf
      <4> QED BY <4>2, <4>3, <2>7
    <3> QED BY <3>1, <3>2
  <2>10. ~(n < m)
    BY <2>4, <2>7, <2>9
  <2>11. buf' = Loaded(inp[i]) /\ fill' = <<>> /\ pc' = "take2" /\ rd' = rd
    BY <2>1, <2>8, <2>10
  <2>12. Start(r)' = S /\ Place(r)' = P
    BY <1>1, <2>11 DEF Start, Unread, Place
  <2>13. Holds(r)'
    <3>1. buf'.data = inp[i] /\ cur' = cur /\ rd' = rd
      BY <1>1, <2>11 DEF Loaded
    <3>2. At(rd'.dst, cur', r, Start(r)')
      BY <3>1, <2>12 DEF Holds
    <3>3. got' # <<>> => At(got', cur', r, 1)
      BY <1>1 DEF Holds
    <3>4. inp' \o camq' = <<>> => Place(r)' >= DataLen(cur', r)
      BY <2>5, <2>7, <2>12, <3>1
    <3> QED BY <2>7, <2>12, <3>1, <3>2, <3>3, <3>4 DEF Holds
  <2>14. StageFits(r)'
    BY <1>1, <2>11, <2>12 DEF StageFits
  <2>15. ReadFits'
    BY <2>3, <2>11 DEF ReadFits
  <2>16. Reading'
    BY <2>11 DEF Reading
  <2>17. UNCHANGED <<cur, ops, outq, cam, camq, done, result, faulted>>
    BY <1>1, <2>1
  <2> HIDE DEF S, L, n, P, m
  <2> QED BY <1>1, <2>2, <2>13, <2>14, <2>15, <2>16, <2>17, ReadStep
<1> QED BY <1>2, <1>3

\* The rest of a read, from the packet buffer.
LEMMA Take2Step ==
    ASSUME IndInv, StepInv, Take2
    PROVE  StepInv'
<1>1. /\ pc = "take2" /\ CurInv
      /\ Len(rd.dst) + rd.min = rd.size /\ Len(buf.data) >= rd.min
      /\ buf' = AfterTake(buf, rd.min)
      /\ UNCHANGED <<cur, ops, fill, got, left, outq, inp, cam, camq, done>>
  BY DEF Take2, StepInv, IndInv, ReadInv, camVars
<1>2. CASE faulted'
  <2>1. result' = result \/ Abort("io") \/ Abort("badparam")
    BY DEF Take2
  <2>2. Abort("io") \/ Abort("badparam") => result'.id = cur.id
    BY DEF Abort, Finish
  <2> QED BY <1>1, <1>2, <2>1, <2>2, FaultStep
<1>3. CASE ~faulted'
  <2> DEFINE D == NewDst(rd.min)
             k == TakeLen(buf, rd.min)
             m == rd.min
  <2>1. pc' = "return" /\ rd' = [rd EXCEPT !.dst = D] /\ UNCHANGED <<result, faulted>>
    BY <1>3 DEF Take2, Abort
  <2>2. ~faulted /\ Answering
    BY <1>1, <1>3, <2>1 DEF StepInv, LockStep, Asking, HostAsks
  <2> PICK r \in Replies(cur) : StageFits(r) /\ Holds(r) /\ Carried(r)
    BY <2>2 DEF Answering
  <2> DEFINE S == Start(r)
             L == DataLen(cur, r)
  <2>3. /\ rd \in ReadType /\ buf \in Buffer /\ rd.dst \in Seq(Token)
        /\ Len(rd.dst) \in Nat /\ m \in Nat /\ Len(buf.data) \in Nat
        /\ buf.pos + Len(buf.data) <= PacketLen
        /\ buf.data = <<>> => buf.pos = 0
    BY <1>1, TransFacts
  <2>4. /\ L \in Nat /\ Len(r) \in Nat /\ S \in Nat
        /\ Place(r) = S + Len(rd.dst)
    BY <1>1, PlaceFacts, ReplyFacts, TransFacts DEF Place
  <2>5. k = m
    BY <1>1, <2>3 DEF TakeLen
  <2>6. /\ D \in Seq(Token) /\ Len(D) = Len(rd.dst) + m /\ At(D, cur, r, S)
        /\ Len(buf'.data) = Len(buf.data) - m
        /\ At(buf'.data, cur, r, S + Len(D))
    <3>1. At(rd.dst, cur, r, S) /\ At(buf.data, cur, r, S + Len(rd.dst))
      BY <2>4 DEF Holds
    <3>2. \A b \in Buffer, j \in Nat, d \in Seq(Token), o \in Nat :
             (/\ b.pos + Len(b.data) <= PacketLen /\ (b.data = <<>> => b.pos = 0)
              /\ At(d, cur, r, o) /\ At(b.data, cur, r, o + Len(d)))
             => /\ d \o Taken(b, j) \in Seq(Token)
                /\ Len(d \o Taken(b, j)) = Len(d) + TakeLen(b, j)
                /\ At(d \o Taken(b, j), cur, r, o)
                /\ Len(AfterTake(b, j).data) = Len(b.data) - TakeLen(b, j)
                /\ At(AfterTake(b, j).data, cur, r, o + Len(d \o Taken(b, j)))
      BY <2>4, TakePart
    <3>3. D = rd.dst \o Taken(buf, m)
      BY DEF NewDst
    <3> HIDE DEF S, D
    <3>4. /\ D \in Seq(Token) /\ Len(D) = Len(rd.dst) + k /\ At(D, cur, r, S)
          /\ Len(AfterTake(buf, m).data) = Len(buf.data) - k
          /\ At(AfterTake(buf, m).data, cur, r, S + Len(D))
      BY <2>3, <2>4, <3>1, <3>2, <3>3, Zenon
    <3> HIDE DEF k
    <3> QED BY <3>4, <2>5, <1>1
  <2>7. /\ rd'.stage = rd.stage /\ rd'.size = rd.size /\ rd'.hdr = rd.hdr
        /\ rd'.dst = D
    BY <2>1, <2>3 DEF ReadType
  <2> HIDE DEF D, k
  <2>8. Start(r)' = S /\ Place(r)' = S + Len(D)
    <3>1. Start(r)' = S
      BY <1>1, <2>1, <2>7 DEF Start, Unread
    <3> QED BY <3>1, <2>7 DEF Place
  <2>9. S + Len(D) = Place(r) + m /\ Place(r) \in Nat
    <3> HIDE DEF S
    <3> QED BY <2>3, <2>4, <2>6
  <2>10. Holds(r)'
    <3>1. (S + Len(D)) + Len(buf'.data) = Place(r) + Len(buf.data)
      <4>1. Len(buf'.data) = Len(buf.data) - m
        BY <2>6
      <4> HIDE DEF S
      <4> QED BY <4>1, <2>3, <2>9
    <3>2. Cut(inp' \o camq', cur', r, Place(r)' + Len(buf'.data))
      <4>1. Cut(inp' \o camq', cur', r, Place(r) + Len(buf.data))
        BY <1>1 DEF Holds
      <4> HIDE DEF S
      <4> QED BY <4>1, <3>1, <2>8
    <3>3. inp' \o camq' = <<>> => Place(r)' >= DataLen(cur', r)
      <4>1. inp' \o camq' = <<>> => Place(r) >= L
        BY <1>1 DEF Holds
      <4>2. DataLen(cur', r) = L
        BY <1>1
      <4> HIDE DEF S, L
      <4> QED BY <4>1, <4>2, <2>3, <2>4, <2>8, <2>9
    <3>4. got' # <<>> => At(got', cur', r, 1)
      BY <1>1 DEF Holds
    <3>5. At(rd'.dst, cur', r, Start(r)') /\ At(buf'.data, cur', r, Place(r)')
      <4>1. cur' = cur
        BY <1>1
      <4> HIDE DEF S
      <4> QED BY <4>1, <2>6, <2>7, <2>8
    <3> QED BY <3>2, <3>3, <3>4, <3>5 DEF Holds
  <2>11. StageFits(r)'
    BY <1>1, <2>1, <2>7, <2>8 DEF StageFits
  <2>12. ReadFits' /\ Reading'
    BY <1>1, <2>1, <2>2 DEF Answering, ReadFits, Reading
  <2>13. UNCHANGED <<cur, ops, outq, cam, camq, done, result, faulted>>
    BY <1>1, <2>1
  <2> HIDE DEF S, L, m
  <2> QED BY <1>1, <2>2, <2>10, <2>11, <2>12, <2>13, ReadStep
<1> QED BY <1>2, <1>3
-----------------------------------------------------------------------------
(***************************************************************************)
(* The steps between reads.                                                *)
(***************************************************************************)
\* What a new read begins with.
LEMMA StartReadFacts ==
    ASSUME NEW stage, NEW n, StartRead(stage, n)
    PROVE  pc' = "take" /\ rd'.dst = <<>> /\ rd'.stage = stage /\ rd'.size = n
BY DEF StartRead, NoRead

\* A read that begins where the last one ended.
LEMMA NextRead ==
    ASSUME IndInv, StepInv, ~faulted, Answering, pc # "idle",
           NEW r \in Replies(cur), StageFits(r), Holds(r), Carried(r),
           UNCHANGED <<cur, ops, buf, fill, outq, inp, cam, camq, done, result,
                       faulted>>,
           pc' = "take", rd'.dst = <<>>, StageFits(r)', Start(r)' = Place(r),
           got' # <<>> => At(got', cur, r, 1)
    PROVE  StepInv'
<1>1. Place(r) \in Nat /\ Len(buf.data) \in Nat
  BY PlaceFacts, TransFacts DEF StepInv
<1>2. Place(r)' = Place(r)
  <2>1. Place(r)' = Place(r) + Len(<<>>)
    BY DEF Place
  <2>2. Len(<<>>) = 0
    OBVIOUS
  <2> QED BY <2>1, <2>2, <1>1
<1>3. At(rd'.dst, cur', r, Start(r)')
  <2>1. DataLen(cur, r) \in Nat /\ Len(r) \in Nat
    BY TransFacts, ReplyFacts DEF StepInv
  <2>2. Place(r) + Len(buf.data) <= DataLen(cur, r) + Len(r)
    BY DEF Holds, At
  <2>3. Place(r) + Len(<<>>) <= DataLen(cur, r) + Len(r)
    <3>1. Len(<<>>) = 0
      OBVIOUS
    <3> HIDE DEF Place, DataLen
    <3> QED BY <3>1, <2>1, <2>2, <1>1
  <2>4. At(<<>>, cur, r, Place(r))
    BY <2>3 DEF At
  <2> QED BY <2>4
<1>4. Holds(r)'
  BY <1>2, <1>3 DEF Holds
<1>5. ReadFits' /\ Reading'
  BY DEF Answering, ReadFits, Reading
<1> QED BY <1>4, <1>5, ReadStep

\* What is known when a read has ended.
LEMMA EndRead ==
    ASSUME IndInv, StepInv, ~faulted, pc = "return"
    PROVE  /\ Answering /\ CurInv /\ Reading /\ pc # "idle" /\ pc # "handler"
           /\ Len(rd.dst) = rd.size
           /\ rd.stage \in {"datahdr", "resphdr"} => Len(rd.dst) = 1
           /\ rd.stage = "data" => rd.size <= left
<1>1. Answering
  BY DEF StepInv, LockStep, Asking, HostAsks
<1> QED BY <1>1 DEF StepInv, IndInv, ReadInv, Reading

\* ptp_usb_getdata has the header of the data, or of a response in its place.
LEMMA DataHeaderStep ==
    ASSUME IndInv, StepInv, DataHeader
    PROVE  StepInv'
<1>1. /\ pc = "return" /\ rd.stage = "datahdr" /\ CurInv
      /\ UNCHANGED <<cur, ops, buf, fill, got, outq, inp, cam, camq, done>>
  BY DEF DataHeader, StepInv, camVars
<1>2. CASE faulted'
  <2>1. result' = result \/ Abort("code") \/ Abort("badparam") \/ Finish("dataexpected", cur.id)
    BY DEF DataHeader
  <2>2. Abort("code") \/ Abort("badparam") \/ Finish("dataexpected", cur.id)
          => result'.id = cur.id
    BY DEF Abort, Finish
  <2> QED BY <1>1, <1>2, <2>1, <2>2, FaultStep
<1>3. CASE ~faulted'
  <2>1. /\ ~Abort("code") /\ ~Abort("badparam")
    BY <1>3 DEF Abort
  <2>2. ~faulted /\ faulted' = faulted
    BY <1>3, <2>1 DEF DataHeader
  <2>3. Answering /\ Reading /\ pc # "idle" /\ pc # "handler" /\ Len(rd.dst) = 1
    BY <1>1, <2>2, EndRead
  <2> PICK r \in Replies(cur) : StageFits(r) /\ Holds(r) /\ Carried(r)
    BY <2>3 DEF Answering
  <2> DEFINE L == DataLen(cur, r)
  <2>4. /\ cur \in Trans /\ cur.op \in Op /\ cur.op.size \in Nat
        /\ cur.op.block \in Nat /\ cur.id \in Nat /\ ops[cur.id + 1] = cur.op
    BY <1>1, <2>3, TransFacts DEF CurInv
  <2>5. /\ L \in Nat /\ Len(r) \in Nat /\ Len(r) >= 1 /\ r[1].k \in {"ok", "err"}
        /\ r[1].n = Len(r) - 1
    BY <2>4, ReplyFacts
  <2>6. cur.op.phase = "get" /\ got = <<>>
    BY <1>1 DEF StageFits
  <2>7. Start(r) = 0 /\ Place(r) = 1
    BY <1>1, <2>3 DEF Start, Base, Place
  <2>8. Hdr = Tok(cur, r, 1)
    <3>1. At(rd.dst, cur, r, 0)
      BY <2>7 DEF Holds
    <3>2. 1 \in 1..Len(rd.dst) /\ 0 + 1 = 1
      BY <2>3
    <3>3. rd.dst[1] = Tok(cur, r, 0 + 1)
      BY <3>1, <3>2 DEF At
    <3> QED BY <3>2, <3>3 DEF Hdr
  <2>9. CASE r[1].k = "err"
    <3>1. L = 0
      BY <2>9 DEF DataLen
    <3>2. Hdr = r[1]
      <4>1. ~(1 <= L) /\ 1 - L = 1
        BY <3>1
      <4> QED BY <4>1, <2>8 DEF Tok
    <3>3. /\ Hdr.k # "data" /\ Hdr.k \notin {"pay", "par"}
      BY <3>2, <2>9
    <3>4. /\ IF Hdr.n > 0 THEN StartRead("stray", Hdr.n) /\ UNCHANGED result
             ELSE Finish("dataexpected", cur.id)
          /\ UNCHANGED <<left, faulted>>
      BY <3>3 DEF DataHeader
    <3>5. CASE Hdr.n > 0
      <4>1. /\ pc' = "take" /\ rd'.dst = <<>> /\ rd'.stage = "stray"
            /\ rd'.size = Hdr.n /\ UNCHANGED result
        BY <3>4, <3>5, StartReadFacts
      <4>2. Start(r)' = Place(r)
        BY <4>1, <2>7 DEF Start, Base
      <4>3. rd'.size + 1 = Len(r)
        BY <4>1, <3>2, <2>5
      <4>4. StageFits(r)'
        BY <1>1, <2>6, <3>1, <4>1, <4>3 DEF StageFits
      <4> QED BY <1>1, <2>2, <2>3, <2>6, <4>1, <4>2, <4>4, NextRead
    <3>6. CASE ~(Hdr.n > 0)
      <4>1. Finish("dataexpected", cur.id)
        BY <3>4, <3>6
      <4>2. /\ pc' = "idle"
            /\ result' = [id |-> cur.id, rc |-> "dataexpected", from |-> cur.id,
                          data |-> got]
        BY <4>1 DEF Finish
      <4>3. Place(r) = DataLen(cur, r) + Len(r)
        <5>1. Len(r) = 1
          <6>1. Hdr.n = Len(r) - 1
            BY <2>5, <3>2, Zenon
          <6>2. ~(Len(r) - 1 > 0)
            BY <6>1, <3>6, Zenon
          <6>3. \A a \in Nat : a >= 1 /\ ~(a - 1 > 0) => a = 1
            OBVIOUS
          <6> QED BY <6>2, <6>3, <2>5, Zenon
        <5> QED BY <2>7, <3>1, <5>1
      <4> HIDE DEF L
      <4> QED BY <1>1, <2>2, <2>3, <4>2, <4>3, FinishStep
    <3> QED BY <3>5, <3>6
  <2>10. CASE r[1].k = "ok"
    <3>1. L = cur.op.size + 1
      BY <2>6, <2>10 DEF DataLen
    <3>2. Hdr = [k |-> "data", id |-> cur.id, n |-> cur.op.size]
      <4>1. 1 <= L
        BY <3>1, <2>4
      <4> QED BY <4>1, <2>8 DEF Tok, DataTok
    <3>3. /\ left' = cur.op.size /\ NextBlock(cur.op.size)
          /\ UNCHANGED <<result, faulted>>
      <4>1. Hdr.k = "data" /\ Hdr.id = cur.id /\ Hdr.n = cur.op.size
        BY <3>2
      <4>2. ~IsResponse(Hdr) /\ Hdr.k \notin {"pay", "par"}
        BY <4>1 DEF IsResponse
      <4>3. ops[Hdr.id + 1].code = cur.op.code
        BY <4>1, <2>4
      <4> QED BY <4>1, <4>2, <4>3 DEF DataHeader
    <3>4. Len(got) = 0
      BY <2>6
    <3>5. CASE cur.op.block = 0
      <4>1. /\ pc' = "take" /\ rd'.dst = <<>> /\ rd'.stage = "data"
            /\ rd'.size = cur.op.size
        BY <3>3, <3>5, StartReadFacts DEF NextBlock
      <4>2. Start(r)' = 1
        BY <1>1, <2>4, <3>1, <3>3, <4>1 DEF Start, Base, Unread
      <4>3. StageFits(r)'
        BY <1>1, <2>6, <3>1, <3>4, <4>1, <4>2 DEF StageFits
      <4> QED BY <1>1, <2>2, <2>3, <2>6, <2>7, <3>3, <4>1, <4>2, <4>3, NextRead
    <3>6. CASE cur.op.block # 0 /\ cur.op.size > 0
      <4>1. /\ pc' = "take" /\ rd'.dst = <<>> /\ rd'.stage = "data"
        BY <3>3, <3>6, StartReadFacts DEF NextBlock
      <4>2. Start(r)' = 1
        BY <1>1, <2>4, <3>1, <3>3, <4>1 DEF Start, Base, Unread
      <4>3. StageFits(r)'
        BY <1>1, <2>6, <3>1, <3>4, <3>6, <4>1, <4>2 DEF StageFits
      <4> QED BY <1>1, <2>2, <2>3, <2>6, <2>7, <3>3, <4>1, <4>2, <4>3, NextRead
    <3>7. CASE cur.op.block # 0 /\ ~(cur.op.size > 0)
      <4>1. /\ pc' = "take" /\ rd'.dst = <<>> /\ rd'.stage = "resphdr"
        BY <3>3, <3>7, StartReadFacts DEF NextBlock
      <4>2. cur.op.size = 0
        BY <3>7, <2>4
      <4>3. Start(r)' = 1
        BY <1>1, <2>4, <3>1, <4>1, <4>2 DEF Start, Base
      <4>4. StageFits(r)'
        BY <1>1, <2>6, <3>1, <3>4, <4>1, <4>2 DEF StageFits
      <4> QED BY <1>1, <2>2, <2>3, <2>6, <2>7, <3>3, <4>1, <4>3, <4>4, NextRead
    <3> QED BY <3>5, <3>6, <3>7
  <2> QED BY <2>5, <2>9, <2>10
<1> QED BY <1>2, <1>3

\* The parameters of a response in place of data have been read.
LEMMA StrayResponseStep ==
    ASSUME IndInv, StepInv, StrayResponse
    PROVE  StepInv'
<1>1. /\ pc = "return" /\ rd.stage = "stray" /\ CurInv
      /\ UNCHANGED <<cur, ops, buf, fill, got, left, faulted, outq, inp, cam,
                     camq, done>>
  BY DEF StrayResponse, StepInv, camVars
<1>2. /\ pc' = "idle"
      /\ result' = [id |-> cur.id, rc |-> "dataexpected", from |-> cur.id,
                    data |-> got]
  BY DEF StrayResponse, Finish
<1>3. CASE faulted
  BY <1>1, <1>2, <1>3, FaultStep
<1>4. CASE ~faulted
  <2>1. Answering /\ Len(rd.dst) = rd.size /\ pc # "idle"
    BY <1>1, <1>4, EndRead
  <2> PICK r \in Replies(cur) : StageFits(r) /\ Holds(r) /\ Carried(r)
    BY <2>1 DEF Answering
  <2>2. Len(r) \in Nat /\ rd.size \in Nat
    BY <1>1, <2>1, TransFacts, ReplyFacts
  <2>3. DataLen(cur, r) = 0 /\ rd.size + 1 = Len(r) /\ Start(r) = 1
    BY <1>1 DEF StageFits, Start, Base
  <2>4. Place(r) = 1 + rd.size
    BY <2>1, <2>3 DEF Place
  <2>5. Place(r) = DataLen(cur, r) + Len(r)
    BY <2>2, <2>3, <2>4
  <2> QED BY <1>1, <1>2, <1>4, <2>1, <2>5, FinishStep
<1> QED BY <1>3, <1>4
\* A part of the data phase has been read: it is the whole, or the handler's
\* next block.
LEMMA DataReadStep ==
    ASSUME IndInv, StepInv, DataRead
    PROVE  StepInv'
<1>1. /\ pc = "return" /\ rd.stage = "data" /\ CurInv
      /\ left' = left - rd.size
      /\ UNCHANGED <<cur, ops, buf, fill, result, faulted, outq, inp, cam,
                     camq, done>>
  BY DEF DataRead, StepInv, camVars
<1>2. CASE faulted
  BY <1>1, <1>2, FaultStep
<1>3. CASE ~faulted
  <2>1. /\ Answering /\ Reading /\ pc # "idle" /\ pc # "handler"
        /\ Len(rd.dst) = rd.size /\ rd.size <= left
    BY <1>1, <1>3, EndRead
  <2> PICK r \in Replies(cur) : StageFits(r) /\ Holds(r) /\ Carried(r)
    BY <2>1 DEF Answering
  <2> DEFINE L == DataLen(cur, r)
             S == Start(r)
  <2>2. /\ cur.op.size \in Nat /\ rd.size \in Nat /\ left \in Nat /\ L \in Nat
        /\ Len(got) \in Nat
    BY <1>1, <2>1, TransFacts, ReplyFacts
  <2>3. /\ S = L - left /\ S \in Nat /\ Place(r) = S + rd.size
    BY <1>1, <2>1, PlaceFacts DEF Start, Base, Unread, Place
  <2>4. /\ L = cur.op.size + 1 /\ S >= 1 /\ Len(got) = S - 1
        /\ cur.op.block = 0 => S = 1 /\ rd.size = cur.op.size
    BY <1>1 DEF StageFits
  <2>5. CASE cur.op.block = 0
    <3>1. got' = rd.dst /\ StartRead("resphdr", 1)
      BY <2>5 DEF DataRead
    <3>2. /\ pc' = "take" /\ rd'.dst = <<>> /\ rd'.stage = "resphdr"
      BY <3>1, StartReadFacts
    <3>3. Start(r)' = L
      BY <1>1, <3>2 DEF Start, Base
    <3>4. Start(r)' = Place(r)
      <4> HIDE DEF L, S
      <4> QED BY <3>3, <2>2, <2>3, <2>4, <2>5
    <3>5. cur.op.phase = "get"
      <4>1. L # 0
        <5> HIDE DEF L, S
        <5> QED BY <2>2, <2>4
      <4> QED BY <4>1 DEF DataLen
    <3>6. Len(got') = cur.op.size
      BY <2>1, <2>4, <2>5, <3>1
    <3>7. StageFits(r)'
      BY <1>1, <2>4, <3>2, <3>5, <3>6 DEF StageFits
    <3>8. At(got', cur, r, 1)
      BY <2>4, <2>5, <3>1 DEF Holds
    <3> HIDE DEF L, S
    <3> QED BY <1>1, <1>3, <2>1, <3>2, <3>4, <3>7, <3>8, NextRead
  <2>6. CASE cur.op.block # 0
    <3>1. pc' = "handler" /\ UNCHANGED <<got, rd>>
      BY <2>6 DEF DataRead
    <3>2. Unread' = left
      BY <1>1, <2>1, <2>2, <3>1 DEF Unread
    <3>3. Start(r)' = S
      BY <1>1, <2>1, <3>1, <3>2 DEF Start, Base, Unread
    <3>4. Place(r)' = Place(r)
      BY <3>1, <3>3 DEF Place
    <3>5. Holds(r)'
      BY <1>1, <3>1, <3>3, <3>4 DEF Holds
    <3>6. StageFits(r)'
      BY <1>1, <2>6, <3>1, <3>3 DEF StageFits
    <3>7. ReadFits'
      BY <1>1, <2>1, <3>1 DEF Answering, ReadFits
    <3>8. pc' = "handler" /\ rd'.stage = "data"
      BY <1>1, <3>1
    <3> HIDE DEF L, S
    <3> QED BY <1>1, <1>3, <2>1, <3>5, <3>6, <3>7, <3>8, ReadStep
  <2> QED BY <2>5, <2>6
<1> QED BY <1>2, <1>3

\* The handler has a block of the data phase.
LEMMA HandlerStep ==
    ASSUME IndInv, StepInv, Handler
    PROVE  StepInv'
<1>1. /\ pc = "handler" /\ CurInv
      /\ UNCHANGED <<cur, ops, buf, fill, left, outq, inp, cam, camq, done>>
  BY DEF Handler, StepInv, camVars
<1>2. CASE faulted'
  <2>1. result' = result \/ Abort("handler")
    BY DEF Handler
  <2>2. Abort("handler") => result'.id = cur.id
    BY DEF Abort, Finish
  <2> QED BY <1>1, <1>2, <2>1, <2>2, FaultStep
<1>3. CASE ~faulted'
  <2>1. got' = got \o rd.dst /\ NextBlock(left) /\ UNCHANGED <<result, faulted>>
    BY <1>3 DEF Handler, Abort
  <2>2. ~faulted /\ Answering /\ rd.stage = "data" /\ pc # "idle"
    BY <1>1, <1>3, <2>1 DEF StepInv, LockStep, Asking, HostAsks, Answering, Reading
  <2> PICK r \in Replies(cur) : StageFits(r) /\ Holds(r) /\ Carried(r)
    BY <2>2 DEF Answering
  <2> DEFINE L == DataLen(cur, r)
             S == Start(r)
             n == Len(rd.dst)
  <2>3. /\ cur.op.size \in Nat /\ left \in Nat /\ L \in Nat /\ Len(r) \in Nat
        /\ Len(r) >= 1 /\ n \in Nat /\ rd.dst \in Seq(Token)
        /\ got \in Seq(Token) /\ Len(got) \in Nat /\ cur.op.block \in Nat
    BY <1>1, <2>2, TransFacts, ReplyFacts
  <2>4. /\ S = L - (left + n) /\ S \in Nat /\ Place(r) = S + n
    BY <1>1, <2>2, PlaceFacts DEF Start, Base, Unread, Place
  <2>5. /\ L = cur.op.size + 1 /\ S >= 1 /\ Len(got) = S - 1 /\ cur.op.block # 0
    BY <1>1, <2>2 DEF StageFits
  <2>6. cur.op.phase = "get"
    <3>1. L # 0
      <4> HIDE DEF L, S
      <4> QED BY <2>3, <2>5
    <3> QED BY <3>1 DEF DataLen
  <2>7. At(got', cur, r, 1) /\ Len(got') = Len(got) + n
    <3>1. At(got, cur, r, 1)
      <4>1. CASE got = <<>>
        <5>1. Len(got) = 0
          BY <4>1
        <5>2. 1 + Len(got) <= L + Len(r)
          <6> HIDE DEF L
          <6> QED BY <5>1, <2>3
        <5> QED BY <5>1, <5>2 DEF At
      <4>2. CASE got # <<>>
        BY <4>2 DEF Holds
      <4> QED BY <4>1, <4>2
    <3>2. At(rd.dst, cur, r, 1 + Len(got))
      <4>1. 1 + Len(got) = S
        <5> HIDE DEF S
        <5> QED BY <2>3, <2>4, <2>5
      <4> QED BY <4>1 DEF Holds
    <3>3. \A s, t \in Seq(Token), o \in Nat :
             At(s, cur, r, o) /\ At(t, cur, r, o + Len(s)) =>
               At(s \o t, cur, r, o) /\ Len(s \o t) = Len(s) + Len(t)
      BY <2>3, AtJoin
    <3> QED BY <2>1, <2>3, <3>1, <3>2, <3>3
  <2>8. Len(got') = Place(r) - 1 /\ Place(r) = L - left /\ Place(r) >= 1
    <3> HIDE DEF L, S, n
    <3>1. \A a, b, c, d, e, f, g \in Nat :
             (/\ a = b - (c + d) /\ e = a + d /\ a >= 1 /\ f = a - 1 /\ g = f + d)
             => g = e - 1 /\ e = b - c /\ e >= 1
      OBVIOUS
    <3>2. Place(r) \in Nat /\ Len(got') \in Nat
      BY <2>3, <2>4, <2>7
    <3>3. /\ L \in Nat /\ S \in Nat /\ n \in Nat /\ left \in Nat /\ Len(got) \in Nat
          /\ S = L - (left + n) /\ Place(r) = S + n /\ S >= 1
          /\ Len(got) = S - 1 /\ Len(got') = Len(got) + n
      BY <2>3, <2>4, <2>5, <2>7, Zenon
    <3> QED BY <3>1, <3>2, <3>3
  <2>9. CASE left > 0
    <3>1. /\ pc' = "take" /\ rd'.dst = <<>> /\ rd'.stage = "data"
      BY <2>1, <2>5, <2>9, StartReadFacts DEF NextBlock
    <3>2. Start(r)' = Place(r)
      BY <1>1, <2>8, <3>1 DEF Start, Base, Unread
    <3>3. StageFits(r)'
      BY <1>1, <2>5, <2>8, <3>1, <3>2 DEF StageFits
    <3> HIDE DEF L, S, n
    <3> QED BY <1>1, <2>1, <2>2, <2>7, <3>1, <3>2, <3>3, NextRead
  <2>10. CASE ~(left > 0)
    <3>1. /\ pc' = "take" /\ rd'.dst = <<>> /\ rd'.stage = "resphdr"
      BY <2>1, <2>5, <2>10, StartReadFacts DEF NextBlock
    <3>2. Start(r)' = L
      BY <1>1, <3>1 DEF Start, Base
    <3>3. L = Place(r) /\ Len(got') = cur.op.size
      <4> HIDE DEF L, S, n
      <4> QED BY <2>3, <2>5, <2>8, <2>10
    <3>4. StageFits(r)'
      BY <1>1, <2>5, <2>6, <3>1, <3>3 DEF StageFits
    <3>5. Start(r)' = Place(r)
      BY <3>2, <3>3
    <3> HIDE DEF L, S, n
    <3> QED BY <1>1, <2>1, <2>2, <2>7, <3>1, <3>4, <3>5, NextRead
  <2> QED BY <2>9, <2>10
<1> QED BY <1>2, <1>3

\* ptp_usb_getresp has the header of the response.
LEMMA RespHeaderStep ==
    ASSUME IndInv, StepInv, RespHeader
    PROVE  StepInv'
<1>1. /\ pc = "return" /\ rd.stage = "resphdr" /\ CurInv
      /\ UNCHANGED <<cur, ops, buf, fill, got, left, outq, inp, cam, camq, done>>
  BY DEF RespHeader, StepInv, camVars
<1>2. CASE faulted'
  <2>1. \/ result' = result \/ Abort("respexpected") \/ Abort("badparam")
        \/ Finish(Hdr.k, Hdr.id)
    BY DEF RespHeader
  <2>2. Abort("respexpected") \/ Abort("badparam") \/ Finish(Hdr.k, Hdr.id)
          => result'.id = cur.id
    BY DEF Abort, Finish
  <2> QED BY <1>1, <1>2, <2>1, <2>2, FaultStep
<1>3. CASE ~faulted'
  <2>1. /\ UNCHANGED faulted
        /\ IF Hdr.n > 0
           THEN /\ pc' = "take"
                /\ rd' = [NoRead EXCEPT !.stage = "resppar", !.size = Hdr.n,
                                        !.hdr = Hdr]
                /\ UNCHANGED result
           ELSE Finish(Hdr.k, Hdr.id)
    BY <1>3 DEF RespHeader, Abort
  <2>2. ~faulted
    BY <1>3, <2>1
  <2>3. /\ Answering /\ pc # "idle" /\ pc # "handler" /\ Len(rd.dst) = 1
    BY <1>1, <2>2, EndRead
  <2> PICK r \in Replies(cur) : StageFits(r) /\ Holds(r) /\ Carried(r)
    BY <2>3 DEF Answering
  <2> DEFINE L == DataLen(cur, r)
  <2>4. /\ L \in Nat /\ Len(r) \in Nat /\ Len(r) >= 1 /\ r[1].id = cur.id
        /\ r[1].n = Len(r) - 1
    BY <1>1, <2>3, TransFacts, ReplyFacts
  <2>5. Start(r) = L /\ Place(r) = L + 1
    BY <1>1, <2>3 DEF Start, Base, Place
  <2>6. Hdr = r[1]
    <3>1. At(rd.dst, cur, r, L)
      BY <2>5 DEF Holds
    <3>2. 1 \in 1..Len(rd.dst) /\ ~(L + 1 <= L) /\ (L + 1) - L = 1
      <4> HIDE DEF L
      <4> QED BY <2>3, <2>4
    <3>3. rd.dst[1] = Tok(cur, r, L + 1)
      BY <3>1, <3>2 DEF At
    <3>4. Tok(cur, r, L + 1) = r[1]
      BY <3>2 DEF Tok
    <3> QED BY <3>3, <3>4 DEF Hdr
  <2>7. CASE Hdr.n > 0
    <3>1. /\ pc' = "take" /\ rd'.dst = <<>> /\ rd'.stage = "resppar"
          /\ rd'.size = Hdr.n /\ rd'.hdr = Hdr /\ UNCHANGED result
      BY <2>1, <2>7 DEF NoRead
    <3>2. Start(r)' = Place(r)
      BY <1>1, <2>5, <3>1 DEF Start, Base
    <3>3. rd'.size + 1 = Len(r)
      <4>1. rd'.size = Len(r) - 1
        BY <3>1, <2>4, <2>6, Zenon
      <4> QED BY <4>1, <2>4
    <3>4. StageFits(r)'
      BY <1>1, <2>6, <3>1, <3>3 DEF StageFits
    <3>5. got' # <<>> => At(got', cur, r, 1)
      BY <1>1 DEF Holds
    <3> HIDE DEF L
    <3> QED BY <1>1, <2>1, <2>2, <2>3, <3>1, <3>2, <3>4, <3>5, NextRead
  <2>8. CASE ~(Hdr.n > 0)
    <3>1. /\ pc' = "idle"
          /\ result' = [id |-> cur.id, rc |-> Hdr.k, from |-> Hdr.id, data |-> got]
      BY <2>1, <2>8 DEF Finish
    <3>2. Len(r) = 1
      <4>1. ~(Len(r) - 1 > 0)
        BY <2>4, <2>6, <2>8, Zenon
      <4> QED BY <4>1, <2>4
    <3>3. Place(r) = DataLen(cur, r) + Len(r)
      BY <2>5, <3>2
    <3>4. Hdr.k = "ok" => r[1].k = "ok" /\ Hdr.id = cur.id
      BY <2>4, <2>6
    <3> HIDE DEF L
    <3> QED BY <1>1, <2>1, <2>2, <2>3, <3>1, <3>3, <3>4, FinishStep
  <2> QED BY <2>7, <2>8
<1> QED BY <1>2, <1>3

\* ptp_usb_getresp has the parameters of the response.
LEMMA RespParamsStep ==
    ASSUME IndInv, StepInv, RespParams
    PROVE  StepInv'
<1>1. /\ pc = "return" /\ rd.stage = "resppar" /\ CurInv
      /\ UNCHANGED <<cur, ops, buf, fill, got, left, faulted, outq, inp, cam,
                     camq, done>>
  BY DEF RespParams, StepInv, camVars
<1>2. /\ pc' = "idle"
      /\ result' = [id |-> cur.id, rc |-> rd.hdr.k, from |-> rd.hdr.id,
                    data |-> got]
  BY DEF RespParams, Finish
<1>3. CASE faulted
  BY <1>1, <1>2, <1>3, FaultStep
<1>4. CASE ~faulted
  <2>1. Answering /\ Len(rd.dst) = rd.size /\ pc # "idle"
    BY <1>1, <1>4, EndRead
  <2> PICK r \in Replies(cur) : StageFits(r) /\ Holds(r) /\ Carried(r)
    BY <2>1 DEF Answering
  <2> DEFINE L == DataLen(cur, r)
  <2>2. /\ Len(r) \in Nat /\ rd.size \in Nat /\ L \in Nat /\ r[1].id = cur.id
    BY <1>1, <2>1, TransFacts, ReplyFacts
  <2>3. /\ rd.hdr = r[1] /\ rd.size + 1 = Len(r) /\ Start(r) = L + 1
    BY <1>1 DEF StageFits, Start, Base
  <2>4. Place(r) = (L + 1) + rd.size
    BY <2>1, <2>3 DEF Place
  <2>5. Place(r) = L + Len(r)
    <3> HIDE DEF L
    <3> QED BY <2>2, <2>3, <2>4
  <2>6. rd.hdr.k = "ok" => r[1].k = "ok" /\ rd.hdr.id = cur.id
    BY <2>2, <2>3
  <2> QED BY <1>1, <1>2, <1>4, <2>1, <2>5, <2>6, FinishStep
<1> QED BY <1>3, <1>4
-----------------------------------------------------------------------------
(***************************************************************************)
(* A transaction begins, and the host writes.                              *)
(***************************************************************************)
\* What has been returned stays true when the camera does more.
LEMMA ResultKept ==
    ASSUME OwnResult, UNCHANGED <<result, ops, faulted>>, done \subseteq done'
    PROVE  OwnResult'
BY DEF OwnResult, Payload, DataContainer

\* A transaction begins with nothing on its way.
LEMMA TransactionStep ==
    ASSUME IndInv, StepInv, NEW op \in Ops, Transaction(op)
    PROVE  StepInv'
<1>1. /\ pc = "idle" /\ pc' = "sendreq" /\ got' = <<>>
      /\ cur' = [id |-> Len(ops), op |-> op] /\ ops' = Append(ops, op)
      /\ UNCHANGED <<buf, rd, fill, result, faulted, outq, inp, cam, camq, done>>
  BY DEF Transaction, camVars
<1>2. /\ ops \in Seq(Ops) /\ Len(ops) \in Nat /\ result.id \in Nat
      /\ \A d \in done : d.id \in Nat
  <2>1. ops \in Seq(Ops) /\ result.id \in Nat /\ \A d \in done : d.id \in Nat
    BY DEF IndInv, TypeOK
  <2> QED BY <2>1, LenProperties
<1>3. /\ Len(ops') = Len(ops) + 1 /\ ops'[Len(ops) + 1] = op
      /\ \A i \in 1..Len(ops) : ops'[i] = ops[i]
  BY <1>1, <1>2, AppendProperties
<1>4. CurInv'
  <2>1. Len(ops') = cur'.id + 1 /\ ops'[cur'.id + 1] = cur'.op
    BY <1>1, <1>3
  <2>2. \A k \in Nat : k < Len(ops) => k < Len(ops')
    BY <1>2, <1>3
  <2>3. \A d \in done' : d.id < Len(ops')
    BY <1>1, <1>2, <2>2 DEF StepInv, CurInv
  <2>4. result'.rc # "none" => result'.id < Len(ops')
    BY <1>1, <1>2, <2>2 DEF StepInv, CurInv
  <2> QED BY <2>1, <2>3, <2>4 DEF CurInv
<1>5. ASSUME ~faulted
      PROVE  Quiet' /\ Unanswered'
  <2>1. Quiet
    BY <1>1, <1>5 DEF StepInv, LockStep, Asking, HostAsks, Answering, Reading
  <2>2. cur'.id \notin {d.id : d \in done'}
    <3>1. \A d \in done : d.id # Len(ops)
      BY <1>2 DEF StepInv, CurInv
    <3> QED BY <3>1, <1>1
  <2> QED BY <1>1, <2>1, <2>2 DEF Quiet, Unanswered, DoneIds
<1>6. ASSUME ~faulted
      PROVE  OwnResult'
  <2>1. SUFFICES ASSUME result.rc = "ok"
                 PROVE  /\ result.from = result.id
                        /\ [id |-> result.id, n |-> IF ops'[result.id+1].phase = "send"
                              THEN ops'[result.id+1].size + 1 ELSE 0] \in done
                        /\ result.data = IF ops'[result.id+1].phase = "get"
                              THEN Payload(result.id)' ELSE <<>>
    BY <1>1 DEF OwnResult
  <2>2. result.id + 1 \in 1..Len(ops)
    <3>1. result.id < Len(ops)
      BY <2>1 DEF StepInv, CurInv
    <3> QED BY <3>1, <1>2
  <2>3. ops'[result.id + 1] = ops[result.id + 1]
    BY <2>2, <1>3
  <2>4. Payload(result.id)' = Payload(result.id)
    BY <1>1, <2>3 DEF Payload, DataContainer
  <2> QED BY <2>1, <2>3, <2>4, <1>6 DEF StepInv, OwnResult
<1> QED BY <1>1, <1>4, <1>5, <1>6 DEF StepInv, LockStep

\* What the camera has to hear when the host has written the packets ps more.
LEMMA MoreToHear ==
    ASSUME IndInv, StepInv, ~faulted, Asking, cur.op.phase = "send",
           NEW ps \in Seq(OutMsg),
           outq' = outq \o ps, UNCHANGED <<cur, cam>>,
           \A q \in Seq(OutMsg), n \in Nat :
              Sent(q, n, cur, pc) => Sent(q \o ps, n, cur, pc')
    PROVE  CamHears'
<1>1. outq \in Seq(OutMsg) /\ cam.n \in Nat
  BY DEF IndInv, TypeOK, OutMsg
<1>2. CASE /\ cam.st = "ready" /\ outq # <<>> /\ Head(outq) = Command(cur)
           /\ Sent(Tail(outq), 0, cur, pc)
  <2>1. /\ outq \o ps # <<>> /\ Head(outq \o ps) = Head(outq)
        /\ Tail(outq \o ps) = Tail(outq) \o ps /\ Tail(outq) \in Seq(OutMsg)
    <3>1. /\ outq \o ps \in Seq(OutMsg) /\ Len(outq \o ps) = Len(outq) + Len(ps)
          /\ \A i \in 1..Len(outq) : (outq \o ps)[i] = outq[i]
          /\ \A i \in 1..Len(ps) : (outq \o ps)[Len(outq) + i] = ps[i]
      BY <1>1, ConcatProperties
    <3> QED BY <1>1, <1>2, <3>1
  <2>2. Sent(Tail(outq) \o ps, 0, cur, pc')
    BY <1>2, <2>1
  <2> QED BY <1>2, <2>1, <2>2 DEF CamHears
<1>3. CASE cam.st = "recv" /\ cam.id = cur.id /\ Sent(outq, cam.n, cur, pc)
  <2>1. Sent(outq \o ps, cam.n, cur, pc')
    BY <1>1, <1>3
  <2> QED BY <1>3, <2>1 DEF CamHears
<1> QED BY <1>2, <1>3 DEF Asking, CamHears

\* The request has been written.
LEMMA SendReqStep ==
    ASSUME IndInv, StepInv, SendReq
    PROVE  StepInv'
<1>1. /\ pc = "sendreq" /\ CurInv
      /\ UNCHANGED <<cur, ops, buf, fill, got, left, inp, cam, camq, done>>
  BY DEF SendReq, StepInv, camVars
<1>2. CASE faulted'
  <2>1. result' = result \/ Abort("io")
    BY DEF SendReq, WriteFails
  <2>2. Abort("io") => result'.id = cur.id
    BY DEF Abort, Finish
  <2> QED BY <1>1, <1>2, <2>1, <2>2, FaultStep
<1>3. CASE ~faulted'
  <2>1. outq' = outq \o <<Command(cur)>> /\ AfterSend /\ UNCHANGED <<result, faulted>>
    BY <1>3 DEF SendReq, WriteFails, Abort, Command
  <2>2. ~faulted /\ Quiet /\ Unanswered
    BY <1>1, <1>3, <2>1 DEF StepInv, LockStep, Asking, HostAsks, Answering, Reading
  <2>3. cur.op.phase \in {"none", "send", "get"}
    BY <1>1, TransFacts
  <2>4. outq' = <<Command(cur)>>
    <3>1. outq = <<>>
      BY <2>2 DEF Quiet
    <3> QED BY <2>1, <3>1
  <2>5. HostAsks'
    <3>1. CASE cur.op.phase = "send"
      BY <1>1, <2>1, <3>1 DEF AfterSend, HostAsks
    <3>2. CASE cur.op.phase = "get"
      <4>1. StartRead("datahdr", 1)
        BY <2>1, <3>2 DEF AfterSend
      <4> QED BY <1>1, <3>2, <4>1, StartReadFacts DEF HostAsks
    <3>3. CASE cur.op.phase = "none"
      <4>1. StartRead("resphdr", 1)
        BY <2>1, <3>3 DEF AfterSend
      <4> QED BY <1>1, <3>3, <4>1, StartReadFacts DEF HostAsks
    <3> QED BY <2>3, <3>1, <3>2, <3>3
  <2>6. CamHears'
    <3>1. cam' = cam /\ cam.st = "ready" /\ cur' = cur
      BY <1>1, <2>2 DEF Quiet
    <3>2. CASE cur.op.phase = "send"
      <4>1. pc' = "senddata"
        BY <2>1, <3>2 DEF AfterSend
      <4>2. Sent(<<>>, 0, cur, "senddata")
        <5>1. Len(<<>>) = 0 /\ Off(0 + 1) = 0
          BY OffFacts
        <5> QED BY <5>1 DEF Sent, DataWritten
      <4>3. outq' # <<>> /\ Head(outq') = Command(cur) /\ Tail(outq') = <<>>
        BY <2>4
      <4> QED BY <3>1, <3>2, <4>1, <4>2, <4>3 DEF CamHears
    <3>3. CASE cur.op.phase # "send"
      BY <2>4, <3>1, <3>3 DEF CamHears
    <3> QED BY <3>2, <3>3
  <2>7. Unanswered'
    BY <1>1, <2>2 DEF Unanswered, DoneIds
  <2>8. CurInv' /\ OwnResult'
    BY <1>1, <2>1, <2>2, CurKept, ResultKept DEF StepInv
  <2> QED BY <2>5, <2>6, <2>7, <2>8 DEF StepInv, LockStep, Asking
<1> QED BY <1>2, <1>3
-----------------------------------------------------------------------------
(***************************************************************************)
(* The packets of the data container that the camera has still to take.    *)
(***************************************************************************)
\* The number of tokens in i full packets.
LEMMA OffMult ==
    ASSUME NEW i \in Nat
    PROVE  Off(i + 1) = PacketLen * i /\ Off(i + 1) \in Nat
<1>1. Off(i + 1) \in Nat
  BY OffFacts
<1>2. Off(i + 1) = PacketLen * i
  BY PacketLenAssumption DEF Off
<1> QED BY <1>1, <1>2

\* The smaller of two lengths.
LEMMA MinFacts ==
    ASSUME NEW a \in Int, NEW b \in Int
    PROVE  /\ b >= a => MinOf(a, b) = a
           /\ b <= a => MinOf(a, b) = b
BY DEF MinOf

\* Two sequences of packets, one after the other.
LEMMA JoinedPackets ==
    ASSUME NEW q \in Seq(OutMsg), NEW s \in Seq(OutMsg)
    PROVE  /\ q \o s \in Seq(OutMsg) /\ Len(q) \in Nat /\ Len(s) \in Nat
           /\ Len(q \o s) = Len(q) + Len(s)
           /\ \A i \in 1..Len(q \o s) :
                 \/ i \in 1..Len(q) /\ (q \o s)[i] = q[i]
                 \/ \E j \in 1..Len(s) : i = Len(q) + j /\ (q \o s)[i] = s[j]
<1>1. Len(q) \in Nat /\ Len(s) \in Nat
  BY LenProperties
<1>2. /\ q \o s \in Seq(OutMsg) /\ Len(q \o s) = Len(q) + Len(s)
      /\ \A i \in 1..Len(q) + Len(s) :
            (q \o s)[i] = IF i <= Len(q) THEN q[i] ELSE s[i - Len(q)]
  BY ConcatProperties
<1>3. ASSUME NEW i \in 1..Len(q) + Len(s)
      PROVE  \/ i \in 1..Len(q) /\ (q \o s)[i] = q[i]
             \/ \E j \in 1..Len(s) : i = Len(q) + j /\ (q \o s)[i] = s[j]
  <2>1. CASE i <= Len(q)
    BY <1>1, <1>2, <1>3, <2>1
  <2>2. CASE ~(i <= Len(q))
    <3>1. i - Len(q) \in 1..Len(s) /\ i = Len(q) + (i - Len(q))
      BY <1>1, <1>3, <2>2
    <3>2. (q \o s)[i] = s[i - Len(q)]
      BY <1>2, <1>3, <2>2
    <3> QED BY <3>1, <3>2
  <2> QED BY <2>1, <2>2
<1> QED BY <1>1, <1>2, <1>3

\* The first packet of the data container.
LEMMA SentFirst ==
    ASSUME NEW x \in Trans, NEW q \in Seq(OutMsg), NEW n \in Nat,
           Sent(q, n, x, "senddata"),
           NEW k, k = MinOf(x.op.size, PacketLen - 1) + 1,
           Piece(x, k) \in OutMsg,
           NEW t \in {"sendrest", "sendzlp", "take"},
           t = "sendrest" <=> x.op.size > PacketLen - 1,
           t = "sendzlp" => (x.op.size + 1) % PacketLen = 0,
           t = "take" => (x.op.size + 1) % PacketLen # 0
    PROVE  Sent(q \o <<Piece(x, k)>>, n, x, t)
<1> DEFINE m == x.op.size
           W == DataWritten(x, t)
           s == <<Piece(x, k)>>
<1>1. m \in Nat /\ PacketLen \in Nat /\ PacketLen >= 2 /\ Len(q) \in Nat
  BY PacketLenAssumption, LenProperties DEF Trans, Op
<1>2. n = 0 /\ Len(q) = 0
  <2>1. n <= 0 /\ 0 - n = Off(Len(q) + 1)
    BY DEF Sent, DataWritten
  <2>2. n = 0 /\ Off(Len(q) + 1) = 0
    BY <2>1
  <2>3. Len(q) # 0 => Off(Len(q) + 1) >= Off(0 + 1) + PacketLen
    <3>1. Len(q) # 0 => 0 < Len(q)
      BY <1>1
    <3>2. \A j \in Nat : 0 < j => Off(j + 1) >= Off(0 + 1) + PacketLen
      BY OffMono
    <3> QED BY <3>1, <3>2, <1>1
  <2>4. Off(0 + 1) = 0
    BY OffFacts
  <2> QED BY <1>1, <2>2, <2>3, <2>4
<1>3. q \o s = s /\ Len(s) = 1 /\ s[1] = Piece(x, k)
  <2>1. q = <<>> /\ s \in Seq(OutMsg)
    BY <1>2, EmptySeq
  <2> QED BY <2>1, ConcatEmptySeq
<1>4. W \in Nat /\ k = MinOf(PacketLen, W) /\ W >= 0
      /\ W = IF t = "sendrest" THEN PacketLen ELSE m + 1
  <2>1. W = IF t = "sendrest" THEN PacketLen ELSE m + 1
    BY DEF DataWritten
  <2> HIDE DEF W, m
  <2>2. k = MinOf(m, PacketLen - 1) + 1
    BY DEF m
  <2>3. CASE m > PacketLen - 1
    <3>1. W = PacketLen
      BY <2>1, <2>3 DEF m
    <3> QED BY <3>1, <2>1, <2>2, <2>3, <1>1 DEF MinOf
  <2>4. CASE ~(m > PacketLen - 1)
    <3>1. W = m + 1
      BY <2>1, <2>4 DEF m
    <3> QED BY <3>1, <2>1, <2>2, <2>4, <1>1 DEF MinOf
  <2> QED BY <2>3, <2>4
<1>5. Off(1) = 0 /\ Off(1 + 1) = PacketLen
  BY OffFacts
<1>6. ASSUME NEW i \in 1..Len(s)
      PROVE  s[i] = Piece(x, MinOf(PacketLen, W - n - Off(i)))
  <2>1. i = 1
    BY <1>3, <1>6
  <2>2. W - n - Off(i) = W
    <3> HIDE DEF W
    <3> QED BY <1>2, <1>4, <1>5, <2>1
  <2> HIDE DEF W
  <2> QED BY <1>3, <1>4, <2>1, <2>2
<1>7. CASE t \in {"sendrest", "sendzlp"}
  <2>1. W = PacketLen
    <3>1. CASE t = "sendrest"
      BY <1>4, <3>1
    <3>2. CASE t = "sendzlp"
      <4>1. (m + 1) % PacketLen = 0 /\ m + 1 <= PacketLen
        BY <3>2, <1>1
      <4>2. m + 1 >= PacketLen
        <5>1. m + 1 \in Nat /\ m + 1 > 0
          BY <1>1
        <5> HIDE DEF m
        <5> QED BY <4>1, <5>1, WholePackets
      <4> QED BY <1>1, <1>4, <3>2, <4>1, <4>2
    <3> QED BY <1>7, <3>1, <3>2
  <2>2. n <= W /\ W - n = Off(Len(s) + 1)
    <3> HIDE DEF W, s
    <3> QED BY <1>1, <1>2, <1>3, <1>5, <2>1
  <2> QED BY <1>3, <1>6, <1>7, <2>2 DEF Sent
<1>8. CASE t = "take"
  <2>1. W < PacketLen
    <3>1. W = m + 1 /\ m + 1 <= PacketLen /\ (m + 1) % PacketLen # 0
      BY <1>1, <1>4, <1>8
    <3>2. PacketLen % PacketLen = 0
      <4>1. PacketLen * 1 = PacketLen
        BY <1>1
      <4> QED BY <4>1, MultMod
    <3>3. m + 1 # PacketLen
      BY <3>1, <3>2
    <3> HIDE DEF W, m
    <3> QED BY <3>1, <3>3, <1>1
  <2>2. n <= W /\ Off(Len(s)) <= W - n /\ W - n < Off(Len(s) + 1)
    <3> HIDE DEF W, s
    <3> QED BY <1>1, <1>2, <1>3, <1>4, <1>5, <2>1
  <2>3. s # <<>>
    OBVIOUS
  <2> QED BY <1>3, <1>6, <1>8, <2>2, <2>3 DEF Sent
<1> QED BY <1>7, <1>8

\* The zero length packet behind a data container of full packets.
LEMMA SentZlp ==
    ASSUME NEW x \in Trans, NEW q \in Seq(OutMsg), NEW n \in Nat,
           Sent(q, n, x, "sendzlp"), Piece(x, 0) \in OutMsg
    PROVE  Sent(q \o <<Piece(x, 0)>>, n, x, "take")
<1> DEFINE W == x.op.size + 1
           s == <<Piece(x, 0)>>
<1>1. /\ x.op.size \in Nat /\ W \in Nat /\ PacketLen \in Nat /\ PacketLen >= 2
      /\ DataWritten(x, "sendzlp") = W /\ DataWritten(x, "take") = W
  BY PacketLenAssumption DEF Trans, Op, DataWritten
<1>2. s \in Seq(OutMsg) /\ Len(s) = 1 /\ s[1] = Piece(x, 0)
  OBVIOUS
<1> HIDE DEF s, W
<1>3. /\ q \o s \in Seq(OutMsg) /\ Len(q) \in Nat
      /\ Len(q \o s) = Len(q) + 1
      /\ \A i \in 1..Len(q \o s) :
            \/ i \in 1..Len(q) /\ (q \o s)[i] = q[i]
            \/ \E j \in 1..Len(s) : i = Len(q) + j /\ (q \o s)[i] = s[j]
  <2>1. /\ q \o s \in Seq(OutMsg) /\ Len(q) \in Nat
        /\ Len(q \o s) = Len(q) + Len(s)
        /\ \A i \in 1..Len(q \o s) :
              \/ i \in 1..Len(q) /\ (q \o s)[i] = q[i]
              \/ \E j \in 1..Len(s) : i = Len(q) + j /\ (q \o s)[i] = s[j]
    BY <1>2, JoinedPackets, Zenon
  <2> QED BY <1>2, <2>1, Zenon
<1>4. /\ n <= W /\ W - n = Off(Len(q) + 1)
      /\ \A i \in 1..Len(q) : q[i] = Piece(x, MinOf(PacketLen, W - n - Off(i)))
  BY <1>1 DEF Sent
<1>5. Off(Len(q) + 1) \in Nat /\ Off(Len(q) + 2) = Off(Len(q) + 1) + PacketLen
  BY <1>3, OffFacts
<1>6. ASSUME NEW i \in 1..Len(q \o s)
      PROVE  (q \o s)[i] = Piece(x, MinOf(PacketLen, W - n - Off(i)))
  <2>1. CASE i \in 1..Len(q) /\ (q \o s)[i] = q[i]
    BY <2>1, <1>4
  <2>2. CASE \E j \in 1..Len(s) : i = Len(q) + j /\ (q \o s)[i] = s[j]
    <3>1. i = Len(q) + 1 /\ (q \o s)[i] = Piece(x, 0)
      BY <2>2, <1>2
    <3>2. W - n - Off(i) = 0
      BY <3>1, <1>1, <1>4, <1>5
    <3>3. MinOf(PacketLen, 0) = 0
      BY <1>1 DEF MinOf
    <3> QED BY <3>1, <3>2, <3>3
  <2> QED BY <1>3, <1>6, <2>1, <2>2
<1>7. /\ Len(q \o s) = Len(q) + 1 /\ Len(q \o s) + 1 = Len(q) + 2
      /\ q \o s # <<>>
  <2>1. Len(q \o s) # 0
    BY <1>3
  <2> QED BY <1>3, <2>1
<1>8. Off(Len(q \o s)) <= W - n /\ W - n < Off(Len(q \o s) + 1)
  BY <1>1, <1>4, <1>5, <1>7
<1> QED BY <1>1, <1>4, <1>6, <1>7, <1>8 DEF Sent, s

\* The rest of the data container in packets, d full ones and m tokens.
LEMMA RestParts ==
    ASSUME NEW k \in Nat, k >= PacketLen
    PROVE  /\ k - (PacketLen - 1) \in Nat
           /\ (k - (PacketLen - 1)) \div PacketLen \in Nat
           /\ (k - (PacketLen - 1)) % PacketLen \in 0..PacketLen-1
           /\ k + 1 = PacketLen + Off(((k - (PacketLen - 1)) \div PacketLen) + 1)
                         + ((k - (PacketLen - 1)) % PacketLen)
           /\ (k - (PacketLen - 1)) % PacketLen = 0 <=> (k + 1) % PacketLen = 0
<1> DEFINE rest == k - (PacketLen - 1)
           d == rest \div PacketLen
           m == rest % PacketLen
           W == k + 1
<1>1. PacketLen \in Nat /\ PacketLen >= 2
  BY PacketLenAssumption
<1>2. rest \in Nat /\ W = rest + PacketLen /\ W \in Nat /\ W > 0
  BY <1>1
<1> HIDE DEF rest
<1>3. d \in Nat /\ m \in 0..PacketLen-1 /\ rest = PacketLen * d + m
  BY <1>2, DivMod
<1> HIDE DEF d, m, W
<1>4. Off(d + 1) = PacketLen * d /\ Off(d + 1) \in Nat
  BY <1>3, OffMult
<1>5. W = PacketLen + Off(d + 1) + m
  BY <1>1, <1>2, <1>3, <1>4
<1>6. ASSUME W % PacketLen = 0 PROVE m = 0
  <2>1. (W - PacketLen) % PacketLen = 0
    BY <1>2, <1>6, WholePackets
  <2>2. W - PacketLen = rest
    BY <1>1, <1>2
  <2> QED BY <2>1, <2>2 DEF m
<1>7. ASSUME m = 0 PROVE W % PacketLen = 0
  <2>1. PacketLen * (d + 1) = PacketLen * d + PacketLen
    BY <1>1, <1>3
  <2>2. W = PacketLen * (d + 1)
    BY <1>1, <1>4, <1>5, <1>7, <2>1
  <2>3. d + 1 \in Nat
    BY <1>3
  <2> QED BY <2>2, <2>3, MultMod
<1> QED BY <1>2, <1>3, <1>5, <1>6, <1>7 DEF W, d, m, rest

\* The packets of d * PacketLen + m tokens of x.
RestPackets(ps, x, d, m) ==
    /\ ps \in Seq(OutMsg) /\ Len(ps) = IF m = 0 THEN d ELSE d + 1
    /\ \A i \in 1..Len(ps) : ps[i] = Piece(x, IF i <= d THEN PacketLen ELSE m)

\* The rest of the data container, behind its first packet.
LEMMA SentRest ==
    ASSUME NEW x \in Trans, NEW d \in Nat, NEW m \in 0..PacketLen-1,
           NEW W, W = x.op.size + 1, W = PacketLen + Off(d + 1) + m,
           NEW q \in Seq(OutMsg), NEW n \in Nat, Sent(q, n, x, "sendrest"),
           NEW ps, RestPackets(ps, x, d, m), NEW t \in {"sendzlp", "take"}, t = "sendzlp" <=> m = 0
    PROVE  Sent(q \o ps, n, x, t)
<1> DEFINE A == Off(Len(q) + 1)
           F == Off(d + 1)
           u == q \o ps
<1>1. /\ PacketLen \in Nat /\ PacketLen >= 2 /\ F \in Nat
      /\ W = PacketLen + F + m /\ W \in Nat /\ m \in Nat /\ m < PacketLen
      /\ DataWritten(x, "sendrest") = PacketLen /\ DataWritten(x, t) = W
  <2>1. PacketLen \in Nat /\ PacketLen >= 2 /\ F \in Nat
    BY PacketLenAssumption, OffFacts
  <2>2. m \in Nat /\ m < PacketLen
    BY <2>1
  <2>3. DataWritten(x, "sendrest") = PacketLen /\ DataWritten(x, t) = W
    BY DEF DataWritten
  <2> HIDE DEF F
  <2>4. W = PacketLen + F + m
    BY DEF F
  <2> QED BY <2>1, <2>2, <2>3, <2>4
<1>2. /\ u \in Seq(OutMsg) /\ Len(q) \in Nat /\ Len(ps) \in Nat
      /\ Len(u) = Len(q) + Len(ps)
      /\ \A i \in 1..Len(u) :
            \/ i \in 1..Len(q) /\ u[i] = q[i]
            \/ \E j \in 1..Len(ps) : i = Len(q) + j /\ u[i] = ps[j]
  BY JoinedPackets DEF RestPackets
<1>3. /\ n <= PacketLen /\ PacketLen - n = A /\ A \in Nat
  <2>1. A \in Nat
    BY <1>2, OffFacts
  <2> QED BY <2>1, <1>1 DEF Sent
<1>8. /\ n <= W /\ W - n = A + (F + m) /\ W - n \in Nat /\ F + m \in Nat
  <2> HIDE DEF A, F
  <2> QED BY <1>1, <1>3
<1>11. \A i \in 1..Len(q) :
         q[i] = Piece(x, MinOf(PacketLen, PacketLen - n - Off(i)))
  BY <1>1 DEF Sent
<1>12. /\ Len(ps) = IF m = 0 THEN d ELSE d + 1
      /\ \A i \in 1..Len(ps) : ps[i] = Piece(x, IF i <= d THEN PacketLen ELSE m)
  BY DEF RestPackets
<1>4. ASSUME NEW i \in 1..Len(q)
      PROVE  /\ MinOf(PacketLen, PacketLen - n - Off(i)) = PacketLen
             /\ MinOf(PacketLen, W - n - Off(i)) = PacketLen
  <2>1. i - 1 \in Nat /\ i - 1 < Len(q) /\ (i - 1) + 1 = i
    BY <1>2, <1>4
  <2>2. Off((i - 1) + 1) \in Nat
    BY <2>1, OffMult
  <2>3. A >= Off((i - 1) + 1) + PacketLen
    BY <2>1, <1>2, OffMono
  <2>4. Off(i) \in Nat /\ A >= Off(i) + PacketLen
    BY <2>1, <2>2, <2>3
  <2> HIDE DEF A, F
  <2>5. PacketLen - n - Off(i) \in Int /\ PacketLen - n - Off(i) >= PacketLen
    BY <2>4, <1>1, <1>3
  <2>6. W - n - Off(i) \in Int /\ W - n - Off(i) >= PacketLen
    BY <2>4, <1>1, <1>3
  <2>7. \A k \in Int : k >= PacketLen => MinOf(PacketLen, k) = PacketLen
    BY <1>1, MinFacts
  <2> QED BY <2>5, <2>6, <2>7
<1>5. ASSUME NEW j \in 1..Len(ps)
      PROVE  MinOf(PacketLen, W - n - Off(Len(q) + j))
                = IF j <= d THEN PacketLen ELSE m
  <2>1. /\ j - 1 \in Nat /\ (j - 1) + 1 = j /\ Len(q) + (j - 1) + 1 = Len(q) + j
    BY <1>2, <1>5
  <2>2. Off(Len(q) + (j - 1) + 1) = Off(Len(q) + 1) + Off((j - 1) + 1)
    BY <2>1, <1>2, OffSum
  <2>3. Off((j - 1) + 1) \in Nat
    BY <2>1, OffMult
  <2>4. Off(Len(q) + j) = A + Off(j) /\ Off(j) \in Nat
    BY <2>1, <2>2, <2>3
  <2>5. W - n - Off(Len(q) + j) = (F + m) - Off(j)
    <3>1. W - n = A + (F + m) /\ F + m \in Nat
      BY <1>8
    <3> HIDE DEF A, F
    <3>2. (A + (F + m)) - (A + Off(j)) = (F + m) - Off(j)
      BY <2>4, <1>3, <3>1
    <3> QED BY <2>4, <3>1, <3>2
  <2>6. CASE j <= d
    <3>1. F >= Off((j - 1) + 1) + PacketLen
      <4>1. j - 1 < d
        BY <2>1, <2>6, <1>5
      <4> QED BY <4>1, <2>1, OffMono
    <3>2. (F + m) - Off(j) >= PacketLen /\ (F + m) - Off(j) \in Int
      <4>1. F >= Off(j) + PacketLen
        BY <3>1, <2>1
      <4> HIDE DEF F
      <4>2. \A a, b, c, e \in Nat : a >= c + e => (a + b) - c >= e /\ (a + b) - c \in Int
        OBVIOUS
      <4> QED BY <4>1, <4>2, <2>4, <1>1, Zenon
    <3>3. MinOf(PacketLen, (F + m) - Off(j)) = PacketLen
      BY <3>2, <1>1, MinFacts
    <3> QED BY <3>3, <2>5, <2>6
  <2>7. CASE ~(j <= d)
    <3>1. j = d + 1
      BY <2>7, <1>5, <1>12
    <3>2. (F + m) - Off(j) = m
      <4>1. Off(j) = F
        BY <3>1
      <4> HIDE DEF F
      <4> QED BY <4>1, <1>1
    <3>3. MinOf(PacketLen, m) = m
      BY <1>1, MinFacts
    <3> QED BY <3>2, <3>3, <2>5, <2>7
  <2> QED BY <2>6, <2>7
<1>6. ASSUME NEW i \in 1..Len(u)
      PROVE  u[i] = Piece(x, MinOf(PacketLen, W - n - Off(i)))
  <2>1. CASE i \in 1..Len(q) /\ u[i] = q[i]
    <3>1. q[i] = Piece(x, MinOf(PacketLen, PacketLen - n - Off(i)))
      BY <2>1, <1>11
    <3> QED BY <3>1, <2>1, <1>4
  <2>2. ASSUME NEW j \in 1..Len(ps), i = Len(q) + j, u[i] = ps[j]
        PROVE  u[i] = Piece(x, MinOf(PacketLen, W - n - Off(i)))
    <3>1. ps[j] = Piece(x, IF j <= d THEN PacketLen ELSE m)
      BY <1>12
    <3> HIDE DEF u
    <3> QED BY <2>2, <3>1, <1>5
  <2> QED BY <1>2, <1>6, <2>1, <2>2
<1>7. Off(Len(u) + 1) = A + Off(Len(ps) + 1)
  <2>1. Off(Len(q) + Len(ps) + 1) = Off(Len(q) + 1) + Off(Len(ps) + 1)
    BY <1>2, OffSum
  <2>2. Len(u) + 1 = Len(q) + Len(ps) + 1
    BY <1>2, Zenon
  <2> QED BY <2>1, <2>2
<1>9. CASE t = "sendzlp"
  <2>1. Len(ps) = d /\ m = 0
    BY <1>9, <1>12
  <2>2. F + m = F
    <3> HIDE DEF F
    <3> QED BY <2>1, <1>1
  <2>3. W - n = Off(Len(u) + 1)
    BY <1>7, <1>8, <2>1, <2>2, Zenon
  <2> QED BY <1>1, <1>6, <1>8, <1>9, <2>3 DEF Sent
<1>10. CASE t = "take"
  <2>1. m # 0 /\ Len(ps) = d + 1
    BY <1>10, <1>12
  <2>2. Off(Len(u)) = A + F
    <3>1. Off(Len(q) + d + 1) = Off(Len(q) + 1) + Off(d + 1)
      BY <1>2, OffSum
    <3>2. Len(u) = Len(q) + d + 1
      <4>1. Len(u) = Len(q) + (d + 1)
        BY <1>2, <2>1, Zenon
      <4>2. \A a, b \in Nat : a + (b + 1) = a + b + 1
        OBVIOUS
      <4> QED BY <4>1, <4>2, <1>2, Zenon
    <3> QED BY <3>1, <3>2
  <2>3. Off(d + 2) = F + PacketLen /\ (d + 1) + 1 = d + 2
    BY OffFacts
  <2>4. Off(Len(u) + 1) = A + (F + PacketLen)
    BY <1>7, <2>1, <2>3
  <2>5. Off(Len(u)) <= W - n /\ W - n < Off(Len(u) + 1)
    <3> HIDE DEF F, A
    <3> QED BY <2>2, <2>4, <1>1, <1>3, <1>8
  <2>6. u # <<>>
    <3>1. ps # <<>>
      BY <2>1
    <3> QED BY <3>1, ConcatSimplifications
  <2> QED BY <1>1, <1>6, <1>8, <1>10, <2>5, <2>6 DEF Sent
<1> QED BY <1>9, <1>10
-----------------------------------------------------------------------------
(***************************************************************************)
(* The steps of the data phase from the host.                              *)
(***************************************************************************)
\* A write in the data phase, that goes on with the next write or the response.
LEMMA WriteMore ==
    ASSUME IndInv, StepInv, ~faulted, pc \in {"senddata", "sendrest", "sendzlp"},
           NEW ps \in Seq(OutMsg), outq' = outq \o ps,
           UNCHANGED <<cur, ops, buf, fill, got, inp, cam, camq, done, result,
                       faulted>>,
           \/ pc' \in {"sendrest", "sendzlp"}
           \/ StartRead("resphdr", 1),
           \A q \in Seq(OutMsg), n \in Nat :
              Sent(q, n, cur, pc) => Sent(q \o ps, n, cur, pc')
    PROVE  StepInv'
<1>1. Asking /\ cur.op.phase = "send"
  BY DEF StepInv, LockStep, Asking, HostAsks, Answering, Reading
<1>2. CamHears'
  BY <1>1, MoreToHear
<1>3. HostAsks'
  <2>1. CASE pc' \in {"sendrest", "sendzlp"}
    BY <1>1, <2>1 DEF HostAsks
  <2>2. CASE StartRead("resphdr", 1)
    BY <1>1, <2>2, StartReadFacts DEF HostAsks
  <2> QED BY <2>1, <2>2
<1>4. Unanswered'
  BY <1>1 DEF Asking, Unanswered, DoneIds
<1>5. CurInv' /\ OwnResult'
  BY CurKept, ResultKept DEF StepInv
<1> QED BY <1>2, <1>3, <1>4, <1>5 DEF StepInv, LockStep, Asking

\* One packet is written.
LEMMA PieceWritten ==
    ASSUME IndInv, pc # "idle", NEW n \in 0..PacketLen
    PROVE  Piece(cur, n) \in OutMsg /\ <<Piece(cur, n)>> \in Seq(OutMsg)
<1>1. cur.id \in Nat
  BY DEF IndInv, TypeOK
<1>2. Piece(cur, n) \in OutMsg
  BY <1>1 DEF Piece, OutMsg
<1> HIDE DEF Piece
<1> QED BY <1>2

\* The first packet of the data container has been written.
LEMMA SendDataStep ==
    ASSUME IndInv, StepInv, SendData
    PROVE  StepInv'
<1>1. /\ pc = "senddata" /\ CurInv
      /\ UNCHANGED <<cur, ops, buf, fill, got, left, inp, cam, camq, done>>
  BY DEF SendData, StepInv, camVars
<1>2. CASE faulted'
  <2>1. result' = result \/ Abort("io")
    BY DEF SendData, WriteFails
  <2>2. Abort("io") => result'.id = cur.id
    BY DEF Abort, Finish
  <2> QED BY <1>1, <1>2, <2>1, <2>2, FaultStep
<1>3. CASE ~faulted'
  <2> DEFINE k == MinOf(cur.op.size, PacketLen - 1) + 1
  <2>1. /\ outq' = outq \o <<Piece(cur, k)>>
        /\ IF cur.op.size > PacketLen - 1
           THEN pc' = "sendrest" /\ UNCHANGED rd
           ELSE AfterData
        /\ UNCHANGED <<result, faulted>>
    BY <1>3 DEF SendData, WriteFails, Abort, Piece, DataPacket, FirstLen
  <2>2. cur \in Trans /\ cur.op.size \in Nat
    BY <1>1, TransFacts
  <2>3. k \in 0..PacketLen
    BY <2>2, PacketLenAssumption DEF MinOf
  <2>4. Piece(cur, k) \in OutMsg /\ <<Piece(cur, k)>> \in Seq(OutMsg)
    BY <1>1, <2>3, PieceWritten
  <2>5. \/ pc' = "sendrest" /\ cur.op.size > PacketLen - 1
        \/ /\ ~(cur.op.size > PacketLen - 1)
           /\ \/ pc' = "sendzlp" /\ (cur.op.size + 1) % PacketLen = 0
              \/ StartRead("resphdr", 1) /\ (cur.op.size + 1) % PacketLen # 0
    BY <2>1 DEF AfterData, NeedsZlp
  <2>6. StartRead("resphdr", 1) => pc' = "take"
    BY StartReadFacts
  <2>7. ASSUME NEW q \in Seq(OutMsg), NEW n \in Nat, Sent(q, n, cur, pc)
        PROVE  Sent(q \o <<Piece(cur, k)>>, n, cur, pc')
    <3>1. Sent(q, n, cur, "senddata")
      BY <1>1, <2>7
    <3>2. /\ pc' \in {"sendrest", "sendzlp", "take"}
          /\ pc' = "sendrest" <=> cur.op.size > PacketLen - 1
          /\ pc' = "sendzlp" => (cur.op.size + 1) % PacketLen = 0
          /\ pc' = "take" => (cur.op.size + 1) % PacketLen # 0
      BY <2>5, <2>6
    <3> QED BY <2>2, <2>4, <2>7, <3>1, <3>2, SentFirst
  <2>8. ~faulted
    BY <1>3, <2>1
  <2>9. pc' \in {"sendrest", "sendzlp"} \/ StartRead("resphdr", 1)
    BY <2>5
  <2> HIDE DEF k
  <2> QED BY <1>1, <2>1, <2>4, <2>7, <2>8, <2>9, WriteMore
<1> QED BY <1>2, <1>3

\* The rest of the data container has been written.
LEMMA SendRestStep ==
    ASSUME IndInv, StepInv, SendRest
    PROVE  StepInv'
<1> DEFINE rest == cur.op.size - (PacketLen - 1)
           full == rest \div PacketLen
           short == IF rest % PacketLen = 0 THEN 0 ELSE 1
           m == rest % PacketLen
           ps == [i \in 1..(full + short) |->
                    DataPacket(IF i <= full THEN PacketLen ELSE m)]
<1>1. /\ pc = "sendrest" /\ CurInv
      /\ UNCHANGED <<cur, ops, buf, fill, got, left, inp, cam, camq, done>>
  BY DEF SendRest, StepInv, camVars
<1>2. \/ outq' = outq \o ps /\ AfterData /\ UNCHANGED <<result, faulted>>
      \/ WriteFails(ps)
  BY DEF SendRest
<1> HIDE DEF ps
<1>3. CASE faulted'
  <2>1. result' = result \/ Abort("io")
    BY <1>2 DEF WriteFails
  <2>2. Abort("io") => result'.id = cur.id
    BY DEF Abort, Finish
  <2> QED BY <1>1, <1>3, <2>1, <2>2, FaultStep
<1>4. CASE ~faulted'
  <2>1. outq' = outq \o ps /\ AfterData /\ UNCHANGED <<result, faulted>>
    BY <1>2, <1>4 DEF WriteFails, Abort
  <2>2. cur \in Trans /\ cur.op.size \in Nat /\ cur.op.size >= PacketLen
    BY <1>1, TransFacts DEF IndInv, IdsInv
  <2>3. /\ full \in Nat /\ m \in 0..PacketLen-1
        /\ cur.op.size + 1 = PacketLen + Off(full + 1) + m
        /\ m = 0 <=> (cur.op.size + 1) % PacketLen = 0
    <3>1. \A k \in Nat : k >= PacketLen =>
            /\ (k - (PacketLen - 1)) \div PacketLen \in Nat
            /\ (k - (PacketLen - 1)) % PacketLen \in 0..PacketLen-1
            /\ k + 1 = PacketLen + Off(((k - (PacketLen - 1)) \div PacketLen) + 1)
                          + ((k - (PacketLen - 1)) % PacketLen)
            /\ (k - (PacketLen - 1)) % PacketLen = 0 <=> (k + 1) % PacketLen = 0
      BY RestParts
    <3> QED BY <2>2, <3>1, Zenon
  <2> HIDE DEF full, m
  <2>4. /\ full + short \in Nat
        /\ full + short = IF m = 0 THEN full ELSE full + 1
    BY <2>3 DEF m
  <2> HIDE DEF short
  <2>5. \A i \in 1..(full + short) :
           DataPacket(IF i <= full THEN PacketLen ELSE m) \in OutMsg
    BY <1>1, <2>2, <2>3, PacketLenAssumption DEF DataPacket, OutMsg, Trans
  <2>6. /\ ps \in Seq(OutMsg) /\ Len(ps) = full + short
        /\ \A i \in 1..(full + short) :
              ps[i] = DataPacket(IF i <= full THEN PacketLen ELSE m)
    <3>1. ps \in Seq(OutMsg)
      BY <2>4, <2>5, IsASeq DEF ps
    <3>2. ps = [i \in 1..(full + short) |->
                  DataPacket(IF i <= full THEN PacketLen ELSE m)]
      BY DEF ps
    <3> QED BY <2>4, <3>1, <3>2
  <2>7. RestPackets(ps, cur, full, m)
    BY <2>4, <2>6 DEF RestPackets, DataPacket, Piece
  <2>8. \/ pc' = "sendzlp" /\ m = 0
        \/ StartRead("resphdr", 1) /\ m # 0
    BY <2>1, <2>3 DEF AfterData, NeedsZlp
  <2>9. StartRead("resphdr", 1) => pc' = "take"
    BY StartReadFacts
  <2>10. ASSUME NEW q \in Seq(OutMsg), NEW n \in Nat, Sent(q, n, cur, pc)
         PROVE  Sent(q \o ps, n, cur, pc')
    <3>1. Sent(q, n, cur, "sendrest")
      BY <1>1, <2>10
    <3>2. pc' \in {"sendzlp", "take"} /\ (pc' = "sendzlp" <=> m = 0)
      BY <2>8, <2>9
    <3> QED BY <2>2, <2>3, <2>7, <3>1, <3>2, SentRest
  <2>11. ~faulted
    BY <1>4, <2>1
  <2>12. pc' \in {"sendrest", "sendzlp"} \/ StartRead("resphdr", 1)
    BY <2>8
  <2> QED BY <1>1, <2>1, <2>6, <2>10, <2>11, <2>12, WriteMore
<1> QED BY <1>3, <1>4

\* The zero length packet has been written.
LEMMA SendZlpStep ==
    ASSUME IndInv, StepInv, SendZlp
    PROVE  StepInv'
<1>1. /\ pc = "sendzlp" /\ CurInv
      /\ UNCHANGED <<cur, ops, buf, fill, got, left, result, inp, cam, camq, done>>
      /\ StartRead("resphdr", 1)
  BY DEF SendZlp, StepInv, camVars
<1>2. CASE faulted'
  BY <1>1, <1>2, FaultStep
<1>3. CASE ~faulted'
  <2>1. outq' = Append(outq, Piece(cur, 0)) /\ UNCHANGED faulted
    BY <1>3 DEF SendZlp, DataPacket, Piece
  <2>2. Piece(cur, 0) \in OutMsg /\ <<Piece(cur, 0)>> \in Seq(OutMsg)
    BY <1>1, PieceWritten, PacketLenAssumption
  <2>3. outq' = outq \o <<Piece(cur, 0)>>
    <3>1. outq \in Seq(OutMsg)
      BY DEF IndInv, TypeOK, OutMsg
    <3> QED BY <2>1, <2>2, <3>1, AppendIsConcat
  <2>4. pc' = "take" /\ cur \in Trans
    BY <1>1, StartReadFacts, TransFacts
  <2>5. ASSUME NEW q \in Seq(OutMsg), NEW n \in Nat, Sent(q, n, cur, pc)
        PROVE  Sent(q \o <<Piece(cur, 0)>>, n, cur, pc')
    BY <1>1, <2>2, <2>4, <2>5, SentZlp
  <2> QED BY <1>1, <1>3, <2>1, <2>2, <2>3, <2>5, WriteMore
<1> QED BY <1>2, <1>3
-----------------------------------------------------------------------------
(***************************************************************************)
(* The steps of the camera.                                                *)
(***************************************************************************)
\* What was requested stays so when the camera carries out an operation.
LEMMA CurCarried ==
    ASSUME CurInv, UNCHANGED <<pc, cur, ops, result>>,
           \A d \in done' : d \in done \/ d.id < Len(ops)
    PROVE  CurInv'
BY DEF CurInv

\* Where the host is in an answer of which nothing is read.
LEMMA AtBegin ==
    ASSUME IndInv, CurInv, HostAsks, pc \in {"take", "fill"},
           got = <<>>, buf = Empty, fill = <<>>, NEW r \in Replies(cur)
    PROVE  /\ Reading /\ ReadFits /\ StageFits(r)
           /\ Start(r) = 0 /\ Place(r) = 0 /\ rd.dst = <<>> /\ buf.data = <<>>
<1>1. /\ rd.dst = <<>> /\ rd.size = 1
      /\ rd.stage = IF cur.op.phase = "get" THEN "datahdr" ELSE "resphdr"
      /\ pc = "fill" => rd.min = 1
  BY DEF HostAsks
<1>2. Reading /\ ReadFits
  BY <1>1 DEF Reading, ReadFits
<1>3. rd.stage = "resphdr" => cur.op.phase # "get" /\ DataLen(cur, r) = 0
  BY <1>1 DEF DataLen
<1>4. Len(<<>>) = 0
  OBVIOUS
<1>5. StageFits(r)
  BY <1>1, <1>3, <1>4 DEF StageFits
<1>6. Start(r) = 0
  BY <1>1, <1>3 DEF Start, Base
<1>7. Place(r) = 0 /\ buf.data = <<>>
  BY <1>1, <1>4, <1>6 DEF Place, Empty
<1> QED BY <1>1, <1>2, <1>5, <1>6, <1>7

\* The camera answers the operation the host waits for.
LEMMA ReplyStep ==
    ASSUME IndInv, StepInv, ~faulted, Asking, pc \in {"take", "fill"},
           NEW n \in Nat, n = CarriedOut(cur).n, Reply(cur.id, n),
           outq' = <<>>, UNCHANGED <<hostVars, inp>>
    PROVE  StepInv'
<1>1. CurInv /\ OwnResult /\ HostAsks /\ Unanswered /\ pc # "idle"
  BY DEF StepInv, Asking
<1>2. /\ cur \in Trans /\ cur = [id |-> cur.id, op |-> ops[cur.id + 1]]
      /\ cur.id \in Nat /\ cur.id < Len(ops) /\ ops \in Seq(Ops)
  BY <1>1, TransFacts
<1>3. PICK r \in Replies(cur) :
         /\ Cut(camq', cur, r, 0)
         /\ done' = IF r[1].k = "ok" THEN done \cup {[id |-> cur.id, n |-> n]}
                    ELSE done
  BY <1>2, ReplyAnswers
<1>4. /\ cam'.st = "reply" /\ camq' \in Seq(Packet) /\ camq' # <<>>
  BY <1>2, ReplyLemma
<1>5. /\ UNCHANGED <<pc, cur, ops, buf, rd, fill, got, left, result, faulted>>
      /\ inp' = <<>>
  BY <1>1 DEF hostVars, Unanswered
<1>6. /\ Reading /\ ReadFits /\ StageFits(r) /\ Start(r) = 0 /\ Place(r) = 0
      /\ rd.dst = <<>> /\ buf.data = <<>> /\ got = <<>>
  BY <1>1, AtBegin DEF Unanswered
<1>7. Reading' /\ ReadFits' /\ StageFits(r)' /\ Start(r)' = 0 /\ Place(r)' = 0
  BY <1>5, <1>6 DEF Reading, ReadFits, StageFits, Start, Place, Unread
<1>8. Holds(r)'
  <2>1. DataLen(cur, r) \in Nat /\ Len(r) \in Nat /\ Len(<<>>) = 0
    BY <1>2, ReplyFacts
  <2>2. At(<<>>, cur, r, 0)
    BY <2>1 DEF At
  <2>3. inp' \o camq' = camq'
    BY <1>4, <1>5, ConcatEmptySeq
  <2>4. /\ rd' = rd /\ got' = <<>> /\ buf'.data = <<>> /\ cur' = cur /\ rd.dst = <<>>
        /\ 0 + Len(<<>>) = 0
    BY <1>5, <1>6, <2>1
  <2> QED BY <1>3, <1>4, <1>7, <2>2, <2>3, <2>4 DEF Holds
<1>9. Carried(r)'
  <2>1. CarriedOut(cur) = [id |-> cur.id, n |-> n]
    BY DEF CarriedOut
  <2>2. cur.id \notin DoneIds
    BY <1>1 DEF Unanswered
  <2> QED BY <1>3, <1>5, <2>1, <2>2 DEF Carried, CarriedOut, DoneIds
<1>10. Answering'
  BY <1>3, <1>4, <1>5, <1>7, <1>8, <1>9 DEF Answering
<1>11. CurInv'
  <2>1. \A d \in done' : d \in done \/ d.id < Len(ops)
    BY <1>2, <1>3
  <2> QED BY <1>1, <1>5, <2>1, CurCarried
<1>12. OwnResult'
  BY <1>1, <1>3, <1>5, ResultKept
<1> QED BY <1>10, <1>11, <1>12 DEF StepInv, LockStep

\* The camera takes a message while it listens.
LEMMA CamCommandStep ==
    ASSUME IndInv, StepInv, CamCommand
    PROVE  StepInv'
<1> DEFINE m == Head(outq)
<1>1. /\ cam.st = "ready" /\ outq # <<>> /\ outq' = Tail(outq)
      /\ UNCHANGED <<hostVars, inp>> /\ CurInv
      /\ UNCHANGED <<pc, cur, ops, buf, rd, fill, got, left, result, faulted>>
  BY DEF CamCommand, StepInv, hostVars
<1>2. m \in OutMsg /\ m.id < Len(ops) /\ m.id \in Nat
  <2>1. m \in OutMsg /\ m.id < Len(ops)
    BY <1>1, OutHead
  <2> QED BY <2>1 DEF OutMsg
<1>3. \/ m.k = "pkt" /\ UNCHANGED camVars
      \/ /\ m.k = "cmd" /\ ops[m.id + 1].phase = "send"
         /\ cam' = [st |-> "recv", id |-> m.id, n |-> 0]
         /\ UNCHANGED <<camq, done>>
      \/ m.k = "cmd" /\ ops[m.id + 1].phase # "send" /\ Reply(m.id, 0)
  <2>1. m.k \in {"cmd", "pkt"}
    BY <1>2 DEF OutMsg
  <2> QED BY <2>1 DEF CamCommand
<1> HIDE DEF m
<1>4. CurInv'
  <2>1. \A d \in done' : d \in done \/ d.id < Len(ops)
    <3>1. CASE UNCHANGED done
      BY <3>1
    <3>2. CASE Reply(m.id, 0)
      BY <1>2, <3>2 DEF Reply
    <3> QED BY <1>3, <3>1, <3>2 DEF camVars
  <2> QED BY <1>1, <2>1, CurCarried
<1>5. ASSUME ~faulted
      PROVE  StepInv'
  <2>1. Asking /\ pc # "idle" /\ OwnResult
    BY <1>1, <1>5 DEF StepInv, LockStep, Quiet, Answering, Asking, HostAsks
  <2>2. /\ cur.op = ops[cur.id + 1] /\ cur.id \in Nat /\ cur.op.size \in Nat
    BY <1>1, <2>1, TransFacts DEF CurInv
  <2>3. m = Command(cur) /\ m.k = "cmd" /\ m.id = cur.id
    <3>1. m = Command(cur)
      BY <1>1, <2>1 DEF Asking, CamHears, m
    <3> QED BY <3>1 DEF Command
  <2>4. CASE cur.op.phase = "send"
    <3>1. /\ cam' = [st |-> "recv", id |-> cur.id, n |-> 0]
          /\ UNCHANGED <<camq, done>>
      BY <1>3, <2>2, <2>3, <2>4
    <3>2. Sent(Tail(outq), 0, cur, pc)
      BY <1>1, <2>1, <2>4 DEF Asking, CamHears
    <3>3. CamHears'
      BY <1>1, <2>4, <3>1, <3>2 DEF CamHears
    <3>4. HostAsks' /\ Unanswered'
      BY <1>1, <2>1, <3>1 DEF Asking, HostAsks, Unanswered, DoneIds
    <3>5. OwnResult'
      BY <1>1, <2>1, <3>1, ResultKept
    <3> QED BY <1>4, <3>3, <3>4, <3>5 DEF StepInv, LockStep, Asking
  <2>5. CASE cur.op.phase # "send"
    <3>1. Reply(cur.id, 0)
      BY <1>3, <2>2, <2>3, <2>5
    <3>2. outq' = <<>>
      <4>1. outq = <<Command(cur)>>
        BY <2>1, <2>5 DEF Asking, CamHears
      <4> QED BY <4>1, <1>1
    <3>3. pc \in {"take", "fill"}
      BY <2>1, <2>5 DEF Asking, HostAsks
    <3>4. 0 = CarriedOut(cur).n /\ 0 \in Nat
      BY <2>5 DEF CarriedOut
    <3> QED BY <1>1, <1>5, <2>1, <3>1, <3>2, <3>3, <3>4, ReplyStep
  <2> QED BY <2>4, <2>5
<1> QED BY <1>1, <1>4, <1>5 DEF StepInv

\* The next packet of the data container is a full one, or the last.
LEMMA SentTake ==
    ASSUME NEW x \in Trans, NEW q \in Seq(OutMsg), q # <<>>, NEW n \in Nat,
           NEW p, Sent(q, n, x, p)
    PROVE  /\ Head(q).k = "pkt"
           /\ \/ Head(q).n = PacketLen /\ Sent(Tail(q), n + PacketLen, x, p)
              \/ /\ Head(q).n < PacketLen /\ Tail(q) = <<>>
                 /\ p \notin {"senddata", "sendrest", "sendzlp"}
                 /\ n + Head(q).n = x.op.size + 1
<1> DEFINE W == DataWritten(x, p)
           R == W - n
           L == Len(q)
           t == Tail(q)
<1>1. /\ W \in Nat /\ PacketLen \in Nat /\ PacketLen >= 2
      /\ p \notin {"senddata", "sendrest", "sendzlp"} => W = x.op.size + 1
  BY PacketLenAssumption DEF DataWritten, Trans, Op
<1>2. /\ L \in Nat /\ L >= 1 /\ Head(q) = q[1]
      /\ t \in Seq(OutMsg) /\ Len(t) = L - 1 /\ Len(t) \in Nat
      /\ \A i \in 1..L - 1 : t[i] = q[i + 1]
      /\ t = <<>> <=> L = 1
  <2>1. /\ Head(q) = q[1] /\ t \in Seq(OutMsg) /\ Len(t) = L - 1
        /\ \A i \in 1..Len(t) : t[i] = q[i + 1]
    BY HeadTailProperties
  <2>2. L \in Nat /\ L # 0 /\ Len(t) \in Nat
    BY <2>1, LenProperties, EmptySeq
  <2>3. t = <<>> <=> Len(t) = 0
    BY <2>1, EmptySeq
  <2> HIDE DEF t, L
  <2> QED BY <2>1, <2>2, <2>3
<1>3. /\ n <= W
      /\ \A i \in 1..L : q[i] = Piece(x, MinOf(PacketLen, R - Off(i)))
      /\ IF p \in {"senddata", "sendrest", "sendzlp"} THEN R = Off(L + 1)
         ELSE Off(L) <= R /\ R < Off(L + 1)
  BY DEF Sent
<1> HIDE DEF W, L, t
<1>4. R \in Nat /\ W = n + R
  BY <1>1, <1>3
<1> HIDE DEF R
<1>5. /\ Off(1) = 0 /\ Off(2) = PacketLen
      /\ \A i \in 1..L : Off(i) \in Nat /\ Off(i + 1) = Off(i) + PacketLen
  <2>1. ASSUME NEW i \in 1..L PROVE Off(i) \in Nat /\ Off(i + 1) = Off(i) + PacketLen
    <3>1. i - 1 \in Nat /\ (i - 1) + 1 = i /\ (i - 1) + 2 = i + 1
      BY <1>2
    <3>2. Off((i - 1) + 1) \in Nat /\ Off((i - 1) + 2) = Off((i - 1) + 1) + PacketLen
      BY <3>1, OffFacts
    <3> QED BY <3>1, <3>2
  <2> QED BY <2>1, OffFacts
<1>6. Head(q) = Piece(x, MinOf(PacketLen, R))
  <2>1. 1 \in 1..L /\ R - Off(1) = R
    BY <1>2, <1>4, <1>5
  <2> QED BY <2>1, <1>2, <1>3
<1>7. Head(q).k = "pkt" /\ Head(q).n = MinOf(PacketLen, R)
  BY <1>6 DEF Piece
<1>8. L \in 1..L /\ Off(L) \in Nat /\ Off(L + 1) = Off(L) + PacketLen
  BY <1>2, <1>5
<1>9. ASSUME R >= PacketLen,
             IF p \in {"senddata", "sendrest", "sendzlp"} THEN R = Off(L + 1)
             ELSE L >= 2 /\ Off(L) <= R /\ R < Off(L + 1)
      PROVE  Head(q).n = PacketLen /\ Sent(t, n + PacketLen, x, p)
  <2>1. Head(q).n = PacketLen
    BY <1>1, <1>4, <1>7, <1>9, MinFacts
  <2>2. n + PacketLen <= W /\ W - (n + PacketLen) = R - PacketLen
    BY <1>1, <1>4, <1>9
  <2>3. ASSUME NEW i \in 1..Len(t)
        PROVE  t[i] = Piece(x, MinOf(PacketLen, W - (n + PacketLen) - Off(i)))
    <3>1. i \in 1..L - 1 /\ i \in 1..L /\ i + 1 \in 1..L
      BY <1>2, <2>3
    <3>2. Off(i) \in Nat /\ Off(i + 1) = Off(i) + PacketLen
      BY <3>1, <1>5
    <3>3. R - Off(i + 1) = W - (n + PacketLen) - Off(i)
      BY <3>2, <2>2, <1>1, <1>4
    <3> QED BY <3>1, <3>3, <1>2, <1>3
  <2>4. Len(t) + 1 = L
    BY <1>2
  <2>5. CASE p \in {"senddata", "sendrest", "sendzlp"}
    <3>1. W - (n + PacketLen) = Off(Len(t) + 1)
      BY <2>2, <2>4, <2>5, <1>1, <1>4, <1>8, <1>9
    <3> QED BY <2>1, <2>2, <2>3, <2>5, <3>1 DEF Sent, W
  <2>6. CASE p \notin {"senddata", "sendrest", "sendzlp"}
    <3>1. Len(t) \in 1..L /\ t # <<>> /\ Off(Len(t)) \in Nat
      <4>1. L >= 2
        BY <2>6, <1>9
      <4>2. Len(t) \in 1..L /\ t # <<>>
        BY <4>1, <1>2
      <4> QED BY <4>2, <1>5
    <3>2. Off(L) = Off(Len(t)) + PacketLen
      BY <3>1, <2>4, <1>5
    <3>3. Off(Len(t)) <= W - (n + PacketLen) /\ W - (n + PacketLen) < Off(Len(t) + 1)
      <4>1. Off(L) <= R /\ R < Off(L) + PacketLen
        BY <2>6, <1>8, <1>9
      <4>2. Off(Len(t) + 1) = Off(Len(t)) + PacketLen
        BY <3>2, <2>4
      <4>3. \A a \in Nat, b \in Nat, c \in Nat :
               a + c <= b /\ b < a + c + c => a <= b - c /\ b - c < a + c
        OBVIOUS
      <4>4. Off(Len(t)) + PacketLen <= R /\ R < Off(Len(t)) + PacketLen + PacketLen
        BY <4>1, <3>2, Zenon
      <4>5. Off(Len(t)) <= R - PacketLen /\ R - PacketLen < Off(Len(t)) + PacketLen
        BY <4>3, <4>4, <3>1, <1>1, <1>4, Zenon
      <4> QED BY <4>2, <4>5, <2>2, Zenon
    <3> QED BY <2>1, <2>2, <2>3, <2>6, <3>1, <3>3 DEF Sent, W
  <2> QED BY <2>1, <2>5, <2>6
<1>10. CASE p \in {"senddata", "sendrest", "sendzlp"}
  <2>1. R >= PacketLen
    BY <1>1, <1>3, <1>8, <1>10
  <2> QED BY <2>1, <1>3, <1>7, <1>9, <1>10 DEF t
<1>11. CASE p \notin {"senddata", "sendrest", "sendzlp"} /\ L = 1
  <2>1. R < PacketLen
    BY <1>3, <1>5, <1>11
  <2>2. Head(q).n = R
    BY <1>1, <1>4, <1>7, <2>1, MinFacts
  <2> QED BY <1>1, <1>2, <1>4, <1>7, <1>11, <2>1, <2>2 DEF t
<1>13. CASE p \notin {"senddata", "sendrest", "sendzlp"} /\ L >= 2
  <2>1. Off(L) >= PacketLen
    <3>1. L - 1 \in 1..L /\ (L - 1) + 1 = L
      BY <1>2, <1>13
    <3>2. Off((L - 1) + 1) = Off(L - 1) + PacketLen /\ Off(L - 1) \in Nat
      BY <3>1, <1>5
    <3> QED BY <3>1, <3>2, <1>1
  <2>2. R >= PacketLen
    BY <2>1, <1>1, <1>3, <1>4, <1>8, <1>13
  <2> QED BY <2>2, <1>3, <1>7, <1>9, <1>13 DEF t
<1>14. L = 1 \/ L >= 2
  BY <1>2
<1> QED BY <1>10, <1>11, <1>13, <1>14

\* The camera takes a packet of the data phase.
LEMMA CamReceiveStep ==
    ASSUME IndInv, StepInv, CamReceive
    PROVE  StepInv'
<1> DEFINE m == Head(outq)
<1>1. /\ cam.st = "recv" /\ outq # <<>> /\ outq' = Tail(outq)
      /\ UNCHANGED <<hostVars, inp>> /\ CurInv
      /\ UNCHANGED <<pc, cur, ops, buf, rd, fill, got, left, result, faulted>>
  BY DEF CamReceive, StepInv, hostVars
<1>2. /\ outq \in Seq(OutMsg) /\ cam.n \in Nat /\ m.n \in 0..PacketLen
      /\ cam.id \in Nat /\ cam.id < Len(ops)
      /\ cam \in [st : {"ready", "recv", "reply"}, id : Nat, n : Nat]
  <2>1. /\ outq \in Seq(OutMsg) /\ cam.id < Len(ops)
        /\ cam \in [st : {"ready", "recv", "reply"}, id : Nat, n : Nat]
    BY <1>1 DEF IndInv, TypeOK, IdsInv, OutMsg
  <2>2. m.n \in 0..PacketLen
    BY <1>1, OutHead DEF OutMsg
  <2> QED BY <2>1, <2>2
<1>3. \/ m.k = "cmd" /\ UNCHANGED camVars
      \/ m.k # "cmd" /\ m.n < PacketLen /\ Reply(cam.id, cam.n + m.n)
      \/ /\ m.k # "cmd" /\ ~(m.n < PacketLen)
         /\ cam' = [cam EXCEPT !.n = @ + m.n] /\ UNCHANGED <<camq, done>>
  BY DEF CamReceive
<1> HIDE DEF m
<1>4. CurInv'
  <2>1. \A d \in done' : d \in done \/ d.id < Len(ops)
    <3>1. CASE UNCHANGED done
      BY <3>1
    <3>2. CASE Reply(cam.id, cam.n + m.n)
      BY <1>2, <3>2 DEF Reply
    <3> QED BY <1>3, <3>1, <3>2 DEF camVars
  <2> QED BY <1>1, <2>1, CurCarried
<1>5. ASSUME ~faulted
      PROVE  StepInv'
  <2>1. Asking /\ pc # "idle" /\ OwnResult
    BY <1>1, <1>5 DEF StepInv, LockStep, Quiet, Answering, Asking, HostAsks
  <2>2. cur \in Trans /\ cur.id \in Nat /\ cur.op.size \in Nat
    BY <1>1, <2>1, TransFacts
  <2>3. cur.op.phase = "send" /\ cam.id = cur.id /\ Sent(outq, cam.n, cur, pc)
    BY <1>1, <2>1 DEF Asking, CamHears
  <2>4. /\ m.k = "pkt"
        /\ \/ m.n = PacketLen /\ Sent(Tail(outq), cam.n + PacketLen, cur, pc)
           \/ /\ m.n < PacketLen /\ Tail(outq) = <<>>
              /\ pc \notin {"senddata", "sendrest", "sendzlp"}
              /\ cam.n + m.n = cur.op.size + 1
    BY <1>1, <1>2, <2>2, <2>3, SentTake DEF m
  <2>5. CASE m.n = PacketLen /\ Sent(Tail(outq), cam.n + PacketLen, cur, pc)
    <3>1. ~(m.n < PacketLen)
      BY <2>5, PacketLenAssumption
    <3>2. /\ cam' = [cam EXCEPT !.n = @ + m.n] /\ UNCHANGED <<camq, done>>
      BY <1>3, <2>4, <3>1
    <3>3. cam'.st = "recv" /\ cam'.id = cur.id /\ cam'.n = cam.n + PacketLen
      BY <1>1, <1>2, <2>3, <2>5, <3>2
    <3>4. CamHears'
      BY <1>1, <2>3, <2>5, <3>3 DEF CamHears
    <3>5. HostAsks' /\ Unanswered'
      BY <1>1, <2>1, <3>2 DEF Asking, HostAsks, Unanswered, DoneIds
    <3>6. OwnResult'
      BY <1>1, <2>1, <3>2, ResultKept
    <3> QED BY <1>4, <3>4, <3>5, <3>6 DEF StepInv, LockStep, Asking
  <2>6. CASE /\ m.n < PacketLen /\ Tail(outq) = <<>>
             /\ pc \notin {"senddata", "sendrest", "sendzlp"}
             /\ cam.n + m.n = cur.op.size + 1
    <3>1. Reply(cur.id, cam.n + m.n)
      BY <1>3, <2>3, <2>4, <2>6
    <3>2. pc \in {"take", "fill"} /\ outq' = <<>>
      BY <1>1, <2>1, <2>6 DEF Asking, HostAsks
    <3>3. cam.n + m.n = CarriedOut(cur).n /\ cam.n + m.n \in Nat
      BY <2>2, <2>3, <2>6 DEF CarriedOut
    <3> QED BY <1>1, <1>5, <2>1, <3>1, <3>2, <3>3, ReplyStep
  <2> QED BY <2>4, <2>5, <2>6
<1> QED BY <1>1, <1>4, <1>5 DEF StepInv

\* A queue is its first packet and the others behind it.
LEMMA HeadThenTail ==
    ASSUME NEW S, NEW s \in Seq(S), s # <<>>
    PROVE  s = <<Head(s)>> \o Tail(s)
<1> DEFINE h == <<Head(s)>>
           t == Tail(s)
           u == h \o t
<1>1. /\ Head(s) \in S /\ t \in Seq(S) /\ Len(t) = Len(s) - 1
      /\ \A i \in 1..Len(t) : t[i] = s[i + 1]
      /\ Len(s) \in Nat /\ Len(s) >= 1 /\ Head(s) = s[1]
  <2>1. /\ Head(s) \in S /\ t \in Seq(S) /\ Len(t) = Len(s) - 1
        /\ \A i \in 1..Len(t) : t[i] = s[i + 1]
    BY HeadTailProperties
  <2>2. Len(s) \in Nat /\ Len(s) # 0 /\ Head(s) = s[1]
    BY LenProperties, EmptySeq
  <2> QED BY <2>1, <2>2
<1>2. h \in Seq(S) /\ Len(h) = 1 /\ h[1] = s[1]
  BY <1>1
<1> HIDE DEF h, t
<1>3. /\ u \in Seq(S) /\ Len(u) = Len(h) + Len(t)
      /\ \A i \in 1..Len(h) + Len(t) : u[i] = IF i <= Len(h) THEN h[i] ELSE t[i - Len(h)]
  <2>1. /\ h \o t \in Seq(S) /\ Len(h \o t) = Len(h) + Len(t)
        /\ \A i \in 1..Len(h) + Len(t) :
              (h \o t)[i] = IF i <= Len(h) THEN h[i] ELSE t[i - Len(h)]
    <3>1. h \in Seq(S) /\ t \in Seq(S)
      BY <1>1, <1>2
    <3> QED BY <3>1, ConcatProperties
  <2> QED BY <2>1
<1>4. Len(u) = Len(s)
  BY <1>1, <1>2, <1>3
<1>5. ASSUME NEW i \in 1..Len(s)
      PROVE  s[i] = u[i]
  <2>1. CASE i = 1
    BY <1>1, <1>2, <1>3, <2>1
  <2>2. CASE i # 1
    <3>1. i - 1 \in 1..Len(t) /\ (i - 1) + 1 = i /\ ~(i <= 1)
      BY <1>1, <1>5, <2>2
    <3>2. u[i] = t[i - 1]
      BY <1>1, <1>2, <1>3, <3>1
    <3> QED BY <1>1, <3>1, <3>2
  <2> QED BY <2>1, <2>2
<1> HIDE DEF u
<1>6. s = u
  BY <1>3, <1>4, <1>5, SeqEqual
<1> QED BY <1>6 DEF u, h, t

\* A packet of the answer goes into the in pipe.
LEMMA CamSendStep ==
    ASSUME IndInv, StepInv, CamSend
    PROVE  StepInv'
<1>1. /\ cam.st = "reply" /\ inp' = Append(inp, Head(camq)) /\ camq' = Tail(camq)
      /\ cam' = IF Len(camq) = 1 THEN [cam EXCEPT !.st = "ready"] ELSE cam
      /\ UNCHANGED <<pc, cur, ops, buf, rd, fill, got, left, result, faulted,
                     outq, done>>
  BY DEF CamSend, hostVars
<1>2. CurInv'
  BY <1>1, CurCarried DEF StepInv
<1>3. ASSUME ~faulted
      PROVE  StepInv'
  <2>1. Answering /\ OwnResult /\ camq # <<>> /\ pc # "idle"
    <3>1. camq # <<>>
      BY <1>1 DEF IndInv, IdsInv
    <3>2. Answering /\ OwnResult
      BY <1>1, <1>3 DEF StepInv, LockStep, Quiet, Asking, CamHears
    <3> QED BY <3>1, <3>2 DEF Answering, Reading
  <2>2. PICK r \in Replies(cur) : StageFits(r) /\ Holds(r) /\ Carried(r)
    BY <2>1 DEF Answering
  <2>3. /\ inp \in Seq(Packet) /\ camq \in Seq(Packet)
        /\ cam \in [st : {"ready", "recv", "reply"}, id : Nat, n : Nat]
    BY DEF IndInv, TypeOK
  <2>4. inp' \o camq' = inp \o camq /\ inp \o camq # <<>>
    <3>1. /\ Head(camq) \in Packet /\ Tail(camq) \in Seq(Packet)
          /\ <<Head(camq)>> \in Seq(Packet)
      BY <2>1, <2>3, HeadTailProperties
    <3>2. camq = <<Head(camq)>> \o Tail(camq)
      BY <2>1, <2>3, HeadThenTail
    <3>3. inp' = inp \o <<Head(camq)>>
      BY <1>1, <2>3, <3>1, AppendIsConcat
    <3>4. (inp \o <<Head(camq)>>) \o Tail(camq) = inp \o (<<Head(camq)>> \o Tail(camq))
      BY <2>3, <3>1, ConcatAssociative
    <3>5. inp \o camq # <<>>
      BY <2>1, <2>3, ConcatEqualIffEmpty
    <3> QED BY <1>1, <3>2, <3>3, <3>4, <3>5
  <2>5. Holds(r)'
    <3>1. Start(r)' = Start(r) /\ Place(r)' = Place(r)
      BY <1>1 DEF Start, Place, Unread
    <3> QED BY <1>1, <2>2, <2>4, <3>1 DEF Holds
  <2>6. StageFits(r)' /\ Carried(r)' /\ ReadFits' /\ r \in Replies(cur')
    BY <1>1, <2>1, <2>2 DEF StageFits, Start, Unread, Carried, DoneIds, Answering,
       ReadFits
  <2>7. cam'.st = IF camq' = <<>> THEN "ready" ELSE "reply"
    <3>1. Len(camq) \in Nat /\ Len(Tail(camq)) = Len(camq) - 1 /\ Tail(camq) \in Seq(Packet)
      BY <2>1, <2>3, HeadTailProperties, LenProperties
    <3>2. Tail(camq) = <<>> <=> Len(camq) = 1
      <4>1. Tail(camq) = <<>> <=> Len(Tail(camq)) = 0
        BY <3>1, EmptySeq
      <4> QED BY <3>1, <4>1
    <3> QED BY <1>1, <2>3, <3>2
  <2>8. Answering'
    BY <1>1, <2>1, <2>5, <2>6, <2>7 DEF Answering, Reading
  <2>9. OwnResult'
    BY <1>1, <2>1, ResultKept
  <2> QED BY <1>2, <2>8, <2>9 DEF StepInv, LockStep
<1> QED BY <1>1, <1>2, <1>3 DEF StepInv

-----------------------------------------------------------------------------
(***************************************************************************)
(* The theorems.                                                           *)
(***************************************************************************)
\* Nothing is on its way at the start.
LEMMA InitStep == Init => StepInv
  BY EmptySeq DEF Init, StepInv, CurInv, LockStep, Quiet, OwnResult, Empty

\* Every step keeps host and camera at the same point.
LEMMA NextStep ==
    ASSUME IndInv, StepInv, [Next]_vars
    PROVE  StepInv'
<1>1. CASE UNCHANGED vars
  <2>1. UNCHANGED <<pc, cur, ops, buf, rd, fill, got, left, result, faulted,
                    outq, inp, cam, camq, done>>
    BY <1>1 DEF vars, hostVars, camVars
  <2>2. CurInv' /\ (~faulted => OwnResult')
    BY <2>1, CurCarried, ResultKept DEF StepInv
  <2>3. ~faulted => LockStep'
    <3>1. ASSUME LockStep PROVE LockStep'
      <4>1. ASSUME Asking PROVE Asking'
        BY <2>1, <4>1 DEF Asking, HostAsks, CamHears, Unanswered, DoneIds
      <4>2. ASSUME Answering PROVE Answering'
        <5>1. PICK r \in Replies(cur) : StageFits(r) /\ Holds(r) /\ Carried(r)
          BY <4>2 DEF Answering
        <5>2. (StageFits(r) /\ Holds(r) /\ Carried(r))'
          BY <2>1, <5>1 DEF StageFits, Holds, Carried, Start, Place, Unread, DoneIds
        <5> QED BY <2>1, <4>2, <5>1, <5>2 DEF Answering, Reading, ReadFits
      <4> QED BY <2>1, <3>1, <4>1, <4>2 DEF LockStep, Quiet, Unanswered, DoneIds
    <3> QED BY <3>1 DEF StepInv
  <2> QED BY <2>1, <2>2, <2>3 DEF StepInv
<1>2. CASE Caller
  BY <1>2, TransactionStep DEF Caller
<1>3. CASE Host
  BY <1>3, SendReqStep, SendDataStep, SendRestStep, SendZlpStep, TakeStep,
     BulkReadStep, FillStep, Take2Step, DataHeaderStep, StrayResponseStep,
     DataReadStep, HandlerStep, RespHeaderStep, RespParamsStep
     DEF Host
<1>4. CASE Camera
  BY <1>4, CamCommandStep, CamReceiveStep, CamSendStep DEF Camera
<1> QED BY <1>1, <1>2, <1>3, <1>4 DEF Next

\* Until a call fails, host and camera are at the same point of the exchange.
THEOREM InductiveStep == Spec => []StepInv
<1>1. Init => StepInv
  BY InitStep
<1>2. IndInv /\ StepInv /\ [Next]_vars => StepInv'
  BY NextStep
<1> QED BY <1>1, <1>2, Inductive, PTL DEF Spec

\* OwnResult: the response a transaction returns with success is its own, the
\* operation was carried out with the data sent, and the data phase is whole.
THEOREM ResultIsOwn == Spec => []OwnResult
<1>1. StepInv => OwnResult
  BY DEF StepInv, OwnResult
<1> QED BY <1>1, InductiveStep, PTL

\* InStep: between transactions nothing is left on the pipes, in the packet
\* buffer or in the camera.
THEOREM NothingLeft == Spec => []InStep
<1>1. StepInv => InStep
  BY DEF StepInv, InStep, LockStep, Quiet, Asking, HostAsks, Answering, Reading
<1> QED BY <1>1, InductiveStep, PTL

-----------------------------------------------------------------------------
(***************************************************************************)
(* What a transaction gives its caller, whatever has failed before.  It    *)
(* implements the call of PtpRpc: until a failure host and camera are in   *)
(* step; after one, all that is known of a response is that some operation *)
(* was answered by it, and carried out where it says so.  And a data phase *)
(* that it returns with success is whole.                                  *)
(***************************************************************************)

\* The tokens that may be on their way when n operations were requested and
\* those of ids were carried out.
Known(n, ids) == {t \in Token : /\ t.k \in {"ok", "err"} => t.id < n
                                /\ t.k = "ok" => t.id \in ids}

KnownTok == Known(Len(ops), DoneIds)

TokInv ==
    /\ buf.data \in Seq(KnownTok) /\ fill \in Seq(KnownTok)
    /\ rd.dst \in Seq(KnownTok)
    /\ inp \in Seq(Seq(KnownTok)) /\ camq \in Seq(Seq(KnownTok))
    /\ rd.stage = "resppar" => rd.hdr \in KnownTok

\* A sequence over a set is one over every larger set.
LEMMA SeqGrows ==
    ASSUME NEW S, NEW T, S \subseteq T
    PROVE  Seq(S) \subseteq Seq(T)
<1> SUFFICES ASSUME NEW s \in Seq(S) PROVE s \in Seq(T)
  OBVIOUS
<1>1. Len(s) \in Nat /\ s = [i \in 1..Len(s) |-> s[i]] /\ \A i \in 1..Len(s) : s[i] \in T
  BY LenProperties, ElementOfSeq
<1>2. [i \in 1..Len(s) |-> s[i]] \in Seq(T)
  BY <1>1, IsASeq
<1> QED BY <1>1, <1>2

\* What is known stays known when more is requested or carried out.
LEMMA KnownGrows ==
    ASSUME NEW n \in Nat, NEW m \in Nat, n <= m, NEW a, NEW b, a \subseteq b
    PROVE  /\ Known(n, a) \subseteq Known(m, b)
           /\ Seq(Known(n, a)) \subseteq Seq(Known(m, b))
           /\ Seq(Seq(Known(n, a))) \subseteq Seq(Seq(Known(m, b)))
<1>1. Known(n, a) \subseteq Known(m, b)
  <2> SUFFICES ASSUME NEW t \in Known(n, a) PROVE t \in Known(m, b)
    OBVIOUS
  <2>1. t \in Token /\ t.id \in Nat
    BY DEF Known, Token, DataHdr, RespHdr, Body
  <2>2. t.id < n => t.id < m
    BY <2>1
  <2> QED BY <2>1, <2>2 DEF Known
<1> QED BY <1>1, SeqGrows

\* What the host takes from the packet buffer, and what it leaves there.
LEMMA TakeKnown ==
    ASSUME NEW S, NEW b \in Buffer, b.data \in Seq(S), NEW n \in Nat
    PROVE  Taken(b, n) \in Seq(S) /\ AfterTake(b, n).data \in Seq(S)
<1> DEFINE k == TakeLen(b, n)
<1>1. /\ Len(b.data) \in Nat /\ k \in Nat /\ k <= Len(b.data)
      /\ \A i \in 1..Len(b.data) : b.data[i] \in S
  <2>1. Len(b.data) \in Nat /\ \A i \in 1..Len(b.data) : b.data[i] \in S
    BY LenProperties, ElementOfSeq
  <2> QED BY <2>1 DEF TakeLen
<1>2. Taken(b, n) \in Seq(S)
  <2>1. \A i \in 1..k : b.data[i] \in S
    BY <1>1
  <2> HIDE DEF k
  <2>2. SubSeq(b.data, 1, k) \in Seq(S)
    BY <1>1, <2>1, SubSeqProperties
  <2> QED BY <2>2 DEF Taken, k
<1>3. SubSeq(b.data, k + 1, Len(b.data)) \in Seq(S)
  <2>1. \A i \in (k + 1)..Len(b.data) : b.data[i] \in S
    BY <1>1
  <2> HIDE DEF k
  <2> QED BY <1>1, <2>1, SubSeqProperties
<1>4. AfterTake(b, n).data \in Seq(S)
  <2>1. CASE b.data = <<>>
    BY <2>1 DEF AfterTake
  <2>2. CASE b.data # <<>> /\ k = Len(b.data)
    BY <2>2, EmptySeq DEF AfterTake, Empty
  <2>3. CASE b.data # <<>> /\ k # Len(b.data)
    <3>1. AfterTake(b, n).data = SubSeq(b.data, k + 1, Len(b.data))
      BY <2>3 DEF AfterTake
    <3> QED BY <3>1, <1>3
  <2> QED BY <2>1, <2>2, <2>3
<1> QED BY <1>2, <1>4

\* The packets of a transfer hold what the transfer does.
LEMMA PacketsKnown ==
    ASSUME NEW S, NEW s \in Seq(Token), s \in Seq(S), NEW zlp \in BOOLEAN
    PROVE  Packets(s, zlp) \in Seq(Seq(S))
<1> DEFINE full == Len(s) \div PacketLen
           short == IF Len(s) % PacketLen # 0 \/ zlp THEN 1 ELSE 0
           hi(i) == IF i <= full THEN i * PacketLen ELSE Len(s)
           p(i) == SubSeq(s, (i - 1) * PacketLen + 1, hi(i))
           m == Len(s) % PacketLen
<1>1. /\ Len(s) \in Nat /\ full \in Nat /\ short \in {0, 1}
      /\ Len(s) = PacketLen * full + m /\ m \in 0..PacketLen-1
      /\ \A i \in 1..Len(s) : s[i] \in S
  <2>1. Len(s) \in Nat /\ \A i \in 1..Len(s) : s[i] \in S
    BY LenProperties, ElementOfSeq
  <2> QED BY <2>1, DivMod
<1> HIDE DEF full, short, m
<1>2. ASSUME NEW i \in 1..(full + short)
      PROVE  p(i) \in Seq(S)
  <2>1. i \in Nat /\ i >= 1 /\ i <= full + 1
    BY <1>1
  <2>2. (i - 1) * PacketLen \in Nat /\ i * PacketLen \in Nat
    BY <2>1, PacketLenAssumption
  <2>3. hi(i) \in Nat /\ hi(i) <= Len(s)
    <3>1. CASE i <= full
      <4>1. full * PacketLen >= i * PacketLen /\ full * PacketLen = PacketLen * full
        BY <3>1, <2>1, <1>1, PacketLenAssumption
      <4>2. hi(i) = i * PacketLen
        BY <3>1
      <4>3. full * PacketLen \in Nat /\ m \in Nat
        BY <1>1, PacketLenAssumption
      <4> HIDE DEF hi
      <4> QED BY <2>2, <4>1, <4>2, <4>3, <1>1
    <3>2. CASE ~(i <= full)
      BY <3>2, <1>1
    <3> QED BY <3>1, <3>2
  <2> DEFINE lo == (i - 1) * PacketLen + 1
  <2>4. lo \in Nat /\ lo >= 1
    BY <2>2
  <2> HIDE DEF lo, hi
  <2>5. \A j \in lo..hi(i) : s[j] \in S
    BY <1>1, <2>3, <2>4
  <2>6. SubSeq(s, lo, hi(i)) \in Seq(S)
    BY <2>3, <2>4, <2>5, SubSeqProperties
  <2> QED BY <2>6 DEF lo
<1>3. Packets(s, zlp) = [i \in 1..(full + short) |-> p(i)]
  BY DEF Packets, full, short
<1>4. full + short \in Nat
  BY <1>1
<1> HIDE DEF p
<1> QED BY <1>2, <1>3, <1>4, IsASeq

\* The tokens of an answer of the camera are known once it is given.
LEMMA ReplyKnown ==
    ASSUME IndInv, NEW id \in Nat, id < Len(ops), NEW n \in Nat, Reply(id, n),
           UNCHANGED ops
    PROVE  camq' \in Seq(Seq(KnownTok'))
<1> DEFINE K == KnownTok'
<1>1. ops \in Seq(Ops) /\ ops[id+1].par \in Nat /\ ops[id+1].size \in Nat
  <2>1. ops \in Seq(Ops) /\ id + 1 \in 1..Len(ops)
    BY LenProperties DEF IndInv, TypeOK
  <2>2. ops[id+1] \in Op
    BY <2>1, ElementOfSeq, OpsAssumption
  <2> QED BY <2>1, <2>2, PacketLenAssumption DEF Op
<1>2. K = Known(Len(ops), DoneIds')
  BY DEF KnownTok
<1> HIDE DEF K
<1>3. DataContainer(id) \in Seq(Token) /\ DataContainer(id) \in Seq(K)
  <2> DEFINE m == ops[id+1].size + 1
             e(i) == IF i = 1 THEN [k |-> "data", id |-> id, n |-> ops[id+1].size]
                     ELSE [k |-> "pay", id |-> id, n |-> i - 1]
  <2>1. m \in Nat
    BY <1>1
  <2>2. \A i \in 1..m : e(i) \in K
    BY <1>1, <1>2 DEF Known, Token, DataHdr, Body
  <2>3. DataContainer(id) = [i \in 1..m |-> e(i)]
    BY DEF DataContainer
  <2>4. DataContainer(id) \in Seq(K)
    <3> HIDE DEF m, e
    <3> QED BY <2>1, <2>2, <2>3, IsASeq
  <2> QED BY <2>4, <1>1, ContainerTypes
<1>4. ASSUME NEW kind \in {"ok", "err"}, NEW par \in {0, ops[id+1].par},
             kind = "ok" => id \in DoneIds'
      PROVE  <<Response(kind, id, par)>> \in Seq(Seq(K))
  <2> DEFINE m == par + 1
             e(i) == IF i = 1 THEN [k |-> kind, id |-> id, n |-> par]
                     ELSE [k |-> "par", id |-> id, n |-> i - 1]
  <2>1. m \in Nat /\ par \in 0..PacketLen-2
    <3>1. ops[id+1] \in Op
      <4>1. id + 1 \in 1..Len(ops)
        BY <1>1, LenProperties
      <4> QED BY <4>1, <1>1, ElementOfSeq, OpsAssumption
    <3> QED BY <3>1, PacketLenAssumption DEF Op
  <2>2. \A i \in 1..m : e(i) \in K
    BY <1>2, <1>4, <2>1 DEF Known, Token, RespHdr, Body
  <2>3. Response(kind, id, par) = [i \in 1..m |-> e(i)]
    BY DEF Response
  <2> HIDE DEF m, e
  <2>4. Response(kind, id, par) \in Seq(K)
    BY <2>1, <2>2, <2>3, IsASeq
  <2> HIDE DEF K
  <2> QED BY <2>4
<1>5. CASE \E zlp \in BOOLEAN :
             /\ camq' = (IF ops[id+1].phase = "get"
                         THEN Packets(DataContainer(id), zlp) ELSE <<>>)
                        \o <<Response("ok", id, ops[id+1].par)>>
             /\ done' = done \cup {[id |-> id, n |-> n]}
  <2> PICK zlp \in BOOLEAN :
             /\ camq' = (IF ops[id+1].phase = "get"
                         THEN Packets(DataContainer(id), zlp) ELSE <<>>)
                        \o <<Response("ok", id, ops[id+1].par)>>
             /\ done' = done \cup {[id |-> id, n |-> n]}
    BY <1>5
  <2>1. \E d \in done' : d.id = id
    <3>1. [id |-> id, n |-> n] \in done' /\ [id |-> id, n |-> n].id = id
      OBVIOUS
    <3> QED BY <3>1, Zenon
  <2>2. id \in DoneIds'
    BY <2>1 DEF DoneIds
  <2>3. <<Response("ok", id, ops[id+1].par)>> \in Seq(Seq(K))
    BY <1>4, <2>2
  <2>4. (IF ops[id+1].phase = "get" THEN Packets(DataContainer(id), zlp) ELSE <<>>)
           \in Seq(Seq(K))
    <3>1. Packets(DataContainer(id), zlp) \in Seq(Seq(K))
      BY <1>3, PacketsKnown
    <3> QED BY <3>1, EmptySeq
  <2> QED BY <2>3, <2>4, ConcatProperties DEF K
<1>6. CASE /\ \E par \in {0, ops[id+1].par} : camq' = <<Response("err", id, par)>>
           /\ done' = done
  BY <1>4, <1>6 DEF K
<1> QED BY <1>5, <1>6 DEF Reply

\* A step of the host that reads nothing.
LEMMA TokControl ==
    ASSUME IndInv, TokInv, UNCHANGED <<buf, fill, inp, camq, done>>,
           ops' = ops \/ (\E op \in Ops : ops' = Append(ops, op)),
           rd' = rd \/ (rd'.dst = <<>> /\ (rd'.stage = "resppar" => rd'.hdr \in KnownTok))
    PROVE  TokInv'
<1>1. Len(ops) \in Nat /\ Len(ops') \in Nat /\ Len(ops) <= Len(ops') /\ DoneIds' = DoneIds
  <2>1. ops \in Seq(Ops) /\ Len(ops) \in Nat
    BY LenProperties DEF IndInv, TypeOK
  <2> QED BY <2>1, AppendProperties DEF DoneIds
<1>2. /\ KnownTok \subseteq KnownTok'
      /\ Seq(KnownTok) \subseteq Seq(KnownTok')
      /\ Seq(Seq(KnownTok)) \subseteq Seq(Seq(KnownTok'))
  BY <1>1, KnownGrows DEF KnownTok
<1>3. rd'.dst \in Seq(KnownTok) /\ (rd'.stage = "resppar" => rd'.hdr \in KnownTok)
  BY EmptySeq DEF TokInv
<1> QED BY <1>2, <1>3 DEF TokInv

\* A step of the host that reads.
LEMMA TokRead ==
    ASSUME TokInv, UNCHANGED <<ops, camq, done>>,
           buf'.data \in Seq(KnownTok), fill' \in Seq(KnownTok),
           rd'.dst \in Seq(KnownTok), inp' \in Seq(Seq(KnownTok)),
           rd'.stage = "resppar" => rd.stage = "resppar" /\ rd'.hdr = rd.hdr
    PROVE  TokInv'
<1>1. KnownTok' = KnownTok
  BY DEF KnownTok, DoneIds
<1> QED BY <1>1 DEF TokInv

\* The packet that read_func returns, and what it leaves in the pipe.
LEMMA ReadOkKnown ==
    ASSUME IndInv, TokInv, NEW room, NEW i \in {1, 2}, ReadOk(room, i)
    PROVE  inp[i] \in Seq(KnownTok) /\ inp' \in Seq(Seq(KnownTok))
<1>1. inp \in Seq(Seq(KnownTok)) /\ i <= Len(inp) /\ inp' = SubSeq(inp, i + 1, Len(inp))
  BY DEF TokInv, ReadOk
<1>2. Len(inp) \in Nat /\ \A j \in 1..Len(inp) : inp[j] \in Seq(KnownTok)
  BY <1>1, LenProperties, ElementOfSeq
<1>3. \A j \in (i + 1)..Len(inp) : inp[j] \in Seq(KnownTok)
  BY <1>2
<1>4. inp' \in Seq(Seq(KnownTok))
  BY <1>1, <1>2, <1>3, SubSeqProperties
<1> QED BY <1>1, <1>2, <1>4

\* What a read that fails leaves in the pipe.
LEMMA ReadFailsKnown ==
    ASSUME IndInv, TokInv, NEW room, ReadFails(room)
    PROVE  inp' \in Seq(Seq(KnownTok))
<1>1. CASE inp' = <<>>
  BY <1>1, EmptySeq
<1>2. ASSUME NEW i \in {1, 2}, i <= Len(inp), inp' = SubSeq(inp, i + 1, Len(inp))
      PROVE  inp' \in Seq(Seq(KnownTok))
  <2>1. inp \in Seq(Seq(KnownTok))
    BY DEF TokInv
  <2>2. Len(inp) \in Nat /\ \A j \in 1..Len(inp) : inp[j] \in Seq(KnownTok)
    BY <2>1, LenProperties, ElementOfSeq
  <2>3. \A j \in (i + 1)..Len(inp) : inp[j] \in Seq(KnownTok)
    BY <2>2
  <2> QED BY <1>2, <2>2, <2>3, SubSeqProperties
<1> QED BY <1>1, <1>2 DEF ReadFails

\* The header that a read of one has got is a known one.
LEMMA HdrKnown ==
    ASSUME IndInv, TokInv, pc = "return", rd.stage \in {"datahdr", "resphdr"}
    PROVE  Hdr \in KnownTok
<1>1. Len(rd.dst) = 1
  BY DEF IndInv, ReadInv, Reading
<1>2. rd.dst \in Seq(KnownTok)
  BY DEF TokInv
<1> QED BY <1>1, <1>2, ElementOfSeq DEF Hdr

\* A read that begins or has ended holds nothing.
LEMMA TokRestart ==
    /\ \A stage, n : StartRead(stage, n) /\ stage # "resppar" =>
          rd'.dst = <<>> /\ rd'.stage # "resppar"
    /\ \A rc, from : Finish(rc, from) => rd'.dst = <<>> /\ rd'.stage # "resppar"
    /\ \A rc : Abort(rc) => rd'.dst = <<>> /\ rd'.stage # "resppar"
<1>1. ASSUME NEW stage, NEW n, StartRead(stage, n), stage # "resppar"
      PROVE  rd'.dst = <<>> /\ rd'.stage # "resppar"
  BY <1>1, StartReadFacts
<1>2. NoRead.dst = <<>> /\ NoRead.stage # "resppar"
  BY DEF NoRead
<1>3. ASSUME NEW rc, NEW from, Finish(rc, from)
      PROVE  rd'.dst = <<>> /\ rd'.stage # "resppar"
  BY <1>2, <1>3 DEF Finish
<1>4. ASSUME NEW rc, Abort(rc)
      PROVE  rd'.dst = <<>> /\ rd'.stage # "resppar"
  BY <1>3, <1>4 DEF Abort
<1> QED BY <1>1, <1>3, <1>4

\* The host's steps keep what it may have read.
LEMMA HostTokens ==
    ASSUME IndInv, TokInv, Host
    PROVE  TokInv'
<1>1. CASE SendReq \/ SendData \/ SendRest \/ SendZlp
  <2>1. /\ UNCHANGED <<ops, buf, fill, inp, camq, done>>
        /\ \/ rd' = rd
           \/ StartRead("datahdr", 1) \/ StartRead("resphdr", 1) \/ Abort("io")
    BY <1>1 DEF SendReq, SendData, SendRest, SendZlp, AfterSend, AfterData, WriteFails, camVars
  <2> QED BY <2>1, TokRestart, TokControl
<1>2. CASE Take
  <2> DEFINE S == KnownTok
  <2>1. /\ UNCHANGED <<ops, inp, camq, done>>
        /\ buf' = AfterTake(buf, rd.size) /\ fill' = <<>>
        /\ rd'.dst = rd.dst \o Taken(buf, rd.size)
        /\ rd'.stage = rd.stage /\ rd'.hdr = rd.hdr
    BY <1>2 DEF Take, camVars, NewDst, IndInv, TypeOK
  <2>2. buf \in Buffer /\ rd.size \in Nat /\ buf.data \in Seq(S) /\ rd.dst \in Seq(S)
    BY DEF IndInv, TypeOK, Buffer, TokInv
  <2> HIDE DEF S
  <2>3. Taken(buf, rd.size) \in Seq(S) /\ buf'.data \in Seq(S)
    BY <2>1, <2>2, TakeKnown
  <2>4. rd'.dst \in Seq(S)
    BY <2>1, <2>2, <2>3, ConcatProperties
  <2> QED BY <2>1, <2>3, <2>4, EmptySeq, TokRead DEF S, TokInv
<1>3. CASE BulkRead
  <2>1. UNCHANGED <<ops, buf, fill, camq, done>>
    BY <1>3 DEF BulkRead, camVars
  <2>2. CASE \E i \in {1, 2} : /\ ReadOk(rd.bulk - Len(rd.dst), i)
                               /\ rd' = [rd EXCEPT !.dst = @ \o inp[i]]
    <3>1. PICK i \in {1, 2} : /\ ReadOk(rd.bulk - Len(rd.dst), i)
                              /\ rd' = [rd EXCEPT !.dst = @ \o inp[i]]
      BY <2>2
    <3>2. inp[i] \in Seq(KnownTok) /\ inp' \in Seq(Seq(KnownTok))
      BY <3>1, ReadOkKnown
    <3>3. /\ rd'.dst = rd.dst \o inp[i] /\ rd'.stage = rd.stage /\ rd'.hdr = rd.hdr
      BY <3>1 DEF IndInv, TypeOK
    <3>4. rd'.dst \in Seq(KnownTok)
      BY <3>2, <3>3, ConcatProperties DEF TokInv
    <3> QED BY <2>1, <3>2, <3>3, <3>4, TokRead DEF TokInv
  <2>3. CASE ReadFails(rd.bulk - Len(rd.dst)) /\ Abort("io")
    <3>1. inp' \in Seq(Seq(KnownTok))
      BY <2>3, ReadFailsKnown
    <3>2. rd'.dst = <<>> /\ rd'.stage # "resppar"
      BY <2>3, TokRestart
    <3> QED BY <2>1, <3>1, <3>2, EmptySeq, TokRead DEF TokInv
  <2> QED BY <1>3, <2>2, <2>3 DEF BulkRead
<1>4. CASE Fill
  <2> DEFINE room == PacketLen - Len(fill)
  <2>1. UNCHANGED <<ops, camq, done>>
    BY <1>4 DEF Fill, camVars
  <2>2. CASE \E i \in {1, 2} :
                /\ ReadOk(room, i)
                /\ IF Len(fill \o inp[i]) < rd.min
                   THEN fill' = fill \o inp[i] /\ UNCHANGED <<buf, pc>>
                   ELSE /\ buf' = Loaded(fill \o inp[i])
                        /\ fill' = <<>>
                        /\ pc' = "take2"
                /\ UNCHANGED rd
    <3>1. PICK i \in {1, 2} :
                /\ ReadOk(room, i)
                /\ IF Len(fill \o inp[i]) < rd.min
                   THEN fill' = fill \o inp[i] /\ UNCHANGED <<buf, pc>>
                   ELSE /\ buf' = Loaded(fill \o inp[i])
                        /\ fill' = <<>>
                        /\ pc' = "take2"
                /\ UNCHANGED rd
      BY <2>2
    <3>2. inp[i] \in Seq(KnownTok) /\ inp' \in Seq(Seq(KnownTok))
      BY <3>1, ReadOkKnown
    <3>3. fill \o inp[i] \in Seq(KnownTok)
      BY <3>2, ConcatProperties DEF TokInv
    <3>4. buf'.data \in Seq(KnownTok) /\ fill' \in Seq(KnownTok)
      <4>1. Loaded(fill \o inp[i]).data = fill \o inp[i]
        BY DEF Loaded
      <4> QED BY <3>1, <3>3, <4>1, EmptySeq DEF TokInv
    <3> QED BY <2>1, <3>1, <3>2, <3>4, TokRead DEF TokInv
  <2>3. CASE ReadFails(room) /\ Abort("io") /\ fill' = <<>> /\ UNCHANGED buf
    <3>1. inp' \in Seq(Seq(KnownTok))
      BY <2>3, ReadFailsKnown
    <3>2. rd'.dst = <<>> /\ rd'.stage # "resppar"
      BY <2>3, TokRestart
    <3> QED BY <2>1, <2>3, <3>1, <3>2, EmptySeq, TokRead DEF TokInv
  <2> QED BY <1>4, <2>2, <2>3 DEF Fill
<1>5. CASE Take2
  <2> DEFINE S == KnownTok
             dst == rd.dst \o Taken(buf, rd.min)
  <2>1. /\ UNCHANGED <<ops, fill, inp, camq, done>>
        /\ buf' = AfterTake(buf, rd.min)
        /\ \/ rd' = [rd EXCEPT !.dst = dst]
           \/ Abort("io") \/ Abort("badparam")
    BY <1>5 DEF Take2, camVars, NewDst
  <2>2. buf \in Buffer /\ rd.min \in Nat /\ buf.data \in Seq(S) /\ rd.dst \in Seq(S)
    BY DEF IndInv, TypeOK, Buffer, TokInv
  <2>3. \/ rd'.dst = dst /\ rd'.stage = rd.stage /\ rd'.hdr = rd.hdr
        \/ rd'.dst = <<>> /\ rd'.stage # "resppar"
    <3>1. rd' = [rd EXCEPT !.dst = dst] =>
            rd'.dst = dst /\ rd'.stage = rd.stage /\ rd'.hdr = rd.hdr
      BY DEF IndInv, TypeOK
    <3> QED BY <2>1, <3>1, TokRestart
  <2> HIDE DEF S
  <2>4. Taken(buf, rd.min) \in Seq(S) /\ buf'.data \in Seq(S)
    BY <2>1, <2>2, TakeKnown
  <2>5. rd'.dst \in Seq(S)
    <3>1. dst \in Seq(S)
      BY <2>2, <2>4, ConcatProperties
    <3> QED BY <2>3, <3>1, EmptySeq, Zenon
  <2> HIDE DEF dst
  <2> QED BY <2>1, <2>3, <2>4, <2>5, TokRead DEF S, TokInv
<1>6. CASE DataHeader \/ StrayResponse \/ DataRead \/ Handler \/ RespParams
  <2>1. UNCHANGED <<ops, buf, fill, inp, camq, done>>
    BY <1>6 DEF DataHeader, StrayResponse, DataRead, Handler, RespParams, camVars
  <2>2. ASSUME NEW n, NextBlock(n)
        PROVE  rd'.dst = <<>> /\ rd'.stage # "resppar"
    BY <2>2, TokRestart DEF NextBlock
  <2>3. CASE DataHeader
    <3>1. \/ StartRead("stray", Hdr.n) \/ Finish("dataexpected", cur.id)
          \/ NextBlock(Hdr.n) \/ Abort("code") \/ Abort("badparam")
      BY <2>3 DEF DataHeader
    <3> QED BY <2>1, <2>2, <3>1, TokRestart, TokControl
  <2>4. CASE StrayResponse \/ RespParams
    <3>1. Finish("dataexpected", cur.id) \/ Finish(rd.hdr.k, rd.hdr.id)
      BY <2>4 DEF StrayResponse, RespParams
    <3> QED BY <2>1, <3>1, TokRestart, TokControl
  <2>5. CASE DataRead
    <3>1. rd' = rd \/ StartRead("resphdr", 1)
      BY <2>5 DEF DataRead
    <3> QED BY <2>1, <3>1, TokRestart, TokControl
  <2>6. CASE Handler
    <3>1. NextBlock(left) \/ Abort("handler")
      BY <2>6 DEF Handler
    <3> QED BY <2>1, <2>2, <3>1, TokRestart, TokControl
  <2> QED BY <1>6, <2>3, <2>4, <2>5, <2>6
<1>7. CASE RespHeader
  <2>1. UNCHANGED <<ops, buf, fill, inp, camq, done>>
    BY <1>7 DEF RespHeader, camVars
  <2>2. \/ rd'.dst = <<>> /\ rd'.hdr = Hdr
        \/ rd'.dst = <<>> /\ rd'.stage # "resppar"
    <3>1. \/ rd' = [NoRead EXCEPT !.stage = "resppar", !.size = Hdr.n, !.hdr = Hdr]
          \/ Finish(Hdr.k, Hdr.id) \/ Abort("respexpected") \/ Abort("badparam")
      BY <1>7 DEF RespHeader
    <3> QED BY <3>1, TokRestart DEF NoRead
  <2>3. Hdr \in KnownTok
    BY <1>7, HdrKnown DEF RespHeader
  <2> QED BY <2>1, <2>2, <2>3, TokControl
<1> QED BY <1>1, <1>2, <1>3, <1>4, <1>5, <1>6, <1>7 DEF Host

\* The camera's steps: what it answers is known by then.
LEMMA ReplyTokens ==
    ASSUME IndInv, TokInv, NEW id \in Nat, id < Len(ops), NEW n \in Nat, Reply(id, n),
           UNCHANGED <<ops, buf, fill, rd, inp>>
    PROVE  TokInv'
<1>1. camq' \in Seq(Seq(KnownTok'))
  BY ReplyKnown
<1>2. DoneIds \subseteq DoneIds' /\ Len(ops) \in Nat
  <2>1. done \subseteq done'
    BY DEF Reply
  <2>2. Len(ops) \in Nat
    BY LenProperties DEF IndInv, TypeOK
  <2> QED BY <2>1, <2>2 DEF DoneIds
<1>3. /\ KnownTok \subseteq KnownTok'
      /\ Seq(KnownTok) \subseteq Seq(KnownTok')
      /\ Seq(Seq(KnownTok)) \subseteq Seq(Seq(KnownTok'))
  BY <1>2, KnownGrows DEF KnownTok
<1> QED BY <1>1, <1>3 DEF TokInv

\* The camera's steps keep what is on its way known.
LEMMA CameraTokens ==
    ASSUME IndInv, TokInv, Camera
    PROVE  TokInv'
<1>1. CASE \E id \in Nat, n \in Nat :
              /\ id < Len(ops) /\ Reply(id, n)
              /\ UNCHANGED <<ops, buf, fill, rd, inp>>
  BY <1>1, ReplyTokens
<1>2. CASE UNCHANGED <<ops, buf, fill, rd, inp, camq, done>>
  BY <1>2 DEF TokInv, KnownTok, DoneIds
<1>3. CASE CamCommand
  <2>1. Head(outq) \in OutMsg /\ Head(outq).id < Len(ops) /\ Head(outq).id \in Nat
    <3>1. Head(outq) \in OutMsg /\ Head(outq).id < Len(ops)
      BY <1>3, OutHead DEF CamCommand
    <3> QED BY <3>1 DEF OutMsg
  <2>2. Reply(Head(outq).id, 0) \/ UNCHANGED <<camq, done>>
    BY <1>3, <2>1 DEF CamCommand, camVars, OutMsg
  <2>3. UNCHANGED <<ops, buf, fill, rd, inp>>
    BY <1>3 DEF CamCommand, hostVars
  <2>4. 0 \in Nat
    OBVIOUS
  <2> QED BY <1>1, <1>2, <2>1, <2>2, <2>3, <2>4
<1>4. CASE CamReceive
  <2>1. cam.id \in Nat /\ cam.id < Len(ops) /\ cam.n + Head(outq).n \in Nat
    <3>1. Head(outq) \in OutMsg
      BY <1>4, OutHead DEF CamReceive
    <3>2. Head(outq).n \in Nat
      BY <3>1, PacketLenAssumption DEF OutMsg
    <3>3. cam.id \in Nat /\ cam.n \in Nat /\ cam.id < Len(ops)
      BY <1>4 DEF CamReceive, IndInv, TypeOK, IdsInv
    <3> QED BY <3>2, <3>3
  <2>2. Reply(cam.id, cam.n + Head(outq).n) \/ UNCHANGED <<camq, done>>
    BY <1>4 DEF CamReceive, camVars
  <2>3. UNCHANGED <<ops, buf, fill, rd, inp>>
    BY <1>4 DEF CamReceive, hostVars
  <2> QED BY <1>1, <1>2, <2>1, <2>2, <2>3
<1>5. CASE CamSend
  <2>1. /\ UNCHANGED <<ops, buf, fill, rd, done>>
        /\ inp' = Append(inp, Head(camq)) /\ camq' = Tail(camq)
    BY <1>5 DEF CamSend, hostVars
  <2>2. camq \in Seq(Seq(KnownTok)) /\ camq # <<>> /\ inp \in Seq(Seq(KnownTok))
    BY <1>5 DEF CamSend, IndInv, IdsInv, TokInv
  <2>3. Head(camq) \in Seq(KnownTok) /\ camq' \in Seq(Seq(KnownTok))
    BY <2>1, <2>2, HeadTailProperties
  <2>4. inp' \in Seq(Seq(KnownTok))
    BY <2>1, <2>2, <2>3, AppendProperties
  <2>5. KnownTok' = KnownTok
    BY <2>1 DEF KnownTok, DoneIds
  <2> QED BY <2>1, <2>3, <2>4, <2>5 DEF TokInv
<1> QED BY <1>3, <1>4, <1>5 DEF Camera

\* Every step keeps what is on its way known.
LEMMA NextTokens ==
    ASSUME IndInv, TokInv, [Next]_vars
    PROVE  TokInv'
<1>1. CASE UNCHANGED vars
  BY <1>1 DEF vars, hostVars, camVars, TokInv, KnownTok, DoneIds
<1>2. ASSUME NEW op \in Ops, Transaction(op)
      PROVE  TokInv'
  BY <1>2, TokControl DEF Transaction, camVars
<1> QED BY <1>1, <1>2, HostTokens, CameraTokens DEF Next, Caller

\* Nothing is on its way at the start.
LEMMA InitTokens == Init => TokInv
BY EmptySeq DEF Init, TokInv, NoRead, Empty

\* A transaction that returns is a return of PtpRpc.
LEMMA RpcReturns ==
    ASSUME IndInv, CurInv, pc # "idle", UNCHANGED <<ops, done>>,
           NEW rc \in Codes \ {"none"}, NEW from \in Nat, Finish(rc, from),
           from < Len(ops),
           rc \in {"ok", "err", "dataexpected"} => faulted' = faulted,
           rc \notin {"ok", "err", "dataexpected"} => faulted',
           rc = "ok" => from \in DoneIds,
           rc = "ok" /\ ~faulted => from = cur.id,
           rc \in {"err", "dataexpected"} /\ ~faulted => cur.id \notin DoneIds
    PROVE  Rpc!Return
<1> DEFINE kind == CASE rc = "ok" -> "ok"
                     [] rc \in {"err", "dataexpected"} -> "refused"
                     [] OTHER -> "failed"
<1>1. /\ Len(ops) = cur.id + 1 /\ cur.id \in Nat /\ faulted \in BOOLEAN
      /\ faulted' \in BOOLEAN
  BY DEF CurInv, IndInv, TypeOK
<1>2. Len(ops) - 1 = cur.id /\ from \in 0..Len(ops)-1
  BY <1>1
<1>3. /\ pc' = "idle"
      /\ result' = [id |-> cur.id, rc |-> rc, from |-> from, data |-> got]
  BY DEF Finish
<1>4. kind \in {"ok", "refused", "failed"}
  OBVIOUS
<1>5. /\ kind = "ok" <=> rc = "ok"
      /\ kind = "refused" <=> rc \in {"err", "dataexpected"}
      /\ kind = "failed" <=> rc \notin {"ok", "err", "dataexpected"}
  OBVIOUS
<1>6. [rc   |-> CASE result'.rc \in {"none", "ok"} -> result'.rc
                  [] result'.rc \in {"err", "dataexpected"} -> "refused"
                  [] OTHER -> "failed",
       id   |-> result'.id,
       from |-> result'.from]
      = [rc |-> kind, id |-> Len(ops) - 1, from |-> from]
  <2>1. result'.rc = rc /\ result'.id = cur.id /\ result'.from = from /\ rc # "none"
    BY <1>3
  <2>2. (CASE result'.rc \in {"none", "ok"} -> result'.rc
           [] result'.rc \in {"err", "dataexpected"} -> "refused"
           [] OTHER -> "failed") = kind
    BY <2>1
  <2> HIDE DEF kind
  <2> QED BY <2>1, <2>2, <1>2
<1>7. ~faulted' <=> ~faulted /\ kind # "failed"
  BY <1>1, <1>5
<1> HIDE DEF kind
<1> QED BY <1>1, <1>2, <1>3, <1>4, <1>5, <1>6, <1>7 DEF Rpc!Return, Rpc!Results, DoneIds

\* An answer that refuses: the operation was not carried out.
LEMMA RefusedNotDone ==
    ASSUME IndInv, StepInv, ~faulted, pc = "return",
           \/ rd.stage = "datahdr" /\ IsResponse(Hdr)
           \/ rd.stage = "stray"
           \/ rd.stage = "resphdr" /\ Hdr.k = "err"
           \/ rd.stage = "resppar" /\ rd.hdr.k = "err"
    PROVE  cur.id \notin DoneIds
<1>1. /\ Answering /\ CurInv /\ pc # "idle" /\ pc # "handler"
      /\ rd.stage \in {"datahdr", "resphdr"} => Len(rd.dst) = 1
  BY EndRead
<1> PICK r \in Replies(cur) : StageFits(r) /\ Holds(r) /\ Carried(r)
  BY <1>1 DEF Answering
<1> DEFINE L == DataLen(cur, r)
<1>2. /\ L \in Nat /\ r[1].k \in {"ok", "err"}
      /\ cur.op.size \in Nat
  BY <1>1, TransFacts, ReplyFacts
<1>3. ASSUME rd.stage \in {"datahdr", "resphdr"}
      PROVE  Hdr = Tok(cur, r, Start(r) + 1)
  <2>1. At(rd.dst, cur, r, Start(r))
    BY DEF Holds
  <2>2. 1 \in 1..Len(rd.dst)
    <3>1. Len(rd.dst) = 1
      BY <1>1, <1>3
    <3> QED BY <3>1
  <2> QED BY <2>1, <2>2 DEF At, Hdr
<1>4. r[1].k # "ok"
  <2>1. CASE rd.stage = "datahdr" /\ IsResponse(Hdr)
    <3>1. SUFFICES ASSUME r[1].k = "ok" PROVE FALSE
      OBVIOUS
    <3>2. Start(r) = 0 /\ L = cur.op.size + 1
      BY <1>1, <2>1, <3>1 DEF Start, Base, StageFits, DataLen
    <3>3. 0 + 1 = 1 /\ 1 <= L
      BY <1>2, <3>2
    <3>4. Hdr = DataTok(cur, 1)
      BY <1>3, <2>1, <3>2, <3>3 DEF Tok
    <3> QED BY <2>1, <3>4 DEF DataTok, IsResponse
  <2>2. CASE rd.stage = "stray"
    <3>1. L = 0 /\ cur.op.phase = "get"
      BY <2>2 DEF StageFits
    <3>2. cur.op.size + 1 # 0
      BY <1>2
    <3> QED BY <3>1, <3>2 DEF DataLen
  <2>3. CASE rd.stage = "resphdr" /\ Hdr.k = "err"
    <3>1. Start(r) = L
      BY <1>1, <2>3 DEF Start, Base
    <3>2. ~(L + 1 <= L) /\ (L + 1) - L = 1
      <4> HIDE DEF L
      <4> QED BY <1>2
    <3>3. Hdr = r[1]
      BY <1>3, <2>3, <3>1, <3>2 DEF Tok
    <3> QED BY <2>3, <3>3
  <2>4. CASE rd.stage = "resppar" /\ rd.hdr.k = "err"
    BY <2>4 DEF StageFits
  <2> QED BY <2>1, <2>2, <2>3, <2>4
<1> QED BY <1>2, <1>4 DEF Carried

\* A step of the host that neither begins nor ends the transaction is no step
\* of PtpRpc, or the failure of the transport that its caller is not told of.
LEMMA RpcGoesOn ==
    ASSUME pc # "idle", pc' # "idle", UNCHANGED <<ops, done, result>>,
           faulted \in BOOLEAN, faulted' = faulted \/ faulted' = TRUE
    PROVE  Rpc!Fault \/ UNCHANGED Rpc!vars
BY DEF Rpc!Fault, Rpc!vars

\* An early return of a transaction is a return of PtpRpc.
LEMMA RpcAborts ==
    ASSUME IndInv, CurInv, pc # "idle", UNCHANGED <<ops, done>>,
           NEW rc \in Codes \ {"none", "ok", "err", "dataexpected"}, Abort(rc)
    PROVE  Rpc!Return
<1>1. cur.id \in Nat /\ cur.id < Len(ops)
  BY DEF IndInv, TypeOK, IdsInv
<1> QED BY <1>1, RpcReturns DEF Abort

\* The camera carries an operation out, or refuses it.
LEMMA RpcExecutes ==
    ASSUME IndInv, CurInv, NEW id \in Nat, id < Len(ops), NEW n \in Nat, Reply(id, n),
           UNCHANGED hostVars, ~faulted => pc # "idle" /\ id = cur.id
    PROVE  Rpc!Execute \/ UNCHANGED Rpc!vars
<1>1. UNCHANGED <<pc, ops, result, faulted>>
  BY DEF hostVars
<1>2. Len(ops) \in Nat /\ id \in 0..Len(ops)-1
  <2>1. Len(ops) \in Nat
    BY LenProperties DEF IndInv, TypeOK
  <2> QED BY <2>1
<1>3. DoneIds' = DoneIds \/ DoneIds' = DoneIds \cup {id}
  BY DEF Reply, DoneIds
<1>4. CASE DoneIds' = DoneIds
  BY <1>1, <1>4 DEF Rpc!vars, DoneIds
<1>5. CASE DoneIds' # DoneIds
  <2>1. DoneIds' = DoneIds \cup {id} /\ id \notin DoneIds
    BY <1>3, <1>5
  <2>2. ~faulted => pc # "idle" /\ id = Len(ops) - 1
    BY <1>2 DEF CurInv, IndInv, TypeOK
  <2> QED BY <1>1, <1>2, <2>1, <2>2 DEF Rpc!Execute, DoneIds
<1> QED BY <1>4, <1>5

\* A transaction that has its response returns it.
LEMMA RpcResponds ==
    ASSUME IndInv, StepInv, StepInv', TokInv, pc = "return",
           NEW h \in KnownTok, h.k \in {"ok", "err"}, Finish(h.k, h.id),
           UNCHANGED <<ops, done, faulted>>,
           \/ rd.stage = "resphdr" /\ h = Hdr
           \/ rd.stage = "resppar" /\ h = rd.hdr
    PROVE  Rpc!Return
<1>1. /\ h.id \in Nat /\ h.id < Len(ops)
      /\ h.k = "ok" => h.id \in DoneIds
  BY DEF KnownTok, Known, Token, DataHdr, RespHdr, Body
<1>2. h.k = "err" /\ ~faulted => cur.id \notin DoneIds
  BY RefusedNotDone
<1>3. h.k = "ok" /\ ~faulted => h.id = cur.id
  <2>1. result' = [id |-> cur.id, rc |-> h.k, from |-> h.id, data |-> got]
    BY DEF Finish
  <2>2. ~faulted => OwnResult'
    BY DEF StepInv
  <2> QED BY <2>1, <2>2 DEF OwnResult
<1>4. CurInv /\ h.k \in Codes \ {"none"}
  BY DEF StepInv, Codes
<1> QED BY <1>1, <1>2, <1>3, <1>4, RpcReturns

\* What a step of the host is for PtpRpc.
LEMMA RpcHost ==
    ASSUME IndInv, StepInv, StepInv', TokInv, Host
    PROVE  Rpc!Next \/ UNCHANGED Rpc!vars
<1>1. /\ pc # "idle" /\ CurInv /\ faulted \in BOOLEAN /\ UNCHANGED <<ops, done>>
  <2>1. pc # "idle"
    BY DEF Host, SendReq, SendData, SendRest, SendZlp, Take, BulkRead, Fill, Take2,
           DataHeader, StrayResponse, DataRead, Handler, RespHeader, RespParams
  <2>2. UNCHANGED <<ops, done>>
    BY DEF Host, SendReq, SendData, SendRest, SendZlp, Take, BulkRead, Fill, Take2,
           DataHeader, StrayResponse, DataRead, Handler, RespHeader, RespParams, camVars
  <2> QED BY <2>1, <2>2 DEF StepInv, IndInv, TypeOK
<1>2. ASSUME pc' # "idle", UNCHANGED result, faulted' = faulted \/ faulted' = TRUE
      PROVE  Rpc!Next \/ UNCHANGED Rpc!vars
  BY <1>1, <1>2, RpcGoesOn DEF Rpc!Next
<1>3. ASSUME NEW rc \in Codes \ {"none", "ok", "err", "dataexpected"}, Abort(rc)
      PROVE  Rpc!Next
  BY <1>1, <1>3, RpcAborts DEF Rpc!Next
<1>4. ASSUME NEW stage, NEW n, StartRead(stage, n)
      PROVE  pc' # "idle"
  BY <1>4 DEF StartRead
<1>5. ASSUME NEW n, NextBlock(n)
      PROVE  pc' # "idle"
  BY <1>4, <1>5 DEF NextBlock
<1>6. ASSUME UNCHANGED faulted, Finish("dataexpected", cur.id), pc = "return",
             rd.stage = "stray" \/ (rd.stage = "datahdr" /\ IsResponse(Hdr))
      PROVE  Rpc!Next
  <2>1. ~faulted => cur.id \notin DoneIds
    BY <1>6, RefusedNotDone
  <2>2. cur.id \in Nat /\ cur.id < Len(ops) /\ "dataexpected" \in Codes \ {"none"}
    BY <1>1 DEF IndInv, TypeOK, IdsInv, Codes
  <2> QED BY <1>1, <1>6, <2>1, <2>2, RpcReturns DEF Rpc!Next
<1>7. {"io", "badparam", "code", "respexpected", "handler"}
         \subseteq Codes \ {"none", "ok", "err", "dataexpected"}
  BY DEF Codes
<1>8. CASE SendReq \/ SendData \/ SendRest
  <2>1. \/ UNCHANGED <<result, faulted>> /\ (AfterSend \/ AfterData \/ pc' = "sendrest")
        \/ Abort("io")
    BY <1>8 DEF SendReq, SendData, SendRest, WriteFails
  <2>2. AfterSend \/ AfterData => pc' # "idle"
    BY <1>4 DEF AfterSend, AfterData
  <2> QED BY <2>1, <2>2, <1>2, <1>3, <1>7
<1>9. CASE SendZlp
  <2>1. pc' # "idle" /\ UNCHANGED result /\ (faulted' = faulted \/ faulted' = TRUE)
    BY <1>9, <1>4 DEF SendZlp
  <2> QED BY <2>1, <1>2
<1>10. CASE Take
  <2>1. pc' # "idle" /\ UNCHANGED <<result, faulted>>
    BY <1>10 DEF Take
  <2> QED BY <2>1, <1>2
<1>11. CASE BulkRead
  <2>1. \/ pc' # "idle" /\ UNCHANGED <<result, faulted>>
        \/ Abort("io")
    BY <1>11 DEF BulkRead
  <2> QED BY <2>1, <1>2, <1>3, <1>7
<1>12. CASE Fill
  <2>1. \/ pc' # "idle" /\ UNCHANGED <<result, faulted>>
        \/ Abort("io")
    BY <1>12, <1>1 DEF Fill
  <2> QED BY <2>1, <1>2, <1>3, <1>7
<1>13. CASE Take2
  <2>1. \/ pc' # "idle" /\ UNCHANGED <<result, faulted>>
        \/ Abort("io") \/ Abort("badparam")
    BY <1>13 DEF Take2
  <2> QED BY <2>1, <1>2, <1>3, <1>7
<1>14. CASE DataHeader
  <2>1. \/ pc' # "idle" /\ UNCHANGED <<result, faulted>>
        \/ IsResponse(Hdr) /\ Finish("dataexpected", cur.id) /\ UNCHANGED faulted
        \/ Abort("code") \/ Abort("badparam")
    BY <1>14, <1>4, <1>5 DEF DataHeader
  <2>2. pc = "return" /\ rd.stage = "datahdr"
    BY <1>14 DEF DataHeader
  <2> QED BY <2>1, <2>2, <1>2, <1>3, <1>6, <1>7
<1>15. CASE StrayResponse
  BY <1>15, <1>6 DEF StrayResponse
<1>16. CASE DataRead
  <2>1. pc' # "idle" /\ UNCHANGED <<result, faulted>>
    BY <1>16, <1>4 DEF DataRead
  <2> QED BY <2>1, <1>2
<1>17. CASE Handler
  <2>1. \/ pc' # "idle" /\ UNCHANGED <<result, faulted>>
        \/ Abort("handler")
    BY <1>17, <1>5 DEF Handler
  <2> QED BY <2>1, <1>2, <1>3, <1>7
<1>18. CASE RespHeader
  <2>1. \/ pc' # "idle" /\ UNCHANGED <<result, faulted>>
        \/ IsResponse(Hdr) /\ Finish(Hdr.k, Hdr.id) /\ UNCHANGED faulted
        \/ Abort("respexpected") \/ Abort("badparam")
    BY <1>18 DEF RespHeader
  <2>2. pc = "return" /\ rd.stage = "resphdr" /\ Hdr \in KnownTok
    BY <1>18, HdrKnown DEF RespHeader
  <2>3. IsResponse(Hdr) /\ Finish(Hdr.k, Hdr.id) /\ UNCHANGED faulted => Rpc!Return
    BY <1>1, <2>2, RpcResponds DEF IsResponse
  <2> QED BY <2>1, <2>3, <1>2, <1>3, <1>7 DEF Rpc!Next
<1>19. CASE RespParams
  <2>1. /\ pc = "return" /\ rd.stage = "resppar" /\ Finish(rd.hdr.k, rd.hdr.id)
        /\ UNCHANGED faulted
    BY <1>19 DEF RespParams
  <2>2. rd.hdr \in KnownTok /\ rd.hdr.k \in {"ok", "err"}
    BY <2>1 DEF TokInv, IndInv, TypeOK, RespHdr
  <2> QED BY <1>1, <2>1, <2>2, RpcResponds DEF Rpc!Next
<1> QED BY <1>8, <1>9, <1>10, <1>11, <1>12, <1>13, <1>14, <1>15, <1>16, <1>17, <1>18,
           <1>19 DEF Host

\* What a step of the camera is for PtpRpc.
LEMMA RpcCamera ==
    ASSUME IndInv, StepInv, Camera
    PROVE  Rpc!Next \/ UNCHANGED Rpc!vars
<1>1. CurInv /\ UNCHANGED hostVars
  BY DEF StepInv, Camera, CamCommand, CamReceive, CamSend
<1>2. CASE UNCHANGED done
  BY <1>1, <1>2 DEF hostVars, Rpc!vars
<1>3. ASSUME cam.st \in {"ready", "recv"}, outq # <<>>, ~faulted
      PROVE  /\ Asking /\ pc # "idle"
             /\ cam.st = "ready" => Head(outq).id = cur.id
             /\ cam.st = "recv" => cam.id = cur.id
  <2>1. Asking
    BY <1>3 DEF StepInv, LockStep, Quiet, Answering
  <2>2. pc # "idle"
    BY <2>1 DEF Asking, HostAsks
  <2>3. cam.st = "ready" => Head(outq) = Command(cur)
    BY <2>1 DEF Asking, CamHears
  <2> QED BY <2>1, <2>2, <2>3 DEF Command, Asking, CamHears
<1>4. CASE CamCommand
  <2>1. Head(outq) \in OutMsg /\ Head(outq).id < Len(ops) /\ Head(outq).id \in Nat
    <3>1. Head(outq) \in OutMsg /\ Head(outq).id < Len(ops)
      BY <1>4, OutHead DEF CamCommand
    <3> QED BY <3>1 DEF OutMsg
  <2>2. Reply(Head(outq).id, 0) \/ UNCHANGED done
    BY <1>4, <2>1 DEF CamCommand, camVars, OutMsg
  <2>3. ~faulted => pc # "idle" /\ Head(outq).id = cur.id
    BY <1>3, <1>4 DEF CamCommand
  <2>4. 0 \in Nat
    OBVIOUS
  <2> QED BY <1>1, <1>2, <2>1, <2>2, <2>3, <2>4, RpcExecutes DEF Rpc!Next
<1>5. CASE CamReceive
  <2>1. cam.id \in Nat /\ cam.id < Len(ops) /\ cam.n + Head(outq).n \in Nat
    <3>1. Head(outq) \in OutMsg
      BY <1>5, OutHead DEF CamReceive
    <3>2. Head(outq).n \in Nat
      BY <3>1, PacketLenAssumption DEF OutMsg
    <3>3. cam.id \in Nat /\ cam.n \in Nat /\ cam.id < Len(ops)
      BY <1>5 DEF CamReceive, IndInv, TypeOK, IdsInv
    <3> QED BY <3>2, <3>3
  <2>2. Reply(cam.id, cam.n + Head(outq).n) \/ UNCHANGED done
    BY <1>5 DEF CamReceive, camVars
  <2>3. ~faulted => pc # "idle" /\ cam.id = cur.id
    BY <1>3, <1>5 DEF CamReceive
  <2> QED BY <1>1, <1>2, <2>1, <2>2, <2>3, RpcExecutes DEF Rpc!Next
<1>6. CASE CamSend
  BY <1>2, <1>6 DEF CamSend
<1> QED BY <1>4, <1>5, <1>6 DEF Camera

\* Every step is a step of PtpRpc or none.
LEMMA RpcStep ==
    ASSUME IndInv, StepInv, TokInv, [Next]_vars
    PROVE  [Rpc!Next]_Rpc!vars
<1>1. StepInv'
  BY NextStep
<1>2. CASE UNCHANGED vars
  BY <1>2 DEF vars, hostVars, camVars, Rpc!vars
<1>3. ASSUME NEW op \in Ops, Transaction(op)
      PROVE  Rpc!Call
  <2>1. /\ pc = "idle" /\ pc' = "sendreq" /\ ops' = Append(ops, op)
        /\ UNCHANGED <<result, faulted, done>>
    BY <1>3 DEF Transaction, camVars
  <2>2. Len(ops') = Len(ops) + 1
    BY <2>1, AppendProperties DEF IndInv, TypeOK
  <2> QED BY <2>1, <2>2 DEF Rpc!Call
<1>4. CASE Caller
  BY <1>3, <1>4 DEF Caller, Rpc!Next
<1>5. CASE Host
  BY <1>1, <1>5, RpcHost
<1>6. CASE Camera
  BY <1>6, RpcCamera
<1> QED BY <1>2, <1>4, <1>5, <1>6 DEF Next

\* RefinesRpc: a transaction is carried out at most once, and where it returns
\* success the operation whose response it took was carried out; until a
\* failure that is its own operation, and a refusal means it was not.
THEOREM TransactionIsCall == Spec => RefinesRpc
<1>1. Init => TokInv
  BY InitTokens
<1>2. IndInv /\ TokInv /\ [Next]_vars => TokInv'
  BY NextTokens
<1>3. Init => Rpc!Init
  <2> SUFFICES ASSUME Init PROVE Rpc!Init
    OBVIOUS
  <2>1. Len(ops) = 0
    BY DEF Init
  <2> QED BY <2>1 DEF Init, Rpc!Init
<1>4. IndInv /\ StepInv /\ TokInv /\ [Next]_vars => [Rpc!Next]_Rpc!vars
  BY RpcStep
<1> QED BY <1>1, <1>2, <1>3, <1>4, Inductive, InductiveStep, PTL
        DEF Spec, RefinesRpc, Rpc!Spec

-----------------------------------------------------------------------------
(***************************************************************************)
(* The data phase, whatever has failed before: the tokens the host has not *)
(* read yet are such that one of a data container is followed by the next  *)
(* one of the same container.                                              *)
(***************************************************************************)
\* The n-th token of the payload of an operation, and the place of a token in
\* its data container.
Pay(id, n) == [k |-> "pay", id |-> id, n |-> n]

OfData(t) == t.k \in {"data", "pay"}

Pos(t) == IF t.k = "data" THEN 0 ELSE t.n

\* The token d behind t in a data container.
Succ(t, d) == Pay(t.id, Pos(t) + d)

\* A data token is of a container that was asked for, and a header says the
\* length of the payload.
Sound(o, t) ==
    OfData(t) => t.id < Len(o) /\ (t.k = "data" => t.n = o[t.id + 1].size)

\* Within s, a token of a container is followed by the rest of the container.
Linked(o, s) ==
    /\ \A i \in 1..Len(s) : Sound(o, s[i])
    /\ \A i, j \in 1..Len(s) :
          i < j /\ OfData(s[i]) /\ Pos(s[i]) + (j - i) <= o[s[i].id + 1].size
             => s[j] = Succ(s[i], j - i)

\* s ends within a data container, and what comes then.
Open(o, s) ==
    /\ s # <<>> /\ OfData(s[Len(s)])
    /\ Pos(s[Len(s)]) < o[s[Len(s)].id + 1].size

Then(s) == Succ(s[Len(s)], 1)

\* The token t comes first: in the packets q, or in what the host has of them.
Heads(t, q) == q # <<>> /\ q[1] # <<>> /\ q[1][1] = t

Awaits(t, f, q) == IF f # <<>> THEN f[1] = t ELSE Heads(t, q)

\* What ends within a container goes on in the next packet.
Chained(o, q) ==
    \A i \in 1..Len(q) :
        /\ Linked(o, q[i])
        /\ Open(o, q[i]) => i < Len(q) /\ q[i + 1] # <<>> /\ q[i + 1][1] = Then(q[i])

\* The host has f, and the packets q are still to be read.
Stream(o, f, q) ==
    /\ Linked(o, f)
    /\ Open(o, f) => Heads(Then(f), q)
    /\ Chained(o, q)

\* A token of a container has a place in it.
LEMMA DataSized ==
    ASSUME NEW o \in Seq(Ops), NEW t \in Token, Sound(o, t), OfData(t)
    PROVE  /\ t.id \in Nat /\ t.id < Len(o) /\ t.n \in Nat /\ Pos(t) \in Nat
           /\ o[t.id + 1].size \in Nat
<1>1. t.id \in Nat /\ t.n \in Nat /\ t.id < Len(o) /\ Len(o) \in Nat
  BY LenProperties DEF Token, DataHdr, RespHdr, Body, Sound
<1>2. o[t.id + 1] \in Ops
  BY <1>1, ElementOfSeq
<1>3. o[t.id + 1].size \in Nat
  BY <1>2, OpsAssumption DEF Op
<1> QED BY <1>1, <1>3 DEF Pos

\* A part of what is linked is linked.
LEMMA LinkedPart ==
    ASSUME NEW o, NEW s \in Seq(Token), Linked(o, s),
           NEW a \in Nat, NEW r \in Seq(Token), a + Len(r) <= Len(s),
           \A j \in 1..Len(r) : r[j] = s[a + j]
    PROVE  Linked(o, r)
<1>1. Len(s) \in Nat /\ Len(r) \in Nat
  BY LenProperties
<1>2. ASSUME NEW i \in 1..Len(r)
      PROVE  a + i \in 1..Len(s) /\ r[i] = s[a + i]
  BY <1>1, <1>2
<1>3. ASSUME NEW i \in 1..Len(r)
      PROVE  Sound(o, r[i])
  BY <1>2 DEF Linked
<1>4. ASSUME NEW i \in 1..Len(r), NEW j \in 1..Len(r), i < j, OfData(r[i]),
             Pos(r[i]) + (j - i) <= o[r[i].id + 1].size
      PROVE  r[j] = Succ(r[i], j - i)
  <2>1. a + i < a + j /\ (a + j) - (a + i) = j - i
    BY <1>1, <1>4
  <2>2. s[a + j] = Succ(s[a + i], (a + j) - (a + i))
    <3>1. Pos(s[a + i]) + ((a + j) - (a + i)) <= o[s[a + i].id + 1].size
      BY <1>2, <1>4, <2>1
    <3> QED BY <1>2, <1>4, <2>1, <3>1 DEF Linked
  <2> QED BY <1>2, <2>1, <2>2
<1> QED BY <1>3, <1>4 DEF Linked

\* A sequence cut in two.
LEMMA CutTwo ==
    ASSUME NEW S, NEW s \in Seq(S), NEW k \in 0..Len(s)
    PROVE  /\ Len(s) \in Nat
           /\ SubSeq(s, 1, k) \in Seq(S) /\ Len(SubSeq(s, 1, k)) = k
           /\ \A j \in 1..k : SubSeq(s, 1, k)[j] = s[j]
           /\ SubSeq(s, k + 1, Len(s)) \in Seq(S)
           /\ Len(SubSeq(s, k + 1, Len(s))) = Len(s) - k
           /\ \A j \in 1..Len(s) - k : SubSeq(s, k + 1, Len(s))[j] = s[k + j]
<1>1. Len(s) \in Nat /\ k \in Nat /\ k <= Len(s)
  BY LenProperties
<1>2. /\ SubSeq(s, 0 + 1, 0 + k) \in Seq(S) /\ Len(SubSeq(s, 0 + 1, 0 + k)) = k
      /\ \A j \in 1..k : SubSeq(s, 0 + 1, 0 + k)[j] = s[0 + j]
  <2>1. 0 \in Nat /\ 0 + k <= Len(s)
    BY <1>1
  <2> QED BY <1>1, <2>1, SubSeqSpan
<1>3. 0 + 1 = 1 /\ 0 + k = k /\ \A j \in 1..k : 0 + j = j
  BY <1>1
<1>4. Len(s) - k \in Nat /\ k + (Len(s) - k) = Len(s) /\ k + (Len(s) - k) <= Len(s)
  BY <1>1
<1> DEFINE m == Len(s) - k
<1>5. /\ SubSeq(s, k + 1, k + m) \in Seq(S) /\ Len(SubSeq(s, k + 1, k + m)) = m
      /\ \A j \in 1..m : SubSeq(s, k + 1, k + m)[j] = s[k + j]
  <2>1. m \in Nat /\ k + m <= Len(s)
    BY <1>4
  <2> HIDE DEF m
  <2> QED BY <1>1, <2>1, SubSeqSpan
<1>6. k + m = Len(s)
  BY <1>4
<1> QED BY <1>1, <1>2, <1>3, <1>5, <1>6

\* What the host takes from the front, and what it leaves there.
LEMMA StreamCut ==
    ASSUME NEW o, NEW s \in Seq(Token), NEW q, Stream(o, s, q), NEW k \in 0..Len(s)
    PROVE  /\ Linked(o, SubSeq(s, 1, k))
           /\ Stream(o, SubSeq(s, k + 1, Len(s)), q)
<1> DEFINE d == SubSeq(s, 1, k)
           r == SubSeq(s, k + 1, Len(s))
<1>1. /\ Len(s) \in Nat /\ k \in Nat
      /\ d \in Seq(Token) /\ Len(d) = k /\ \A j \in 1..k : d[j] = s[j]
      /\ r \in Seq(Token) /\ Len(r) = Len(s) - k
      /\ \A j \in 1..Len(s) - k : r[j] = s[k + j]
  BY CutTwo
<1> HIDE DEF d, r
<1>2. Linked(o, s)
  BY DEF Stream
<1>3. Linked(o, d)
  <2>1. 0 + Len(d) <= Len(s) /\ 0 \in Nat /\ \A j \in 1..Len(d) : d[j] = s[0 + j]
    BY <1>1
  <2> QED BY <1>1, <1>2, <2>1, LinkedPart
<1>4. Linked(o, r)
  <2>1. k + Len(r) <= Len(s) /\ \A j \in 1..Len(r) : r[j] = s[k + j]
    BY <1>1
  <2> QED BY <1>1, <1>2, <2>1, LinkedPart
<1>5. ASSUME Open(o, r)
      PROVE  Heads(Then(r), q)
  <2>1. r # <<>>
    BY <1>5 DEF Open
  <2>2. Len(r) # 0
    BY <1>1, <2>1, EmptySeq
  <2>3. Len(s) - k \in 1..Len(s) - k /\ k + (Len(s) - k) = Len(s) /\ Len(s) # 0
    BY <1>1, <2>2
  <2>4. r[Len(r)] = s[Len(s)] /\ s # <<>>
    BY <1>1, <2>3
  <2>5. Open(o, s) /\ Then(r) = Then(s)
    BY <1>5, <2>4 DEF Open, Then
  <2> QED BY <2>5 DEF Stream
<1>6. Stream(o, r, q)
  BY <1>4, <1>5 DEF Stream
<1> QED BY <1>3, <1>6 DEF d, r

\* Where the payload of an operation comes next, it goes on.
LEMMA StreamRun ==
    ASSUME NEW o \in Seq(Ops), NEW s \in Seq(Token), NEW q, Stream(o, s, q),
           NEW id \in Nat, id < Len(o), NEW m \in Nat, NEW k \in 0..Len(s),
           m + k <= o[id + 1].size,
           m < o[id + 1].size => Awaits(Pay(id, m + 1), s, q)
    PROVE  /\ \A j \in 1..k : s[j] = Pay(id, m + j)
           /\ m + k < o[id + 1].size =>
                 Awaits(Pay(id, m + k + 1), SubSeq(s, k + 1, Len(s)), q)
<1> DEFINE size == o[id + 1].size
           r == SubSeq(s, k + 1, Len(s))
<1>1. size \in Nat
  <2>1. o[id + 1] \in Ops
    <3>1. id + 1 \in 1..Len(o)
      BY LenProperties
    <3> QED BY <3>1, ElementOfSeq
  <2> QED BY <2>1, OpsAssumption DEF Op
<1>2. /\ Len(s) \in Nat /\ k \in Nat /\ r \in Seq(Token) /\ Len(r) = Len(s) - k
      /\ \A j \in 1..Len(s) - k : r[j] = s[k + j]
  BY CutTwo
<1>3. Linked(o, s)
  BY DEF Stream
<1> HIDE DEF r
<1>4. CASE s = <<>>
  <2>1. Len(s) = 0 /\ k = 0 /\ Len(r) = 0
    BY <1>2, <1>4
  <2>2. r = s
    BY <1>2, <1>4, <2>1, EmptySeq
  <2>3. m + k + 1 = m + 1 /\ m + k = m
    BY <2>1
  <2>4. \A j \in 1..k : s[j] = Pay(id, m + j)
    BY <2>1
  <2>5. m + k < size => Awaits(Pay(id, m + k + 1), r, q)
    BY <2>2, <2>3
  <2> QED BY <2>4, <2>5 DEF r
<1>5. CASE s # <<>> /\ m = size
  <2>1. k = 0
    BY <1>1, <1>2, <1>5
  <2> QED BY <1>1, <1>5, <2>1
<1>6. CASE s # <<>> /\ m # size
  <2>1. m < size /\ s[1] = Pay(id, m + 1) /\ Len(s) # 0 /\ 1 \in 1..Len(s)
    <3>1. m < size
      BY <1>1, <1>2, <1>6
    <3>2. Len(s) # 0
      BY <1>2, <1>6, EmptySeq
    <3> QED BY <1>2, <1>6, <3>1, <3>2 DEF Awaits
  <2>2. OfData(s[1]) /\ Pos(s[1]) = m + 1 /\ s[1].id = id
    BY <2>1 DEF Pay, OfData, Pos
  <2>3. ASSUME NEW j \in 1..Len(s), m + j <= size
        PROVE  s[j] = Pay(id, m + j)
    <3>1. CASE j = 1
      BY <3>1, <2>1
    <3>2. CASE j # 1
      <4>1. 1 < j /\ (m + 1) + (j - 1) = m + j
        BY <1>2, <2>3, <3>2
      <4>2. s[j] = Succ(s[1], j - 1)
        <5>1. Pos(s[1]) + (j - 1) <= o[s[1].id + 1].size
          BY <2>2, <2>3, <4>1
        <5> QED BY <1>3, <2>1, <2>2, <4>1, <5>1 DEF Linked
      <4> QED BY <2>2, <4>1, <4>2 DEF Succ
    <3> QED BY <3>1, <3>2
  <2>4. ASSUME NEW j \in 1..k
        PROVE  s[j] = Pay(id, m + j)
    <3>1. j \in 1..Len(s) /\ m + j <= size
      BY <1>1, <1>2, <2>4
    <3> QED BY <2>3, <3>1
  <2>5. ASSUME m + k < size
        PROVE  Awaits(Pay(id, m + k + 1), r, q)
    <3>1. CASE k < Len(s)
      <4>1. /\ k + 1 \in 1..Len(s) /\ m + (k + 1) <= size /\ m + (k + 1) = m + k + 1
            /\ 1 \in 1..Len(s) - k /\ Len(r) # 0
        <5> DEFINE n == Len(s)
                   w == Len(r)
        <5>1. /\ size \in Nat /\ n \in Nat /\ k \in Nat /\ w = n - k
              /\ k < n /\ m + k < size
          BY <1>1, <1>2, <2>5, <3>1
        <5> HIDE DEF size, n, w
        <5>2. /\ k + 1 \in 1..n /\ m + (k + 1) <= size /\ m + (k + 1) = m + k + 1
              /\ 1 \in 1..n - k /\ w # 0
          BY <5>1
        <5> QED BY <5>2 DEF n, w
      <4>2. r[1] = s[k + 1] /\ r # <<>>
        BY <1>2, <4>1
      <4>3. s[k + 1] = Pay(id, m + (k + 1))
        BY <2>3, <4>1
      <4> QED BY <4>1, <4>2, <4>3 DEF Awaits
    <3>2. CASE k = Len(s)
      <4>1. Len(s) \in 1..k
        BY <1>2, <2>1, <3>2
      <4>2. s[Len(s)] = Pay(id, m + k)
        BY <2>4, <3>2, <4>1
      <4>3. Open(o, s) /\ Then(s) = Pay(id, m + k + 1)
        BY <1>6, <2>5, <4>2 DEF Open, Then, Succ, Pay, OfData, Pos
      <4>4. Heads(Pay(id, m + k + 1), q)
        BY <4>3 DEF Stream
      <4>5. r = <<>>
        <5>1. Len(r) = 0
          BY <1>2, <3>2
        <5> QED BY <1>2, <5>1, EmptySeq
      <4> QED BY <4>4, <4>5 DEF Awaits
    <3> QED BY <1>2, <3>1, <3>2
  <2> QED BY <2>4, <2>5 DEF r
<1> QED BY <1>4, <1>5, <1>6

\* Without its first packets a pipe is still chained.
LEMMA ChainedRest ==
    ASSUME NEW o, NEW q \in Seq(Packet), Chained(o, q), NEW i \in 0..Len(q)
    PROVE  /\ Chained(o, SubSeq(q, i + 1, Len(q)))
           /\ i # 0 /\ Open(o, q[i]) => Heads(Then(q[i]), SubSeq(q, i + 1, Len(q)))
<1> DEFINE u == SubSeq(q, i + 1, Len(q))
<1>1. /\ Len(q) \in Nat /\ i \in Nat /\ u \in Seq(Packet) /\ Len(u) = Len(q) - i
      /\ \A j \in 1..Len(q) - i : u[j] = q[i + j]
  BY CutTwo
<1> HIDE DEF u
<1>2. ASSUME NEW j \in 1..Len(u)
      PROVE  /\ Linked(o, u[j])
             /\ Open(o, u[j]) => j < Len(u) /\ u[j + 1] # <<>> /\ u[j + 1][1] = Then(u[j])
  <2>1. i + j \in 1..Len(q) /\ u[j] = q[i + j]
    BY <1>1
  <2>2. Linked(o, q[i + j])
    BY <2>1 DEF Chained
  <2>3. ASSUME Open(o, u[j])
        PROVE  j < Len(u) /\ u[j + 1] # <<>> /\ u[j + 1][1] = Then(u[j])
    <3>1. /\ i + j < Len(q) /\ q[(i + j) + 1] # <<>>
          /\ q[(i + j) + 1][1] = Then(q[i + j])
      BY <2>1, <2>3 DEF Chained
    <3>2. j < Len(u) /\ j + 1 \in 1..Len(q) - i /\ i + (j + 1) = (i + j) + 1
      BY <1>1, <3>1
    <3>3. u[j + 1] = q[(i + j) + 1]
      BY <1>1, <3>2
    <3> QED BY <2>1, <3>1, <3>2, <3>3
  <2> QED BY <2>1, <2>2, <2>3
<1>3. ASSUME i # 0, Open(o, q[i])
      PROVE  Heads(Then(q[i]), u)
  <2>1. i \in 1..Len(q)
    BY <1>1, <1>3
  <2>2. i < Len(q) /\ q[i + 1] # <<>> /\ q[i + 1][1] = Then(q[i])
    BY <1>3, <2>1 DEF Chained
  <2>3. 1 \in 1..Len(q) - i /\ Len(u) # 0
    BY <1>1, <2>2
  <2>4. u[1] = q[i + 1] /\ u # <<>>
    BY <1>1, <2>3
  <2> QED BY <2>2, <2>4 DEF Heads
<1>4. Chained(o, u)
  BY <1>2 DEF Chained
<1> QED BY <1>3, <1>4 DEF u

\* Two parts are linked together if the first does not end within a container,
\* or the second goes on with it.
LEMMA LinkedJoin ==
    ASSUME NEW o \in Seq(Ops), NEW f \in Seq(Token), NEW p \in Seq(Token),
           Linked(o, f), Linked(o, p),
           Open(o, f) => p # <<>> /\ p[1] = Then(f)
    PROVE  Linked(o, f \o p)
<1> DEFINE u == f \o p
           L == Len(f)
<1>1. /\ L \in Nat /\ Len(p) \in Nat /\ u \in Seq(Token) /\ Len(u) = L + Len(p)
      /\ \A i \in 1..L + Len(p) : u[i] = IF i <= L THEN f[i] ELSE p[i - L]
      /\ \A i \in 1..L : f[i] \in Token
      /\ \A i \in 1..Len(p) : p[i] \in Token
  BY LenProperties, ConcatProperties, ElementOfSeq
<1> HIDE DEF u
<1>2. /\ \A i \in 1..L : u[i] = f[i]
      /\ \A i \in 1..Len(p) : u[L + i] = p[i]
  <2>1. ASSUME NEW i \in 1..L PROVE u[i] = f[i]
    BY <1>1
  <2>2. ASSUME NEW i \in 1..Len(p) PROVE u[L + i] = p[i]
    <3>1. L + i \in 1..L + Len(p) /\ ~(L + i <= L) /\ (L + i) - L = i
      BY <1>1
    <3> QED BY <1>1, <3>1
  <2> QED BY <2>1, <2>2
<1>3. ASSUME NEW i \in 1..Len(u)
      PROVE  i \in 1..L \/ \E a \in 1..Len(p) : i = L + a
  <2>1. CASE i <= L
    BY <1>1, <2>1
  <2>2. CASE i > L
    <3>1. i - L \in 1..Len(p) /\ i = L + (i - L)
      BY <1>1, <2>2
    <3> QED BY <3>1
  <2> QED BY <1>1, <2>1, <2>2
<1>4. ASSUME NEW i \in 1..Len(u)
      PROVE  Sound(o, u[i])
  BY <1>2, <1>3 DEF Linked
<1>5. ASSUME NEW i \in 1..Len(u), NEW j \in 1..Len(u), i < j, OfData(u[i]),
             Pos(u[i]) + (j - i) <= o[u[i].id + 1].size
      PROVE  u[j] = Succ(u[i], j - i)
  <2>1. CASE i \in 1..L /\ j \in 1..L
    BY <2>1, <1>2, <1>5 DEF Linked
  <2>2. CASE \E a, b \in 1..Len(p) : i = L + a /\ j = L + b
    <3> PICK a \in 1..Len(p), b \in 1..Len(p) : i = L + a /\ j = L + b
      BY <2>2
    <3>1. a < b /\ j - i = b - a
      BY <1>1, <1>5
    <3>2. u[i] = p[a] /\ u[j] = p[b]
      BY <1>2
    <3>3. Pos(p[a]) + (b - a) <= o[p[a].id + 1].size /\ OfData(p[a])
      BY <1>5, <3>1, <3>2
    <3>4. p[b] = Succ(p[a], b - a)
      BY <3>1, <3>3 DEF Linked
    <3> QED BY <3>1, <3>2, <3>4
  <2>3. CASE i \in 1..L /\ \E b \in 1..Len(p) : j = L + b
    <3> PICK b \in 1..Len(p) : j = L + b
      BY <2>3
    <3> DEFINE t == f[i]
               z == f[L]
    <3>1. u[i] = t /\ u[j] = p[b] /\ t \in Token /\ Sound(o, t) /\ OfData(t)
      BY <1>1, <1>2, <1>5, <2>3 DEF Linked
    <3>2. t.id \in Nat /\ t.id < Len(o) /\ Pos(t) \in Nat /\ o[t.id + 1].size \in Nat
      BY <3>1, DataSized
    <3> HIDE DEF t
    <3>3. Pos(t) + ((L + b) - i) <= o[t.id + 1].size
      BY <1>5, <3>1
    <3>4. L \in 1..L /\ i <= L /\ b >= 1 /\ (L + b) - i = (L - i) + b /\ L - i \in Nat
      BY <1>1, <2>3
    <3>5. z.id = t.id /\ Pos(z) = Pos(t) + (L - i) /\ OfData(z)
      <4>1. CASE i = L
        <5>1. z = t /\ L - i = 0
          BY <4>1, <1>1 DEF t
        <5> HIDE DEF z
        <5> QED BY <3>1, <3>2, <5>1
      <4>2. CASE i # L
        <5>1. i < L /\ Pos(t) + (L - i) <= o[t.id + 1].size
          <6>1. ASSUME NEW x \in Nat, NEW y \in Nat, NEW n \in Nat, x + (y + b) <= n
                PROVE  x + y <= n
            BY <6>1
          <6>2. Pos(t) + ((L - i) + b) <= o[t.id + 1].size
            BY <3>3, <3>4
          <6>3. Pos(t) + (L - i) <= o[t.id + 1].size
            BY <3>2, <3>4, <6>1, <6>2
          <6>4. i < L
            BY <4>2, <3>4, <1>1, <2>3
          <6> QED BY <6>3, <6>4
        <5>2. f[L] = Succ(f[i], L - i)
          BY <2>3, <3>1, <3>4, <5>1 DEF Linked, t
        <5>3. z = Succ(t, L - i)
          BY <5>2 DEF t
        <5> HIDE DEF z
        <5> QED BY <5>3 DEF Succ, Pay, Pos, OfData
      <4> QED BY <4>1, <4>2
    <3> HIDE DEF z
    <3>6. Pos(z) < o[z.id + 1].size
      <4>1. Pos(t) + ((L - i) + b) <= o[t.id + 1].size
        BY <3>3, <3>4
      <4>2. ASSUME NEW x \in Nat, NEW y \in Nat, NEW n \in Nat, x + (y + b) <= n
            PROVE  x + y < n
        BY <4>2
      <4>3. Pos(t) + (L - i) < o[t.id + 1].size
        BY <3>2, <3>4, <4>1, <4>2
      <4> QED BY <3>5, <4>3
    <3>7. Open(o, f)
      <4>1. f # <<>>
        BY <3>4
      <4> QED BY <3>5, <3>6, <4>1 DEF Open, z
    <3>8. p # <<>> /\ p[1] = Pay(t.id, Pos(t) + (L - i) + 1)
      BY <3>5, <3>7 DEF Then, Succ, z
    <3>9. CASE b = 1
      <4>1. Pos(t) + (L - i) + 1 = Pos(t) + ((L + b) - i)
        BY <3>2, <3>4, <3>9
      <4>2. j - i = (L + b) - i
        OBVIOUS
      <4> QED BY <3>1, <3>8, <3>9, <4>1, <4>2 DEF Succ
    <3>10. CASE b # 1
      <4>1. 1 < b /\ 1 \in 1..Len(p)
        BY <1>1, <3>10
      <4>2. OfData(p[1]) /\ Pos(p[1]) = Pos(t) + (L - i) + 1 /\ p[1].id = t.id
        BY <3>8 DEF OfData, Pos, Pay
      <4>3. /\ Pos(p[1]) + (b - 1) <= o[p[1].id + 1].size
            /\ Pos(p[1]) + (b - 1) = Pos(t) + ((L + b) - i)
        <5>1. ASSUME NEW x \in Nat, NEW y \in Nat
              PROVE  (x + y + 1) + (b - 1) = x + (y + b)
          BY <5>1
        <5>2. Pos(p[1]) + (b - 1) = Pos(t) + ((L - i) + b)
          BY <3>2, <3>4, <4>2, <5>1
        <5> QED BY <3>3, <3>4, <4>2, <5>2
      <4>4. p[b] = Succ(p[1], b - 1)
        BY <4>1, <4>2, <4>3 DEF Linked
      <4>5. j - i = (L + b) - i
        OBVIOUS
      <4> QED BY <3>1, <4>2, <4>3, <4>4, <4>5 DEF Succ
    <3> QED BY <3>9, <3>10
  <2>4. CASE j \in 1..L /\ \E a \in 1..Len(p) : i = L + a
    BY <2>4, <1>1, <1>5
  <2> QED BY <1>3, <2>1, <2>2, <2>3, <2>4
<1>6. Linked(o, u)
  BY <1>4, <1>5 DEF Linked
<1> QED BY <1>6 DEF u

\* What the host reads from the pipe continues what it has.
LEMMA StreamJoin ==
    ASSUME NEW o \in Seq(Ops), NEW f \in Seq(Token), NEW q \in Seq(Packet),
           Stream(o, f, q), NEW i \in {1, 2}, i <= Len(q),
           i = 1 => q[1] # <<>>, i = 2 => q[1] = <<>>
    PROVE  /\ q[i] \in Seq(Token) /\ f \o q[i] \in Seq(Token)
           /\ Stream(o, f \o q[i], SubSeq(q, i + 1, Len(q)))
           /\ \A t : Awaits(t, f, q) => Awaits(t, f \o q[i], SubSeq(q, i + 1, Len(q)))
<1> DEFINE p == q[i]
           v == SubSeq(q, i + 1, Len(q))
           u == f \o p
<1>1. Len(q) \in Nat /\ i \in 1..Len(q) /\ i \in 0..Len(q) /\ p \in Seq(Token)
  <2>1. Len(q) \in Nat /\ i \in 1..Len(q) /\ i \in 0..Len(q)
    BY LenProperties
  <2>2. p \in Packet
    BY <2>1, ElementOfSeq
  <2> QED BY <2>1, <2>2 DEF Packet
<1>2. Linked(o, p) /\ Chained(o, v) /\ (Open(o, p) => Heads(Then(p), v))
  <2>1. Chained(o, q)
    BY DEF Stream
  <2>2. Linked(o, p)
    BY <1>1, <2>1 DEF Chained
  <2>3. Chained(o, v) /\ (i # 0 /\ Open(o, p) => Heads(Then(p), v))
    BY <1>1, <2>1, ChainedRest
  <2> QED BY <2>2, <2>3
<1> HIDE DEF v
<1>3. ASSUME Open(o, f)
      PROVE  i = 1 /\ p # <<>> /\ p[1] = Then(f)
  BY <1>3 DEF Stream, Heads
<1> HIDE DEF p
<1>4. Linked(o, u)
  BY <1>1, <1>2, <1>3, LinkedJoin DEF Stream
<1>5. /\ Len(f) \in Nat /\ Len(p) \in Nat /\ u \in Seq(Token) /\ Len(u) = Len(f) + Len(p)
      /\ \A j \in 1..Len(f) + Len(p) : u[j] = IF j <= Len(f) THEN f[j] ELSE p[j - Len(f)]
  BY <1>1, LenProperties, ConcatProperties
<1>6. ASSUME p = <<>>
      PROVE  u = f
  BY <1>6
<1>7. ASSUME f = <<>>
      PROVE  u = p
  BY <1>1, <1>7
<1>8. ASSUME f # <<>>
      PROVE  u # <<>> /\ u[1] = f[1]
  <2>1. Len(f) # 0
    BY <1>8, EmptySeq
  <2>2. 1 \in 1..Len(f) + Len(p) /\ 1 <= Len(f) /\ Len(u) # 0
    BY <1>5, <2>1
  <2> HIDE DEF u
  <2> QED BY <1>5, <2>2
<1>9. ASSUME p # <<>>
      PROVE  u # <<>> /\ u[Len(u)] = p[Len(p)]
  <2>1. Len(p) # 0
    BY <1>1, <1>9, EmptySeq
  <2>2. /\ Len(f) + Len(p) \in 1..Len(f) + Len(p) /\ ~(Len(f) + Len(p) <= Len(f))
        /\ (Len(f) + Len(p)) - Len(f) = Len(p) /\ Len(u) # 0
    BY <1>5, <2>1
  <2> HIDE DEF u
  <2> QED BY <1>5, <2>2
<1> HIDE DEF u
<1>10. Open(o, u) => Heads(Then(u), v)
  <2>1. CASE p = <<>>
    BY <2>1, <1>3, <1>6
  <2>2. CASE p # <<>>
    BY <2>2, <1>2, <1>9 DEF Open, Then
  <2> QED BY <2>1, <2>2
<1>11. Stream(o, u, v)
  BY <1>2, <1>4, <1>10 DEF Stream
<1>12. ASSUME NEW t, Awaits(t, f, q)
       PROVE  Awaits(t, u, v)
  <2>1. CASE f # <<>>
    BY <2>1, <1>8, <1>12 DEF Awaits
  <2>2. CASE f = <<>>
    <3>1. q[1] # <<>> /\ q[1][1] = t
      BY <2>2, <1>12 DEF Awaits, Heads
    <3>2. p # <<>> /\ p[1] = t
      BY <3>1 DEF p
    <3> QED BY <2>2, <1>7, <3>2 DEF Awaits
  <2> QED BY <2>1, <2>2
<1> QED BY <1>1, <1>5, <1>11, <1>12 DEF u, v, p

\* What is linked stays so when an operation is requested.
LEMMA LinkedGrows ==
    ASSUME NEW o \in Seq(Ops), NEW op \in Ops, NEW s \in Seq(Token), Linked(o, s)
    PROVE  /\ Linked(Append(o, op), s)
           /\ Open(Append(o, op), s) => Open(o, s)
<1> DEFINE w == Append(o, op)
<1>1. /\ Len(o) \in Nat /\ Len(w) = Len(o) + 1 /\ \A i \in 1..Len(o) : w[i] = o[i]
      /\ Len(s) \in Nat /\ \A i \in 1..Len(s) : s[i] \in Token
  BY LenProperties, ElementOfSeq, AppendProperties
<1> HIDE DEF w
<1>2. ASSUME NEW i \in 1..Len(s), OfData(s[i])
      PROVE  s[i].id < Len(w) /\ w[s[i].id + 1] = o[s[i].id + 1]
  <2>1. s[i].id \in Nat /\ s[i].id < Len(o)
    <3>1. Sound(o, s[i]) /\ s[i] \in Token
      BY <1>1 DEF Linked
    <3> QED BY <3>1, <1>2, DataSized
  <2>2. s[i].id + 1 \in 1..Len(o) /\ s[i].id < Len(w)
    BY <1>1, <2>1
  <2> QED BY <1>1, <2>2
<1>3. ASSUME NEW i \in 1..Len(s)
      PROVE  Sound(w, s[i])
  BY <1>2 DEF Linked, Sound
<1>4. ASSUME NEW i \in 1..Len(s), NEW j \in 1..Len(s), i < j, OfData(s[i]),
             Pos(s[i]) + (j - i) <= w[s[i].id + 1].size
      PROVE  s[j] = Succ(s[i], j - i)
  <2>1. Pos(s[i]) + (j - i) <= o[s[i].id + 1].size
    BY <1>2, <1>4
  <2> QED BY <1>4, <2>1 DEF Linked
<1>5. Linked(w, s)
  BY <1>3, <1>4 DEF Linked
<1>6. ASSUME Open(w, s)
      PROVE  Open(o, s)
  <2>1. s # <<>> /\ OfData(s[Len(s)]) /\ Pos(s[Len(s)]) < w[s[Len(s)].id + 1].size
    BY <1>6 DEF Open
  <2>2. Len(s) \in 1..Len(s)
    <3>1. Len(s) # 0
      BY <2>1, EmptySeq
    <3> QED BY <1>1, <3>1
  <2>3. w[s[Len(s)].id + 1] = o[s[Len(s)].id + 1]
    BY <1>2, <2>1, <2>2
  <2> QED BY <2>1, <2>3 DEF Open
<1> QED BY <1>5, <1>6 DEF w

\* So does all that is on its way.
LEMMA StreamGrows ==
    ASSUME NEW o \in Seq(Ops), NEW op \in Ops, NEW f \in Seq(Token),
           NEW q \in Seq(Packet), Stream(o, f, q)
    PROVE  Stream(Append(o, op), f, q)
<1> DEFINE w == Append(o, op)
<1>1. \A s \in Seq(Token) : Linked(o, s) => Linked(w, s) /\ (Open(w, s) => Open(o, s))
  BY LinkedGrows
<1> HIDE DEF w
<1>2. \A i \in 1..Len(q) : q[i] \in Seq(Token)
  <2>1. \A i \in 1..Len(q) : q[i] \in Packet
    BY ElementOfSeq
  <2> QED BY <2>1 DEF Packet
<1>3. Chained(w, q)
  BY <1>1, <1>2 DEF Stream, Chained
<1>4. Linked(w, f) /\ (Open(w, f) => Heads(Then(f), q))
  BY <1>1 DEF Stream
<1> QED BY <1>3, <1>4 DEF Stream, w

\* The camera adds to the pipe what is chained by itself.
LEMMA StreamFed ==
    ASSUME NEW o, NEW f, NEW q \in Seq(Packet), NEW c \in Seq(Packet),
           Stream(o, f, q), Chained(o, c)
    PROVE  /\ Stream(o, f, q \o c)
           /\ \A t : Awaits(t, f, q) => Awaits(t, f, q \o c)
<1> DEFINE u == q \o c
           L == Len(q)
<1>1. /\ L \in Nat /\ Len(c) \in Nat /\ Len(u) = L + Len(c) /\ u \in Seq(Packet)
      /\ \A i \in 1..L + Len(c) : u[i] = IF i <= L THEN q[i] ELSE c[i - L]
  BY LenProperties, ConcatProperties
<1> HIDE DEF u
<1>2. /\ \A i \in 1..L : u[i] = q[i]
      /\ \A i \in 1..Len(c) : u[L + i] = c[i]
  <2>1. ASSUME NEW i \in 1..L PROVE u[i] = q[i]
    BY <1>1
  <2>2. ASSUME NEW i \in 1..Len(c) PROVE u[L + i] = c[i]
    <3>1. L + i \in 1..L + Len(c) /\ ~(L + i <= L) /\ (L + i) - L = i
      BY <1>1
    <3> QED BY <1>1, <3>1
  <2> QED BY <2>1, <2>2
<1>3. ASSUME NEW i \in 1..Len(u)
      PROVE  /\ Linked(o, u[i])
             /\ Open(o, u[i]) => i < Len(u) /\ u[i + 1] # <<>> /\ u[i + 1][1] = Then(u[i])
  <2>1. CASE i \in 1..L
    <3>1. Linked(o, u[i])
      BY <2>1, <1>2 DEF Stream, Chained
    <3>2. ASSUME Open(o, u[i])
          PROVE  i < Len(u) /\ u[i + 1] # <<>> /\ u[i + 1][1] = Then(u[i])
      <4>1. i < L /\ q[i + 1] # <<>> /\ q[i + 1][1] = Then(q[i])
        BY <2>1, <3>2, <1>2 DEF Stream, Chained
      <4>2. i + 1 \in 1..L /\ i < Len(u)
        BY <1>1, <2>1, <4>1
      <4> QED BY <1>2, <2>1, <4>1, <4>2
    <3> QED BY <3>1, <3>2
  <2>2. CASE i \notin 1..L
    <3> DEFINE a == i - L
    <3>1. a \in 1..Len(c) /\ i = L + a
      BY <1>1, <2>2
    <3> HIDE DEF a
    <3>2. u[i] = c[a]
      BY <1>2, <3>1
    <3>3. Linked(o, u[i])
      BY <3>1, <3>2 DEF Chained
    <3>4. ASSUME Open(o, u[i])
          PROVE  i < Len(u) /\ u[i + 1] # <<>> /\ u[i + 1][1] = Then(u[i])
      <4>1. a < Len(c) /\ c[a + 1] # <<>> /\ c[a + 1][1] = Then(c[a])
        BY <3>1, <3>2, <3>4 DEF Chained
      <4>2. a + 1 \in 1..Len(c) /\ i < Len(u) /\ L + (a + 1) = i + 1
        <5> DEFINE n == Len(c)
                   w == Len(u)
        <5>1. /\ L \in Nat /\ n \in Nat /\ w = L + n
              /\ a \in 1..n /\ a < n /\ i = L + a
          BY <1>1, <3>1, <4>1
        <5> HIDE DEF L, n, w
        <5>2. a + 1 \in 1..n /\ i < w /\ L + (a + 1) = i + 1
          BY <5>1
        <5> QED BY <5>2 DEF n, w
      <4>3. u[L + (a + 1)] = c[a + 1]
        BY <1>2, <4>2
      <4> QED BY <3>2, <4>1, <4>2, <4>3
    <3> QED BY <3>3, <3>4
  <2> QED BY <2>1, <2>2
<1>4. Chained(o, u)
  BY <1>3 DEF Chained
<1>5. ASSUME NEW t, Heads(t, q)
      PROVE  Heads(t, u)
  <2>1. q # <<>> /\ q[1] # <<>> /\ q[1][1] = t
    BY <1>5 DEF Heads
  <2>2. Len(q) # 0
    BY <2>1, EmptySeq
  <2>3. 1 \in 1..L /\ Len(u) # 0
    BY <1>1, <2>2
  <2>4. u[1] = q[1] /\ u # <<>>
    BY <1>2, <2>3
  <2> QED BY <2>1, <2>4 DEF Heads
<1>6. Stream(o, f, u)
  BY <1>4, <1>5 DEF Stream
<1>7. \A t : Awaits(t, f, q) => Awaits(t, f, u)
  BY <1>5 DEF Awaits
<1> QED BY <1>6, <1>7 DEF u

\* A part of an answer, as long as it is of the data container.
LEMMA AtLinked ==
    ASSUME NEW x \in Trans, NEW r \in Replies(x), NEW o \in Seq(Ops),
           x.id < Len(o), o[x.id + 1] = x.op,
           NEW s \in Seq(Token), NEW a \in Nat, At(s, x, r, a),
           a + Len(s) <= DataLen(x, r)
    PROVE  /\ Linked(o, s)
           /\ s # <<>> => /\ Then(s) = Pay(x.id, a + Len(s))
                          /\ Open(o, s) <=> a + Len(s) < DataLen(x, r)
<1>1. /\ x.id \in Nat /\ x.op.size \in Nat /\ Len(s) \in Nat /\ DataLen(x, r) \in Nat
      /\ DataLen(x, r) \in {0, x.op.size + 1}
  BY ReplyFacts, LenProperties DEF Trans, Op, DataLen
<1>2. ASSUME NEW j \in 1..Len(s)
      PROVE  /\ s[j] = DataTok(x, a + j) /\ a + j <= DataLen(x, r)
             /\ OfData(s[j]) /\ s[j].id = x.id /\ Pos(s[j]) = a + j - 1
             /\ s[j].k = "data" => s[j].n = x.op.size
  <2>1. a + j <= DataLen(x, r) /\ a + j \in Nat /\ a + j >= 1
    BY <1>1
  <2>2. s[j] = DataTok(x, a + j)
    BY <2>1 DEF At, Tok
  <2>3. /\ OfData(DataTok(x, a + j)) /\ DataTok(x, a + j).id = x.id
        /\ Pos(DataTok(x, a + j)) = a + j - 1
        /\ DataTok(x, a + j).k = "data" => DataTok(x, a + j).n = x.op.size
    BY <2>1 DEF DataTok, OfData, Pos
  <2> QED BY <2>1, <2>2, <2>3
<1>3. ASSUME NEW i \in 1..Len(s)
      PROVE  Sound(o, s[i])
  BY <1>2 DEF Sound
<1>4. ASSUME NEW i \in 1..Len(s), NEW j \in 1..Len(s), i < j
      PROVE  s[j] = Succ(s[i], j - i)
  <2>1. (a + i - 1) + (j - i) = a + j - 1 /\ a + j # 1
    BY <1>1, <1>4
  <2>2. s[j] = Pay(x.id, a + j - 1)
    BY <1>2, <2>1 DEF DataTok, Pay
  <2> QED BY <1>2, <2>1, <2>2 DEF Succ
<1>5. Linked(o, s)
  BY <1>3, <1>4 DEF Linked
<1>6. ASSUME s # <<>>
      PROVE  /\ Then(s) = Pay(x.id, a + Len(s))
             /\ Open(o, s) <=> a + Len(s) < DataLen(x, r)
  <2>1. Len(s) \in 1..Len(s)
    <3>1. Len(s) # 0
      BY <1>6, EmptySeq
    <3> QED BY <1>1, <3>1
  <2>2. /\ OfData(s[Len(s)]) /\ s[Len(s)].id = x.id /\ Pos(s[Len(s)]) = a + Len(s) - 1
        /\ a + Len(s) <= DataLen(x, r)
    BY <1>2, <2>1
  <2>3. (a + Len(s) - 1) + 1 = a + Len(s) /\ DataLen(x, r) = x.op.size + 1
    BY <1>1, <2>1, <2>2
  <2>4. Then(s) = Pay(x.id, a + Len(s))
    BY <2>2, <2>3 DEF Then, Succ
  <2>5. Open(o, s) <=> a + Len(s) - 1 < x.op.size
    BY <1>6, <2>2 DEF Open
  <2> QED BY <1>1, <2>3, <2>4, <2>5
<1> QED BY <1>5, <1>6

\* The packets of an answer are chained.
LEMMA CutChained ==
    ASSUME NEW x \in Trans, NEW r \in Replies(x), NEW o \in Seq(Ops),
           x.id < Len(o), o[x.id + 1] = x.op,
           NEW q \in Seq(Packet), Cut(q, x, r, 0)
    PROVE  Chained(o, q)
<1> DEFINE D == DataLen(x, r)
           n == Len(q)
<1>1. /\ D \in Nat /\ n \in Nat /\ Len(r) \in Nat /\ Len(r) >= 1
      /\ \A i \in 1..n : q[i] \in Seq(Token) /\ Len(q[i]) \in Nat
  <2>1. \A i \in 1..n : q[i] \in Packet
    BY ElementOfSeq
  <2> QED BY <2>1, ReplyFacts, LenProperties DEF Packet
<1>2. CASE q = <<>>
  BY <1>2 DEF Chained
<1>3. CASE q # <<>>
  <2>1. /\ q[n] = r /\ D - 0 <= Off(n)
        /\ n > 1 => Off(n - 1) <= D - 0
        /\ \A i \in 1..n-1 : /\ Len(q[i]) = MinOf(PacketLen, D - 0 - Off(i))
                             /\ At(q[i], x, r, 0 + Off(i))
    BY <1>3, ReplyFacts DEF Cut
  <2>2. n >= 1
    <3>1. n # 0
      BY <1>3, EmptySeq
    <3> QED BY <1>1, <3>1
  <2>3. ASSUME NEW i \in 1..n - 1
        PROVE  /\ Off(i) \in Nat /\ Off(i) <= D /\ Off(i + 1) = Off(i) + PacketLen
               /\ i # n - 1 => Off(i + 1) <= D
               /\ i = n - 1 => D <= Off(i + 1)
               /\ Len(q[i]) = MinOf(PacketLen, D - Off(i)) /\ At(q[i], x, r, Off(i))
    <3>1. i - 1 \in Nat /\ (i - 1) + 1 = i /\ (i - 1) + 2 = i + 1 /\ n > 1
      BY <1>1
    <3>2. Off(i) \in Nat /\ Off(i + 1) = Off(i) + PacketLen
      BY <3>1, OffFacts
    <3>3. i # n - 1 => Off(i + 1) <= Off(n - 1)
      <4>1. CASE i + 1 = n - 1
        <5>1. i \in Nat /\ Off(i + 1) \in Nat
          BY <3>1, <3>2, PacketLenAssumption
        <5> QED BY <4>1, <5>1
      <4>2. CASE i + 1 # n - 1 /\ i # n - 1
        <5>1. i \in Nat /\ n - 2 \in Nat /\ i < n - 2 /\ (n - 2) + 1 = n - 1
          BY <1>1, <4>2
        <5>2. Off((n - 2) + 1) >= Off(i + 1) + PacketLen
          BY <5>1, OffMono
        <5>3. Off(i + 1) \in Nat /\ Off(n - 1) \in Nat
          BY <5>1, OffFacts
        <5>4. Off(n - 1) >= Off(i + 1) + PacketLen
          BY <5>1, <5>2
        <5> HIDE DEF n
        <5> QED BY <5>3, <5>4, PacketLenAssumption
      <4> QED BY <4>1, <4>2
    <3>4. Off(n - 1) <= D
      BY <1>1, <2>1, <3>1
    <3>5. Off(n - 1) \in Nat /\ Off(i) <= Off(n - 1)
      <4>1. n - 2 \in Nat /\ (n - 2) + 1 = n - 1
        BY <1>1, <3>1
      <4>2. Off((n - 2) + 1) \in Nat
        BY <4>1, OffFacts
      <4>3. i = n - 1 \/ Off(i) <= Off(i + 1)
        BY <3>2, PacketLenAssumption
      <4>4. Off(i + 1) \in Nat
        BY <3>2, PacketLenAssumption
      <4> QED BY <3>2, <3>3, <4>1, <4>2, <4>3, <4>4
    <3>6. D - 0 - Off(i) = D - Off(i) /\ 0 + Off(i) = Off(i) /\ D - 0 = D
      BY <1>1, <3>2
    <3>7. i = n - 1 => D <= Off(i + 1)
      <4>1. i = n - 1 => i + 1 = n
        BY <1>1
      <4> QED BY <2>1, <3>6, <4>1
    <3>8. i # n - 1 => Off(i + 1) <= D
      <4>1. Off(i + 1) \in Nat
        BY <3>2, PacketLenAssumption
      <4> QED BY <1>1, <3>3, <3>4, <3>5, <4>1
    <3>9. Off(i) <= D
      BY <1>1, <3>2, <3>4, <3>5
    <3>10. Len(q[i]) = MinOf(PacketLen, D - Off(i)) /\ At(q[i], x, r, Off(i))
      BY <2>1, <3>6
    <3> QED BY <3>2, <3>7, <3>8, <3>9, <3>10
  <2>4. ASSUME NEW i \in 1..n - 1
        PROVE  /\ Linked(o, q[i])
               /\ Open(o, q[i]) =>
                     i < n /\ q[i + 1] # <<>> /\ q[i + 1][1] = Then(q[i])
    <3> DEFINE s == q[i]
               a == Off(i)
    <3>1. /\ a \in Nat /\ a <= D /\ s \in Seq(Token) /\ Len(s) \in Nat
          /\ Len(s) = MinOf(PacketLen, D - a) /\ At(s, x, r, a) /\ i \in 1..n
      BY <1>1, <2>3
    <3> HIDE DEF s, a
    <3>2. a + Len(s) <= D /\ (a + Len(s) < D => Len(s) = PacketLen)
      BY <1>1, <3>1, PacketLenAssumption DEF MinOf
    <3>3. /\ Linked(o, s)
          /\ s # <<>> => /\ Then(s) = Pay(x.id, a + Len(s))
                         /\ Open(o, s) <=> a + Len(s) < D
      BY <3>1, <3>2, AtLinked
    <3>4. ASSUME Open(o, s)
          PROVE  i < n /\ q[i + 1] # <<>> /\ q[i + 1][1] = Then(s)
      <4>1. s # <<>>
        BY <3>4 DEF Open
      <4>2. a + PacketLen < D /\ Len(s) = PacketLen /\ Then(s) = Pay(x.id, a + PacketLen)
        BY <3>2, <3>3, <3>4, <4>1
      <4>3. Off(i + 1) = a + PacketLen /\ i # n - 1
        <5>1. Off(i + 1) = a + PacketLen
          BY <2>3 DEF a
        <5>2. i = n - 1 => D <= Off(i + 1)
          BY <2>3
        <5> QED BY <1>1, <3>1, <4>2, <5>1, <5>2, PacketLenAssumption
      <4>4. i + 1 \in 1..n - 1 /\ i < n
        BY <1>1, <4>3
      <4>5. /\ Len(q[i + 1]) = MinOf(PacketLen, D - Off(i + 1))
            /\ At(q[i + 1], x, r, Off(i + 1)) /\ i + 1 \in 1..n
        <5>1. i + 1 \in 1..n
          BY <1>1, <4>4
        <5> HIDE DEF n, D
        <5> QED BY <2>3, <4>4, <5>1
      <4>6. Len(q[i + 1]) >= 1
        BY <1>1, <3>1, <4>2, <4>3, <4>5, PacketLenAssumption DEF MinOf
      <4>7. 1 \in 1..Len(q[i + 1]) /\ q[i + 1] # <<>>
        BY <1>1, <4>5, <4>6
      <4>8. q[i + 1][1] = Tok(x, r, (a + PacketLen) + 1)
        BY <4>3, <4>5, <4>7 DEF At
      <4>9. /\ (a + PacketLen) + 1 <= D /\ (a + PacketLen) + 1 # 1
            /\ ((a + PacketLen) + 1) - 1 = a + PacketLen
        BY <1>1, <3>1, <4>2, PacketLenAssumption
      <4>10. Tok(x, r, (a + PacketLen) + 1) = Pay(x.id, a + PacketLen)
        BY <4>9 DEF Tok, DataTok, Pay
      <4> QED BY <4>2, <4>4, <4>7, <4>8, <4>10
    <3> QED BY <3>3, <3>4 DEF s
  <2>5. Linked(o, q[n]) /\ ~Open(o, q[n])
    <3>1. r \in Seq(Token) /\ \A j \in 1..Len(r) : ~OfData(r[j])
      <4>1. r \in Seq(Token)
        BY ReplyFacts
      <4>2. ASSUME NEW kind \in {"ok", "err"}, NEW par \in Nat,
                   NEW j \in 1..Len(Response(kind, x.id, par))
            PROVE  ~OfData(Response(kind, x.id, par)[j])
        <5> DEFINE e(i) == IF i = 1 THEN [k |-> kind, id |-> x.id, n |-> par]
                           ELSE [k |-> "par", id |-> x.id, n |-> i - 1]
                   z == Response(kind, x.id, par)
        <5>1. z = [i \in 1..par + 1 |-> e(i)]
          BY DEF Response
        <5>2. e(j).k \notin {"data", "pay"}
          OBVIOUS
        <5> HIDE DEF e
        <5>3. Len(z) = par + 1
          BY <5>1
        <5>4. z[j] = e(j)
          BY <5>1, <5>3
        <5> QED BY <5>2, <5>4 DEF OfData
      <4>3. x.op.par \in Nat
        BY PacketLenAssumption DEF Trans, Op
      <4> QED BY <4>1, <4>2, <4>3 DEF Replies
    <3>2. Len(r) \in 1..Len(r)
      BY <1>1
    <3> QED BY <2>1, <3>1, <3>2 DEF Linked, Sound, Open
  <2>6. ASSUME NEW i \in 1..n
        PROVE  /\ Linked(o, q[i])
               /\ Open(o, q[i]) =>
                     i < n /\ q[i + 1] # <<>> /\ q[i + 1][1] = Then(q[i])
    <3>1. i = n \/ i \in 1..n - 1
      BY <1>1
    <3> QED BY <2>4, <2>5, <3>1
  <2> QED BY <2>6 DEF Chained
<1> QED BY <1>2, <1>3

-----------------------------------------------------------------------------
\* What the host has taken from the pipe and not yet handed on, and the packets
\* it has still to read.
Front == IF pc = "fill" THEN fill ELSE buf.data

Pipe == inp \o camq

Flow == Stream(ops, Front, Pipe)

\* The payload of the operation id comes next, from behind its n-th token on.
Comes(o, f, q, id, n) == n < o[id + 1].size => Awaits(Pay(id, n + 1), f, q)

Awaiting(id, n) == Comes(ops, Front, Pipe, id, n)

Begins(s, id, n) == \A j \in 1..Len(s) : s[j] = Pay(id, n + j)

\* What the read and the caller have is the first part of the payload of the
\* operation id, the rest comes next, and the host will read all of it.
Delivers(id) ==
    /\ id < Len(ops) /\ ops[id + 1].code = cur.op.code
    /\ Begins(got, id, 0) /\ Begins(rd.dst, id, Len(got))
    /\ Len(got) + Len(rd.dst) <= ops[id + 1].size
    /\ Awaiting(id, Len(got) + Len(rd.dst))
    /\ Len(got) + Unread = ops[id + 1].size
    /\ cur.op.block = 0 => got = <<>> /\ pc # "handler" /\ rd.size = left

Delivered(id) ==
    /\ id < Len(ops) /\ ops[id + 1].code = cur.op.code
    /\ Begins(got, id, 0) /\ Len(got) = ops[id + 1].size

\* What the points of the code say of the read and of the pipe.
StageInv ==
    /\ pc \in {"idle", "sendreq", "senddata", "sendrest", "sendzlp"} => rd.stage = "none"
    /\ pc \in {"senddata", "sendrest", "sendzlp"} => cur.op.phase # "get"
    /\ pc = "sendreq" => got = <<>>
    /\ pc = "bulk" => rd.stage = "data"
    /\ Reading /\ rd.stage = "datahdr" => got = <<>> /\ (pc # "return" => rd.dst = <<>>)
    /\ pc = "handler" => rd.stage = "data"
    /\ cam.st # "reply" => camq = <<>>

\* The header that was read: its payload comes next.
Announced ==
    pc = "return" /\ rd.stage = "datahdr" =>
        Sound(ops, Hdr) /\ (Hdr.k = "data" => Awaiting(Hdr.id, 0))

Delivering ==
    pc # "idle" /\ rd.stage = "data" => \E id \in 0..cur.id : Delivers(id)

Complete ==
    pc # "idle" /\ cur.op.phase = "get" /\ rd.stage \in {"resphdr", "resppar"}
        => \E id \in 0..cur.id : Delivered(id)

PhaseInv == StageInv /\ Flow /\ Announced /\ Delivering /\ Complete /\ WholeDataPhase

\* The types of what the invariant is about.
LEMMA PhaseTypes ==
    ASSUME IndInv
    PROVE  /\ ops \in Seq(Ops) /\ Len(ops) \in Nat
           /\ \A id \in Nat : id < Len(ops) =>
                 /\ ops[id + 1] \in Op /\ ops[id + 1].size \in Nat
           /\ inp \in Seq(Packet) /\ camq \in Seq(Packet) /\ Pipe \in Seq(Packet)
           /\ buf \in Buffer /\ buf.data \in Seq(Token) /\ fill \in Seq(Token)
           /\ Front \in Seq(Token)
           /\ rd \in ReadType /\ rd.dst \in Seq(Token) /\ Len(rd.dst) \in Nat
           /\ rd.size \in Nat /\ rd.min \in Nat /\ rd.bulk \in Nat
           /\ got \in Seq(Token) /\ Len(got) \in Nat /\ left \in Nat
           /\ cur.id \in Nat /\ cur.op \in Op /\ cur.op.block \in Nat
<1>1. TypeOK
  BY DEF IndInv
<1>2. /\ ops \in Seq(Ops) /\ inp \in Seq(Packet) /\ camq \in Seq(Packet)
      /\ buf \in Buffer /\ buf.data \in Seq(Token) /\ fill \in Seq(Token)
      /\ rd \in ReadType /\ rd.dst \in Seq(Token)
      /\ rd.size \in Nat /\ rd.min \in Nat /\ rd.bulk \in Nat
      /\ got \in Seq(Token) /\ left \in Nat /\ cur.id \in Nat
  BY <1>1 DEF TypeOK, ReadType, Buffer
<1>3. Len(ops) \in Nat /\ Len(rd.dst) \in Nat /\ Len(got) \in Nat
  BY <1>2, LenProperties
<1>4. ASSUME NEW id \in Nat, id < Len(ops)
      PROVE  ops[id + 1] \in Op /\ ops[id + 1].size \in Nat
  <2>1. id + 1 \in 1..Len(ops)
    BY <1>3, <1>4
  <2>2. ops[id + 1] \in Ops
    BY <1>2, <2>1, ElementOfSeq
  <2> QED BY <2>2, OpsAssumption DEF Op
<1>5. Pipe \in Seq(Packet) /\ Front \in Seq(Token)
  BY <1>2, ConcatProperties DEF Pipe, Front
<1>6. cur.op \in Op /\ cur.op.block \in Nat
  BY <1>1, OpType DEF Op
<1> QED BY <1>2, <1>3, <1>4, <1>5, <1>6

\* A result stays whole.
LEMMA WholeKept ==
    ASSUME IndInv, CurInv, WholeDataPhase, UNCHANGED result,
           ops' = ops \/ (\E op \in Ops : ops' = Append(ops, op))
    PROVE  WholeDataPhase'
<1> SUFFICES ASSUME result'.rc = "ok", ops'[result'.id + 1].phase = "get"
             PROVE  \E i \in 0..result'.id :
                       /\ ops'[i + 1].code = ops'[result'.id + 1].code
                       /\ result'.data = Payload(i)'
  BY DEF WholeDataPhase
<1>1. result.id \in Nat /\ result.id < Len(ops) /\ Len(ops) \in Nat /\ ops \in Seq(Ops)
  BY PhaseTypes DEF CurInv, IndInv, TypeOK
<1>2. ASSUME NEW i \in 0..result.id
      PROVE  ops'[i + 1] = ops[i + 1]
  <2>1. i + 1 \in 1..Len(ops)
    BY <1>1
  <2> QED BY <1>1, <2>1, AppendProperties
<1>3. result.id \in 0..result.id
  BY <1>1
<1>4. PICK i \in 0..result.id : /\ ops[i + 1].code = ops[result.id + 1].code
                                /\ result.data = Payload(i)
  BY <1>2, <1>3 DEF WholeDataPhase
<1>5. Payload(i)' = Payload(i)
  BY <1>2 DEF Payload, DataContainer
<1> QED BY <1>2, <1>3, <1>4, <1>5

\* A step that leaves alone what is on its way.
LEMMA FlowKept ==
    ASSUME Flow, UNCHANGED <<ops, buf, inp, camq>>, pc # "fill", pc' # "fill"
    PROVE  Flow' /\ Front' = Front /\ Pipe' = Pipe
BY DEF Flow, Front, Pipe

\* A step that ends the transaction.
LEMMA PhaseEnd ==
    ASSUME StageInv, Flow', WholeDataPhase', UNCHANGED <<cam, camq>>,
           pc' = "idle", rd' = NoRead
    PROVE  PhaseInv'
<1>1. NoRead.stage = "none"
  BY DEF NoRead
<1> QED BY <1>1 DEF PhaseInv, StageInv, Reading, Announced, Delivering, Complete

\* A transaction that fails.
LEMMA PhaseAbort ==
    ASSUME StageInv, Flow', UNCHANGED <<cam, camq>>, NEW rc, rc # "ok",
           NEW from, Finish(rc, from)
    PROVE  PhaseInv'
<1>1. WholeDataPhase'
  BY DEF WholeDataPhase, Finish
<1> QED BY <1>1, PhaseEnd DEF Finish

\* What the host takes from the buffer, and what is left in it.
LEMMA TakeCut ==
    ASSUME NEW b \in Buffer, NEW n \in Nat
    PROVE  /\ TakeLen(b, n) \in 0..Len(b.data) /\ TakeLen(b, n) <= n
           /\ AfterTake(b, n).data = SubSeq(b.data, TakeLen(b, n) + 1, Len(b.data))
<1> DEFINE k == TakeLen(b, n)
           s == b.data
<1>1. s \in Seq(Token) /\ Len(s) \in Nat
  BY LenProperties DEF Buffer
<1>2. k \in 0..Len(s) /\ k <= n
  BY <1>1 DEF TakeLen
<1>3. Len(SubSeq(s, k + 1, Len(s))) = Len(s) - k /\ SubSeq(s, k + 1, Len(s)) \in Seq(Token)
  <2> HIDE DEF k, s
  <2> QED BY <1>1, <1>2, CutTwo
<1>4. CASE k = Len(s)
  <2>1. SubSeq(s, k + 1, Len(s)) = <<>>
    <3>1. Len(SubSeq(s, k + 1, Len(s))) = 0
      BY <1>1, <1>3, <1>4
    <3> QED BY <1>3, <3>1, EmptySeq
  <2>2. AfterTake(b, n).data = <<>>
    BY <1>4 DEF AfterTake, Empty
  <2> QED BY <1>2, <2>1, <2>2
<1>5. CASE k # Len(s)
  <2>1. s # <<>>
    BY <1>1, <1>2, <1>5
  <2> QED BY <1>2, <1>5, <2>1 DEF AfterTake
<1> QED BY <1>4, <1>5

\* The host, with f before and g after, reads p of what it has and of the pipe.
Moves(o, f, q, g, r, p) ==
    \A id, m \in Nat :
        id < Len(o) /\ Comes(o, f, q, id, m) /\ m + Len(p) <= o[id + 1].size
           => Begins(p, id, m) /\ Comes(o, g, r, id, m + Len(p))

\* What has been read is the beginning of a payload, and so is what is read then.
LEMMA BeginsJoin ==
    ASSUME NEW d \in Seq(Token), NEW p \in Seq(Token), NEW id \in Nat, NEW n \in Nat,
           Begins(d, id, n), Begins(p, id, n + Len(d))
    PROVE  Begins(d \o p, id, n) /\ Len(d \o p) = Len(d) + Len(p)
<1> DEFINE u == d \o p
           a == Len(d)
           b == Len(p)
<1>1. /\ Len(u) = a + b /\ a \in Nat /\ b \in Nat
      /\ \A j \in 1..a + b : u[j] = IF j <= a THEN d[j] ELSE p[j - a]
  BY ConcatProperties, LenProperties
<1>2. /\ \A j \in 1..a : d[j] = Pay(id, n + j)
      /\ \A j \in 1..b : p[j] = Pay(id, (n + a) + j)
  BY DEF Begins
<1> HIDE DEF u, a, b
<1>3. ASSUME NEW j \in 1..Len(u)
      PROVE  u[j] = Pay(id, n + j)
  <2>1. CASE j <= a
    <3>1. j \in 1..a /\ j \in 1..a + b
      BY <1>1, <2>1
    <3> QED BY <1>1, <1>2, <2>1, <3>1
  <2>2. CASE ~(j <= a)
    <3>1. j - a \in 1..b /\ j \in 1..a + b /\ (n + a) + (j - a) = n + j
      BY <1>1, <2>2
    <3> QED BY <1>1, <1>2, <2>2, <3>1
  <2> QED BY <2>1, <2>2
<1> QED BY <1>1, <1>3 DEF Begins, u, a, b

\* A step of a read, to which p is added.
LEMMA PhaseMove ==
    ASSUME IndInv, CurInv, PhaseInv, Reading, pc # "return", Reading',
           UNCHANGED <<cur, ops, got, left, result, cam, camq>>,
           rd'.stage = rd.stage, rd'.size = rd.size,
           NEW p \in Seq(Token), rd'.dst = rd.dst \o p,
           Moves(ops, Front, Pipe, Front', Pipe', p), Flow',
           rd.stage = "data" => Len(rd.dst) + Len(p) <= rd.size,
           pc' = "bulk" => rd.stage = "data",
           rd.stage = "datahdr" /\ pc' # "return" => p = <<>>,
           Announced'
    PROVE  PhaseInv'
<1>1. /\ StageInv /\ Delivering /\ Complete /\ WholeDataPhase
      /\ pc # "idle" /\ pc' # "idle" /\ pc # "handler" /\ pc' # "handler"
  BY DEF PhaseInv, Reading
<1>2. StageInv'
  <2>1. ASSUME rd.stage = "datahdr"
        PROVE  got' = <<>> /\ (pc' # "return" => rd'.dst = <<>>)
    <3>1. got = <<>> /\ rd.dst = <<>>
      BY <1>1, <2>1 DEF StageInv
    <3>2. pc' # "return" => rd'.dst = <<>>
      BY <2>1, <3>1, ConcatEmptySeq
    <3> QED BY <3>1, <3>2
  <2> QED BY <1>1, <2>1 DEF StageInv, Reading
<1>3. Delivering'
  <2> SUFFICES ASSUME rd.stage = "data" PROVE \E id \in 0..cur.id : Delivers(id)'
    BY DEF Delivering
  <2>1. PICK id \in 0..cur.id : Delivers(id)
    BY <1>1 DEF Delivering
  <2>2. /\ Len(got) \in Nat /\ Len(rd.dst) \in Nat /\ rd.dst \in Seq(Token)
        /\ Len(p) \in Nat /\ id \in Nat /\ ops[id + 1].size \in Nat /\ id < Len(ops)
        /\ left \in Nat
    <3>1. id \in Nat /\ id < Len(ops)
      BY <2>1 DEF Delivers
    <3> QED BY <3>1, PhaseTypes, LenProperties
  <2> DEFINE g == Len(got)
             e == Len(rd.dst)
             k == Len(p)
             size == ops[id + 1].size
             m == g + e
  <2>3. /\ Begins(got, id, 0) /\ Begins(rd.dst, id, g) /\ Comes(ops, Front, Pipe, id, m)
        /\ g + left = size
        /\ cur.op.block = 0 => got = <<>> /\ rd.size = left
        /\ ops[id + 1].code = cur.op.code
    BY <1>1, <2>1 DEF Delivers, Unread, Awaiting
  <2>4. /\ g \in Nat /\ e \in Nat /\ k \in Nat /\ size \in Nat /\ m \in Nat
        /\ m + k <= size
    <3>1. rd.size <= left /\ rd.size \in Nat
      BY PhaseTypes DEF IndInv, ReadInv
    <3>2. e + k <= rd.size
      OBVIOUS
    <3> HIDE DEF g, e, k, size
    <3>3. g \in Nat /\ e \in Nat /\ k \in Nat /\ size \in Nat
      BY <2>2 DEF g, e, k, size
    <3> QED BY <2>2, <2>3, <3>1, <3>2, <3>3
  <2>5. Begins(p, id, m) /\ Comes(ops, Front', Pipe', id, m + k)
    <3> HIDE DEF m
    <3> QED BY <2>2, <2>3, <2>4 DEF Moves
  <2>6. Len(rd'.dst) = e + k /\ Begins(rd'.dst, id, g)
    <3>1. Begins(p, id, Len(got) + Len(rd.dst)) /\ Begins(rd.dst, id, Len(got))
      BY <2>3, <2>5
    <3> HIDE DEF g, e, k, m, size
    <3>2. /\ Len(rd.dst \o p) = Len(rd.dst) + Len(p)
          /\ Begins(rd.dst \o p, id, Len(got))
      BY <2>2, <3>1, BeginsJoin
    <3> QED BY <3>2 DEF g, e, k
  <2>7. g + Len(rd'.dst) = m + k
    <3> HIDE DEF g, e, k
    <3> QED BY <2>4, <2>6
  <2>8. Awaiting(id, Len(got) + Len(rd.dst))'
    <3> HIDE DEF m, k
    <3> QED BY <2>5, <2>7 DEF Awaiting, g
  <2>9. (Len(got) + Len(rd.dst) <= ops[id + 1].size)'
    <3> HIDE DEF m, k
    <3> QED BY <2>4, <2>7 DEF g, size
  <2> QED BY <1>1, <2>2, <2>3, <2>6, <2>8, <2>9 DEF Delivers, Unread, Begins
<1>4. Complete'
  BY <1>1 DEF Complete, Delivered, Begins
<1>5. WholeDataPhase'
  BY <1>1, WholeKept
<1> QED BY <1>2, <1>3, <1>4, <1>5 DEF PhaseInv

\* The host takes from the buffer.
LEMMA TakeMoves ==
    ASSUME IndInv, Flow, NEW n \in Nat, UNCHANGED <<ops, inp, camq>>,
           pc # "fill", buf' = AfterTake(buf, n),
           pc' = "fill" => buf'.data = <<>> /\ fill' = <<>>
    PROVE  /\ Taken(buf, n) \in Seq(Token) /\ Len(Taken(buf, n)) = TakeLen(buf, n)
           /\ Linked(ops, Taken(buf, n)) /\ Flow'
           /\ Moves(ops, Front, Pipe, Front', Pipe', Taken(buf, n))
           /\ Taken(buf, n) # <<>> /\ Open(ops, Taken(buf, n)) =>
                 Awaits(Then(Taken(buf, n)), Front', Pipe')
<1> DEFINE s == buf.data
           k == TakeLen(buf, n)
           p == Taken(buf, n)
           r == SubSeq(s, k + 1, Len(s))
<1>1. /\ s \in Seq(Token) /\ buf \in Buffer /\ Pipe' = Pipe /\ Front = s
      /\ ops \in Seq(Ops)
  BY PhaseTypes DEF Pipe, Front
<1>2. k \in 0..Len(s) /\ buf'.data = r /\ p = SubSeq(s, 1, k)
  BY <1>1, TakeCut DEF Taken
<1>3. Front' = r
  BY <1>2 DEF Front
<1> HIDE DEF s, k, p, r
<1>4. p \in Seq(Token) /\ Len(p) = k /\ Len(s) \in Nat
  BY <1>1, <1>2, CutTwo
<1>5. Stream(ops, s, Pipe)
  BY <1>1 DEF Flow
<1>6. Linked(ops, p) /\ Stream(ops, r, Pipe)
  BY <1>1, <1>2, <1>5, StreamCut DEF r
<1>7. Flow'
  BY <1>1, <1>3, <1>6 DEF Flow
<1>8. ASSUME NEW id \in Nat, NEW m \in Nat, id < Len(ops), m + Len(p) <= ops[id + 1].size,
             m < ops[id + 1].size => Awaits(Pay(id, m + 1), s, Pipe)
      PROVE  /\ \A j \in 1..k : s[j] = Pay(id, m + j)
             /\ m + k < ops[id + 1].size => Awaits(Pay(id, m + k + 1), r, Pipe)
  BY <1>1, <1>2, <1>4, <1>5, <1>8, StreamRun DEF r
<1>9. \A j \in 1..k : p[j] = s[j]
  BY <1>1, <1>2, CutTwo
<1>10. Moves(ops, s, Pipe, r, Pipe, p)
  <2> SUFFICES ASSUME NEW id \in Nat, NEW m \in Nat, id < Len(ops),
                      Comes(ops, s, Pipe, id, m), m + Len(p) <= ops[id + 1].size
               PROVE  Begins(p, id, m) /\ Comes(ops, r, Pipe, id, m + Len(p))
    BY DEF Moves
  <2>1. m < ops[id + 1].size => Awaits(Pay(id, m + 1), s, Pipe)
    BY DEF Comes
  <2>2. /\ \A j \in 1..k : s[j] = Pay(id, m + j)
        /\ m + k < ops[id + 1].size => Awaits(Pay(id, m + k + 1), r, Pipe)
    BY <1>8, <2>1
  <2>3. Begins(p, id, m)
    BY <1>4, <1>9, <2>2 DEF Begins
  <2>4. Comes(ops, r, Pipe, id, m + Len(p))
    BY <1>4, <2>2 DEF Comes
  <2> QED BY <2>3, <2>4
<1>11. ASSUME p # <<>>, Open(ops, p)
       PROVE  Awaits(Then(p), r, Pipe)
  <2>1. OfData(p[Len(p)]) /\ Pos(p[Len(p)]) < ops[p[Len(p)].id + 1].size
    BY <1>11 DEF Open
  <2>2. k # 0 /\ k \in 1..k
    <3>1. Len(p) # 0
      BY <1>4, <1>11, EmptySeq
    <3> QED BY <1>2, <1>4, <3>1
  <2>3. p[Len(p)] \in Token /\ Sound(ops, p[Len(p)])
    <3>1. Len(p) \in 1..Len(p)
      BY <1>4, <2>2
    <3> QED BY <1>4, <1>6, <3>1, ElementOfSeq DEF Linked
  <2> DEFINE t == p[Len(p)]
  <2>4. /\ t.id \in Nat /\ t.id < Len(ops) /\ Pos(t) \in Nat
        /\ ops[t.id + 1].size \in Nat
    BY <1>1, <2>1, <2>3, DataSized
  <2>5. t = s[k]
    BY <1>4, <1>9, <2>2
  <2> HIDE DEF t
  <2>6. CASE k = Len(s)
    <3>1. s # <<>> /\ Open(ops, s) /\ Then(s) = Then(p)
      <4>1. s # <<>>
        BY <2>2, <2>6, EmptySeq
      <4> QED BY <2>1, <2>5, <2>6, <4>1 DEF Open, Then, t
    <3>2. Heads(Then(p), Pipe)
      BY <1>5, <3>1 DEF Stream
    <3>3. r = <<>>
      <4>1. r \in Seq(Token) /\ Len(r) = Len(s) - k
        BY <1>1, <1>2, CutTwo DEF r
      <4>2. Len(r) = 0
        BY <1>4, <2>6, <4>1
      <4> QED BY <4>1, <4>2, EmptySeq
    <3> QED BY <3>2, <3>3 DEF Awaits
  <2>7. CASE k # Len(s)
    <3>1. k \in 1..Len(s) /\ k + 1 \in 1..Len(s) /\ k < k + 1 /\ (k + 1) - k = 1
      BY <1>2, <1>4, <2>2, <2>7
    <3>2. s[k + 1] = Succ(s[k], 1)
      <4>1. Pos(s[k]) + ((k + 1) - k) <= ops[s[k].id + 1].size /\ OfData(s[k])
        BY <2>1, <2>4, <2>5, <3>1 DEF t
      <4>2. Linked(ops, s)
        BY <1>5 DEF Stream
      <4>3. s[k + 1] = Succ(s[k], (k + 1) - k)
        BY <3>1, <4>1, <4>2 DEF Linked
      <4> QED BY <3>1, <4>3
    <3>3. r[1] = s[k + 1] /\ r # <<>>
      <4>1. Len(r) = Len(s) - k /\ \A j \in 1..Len(s) - k : r[j] = s[k + j]
        BY <1>1, <1>2, CutTwo DEF r
      <4>2. 1 \in 1..Len(s) - k /\ Len(r) # 0
        BY <1>4, <3>1, <4>1
      <4> QED BY <4>1, <4>2, EmptySeq
    <3> QED BY <2>5, <3>2, <3>3 DEF Awaits, Then, t
  <2> QED BY <2>6, <2>7
<1> QED BY <1>1, <1>2, <1>3, <1>4, <1>6, <1>7, <1>10, <1>11 DEF p, k

\* The header of a data phase has been read: its payload comes next.
LEMMA HeaderRead ==
    ASSUME NEW o, NEW f, NEW q, NEW p \in Seq(Token), Linked(o, p), Len(p) = 1,
           Open(o, p) => Awaits(Then(p), f, q)
    PROVE  Sound(o, p[1]) /\ (p[1].k = "data" => Comes(o, f, q, p[1].id, 0))
<1>1. p # <<>> /\ 1 \in 1..Len(p) /\ p[Len(p)] = p[1]
  <2>1. p # <<>>
    BY EmptySeq
  <2>2. 1 \in 1..Len(p)
    OBVIOUS
  <2> QED BY <2>1, <2>2
<1>2. Sound(o, p[1])
  BY <1>1 DEF Linked
<1>3. ASSUME p[1].k = "data", 0 < o[p[1].id + 1].size
      PROVE  Awaits(Pay(p[1].id, 0 + 1), f, q)
  <2>1. OfData(p[1]) /\ Pos(p[1]) = 0
    BY <1>3 DEF OfData, Pos
  <2>2. Open(o, p)
    BY <1>1, <1>3, <2>1 DEF Open
  <2>3. Then(p) = Pay(p[1].id, 0 + 1)
    BY <1>1, <2>1 DEF Then, Succ
  <2> QED BY <2>2, <2>3
<1> QED BY <1>2, <1>3 DEF Comes

\* The host takes what the packet buffer has.
LEMMA PhaseTake ==
    ASSUME IndInv, CurInv, PhaseInv, Take, IndInv'
    PROVE  PhaseInv'
<1> DEFINE p == Taken(buf, rd.size)
           toread == rd.size - Len(p)
<1>1. /\ pc = "take" /\ Reading /\ rd.dst = <<>> /\ rd \in ReadType /\ buf \in Buffer
      /\ buf.data \in Seq(Token) /\ rd.size \in Nat /\ rd.stage # "none"
      /\ rd.stage = "datahdr" => rd.size = 1
      /\ UNCHANGED <<cur, ops, got, left, result, inp, cam, camq>>
      /\ buf' = AfterTake(buf, rd.size) /\ fill' = <<>>
  BY PhaseTypes DEF Take, Reading, camVars, IndInv, ReadInv
<1>2. p \in Seq(Token) /\ Len(p) \in Nat /\ Len(p) <= rd.size
  <2>1. TakeLen(buf, rd.size) \in 0..Len(buf.data) /\ TakeLen(buf, rd.size) <= rd.size
    BY <1>1, TakeCut
  <2>2. p \in Seq(Token) /\ Len(p) = TakeLen(buf, rd.size)
    BY <1>1, <2>1, CutTwo DEF Taken
  <2> QED BY <2>1, <2>2, <1>1, LenProperties
<1>3. NewDst(rd.size) = p
  BY <1>1, <1>2, ConcatEmptySeq DEF NewDst
<1> HIDE DEF p
<1>4. /\ pc' \in {"return", "bulk", "fill"}
      /\ pc' = "return" <=> toread = 0
      /\ pc' = "bulk" => rd.stage = "data"
  <2>1. rd.stage # "data" => ~(Len(p) < 0)
    BY <1>2
  <2> QED BY <1>3, <2>1 DEF Take
<1>5. rd'.dst = p /\ rd'.stage = rd.stage /\ rd'.size = rd.size
  BY <1>1, <1>3 DEF Take, ReadType
<1>6. pc' = "fill" => buf'.data = <<>> /\ fill' = <<>>
  BY <1>1 DEF IndInv, ReadInv, Empty
<1>7. /\ Linked(ops, p) /\ Flow' /\ Moves(ops, Front, Pipe, Front', Pipe', p)
      /\ p # <<>> /\ Open(ops, p) => Awaits(Then(p), Front', Pipe')
  <2>1. Flow /\ pc # "fill"
    BY <1>1 DEF PhaseInv
  <2> QED BY <1>1, <1>6, <2>1, TakeMoves DEF p
<1>8. Announced'
  <2> SUFFICES ASSUME pc' = "return", rd.stage = "datahdr"
               PROVE  /\ Sound(ops, p[1])
                      /\ p[1].k = "data" => Comes(ops, Front', Pipe', p[1].id, 0)
    BY <1>1, <1>5 DEF Announced, Hdr, Awaiting
  <2>1. rd.size = 1 /\ rd.size - Len(p) = 0
    BY <1>1, <1>4
  <2>2. Len(p) = 1
    BY <1>2, <2>1
  <2>3. p # <<>>
    BY <2>2
  <2> QED BY <1>2, <1>7, <2>2, <2>3, HeaderRead
<1>9. /\ rd'.dst = rd.dst \o p
      /\ rd.stage = "data" => Len(rd.dst) + Len(p) <= rd.size
  <2>1. Len(rd.dst) = 0
    BY <1>1
  <2> QED BY <1>1, <1>2, <1>5, <2>1, ConcatEmptySeq
<1>10. rd.stage = "datahdr" /\ pc' # "return" => p = <<>>
  <2> SUFFICES ASSUME rd.stage = "datahdr", pc' # "return" PROVE p = <<>>
    OBVIOUS
  <2>1. Len(p) = 0
    BY <1>1, <1>2, <1>4
  <2> QED BY <1>2, <2>1, EmptySeq
<1>11. Reading' /\ pc # "return"
  BY <1>1, <1>4 DEF Reading
<1> QED BY <1>1, <1>2, <1>4, <1>5, <1>7, <1>8, <1>9, <1>10, <1>11, PhaseMove

\* The next packet of the pipe goes on with what the host has.
LEMMA PipeMoves ==
    ASSUME IndInv, Flow, NEW room, NEW i \in {1, 2}, ReadOk(room, i),
           UNCHANGED <<ops, camq>>
    PROVE  /\ inp[i] \in Seq(Token) /\ Front \o inp[i] \in Seq(Token)
           /\ Stream(ops, Front \o inp[i], Pipe')
           /\ \A t : Awaits(t, Front, Pipe) => Awaits(t, Front \o inp[i], Pipe')
<1>1. /\ inp \in Seq(Packet) /\ camq \in Seq(Packet) /\ Front \in Seq(Token)
      /\ ops \in Seq(Ops) /\ Len(inp) \in Nat
  BY PhaseTypes, LenProperties
<1>2. /\ i <= Len(inp) /\ inp' = SubSeq(inp, i + 1, Len(inp))
      /\ i = 1 => inp[1] # <<>>
      /\ i = 2 => inp[1] = <<>>
  BY DEF ReadOk
<1>3. i \in 1..Len(inp) /\ 1 \in 1..i /\ i \in 1..i
  BY <1>1, <1>2
<1>4. /\ Pipe \in Seq(Packet) /\ i <= Len(Pipe) /\ \A j \in 1..i : Pipe[j] = inp[j]
      /\ Pipe' = SubSeq(Pipe, i + 1, Len(Pipe))
  <2>1. /\ inp \o camq \in Seq(Packet) /\ i <= Len(inp \o camq)
        /\ \A j \in 1..i : (inp \o camq)[j] = inp[j]
        /\ SubSeq(inp, i + 1, Len(inp)) \o camq
             = SubSeq(inp \o camq, i + 1, Len(inp \o camq))
    BY <1>1, <1>3, PipeFront, Zenon
  <2>2. Pipe' = SubSeq(inp, i + 1, Len(inp)) \o camq
    BY <1>2 DEF Pipe
  <2> QED BY <2>1, <2>2, Zenon DEF Pipe
<1>5. Pipe[i] = inp[i] /\ Pipe[1] = inp[1]
  BY <1>3, <1>4
<1>6. (i = 1 => Pipe[1] # <<>>) /\ (i = 2 => Pipe[1] = <<>>)
  BY <1>2, <1>5
<1>7. Stream(ops, Front, Pipe)
  BY DEF Flow
<1>8. /\ Pipe[i] \in Seq(Token) /\ Front \o Pipe[i] \in Seq(Token)
      /\ Stream(ops, Front \o Pipe[i], SubSeq(Pipe, i + 1, Len(Pipe)))
      /\ \A t : Awaits(t, Front, Pipe) =>
                Awaits(t, Front \o Pipe[i], SubSeq(Pipe, i + 1, Len(Pipe)))
  BY <1>1, <1>4, <1>6, <1>7, StreamJoin
<1> QED BY <1>4, <1>5, <1>8, Zenon

\* A read that fails drops what the host had of a container, and packets of it.
LEMMA PipeFails ==
    ASSUME IndInv, Flow, NEW room, ReadFails(room), UNCHANGED <<ops, camq>>,
           Front' = <<>>
    PROVE  Flow'
<1>1. /\ inp \in Seq(Packet) /\ camq \in Seq(Packet) /\ Pipe \in Seq(Packet)
      /\ Len(inp) \in Nat
  BY PhaseTypes, LenProperties
<1>2. \/ inp' = inp
      \/ \E i \in 1..Len(inp) : inp' = SubSeq(inp, i + 1, Len(inp))
  <2>1. CASE inp \in {<<>>, <<<<>>>>} /\ inp' = <<>>
    <3>1. CASE inp = <<>>
      BY <2>1, <3>1
    <3>2. CASE inp = <<<<>>>>
      <4>1. Len(inp) = 1
        BY <3>2
      <4>2. 1 \in 1..Len(inp)
        BY <4>1
      <4>3. 1 \in 0..Len(inp)
        BY <4>1
      <4>4. /\ SubSeq(inp, 1 + 1, Len(inp)) \in Seq(Packet)
            /\ Len(SubSeq(inp, 1 + 1, Len(inp))) = Len(inp) - 1
        BY <1>1, <4>3, CutTwo, ZenonT(40)
      <4>5. Len(SubSeq(inp, 1 + 1, Len(inp))) = 0
        BY <4>1, <4>4
      <4>6. SubSeq(inp, 1 + 1, Len(inp)) = <<>>
        BY <4>4, <4>5, EmptySeq
      <4> QED BY <2>1, <4>2, <4>6
    <3> QED BY <2>1, <3>1, <3>2
  <2>2. CASE \E i \in {1, 2} : i <= Len(inp) /\ inp' = SubSeq(inp, i + 1, Len(inp))
    <3>1. PICK i \in {1, 2} : i <= Len(inp) /\ inp' = SubSeq(inp, i + 1, Len(inp))
      BY <2>2
    <3>2. i \in 1..Len(inp)
      BY <1>1, <3>1
    <3> QED BY <3>1, <3>2
  <2> QED BY <2>1, <2>2 DEF ReadFails
<1>3. Chained(ops, Pipe)
  BY DEF Flow, Stream
<1>4. Chained(ops, Pipe')
  <2>1. CASE inp' = inp
    BY <1>3, <2>1 DEF Pipe
  <2>2. ASSUME NEW i \in 1..Len(inp), inp' = SubSeq(inp, i + 1, Len(inp))
        PROVE  Chained(ops, Pipe')
    <3>1. /\ i <= Len(inp \o camq)
          /\ SubSeq(inp, i + 1, Len(inp)) \o camq
               = SubSeq(inp \o camq, i + 1, Len(inp \o camq))
      BY <1>1, PipeFront, Zenon
    <3>2. Pipe' = SubSeq(Pipe, i + 1, Len(Pipe)) /\ i <= Len(Pipe)
      BY <2>2, <3>1 DEF Pipe
    <3>3. i \in 0..Len(Pipe)
      <4>1. Len(Pipe) \in Nat
        BY <1>1, LenProperties
      <4> QED BY <1>1, <3>2, <4>1
    <3> QED BY <1>1, <1>3, <3>2, <3>3, ChainedRest
  <2> QED BY <1>2, <2>1, <2>2
<1>5. Linked(ops, <<>>) /\ ~Open(ops, <<>>)
  BY DEF Linked, Open
<1> QED BY <1>4, <1>5 DEF Flow, Stream

\* A read of packets straight to the destination.
LEMMA PhaseBulk ==
    ASSUME IndInv, CurInv, PhaseInv, BulkRead, IndInv'
    PROVE  PhaseInv'
<1> DEFINE room == rd.bulk - Len(rd.dst)
<1>1. /\ pc = "bulk" /\ Reading /\ buf = Empty /\ fill = <<>> /\ rd.stage = "data"
      /\ rd \in ReadType /\ rd.dst \in Seq(Token) /\ ops \in Seq(Ops)
      /\ UNCHANGED <<cur, ops, buf, fill, got, left, cam, camq>>
      /\ StageInv /\ Flow
  BY PhaseTypes DEF BulkRead, Reading, camVars, IndInv, ReadInv, PhaseInv, StageInv
<1>2. Front = <<>> /\ Front' = <<>>
  BY <1>1 DEF Front, Empty
<1>3. CASE ReadFails(room) /\ Abort("io")
  <2>1. Flow'
    BY <1>1, <1>2, <1>3, PipeFails
  <2> QED BY <1>1, <1>3, <2>1, PhaseAbort DEF Abort
<1>4. ASSUME NEW i \in {1, 2}, ReadOk(room, i),
             rd' = [rd EXCEPT !.dst = @ \o inp[i]],
             pc' = IF Len(inp[i]) < room THEN "bulk" ELSE "fill",
             UNCHANGED <<result, faulted>>
      PROVE  PhaseInv'
  <2> DEFINE p == inp[i]
             k == Len(p)
             r == SubSeq(p, k + 1, Len(p))
  <2>1. /\ p \in Seq(Token) /\ Front \o p \in Seq(Token)
        /\ Stream(ops, Front \o p, Pipe')
        /\ \A t : Awaits(t, Front, Pipe) => Awaits(t, Front \o p, Pipe')
    BY <1>1, <1>4, PipeMoves
  <2>2. Front \o p = p
    BY <1>2, <2>1, ConcatEmptySeq
  <2>3. pc' \in {"bulk", "fill"} /\ rd'.dst = rd.dst \o p
        /\ rd'.stage = rd.stage /\ rd'.size = rd.size
    BY <1>1, <1>4 DEF ReadType
  <2> HIDE DEF p, k, r
  <2>4. k \in 0..Len(p) /\ k \in Nat /\ r = <<>>
    <3>1. k \in Nat /\ k \in 0..Len(p)
      BY <2>1, LenProperties DEF k
    <3>2. r \in Seq(Token) /\ Len(r) = 0
      BY <2>1, <3>1, CutTwo DEF r, k
    <3> QED BY <3>1, <3>2, EmptySeq
  <2>5. Stream(ops, p, Pipe')
    BY <2>1, <2>2
  <2>6. Flow'
    <3>1. Stream(ops, r, Pipe')
      BY <2>1, <2>4, <2>5, StreamCut DEF r
    <3> QED BY <1>1, <1>2, <2>4, <3>1 DEF Flow
  <2>7. Moves(ops, Front, Pipe, Front', Pipe', p)
    <3> SUFFICES ASSUME NEW id \in Nat, NEW m \in Nat, id < Len(ops),
                        Comes(ops, Front, Pipe, id, m), m + Len(p) <= ops[id + 1].size
                 PROVE  Begins(p, id, m) /\ Comes(ops, Front', Pipe', id, m + Len(p))
      BY DEF Moves
    <3>1. m < ops[id + 1].size => Awaits(Pay(id, m + 1), p, Pipe')
      BY <2>1, <2>2 DEF Comes
    <3>2. /\ \A j \in 1..k : p[j] = Pay(id, m + j)
          /\ m + k < ops[id + 1].size => Awaits(Pay(id, m + k + 1), r, Pipe')
      <4>1. m + k <= ops[id + 1].size
        BY DEF k
      <4> QED BY <1>1, <2>1, <2>4, <2>5, <3>1, <4>1, StreamRun DEF r
    <3>3. Begins(p, id, m)
      BY <3>2 DEF Begins, k
    <3>4. Comes(ops, Front', Pipe', id, m + Len(p))
      BY <1>2, <2>4, <3>2 DEF Comes, k
    <3> QED BY <3>3, <3>4
  <2>8. Len(rd.dst) + Len(p) <= rd.size
    <3>1. /\ Len(rd'.dst) = Len(rd.dst) + Len(p)
          /\ Len(rd'.dst) \in Nat
      BY <1>1, <2>1, <2>3, ConcatProperties, LenProperties
    <3>2. Len(rd'.dst) <= rd'.size
      <4>1. /\ rd'.bulk \in Nat /\ rd'.min \in Nat /\ rd'.size \in Nat
            /\ pc' = "bulk" => Len(rd'.dst) < rd'.bulk /\ rd'.bulk + rd'.min = rd'.size
            /\ pc' = "fill" => Len(rd'.dst) + rd'.min = rd'.size
        BY DEF IndInv, ReadInv, TypeOK
      <4> QED BY <2>3, <3>1, <4>1
    <3> QED BY <2>3, <3>1, <3>2
  <2>9. Announced' /\ Reading' /\ pc # "return"
    BY <1>1, <2>3 DEF Announced, Reading
  <2> QED BY <1>1, <1>4, <2>1, <2>3, <2>6, <2>7, <2>8, <2>9, PhaseMove
<1> QED BY <1>3, <1>4 DEF BulkRead

\* The packet buffer is loaded.
LEMMA PhaseFill ==
    ASSUME IndInv, CurInv, PhaseInv, Fill
    PROVE  PhaseInv'
<1> DEFINE room == PacketLen - Len(fill)
<1>1. /\ pc = "fill" /\ Reading /\ buf = Empty
      /\ rd \in ReadType /\ rd.dst \in Seq(Token) /\ ops \in Seq(Ops)
      /\ UNCHANGED <<cur, ops, got, left, cam, camq>>
      /\ StageInv /\ Flow /\ Front = fill
  BY PhaseTypes DEF Fill, Reading, camVars, IndInv, ReadInv, PhaseInv, Front
<1>2. CASE ReadFails(room) /\ Abort("io") /\ fill' = <<>> /\ UNCHANGED buf
  <2>1. Front' = <<>>
    BY <1>1, <1>2 DEF Abort, Finish, Front, Empty
  <2>2. Flow'
    BY <1>1, <1>2, <2>1, PipeFails
  <2> QED BY <1>1, <1>2, <2>2, PhaseAbort DEF Abort
<1>3. ASSUME NEW i \in {1, 2}, ReadOk(room, i),
             IF Len(fill \o inp[i]) < rd.min
             THEN fill' = fill \o inp[i] /\ UNCHANGED <<buf, pc>>
             ELSE /\ buf' = Loaded(fill \o inp[i])
                  /\ fill' = <<>>
                  /\ pc' = "take2",
             UNCHANGED <<rd, result, faulted>>
      PROVE  PhaseInv'
  <2> DEFINE e == <<>>
  <2>1. /\ Stream(ops, Front \o inp[i], Pipe')
        /\ \A t : Awaits(t, Front, Pipe) => Awaits(t, Front \o inp[i], Pipe')
    BY <1>1, <1>3, PipeMoves
  <2>2. Front' = Front \o inp[i] /\ pc' \in {"fill", "take2"}
    BY <1>1, <1>3 DEF Front, Loaded
  <2>3. Flow'
    BY <1>1, <2>1, <2>2 DEF Flow
  <2>4. e \in Seq(Token) /\ Len(e) = 0 /\ rd'.dst = rd.dst \o e
    BY <1>1, <1>3, EmptySeq, ConcatEmptySeq
  <2> HIDE DEF e
  <2>5. Moves(ops, Front, Pipe, Front', Pipe', e)
    <3> SUFFICES ASSUME NEW id \in Nat, NEW m \in Nat, Comes(ops, Front, Pipe, id, m)
                 PROVE  Begins(e, id, m) /\ Comes(ops, Front', Pipe', id, m + Len(e))
      BY DEF Moves
    <3>1. m + Len(e) = m
      BY <2>4
    <3>2. Begins(e, id, m)
      BY <2>4 DEF Begins
    <3>3. Comes(ops, Front', Pipe', id, m)
      BY <2>1, <2>2 DEF Comes
    <3> QED BY <3>1, <3>2, <3>3
  <2>6. rd.stage = "data" => Len(rd.dst) + Len(e) <= rd.size
    <3>1. /\ Len(rd.dst) \in Nat /\ rd.min \in Nat /\ rd.size \in Nat
          /\ Len(rd.dst) + rd.min = rd.size
      BY <1>1, PhaseTypes DEF IndInv, ReadInv
    <3> QED BY <2>4, <3>1
  <2>7. Announced' /\ Reading' /\ pc # "return" /\ pc' # "bulk" /\ pc' # "return"
    BY <1>1, <2>2 DEF Announced, Reading
  <2> QED BY <1>1, <1>3, <2>3, <2>4, <2>5, <2>6, <2>7, PhaseMove DEF e
<1> QED BY <1>2, <1>3 DEF Fill

\* The rest of the read comes from the packet buffer.
LEMMA PhaseTake2 ==
    ASSUME IndInv, CurInv, PhaseInv, Take2
    PROVE  PhaseInv'
<1> DEFINE p == Taken(buf, rd.min)
<1>1. /\ pc = "take2" /\ Reading /\ rd \in ReadType /\ rd.dst \in Seq(Token)
      /\ buf \in Buffer /\ rd.min \in Nat /\ Len(rd.dst) \in Nat
      /\ rd.stage = "datahdr" => rd.size = 1 /\ rd.dst = <<>>
      /\ Len(rd.dst) + rd.min = rd.size
      /\ UNCHANGED <<cur, ops, fill, got, left, inp, cam, camq>>
      /\ buf' = AfterTake(buf, rd.min) /\ StageInv /\ Flow
  BY PhaseTypes DEF Take2, Reading, camVars, IndInv, ReadInv, PhaseInv, StageInv
<1>2. p \in Seq(Token) /\ Len(p) = rd.min
  <2>1. Len(buf.data) >= rd.min /\ Len(buf.data) \in Nat
    BY <1>1, LenProperties DEF IndInv, ReadInv, Buffer
  <2>2. TakeLen(buf, rd.min) = rd.min /\ rd.min \in 0..Len(buf.data)
    BY <1>1, <2>1 DEF TakeLen
  <2> QED BY <1>1, <2>2, CutTwo DEF Taken, Buffer
<1>9. NewDst(rd.min) = rd.dst \o p
  BY DEF NewDst
<1> HIDE DEF p
<1>10. Len(rd.dst \o p) = rd.size
  <2> DEFINE d == rd.dst
  <2>1. d \in Seq(Token) /\ Len(d) + rd.min = rd.size
    BY <1>1
  <2> HIDE DEF d
  <2>2. Len(d \o p) = Len(d) + Len(p)
    BY <1>2, <2>1, ConcatProperties
  <2>3. Len(d \o p) = rd.size
    BY <1>2, <2>1, <2>2
  <2> QED BY <2>3 DEF d
<1>3. /\ pc' = "return" /\ rd' = [rd EXCEPT !.dst = rd.dst \o p]
      /\ UNCHANGED <<result, faulted>>
  BY <1>9, <1>10 DEF Take2
<1>4. rd'.dst = rd.dst \o p /\ rd'.stage = rd.stage /\ rd'.size = rd.size
  BY <1>1, <1>3 DEF ReadType
<1>5. /\ Linked(ops, p) /\ Flow' /\ Moves(ops, Front, Pipe, Front', Pipe', p)
      /\ p # <<>> /\ Open(ops, p) => Awaits(Then(p), Front', Pipe')
  BY <1>1, <1>3, TakeMoves DEF p
<1>6. Announced'
  <2> SUFFICES ASSUME rd.stage = "datahdr"
               PROVE  /\ Sound(ops, rd'.dst[1])
                      /\ rd'.dst[1].k = "data" =>
                            Comes(ops, Front', Pipe', rd'.dst[1].id, 0)
    BY <1>1, <1>4 DEF Announced, Hdr, Awaiting
  <2>1. rd.dst = <<>> /\ rd.size = 1
    BY <1>1
  <2>2. rd'.dst = p
    BY <1>2, <1>4, <2>1, ConcatEmptySeq
  <2>3. Len(p) = 1
    <3>1. Len(rd.dst) = 0
      BY <2>1, EmptySeq
    <3> QED BY <1>1, <1>2, <2>1, <3>1
  <2>4. p # <<>>
    <3>1. Len(<<>>) = 0
      BY EmptySeq
    <3> QED BY <2>3, <3>1
  <2> QED BY <1>2, <1>5, <2>2, <2>3, <2>4, HeaderRead
<1>7. Reading' /\ pc # "return" /\ pc' # "bulk"
  BY <1>1, <1>3 DEF Reading
<1>8. Len(rd.dst) + Len(p) <= rd.size
  BY <1>1, <1>2
<1> QED BY <1>1, <1>2, <1>3, <1>4, <1>5, <1>6, <1>7, <1>8, PhaseMove

\* The host asks for an operation.
LEMMA PhaseTransaction ==
    ASSUME IndInv, CurInv, PhaseInv, NEW op \in Ops, Transaction(op)
    PROVE  PhaseInv'
<1>1. /\ pc = "idle" /\ pc' = "sendreq" /\ ops' = Append(ops, op) /\ got' = <<>>
      /\ UNCHANGED <<buf, rd, fill, result, inp, cam, camq>>
      /\ StageInv /\ Flow /\ WholeDataPhase
  BY DEF Transaction, camVars, PhaseInv
<1>2. Flow'
  <2>1. Front' = Front /\ Pipe' = Pipe
    BY <1>1 DEF Front, Pipe
  <2>2. ops \in Seq(Ops) /\ Front \in Seq(Token) /\ Pipe \in Seq(Packet)
    BY PhaseTypes
  <2> QED BY <1>1, <2>1, <2>2, StreamGrows DEF Flow
<1>3. WholeDataPhase'
  BY <1>1, WholeKept
<1>4. rd'.stage = "none"
  BY <1>1 DEF StageInv
<1> QED BY <1>1, <1>2, <1>3, <1>4
        DEF PhaseInv, StageInv, Reading, Announced, Delivering, Complete

\* The host sends, and waits for the answer.
LEMMA PhaseSend ==
    ASSUME IndInv, CurInv, PhaseInv, SendReq \/ SendData \/ SendRest \/ SendZlp
    PROVE  PhaseInv'
<1>1. /\ pc \in {"sendreq", "senddata", "sendrest", "sendzlp"}
      /\ UNCHANGED <<cur, ops, buf, fill, got, left, inp, cam, camq>>
      /\ StageInv /\ Flow /\ WholeDataPhase /\ rd.stage = "none"
  BY DEF SendReq, SendData, SendRest, SendZlp, camVars, PhaseInv, StageInv
<1>2. CASE Abort("io")
  <2>1. Flow'
    BY <1>1, <1>2, FlowKept DEF Abort, Finish
  <2> QED BY <1>1, <1>2, <2>1, PhaseAbort DEF Abort
<1>3. CASE /\ UNCHANGED result
           /\ \/ /\ pc' \in {"senddata", "sendrest", "sendzlp"} /\ UNCHANGED rd
                 /\ cur.op.phase # "get"
              \/ StartRead("datahdr", 1) /\ got = <<>>
              \/ StartRead("resphdr", 1) /\ cur.op.phase # "get"
  <2>1. \/ /\ pc' \in {"senddata", "sendrest", "sendzlp"} /\ rd'.stage = "none"
           /\ cur.op.phase # "get"
        \/ pc' = "take" /\ rd'.stage = "datahdr" /\ rd'.dst = <<>> /\ got = <<>>
        \/ pc' = "take" /\ rd'.stage = "resphdr" /\ cur.op.phase # "get"
    BY <1>1, <1>3, StartReadFacts
  <2>2. Flow'
    BY <1>1, <2>1, FlowKept
  <2>3. WholeDataPhase'
    BY <1>1, <1>3, WholeKept
  <2> QED BY <1>1, <2>1, <2>2, <2>3
          DEF PhaseInv, StageInv, Reading, Announced, Delivering, Complete
<1>4. CASE SendReq
  <2>1. got = <<>> /\ cur.op.phase \in {"none", "send", "get"}
    BY <1>4, TransFacts DEF SendReq, PhaseInv, StageInv
  <2>2. AfterSend => \/ pc' = "senddata" /\ UNCHANGED rd /\ cur.op.phase = "send"
                     \/ StartRead("datahdr", 1)
                     \/ StartRead("resphdr", 1) /\ cur.op.phase = "none"
    BY <2>1 DEF AfterSend
  <2> QED BY <1>2, <1>3, <1>4, <2>1, <2>2 DEF SendReq, WriteFails
<1>5. ASSUME SendData \/ SendRest \/ SendZlp
      PROVE  PhaseInv'
  <2>1. cur.op.phase # "get"
    BY <1>1, <1>5 DEF SendData, SendRest, SendZlp, StageInv
  <2>2. AfterData => \/ pc' = "sendzlp" /\ UNCHANGED rd
                     \/ StartRead("resphdr", 1)
    BY DEF AfterData
  <2> QED BY <1>2, <1>3, <1>5, <2>1, <2>2 DEF SendData, SendRest, SendZlp, WriteFails
<1> QED BY <1>4, <1>5

\* What is whole when the caller has all of it.
LEMMA PhasePayload ==
    ASSUME IndInv, NEW id \in Nat, id < Len(ops), Begins(got, id, 0),
           Len(got) = ops[id + 1].size
    PROVE  got = Payload(id)
<1> DEFINE x == [id |-> id, op |-> ops[id + 1]]
           c == DataContainer(id)
           size == ops[id + 1].size
<1>1. /\ ops \in Seq(Ops) /\ got \in Seq(Token) /\ size \in Nat
      /\ x.op.size = size /\ x.id = id
  BY PhaseTypes
<1>2. /\ c \in Seq(Token) /\ Len(c) = size + 1
      /\ \A j \in 1..size + 1 : c[j] = DataTok(x, j)
  BY <1>1, ContainerTok
<1> HIDE DEF c, x, size
<1>3. c # <<>>
  <2>1. Len(<<>>) = 0
    BY EmptySeq
  <2> QED BY <1>1, <1>2, <2>1
<1>4. /\ Tail(c) \in Seq(Token) /\ Len(Tail(c)) = size
      /\ \A j \in 1..size : Tail(c)[j] = c[j + 1]
  <2>1. /\ Tail(c) \in Seq(Token) /\ Len(Tail(c)) = Len(c) - 1
        /\ \A j \in 1..Len(Tail(c)) : Tail(c)[j] = c[j + 1]
    BY <1>2, <1>3, HeadTailProperties
  <2>2. Len(Tail(c)) = size
    BY <1>1, <1>2, <2>1
  <2> QED BY <2>1, <2>2
<1>5. ASSUME NEW j \in 1..Len(got)
      PROVE  got[j] = Tail(c)[j]
  <2>1. j \in 1..size /\ j + 1 \in 1..size + 1 /\ j + 1 # 1 /\ (j + 1) - 1 = j /\ 0 + j = j
    BY <1>1, <1>5 DEF size
  <2>2. got[j] = Pay(id, j)
    <3>1. got[j] = Pay(id, 0 + j)
      BY <1>5 DEF Begins
    <3> QED BY <2>1, <3>1
  <2>3. Tail(c)[j] = DataTok(x, j + 1)
    BY <1>2, <1>4, <2>1
  <2>4. DataTok(x, j + 1) = [k |-> "pay", id |-> id, n |-> (j + 1) - 1]
    BY <1>1, <2>1 DEF DataTok
  <2> QED BY <2>1, <2>2, <2>3, <2>4 DEF Pay
<1>6. Len(got) = size
  BY DEF size
<1>7. got = Tail(c)
  BY <1>1, <1>4, <1>5, <1>6, SeqEqual
<1> QED BY <1>7 DEF Payload, c

\* The host has the response, and the transaction returns what it says.
LEMMA PhaseFinish ==
    ASSUME IndInv, CurInv, PhaseInv, pc = "return",
           rd.stage \in {"resphdr", "resppar"},
           UNCHANGED <<cur, ops, buf, got, inp, cam, camq>>,
           NEW rc, NEW from, Finish(rc, from)
    PROVE  PhaseInv'
<1>1. /\ StageInv /\ Flow /\ Complete /\ pc' = "idle" /\ rd' = NoRead
      /\ result' = [id |-> cur.id, rc |-> rc, from |-> from, data |-> got]
  BY DEF PhaseInv, Finish
<1>2. Flow'
  BY <1>1, FlowKept
<1>3. WholeDataPhase'
  <2> SUFFICES ASSUME ops[cur.id + 1].phase = "get"
               PROVE  \E i \in 0..cur.id : /\ ops[i + 1].code = ops[cur.id + 1].code
                                           /\ got = Payload(i)
    <3>1. \A i : Payload(i)' = Payload(i)
      BY DEF Payload, DataContainer
    <3> QED BY <1>1, <3>1 DEF WholeDataPhase
  <2>1. cur.op = ops[cur.id + 1]
    BY DEF CurInv
  <2>2. PICK i \in 0..cur.id : Delivered(i)
    BY <1>1, <2>1 DEF Complete
  <2>3. got = Payload(i)
    BY <2>2, PhasePayload DEF Delivered
  <2> QED BY <2>1, <2>2, <2>3 DEF Delivered
<1> QED BY <1>1, <1>2, <1>3, PhaseEnd

\* The response of the transaction.
LEMMA PhaseResponse ==
    ASSUME IndInv, CurInv, PhaseInv, RespHeader \/ RespParams
    PROVE  PhaseInv'
<1>1. /\ pc = "return" /\ rd.stage \in {"resphdr", "resppar"}
      /\ UNCHANGED <<cur, ops, buf, fill, got, left, inp, cam, camq>>
      /\ StageInv /\ Flow /\ Complete /\ WholeDataPhase
  BY DEF RespHeader, RespParams, camVars, PhaseInv
<1>2. ASSUME NEW rc, NEW from, Finish(rc, from)
      PROVE  PhaseInv'
  BY <1>1, <1>2, PhaseFinish
<1>3. CASE /\ pc' = "take" /\ UNCHANGED result
           /\ rd' = [NoRead EXCEPT !.stage = "resppar", !.size = Hdr.n, !.hdr = Hdr]
  <2>1. rd'.stage = "resppar"
    BY <1>3 DEF NoRead
  <2>2. Flow'
    BY <1>1, <1>3, FlowKept
  <2>3. WholeDataPhase'
    BY <1>1, <1>3, WholeKept
  <2>4. Complete'
    BY <1>1, <1>3, <2>1 DEF Complete, Delivered, Begins
  <2> QED BY <1>1, <1>3, <2>1, <2>2, <2>3, <2>4
          DEF PhaseInv, StageInv, Reading, Announced, Delivering
<1> QED BY <1>2, <1>3 DEF RespHeader, RespParams, Abort

\* The loop over the blocks goes on, or ends, with n tokens to read.
LEMMA PhaseNextBlock ==
    ASSUME IndInv, CurInv, PhaseInv, pc \in {"return", "handler"},
           UNCHANGED <<cur, ops, buf, fill, inp, cam, camq, result>>,
           NEW n \in Nat, left' = n, NextBlock(n),
           NEW id \in 0..cur.id, id < Len(ops), ops[id + 1].code = cur.op.code,
           got' \in Seq(Token), Begins(got', id, 0), Len(got') + n = ops[id + 1].size,
           Comes(ops, Front, Pipe, id, Len(got')),
           cur.op.block = 0 => got' = <<>>
    PROVE  PhaseInv'
<1>1. /\ StageInv /\ Flow /\ WholeDataPhase
      /\ cur.op.block \in Nat /\ Len(got') \in Nat
  BY PhaseTypes, LenProperties DEF PhaseInv
<1>2. /\ pc' = "take" /\ rd'.dst = <<>>
      /\ \/ rd'.stage = "data" /\ (cur.op.block = 0 => rd'.size = n)
         \/ rd'.stage = "resphdr" /\ n = 0
  BY <1>1, StartReadFacts DEF NextBlock
<1>3. Flow' /\ Front' = Front /\ Pipe' = Pipe
  BY <1>1, <1>2, FlowKept
<1>4. StageInv'
  BY <1>1, <1>2 DEF StageInv, Reading
<1>5. Announced'
  BY <1>2 DEF Announced
<1>6. Delivering'
  <2> SUFFICES ASSUME rd'.stage = "data" PROVE Delivers(id)'
    BY DEF Delivering
  <2>1. Unread' = n /\ Len(got') + Len(rd'.dst) = Len(got')
    <3>1. Len(<<>>) = 0
      BY EmptySeq
    <3> QED BY <1>1, <1>2, <3>1 DEF Unread
  <2>2. Begins(rd'.dst, id, Len(got'))
    <3>1. Len(<<>>) = 0
      BY EmptySeq
    <3> QED BY <1>2, <3>1 DEF Begins
  <2>3. Len(got') <= ops[id + 1].size
    BY <1>1
  <2>4. Awaiting(id, Len(got) + Len(rd.dst))'
    BY <1>3, <2>1 DEF Awaiting
  <2>5. Begins(got, id, 0)' /\ Begins(rd.dst, id, Len(got))'
    BY <2>2 DEF Begins
  <2>6. (Len(got) + Len(rd.dst) <= ops[id + 1].size)'
    BY <2>1, <2>3
  <2>7. (Len(got) + Unread = ops[id + 1].size)'
    BY <2>1
  <2>8. (cur.op.block = 0 => got = <<>> /\ pc # "handler" /\ rd.size = left)'
    BY <1>2
  <2>9. (id < Len(ops) /\ ops[id + 1].code = cur.op.code)'
    OBVIOUS
  <2> QED BY <2>4, <2>5, <2>6, <2>7, <2>8, <2>9 DEF Delivers
<1>7. Complete'
  <2> SUFFICES ASSUME rd'.stage \in {"resphdr", "resppar"} PROVE Delivered(id)'
    BY DEF Complete
  <2>1. Len(got') = ops[id + 1].size
    BY <1>1, <1>2
  <2> QED BY <2>1 DEF Delivered, Begins
<1>8. WholeDataPhase'
  BY <1>1, WholeKept
<1> QED BY <1>3, <1>4, <1>5, <1>6, <1>7, <1>8 DEF PhaseInv

\* The host has the header of a data phase, or something else.
LEMMA PhaseHeader ==
    ASSUME IndInv, CurInv, PhaseInv, DataHeader \/ StrayResponse
    PROVE  PhaseInv'
<1>1. /\ pc = "return" /\ rd.stage \in {"datahdr", "stray"}
      /\ UNCHANGED <<cur, ops, buf, fill, got, inp, cam, camq>>
      /\ StageInv /\ Flow /\ WholeDataPhase
  BY DEF DataHeader, StrayResponse, camVars, PhaseInv
<1>2. ASSUME NEW rc, rc # "ok", NEW from, Finish(rc, from)
      PROVE  PhaseInv'
  <2>1. Flow'
    BY <1>1, <1>2, FlowKept DEF Finish
  <2> QED BY <1>1, <1>2, <2>1, PhaseAbort
<1>3. CASE StartRead("stray", Hdr.n) /\ UNCHANGED result
  <2>1. pc' = "take" /\ rd'.stage = "stray"
    BY <1>3, StartReadFacts
  <2>2. Flow'
    BY <1>1, <2>1, FlowKept
  <2>3. WholeDataPhase'
    BY <1>1, <1>3, WholeKept
  <2> QED BY <1>1, <2>1, <2>2, <2>3
          DEF PhaseInv, StageInv, Reading, Announced, Delivering, Complete
<1>4. CASE /\ rd.stage = "datahdr" /\ Hdr.k = "data"
           /\ ops[Hdr.id + 1].code = cur.op.code
           /\ left' = Hdr.n /\ NextBlock(Hdr.n) /\ UNCHANGED result
  <2> DEFINE id == Hdr.id
             e == <<>>
  <2>1. /\ Sound(ops, Hdr) /\ Awaiting(id, 0) /\ got = e /\ Hdr \in DataHdr
    BY <1>1, <1>4, ReturnFacts DEF PhaseInv, Announced, StageInv, Reading
  <2>2. /\ id < Len(ops) /\ Hdr.n = ops[id + 1].size /\ id \in Nat /\ Hdr.n \in Nat
    BY <1>4, <2>1 DEF Sound, OfData, DataHdr
  <2>3. id \in 0..cur.id
    <3>1. Len(ops) = cur.id + 1 /\ cur.id \in Nat
      BY <1>1, PhaseTypes DEF CurInv
    <3> QED BY <2>2, <3>1
  <2>4. e \in Seq(Token) /\ Len(e) = 0
    BY EmptySeq
  <2> HIDE DEF id, e
  <2>5. Begins(e, id, 0) /\ Len(e) + Hdr.n = ops[id + 1].size
    BY <2>2, <2>4 DEF Begins
  <2>6. Comes(ops, Front, Pipe, id, Len(e))
    BY <2>1, <2>4 DEF Awaiting
  <2>7. got' = e
    BY <1>1, <2>1
  <2>8. ops[id + 1].code = cur.op.code
    BY <1>4 DEF id
  <2> QED BY <1>1, <1>4, <2>1, <2>2, <2>3, <2>4, <2>5, <2>6, <2>7, <2>8, PhaseNextBlock
          DEF e
<1>5. CASE DataHeader
  <2>1. \/ StartRead("stray", Hdr.n) /\ UNCHANGED result
        \/ Finish("dataexpected", cur.id)
        \/ /\ rd.stage = "datahdr" /\ Hdr.k = "data"
           /\ ops[Hdr.id + 1].code = cur.op.code
           /\ left' = Hdr.n /\ NextBlock(Hdr.n) /\ UNCHANGED result
        \/ Finish("code", cur.id)
        \/ Finish("badparam", cur.id)
    BY <1>5 DEF DataHeader, Abort
  <2> QED BY <1>2, <1>3, <1>4, <2>1
<1> QED BY <1>2, <1>5 DEF StrayResponse

\* A read of the data phase has ended.
LEMMA PhaseData ==
    ASSUME IndInv, CurInv, PhaseInv, DataRead
    PROVE  PhaseInv'
<1>1. /\ pc = "return" /\ rd.stage = "data" /\ left' = left - rd.size
      /\ UNCHANGED <<cur, ops, buf, fill, result, inp, cam, camq>>
      /\ StageInv /\ Flow /\ WholeDataPhase
      /\ rd.size <= left /\ Len(rd.dst) = rd.size
  BY DEF DataRead, camVars, PhaseInv, IndInv, ReadInv, Reading
<1>2. PICK id \in 0..cur.id : Delivers(id)
  BY <1>1 DEF PhaseInv, Delivering
<1>3. /\ id \in Nat /\ id < Len(ops) /\ left \in Nat /\ rd.size \in Nat
      /\ Len(got) \in Nat /\ ops[id + 1].size \in Nat
      /\ ops[id + 1].code = cur.op.code
      /\ Len(got) + left = ops[id + 1].size
  <2>1. id \in Nat /\ id < Len(ops)
    BY <1>2, PhaseTypes DEF Delivers
  <2>2. ops[id + 1].size \in Nat
    BY <2>1, PhaseTypes
  <2>3. left \in Nat /\ rd.size \in Nat /\ Len(got) \in Nat
    BY PhaseTypes
  <2> QED BY <1>1, <1>2, <2>1, <2>2, <2>3 DEF Delivers, Unread
<1>4. CASE cur.op.block = 0
  <2>1. /\ got' = rd.dst /\ pc' = "take" /\ rd'.stage = "resphdr" /\ rd'.dst = <<>>
        /\ got = <<>> /\ rd.size = left
    BY <1>2, <1>4, StartReadFacts DEF DataRead, Delivers
  <2>2. Len(got) = 0
    BY <2>1, EmptySeq
  <2>3. Len(got') = ops[id + 1].size /\ Begins(got', id, 0)
    BY <1>1, <1>2, <1>3, <2>1, <2>2 DEF Delivers
  <2>4. Delivered(id)'
    BY <1>1, <1>3, <2>3 DEF Delivered, Begins
  <2>5. Flow'
    BY <1>1, <2>1, FlowKept
  <2>6. WholeDataPhase'
    BY <1>1, WholeKept
  <2> QED BY <1>1, <2>1, <2>4, <2>5, <2>6
          DEF PhaseInv, StageInv, Reading, Announced, Delivering, Complete
<1>5. CASE cur.op.block # 0
  <2>1. pc' = "handler" /\ UNCHANGED <<got, rd>>
    BY <1>5 DEF DataRead
  <2>2. Flow' /\ Front' = Front /\ Pipe' = Pipe
    BY <1>1, <2>1, FlowKept
  <2>3. WholeDataPhase'
    BY <1>1, WholeKept
  <2>4. Unread' = left
    BY <1>1, <1>3, <2>1 DEF Unread
  <2>5. Awaiting(id, Len(got) + Len(rd.dst))'
    BY <1>1, <1>2, <2>1, <2>2 DEF Delivers, Awaiting
  <2>6. Delivers(id)'
    BY <1>1, <1>2, <1>3, <1>5, <2>1, <2>4, <2>5 DEF Delivers, Begins
  <2> QED BY <1>1, <2>1, <2>2, <2>3, <2>6
          DEF PhaseInv, StageInv, Reading, Announced, Delivering, Complete
<1> QED BY <1>4, <1>5

\* The caller takes a block of the data phase, or fails.
LEMMA PhaseHandler ==
    ASSUME IndInv, CurInv, PhaseInv, Handler
    PROVE  PhaseInv'
<1>1. /\ pc = "handler" /\ rd.stage = "data"
      /\ UNCHANGED <<cur, ops, buf, fill, left, inp, cam, camq>>
      /\ StageInv /\ Flow /\ WholeDataPhase
  BY DEF Handler, camVars, PhaseInv, StageInv
<1>2. CASE Abort("handler")
  <2>1. Flow'
    BY <1>1, <1>2, FlowKept DEF Abort, Finish
  <2> QED BY <1>1, <1>2, <2>1, PhaseAbort DEF Abort
<1>3. CASE got' = got \o rd.dst /\ NextBlock(left) /\ UNCHANGED result
  <2>1. PICK id \in 0..cur.id : Delivers(id)
    BY <1>1 DEF PhaseInv, Delivering
  <2>2. /\ id \in Nat /\ id < Len(ops) /\ ops[id + 1].code = cur.op.code
        /\ left \in Nat /\ got \in Seq(Token) /\ rd.dst \in Seq(Token)
        /\ Len(got) \in Nat /\ Len(rd.dst) \in Nat /\ ops[id + 1].size \in Nat
        /\ Len(got) + (left + Len(rd.dst)) = ops[id + 1].size
        /\ Begins(got, id, 0) /\ Begins(rd.dst, id, Len(got))
        /\ Awaiting(id, Len(got) + Len(rd.dst)) /\ cur.op.block # 0
    <3>1. id \in Nat /\ id < Len(ops)
      BY <2>1, PhaseTypes DEF Delivers
    <3>2. ops[id + 1].size \in Nat
      BY <3>1, PhaseTypes
    <3>3. /\ left \in Nat /\ got \in Seq(Token) /\ rd.dst \in Seq(Token)
          /\ Len(got) \in Nat /\ Len(rd.dst) \in Nat
      BY PhaseTypes
    <3>4. Unread = left + Len(rd.dst)
      BY <1>1 DEF Unread
    <3>5. /\ ops[id + 1].code = cur.op.code
          /\ Len(got) + Unread = ops[id + 1].size
          /\ Begins(got, id, 0) /\ Begins(rd.dst, id, Len(got))
          /\ Awaiting(id, Len(got) + Len(rd.dst)) /\ cur.op.block # 0
      BY <1>1, <2>1, Zenon DEF Delivers
    <3> QED BY <3>1, <3>2, <3>3, <3>4, <3>5
  <2>3. 0 + Len(got) = Len(got)
    BY <2>2
  <2>4. /\ Begins(got \o rd.dst, id, 0)
        /\ Len(got \o rd.dst) = Len(got) + Len(rd.dst)
        /\ got \o rd.dst \in Seq(Token)
    BY <2>2, <2>3, BeginsJoin, ConcatProperties
  <2>5. Len(got') + left = ops[id + 1].size
    BY <1>3, <2>2, <2>4
  <2>6. Comes(ops, Front, Pipe, id, Len(got'))
    BY <1>3, <2>2, <2>4 DEF Awaiting
  <2>7. /\ left' = left /\ got' \in Seq(Token) /\ Begins(got', id, 0)
        /\ pc \in {"return", "handler"}
    BY <1>1, <1>3, <2>4
  <2> QED BY <1>1, <1>3, <2>1, <2>2, <2>5, <2>6, <2>7, PhaseNextBlock
<1> QED BY <1>2, <1>3 DEF Handler

\* A step of the camera that at most adds to what is on its way.
LEMMA PhaseFed ==
    ASSUME IndInv, CurInv, PhaseInv, UNCHANGED hostVars, Flow',
           \A t : Awaits(t, Front, Pipe) => Awaits(t, Front', Pipe'),
           cam'.st # "reply" => camq' = <<>>
    PROVE  PhaseInv'
<1>1. /\ UNCHANGED <<pc, cur, ops, buf, rd, fill, got, left, result>>
      /\ StageInv /\ Announced /\ Delivering /\ Complete /\ WholeDataPhase
  BY DEF hostVars, PhaseInv
<1>2. ASSUME NEW id, NEW n, Awaiting(id, n)
      PROVE  Comes(ops, Front', Pipe', id, n)
  BY <1>2 DEF Awaiting, Comes
<1>3. StageInv'
  BY <1>1 DEF StageInv, Reading
<1>4. Announced'
  BY <1>1, <1>2 DEF Announced, Awaiting, Hdr
<1>5. Delivering'
  <2> SUFFICES ASSUME pc # "idle", rd.stage = "data"
               PROVE  \E id \in 0..cur.id : Delivers(id)'
    BY <1>1 DEF Delivering
  <2>1. PICK id \in 0..cur.id : Delivers(id)
    BY <1>1 DEF Delivering
  <2>2. Awaiting(id, Len(got) + Len(rd.dst))'
    BY <1>1, <1>2, <2>1 DEF Delivers, Awaiting
  <2>3. Delivers(id)'
    BY <1>1, <2>1, <2>2 DEF Delivers, Begins, Unread
  <2> QED BY <2>3
<1>6. Complete'
  BY <1>1 DEF Complete, Delivered, Begins
<1>7. WholeDataPhase'
  BY <1>1, WholeKept
<1> QED BY <1>3, <1>4, <1>5, <1>6, <1>7 DEF PhaseInv

\* The camera answers an operation.
LEMMA PhaseReply ==
    ASSUME IndInv, CurInv, PhaseInv, cam.st # "reply", UNCHANGED <<hostVars, inp>>,
           NEW id \in Nat, id < Len(ops), NEW n \in Nat, Reply(id, n)
    PROVE  PhaseInv'
<1> DEFINE x == [id |-> id, op |-> ops[id + 1]]
<1>1. /\ UNCHANGED <<pc, ops, buf, fill, inp>> /\ camq = <<>>
      /\ Stream(ops, Front, Pipe) /\ ops \in Seq(Ops) /\ inp \in Seq(Packet)
      /\ Front \in Seq(Token)
  BY PhaseTypes DEF hostVars, PhaseInv, StageInv, Flow
<1>2. camq' \in Seq(Packet) /\ cam'.st = "reply"
  BY <1>1, ReplyLemma
<1>3. PICK r \in Replies(x) : Cut(camq', x, r, 0)
  BY ReplyAnswers
<1>4. Chained(ops, camq')
  <2>1. x \in Trans /\ x.id = id /\ x.op = ops[id + 1]
    BY <1>1, ContainerTok
  <2> HIDE DEF x
  <2> QED BY <1>1, <1>2, <1>3, <2>1, CutChained
<1>5. Pipe = inp /\ Pipe' = inp \o camq' /\ Front' = Front
  BY <1>1, ConcatEmptySeq DEF Pipe, Front
<1>6. /\ Stream(ops, Front, inp \o camq')
      /\ \A t : Awaits(t, Front, inp) => Awaits(t, Front, inp \o camq')
  BY <1>1, <1>2, <1>4, <1>5, StreamFed
<1>7. Flow'
  BY <1>1, <1>5, <1>6 DEF Flow
<1> QED BY <1>2, <1>5, <1>6, <1>7, PhaseFed

\* A step of the camera that leaves its answers alone.
LEMMA PhaseHears ==
    ASSUME IndInv, CurInv, PhaseInv, cam.st # "reply",
           UNCHANGED <<hostVars, inp, camq>>
    PROVE  PhaseInv'
<1>1. UNCHANGED <<pc, ops, buf, fill, inp, camq>> /\ camq = <<>>
  BY DEF hostVars, PhaseInv, StageInv
<1>2. Front' = Front /\ Pipe' = Pipe
  BY <1>1 DEF Front, Pipe
<1>3. Flow'
  BY <1>1, <1>2 DEF Flow, PhaseInv
<1> QED BY <1>1, <1>2, <1>3, PhaseFed

\* The camera takes a message.
LEMMA PhaseCamTakes ==
    ASSUME IndInv, CurInv, PhaseInv, CamCommand \/ CamReceive
    PROVE  PhaseInv'
<1>1. cam.st # "reply" /\ outq # <<>> /\ UNCHANGED <<hostVars, inp>>
  BY DEF CamCommand, CamReceive
<1>2. Head(outq) \in OutMsg /\ Head(outq).id < Len(ops)
  BY <1>1, OutHead
<1>3. CASE UNCHANGED camq
  BY <1>1, <1>3, PhaseHears
<1>4. ASSUME NEW id \in Nat, id < Len(ops), NEW n \in Nat, Reply(id, n)
      PROVE  PhaseInv'
  BY <1>1, <1>4, PhaseReply
<1>5. CASE CamCommand
  <2>1. Head(outq).id \in Nat
    BY <1>2 DEF OutMsg
  <2>2. UNCHANGED camq \/ Reply(Head(outq).id, 0)
    BY <1>5 DEF CamCommand, camVars
  <2> QED BY <1>2, <1>3, <1>4, <2>1, <2>2
<1>6. CASE CamReceive
  <2>1. /\ cam.id \in Nat /\ cam.n \in Nat /\ cam.id < Len(ops)
        /\ Head(outq).n \in Nat
    <3>1. cam \in [st : {"ready", "recv", "reply"}, id : Nat, n : Nat]
      BY DEF IndInv, TypeOK
    <3>2. cam.id < Len(ops)
      BY <1>6 DEF CamReceive, IndInv, IdsInv
    <3>3. Head(outq).n \in Nat
      BY <1>2, PacketLenAssumption DEF OutMsg
    <3> QED BY <3>1, <3>2, <3>3
  <2>2. cam.n + Head(outq).n \in Nat
    BY <2>1
  <2>3. UNCHANGED camq \/ Reply(cam.id, cam.n + Head(outq).n)
    BY <1>6 DEF CamReceive, camVars
  <2> QED BY <1>3, <1>4, <2>1, <2>2, <2>3
<1> QED BY <1>5, <1>6

\* The camera puts a packet into the pipe.
LEMMA PhaseCamSend ==
    ASSUME IndInv, CurInv, PhaseInv, CamSend
    PROVE  PhaseInv'
<1>1. /\ cam.st = "reply" /\ inp' = Append(inp, Head(camq)) /\ camq' = Tail(camq)
      /\ cam' = IF Len(camq) = 1 THEN [cam EXCEPT !.st = "ready"] ELSE cam
      /\ UNCHANGED hostVars /\ UNCHANGED <<pc, ops, buf, fill>>
  BY DEF CamSend, hostVars
<1>2. /\ inp \in Seq(Packet) /\ camq \in Seq(Packet) /\ camq # <<>>
      /\ cam \in [st : {"ready", "recv", "reply"}, id : Nat, n : Nat]
  BY <1>1 DEF IndInv, TypeOK, IdsInv
<1>3. /\ Head(camq) \in Packet /\ Tail(camq) \in Seq(Packet)
      /\ <<Head(camq)>> \in Seq(Packet)
  BY <1>2, HeadTailProperties
<1>4. Pipe' = Pipe
  <2>1. camq = <<Head(camq)>> \o Tail(camq)
    BY <1>2, HeadThenTail
  <2>2. inp' = inp \o <<Head(camq)>>
    BY <1>1, <1>2, <1>3, AppendIsConcat
  <2>3. (inp \o <<Head(camq)>>) \o Tail(camq) = inp \o (<<Head(camq)>> \o Tail(camq))
    BY <1>2, <1>3, ConcatAssociative
  <2> QED BY <1>1, <2>1, <2>2, <2>3 DEF Pipe
<1>5. Front' = Front
  BY <1>1 DEF Front
<1>6. Flow'
  BY <1>1, <1>4, <1>5 DEF Flow, PhaseInv
<1>7. cam'.st # "reply" => camq' = <<>>
  <2> SUFFICES ASSUME Len(camq) = 1 PROVE Tail(camq) = <<>>
    BY <1>1
  <2>1. Len(Tail(camq)) = Len(camq) - 1
    BY <1>2, HeadTailProperties
  <2>2. Len(Tail(camq)) = 0
    BY <2>1
  <2> QED BY <1>3, <2>2, EmptySeq
<1> QED BY <1>1, <1>4, <1>5, <1>6, <1>7, PhaseFed

\* Nothing is on its way at the start.
LEMMA PhaseInit == Init => PhaseInv
<1> SUFFICES ASSUME Init PROVE PhaseInv
  OBVIOUS
<1>1. /\ pc = "idle" /\ rd.stage = "none" /\ camq = <<>> /\ inp = <<>>
      /\ buf.data = <<>> /\ result.rc = "none"
  BY DEF Init, NoRead, Empty
<1>2. Front = <<>> /\ Pipe = <<>>
  <2>1. <<>> \o <<>> = <<>>
    BY EmptySeq, ConcatEmptySeq
  <2> QED BY <1>1, <2>1 DEF Front, Pipe
<1>3. Flow
  BY <1>2 DEF Flow, Stream, Linked, Open, Chained
<1> QED BY <1>1, <1>3 DEF PhaseInv, StageInv, Reading, Announced, Delivering,
                          Complete, WholeDataPhase

\* Every step keeps the data phase whole, whatever has failed before.
LEMMA PhaseStep ==
    ASSUME IndInv, CurInv, PhaseInv, IndInv', [Next]_vars
    PROVE  PhaseInv'
<1>1. CASE UNCHANGED vars
  <2>1. UNCHANGED hostVars /\ UNCHANGED <<pc, ops, buf, fill, inp, cam, camq>>
    BY <1>1 DEF vars, hostVars, camVars
  <2>2. Front' = Front /\ Pipe' = Pipe
    BY <2>1 DEF Front, Pipe
  <2>3. Flow' /\ (cam'.st # "reply" => camq' = <<>>)
    BY <2>1, <2>2 DEF Flow, PhaseInv, StageInv
  <2> QED BY <2>1, <2>2, <2>3, PhaseFed
<1>2. CASE Caller
  BY <1>2, PhaseTransaction DEF Caller
<1>3. CASE Host
  BY <1>3, PhaseSend, PhaseTake, PhaseBulk, PhaseFill, PhaseTake2, PhaseHeader,
     PhaseData, PhaseHandler, PhaseResponse DEF Host
<1>4. CASE Camera
  BY <1>4, PhaseCamTakes, PhaseCamSend DEF Camera
<1> QED BY <1>1, <1>2, <1>3, <1>4 DEF Next

\* What has been read and what comes next belong together, in every state.
THEOREM InductivePhase == Spec => []PhaseInv
<1>1. IndInv /\ StepInv /\ PhaseInv /\ IndInv' /\ [Next]_vars => PhaseInv'
  BY PhaseStep DEF StepInv
<1> QED BY <1>1, PhaseInit, Inductive, InductiveStep, PTL DEF Spec

\* WholeDataPhase: however far out of step the host is after a failure, a data
\* phase that is returned with success is the whole one of one operation.
THEOREM DataPhaseIsWhole == Spec => []WholeDataPhase
<1>1. PhaseInv => WholeDataPhase
  BY DEF PhaseInv
<1> QED BY <1>1, InductivePhase, PTL
=============================================================================
