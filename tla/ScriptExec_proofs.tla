------------------------- MODULE ScriptExec_proofs --------------------------
(***************************************************************************)
(* What ScriptExec promises, proved for any scripts, options, queue        *)
(* lengths and numbers of failures: the messages exec delivers are those   *)
(* of its script, exec returns when all of them are delivered, a strict    *)
(* read accepts none of an earlier script, and exec implements RemoteCall. *)
(***************************************************************************)
EXTENDS ScriptExec, SequenceTheorems, TLAPS

-----------------------------------------------------------------------------
(***************************************************************************)
(* Sequences, cut in two and moved along.                                  *)
(***************************************************************************)

\* An element added to a queue is added to any end piece of it, and to what
\* stands before that piece.
LEMMA AppendToTail ==
    \A d \in Seq(Msg) : \A q \in Seq(Msg) : \A m \in Msg : \A k \in 0..Len(q) :
        d \o SubSeq(Append(q, m), k + 1, Len(Append(q, m)))
        = Append(d \o SubSeq(q, k + 1, Len(q)), m)
<1> SUFFICES ASSUME NEW d \in Seq(Msg), NEW q \in Seq(Msg), NEW m \in Msg,
                    NEW k \in 0..Len(q)
             PROVE  d \o SubSeq(Append(q, m), k + 1, Len(Append(q, m)))
                    = Append(d \o SubSeq(q, k + 1, Len(q)), m)
  OBVIOUS
<1>1. Len(q) \in Nat /\ <<m>> \in Seq(Msg)
  BY LenProperties
<1>2. /\ Append(q, m) \in Seq(Msg)
      /\ Len(Append(q, m)) = Len(q) + 1
      /\ Append(q, m)[Len(q) + 1] = m
      /\ Append(q, m) = q \o <<m>>
  BY AppendProperties, AppendIsConcat
<1>3. SubSeq(Append(q, m), k + 1, Len(q) + 1)
      = SubSeq(Append(q, m), k + 1, (Len(q) + 1) - 1) \o <<m>>
  <2>1. /\ k + 1 \in 1..Len(Append(q, m))
        /\ Len(q) + 1 \in (k + 1)..Len(Append(q, m))
    BY <1>1, <1>2
  <2>2. \A r \in Seq(Msg) : \A i \in 1..Len(r) : \A j \in i..Len(r) :
           SubSeq(r, i, j) = SubSeq(r, i, j - 1) \o <<r[j]>>
    BY SubSeqRecursiveSecond
  <2>3. \A i \in 1..Len(Append(q, m)) : \A j \in i..Len(Append(q, m)) :
           SubSeq(Append(q, m), i, j)
           = SubSeq(Append(q, m), i, j - 1) \o <<Append(q, m)[j]>>
    BY <1>2, <2>2, Zenon
  <2>4. \A j \in (k + 1)..Len(Append(q, m)) :
           SubSeq(Append(q, m), k + 1, j)
           = SubSeq(Append(q, m), k + 1, j - 1) \o <<Append(q, m)[j]>>
    BY <2>1, <2>3, Zenon
  <2>5. SubSeq(Append(q, m), k + 1, Len(q) + 1)
        = SubSeq(Append(q, m), k + 1, (Len(q) + 1) - 1)
             \o <<Append(q, m)[Len(q) + 1]>>
    BY <2>1, <2>4, Zenon
  <2> QED BY <1>2, <2>5
<1>4. SubSeq(Append(q, m), k + 1, Len(q)) = SubSeq(q, k + 1, Len(q))
  <2>1. CASE k = Len(q)
    <3>1. k + 1 \in Int /\ Len(q) \in Int /\ Len(q) < k + 1
      BY <2>1, <1>1
    <3> QED BY <3>1, SubSeqEmpty
  <2>2. CASE k < Len(q)
    <3>1. k + 1 \in 1..Len(q) /\ Len(q) \in 1..Len(q)
      BY <2>2, <1>1
    <3> QED BY <1>1, <1>2, <3>1, SubSeqOfConcat1
  <2> QED BY <1>1, <2>1, <2>2
<1>5. SubSeq(q, k + 1, Len(q)) \in Seq(Msg)
  <2>1. \A i \in (k + 1)..Len(q) : q[i] \in Msg
    BY <1>1, ElementOfSeq
  <2>2. k + 1 \in Int /\ Len(q) \in Int
    BY <1>1
  <2> QED BY <2>1, <2>2, SubSeqProperties
<1>6. d \o SubSeq(q, k + 1, Len(q)) \in Seq(Msg)
  BY <1>5, ConcatProperties
<1>7. Append(d \o SubSeq(q, k + 1, Len(q)), m)
      = (d \o SubSeq(q, k + 1, Len(q))) \o <<m>>
  BY <1>6, AppendIsConcat
<1>8. (d \o SubSeq(q, k + 1, Len(q))) \o <<m>>
      = d \o (SubSeq(q, k + 1, Len(q)) \o <<m>>)
  <2>1. \A u, v, w \in Seq(Msg) : (u \o v) \o w = u \o (v \o w)
    BY ConcatAssociative
  <2> QED BY <1>1, <1>5, <2>1, Zenon
<1>9. (Len(q) + 1) - 1 = Len(q)
  BY <1>1
<1> QED BY <1>2, <1>3, <1>4, <1>7, <1>8, <1>9

\* What stood in a sequence stands there still after an element is added.
LEMMA AppendBefore ==
    ASSUME NEW S, NEW q \in Seq(S), NEW m \in S
    PROVE  SubSeq(Append(q, m), 1, Len(q)) = q
<1>1. Len(q) \in Nat /\ <<m>> \in Seq(S) /\ Append(q, m) = q \o <<m>>
  BY LenProperties, AppendIsConcat
<1>2. CASE Len(q) = 0
  <2>1. q = <<>>
    BY <1>2, EmptySeq
  <2>2. SubSeq(Append(q, m), 1, Len(q)) = <<>>
    BY <1>2, SubSeqEmpty
  <2> QED BY <2>1, <2>2
<1>3. CASE Len(q) # 0
  <2>1. 1 \in 1..Len(q) /\ Len(q) \in 1..Len(q)
    BY <1>1, <1>3
  <2>2. SubSeq(q \o <<m>>, 1, Len(q)) = SubSeq(q, 1, Len(q))
    BY <1>1, <2>1, SubSeqOfConcat1
  <2> QED BY <1>1, <2>2, SubSeqFull
<1> QED BY <1>2, <1>3

\* Taking the first element of a queue moves an end piece behind it up.
LEMMA TailOfTail ==
    ASSUME NEW S, NEW q \in Seq(S), q # <<>>, NEW k \in 1..Len(q)
    PROVE  SubSeq(Tail(q), k, Len(Tail(q))) = SubSeq(q, k + 1, Len(q))
<1>1. Len(q) \in Nat \ {0}
  BY EmptySeq
<1>2. Tail(q) = SubSeq(q, 2, Len(q)) /\ Len(Tail(q)) = Len(q) - 1
  BY TailIsSubSeq, HeadTailProperties
<1>3. CASE k = Len(q)
  <2>1. SubSeq(Tail(q), k, Len(Tail(q))) = <<>>
    BY <1>1, <1>2, <1>3, SubSeqEmpty
  <2>2. SubSeq(q, k + 1, Len(q)) = <<>>
    BY <1>1, <1>3, SubSeqEmpty
  <2> QED BY <2>1, <2>2
<1>4. CASE k < Len(q)
  <2>1. /\ 2 \in 1..Len(q) /\ Len(q) \in 1..Len(q)
        /\ k \in 1..Len(q) - 2 + 1 /\ Len(q) - 1 \in 1..Len(q) - 2 + 1
        /\ 2 + k - 1 = k + 1 /\ 2 + (Len(q) - 1) - 1 = Len(q)
    BY <1>1, <1>4
  <2>2. SubSeq(SubSeq(q, 2, Len(q)), k, Len(q) - 1)
        = SubSeq(q, 2 + k - 1, 2 + (Len(q) - 1) - 1)
    BY <2>1, SubSeqOfSubSeq
  <2> QED BY <1>2, <2>1, <2>2
<1> QED BY <1>1, <1>3, <1>4

\* The first element of a queue passes to what stands before the queue.
LEMMA HeadMoves ==
    ASSUME NEW S, NEW d \in Seq(S), NEW q \in Seq(S), q # <<>>
    PROVE  Append(d, Head(q)) \o SubSeq(Tail(q), 1, Len(Tail(q)))
           = d \o SubSeq(q, 1, Len(q))
<1>1. /\ Head(q) \in S /\ Tail(q) \in Seq(S)
      /\ Len(q) \in Nat \ {0}
  BY HeadTailProperties, EmptySeq
<1>2. SubSeq(Tail(q), 1, Len(Tail(q))) = Tail(q) /\ SubSeq(q, 1, Len(q)) = q
  BY <1>1, SubSeqFull
<1>3. Append(d, Head(q)) = d \o <<Head(q)>>
  BY <1>1, AppendIsConcat
<1>4. <<Head(q)>> \in Seq(S)
  BY <1>1
<1>5. (d \o <<Head(q)>>) \o Tail(q) = d \o (<<Head(q)>> \o Tail(q))
  BY <1>1, <1>4, ConcatAssociative
<1>6. <<Head(q)>> \o Tail(q) = q
  <2>1. q[1] = Head(q)
    BY <1>1
  <2>2. SubSeq(q, 1, Len(q)) = <<q[1]>> \o SubSeq(q, 1 + 1, Len(q))
    BY <1>1, SubSeqRecursiveFirst
  <2>3. Tail(q) = SubSeq(q, 1 + 1, Len(q))
    BY TailIsSubSeq
  <2> QED BY <1>2, <2>1, <2>2, <2>3
<1> QED BY <1>2, <1>3, <1>5, <1>6

-----------------------------------------------------------------------------
(***************************************************************************)
(* What a call does to the camera.                                         *)
(***************************************************************************)

\* The queue holds messages of the scripts started so far, and the host knows
\* the script started last or none.
CamInv ==
    /\ run \in {0, started}
    /\ sid \in {0, started}
    /\ \A i \in 1..Len(msgq) : msgq[i].sid <= started

\* A script has begun: it is the next one, and what it has put out so far is
\* at most the error of one that does not compile.
Begun(flags, id, status) ==
    /\ run = 0 \/ ~flags.nokill
    /\ id = started + 1 /\ id <= MaxExec
    /\ started' = id
    /\ status \in {"none", "compile"}
    /\ run' = IF status = "none" THEN id ELSE 0
    /\ todo' \in Seq(Steps)
    /\ msgq' \in Seq(Msg) /\ Len(msgq') <= QueueLen
    /\ \A i \in 1..Len(msgq') : msgq'[i].sid <= id
    /\ status = "none" => \A i \in 1..Len(msgq') : msgq'[i].sid < id
    /\ hostq' = IF flags.flushhost THEN <<>> ELSE hostq
    /\ posted' \in Seq(Msg) /\ Len(posted') <= 1
    /\ status = "none" => posted' = <<>>
    /\ heard' = heard

\* The camera's queues and scripts keep their types whatever is read or flushed.
LEMMA MessageTypes ==
    /\ NoMsg \in Msg
    /\ NoScript \in Script
    /\ Scripts \subseteq Script
    /\ QueueLen \in Nat /\ QueueLen >= 1 /\ MaxExec \in Nat /\ MaxFaults \in Nat
<1>1. NoMsg \in Msg
  BY DEF NoMsg, Msg
<1>2. NoScript \in Script
  <2>1. <<>> \in Seq(Steps)
    BY EmptySeq
  <2> QED BY <2>1 DEF NoScript, Script
<1> QED BY <1>1, <1>2, ScriptsAssumption, BoundsAssumption

\* ExecuteScript either refuses and changes nothing, or begins a script.
LEMMA CamExecEffect ==
    ASSUME TypeOK, CamInv,
           NEW s \in Script, NEW flags \in ExecFlags, NEW id, NEW status,
           CamExec(s, flags, id, status)
    PROVE  \/ /\ run # 0 /\ flags.nokill
              /\ status = "scriptrun"
              /\ id \in {0, run}
              /\ UNCHANGED camera
           \/ Begun(flags, id, status)
<1>1. CASE Refuses(flags) /\ status = "scriptrun" /\ id \in {0, run} /\ UNCHANGED camera
  BY <1>1 DEF Refuses
<1>2. CASE ~(Refuses(flags) /\ status = "scriptrun" /\ id \in {0, run} /\ UNCHANGED camera)
  <2> DEFINE q == IF flags.flushcam THEN <<>> ELSE msgq
             e == [sid |-> id, type |-> "error", n |-> 1]
  <2>1. /\ ~Refuses(flags)
        /\ started < MaxExec
        /\ id = started + 1
        /\ started' = id
        /\ hostq' = IF flags.flushhost THEN <<>> ELSE hostq
        /\ IF s.ok
           THEN /\ status = "none"
                /\ run' = id
                /\ todo' = s.does
                /\ msgq' = q
                /\ posted' = <<>>
           ELSE /\ status = "compile"
                /\ run' = 0
                /\ todo' = <<>>
                /\ msgq' = IF Len(q) < QueueLen THEN Append(q, e) ELSE q
                /\ posted' = IF Len(q) < QueueLen THEN <<e>> ELSE <<>>
        /\ UNCHANGED heard
    BY <1>2 DEF CamExec
  <2>2. /\ q \in Seq(Msg) /\ Len(q) <= QueueLen /\ Len(q) \in Nat
        /\ \A i \in 1..Len(q) : q[i].sid <= started
    <3>1. <<>> \in Seq(Msg) /\ Len(<<>>) = 0
      BY EmptySeq
    <3>2. CASE flags.flushcam
      BY <3>1, <3>2, MessageTypes
    <3>3. CASE ~flags.flushcam
      BY <3>3, LenProperties DEF TypeOK, CamInv
    <3> QED BY <3>2, <3>3
  <2>3. /\ id \in Nat /\ started \in Nat /\ MaxExec \in Nat /\ id <= MaxExec
        /\ \A i \in 1..Len(q) : q[i].sid \in Nat
    <3>1. started \in Nat /\ MaxExec \in Nat
      BY MessageTypes DEF TypeOK
    <3>2. \A i \in 1..Len(q) : q[i] \in Msg
      BY <2>2, ElementOfSeq
    <3> QED BY <2>1, <3>1, <3>2 DEF Msg
  <2>4. e \in Msg /\ e.sid = id
    BY <2>3 DEF Msg, Kinds
  <2>5. s.does \in Seq(Steps) /\ s.ok \in BOOLEAN /\ <<>> \in Seq(Steps) /\ <<>> \in Seq(Msg)
    BY EmptySeq DEF Script
  <2>6. run = 0 \/ ~flags.nokill
    BY <2>1 DEF Refuses
  <2> HIDE DEF q, e
  <2>7. CASE s.ok
    <3>1. /\ msgq' = q /\ posted' = <<>> /\ run' = id /\ todo' = s.does
          /\ status = "none"
      BY <2>1, <2>7
    <3>2. \A i \in 1..Len(msgq') : msgq'[i].sid < id /\ msgq'[i].sid <= id
      BY <2>1, <2>2, <2>3, <3>1
    <3>3. Len(posted') = 0 /\ posted' \in Seq(Msg)
      BY <3>1, EmptySeq
    <3> QED BY <2>1, <2>2, <2>3, <2>5, <2>6, <3>1, <3>2, <3>3 DEF Begun
  <2>8. CASE ~s.ok
    <3>1. /\ run' = 0 /\ todo' = <<>> /\ status = "compile"
          /\ msgq' = IF Len(q) < QueueLen THEN Append(q, e) ELSE q
          /\ posted' = IF Len(q) < QueueLen THEN <<e>> ELSE <<>>
      BY <2>1, <2>8
    <3>2. /\ msgq' \in Seq(Msg) /\ Len(msgq') <= QueueLen
          /\ \A i \in 1..Len(msgq') : msgq'[i].sid <= id
      <4>1. CASE Len(q) < QueueLen
        <5>1. /\ msgq' \in Seq(Msg) /\ Len(msgq') = Len(q) + 1
              /\ \A i \in 1..Len(q) : msgq'[i] = q[i]
              /\ msgq'[Len(q) + 1] = e
          BY <4>1, <3>1, <2>2, <2>4, AppendProperties
        <5>2. Len(msgq') <= QueueLen
          BY <4>1, <5>1, <2>2, MessageTypes
        <5>3. ASSUME NEW i \in 1..Len(msgq') PROVE msgq'[i].sid <= id
          <6>1. CASE i = Len(q) + 1
            BY <6>1, <5>1, <2>3, <2>4
          <6>2. CASE i \in 1..Len(q)
            BY <6>2, <5>1, <2>1, <2>2, <2>3
          <6> QED BY <6>1, <6>2, <5>1, <2>2
        <5> QED BY <5>1, <5>2, <5>3
      <4>2. CASE ~(Len(q) < QueueLen)
        BY <4>2, <3>1, <2>1, <2>2, <2>3
      <4> QED BY <4>1, <4>2
    <3>3. posted' \in Seq(Msg) /\ Len(posted') <= 1
      BY <3>1, <2>4, <2>5
    <3>4. status # "none"
      BY <3>1
    <3> QED BY <2>1, <2>3, <2>5, <2>6, <3>1, <3>2, <3>3, <3>4 DEF Begun
  <2> QED BY <2>5, <2>7, <2>8
<1> QED BY <1>1, <1>2

\* ReadScriptMsg takes the first message, which is one of the queue or none.
LEMMA CamReadEffect ==
    ASSUME TypeOK, CamRead
    PROVE  /\ msgq' \in Seq(Msg) /\ Len(msgq') <= QueueLen
           /\ \A i \in 1..Len(msgq') : msgq'[i] = msgq[i + 1] /\ i + 1 \in 1..Len(msgq)
           /\ UNCHANGED <<run, todo, started, hostq, posted, heard>>
           /\ Reply \in Msg
           /\ msgq # <<>> => Reply = msgq[1] /\ Len(msgq') = Len(msgq) - 1
<1>1. UNCHANGED <<run, todo, started, hostq, posted, heard>>
  BY DEF CamRead
<1>2. CASE msgq = <<>>
  <2>1. msgq' = <<>> /\ Reply = NoMsg
    BY <1>2 DEF CamRead, Reply
  <2> QED BY <1>1, <1>2, <2>1, MessageTypes, EmptySeq
<1>3. CASE msgq # <<>>
  <2>1. msgq \in Seq(Msg) /\ Len(msgq) \in Nat \ {0} /\ Len(msgq) <= QueueLen
    BY <1>3, EmptySeq DEF TypeOK
  <2>2. msgq' = Tail(msgq) /\ Reply = Head(msgq) /\ Head(msgq) = msgq[1]
    BY <1>3, <2>1 DEF CamRead, Reply
  <2>3. /\ Head(msgq) \in Msg /\ Tail(msgq) \in Seq(Msg)
        /\ Len(Tail(msgq)) = Len(msgq) - 1
        /\ \A i \in 1..Len(Tail(msgq)) : Tail(msgq)[i] = msgq[i + 1]
    BY <1>3, <2>1, HeadTailProperties
  <2> QED BY <1>1, <2>1, <2>2, <2>3, MessageTypes
<1> QED BY <1>2, <1>3

\* WriteScriptMsg adds to the host queue only while a script runs.
LEMMA CamWriteEffect ==
    ASSUME TypeOK, NEW target, CamWrite(target)
    PROVE  /\ hostq' \in Seq(Nat) /\ Len(hostq') <= QueueLen
           /\ \/ hostq' = hostq
              \/ /\ run # 0 /\ Len(hostq') = Len(hostq) + 1
                 /\ \A i \in 1..Len(hostq) : hostq'[i] = hostq[i]
                 /\ hostq'[Len(hostq) + 1] = run
           /\ UNCHANGED <<run, todo, started, msgq, posted, heard>>
<1>1. UNCHANGED <<run, todo, started, msgq, posted, heard>>
  BY DEF CamWrite
<1>2. hostq \in Seq(Nat) /\ Len(hostq) \in Nat /\ Len(hostq) <= QueueLen /\ run \in Nat
  BY LenProperties DEF TypeOK
<1>3. CASE WriteStatus(target) = "ok"
  <2>1. hostq' = Append(hostq, run)
    BY <1>3 DEF CamWrite
  <2>2. run # 0 /\ Len(hostq) # QueueLen
    BY <1>3 DEF WriteStatus
  <2>3. /\ hostq' \in Seq(Nat) /\ Len(hostq') = Len(hostq) + 1
        /\ \A i \in 1..Len(hostq) : hostq'[i] = hostq[i]
        /\ hostq'[Len(hostq) + 1] = run
    BY <2>1, <1>2, AppendProperties
  <2> QED BY <1>1, <1>2, <2>2, <2>3, MessageTypes
<1>4. CASE WriteStatus(target) # "ok"
  BY <1>1, <1>2, <1>4 DEF CamWrite
<1> QED BY <1>3, <1>4

\* The status of a write is one the caller knows.
LEMMA WriteStatusKnown ==
    ASSUME NEW target
    PROVE  WriteStatus(target) \in {"ok", "notrun", "badid", "qfull"}
BY DEF WriteStatus

\* The script of the camera posts its message, ends, or only goes on in what
\* it has still to do and in what it has read.
CamPosted ==
    /\ run # 0
    /\ todo' \in Seq(Steps)
    /\ \E m \in Msg :
          /\ m.sid = run
          /\ msgq' = Append(msgq, m)
          /\ posted' = Append(posted, m)
    /\ msgq' \in Seq(Msg) /\ Len(msgq') <= QueueLen
    /\ posted' \in Seq(Msg)
    /\ UNCHANGED <<run, started, hostq, heard, sid, faults>>

CamWentOn ==
    /\ run # 0
    /\ todo' \in Seq(Steps)
    /\ \/ UNCHANGED <<hostq, heard>>
       \/ /\ hostq # <<>>
          /\ heard' = heard \cup {<<run, Head(hostq)>>}
          /\ hostq' = Tail(hostq)
    /\ UNCHANGED <<run, started, msgq, posted, sid, faults>>

LEMMA CamScriptEffect ==
    ASSUME TypeOK, CamScript
    PROVE  CamPosted \/ CamWentOn \/ CamEnd
<1>1. /\ todo # <<>> => Head(todo) \in Steps /\ Tail(todo) \in Seq(Steps)
      /\ <<>> \in Seq(Steps)
  BY HeadTailProperties, EmptySeq DEF TypeOK
<1>2. CASE CamPost
  <2> DEFINE m == Message(Head(todo))
  <2>1. /\ run # 0 /\ todo # <<>> /\ Head(todo) \in Kinds /\ Len(msgq) < QueueLen
        /\ msgq' = Append(msgq, m)
        /\ posted' = Append(posted, m)
        /\ todo' = IF Head(todo) = "error" THEN <<>> ELSE Tail(todo)
        /\ UNCHANGED <<run, started, hostq, heard, sid, faults>>
    BY <1>2 DEF CamPost
  <2>2. msgq \in Seq(Msg) /\ posted \in Seq(Msg) /\ Len(posted) \in Nat
        /\ Len(msgq) \in Nat /\ run \in Nat
    BY LenProperties DEF TypeOK
  <2>3. m \in Msg /\ m.sid = run
    BY <2>1, <2>2 DEF Message, Msg
  <2> HIDE DEF m
  <2>4. /\ msgq' \in Seq(Msg) /\ Len(msgq') = Len(msgq) + 1
        /\ posted' \in Seq(Msg)
    BY <2>1, <2>2, <2>3, AppendProperties
  <2>5. Len(msgq') <= QueueLen /\ todo' \in Seq(Steps)
    BY <1>1, <2>1, <2>2, <2>4, MessageTypes
  <2> QED BY <2>1, <2>3, <2>4, <2>5 DEF CamPosted
<1>3. CASE CamRecv
  BY <1>1, <1>3 DEF CamRecv, CamWentOn
<1>4. CASE CamRecvGiveUp
  BY <1>1, <1>4 DEF CamRecvGiveUp, CamWentOn
<1>5. CASE CamPostGiveUp
  BY <1>1, <1>5 DEF CamPostGiveUp, CamWentOn
<1> QED BY <1>2, <1>3, <1>4, <1>5 DEF CamScript

\* The host's ExecuteScript, in each of its ways to end.
StartBegun(status) ==
    /\ status \in {"none", "compile"}
    /\ Begun(Flags, started + 1, status)
    /\ sid' = started + 1
    /\ UNCHANGED faults

StartLost ==
    /\ pc' = "idle" /\ outcome' = "io"
    /\ UNCHANGED camera \/ \E id, st : Begun(Flags, id, st)
    /\ sid' = 0
    /\ faults' \in 0..MaxFaults

LEMMA StartEffect ==
    ASSUME TypeOK, CamInv, Start
    PROVE  /\ UNCHANGED <<call, snap, delivered, reply>>
           /\ \/ /\ StartBegun("none")
                 /\ IF call.opts.wait THEN pc' = "poll" /\ UNCHANGED outcome
                                      ELSE pc' = "idle" /\ outcome' = "started"
              \/ StartBegun("compile") /\ pc' = "errmsg" /\ UNCHANGED outcome
              \/ /\ pc' = "idle" /\ outcome' = "scriptrun"
                 /\ UNCHANGED <<camera, faults>>
                 /\ sid' \in {0, run}
              \/ StartLost
<1>1. UNCHANGED <<call, snap, delivered, reply>>
  BY DEF Start
<1>2. call.script \in Script /\ Flags \in ExecFlags
  <2>1. call.script \in Script /\ call.new \in BOOLEAN /\ call.opts \in Opts
    BY MessageTypes, NewProtosAssumption DEF TypeOK
  <2> QED BY <2>1 DEF Flags, ExecFlags, Opts
<1>3. faults \in Nat /\ started \in Nat /\ MaxFaults \in Nat
  BY MessageTypes DEF TypeOK
<1>4. ASSUME NEW st \in {"none", "compile", "scriptrun"}, ExecDone(call.script, Flags, st)
      PROVE  \/ StartBegun(st)
             \/ st = "scriptrun" /\ UNCHANGED <<camera, faults>> /\ sid' \in {0, run}
  <2>1. PICK id \in 0..MaxExec : CamExec(call.script, Flags, id, st) /\ sid' = id
    BY <1>4 DEF ExecDone, SidAfterExec
  <2>2. UNCHANGED faults
    BY <1>4 DEF ExecDone
  <2>3. \/ st = "scriptrun" /\ id \in {0, run} /\ UNCHANGED camera
        \/ Begun(Flags, id, st)
    BY <1>2, <2>1, CamExecEffect
  <2>4. CASE Begun(Flags, id, st)
    <3>1. id = started + 1 /\ st \in {"none", "compile"}
      BY <2>4 DEF Begun
    <3> QED BY <2>1, <2>2, <2>4, <3>1 DEF StartBegun
  <2> QED BY <2>1, <2>2, <2>3, <2>4
<1>5. \/ /\ ExecDone(call.script, Flags, "none")
         /\ IF call.opts.wait THEN pc' = "poll" /\ UNCHANGED outcome
                              ELSE pc' = "idle" /\ outcome' = "started"
      \/ ExecDone(call.script, Flags, "compile") /\ pc' = "errmsg" /\ UNCHANGED outcome
      \/ /\ ExecDone(call.script, Flags, "scriptrun")
         /\ pc' = "idle" /\ outcome' = "scriptrun"
      \/ ExecLost(call.script, Flags) /\ pc' = "idle" /\ outcome' = "io"
  BY DEF Start, End
<1>6. CASE /\ ExecDone(call.script, Flags, "none")
           /\ IF call.opts.wait THEN pc' = "poll" /\ UNCHANGED outcome
                                ELSE pc' = "idle" /\ outcome' = "started"
  <2>1. StartBegun("none")
    BY <1>4, <1>6
  <2> QED BY <1>1, <1>6, <2>1
<1>7. CASE ExecDone(call.script, Flags, "compile") /\ pc' = "errmsg" /\ UNCHANGED outcome
  <2>1. StartBegun("compile")
    BY <1>4, <1>7
  <2> QED BY <1>1, <1>7, <2>1
<1>8. CASE /\ ExecDone(call.script, Flags, "scriptrun")
           /\ pc' = "idle" /\ outcome' = "scriptrun"
  <2>1. UNCHANGED <<camera, faults>> /\ sid' \in {0, run}
    BY <1>4, <1>8 DEF StartBegun
  <2> QED BY <1>1, <1>8, <2>1
<1>9. CASE ExecLost(call.script, Flags) /\ pc' = "idle" /\ outcome' = "io"
  <2>1. /\ faults < MaxFaults /\ faults' = faults + 1
        /\ sid' = 0
        /\ \/ UNCHANGED camera
           \/ \E id \in 0..MaxExec, st \in ExecAnswers :
                 CamExec(call.script, Flags, id, st)
    BY <1>9 DEF ExecLost, Faulty, SidAfterExec
  <2>2. UNCHANGED camera \/ \E id, st : Begun(Flags, id, st)
    BY <1>2, <2>1, CamExecEffect
  <2>3. faults' \in 0..MaxFaults
    BY <1>3, <2>1
  <2> QED BY <1>1, <1>9, <2>1, <2>2, <2>3 DEF StartLost
<1> QED BY <1>5, <1>6, <1>7, <1>8, <1>9

-----------------------------------------------------------------------------
(***************************************************************************)
(* Type correctness, and what the camera's queue holds.                    *)
(***************************************************************************)

CamTypes ==
    /\ run \in 0..started
    /\ started \in 0..MaxExec
    /\ todo \in Seq(Steps)
    /\ msgq \in Seq(Msg) /\ Len(msgq) <= QueueLen
    /\ hostq \in Seq(Nat) /\ Len(hostq) <= QueueLen
    /\ posted \in Seq(Msg)
    /\ heard \subseteq Nat \X Nat
    /\ sid \in 0..started
    /\ faults \in 0..MaxFaults

HostTypes ==
    /\ pc \in ExecPcs \cup {"idle", "msgpoll", "msgread", "userflush"}
    /\ call \in [new : NewProtos, script : Scripts \cup {NoScript}, type : {"user", "return"},
                 opts : Opts]
    /\ snap \in [run : BOOLEAN, msg : BOOLEAN]
    /\ delivered \in Seq([sid : Nat, type : {"user", "return"}, n : Nat])
    /\ outcome \in {"none", "busy", "scriptrun", "started", "compile",
                   "returned", "callback", "runtime", "io"}
    /\ reply \in [how : {"none", "msg", "wrongmsg", "timeout", "flushed", "io",
                         "ok", "notrun", "badid", "qfull"},
                  msg : Msg]

\* The camera was read from, or its status, or nothing at all.
Quiet ==
    /\ CamRead \/ UNCHANGED camera
    /\ UNCHANGED sid
    /\ faults' \in 0..MaxFaults

\* A call of the host other than exec and write_msg is quiet.
LEMMA CamCalls ==
    ASSUME TypeOK, [Next]_vars
    PROVE  \/ Quiet
           \/ WriteMsg /\ CamWrite(sid) /\ UNCHANGED sid /\ faults' \in 0..MaxFaults
           \/ Start
           \/ CamScript /\ UNCHANGED hostVars
<1>1. faults \in 0..MaxFaults /\ MaxFaults \in Nat
  BY MessageTypes DEF TypeOK
<1>2. ReadLost \/ StatusLost => Quiet
  BY <1>1 DEF ReadLost, StatusLost, Faulty, Quiet
<1>3. CamRead /\ UNCHANGED <<sid, faults>> => Quiet
  BY <1>1 DEF Quiet
<1>4. UNCHANGED scriptVars => Quiet
  BY <1>1 DEF Quiet, scriptVars
<1>5. CASE Calls
  <2>1. CASE \E s \in Scripts, o \in CallOpts : Exec(s, o)
    BY <2>1, <1>4 DEF Exec
  <2>2. CASE \E type \in {"user", "return"} : WaitMsg(type)
    BY <2>2, <1>4 DEF WaitMsg
  <2>3. CASE WriteMsg
    <3>1. CASE CamWrite(sid) /\ UNCHANGED <<sid, faults>>
      BY <3>1, <2>3, <1>1
    <3>2. CASE WriteLost(sid)
      BY <3>2, <2>3, <1>1 DEF WriteLost, Faulty, Quiet
    <3> QED BY <2>3, <3>1, <3>2 DEF WriteMsg
  <2>4. CASE FlushMsgs
    BY <2>4, <1>2, <1>3 DEF FlushMsgs
  <2> QED BY <1>5, <2>1, <2>2, <2>3, <2>4 DEF Calls
<1>6. CASE Host
  <2>1. CASE Check
    BY <2>1, <1>2, <1>4 DEF Check
  <2>2. CASE Flush
    BY <2>2, <1>1, <1>2 DEF Flush, Quiet
  <2>3. CASE ErrMsg
    BY <2>3, <1>2, <1>3 DEF ErrMsg
  <2>4. CASE Poll
    BY <2>4, <1>2, <1>4 DEF Poll
  <2>5. CASE Read
    BY <2>5, <1>2, <1>3 DEF Read
  <2>6. CASE MsgPoll
    BY <2>6, <1>2, <1>4 DEF MsgPoll
  <2>7. CASE MsgRead
    BY <2>7, <1>2, <1>3 DEF MsgRead
  <2>8. CASE FlushMsgs
    BY <2>8, <1>2, <1>3 DEF FlushMsgs
  <2> QED BY <1>6, <2>1, <2>2, <2>3, <2>4, <2>5, <2>6, <2>7, <2>8 DEF Host
<1>7. CASE Camera
  BY <1>7 DEF Camera
<1>8. CASE UNCHANGED vars
  BY <1>8, <1>4 DEF vars
<1> QED BY <1>5, <1>6, <1>7, <1>8 DEF Next

LEMMA BegunKeeps ==
    ASSUME TypeOK, NEW id, NEW status, NEW flags, Begun(flags, id, status),
           sid' \in {0, id}, faults' \in 0..MaxFaults
    PROVE  CamTypes' /\ CamInv'
<1>1. started \in Nat /\ MaxExec \in Nat /\ QueueLen \in Nat
  BY MessageTypes DEF TypeOK
<1>2. /\ id \in 1..MaxExec /\ started' = id /\ run' \in {0, id}
  BY <1>1 DEF Begun
<1>3. hostq' \in Seq(Nat) /\ Len(hostq') <= QueueLen
  <2>1. hostq \in Seq(Nat) /\ Len(hostq) <= QueueLen
    BY DEF TypeOK
  <2>2. <<>> \in Seq(Nat) /\ Len(<<>>) = 0
    BY EmptySeq
  <2>3. CASE hostq' = <<>>
    <3>1. 0 <= QueueLen
      BY <1>1
    <3> QED BY <2>2, <2>3, <3>1, Zenon
  <2>4. CASE hostq' = hostq
    BY <2>1, <2>4, Zenon
  <2> QED BY <2>3, <2>4 DEF Begun
<1>4. heard' \subseteq Nat \X Nat
  BY DEF TypeOK, Begun
<1>5. /\ todo' \in Seq(Steps)
      /\ msgq' \in Seq(Msg) /\ Len(msgq') <= QueueLen
      /\ posted' \in Seq(Msg)
      /\ \A i \in 1..Len(msgq') : msgq'[i].sid <= started'
  BY <1>2 DEF Begun
<1>6. run' \in 0..started' /\ started' \in 0..MaxExec /\ sid' \in 0..started'
  BY <1>1, <1>2
<1> QED BY <1>2, <1>3, <1>4, <1>5, <1>6 DEF CamTypes, CamInv

LEMMA CamStep ==
    ASSUME TypeOK, CamInv, [Next]_vars
    PROVE  CamTypes' /\ CamInv'
<1>1. CamTypes
  BY DEF TypeOK, CamTypes
<1>2. started \in Nat /\ MaxExec \in Nat /\ QueueLen \in Nat /\ run \in Nat
  BY MessageTypes DEF TypeOK
<1>3. CASE Quiet
  <2>1. CASE CamRead
    <3>1. /\ msgq' \in Seq(Msg) /\ Len(msgq') <= QueueLen
          /\ \A i \in 1..Len(msgq') : msgq'[i] = msgq[i + 1] /\ i + 1 \in 1..Len(msgq)
          /\ UNCHANGED <<run, todo, started, hostq, posted, heard>>
      BY <2>1, CamReadEffect
    <3>2. UNCHANGED sid /\ faults' \in 0..MaxFaults
      BY <1>3 DEF Quiet
    <3>3. \A i \in 1..Len(msgq') : msgq'[i].sid <= started'
      BY <3>1 DEF CamInv
    <3>4. CamTypes'
      BY <1>1, <3>1, <3>2 DEF CamTypes
    <3> QED BY <3>1, <3>2, <3>3, <3>4 DEF CamInv
  <2>2. CASE UNCHANGED camera
    BY <2>2, <1>1, <1>3 DEF Quiet, camera, CamTypes, CamInv
  <2> QED BY <1>3, <2>1, <2>2 DEF Quiet
<1>4. CASE CamWrite(sid) /\ UNCHANGED sid /\ faults' \in 0..MaxFaults
  <2>1. /\ hostq' \in Seq(Nat) /\ Len(hostq') <= QueueLen
        /\ UNCHANGED <<run, todo, started, msgq, posted, heard>>
    BY <1>4, CamWriteEffect
  <2> QED BY <1>1, <1>4, <2>1 DEF CamTypes, CamInv
<1>5. CASE Start
  <2>1. CASE \E status \in {"none", "compile"} : StartBegun(status)
    <3>1. PICK status \in {"none", "compile"} : StartBegun(status)
      BY <2>1
    <3>2. sid' \in {0, started + 1} /\ faults' \in 0..MaxFaults
      BY <3>1, <1>1 DEF StartBegun, CamTypes
    <3> QED BY <3>1, <3>2, BegunKeeps DEF StartBegun
  <2>2. CASE UNCHANGED <<camera, faults>> /\ sid' \in {0, run}
    BY <2>2, <1>1, <1>2 DEF camera, CamTypes, CamInv
  <2>3. CASE StartLost
    <3>1. CASE UNCHANGED camera
      BY <3>1, <2>3, <1>1, <1>2 DEF StartLost, camera, CamTypes, CamInv
    <3>2. CASE \E id, st : Begun(Flags, id, st)
      <4>1. PICK id, st : Begun(Flags, id, st)
        BY <3>2
      <4>2. sid' \in {0, id} /\ faults' \in 0..MaxFaults
        BY <2>3 DEF StartLost
      <4> QED BY <4>1, <4>2, BegunKeeps
    <3> QED BY <2>3, <3>1, <3>2 DEF StartLost
  <2> QED BY <1>5, <2>1, <2>2, <2>3, StartEffect
<1>6. CASE CamScript
  <2>1. CASE CamPosted
    <3>1. CamTypes'
      BY <2>1, <1>1 DEF CamPosted, CamTypes
    <3>2. \A i \in 1..Len(msgq') : msgq'[i].sid <= started'
      <4>1. PICK m \in Msg : m.sid = run /\ msgq' = Append(msgq, m)
        BY <2>1 DEF CamPosted
      <4>2. /\ Len(msgq') = Len(msgq) + 1 /\ Len(msgq) \in Nat
            /\ \A i \in 1..Len(msgq) : msgq'[i] = msgq[i]
            /\ msgq'[Len(msgq) + 1] = m
        BY <1>1, <4>1, AppendProperties, LenProperties DEF CamTypes
      <4>3. started' = started /\ run <= started
        BY <1>1, <1>2, <2>1 DEF CamPosted, CamTypes
      <4> QED BY <4>1, <4>2, <4>3 DEF CamInv
    <3> QED BY <2>1, <3>1, <3>2 DEF CamPosted, CamInv
  <2>2. CASE CamWentOn
    <3>1. hostq' \in Seq(Nat) /\ Len(hostq') <= QueueLen /\ heard' \subseteq Nat \X Nat
      <4>1. CASE UNCHANGED <<hostq, heard>>
        BY <4>1, <1>1 DEF CamTypes
      <4>2. CASE /\ hostq # <<>>
                 /\ heard' = heard \cup {<<run, Head(hostq)>>}
                 /\ hostq' = Tail(hostq)
        <5>1. hostq \in Seq(Nat) /\ Len(hostq) \in Nat /\ Len(hostq) <= QueueLen
          BY <1>1, LenProperties DEF CamTypes
        <5>2. Head(hostq) \in Nat /\ Tail(hostq) \in Seq(Nat) /\ Len(Tail(hostq)) = Len(hostq) - 1
          BY <4>2, <5>1, HeadTailProperties
        <5> QED BY <4>2, <5>1, <5>2, <1>1, <1>2 DEF CamTypes
      <4> QED BY <2>2, <4>1, <4>2 DEF CamWentOn
    <3> QED BY <2>2, <3>1, <1>1 DEF CamWentOn, CamTypes, CamInv
  <2>3. CASE CamEnd
    BY <2>3, <1>1, <1>2 DEF CamEnd, CamTypes, CamInv
  <2> QED BY <1>6, <2>1, <2>2, <2>3, CamScriptEffect
<1> QED BY <1>3, <1>4, <1>5, <1>6, CamCalls

LEMMA HostTypeStep ==
    ASSUME TypeOK, CamInv, [Next]_vars
    PROVE  HostTypes'
<1>1. HostTypes
  BY DEF TypeOK, HostTypes
<1>2. NoMsg \in Msg /\ (CamRead => Reply \in Msg)
  BY MessageTypes, CamReadEffect
<1>3. ASSUME NEW s \in Scripts, NEW o \in CallOpts, Exec(s, o) PROVE HostTypes'
  <2>1. o \in Opts
    BY CallOptsAssumption
  <2>2. call' \in [new : NewProtos, script : Scripts \cup {NoScript},
                   type : {"user", "return"}, opts : Opts]
    BY <1>1, <1>3, <2>1 DEF Exec, HostTypes
  <2>3. <<>> \in Seq([sid : Nat, type : {"user", "return"}, n : Nat])
    BY EmptySeq
  <2>4. NoReply \in [how : {"none", "msg", "wrongmsg", "timeout", "flushed", "io",
                            "ok", "notrun", "badid", "qfull"}, msg : Msg]
    BY <1>2 DEF NoReply
  <2> QED BY <1>1, <1>3, <2>2, <2>3, <2>4 DEF Exec, HostTypes, ExecPcs
<1>4. ASSUME NEW how \in {"msg", "wrongmsg", "timeout", "flushed", "io",
                         "ok", "notrun", "badid", "qfull"},
             NEW m \in Msg, Answer(how, m),
             UNCHANGED <<call, snap, delivered, outcome>>
      PROVE  HostTypes'
  BY <1>1, <1>4 DEF Answer, HostTypes
<1>5. ASSUME NEW type \in {"user", "return"}, WaitMsg(type) PROVE HostTypes'
  BY <1>1, <1>5 DEF WaitMsg, HostTypes
<1>6. CASE WriteMsg
  BY <1>2, <1>4, <1>6, WriteStatusKnown DEF WriteMsg
<1>7. CASE FlushMsgs
  <2>1. CASE pc' = "userflush" /\ UNCHANGED reply
    BY <1>1, <1>7, <2>1 DEF FlushMsgs, HostTypes
  <2> QED BY <1>2, <1>4, <1>7, <2>1 DEF FlushMsgs
<1>8. CASE Check
  BY <1>1, <1>8 DEF Check, End, HostTypes, ExecPcs
<1>9. CASE Flush
  BY <1>1, <1>9 DEF Flush, End, HostTypes, ExecPcs
<1>10. CASE Start
  <2>1. UNCHANGED <<call, snap, delivered, reply>>
    BY <1>10 DEF Start
  <2>2. pc' \in {"idle", "poll", "errmsg"} /\ outcome' \in {outcome, "started", "scriptrun", "io"}
    BY <1>10 DEF Start, End
  <2> QED BY <1>1, <2>1, <2>2 DEF HostTypes, ExecPcs
<1>11. CASE ErrMsg
  BY <1>1, <1>11 DEF ErrMsg, End, HostTypes, ExecPcs
<1>12. CASE Poll
  <2>1. snap' \in [run : BOOLEAN, msg : BOOLEAN]
    <3>1. Status \in [run : BOOLEAN, msg : BOOLEAN]
      BY DEF Status
    <3>2. snap' = Status \/ snap' = snap
      BY <1>12 DEF Poll
    <3> QED BY <1>1, <3>1, <3>2, Zenon DEF HostTypes
  <2>2. UNCHANGED <<call, delivered, reply>>
    BY <1>12 DEF Poll
  <2>3. pc' \in {"idle", "poll", "read"} /\ outcome' \in {outcome, "returned", "io"}
    BY <1>12 DEF Poll, End
  <2> QED BY <1>1, <2>1, <2>2, <2>3 DEF HostTypes, ExecPcs
<1>13. CASE Read
  <2>1. UNCHANGED <<call, snap, reply>>
    BY <1>13 DEF Read
  <2>2. /\ pc' \in {"idle", "poll"}
        /\ outcome' \in {outcome, "returned", "callback", "runtime", "io"}
    BY <1>13 DEF Read, NextRound, End
  <2>3. delivered' \in Seq([sid : Nat, type : {"user", "return"}, n : Nat])
    <3>1. CASE CamRead /\ Handed(Reply) /\ delivered' = Append(delivered, Reply)
      <4>1. Reply \in [sid : Nat, type : {"user", "return"}, n : Nat]
        BY <3>1, <1>2 DEF Handed, Msg
      <4> QED BY <3>1, <4>1, <1>1, AppendProperties DEF HostTypes
    <3>2. CASE UNCHANGED delivered
      BY <3>2, <1>1 DEF HostTypes
    <3> QED BY <1>13, <3>1, <3>2 DEF Read
  <2> QED BY <1>1, <2>1, <2>2, <2>3 DEF HostTypes, ExecPcs
<1>14. CASE MsgPoll
  <2>1. CASE pc' = "msgread" /\ UNCHANGED reply
    BY <1>1, <1>14, <2>1 DEF MsgPoll, HostTypes
  <2> QED BY <1>2, <1>4, <1>14, <2>1 DEF MsgPoll
<1>15. CASE MsgRead
  BY <1>2, <1>4, <1>15 DEF MsgRead
<1>16. CASE UNCHANGED hostVars
  BY <1>1, <1>16 DEF hostVars, HostTypes
<1> QED
  BY <1>3, <1>5, <1>6, <1>7, <1>8, <1>9, <1>10, <1>11, <1>12, <1>13, <1>14, <1>15, <1>16
  DEF Next, Calls, Host, Camera, vars

LEMMA TypesTogether == TypeOK <=> CamTypes /\ HostTypes
BY DEF TypeOK, CamTypes, HostTypes

LEMMA InitTypes == Init => TypeOK /\ CamInv
<1> SUFFICES ASSUME Init PROVE TypeOK /\ CamInv
  OBVIOUS
<1>1. /\ \A S : <<>> \in Seq(S)
      /\ Len(<<>>) = 0
  BY EmptySeq
<1>2. CamTypes /\ CamInv
  BY <1>1, MessageTypes DEF Init, CamInit, CamTypes, CamInv
<1>3. call \in [new : NewProtos, script : Scripts \cup {NoScript}, type : {"user", "return"},
                opts : Opts]
  <2>1. PICK v \in NewProtos : call = [NoCall EXCEPT !.new = v]
    BY DEF Init
  <2>2. call = [new |-> v, script |-> NoScript, type |-> "user", opts |-> NoCall.opts]
    BY <2>1 DEF NoCall
  <2>3. NoCall.opts \in Opts
    BY DEF NoCall, Opts
  <2> QED BY <2>2, <2>3
<1>4. reply \in [how : {"none", "msg", "wrongmsg", "timeout", "flushed", "io",
                         "ok", "notrun", "badid", "qfull"}, msg : Msg]
  BY MessageTypes DEF Init, NoReply
<1> QED BY <1>1, <1>2, <1>3, <1>4, TypesTogether DEF Init, HostTypes, ExecPcs

\* The types of the camera's script system and of the host.
THEOREM ExecTypeCorrect == Spec => [](TypeOK /\ CamInv)
<1>1. TypeOK /\ CamInv /\ [Next]_vars => (TypeOK /\ CamInv)'
  <2> SUFFICES ASSUME TypeOK, CamInv, [Next]_vars PROVE TypeOK' /\ CamInv'
    OBVIOUS
  <2>1. CamTypes' /\ CamInv'
    BY CamStep
  <2>2. HostTypes'
    BY HostTypeStep
  <2> QED BY <2>1, <2>2 DEF TypeOK, CamTypes, HostTypes
<1> QED BY <1>1, InitTypes, PTL DEF Spec

-----------------------------------------------------------------------------
(***************************************************************************)
(* A call of exec.                                                         *)
(***************************************************************************)

\* While exec is in progress it has no outcome, nothing is delivered before
\* the script begins, a message is read only after a status that announced
\* one, and before protocol 2.6 no script runs once that was looked at.
ExecBusy ==
    /\ pc \in ExecPcs => outcome = "busy" /\ reply = NoReply
    /\ pc \in {"check", "flush", "start"} => delivered = <<>>
    /\ pc \in {"poll", "read"} => started >= 1
    /\ pc = "read" => snap.msg
    /\ pc \in {"flush", "start"} /\ ~call.new /\ ~call.opts.clobber => run = 0

\* Reading or not, the camera runs on as it did.
LEMMA QuietRun ==
    ASSUME CamRead \/ UNCHANGED camera
    PROVE  run' = run /\ started' = started /\ posted' = posted
BY DEF CamRead, camera

\* A call that is not exec leaves exec's own variables alone.
LEMMA OtherCalls ==
    ASSUME TypeOK, Next, ~Camera, pc \notin ExecPcs
    PROVE  \/ \E s \in Scripts, o \in CallOpts : Exec(s, o)
           \/ /\ pc' \notin ExecPcs
              /\ UNCHANGED <<run, started, posted, snap, delivered, outcome, sid>>
              /\ UNCHANGED call.opts
<1>1. CASE WriteMsg
  <2>1. CASE CamWrite(sid)
    BY <1>1, <2>1 DEF WriteMsg, WriteLost, CamWrite, Answer, ExecPcs
  <2>2. CASE UNCHANGED camera
    BY <1>1, <2>2 DEF WriteMsg, WriteLost, camera, Answer, ExecPcs
  <2> QED BY <1>1, <2>1, <2>2 DEF WriteMsg, WriteLost
<1>2. CASE FlushMsgs
  <2>1. CamRead \/ UNCHANGED camera
    BY <1>2 DEF FlushMsgs, ReadLost
  <2> QED BY <1>2, <2>1, QuietRun DEF FlushMsgs, ReadLost, Answer, ExecPcs
<1>3. CASE MsgPoll
  BY <1>3 DEF MsgPoll, StatusLost, scriptVars, camera, Answer, ExecPcs
<1>4. CASE MsgRead
  <2>1. CamRead \/ UNCHANGED camera
    BY <1>4 DEF MsgRead, ReadLost
  <2> QED BY <1>4, <2>1, QuietRun DEF MsgRead, ReadLost, Answer, ExecPcs
<1>5. ASSUME NEW type, WaitMsg(type)
      PROVE  /\ pc' \notin ExecPcs
             /\ UNCHANGED <<run, started, posted, snap, delivered, outcome, sid>>
             /\ UNCHANGED call.opts
  <2>1. call'.opts = call.opts
    BY <1>5 DEF WaitMsg, TypeOK
  <2>2. pc' \notin ExecPcs
    BY <1>5 DEF WaitMsg, ExecPcs
  <2> QED BY <1>5, <2>1, <2>2 DEF WaitMsg, scriptVars, camera
<1>6. ~(Check \/ Flush \/ Start \/ ErrMsg \/ Poll \/ Read)
  BY DEF Check, Flush, Start, ErrMsg, Poll, Read, ExecPcs
<1> QED BY <1>1, <1>2, <1>3, <1>4, <1>5, <1>6 DEF Next, Calls, Host

\* While exec is in progress the host takes only steps of it.
LEMMA ExecSteps ==
    ASSUME Next, pc \in ExecPcs, ~Camera
    PROVE  Check \/ Flush \/ Start \/ ErrMsg \/ Poll \/ Read
BY DEF Next, Calls, Host, Exec, WaitMsg, WriteMsg, FlushMsgs, MsgPoll, MsgRead, ExecPcs

LEMMA ExecBusyStep ==
    ASSUME TypeOK, CamInv, ExecBusy, [Next]_vars
    PROVE  ExecBusy'
<1>1. started \in Nat /\ run \in Nat
  BY DEF TypeOK
<1>2. ASSUME NEW s \in Scripts, NEW o \in CallOpts, Exec(s, o) PROVE ExecBusy'
  <2>1. /\ outcome' = "busy" /\ reply' = NoReply /\ delivered' = <<>>
        /\ pc' = IF ~call.new /\ ~o.clobber THEN "check" ELSE "start"
    BY <1>2 DEF Exec
  <2>2. call'.new = call.new /\ call'.opts = o
    BY <1>2 DEF Exec, TypeOK
  <2> QED BY <2>1, <2>2 DEF ExecBusy
<1>3. CASE pc \notin ExecPcs /\ Next /\ ~Camera
  <2>1. CASE pc' \notin ExecPcs
    BY <2>1 DEF ExecBusy, ExecPcs
  <2> QED BY <1>2, <1>3, <2>1, OtherCalls
<1>4. CASE Check
  <2>1. CASE StatusLost /\ End("io")
    BY <2>1 DEF End, ExecBusy, ExecPcs
  <2>2. CASE Status.run /\ End("scriptrun")
    BY <2>2 DEF End, ExecBusy, ExecPcs
  <2>3. CASE /\ ~Status.run /\ pc' \in {"flush", "start"}
             /\ UNCHANGED outcome /\ UNCHANGED scriptVars
    <3>1. run = 0
      BY <2>3 DEF Status
    <3>2. run' = run /\ pc = "check" /\ UNCHANGED <<call, snap, delivered, reply>>
      BY <1>4, <2>3 DEF Check, scriptVars, camera
    <3> QED BY <2>3, <3>1, <3>2 DEF ExecBusy, ExecPcs
  <2> QED BY <1>4, <2>1, <2>2, <2>3 DEF Check
<1>5. CASE Flush
  <2>1. CamRead \/ UNCHANGED camera
    BY <1>5 DEF Flush, ReadLost
  <2>2. run' = run /\ UNCHANGED <<call, snap, delivered, reply>> /\ pc = "flush"
    BY <1>5, <2>1, QuietRun DEF Flush
  <2>3. pc' = "idle" \/ (pc' \in {"flush", "start"} /\ UNCHANGED outcome)
    BY <1>5 DEF Flush, End
  <2> QED BY <2>2, <2>3 DEF ExecBusy, ExecPcs
<1>6. CASE Start
  <2>1. UNCHANGED <<call, snap, delivered, reply>> /\ pc = "start"
    BY <1>6 DEF Start
  <2>2. \/ pc' = "idle"
        \/ pc' \in {"poll", "errmsg"} /\ UNCHANGED outcome /\ started' = started + 1
    BY <1>6, StartEffect DEF StartBegun, Begun, StartLost
  <2> QED BY <1>1, <2>1, <2>2 DEF ExecBusy, ExecPcs
<1>7. CASE ErrMsg
  <2>1. pc' = "idle" \/ (pc' = "errmsg" /\ UNCHANGED <<outcome, reply>>)
    BY <1>7 DEF ErrMsg, End
  <2>2. pc = "errmsg"
    BY <1>7 DEF ErrMsg
  <2> QED BY <2>1, <2>2 DEF ExecBusy, ExecPcs
<1>8. CASE Poll
  <2>1. started' = started /\ pc = "poll"
    BY <1>8 DEF Poll, scriptVars, camera, StatusLost
  <2>2. \/ pc' = "idle"
        \/ pc' = "poll" /\ UNCHANGED <<outcome, reply>>
        \/ pc' = "read" /\ UNCHANGED <<outcome, reply>> /\ snap'.msg
    BY <1>8 DEF Poll, End
  <2> QED BY <2>1, <2>2 DEF ExecBusy, ExecPcs
<1>9. CASE Read
  <2>1. CamRead \/ UNCHANGED camera
    BY <1>9 DEF Read, ReadLost
  <2>2. started' = started /\ pc = "read"
    BY <1>9, <2>1, QuietRun DEF Read
  <2>3. pc' = "idle" \/ (pc' = "poll" /\ UNCHANGED <<outcome, reply>>)
    BY <1>9 DEF Read, NextRound, End
  <2> QED BY <2>2, <2>3 DEF ExecBusy, ExecPcs
<1>10. CASE Camera
  <2>1. UNCHANGED hostVars /\ started' = started /\ (run' = run \/ run' = 0)
    BY <1>10, CamScriptEffect DEF Camera, CamPosted, CamWentOn, CamEnd
  <2> QED BY <2>1 DEF hostVars, ExecBusy
<1>11. CASE UNCHANGED vars
  BY <1>11 DEF vars, scriptVars, camera, hostVars, ExecBusy
<1> QED
  BY <1>3, <1>4, <1>5, <1>6, <1>7, <1>8, <1>9, <1>10, <1>11, ExecSteps


-----------------------------------------------------------------------------
(***************************************************************************)
(* No message of the script is lost.                                       *)
(***************************************************************************)

\* The first k queued messages are of earlier scripts; the others, behind
\* those delivered, are what the script has posted.
Behind(k) ==
    /\ \A i \in 1..Len(msgq) : msgq[i].sid = sid <=> i > k
    /\ delivered \o SubSeq(msgq, k + 1, Len(msgq)) = posted

LEMMA SeqFacts ==
    ASSUME TypeOK
    PROVE  /\ msgq \in Seq(Msg) /\ Len(msgq) \in Nat
           /\ posted \in Seq(Msg) /\ Len(posted) \in Nat
           /\ delivered \in Seq(Msg) /\ Len(delivered) \in Nat
           /\ started \in Nat /\ run \in Nat /\ sid \in Nat
<1>1. /\ msgq \in Seq(Msg) /\ posted \in Seq(Msg)
      /\ delivered \in Seq([sid : Nat, type : {"user", "return"}, n : Nat])
      /\ started \in Nat /\ run \in Nat /\ sid \in Nat
  BY DEF TypeOK
<1>2. [sid : Nat, type : {"user", "return"}, n : Nat] \subseteq Msg
  BY DEF Msg, Kinds
<1>3. delivered \in Seq(Msg)
  BY <1>1, <1>2, SeqMonotonic
<1> QED BY <1>1, <1>3, LenProperties

\* A script begins behind all that is queued.
LEMMA BehindBegins ==
    ASSUME TypeOK, CamInv, ExecBusy, pc = "start", StartBegun("none"),
           UNCHANGED delivered
    PROVE  sid' = started' /\ \E k \in 0..Len(msgq') : Behind(k)'
<1>1. /\ sid' = started' /\ started' = started + 1
      /\ msgq' \in Seq(Msg) /\ posted' = <<>>
      /\ \A i \in 1..Len(msgq') : msgq'[i].sid < started + 1
  BY DEF StartBegun, Begun
<1>2. started \in Nat /\ Len(msgq') \in Nat
  BY <1>1, SeqFacts, LenProperties
<1>3. \A i \in 1..Len(msgq') : msgq'[i].sid \in Nat
  <2>1. \A q \in Seq(Msg) : \A i \in 1..Len(q) : q[i] \in Msg
    BY ElementOfSeq
  <2>2. \A i \in 1..Len(msgq') : msgq'[i] \in Msg
    BY <1>1, <2>1
  <2> QED BY <2>2 DEF Msg
<1>4. \A i \in 1..Len(msgq') : msgq'[i].sid = sid' <=> i > Len(msgq')
  BY <1>1, <1>2, <1>3
<1>5. SubSeq(msgq', Len(msgq') + 1, Len(msgq')) = <<>>
  BY <1>2, SubSeqEmpty
<1>6. delivered' = <<>>
  BY DEF ExecBusy
<1>7. <<>> \o <<>> = <<>>
  <2>1. <<>> \in Seq(Msg)
    BY EmptySeq
  <2> QED BY <2>1, ConcatEmptySeq
<1>8. delivered' \o SubSeq(msgq', Len(msgq') + 1, Len(msgq')) = posted'
  BY <1>1, <1>5, <1>6, <1>7
<1>9. PICK k \in 0..Len(msgq') : k = Len(msgq')
  BY <1>2
<1>10. Behind(k)'
  <2>1. \A i \in 1..Len(msgq') : msgq'[i].sid = sid' <=> i > k
    BY <1>4, <1>9
  <2>2. delivered' \o SubSeq(msgq', k + 1, Len(msgq')) = posted'
    BY <1>8, <1>9
  <2> QED BY <2>1, <2>2 DEF Behind
<1> QED BY <1>1, <1>10

\* The script posts behind all that is queued.
LEMMA BehindPosts ==
    ASSUME TypeOK, CamInv, CamPosted, sid = started, UNCHANGED delivered,
           NEW k \in 0..Len(msgq), Behind(k)
    PROVE  k \in 0..Len(msgq') /\ Behind(k)'
<1>1. PICK m \in Msg : m.sid = run /\ msgq' = Append(msgq, m) /\ posted' = Append(posted, m)
  BY DEF CamPosted
<1>2. run # 0 /\ sid' = sid
  BY DEF CamPosted
<1>3. m.sid = sid
  BY <1>1, <1>2 DEF CamInv
<1>4. /\ Len(msgq') = Len(msgq) + 1
      /\ \A i \in 1..Len(msgq) : msgq'[i] = msgq[i]
      /\ msgq'[Len(msgq) + 1] = m
  BY <1>1, SeqFacts, AppendProperties
<1>5. Len(msgq) \in Nat
  BY SeqFacts
<1>6. ASSUME NEW i \in 1..Len(msgq') PROVE msgq'[i].sid = sid' <=> i > k
  <2>1. CASE i = Len(msgq) + 1
    BY <2>1, <1>2, <1>3, <1>4, <1>5
  <2>2. CASE i \in 1..Len(msgq)
    <3>1. msgq[i].sid = sid <=> i > k
      BY <2>2 DEF Behind
    <3> QED BY <2>2, <3>1, <1>2, <1>4
  <2> QED BY <2>1, <2>2, <1>4, <1>5
<1>7. delivered \o SubSeq(msgq', k + 1, Len(msgq'))
      = Append(delivered \o SubSeq(msgq, k + 1, Len(msgq)), m)
  <2>1. delivered \in Seq(Msg) /\ msgq \in Seq(Msg)
    BY SeqFacts
  <2>2. m \in Msg /\ msgq' = Append(msgq, m)
    BY <1>1
  <2>3. \A e \in Msg : \A j \in 0..Len(msgq) :
           delivered \o SubSeq(Append(msgq, e), j + 1, Len(Append(msgq, e)))
           = Append(delivered \o SubSeq(msgq, j + 1, Len(msgq)), e)
    BY <2>1, AppendToTail, Zenon
  <2>4. delivered \o SubSeq(Append(msgq, m), k + 1, Len(Append(msgq, m)))
        = Append(delivered \o SubSeq(msgq, k + 1, Len(msgq)), m)
    BY <2>2, <2>3, Zenon
  <2> QED BY <2>2, <2>4, Zenon
<1>8. delivered' \o SubSeq(msgq', k + 1, Len(msgq')) = posted'
  BY <1>1, <1>7 DEF Behind
<1>9. Behind(k)'
  BY <1>6, <1>8 DEF Behind
<1> QED BY <1>4, <1>5, <1>9

\* A message is taken from the queue: one of an earlier script is passed over,
\* one of the script delivered, unless the call ends with it.
LEMMA BehindReads ==
    ASSUME TypeOK, CamInv, ExecBusy, Read, pc' = "poll", sid = started,
           NEW k \in 0..Len(msgq), Behind(k)
    PROVE  sid' = sid /\ \E j \in 0..Len(msgq') : Behind(j)'
<1>1. /\ CamRead /\ sid' = sid
      /\ \/ ~Expected(Reply) /\ UNCHANGED delivered
         \/ Expected(Reply) /\ delivered' = Append(delivered, Reply)
  BY DEF Read, NextRound, End
<1>2. /\ sid # 0
      /\ started \in Nat
  BY SeqFacts DEF ExecBusy, Read
<1>3. UNCHANGED posted
  BY <1>1 DEF CamRead
<1>4. CASE msgq = <<>>
  <2>1. msgq' = msgq /\ ~Expected(Reply)
    BY <1>1, <1>2, <1>4 DEF CamRead, Reply, Expected, NoMsg
  <2> QED BY <1>1, <1>3, <2>1 DEF Behind
<1>5. CASE msgq # <<>>
  <2>1. /\ msgq \in Seq(Msg) /\ Len(msgq) \in Nat \ {0}
        /\ msgq' = Tail(msgq) /\ Reply = Head(msgq) /\ Head(msgq) = msgq[1]
    BY <1>1, <1>5, SeqFacts, EmptySeq DEF CamRead, Reply
  <2>2. /\ Len(msgq') = Len(msgq) - 1
        /\ \A i \in 1..Len(msgq') : msgq'[i] = msgq[i + 1]
    BY <2>1, <1>5, HeadTailProperties
  <2>3. msgq[1].sid = sid <=> 1 > k
    BY <2>1 DEF Behind
  <2>4. CASE k = 0
    <3>1. Expected(Reply)
      BY <2>1, <2>3, <2>4, <1>2 DEF Expected
    <3>2. delivered' = Append(delivered, Head(msgq))
      BY <1>1, <2>1, <3>1
    <3>3. Append(delivered, Head(msgq)) \o SubSeq(Tail(msgq), 1, Len(Tail(msgq)))
          = delivered \o SubSeq(msgq, 1, Len(msgq))
      BY <1>5, SeqFacts, HeadMoves
    <3>4. delivered' \o SubSeq(msgq', 0 + 1, Len(msgq')) = posted'
      <4>1. 0 + 1 = 1 /\ k + 1 = 1
        BY <2>4
      <4>2. delivered \o SubSeq(msgq, k + 1, Len(msgq)) = posted
        BY DEF Behind
      <4> QED BY <1>3, <2>1, <3>2, <3>3, <4>1, <4>2, Zenon
    <3>5. \A i \in 1..Len(msgq') : msgq'[i].sid = sid' <=> i > 0
      <4>1. \A i \in 1..Len(msgq') : i + 1 \in 1..Len(msgq) /\ i + 1 > 0 /\ i > 0
        BY <2>1, <2>2
      <4> QED BY <1>1, <2>2, <2>4, <4>1 DEF Behind
    <3>6. Behind(0)'
      BY <3>4, <3>5 DEF Behind
    <3> QED BY <1>1, <2>1, <2>2, <3>6
  <2>5. CASE k \in 1..Len(msgq)
    <3>1. ~Expected(Reply)
      BY <2>1, <2>3, <2>5 DEF Expected
    <3>2. SubSeq(Tail(msgq), k, Len(Tail(msgq))) = SubSeq(msgq, k + 1, Len(msgq))
      BY <1>5, <2>1, <2>5, TailOfTail
    <3>3. delivered' \o SubSeq(msgq', k, Len(msgq')) = posted'
      BY <1>1, <1>3, <2>1, <3>1, <3>2 DEF Behind
    <3>4. k - 1 \in 0..Len(msgq') /\ (k - 1) + 1 = k
      BY <2>1, <2>2, <2>5
    <3>5. \A i \in 1..Len(msgq') : msgq'[i].sid = sid' <=> i > k - 1
      <4>1. \A i \in 1..Len(msgq') : i + 1 \in 1..Len(msgq) /\ (i + 1 > k <=> i > k - 1)
        BY <2>1, <2>2, <2>5
      <4> QED BY <1>1, <2>2, <4>1 DEF Behind
    <3>6. Behind(k - 1)'
      BY <3>3, <3>4, <3>5 DEF Behind
    <3> QED BY <1>1, <3>4, <3>6
  <2> QED BY <2>1, <2>4, <2>5
<1> QED BY <1>4, <1>5

LEMMA NothingLostStep ==
    ASSUME TypeOK, CamInv, ExecBusy, NothingLost, [Next]_vars
    PROVE  NothingLost'
<1> SUFFICES ASSUME pc' \in {"poll", "read"}
             PROVE  sid' = started' /\ \E k \in 0..Len(msgq') : Behind(k)'
  BY DEF NothingLost, Behind
<1>1. pc \in {"poll", "read"} =>
         sid = started /\ \E k \in 0..Len(msgq) : Behind(k)
  BY DEF NothingLost, Behind
<1>2. CASE Camera
  <2>1. CamScript /\ UNCHANGED <<pc, delivered>>
    BY <1>2 DEF Camera, hostVars
  <2>2. PICK k \in 0..Len(msgq) : sid = started /\ Behind(k)
    BY <1>1, <2>1
  <2>3. CASE CamPosted
    <3>1. sid' = sid /\ started' = started
      BY <2>3 DEF CamPosted
    <3> QED BY <2>1, <2>2, <2>3, <3>1, BehindPosts
  <2>4. CASE UNCHANGED <<msgq, posted, sid, started>>
    BY <2>1, <2>2, <2>4 DEF Behind
  <2> QED BY <2>1, <2>3, <2>4, CamScriptEffect DEF CamWentOn, CamEnd
<1>3. CASE Start
  <2>1. StartBegun("none") /\ UNCHANGED delivered /\ pc = "start"
    BY <1>3, StartEffect DEF Start, StartLost
  <2> QED BY <2>1, BehindBegins
<1>4. CASE Poll
  <2>1. UNCHANGED <<msgq, posted, sid, started, delivered>> /\ pc = "poll"
    BY <1>4 DEF Poll, StatusLost, scriptVars, camera
  <2> QED BY <1>1, <2>1 DEF Behind
<1>5. CASE Read
  <2>1. pc = "read" /\ pc' = "poll" /\ CamRead
    BY <1>5 DEF Read, NextRound, End
  <2>2. PICK k \in 0..Len(msgq) : sid = started /\ Behind(k)
    BY <1>1, <2>1
  <2>3. started' = started
    BY <2>1 DEF CamRead
  <2> QED BY <1>5, <2>1, <2>2, <2>3, BehindReads
<1>6. CASE UNCHANGED vars
  BY <1>1, <1>6 DEF vars, scriptVars, camera, hostVars, Behind
<1>7. ~(Check \/ Flush \/ ErrMsg)
  BY DEF Check, Flush, ErrMsg, End
<1>8. ~(\E s \in Scripts, o \in CallOpts : Exec(s, o))
  BY DEF Exec
<1>9. CASE pc \notin ExecPcs /\ Next /\ ~Camera
  BY <1>8, <1>9, OtherCalls DEF ExecPcs
<1> QED
  BY <1>2, <1>3, <1>4, <1>5, <1>6, <1>7, <1>9, ExecSteps

-----------------------------------------------------------------------------
(***************************************************************************)
(* exec returns when its script is done and delivered.                     *)
(***************************************************************************)
LEMMA ReturnsStep ==
    ASSUME TypeOK, CamInv, ExecBusy, NothingLost, ReturnsComplete, [Next]_vars
    PROVE  ReturnsComplete'
<1> SUFFICES ASSUME outcome' = "returned"
             PROVE  /\ run' = 0
                    /\ delivered' = posted'
                    /\ \A i \in 1..Len(posted') : posted'[i].type # "error"
  BY DEF ReturnsComplete
<1>1. CASE outcome = "returned"
  <2>1. /\ pc \notin ExecPcs
        /\ run = 0 /\ delivered = posted
        /\ \A i \in 1..Len(posted) : posted[i].type # "error"
    BY <1>1 DEF ExecBusy, ReturnsComplete
  <2>2. CASE Camera
    BY <2>1, <2>2, CamScriptEffect DEF Camera, CamPosted, CamWentOn, CamEnd
  <2>3. ~(\E s \in Scripts, o \in CallOpts : Exec(s, o))
    BY DEF Exec
  <2>4. CASE Next /\ ~Camera
    BY <2>1, <2>3, <2>4, OtherCalls
  <2>5. CASE UNCHANGED vars
    BY <2>1, <2>5 DEF vars, scriptVars, camera, hostVars
  <2> QED BY <2>2, <2>4, <2>5
<1>2. CASE outcome # "returned"
  <2>1. ~Camera /\ ~UNCHANGED vars
    BY <1>2 DEF Camera, hostVars, vars
  <2>2. ~(\E s \in Scripts, o \in CallOpts : Exec(s, o))
    BY DEF Exec
  <2>3. pc \in ExecPcs
    BY <1>2, <2>1, <2>2, OtherCalls
  <2>4. ~(Check \/ Flush \/ Start \/ ErrMsg)
    <3>1. ~Start
      BY <1>2 DEF Start, End
    <3> QED BY <1>2, <3>1 DEF Check, Flush, ErrMsg, End
  <2>5. ~Read
    <3>1. Read => snap.msg
      BY DEF ExecBusy, Read
    <3> QED BY <1>2, <3>1 DEF Read, NextRound, Completed, End
  <2>6. Poll
    BY <2>1, <2>3, <2>4, <2>5, ExecSteps
  <2>7. /\ run = 0 /\ msgq = <<>>
        /\ UNCHANGED <<run, posted, delivered>>
    BY <1>2, <2>6 DEF Poll, End, Completed, Status, scriptVars, camera
  <2>8. PICK k \in 0..Len(msgq) : delivered \o SubSeq(msgq, k + 1, Len(msgq)) = posted
    BY <2>6 DEF NothingLost, Poll
  <2>9. delivered = posted
    <3>1. Len(msgq) = 0 /\ k = 0
      BY <2>7, <2>8, EmptySeq
    <3>2. SubSeq(msgq, k + 1, Len(msgq)) = <<>>
      BY <3>1, SubSeqEmpty
    <3>3. delivered \o <<>> = delivered
      BY SeqFacts, ConcatEmptySeq
    <3> QED BY <2>8, <3>2, <3>3
  <2>10. \A i \in 1..Len(delivered) : delivered[i].type # "error"
    <3>1. delivered \in Seq([sid : Nat, type : {"user", "return"}, n : Nat])
      BY DEF TypeOK
    <3>2. \A i \in 1..Len(delivered) :
             delivered[i] \in [sid : Nat, type : {"user", "return"}, n : Nat]
      BY <3>1, ElementOfSeq
    <3> QED BY <3>2
  <2> QED BY <2>7, <2>9, <2>10
<1> QED BY <1>1, <1>2

-----------------------------------------------------------------------------
(***************************************************************************)
(* The strict read.                                                        *)
(***************************************************************************)
LEMMA StrictStep ==
    ASSUME TypeOK, CamInv, ExecBusy, StrictIsLatest, [Next]_vars
    PROVE  StrictIsLatest'
<1> SUFFICES ASSUME reply'.how = "msg" PROVE reply'.msg.sid = started'
  BY DEF StrictIsLatest
<1>1. CASE UNCHANGED reply
  <2>1. reply.how = "msg" /\ reply'.msg.sid = started
    BY <1>1 DEF StrictIsLatest
  <2>2. pc \notin ExecPcs
    BY <2>1 DEF ExecBusy, NoReply
  <2>3. started' = started
    <3>1. CASE Camera
      BY <3>1, CamScriptEffect DEF Camera, CamPosted, CamWentOn, CamEnd
    <3>2. CASE \E s \in Scripts, o \in CallOpts : Exec(s, o)
      BY <3>2 DEF Exec, scriptVars, camera
    <3>3. CASE UNCHANGED vars
      BY <3>3 DEF vars, scriptVars, camera
    <3> QED BY <2>2, <3>1, <3>2, <3>3, OtherCalls
  <2> QED BY <2>1, <2>3
<1>2. CASE ~UNCHANGED reply
  <2>1. ASSUME NEW how, NEW m, Answer(how, m) PROVE how = "msg" /\ reply'.msg = m
    BY <2>1 DEF Answer
  <2>2. ~(\E s \in Scripts, o \in CallOpts : Exec(s, o))
    <3>1. NoReply.how = "none"
      BY DEF NoReply
    <3> QED BY <3>1 DEF Exec
  <2>3. MsgRead
    <3>1. ~(Check \/ Flush \/ Start \/ ErrMsg \/ Poll \/ Read)
      BY <1>2 DEF Check, Flush, Start, ErrMsg, Poll, Read
    <3>2. ~WriteMsg
      BY <2>1, WriteStatusKnown DEF WriteMsg
    <3>3. ~FlushMsgs
      BY <1>2, <2>1 DEF FlushMsgs
    <3>4. ~MsgPoll
      BY <1>2, <2>1 DEF MsgPoll
    <3>5. ~(\E type \in {"user", "return"} : WaitMsg(type))
      BY <1>2 DEF WaitMsg
    <3>6. ~Camera /\ ~UNCHANGED vars
      BY <1>2 DEF Camera, hostVars, vars
    <3> QED BY <2>2, <3>1, <3>2, <3>3, <3>4, <3>5, <3>6 DEF Next, Calls, Host
  <2>4. CamRead /\ Expected(Reply) /\ Answer("msg", Reply)
    <3>1. CASE CamRead /\ Reply # NoMsg /\ Expected(Reply) /\ Answer("msg", Reply)
      BY <3>1
    <3>2. CASE Answer("wrongmsg", NoMsg) \/ Answer("io", NoMsg)
      BY <3>2, <2>1
    <3> QED BY <2>3, <3>1, <3>2 DEF MsgRead
  <2>5. reply'.msg.sid = sid /\ sid # 0 /\ started' = started
    BY <2>1, <2>4 DEF Expected, CamRead
  <2> QED BY <2>5 DEF CamInv
<1> QED BY <1>1, <1>2

-----------------------------------------------------------------------------
ExecInv ==
    TypeOK /\ CamInv /\ ExecBusy /\ NothingLost /\ ReturnsComplete /\ StrictIsLatest

LEMMA ExecInvInductive ==
    /\ Init => ExecInv
    /\ ExecInv /\ [Next]_vars => ExecInv'
<1>1. ASSUME Init PROVE ExecInv
  <2>1. ExecBusy /\ NothingLost /\ ReturnsComplete /\ StrictIsLatest
    BY <1>1 DEF Init, ExecBusy, NothingLost, ReturnsComplete, StrictIsLatest, ExecPcs, NoReply
  <2> QED BY <1>1, <2>1, InitTypes DEF ExecInv
<1>2. ASSUME ExecInv, [Next]_vars PROVE ExecInv'
  <2>1. TypeOK /\ CamInv /\ ExecBusy /\ NothingLost /\ ReturnsComplete /\ StrictIsLatest
    BY <1>2 DEF ExecInv
  <2>2. CamTypes' /\ CamInv'
    BY <1>2, <2>1, CamStep
  <2>3. HostTypes'
    BY <1>2, <2>1, HostTypeStep
  <2>4. TypeOK'
    BY <2>2, <2>3 DEF TypeOK, CamTypes, HostTypes
  <2>5. ExecBusy' /\ NothingLost'
    BY <1>2, <2>1, ExecBusyStep, NothingLostStep
  <2>6. ReturnsComplete' /\ StrictIsLatest'
    BY <1>2, <2>1, ReturnsStep, StrictStep
  <2> QED BY <2>2, <2>4, <2>5, <2>6 DEF ExecInv
<1> QED BY <1>1, <1>2

LEMMA ExecInvHolds == Spec => []ExecInv
BY ExecInvInductive, PTL DEF Spec

\* While exec waits, the messages delivered and those of its script still
\* queued are together all that the script has posted, in order, for any
\* script, queue length, options and failed calls.
THEOREM NoMessageLost == Spec => []NothingLost
<1>1. ExecInv => NothingLost
  BY DEF ExecInv
<1> QED BY <1>1, ExecInvHolds, PTL

\* An exec that waits returns only when its script has ended without an error
\* and every message it posted was delivered.
THEOREM CompleteReturn == Spec => []ReturnsComplete
<1>1. ExecInv => ReturnsComplete
  BY DEF ExecInv
<1> QED BY <1>1, ExecInvHolds, PTL

\* The messages read_msg_strict and wait_msg accept are of the script started
\* last, also when the call that started it has failed.
THEOREM StrictReads == Spec => []StrictIsLatest
<1>1. ExecInv => StrictIsLatest
  BY DEF ExecInv
<1> QED BY <1>1, ExecInvHolds, PTL

-----------------------------------------------------------------------------
(***************************************************************************)
(* Messages for the script.                                                *)
(***************************************************************************)

\* What is queued for the script was accepted for the one that runs: exec
\* flushes the rest, on a camera of protocol 2.6 that takes the flag.
HostQueueOwn ==
    /\ call.new /\ call.opts.flushhost
    /\ run # 0 => \A i \in 1..Len(hostq) : hostq[i] = run
    /\ HearsOwn

LEMMA HostQueueBegins ==
    ASSUME TypeOK, HostQueueOwn, NEW id, NEW status, Begun(Flags, id, status)
    PROVE  (\A i \in 1..Len(hostq') : hostq'[i] = run') /\ heard' = heard
<1>1. Flags.flushhost
  BY DEF HostQueueOwn, Flags
<1>2. hostq' = <<>> /\ heard' = heard
  BY <1>1 DEF Begun
<1>3. Len(hostq') = 0
  BY <1>2, EmptySeq
<1> QED BY <1>2, <1>3

LEMMA HostQueueStep ==
    ASSUME NewProtos \subseteq {TRUE}, \A o \in CallOpts : o.flushhost,
           TypeOK, CamInv, HostQueueOwn, [Next]_vars
    PROVE  HostQueueOwn'
<1>1. call'.new /\ call'.opts.flushhost
  <2>1. CASE UNCHANGED call
    BY <2>1 DEF HostQueueOwn
  <2>2. ASSUME NEW s \in Scripts, NEW o \in CallOpts, Exec(s, o)
        PROVE  call'.new /\ call'.opts.flushhost
    <3>1. call'.new = call.new /\ call'.opts = o
      BY <2>2 DEF Exec, TypeOK
    <3>2. o.flushhost /\ call.new
      BY DEF HostQueueOwn
    <3> QED BY <3>1, <3>2
  <2>3. ASSUME NEW type \in {"user", "return"}, WaitMsg(type)
        PROVE  call'.new /\ call'.opts.flushhost
    <3>1. call'.new = call.new /\ call'.opts = call.opts
      BY <2>3 DEF WaitMsg, TypeOK
    <3>2. call.opts.flushhost /\ call.new
      BY DEF HostQueueOwn
    <3> QED BY <3>1, <3>2
  <2> QED
    BY <2>1, <2>2, <2>3 DEF Next, Calls, Host, Camera, vars, hostVars,
       Check, Flush, Start, ErrMsg, Poll, Read, MsgPoll, MsgRead, WriteMsg, FlushMsgs
<1>2. CASE UNCHANGED <<run, hostq, heard>>
  BY <1>1, <1>2 DEF HostQueueOwn, HearsOwn
<1>3. CASE Quiet
  BY <1>2, <1>3 DEF Quiet, CamRead, camera
<1>4. CASE CamWrite(sid)
  <2>1. hostq \in Seq(Nat) /\ Len(hostq) \in Nat
    BY LenProperties DEF TypeOK
  <2>2. UNCHANGED <<run, heard>>
    BY <1>4, CamWriteEffect
  <2>3. ASSUME run # 0, NEW i \in 1..Len(hostq') PROVE hostq'[i] = run
    <3>1. \A j \in 1..Len(hostq) : hostq[j] = run
      BY <2>3 DEF HostQueueOwn
    <3>2. CASE hostq' = hostq
      BY <3>1, <3>2
    <3>3. CASE /\ run # 0 /\ Len(hostq') = Len(hostq) + 1
               /\ \A j \in 1..Len(hostq) : hostq'[j] = hostq[j]
               /\ hostq'[Len(hostq) + 1] = run
      <4>1. i \in 1..Len(hostq) \/ i = Len(hostq) + 1
        BY <2>1, <3>3
      <4> QED BY <3>1, <3>3, <4>1
    <3> QED BY <1>4, <3>2, <3>3, CamWriteEffect
  <2> QED BY <1>1, <2>2, <2>3 DEF HostQueueOwn, HearsOwn
<1>5. CASE Start
  <2>1. UNCHANGED camera \/ \E id, status : Begun(Flags, id, status)
    BY <1>5, StartEffect DEF StartBegun, StartLost
  <2>2. CASE UNCHANGED camera
    BY <1>2, <2>2 DEF camera
  <2>3. CASE \E id, status : Begun(Flags, id, status)
    <3>1. (\A i \in 1..Len(hostq') : hostq'[i] = run') /\ heard' = heard
      BY <2>3, HostQueueBegins
    <3> QED BY <1>1, <3>1 DEF HostQueueOwn, HearsOwn
  <2> QED BY <2>1, <2>2, <2>3
<1>6. CASE CamScript
  <2>1. CASE CamPosted
    BY <1>2, <2>1 DEF CamPosted
  <2>2. CASE CamEnd
    BY <1>1, <2>2 DEF CamEnd, HostQueueOwn, HearsOwn
  <2>3. CASE CamWentOn
    <3>1. CASE UNCHANGED <<hostq, heard>>
      BY <1>2, <2>3, <3>1 DEF CamWentOn
    <3>2. CASE /\ hostq # <<>>
               /\ heard' = heard \cup {<<run, Head(hostq)>>}
               /\ hostq' = Tail(hostq)
      <4>1. run # 0 /\ run' = run
        BY <2>3 DEF CamWentOn
      <4>2. hostq \in Seq(Nat) /\ Len(hostq) \in Nat \ {0} /\ Head(hostq) = hostq[1]
        BY <3>2, EmptySeq DEF TypeOK
      <4>3. /\ Len(hostq') = Len(hostq) - 1
            /\ \A i \in 1..Len(hostq') : hostq'[i] = hostq[i + 1]
        BY <3>2, <4>2, HeadTailProperties
      <4>4. \A i \in 1..Len(hostq) : hostq[i] = run
        BY <4>1 DEF HostQueueOwn
      <4>5. Head(hostq) = run
        BY <4>2, <4>4
      <4>6. \A i \in 1..Len(hostq') : hostq'[i] = run'
        <5>1. \A i \in 1..Len(hostq') : i + 1 \in 1..Len(hostq)
          BY <4>2, <4>3
        <5> QED BY <4>1, <4>3, <4>4, <5>1
      <4>7. HearsOwn'
        <5>1. \A h \in heard' : h \in heard \/ h = <<run, run>>
          BY <3>2, <4>5
        <5> QED BY <5>1 DEF HostQueueOwn, HearsOwn
      <4> QED BY <1>1, <4>6, <4>7 DEF HostQueueOwn
    <3> QED BY <2>3, <3>1, <3>2 DEF CamWentOn
  <2> QED BY <1>6, <2>1, <2>2, <2>3, CamScriptEffect
<1> QED BY <1>3, <1>4, <1>5, <1>6, CamCalls

\* With flush_host_msgs, which is the default of exec, and a camera whose
\* ExecuteScript takes flags, a script never reads a message that was written
\* for an earlier one.
THEOREM MessagesHeard ==
    ASSUME NewProtos \subseteq {TRUE}, \A o \in CallOpts : o.flushhost
    PROVE  Spec => []HearsOwn
<1>1. Init => HostQueueOwn
  <2> SUFFICES ASSUME Init PROVE HostQueueOwn
    OBVIOUS
  <2>1. PICK v \in NewProtos : call = [NoCall EXCEPT !.new = v]
    BY DEF Init
  <2>2. call = [new |-> v, script |-> NoScript, type |-> "user", opts |-> NoCall.opts]
    BY <2>1 DEF NoCall
  <2>3. call.new /\ call.opts.flushhost
    BY <2>2 DEF NoCall
  <2> QED BY <2>3 DEF Init, CamInit, HostQueueOwn, HearsOwn
<1>2. ExecInv /\ HostQueueOwn /\ [Next]_vars => HostQueueOwn'
  BY HostQueueStep DEF ExecInv
<1>3. HostQueueOwn => HearsOwn
  BY DEF HostQueueOwn
<1> QED BY <1>1, <1>2, <1>3, ExecInvHolds, PTL DEF Spec

-----------------------------------------------------------------------------
(***************************************************************************)
(* exec implements a remote call.                                          *)
(***************************************************************************)
\* A step that the caller of exec cannot see.
LEMMA RemoteStutters ==
    ASSUME pc' \in ExecPcs <=> pc \in ExecPcs,
           call'.opts.clobber = call.opts.clobber,
           pc' \in {"errmsg", "poll", "read"} <=> pc \in {"errmsg", "poll", "read"},
           run' # 0 <=> run # 0, posted' = posted,
           \/ outcome' # "returned" /\ outcome # "returned"
           \/ outcome' = outcome /\ delivered' = delivered
    PROVE  UNCHANGED Remote!vars
<1>1. (pc' \in ExecPcs) = (pc \in ExecPcs)
  OBVIOUS
<1>2. (pc' \in {"errmsg", "poll", "read"}) = (pc \in {"errmsg", "poll", "read"})
  OBVIOUS
<1>3. (run' # 0) = (run # 0)
  OBVIOUS
<1>4. (IF outcome' = "returned" THEN [ok |-> TRUE, out |-> delivered']
                                ELSE [ok |-> FALSE, out |-> <<>>])
      = (IF outcome = "returned" THEN [ok |-> TRUE, out |-> delivered]
                                 ELSE [ok |-> FALSE, out |-> <<>>])
  OBVIOUS
<1> QED BY <1>1, <1>2, <1>3, <1>4 DEF Remote!vars

\* The call fails or does not wait.
LEMMA RemoteGivesUp ==
    ASSUME pc \in ExecPcs, pc' = "idle", outcome' # "returned", UNCHANGED call,
           UNCHANGED <<run, posted>>
    PROVE  Remote!GiveUp
<1>1. /\ pc' \notin ExecPcs /\ pc' \notin {"errmsg", "poll", "read"}
      /\ call'.opts.clobber = call.opts.clobber
  BY DEF ExecPcs
<1> QED BY <1>1 DEF Remote!GiveUp, Remote!Nothing

\* A script that exec begins was allowed to end the one before it.
LEMMA RemoteBegins ==
    ASSUME ExecInv, pc = "start", NEW id, NEW status, Begun(Flags, id, status)
    PROVE  Remote!BeginScript
<1>1. pc \notin {"errmsg", "poll", "read"}
  OBVIOUS
<1>2. run # 0 => call.opts.clobber
  <2>1. CASE ~call.new /\ ~call.opts.clobber
    BY <2>1 DEF ExecInv, ExecBusy
  <2>2. CASE call.new /\ ~call.opts.clobber
    <3>1. Flags.nokill
      BY <2>2 DEF Flags
    <3> QED BY <3>1 DEF Begun
  <2> QED BY <2>1, <2>2
<1>3. started \in Nat
  BY SeqFacts DEF ExecInv
<1>4. run' # 0 => posted' = <<>>
  BY DEF Begun
<1>5. Len(posted') <= 1
  BY DEF Begun
<1> QED BY <1>1, <1>2, <1>4, <1>5 DEF Remote!BeginScript

LEMMA RemoteStep ==
    ASSUME ExecInv, [Next]_vars
    PROVE  [Remote!Next]_Remote!vars
<1>1. /\ TypeOK /\ CamInv /\ ExecBusy /\ NothingLost /\ ReturnsComplete
      /\ pc \in ExecPcs => outcome = "busy"
      /\ call.opts.clobber \in BOOLEAN
  BY DEF ExecInv, ExecBusy, TypeOK, Opts
<1>2. CASE \E s \in Scripts, o \in CallOpts : Exec(s, o)
  <2>1. PICK s \in Scripts, o \in CallOpts : Exec(s, o)
    BY <1>2
  <2>2. /\ pc = "idle" /\ pc' \in {"check", "start"} /\ outcome' = "busy"
        /\ UNCHANGED <<run, posted>>
    BY <2>1 DEF Exec, scriptVars, camera
  <2>3. call'.opts.clobber \in BOOLEAN
    <3>1. call'.opts = o /\ o \in Opts
      BY <1>1, <2>1, CallOptsAssumption DEF Exec, TypeOK
    <3> QED BY <3>1 DEF Opts
  <2>4. Remote!Call
    BY <2>2, <2>3 DEF Remote!Call, Remote!Nothing, ExecPcs
  <2> QED BY <2>4 DEF Remote!Next
<1>3. CASE pc \notin ExecPcs /\ Next /\ ~Camera
  <2>1. CASE /\ pc' \notin ExecPcs
             /\ UNCHANGED <<run, started, posted, snap, delivered, outcome, sid>>
             /\ UNCHANGED call.opts
    BY <1>3, <2>1, RemoteStutters DEF ExecPcs
  <2> QED BY <1>1, <1>2, <1>3, <2>1, OtherCalls
<1>4. CASE Check
  <2>1. UNCHANGED <<run, posted>> /\ UNCHANGED <<call, delivered>> /\ pc = "check"
    BY <1>4 DEF Check, StatusLost, scriptVars, camera
  <2>2. CASE pc' \in {"flush", "start"} /\ UNCHANGED outcome
    BY <2>1, <2>2, RemoteStutters DEF ExecPcs
  <2>3. CASE pc' = "idle" /\ outcome' # "returned"
    <3>1. Remote!GiveUp
      BY <2>1, <2>3, RemoteGivesUp DEF ExecPcs
    <3> QED BY <3>1 DEF Remote!Next
  <2> QED BY <1>4, <2>2, <2>3 DEF Check, End
<1>5. CASE Flush
  <2>1. UNCHANGED <<run, posted>>
    BY <1>5, QuietRun DEF Flush, ReadLost
  <2>2. UNCHANGED <<call, delivered>> /\ pc = "flush"
    BY <1>5 DEF Flush
  <2>3. CASE pc' \in {"flush", "start"} /\ UNCHANGED outcome
    BY <2>1, <2>2, <2>3, RemoteStutters DEF ExecPcs
  <2>4. CASE pc' = "idle" /\ outcome' # "returned"
    <3>1. Remote!GiveUp
      BY <2>1, <2>2, <2>4, RemoteGivesUp DEF ExecPcs
    <3> QED BY <3>1 DEF Remote!Next
  <2> QED BY <1>5, <2>3, <2>4 DEF Flush, End
<1>6. CASE Start
  <2>1. /\ pc = "start" /\ UNCHANGED <<call, delivered>> /\ outcome = "busy"
        /\ call'.opts.clobber = call.opts.clobber
    BY <1>1, <1>6 DEF Start, ExecPcs
  <2>2. CASE UNCHANGED camera
    <3>1. pc' = "idle" /\ outcome' # "returned" /\ UNCHANGED <<run, posted>>
      <4>1. ~StartBegun("none") /\ ~StartBegun("compile")
        BY <1>1, <2>2, SeqFacts DEF StartBegun, Begun, camera
      <4> QED BY <1>1, <1>6, <2>2, <4>1, StartEffect DEF StartLost, camera
    <3>2. Remote!GiveUp
      BY <2>1, <3>1, RemoteGivesUp DEF ExecPcs
    <3> QED BY <3>2 DEF Remote!Next
  <2>3. CASE \E id, status : Begun(Flags, id, status)
    <3>1. Remote!BeginScript
      BY <2>1, <2>3, RemoteBegins
    <3>2. CASE pc' \in {"poll", "errmsg"} /\ UNCHANGED outcome
      <4>1. Remote!Begin
        BY <2>1, <3>1, <3>2 DEF Remote!Begin, ExecPcs
      <4> QED BY <4>1 DEF Remote!Next
    <3>3. CASE pc' = "idle" /\ outcome' # "returned"
      <4>1. Remote!GiveUp
        BY <2>1, <3>1, <3>3 DEF Remote!GiveUp, Remote!Nothing, ExecPcs
      <4> QED BY <4>1 DEF Remote!Next
    <3> QED BY <1>1, <1>6, <3>2, <3>3, StartEffect DEF StartLost
  <2> QED BY <1>1, <1>6, <2>2, <2>3, StartEffect DEF StartBegun, StartLost
<1>7. CASE ErrMsg
  <2>1. UNCHANGED <<run, posted>>
    BY <1>7, QuietRun DEF ErrMsg, ReadLost
  <2>2. UNCHANGED <<call, delivered>> /\ pc = "errmsg"
    BY <1>7 DEF ErrMsg
  <2>3. CASE UNCHANGED <<pc, outcome>>
    BY <2>1, <2>2, <2>3, RemoteStutters
  <2>4. CASE pc' = "idle" /\ outcome' # "returned"
    <3>1. Remote!GiveUp
      BY <2>1, <2>2, <2>4, RemoteGivesUp DEF ExecPcs
    <3> QED BY <3>1 DEF Remote!Next
  <2> QED BY <1>7, <2>3, <2>4 DEF ErrMsg, End
<1>8. CASE Poll
  <2>1. UNCHANGED <<run, posted>> /\ UNCHANGED <<call, delivered>> /\ pc = "poll"
    BY <1>8 DEF Poll, StatusLost, scriptVars, camera
  <2>2. CASE pc' \in {"poll", "read"} /\ UNCHANGED outcome
    BY <2>1, <2>2, RemoteStutters DEF ExecPcs
  <2>3. CASE pc' = "idle" /\ outcome' # "returned"
    <3>1. Remote!GiveUp
      BY <2>1, <2>3, RemoteGivesUp DEF ExecPcs
    <3> QED BY <3>1 DEF Remote!Next
  <2>4. CASE pc' = "idle" /\ outcome' = "returned"
    <3>1. run' = 0 /\ delivered' = posted'
      BY <1>1, <2>4, ReturnsStep DEF ExecInv, ReturnsComplete
    <3>2. run = 0 /\ delivered' = posted /\ call'.opts.clobber = call.opts.clobber
      BY <2>1, <3>1
    <3>3. Remote!Return
      BY <2>1, <2>4, <3>1, <3>2 DEF Remote!Return, ExecPcs
    <3> QED BY <3>3 DEF Remote!Next
  <2> QED BY <1>8, <2>1, <2>2, <2>3, <2>4 DEF Poll, End
<1>9. CASE Read
  <2>1. UNCHANGED <<run, posted>>
    BY <1>9, QuietRun DEF Read, ReadLost
  <2>2. UNCHANGED call /\ pc = "read" /\ outcome = "busy" /\ snap.msg
    BY <1>1, <1>9 DEF Read, ExecPcs, ExecBusy
  <2>3. CASE pc' = "poll" /\ UNCHANGED outcome
    BY <2>1, <2>2, <2>3, RemoteStutters DEF ExecPcs
  <2>4. CASE pc' = "idle" /\ outcome' # "returned"
    <3>1. Remote!GiveUp
      BY <2>1, <2>2, <2>4, RemoteGivesUp DEF ExecPcs
    <3> QED BY <3>1 DEF Remote!Next
  <2> QED BY <1>9, <2>2, <2>3, <2>4 DEF Read, NextRound, Completed, End
<1>10. CASE Camera
  <2>1. CamScript /\ UNCHANGED <<pc, call, delivered, outcome>>
    BY <1>10 DEF Camera, hostVars
  <2>2. CASE CamPosted
    <3>1. PICK m \in Msg : posted' = Append(posted, m)
      BY <2>2 DEF CamPosted
    <3>2. run # 0 /\ run' = run
      BY <2>2 DEF CamPosted
    <3>3. posted \in Seq(Msg) /\ Len(posted) \in Nat
      BY <1>1, SeqFacts
    <3>4. Len(posted') = Len(posted) + 1
      BY <3>1, <3>3, AppendProperties
    <3>5. SubSeq(posted', 1, Len(posted)) = posted
      BY <3>1, <3>3, AppendBefore
    <3>6. Remote!Output
      BY <2>1, <3>2, <3>4, <3>5 DEF Remote!Output
    <3> QED BY <3>6 DEF Remote!Next
  <2>3. CASE CamWentOn
    BY <2>1, <2>3, RemoteStutters DEF CamWentOn
  <2>4. CASE CamEnd
    <3>1. run # 0 /\ run' = 0 /\ posted' = posted
      BY <2>4 DEF CamEnd
    <3>2. Remote!End
      BY <2>1, <3>1 DEF Remote!End
    <3> QED BY <3>2 DEF Remote!Next
  <2> QED BY <1>1, <2>1, <2>2, <2>3, <2>4, CamScriptEffect
<1>11. CASE UNCHANGED vars
  BY <1>11, RemoteStutters DEF vars, scriptVars, camera, hostVars
<1> QED
  BY <1>3, <1>4, <1>5, <1>6, <1>7, <1>8, <1>9, <1>10, <1>11, ExecSteps

\* exec with wait is a remote call: it begins its script at most once, ends no
\* running script unless it may clobber it, and returns only all the output of
\* a script that has ended.
THEOREM ExecIsRemoteCall == Spec => RefinesRemoteCall
<1>1. Init => Remote!Init
  <2> SUFFICES ASSUME Init PROVE Remote!Init
    OBVIOUS
  <2>1. TypeOK
    BY InitTypes
  <2>2. call.opts.clobber \in BOOLEAN
    BY <2>1 DEF TypeOK, Opts
  <2> QED BY <2>2 DEF Init, CamInit, Remote!Init, Remote!Nothing, ExecPcs
<1>2. ExecInv /\ [Next]_vars => [Remote!Next]_Remote!vars
  BY RemoteStep
<1> QED BY <1>1, <1>2, ExecInvHolds, PTL DEF Spec, RefinesRemoteCall, Remote!Spec
=============================================================================
