------------------------ MODULE RemoteShoot_proofs -------------------------
(***************************************************************************)
(* What RemoteShoot promises, proved for any scripts, formats, cameras,    *)
(* numbers of shots and chunks, and any failures: a shot the command has   *)
(* finished has stored everything asked for from its own exposure, nothing *)
(* but trouble makes the command fail, the script has ended before the     *)
(* cleanup, and a command that succeeds leaves the camera clean.           *)
(***************************************************************************)
EXTENDS RemoteShoot, SequenceTheorems, TLAPS

-----------------------------------------------------------------------------
(***************************************************************************)
(* Types                                                                   *)
(***************************************************************************)
\* The host is between rs_shoot and the end of the last shot.
InShot ==
    pc \in {"get", "status", "ready", "handle", "chunk", "msgs", "finish",
            "lastmsgs", "waitscript", "scriptmsgs", "shotdone"}

\* The host is in the loop of capture_get_data.
Fetching == pc \in {"status", "ready", "handle", "chunk", "msgs"}

Before == pc \in {"init", "start"}

\* The messages the camera may have posted.
Posts == [sid : Nat, type : Kinds, n : Nat]

CamTypes ==
    /\ run \in Nat
    /\ started \in Nat
    /\ faults \in Nat
    /\ msgq \in Seq(Posts)
    /\ posted \in Seq(Posts)

HostTypes ==
    /\ DOMAIN files = 1..Shots
    /\ InShot \/ Before => shot <= Shots
    /\ pc = "chunk" => rsdata # {} /\ First \in toget

TypeInv == TypeOK /\ CamTypes /\ HostTypes

\* The constants and the setup, as the proofs use them.
LEMMA Constants ==
    /\ Formats = {"jpg", "raw", "dng_hdr", "craw"}
    /\ Wanted \subseteq Formats /\ Wanted # {}
    /\ JpgMax \in Nat \ {0} /\ Shots \in Nat \ {0}
    /\ \A f \in Formats : MaxChunks(f) \in Nat \ {0} /\ CamChunks(f) \subseteq 1..JpgMax + 1
    /\ Formats \cap {"notset"} = {}
<1>1. 1..4 = {1, 2, 3, 4}
  OBVIOUS
<1>2. Formats = {DTypes[1], DTypes[2], DTypes[3], DTypes[4]}
  BY <1>1 DEF Formats
<1>3. Formats = {"jpg", "raw", "dng_hdr", "craw"}
  BY <1>2 DEF DTypes
<1>4. /\ Wanted \subseteq Formats /\ Wanted # {}
      /\ JpgMax \in Nat \ {0} /\ Shots \in Nat \ {0}
  BY RemoteShootAssumption
<1>5. \A f \in Formats : MaxChunks(f) \in Nat \ {0} /\ CamChunks(f) \subseteq 1..JpgMax + 1
  BY <1>4 DEF MaxChunks, CamChunks
<1> QED BY <1>3, <1>4, <1>5

\* The stages of the use, each with formats.
LEMMA StageTypes ==
    ASSUME setup \in Setups
    PROVE  /\ Dng \in BOOLEAN /\ (Dng => RawTypes \subseteq Wanted)
           /\ Len(Stages) \in Nat \ {0}
           /\ Stages \in Seq(SUBSET Formats)
           /\ \A f \in Formats : \E i \in 1..Len(Stages) : f \in Stages[i]
           /\ \A i, j \in 1..Len(Stages) :
                 /\ i # j => Stages[i] \cap Stages[j] = {}
                 /\ Dng /\ "dng_hdr" \in Stages[i] /\ "raw" \in Stages[j] => i < j
<1>1. /\ setup.dng \in BOOLEAN /\ (setup.dng => RawTypes \subseteq Wanted)
      /\ setup.stages \in Seq(SUBSET Formats) /\ setup.stages # <<>>
      /\ UNION {setup.stages[i] : i \in 1..Len(setup.stages)} = Formats
  BY RemoteShootAssumption
<1>2. \A f \in Formats : \E i \in 1..Len(setup.stages) : f \in setup.stages[i]
  BY <1>1
<1>3. Len(setup.stages) \in Nat \ {0}
  BY <1>1, EmptySeq, LenProperties
<1>4. \A i, j \in 1..Len(setup.stages) :
          /\ i # j => setup.stages[i] \cap setup.stages[j] = {}
          /\ setup.dng /\ "dng_hdr" \in setup.stages[i] /\ "raw" \in setup.stages[j] => i < j
  BY CameraAssumption
<1> QED BY <1>1, <1>2, <1>3, <1>4 DEF Dng, Stages

\* What a stage offers: the wanted formats of it, each with some chunks.
LEMMA ReadyEffect ==
    ASSUME NEW types, Ready(types)
    PROVE  /\ avail' \in [Formats -> 0..JpgMax + 1]
           /\ \A f \in Formats :
                 /\ avail'[f] > 0 <=> f \in types \cap rcset
                 /\ avail'[f] > 0 => avail'[f] \in CamChunks(f)
                 /\ ~trouble' => avail'[f] <= MaxChunks(f)
           /\ trouble \in BOOLEAN => trouble' \in BOOLEAN
           /\ trouble => trouble'
<1>1. PICK n \in [types \cap rcset -> 1..JpgMax + 1] :
        /\ \A f \in DOMAIN n : n[f] \in CamChunks(f)
        /\ avail' = [f \in Formats |-> IF f \in DOMAIN n THEN n[f] ELSE 0]
        /\ trouble' = (trouble \/ \E f \in DOMAIN n : n[f] > MaxChunks(f))
  BY DEF Ready
<1>2. /\ DOMAIN n = types \cap rcset
      /\ \A f \in DOMAIN n : n[f] \in 1..JpgMax + 1
      /\ JpgMax \in Nat
      /\ \A f \in Formats : MaxChunks(f) \in Nat \ {0}
  BY <1>1, Constants
<1>3. avail' \in [Formats -> 0..JpgMax + 1]
  BY <1>1, <1>2
<1>4. \A f \in Formats : avail'[f] = IF f \in DOMAIN n THEN n[f] ELSE 0
  BY <1>1
<1>5. \A f \in Formats : ~trouble' => avail'[f] <= MaxChunks(f)
  <2> SUFFICES ASSUME NEW f \in Formats, ~trouble' PROVE avail'[f] <= MaxChunks(f)
    OBVIOUS
  <2>1. CASE f \in DOMAIN n
    <3>1. ~(n[f] > MaxChunks(f))
      BY <1>1, <2>1
    <3> QED BY <1>2, <1>4, <2>1, <3>1
  <2> QED BY <1>2, <1>4, <2>1
<1>6. trouble \in BOOLEAN => trouble' \in BOOLEAN
  BY <1>1
<1>7. trouble => trouble'
  BY <1>1
<1> QED BY <1>1, <1>2, <1>3, <1>4, <1>5, <1>6, <1>7

-----------------------------------------------------------------------------
(***************************************************************************)
(* The calls and the script, as the capture sees them.                     *)
(***************************************************************************)
\* A queue of posts: its head is a post, and so no answer of an empty queue.
LEMMA QueueOfPosts ==
    \A q \in Seq(Posts) :
        /\ Len(q) \in Nat
        /\ q # <<>> => Head(q) \in Posts /\ Tail(q) \in Seq(Posts)
        /\ \A m \in Posts : Append(q, m) \in Seq(Posts)
<1> TAKE q \in Seq(Posts)
<1> QED BY HeadTailProperties, AppendProperties, LenProperties

\* An empty answer means an empty queue.
LEMMA EmptyReply ==
    ASSUME CamTypes, Reply = NoMsg
    PROVE  msgq = <<>>
<1> SUFFICES ASSUME msgq # <<>> PROVE FALSE
  OBVIOUS
<1>1. Head(msgq) \in Posts
  BY QueueOfPosts DEF CamTypes
<1>2. Head(msgq) = NoMsg
  BY DEF Reply
<1> QED BY <1>1, <1>2 DEF Posts, NoMsg, Kinds

\* A read takes messages away only.
LEMMA ReadEffect ==
    ASSUME CamTypes, CamRead \/ ReadLost
    PROVE  /\ UNCHANGED <<run, started, posted>>
           /\ msgq' \in Seq(Posts)
           /\ msgq = <<>> => msgq' = <<>>
<1>1. <<>> \in Seq(Posts)
  BY EmptySeq
<1> QED BY <1>1, QueueOfPosts DEF CamTypes, CamRead, ReadLost, camera

\* ExecuteScript leaves a queue of posts, and an id for the script.
LEMMA ExecEffect ==
    ASSUME CamTypes, NEW s, NEW flags, NEW id \in 0..MaxExec, NEW st,
           CamExec(s, flags, id, st)
    PROVE  run' \in Nat /\ started' \in Nat /\ msgq' \in Seq(Posts) /\ posted' \in Seq(Posts)
<1> DEFINE q == IF flags.flushcam THEN <<>> ELSE msgq
           e == [sid |-> id, type |-> "error", n |-> 1]
<1>1. CASE UNCHANGED camera
  BY <1>1 DEF CamTypes, camera
<1>2. CASE ~UNCHANGED camera
  <2>1. /\ id = started + 1 /\ started' = id
        /\ IF s.ok THEN run' = id /\ msgq' = q /\ posted' = <<>>
           ELSE /\ run' = 0
                /\ msgq' = IF Len(q) < QueueLen THEN Append(q, e) ELSE q
                /\ posted' = IF Len(q) < QueueLen THEN <<e>> ELSE <<>>
    BY <1>2 DEF CamExec
  <2>2. MaxExec \in Nat /\ id \in Nat
    BY BoundsAssumption
  <2>3. e \in Posts
    BY <2>2 DEF Posts, Kinds
  <2>4. <<>> \in Seq(Posts) /\ <<e>> \in Seq(Posts)
    BY <2>3, EmptySeq
  <2>5. q \in Seq(Posts) /\ Append(q, e) \in Seq(Posts)
    <3>1. q \in Seq(Posts)
      BY <2>4 DEF CamTypes
    <3> QED BY <2>3, <3>1, QueueOfPosts
  <2> HIDE DEF q, e
  <2>6. CASE s.ok
    BY <2>1, <2>2, <2>4, <2>5, <2>6
  <2>7. CASE ~s.ok
    <3>1. msgq' \in {Append(q, e), q} /\ posted' \in {<<e>>, <<>>} /\ run' = 0
      BY <2>1, <2>7, Zenon
    <3>2. started' \in Nat
      BY <2>1, <2>2
    <3> QED BY <2>4, <2>5, <3>1, <3>2
  <2> QED BY <2>6, <2>7
<1> QED BY <1>1, <1>2

\* What the script does by itself: it posts, gives up posting or ends.
LEMMA ScriptEffect ==
    ASSUME CamTypes, CamPost \/ CamPostGiveUp \/ CamEnd
    PROVE  /\ CamTypes'
           /\ run = 0 => run' = 0 /\ msgq' = msgq
           /\ UNCHANGED <<hostq, sid, faults>>
           /\ run' = run => Head(todo) \in Kinds /\ todo # <<>>
           /\ run' # run => run' = 0 /\ todo = <<>> /\ todo' = todo
           /\ run # 0
<1>1. CASE CamPost
  <2>1. Message(Head(todo)) \in Posts
    BY <1>1, LenProperties DEF CamPost, Message, Posts, CamTypes
  <2> QED BY <1>1, <2>1, QueueOfPosts DEF CamPost, CamTypes
<1>2. CASE CamPostGiveUp
  BY <1>2 DEF CamPostGiveUp, CamTypes
<1>3. CASE CamEnd
  BY <1>3 DEF CamEnd, CamTypes
<1> QED BY <1>1, <1>2, <1>3

\* The script calls of the host, after the start of the script: they leave
\* the script alone.
LEMMA CallEffect ==
    ASSUME CamTypes,
           \/ UNCHANGED scriptVars
           \/ CamRead /\ UNCHANGED <<sid, faults>>
           \/ CamWrite(sid) /\ UNCHANGED <<sid, faults>>
           \/ ReadLost \/ StatusLost \/ WriteLost(sid)
    PROVE  /\ CamTypes'
           /\ UNCHANGED <<run, todo, started, posted, sid>>
           /\ msgq = <<>> => msgq' = <<>>
           /\ faults' = faults \/ faults' > 0
<1>1. CASE UNCHANGED scriptVars
  BY <1>1 DEF CamTypes, scriptVars, camera
<1>2. CASE CamRead /\ UNCHANGED <<sid, faults>>
  BY <1>2, ReadEffect DEF CamTypes, CamRead
<1>3. CASE CamWrite(sid) /\ UNCHANGED <<sid, faults>>
  BY <1>3 DEF CamTypes, CamWrite
<1>4. CASE StatusLost
  BY <1>4 DEF CamTypes, StatusLost, Faulty, camera
<1>5. CASE ReadLost
  BY <1>5, ReadEffect DEF CamTypes, ReadLost, CamRead, Faulty, camera
<1>6. CASE WriteLost(sid)
  BY <1>6 DEF CamTypes, WriteLost, CamWrite, Faulty, camera
<1> QED BY <1>1, <1>2, <1>3, <1>4, <1>5, <1>6

\* They take messages away one by one, or all.
LEMMA CallQueue ==
    ASSUME CamTypes,
           \/ UNCHANGED scriptVars
           \/ CamRead /\ UNCHANGED <<sid, faults>>
           \/ CamWrite(sid) /\ UNCHANGED <<sid, faults>>
           \/ ReadLost \/ StatusLost \/ WriteLost(sid)
    PROVE  msgq' = msgq \/ msgq' = <<>> \/ (msgq # <<>> /\ msgq' = Tail(msgq))
  BY DEF scriptVars, camera, CamRead, CamWrite, ReadLost, StatusLost, WriteLost, Faulty

\* The steps of the host between the start of the script and the cleanup.
Middle ==
    \/ GetData \/ GetStatus \/ GetReady \/ Handle \/ Chunk \/ Msgs
    \/ Finish \/ LastMsgs \/ AwaitScript \/ ScriptMsgs \/ ShotDone
    \/ Recover \/ Stop \/ WaitEnd \/ Drain

\* A message of a script that returns a value waits in the queue.
ReturnWaits == \E i \in 1..Len(msgq) : msgq[i].type = "return"

\* The answers of a read by their types.
LEMMA ReplyTypes ==
    ASSUME CamTypes
    PROVE  /\ Reply.type \in {"none", "user", "return", "error"}
           /\ Reply.type = "none" => msgq = <<>>
           /\ Reply.type = "return" => ReturnWaits
<1>1. CASE msgq = <<>>
  <2>1. Reply.type = "none"
    BY <1>1 DEF Reply, NoMsg
  <2> QED BY <1>1, <2>1
<1>2. CASE msgq # <<>>
  <2>1. Reply = Head(msgq) /\ Reply \in Posts
    BY <1>2, QueueOfPosts DEF Reply, CamTypes
  <2>2. Reply.type \in Kinds
    BY <2>1 DEF Posts
  <2>3. 1 \in 1..Len(msgq) /\ Head(msgq) = msgq[1]
    <3>1. Len(msgq) \in Nat /\ Len(msgq) # 0
      BY <1>2, LenProperties, EmptySeq DEF CamTypes
    <3> QED BY <3>1
  <2> QED BY <2>1, <2>2, <2>3 DEF Kinds, ReturnWaits
<1> QED BY <1>1, <1>2

\* Where a read of all messages goes on, and what it leaves alone: it throws
\* in trouble, or on what a script has returned.
LEMMA MsgsEffect ==
    ASSUME CamTypes, NEW at, NEW where, ReadMsgs(at, where)
    PROVE  /\ pc = at
           /\ \/ /\ pc' = where /\ msgq = <<>> /\ msgq' = <<>>
                 /\ UNCHANGED <<status, trouble>>
              \/ pc' = at /\ UNCHANGED <<status, trouble>>
              \/ /\ pc' = "recover" /\ status' = "failed"
                 /\ trouble' = TRUE \/ (UNCHANGED trouble /\ ReturnWaits)
           /\ \/ CamRead /\ UNCHANGED <<sid, faults>>
              \/ ReadLost
           /\ UNCHANGED <<capture, setup, shot, snap, getvars>>
<1>1. CASE Fails(ReadLost)
  BY <1>1 DEF ReadMsgs, Fails, ThrowsInTrouble, Throws
<1>2. CASE ~Fails(ReadLost)
  <2>1. /\ pc = at /\ CamRead /\ UNCHANGED <<sid, faults>>
        /\ UNCHANGED <<capture, setup, shot, snap, getvars>>
        /\ CASE Reply.type = "none"   -> Goto(where)
             [] Reply.type = "error"  -> ThrowsInTrouble
             [] Reply.type = "return" -> Throws /\ UNCHANGED trouble
             [] Reply.type = "user"   -> Goto(at)
    BY <1>2 DEF ReadMsgs
  <2>2. CASE Reply.type = "none"
    <3>1. Goto(where) /\ msgq = <<>>
      BY <2>1, <2>2, ReplyTypes
    <3>2. msgq' = <<>>
      BY <2>1, <3>1, ReadEffect
    <3> QED BY <2>1, <3>1, <3>2 DEF Goto
  <2>3. CASE Reply.type = "error"
    BY <2>1, <2>3 DEF ThrowsInTrouble, Throws
  <2>4. CASE Reply.type = "return"
    BY <2>1, <2>4, ReplyTypes DEF Throws
  <2>5. CASE Reply.type = "user"
    BY <2>1, <2>5 DEF Goto
  <2> QED BY <2>2, <2>3, <2>4, <2>5, ReplyTypes
<1> QED BY <1>1, <1>2

\* The look for the error of a script that does not compile.
LEMMA ErrorMsgEffect ==
    ASSUME CamTypes, ErrorMsg
    PROVE  /\ pc = "errmsg" /\ pc' \in {"errmsg", "done"}
           /\ CamTypes'
           /\ UNCHANGED <<run, todo, started, posted, sid>>
           /\ faults' = faults \/ faults' > 0
           /\ UNCHANGED <<capture, setup, shot, snap, getvars, status, trouble>>
<1>1. \/ CamRead /\ UNCHANGED <<sid, faults>>
      \/ ReadLost
  BY DEF ErrorMsg
<1>2. /\ CamTypes'
      /\ UNCHANGED <<run, todo, started, posted, sid>>
      /\ faults' = faults \/ faults' > 0
  BY <1>1, CallEffect
<1>3. /\ pc = "errmsg" /\ pc' \in {"errmsg", "done"}
      /\ UNCHANGED <<capture, setup, shot, snap, getvars, status, trouble>>
  BY DEF ErrorMsg, Goto
<1> QED BY <1>2, <1>3

\* Each makes at most one of the calls that leave the script alone.
LEMMA MiddleCalls ==
    ASSUME CamTypes, Middle
    PROVE  \/ UNCHANGED scriptVars
           \/ CamRead /\ UNCHANGED <<sid, faults>>
           \/ CamWrite(sid) /\ UNCHANGED <<sid, faults>>
           \/ ReadLost \/ StatusLost \/ WriteLost(sid)
<1>1. CASE GetData
  BY <1>1 DEF GetData
<1>2. CASE GetStatus
  BY <1>2 DEF GetStatus, Fails
<1>3. CASE GetReady
  BY <1>3 DEF GetReady, Fails
<1>4. CASE Handle
  BY <1>4 DEF Handle
<1>5. CASE Chunk
  BY <1>5 DEF Chunk, Fails
<1>6. CASE Msgs \/ LastMsgs \/ ScriptMsgs
  BY <1>6, MsgsEffect DEF Msgs, LastMsgs, ScriptMsgs
<1>7. CASE Finish \/ ShotDone
  BY <1>7 DEF Finish, ShotDone
<1>8. CASE AwaitScript
  BY <1>8 DEF AwaitScript, Fails
<1>9. CASE Recover \/ WaitEnd
  BY <1>9 DEF Recover, WaitEnd, Skip
<1>10. CASE Stop
  BY <1>10 DEF Stop, Skip
<1>11. CASE Drain
  BY <1>11 DEF Drain, Skip
<1> QED BY <1>1, <1>2, <1>3, <1>4, <1>5, <1>6, <1>7, <1>8, <1>9, <1>10, <1>11 DEF Middle

\* The script goes on as it was, and the queue is not filled.
LEMMA MiddleEffect ==
    ASSUME CamTypes, Middle
    PROVE  /\ CamTypes'
           /\ UNCHANGED <<run, todo, started, posted, sid>>
           /\ msgq = <<>> => msgq' = <<>>
           /\ faults' = faults \/ faults' > 0
           /\ UNCHANGED <<rcset, phase, image, setup>>
<1>2. UNCHANGED <<rcset, phase, image, setup>>
  <2>1. CASE Chunk
    BY <2>1 DEF Chunk
  <2>2. CASE Msgs \/ LastMsgs \/ ScriptMsgs
    BY <2>2, MsgsEffect DEF Msgs, LastMsgs, ScriptMsgs, capture
  <2>3. CASE GetData \/ GetStatus \/ GetReady \/ Handle \/ Finish \/ AwaitScript \/ ShotDone
    BY <2>3 DEF GetData, GetStatus, GetReady, Handle, Finish, AwaitScript, ShotDone, capture
  <2>4. CASE Recover \/ Stop \/ WaitEnd \/ Drain
    BY <2>4 DEF Recover, Stop, WaitEnd, Drain, capture
  <2> QED BY <2>1, <2>2, <2>3, <2>4 DEF Middle
<1> QED BY <1>2, MiddleCalls, CallEffect

\* What a step of the host does to the queue.
LEMMA QueueEffect ==
    ASSUME CamTypes, Middle \/ ErrorMsg
    PROVE  msgq' = msgq \/ msgq' = <<>> \/ (msgq # <<>> /\ msgq' = Tail(msgq))
<1>1. CASE Middle
  BY <1>1, MiddleCalls, CallQueue
<1>2. CASE ErrorMsg
  <2>1. ReadLost \/ (CamRead /\ UNCHANGED <<sid, faults>>)
    BY <1>2 DEF ErrorMsg
  <2> QED BY <2>1, CallQueue
<1> QED BY <1>1, <1>2

-----------------------------------------------------------------------------
(***************************************************************************)
(* Fetching a chunk                                                        *)
(***************************************************************************)
\* The next format is one of those ready.
LEMMA FirstIsReady ==
    ASSUME rsdata \subseteq Formats, rsdata # {}
    PROVE  First \in rsdata
<1> DEFINE Least(f) ==
        \A g \in rsdata : \A i, j \in 1..4 : DTypes[i] = f /\ DTypes[j] = g => i <= j
<1>1. /\ 1..4 = {1, 2, 3, 4}
      /\ DTypes[1] = "jpg" /\ DTypes[2] = "raw" /\ DTypes[3] = "dng_hdr" /\ DTypes[4] = "craw"
  BY DEF DTypes
<1>2. rsdata \subseteq {"jpg", "raw", "dng_hdr", "craw"}
  BY Constants
<1>3. \E f \in rsdata : Least(f)
  <2>1. CASE "jpg" \in rsdata
    <3>1. Least("jpg")
      BY <1>1
    <3> QED BY <2>1, <3>1
  <2>2. CASE "jpg" \notin rsdata /\ "raw" \in rsdata
    <3>1. Least("raw")
      BY <1>1, <1>2, <2>2
    <3> QED BY <2>2, <3>1
  <2>3. CASE "jpg" \notin rsdata /\ "raw" \notin rsdata /\ "dng_hdr" \in rsdata
    <3>1. Least("dng_hdr")
      BY <1>1, <1>2, <2>3
    <3> QED BY <2>3, <3>1
  <2>4. CASE "jpg" \notin rsdata /\ "raw" \notin rsdata /\ "dng_hdr" \notin rsdata
    <3>1. rsdata = {"craw"}
      BY <1>2, <2>4
    <3>2. Least("craw")
      BY <1>1, <3>1
    <3> QED BY <3>1, <3>2
  <2> QED BY <2>1, <2>2, <2>3, <2>4
<1>4. First = CHOOSE f \in rsdata : Least(f)
  BY DEF First
<1> QED BY <1>3, <1>4, Zenon

\* It stays the next one while the formats ready are the same.
LEMMA FirstKept == rsdata' = rsdata => First' = First
<1> SUFFICES ASSUME rsdata' = rsdata PROVE First' = First
  OBVIOUS
<1> DEFINE Next1(S) == CHOOSE f \in S : \A g \in S :
              \A i, j \in 1..4 : DTypes[i] = f /\ DTypes[j] = g => i <= j
<1>1. First = Next1(rsdata) /\ First' = Next1(rsdata')
  BY DEF First
<1> HIDE DEF Next1
<1> QED BY <1>1

\* The chunk that is fetched, and those of the format with it.
New == Append(chunks, [image |-> image, left |-> avail[First] - 1])

\* A step of the fetch ends a format, or gets one chunk of it, or throws.
Ended ==
    /\ ~NoHeader /\ avail[First] = 1 /\ ~TooMany(Len(New), First)
    /\ avail' = [avail EXCEPT ![First] = @ - 1]
    /\ files' = [files EXCEPT ![shot] =
                    [g \in {First} \cup DOMAIN @ |->
                        IF g = First THEN Header \o New ELSE @[g]]]
    /\ header' = IF Dng /\ First = "dng_hdr" THEN image ELSE header
    /\ toget' = toget \ {First}
    /\ rsdata' = rsdata \ {First}
    /\ chunks' = New
    /\ pc' = "handle"
    /\ UNCHANGED <<status, trouble>>

Continued ==
    /\ ~NoHeader /\ avail[First] > 1 /\ ~TooMany(Len(New), First)
    /\ avail' = [avail EXCEPT ![First] = @ - 1]
    /\ chunks' = New
    /\ UNCHANGED <<pc, toget, rsdata, header, files, status, trouble>>

Thrown ==
    /\ pc' = "recover" /\ status' = "failed"
    /\ \/ UNCHANGED avail
       \/ avail[First] > 0 /\ avail' = [avail EXCEPT ![First] = @ - 1]
    /\ \/ UNCHANGED chunks
       \/ avail[First] > 0 /\ chunks' = New
    /\ UNCHANGED <<toget, rsdata, header, files>>
    /\ \/ trouble' = TRUE
       \/ /\ UNCHANGED trouble
          /\ \/ NoHeader
             \/ avail[First] = 0
             \/ avail[First] > 0 /\ TooMany(Len(New), First)

\* These are all the ways a step of the fetch can go.
LEMMA ChunkEffect ==
    ASSUME TypeInv, Chunk
    PROVE  /\ pc = "chunk" /\ First \in toget /\ First \in Wanted /\ First \in Formats
           /\ avail[First] \in Nat
           /\ UNCHANGED <<phase, image, rcset, setup, shot, snap>>
           /\ Ended \/ Continued \/ Thrown
<1>1. /\ pc = "chunk" /\ First \in toget /\ First \in Wanted /\ First \in Formats
      /\ avail[First] \in Nat
      /\ UNCHANGED <<phase, image, rcset, setup, shot, snap>>
  <2>1. pc = "chunk" /\ UNCHANGED <<phase, image, rcset, setup, shot, snap>>
    BY DEF Chunk
  <2>2. First \in toget /\ toget \subseteq Wanted
    BY <2>1 DEF TypeInv, HostTypes, TypeOK
  <2>3. First \in Wanted /\ First \in Formats
    BY <2>2, Constants
  <2>4. avail \in [Formats -> 0..JpgMax + 1]
    BY DEF TypeInv, TypeOK
  <2>5. avail[First] \in Nat
    BY <2>3, <2>4, Constants
  <2> QED BY <2>1, <2>2, <2>3, <2>5
<1> SUFFICES Ended \/ Continued \/ Thrown
  BY <1>1
<1>2. CASE /\ ~NoHeader /\ avail[First] > 0
           /\ avail' = [avail EXCEPT ![First] = @ - 1]
           /\ chunks' = New
           /\ GotChunk(First, New)
  <2>1. CASE Last(First) /\ ~TooMany(Len(New), First) /\ Store(First, Header \o New)
    BY <1>2, <2>1, Zenon DEF Last, Store, Goto, Ended
  <2>2. CASE /\ ~Last(First) /\ ~TooMany(Len(New), First)
             /\ UNCHANGED <<pc, toget, rsdata, header, files, status, trouble>>
    <3>1. avail[First] > 1
      BY <1>1, <1>2, <2>2 DEF Last
    <3> QED BY <1>2, <2>2, <3>1 DEF Continued
  <2>3. CASE /\ TooMany(Len(New), First) /\ Throws
             /\ UNCHANGED <<toget, rsdata, header, files, trouble>>
    BY <1>2, <2>3 DEF Throws, Thrown
  <2> QED BY <1>2, <2>1, <2>2, <2>3 DEF GotChunk
<1>3. CASE (NoHeader \/ avail[First] = 0) /\ Throws /\ UNCHANGED <<avail, getvars, trouble>>
  BY <1>3 DEF Throws, Thrown, getvars
<1>4. CASE /\ ThrowsInTrouble /\ UNCHANGED getvars
           /\ UNCHANGED avail \/ (avail[First] > 0 /\ avail' = [avail EXCEPT ![First] = @ - 1])
  <2>1. pc' = "recover" /\ status' = "failed" /\ trouble' = TRUE
    BY <1>4 DEF ThrowsInTrouble, Throws
  <2>2. UNCHANGED <<toget, rsdata, header, files, chunks>>
    BY <1>4 DEF getvars
  <2> QED BY <1>4, <2>1, <2>2, Zenon DEF Thrown
<1> QED BY <1>2, <1>3, <1>4 DEF Chunk, Fails, New

-----------------------------------------------------------------------------
(***************************************************************************)
(* Types: one step per action.                                             *)
(***************************************************************************)
\* A format that is stored leaves the other shots and formats as they were.
LEMMA StoredFiles ==
    ASSUME TypeInv, shot <= Shots, Ended
    PROVE  /\ DOMAIN files' = 1..Shots
           /\ \A i \in 1..Shots : i # shot => files'[i] = files[i]
           /\ DOMAIN files'[shot] = {First} \cup DOMAIN files[shot]
           /\ files'[shot][First] = Header \o New
           /\ \A g \in DOMAIN files[shot] : g # First => files'[shot][g] = files[shot][g]
           /\ shot \in 1..Shots
<1>1. shot \in 1..Shots /\ DOMAIN files = 1..Shots
  BY Constants DEF TypeInv, TypeOK, HostTypes
<1> DEFINE new == [g \in {First} \cup DOMAIN files[shot] |->
                      IF g = First THEN Header \o New ELSE files[shot][g]]
<1>2. files' = [files EXCEPT ![shot] = new]
  BY Zenon DEF Ended
<1>3. DOMAIN files' = 1..Shots /\ files'[shot] = new
  BY <1>1, <1>2
<1>4. \A i \in 1..Shots : i # shot => files'[i] = files[i]
  BY <1>1, <1>2
<1>5. /\ DOMAIN new = {First} \cup DOMAIN files[shot]
      /\ new[First] = Header \o New
      /\ \A g \in DOMAIN files[shot] : g # First => new[g] = files[shot][g]
  OBVIOUS
<1> QED BY <1>1, <1>3, <1>4, <1>5

\* The chunks are one more, and the header of a DNG is at most one.
LEMMA NewChunks ==
    ASSUME TypeInv, avail[First] \in Nat, avail[First] > 0
    PROVE  /\ New \in Seq(Chunks) /\ Len(New) = Len(chunks) + 1
           /\ Len(chunks) \in Nat
           /\ \A j \in 1..Len(chunks) : New[j] = chunks[j]
           /\ New[Len(chunks) + 1] = [image |-> image, left |-> avail[First] - 1]
           /\ Header \in Seq(Chunks)
           /\ Len(Header) = IF Dng /\ First = "raw" THEN 1 ELSE 0
           /\ Header \o New \in Seq(Chunks)
           /\ Len(Header \o New) = Len(Header) + Len(New)
<1>1. [image |-> image, left |-> avail[First] - 1] \in Chunks
  BY DEF TypeInv, TypeOK, Chunks
<1>2. chunks \in Seq(Chunks)
  BY DEF TypeInv, TypeOK
<1>3. /\ New \in Seq(Chunks) /\ Len(New) = Len(chunks) + 1
      /\ Len(chunks) \in Nat
      /\ \A j \in 1..Len(chunks) : New[j] = chunks[j]
      /\ New[Len(chunks) + 1] = [image |-> image, left |-> avail[First] - 1]
  BY <1>1, <1>2, AppendProperties, LenProperties DEF New
<1>4. [image |-> header, left |-> 1] \in Chunks
  BY DEF TypeInv, TypeOK, Chunks
<1>5. /\ Header \in Seq(Chunks)
      /\ Len(Header) = IF Dng /\ First = "raw" THEN 1 ELSE 0
  BY <1>4, EmptySeq DEF Header
<1>6. /\ Header \o New \in Seq(Chunks)
      /\ Len(Header \o New) = Len(Header) + Len(New)
  BY <1>3, <1>5, ConcatProperties
<1> QED BY <1>3, <1>5, <1>6

\* A step of the fetch keeps the types.
LEMMA ChunkTypes ==
    ASSUME TypeInv, Chunk
    PROVE  TypeOK' /\ HostTypes'
<1>1. /\ pc = "chunk" /\ First \in toget /\ First \in Wanted /\ First \in Formats
      /\ avail[First] \in Nat
      /\ UNCHANGED <<phase, image, rcset, setup, shot, snap>>
      /\ Ended \/ Continued \/ Thrown
  BY ChunkEffect
<1>2. shot <= Shots
  BY <1>1 DEF TypeInv, HostTypes, InShot
<1>3. avail[First] > 0 => [avail EXCEPT ![First] = @ - 1] \in [Formats -> 0..JpgMax + 1]
  BY <1>1, Constants DEF TypeInv, TypeOK
<1>4. CASE Ended
  <2>1. avail[First] > 0 /\ Len(New) <= MaxChunks(First) /\ MaxChunks(First) \in Nat
    <3>1. MaxChunks(First) \in Nat /\ Len(New) \in Nat
      BY <1>1, <1>4, Constants, NewChunks DEF Ended
    <3> QED BY <1>4, <3>1 DEF Ended, TooMany
  <2>2. Len(Header \o New) <= MaxChunks(First) + (IF Dng THEN 1 ELSE 0)
    <3>1. Len(Header) \in {0, 1} /\ (~Dng => Len(Header) = 0)
      BY <1>1, <2>1, NewChunks
    <3>2. Len(Header \o New) = Len(Header) + Len(New) /\ Len(New) = Len(chunks) + 1 /\ Len(chunks) \in Nat
      BY <1>1, <2>1, NewChunks
    <3>3. Len(Header \o New) \in Nat /\ Len(Header \o New) <= MaxChunks(First) + Len(Header)
      BY <2>1, <3>1, <3>2
    <3>4. CASE Dng
      <4>1. (IF Dng THEN 1 ELSE 0) = 1
        BY <3>4, Zenon
      <4>2. Len(Header \o New) <= MaxChunks(First) + 1
        <5>1. \A a, b, m \in Nat : a <= m + b /\ b \in {0, 1} => a <= m + 1
          OBVIOUS
        <5>2. Len(Header) \in Nat /\ Len(Header) \in {0, 1}
          BY <3>1
        <5> QED BY <2>1, <3>3, <5>1, <5>2, Zenon
      <4> QED BY <4>1, <4>2, Zenon
    <3>5. CASE ~Dng
      <4>1. (IF Dng THEN 1 ELSE 0) = 0
        BY <3>5, Zenon
      <4> QED BY <2>1, <3>1, <3>3, <3>5, <4>1
    <3> QED BY <3>4, <3>5
  <2>3. Header \o New \in Seq(Chunks)
    BY <1>1, <2>1, NewChunks
  <2>4. \A i \in 1..Shots : \A f \in DOMAIN files'[i] :
          f \in Wanted /\ files'[i][f] \in Seq(Chunks)
                      /\ Len(files'[i][f]) <= MaxChunks(f) + (IF Dng THEN 1 ELSE 0)
    <3> TAKE i \in 1..Shots
    <3> TAKE f \in DOMAIN files'[i]
    <3>1. CASE i = shot /\ f = First
      BY <1>1, <1>2, <1>4, <2>2, <2>3, <3>1, StoredFiles
    <3>2. CASE ~(i = shot /\ f = First)
      <4>1. f \in DOMAIN files[i] /\ files'[i][f] = files[i][f]
        BY <1>2, <1>4, <3>2, StoredFiles
      <4> QED BY <4>1 DEF TypeInv, TypeOK
    <3> QED BY <3>1, <3>2
  <2>5. New \in Seq(Chunks)
    BY <1>1, <2>1, NewChunks
  <2>6. /\ toget' \subseteq Wanted
        /\ rsdata' \in SUBSET (Formats \cup {"notset"})
        /\ header' \in Nat
    BY <1>1, <1>4 DEF Ended, TypeInv, TypeOK
  <2>7. DOMAIN files' = 1..Shots
    BY <1>2, <1>4, StoredFiles
  <2>8. Dng' = Dng
    BY <1>1 DEF Dng
  <2>9. avail' \in [Formats -> 0..JpgMax + 1] /\ chunks' \in Seq(Chunks) /\ pc' = "handle"
        /\ UNCHANGED <<status, trouble>>
    BY <1>3, <1>4, <2>1, <2>5 DEF Ended
  <2>10. TypeOK'
    BY <1>1, <2>4, <2>6, <2>7, <2>8, <2>9 DEF TypeInv, TypeOK, Stages
  <2> QED BY <1>1, <1>2, <2>7, <2>9, <2>10 DEF HostTypes
<1>5. CASE Continued
  <2>1. New \in Seq(Chunks)
    BY <1>1, <1>5, NewChunks DEF Continued
  <2>2. avail' \in [Formats -> 0..JpgMax + 1] /\ chunks' \in Seq(Chunks)
        /\ UNCHANGED <<pc, toget, rsdata, header, files, status, trouble>>
    <3>1. avail[First] > 0
      BY <1>1, <1>5 DEF Continued
    <3> QED BY <1>3, <1>5, <2>1, <3>1 DEF Continued
  <2>3. First' = First
    <3>1. rsdata' = rsdata
      BY <2>2
    <3> QED BY <3>1, FirstKept
  <2>10. Dng' = Dng /\ Stages' = Stages
    BY <1>1, <2>2 DEF Dng, Stages
  <2>4. TypeOK'
    BY <1>1, <2>2, <2>3, <2>10 DEF TypeInv, TypeOK
  <2>5. DOMAIN files' = 1..Shots
    BY <2>2 DEF TypeInv, HostTypes
  <2>6. shot' <= Shots /\ rsdata' # {}
    BY <1>1, <1>2, <2>2 DEF TypeInv, HostTypes
  <2>7. First' \in toget'
    BY <1>1, <2>2, <2>3
  <2> QED BY <2>4, <2>5, <2>6, <2>7 DEF HostTypes
<1>6. CASE Thrown
  <2>1. avail[First] > 0 => New \in Seq(Chunks)
    BY <1>1, NewChunks
  <2>2. chunks \in Seq(Chunks) /\ avail \in [Formats -> 0..JpgMax + 1]
    BY DEF TypeInv, TypeOK
  <2>3. avail' \in [Formats -> 0..JpgMax + 1] /\ chunks' \in Seq(Chunks)
    BY <1>3, <1>6, <2>1, <2>2 DEF Thrown
  <2>4. /\ pc' = "recover" /\ status' = "failed" /\ trouble' \in BOOLEAN
        /\ UNCHANGED <<toget, rsdata, header, files>>
    BY <1>6 DEF Thrown, TypeInv, TypeOK
  <2>5. Dng' = Dng /\ Stages' = Stages
    BY <1>1 DEF Dng, Stages
  <2>6. TypeOK'
    BY <1>1, <2>3, <2>4, <2>5 DEF TypeInv, TypeOK
  <2> QED BY <1>1, <2>4, <2>6 DEF HostTypes, TypeInv, InShot, Before
<1> QED BY <1>1, <1>4, <1>5, <1>6

\* A step of the host that stores nothing: its own variables keep their types.
LEMMA QuietTypes ==
    ASSUME TypeInv, UNCHANGED <<setup, rcset, phase, avail, image, files, header>>,
           pc' \in {"get", "status", "ready", "handle", "chunk", "msgs", "finish",
                    "lastmsgs", "waitscript", "scriptmsgs", "shotdone", "recover",
                    "stop", "waitend", "drain", "cleanup", "done"},
           shot' \in 1..Shots + 1,
           pc' \notin {"recover", "stop", "waitend", "drain", "cleanup", "done"} => shot' <= Shots,
           snap' \in [run : BOOLEAN, msg : BOOLEAN],
           rsdata' \in SUBSET (Formats \cup {"notset"}),
           toget' \subseteq Wanted,
           chunks' \in Seq(Chunks),
           status' \in {"ok", "failed"},
           trouble' \in BOOLEAN,
           pc' = "chunk" => rsdata' # {} /\ First' \in toget'
    PROVE  TypeOK' /\ HostTypes'
<1>1. Dng' = Dng /\ Stages' = Stages
  BY DEF Dng, Stages
<1>2. TypeOK'
  BY <1>1 DEF TypeInv, TypeOK
<1>3. HostTypes'
  BY DEF TypeInv, HostTypes, InShot, Before
<1> QED BY <1>2, <1>3

\* The steps of the host in the middle keep the types.
LEMMA MiddleTypes ==
    ASSUME TypeInv, Middle
    PROVE  TypeInv'
<1>1. /\ UNCHANGED <<rcset, phase, image, setup>>
      /\ CamTypes'
  BY MiddleEffect DEF TypeInv
<1>2. /\ shot \in 1..Shots + 1
      /\ pc \in {"get", "status", "ready", "handle", "chunk", "msgs", "finish",
                 "lastmsgs", "waitscript", "scriptmsgs", "shotdone"} => shot <= Shots
      /\ snap \in [run : BOOLEAN, msg : BOOLEAN]
      /\ rsdata \in SUBSET (Formats \cup {"notset"})
      /\ toget \subseteq Wanted
      /\ chunks \in Seq(Chunks)
      /\ status \in {"ok", "failed"}
      /\ trouble \in BOOLEAN
      /\ Shots \in Nat
  BY Constants DEF TypeInv, TypeOK, HostTypes, InShot
<1>3. Status \in [run : BOOLEAN, msg : BOOLEAN]
  BY DEF Status
<1> SUFFICES TypeOK' /\ HostTypes'
  BY <1>1 DEF TypeInv
<1>4. CASE Chunk
  BY <1>4, ChunkTypes
<1>5. CASE GetData
  BY <1>1, <1>2, <1>5, QuietTypes DEF GetData, Goto, capture
<1>6. CASE GetStatus
  BY <1>1, <1>2, <1>3, <1>6, QuietTypes
     DEF GetStatus, Goto, Fails, ThrowsInTrouble, Throws, capture, getvars
<1>7. CASE GetReady
  <2>1. ReadyNow \in SUBSET (Formats \cup {"notset"})
    BY DEF ReadyNow
  <2>2. /\ rsdata' \in SUBSET (Formats \cup {"notset"})
        /\ UNCHANGED <<capture, setup, shot, snap, toget, header, chunks, files>>
        /\ pc = "ready"
        /\ pc' \in {"handle", "status", "recover"}
        /\ status' \in {"ok", "failed"} /\ trouble' \in BOOLEAN
    BY <1>2, <1>7, <2>1 DEF GetReady, Goto, Fails, TimesOut, ThrowsInTrouble, Throws
  <2> QED BY <1>1, <1>2, <2>2, QuietTypes DEF capture
<1>8. CASE Handle
  <2>1. /\ chunks' \in {chunks, <<>>}
        /\ UNCHANGED <<capture, setup, shot, snap, rsdata, toget, header, files>>
        /\ pc = "handle"
        /\ pc' \in {"msgs", "finish", "status", "chunk", "recover"}
        /\ pc' = "chunk" => rsdata # {} /\ First \in toget
        /\ status' \in {"ok", "failed"} /\ trouble' \in BOOLEAN
    BY <1>2, <1>8 DEF Handle, Goto, Throws, AfterData
  <2>2. chunks' \in Seq(Chunks)
    BY <1>2, <2>1, EmptySeq
  <2>3. First' = First
    BY <2>1, FirstKept
  <2> QED BY <1>1, <1>2, <2>1, <2>2, <2>3, QuietTypes DEF capture
<1>9. CASE Msgs \/ LastMsgs \/ ScriptMsgs
  <2>1. /\ UNCHANGED <<capture, setup, shot, snap, getvars>>
        /\ pc \in {"msgs", "lastmsgs", "scriptmsgs"}
        /\ pc' \in {"msgs", "lastmsgs", "scriptmsgs", "recover", "finish",
                    "status", "waitscript", "shotdone"}
        /\ status' \in {"ok", "failed"} /\ trouble' \in BOOLEAN
    BY <1>2, <1>9, MsgsEffect DEF Msgs, LastMsgs, ScriptMsgs, AfterData, AfterWait, TypeInv
  <2> QED BY <1>2, <2>1, QuietTypes DEF capture, getvars
<1>10. CASE Finish
  BY <1>1, <1>2, <1>10, QuietTypes DEF Finish, Goto, capture, getvars
<1>11. CASE AwaitScript
  BY <1>1, <1>2, <1>3, <1>11, QuietTypes
     DEF AwaitScript, Goto, Fails, ThrowsInTrouble, Throws, capture, getvars
<1>12. CASE ShotDone
  BY <1>1, <1>2, <1>12, QuietTypes DEF ShotDone, Goto, capture, getvars
<1>13. CASE Recover \/ Stop \/ WaitEnd \/ Drain
  <2>1. /\ UNCHANGED <<capture, setup, shot, snap, getvars>>
        /\ pc' \in {"stop", "drain", "waitend", "cleanup"}
        /\ UNCHANGED <<status, trouble>>
    BY <1>13 DEF Recover, Stop, WaitEnd, Drain, Skip, Break, Goto
  <2> QED BY <1>2, <2>1, QuietTypes DEF capture, getvars
<1> QED BY <1>4, <1>5, <1>6, <1>7, <1>8, <1>9, <1>10, <1>11, <1>12, <1>13 DEF Middle

\* rs_init, the start of the script and the cleanup keep them.
LEMMA EndsTypes ==
    ASSUME TypeInv, RsInit \/ RsStart \/ ErrorMsg \/ Cleanup
    PROVE  TypeInv'
<1>1. CASE RsInit
  <2>1. /\ rcset' \in {{}, Wanted} /\ pc' \in {"start", "done"} /\ pc = "init"
        /\ status' \in {"ok", "failed"} /\ trouble' \in BOOLEAN
        /\ UNCHANGED <<camera, sid, phase, avail, image, setup, shot, snap, getvars>>
        /\ faults' \in Nat
    <3>1. rcset \in {{}, Wanted} /\ status \in {"ok", "failed"} /\ trouble \in BOOLEAN /\ faults \in Nat
      BY DEF TypeInv, TypeOK, CamTypes
    <3>2. /\ pc = "init"
          /\ UNCHANGED <<camera, sid, phase, avail, image, setup, shot, snap, getvars>>
      BY <1>1 DEF RsInit
    <3>3. CASE Goto("start") /\ rcset' = Wanted /\ UNCHANGED faults
      BY <3>1, <3>2, <3>3 DEF Goto
    <3>4. CASE /\ pc' = "done" /\ status' = "failed" /\ trouble' = TRUE
               /\ \/ UNCHANGED <<rcset, faults>>
                  \/ Faulty /\ rcset' \in {rcset, Wanted}
      BY <3>1, <3>2, <3>4 DEF Faulty
    <3> QED BY <1>1, <3>3, <3>4 DEF RsInit
  <2>2. Dng' = Dng /\ Stages' = Stages
    BY <2>1 DEF Dng, Stages
  <2>3. TypeOK'
    BY <2>1, <2>2 DEF getvars, TypeInv, TypeOK
  <2>4. HostTypes' /\ CamTypes'
    BY <2>1 DEF getvars, camera, TypeInv, HostTypes, CamTypes, InShot, Before
  <2> QED BY <2>3, <2>4 DEF TypeInv
<1>2. CASE RsStart
  <2>1. /\ pc = "start" /\ pc' \in {"get", "errmsg", "done"}
        /\ status' \in {"ok", "failed"} /\ trouble' \in BOOLEAN
        /\ UNCHANGED <<capture, setup, shot, snap, getvars>>
    BY <1>2 DEF RsStart, Goto, TypeInv, TypeOK
  <2>2. CamTypes'
    <3> DEFINE flags == [nokill |-> TRUE, flushcam |-> TRUE, flushhost |-> TRUE]
    <3>1. PICK s \in Scripts :
             \/ \E st \in {"none", "compile"} : ExecDone(s, flags, st)
             \/ ExecLost(s, flags)
      BY <1>2 DEF RsStart
    <3>2. CASE \E st \in {"none", "compile"} : ExecDone(s, flags, st)
      <4>1. PICK st \in {"none", "compile"}, id \in 0..MaxExec : CamExec(s, flags, id, st)
        BY <3>2 DEF ExecDone
      <4>2. faults' = faults
        BY <3>2 DEF ExecDone
      <4> QED BY <4>1, <4>2, ExecEffect DEF TypeInv, CamTypes
    <3>3. CASE ExecLost(s, flags)
      <4>1. faults' \in Nat
        BY <3>3 DEF ExecLost, Faulty, TypeInv, CamTypes
      <4>2. CASE UNCHANGED camera
        BY <4>1, <4>2 DEF camera, TypeInv, CamTypes
      <4>3. CASE ~UNCHANGED camera
        <5>1. PICK id \in 0..MaxExec, st \in ExecAnswers : CamExec(s, flags, id, st)
          BY <3>3, <4>3 DEF ExecLost
        <5> QED BY <4>1, <5>1, ExecEffect DEF TypeInv, CamTypes
      <4> QED BY <4>2, <4>3
    <3> QED BY <3>1, <3>2, <3>3
  <2>3. Dng' = Dng /\ Stages' = Stages
    BY <2>1 DEF Dng, Stages
  <2>4. TypeOK'
    BY <2>1, <2>3 DEF capture, getvars, TypeInv, TypeOK
  <2>5. HostTypes'
    BY <2>1 DEF capture, getvars, TypeInv, HostTypes, InShot, Before
  <2> QED BY <2>2, <2>4, <2>5 DEF TypeInv
<1>3. CASE Cleanup
  <2>1. /\ pc = "cleanup" /\ pc' = "done" /\ UNCHANGED <<setup, shot, snap, getvars, trouble>>
        /\ status' \in {"ok", "failed"}
        /\ UNCHANGED <<rcset, phase, avail>> \/ (rcset' = {} /\ phase' = 0 /\ avail' = NoData)
        /\ UNCHANGED image
    BY <1>3 DEF Cleanup, Uninit, CleanedUp, capture, TypeInv, TypeOK
  <2>2. CamTypes'
    <3>1. <<>> \in Seq(Posts)
      BY EmptySeq
    <3>2. faults' \in Nat
      BY <1>3 DEF Cleanup, Faulty, scriptVars, TypeInv, CamTypes
    <3>3. UNCHANGED camera \/ CleanedUp
      BY <1>3 DEF Cleanup, scriptVars
    <3>4. CASE UNCHANGED camera
      BY <3>2, <3>4 DEF camera, TypeInv, CamTypes
    <3>5. CASE CleanedUp
      BY <3>1, <3>2, <3>5 DEF CleanedUp, TypeInv, CamTypes
    <3> QED BY <3>3, <3>4, <3>5
  <2>3. NoData \in [Formats -> 0..JpgMax + 1] /\ 0 \in 0..Len(Stages)
    BY StageTypes, Constants DEF NoData, TypeInv, TypeOK
  <2>4. Dng' = Dng /\ Stages' = Stages
    BY <2>1 DEF Dng, Stages
  <2>5. TypeOK'
    BY <2>1, <2>3, <2>4 DEF getvars, TypeInv, TypeOK
  <2>6. HostTypes'
    BY <2>1 DEF getvars, TypeInv, HostTypes, InShot, Before
  <2> QED BY <2>2, <2>5, <2>6 DEF TypeInv
<1>4. CASE ErrorMsg
  <2>1. /\ pc = "errmsg" /\ pc' \in {"errmsg", "done"} /\ CamTypes'
        /\ UNCHANGED <<capture, setup, shot, snap, getvars, status, trouble>>
    BY <1>4, ErrorMsgEffect DEF TypeInv
  <2>2. Dng' = Dng /\ Stages' = Stages
    BY <2>1 DEF Dng, Stages
  <2>3. TypeOK'
    BY <2>1, <2>2 DEF capture, getvars, TypeInv, TypeOK
  <2>4. HostTypes'
    BY <2>1 DEF getvars, TypeInv, HostTypes, InShot, Before
  <2> QED BY <2>1, <2>3, <2>4 DEF TypeInv
<1> QED BY <1>1, <1>2, <1>3, <1>4

\* The camera keeps them.
LEMMA CameraTypes ==
    ASSUME TypeInv, Camera
    PROVE  TypeInv'
<1>1. UNCHANGED hostVars /\ faults' = faults
  BY ScriptEffect DEF Camera, CamShoot, CamStage, CamShotDone, CamCancel, CamPause,
     CamError, CamRuns, scriptVars, TypeInv
<1>2. CamTypes'
  BY ScriptEffect DEF Camera, CamShoot, CamStage, CamShotDone, CamCancel, CamPause,
     CamError, CamRuns, scriptVars, camera, TypeInv, CamTypes
<1>3. First' = First
  BY <1>1, FirstKept DEF hostVars, getvars
<1>4. HostTypes'
  BY <1>1, <1>3 DEF hostVars, getvars, TypeInv, HostTypes, InShot, Before
<1>5. /\ rcset' \in {{}, Wanted} /\ phase' \in 0..Len(Stages) /\ image' \in Nat
      /\ avail' \in [Formats -> 0..JpgMax + 1] /\ trouble' \in BOOLEAN
  <2>1. /\ rcset \in {{}, Wanted} /\ phase \in 0..Len(Stages) /\ image \in Nat
        /\ avail \in [Formats -> 0..JpgMax + 1] /\ trouble \in BOOLEAN
        /\ Len(Stages) \in Nat \ {0}
    BY StageTypes DEF TypeInv, TypeOK
  <2>2. CASE CamShoot
    BY <2>1, <2>2, ReadyEffect DEF CamShoot
  <2>3. CASE CamStage
    BY <2>1, <2>3, ReadyEffect DEF CamStage
  <2>4. CASE CamShotDone
    BY <2>1, <2>4 DEF CamShotDone
  <2>5. CASE CamCancel
    <3>1. NoData \in [Formats -> 0..JpgMax + 1]
      BY Constants DEF NoData
    <3> QED BY <2>1, <2>5, <3>1 DEF CamCancel
  <2>6. CASE CamPause \/ CamError \/ CamRuns
    BY <2>1, <2>6 DEF CamPause, CamError, CamRuns, capture
  <2> QED BY <2>2, <2>3, <2>4, <2>5, <2>6 DEF Camera
<1>6. Dng' = Dng /\ Stages' = Stages
  BY <1>1 DEF Dng, Stages, hostVars
<1>7. TypeOK'
  BY <1>1, <1>5, <1>6 DEF hostVars, getvars, TypeInv, TypeOK
<1> QED BY <1>2, <1>4, <1>7 DEF TypeInv

\* The types hold at the start,
LEMMA InitTypes == Init => TypeInv
<1> SUFFICES ASSUME Init PROVE TypeInv
  OBVIOUS
<1>1. <<>> \in Seq(Posts) /\ <<>> \in Seq(Chunks)
  BY EmptySeq
<1>2. Len(Stages) \in Nat \ {0}
  BY StageTypes DEF Init
<1>3. NoData \in [Formats -> 0..JpgMax + 1]
  BY Constants DEF NoData
<1>4. \A i \in 1..Shots : DOMAIN files[i] = {}
  BY DEF Init
<1>5. DOMAIN files = 1..Shots
  BY DEF Init
<1>6. TypeOK
  <2>1. Shots \in Nat \ {0} /\ 1 \in 1..Shots + 1 /\ 0 \in 0..Len(Stages)
    BY <1>2, Constants
  <2>2. snap \in [run : BOOLEAN, msg : BOOLEAN]
    BY DEF Init
  <2>3. \A i \in 1..Shots : \A f \in DOMAIN files[i] :
          f \in Wanted /\ files[i][f] \in Seq(Chunks)
                      /\ Len(files[i][f]) <= MaxChunks(f) + (IF Dng THEN 1 ELSE 0)
    BY <1>4
  <2> QED BY <1>1, <1>3, <2>1, <2>2, <2>3 DEF Init, TypeOK
<1>7. CamTypes
  BY <1>1 DEF Init, CamInit, CamTypes
<1>8. HostTypes
  BY <1>5, Constants DEF Init, HostTypes, InShot, Before
<1> QED BY <1>6, <1>7, <1>8 DEF TypeInv

\* and every step keeps them.
LEMMA TypesStep == TypeInv /\ [Next]_vars => TypeInv'
<1> SUFFICES ASSUME TypeInv, [Next]_vars PROVE TypeInv'
  OBVIOUS
<1>1. CASE RsInit \/ RsStart \/ ErrorMsg \/ Cleanup
  BY <1>1, EndsTypes
<1>2. CASE Middle
  BY <1>2, MiddleTypes
<1>3. CASE Camera
  BY <1>3, CameraTypes
<1>4. CASE UNCHANGED vars
  <2>1. First' = First
    BY <1>4, FirstKept DEF vars, hostVars, getvars
  <2>2. HostTypes' /\ CamTypes'
    BY <1>4, <2>1 DEF vars, hostVars, getvars, scriptVars, camera, TypeInv, HostTypes, CamTypes, InShot, Before
  <2>3. Dng' = Dng /\ Stages' = Stages
    BY <1>4 DEF vars, hostVars, Dng, Stages
  <2>4. TypeOK'
    BY <1>4, <2>3 DEF vars, hostVars, getvars, capture, TypeInv, TypeOK
  <2> QED BY <2>2, <2>4 DEF TypeInv
<1> QED BY <1>1, <1>2, <1>3, <1>4 DEF Next, Host, Middle

\* Type correctness of the capture on the camera and of the command, for any
\* number of shots, stages and chunks: a file has no more chunks than its
\* format may have, and the format being fetched is one not fetched yet.
THEOREM ShootTypeCorrect == Spec => [](TypeOK /\ CamTypes /\ HostTypes)
<1>1. TypeInv <=> TypeOK /\ CamTypes /\ HostTypes
  BY DEF TypeInv
<1> QED BY <1>1, InitTypes, TypesStep, PTL DEF Spec

-----------------------------------------------------------------------------
(***************************************************************************)
(* The end of the script and of the command.                               *)
(***************************************************************************)
\* Nothing is shot before the script is started.
IdleInv == Before => run = 0 /\ phase = 0 /\ image = 0 /\ shot = 1

\* The script ends once.  What the last status of the script said is still so
\* if it said that the script has ended; and the last shot does not end before.
OverInv ==
    /\ pc \in {"recover", "stop", "waitend", "drain", "errmsg"} => status = "failed"
    /\ InShot \/ Before => status = "ok"
    /\ InShot /\ pc \notin {"get", "status"} /\ ~snap.run => run = 0
    /\ pc = "lastmsgs" /\ shot = Shots => ~snap.run
    /\ pc = "shotdone" /\ shot = Shots => run = 0 /\ msgq = <<>>
    /\ pc = "cleanup" /\ status = "ok" => shot = Shots + 1 /\ run = 0 /\ msgq = <<>>
    /\ pc = "done" /\ status = "ok" => rcset = {} /\ run = 0 /\ shot = Shots + 1

\* What the camera does with the script by itself.
LEMMA CameraEffect ==
    ASSUME TypeInv, Camera
    PROVE  /\ UNCHANGED hostVars /\ UNCHANGED <<sid, faults>>
           /\ run = 0 => run' = 0 /\ msgq' = msgq
           /\ rcset' \in {rcset, {}}
           /\ trouble => trouble'
           /\ rcset' # rcset => trouble'
<1>1. CASE CamShoot
  BY <1>1, ReadyEffect DEF CamShoot, scriptVars, camera
<1>2. CASE CamStage
  BY <1>2, ReadyEffect DEF CamStage, scriptVars, camera
<1>3. CASE CamShotDone
  BY <1>3 DEF CamShotDone
<1>4. CASE CamCancel
  BY <1>4 DEF CamCancel, scriptVars, camera
<1>5. CASE CamPause
  BY <1>5 DEF CamPause, capture
<1>6. CASE CamError
  BY <1>6 DEF CamError
<1>7. CASE CamRuns
  BY <1>7, ScriptEffect DEF CamRuns, capture, TypeInv
<1> QED BY <1>1, <1>2, <1>3, <1>4, <1>5, <1>6, <1>7 DEF Camera

\* Where the host is in the middle: the script has been started.
LEMMA MiddlePlaces ==
    ASSUME TypeInv, Middle
    PROVE  /\ pc \notin {"init", "start", "cleanup", "done"} /\ pc' \notin {"init", "start", "done"}
           /\ pc # "errmsg" /\ pc' # "errmsg"
<1>1. CASE GetData
  BY <1>1 DEF GetData, Goto
<1>2. CASE GetStatus
  BY <1>2 DEF GetStatus, Goto, Fails, ThrowsInTrouble, Throws
<1>3. CASE GetReady
  BY <1>3 DEF GetReady, Goto, Fails, TimesOut, ThrowsInTrouble, Throws
<1>4. CASE Handle
  BY <1>4 DEF Handle, Goto, Throws, AfterData
<1>5. CASE Chunk
  BY <1>5, ChunkEffect DEF Ended, Continued, Thrown
<1>6. CASE Msgs \/ LastMsgs \/ ScriptMsgs
  <2>1. /\ pc \in {"msgs", "lastmsgs", "scriptmsgs"}
        /\ pc' \in {pc, "recover", "shotdone", AfterData, AfterWait}
    BY <1>6, MsgsEffect DEF Msgs, LastMsgs, ScriptMsgs, TypeInv
  <2>2. AfterData \in {"finish", "status"} /\ AfterWait \in {"waitscript", "shotdone"}
    BY DEF AfterData, AfterWait
  <2> QED BY <2>1, <2>2
<1>7. CASE Finish
  BY <1>7 DEF Finish, Goto
<1>8. CASE AwaitScript
  <2>1. pc = "waitscript" /\ pc' \in {"scriptmsgs", "shotdone", "recover"}
    BY <1>8 DEF AwaitScript, Goto, Fails, ThrowsInTrouble, Throws
  <2> QED BY <2>1
<1>9. CASE ShotDone
  BY <1>9 DEF ShotDone, Goto
<1>10. CASE Recover \/ Stop \/ WaitEnd \/ Drain
  BY <1>10 DEF Recover, Stop, WaitEnd, Drain, Skip, Break, Goto
<1> QED BY <1>1, <1>2, <1>3, <1>4, <1>5, <1>6, <1>7, <1>8, <1>9, <1>10 DEF Middle

\* Only the script shoots, and it starts after rs_init.
LEMMA IdleStep == TypeInv /\ IdleInv /\ [Next]_vars => IdleInv'
<1> SUFFICES ASSUME TypeInv, IdleInv, [Next]_vars, Before' PROVE (run = 0 /\ phase = 0 /\ image = 0 /\ shot = 1)'
  BY DEF IdleInv
<1>1. CASE RsInit
  BY <1>1 DEF RsInit, Goto, IdleInv, Before, camera
<1>2. CASE RsStart
  BY <1>2 DEF RsStart, Goto, Before
<1>3. CASE Cleanup
  BY <1>3 DEF Cleanup, Before
<1>4. CASE Middle
  BY <1>4, MiddlePlaces DEF Before
<1>5. CASE Camera
  <2>1. Before /\ UNCHANGED hostVars /\ run' = 0
    BY <1>5, CameraEffect DEF hostVars, Before, IdleInv
  <2>2. run = 0 /\ phase = 0 /\ image = 0 /\ shot = 1
    BY <2>1 DEF IdleInv
  <2>3. Len(Stages) \in Nat \ {0}
    BY StageTypes DEF TypeInv, TypeOK
  <2>4. UNCHANGED <<phase, image>>
    BY <1>5, <2>2, <2>3 DEF Camera, CamShoot, CamStage, CamShotDone, CamCancel, CamPause,
       CamError, CamRuns, capture
  <2> QED BY <2>1, <2>2, <2>4 DEF hostVars
<1>6. CASE UNCHANGED vars
  BY <1>6 DEF vars, hostVars, capture, scriptVars, camera, Before, IdleInv
<1>7. CASE ErrorMsg
  BY <1>7, ErrorMsgEffect DEF Before, TypeInv
<1> QED BY <1>1, <1>2, <1>3, <1>4, <1>5, <1>6, <1>7 DEF Next, Host, Middle

\* What ScriptStatus answers.
LEMMA StatusFields == (Status.run <=> run # 0) /\ (Status.msg <=> msgq # <<>>)
  BY DEF Status

\* The last status of the script is never older than its end when the loop
\* over the shots relies on it.
LEMMA OverMiddle ==
    ASSUME TypeInv, OverInv, Middle
    PROVE  OverInv'
<1>1. /\ run' = run /\ rcset' = rcset
      /\ msgq = <<>> => msgq' = <<>>
  BY MiddleEffect DEF TypeInv
<1>2. CASE GetData
  BY <1>1, <1>2 DEF GetData, Goto, OverInv, InShot, Before
<1>3. CASE GetStatus
  <2>1. /\ pc = "status" /\ shot' = shot
        /\ \/ pc' = "ready" /\ status' = status /\ snap' = Status
           \/ pc' = "recover" /\ status' = "failed"
    BY <1>3 DEF GetStatus, Goto, Fails, ThrowsInTrouble, Throws
  <2>2. pc' = "ready" => (~snap'.run => run = 0)
    BY <2>1, StatusFields
  <2> QED BY <1>1, <2>1, <2>2 DEF OverInv, InShot, Before
<1>4. CASE GetReady
  BY <1>1, <1>4 DEF GetReady, Goto, Fails, TimesOut, ThrowsInTrouble, Throws, OverInv, InShot, Before
<1>5. CASE Handle
  BY <1>1, <1>5 DEF Handle, Goto, Throws, AfterData, OverInv, InShot, Before
<1>6. CASE Chunk
  <2>1. /\ pc = "chunk" /\ UNCHANGED <<shot, snap>>
        /\ \/ pc' \in {"chunk", "handle"} /\ status' = status
           \/ pc' = "recover" /\ status' = "failed"
    BY <1>6, ChunkEffect DEF Ended, Continued, Thrown
  <2> QED BY <1>1, <2>1 DEF OverInv, InShot, Before
<1>7. CASE Msgs
  <2>1. /\ pc = "msgs" /\ UNCHANGED <<shot, snap>>
        /\ \/ pc' \in {"msgs", "finish", "status"} /\ status' = status
           \/ pc' = "recover" /\ status' = "failed"
    BY <1>7, MsgsEffect DEF Msgs, AfterData, TypeInv
  <2> QED BY <1>1, <2>1 DEF OverInv, InShot, Before
<1>8. CASE LastMsgs
  <2>1. /\ pc = "lastmsgs" /\ UNCHANGED <<shot, snap>>
        /\ \/ pc' = "lastmsgs" /\ status' = status
           \/ pc' = "shotdone" /\ status' = status /\ msgq' = <<>>
           \/ pc' = "recover" /\ status' = "failed"
    BY <1>8, MsgsEffect DEF LastMsgs, TypeInv
  <2> QED BY <1>1, <2>1 DEF OverInv, InShot, Before
<1>9. CASE ScriptMsgs
  <2>1. /\ pc = "scriptmsgs" /\ UNCHANGED <<shot, snap>>
        /\ \/ pc' = "scriptmsgs" /\ status' = status
           \/ pc' = "waitscript" /\ status' = status
           \/ pc' = "shotdone" /\ status' = status /\ msgq' = <<>> /\ ~snap.run
           \/ pc' = "recover" /\ status' = "failed"
    BY <1>9, MsgsEffect DEF ScriptMsgs, AfterWait, TypeInv
  <2> QED BY <1>1, <2>1 DEF OverInv, InShot, Before
<1>10. CASE Finish
  BY <1>1, <1>10 DEF Finish, WaitScript, Goto, OverInv, InShot, Before
<1>11. CASE AwaitScript
  <2>1. /\ pc = "waitscript" /\ shot' = shot
        /\ \/ /\ pc' \in {"scriptmsgs", "shotdone"} /\ status' = status /\ snap' = Status
              /\ pc' = "shotdone" => ~Status.msg /\ ~Status.run
           \/ pc' = "recover" /\ status' = "failed"
    BY <1>11 DEF AwaitScript, Goto, Fails, ThrowsInTrouble, Throws
  <2>2. pc' # "recover" => (~snap'.run => run = 0)
    BY <2>1, StatusFields
  <2>3. pc' = "shotdone" => run = 0 /\ msgq = <<>>
    BY <2>1, StatusFields
  <2> QED BY <1>1, <2>1, <2>2, <2>3 DEF OverInv, InShot, Before
<1>12. CASE ShotDone
  <2>1. shot \in Nat /\ Shots \in Nat /\ shot <= Shots
    <3>1. InShot
      BY <1>12 DEF ShotDone, InShot
    <3> QED BY <3>1, Constants DEF TypeInv, TypeOK, HostTypes
  <2> QED BY <1>1, <1>12, <2>1 DEF ShotDone, Goto, OverInv, InShot, Before
<1>13. CASE Recover \/ Stop \/ WaitEnd \/ Drain
  BY <1>13 DEF Recover, Stop, WaitEnd, Drain, Skip, Break, Goto, OverInv, InShot, Before
<1> QED BY <1>2, <1>3, <1>4, <1>5, <1>6, <1>7, <1>8, <1>9, <1>10, <1>11, <1>12, <1>13 DEF Middle

\* Every step keeps what is known of the end of the script.
LEMMA OverStep == TypeInv /\ OverInv /\ [Next]_vars => OverInv'
<1> SUFFICES ASSUME TypeInv, OverInv, [Next]_vars PROVE OverInv'
  OBVIOUS
<1>1. CASE RsInit \/ RsStart
  BY <1>1 DEF RsInit, RsStart, Goto, OverInv, InShot, Before
<1>2. CASE Cleanup
  <2>1. pc = "cleanup" /\ pc' = "done" /\ shot' = shot
    BY <1>2 DEF Cleanup
  <2>2. status' = "ok" => status = "ok" /\ CleanedUp
    BY <1>2 DEF Cleanup, Uninit
  <2> QED BY <2>1, <2>2 DEF CleanedUp, OverInv, InShot, Before
<1>3. CASE Middle
  BY <1>3, OverMiddle
<1>4. CASE Camera
  BY <1>4, CameraEffect DEF hostVars, OverInv, InShot, Before
<1>5. CASE UNCHANGED vars
  BY <1>5 DEF vars, hostVars, capture, scriptVars, camera, OverInv, InShot, Before
<1>6. CASE ErrorMsg
  BY <1>6, ErrorMsgEffect DEF OverInv, InShot, Before, TypeInv
<1> QED BY <1>1, <1>2, <1>3, <1>4, <1>5, <1>6 DEF Next, Host, Middle

\* It holds at the start,
LEMMA InitOver == Init => IdleInv /\ OverInv
  BY DEF Init, CamInit, IdleInv, OverInv, InShot, Before

\* and so always.
LEMMA OverHolds == Spec => [](TypeInv /\ IdleInv /\ OverInv)
  BY InitTypes, TypesStep, InitOver, IdleStep, OverStep, PTL DEF Spec

\* After the last shot the script has ended and its messages are consumed, so
\* that the cleanup is not refused and discards nothing: the last look at the
\* script, or the wait for it, is never older than its end.
THEOREM CleanupAfterScript == Spec => []ScriptOver
<1>1. OverInv => ScriptOver
  BY DEF OverInv, ScriptOver
<1> QED BY <1>1, OverHolds, PTL

\* A command that succeeds has shot every shot, its script has ended and the
\* camera is out of remote capture.
THEOREM CleanSuccess == Spec => []OkIsClean
<1>1. OverInv => OkIsClean
  BY DEF OverInv, OkIsClean
<1> QED BY <1>1, OverHolds, PTL

-----------------------------------------------------------------------------
(***************************************************************************)
(* The camera and the host in step.                                        *)
(***************************************************************************)
\* The data the camera holds, and what it has still to offer of this shot.
Has == {f \in Formats : avail[f] > 0}

Later(p) == {f \in Wanted : p # 0 /\ \E i \in p + 1..Len(Stages) : f \in Stages[i]}

Coming == Has \cup Later(phase)

\* The exposure the host is at, and what it has still to fetch of it.
Loading == pc = "get" \/ (Fetching /\ toget # {})

Due == IF Loading THEN shot ELSE shot + 1

Left == IF Fetching /\ toget # {} THEN toget ELSE Wanted

\* Unless the camera gave up, it has exactly what the host has still to fetch,
\* and of the right exposure, or it has not made that exposure yet.
PaceInv ==
    InShot /\ rcset # {} =>
        \/ Coming = {} /\ image + 1 = Due /\ Left = Wanted
        \/ Coming = Left /\ image = Due

\* The chunks the host has of a format that is not complete.
Begun(f) == IF pc = "chunk" /\ f = First THEN Len(chunks) ELSE 0

Most(f) == IF f \in RawTypes THEN 1 ELSE JpgMax + 1

\* The data is that of the stage the camera is at, in as many chunks as the
\* format may have unless the camera is in trouble.
DataInv ==
    /\ rcset = {} => avail = NoData
    /\ \A f \in Has : /\ phase # 0 /\ f \in Stages[phase] /\ f \in Wanted
                      /\ Begun(f) + avail[f] <= Most(f)
                      /\ ~trouble => Begun(f) + avail[f] <= MaxChunks(f)

\* What the host has seen ready is still there, unless the camera gave up.
HeldInv == pc \in {"handle", "chunk"} /\ rcset # {} => rsdata \subseteq Has

\* The chunks of the format being fetched are in order, of this exposure.
ChunkInv ==
    pc = "chunk" /\ First \in Has =>
        \A j \in 1..Len(chunks) :
            chunks[j] = [image |-> shot, left |-> avail[First] + (Len(chunks) - j)]

FetchInv == PaceInv /\ DataInv /\ HeldInv /\ ChunkInv

\* No data is available, said in two ways.
LEMMA HasNothing ==
    ASSUME TypeInv
    PROVE  avail = NoData <=> Has = {}
<1>1. avail \in [Formats -> 0..JpgMax + 1] /\ JpgMax \in Nat
  BY Constants DEF TypeInv, TypeOK
<1>2. ASSUME avail = NoData PROVE Has = {}
  BY <1>2 DEF NoData, Has
<1>3. ASSUME Has = {} PROVE avail = NoData
  <2>1. \A f \in Formats : avail[f] = 0
    BY <1>1, <1>3 DEF Has
  <2> QED BY <1>1, <2>1 DEF NoData
<1> QED BY <1>2, <1>3

\* While the host fetches a format the camera still has it or has given up.
LEMMA FetchedIsThere ==
    ASSUME TypeInv, FetchInv, pc = "chunk", rcset # {}
    PROVE  First \in Has
<1>1. rsdata # {} /\ rsdata \subseteq Has
  BY DEF FetchInv, HeldInv, TypeInv, HostTypes
<1>2. rsdata \subseteq Formats
  BY <1>1 DEF Has
<1> QED BY <1>1, <1>2, FirstIsReady

\* The camera offers new data only when the host has fetched all there was.
LEMMA OffersKeep ==
    ASSUME TypeInv, FetchInv, NEW p \in 1..Len(Stages), Has = {},
           Ready(Stages[p]), phase' = p, rcset' = rcset, UNCHANGED hostVars
    PROVE  DataInv' /\ HeldInv' /\ ChunkInv' /\ Has' = Stages[p] \cap rcset
<1>1. /\ avail' \in [Formats -> 0..JpgMax + 1]
      /\ \A f \in Formats :
            /\ avail'[f] > 0 <=> f \in Stages[p] \cap rcset
            /\ avail'[f] > 0 => avail'[f] \in CamChunks(f)
            /\ ~trouble' => avail'[f] <= MaxChunks(f)
  BY ReadyEffect
<1>2. rcset \in {{}, Wanted} /\ Wanted \subseteq Formats /\ JpgMax \in Nat
  BY Constants DEF TypeInv, TypeOK
<1>3. Has' = Stages[p] \cap rcset
  BY <1>1, <1>2 DEF Has
<1>4. First' = First
  BY FirstKept DEF hostVars, getvars
<1>5. rcset # {} => pc # "chunk"
  BY FetchedIsThere
<1>6. rcset = {} => avail' = NoData
  <2>1. rcset = {} => \A f \in Formats : avail'[f] = 0
    BY <1>1, <1>2
  <2> QED BY <1>1, <2>1 DEF NoData
<1>7. DataInv'
  <2>1. ASSUME NEW f \in Has'
        PROVE  /\ phase' # 0 /\ f \in Stages[p] /\ f \in Wanted
               /\ Begun(f)' = 0 /\ avail'[f] <= Most(f)
               /\ ~trouble' => avail'[f] <= MaxChunks(f)
               /\ avail'[f] \in Nat
    <3>1. f \in Formats /\ f \in Stages[p] /\ f \in Wanted /\ rcset # {} /\ avail'[f] > 0
      BY <1>2, <1>3, <2>1 DEF Has
    <3>2. Begun(f)' = 0
      BY <1>5, <3>1 DEF Begun, hostVars
    <3>3. avail'[f] \in CamChunks(f) /\ avail'[f] \in Nat
      BY <1>1, <1>2, <3>1
    <3>4. avail'[f] <= Most(f)
      BY <1>2, <3>3 DEF CamChunks, Most
    <3>5. p # 0
      OBVIOUS
    <3> QED BY <1>1, <3>1, <3>2, <3>3, <3>4, <3>5
  <2>2. Stages' = Stages
    BY DEF Stages, hostVars
  <2>3. \A f : Most(f)' = Most(f)
    BY DEF Most
  <2> QED BY <1>6, <2>1, <2>2, <2>3 DEF DataInv
<1>8. HeldInv'
  BY DEF HeldInv, FetchInv, hostVars, getvars
<1>9. ChunkInv'
  <2>1. First \in Has' => rcset # {}
    BY <1>3
  <2> QED BY <1>4, <1>5, <2>1 DEF ChunkInv, hostVars
<1> QED BY <1>3, <1>7, <1>8, <1>9

\* What is left of a shot at a stage is that stage and the later ones.
LEMMA LaterStages ==
    ASSUME TypeInv
    PROVE  /\ Later(0) = {} /\ Later(Len(Stages)) = {}
           /\ \A f \in Wanted : f \in Stages[1] \/ f \in Later(1)
           /\ \A p \in 1..Len(Stages) - 1 :
                 Later(p) = (Wanted \cap Stages[p + 1]) \cup Later(p + 1)
           /\ \A p \in 1..Len(Stages) : Stages[p] \cap Later(p) = {}
<1>1. /\ Len(Stages) \in Nat \ {0}
      /\ \A f \in Formats : \E i \in 1..Len(Stages) : f \in Stages[i]
      /\ \A i, j \in 1..Len(Stages) : i # j => Stages[i] \cap Stages[j] = {}
  BY StageTypes DEF TypeInv, TypeOK
<1>2. Wanted \subseteq Formats
  BY Constants
<1>3. Later(0) = {} /\ Later(Len(Stages)) = {}
  BY <1>1 DEF Later
<1>4. \A f \in Wanted : f \in Stages[1] \/ f \in Later(1)
  <2> TAKE f \in Wanted
  <2>1. PICK i \in 1..Len(Stages) : f \in Stages[i]
    BY <1>1, <1>2
  <2>2. CASE i = 1
    BY <2>1, <2>2
  <2>3. CASE i # 1
    BY <1>1, <2>1, <2>3 DEF Later
  <2> QED BY <2>2, <2>3
<1>5. ASSUME NEW p \in 1..Len(Stages) - 1
      PROVE  Later(p) = (Wanted \cap Stages[p + 1]) \cup Later(p + 1)
  <2>1. p + 1..Len(Stages) = {p + 1} \cup ((p + 1) + 1..Len(Stages))
    BY <1>1
  <2>2. p # 0 /\ p + 1 # 0
    BY <1>1
  <2> QED BY <2>1, <2>2 DEF Later
<1>6. ASSUME NEW p \in 1..Len(Stages)
      PROVE  Stages[p] \cap Later(p) = {}
  <2> SUFFICES ASSUME NEW f \in Stages[p], f \in Later(p) PROVE FALSE
    OBVIOUS
  <2>1. PICK i \in p + 1..Len(Stages) : f \in Stages[i]
    BY DEF Later
  <2>2. i \in 1..Len(Stages) /\ i # p
    BY <1>1
  <2> QED BY <1>1, <2>1, <2>2
<1> QED BY <1>3, <1>4, <1>5, <1>6

\* What the camera does by itself keeps it in step with the host.
LEMMA CameraFetch ==
    ASSUME TypeInv, FetchInv, Camera
    PROVE  FetchInv'
<1>1. UNCHANGED hostVars /\ rcset' \in {rcset, {}} /\ (trouble => trouble')
  BY CameraEffect
<1>2. /\ First' = First /\ Due' = Due /\ Left' = Left /\ InShot' = InShot
      /\ Stages' = Stages /\ (\A q : Later(q)' = Later(q))
  <2>1. First' = First
    BY <1>1, FirstKept DEF hostVars, getvars
  <2>2. Due' = Due /\ Left' = Left /\ InShot' = InShot
    BY <1>1 DEF hostVars, getvars, Due, Left, Loading, Fetching, InShot
  <2>3. Stages' = Stages
    BY <1>1 DEF hostVars, Stages
  <2>4. \A q : Later(q)' = Later(q)
    BY <2>3 DEF Later
  <2> QED BY <2>1, <2>2, <2>3, <2>4
<1>3. Left # {} /\ Wanted # {} /\ Wanted \subseteq Formats
  BY Constants DEF Left
<1>4. /\ rcset \in {{}, Wanted} /\ phase \in 0..Len(Stages) /\ image \in Nat /\ Len(Stages) \in Nat \ {0}
  BY StageTypes DEF TypeInv, TypeOK
<1>5. CASE CamShoot
  <2>1. /\ phase = 0 /\ image' = image + 1 /\ phase' = 1 /\ Ready(Stages[1]) /\ rcset' = rcset
    BY <1>5 DEF CamShoot
  <2>2. Has = {} /\ Later(phase) = {}
    BY <2>1, LaterStages DEF FetchInv, DataInv
  <2>3. DataInv' /\ HeldInv' /\ ChunkInv' /\ Has' = Stages[1] \cap rcset
    BY <1>1, <1>4, <2>1, <2>2, OffersKeep
  <2>4. PaceInv'
    <3> SUFFICES ASSUME InShot, rcset # {} PROVE Coming' = Left /\ image' = Due
      BY <1>2, <2>1 DEF PaceInv
    <3>1. Coming = {}
      BY <2>2 DEF Coming
    <3>2. image + 1 = Due /\ Left = Wanted
      BY <1>3, <3>1 DEF FetchInv, PaceInv
    <3>3. Coming' = (Stages[1] \cap Wanted) \cup Later(1)
      BY <1>2, <1>4, <2>1, <2>3 DEF Coming
    <3>4. Coming' = Wanted
      BY <3>3, LaterStages DEF Later
    <3> QED BY <2>1, <3>2, <3>4
  <2> QED BY <2>3, <2>4 DEF FetchInv
<1>6. CASE CamStage
  <2>1. /\ phase \in 1..Len(Stages) - 1 /\ avail = NoData /\ phase' = phase + 1
        /\ Ready(Stages[phase + 1]) /\ rcset' = rcset /\ image' = image
    BY <1>6 DEF CamStage
  <2>2. Has = {}
    BY <2>1, HasNothing
  <2>3. phase + 1 \in 1..Len(Stages)
    BY <1>4, <2>1
  <2>4. DataInv' /\ HeldInv' /\ ChunkInv' /\ Has' = Stages[phase + 1] \cap rcset
    BY <1>1, <2>1, <2>2, <2>3, OffersKeep
  <2>5. rcset # {} => Coming' = Coming
    <3>1. Later(phase) = (Wanted \cap Stages[phase + 1]) \cup Later(phase + 1)
      BY <2>1, LaterStages
    <3>2. Coming = Later(phase) /\ Coming' = Has' \cup Later(phase + 1)
      BY <1>2, <2>1, <2>2 DEF Coming
    <3> QED BY <1>4, <2>4, <3>1, <3>2
  <2>6. PaceInv'
    BY <1>2, <2>1, <2>5 DEF FetchInv, PaceInv
  <2> QED BY <2>4, <2>6 DEF FetchInv
<1>7. CASE CamCancel
  <2>1. avail' = NoData /\ rcset' = {} /\ trouble' = TRUE
    BY <1>7 DEF CamCancel
  <2>2. Has' = {}
    BY <2>1 DEF Has, NoData
  <2> QED BY <2>1, <2>2 DEF FetchInv, PaceInv, DataInv, HeldInv, ChunkInv
<1>8. CASE CamShotDone \/ CamPause \/ CamError \/ CamRuns
  <2>1. avail' = avail /\ image' = image
    BY <1>8 DEF CamShotDone, CamPause, CamError, CamRuns, capture
  <2>2. Later(phase') = Later(phase)
    BY <1>8, LaterStages DEF CamShotDone, CamPause, CamError, CamRuns, capture
  <2>3. Has' = Has /\ Coming' = Coming
    <3>1. Has' = Has
      BY <2>1 DEF Has
    <3>2. Later(phase)' = Later(phase')
      BY <1>2 DEF Later
    <3> QED BY <2>2, <3>1, <3>2 DEF Coming
  <2>4. phase' = phase \/ Has = {}
    BY <1>8, HasNothing DEF CamShotDone, CamPause, CamError, CamRuns, capture
  <2>5. rcset' = rcset \/ avail = NoData
    BY <1>8, HasNothing DEF CamShotDone, CamPause, CamError, CamRuns, capture, FetchInv, DataInv
  <2>6. \A f : Begun(f)' = Begun(f) /\ Most(f)' = Most(f)
    BY <1>1, <1>2 DEF Begun, Most, hostVars, getvars
  <2>7. DataInv'
    BY <1>1, <1>2, <2>1, <2>3, <2>4, <2>5, <2>6 DEF FetchInv, DataInv
  <2>8. PaceInv'
    BY <1>1, <1>2, <2>1, <2>3 DEF FetchInv, PaceInv
  <2>9. HeldInv' /\ ChunkInv'
    BY <1>1, <1>2, <2>1, <2>3 DEF FetchInv, HeldInv, ChunkInv, hostVars, getvars
  <2> QED BY <2>7, <2>8, <2>9 DEF FetchInv
<1> QED BY <1>5, <1>6, <1>7, <1>8 DEF Camera

\* While the camera has data to fetch, it is of the shot the host is at.
LEMMA DataIsOfShot ==
    ASSUME TypeInv, FetchInv, pc = "chunk", First \in Has
    PROVE  /\ rcset # {} /\ image = shot /\ Coming = toget
           /\ First \in Stages[phase] /\ phase \in 1..Len(Stages)
           /\ First \notin Later(phase)
           /\ Begun(First) = Len(chunks)
<1>1. First \in toget
  BY DEF TypeInv, HostTypes
<1>2. Has # {} /\ avail # NoData /\ rcset # {}
  BY HasNothing DEF FetchInv, DataInv
<1>3. Coming # {} /\ Left = toget /\ Due = shot
  BY <1>1, <1>2 DEF Coming, Left, Due, Loading, Fetching
<1>4. Coming = toget /\ image = shot
  BY <1>2, <1>3 DEF FetchInv, PaceInv, InShot
<1>5. First \in Stages[phase] /\ phase # 0
  BY DEF FetchInv, DataInv
<1>6. phase \in 1..Len(Stages)
  <2>1. phase \in 0..Len(Stages) /\ Len(Stages) \in Nat
    BY StageTypes DEF TypeInv, TypeOK
  <2> QED BY <1>5, <2>1
<1>7. First \notin Later(phase)
  BY <1>5, <1>6, LaterStages
<1>8. Begun(First) = Len(chunks)
  BY DEF Begun
<1> QED BY <1>2, <1>4, <1>5, <1>6, <1>7, <1>8

\* Fetching a chunk keeps the host and the camera in step.
LEMMA ChunkFetch ==
    ASSUME TypeInv, FetchInv, Chunk
    PROVE  FetchInv'
<1>1. /\ pc = "chunk" /\ First \in toget /\ First \in Wanted /\ First \in Formats
      /\ avail[First] \in Nat
      /\ UNCHANGED <<phase, image, rcset, setup, shot, snap>>
      /\ Ended \/ Continued \/ Thrown
  BY ChunkEffect
<1>2. /\ avail \in [Formats -> 0..JpgMax + 1] /\ JpgMax \in Nat
      /\ \A f \in Formats : avail[f] \in Nat
      /\ Len(chunks) \in Nat
      /\ image \in Nat /\ shot \in Nat
  BY Constants, LenProperties DEF TypeInv, TypeOK
<1>3. Stages' = Stages /\ (\A q : Later(q)' = Later(q)) /\ (\A f : Most(f)' = Most(f))
  <2>1. Stages' = Stages
    BY <1>1 DEF Stages
  <2> QED BY <2>1 DEF Later, Most
<1>4. ASSUME avail' = [avail EXCEPT ![First] = @ - 1], avail[First] > 0
      PROVE  /\ avail'[First] = avail[First] - 1
             /\ \A f \in Formats : f # First => avail'[f] = avail[f]
             /\ rcset # {} /\ First \in Has
             /\ Has' \subseteq Has
  <2>1. /\ avail'[First] = avail[First] - 1
        /\ \A f \in Formats : f # First => avail'[f] = avail[f]
    BY <1>1, <1>2, <1>4
  <2>2. First \in Has
    BY <1>1, <1>4 DEF Has
  <2>3. rcset # {}
    BY <1>1, <2>2, DataIsOfShot
  <2>4. Has' \subseteq Has
    BY <2>1, <2>2 DEF Has
  <2> QED BY <2>1, <2>2, <2>3, <2>4
<1>5. CASE Ended
  <2>1. /\ avail[First] > 0 /\ avail[First] = 1
        /\ avail'[First] = 0
        /\ \A f \in Formats : f # First => avail'[f] = avail[f]
        /\ rcset # {} /\ First \in Has
    BY <1>4, <1>5 DEF Ended
  <2>2. pc' = "handle" /\ toget' = toget \ {First} /\ rsdata' = rsdata \ {First} /\ trouble' = trouble
    BY <1>5 DEF Ended
  <2>3. Has' = Has \ {First}
    BY <2>1 DEF Has
  <2>4. /\ rcset # {} /\ image = shot /\ Coming = toget
        /\ First \notin Later(phase)
    BY <1>1, <2>1, DataIsOfShot
  <2>5. Coming' = Coming \ {First}
    BY <1>1, <1>3, <2>3, <2>4 DEF Coming
  <2>6. PaceInv'
    <3>1. CASE toget' = {}
      <4>1. Due' = shot + 1 /\ Left' = Wanted /\ Coming' = {}
        BY <1>1, <2>2, <2>4, <2>5, <3>1 DEF Due, Left, Loading
      <4> QED BY <1>1, <2>4, <4>1 DEF PaceInv
    <3>2. CASE toget' # {}
      <4>1. Due' = shot /\ Left' = toget' /\ Coming' = toget'
        BY <1>1, <2>2, <2>4, <2>5, <3>2 DEF Due, Left, Loading, Fetching
      <4> QED BY <1>1, <2>4, <4>1 DEF PaceInv
    <3> QED BY <3>1, <3>2
  <2>7. DataInv'
    <3>1. ASSUME NEW f \in Has'
          PROVE  /\ phase # 0 /\ f \in Stages[phase] /\ f \in Wanted
                 /\ Begun(f)' + avail'[f] <= Most(f)
                 /\ ~trouble => Begun(f)' + avail'[f] <= MaxChunks(f)
      <4>1. f \in Has /\ f # First /\ f \in Formats /\ avail'[f] = avail[f]
        BY <2>1, <2>3, <3>1 DEF Has
      <4>2. Begun(f) = 0 /\ Begun(f)' = 0
        BY <2>2, <4>1 DEF Begun
      <4> QED BY <4>1, <4>2 DEF FetchInv, DataInv
    <3> QED BY <1>1, <1>3, <2>2, <2>4, <3>1 DEF DataInv
  <2>8. HeldInv'
    <3>1. rsdata \subseteq Has
      BY <1>1, <2>4 DEF FetchInv, HeldInv
    <3> QED BY <2>2, <2>3, <3>1 DEF HeldInv
  <2>9. ChunkInv'
    BY <2>2 DEF ChunkInv
  <2> QED BY <2>6, <2>7, <2>8, <2>9 DEF FetchInv
<1>6. CASE Continued
  <2>1. /\ avail[First] > 0 /\ avail[First] > 1
        /\ avail'[First] = avail[First] - 1
        /\ \A f \in Formats : f # First => avail'[f] = avail[f]
        /\ rcset # {} /\ First \in Has
    BY <1>1, <1>4, <1>6 DEF Continued
  <2>2. chunks' = New /\ UNCHANGED <<pc, toget, rsdata, trouble>>
    BY <1>6 DEF Continued
  <2>3. Has' = Has
    BY <1>1, <1>2, <2>1 DEF Has
  <2>4. First' = First
    BY <2>2, FirstKept
  <2>5. /\ rcset # {} /\ image = shot /\ Coming = toget
        /\ Begun(First) = Len(chunks)
    BY <1>1, <2>1, DataIsOfShot
  <2>6. /\ Len(New) = Len(chunks) + 1
        /\ \A j \in 1..Len(chunks) : New[j] = chunks[j]
        /\ New[Len(chunks) + 1] = [image |-> image, left |-> avail[First] - 1]
    BY <1>1, <2>1, NewChunks
  <2>7. PaceInv'
    <3>1. Coming' = Coming /\ Due' = Due /\ Left' = Left /\ InShot' = InShot
      BY <1>1, <1>3, <2>2, <2>3 DEF Coming, Due, Left, Loading, Fetching, InShot
    <3> QED BY <1>1, <3>1 DEF FetchInv, PaceInv
  <2>8. DataInv'
    <3>1. ASSUME NEW f \in Has'
          PROVE  /\ phase # 0 /\ f \in Stages[phase] /\ f \in Wanted
                 /\ Begun(f)' + avail'[f] <= Most(f)
                 /\ ~trouble => Begun(f)' + avail'[f] <= MaxChunks(f)
      <4>1. f \in Has /\ f \in Formats
        BY <2>3, <3>1 DEF Has
      <4>2. Begun(f)' + avail'[f] = Begun(f) + avail[f]
        <5>1. CASE f = First
          <6>1. Begun(f)' = Len(chunks) + 1 /\ Begun(f) = Len(chunks)
            BY <1>1, <2>2, <2>4, <2>5, <2>6, <5>1 DEF Begun
          <6> QED BY <1>1, <1>2, <2>1, <5>1, <6>1
        <5>2. CASE f # First
          <6>1. Begun(f)' = 0 /\ Begun(f) = 0
            BY <2>4, <5>2 DEF Begun
          <6> QED BY <2>1, <4>1, <5>2, <6>1
        <5> QED BY <5>1, <5>2
      <4> QED BY <4>1, <4>2 DEF FetchInv, DataInv
    <3> QED BY <1>1, <1>3, <2>2, <2>5, <3>1 DEF DataInv
  <2>9. HeldInv'
    BY <1>1, <2>2, <2>3 DEF FetchInv, HeldInv
  <2>10. ChunkInv'
    <3>1. ASSUME NEW j \in 1..Len(chunks')
          PROVE  chunks'[j] = [image |-> shot', left |-> avail'[First] + (Len(chunks') - j)]
      <4>1. CASE j = Len(chunks) + 1
        <5>1. avail'[First] + (Len(chunks') - j) = avail[First] - 1
          BY <1>1, <1>2, <2>1, <2>2, <2>6, <4>1
        <5> QED BY <1>1, <2>2, <2>5, <2>6, <4>1, <5>1
      <4>2. CASE j # Len(chunks) + 1
        <5>1. j \in 1..Len(chunks) /\ chunks'[j] = chunks[j]
          BY <1>2, <2>2, <2>6, <4>2
        <5>2. chunks[j] = [image |-> shot, left |-> avail[First] + (Len(chunks) - j)]
          BY <1>1, <2>1, <5>1 DEF FetchInv, ChunkInv
        <5>3. avail'[First] + (Len(chunks') - j) = avail[First] + (Len(chunks) - j)
          BY <1>1, <1>2, <2>1, <2>2, <2>6, <5>1
        <5> QED BY <1>1, <5>1, <5>2, <5>3
      <4> QED BY <4>1, <4>2
    <3> QED BY <2>4, <3>1 DEF ChunkInv
  <2> QED BY <2>7, <2>8, <2>9, <2>10 DEF FetchInv
<1>7. CASE Thrown
  <2>1. pc' = "recover" /\ (trouble => trouble')
    BY <1>7 DEF Thrown
  <2>2. UNCHANGED avail \/ (avail[First] > 0 /\ avail' = [avail EXCEPT ![First] = @ - 1])
    BY <1>7 DEF Thrown
  <2>3. /\ Has' \subseteq Has
        /\ \A f \in Formats : avail'[f] \in Nat /\ avail'[f] <= avail[f]
    <3>1. CASE UNCHANGED avail
      BY <1>2, <3>1 DEF Has
    <3>2. CASE avail[First] > 0 /\ avail' = [avail EXCEPT ![First] = @ - 1]
      BY <1>2, <1>4, <3>2
    <3> QED BY <2>2, <3>1, <3>2
  <2>4. rcset = {} => avail' = NoData
    BY <1>4, <2>2 DEF FetchInv, DataInv
  <2>5. DataInv'
    <3>1. ASSUME NEW f \in Has'
          PROVE  /\ phase # 0 /\ f \in Stages[phase] /\ f \in Wanted
                 /\ Begun(f)' + avail'[f] <= Most(f)
                 /\ ~trouble => Begun(f)' + avail'[f] <= MaxChunks(f)
      <4>1. f \in Has /\ f \in Formats /\ avail'[f] \in Nat /\ avail'[f] <= avail[f] /\ avail[f] \in Nat
        BY <1>2, <2>3, <3>1 DEF Has
      <4>2. Begun(f)' = 0 /\ Begun(f) \in Nat
        BY <1>2, <2>1 DEF Begun
      <4>3. Most(f) \in Nat /\ MaxChunks(f) \in Nat
        BY <1>2, <4>1, Constants DEF Most
      <4> QED BY <4>1, <4>2, <4>3 DEF FetchInv, DataInv
    <3> QED BY <1>1, <1>3, <2>1, <2>4, <3>1 DEF DataInv
  <2>6. PaceInv' /\ HeldInv' /\ ChunkInv'
    BY <2>1 DEF PaceInv, HeldInv, ChunkInv, InShot
  <2> QED BY <2>5, <2>6 DEF FetchInv
<1> QED BY <1>1, <1>5, <1>6, <1>7

\* A step of the host that fetches nothing, and stays at the same exposure.
LEMMA QuietFetch ==
    ASSUME TypeInv, FetchInv,
           UNCHANGED <<setup, rcset, phase, avail, image>>,
           trouble => trouble',
           InShot' => InShot /\ Due' = Due /\ Left' = Left,
           pc' = "chunk" => chunks' = <<>>,
           pc' \in {"handle", "chunk"} /\ rcset # {} => rsdata' \subseteq Has
    PROVE  FetchInv'
<1>1. Stages' = Stages /\ Has' = Has /\ (\A q : Later(q)' = Later(q)) /\ (\A f : Most(f)' = Most(f))
  <2>1. Stages' = Stages
    BY DEF Stages
  <2>2. Has' = Has
    BY DEF Has
  <2> QED BY <2>1, <2>2 DEF Later, Most
<1>2. Coming' = Coming
  BY <1>1 DEF Coming
<1>3. PaceInv'
  BY <1>2 DEF FetchInv, PaceInv
<1>4. \A f : Begun(f)' = 0
  BY EmptySeq DEF Begun
<1>5. DataInv'
  <2>1. ASSUME NEW f \in Has
        PROVE  /\ Begun(f)' + avail[f] <= Most(f)
               /\ ~trouble => Begun(f)' + avail[f] <= MaxChunks(f)
    <3>1. f \in Formats /\ avail \in [Formats -> 0..JpgMax + 1] /\ JpgMax \in Nat /\ Len(chunks) \in Nat
      BY Constants, LenProperties DEF Has, TypeInv, TypeOK
    <3>2. Begun(f) \in Nat /\ avail[f] \in Nat /\ Most(f) \in Nat /\ MaxChunks(f) \in Nat
      BY <3>1, Constants DEF Begun, Most
    <3> QED BY <1>4, <3>2 DEF FetchInv, DataInv
  <2> QED BY <1>1, <2>1 DEF FetchInv, DataInv
<1>6. HeldInv'
  BY <1>1 DEF HeldInv
<1>7. ChunkInv'
  <2>1. pc' = "chunk" => 1..Len(chunks') = {}
    BY EmptySeq
  <2> QED BY <2>1 DEF ChunkInv
<1> QED BY <1>3, <1>5, <1>6, <1>7 DEF FetchInv

\* The steps of the host in the middle keep it in step with the camera.
LEMMA MiddleFetch ==
    ASSUME TypeInv, FetchInv, Middle
    PROVE  FetchInv'
<1>1. UNCHANGED <<rcset, phase, image, setup>>
  BY MiddleEffect DEF TypeInv
<1>2. CASE Chunk
  BY <1>2, ChunkFetch
<1>3. CASE GetData
  <2>1. pc = "get" /\ pc' = "status" /\ toget' = Wanted /\ UNCHANGED <<avail, shot, trouble>>
    BY <1>3 DEF GetData, Goto, capture
  <2>2. Due' = Due /\ Left' = Left
    BY <2>1, Constants DEF Due, Left, Loading, Fetching
  <2> QED BY <1>1, <2>1, <2>2, QuietFetch DEF InShot
<1>4. CASE GetStatus
  <2>1. /\ pc = "status" /\ pc' \in {"ready", "recover"} /\ (trouble => trouble')
        /\ UNCHANGED <<avail, shot, toget>>
    BY <1>4 DEF GetStatus, Goto, Fails, ThrowsInTrouble, Throws, capture, getvars
  <2>2. pc' = "ready" => Due' = Due /\ Left' = Left
    BY <2>1 DEF Due, Left, Loading, Fetching
  <2> QED BY <1>1, <2>1, <2>2, QuietFetch DEF InShot
<1>5. CASE GetReady
  <2>1. /\ pc = "ready" /\ pc' \in {"handle", "status", "recover"} /\ (trouble => trouble')
        /\ UNCHANGED <<avail, shot, toget>>
        /\ pc' = "handle" => rsdata' = ReadyNow
    BY <1>5 DEF GetReady, Goto, Fails, TimesOut, ThrowsInTrouble, Throws, capture
  <2>2. pc' # "recover" => Due' = Due /\ Left' = Left
    BY <2>1 DEF Due, Left, Loading, Fetching
  <2>3. rcset # {} => ReadyNow \subseteq Has
    BY DEF ReadyNow, Has
  <2> QED BY <1>1, <2>1, <2>2, <2>3, QuietFetch DEF InShot
<1>6. CASE Handle
  <2>1. /\ pc = "handle" /\ pc' \in {"msgs", "finish", "status", "chunk", "recover"}
        /\ pc' = "finish" => toget = {}
        /\ pc' = "chunk" => chunks' = <<>>
        /\ (trouble => trouble') /\ UNCHANGED <<avail, shot, toget, rsdata>>
    BY <1>6 DEF Handle, Goto, Throws, AfterData, capture
  <2>2. pc' # "recover" => Due' = Due /\ Left' = Left
    BY <2>1 DEF Due, Left, Loading, Fetching
  <2>3. rcset # {} => rsdata \subseteq Has
    BY <2>1 DEF FetchInv, HeldInv
  <2> QED BY <1>1, <2>1, <2>2, <2>3, QuietFetch DEF InShot
<1>7. CASE Msgs
  <2>1. /\ pc = "msgs" /\ pc' \in {"msgs", "finish", "status", "recover"}
        /\ pc' = "finish" => toget = {}
        /\ (trouble => trouble') /\ UNCHANGED <<avail, shot, toget>>
    <3>1. /\ pc = "msgs" /\ pc' \in {"msgs", AfterData, "recover"}
          /\ (trouble => trouble') /\ UNCHANGED <<avail, shot, toget>>
      BY <1>7, MsgsEffect DEF Msgs, capture, getvars, TypeInv
    <3>2. AfterData \in {"finish", "status"} /\ (AfterData = "finish" => toget = {})
      BY DEF AfterData
    <3> QED BY <3>1, <3>2
  <2>2. pc' # "recover" => Due' = Due /\ Left' = Left
    BY <2>1 DEF Due, Left, Loading, Fetching
  <2> QED BY <1>1, <2>1, <2>2, QuietFetch DEF InShot
<1>8. CASE Finish \/ LastMsgs \/ AwaitScript \/ ScriptMsgs
  <2>1. /\ pc \in {"finish", "lastmsgs", "waitscript", "scriptmsgs"}
        /\ pc' \in {"lastmsgs", "waitscript", "scriptmsgs", "shotdone", "recover"}
        /\ (trouble => trouble') /\ UNCHANGED <<avail, shot, toget>>
    <3>1. CASE Finish
      BY <3>1 DEF Finish, Goto, capture, getvars
    <3>2. CASE LastMsgs
      BY <3>2, MsgsEffect DEF LastMsgs, capture, getvars, TypeInv
    <3>3. CASE AwaitScript
      BY <3>3 DEF AwaitScript, Goto, Fails, ThrowsInTrouble, Throws, capture, getvars
    <3>4. CASE ScriptMsgs
      BY <3>4, MsgsEffect DEF ScriptMsgs, AfterWait, capture, getvars, TypeInv
    <3> QED BY <1>8, <3>1, <3>2, <3>3, <3>4
  <2>2. pc' # "recover" => Due' = Due /\ Left' = Left
    BY <2>1 DEF Due, Left, Loading, Fetching
  <2> QED BY <1>1, <2>1, <2>2, QuietFetch DEF InShot
<1>9. CASE ShotDone
  <2>1. /\ pc = "shotdone" /\ pc' \in {"get", "cleanup"} /\ shot' = shot + 1
        /\ UNCHANGED <<avail, toget, trouble>>
    BY <1>9 DEF ShotDone, Goto, capture, getvars
  <2>2. pc' = "get" => Due' = Due /\ Left' = Left
    BY <2>1 DEF Due, Left, Loading, Fetching
  <2> QED BY <1>1, <2>1, <2>2, QuietFetch DEF InShot
<1>10. CASE Recover \/ Stop \/ WaitEnd \/ Drain
  <2>1. pc' \in {"stop", "drain", "waitend", "cleanup"} /\ UNCHANGED <<avail, trouble>>
    BY <1>10 DEF Recover, Stop, WaitEnd, Drain, Skip, Break, Goto, capture
  <2> QED BY <1>1, <2>1, QuietFetch DEF InShot
<1> QED BY <1>2, <1>3, <1>4, <1>5, <1>6, <1>7, <1>8, <1>9, <1>10 DEF Middle

\* Every step keeps the camera and the host in step.
LEMMA FetchStep == TypeInv /\ IdleInv /\ FetchInv /\ [Next]_vars => FetchInv'
<1> SUFFICES ASSUME TypeInv, IdleInv, FetchInv, [Next]_vars PROVE FetchInv'
  OBVIOUS
<1>1. CASE RsInit \/ RsStart
  <2>1. phase = 0 /\ image = 0 /\ shot = 1 /\ pc \in {"init", "start"}
    BY <1>1 DEF RsInit, RsStart, IdleInv, Before
  <2>2. Has = {} /\ Later(phase) = {} /\ avail = NoData
    <3>1. Has = {}
      BY <2>1 DEF FetchInv, DataInv
    <3> QED BY <2>1, <3>1, HasNothing, LaterStages
  <2>3. /\ pc' \in {"start", "get", "errmsg", "done"}
        /\ UNCHANGED <<phase, image, shot, avail>>
    BY <1>1 DEF RsInit, RsStart, Goto, capture
  <2>4. Has' = {} /\ Later(phase)' = {} /\ Coming' = {}
    <3>1. Has' = {}
      BY <2>2, <2>3 DEF Has
    <3>2. Later(phase)' = {}
      BY <2>1, <2>3 DEF Later
    <3> QED BY <3>1, <3>2 DEF Coming
  <2>5. PaceInv'
    BY <2>1, <2>3, <2>4 DEF PaceInv, InShot, Due, Left, Loading, Fetching
  <2> QED BY <2>2, <2>3, <2>4, <2>5 DEF FetchInv, DataInv, HeldInv, ChunkInv
<1>2. CASE Cleanup
  <2>1. pc' = "done"
    BY <1>2 DEF Cleanup
  <2>2. CASE rcset' = {} /\ avail' = NoData
    <3>1. Has' = {}
      BY <2>2 DEF Has, NoData
    <3> QED BY <2>1, <2>2, <3>1 DEF FetchInv, PaceInv, DataInv, HeldInv, ChunkInv, InShot
  <2>3. CASE UNCHANGED <<rcset, phase, avail, image>>
    <3>1. UNCHANGED <<setup, trouble>>
      BY <1>2 DEF Cleanup
    <3> QED BY <2>1, <2>3, <3>1, QuietFetch DEF InShot
  <2> QED BY <1>2, <2>2, <2>3 DEF Cleanup, CleanedUp, capture
<1>3. CASE Middle
  BY <1>3, MiddleFetch
<1>4. CASE Camera
  BY <1>4, CameraFetch
<1>5. CASE UNCHANGED vars
  <2>1. First' = First
    BY <1>5, FirstKept DEF vars, hostVars, getvars
  <2>2. Stages' = Stages /\ Has' = Has /\ Due' = Due /\ Left' = Left /\ InShot' = InShot
    BY <1>5 DEF vars, hostVars, getvars, capture, Stages, Has, Due, Left, Loading, Fetching, InShot
  <2>3. Coming' = Coming
    BY <1>5, <2>2 DEF Coming, Later, vars, capture
  <2>4. PaceInv' /\ HeldInv' /\ ChunkInv'
    BY <1>5, <2>1, <2>2, <2>3 DEF FetchInv, PaceInv, HeldInv, ChunkInv, vars, hostVars, getvars, capture
  <2>5. (\A f : Begun(f)' = Begun(f)) /\ (\A f : Most(f)' = Most(f))
    BY <1>5, <2>1 DEF Begun, Most, vars, hostVars, getvars
  <2>6. DataInv'
    BY <1>5, <2>2, <2>5 DEF FetchInv, DataInv, vars, hostVars, capture
  <2> QED BY <2>4, <2>6 DEF FetchInv
<1>6. CASE ErrorMsg
  <2>1. pc' \in {"errmsg", "done"} /\ UNCHANGED <<rcset, phase, avail, image, setup, trouble>>
    BY <1>6, ErrorMsgEffect DEF TypeInv, capture
  <2> QED BY <2>1, QuietFetch DEF InShot
<1> QED BY <1>1, <1>2, <1>3, <1>4, <1>5, <1>6 DEF Next, Host, Middle

\* They are so at the start.
LEMMA InitFetch == Init => FetchInv
<1> SUFFICES ASSUME Init PROVE FetchInv
  OBVIOUS
<1>1. Has = {} /\ rcset = {} /\ avail = NoData
  BY DEF Init, Has, NoData
<1> QED BY <1>1 DEF Init, FetchInv, PaceInv, DataInv, HeldInv, ChunkInv

-----------------------------------------------------------------------------
(***************************************************************************)
(* The files                                                               *)
(***************************************************************************)
\* A file of shot i with all its chunks, in order, of the i-th exposure.
FileOk(i, f) ==
    \A j \in 1..Len(files[i][f]) :
        files[i][f][j] = [image |-> i, left |-> Len(files[i][f]) - j]

\* The formats of the shot that are stored by now.
Got ==
    IF Fetching THEN Wanted \ toget
    ELSE IF Before \/ pc = "get" THEN {} ELSE Wanted

\* What is stored is whole: every format of the shots before, those fetched of
\* the shot the host is at, and nothing of those to come.
FilesInv ==
    /\ \A i \in 1..Shots : \A f \in DOMAIN files[i] : i < shot \/ InShot => FileOk(i, f)
    /\ \A i \in 1..Shots : i < shot => DOMAIN files[i] = Wanted
    /\ \A i \in 1..Shots : i > shot => DOMAIN files[i] = {}
    /\ InShot \/ Before => DOMAIN files[shot] = Got

\* The header kept for the raw data is that of this exposure.
HeaderInv == Fetching /\ Dng /\ "dng_hdr" \notin toget => header = shot

\* The header of a DNG is there when its raw data is.
LEMMA HeaderIsThere ==
    ASSUME TypeInv, FetchInv, HeaderInv, pc = "chunk", First \in Has, Dng, First = "raw"
    PROVE  header = shot
<1>1. Coming = toget /\ First \in Stages[phase] /\ phase \in 1..Len(Stages)
  BY DataIsOfShot
<1>2. /\ Len(Stages) \in Nat
      /\ \A i, j \in 1..Len(Stages) :
            "dng_hdr" \in Stages[i] /\ "raw" \in Stages[j] => i < j
  BY StageTypes DEF TypeInv, TypeOK
<1>3. "dng_hdr" \notin Has
  <2> SUFFICES ASSUME "dng_hdr" \in Has PROVE FALSE
    OBVIOUS
  <2>1. "dng_hdr" \in Stages[phase]
    BY DEF FetchInv, DataInv
  <2>2. phase < phase
    BY <1>1, <1>2, <2>1
  <2> QED BY <1>1, <2>2
<1>4. "dng_hdr" \notin Later(phase)
  <2> SUFFICES ASSUME "dng_hdr" \in Later(phase) PROVE FALSE
    OBVIOUS
  <2>1. PICK i \in phase + 1..Len(Stages) : "dng_hdr" \in Stages[i]
    BY DEF Later
  <2>2. i \in 1..Len(Stages) /\ ~(i < phase)
    BY <1>1, <1>2
  <2> QED BY <1>1, <1>2, <2>1, <2>2
<1>5. "dng_hdr" \notin toget
  BY <1>1, <1>3, <1>4 DEF Coming
<1> QED BY <1>5 DEF HeaderInv, Fetching

\* The elements of two sequences put together.
LEMMA ConcatElements ==
    \A r, t \in Seq(Chunks) :
        /\ \A i \in 1..Len(r) : (r \o t)[i] = r[i]
        /\ \A i \in 1..Len(t) : (r \o t)[Len(r) + i] = t[i]
<1> TAKE r, t \in Seq(Chunks)
<1>1. \A i \in 1..Len(r) + Len(t) :
         (r \o t)[i] = IF i <= Len(r) THEN r[i] ELSE t[i - Len(r)]
  BY ConcatProperties
<1>2. Len(r) \in Nat /\ Len(t) \in Nat
  BY LenProperties
<1>3. ASSUME NEW i \in 1..Len(r) PROVE (r \o t)[i] = r[i]
  BY <1>1, <1>2
<1>4. ASSUME NEW i \in 1..Len(t) PROVE (r \o t)[Len(r) + i] = t[i]
  <2>1. Len(r) + i \in 1..Len(r) + Len(t) /\ ~(Len(r) + i <= Len(r)) /\ (Len(r) + i) - Len(r) = i
    BY <1>2
  <2> QED BY <1>1, <2>1
<1> QED BY <1>3, <1>4

\* The last chunk makes the file whole.
LEMMA LastChunk ==
    ASSUME TypeInv, FetchInv, HeaderInv, Chunk, Ended
    PROVE  \A j \in 1..Len(files'[shot][First]) :
              files'[shot][First][j] = [image |-> shot, left |-> Len(files'[shot][First]) - j]
<1>1. /\ pc = "chunk" /\ First \in toget /\ First \in Formats /\ avail[First] = 1
      /\ shot' = shot /\ shot <= Shots
  BY ChunkEffect DEF Ended, TypeInv, HostTypes, InShot
<1>2. First \in Has
  BY <1>1 DEF Has
<1>3. image = shot /\ Begun(First) = Len(chunks)
  BY <1>1, <1>2, DataIsOfShot
<1>4. /\ New \in Seq(Chunks) /\ Header \in Seq(Chunks)
      /\ Len(New) = Len(chunks) + 1 /\ Len(chunks) \in Nat
      /\ Len(Header) = IF Dng /\ First = "raw" THEN 1 ELSE 0
      /\ Len(Header \o New) = Len(Header) + Len(New)
      /\ \A j \in 1..Len(chunks) : New[j] = chunks[j]
      /\ New[Len(chunks) + 1] = [image |-> image, left |-> avail[First] - 1]
  BY <1>1, NewChunks
<1>5. \A j \in 1..Len(New) : New[j] = [image |-> shot, left |-> Len(New) - j]
  <2> TAKE j \in 1..Len(New)
  <2>1. CASE j = Len(chunks) + 1
    <3>1. avail[First] - 1 = Len(New) - j
      BY <1>1, <1>4, <2>1
    <3> QED BY <1>3, <1>4, <2>1, <3>1
  <2>2. CASE j # Len(chunks) + 1
    <3>1. j \in 1..Len(chunks)
      BY <1>4, <2>2
    <3>2. chunks[j] = [image |-> shot, left |-> avail[First] + (Len(chunks) - j)]
      BY <1>1, <1>2, <3>1 DEF FetchInv, ChunkInv
    <3>3. avail[First] + (Len(chunks) - j) = Len(New) - j
      BY <1>1, <1>4, <3>1
    <3> QED BY <1>4, <3>1, <3>2, <3>3
  <2> QED BY <2>1, <2>2
<1> DEFINE data == Header \o New
<1>6. \A j \in 1..Len(data) : data[j] = [image |-> shot, left |-> Len(data) - j]
  <2>1. CASE Dng /\ First = "raw"
    <3>1. Header = <<[image |-> shot, left |-> 1]>> /\ Len(Header) = 1
      BY <1>1, <1>2, <1>4, <2>1, HeaderIsThere DEF Header
    <3>2. Len(New) = 1
      <4>1. Begun(First) + avail[First] <= 1
        BY <1>2, <2>1 DEF FetchInv, DataInv, Most, RawTypes
      <4> QED BY <1>1, <1>3, <1>4, <4>1
    <3>3. Len(data) = 2
      <4>1. Len(data) = 1 + 1
        BY <1>4, <3>1, <3>2, Zenon
      <4> QED BY <4>1
    <3>4. /\ \A i \in 1..Len(Header) : data[i] = Header[i]
          /\ \A i \in 1..Len(New) : data[Len(Header) + i] = New[i]
      <4>1. \A r, t \in Seq(Chunks) :
               /\ \A i \in 1..Len(r) : (r \o t)[i] = r[i]
               /\ \A i \in 1..Len(t) : (r \o t)[Len(r) + i] = t[i]
        BY ConcatElements
      <4> QED BY <1>4, <4>1, Zenon
    <3>5. data[1] = [image |-> shot, left |-> 1]
      <4>1. 1 \in 1..Len(Header) /\ Header[1] = [image |-> shot, left |-> 1]
        BY <3>1
      <4> QED BY <3>4, <4>1, Zenon
    <3>6. data[2] = [image |-> shot, left |-> 0]
      <4>1. 1 \in 1..Len(New) /\ Len(New) - 1 = 0 /\ Len(Header) + 1 = 2
        BY <3>1, <3>2
      <4>2. data[Len(Header) + 1] = New[1]
        BY <3>4, <4>1, Zenon
      <4>3. New[1] = [image |-> shot, left |-> Len(New) - 1]
        BY <1>5, <4>1, Zenon
      <4> QED BY <4>1, <4>2, <4>3, Zenon
    <3> HIDE DEF data
    <3> QED BY <3>3, <3>5, <3>6
  <2>2. CASE ~(Dng /\ First = "raw")
    <3>1. Header = <<>>
      BY <2>2, Zenon DEF Header
    <3>2. data = New
      BY <1>4, <3>1, ConcatEmptySeq
    <3> QED BY <1>5, <3>2
  <2> QED BY <2>1, <2>2
<1>7. files'[shot][First] = data
  BY <1>1, StoredFiles
<1> HIDE DEF data
<1> QED BY <1>6, <1>7

\* A step that stores nothing keeps the files whole.
LEMMA QuietFiles ==
    ASSUME TypeInv, FilesInv, UNCHANGED <<files, setup>>,
           shot' = shot, InShot' => InShot /\ Got' = Got, Before' => Before
    PROVE  FilesInv'
<1>1. shot \in 1..Shots + 1 /\ Shots \in Nat /\ DOMAIN files = 1..Shots
  BY Constants DEF TypeInv, TypeOK, HostTypes
<1>2. \A i, f : FileOk(i, f)' = FileOk(i, f)
  BY DEF FileOk
<1>3. Before' => Got' = Got
  BY DEF Got, Before, Fetching
<1> QED BY <1>1, <1>2, <1>3 DEF FilesInv

\* A format that is complete is whole, and the others stay as they were.
LEMMA ChunkFiles ==
    ASSUME TypeInv, FetchInv, HeaderInv, FilesInv, Chunk
    PROVE  FilesInv' /\ HeaderInv'
<1>1. /\ pc = "chunk" /\ First \in toget /\ First \in Wanted
      /\ UNCHANGED <<image, setup, shot>>
      /\ Ended \/ Continued \/ Thrown
  BY ChunkEffect
<1>2. /\ shot \in 1..Shots /\ shot <= Shots /\ Shots \in Nat /\ DOMAIN files = 1..Shots
      /\ toget \subseteq Wanted
  BY <1>1, Constants DEF TypeInv, TypeOK, HostTypes, InShot
<1>3. Dng' = Dng
  BY <1>1 DEF Dng
<1>4. CASE Ended
  <2>1. /\ pc' = "handle" /\ toget' = toget \ {First}
        /\ header' = IF Dng /\ First = "dng_hdr" THEN image ELSE header
    BY <1>4 DEF Ended
  <2>2. Got = Wanted \ toget /\ Got' = Wanted \ toget' /\ Got' = {First} \cup Got
    BY <1>1, <1>2, <2>1 DEF Got, Fetching
  <2>3. /\ DOMAIN files' = 1..Shots
        /\ \A i \in 1..Shots : i # shot => files'[i] = files[i]
        /\ DOMAIN files'[shot] = {First} \cup DOMAIN files[shot]
        /\ \A g \in DOMAIN files[shot] : g # First => files'[shot][g] = files[shot][g]
    BY <1>2, <1>4, StoredFiles
  <2>4. \A j \in 1..Len(files'[shot][First]) :
              files'[shot][First][j] = [image |-> shot, left |-> Len(files'[shot][First]) - j]
    BY <1>4, LastChunk
  <2>5. InShot /\ InShot'
    BY <1>1, <2>1 DEF InShot
  <2>6. ASSUME NEW i \in 1..Shots, NEW f \in DOMAIN files'[i]
        PROVE  \A j \in 1..Len(files'[i][f]) :
                  files'[i][f][j] = [image |-> i, left |-> Len(files'[i][f]) - j]
    <3>1. CASE i = shot /\ f = First
      BY <2>4, <3>1
    <3>2. CASE ~(i = shot /\ f = First)
      <4>1. f \in DOMAIN files[i] /\ files'[i][f] = files[i][f]
        BY <2>3, <2>6, <3>2
      <4>2. FileOk(i, f)
        BY <2>5, <4>1 DEF FilesInv
      <4> QED BY <4>1, <4>2 DEF FileOk
    <3> QED BY <3>1, <3>2
  <2>7. DOMAIN files'[shot] = Got'
    BY <2>2, <2>3, <2>5 DEF FilesInv
  <2>8. FilesInv'
    <3>1. \A i \in 1..Shots : i < shot => DOMAIN files'[i] = Wanted
      BY <1>2, <2>3 DEF FilesInv
    <3>2. \A i \in 1..Shots : i > shot => DOMAIN files'[i] = {}
      BY <1>2, <2>3 DEF FilesInv
    <3> QED BY <1>1, <2>6, <2>7, <3>1, <3>2 DEF FilesInv, FileOk
  <2>9. HeaderInv'
    <3>1. First = "dng_hdr" => image = shot
      <4>1. First \in Has
        BY <1>1, <1>4, Constants DEF Ended, Has
      <4> QED BY <1>1, <4>1, DataIsOfShot
    <3> QED BY <1>1, <1>3, <2>1, <3>1 DEF HeaderInv, Fetching
  <2> QED BY <2>8, <2>9
<1>5. CASE Continued
  <2>1. UNCHANGED <<pc, toget, header, files>>
    BY <1>5 DEF Continued
  <2>2. Got' = Got /\ InShot' = InShot /\ Before' = Before
    BY <2>1 DEF Got, InShot, Before, Fetching
  <2>3. HeaderInv'
    BY <1>1, <1>3, <2>1 DEF HeaderInv, Fetching
  <2> QED BY <1>1, <2>1, <2>2, <2>3, QuietFiles
<1>6. CASE Thrown
  <2>1. pc' = "recover" /\ UNCHANGED files
    BY <1>6 DEF Thrown
  <2> QED BY <1>1, <2>1, QuietFiles DEF HeaderInv, InShot, Before, Fetching
<1> QED BY <1>1, <1>4, <1>5, <1>6

\* The steps of the host in the middle keep the files whole.
LEMMA MiddleFiles ==
    ASSUME TypeInv, FetchInv, HeaderInv, FilesInv, Middle
    PROVE  FilesInv' /\ HeaderInv'
<1>1. UNCHANGED setup
  BY MiddleEffect DEF TypeInv
<1>2. Dng' = Dng
  BY <1>1 DEF Dng
<1>3. toget \subseteq Wanted /\ (Dng => "dng_hdr" \in Wanted)
  BY StageTypes DEF TypeInv, TypeOK, RawTypes
<1>4. CASE Chunk
  BY <1>4, ChunkFiles
<1>5. CASE GetData
  <2>1. pc = "get" /\ pc' = "status" /\ toget' = Wanted /\ UNCHANGED <<files, shot>>
    BY <1>5 DEF GetData, Goto
  <2>2. Got' = Got
    BY <2>1 DEF Got, Fetching
  <2>3. HeaderInv'
    BY <1>2, <1>3, <2>1 DEF HeaderInv
  <2> QED BY <1>1, <2>1, <2>2, <2>3, QuietFiles DEF InShot, Before
<1>6. CASE GetStatus \/ GetReady \/ Handle \/ Msgs
  <2>1. /\ UNCHANGED <<files, shot, toget, header>>
        /\ pc \in {"status", "ready", "handle", "msgs"}
        /\ pc' \in {"status", "ready", "handle", "msgs", "chunk", "recover", "finish"}
        /\ pc' = "finish" => toget = {}
    <3>1. CASE GetStatus
      BY <3>1 DEF GetStatus, Goto, Fails, ThrowsInTrouble, Throws, getvars
    <3>2. CASE GetReady
      BY <3>2 DEF GetReady, Goto, Fails, TimesOut, ThrowsInTrouble, Throws
    <3>3. CASE Handle
      BY <3>3 DEF Handle, Goto, Throws, AfterData
    <3>4. CASE Msgs
      <4>1. /\ pc = "msgs" /\ pc' \in {"msgs", AfterData, "recover"}
            /\ UNCHANGED <<shot, getvars>>
        BY <3>4, MsgsEffect DEF Msgs, TypeInv
      <4>2. AfterData \in {"finish", "status"} /\ (AfterData = "finish" => toget = {})
        BY DEF AfterData
      <4> QED BY <4>1, <4>2 DEF getvars
    <3> QED BY <1>6, <3>1, <3>2, <3>3, <3>4
  <2>2. pc' # "recover" => Got' = Got
    BY <2>1 DEF Got, Fetching, Before
  <2>3. HeaderInv'
    BY <1>2, <2>1 DEF HeaderInv, Fetching
  <2> QED BY <1>1, <2>1, <2>2, <2>3, QuietFiles DEF InShot, Before
<1>7. CASE Finish \/ LastMsgs \/ AwaitScript \/ ScriptMsgs
  <2>1. /\ pc \in {"finish", "lastmsgs", "waitscript", "scriptmsgs"}
        /\ pc' \in {"lastmsgs", "waitscript", "scriptmsgs", "shotdone", "recover"}
        /\ UNCHANGED <<shot, files>>
    <3>1. CASE Finish
      BY <3>1 DEF Finish, Goto, getvars
    <3>2. CASE LastMsgs
      BY <3>2, MsgsEffect DEF LastMsgs, getvars, TypeInv
    <3>3. CASE AwaitScript
      BY <3>3 DEF AwaitScript, Goto, Fails, ThrowsInTrouble, Throws, getvars
    <3>4. CASE ScriptMsgs
      BY <3>4, MsgsEffect DEF ScriptMsgs, AfterWait, getvars, TypeInv
    <3> QED BY <1>7, <3>1, <3>2, <3>3, <3>4
  <2>2. pc' # "recover" => Got' = Got
    BY <2>1 DEF Got, Fetching, Before
  <2> QED BY <1>1, <2>1, <2>2, QuietFiles DEF InShot, Before, HeaderInv, Fetching
<1>8. CASE ShotDone
  <2>1. /\ pc = "shotdone" /\ shot' = shot + 1 /\ files' = files
        /\ pc' \in {"get", "cleanup"} /\ (pc' = "get" => shot + 1 <= Shots)
    <3>1. shot \in Nat /\ Shots \in Nat
      BY Constants DEF TypeInv, TypeOK
    <3> QED BY <1>8, <3>1 DEF ShotDone, Goto, getvars
  <2>2. /\ shot \in 1..Shots /\ Shots \in Nat /\ DOMAIN files[shot] = Wanted
        /\ \A i \in 1..Shots : \A f \in DOMAIN files[i] : FileOk(i, f)
    BY <2>1, Constants DEF FilesInv, InShot, Before, Got, Fetching, TypeInv, TypeOK, HostTypes
  <2>3. \A i, f : FileOk(i, f)' = FileOk(i, f)
    BY <2>1 DEF FileOk
  <2>4. \A i \in 1..Shots : i < shot + 1 => i < shot \/ i = shot
    BY <2>2
  <2>5. \A i \in 1..Shots : i < shot' => DOMAIN files'[i] = Wanted
    BY <2>1, <2>2, <2>4 DEF FilesInv
  <2>6. \A i \in 1..Shots : i > shot' => DOMAIN files'[i] = {}
    BY <2>1, <2>2 DEF FilesInv
  <2>7. pc' = "get" => DOMAIN files'[shot'] = {}
    <3>1. shot + 1 <= Shots => shot + 1 \in 1..Shots /\ shot + 1 > shot
      BY <2>2
    <3> QED BY <2>1, <3>1 DEF FilesInv
  <2>8. FilesInv'
    BY <2>1, <2>2, <2>3, <2>5, <2>6, <2>7 DEF FilesInv, InShot, Before, Got, Fetching
  <2> QED BY <2>1, <2>8 DEF HeaderInv, Fetching
<1>9. CASE Recover \/ Stop \/ WaitEnd \/ Drain
  <2>1. pc' \in {"stop", "drain", "waitend", "cleanup"} /\ UNCHANGED <<files, shot>>
    BY <1>9 DEF Recover, Stop, WaitEnd, Drain, Skip, Break, Goto, getvars
  <2> QED BY <1>1, <2>1, QuietFiles DEF InShot, Before, HeaderInv, Fetching
<1> QED BY <1>4, <1>5, <1>6, <1>7, <1>8, <1>9 DEF Middle

\* Every step keeps the files whole.
LEMMA FilesStep == TypeInv /\ FetchInv /\ HeaderInv /\ FilesInv /\ [Next]_vars
                      => FilesInv' /\ HeaderInv'
<1> SUFFICES ASSUME TypeInv, FetchInv, HeaderInv, FilesInv, [Next]_vars
             PROVE  FilesInv' /\ HeaderInv'
  OBVIOUS
<1>1. CASE RsInit \/ RsStart \/ ErrorMsg \/ Cleanup
  <2>1. /\ pc \in {"init", "start", "errmsg", "cleanup"} /\ pc' \in {"start", "get", "errmsg", "done"}
        /\ UNCHANGED <<files, setup, shot>>
        /\ pc' \in {"start", "get"} => Before
    BY <1>1 DEF RsInit, RsStart, ErrorMsg, Cleanup, Goto, getvars, Before
  <2>2. CASE pc' = "get"
    <3>1. \A i, f : FileOk(i, f)' = FileOk(i, f)
      BY <2>1 DEF FileOk
    <3>2. DOMAIN files[shot] = {} /\ shot \in 1..Shots + 1 /\ Shots \in Nat
      BY <2>1, <2>2, Constants DEF FilesInv, Got, Before, Fetching, TypeInv, TypeOK
    <3>3. Got' = {}
      BY <2>2 DEF Got, Fetching
    <3>4. \A i \in 1..Shots : i < shot \/ i = shot \/ i > shot
      BY <3>2
    <3>5. \A i \in 1..Shots : \A f \in DOMAIN files[i] : FileOk(i, f)
      BY <3>2, <3>4 DEF FilesInv
    <3> QED BY <2>1, <2>2, <3>1, <3>2, <3>3, <3>5 DEF FilesInv, HeaderInv, Fetching
  <2>3. CASE pc' # "get"
    BY <2>1, <2>3, QuietFiles DEF InShot, Before, HeaderInv, Fetching
  <2> QED BY <2>2, <2>3
<1>2. CASE Middle
  BY <1>2, MiddleFiles
<1>3. CASE Camera \/ UNCHANGED vars
  <2>1. UNCHANGED hostVars
    BY <1>3, CameraEffect DEF vars
  <2>2. Got' = Got /\ InShot' = InShot /\ Before' = Before
    BY <2>1 DEF Got, InShot, Before, Fetching, hostVars, getvars
  <2>3. HeaderInv'
    BY <2>1 DEF HeaderInv, Fetching, Dng, hostVars, getvars
  <2> QED BY <2>1, <2>2, <2>3, QuietFiles DEF hostVars, getvars
<1> QED BY <1>1, <1>2, <1>3 DEF Next, Host, Middle

\* They are so at the start.
LEMMA InitFiles == Init => FilesInv /\ HeaderInv
<1> SUFFICES ASSUME Init PROVE FilesInv /\ HeaderInv
  OBVIOUS
<1>1. (\A i \in 1..Shots : DOMAIN files[i] = {}) /\ shot = 1 /\ pc = "init" /\ 1 \in 1..Shots
  BY Constants DEF Init
<1>2. \A i \in 1..Shots : ~(i < 1)
  OBVIOUS
<1> QED BY <1>1, <1>2 DEF FilesInv, HeaderInv, Got, Fetching, Before

\* All of it together.
ShootInv ==
    TypeInv /\ IdleInv /\ OverInv /\ FetchInv /\ HeaderInv /\ FilesInv

\* The inductive invariant holds in every reachable state.
LEMMA ShootHolds == Spec => []ShootInv
  BY InitTypes, TypesStep, InitOver, IdleStep, OverStep, InitFetch, FetchStep,
     InitFiles, FilesStep, PTL DEF Spec, ShootInv

\* A shot the loop has finished has stored every format asked for, with every
\* chunk of it in order and all from its own exposure, the header of a DNG
\* too: whatever the camera and the host do meanwhile, and however a shot
\* before it went, the i-th shot of the command is the i-th exposure.
THEOREM WholeShots == Spec => []ShotsWhole
<1>1. ShootInv => ShotsWhole
  <2> SUFFICES ASSUME ShootInv, NEW i \in 1..shot - 1
               PROVE  /\ DOMAIN files[i] = Wanted
                      /\ \A f \in Wanted : \A j \in 1..Len(files[i][f]) :
                            files[i][f][j] = [image |-> i, left |-> Len(files[i][f]) - j]
    BY DEF ShotsWhole
  <2>1. shot \in 1..Shots + 1 /\ Shots \in Nat
    BY Constants DEF ShootInv, TypeInv, TypeOK
  <2>2. i \in 1..Shots /\ i < shot
    BY <2>1
  <2> QED BY <2>2 DEF ShootInv, FilesInv, FileOk
<1> QED BY <1>1, ShootHolds, PTL

-----------------------------------------------------------------------------
(***************************************************************************)
(* False alarms                                                            *)
(***************************************************************************)
\* Only a script that has returned a value makes a return message wait.
RetInv == ReturnWaits => Returned

\* A read leaves no return message that was not there.
LEMMA ReadReturns ==
    ASSUME CamTypes, ReturnWaits',
           msgq' = msgq \/ msgq' = <<>> \/ (msgq # <<>> /\ msgq' = Tail(msgq))
    PROVE  ReturnWaits
<1>1. CASE msgq' = msgq
  BY <1>1 DEF ReturnWaits
<1>2. CASE msgq' = <<>>
  BY <1>2 DEF ReturnWaits
<1>3. CASE msgq # <<>> /\ msgq' = Tail(msgq)
  <2>1. PICK i \in 1..Len(msgq') : msgq'[i].type = "return"
    BY DEF ReturnWaits
  <2>2. /\ Len(msgq) \in Nat /\ Len(msgq') = Len(msgq) - 1
        /\ \A k \in 1..Len(msgq') : msgq'[k] = msgq[k + 1]
    BY <1>3, HeadTailProperties, LenProperties DEF CamTypes
  <2>3. i + 1 \in 1..Len(msgq) /\ msgq[i + 1].type = "return"
    BY <2>1, <2>2
  <2> QED BY <2>3 DEF ReturnWaits
<1> QED BY <1>1, <1>2, <1>3

\* What the script posts is among what it has posted.
LEMMA PostReturns ==
    ASSUME CamTypes, RetInv, CamPost \/ CamPostGiveUp \/ CamEnd
    PROVE  RetInv' /\ (Returned => Returned')
<1>1. CASE UNCHANGED <<msgq, posted>>
  BY <1>1 DEF RetInv, ReturnWaits, Returned
<1>2. CASE CamPost
  <2>1. PICK m : m = Message(Head(todo))
    OBVIOUS
  <2>2. m \in Posts /\ msgq' = Append(msgq, m) /\ posted' = Append(posted, m)
    BY <1>2, <2>1, LenProperties DEF CamPost, Message, Posts, CamTypes
  <2>3. /\ Len(msgq) \in Nat /\ Len(msgq') = Len(msgq) + 1
        /\ \A k \in 1..Len(msgq) : msgq'[k] = msgq[k]
        /\ msgq'[Len(msgq) + 1] = m
    BY <2>2, AppendProperties, LenProperties DEF CamTypes
  <2>4. /\ Len(posted) \in Nat /\ Len(posted') = Len(posted) + 1
        /\ \A k \in 1..Len(posted) : posted'[k] = posted[k]
        /\ posted'[Len(posted) + 1] = m
    BY <2>2, AppendProperties, LenProperties DEF CamTypes
  <2>5. Returned => Returned'
    <3> SUFFICES ASSUME Returned PROVE Returned'
      OBVIOUS
    <3>1. PICK i \in 1..Len(posted) : posted[i].type = "return"
      BY DEF Returned
    <3>2. i \in 1..Len(posted') /\ posted'[i].type = "return"
      BY <2>4, <3>1
    <3> QED BY <3>2 DEF Returned
  <2>6. m.type = "return" => Returned'
    <3>1. Len(posted) + 1 \in 1..Len(posted')
      BY <2>4
    <3> QED BY <2>4, <3>1 DEF Returned
  <2>7. ReturnWaits' => Returned'
    <3> SUFFICES ASSUME ReturnWaits' PROVE Returned'
      OBVIOUS
    <3>1. PICK i \in 1..Len(msgq') : msgq'[i].type = "return"
      BY DEF ReturnWaits
    <3>2. i \in 1..Len(msgq) \/ i = Len(msgq) + 1
      BY <2>3
    <3>3. CASE i = Len(msgq) + 1
      BY <2>3, <2>6, <3>1, <3>3
    <3>4. CASE i \in 1..Len(msgq)
      <4>1. msgq[i].type = "return"
        BY <2>3, <3>1, <3>4
      <4>2. ReturnWaits
        BY <3>4, <4>1 DEF ReturnWaits
      <4> QED BY <2>5, <4>2 DEF RetInv
    <3> QED BY <3>2, <3>3, <3>4
  <2> QED BY <2>5, <2>7 DEF RetInv
<1>3. CASE CamPostGiveUp \/ CamEnd
  BY <1>1, <1>3 DEF CamPostGiveUp, CamEnd
<1> QED BY <1>2, <1>3

\* A new script starts with an empty queue.
LEMMA ExecReturns ==
    ASSUME CamTypes, RetInv, NEW s, NEW id \in 0..MaxExec, NEW st,
           CamExec(s, [nokill |-> TRUE, flushcam |-> TRUE, flushhost |-> TRUE], id, st)
    PROVE  RetInv'
<1>1. CASE UNCHANGED camera
  BY <1>1 DEF RetInv, ReturnWaits, Returned, camera
<1>2. CASE ~UNCHANGED camera
  <2> DEFINE e == [sid |-> id, type |-> "error", n |-> 1]
  <2>1. IF s.ok THEN msgq' = <<>>
        ELSE msgq' = IF Len(<<>>) < QueueLen THEN Append(<<>>, e) ELSE <<>>
    BY <1>2 DEF CamExec
  <2>2. e.type = "error"
    OBVIOUS
  <2>3. msgq' = <<>> \/ msgq' = Append(<<>>, e)
    BY <2>1, Zenon
  <2> HIDE DEF e
  <2>4. msgq' = <<>> \/ msgq' = <<e>>
    BY <2>3
  <2>5. ~ReturnWaits'
    <3> SUFFICES ASSUME NEW i \in 1..Len(msgq'), msgq'[i].type = "return" PROVE FALSE
      BY DEF ReturnWaits
    <3>1. msgq' = <<e>> /\ i = 1
      BY <2>4
    <3>2. msgq'[i] = e
      BY <3>1
    <3> QED BY <2>2, <3>2
  <2> QED BY <2>5 DEF RetInv
<1> QED BY <1>1, <1>2

\* Every step keeps that, and only the start of a script forgets its values.
LEMMA RetStep ==
    ASSUME TypeInv, RetInv, [Next]_vars
    PROVE  RetInv' /\ (Returned => Returned' \/ pc = "start")
<1>0. CamTypes
  BY DEF TypeInv
<1>1. CASE RsInit \/ UNCHANGED vars
  BY <1>1 DEF RsInit, vars, scriptVars, camera, RetInv, ReturnWaits, Returned
<1>2. CASE RsStart
  <2> DEFINE flags == [nokill |-> TRUE, flushcam |-> TRUE, flushhost |-> TRUE]
  <2>1. pc = "start"
    BY <1>2 DEF RsStart
  <2>2. \/ UNCHANGED camera
        \/ \E s \in Scripts, id \in 0..MaxExec, st \in {"none", "compile"} \cup ExecAnswers :
              CamExec(s, flags, id, st)
    BY <1>2 DEF RsStart, ExecDone, ExecLost
  <2>3. CASE UNCHANGED camera
    BY <2>1, <2>3 DEF RetInv, ReturnWaits, Returned, camera
  <2>4. CASE ~UNCHANGED camera
    <3>1. PICK s \in Scripts, id \in 0..MaxExec, st \in {"none", "compile"} \cup ExecAnswers :
             CamExec(s, flags, id, st)
      BY <2>2, <2>4
    <3> QED BY <1>0, <2>1, <3>1, ExecReturns
  <2> QED BY <2>3, <2>4
<1>3. CASE Middle \/ ErrorMsg
  <2>1. posted' = posted
    BY <1>0, <1>3, MiddleEffect, ErrorMsgEffect
  <2>2. msgq' = msgq \/ msgq' = <<>> \/ (msgq # <<>> /\ msgq' = Tail(msgq))
    BY <1>0, <1>3, QueueEffect
  <2> QED BY <1>0, <2>1, <2>2, ReadReturns DEF RetInv, Returned
<1>4. CASE Cleanup
  <2>1. posted' = posted /\ (msgq' = msgq \/ msgq' = <<>>)
    BY <1>4 DEF Cleanup, CleanedUp, scriptVars, camera
  <2> QED BY <1>0, <2>1, ReadReturns DEF RetInv, Returned
<1>5. CASE Camera
  <2>1. CASE CamRuns
    BY <1>0, <2>1, PostReturns DEF CamRuns
  <2>2. CASE ~CamRuns
    <3>1. UNCHANGED <<msgq, posted>>
      BY <1>5, <2>2 DEF Camera, CamShoot, CamStage, CamShotDone, CamCancel, CamPause,
         CamError, scriptVars, camera
    <3> QED BY <3>1 DEF RetInv, ReturnWaits, Returned
  <2> QED BY <2>1, <2>2
<1> QED BY <1>1, <1>2, <1>3, <1>4, <1>5 DEF Next, Host, Middle

\* The host asks for data only while it lacks some, and what it has seen ready
\* is wanted; without trouble the capture stays set, and nothing fails.
AlarmInv ==
    /\ pc \in {"status", "ready"} => toget # {}
    /\ pc \in {"handle", "chunk"} /\ rcset # {} => rsdata \subseteq toget
    /\ pc \notin {"init", "done"} /\ ~trouble => rcset = Wanted
    /\ status = "failed" => trouble \/ faults > 0 \/ Returned

\* No format is unexpected, and none is not set, unless there is trouble.
LEMMA HandleSure ==
    ASSUME TypeInv, FetchInv, AlarmInv, Handle, ~trouble
    PROVE  status' = status
<1>1. pc = "handle" /\ rcset = Wanted /\ rcset # {}
  BY Constants DEF AlarmInv, Handle
<1>2. rsdata \subseteq toget /\ rsdata \subseteq Formats
  BY <1>1 DEF AlarmInv, FetchInv, HeldInv, Has
<1>3. rsdata # {} => First \in toget /\ rsdata # {"notset"}
  BY <1>2, FirstIsReady, Constants
<1> QED BY <1>3 DEF Handle, Goto

\* No chunk is missing, too many or without its header, unless there is
\* trouble.
LEMMA ChunkSure ==
    ASSUME TypeInv, FetchInv, HeaderInv, AlarmInv, Chunk, Thrown, ~trouble
    PROVE  trouble'
<1>1. pc = "chunk" /\ rcset = Wanted /\ rcset # {} /\ First \in Formats /\ avail[First] \in Nat
  BY ChunkEffect, Constants DEF AlarmInv
<1>2. First \in Has /\ avail[First] > 0
  BY <1>1, FetchedIsThere DEF Has
<1>3. ~NoHeader
  <2>1. shot \in Nat /\ shot # 0
    BY Constants DEF TypeInv, TypeOK
  <2>2. Dng /\ First = "raw" => header = shot
    BY <1>1, <1>2, HeaderIsThere
  <2> QED BY <2>1, <2>2 DEF NoHeader
<1>4. ~TooMany(Len(New), First)
  <2>1. Len(New) = Len(chunks) + 1 /\ Len(chunks) \in Nat
    BY <1>1, <1>2, NewChunks
  <2>2. Begun(First) = Len(chunks)
    BY <1>1, <1>2, DataIsOfShot
  <2>3. Begun(First) + avail[First] <= MaxChunks(First)
    BY <1>2 DEF FetchInv, DataInv
  <2>4. MaxChunks(First) \in Nat
    BY <1>1, Constants
  <2> QED BY <1>1, <1>2, <2>1, <2>2, <2>3, <2>4 DEF TooMany
<1> QED BY <1>2, <1>3, <1>4 DEF Thrown

\* The steps of the host in the middle fail only in trouble,
LEMMA AlarmMiddle ==
    ASSUME TypeInv, FetchInv, HeaderInv, AlarmInv, RetInv, Middle
    PROVE  AlarmInv'
<1>1. /\ rcset' = rcset
      /\ faults' = faults \/ faults' > 0
      /\ Returned' = Returned
  BY MiddleEffect DEF TypeInv, Returned
<1>2. pc \notin {"init", "done"}
  BY MiddlePlaces
<1>3. faults \in Nat
  BY DEF TypeInv, CamTypes
<1>4. CASE Chunk
  <2>1. pc = "chunk"
    BY <1>4, ChunkEffect
  <2>2. CASE Ended
    BY <1>1, <1>2, <2>1, <2>2 DEF Ended, AlarmInv
  <2>3. CASE Continued
    BY <1>1, <1>2, <2>1, <2>3 DEF Continued, AlarmInv
  <2>4. CASE Thrown
    <3>1. pc' = "recover" /\ trouble'
      <4>1. trouble => trouble'
        BY <2>4 DEF Thrown
      <4> QED BY <1>4, <2>4, <4>1, ChunkSure DEF Thrown
    <3> QED BY <3>1 DEF AlarmInv
  <2> QED BY <1>4, <2>2, <2>3, <2>4, ChunkEffect
<1>5. CASE Handle
  <2>1. ~trouble => status' = status
    BY <1>5, HandleSure
  <2>2. /\ pc = "handle" /\ pc' \in {"msgs", "finish", "status", "chunk", "recover"}
        /\ pc' = "status" => toget # {}
        /\ trouble' = trouble
        /\ UNCHANGED <<rsdata, toget>>
    BY <1>5 DEF Handle, Goto, Throws, AfterData
  <2> QED BY <1>1, <1>2, <2>1, <2>2 DEF AlarmInv
<1>6. CASE GetData
  <2>1. pc' = "status" /\ toget' = Wanted /\ UNCHANGED <<status, trouble>>
    BY <1>6 DEF GetData, Goto
  <2> QED BY <1>1, <1>2, <2>1, Constants DEF AlarmInv
<1>7. CASE GetStatus
  <2>1. /\ pc = "status" /\ pc' \in {"ready", "recover"} /\ toget' = toget
        /\ UNCHANGED <<status, trouble>> \/ trouble'
    BY <1>7 DEF GetStatus, Goto, Fails, ThrowsInTrouble, Throws, getvars
  <2> QED BY <1>1, <1>2, <2>1 DEF AlarmInv
<1>8. CASE GetReady
  <2>1. /\ pc = "ready" /\ pc' \in {"handle", "status", "recover"} /\ toget' = toget
        /\ pc' = "handle" => rsdata' = ReadyNow
        /\ UNCHANGED <<status, trouble>> \/ trouble'
    BY <1>8 DEF GetReady, Goto, Fails, TimesOut, ThrowsInTrouble, Throws
  <2>2. rcset # {} => ReadyNow \subseteq toget
    <3>1. Left = toget /\ toget # {}
      BY <2>1 DEF AlarmInv, Left, Fetching
    <3>2. rcset # {} => ReadyNow \subseteq Coming
      BY DEF ReadyNow, Coming, Has
    <3> QED BY <2>1, <3>1, <3>2 DEF FetchInv, PaceInv, InShot
  <2> QED BY <1>1, <1>2, <2>1, <2>2 DEF AlarmInv
<1>9. CASE Msgs \/ LastMsgs \/ ScriptMsgs
  <2>1. /\ UNCHANGED <<status, trouble>> \/ trouble' \/ (UNCHANGED trouble /\ ReturnWaits)
        /\ pc' \in {"msgs", "lastmsgs", "scriptmsgs", "recover", "shotdone", AfterData, AfterWait}
        /\ toget' = toget
    BY <1>9, MsgsEffect DEF Msgs, LastMsgs, ScriptMsgs, getvars, TypeInv
  <2>2. AfterData \in {"finish", "status"} /\ (AfterData = "status" => toget # {})
        /\ AfterWait \in {"waitscript", "shotdone"}
    BY DEF AfterData, AfterWait
  <2> QED BY <1>1, <1>2, <2>1, <2>2 DEF AlarmInv, RetInv
<1>10. CASE Finish \/ ShotDone
  BY <1>1, <1>2, <1>10 DEF Finish, ShotDone, Goto, AlarmInv
<1>11. CASE AwaitScript
  <2>1. /\ UNCHANGED <<status, trouble>> \/ trouble'
        /\ pc' \in {"scriptmsgs", "recover", "shotdone"}
    BY <1>11 DEF AwaitScript, Goto, Fails, ThrowsInTrouble, Throws
  <2> QED BY <1>1, <1>2, <2>1 DEF AlarmInv
<1>12. CASE Recover \/ Stop \/ WaitEnd \/ Drain
  <2>1. pc' \in {"stop", "drain", "waitend", "cleanup"} /\ UNCHANGED <<status, trouble>>
    BY <1>12 DEF Recover, Stop, WaitEnd, Drain, Skip, Break, Goto
  <2> QED BY <1>1, <1>2, <2>1 DEF AlarmInv
<1> QED BY <1>4, <1>5, <1>6, <1>7, <1>8, <1>9, <1>10, <1>11, <1>12 DEF Middle

\* and so do the others.
LEMMA AlarmStep == ShootInv /\ AlarmInv /\ RetInv /\ [Next]_vars => AlarmInv' /\ RetInv'
<1> SUFFICES ASSUME ShootInv, AlarmInv, RetInv, [Next]_vars PROVE AlarmInv'
  BY RetStep DEF ShootInv
<1>1. TypeInv /\ FetchInv /\ HeaderInv /\ OverInv /\ faults \in Nat
  BY DEF ShootInv, TypeInv, CamTypes
<1>8. Returned => Returned' \/ pc = "start"
  BY <1>1, RetStep
<1>2. CASE RsInit
  <2>1. /\ pc = "init"
        /\ \/ pc' = "start" /\ UNCHANGED <<status, trouble>> /\ rcset' = Wanted /\ UNCHANGED faults
           \/ pc' = "done" /\ trouble'
    BY <1>2 DEF RsInit, Goto
  <2>2. status = "ok"
    BY <1>1, <2>1 DEF OverInv, Before
  <2> QED BY <2>1, <2>2 DEF AlarmInv
<1>3. CASE RsStart
  <2>1. /\ pc = "start" /\ rcset' = rcset
        /\ \/ pc' = "get" /\ UNCHANGED <<status, trouble>>
           \/ pc' \in {"errmsg", "done"} /\ trouble'
    BY <1>3 DEF RsStart, Goto, capture
  <2>2. status = "ok"
    BY <1>1, <2>1 DEF OverInv, Before
  <2> QED BY <2>1, <2>2 DEF AlarmInv
<1>4. CASE Cleanup
  <2>1. pc = "cleanup" /\ pc' = "done" /\ trouble' = trouble
    BY <1>4 DEF Cleanup
  <2>2. CASE run # 0 /\ status' = Uninit /\ UNCHANGED faults
    <3>1. status # "ok" /\ status \in {"ok", "failed"}
      BY <1>1, <2>1, <2>2 DEF OverInv, TypeInv, TypeOK
    <3> QED BY <1>8, <2>1, <2>2, <3>1 DEF AlarmInv
  <2>3. CASE UNCHANGED <<faults, status>>
    BY <1>8, <2>1, <2>3 DEF AlarmInv
  <2>4. CASE Faulty
    <3>1. faults' > 0
      BY <1>1, <2>4 DEF Faulty
    <3> QED BY <2>1, <3>1 DEF AlarmInv
  <2> QED BY <1>4, <2>2, <2>3, <2>4 DEF Cleanup, scriptVars
<1>5. CASE Middle
  BY <1>1, <1>5, AlarmMiddle
<1>6. CASE Camera
  <2>1. /\ UNCHANGED hostVars /\ UNCHANGED faults /\ rcset' \in {rcset, {}}
        /\ (trouble => trouble') /\ (rcset' # rcset => trouble')
    BY <1>1, <1>6, CameraEffect
  <2>2. status = "failed" /\ Returned => Returned'
    <3>1. pc = "start" => status = "ok"
      BY <1>1 DEF OverInv, Before
    <3> QED BY <1>8, <3>1
  <2> QED BY <2>1, <2>2, Constants DEF AlarmInv, hostVars, getvars
<1>7. CASE UNCHANGED vars
  BY <1>7 DEF vars, hostVars, getvars, capture, scriptVars, camera, Returned, AlarmInv
<1>9. CASE ErrorMsg
  <2>1. /\ pc = "errmsg" /\ pc' \in {"errmsg", "done"}
        /\ UNCHANGED <<rcset, status, trouble>>
        /\ faults' = faults \/ faults' > 0
    BY <1>9, ErrorMsgEffect DEF TypeInv, ShootInv, capture
  <2> QED BY <1>8, <2>1 DEF AlarmInv
<1> QED BY <1>2, <1>3, <1>4, <1>5, <1>6, <1>7, <1>9 DEF Next, Host, Middle

\* When nothing went wrong with the camera, the calls or the time, and no script
\* has returned a value, the command does not fail: no order of the steps of the script, the capture and the
\* host makes a format unexpected, a chunk one too many, a header late or the
\* cleanup refused.
THEOREM SureSuccess == Spec => []NoFalseAlarm
<1>1. Init => AlarmInv /\ RetInv
  BY DEF Init, CamInit, AlarmInv, RetInv, ReturnWaits
<1>2. AlarmInv => NoFalseAlarm
  BY DEF AlarmInv, NoFalseAlarm
<1> QED BY <1>1, <1>2, AlarmStep, ShootHolds, PTL DEF Spec
=============================================================================
