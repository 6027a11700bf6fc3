----------------------------- MODULE ScriptExec -----------------------------
(***************************************************************************)
(* Running scripts from the host (lua/chdku.lua): con:exec with and        *)
(* without wait, wait_msg and read_msg_strict, flushmsgs, get_error_msg    *)
(* and con:write_msg.  The host is one thread of Lua: it makes one call at *)
(* a time, while the script on the camera runs on.                         *)
(***************************************************************************)
EXTENDS ScriptCam

CONSTANTS
    NewProtos, \* what is_ver_compatible(2,6) may say of the camera
    CallOpts   \* the options the callers of exec use

Opts == [clobber : BOOLEAN, flushcam : BOOLEAN, flushhost : BOOLEAN,
         wait : BOOLEAN]

ASSUME NewProtosAssumption == NewProtos \subseteq BOOLEAN
ASSUME CallOptsAssumption == CallOpts \subseteq Opts

VARIABLES
    pc,        \* where the host is
    call,      \* the script, the options of exec, the type wait_msg wants;
               \* and whether the camera's exec takes flags
    snap,      \* the last status wait_status returned
    delivered, \* the messages exec has handed to the caller
    outcome,   \* how the last exec ended
    reply      \* how the last of the other calls ended, and its message

hostVars == <<pc, call, snap, delivered, outcome, reply>>
vars     == <<scriptVars, hostVars>>

NoCall == [new |-> TRUE, script |-> NoScript, type |-> "user",
           opts |-> [clobber |-> FALSE, flushcam |-> TRUE, flushhost |-> TRUE,
                     wait |-> FALSE]]

NoReply == [how |-> "none", msg |-> NoMsg]

Init ==
    /\ CamInit
    /\ pc = "idle"
    /\ call \in {[NoCall EXCEPT !.new = v] : v \in NewProtos}
    /\ snap = [run |-> FALSE, msg |-> FALSE]
    /\ delivered = <<>>
    /\ outcome = "none"
    /\ reply = NoReply

\* exec returns or throws; so do the other calls.
End(how) == pc' = "idle" /\ outcome' = how

Answer(how, m) == pc' = "idle" /\ reply' = [how |-> how, msg |-> m]

-----------------------------------------------------------------------------
(***************************************************************************)
(* con:exec                                                                *)
(***************************************************************************)
Exec(s, o) ==
    /\ pc = "idle"
    /\ started < MaxExec
    /\ call' = [call EXCEPT !.script = s, !.opts = o]
    /\ delivered' = <<>>
    /\ outcome' = "busy"
    /\ reply' = NoReply
    /\ pc' = IF ~call.new /\ ~o.clobber THEN "check" ELSE "start"
    /\ UNCHANGED <<scriptVars, snap>>

\* Mutant of Check: the status is not looked at before a script is started.
CheckSkipped ==
    /\ pc = "check"
    /\ pc' = "start"
    /\ UNCHANGED <<scriptVars, call, snap, delivered, outcome, reply>>

\* Before protocol 2.6: ask whether a script runs, and flush its messages.
Check ==
    /\ pc = "check"
    /\ \/ /\ IF Status.run THEN End("scriptrun")
             ELSE /\ pc' = IF call.opts.flushcam /\ Status.msg THEN "flush"
                           ELSE "start"
                  /\ UNCHANGED outcome
          /\ UNCHANGED scriptVars
       \/ StatusLost /\ End("io")
    /\ UNCHANGED <<call, snap, delivered, reply>>

\* con:flushmsgs
Flush ==
    /\ pc = "flush"
    /\ \/ /\ CamRead
          /\ pc' = IF Reply = NoMsg THEN "start" ELSE "flush"
          /\ UNCHANGED <<sid, faults, outcome>>
       \/ ReadLost /\ End("io")
    /\ UNCHANGED <<call, snap, delivered, reply>>

\* Mutants of Flags: the flag that spares a running script is left out, and
\* the one that discards what the script before it did not read.
FlagsNoHostFlush ==
    [nokill    |-> call.new /\ ~call.opts.clobber,
     flushcam  |-> call.new /\ call.opts.flushcam,
     flushhost |-> FALSE]

FlagsNoNokill ==
    [nokill    |-> FALSE,
     flushcam  |-> call.new /\ call.opts.flushcam,
     flushhost |-> call.new /\ call.opts.flushhost]

Flags ==
    [nokill    |-> call.new /\ ~call.opts.clobber,
     flushcam  |-> call.new /\ call.opts.flushcam,
     flushhost |-> call.new /\ call.opts.flushhost]

Start ==
    /\ pc = "start"
    /\ \/ /\ ExecDone(call.script, Flags, "none")
          /\ IF call.opts.wait THEN pc' = "poll" /\ UNCHANGED outcome
                               ELSE End("started")
       \/ /\ ExecDone(call.script, Flags, "compile")
          /\ pc' = "errmsg"
          /\ UNCHANGED outcome
       \/ ExecDone(call.script, Flags, "scriptrun") /\ End("scriptrun")
       \/ ExecLost(call.script, Flags) /\ End("io")
    /\ UNCHANGED <<call, snap, delivered, reply>>

\* con:get_error_msg after a compile error; the messages before are ignored.
ErrMsg ==
    /\ pc = "errmsg"
    /\ \/ /\ CamRead
          /\ IF Reply = NoMsg \/ (Reply.type = "error" /\ Reply.sid = sid)
             THEN End("compile")
             ELSE UNCHANGED <<pc, outcome>>
          /\ UNCHANGED <<sid, faults>>
       \/ ReadLost /\ End("io")
    /\ UNCHANGED <<call, snap, delivered, reply>>

\* Mutant of Completed: the script has ended, whatever is still queued.
CompletedOnEnd(status) == ~status.run

\* The script is completed and all messages have been processed.
Completed(status) == ~status.run /\ ~status.msg

\* Mutant of Wakes: only the end of the script is waited for.
WakesOnEnd(status) == ~status.run

\* What exec waits for.
Wakes(status) == status.msg \/ ~status.run

\* wait_status{msg=true, run=false}: it polls until one of them holds.
Poll ==
    /\ pc = "poll"
    /\ \/ /\ Wakes(Status)
          /\ snap' = Status
          /\ IF Status.msg THEN pc' = "read" /\ UNCHANGED outcome
             ELSE IF Completed(Status) THEN End("returned")
             ELSE UNCHANGED <<pc, outcome>>
          /\ UNCHANGED scriptVars
       \/ StatusLost /\ End("io") /\ UNCHANGED snap
    /\ UNCHANGED <<call, delivered, reply>>

\* Mutant of Expected: the script id of a message is not compared.
ExpectedAny(m) == TRUE

\* get_script_id is false when there is no script id: nothing is expected.
Expected(m) == sid # 0 /\ m.sid = sid

\* The messages the callbacks get, or exec returns.
Handed(m) == m.type \in {"user", "return"}

NextRound == IF Completed(snap) THEN End("returned")
             ELSE pc' = "poll" /\ UNCHANGED outcome

\* One message of the loop; a callback may throw to abort.
Read ==
    /\ pc = "read"
    /\ \/ /\ CamRead
          /\ \/ /\ ~Expected(Reply)
                /\ NextRound
                /\ UNCHANGED delivered
             \/ /\ Expected(Reply)
                /\ Handed(Reply)
                /\ delivered' = Append(delivered, Reply)
                /\ NextRound \/ End("callback")
             \/ /\ Expected(Reply)
                /\ Reply.type = "error"
                /\ End("runtime")
                /\ UNCHANGED delivered
          /\ UNCHANGED <<sid, faults>>
       \/ ReadLost /\ End("io") /\ UNCHANGED delivered
    /\ UNCHANGED <<call, snap, reply>>

-----------------------------------------------------------------------------
(***************************************************************************)
(* con:wait_msg, con:write_msg and con:flushmsgs called on their own       *)
(***************************************************************************)
WaitMsg(type) ==
    /\ pc = "idle"
    /\ call' = [call EXCEPT !.type = type]
    /\ pc' = "msgpoll"
    /\ UNCHANGED <<scriptVars, snap, delivered, outcome, reply>>

MsgPoll ==
    /\ pc = "msgpoll"
    /\ \/ /\ Status.msg
          /\ pc' = "msgread"
          /\ UNCHANGED <<scriptVars, reply>>
       \/ Answer("timeout", NoMsg) /\ UNCHANGED scriptVars
       \/ StatusLost /\ Answer("io", NoMsg)
    /\ UNCHANGED <<call, snap, delivered, outcome>>

\* con:read_msg_strict
MsgRead ==
    /\ pc = "msgread"
    /\ \/ /\ CamRead
          /\ IF Reply # NoMsg /\ Expected(Reply) /\ Reply.type = call.type
             THEN Answer("msg", Reply)
             ELSE Answer("wrongmsg", NoMsg)
          /\ UNCHANGED <<sid, faults>>
       \/ ReadLost /\ Answer("io", NoMsg)
    /\ UNCHANGED <<call, snap, delivered, outcome>>

\* con:write_msg without a script id
WriteMsg ==
    /\ pc = "idle"
    /\ \/ /\ CamWrite(sid)
          /\ Answer(WriteStatus(sid), NoMsg)
          /\ UNCHANGED <<sid, faults>>
       \/ WriteLost(sid) /\ Answer("io", NoMsg)
    /\ UNCHANGED <<call, snap, delivered, outcome>>

\* con:flushmsgs, one message at a time
FlushMsgs ==
    /\ pc \in {"idle", "userflush"}
    /\ \/ /\ CamRead
          /\ IF Reply = NoMsg THEN Answer("flushed", NoMsg)
             ELSE pc' = "userflush" /\ UNCHANGED reply
          /\ UNCHANGED <<sid, faults>>
       \/ ReadLost /\ Answer("io", NoMsg)
    /\ UNCHANGED <<call, snap, delivered, outcome>>

-----------------------------------------------------------------------------
Calls ==
    \/ \E s \in Scripts, o \in CallOpts : Exec(s, o)
    \/ \E type \in {"user", "return"} : WaitMsg(type)
    \/ WriteMsg
    \/ pc = "idle" /\ FlushMsgs

Host ==
    \/ Check \/ Flush \/ Start \/ ErrMsg \/ Poll \/ Read
    \/ MsgPoll \/ MsgRead
    \/ pc = "userflush" /\ FlushMsgs

\* A script runs beside the host, whose variables it leaves alone.
Camera == CamScript /\ UNCHANGED hostVars

Next == Calls \/ Host \/ Camera

Spec == Init /\ [][Next]_vars

\* The host polls on.  The camera runs its script, which may wait for a
\* message for a time only; a post may wait as long as the queue is full.
LiveSpec ==
    /\ Spec
    /\ WF_vars(Host)
    /\ WF_vars((CamPost \/ CamRecv \/ CamEnd) /\ UNCHANGED hostVars)
    /\ WF_vars(CamRecvGiveUp /\ UNCHANGED hostVars)

-----------------------------------------------------------------------------
(***************************************************************************)
(* Correctness.                                                            *)
(***************************************************************************)
ExecPcs == {"check", "flush", "start", "errmsg", "poll", "read"}

\* The types of the camera's script system and of the host.
TypeOK ==
    /\ run \in 0..started
    /\ started \in 0..MaxExec
    /\ todo \in Seq(Steps)
    /\ msgq \in Seq(Msg) /\ Len(msgq) <= QueueLen
    /\ hostq \in Seq(Nat) /\ Len(hostq) <= QueueLen
    /\ posted \in Seq(Msg)
    /\ heard \subseteq Nat \X Nat
    /\ sid \in 0..started
    /\ faults \in 0..MaxFaults
    /\ pc \in ExecPcs \cup {"idle", "msgpoll", "msgread", "userflush"}
    /\ call \in [new : NewProtos, script : Scripts \cup {NoScript}, type : {"user", "return"},
                 opts : Opts]
    /\ snap \in [run : BOOLEAN, msg : BOOLEAN]
    /\ delivered \in Seq([sid : Nat, type : {"user", "return"}, n : Nat])
    /\ outcome \in {"none", "busy", "scriptrun", "started", "compile",
                   "returned", "callback", "runtime", "io"}
    /\ reply \in [how : {"none", "msg", "wrongmsg", "timeout", "flushed", "io",
                         "ok", "notrun", "badid", "qfull"},
                  msg : Msg]

\* While exec waits, the messages of its script that are queued stand behind
\* all the others, and with those its callbacks were given they are exactly
\* what the script has posted, in order: no message is lost, repeated or mixed
\* with those of an earlier script.
NothingLost ==
    pc \in {"poll", "read"} =>
        /\ sid = started
        /\ \E k \in 0..Len(msgq) :
              /\ \A i \in 1..Len(msgq) : msgq[i].sid = sid <=> i > k
              /\ delivered \o SubSeq(msgq, k + 1, Len(msgq)) = posted

\* When exec with wait returns, its script has ended without an error, and
\* everything it posted was delivered: nothing is left behind that the next
\* exec would find, and the next exec finds no script running.
ReturnsComplete ==
    outcome = "returned" =>
        /\ run = 0
        /\ delivered = posted
        /\ \A i \in 1..Len(posted) : posted[i].type # "error"

\* A message wait_msg returns is from the script started last, also after an
\* exec failed and it is not known whether its script runs.
StrictIsLatest == reply.how = "msg" => reply.msg.sid = started

\* With flush_host_msgs, a script reads no message written for an earlier one.
HearsOwn == \A h \in heard : h[1] = h[2]

\* Every call comes back: exec's wait loop ends when the script does, and the
\* script is never left waiting for a queue nobody reads.
CallsEnd == pc # "idle" ~> pc = "idle"

\* exec with wait is a remote call that runs its script at most once, and not
\* while another one runs unless it may clobber it.
Remote == INSTANCE RemoteCall WITH
    busy    <- pc \in ExecPcs,
    clobber <- call.opts.clobber,
    begun   <- pc \in {"errmsg", "poll", "read"},
    live    <- run # 0,
    out     <- posted,
    ret     <- IF outcome = "returned" THEN [ok |-> TRUE, out |-> delivered]
               ELSE [ok |-> FALSE, out |-> <<>>]

RefinesRemoteCall == Remote!Spec
=============================================================================
