----------------------------- MODULE ScriptCam ------------------------------
(***************************************************************************)
(* The CHDK scripting calls of the PTP extension, as the host sees them:   *)
(* ExecuteScript, ScriptStatus, ReadScriptMsg and WriteScriptMsg of ptp.c  *)
(* and of the connection object.  The camera is external: it runs at most  *)
(* one script, which posts messages to a queue of bounded length, and      *)
(* reads those of the host.  It answers a call in one step: its PTP task   *)
(* does not interleave with itself, but the script runs on between calls.  *)
(*                                                                         *)
(* A message is known by the script that posted it, its type and its       *)
(* number among the messages of that script; its value is left out.        *)
(***************************************************************************)
EXTENDS Naturals, Sequences

CONSTANTS
    Scripts,   \* the scripts the host may start
    QueueLen,  \* messages each of the camera's two queues holds
    MaxExec,   \* bound on the number of scripts started
    MaxFaults  \* bound on the number of calls that fail

Kinds == {"user", "return", "error"}

\* What a script does until it ends: it posts messages, waits for one from the
\* host, shoots, or pauses until the next shot or a message from the host.  A
\* script with ok = FALSE does not compile.
Steps == Kinds \cup {"recv", "shoot", "pause"}

Script == [ok : BOOLEAN, does : Seq(Steps)]

Msg == [sid : Nat, type : Kinds \cup {"none"}, n : Nat]

ASSUME ScriptsAssumption == Scripts \subseteq Script
ASSUME BoundsAssumption ==
    /\ QueueLen \in Nat /\ QueueLen >= 1
    /\ MaxExec \in Nat
    /\ MaxFaults \in Nat

VARIABLES
    run,     \* the id of the running script, 0 if none runs
    todo,    \* what the running script has still to do
    started, \* the id of the most recently started script
    msgq,    \* messages from the camera to the host
    hostq,   \* messages from the host: the script each was accepted for
    posted,  \* every message the most recently started script has posted
    heard,   \* scripts, with those their host messages were accepted for
    sid,     \* ptp_cs->script_id
    faults   \* the number of calls that have failed

camera == <<run, todo, started, msgq, hostq, posted, heard>>
scriptVars == <<camera, sid, faults>>

NoScript == [ok |-> TRUE, does |-> <<>>]

NoMsg == [sid |-> 0, type |-> "none", n |-> 0]

CamInit ==
    /\ run = 0
    /\ todo = <<>>
    /\ started = 0
    /\ msgq = <<>>
    /\ hostq = <<>>
    /\ posted = <<>>
    /\ heard = {}
    /\ sid = 0
    /\ faults = 0

-----------------------------------------------------------------------------
(***************************************************************************)
(* The script on the camera.                                               *)
(***************************************************************************)
Message(type) == [sid |-> run, type |-> type, n |-> Len(posted) + 1]

\* The script posts a message; it waits while the queue is full.
CamPost ==
    /\ run # 0
    /\ todo # <<>> /\ Head(todo) \in Kinds
    /\ Len(msgq) < QueueLen
    /\ msgq' = Append(msgq, Message(Head(todo)))
    /\ posted' = Append(posted, Message(Head(todo)))
    /\ todo' = IF Head(todo) = "error" THEN <<>> ELSE Tail(todo)
    /\ UNCHANGED <<run, started, hostq, heard, sid, faults>>

\* read_usb_msg in the script.
CamRecv ==
    /\ run # 0
    /\ todo # <<>> /\ Head(todo) = "recv"
    /\ hostq # <<>>
    /\ heard' = heard \cup {<<run, Head(hostq)>>}
    /\ hostq' = Tail(hostq)
    /\ todo' = Tail(todo)
    /\ UNCHANGED <<run, started, msgq, posted, sid, faults>>

\* read_usb_msg and write_usb_msg return without a message after a timeout.
CamRecvGiveUp ==
    /\ run # 0
    /\ todo # <<>> /\ Head(todo) = "recv"
    /\ hostq = <<>>
    /\ todo' = Tail(todo)
    /\ UNCHANGED <<run, started, msgq, hostq, posted, heard, sid, faults>>

CamPostGiveUp ==
    /\ run # 0
    /\ todo # <<>> /\ Head(todo) \in Kinds
    /\ Len(msgq) = QueueLen
    /\ todo' = Tail(todo)
    /\ UNCHANGED <<run, started, msgq, hostq, posted, heard, sid, faults>>

CamEnd ==
    /\ run # 0
    /\ todo = <<>>
    /\ run' = 0
    /\ UNCHANGED <<todo, started, msgq, hostq, posted, heard, sid, faults>>

CamScript == CamPost \/ CamRecv \/ CamRecvGiveUp \/ CamPostGiveUp \/ CamEnd

-----------------------------------------------------------------------------
(***************************************************************************)
(* How the camera carries out a call.                                      *)
(***************************************************************************)
ExecFlags == [nokill : BOOLEAN, flushcam : BOOLEAN, flushhost : BOOLEAN]

Refuses(flags) == run # 0 /\ flags.nokill

\* ExecuteScript answers with a script id and a status.  A script that does
\* not compile still gets an id, and an error message if the queue has room.
CamExec(s, flags, id, status) ==
    \/ /\ Refuses(flags)
       /\ status = "scriptrun"
       /\ id \in {0, run}
       /\ UNCHANGED camera
    \/ /\ ~Refuses(flags)
       /\ started < MaxExec
       /\ id = started + 1
       /\ started' = id
       /\ hostq' = IF flags.flushhost THEN <<>> ELSE hostq
       /\ LET q == IF flags.flushcam THEN <<>> ELSE msgq
              e == [sid |-> id, type |-> "error", n |-> 1]
          IN  IF s.ok
              THEN /\ status = "none"
                   /\ run' = id
                   /\ todo' = s.does
                   /\ msgq' = q
                   /\ posted' = <<>>
              ELSE /\ status = "compile"
                   /\ run' = 0
                   /\ todo' = <<>>
                   /\ msgq' = IF Len(q) < QueueLen THEN Append(q, e) ELSE q
                   /\ posted' = IF Len(q) < QueueLen THEN <<e>> ELSE <<>>
       /\ UNCHANGED heard

\* ScriptStatus and ReadScriptMsg; a queue without messages answers NoMsg.
Status == [run |-> run # 0, msg |-> msgq # <<>>]

Reply == IF msgq = <<>> THEN NoMsg ELSE Head(msgq)

CamRead ==
    /\ msgq' = IF msgq = <<>> THEN <<>> ELSE Tail(msgq)
    /\ UNCHANGED <<run, todo, started, hostq, posted, heard>>

WriteStatus(target) ==
    CASE run = 0 -> "notrun"
      [] run # 0 /\ target \notin {0, run} -> "badid"
      [] run # 0 /\ target \in {0, run} /\ Len(hostq) = QueueLen -> "qfull"
      [] OTHER -> "ok"

CamWrite(target) ==
    /\ hostq' = IF WriteStatus(target) = "ok" THEN Append(hostq, run) ELSE hostq
    /\ UNCHANGED <<run, todo, started, msgq, posted, heard>>

-----------------------------------------------------------------------------
(***************************************************************************)
(* A call that fails: the camera did not get it, or its answer was lost.   *)
(***************************************************************************)
Faulty ==
    /\ faults < MaxFaults
    /\ faults' = faults + 1

ReadLost == Faulty /\ (CamRead \/ UNCHANGED camera) /\ UNCHANGED sid

StatusLost == Faulty /\ UNCHANGED <<camera, sid>>

WriteLost(target) ==
    Faulty /\ (CamWrite(target) \/ UNCHANGED camera) /\ UNCHANGED sid

\* Mutant of SidAfterExec: a request that failed keeps the id of the script
\* before it.
SidAfterExecKept(failed, id) == IF failed THEN sid ELSE id

\* ptp_chdk_exec_lua stores the id of the answer, or 0 if it failed.
SidAfterExec(failed, id) == IF failed THEN 0 ELSE id

ExecAnswers == {"none", "compile", "scriptrun"}

ExecDone(s, flags, status) ==
    \E id \in 0..MaxExec :
        /\ CamExec(s, flags, id, status)
        /\ sid' = SidAfterExec(FALSE, id)
        /\ UNCHANGED faults

ExecLost(s, flags) ==
    /\ Faulty
    /\ \/ UNCHANGED camera
       \/ \E id \in 0..MaxExec, st \in ExecAnswers : CamExec(s, flags, id, st)
    /\ sid' = SidAfterExec(TRUE, 0)
=============================================================================
