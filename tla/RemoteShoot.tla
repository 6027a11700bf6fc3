---------------------------- MODULE RemoteShoot -----------------------------
(***************************************************************************)
(* The remoteshoot command (lua/cli.lua) and what it is made of: the rlib  *)
(* scripts rs_init, rs_shoot and rs_cleanup on the camera, and             *)
(* con:capture_get_data with wait_status, the chunk handlers and           *)
(* read_all_msgs on the host, which fetch each shot while the script runs. *)
(*                                                                         *)
(* con:execwait is one step here: ScriptExec shows that it is a remote     *)
(* call.  A chunk of image data is known by the exposure it belongs to and *)
(* the number of chunks that follow it.  Times are left out: a wait may    *)
(* end whenever what it waits for has not happened.                        *)
(***************************************************************************)
EXTENDS ScriptCam

CONSTANTS
    Wanted,  \* the formats the user asked for
    Setups,  \* the uses: the option -dng, which combines header and raw data
             \* in one file, and what the camera offers at each stage of a shot
    JpgMax,  \* max_chunks of jpg and craw
    Shots    \* opts.shots

\* chdku.remotecap_dtypes, in the order of their bits.
DTypes == <<"jpg", "raw", "dng_hdr", "craw">>

Formats == {DTypes[i] : i \in 1..4}

RawTypes == {"raw", "dng_hdr"}

MaxChunks(f) == IF f \in RawTypes THEN 1 ELSE JpgMax

\* The chunks the camera makes of a format; too many if its hook is bad.
CamChunks(f) == IF f \in RawTypes THEN {1} ELSE 1..JpgMax + 1

ASSUME RemoteShootAssumption ==
    /\ Wanted \subseteq Formats /\ Wanted # {}
    /\ \A u \in Setups :
         /\ u.dng \in BOOLEAN /\ (u.dng => RawTypes \subseteq Wanted)
         /\ u.stages \in Seq(SUBSET Formats) /\ u.stages # <<>>
         /\ UNION {u.stages[i] : i \in 1..Len(u.stages)} = Formats
    /\ JpgMax \in Nat \ {0}
    /\ Shots \in Nat \ {0}

\* The camera offers a format once in a shot, and the header of a DNG before
\* its raw data: rc_handler_raw_dng_file takes a "previously received" header.
ASSUME CameraAssumption ==
    \A u \in Setups : \A i, j \in 1..Len(u.stages) :
        /\ i # j => u.stages[i] \cap u.stages[j] = {}
        /\ u.dng /\ "dng_hdr" \in u.stages[i] /\ "raw" \in u.stages[j] => i < j

VARIABLES
    setup,   \* the use the command is put to
    rcset,   \* camera: the formats init_usb_capture has set, {} for none
    phase,   \* camera: the stage of the shot in progress, 0 for none
    avail,   \* camera: the chunks of each format still to be fetched
    image,   \* camera: the number of the last exposure
    pc,      \* where the host is
    shot,    \* the shot remoteshoot is at
    snap,    \* the script status wait_status returned
    rsdata,  \* the formats ready, still to be handled
    toget,   \* the formats of this shot not yet fetched
    header,  \* dng_info.hdr: the exposure it is of, 0 for none
    chunks,  \* the chunks of the format being fetched
    files,   \* what each shot has stored: its formats and their chunks
    status,  \* what the command returns
    trouble  \* a call failed, or the camera did, or it was too slow, or the
             \* script of the user does not compile

capture  == <<rcset, phase, avail, image>>
getvars  == <<rsdata, toget, header, chunks, files>>
hostVars == <<setup, pc, shot, snap, getvars, status>>
vars     == <<scriptVars, capture, hostVars, trouble>>

Dng    == setup.dng
Stages == setup.stages

NoData == [f \in Formats |-> 0]

\* rs_shoot_full: a pause between two shots, where a stop message ends it.
RsShoot ==
    [ok |-> TRUE,
     does |-> [i \in 1..(2 * Shots - 1) |->
                 IF i % 2 = 1 THEN "shoot" ELSE "pause"]]

Init ==
    /\ CamInit
    /\ setup \in Setups
    /\ rcset = {}
    /\ phase = 0
    /\ avail = NoData
    /\ image = 0
    /\ pc = "init"
    /\ shot = 1
    /\ snap = [run |-> FALSE, msg |-> FALSE]
    /\ rsdata = {}
    /\ toget = {}
    /\ header = 0
    /\ chunks = <<>>
    /\ files = [i \in 1..Shots |-> [f \in {} |-> <<>>]]
    /\ status = "ok"
    /\ trouble = FALSE

-----------------------------------------------------------------------------
(***************************************************************************)
(* Camera: at each stage a shot waits until the host has fetched the data. *)
(***************************************************************************)
Ready(types) ==
    \E n \in [types \cap rcset -> 1..JpgMax + 1] :
        /\ \A f \in DOMAIN n : n[f] \in CamChunks(f)
        /\ avail' = [f \in Formats |-> IF f \in DOMAIN n THEN n[f] ELSE 0]
        /\ trouble' = (trouble \/ \E f \in DOMAIN n : n[f] > MaxChunks(f))

CamShoot ==
    /\ run # 0 /\ todo # <<>> /\ Head(todo) = "shoot"
    /\ phase = 0
    /\ image' = image + 1
    /\ phase' = 1
    /\ Ready(Stages[1])
    /\ UNCHANGED <<scriptVars, rcset, hostVars>>

CamStage ==
    /\ phase \in 1..Len(Stages) - 1 /\ avail = NoData
    /\ phase' = phase + 1
    /\ Ready(Stages[phase + 1])
    /\ UNCHANGED <<scriptVars, rcset, image, hostVars>>

CamShotDone ==
    /\ phase = Len(Stages) /\ avail = NoData
    /\ phase' = 0
    /\ todo' = Tail(todo)
    /\ UNCHANGED <<run, started, msgq, hostq, posted, heard, sid, faults,
                   rcset, avail, image, hostVars, trouble>>

\* The host took too long: the camera gives the capture up.
CamCancel ==
    /\ avail # NoData
    /\ avail' = NoData
    /\ rcset' = {}
    /\ trouble' = TRUE
    /\ UNCHANGED <<scriptVars, phase, image, hostVars>>

\* read_usb_msg(tsleep) between two shots
CamPause ==
    /\ run # 0 /\ todo # <<>> /\ Head(todo) = "pause"
    /\ IF hostq = <<>> THEN todo' = Tail(todo) /\ UNCHANGED hostq
       ELSE todo' = <<>> /\ hostq' = Tail(hostq)
    /\ UNCHANGED <<run, started, msgq, posted, heard, sid, faults, capture,
                   hostVars, trouble>>

\* rs_error, or any other runtime error between shots
CamError ==
    /\ run # 0 /\ todo # <<>> /\ Head(todo) \in {"shoot", "pause"}
    /\ phase = 0
    /\ todo' = <<"error">>
    /\ rcset' = {}
    /\ trouble' = TRUE
    /\ UNCHANGED <<run, started, msgq, hostq, posted, heard, sid, faults,
                   phase, avail, image, hostVars>>

CamRuns ==
    /\ CamPost \/ CamPostGiveUp \/ CamEnd
    /\ UNCHANGED <<capture, hostVars, trouble>>

Camera ==
    \/ CamShoot \/ CamStage \/ CamShotDone \/ CamCancel \/ CamPause
    \/ CamError \/ CamRuns

-----------------------------------------------------------------------------
(***************************************************************************)
(* Host: how a step of the loop over the shots ends.                       *)
(***************************************************************************)
Goto(where) == pc' = where /\ UNCHANGED <<status, trouble>>

\* con:capture_get_data throws, for one reason or another.
Throws == pc' = "recover" /\ status' = "failed"

\* A timeout, or a handler that cannot store the data.
ThrowsInTrouble == Throws /\ trouble' = TRUE

\* A call that fails on the way to the camera or back.
Fails(call) == call /\ ThrowsInTrouble

-----------------------------------------------------------------------------
(***************************************************************************)
(* Starting                                                                *)
(***************************************************************************)
\* con:execwait rs_init: it may refuse, or fail before or after it has run.
RsInit ==
    /\ pc = "init"
    /\ \/ Goto("start") /\ rcset' = Wanted /\ UNCHANGED faults
       \/ /\ pc' = "done" /\ status' = "failed" /\ trouble' = TRUE
          /\ \/ UNCHANGED <<rcset, faults>>
             \/ Faulty /\ rcset' \in {rcset, Wanted}
    /\ UNCHANGED <<camera, sid, phase, avail, image, setup, shot, snap, getvars>>

\* con:exec rs_shoot, or the script of -script; if it throws, so does the
\* command, without a cleanup: remote capture stays as rs_init has set it.
RsStart ==
    LET flags == [nokill |-> TRUE, flushcam |-> TRUE, flushhost |-> TRUE]
    IN  /\ pc = "start"
        /\ \E s \in Scripts :
              \/ ExecDone(s, flags, "none") /\ Goto("get")
              \/ /\ ExecDone(s, flags, "compile")
                 /\ pc' = "errmsg" /\ status' = "failed" /\ trouble' = TRUE
              \/ /\ ExecLost(s, flags)
                 /\ pc' = "done" /\ status' = "failed" /\ trouble' = TRUE
        /\ UNCHANGED <<capture, setup, shot, snap, getvars>>

\* con:get_error_msg, before exec throws: it looks for the error of the script
\* that did not compile.
ErrorMsg ==
    /\ pc = "errmsg"
    /\ \/ /\ CamRead
          /\ Goto(IF Reply = NoMsg \/ (Reply.type = "error" /\ Reply.sid = sid)
                  THEN "done" ELSE "errmsg")
          /\ UNCHANGED <<sid, faults>>
       \/ ReadLost /\ Goto("done")
    /\ UNCHANGED <<capture, setup, shot, snap, getvars>>

-----------------------------------------------------------------------------
(***************************************************************************)
(* capture_get_data                                                        *)
(***************************************************************************)
GetData ==
    /\ pc = "get"
    /\ toget' = Wanted
    /\ Goto("status")
    /\ UNCHANGED <<scriptVars, capture, setup, shot, snap, rsdata, header, chunks, files>>

\* wait_status{rsdata=true, msg=true} asks for the script status first.
GetStatus ==
    /\ pc = "status"
    /\ \/ snap' = Status /\ Goto("ready") /\ UNCHANGED scriptVars
       \/ Fails(StatusLost) /\ UNCHANGED snap
    /\ UNCHANGED <<capture, setup, shot, getvars>>

\* timeout_error
TimesOut == ThrowsInTrouble

\* What capture_ready answers.
ReadyNow ==
    IF rcset = {} THEN {"notset"} ELSE {f \in Formats : avail[f] > 0}

\* Then for the capture status; without data or a message it polls on, up to
\* the timeout.
GetReady ==
    /\ pc = "ready"
    /\ \/ /\ rsdata' = ReadyNow
          /\ IF ReadyNow # {} \/ snap.msg THEN Goto("handle")
             ELSE Goto("status") \/ TimesOut
          /\ UNCHANGED scriptVars
       \/ Fails(StatusLost) /\ UNCHANGED rsdata
    /\ UNCHANGED <<capture, setup, shot, snap, toget, header, chunks, files>>

\* The next format of rsdata.
First == CHOOSE f \in rsdata : \A g \in rsdata :
            \A i, j \in 1..4 : DTypes[i] = f /\ DTypes[j] = g => i <= j

\* Mutant of AfterData: a shot is complete as soon as some data was handled.
AfterDataEarly == IF toget # Wanted THEN "finish" ELSE "status"

\* Where the loop goes after the data, and the messages if there are any.
AfterData == IF toget = {} THEN "finish" ELSE "status"

\* Looks at the formats ready: NOTSET and a format that is not, or no longer,
\* wanted are errors.
Handle ==
    /\ pc = "handle"
    /\ \/ /\ rsdata = {}
          /\ Goto(IF snap.msg THEN "msgs" ELSE AfterData)
          /\ UNCHANGED chunks
       \/ /\ rsdata # {} /\ rsdata # {"notset"} /\ First \in toget
          /\ chunks' = <<>>
          /\ Goto("chunk")
       \/ /\ rsdata # {} /\ (rsdata = {"notset"} \/ First \notin toget)
          /\ Throws
          /\ UNCHANGED <<chunks, trouble>>
    /\ UNCHANGED <<scriptVars, capture, setup, shot, snap, rsdata, toget, header,
                   files>>

\* More chunks than a file of this format may have.
TooMany(n, f) == n > MaxChunks(f)

\* Mutant of Last: the loop ends when the limit is reached.
LastAtLimit(f) == Len(chunks) + 1 = MaxChunks(f)

\* chunk.last of the chunk fetched now
Last(f) == avail[f] = 1

\* The handler has the whole file; rc_handler_raw_dng_file puts the header it
\* has before the raw data.
Store(f, data) ==
    /\ files' = [files EXCEPT ![shot] =
                    [g \in {f} \cup DOMAIN @ |-> IF g = f THEN data ELSE @[g]]]
    /\ header' = IF Dng /\ f = "dng_hdr" THEN image ELSE header
    /\ toget' = toget \ {f}
    /\ rsdata' = rsdata \ {f}
    /\ Goto("handle")

Header == IF Dng /\ First = "raw" THEN <<[image |-> header, left |-> 1]>>
                                 ELSE <<>>

\* The raw data comes before the header it is to be combined with.
NoHeader == Dng /\ First = "raw" /\ header = 0

\* Once the handler has a chunk: the last, one of several, or one too many.
GotChunk(f, new) ==
    \/ /\ Last(f) /\ ~TooMany(Len(new), f)
       /\ Store(f, Header \o new)
    \/ /\ ~Last(f) /\ ~TooMany(Len(new), f)
       /\ UNCHANGED <<pc, toget, rsdata, header, files, status, trouble>>
    \/ /\ TooMany(Len(new), f)
       /\ Throws
       /\ UNCHANGED <<toget, rsdata, header, files, trouble>>

\* capture_get_chunk and what the handler does with the chunk.  The camera has
\* given the capture up, or a call fails, or the file cannot be written.
Chunk ==
    LET f == First
        new == Append(chunks, [image |-> image, left |-> avail[f] - 1])
    IN  /\ pc = "chunk"
        /\ \/ /\ ~NoHeader
              /\ avail[f] > 0
              /\ avail' = [avail EXCEPT ![f] = @ - 1]
              /\ chunks' = new
              /\ GotChunk(f, new)
              /\ UNCHANGED scriptVars
           \/ /\ NoHeader \/ avail[f] = 0
              /\ Throws
              /\ UNCHANGED <<scriptVars, avail, getvars, trouble>>
           \/ /\ ThrowsInTrouble
              /\ avail[f] > 0 /\ avail' = [avail EXCEPT ![f] = @ - 1]
              /\ UNCHANGED <<scriptVars, getvars>>
           \/ /\ Fails(StatusLost)
              /\ UNCHANGED <<avail, getvars>>
        /\ UNCHANGED <<rcset, phase, image, setup, shot, snap>>

\* con:read_all_msgs: the handler of errors throws and that of user messages
\* prints.  So would that of return messages, but it is given the value without
\* the message around it, and format_script_msg throws on that.
ReadMsgs(at, where) ==
    /\ pc = at
    /\ \/ /\ CamRead
          /\ CASE Reply.type = "none"   -> Goto(where)
               [] Reply.type = "error"  -> ThrowsInTrouble
               [] Reply.type = "return" -> Throws /\ UNCHANGED trouble
               [] Reply.type = "user"   -> Goto(at)
          /\ UNCHANGED <<sid, faults>>
       \/ Fails(ReadLost)
    /\ UNCHANGED <<capture, setup, shot, snap, getvars>>

Msgs == ReadMsgs("msgs", AfterData)

\* Mutant of WaitScript: no shot waits for the script.
WaitScriptNever == FALSE

\* rcopts.wait_script, set for the final shot
WaitScript == shot = Shots

Finish ==
    /\ pc = "finish"
    /\ Goto(IF WaitScript /\ snap.run THEN "waitscript" ELSE "lastmsgs")
    /\ UNCHANGED <<scriptVars, capture, setup, shot, snap, getvars>>

LastMsgs == ReadMsgs("lastmsgs", "shotdone")

AfterWait == IF snap.run THEN "waitscript" ELSE "shotdone"

\* wait_status{run=false, msg=true} with a timeout that throws
AwaitScript ==
    /\ pc = "waitscript"
    /\ \/ /\ Status.msg \/ ~Status.run
          /\ snap' = Status
          /\ Goto(IF Status.msg THEN "scriptmsgs" ELSE "shotdone")
          /\ UNCHANGED scriptVars
       \/ /\ ~Status.msg /\ Status.run
          /\ ThrowsInTrouble
          /\ UNCHANGED <<scriptVars, snap>>
       \/ Fails(StatusLost) /\ UNCHANGED snap
    /\ UNCHANGED <<capture, setup, shot, getvars>>

ScriptMsgs == ReadMsgs("scriptmsgs", AfterWait)

ShotDone ==
    /\ pc = "shotdone"
    /\ shot' = shot + 1
    /\ Goto(IF shot + 1 > Shots THEN "cleanup" ELSE "get")
    /\ UNCHANGED <<scriptVars, setup, capture, snap, getvars>>

-----------------------------------------------------------------------------
(***************************************************************************)
(* Recovery after capture_get_data threw, in a pcall: the script is told   *)
(* to stop, and gets some time to do so.                                   *)
(***************************************************************************)
\* Mutant of Break: the loop goes on with the next shot.
BreakNot == "get"

\* Where the recovery ends.
Break == "cleanup"

\* A call of the recovery failed: it is left for the cleanup.
Skip(call) == call /\ pc' = Break /\ UNCHANGED <<status, trouble>>

Recover ==
    /\ pc = "recover"
    /\ \/ Goto(IF Status.run THEN "stop" ELSE "drain") /\ UNCHANGED scriptVars
       \/ Skip(StatusLost)
    /\ UNCHANGED <<capture, setup, shot, snap, getvars>>

Stop ==
    /\ pc = "stop"
    /\ \/ /\ CamWrite(sid)
          /\ Goto(IF WriteStatus(sid) = "ok" THEN "waitend" ELSE Break)
          /\ UNCHANGED <<sid, faults>>
       \/ Skip(WriteLost(sid))
    /\ UNCHANGED <<capture, setup, shot, snap, getvars>>

\* wait_status{timeout=1000, run=false}
WaitEnd ==
    /\ pc = "waitend"
    /\ \/ Goto("drain") /\ UNCHANGED scriptVars
       \/ Skip(StatusLost)
    /\ UNCHANGED <<capture, setup, shot, snap, getvars>>

\* The same handlers but for errors, which are taken down; what throws ends it.
Drain ==
    /\ pc = "drain"
    /\ \/ CamRead /\ Goto(IF Reply.type \in {"none", "return"} THEN Break ELSE "drain")
          /\ UNCHANGED <<sid, faults>>
       \/ Skip(ReadLost)
    /\ UNCHANGED <<capture, setup, shot, snap, getvars>>

\* Mutant of CleanupKills: it does kill.
CleanupKillsToo == TRUE

\* con:execwait_pcall for rs_cleanup: clobber=true is in the table of the
\* libs, and not among the options of exec.
CleanupKills == FALSE

\* Mutant of Uninit: a failure of the cleanup is not reported.
UninitSilent == status

\* The status of the command if the cleanup failed.
Uninit == "failed"

\* rs_cleanup ends the capture; exec has flushed the messages before it.
CleanedUp ==
    /\ run' = 0 /\ todo' = <<>> /\ msgq' = <<>> /\ hostq' = <<>>
    /\ rcset' = {} /\ avail' = NoData /\ phase' = 0
    /\ UNCHANGED <<started, posted, heard, sid, image>>

Cleanup ==
    /\ pc = "cleanup"
    /\ \/ /\ run # 0 /\ ~CleanupKills
          /\ status' = Uninit
          /\ UNCHANGED <<scriptVars, capture>>
       \/ /\ run = 0 \/ CleanupKills
          /\ CleanedUp
          /\ UNCHANGED <<faults, status>>
       \/ /\ Faulty
          /\ (UNCHANGED <<camera, sid, capture>> \/ (run = 0 /\ CleanedUp))
          /\ status' = Uninit
    /\ pc' = "done"
    /\ UNCHANGED <<setup, shot, snap, getvars, trouble>>

Host ==
    \/ RsInit \/ RsStart \/ ErrorMsg
    \/ GetData \/ GetStatus \/ GetReady \/ Handle \/ Chunk \/ Msgs
    \/ Finish \/ LastMsgs \/ AwaitScript \/ ScriptMsgs \/ ShotDone
    \/ Recover \/ Stop \/ WaitEnd \/ Drain \/ Cleanup

Next == Host \/ Camera

Spec == Init /\ [][Next]_vars

-----------------------------------------------------------------------------
(***************************************************************************)
(* Correctness.                                                            *)
(***************************************************************************)
Chunks == [image : Nat, left : Nat]

\* The types of the capture on the camera and of the command; a file that is
\* stored has no more chunks than its format may have.
TypeOK ==
    /\ setup \in Setups
    /\ rcset \in {{}, Wanted}
    /\ phase \in 0..Len(Stages)
    /\ avail \in [Formats -> 0..JpgMax + 1]
    /\ image \in Nat
    /\ pc \in {"init", "start", "errmsg", "get", "status", "ready", "handle", "chunk",
               "msgs", "finish", "lastmsgs", "waitscript", "scriptmsgs",
               "shotdone", "recover", "stop", "waitend", "drain", "cleanup",
               "done"}
    /\ shot \in 1..Shots + 1
    /\ snap \in [run : BOOLEAN, msg : BOOLEAN]
    /\ rsdata \in SUBSET (Formats \cup {"notset"})
    /\ toget \subseteq Wanted
    /\ header \in Nat
    /\ chunks \in Seq(Chunks)
    /\ \A i \in 1..Shots : \A f \in DOMAIN files[i] :
          f \in Wanted /\ files[i][f] \in Seq(Chunks)
                      /\ Len(files[i][f]) <= MaxChunks(f) + (IF Dng THEN 1 ELSE 0)
    /\ status \in {"ok", "failed"}
    /\ trouble \in BOOLEAN

\* A shot the loop has finished has stored every format asked for, with every
\* chunk of it in order, and all from one exposure, the header of a DNG too: the i-th shot of the
\* command is the i-th exposure of the script.
ShotsWhole ==
    \A i \in 1..shot-1 :
        /\ DOMAIN files[i] = Wanted
        /\ \A f \in Wanted : \A j \in 1..Len(files[i][f]) :
              files[i][f][j] = [image |-> i, left |-> Len(files[i][f]) - j]

\* The script has returned a value.  rs_shoot returns none; one of -script may.
Returned == \E i \in 1..Len(posted) : posted[i].type = "return"

\* When nothing went wrong with the camera, the calls or the time, the command
\* succeeds: no race between the script and the host makes it fail.  The known
\* case is a script of the user that returns a value: printing it throws.
NoFalseAlarm == status = "failed" => trouble \/ faults > 0 \/ Returned

\* Without that case it does not hold.
NoAlarmAtAll == status = "failed" => trouble \/ faults > 0

\* After the last shot the script has ended and its messages are consumed, so
\* that the cleanup is not refused and discards nothing.
ScriptOver ==
    pc = "cleanup" /\ status = "ok" => run = 0 /\ msgq = <<>>

\* A command that succeeds leaves the camera out of remote capture.
OkIsClean ==
    pc = "done" /\ status = "ok" => rcset = {} /\ run = 0 /\ shot = Shots + 1

\* "try to uninit, killing any still running script": after the cleanup, when
\* every call got through, no script is running and remote capture is off.
CleanupUninits ==
    pc = "done" /\ faults = 0 => rcset = {} /\ run = 0

\* The command ends, with any script that posts a finite number of messages,
\* however it ends, and whatever the camera does with the captures.  One that
\* posts for ever may keep read_all_msgs or the waits busy for ever, as notes in
\* chdku.lua say: every script of this model is a finite list of steps.
CommandEnds == <>(pc = "done")

\* Every call returns, and the camera runs its script.  wait_status counts its
\* timeout down, so that it does not poll for ever.
LiveSpec ==
    /\ Spec
    /\ WF_vars(Host) /\ WF_vars(Camera) /\ SF_vars(GetReady /\ TimesOut)
=============================================================================
