-------------------------------- MODULE Rsint --------------------------------
(***************************************************************************)
(* The rsint command (lua/rsint.lua): a script on the camera takes         *)
(* commands from its message queue, one of them being to shoot, while the  *)
(* host sends what the user types and fetches the data of each shot.  In   *)
(* continuous mode the shutter stays pressed: a hook holds the camera      *)
(* before each exposure until the script lets it go on, or for cmdwait.    *)
(*                                                                         *)
(* con:execwait is one step, and so is the data of a shot: RemoteShoot has *)
(* the stages and chunks.  A wait may end whenever what it waits for has   *)
(* not happened.                                                           *)
(***************************************************************************)
EXTENDS Integers, Sequences

CONSTANTS
    Typed,     \* what the user types
    MaxTyped,  \* bound on the lines typed before the end of the input
    MaxFaults  \* bound on the lost calls

VARIABLES
    cont,   \* opts.cont
    cam,    \* the camera and its script
    host,   \* m.run
    files,  \* the data stored: for which shot, made when which was the last
    faults

rsintVars == <<cont, cam, host, files, faults>>

\* No data waits to be fetched.
None == -1

\* next is next_shot; slow, that the hook once gave up waiting; told, that the
\* script has returned false.
Off == [run |-> FALSE, cap |-> FALSE, st |-> "none", hook |-> "no", next |-> FALSE,
        err |-> FALSE, inq |-> <<>>, outq |-> <<>>, data |-> None, slow |-> FALSE, told |-> FALSE]

\* n counts the shots asked for; run is the last script status; at, which call
\* reads messages; lost, where a call was lost.
RsintInit ==
    /\ cont \in BOOLEAN
    /\ cam = Off
    /\ host = [pc |-> "init", cmd |-> "none", typed |-> 0, n |-> 0, run |-> FALSE, at |-> "none",
               got |-> FALSE, stop |-> <<>>, ok |-> TRUE, threw |-> FALSE, lost |-> "none"]
    /\ files = <<>> /\ faults = 0

-----------------------------------------------------------------------------
(***************************************************************************)
(* The script on the camera.                                               *)
(***************************************************************************)
\* An exposure is remembered by the shots asked for when it is made; there is
\* no other before its data is fetched.
Shot(c) == IF c.data = None THEN [c EXCEPT !.data = host.n] ELSE c

Says(c) == [c EXCEPT !.outq = Append(@, "user")]

\* The script returns nothing, or false and an error.
Ends(c) ==
    [c EXCEPT !.run = FALSE, !.st = "none", !.told = c.err,
              !.outq = @ \o (IF c.err THEN <<"false", "text">> ELSE <<>>)]

Gives(c) == Ends([c EXCEPT !.err = TRUE])

CamStep(c) == cam' = c /\ UNCHANGED <<cont, host, files, faults>>

\* wait_shooting may time out.
CamFocuses ==
    /\ cam.st = "start"
    /\ CamStep([cam EXCEPT !.st = "loop"]) \/ CamStep(Gives(cam))

\* A pass of the loop that has a message.  The last shot of continuous mode is
\* left to the shutter, which is still pressed, when the hook does not wait.
CamTakes ==
    /\ cam.st = "loop" /\ cam.inq # <<>>
    /\ LET c == [cam EXCEPT !.inq = Tail(@)]
           m == Head(cam.inq)
       IN  \/ ~c.cap /\ CamStep(Gives(c))
           \/ c.cap /\ m = "s" /\ CamStep(IF cont THEN [c EXCEPT !.next = TRUE] ELSE Shot(c))
           \/ c.cap /\ m = "l" /\ CamStep(Ends(Shot(c)))
           \/ c.cap /\ m = "l" /\ cont /\ c.hook # "ready" /\ CamStep(Ends(c))
           \/ c.cap /\ m = "q" /\ CamStep(IF cont THEN Says(c) ELSE Ends(c))
           \/ c.cap /\ m = "x" /\ CamStep(Says(c))
           \/ c.cap /\ m = "off" /\ CamStep([Says(c) EXCEPT !.cap = FALSE, !.data = None])
           \/ /\ c.cap /\ m = "die"
              /\ CamStep([c EXCEPT !.run = FALSE, !.st = "none", !.outq = Append(@, "error")])

\* 'remote capture cancelled'
CamSeesOff == cam.st = "loop" /\ ~cam.cap /\ CamStep(Gives(cam))

\* Data waits too long to be fetched: the camera ends remote capture.
CamCancels == cam.data # None /\ CamStep([cam EXCEPT !.data = None, !.cap = FALSE])

\* 'timeout waiting for command': the loop of single shots goes on.
CamTimesOut ==
    /\ cam.st = "loop" /\ ~cont /\ ~cam.err /\ cam.inq = <<>>
    /\ CamStep([cam EXCEPT !.err = TRUE])

\* hook_shoot: the camera waits before an exposure, and no longer than cmdwait.
HookReady ==
    /\ cam.st = "loop" /\ cont /\ cam.hook # "ready" /\ cam.data = None
    /\ CamStep([cam EXCEPT !.hook = "ready"])

HookGivesUp ==
    /\ cam.st = "loop" /\ cam.hook = "ready"
    /\ CamStep([Shot(cam) EXCEPT !.hook = "passed", !.slow = TRUE])

\* Mutant of Continued: next_shot is not reset.
ContinuedKept(c) == [Shot(c) EXCEPT !.hook = "no"]

\* hook_shoot.continue
Continued(c) == [Shot(c) EXCEPT !.hook = "no", !.next = FALSE]

CamContinues ==
    /\ cam.st = "loop" /\ cam.next /\ cam.hook = "ready"
    /\ CamStep(Continued(cam))

CamSeesPassed ==
    /\ cam.st = "loop" /\ ~cam.next /\ cam.hook = "passed"
    /\ CamStep(Gives(cam))

Camera ==
    \/ CamFocuses \/ CamTakes \/ CamSeesOff \/ CamCancels \/ CamTimesOut
    \/ HookReady \/ HookGivesUp \/ CamContinues \/ CamSeesPassed

-----------------------------------------------------------------------------
(***************************************************************************)
(* The host (m.run).                                                       *)
(***************************************************************************)
Works == UNCHANGED faults
Fails == faults < MaxFaults /\ faults' = faults + 1

\* An error out of m.run, and one that the loop catches.
Thrown(h) == [h EXCEPT !.pc = "done", !.threw = TRUE, !.ok = FALSE]
Caught(h) == [h EXCEPT !.pc = "stop", !.ok = FALSE]
Raised(h) == IF h.at = "final" THEN Thrown(h) ELSE Caught(h)
Lost(h)   == [h EXCEPT !.lost = host.pc]

\* execwait rsint_init: it may refuse.
RsInit ==
    /\ host.pc = "init"
    /\ \/ /\ Works
          /\ cam' = [cam EXCEPT !.cap = TRUE] /\ host' = [host EXCEPT !.pc = "exec"]
       \/ /\ Works
          /\ host' = [host EXCEPT !.pc = "done", !.ok = FALSE] /\ UNCHANGED cam
       \/ /\ Fails
          /\ host' = Thrown(Lost(host)) /\ cam' \in {cam, [cam EXCEPT !.cap = TRUE]}
    /\ UNCHANGED <<cont, files>>

\* exec rsint_run: an error is not caught.
Exec ==
    LET started == [cam EXCEPT !.run = TRUE, !.st = "start"]
    IN  /\ host.pc = "exec"
        /\ \/ Works /\ cam' = started /\ host' = [host EXCEPT !.pc = "prompt"]
           \/ Fails /\ cam' \in {cam, started} /\ host' = Thrown(Lost(host))
        /\ UNCHANGED <<cont, files>>

\* input_func; at the end of the input the script is told to end.
Prompt ==
    /\ host.pc = "prompt"
    /\ \/ /\ host.typed < MaxTyped
          /\ \E cmd \in Typed : host' = [host EXCEPT !.pc = "status", !.cmd = cmd, !.typed = @ + 1]
       \/ host' = [host EXCEPT !.pc = "status", !.cmd = IF cont THEN "l" ELSE "q"]
    /\ UNCHANGED <<cont, cam, files, faults>>

\* Where the host goes once the messages are read that a status showed.
Onward(h) ==
    CASE h.at = "status" /\ ~h.run -> "final"
      [] h.at = "status" /\ h.run -> "write"
      [] h.at = "wait" -> IF ~h.run \/ (h.cmd = "q" /\ ~cont) THEN "final" ELSE "prompt"
      [] h.at = "get" -> IF ~h.got THEN "get" ELSE IF h.cmd = "l" THEN "final" ELSE "prompt"
      [] h.at = "final" -> "cleanup"

\* script_status before a command, and wait_status after one: 50 ms, or in the
\* end 10 s, for a message or the end of the script.
Asked(at) ==
    LET h == [host EXCEPT !.at = at, !.run = cam.run]
    IN  [h EXCEPT !.pc = IF cam.outq # <<>> THEN "read" ELSE Onward(h)]

Asks ==
    /\ host.pc \in {"status", "wait"}
    /\ \/ Works /\ host' = Asked(host.pc)
       \/ Fails /\ host' = Caught(Lost(host))
    /\ UNCHANGED <<cont, cam, files>>

\* Handlers print; msg.value of a returned false is an error, and an error
\* message is one except in the end.
Unhandled(m) == m = "false" \/ (m = "error" /\ host.at # "final")

\* read_all_msgs
Read ==
    LET Taken == cam' = [cam EXCEPT !.outq = Tail(@)]
    IN  /\ host.pc = "read"
        /\ \/ /\ Works /\ cam.outq = <<>>
              /\ host' = [host EXCEPT !.pc = Onward(host)] /\ UNCHANGED cam
           \/ /\ Works /\ cam.outq # <<>> /\ Taken
              /\ host' = IF Unhandled(Head(cam.outq)) THEN Raised(host) ELSE host
           \/ /\ Fails /\ host' = Raised(Lost(host))
              /\ (UNCHANGED cam \/ (cam.outq # <<>> /\ Taken))
        /\ UNCHANGED <<cont, files>>

\* The command path: it may name a directory that cannot be made.
SetPath ==
    /\ host.pc = "write" /\ host.cmd = "path"
    /\ host' \in {Caught(host), [host EXCEPT !.pc = "prompt"]}
    /\ UNCHANGED <<cont, cam, files, faults>>

Written(m) == [cam EXCEPT !.inq = Append(@, m)]

\* write_msg; a shot is asked for.
Write ==
    /\ host.pc = "write" /\ host.cmd # "path"
    /\ \/ /\ Works /\ cam.run /\ cam' = Written(host.cmd)
          /\ host' = IF host.cmd \in {"s", "l"}
                     THEN [host EXCEPT !.pc = "get", !.n = @ + 1, !.got = FALSE]
                     ELSE [host EXCEPT !.pc = "wait"]
       \/ Works /\ ~cam.run /\ UNCHANGED cam /\ host' = Caught(host)
       \/ Fails /\ cam' \in {cam, Written(host.cmd)} /\ host' = Caught(Lost(host))
    /\ UNCHANGED <<cont, files>>

\* capture_get_data: a pass fetches the data and then reads messages; without
\* data it polls on, up to the timeout.
Get ==
    LET Fetched == cam' = [cam EXCEPT !.data = None]
        h == [host EXCEPT !.at = "get"]
    IN  /\ host.pc = "get"
        /\ \/ /\ Works /\ cam.data # None /\ Fetched
              /\ files' = Append(files, [shot |-> host.n, made |-> cam.data])
              /\ host' = [h EXCEPT !.pc = "read", !.got = TRUE]
           \/ /\ Works /\ cam.data = None /\ cam.cap /\ cam.outq # <<>>
              /\ host' = [h EXCEPT !.pc = "read"] /\ UNCHANGED <<cam, files>>
           \/ /\ Works /\ cam.data = None
              /\ host' = Caught(h) /\ UNCHANGED <<cam, files>>
           \/ /\ Fails /\ UNCHANGED files /\ host' = Caught(Lost(h))
              /\ (UNCHANGED cam \/ Fetched)
        /\ UNCHANGED cont

\* After an error the script is told to end, while the connection is there.
Stop ==
    /\ host.pc = "stop"
    /\ \/ /\ Works /\ cam.run
          /\ host' = [host EXCEPT !.pc = "stopping",
                        !.stop = IF cont THEN <<"off", "l">> ELSE <<"q">>]
       \/ Works /\ ~cam.run /\ host' = [host EXCEPT !.pc = "final"]
       \/ Fails /\ host' = [Lost(host) EXCEPT !.pc = "final"]
    /\ UNCHANGED <<cont, cam, files>>

StopWrite ==
    /\ host.pc = "stopping"
    /\ \/ /\ Works /\ host.stop # <<>> /\ cam.run /\ cam' = Written(Head(host.stop))
          /\ host' = [host EXCEPT !.stop = Tail(@)]
       \/ /\ Works /\ (host.stop = <<>> \/ ~cam.run)
          /\ host' = [host EXCEPT !.pc = "final"] /\ UNCHANGED cam
       \/ /\ Fails
          /\ host' = [Lost(host) EXCEPT !.pc = "final"]
          /\ cam' \in {cam} \cup {Written(m) : m \in {host.stop[i] : i \in 1..Len(host.stop)}}
    /\ UNCHANGED <<cont, files>>

\* Nothing is cleaned up when a lost call was the end of the connection; an
\* error of wait_status_pcall has a msg of its own.
Final ==
    /\ host.pc = "final"
    /\ \/ Works /\ host' = Asked("final")
       \/ faults > 0 /\ Works /\ host' = [host EXCEPT !.pc = "done", !.lost = "connection"]
       \/ Fails /\ host' = [Lost(host) EXCEPT !.at = "final", !.pc = "read"]
    /\ UNCHANGED <<cont, cam, files>>

\* Mutant of Clobbers: a script that still runs refuses the cleanup.
ClobbersNot == ~cam.run

\* clobber=true
Clobbers == TRUE

Cleaned == [Off EXCEPT !.slow = cam.slow, !.told = cam.told]

\* execwait_pcall rs_cleanup: a script that still runs is killed.
Cleanup ==
    /\ host.pc = "cleanup"
    /\ \/ /\ Works
          /\ cam' = (IF Clobbers THEN Cleaned ELSE cam)
          /\ host' = [host EXCEPT !.pc = "done", !.ok = @ /\ Clobbers]
       \/ /\ Fails /\ cam' \in {cam, Cleaned}
          /\ host' = [Lost(host) EXCEPT !.pc = "done", !.ok = FALSE]
    /\ UNCHANGED <<cont, files>>

Host ==
    \/ RsInit \/ Exec \/ Prompt \/ Asks \/ Read \/ SetPath \/ Write \/ Get
    \/ Stop \/ StopWrite \/ Final \/ Cleanup

RsintNext == Camera \/ Host

RsintSpec == RsintInit /\ [][RsintNext]_rsintVars

-----------------------------------------------------------------------------
(***************************************************************************)
(* Correctness.                                                            *)
(***************************************************************************)
Done == host.pc = "done"

\* The camera is left in remote capture, or its script running, only when a
\* call before the loop or of the cleanup itself was lost, or the connection,
\* or reading the last messages threw; a lost call of the loop is cleaned up.
LeavesClean ==
    Done /\ (cam.cap \/ cam.run) =>
        host.threw \/ host.lost \in {"init", "exec", "cleanup", "connection"}

\* What is stored for a shot was exposed after the shot had been asked for,
\* unless the camera went on by itself because the hook had waited too long.
OwnShots ==
    ~cam.slow => \A i \in 1..Len(files) : files[i].shot = files[i].made

\* A session that succeeds has stored every shot, and its script has not
\* returned false, unless it still ran when the last wait was over.
OkComplete ==
    Done /\ host.ok =>
        /\ Len(files) = host.n
        /\ host.lost # "connection" /\ ~host.run => ~cam.told

RsintContract == LeavesClean /\ OwnShots /\ OkComplete

\* Even an error in reading the last messages leaves the camera cleaned up; a
\* script that returns false without a lost call shows it does not.
AlwaysCleaned == Done /\ faults = 0 => ~cam.cap
=============================================================================
