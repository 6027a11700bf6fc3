------------------------------ MODULE Multicam ------------------------------
(***************************************************************************)
(* Several cameras (lua/multicam.lua): each runs the multicam script, a    *)
(* loop that takes commands from its message queue and answers with status *)
(* messages that name the command but not which one of that name; the host *)
(* sends a command to the selected cameras and polls them until each has   *)
(* answered, failed or run out of time.  The answer to a command that was  *)
(* given up comes all the same.                                            *)
(***************************************************************************)
EXTENDS Integers, FiniteSetsExt, SequencesExt

CONSTANTS
    Cams,      \* the cameras, numbers in the order of mc.cams
    Names,     \* commands that answer once
    Parts,     \* how many messages a list takes
    Budgets    \* bounds on the commands sent, and on the lost calls and the
               \* scripts that die

\* The ids of cameras are set by a call of its own.
ASSUME MulticamAssumption ==
    /\ Cams \subseteq Nat /\ "setid" \notin Names
    /\ Parts \in Nat /\ Budgets \subseteq Nat \X Nat

VARIABLES
    script, \* the script of each camera, its two queues, what it executes
    id,     \* mc_id of the wrapper of each camera
    known,  \* does the wrapper of a camera know the id of its script?
    sel,    \* mc.selected
    call,   \* the call in progress
    last,   \* what the last call returned
    budget  \* of the lost calls and dead scripts to come, and of the commands

multiVars == <<script, id, known, sel, call, last, budget>>

NoCmd == [n |-> 0, name |-> "none", id |-> 0]
Msg(c, cmd, kind) == [n |-> cmd.n, name |-> cmd.name, kind |-> kind, cam |-> c]

NoResult == [failed |-> FALSE, done |-> FALSE, err |-> "none", msg |-> Msg(0, NoCmd, "none")]

\* n counts the commands; pend are the calls of set_id that follow.
Idle == [pc |-> "idle", cmd |-> NoCmd, n |-> 0, todo |-> {}, res |-> <<>>, complete |-> 0,
         wait |-> FALSE, late |-> {}, got |-> <<>>, pend |-> <<>>, saved |-> {}]

NoCall == [op |-> "none", ok |-> FALSE, n |-> 0, sel |-> {}, res |-> <<>>, late |-> {},
           lists |-> [c \in Cams |-> <<>>], idWas |-> [c \in Cams |-> 0]]

CallFails == budget.faults > 0 /\ budget' = [budget EXCEPT !.faults = @ - 1, !.lost = TRUE]
CallWorks == UNCHANGED budget

-----------------------------------------------------------------------------
(***************************************************************************)
(* The script on a camera (mc.run).                                        *)
(***************************************************************************)
Quiet(c) == script[c].inq = <<>> /\ script[c].doing = NoCmd

CamReads(c) ==
    /\ script[c].run /\ ~script[c].done /\ script[c].doing = NoCmd /\ script[c].inq # <<>>
    /\ script' = [script EXCEPT ![c].doing = Head(script[c].inq), ![c].inq = Tail(@), ![c].parts = 0]
    /\ UNCHANGED <<id, known, sel, call, last, budget>>

\* ff_imglist sends the list in parts.
CamSendsPart(c) ==
    /\ script[c].doing.name = "imglist" /\ script[c].parts < Parts
    /\ script' = [script EXCEPT ![c].parts = @ + 1,
                          ![c].outq = Append(@, Msg(c, script[c].doing, "part"))]
    /\ UNCHANGED <<id, known, sel, call, last, budget>>

\* write_status; setid has set the id by then, and exit mc.done.
CamAnswers(c) ==
    /\ script[c].doing # NoCmd
    /\ script[c].doing.name = "imglist" => script[c].parts = Parts
    /\ script' = [script EXCEPT ![c].doing = NoCmd,
                          ![c].id = IF script[c].doing.name = "setid" THEN script[c].doing.id ELSE @,
                          ![c].done = script[c].doing.name = "exit",
                          ![c].outq = Append(@, Msg(c, script[c].doing, "status"))]
    /\ UNCHANGED <<id, known, sel, call, last, budget>>

CamEnds(c) ==
    /\ script[c].done
    /\ script' = [script EXCEPT ![c].run = FALSE, ![c].done = FALSE]
    /\ UNCHANGED <<id, known, sel, call, last, budget>>

\* A command that throws ends the script.
CamDies(c) ==
    /\ script[c].run /\ script[c].doing # NoCmd /\ CallFails
    /\ script' = [script EXCEPT ![c].run = FALSE, ![c].doing = NoCmd,
                          ![c].outq = Append(@, Msg(c, script[c].doing, "error"))]
    /\ UNCHANGED <<id, known, sel, call, last>>

-----------------------------------------------------------------------------
(***************************************************************************)
(* mc:cmd                                                                  *)
(***************************************************************************)
First(S) == Min(S)

\* What a call that returns or throws leaves; in a set_id the next one follows.
Returns(op, ok, res) ==
    /\ last' = [NoCall EXCEPT !.op = op, !.ok = ok, !.n = call.cmd.n, !.sel = sel, !.res = res,
                  !.late = call.late, !.lists = call.got, !.idWas = id]
    /\ call' = [Idle EXCEPT !.n = call.n, !.pend = call.pend, !.saved = call.saved,
                  !.pc = IF call.pend # <<>> \/ call.saved # {} THEN "setid" ELSE "idle"]
    /\ UNCHANGED <<script, id, known>>

\* An error leaves the selection as a set_id in progress made it.
Throws ==
    /\ last' = [NoCall EXCEPT !.op = "threw"]
    /\ call' = [Idle EXCEPT !.n = call.n]
    /\ UNCHANGED <<id, known, sel>>

Started(cmd, wait, h) ==
    [h EXCEPT !.pc = "flush", !.cmd = cmd, !.n = cmd.n, !.wait = wait, !.late = {},
       !.got = [c \in Cams |-> <<>>]]

\* Commands are sent after a flush (mc.cmd_defaults).
Cmd(name, wait) ==
    /\ call.pc = "idle" /\ call.n < budget.cmds
    /\ call' = [Started([n |-> call.n + 1, name |-> name, id |-> 0], wait, call)
                  EXCEPT !.todo = sel]
    /\ last' = NoCall
    /\ UNCHANGED <<script, id, known, sel, budget>>

\* Mutant of Flushed: one message is read and not all of them.
FlushedOne(q) == IF q = <<>> THEN q ELSE Tail(q)

\* flushmsgs: reads until there is no message.
Flushed(q) == <<>>

\* late are the cameras that still have something to answer.
Flush(c) ==
    /\ call.pc = "flush" /\ call.todo # {} /\ c = First(call.todo)
    /\ \/ /\ CallWorks
          /\ script' = [script EXCEPT ![c].outq = Flushed(@)]
          /\ call' = [call EXCEPT !.todo = @ \ {c},
                        !.late = IF Quiet(c) THEN @ ELSE @ \cup {c}]
          /\ UNCHANGED <<id, known, sel, last>>
       \/ CallFails /\ UNCHANGED script /\ Throws

FlushEnds ==
    /\ call.pc = "flush" /\ call.todo = {}
    /\ call' = [call EXCEPT !.pc = "send", !.todo = sel]
    /\ UNCHANGED <<script, id, known, sel, last, budget>>

Sent(c, cmd) == [script EXCEPT ![c].inq = Append(@, cmd)]

\* write_msg_pcall: an error is a warning, and a message may have arrived.
Send(c) ==
    /\ call.pc = "send" /\ call.todo # {} /\ c = First(call.todo)
    /\ \/ script[c].run /\ CallWorks /\ script' = Sent(c, call.cmd)
       \/ ~script[c].run /\ CallWorks /\ UNCHANGED script
       \/ CallFails /\ script[c].run /\ script' \in {script, Sent(c, call.cmd)}
    /\ call' = [call EXCEPT !.todo = @ \ {c}]
    /\ UNCHANGED <<id, known, sel, last>>

SendEnds ==
    /\ call.pc = "send" /\ call.todo = {}
    /\ \/ /\ ~call.wait
          /\ Returns("sent", TRUE, <<>>) /\ UNCHANGED <<sel, budget>>
       \/ /\ call.wait
          /\ call' = [call EXCEPT !.pc = "poll", !.todo = sel, !.complete = 0,
                        !.res = [i \in {id[c] : c \in sel} |-> NoResult]]
          /\ UNCHANGED <<script, id, known, sel, last, budget>>

-----------------------------------------------------------------------------
(***************************************************************************)
(* mc:wait_status_msg                                                      *)
(***************************************************************************)
Failed(r, err) == [r EXCEPT !.failed = TRUE, !.err = err]

\* The result of reading message m where cmd is expected: read_msg_strict takes
\* only messages of the user, and of the script it knows.
Mismatch(cmd, m) == m.name # cmd.name
Heard(r, cmd, m, ours) ==
    IF ~ours THEN Failed(r, "bad_script_id")
    ELSE IF m.kind = "error" THEN Failed(r, "wrongmsg_error")
    ELSE [(IF Mismatch(cmd, m) THEN Failed(r, "unexpected cmd") ELSE r)
            EXCEPT !.done = TRUE, !.msg = m]

\* get_single_status: the script status and a message that is there.
Poll(c) ==
    LET r == call.res[id[c]]
        q == script[c].outq
        Told(s) == call' = [call EXCEPT !.todo = @ \ {c}, !.res[id[c]] = s]
        Read == script' = [script EXCEPT ![c].outq = Tail(@)]
    IN  /\ call.pc = "poll" /\ call.todo # {} /\ c = First(call.todo)
        /\ \/ /\ (r.failed \/ r.done) /\ CallWorks
              /\ call' = [call EXCEPT !.todo = @ \ {c}, !.complete = @ + 1]
              /\ UNCHANGED script
           \/ /\ ~(r.failed \/ r.done) /\ CallWorks
              /\ \/ q # <<>> /\ Told(Heard(r, call.cmd, Head(q), known[c])) /\ Read
                 \/ q = <<>> /\ script[c].run /\ Told(r) /\ UNCHANGED script
                 \/ q = <<>> /\ ~script[c].run /\ Told(Failed(r, "not running")) /\ UNCHANGED script
           \/ /\ ~(r.failed \/ r.done) /\ CallFails
              /\ Told(Failed(r, "lost")) /\ (UNCHANGED script \/ (q # <<>> /\ Read))
        /\ UNCHANGED <<id, known, sel, last>>

TimedOut(r) == IF r.done THEN r ELSE Failed(r, "timeout")

\* After a pass over the cameras: all were complete before it, or the time is
\* over, or another pass follows.
Complete ==
    /\ call.pc = "poll" /\ call.todo = {} /\ call.complete = Cardinality(sel)
    /\ Returns("cmd", TRUE, call.res)
    /\ UNCHANGED <<sel, budget>>

TimesOut ==
    /\ call.pc = "poll" /\ call.todo = {} /\ call.complete # Cardinality(sel)
    /\ Returns("cmd", FALSE, [i \in DOMAIN call.res |-> TimedOut(call.res[i])])
    /\ UNCHANGED <<sel, budget>>

PollsAgain ==
    /\ call.pc = "poll" /\ call.todo = {} /\ call.complete # Cardinality(sel)
    /\ call' = [call EXCEPT !.todo = sel, !.complete = 0]
    /\ UNCHANGED <<script, id, known, sel, last, budget>>

-----------------------------------------------------------------------------
(***************************************************************************)
(* mc:cmd_msgbatch: one camera after the other, without a flush.           *)
(***************************************************************************)
Batch ==
    /\ call.pc = "idle" /\ call.n < budget.cmds
    /\ call' = [Started([n |-> call.n + 1, name |-> "imglist", id |-> 0], TRUE, call)
                  EXCEPT !.pc = "ask", !.todo = sel]
    /\ last' = NoCall
    /\ UNCHANGED <<script, id, known, sel, budget>>

\* late are the cameras that have, or will have, something else to read.
Ask(c) ==
    /\ call.pc = "ask" /\ call.todo # {} /\ c = First(call.todo)
    /\ \/ /\ script[c].run /\ CallWorks /\ script' = Sent(c, call.cmd)
          /\ call' = [call EXCEPT !.pc = "list",
                        !.late = IF Quiet(c) /\ script[c].outq = <<>> THEN @ ELSE @ \cup {c}]
       \/ /\ ~script[c].run /\ CallWorks
          /\ UNCHANGED script /\ call' = [call EXCEPT !.todo = @ \ {c}]
       \/ /\ CallFails /\ script[c].run
          /\ script' \in {script, Sent(c, call.cmd)}
          /\ call' = [call EXCEPT !.todo = @ \ {c}]
    /\ UNCHANGED <<id, known, sel, last>>

\* Mutant of EndsList: the first message ends the list.
EndsListAny(m) == TRUE

\* A status ends the list, of whatever command it is.
EndsList(m) == m.kind = "status"

\* wait_msg: its timeout is a day and it does not look at the script, which may
\* have ended since.
ReadPart(c) ==
    LET q == script[c].outq
        Read == script' = [script EXCEPT ![c].outq = Tail(@)]
    IN  /\ call.pc = "list" /\ c = First(call.todo)
        /\ \/ /\ q # <<>> /\ CallWorks /\ Read
              /\ \/ (Head(q).kind = "error" \/ ~known[c]) /\ Throws
                 \/ /\ Head(q).kind # "error" /\ known[c]
                    /\ call' = [call EXCEPT
                         !.got[c] = IF Head(q).kind = "part" THEN Append(@, Head(q)) ELSE @,
                         !.pc = IF EndsList(Head(q)) THEN "ask" ELSE "list",
                         !.todo = IF EndsList(Head(q)) THEN @ \ {c} ELSE @]
                    /\ UNCHANGED <<id, known, sel, last>>
           \/ /\ q = <<>> /\ ~(script[c].run /\ ~Quiet(c)) /\ CallWorks
              /\ UNCHANGED script /\ Throws
           \/ /\ CallFails /\ Throws /\ (UNCHANGED script \/ (q # <<>> /\ Read))

BatchEnds ==
    /\ call.pc = "ask" /\ call.todo = {}
    /\ Returns("batch", TRUE, <<>>)
    /\ UNCHANGED <<sel, budget>>

-----------------------------------------------------------------------------
(***************************************************************************)
(* mc:start: a script that runs is told to exit, and then one is started.  *)
(***************************************************************************)
Fresh(c) == [run |-> TRUE, done |-> FALSE, inq |-> <<>>, outq |-> <<>>, doing |-> NoCmd,
             parts |-> 0, id |-> id[c]]

Start ==
    /\ call.pc = "idle" /\ call.n < budget.cmds
    /\ call' = [Started([n |-> call.n + 1, name |-> "exit", id |-> 0], TRUE, call)
                  EXCEPT !.pc = "start", !.todo = sel]
    /\ last' = NoCall
    /\ UNCHANGED <<script, id, known, sel, budget>>

\* An error is a warning, and the next camera follows.
NextStart == [call EXCEPT !.pc = "start", !.todo = @ \ {First(@)}]

\* script_status
StartAsk(c) ==
    /\ call.pc = "start" /\ call.todo # {} /\ c = First(call.todo)
    /\ \/ script[c].run /\ CallWorks /\ call' = [call EXCEPT !.pc = "exiting"]
       \/ ~script[c].run /\ CallWorks /\ call' = [call EXCEPT !.pc = "exec"]
       \/ CallFails /\ call' = NextStart
    /\ UNCHANGED <<script, id, known, sel, last>>

\* write_msg, which throws where the script has ended by then.
StartExit(c) ==
    /\ call.pc = "exiting" /\ c = First(call.todo)
    /\ \/ /\ script[c].run /\ CallWorks /\ script' = Sent(c, call.cmd)
          /\ call' = [call EXCEPT !.pc = "ending"]
       \/ ~script[c].run /\ CallWorks /\ UNCHANGED script /\ call' = NextStart
       \/ /\ CallFails /\ call' = NextStart
          /\ (UNCHANGED script \/ (script[c].run /\ script' = Sent(c, call.cmd)))
    /\ UNCHANGED <<id, known, sel, last>>

\* The script has 250 ms to end.
StartWait(c) ==
    /\ call.pc = "ending" /\ c = First(call.todo)
    /\ \/ ~script[c].run /\ CallWorks /\ call' = [call EXCEPT !.pc = "exec"]
       \/ script[c].run /\ CallWorks /\ call' = NextStart
       \/ CallFails /\ call' = NextStart
    /\ UNCHANGED <<script, id, known, sel, last>>

\* exec flushes both queues; after an error the id of the script is unknown.
StartExec(c) ==
    /\ call.pc = "exec" /\ c = First(call.todo)
    /\ call' = NextStart
    /\ \/ CallWorks /\ script' = [script EXCEPT ![c] = Fresh(c)] /\ known' = [known EXCEPT ![c] = TRUE]
       \/ /\ CallFails /\ script' \in {script, [script EXCEPT ![c] = Fresh(c)]}
          /\ known' = [known EXCEPT ![c] = FALSE]
    /\ UNCHANGED <<id, sel, last>>

StartEnds ==
    /\ call.pc = "start" /\ call.todo = {}
    /\ Returns("start", TRUE, <<>>)
    /\ UNCHANGED <<sel, budget>>

-----------------------------------------------------------------------------
(***************************************************************************)
(* mc:sel and mc:set_id                                                    *)
(***************************************************************************)
Select(S) ==
    /\ call.pc = "idle" /\ sel' = S /\ sel' # sel
    /\ last' = NoCall
    /\ UNCHANGED <<script, id, known, call, budget>>

\* Mutant of Swaps: the camera that has the new id keeps it.
SwapsNone(c, old, new) == << <<c, new>> >>

\* The cameras that get ids: first the one that has the new id, if any.
Swaps(c, old, new) ==
    LET conflict == {d \in Cams : id[d] = new}
    IN  (IF conflict = {} THEN <<>> ELSE << <<First(conflict), old>> >>) \o << <<c, new>> >>

SetId(c, new) ==
    /\ call.pc = "idle" /\ call.n < budget.cmds
    /\ \A d \in Cams : d < c => id[d] # id[c]
    /\ call' = [call EXCEPT !.pc = "setid", !.pend = Swaps(c, id[c], new)]
    /\ last' = NoCall
    /\ UNCHANGED <<script, id, known, sel, budget>>

\* set_id_cam: the id of the wrapper is set before the camera is asked whether
\* its script runs; then the selection is that camera until it has answered.
SetIdCam ==
    /\ call.pc = "setid" /\ call.pend # <<>>
    /\ LET c == Head(call.pend)[1]
           new == Head(call.pend)[2]
           rest == Tail(call.pend)
           saved == IF call.saved = {} THEN sel ELSE call.saved
           cmd == [n |-> call.n + 1, name |-> "setid", id |-> new]
       IN  /\ id' = [id EXCEPT ![c] = new]
           /\ \/ /\ script[c].run /\ CallWorks
                 /\ sel' = {c}
                 /\ call' = [Started(cmd, TRUE, call)
                               EXCEPT !.todo = {c}, !.pend = rest, !.saved = saved]
                 /\ UNCHANGED last
              \/ /\ ~script[c].run /\ CallWorks
                 /\ call' = [call EXCEPT !.pend = rest, !.saved = saved]
                 /\ UNCHANGED <<sel, last>>
              \/ /\ CallFails
                 /\ last' = [NoCall EXCEPT !.op = "threw"]
                 /\ call' = [Idle EXCEPT !.n = call.n]
                 /\ sel' = saved
    /\ UNCHANGED <<script, known>>

\* sel('all')
SetIdEnds ==
    /\ call.pc = "setid" /\ call.pend = <<>>
    /\ sel' = Cams
    /\ call' = [Idle EXCEPT !.n = call.n]
    /\ last' = [last EXCEPT !.op = "setid"]
    /\ UNCHANGED <<script, id, known, budget>>

MultiInit ==
    /\ id = [c \in Cams |-> c]
    /\ script = [c \in Cams |-> Fresh(c)]
    /\ known = [c \in Cams |-> TRUE]
    /\ sel = Cams
    /\ call = Idle /\ last = NoCall
    /\ budget \in {[cmds |-> b[1], faults |-> b[2], lost |-> FALSE] : b \in Budgets}

CamNext(c) == CamReads(c) \/ CamSendsPart(c) \/ CamAnswers(c) \/ CamEnds(c) \/ CamDies(c)

Call ==
    \/ \E name \in Names, wait \in BOOLEAN : Cmd(name, wait)
    \/ Batch \/ Start
    \/ \E c \in Cams : Select({c}) \/ SetId(c, First(Cams))
    \/ Select(Cams)

HostNext ==
    \/ FlushEnds \/ SendEnds \/ Complete \/ TimesOut \/ PollsAgain \/ BatchEnds
    \/ StartEnds \/ SetIdCam \/ SetIdEnds
    \/ \E c \in Cams : Flush(c) \/ Send(c) \/ Poll(c) \/ Ask(c) \/ ReadPart(c)
                      \/ StartAsk(c) \/ StartExit(c) \/ StartWait(c)
                      \/ StartExec(c)

MultiNext == Call \/ HostNext \/ (\E c \in Cams : CamNext(c))

MultiSpec == MultiInit /\ [][MultiNext]_multiVars

-----------------------------------------------------------------------------
(***************************************************************************)
(* Correctness.                                                            *)
(***************************************************************************)
\* A result that is done and has not failed is the answer of its camera to that
\* command, unless the camera had not answered an earlier one when its queue was
\* flushed, or two wrappers had the same id.
OwnAnswers ==
    last.op = "cmd" /\ IsInjective([c \in last.sel |-> last.idWas[c]]) =>
        \A c \in last.sel \ last.late :
            LET r == last.res[last.idWas[c]]
            IN  r.done /\ ~r.failed => r.msg.cam = c /\ r.msg.n = last.n

\* A list is whole and the answer to its own command, or there is none, unless
\* there was something else to read when the camera was asked.
OwnLists ==
    last.op = "batch" =>
        \A c \in last.sel \ last.late :
            last.lists[c] # <<>> =>
                /\ Len(last.lists[c]) = Parts
                /\ \A k \in 1..Parts : last.lists[c][k].n = last.n

\* Wrappers have an id each and share it with their cameras once these have done
\* what they were told, those that were started later as well, unless a call was
\* lost or a script died.
IdsTrue ==
    call.pc = "idle" /\ ~budget.lost =>
        /\ IsInjective(id)
        /\ \A c \in Cams : Quiet(c) /\ script[c].run => script[c].id = id[c]

AnswersTrue == OwnAnswers /\ OwnLists /\ IdsTrue
=============================================================================
