----------------------------- MODULE Connection -----------------------------
(***************************************************************************)
(* Connection objects, the USB handles below them and the commands above.  *)
(*                                                                         *)
(* chdk.connection() hands out one userdata per bus/dev through a weak     *)
(* registry; connect, disconnect, is_connected and the finalizer open and  *)
(* close the device (chdkptp.c); chdku wraps the userdata with what it     *)
(* learnt of the camera and adds reconnect; the CLI commands list, connect,*)
(* reconnect and disconnect and, in the GUI, the device list, the connect  *)
(* button and the status timer call it.  There is one Lua thread; in the   *)
(* GUI a reconnect that sleeps lets callbacks run.  Meanwhile cameras are  *)
(* plugged in and pulled out, and any USB call may fail.                   *)
(***************************************************************************)
EXTENDS Naturals, FiniteSets

CONSTANTS Cams,          \* cameras; one is the same model and serial number
          Paths,         \* bus/dev pairs
          Objs,          \* slots for connection userdata
          Handles,       \* USB handles the system has to give
          None,
          Dummy,         \* the dummy/dummy device of chdk.connection()
          Faulty,        \* USB calls fail for other reasons than a gone device
          Gui,           \* the program runs with the GUI
          ResetOnClose   \* usb_reset_on_close

ASSUME ConnectionAssumption ==
    /\ None \notin Cams \cup Paths \cup Objs \cup Handles
    /\ Dummy \notin Paths \cup {None}
    /\ Faulty \in BOOLEAN /\ Gui \in BOOLEAN /\ ResetOnClose \in BOOLEAN
    /\ Objs # {}

VARIABLES
    at,       \* where each camera is plugged in, None when it is not
    session,  \* the camera has a PTP session open
    claim,    \* the handle that has claimed the camera's interface
    opened,   \* handles open in this process
    hcam,     \* the camera behind a handle, None when it has gone
    obj,      \* the connection userdata
    wrap,     \* chdku wrappers: con, a command's lcon, reconnect's self
    c,        \* the C call in progress
    pc,       \* the Lua code in progress
    sub,      \* con:connect in progress: its wrapper and what follows it
    res,      \* how the last call ended
    cmd,      \* locals of the command: todo, want, temp, was, me
    asleep,   \* reconnect is in its chdku.sleep
    target    \* auxiliary: the camera the user last chose through con

usb  == <<at, session, claim, opened, hcam>>
lua  == <<wrap, pc, sub, res, cmd, asleep, target>>
vars == <<at, session, claim, opened, hcam, obj, c, wrap, pc, sub, res, cmd,
          asleep, target>>

Idle     == [at |-> "idle", o |-> None, why |-> "none"]
NoWrap   == [obj |-> None, info |-> None]
FreeObj  == [st |-> "free", path |-> None, connected |-> FALSE,
             handle |-> None, ident |-> None]
NewObj(p) == [FreeObj EXCEPT !.st = "live", !.path = p]
NoCmd    == [todo |-> {}, want |-> None, temp |-> FALSE, was |-> None, me |-> "con"]
NoSub    == [w |-> "con", ret |-> "idle"]

-----------------------------------------------------------------------------
(* The bus, libusb and the camera's PTP session: external.                 *)

CamsAt(p) == {d \in Cams : at[d] = p}

\* A transfer goes through a handle that claimed a device still there.
Usable(h) == h \in opened /\ hcam[h] # None /\ claim[hcam[h]] = h

\* May a call through h succeed, may it fail?
Succeeds(h, ok) == (ok => Usable(h)) /\ (~ok => (Faulty \/ ~Usable(h)))

Plug(d, p) ==
    /\ at[d] = None /\ CamsAt(p) = {}
    /\ at' = [at EXCEPT ![d] = p]
    /\ UNCHANGED <<session, claim, opened, hcam, obj, c, lua>>

Unplug(d) ==
    /\ at[d] # None
    /\ at' = [at EXCEPT ![d] = None]
    /\ session' = [session EXCEPT ![d] = FALSE]
    /\ claim' = [claim EXCEPT ![d] = None]
    /\ hcam' = [h \in Handles |-> IF hcam[h] = d THEN None ELSE hcam[h]]
    /\ UNCHANGED <<opened, obj, c, lua>>

\* usb_open and usb_claim_interface, whose result init_ptp_usb does not check.
OpenHandle(d, h, claimed) ==
    /\ h \in Handles \ opened
    /\ claimed => claim[d] = None
    /\ ~claimed => (Faulty \/ claim[d] # None)
    /\ opened' = opened \cup {h}
    /\ hcam' = [hcam EXCEPT ![h] = d]
    /\ claim' = IF claimed THEN [claim EXCEPT ![d] = h] ELSE claim
    /\ UNCHANGED <<at, session>>

\* close_usb: release, usb_reset with usb_reset_on_close, usb_close.  over says
\* whether the camera has no session after it: it was closed before, or reset.
CloseHandle(h, over) ==
    LET ends == hcam[h] # None /\ (Usable(h) \/ ResetOnClose)
    IN  /\ over => ends
        /\ (ends /\ ~over) => Faulty
        /\ session' = [d \in Cams |-> session[d] /\ ~(over /\ d = hcam[h])]
        /\ claim' = [d \in Cams |-> IF claim[d] = h THEN None ELSE claim[d]]
        /\ opened' = opened \ {h}
        /\ hcam' = [hcam EXCEPT ![h] = None]
        /\ UNCHANGED at

-----------------------------------------------------------------------------
(* chdkptp.c: open_camera_dev_usb and close_camera_usb, a stage per call    *)
(* that reaches the device, and what their callers do with the outcome.    *)

AtStage(s) == c.at = s

Flag(o, b) == [obj EXCEPT ![o].connected = b]

\* The call returns to Lua with r.
Return(r) == c' = Idle /\ res' = r /\ UNCHANGED <<wrap, pc, sub, cmd, asleep, target>>

Stage(s) == c' = [c EXCEPT !.at = s] /\ UNCHANGED lua

ConnectFails == obj' = Flag(c.o, FALSE) /\ Return("err")

Find ==
    /\ AtStage("find")
    /\ IF CamsAt(obj[c.o].path) = {}
       THEN ConnectFails
       ELSE Stage("open") /\ UNCHANGED obj
    /\ UNCHANGED usb

\* init_ptp_usb, before the first and before the second OpenSession
InitUsb(s, next) ==
    /\ AtStage(s)
    /\ \/ \E d \in CamsAt(obj[c.o].path), h \in Handles, claimed \in BOOLEAN :
            /\ OpenHandle(d, h, claimed)
            /\ obj' = [obj EXCEPT ![c.o].handle = h]
            /\ Stage(next)
       \/ /\ CamsAt(obj[c.o].path) = {} \/ opened = Handles \/ Faulty
          /\ ConnectFails
          /\ UNCHANGED usb

\* Mutant: the second answer is not looked at
OpenSessionUnchecked(s, next) ==
    LET h == obj[c.o].handle
    IN  /\ AtStage(s)
        /\ \E ok \in BOOLEAN :
             /\ Succeeds(h, ok) \/ (Usable(h) /\ session[hcam[h]] /\ ~ok)
             /\ session' = IF ok THEN [session EXCEPT ![hcam[h]] = TRUE] ELSE session
             /\ IF ok \/ next = "fails" THEN Stage("info") ELSE Stage(next)
        /\ UNCHANGED <<at, claim, opened, hcam, obj>>

\* OpenSession: refused while a session is open; its answer may get lost.
OpenSession(s, next) ==
    LET h == obj[c.o].handle
    IN  /\ AtStage(s)
        /\ \E ok \in BOOLEAN, opens \in BOOLEAN :
             /\ Succeeds(h, ok) \/ (Usable(h) /\ session[hcam[h]] /\ ~ok)
             /\ opens => Usable(h) /\ ~session[hcam[h]]
             /\ ok => opens
             /\ session' = IF opens THEN [session EXCEPT ![hcam[h]] = TRUE] ELSE session
             /\ IF ok THEN Stage("info") /\ UNCHANGED obj
                ELSE IF next = "fails" THEN ConnectFails
                ELSE Stage(next) /\ UNCHANGED obj
        /\ UNCHANGED <<at, claim, opened, hcam>>

\* usb_ptp_device_reset clears the session, then the handle is closed.
ResetClose ==
    /\ AtStage("reset")
    /\ \E over \in BOOLEAN : CloseHandle(obj[c.o].handle, over)
    /\ Stage("reopen")
    /\ UNCHANGED obj

\* Mutant: the device info is read once per userdata
DeviceInfoCached ==
    LET h == obj[c.o].handle
    IN  /\ AtStage("info")
        /\ IF Usable(h)
           THEN /\ obj' = [obj EXCEPT ![c.o].connected = TRUE,
                                      ![c.o].ident = IF @ = None THEN hcam[h] ELSE @]
                /\ Return("ok")
           ELSE Stage("cfind") /\ UNCHANGED obj
        /\ UNCHANGED usb

DeviceInfo ==
    LET h == obj[c.o].handle
    IN  /\ AtStage("info")
        /\ \E ok \in BOOLEAN :
             /\ Succeeds(h, ok)
             /\ IF ok
                THEN /\ obj' = [obj EXCEPT ![c.o].connected = TRUE,
                                           ![c.o].ident = hcam[h]]
                     /\ Return("ok")
                ELSE Stage("cfind") /\ UNCHANGED obj
        /\ UNCHANGED usb

\* Mutant: close_connection leaves the flag set
ClosedFlagKept ==
    CASE c.why = "connect" -> ConnectFails
      [] c.why = "close" -> UNCHANGED obj /\ Return("ok")
      [] c.why = "gc" -> obj' = [obj EXCEPT ![c.o] = FreeObj] /\ Return(res)

\* After close_camera: chdk_connect throws, close_connection clears the flag,
\* the finalizer frees the userdata.
Closed ==
    CASE c.why = "connect" -> ConnectFails
      [] c.why = "close" -> obj' = Flag(c.o, FALSE) /\ Return("ok")
      [] c.why = "gc" -> obj' = [obj EXCEPT ![c.o] = FreeObj] /\ Return(res)

CloseFind ==
    /\ AtStage("cfind")
    /\ IF CamsAt(obj[c.o].path) = {}
       THEN Closed
       ELSE Stage("cclose") /\ UNCHANGED obj
    /\ UNCHANGED usb

Close ==
    /\ AtStage("cclose")
    /\ \E over \in BOOLEAN : CloseHandle(obj[c.o].handle, over)
    /\ Closed

CStep ==
    \/ Find
    \/ InitUsb("open", "session")
    \/ OpenSession("session", "reset")
    \/ ResetClose
    \/ InitUsb("reopen", "session2")
    \/ OpenSession("session2", "fails")
    \/ DeviceInfo
    \/ CloseFind
    \/ Close

-----------------------------------------------------------------------------
(* The Lua collector: an unreachable userdata leaves the weak registry     *)
(* first, its finalizer runs at some later allocation.                     *)

Collect(o) ==
    /\ c = Idle
    /\ obj[o].st = "live"
    /\ \A w \in DOMAIN wrap : wrap[w].obj # o
    /\ obj' = [obj EXCEPT ![o].st = "dying"]
    /\ UNCHANGED <<usb, c, lua>>

\* chdk_connection_gc
Finalize(o) ==
    /\ c = Idle
    /\ obj[o].st = "dying"
    /\ IF obj[o].connected
       THEN c' = [at |-> "cfind", o |-> o, why |-> "gc"] /\ UNCHANGED obj
       ELSE obj' = [obj EXCEPT ![o] = FreeObj] /\ UNCHANGED c
    /\ UNCHANGED <<usb, lua>>

-----------------------------------------------------------------------------
(* The methods of a connection as the Lua code calls them.                 *)

\* chdk.connection(p): the registered userdata, or a new one.
GetConnection(p, o) ==
    IF \E x \in Objs : obj[x].st = "live" /\ obj[x].path = p
    THEN obj[o].st = "live" /\ obj[o].path = p /\ UNCHANGED obj
    ELSE obj[o].st = "free" /\ obj' = [obj EXCEPT ![o] = NewObj(p)]

\* Mutant: an error of the status request is stored in the flag
IsConnectedRaw(o, r) ==
    /\ IF obj[o].connected # FALSE THEN Succeeds(obj[o].handle, r) ELSE ~r
    /\ obj' = [obj EXCEPT ![o].connected = IF @ = TRUE /\ ~r THEN None ELSE r]

\* is_connected: a flagged connection is asked for its status and the flag
\* follows the answer.
IsConnected(o, r) ==
    /\ IF obj[o].connected THEN Succeeds(obj[o].handle, r) ELSE ~r
    /\ obj' = Flag(o, r)

\* disconnect, close_connection: begins close_camera when flagged.
Disconnect(o) ==
    c' = IF obj[o].connected THEN [at |-> "cfind", o |-> o, why |-> "close"] ELSE c

\* Mutant: chdk_connect connects a connected connection again
ConnectAgain(w, ret) ==
    /\ sub' = [w |-> w, ret |-> ret]
    /\ c' = [at |-> "find", o |-> wrap[w].obj, why |-> "connect"]
    /\ res' = res /\ pc' = "low"

\* chdk_connect throws on a connected connection.  con_methods:connect goes on
\* at "low" and then to ret.
Connect(w, ret) ==
    /\ sub' = [w |-> w, ret |-> ret]
    /\ IF obj[wrap[w].obj].connected
       THEN c' = c /\ res' = "err" /\ pc' = ret
       ELSE /\ c' = [at |-> "find", o |-> wrap[w].obj, why |-> "connect"]
            /\ res' = res /\ pc' = "low"

Lua(p) == pc = p /\ c = Idle

Low ==
    /\ Lua("low")
    /\ pc' = IF res = "ok" THEN "update" ELSE sub.ret
    /\ UNCHANGED <<usb, obj, c, wrap, sub, res, cmd, asleep, target>>

\* update_connection_info: the stored device info, then the CHDK version.
Update ==
    LET o == wrap[sub.w].obj
    IN  /\ Lua("update")
        /\ wrap' = [wrap EXCEPT ![sub.w].info = obj[o].ident]
        /\ \E ok \in BOOLEAN : Succeeds(obj[o].handle, ok) /\ res' = IF ok THEN "ok" ELSE "err"
        /\ pc' = sub.ret
        /\ UNCHANGED <<usb, obj, c, sub, cmd, asleep, target>>

-----------------------------------------------------------------------------
(* The commands.  A CLI command begins when nothing runs and no reconnect  *)
(* sleeps; a GUI callback may also begin while one does.                   *)

Lcon(o) == [wrap EXCEPT !["tmp"] = [obj |-> o, info |-> None]]

Present == {p \in Paths : CamsAt(p) # {}}

Begins == Lua("idle") /\ ~asleep

\* The command is over: its locals go.
Ends(w, r) ==
    /\ pc' = "idle" /\ res' = r /\ cmd' = NoCmd /\ sub' = NoSub
    /\ wrap' = [w EXCEPT !["tmp"] = NoWrap, !["self"] = NoWrap]

\* disconnect
CmdDisconnect ==
    /\ Begins
    /\ Disconnect(wrap["con"].obj)
    /\ UNCHANGED <<usb, obj, lua>>

\* con_methods:reconnect up to its sleep
CmdReconnect ==
    /\ Begins
    /\ \E r \in BOOLEAN :
         /\ IsConnected(wrap["con"].obj, r)
         /\ c' = IF r THEN [at |-> "cfind", o |-> wrap["con"].obj, why |-> "close"] ELSE c
    /\ cmd' = [cmd EXCEPT !.was = wrap["con"].info]
    /\ asleep' = TRUE
    /\ UNCHANGED <<usb, wrap, pc, sub, res, target>>

Wake ==
    /\ Lua("idle") /\ asleep
    /\ asleep' = FALSE
    /\ Connect(cmd.me, "compare")
    /\ UNCHANGED <<usb, obj, wrap, cmd, target>>

\* Mutant: a different camera is only warned about
CompareWarns ==
    /\ Lua("compare")
    /\ Ends(wrap, IF res = "ok" /\ cmd.was # None THEN "same" ELSE "err")
    /\ UNCHANGED <<usb, obj, c, asleep, target>>

\* Is it the camera it was?  strict is reconnect's default and both callers'.
Compare ==
    LET me == wrap[cmd.me]
    IN  /\ Lua("compare")
        /\ IF res = "ok" /\ cmd.was # None /\ me.info # cmd.was
           THEN /\ Disconnect(me.obj)
                /\ pc' = "differs"
                /\ UNCHANGED <<wrap, sub, res, cmd>>
           ELSE /\ Ends(wrap, IF res = "ok" /\ cmd.was # None THEN "same" ELSE "err")
                /\ UNCHANGED c
        /\ UNCHANGED <<usb, obj, asleep, target>>

Differs ==
    /\ Lua("differs")
    /\ Ends(wrap, "err")
    /\ UNCHANGED <<usb, obj, c, asleep, target>>

\* connect, with or without -nodis; the devices match_device lets through, and
\* the camera model or serial asked for, if one is
CmdConnect(nodis, todo, want) ==
    LET o == wrap["con"].obj
    IN  /\ Begins
        /\ todo \subseteq Present
        /\ \E r \in BOOLEAN :
             IF nodis THEN ~r /\ UNCHANGED <<obj, c>>
             ELSE /\ IsConnected(o, r)
                  /\ c' = IF r THEN [at |-> "cfind", o |-> o, why |-> "close"] ELSE c
        /\ cmd' = [cmd EXCEPT !.todo = todo, !.want = want]
        /\ pc' = "device"
        /\ UNCHANGED <<usb, wrap, sub, res, asleep, target>>

Device(p, o) ==
    /\ Lua("device")
    /\ p \in cmd.todo
    /\ GetConnection(p, o)
    /\ wrap' = Lcon(o)
    /\ cmd' = [cmd EXCEPT !.todo = @ \ {p}]
    /\ pc' = IF cmd.want = None THEN "use" ELSE "check"
    /\ UNCHANGED <<usb, c, sub, res, asleep, target>>

NoDevice ==
    /\ Lua("device")
    /\ cmd.todo = {}
    /\ Ends(wrap, "err")
    /\ UNCHANGED <<usb, obj, c, asleep, target>>

\* The device is asked who it is over its connection, or a temporary one.
Ask(p, ret) ==
    LET o == wrap["tmp"].obj
    IN  /\ Lua(p)
        /\ \E r \in BOOLEAN :
             /\ IF obj[o].connected THEN Succeeds(obj[o].handle, r) ELSE ~r
             /\ obj' = Flag(o, r)
             /\ cmd' = [cmd EXCEPT !.temp = ~r]
             /\ sub' = [w |-> "tmp", ret |-> ret]
             /\ pc' = IF r THEN "update" ELSE "low"
             /\ c' = IF r THEN c ELSE [at |-> "find", o |-> o, why |-> "connect"]
        /\ UNCHANGED <<usb, wrap, res, asleep, target>>

\* match_ptp_info; an error of the connect before it ends the command
Match ==
    /\ Lua("match")
    /\ IF res = "err"
       THEN Ends(wrap, "err") /\ UNCHANGED c
       ELSE /\ IF wrap["tmp"].info # cmd.want
               THEN pc' = "device" /\ (IF cmd.temp THEN Disconnect(wrap["tmp"].obj) ELSE c' = c)
               ELSE pc' = "use" /\ c' = c
            /\ UNCHANGED <<wrap, sub, res, cmd>>
    /\ UNCHANGED <<usb, obj, asleep, target>>

\* con = lcon; connected if it is not yet
Use ==
    LET o == wrap["tmp"].obj
    IN  /\ Lua("use")
        /\ wrap' = [wrap EXCEPT !["con"] = wrap["tmp"], !["tmp"] = NoWrap]
        /\ target' = None
        /\ sub' = [w |-> "con", ret |-> "chosen"]
        /\ \E r \in BOOLEAN :
             /\ IsConnected(o, r)
             /\ pc' = IF r THEN "chosen" ELSE "low"
             /\ res' = IF r THEN "ok" ELSE res
             /\ c' = IF r THEN c ELSE [at |-> "find", o |-> o, why |-> "connect"]
        /\ UNCHANGED <<usb, cmd, asleep>>

\* is_connected once more, then con.ptpdev is read: nil fails.  The end of the
\* connect command and of the GUI's connect button.
Chosen ==
    /\ Lua("chosen")
    /\ IF res = "err"
       THEN pc' = "idle" /\ res' = "err" /\ UNCHANGED <<obj, target>>
       ELSE \E r \in BOOLEAN :
              /\ IsConnected(wrap["con"].obj, r)
              /\ pc' = "idle"
              /\ res' = IF r /\ wrap["con"].info # None THEN "ok" ELSE "err"
              /\ target' = IF res' = "ok" THEN wrap["con"].info ELSE None
    /\ sub' = NoSub
    /\ cmd' = IF asleep THEN cmd ELSE NoCmd
    /\ UNCHANGED <<usb, c, wrap, asleep>>

\* list
CmdList ==
    /\ Begins
    /\ cmd' = [cmd EXCEPT !.todo = Present]
    /\ pc' = "list"
    /\ UNCHANGED <<usb, obj, c, wrap, sub, res, asleep, target>>

ListDevice(p, o) ==
    /\ Lua("list")
    /\ p \in cmd.todo
    /\ GetConnection(p, o)
    /\ wrap' = Lcon(o)
    /\ cmd' = [cmd EXCEPT !.todo = @ \ {p}]
    /\ pc' = "ask"
    /\ UNCHANGED <<usb, c, sub, res, asleep, target>>

\* list_dev_single returns, or pcall catches what it threw.
Listed ==
    /\ Lua("listed")
    /\ pc' = "list"
    /\ IF res = "ok" /\ cmd.temp THEN Disconnect(wrap["tmp"].obj) ELSE c' = c
    /\ UNCHANGED <<usb, obj, wrap, sub, res, cmd, asleep, target>>

ListEnds ==
    /\ Lua("list")
    /\ cmd.todo = {}
    /\ Ends(wrap, "ok")
    /\ UNCHANGED <<usb, obj, c, asleep, target>>

\* gui.connect_action
GuiConnect ==
    /\ Gui /\ Lua("idle")
    /\ \E r \in BOOLEAN :
         /\ IsConnected(wrap["con"].obj, r)
         /\ IF r
            THEN /\ c' = [at |-> "cfind", o |-> wrap["con"].obj, why |-> "close"]
                 /\ UNCHANGED <<pc, sub>>
            ELSE /\ c' = [at |-> "find", o |-> wrap["con"].obj, why |-> "connect"]
                 /\ pc' = "low" /\ sub' = [w |-> "con", ret |-> "chosen"]
    /\ UNCHANGED <<usb, wrap, res, cmd, asleep, target>>

\* gui.select_device, of any device the list once showed.  A sleeping reconnect
\* keeps the wrapper it was called on.
GuiSelect(p, o) ==
    /\ Gui /\ Lua("idle")
    /\ GetConnection(p, o)
    /\ wrap' = [wrap EXCEPT !["con"] = [obj |-> o, info |-> None],
                            !["self"] = IF asleep /\ cmd.me = "con" THEN wrap["con"] ELSE @]
    /\ cmd' = [cmd EXCEPT !.me = IF asleep THEN "self" ELSE @]
    /\ target' = None
    /\ pc' = "selected"
    /\ UNCHANGED <<usb, c, sub, res, asleep>>

GuiSelected ==
    LET o == wrap["con"].obj
    IN  /\ Lua("selected")
        /\ \E r \in BOOLEAN :
             /\ IsConnected(o, r)
             /\ IF r THEN pc' = "update" /\ sub' = [w |-> "con", ret |-> "idle"]
                ELSE pc' = "idle" /\ UNCHANGED sub
        /\ UNCHANGED <<usb, c, wrap, res, cmd, asleep, target>>

\* gui.timer_update_connection_status
GuiTimer ==
    /\ Gui /\ Lua("idle")
    /\ \E r \in BOOLEAN : IsConnected(wrap["con"].obj, r)
    /\ UNCHANGED <<usb, c, lua>>

\* The program ends: lua_close finalizes everything.
Exit ==
    /\ Begins
    /\ pc' = "exit"
    /\ wrap' = [w \in DOMAIN wrap |-> NoWrap]
    /\ target' = None
    /\ UNCHANGED <<usb, obj, c, sub, res, cmd, asleep>>

-----------------------------------------------------------------------------

Init ==
    /\ at \in [Cams -> Paths \cup {None}]
    /\ \A d, e \in Cams : (at[d] = at[e] /\ at[d] # None) => d = e
    /\ session = [d \in Cams |-> FALSE]
    /\ claim = [d \in Cams |-> None]
    /\ opened = {}
    /\ hcam = [h \in Handles |-> None]
    /\ \E o \in Objs :
         /\ obj = [x \in Objs |-> IF x = o THEN NewObj(Dummy) ELSE FreeObj]
         /\ wrap = [w \in {"con", "tmp", "self"} |->
                      IF w = "con" THEN [obj |-> o, info |-> None] ELSE NoWrap]
    /\ c = Idle /\ pc = "idle" /\ sub = NoSub /\ res = "ok"
    /\ cmd = NoCmd /\ asleep = FALSE /\ target = None

Command ==
    \/ CmdDisconnect
    \/ CmdReconnect
    \/ \E nodis \in BOOLEAN, todo \in SUBSET Paths, want \in Cams \cup {None} :
         CmdConnect(nodis, todo, want)
    \/ CmdList
    \/ GuiConnect
    \/ \E p \in Paths, o \in Objs : GuiSelect(p, o)
    \/ GuiTimer
    \/ Exit

LuaStep ==
    \/ Low
    \/ Update
    \/ Wake
    \/ Compare
    \/ Differs
    \/ \E p \in Paths, o \in Objs : Device(p, o)
    \/ NoDevice
    \/ Ask("check", "match")
    \/ Match
    \/ Use
    \/ Chosen
    \/ \E p \in Paths, o \in Objs : ListDevice(p, o)
    \/ Ask("ask", "listed")
    \/ Listed
    \/ ListEnds
    \/ GuiSelected

Bus == \E d \in Cams : (\E p \in Paths : Plug(d, p)) \/ Unplug(d)

Collector == \E o \in Objs : Collect(o) \/ Finalize(o)

Next == CStep \/ Command \/ LuaStep \/ Bus \/ Collector

Spec == Init /\ [][Next]_vars

-----------------------------------------------------------------------------
(* Properties                                                              *)

Wraps  == {"con", "tmp", "self"}
Stages == {"idle", "find", "open", "session", "reset", "reopen", "session2",
           "info", "cfind", "cclose"}
Labels == {"idle", "low", "update", "compare", "differs", "device", "check",
           "match", "use", "chosen", "list", "ask", "listed", "selected", "exit"}

\* Every variable stays in its range.
TypeOK ==
    /\ at \in [Cams -> Paths \cup {None}]
    /\ session \in [Cams -> BOOLEAN]
    /\ claim \in [Cams -> Handles \cup {None}]
    /\ opened \subseteq Handles
    /\ hcam \in [Handles -> Cams \cup {None}]
    /\ obj \in [Objs -> [st : {"free", "live", "dying"},
                         path : Paths \cup {Dummy, None}, connected : BOOLEAN,
                         handle : Handles \cup {None}, ident : Cams \cup {None}]]
    /\ wrap \in [Wraps -> [obj : Objs \cup {None}, info : Cams \cup {None}]]
    /\ c \in [at : Stages, o : Objs \cup {None}, why : {"none", "connect", "close", "gc"}]
    /\ pc \in Labels
    /\ sub \in [w : Wraps, ret : Labels]
    /\ res \in {"ok", "err", "same"}
    /\ cmd \in [todo : SUBSET Paths, want : Cams \cup {None}, temp : BOOLEAN,
                was : Cams \cup {None}, me : Wraps]
    /\ asleep \in BOOLEAN
    /\ target \in Cams \cup {None}

\* The stages of a C call that use the handle stored in the userdata
UsesHandle == {"session", "reset", "session2", "info", "cfind", "cclose"}

\* A connected userdata, and a C call that will use one's handle, holds a handle
\* that is open, so that no path through open_camera_dev_usb's retry,
\* close_camera and the finalizer closes a handle twice or uses a closed one.
HandleOpen ==
    /\ \A o \in Objs : obj[o].connected => obj[o].handle \in opened
    /\ c.at \in UsesHandle => obj[c.o].handle \in opened

\* No two connections share a handle: closing one leaves the other alone.
HandleOwned ==
    \A o, x \in Objs :
        (o # x /\ obj[o].connected /\ obj[x].connected) => obj[o].handle # obj[x].handle

\* A connection flagged connected has a session on its camera as long as the
\* camera is there: no retry of another connect, no finalizer of an older
\* userdata for the same device and no reset closes it behind its back.
SessionHeld ==
    \A o \in Objs :
        LET d == hcam[obj[o].handle]
        IN  (obj[o].st = "live" /\ obj[o].connected /\ d # None /\ c.o # o) => session[d]

\* The device info in a connected userdata is that of the camera behind its
\* handle, whatever was plugged in at the same bus/dev in the meantime.
IdentTrue ==
    \A o \in Objs :
        (obj[o].connected /\ hcam[obj[o].handle] # None) => obj[o].ident = hcam[obj[o].handle]

\* A strict reconnect that reports success talks to the camera the wrapper knew
\* before (or one just pulled out), even with GUI callbacks during its sleep.
StrictReconnect ==
    [][(Compare /\ res' = "same") =>
          LET h == obj[wrap[cmd.me].obj].handle
          IN  hcam[h] \in {cmd.was, None} /\ c' = c]_vars

\* While USB calls fail only because the device has gone, a camera's interface
\* is never left claimed by a handle that no connection and no running call
\* holds: such a handle would keep every later connect from working.
NoLostClaim ==
    \A d \in Cams :
        claim[d] # None =>
            \E o \in Objs : obj[o].handle = claim[d] /\ (obj[o].connected \/ c.o = o)

\* What the reconnect command promises (cli.lua:1856): a camera whose model or
\* serial is not that of the current connection is detected.
ReconnectTarget ==
    [][(Compare /\ res' = "same" /\ target # None /\ cmd.me = "con") =>
          hcam[obj[wrap["con"].obj].handle] \in {target, None}]_vars

\* "gc takes care of any open connections" (chdkptp.c:2741): when everything is
\* finalized, no handle is open.
ExitCloses ==
    (pc = "exit" /\ c = Idle /\ \A o \in Objs : obj[o].st = "free") => opened = {}

=============================================================================
