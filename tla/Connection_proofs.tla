------------------------- MODULE Connection_proofs --------------------------
(***************************************************************************)
(* Handles are used and closed only while they are open, and each belongs  *)
(* to one connection: for any number of cameras, bus/dev pairs, userdata   *)
(* and handles, with and without faults, GUI and reset on close.           *)
(*                                                                         *)
(* The invariant says in addition what a C call in progress may rely on    *)
(* (CallOK, CallOwns) and which Lua variables hold a userdata at which     *)
(* point of a command (RefOK), so that no step works on none.              *)
(***************************************************************************)
EXTENDS Connection, TLAPS

ConnectStages == {"find", "open", "session", "reset", "reopen", "session2", "info"}
CloseStages   == {"cfind", "cclose"}

\* A connect works on an unconnected userdata, a disconnect and a finalizer on a
\* connected one; a connect that failed closes what it had opened.
CallOK ==
    c.at # "idle" =>
        /\ c.o \in Objs
        /\ c.at \in ConnectStages => c.why = "connect"
        /\ c.at \in CloseStages => c.why \in {"connect", "close", "gc"}
        /\ obj[c.o].connected = (c.why # "connect")

\* The handle a call works on is no other connection's.
CallOwns ==
    c.at \in UsesHandle =>
        \A x \in Objs : (x # c.o /\ obj[x].connected) => obj[x].handle # obj[c.o].handle

Connecting == pc \in {"low", "update"}

\* The wrappers that hold a userdata, by the point the Lua code is at.
RefOK ==
    /\ pc # "exit" =>
        /\ wrap["con"].obj \in Objs
        /\ cmd.me \in {"con", "self"}
        /\ wrap[cmd.me].obj \in Objs
    /\ pc \in {"check", "match", "use", "ask", "listed"} => wrap["tmp"].obj \in Objs
    /\ Connecting =>
        /\ wrap[sub.w].obj \in Objs
        /\ sub.ret \in {"match", "listed", "chosen", "compare", "idle"}
        /\ sub.ret \in {"match", "listed"} => sub.w = "tmp"
    /\ asleep =>
        \/ pc \in {"idle", "chosen", "selected"}
        \/ Connecting /\ sub.ret \in {"chosen", "idle"}

HandlesOK == CallOK /\ CallOwns /\ HandleOpen /\ HandleOwned

IInv == TypeOK /\ RefOK /\ HandlesOK

-----------------------------------------------------------------------------
(* TypeOK in parts, so that a step's proof looks only at what it changes.  *)

UsbType ==
    /\ at \in [Cams -> Paths \cup {None}]
    /\ session \in [Cams -> BOOLEAN]
    /\ claim \in [Cams -> Handles \cup {None}]
    /\ opened \subseteq Handles
    /\ hcam \in [Handles -> Cams \cup {None}]

Record == [st : {"free", "live", "dying"}, path : Paths \cup {Dummy, None},
           connected : BOOLEAN, handle : Handles \cup {None}, ident : Cams \cup {None}]

ObjType == obj \in [Objs -> Record]

CType == c \in [at : Stages, o : Objs \cup {None}, why : {"none", "connect", "close", "gc"}]

Wrapper == [obj : Objs \cup {None}, info : Cams \cup {None}]

CmdType == cmd \in [todo : SUBSET Paths, want : Cams \cup {None}, temp : BOOLEAN,
                    was : Cams \cup {None}, me : Wraps]

LuaType ==
    /\ wrap \in [Wraps -> Wrapper]
    /\ pc \in Labels
    /\ sub \in [w : Wraps, ret : Labels]
    /\ res \in {"ok", "err", "same"}
    /\ CmdType
    /\ asleep \in BOOLEAN
    /\ target \in Cams \cup {None}

\* The parts together are TypeOK, before a step and after it.
LEMMA TypeParts == /\ TypeOK <=> UsbType /\ ObjType /\ CType /\ LuaType
                   /\ TypeOK' <=> UsbType' /\ ObjType' /\ CType' /\ LuaType'
  BY DEF TypeOK, UsbType, ObjType, CType, LuaType, CmdType, Record, Wrapper

-----------------------------------------------------------------------------
(* Steps of the Lua code reach the handles only through the userdata.      *)

\* A step that opens and closes no handle and flags nothing as connected that
\* was not keeps HandlesOK, whatever call it begins on a userdata fit for it.
LEMMA LuaKeepsHandles ==
  ASSUME IInv, c = Idle, opened' = opened,
         \A x \in Objs : obj'[x].connected =>
            obj[x].connected /\ obj'[x].handle = obj[x].handle,
         \/ c' = Idle
         \/ \E o \in Objs : /\ c' = [at |-> "find", o |-> o, why |-> "connect"]
                            /\ obj'[o].connected = FALSE
         \/ \E o \in Objs, why \in {"close", "gc"} :
               /\ c' = [at |-> "cfind", o |-> o, why |-> why]
               /\ obj'[o].connected = TRUE
  PROVE  HandlesOK'
<1>1. HandleOwned'
  BY DEF IInv, HandlesOK, HandleOwned
<1>2. \A o \in Objs : obj'[o].connected => obj'[o].handle \in opened'
  BY DEF IInv, HandlesOK, HandleOpen
<1>3. CASE c' = Idle
  BY <1>1, <1>2, <1>3 DEF HandlesOK, CallOK, CallOwns, HandleOpen, Idle, UsesHandle
<1>4. CASE \E o \in Objs : /\ c' = [at |-> "find", o |-> o, why |-> "connect"]
                           /\ obj'[o].connected = FALSE
  <2>1. PICK o \in Objs : /\ c' = [at |-> "find", o |-> o, why |-> "connect"]
                          /\ obj'[o].connected = FALSE
    BY <1>4
  <2>2. c'.at = "find" /\ c'.o = o /\ c'.why = "connect"
    BY <2>1
  <2>3. CallOK'
    BY <2>1, <2>2 DEF CallOK, ConnectStages, CloseStages
  <2> QED BY <1>1, <1>2, <2>2, <2>3 DEF HandlesOK, CallOwns, HandleOpen, UsesHandle
<1>5. CASE \E o \in Objs, why \in {"close", "gc"} :
               /\ c' = [at |-> "cfind", o |-> o, why |-> why]
               /\ obj'[o].connected = TRUE
  <2>1. PICK o \in Objs, why \in {"close", "gc"} :
               /\ c' = [at |-> "cfind", o |-> o, why |-> why]
               /\ obj'[o].connected = TRUE
    BY <1>5
  <2>2. CallOK'
    BY <2>1 DEF CallOK, ConnectStages, CloseStages
  <2>3. CallOwns'
    BY <1>1, <2>1 DEF CallOwns, HandleOwned
  <2> QED BY <1>1, <1>2, <2>1, <2>2, <2>3 DEF HandlesOK, HandleOpen
<1> QED BY <1>3, <1>4, <1>5


-----------------------------------------------------------------------------
(* The C calls.                                                            *)

\* What a running call may rely on.
LEMMA Running ==
  ASSUME IInv, c.at # "idle"
  PROVE  /\ c.o \in Objs
         /\ c.at \in ConnectStages => c.why = "connect"
         /\ c.at \in CloseStages => c.why \in {"connect", "close", "gc"}
         /\ obj[c.o].connected = (c.why # "connect")
         /\ c.at \in UsesHandle => obj[c.o].handle \in opened
  BY DEF IInv, HandlesOK, CallOK, HandleOpen

\* Moving a flag or freeing a userdata keeps it a userdata.
LEMMA FlagType ==
  ASSUME ObjType, NEW o \in Objs, NEW b \in BOOLEAN
  PROVE  /\ Flag(o, b) \in [Objs -> Record]
         /\ Flag(o, b)[o] = [obj[o] EXCEPT !.connected = b]
         /\ Flag(o, b)[o].connected = b
         /\ Flag(o, b)[o].handle = obj[o].handle
         /\ \A x \in Objs : x # o => Flag(o, b)[x] = obj[x]
<1>1. obj[o] \in Record
  BY DEF ObjType
<1>2. [obj[o] EXCEPT !.connected = b] \in Record
  BY <1>1 DEF Record
<1> QED BY <1>2 DEF ObjType, Flag, Record

\* The userdata made by chdk.connection and the one the finalizer leaves
LEMMA NewType ==
  ASSUME ObjType, NEW o \in Objs
  PROVE  /\ \A p \in Paths \cup {Dummy} : [obj EXCEPT ![o] = NewObj(p)] \in [Objs -> Record]
         /\ [obj EXCEPT ![o] = FreeObj] \in [Objs -> Record]
         /\ FreeObj.connected = FALSE
         /\ \A p \in Paths : NewObj(p).connected = FALSE
<1>1. FreeObj \in Record /\ \A p \in Paths \cup {Dummy} : NewObj(p) \in Record
  BY DEF FreeObj, NewObj, Record
<1> QED BY <1>1 DEF ObjType, FreeObj, NewObj

\* A call that ends with its userdata unconnected, whatever it closed of its own
LEMMA EndKeepsHandles ==
  ASSUME IInv, ObjType, c.at # "idle", c' = Idle,
         obj'[c.o].connected = FALSE,
         \A x \in Objs : x # c.o => obj'[x] = obj[x],
         \A x \in Objs : (x # c.o /\ obj[x].connected) => obj[x].handle \in opened'
  PROVE  HandlesOK'
<1>1. c.o \in Objs
  BY Running
<1>2. HandleOwned'
  BY DEF IInv, HandlesOK, HandleOwned
<1>3. \A o \in Objs : obj'[o].connected => obj'[o].handle \in opened'
  OBVIOUS
<1> QED BY <1>2, <1>3 DEF HandlesOK, CallOK, CallOwns, HandleOpen, Idle, UsesHandle

\* A call that goes to its next stage on the handle it has
LEMMA StageKeepsHandles ==
  ASSUME IInv, CType, obj' = obj, opened' = opened, c.at # "idle",
         NEW s \in ConnectStages \cup CloseStages, c' = [c EXCEPT !.at = s],
         s \in ConnectStages => c.at \in ConnectStages,
         s \in UsesHandle => c.at \in UsesHandle \/ c.why # "connect"
  PROVE  HandlesOK' /\ CType'
<1>1. c'.at = s /\ c'.o = c.o /\ c'.why = c.why
  BY DEF CType
<1>2. CType'
  BY <1>1 DEF CType, Stages, ConnectStages, CloseStages
<1>3. /\ c.o \in Objs
      /\ c.at \in ConnectStages => c.why = "connect"
      /\ c.at \in CloseStages => c.why \in {"connect", "close", "gc"}
      /\ obj[c.o].connected = (c.why # "connect")
      /\ c.at \in UsesHandle => obj[c.o].handle \in opened
  BY Running
<1>4. c.at \in ConnectStages \cup CloseStages
  BY DEF CType, Stages, ConnectStages, CloseStages
<1>5. CallOK'
  BY <1>1, <1>3, <1>4 DEF CallOK, ConnectStages, CloseStages
<1>6. HandleOwned'
  BY DEF IInv, HandlesOK, HandleOwned
<1>7. s \in UsesHandle => c.at \in UsesHandle \/ obj[c.o].connected
  BY <1>3
<1>8. CallOwns'
  BY <1>1, <1>3, <1>7 DEF IInv, HandlesOK, HandleOwned, CallOwns
<1>9. HandleOpen'
  BY <1>1, <1>3, <1>7 DEF IInv, HandlesOK, HandleOpen
<1> QED BY <1>2, <1>5, <1>6, <1>8, <1>9 DEF HandlesOK

\* The Lua variables that a C step leaves alone keep RefOK; res takes the result.
LEMMA LuaFrame ==
  ASSUME IInv, UNCHANGED <<wrap, pc, sub, cmd, asleep, target>>,
         res' \in {"ok", "err", "same"}
  PROVE  LuaType' /\ RefOK'
<1>1. LuaType /\ RefOK
  BY TypeParts DEF IInv
<1>2. LuaType'
  BY <1>1 DEF LuaType, CmdType
<1>3. RefOK'
  BY <1>1 DEF RefOK, Connecting
<1> QED BY <1>2, <1>3

\* connect fails: the flag stays clear
LEMMA FailsKeepsInv ==
  ASSUME IInv, UsbType', ConnectFails, c.at # "idle",
         \A x \in Objs : (x # c.o /\ obj[x].connected) => obj[x].handle \in opened'
  PROVE  IInv'
<1>1. ObjType /\ CType /\ c.o \in Objs
  BY TypeParts, Running DEF IInv
<1>2. ObjType'
  BY <1>1, FlagType DEF ObjType, ConnectFails
<1>3. CType'
  BY DEF CType, ConnectFails, Return, Idle, Stages
<1>4. LuaType' /\ RefOK'
  BY LuaFrame DEF ConnectFails, Return
<1>5. HandlesOK'
  BY <1>1, FlagType, EndKeepsHandles DEF ConnectFails, Return
<1> QED BY <1>2, <1>3, <1>4, <1>5, TypeParts DEF IInv

\* Opening takes a handle nobody has; closing takes away that one only.
LEMMA OpenType ==
  ASSUME UsbType, NEW d \in Cams, NEW h, NEW claimed, OpenHandle(d, h, claimed)
  PROVE  /\ UsbType'
         /\ h \in Handles /\ h \notin opened /\ opened' = opened \cup {h}
<1>1. h \in Handles /\ h \notin opened /\ opened' = opened \cup {h}
  BY DEF OpenHandle
<1>2. claim' \in [Cams -> Handles \cup {None}]
  BY <1>1 DEF OpenHandle, UsbType
<1>3. hcam' \in [Handles -> Cams \cup {None}]
  BY <1>1 DEF OpenHandle, UsbType
<1> QED BY <1>1, <1>2, <1>3 DEF OpenHandle, UsbType

LEMMA CloseType ==
  ASSUME UsbType, NEW h \in opened, NEW over \in BOOLEAN, CloseHandle(h, over)
  PROVE  UsbType' /\ opened' = opened \ {h}
<1>1. session' \in [Cams -> BOOLEAN]
  BY DEF CloseHandle, UsbType
<1>2. claim' \in [Cams -> Handles \cup {None}]
  BY DEF CloseHandle, UsbType
<1>3. hcam' \in [Handles -> Cams \cup {None}]
  BY DEF CloseHandle, UsbType
<1> QED BY <1>1, <1>2, <1>3 DEF CloseHandle, UsbType

LEMMA FindKeepsInv == ASSUME IInv, Find PROVE IInv'
<1>1. c.at = "find" /\ UsbType' /\ opened' = opened
  BY TypeParts DEF IInv, Find, AtStage, usb, UsbType
<1>2. CASE ConnectFails
  BY <1>1, <1>2, FailsKeepsInv DEF IInv, HandlesOK, HandleOpen
<1>3. CASE Stage("open") /\ UNCHANGED obj
  <2>1. ObjType' /\ LuaType' /\ RefOK'
    BY <1>3, LuaFrame, TypeParts DEF IInv, Stage, lua, ObjType, LuaType
  <2>2. HandlesOK' /\ CType'
    BY <1>1, <1>3, StageKeepsHandles, TypeParts
       DEF IInv, Stage, ConnectStages, UsesHandle
  <2> QED BY <1>1, <2>1, <2>2, TypeParts DEF IInv
<1> QED BY <1>2, <1>3 DEF Find

LEMMA InitUsbKeepsInv ==
  ASSUME IInv, NEW s, NEW next, InitUsb(s, next),
         <<s, next>> \in {<<"open", "session">>, <<"reopen", "session2">>}
  PROVE  IInv'
<1>1. /\ c.at = s /\ s \in ConnectStages /\ s # "idle"
      /\ next \in ConnectStages
      /\ c.o \in Objs /\ c.why = "connect" /\ obj[c.o].connected = FALSE
  BY Running DEF InitUsb, AtStage, ConnectStages
<1>2. UsbType /\ ObjType /\ CType
  BY TypeParts DEF IInv
<1>3. CASE ConnectFails /\ UNCHANGED usb
  <2>1. UsbType' /\ opened' = opened
    BY <1>2, <1>3 DEF usb, UsbType
  <2> QED BY <1>1, <1>3, <2>1, FailsKeepsInv DEF IInv, HandlesOK, HandleOpen
<1>4. ASSUME NEW d \in CamsAt(obj[c.o].path), NEW h \in Handles, NEW claimed \in BOOLEAN,
             OpenHandle(d, h, claimed), obj' = [obj EXCEPT ![c.o].handle = h], Stage(next)
      PROVE  IInv'
  <2>1. UsbType' /\ h \notin opened /\ opened' = opened \cup {h}
    BY <1>2, <1>4, OpenType DEF CamsAt
  <2>2. /\ obj'[c.o] = [obj[c.o] EXCEPT !.handle = h]
        /\ \A x \in Objs : x # c.o => obj'[x] = obj[x]
    BY <1>1, <1>2, <1>4 DEF ObjType
  <2>3. obj[c.o] \in Record
    BY <1>1, <1>2 DEF ObjType
  <2>4. /\ obj'[c.o] \in Record /\ obj'[c.o].handle = h
        /\ obj'[c.o].connected = FALSE
    BY <1>1, <2>2, <2>3 DEF Record
  <2>5. ObjType'
    BY <1>1, <1>2, <1>4, <2>4 DEF ObjType
  <2>6. c'.at = next /\ c'.o = c.o /\ c'.why = "connect"
    BY <1>1, <1>2, <1>4 DEF Stage, CType
  <2>7. CType'
    BY <1>1, <1>2, <1>4 DEF Stage, CType, Stages, ConnectStages
  <2>8. LuaType' /\ RefOK'
    BY <1>4, LuaFrame, TypeParts DEF IInv, Stage, lua, LuaType
  <2>9. CallOK'
    BY <1>1, <2>4, <2>6 DEF CallOK, ConnectStages, CloseStages
  <2>10. \A x \in Objs : obj'[x].connected =>
            x # c.o /\ obj[x].connected /\ obj'[x].handle = obj[x].handle
                    /\ obj[x].handle \in opened
    BY <2>2, <2>4 DEF IInv, HandlesOK, HandleOpen
  <2>11. HandleOwned' /\ HandleOpen' /\ CallOwns'
    BY <2>1, <2>4, <2>6, <2>10
       DEF IInv, HandlesOK, HandleOwned, HandleOpen, CallOwns
  <2> QED BY <2>1, <2>5, <2>7, <2>8, <2>9, <2>11, TypeParts DEF IInv, HandlesOK
<1> QED BY <1>3, <1>4 DEF InitUsb

LEMMA OpenSessionKeepsInv ==
  ASSUME IInv, NEW s, NEW next, OpenSession(s, next),
         <<s, next>> \in {<<"session", "reset">>, <<"session2", "fails">>}
  PROVE  IInv'
<1>1. /\ c.at = s /\ s \in ConnectStages /\ s \in UsesHandle /\ s # "idle"
      /\ next # "fails" => next \in ConnectStages
      /\ c.o \in Objs /\ obj[c.o].handle \in opened
  BY Running DEF OpenSession, AtStage, ConnectStages, UsesHandle
<1>2. UsbType /\ ObjType /\ CType
  BY TypeParts DEF IInv
<1>3. opened' = opened
  BY DEF OpenSession
<1>4. UsbType'
  <2>1. session' \in [Cams -> BOOLEAN]
    BY <1>2 DEF OpenSession, UsbType
  <2> QED BY <1>2, <2>1 DEF OpenSession, UsbType
<1>5. CASE ConnectFails
  BY <1>1, <1>3, <1>4, <1>5, FailsKeepsInv DEF IInv, HandlesOK, HandleOpen
<1>6. ASSUME NEW t \in ConnectStages, Stage(t), UNCHANGED obj
      PROVE  IInv'
  <2>1. ObjType' /\ LuaType' /\ RefOK'
    BY <1>2, <1>6, LuaFrame, TypeParts DEF IInv, Stage, lua, ObjType, LuaType
  <2>2. HandlesOK' /\ CType'
    BY <1>1, <1>2, <1>3, <1>6, StageKeepsHandles DEF Stage
  <2> QED BY <1>4, <2>1, <2>2, TypeParts DEF IInv
<1>7. ConnectFails \/ \E t \in ConnectStages : Stage(t) /\ UNCHANGED obj
  BY <1>1 DEF OpenSession, ConnectStages
<1> QED BY <1>5, <1>6, <1>7

LEMMA ResetCloseKeepsInv == ASSUME IInv, ResetClose PROVE IInv'
<1> DEFINE h == obj[c.o].handle
<1>1. /\ c.at = "reset" /\ c.at \in ConnectStages /\ c.at \in UsesHandle
      /\ c.o \in Objs /\ c.why = "connect" /\ obj[c.o].connected = FALSE
      /\ h \in opened
  BY Running DEF ResetClose, AtStage, ConnectStages, UsesHandle
<1>2. UsbType /\ ObjType /\ CType
  BY TypeParts DEF IInv
<1>3. UsbType' /\ opened' = opened \ {h}
  BY <1>1, <1>2, CloseType DEF ResetClose
<1>4. c'.at = "reopen" /\ c'.o = c.o /\ c'.why = "connect"
  BY <1>1, <1>2 DEF ResetClose, Stage, CType
<1>5. CType'
  BY <1>2 DEF ResetClose, Stage, CType, Stages
<1>6. ObjType' /\ LuaType' /\ RefOK'
  BY <1>2, LuaFrame, TypeParts DEF IInv, ResetClose, Stage, lua, ObjType, LuaType
<1>7. \A x \in Objs : obj[x].connected => obj[x].handle \in opened'
  BY <1>1, <1>3 DEF IInv, HandlesOK, HandleOpen, CallOwns
<1>8. HandlesOK'
  BY <1>1, <1>4, <1>7 DEF IInv, ResetClose, HandlesOK, HandleOwned, HandleOpen,
                          CallOwns, CallOK, UsesHandle, ConnectStages, CloseStages
<1> QED BY <1>3, <1>5, <1>6, <1>8, TypeParts DEF IInv

\* Only here does a userdata become connected, with a handle that is its own.
LEMMA DeviceInfoKeepsInv == ASSUME IInv, DeviceInfo PROVE IInv'
<1> DEFINE h == obj[c.o].handle
<1>1. /\ c.at = "info" /\ c.at \in ConnectStages /\ c.at \in UsesHandle
      /\ c.o \in Objs /\ c.why = "connect" /\ h \in opened
  BY Running DEF DeviceInfo, AtStage, ConnectStages, UsesHandle
<1>2. UsbType /\ ObjType /\ CType
  BY TypeParts DEF IInv
<1>3. UsbType' /\ opened' = opened
  BY <1>2 DEF DeviceInfo, usb, UsbType
<1>4. CASE Stage("cfind") /\ UNCHANGED obj
  <2>1. ObjType' /\ LuaType' /\ RefOK'
    BY <1>2, <1>4, LuaFrame, TypeParts DEF IInv, Stage, lua, ObjType, LuaType
  <2>2. HandlesOK' /\ CType'
    BY <1>1, <1>2, <1>3, <1>4, StageKeepsHandles DEF Stage, CloseStages
  <2> QED BY <1>3, <2>1, <2>2, TypeParts DEF IInv
<1>5. CASE /\ Usable(h)
           /\ obj' = [obj EXCEPT ![c.o].connected = TRUE, ![c.o].ident = hcam[h]]
           /\ Return("ok")
  <2>1. hcam[h] \in Cams
    BY <1>1, <1>2, <1>5 DEF Usable, UsbType
  <2>2. obj[c.o] \in Record
    BY <1>1, <1>2 DEF ObjType
  <2>3. /\ obj'[c.o] = [obj[c.o] EXCEPT !.connected = TRUE, !.ident = hcam[h]]
        /\ \A x \in Objs : x # c.o => obj'[x] = obj[x]
    BY <1>1, <1>2, <1>5 DEF ObjType
  <2>4. /\ obj'[c.o] \in Record /\ obj'[c.o].handle = h
    BY <2>1, <2>2, <2>3 DEF Record
  <2>5. ObjType'
    BY <1>1, <1>2, <1>5, <2>3, <2>4 DEF ObjType
  <2>6. CType'
    BY <1>5 DEF CType, Return, Idle, Stages
  <2>7. LuaType' /\ RefOK'
    BY <1>5, LuaFrame DEF Return
  <2>8. c'.at = "idle"
    BY <1>5 DEF Return, Idle
  <2>9. \A x \in Objs : (x # c.o /\ obj'[x].connected) =>
            obj'[x] = obj[x] /\ obj[x].handle \in opened /\ obj[x].handle # h
    BY <1>1, <2>3 DEF IInv, HandlesOK, HandleOpen, CallOwns
  <2>11. HandleOpen'
    BY <1>1, <1>3, <2>4, <2>8, <2>9 DEF HandleOpen, UsesHandle
  <2>12. HandleOwned'
    <3>1. SUFFICES ASSUME NEW o \in Objs, NEW x \in Objs, o # x,
                          obj'[o].connected, obj'[x].connected
                   PROVE  obj'[o].handle # obj'[x].handle
      BY DEF HandleOwned
    <3>2. CASE o # c.o /\ x # c.o
      BY <2>9, <3>1, <3>2 DEF IInv, HandlesOK, HandleOwned
    <3>3. CASE o = c.o \/ x = c.o
      BY <2>4, <2>9, <3>1, <3>3
    <3> QED BY <3>2, <3>3
  <2>10. CallOK' /\ CallOwns'
    BY <2>8 DEF CallOK, CallOwns, UsesHandle
  <2> QED BY <1>3, <2>5, <2>6, <2>7, <2>10, <2>11, <2>12, TypeParts DEF IInv, HandlesOK
<1>6. Usable(h) \/ (Stage("cfind") /\ UNCHANGED obj)
  BY DEF DeviceInfo, Succeeds
<1> QED BY <1>4, <1>5, <1>6 DEF DeviceInfo, Succeeds

\* After close_camera: at most the userdata's own handle has gone.
LEMMA ClosedKeepsInv ==
  ASSUME IInv, UsbType', Closed, c.at \in CloseStages,
         \A x \in Objs : (x # c.o /\ obj[x].connected) => obj[x].handle \in opened'
  PROVE  IInv'
<1>1. /\ c.at # "idle" /\ c.o \in Objs
      /\ c.why \in {"connect", "close", "gc"}
  BY Running DEF CloseStages
<1>2. ObjType /\ res \in {"ok", "err", "same"}
  BY TypeParts DEF IInv, LuaType
<1>3. CASE c.why = "connect"
  BY <1>1, <1>3, FailsKeepsInv DEF Closed
<1>4. CASE c.why # "connect"
  <2>1. /\ obj' = Flag(c.o, FALSE) \/ obj' = [obj EXCEPT ![c.o] = FreeObj]
        /\ Return("ok") \/ Return(res)
    BY <1>1, <1>4 DEF Closed
  <2>2. ObjType'
    <3>1. CASE obj' = Flag(c.o, FALSE)
      <4>1. Flag(c.o, FALSE) \in [Objs -> Record]
        BY <1>1, <1>2, FlagType
      <4> QED BY <3>1, <4>1 DEF ObjType
    <3>2. CASE obj' = [obj EXCEPT ![c.o] = FreeObj]
      <4>1. [obj EXCEPT ![c.o] = FreeObj] \in [Objs -> Record]
        BY <1>1, <1>2, NewType
      <4> QED BY <3>2, <4>1 DEF ObjType
    <3> QED BY <2>1, <3>1, <3>2
  <2>3. /\ obj'[c.o].connected = FALSE
        /\ \A x \in Objs : x # c.o => obj'[x] = obj[x]
    <3>1. CASE obj' = Flag(c.o, FALSE)
      BY <1>1, <1>2, <3>1, FlagType
    <3>2. CASE obj' = [obj EXCEPT ![c.o] = FreeObj]
      BY <1>1, <1>2, <3>2, NewType DEF ObjType
    <3> QED BY <2>1, <3>1, <3>2
  <2>4. CType' /\ c' = Idle
    BY <2>1 DEF CType, Return, Idle, Stages
  <2>5. LuaType' /\ RefOK'
    BY <1>2, <2>1, LuaFrame DEF Return
  <2>6. HandlesOK'
    BY <1>1, <1>2, <2>3, <2>4, EndKeepsHandles
  <2> QED BY <2>2, <2>4, <2>5, <2>6, TypeParts DEF IInv
<1> QED BY <1>3, <1>4

LEMMA CloseFindKeepsInv == ASSUME IInv, CloseFind PROVE IInv'
<1>1. /\ c.at = "cfind" /\ c.at \in CloseStages /\ c.at \in UsesHandle /\ c.at # "idle"
      /\ UsbType' /\ opened' = opened
  BY TypeParts DEF IInv, CloseFind, AtStage, usb, UsbType, CloseStages, UsesHandle
<1>2. CASE Closed
  BY <1>1, <1>2, ClosedKeepsInv DEF IInv, HandlesOK, HandleOpen
<1>3. CASE Stage("cclose") /\ UNCHANGED obj
  <2>1. ObjType' /\ LuaType' /\ RefOK'
    BY <1>3, LuaFrame, TypeParts DEF IInv, Stage, lua, ObjType, LuaType
  <2>2. HandlesOK' /\ CType'
    BY <1>1, <1>3, StageKeepsHandles, TypeParts
       DEF IInv, Stage, ConnectStages, CloseStages
  <2> QED BY <1>1, <2>1, <2>2, TypeParts DEF IInv
<1> QED BY <1>2, <1>3 DEF CloseFind

LEMMA CloseKeepsInv == ASSUME IInv, Close PROVE IInv'
<1> DEFINE h == obj[c.o].handle
<1>1. /\ c.at = "cclose" /\ c.at \in CloseStages /\ c.at \in UsesHandle
      /\ c.o \in Objs /\ h \in opened
  BY Running DEF Close, AtStage, CloseStages, UsesHandle
<1>2. UsbType' /\ opened' = opened \ {h}
  BY <1>1, CloseType, TypeParts DEF IInv, Close
<1>3. \A x \in Objs : (x # c.o /\ obj[x].connected) => obj[x].handle \in opened'
  BY <1>1, <1>2 DEF IInv, HandlesOK, HandleOpen, CallOwns
<1> QED BY <1>1, <1>2, <1>3, ClosedKeepsInv DEF Close

LEMMA CStepKeepsInv == ASSUME IInv, CStep PROVE IInv'
  BY FindKeepsInv, InitUsbKeepsInv, OpenSessionKeepsInv, ResetCloseKeepsInv,
     DeviceInfoKeepsInv, CloseFindKeepsInv, CloseKeepsInv DEF CStep

-----------------------------------------------------------------------------
(* Cameras come and go: the handles of this process stay open.             *)

LEMMA BusKeepsInv == ASSUME IInv, Bus PROVE IInv'
<1>1. UNCHANGED <<opened, obj, c, lua>>
  BY DEF Bus, Plug, Unplug, lua
<1>2. UsbType'
  <2>1. UsbType
    BY TypeParts DEF IInv
  <2>2. ASSUME NEW d \in Cams, NEW p \in Paths, Plug(d, p) PROVE UsbType'
    BY <2>1, <2>2 DEF Plug, UsbType
  <2>3. ASSUME NEW d \in Cams, Unplug(d) PROVE UsbType'
    BY <2>1, <2>3 DEF Unplug, UsbType
  <2> QED BY <2>2, <2>3 DEF Bus
<1>3. ObjType' /\ CType'
  BY <1>1, TypeParts DEF IInv, ObjType, CType
<1>4. LuaType' /\ RefOK'
  BY <1>1, LuaFrame, TypeParts DEF IInv, lua, LuaType
<1>5. HandlesOK'
  BY <1>1 DEF IInv, HandlesOK, HandleOwned, HandleOpen, CallOwns, CallOK
<1> QED BY <1>2, <1>3, <1>4, <1>5, TypeParts DEF IInv

-----------------------------------------------------------------------------
(* The Lua code.                                                           *)

\* What a Lua step does to the userdata: nothing, set a flag that was set or
\* clear it, make a new one, or give one up to its finalizer.
ObjEffect ==
    \/ obj' = obj
    \/ \E o \in Objs, r \in BOOLEAN : obj' = Flag(o, r) /\ (r => obj[o].connected)
    \/ \E o \in Objs, p \in Paths : obj' = [obj EXCEPT ![o] = NewObj(p)]
    \/ \E o \in Objs : obj' = [obj EXCEPT ![o] = FreeObj]
    \/ \E o \in Objs : obj' = [obj EXCEPT ![o].st = "dying"]

\* The call it begins: none, a connect of an unconnected userdata, or a close
CallEffect ==
    \/ c' = c
    \/ \E o \in Objs : /\ c' = [at |-> "find", o |-> o, why |-> "connect"]
                       /\ obj'[o].connected = FALSE
    \/ \E o \in Objs, why \in {"close", "gc"} :
          /\ c' = [at |-> "cfind", o |-> o, why |-> why]
          /\ obj'[o].connected = TRUE

\* What is connected after it was so before, with the same handle and device info.
LEMMA EffectKeeps ==
  ASSUME ObjType, ObjEffect
  PROVE  /\ ObjType'
         /\ \A x \in Objs : obj'[x].connected =>
               /\ obj[x].connected /\ obj'[x].handle = obj[x].handle
               /\ obj'[x].ident = obj[x].ident
<1> DEFINE Kept == \A x \in Objs : obj'[x].connected =>
                      /\ obj[x].connected /\ obj'[x].handle = obj[x].handle
                      /\ obj'[x].ident = obj[x].ident
<1>1. CASE obj' = obj
  BY <1>1 DEF ObjType
<1>2. ASSUME NEW o \in Objs, NEW r \in BOOLEAN,
             obj' = Flag(o, r), r => obj[o].connected
      PROVE  ObjType' /\ Kept
  <2>1. ObjType'
    BY <1>2, FlagType DEF ObjType
  <2>2. /\ obj'[o].connected = r /\ obj'[o].handle = obj[o].handle
        /\ \A x \in Objs : x # o => obj'[x] = obj[x]
    BY <1>2, FlagType
  <2>3. obj[o] \in Record
    BY DEF ObjType
  <2>4. obj'[o] = [obj[o] EXCEPT !.connected = r]
    BY <1>2, FlagType
  <2>5. obj'[o].ident = obj[o].ident
    BY <2>3, <2>4 DEF Record
  <2> QED BY <1>2, <2>1, <2>2, <2>5
<1>3. ASSUME NEW o \in Objs, NEW p \in Paths, obj' = [obj EXCEPT ![o] = NewObj(p)]
      PROVE  ObjType' /\ Kept
  <2>1. ObjType'
    BY <1>3, NewType DEF ObjType
  <2>2. obj'[o].connected = FALSE /\ \A x \in Objs : x # o => obj'[x] = obj[x]
    BY <1>3, NewType DEF ObjType
  <2> QED BY <2>1, <2>2
<1>4. ASSUME NEW o \in Objs, obj' = [obj EXCEPT ![o] = FreeObj]
      PROVE  ObjType' /\ Kept
  <2>1. ObjType'
    BY <1>4, NewType DEF ObjType
  <2>2. obj'[o].connected = FALSE /\ \A x \in Objs : x # o => obj'[x] = obj[x]
    BY <1>4, NewType DEF ObjType
  <2> QED BY <2>1, <2>2
<1>5. ASSUME NEW o \in Objs, obj' = [obj EXCEPT ![o].st = "dying"]
      PROVE  ObjType' /\ Kept
  <2>1. obj[o] \in Record
    BY DEF ObjType
  <2>2. /\ obj'[o] = [obj[o] EXCEPT !.st = "dying"]
        /\ \A x \in Objs : x # o => obj'[x] = obj[x]
    BY <1>5 DEF ObjType
  <2>3. /\ obj'[o] \in Record
        /\ obj'[o].connected = obj[o].connected
        /\ obj'[o].handle = obj[o].handle /\ obj'[o].ident = obj[o].ident
    BY <2>1, <2>2 DEF Record
  <2>4. ObjType'
    BY <1>5, <2>3 DEF ObjType
  <2> QED BY <2>2, <2>3, <2>4
<1> QED BY <1>1, <1>2, <1>3, <1>4, <1>5 DEF ObjEffect

\* Such a step keeps all but the Lua variables, which are the action's own.
LEMMA LuaKeepsInv ==
  ASSUME IInv, c = Idle, UNCHANGED usb, ObjEffect, CallEffect, LuaType', RefOK'
  PROVE  IInv'
<1>1. UsbType /\ ObjType /\ CType
  BY TypeParts DEF IInv
<1>2. UsbType' /\ opened' = opened
  BY <1>1 DEF UsbType, usb
<1>3. ObjType' /\ \A x \in Objs : obj'[x].connected =>
                     obj[x].connected /\ obj'[x].handle = obj[x].handle
  BY <1>1, EffectKeeps
<1>4. CType'
  BY <1>1 DEF CallEffect, CType, Stages
<1>5. HandlesOK'
  BY <1>2, <1>3, LuaKeepsHandles DEF CallEffect
<1> QED BY <1>2, <1>3, <1>4, <1>5, TypeParts DEF IInv

LEMMA CollectorKeepsInv == ASSUME IInv, Collector PROVE IInv'
<1>1. UNCHANGED <<usb, lua>> /\ c = Idle
  BY DEF Collector, Collect, Finalize, lua
<1>2. LuaType' /\ RefOK'
  BY <1>1, LuaFrame, TypeParts DEF IInv, lua, LuaType
<1>3. ObjEffect /\ CallEffect
  <2>1. ASSUME NEW o \in Objs, Collect(o) PROVE ObjEffect /\ CallEffect
    BY <2>1 DEF Collect, ObjEffect, CallEffect
  <2>2. ASSUME NEW o \in Objs, Finalize(o) PROVE ObjEffect /\ CallEffect
    BY <2>2, TypeParts DEF Finalize, IInv, ObjType, Record, ObjEffect, CallEffect
  <2> QED BY <2>1, <2>2 DEF Collector
<1> QED BY <1>1, <1>2, <1>3, LuaKeepsInv DEF usb

\* is_connected of a userdata: what it says and what it leaves behind
LEMMA AskedFlag ==
  ASSUME IInv, NEW o \in Objs, NEW r \in BOOLEAN, IsConnected(o, r)
  PROVE  /\ obj' = Flag(o, r) /\ (r => obj[o].connected)
         /\ obj'[o].connected = r
         /\ ObjEffect
<1>1. ObjType
  BY TypeParts DEF IInv
<1>2. obj' = Flag(o, r) /\ (r => obj[o].connected)
  BY DEF IsConnected
<1> QED BY <1>1, <1>2, FlagType DEF ObjEffect

\* A wrapper that RefOK vouches for, and the flag of its userdata
LEMMA Flags == ASSUME IInv, NEW o \in Objs PROVE obj[o].connected \in BOOLEAN
  BY TypeParts DEF IInv, ObjType, Record

\* disconnect begins to close a connected userdata, or does nothing.
LEMMA DisconnectEffect ==
  ASSUME IInv, NEW o \in Objs, Disconnect(o), obj' = obj
  PROVE  ObjEffect /\ CallEffect
  BY Flags DEF Disconnect, ObjEffect, CallEffect

LEMMA GetEffect ==
  ASSUME NEW p \in Paths, NEW o \in Objs, GetConnection(p, o)
  PROVE  ObjEffect
  BY DEF GetConnection, ObjEffect

\* The end of a command leaves no local behind.
LEMMA EndsKeepsLua ==
  ASSUME IInv, pc # "exit", ~asleep, NEW w \in {wrap}, NEW r \in {"ok", "err", "same"},
         Ends(w, r), UNCHANGED <<asleep, target>>
  PROVE  LuaType' /\ RefOK'
<1>1. LuaType /\ wrap["con"].obj \in Objs
  BY TypeParts DEF IInv, RefOK
<1>2. NoWrap \in Wrapper
  BY DEF NoWrap, Wrapper
<1>3. wrap' \in [Wraps -> Wrapper] /\ wrap'["con"] = wrap["con"]
  BY <1>1, <1>2 DEF Ends, LuaType, Wraps
<1>4. cmd' = NoCmd /\ sub' = NoSub /\ pc' = "idle" /\ res' = r
  BY DEF Ends
<1>5. CmdType' /\ sub' \in [w : Wraps, ret : Labels]
  BY <1>4 DEF CmdType, NoCmd, NoSub, Wraps, Labels
<1>6. LuaType'
  BY <1>1, <1>3, <1>4, <1>5 DEF LuaType, Labels
<1>7. RefOK'
  BY <1>1, <1>3, <1>4 DEF RefOK, Connecting, NoCmd
<1> QED BY <1>6, <1>7

\* A step that keeps the wrappers and moves on, with the parts it may change
LEMMA MovesKeepsLua ==
  ASSUME IInv, UNCHANGED <<wrap, cmd, asleep, target>>,
         pc' \in Labels, sub' \in [w : Wraps, ret : Labels], res' \in {"ok", "err", "same"}
  PROVE  LuaType'
  BY TypeParts DEF IInv, LuaType, CmdType

LEMMA LowKeepsInv == ASSUME IInv, Low PROVE IInv'
<1>1. LuaType /\ RefOK
  BY TypeParts DEF IInv
<1>2. LuaType'
  BY <1>1, MovesKeepsLua DEF Low, Labels, LuaType
<1>3. RefOK'
  BY <1>1 DEF Low, Lua, RefOK, Connecting, LuaType
<1> QED BY <1>2, <1>3, LuaKeepsInv DEF Low, Lua, ObjEffect, CallEffect

LEMMA UpdateKeepsInv == ASSUME IInv, Update PROVE IInv'
<1> DEFINE o == wrap[sub.w].obj
<1>1. LuaType /\ RefOK /\ ObjType
  BY TypeParts DEF IInv
<1>2. o \in Objs /\ sub.w \in Wraps /\ sub.ret \in Labels
  BY <1>1 DEF Update, Lua, RefOK, Connecting, LuaType
<1>3. obj[o].ident \in Cams \cup {None}
  BY <1>1, <1>2 DEF ObjType, Record
<1>4. /\ wrap' \in [Wraps -> Wrapper]
      /\ \A w \in Wraps : wrap'[w].obj = wrap[w].obj
  <2>1. wrap' = [wrap EXCEPT ![sub.w].info = obj[o].ident]
    BY DEF Update
  <2>2. wrap[sub.w] \in Wrapper
    BY <1>1, <1>2 DEF LuaType
  <2>3. [wrap[sub.w] EXCEPT !.info = obj[o].ident] \in Wrapper
    BY <1>3, <2>2 DEF Wrapper
  <2> QED BY <1>1, <1>2, <2>1, <2>2, <2>3 DEF LuaType, Wrapper
<1>5. LuaType'
  BY <1>1, <1>2, <1>4 DEF Update, LuaType, CmdType
<1>6. cmd.me \in Wraps /\ "con" \in Wraps /\ "tmp" \in Wraps
  BY <1>1 DEF LuaType, CmdType, Wraps
<1>7. RefOK'
  BY <1>1, <1>2, <1>4, <1>6 DEF Update, Lua, RefOK, Connecting
<1> QED BY <1>5, <1>7, LuaKeepsInv DEF Update, Lua, ObjEffect, CallEffect

LEMMA WakeKeepsInv == ASSUME IInv, Wake PROVE IInv'
<1> DEFINE o == wrap[cmd.me].obj
<1>1. LuaType /\ RefOK /\ CmdType
  BY TypeParts DEF IInv, LuaType
<1>2. o \in Objs /\ cmd.me \in Wraps /\ pc = "idle" /\ c = Idle
  BY <1>1 DEF Wake, Lua, RefOK, CmdType
<1>3. /\ UNCHANGED <<usb, obj, wrap, cmd, target>> /\ asleep' = FALSE
      /\ sub' = [w |-> cmd.me, ret |-> "compare"]
      /\ \/ c' = c /\ res' = "err" /\ pc' = "compare"
         \/ /\ c' = [at |-> "find", o |-> o, why |-> "connect"]
            /\ obj[o].connected = FALSE
            /\ res' = res /\ pc' = "low"
  BY <1>2, Flags DEF Wake, Connect
<1>4. LuaType'
  BY <1>1, <1>2, <1>3 DEF LuaType, CmdType, Labels
<1>5. RefOK'
  BY <1>1, <1>2, <1>3 DEF RefOK, Connecting
<1> QED BY <1>2, <1>3, <1>4, <1>5, LuaKeepsInv DEF ObjEffect, CallEffect

LEMMA CompareKeepsInv == ASSUME IInv, Compare PROVE IInv'
<1> DEFINE o == wrap[cmd.me].obj
<1>1. LuaType /\ RefOK
  BY TypeParts DEF IInv
<1>2. o \in Objs /\ pc = "compare" /\ c = Idle /\ ~asleep /\ pc # "exit"
  BY <1>1 DEF Compare, Lua, RefOK, Connecting
<1>3. CASE Disconnect(o) /\ pc' = "differs" /\ UNCHANGED <<wrap, sub, res, cmd>>
  <2>1. LuaType'
    BY <1>1, <1>3, MovesKeepsLua DEF Compare, LuaType, Labels
  <2>2. RefOK'
    BY <1>1, <1>2, <1>3 DEF Compare, RefOK, Connecting
  <2> QED BY <1>2, <1>3, <2>1, <2>2, DisconnectEffect, LuaKeepsInv DEF Compare
<1>4. CASE UNCHANGED c /\ \E r \in {"same", "err"} : Ends(wrap, r)
  <2>1. LuaType' /\ RefOK'
    BY <1>2, <1>4, EndsKeepsLua DEF Compare
  <2> QED BY <1>2, <1>4, <2>1, LuaKeepsInv DEF Compare, ObjEffect, CallEffect
<1> QED BY <1>3, <1>4 DEF Compare

LEMMA DiffersKeepsInv == ASSUME IInv, Differs PROVE IInv'
<1>1. pc = "differs" /\ c = Idle /\ ~asleep
  BY DEF Differs, Lua, IInv, RefOK, Connecting
<1>2. LuaType' /\ RefOK'
  BY <1>1, EndsKeepsLua DEF Differs
<1> QED BY <1>1, <1>2, LuaKeepsInv DEF Differs, ObjEffect, CallEffect

\* The wrapper a command makes for a device
LEMMA LconType ==
  ASSUME LuaType, NEW o \in Objs
  PROVE  /\ Lcon(o) \in [Wraps -> Wrapper]
         /\ Lcon(o)["tmp"].obj = o /\ Lcon(o)["con"] = wrap["con"]
         /\ Lcon(o)["self"] = wrap["self"]
<1>1. [obj |-> o, info |-> None] \in Wrapper
  BY DEF Wrapper
<1> QED BY <1>1 DEF Lcon, LuaType, Wraps

LEMMA DeviceKeepsInv ==
  ASSUME IInv, NEW p \in Paths, NEW o \in Objs, Device(p, o)
  PROVE  IInv'
<1>1. LuaType /\ RefOK /\ CmdType
  BY TypeParts DEF IInv, LuaType
<1>2. pc = "device" /\ c = Idle /\ ~asleep /\ ObjEffect
  BY <1>1, GetEffect DEF Device, Lua, RefOK, Connecting
<1>3. cmd' \in [todo : SUBSET Paths, want : Cams \cup {None}, temp : BOOLEAN,
                was : Cams \cup {None}, me : Wraps]
  BY <1>1 DEF Device, CmdType
<1>4. LuaType'
  BY <1>1, <1>3, LconType DEF Device, LuaType, CmdType, Labels
<1>5. cmd'.me = cmd.me /\ cmd.me \in {"con", "self"}
  BY <1>1, <1>2 DEF Device, CmdType, RefOK
<1>6. RefOK'
  BY <1>1, <1>2, <1>5, LconType DEF Device, RefOK, Connecting
<1> QED BY <1>2, <1>4, <1>6, LuaKeepsInv DEF Device, CallEffect

LEMMA ListDeviceKeepsInv ==
  ASSUME IInv, NEW p \in Paths, NEW o \in Objs, ListDevice(p, o)
  PROVE  IInv'
<1>1. LuaType /\ RefOK /\ CmdType
  BY TypeParts DEF IInv, LuaType
<1>2. pc = "list" /\ c = Idle /\ ~asleep /\ ObjEffect
  BY <1>1, GetEffect DEF ListDevice, Lua, RefOK, Connecting
<1>3. cmd' \in [todo : SUBSET Paths, want : Cams \cup {None}, temp : BOOLEAN,
                was : Cams \cup {None}, me : Wraps]
  BY <1>1 DEF ListDevice, CmdType
<1>4. LuaType'
  BY <1>1, <1>3, LconType DEF ListDevice, LuaType, CmdType, Labels
<1>5. cmd'.me = cmd.me /\ cmd.me \in {"con", "self"}
  BY <1>1, <1>2 DEF ListDevice, CmdType, RefOK
<1>6. RefOK'
  BY <1>1, <1>2, <1>5, LconType DEF ListDevice, RefOK, Connecting
<1> QED BY <1>2, <1>4, <1>6, LuaKeepsInv DEF ListDevice, CallEffect

LEMMA NoDeviceKeepsInv == ASSUME IInv, NoDevice PROVE IInv'
<1>1. pc = "device" /\ c = Idle /\ ~asleep
  BY DEF NoDevice, Lua, IInv, RefOK, Connecting
<1>2. LuaType' /\ RefOK'
  BY <1>1, EndsKeepsLua DEF NoDevice
<1> QED BY <1>1, <1>2, LuaKeepsInv DEF NoDevice, ObjEffect, CallEffect

LEMMA ListEndsKeepsInv == ASSUME IInv, ListEnds PROVE IInv'
<1>1. pc = "list" /\ c = Idle /\ ~asleep
  BY DEF ListEnds, Lua, IInv, RefOK, Connecting
<1>2. LuaType' /\ RefOK'
  BY <1>1, EndsKeepsLua DEF ListEnds
<1> QED BY <1>1, <1>2, LuaKeepsInv DEF ListEnds, ObjEffect, CallEffect

LEMMA AskKeepsInv ==
  ASSUME IInv, NEW p, NEW ret, Ask(p, ret),
         <<p, ret>> \in {<<"check", "match">>, <<"ask", "listed">>}
  PROVE  IInv'
<1> DEFINE o == wrap["tmp"].obj
<1>1. LuaType /\ RefOK /\ CmdType
  BY TypeParts DEF IInv, LuaType
<1>2. pc = p /\ c = Idle /\ ~asleep /\ o \in Objs /\ wrap["con"].obj \in Objs
  BY <1>1 DEF Ask, Lua, RefOK, Connecting
<1>3. PICK r \in BOOLEAN :
        /\ IsConnected(o, r)
        /\ cmd' = [cmd EXCEPT !.temp = ~r]
        /\ sub' = [w |-> "tmp", ret |-> ret]
        /\ pc' = IF r THEN "update" ELSE "low"
        /\ c' = IF r THEN c ELSE [at |-> "find", o |-> o, why |-> "connect"]
  BY DEF Ask, IsConnected
<1>4. ObjEffect /\ obj'[o].connected = r
  BY <1>2, <1>3, AskedFlag
<1>5. CallEffect
  BY <1>2, <1>3, <1>4 DEF CallEffect
<1>6. cmd' \in [todo : SUBSET Paths, want : Cams \cup {None}, temp : BOOLEAN,
                was : Cams \cup {None}, me : Wraps]
  BY <1>1, <1>3 DEF CmdType
<1>7. LuaType'
  BY <1>1, <1>3, <1>6 DEF Ask, LuaType, CmdType, Labels, Wraps
<1>8. RefOK'
  BY <1>1, <1>2, <1>3 DEF Ask, RefOK, Connecting
<1> QED BY <1>2, <1>4, <1>5, <1>7, <1>8, LuaKeepsInv DEF Ask

LEMMA MatchKeepsInv == ASSUME IInv, Match PROVE IInv'
<1> DEFINE o == wrap["tmp"].obj
<1>1. LuaType /\ RefOK
  BY TypeParts DEF IInv
<1>2. pc = "match" /\ c = Idle /\ ~asleep /\ o \in Objs
  BY <1>1 DEF Match, Lua, RefOK, Connecting
<1>3. CASE Ends(wrap, "err") /\ UNCHANGED c
  <2>1. LuaType' /\ RefOK'
    BY <1>2, <1>3, EndsKeepsLua DEF Match
  <2> QED BY <1>2, <1>3, <2>1, LuaKeepsInv DEF Match, ObjEffect, CallEffect
<1>4. CASE /\ pc' \in {"device", "use"}
           /\ Disconnect(o) \/ c' = c
           /\ UNCHANGED <<wrap, sub, res, cmd>>
  <2>1. LuaType'
    BY <1>1, <1>4, MovesKeepsLua DEF Match, LuaType, Labels
  <2>2. RefOK'
    BY <1>1, <1>2, <1>4 DEF Match, RefOK, Connecting
  <2>3. ObjEffect /\ CallEffect
    BY <1>2, <1>4, DisconnectEffect DEF Match, ObjEffect, CallEffect
  <2> QED BY <1>2, <2>1, <2>2, <2>3, LuaKeepsInv DEF Match
<1> QED BY <1>3, <1>4 DEF Match

LEMMA UseKeepsInv == ASSUME IInv, Use PROVE IInv'
<1> DEFINE o == wrap["tmp"].obj
<1>1. LuaType /\ RefOK
  BY TypeParts DEF IInv
<1>2. pc = "use" /\ c = Idle /\ ~asleep /\ o \in Objs
  BY <1>1 DEF Use, Lua, RefOK, Connecting
<1>3. PICK r \in BOOLEAN :
        /\ IsConnected(o, r)
        /\ pc' = IF r THEN "chosen" ELSE "low"
        /\ res' = IF r THEN "ok" ELSE res
        /\ c' = IF r THEN c ELSE [at |-> "find", o |-> o, why |-> "connect"]
  BY DEF Use
<1>4. ObjEffect /\ obj'[o].connected = r
  BY <1>2, <1>3, AskedFlag
<1>5. CallEffect
  BY <1>2, <1>3, <1>4 DEF CallEffect
<1>6. /\ wrap' \in [Wraps -> Wrapper]
      /\ wrap'["con"] = wrap["tmp"] /\ wrap'["self"] = wrap["self"]
  <2>1. NoWrap \in Wrapper
    BY DEF NoWrap, Wrapper
  <2> QED BY <1>1, <2>1 DEF Use, LuaType, Wraps
<1>7. LuaType'
  BY <1>1, <1>3, <1>6 DEF Use, LuaType, CmdType, Labels, Wraps
<1>8. RefOK'
  BY <1>1, <1>2, <1>3, <1>6 DEF Use, RefOK, Connecting
<1> QED BY <1>2, <1>4, <1>5, <1>7, <1>8, LuaKeepsInv DEF Use

LEMMA ChosenKeepsInv == ASSUME IInv, Chosen PROVE IInv'
<1> DEFINE o == wrap["con"].obj
<1>1. LuaType /\ RefOK
  BY TypeParts DEF IInv
<1>2. pc = "chosen" /\ c = Idle /\ o \in Objs
  BY <1>1 DEF Chosen, Lua, RefOK
<1>3. ObjEffect
  BY <1>2, AskedFlag DEF Chosen, ObjEffect
<1>4. pc' = "idle" /\ res' \in {"ok", "err"} /\ target' \in Cams \cup {None}
  BY <1>1 DEF Chosen, LuaType, Wraps, Wrapper
<1>5. sub' \in [w : Wraps, ret : Labels] /\ CmdType'
  BY <1>1 DEF Chosen, NoSub, NoCmd, LuaType, CmdType, Wraps, Labels
<1>6. LuaType'
  BY <1>1, <1>4, <1>5 DEF Chosen, LuaType, CmdType, Labels
<1>7. RefOK'
  BY <1>1, <1>2, <1>4 DEF Chosen, RefOK, Connecting, NoCmd
<1> QED BY <1>2, <1>3, <1>6, <1>7, LuaKeepsInv DEF Chosen, CallEffect

LEMMA ListedKeepsInv == ASSUME IInv, Listed PROVE IInv'
<1>1. LuaType /\ RefOK
  BY TypeParts DEF IInv
<1>2. pc = "listed" /\ c = Idle /\ ~asleep /\ wrap["tmp"].obj \in Objs
  BY <1>1 DEF Listed, Lua, RefOK, Connecting
<1>3. ObjEffect /\ CallEffect
  BY <1>2, DisconnectEffect DEF Listed, ObjEffect, CallEffect
<1>4. LuaType'
  BY <1>1, MovesKeepsLua DEF Listed, LuaType, Labels
<1>5. RefOK'
  BY <1>1, <1>2 DEF Listed, RefOK, Connecting
<1> QED BY <1>2, <1>3, <1>4, <1>5, LuaKeepsInv DEF Listed

LEMMA GuiSelectedKeepsInv == ASSUME IInv, GuiSelected PROVE IInv'
<1> DEFINE o == wrap["con"].obj
<1>1. LuaType /\ RefOK
  BY TypeParts DEF IInv
<1>2. pc = "selected" /\ c = Idle /\ o \in Objs
  BY <1>1 DEF GuiSelected, Lua, RefOK
<1>3. ObjEffect
  BY <1>2, AskedFlag DEF GuiSelected
<1>4. \/ pc' = "update" /\ sub' = [w |-> "con", ret |-> "idle"]
      \/ pc' = "idle" /\ sub' = sub
  BY DEF GuiSelected
<1>5. LuaType'
  BY <1>1, <1>4, MovesKeepsLua DEF GuiSelected, LuaType, Labels, Wraps
<1>6. RefOK'
  BY <1>1, <1>2, <1>4 DEF GuiSelected, RefOK, Connecting
<1> QED BY <1>2, <1>3, <1>5, <1>6, LuaKeepsInv DEF GuiSelected, CallEffect

LEMMA LuaStepKeepsInv == ASSUME IInv, LuaStep PROVE IInv'
  BY LowKeepsInv, UpdateKeepsInv, WakeKeepsInv, CompareKeepsInv, DiffersKeepsInv,
     DeviceKeepsInv, NoDeviceKeepsInv, AskKeepsInv, MatchKeepsInv, UseKeepsInv,
     ChosenKeepsInv, ListDeviceKeepsInv, ListedKeepsInv, ListEndsKeepsInv,
     GuiSelectedKeepsInv DEF LuaStep

-----------------------------------------------------------------------------
(* The commands and the GUI's callbacks.                                   *)

\* A command begins with nothing running, and not while a reconnect sleeps.
LEMMA BeginsWith ==
  ASSUME IInv, Lua("idle")
  PROVE  pc = "idle" /\ c = Idle /\ wrap["con"].obj \in Objs
  BY DEF Lua, IInv, RefOK

LEMMA CmdDisconnectKeepsInv == ASSUME IInv, CmdDisconnect PROVE IInv'
<1>1. c = Idle /\ wrap["con"].obj \in Objs /\ UNCHANGED <<usb, obj, lua>>
  BY BeginsWith DEF CmdDisconnect, Begins
<1>2. LuaType' /\ RefOK'
  BY <1>1, LuaFrame, TypeParts DEF IInv, lua, LuaType
<1> QED BY <1>1, <1>2, DisconnectEffect, LuaKeepsInv DEF CmdDisconnect

\* is_connected, then disconnect when it is
LEMMA DropEffect ==
  ASSUME IInv, NEW o \in Objs, NEW r \in BOOLEAN, IsConnected(o, r),
         c' = IF r THEN [at |-> "cfind", o |-> o, why |-> "close"] ELSE c
  PROVE  ObjEffect /\ CallEffect
  BY AskedFlag DEF CallEffect

LEMMA CmdReconnectKeepsInv == ASSUME IInv, CmdReconnect PROVE IInv'
<1>1. c = Idle /\ pc = "idle" /\ wrap["con"].obj \in Objs
  BY BeginsWith DEF CmdReconnect, Begins
<1>2. LuaType /\ RefOK /\ ~asleep
  BY TypeParts DEF IInv, CmdReconnect, Begins
<1>3. ObjEffect /\ CallEffect
  BY <1>1, DropEffect DEF CmdReconnect
<1>4. wrap["con"].info \in Cams \cup {None}
  BY <1>2 DEF LuaType, Wraps, Wrapper
<1>5. CmdType' /\ cmd'.me = cmd.me
  BY <1>2, <1>4 DEF CmdReconnect, LuaType, CmdType
<1>6. LuaType'
  BY <1>2, <1>5 DEF CmdReconnect, LuaType, CmdType
<1>7. RefOK'
  BY <1>1, <1>2, <1>5 DEF CmdReconnect, RefOK, Connecting
<1> QED BY <1>1, <1>3, <1>6, <1>7, LuaKeepsInv DEF CmdReconnect

LEMMA CmdConnectKeepsInv ==
  ASSUME IInv, NEW nodis \in BOOLEAN, NEW todo \in SUBSET Paths,
         NEW want \in Cams \cup {None}, CmdConnect(nodis, todo, want)
  PROVE  IInv'
<1>1. c = Idle /\ pc = "idle" /\ wrap["con"].obj \in Objs
  BY BeginsWith DEF CmdConnect, Begins
<1>2. LuaType /\ RefOK /\ ~asleep
  BY TypeParts DEF IInv, CmdConnect, Begins
<1>3. ObjEffect /\ CallEffect
  <2>1. CASE obj' = obj /\ c' = c
    BY <2>1 DEF ObjEffect, CallEffect
  <2>2. CASE ~nodis
    BY <1>1, <2>2, DropEffect DEF CmdConnect
  <2> QED BY <2>1, <2>2 DEF CmdConnect
<1>4. CmdType' /\ cmd'.me = cmd.me
  BY <1>2 DEF CmdConnect, LuaType, CmdType
<1>5. LuaType'
  BY <1>2, <1>4 DEF CmdConnect, LuaType, CmdType, Labels
<1>6. RefOK'
  BY <1>1, <1>2, <1>4 DEF CmdConnect, RefOK, Connecting
<1> QED BY <1>1, <1>3, <1>5, <1>6, LuaKeepsInv DEF CmdConnect

LEMMA CmdListKeepsInv == ASSUME IInv, CmdList PROVE IInv'
<1>1. c = Idle /\ pc = "idle"
  BY BeginsWith DEF CmdList, Begins
<1>2. LuaType /\ RefOK /\ ~asleep
  BY TypeParts DEF IInv, CmdList, Begins
<1>3. CmdType' /\ cmd'.me = cmd.me
  BY <1>2 DEF CmdList, LuaType, CmdType, Present
<1>4. LuaType'
  BY <1>2, <1>3 DEF CmdList, LuaType, CmdType, Labels
<1>5. RefOK'
  BY <1>1, <1>2, <1>3 DEF CmdList, RefOK, Connecting
<1> QED BY <1>1, <1>4, <1>5, LuaKeepsInv DEF CmdList, ObjEffect, CallEffect

LEMMA GuiConnectKeepsInv == ASSUME IInv, GuiConnect PROVE IInv'
<1> DEFINE o == wrap["con"].obj
<1>1. c = Idle /\ pc = "idle" /\ o \in Objs
  BY BeginsWith DEF GuiConnect
<1>2. LuaType /\ RefOK
  BY TypeParts DEF IInv
<1>3. PICK r \in BOOLEAN :
        /\ IsConnected(o, r)
        /\ IF r
           THEN /\ c' = [at |-> "cfind", o |-> o, why |-> "close"]
                /\ UNCHANGED <<pc, sub>>
           ELSE /\ c' = [at |-> "find", o |-> o, why |-> "connect"]
                /\ pc' = "low" /\ sub' = [w |-> "con", ret |-> "chosen"]
  BY DEF GuiConnect
<1>4. ObjEffect /\ obj'[o].connected = r
  BY <1>1, <1>3, AskedFlag
<1>5. CallEffect
  BY <1>1, <1>3, <1>4 DEF CallEffect
<1>6. LuaType'
  BY <1>2, <1>3, MovesKeepsLua DEF GuiConnect, LuaType, Labels, Wraps
<1>7. RefOK'
  BY <1>1, <1>2, <1>3 DEF GuiConnect, RefOK, Connecting
<1> QED BY <1>1, <1>4, <1>5, <1>6, <1>7, LuaKeepsInv DEF GuiConnect

LEMMA GuiSelectKeepsInv ==
  ASSUME IInv, NEW p \in Paths, NEW o \in Objs, GuiSelect(p, o)
  PROVE  IInv'
<1>1. c = Idle /\ pc = "idle"
  BY BeginsWith DEF GuiSelect
<1>2. LuaType /\ RefOK
  BY TypeParts DEF IInv
<1>3. ObjEffect
  BY GetEffect DEF GuiSelect
<1>4. /\ wrap' \in [Wraps -> Wrapper] /\ wrap'["con"].obj = o
      /\ wrap'["self"] = IF asleep /\ cmd.me = "con" THEN wrap["con"] ELSE wrap["self"]
  <2>1. [obj |-> o, info |-> None] \in Wrapper
    BY DEF Wrapper
  <2> QED BY <1>2, <2>1 DEF GuiSelect, LuaType, Wraps
<1>5. CmdType' /\ cmd'.me = IF asleep THEN "self" ELSE cmd.me
  BY <1>2 DEF GuiSelect, LuaType, CmdType, Wraps
<1>6. LuaType'
  BY <1>2, <1>4, <1>5 DEF GuiSelect, LuaType, CmdType, Labels
<1>7. RefOK'
  BY <1>1, <1>2, <1>4, <1>5 DEF GuiSelect, RefOK, Connecting
<1> QED BY <1>1, <1>3, <1>6, <1>7, LuaKeepsInv DEF GuiSelect, CallEffect

LEMMA GuiTimerKeepsInv == ASSUME IInv, GuiTimer PROVE IInv'
<1>1. c = Idle /\ wrap["con"].obj \in Objs
  BY BeginsWith DEF GuiTimer
<1>2. LuaType' /\ RefOK'
  BY LuaFrame, TypeParts DEF IInv, GuiTimer, lua, LuaType
<1>3. ObjEffect
  BY <1>1, AskedFlag DEF GuiTimer
<1> QED BY <1>1, <1>2, <1>3, LuaKeepsInv DEF GuiTimer, CallEffect

LEMMA ExitKeepsInv == ASSUME IInv, Exit PROVE IInv'
<1>1. c = Idle /\ ~asleep
  BY BeginsWith DEF Exit, Begins
<1>2. LuaType
  BY TypeParts DEF IInv
<1>3. wrap' \in [Wraps -> Wrapper]
  BY <1>2 DEF Exit, LuaType, NoWrap, Wrapper
<1>4. LuaType'
  BY <1>2, <1>3 DEF Exit, LuaType, CmdType, Labels
<1>5. RefOK'
  BY <1>1 DEF Exit, RefOK, Connecting
<1> QED BY <1>1, <1>4, <1>5, LuaKeepsInv DEF Exit, ObjEffect, CallEffect

LEMMA CommandKeepsInv == ASSUME IInv, Command PROVE IInv'
  BY CmdDisconnectKeepsInv, CmdReconnectKeepsInv, CmdConnectKeepsInv, CmdListKeepsInv,
     GuiConnectKeepsInv, GuiSelectKeepsInv, GuiTimerKeepsInv, ExitKeepsInv DEF Command

-----------------------------------------------------------------------------
(* The theorems.                                                           *)

LEMMA InitHolds == ASSUME Init PROVE IInv
<1>1. PICK o \in Objs :
        /\ obj = [x \in Objs |-> IF x = o THEN NewObj(Dummy) ELSE FreeObj]
        /\ wrap = [w \in {"con", "tmp", "self"} |->
                     IF w = "con" THEN [obj |-> o, info |-> None] ELSE NoWrap]
  BY DEF Init
<1>2. UsbType
  BY DEF Init, UsbType
<1>3. FreeObj \in Record /\ NewObj(Dummy) \in Record
  BY DEF FreeObj, NewObj, Record
<1>4. ObjType /\ \A x \in Objs : obj[x].connected = FALSE
  BY <1>1, <1>3 DEF ObjType, FreeObj, NewObj
<1>5. CType /\ c.at = "idle"
  BY DEF Init, CType, Idle, Stages
<1>6. wrap \in [Wraps -> Wrapper] /\ wrap["con"].obj = o
  BY <1>1 DEF Wraps, Wrapper, NoWrap
<1>7. CmdType /\ sub \in [w : Wraps, ret : Labels]
  BY DEF Init, CmdType, NoCmd, NoSub, Wraps, Labels
<1>8. LuaType
  BY <1>6, <1>7 DEF Init, LuaType, Labels
<1>9. RefOK
  BY <1>6 DEF Init, RefOK, Connecting, NoCmd
<1>10. HandlesOK
  BY <1>4, <1>5
     DEF HandlesOK, CallOK, CallOwns, HandleOpen, HandleOwned, UsesHandle
<1> QED BY <1>2, <1>4, <1>5, <1>8, <1>9, <1>10, TypeParts DEF IInv

LEMMA StutterKeepsInv == ASSUME IInv, UNCHANGED vars PROVE IInv'
<1>1. LuaType' /\ RefOK'
  BY LuaFrame, TypeParts DEF IInv, vars, LuaType
<1>2. UsbType' /\ ObjType' /\ CType'
  BY TypeParts DEF IInv, vars, UsbType, ObjType, CType
<1>3. HandlesOK'
  BY DEF IInv, vars, HandlesOK, HandleOwned, HandleOpen, CallOwns, CallOK
<1> QED BY <1>1, <1>2, <1>3, TypeParts DEF IInv

\* The invariant holds in every reachable state: through every failure of
\* open_camera_dev_usb, every order of callbacks during a reconnect's sleep and
\* every moment a finalizer runs at.
THEOREM Inductive == Spec => []IInv
<1>1. Init => IInv
  BY InitHolds
<1>2. IInv /\ [Next]_vars => IInv'
  BY CStepKeepsInv, CommandKeepsInv, LuaStepKeepsInv, BusKeepsInv, CollectorKeepsInv,
     StutterKeepsInv DEF Next
<1> QED BY <1>1, <1>2, PTL DEF Spec

\* Every variable stays in its range.
THEOREM TypeCorrect == Spec => []TypeOK
<1>1. IInv => TypeOK
  BY DEF IInv
<1> QED BY <1>1, Inductive, PTL

\* A connected userdata, and a call at a stage that uses a handle (chdkptp.c,
\* open_camera_dev_usb and close_camera_usb), has one that is open: none is closed
\* twice or used after it was closed.
THEOREM HandlesOpen == Spec => []HandleOpen
<1>1. IInv => HandleOpen
  BY DEF IInv, HandlesOK
<1> QED BY <1>1, Inductive, PTL

\* No two connected userdata share a handle, so that closing one (disconnect, a
\* failed connect, the finalizer) leaves every other connection alone.
THEOREM HandlesOwned == Spec => []HandleOwned
<1>1. IInv => HandleOwned
  BY DEF IInv, HandlesOK
<1> QED BY <1>1, Inductive, PTL

-----------------------------------------------------------------------------
(* The device info.                                                        *)

\* A step of the Lua code or the collector changes the userdata by ObjEffect only.
LEMMA LuaEffect ==
  ASSUME IInv, Command \/ LuaStep \/ Collector
  PROVE  ObjEffect /\ UNCHANGED usb
<1>1. RefOK
  BY DEF IInv
<1>2. CASE Command
  <2>1. ASSUME NEW nodis \in BOOLEAN, NEW todo \in SUBSET Paths,
               NEW want \in Cams \cup {None}, CmdConnect(nodis, todo, want)
        PROVE  ObjEffect /\ UNCHANGED usb
    BY <2>1, BeginsWith, AskedFlag DEF CmdConnect, Begins, ObjEffect
  <2>2. CASE CmdReconnect \/ GuiConnect \/ GuiTimer
    BY <2>2, BeginsWith, AskedFlag DEF CmdReconnect, Begins, GuiConnect, GuiTimer
  <2>3. CASE CmdDisconnect \/ CmdList \/ Exit
    BY <2>3 DEF CmdDisconnect, CmdList, Exit, ObjEffect
  <2>4. ASSUME NEW p \in Paths, NEW o \in Objs, GuiSelect(p, o)
        PROVE  ObjEffect /\ UNCHANGED usb
    BY <2>4, GetEffect DEF GuiSelect
  <2> QED BY <1>2, <2>1, <2>2, <2>3, <2>4 DEF Command
<1>3. CASE LuaStep
  <2>1. CASE Low \/ Update \/ Wake \/ Compare \/ Differs \/ NoDevice \/ Match
             \/ Listed \/ ListEnds
    BY <2>1 DEF Low, Update, Wake, Compare, Differs, NoDevice, Match, Listed, ListEnds,
                ObjEffect
  <2>2. ASSUME NEW p \in Paths, NEW o \in Objs, Device(p, o) \/ ListDevice(p, o)
        PROVE  ObjEffect /\ UNCHANGED usb
    BY <2>2, GetEffect DEF Device, ListDevice
  <2>3. ASSUME NEW p \in {"check", "ask"}, NEW ret, Ask(p, ret)
        PROVE  ObjEffect /\ UNCHANGED usb
    BY <1>1, <2>3, AskedFlag DEF Ask, IsConnected, Lua, RefOK
  <2>4. CASE Use \/ Chosen \/ GuiSelected
    BY <1>1, <2>4, AskedFlag DEF Use, Chosen, GuiSelected, Lua, RefOK, ObjEffect
  <2> QED BY <1>3, <2>1, <2>2, <2>3, <2>4 DEF LuaStep
<1>4. CASE Collector
  <2>1. ASSUME NEW o \in Objs, Collect(o) \/ Finalize(o)
        PROVE  ObjEffect /\ UNCHANGED usb
    BY <2>1 DEF Collect, Finalize, ObjEffect
  <2> QED BY <1>4, <2>1 DEF Collector
<1> QED BY <1>2, <1>3, <1>4

\* What was connected keeps its device info, and its handle the camera or none.
LEMMA IdentKept ==
  ASSUME IInv, IdentTrue,
         \A x \in Objs : obj'[x].connected =>
            /\ obj[x].connected /\ obj'[x].handle = obj[x].handle
            /\ obj'[x].ident = obj[x].ident,
         \A h \in opened : hcam'[h] \in {hcam[h], None}
  PROVE  IdentTrue'
  BY DEF IInv, HandlesOK, HandleOpen, IdentTrue

LEMMA IdentStep == ASSUME IInv, IdentTrue, [Next]_vars PROVE IdentTrue'
<1>1. UsbType /\ ObjType /\ CType
  BY TypeParts DEF IInv
<1>2. CASE UNCHANGED vars
  BY <1>2, IdentKept DEF vars
<1>3. CASE Bus
  <2>1. obj' = obj /\ opened' = opened
    BY <1>3 DEF Bus, Plug, Unplug
  <2>2. \A h \in opened : hcam'[h] \in {hcam[h], None}
    BY <1>1, <1>3 DEF Bus, Plug, Unplug, UsbType
  <2> QED BY <2>1, <2>2, IdentKept
<1>4. CASE Command \/ LuaStep \/ Collector
  BY <1>1, <1>4, LuaEffect, EffectKeeps, IdentKept DEF usb
<1>5. CASE CStep
  <2> DEFINE Gone == obj'[c.o].connected = FALSE /\ \A x \in Objs : x # c.o => obj'[x] = obj[x]
             Keeps == \A h \in opened : hcam'[h] \in {hcam[h], None}
  <2>1. c.at # "idle" /\ c.o \in Objs
    <3>1. c.at # "idle"
      BY <1>5 DEF CStep, Find, InitUsb, OpenSession, ResetClose, DeviceInfo,
                  CloseFind, Close, AtStage
    <3> QED BY <3>1, Running
  <2>2. ASSUME Gone, Keeps PROVE IdentTrue'
    BY <2>1, <2>2, IdentKept
  <2>3. ASSUME obj' = obj, Keeps PROVE IdentTrue'
    BY <2>3, IdentKept
  <2>4. ASSUME ConnectFails PROVE Gone
    BY <1>1, <2>1, <2>4, FlagType DEF ConnectFails
  <2>5. ASSUME Closed, c.at \in CloseStages PROVE Gone
    <3>1. obj' = Flag(c.o, FALSE) \/ obj' = [obj EXCEPT ![c.o] = FreeObj]
      BY <2>1, <2>5, Running DEF Closed, ConnectFails
    <3>2. CASE obj' = Flag(c.o, FALSE)
      BY <1>1, <2>1, <3>2, FlagType
    <3>3. CASE obj' = [obj EXCEPT ![c.o] = FreeObj]
      BY <1>1, <2>1, <3>3, NewType DEF ObjType
    <3> QED BY <3>1, <3>2, <3>3
  <2>6. ASSUME NEW h \in Handles, NEW over \in BOOLEAN, CloseHandle(h, over) PROVE Keeps
    BY <1>1, <2>6 DEF CloseHandle, UsbType
  <2>7. ASSUME NEW d, NEW h, NEW claimed, OpenHandle(d, h, claimed) PROVE Keeps
    BY <1>1, <2>7 DEF OpenHandle, UsbType
  <2>8. CASE Find
    BY <2>2, <2>3, <2>4, <2>8 DEF Find, usb
  <2>9. ASSUME NEW s, NEW next, InitUsb(s, next),
               <<s, next>> \in {<<"open", "session">>, <<"reopen", "session2">>}
        PROVE  IdentTrue'
    <3>1. CASE ConnectFails /\ UNCHANGED usb
      BY <2>2, <2>4, <3>1 DEF usb
    <3>2. ASSUME NEW d, NEW h, NEW claimed,
                 OpenHandle(d, h, claimed), obj' = [obj EXCEPT ![c.o].handle = h]
          PROVE  IdentTrue'
      <4>1. c.at = s
        BY <2>9 DEF InitUsb, AtStage
      <4>2. obj[c.o].connected = FALSE /\ obj[c.o] \in Record
        BY <1>1, <2>1, <2>9, <4>1, Running DEF ConnectStages, ObjType
      <4>3. obj'[c.o] = [obj[c.o] EXCEPT !.handle = h]
            /\ \A x \in Objs : x # c.o => obj'[x] = obj[x]
        BY <1>1, <2>1, <3>2 DEF ObjType
      <4>4. obj'[c.o].connected = FALSE
        BY <4>2, <4>3 DEF Record
      <4> QED BY <2>2, <2>7, <3>2, <4>3, <4>4
    <3> QED BY <2>9, <3>1, <3>2 DEF InitUsb
  <2>10. ASSUME NEW s, NEW next, OpenSession(s, next) PROVE IdentTrue'
    <3>1. hcam' = hcam /\ (ConnectFails \/ obj' = obj)
      BY <2>10 DEF OpenSession
    <3> QED BY <2>2, <2>3, <2>4, <3>1
  <2>11. CASE ResetClose
    <3>1. obj[c.o].handle \in Handles /\ obj' = obj
      BY <1>1, <2>11, Running DEF ResetClose, AtStage, UsesHandle, UsbType
    <3> QED BY <2>3, <2>6, <2>11, <3>1 DEF ResetClose
  <2>12. CASE DeviceInfo
    <3>1. hcam' = hcam
      BY <2>12 DEF DeviceInfo, usb
    <3>2. CASE obj' = obj
      BY <2>3, <3>1, <3>2
    <3>3. CASE obj' = [obj EXCEPT ![c.o].connected = TRUE,
                                  ![c.o].ident = hcam[obj[c.o].handle]]
      <4>1. obj[c.o] \in Record
        BY <1>1, <2>1 DEF ObjType
      <4>2. /\ obj'[c.o] = [obj[c.o] EXCEPT !.connected = TRUE,
                                            !.ident = hcam[obj[c.o].handle]]
            /\ \A x \in Objs : x # c.o => obj'[x] = obj[x]
        BY <1>1, <2>1, <3>3 DEF ObjType
      <4>3. /\ obj'[c.o].handle = obj[c.o].handle
            /\ obj'[c.o].ident = hcam[obj[c.o].handle]
        BY <4>1, <4>2 DEF Record
      <4> QED BY <3>1, <4>2, <4>3 DEF IdentTrue
    <3> QED BY <2>12, <3>2, <3>3 DEF DeviceInfo
  <2>13. CASE CloseFind
    <3>1. hcam' = hcam /\ c.at \in CloseStages /\ (Closed \/ obj' = obj)
      BY <2>13 DEF CloseFind, usb, AtStage, CloseStages
    <3> QED BY <2>2, <2>3, <2>5, <3>1
  <2>14. CASE Close
    <3>1. obj[c.o].handle \in Handles /\ c.at \in CloseStages
      BY <1>1, <2>14, Running DEF Close, AtStage, UsesHandle, CloseStages, UsbType
    <3> QED BY <2>2, <2>5, <2>6, <2>14, <3>1 DEF Close
  <2> QED BY <1>5, <2>8, <2>9, <2>10, <2>11, <2>12, <2>13, <2>14 DEF CStep
<1> QED BY <1>2, <1>3, <1>4, <1>5 DEF Next

\* The device info kept in a connected userdata is that of the camera behind its
\* handle (chdk_connect reads it after every OpenSession), whatever came to its
\* bus/dev since.
THEOREM IdentityTrue == Spec => []IdentTrue
<1>1. Init => IdentTrue
  <2>1. FreeObj.connected = FALSE /\ NewObj(Dummy).connected = FALSE
    BY DEF FreeObj, NewObj
  <2>2. ASSUME Init, NEW x \in Objs PROVE obj[x].connected = FALSE
    <3>1. obj[x] = FreeObj \/ obj[x] = NewObj(Dummy)
      BY <2>2 DEF Init
    <3> QED BY <2>1, <3>1
  <2> QED BY <2>2 DEF IdentTrue
<1>2. IInv /\ IdentTrue /\ [Next]_vars => IdentTrue'
  BY IdentStep
<1> QED BY <1>1, <1>2, Inductive, PTL DEF Spec


-----------------------------------------------------------------------------
(***************************************************************************)
(* The sessions, claims and device infos of connections.                   *)
(*                                                                         *)
(* Three invariants are added to IndInv: the registry (RegInv), the cameras *)
(* behind the handles in use (PlaceInv), and, where calls fail only because *)
(* the device has gone, the claims (ClaimInv).  They give SessionHeld,     *)
(* NoLostClaim and, with what the Lua code knows of the call it waits for  *)
(* (CallPc, Ready), StrictReconnect.                                       *)
(***************************************************************************)

-----------------------------------------------------------------------------
(* The session of a connected camera.                                      *)
(*                                                                         *)
(* A wrapper keeps its userdata in the registry, and two userdata in the   *)
(* registry have different bus/dev pairs (RegInv).  The camera behind a    *)
(* handle in use is still where its userdata says it is, and a connected   *)
(* handle has claimed it (PlaceInv): closing or resetting one handle ends  *)
(* no other connection's session.                                          *)

\* A wrapper's userdata is in the registry, and so is that of a connect; the
\* finalizer's has left it.
RefLive == \A w \in Wraps : wrap[w].obj # None => obj[wrap[w].obj].st = "live"

CallLive ==
    c.at # "idle" =>
        /\ c.why = "connect" => obj[c.o].st = "live"
        /\ c.why = "gc" => obj[c.o].st = "dying"

RegInv ==
    /\ RefLive
    /\ \A o \in Objs : obj[o].st = "live" => obj[o].path # None
    /\ \A o \in Objs : obj[o].st = "free" => ~obj[o].connected
    /\ \A o, x \in Objs :
          (obj[o].st = "live" /\ obj[x].st = "live" /\ obj[o].path = obj[x].path) => o = x
    /\ CallLive

InUse(o) == obj[o].connected \/ (c.at \in UsesHandle /\ c.o = o)

AtPath ==
    \A o \in Objs :
        LET d == hcam[obj[o].handle]
        IN  (InUse(o) /\ d # None) => at[d] = obj[o].path /\ at[d] # None

ClaimHeld ==
    \A o \in Objs :
        LET d == hcam[obj[o].handle]
        IN  (obj[o].connected /\ d # None) => claim[d] = obj[o].handle

ClaimOpen == \A d \in Cams : claim[d] # None => claim[d] \in opened /\ hcam[claim[d]] = d

InfoSession ==
    LET d == hcam[obj[c.o].handle]
    IN  (c.at = "info" /\ d # None) => session[d] /\ claim[d] = obj[c.o].handle

PlaceInv == AtPath /\ ClaimHeld /\ ClaimOpen /\ InfoSession /\ SessionHeld

\* What a step of the Lua code or the collector does to the registry: nothing,
\* register a new userdata or find a registered one, give one up that no wrapper
\* has, free one that was given up.
Refs == {wrap[w].obj : w \in Wraps} \cup {None}

NamesKept == \A x \in Objs : obj'[x].st = obj[x].st /\ obj'[x].path = obj[x].path

RegEffect ==
    \/ NamesKept /\ \A w \in Wraps : wrap'[w].obj \in Refs
    \/ \E p \in Paths, o \in Objs :
          /\ GetConnection(p, o)
          /\ \A w \in Wraps : wrap'[w].obj \in Refs \cup {o}
    \/ /\ wrap' = wrap
       /\ \E o \in Objs \ Refs :
             obj[o].st = "live" /\ obj' = [obj EXCEPT ![o].st = "dying"]
    \/ /\ wrap' = wrap
       /\ \E o \in Objs :
             /\ obj[o].st = "dying" /\ ~obj[o].connected
             /\ obj' = [obj EXCEPT ![o] = FreeObj]

\* The userdata a call begins on.
CallRefs ==
    \/ c' = c
    \/ \E w \in Wraps : /\ c' = [at |-> "find", o |-> wrap'[w].obj, why |-> "connect"]
                        /\ wrap'[w].obj \in Objs
    \/ \E o \in Objs : c' = [at |-> "cfind", o |-> o, why |-> "close"]
    \/ \E o \in Objs : /\ c' = [at |-> "cfind", o |-> o, why |-> "gc"]
                       /\ obj'[o].st = "dying"

\* A connected userdata keeps its handle, and its flag unless a call through the
\* handle has failed.
FlagsKept ==
    \A x \in Objs : obj[x].connected =>
        /\ obj'[x].handle = obj[x].handle
        /\ obj'[x].connected \/ Succeeds(obj[x].handle, FALSE)

\* A flag that moves changes nothing else of a userdata.
LEMMA FlagFields ==
  ASSUME ObjType, NEW o \in Objs, NEW b \in BOOLEAN, NEW x \in Objs
  PROVE  /\ Flag(o, b)[x].st = obj[x].st /\ Flag(o, b)[x].path = obj[x].path
         /\ Flag(o, b)[x].ident = obj[x].ident /\ Flag(o, b)[x].handle = obj[x].handle
         /\ Flag(o, b)[x].connected = IF x = o THEN b ELSE obj[x].connected
<1>1. obj[x] \in Record
  BY DEF ObjType
<1>2. Flag(o, b)[x] = IF x = o THEN [obj[x] EXCEPT !.connected = b] ELSE obj[x]
  BY DEF Flag, ObjType
<1> QED BY <1>1, <1>2 DEF Record

\* is_connected clears the flag only after a call that failed.
LEMMA AskedKept ==
  ASSUME IInv, NEW o \in Objs, NEW r \in BOOLEAN, IsConnected(o, r)
  PROVE  NamesKept /\ FlagsKept
<1>1. ObjType
  BY TypeParts DEF IInv
<1>2. obj' = Flag(o, r)
  BY DEF IsConnected
<1>3. NamesKept
  BY <1>1, <1>2, FlagFields DEF NamesKept
<1>4. obj[o].connected => r \/ Succeeds(obj[o].handle, FALSE)
  BY DEF IsConnected
<1>5. ASSUME NEW x \in Objs, obj[x].connected
      PROVE  /\ obj'[x].handle = obj[x].handle
             /\ obj'[x].connected \/ Succeeds(obj[x].handle, FALSE)
  <2>1. obj'[x].handle = obj[x].handle
    BY <1>1, <1>2, FlagFields
  <2>2. CASE x = o
    <3>1. obj'[x].connected = r
      BY <1>1, <1>2, <2>2, FlagType
    <3> QED BY <1>4, <1>5, <2>1, <2>2, <3>1, Zenon
  <2>3. CASE x # o
    <3>1. obj'[x] = obj[x]
      BY <1>1, <1>2, <2>3, FlagType
    <3> QED BY <1>5, <2>1, <3>1, Zenon
  <2> QED BY <2>2, <2>3
<1>6. FlagsKept
  BY <1>5 DEF FlagsKept
<1> QED BY <1>3, <1>6

LEMMA GetKept ==
  ASSUME IInv, RegInv, NEW p \in Paths, NEW o \in Objs, GetConnection(p, o)
  PROVE  FlagsKept
<1>1. ObjType
  BY TypeParts DEF IInv
<1>2. CASE obj' = obj
  BY <1>2 DEF FlagsKept
<1>3. CASE obj[o].st = "free" /\ obj' = [obj EXCEPT ![o] = NewObj(p)]
  <2>1. ~obj[o].connected
    BY <1>3 DEF RegInv, RefLive, CallLive
  <2>2. \A x \in Objs : x # o => obj'[x] = obj[x]
    BY <1>1, <1>3 DEF ObjType
  <2> QED BY <2>1, <2>2 DEF FlagsKept
<1> QED BY <1>2, <1>3 DEF GetConnection

\* Steps that leave the userdata or only move a flag
LEMMA SameKept == ASSUME obj' = obj PROVE NamesKept /\ FlagsKept
  BY DEF NamesKept, FlagsKept

\* Where the wrappers of a step come from.
LEMMA WrapRefs ==
  ASSUME LuaType
  PROVE  /\ wrap' = wrap => \A w \in Wraps : wrap'[w].obj \in Refs
         /\ \A r : Ends(wrap, r) => \A w \in Wraps : wrap'[w].obj \in Refs
         /\ \A o \in Objs : wrap' = Lcon(o) => \A w \in Wraps : wrap'[w].obj \in Refs \cup {o}
<1>1. CASE wrap' = wrap
  BY <1>1 DEF Refs
<1>2. ASSUME NEW r, Ends(wrap, r), NEW w \in Wraps PROVE wrap'[w].obj \in Refs
  <2>1. wrap'[w] = wrap[w] \/ wrap'[w] = NoWrap
    BY <1>2 DEF Ends, LuaType, Wraps
  <2> QED BY <1>2, <2>1 DEF Refs, NoWrap
<1>3. ASSUME NEW o \in Objs, wrap' = Lcon(o), NEW w \in Wraps
      PROVE  wrap'[w].obj \in Refs \cup {o}
  <2>1. wrap'[w] = wrap[w] \/ wrap'[w] = [obj |-> o, info |-> None]
    BY <1>3 DEF Lcon, LuaType, Wraps
  <2> QED BY <1>3, <2>1 DEF Refs
<1> QED BY <1>1, <1>2, <1>3

\* The commands and the GUI's callbacks, by what they do to the registry
LEMMA CommandReg ==
  ASSUME IInv, RegInv, Command
  PROVE  RegEffect /\ CallRefs /\ FlagsKept
<1> DEFINE Goal == RegEffect /\ CallRefs /\ FlagsKept
           con == wrap["con"].obj
<1>1. LuaType /\ ObjType /\ "con" \in Wraps
  BY TypeParts DEF IInv, Wraps
<1>2. CASE CmdDisconnect
  <2>1. con \in Objs /\ obj' = obj /\ wrap' = wrap
    BY <1>2, BeginsWith DEF CmdDisconnect, Begins, lua
  <2>2. CallRefs
    BY <1>2, <2>1 DEF CmdDisconnect, Disconnect, CallRefs
  <2> QED BY <1>1, <2>1, <2>2, SameKept, WrapRefs DEF RegEffect
<1>3. CASE CmdReconnect
  <2>1. con \in Objs /\ wrap' = wrap
    BY <1>3, BeginsWith DEF CmdReconnect, Begins
  <2>2. NamesKept /\ FlagsKept
    BY <1>3, <2>1, AskedKept DEF CmdReconnect
  <2>3. CallRefs
    BY <1>3, <2>1 DEF CmdReconnect, CallRefs
  <2> QED BY <1>1, <2>1, <2>2, <2>3, WrapRefs DEF RegEffect
<1>4. ASSUME NEW nodis \in BOOLEAN, NEW todo \in SUBSET Paths,
             NEW want \in Cams \cup {None}, CmdConnect(nodis, todo, want)
      PROVE  Goal
  <2>1. con \in Objs /\ wrap' = wrap
    BY <1>4, BeginsWith DEF CmdConnect, Begins
  <2>2. NamesKept /\ FlagsKept
    BY <1>4, <2>1, AskedKept, SameKept DEF CmdConnect
  <2>3. CallRefs
    BY <1>4, <2>1 DEF CmdConnect, CallRefs
  <2> QED BY <1>1, <2>1, <2>2, <2>3, WrapRefs DEF RegEffect
<1>5. CASE CmdList
  BY <1>1, <1>5, SameKept, WrapRefs DEF CmdList, RegEffect, CallRefs
<1>6. CASE GuiConnect
  <2>1. con \in Objs /\ wrap' = wrap
    BY <1>6, BeginsWith DEF GuiConnect
  <2>2. NamesKept /\ FlagsKept
    BY <1>6, <2>1, AskedKept DEF GuiConnect
  <2>3. CallRefs
    BY <1>1, <1>6, <2>1 DEF GuiConnect, CallRefs
  <2> QED BY <1>1, <2>1, <2>2, <2>3, WrapRefs DEF RegEffect
<1>7. ASSUME NEW p \in Paths, NEW o \in Objs, GuiSelect(p, o) PROVE Goal
  <2>1. GetConnection(p, o) /\ FlagsKept /\ CallRefs
    BY <1>7, GetKept DEF GuiSelect, CallRefs
  <2>2. ASSUME NEW w \in Wraps PROVE wrap'[w].obj \in Refs \cup {o}
    <3>1. \/ wrap'[w] = wrap[w] \/ wrap'[w] = wrap["con"]
          \/ wrap'[w] = [obj |-> o, info |-> None]
      BY <1>1, <1>7 DEF GuiSelect, LuaType, Wraps
    <3> QED BY <1>1, <3>1 DEF Refs
  <2> QED BY <2>1, <2>2 DEF RegEffect
<1>8. CASE GuiTimer
  <2>1. con \in Objs /\ wrap' = wrap /\ c' = c
    BY <1>8, BeginsWith DEF GuiTimer, lua
  <2>2. NamesKept /\ FlagsKept
    BY <1>8, <2>1, AskedKept DEF GuiTimer
  <2> QED BY <1>1, <2>1, <2>2, WrapRefs DEF RegEffect, CallRefs
<1>9. CASE Exit
  <2>1. \A w \in Wraps : wrap'[w].obj \in Refs
    BY <1>1, <1>9 DEF Exit, LuaType, NoWrap, Refs
  <2> QED BY <1>9, <2>1, SameKept DEF Exit, RegEffect, CallRefs
<1> QED BY <1>2, <1>3, <1>4, <1>5, <1>6, <1>7, <1>8, <1>9 DEF Command

\* The steps of the commands
LEMMA LuaStepReg ==
  ASSUME IInv, RegInv, LuaStep
  PROVE  RegEffect /\ CallRefs /\ FlagsKept
<1> DEFINE Goal == RegEffect /\ CallRefs /\ FlagsKept
<1>1. LuaType /\ ObjType /\ RefOK /\ {"con", "tmp", "self"} \subseteq Wraps
  BY TypeParts DEF IInv, Wraps
<1>2. CASE Low
  BY <1>1, <1>2, SameKept, WrapRefs DEF Low, RegEffect, CallRefs
<1>3. CASE Update
  <2>1. ASSUME NEW w \in Wraps PROVE wrap'[w].obj = wrap[w].obj
    <3>1. wrap[w] \in Wrapper
      BY <1>1 DEF LuaType
    <3>2. \/ wrap'[w] = wrap[w]
          \/ wrap'[w] = [wrap[w] EXCEPT !.info = obj[wrap[sub.w].obj].ident]
      BY <1>1, <1>3 DEF Update, LuaType
    <3> QED BY <3>1, <3>2 DEF Wrapper
  <2> QED BY <1>3, <2>1, SameKept DEF Update, RegEffect, CallRefs, Refs
<1>4. CASE Wake
  <2>1. cmd.me \in Wraps /\ wrap[cmd.me].obj \in Objs
    BY <1>1, <1>4 DEF Wake, Lua, RefOK
  <2>2. CallRefs
    BY <1>4, <2>1 DEF Wake, Connect, CallRefs
  <2> QED BY <1>1, <1>4, <2>2, SameKept, WrapRefs DEF Wake, RegEffect
<1>5. CASE Compare
  <2>1. wrap[cmd.me].obj \in Objs /\ obj' = obj
    BY <1>1, <1>5 DEF Compare, Lua, RefOK
  <2>2. \A w \in Wraps : wrap'[w].obj \in Refs
    BY <1>1, <1>5, WrapRefs DEF Compare
  <2>3. CallRefs
    BY <1>5, <2>1 DEF Compare, Disconnect, CallRefs
  <2> QED BY <2>1, <2>2, <2>3, SameKept DEF RegEffect
<1>6. CASE Differs \/ NoDevice \/ ListEnds
  BY <1>1, <1>6, SameKept, WrapRefs DEF Differs, NoDevice, ListEnds, RegEffect, CallRefs
<1>7. ASSUME NEW p \in Paths, NEW o \in Objs, Device(p, o) \/ ListDevice(p, o)
      PROVE  Goal
  BY <1>1, <1>7, GetKept, WrapRefs DEF Device, ListDevice, RegEffect, CallRefs
<1>8. ASSUME NEW p \in {"check", "ask"}, NEW ret, Ask(p, ret) PROVE Goal
  <2>1. wrap["tmp"].obj \in Objs
    BY <1>1, <1>8 DEF Ask, Lua, RefOK
  <2>2. NamesKept /\ FlagsKept
    BY <1>8, <2>1, AskedKept DEF Ask, IsConnected
  <2>3. CallRefs
    BY <1>1, <1>8, <2>1 DEF Ask, CallRefs
  <2> QED BY <1>1, <1>8, <2>2, <2>3, WrapRefs DEF Ask, RegEffect
<1>9. CASE Match
  <2>1. wrap["tmp"].obj \in Objs /\ obj' = obj
    BY <1>1, <1>9 DEF Match, Lua, RefOK
  <2>2. \A w \in Wraps : wrap'[w].obj \in Refs
    BY <1>1, <1>9, WrapRefs DEF Match
  <2>3. CallRefs
    BY <1>9, <2>1 DEF Match, Disconnect, CallRefs
  <2> QED BY <2>1, <2>2, <2>3, SameKept DEF RegEffect
<1>10. CASE Use
  <2> DEFINE o == wrap["tmp"].obj
  <2>1. o \in Objs
    BY <1>1, <1>10 DEF Use, Lua, RefOK
  <2>2. NamesKept /\ FlagsKept
    BY <1>10, <2>1, AskedKept DEF Use
  <2>3. wrap'["con"].obj = o /\ \A w \in Wraps : wrap'[w].obj \in Refs
    <3>1. wrap'["con"] = wrap["tmp"]
      BY <1>1, <1>10 DEF Use, LuaType
    <3>2. ASSUME NEW w \in Wraps PROVE wrap'[w].obj \in Refs
      <4>1. wrap'[w] \in {wrap[w], wrap["tmp"], NoWrap}
        BY <1>1, <1>10 DEF Use, LuaType, Wraps
      <4> QED BY <1>1, <4>1 DEF Refs, NoWrap
    <3> QED BY <3>1, <3>2
  <2>4. CallRefs
    BY <1>1, <1>10, <2>1, <2>3 DEF Use, CallRefs
  <2> QED BY <2>2, <2>3, <2>4 DEF RegEffect
<1>11. CASE Chosen
  <2>1. wrap["con"].obj \in Objs /\ wrap' = wrap /\ c' = c
    BY <1>1, <1>11 DEF Chosen, Lua, RefOK
  <2>2. NamesKept /\ FlagsKept
    BY <1>11, <2>1, AskedKept, SameKept DEF Chosen
  <2> QED BY <1>1, <2>1, <2>2, WrapRefs DEF RegEffect, CallRefs
<1>12. CASE Listed
  <2>1. wrap["tmp"].obj \in Objs /\ obj' = obj /\ wrap' = wrap
    BY <1>1, <1>12 DEF Listed, Lua, RefOK
  <2>2. CallRefs
    BY <1>12, <2>1 DEF Listed, Disconnect, CallRefs
  <2> QED BY <1>1, <2>1, <2>2, SameKept, WrapRefs DEF RegEffect
<1>13. CASE GuiSelected
  <2>1. wrap["con"].obj \in Objs /\ wrap' = wrap /\ c' = c
    BY <1>1, <1>13 DEF GuiSelected, Lua, RefOK
  <2>2. NamesKept /\ FlagsKept
    BY <1>13, <2>1, AskedKept DEF GuiSelected
  <2> QED BY <1>1, <2>1, <2>2, WrapRefs DEF RegEffect, CallRefs
<1> QED BY <1>2, <1>3, <1>4, <1>5, <1>6, <1>7, <1>8, <1>9, <1>10, <1>11, <1>12, <1>13
        DEF LuaStep

LEMMA CollectorReg ==
  ASSUME IInv, RegInv, Collector
  PROVE  RegEffect /\ CallRefs /\ FlagsKept
<1> DEFINE Goal == RegEffect /\ CallRefs /\ FlagsKept
<1>1. LuaType /\ ObjType
  BY TypeParts DEF IInv
<1>2. ASSUME NEW o \in Objs, Collect(o) PROVE Goal
  <2>1. o \notin Refs
    BY <1>1, <1>2, ConnectionAssumption DEF Collect, LuaType, Refs
  <2>2. obj'[o] = [obj[o] EXCEPT !.st = "dying"] /\ \A x \in Objs : x # o => obj'[x] = obj[x]
    BY <1>1, <1>2 DEF Collect, ObjType
  <2>3. obj[o] \in Record
    BY <1>1 DEF ObjType
  <2>4. FlagsKept
    BY <2>2, <2>3 DEF FlagsKept, Record
  <2> QED BY <1>2, <2>1, <2>4 DEF Collect, RegEffect, CallRefs, lua
<1>3. ASSUME NEW o \in Objs, Finalize(o) PROVE Goal
  <2>1. CASE obj[o].connected
    <3>1. obj' = obj /\ wrap' = wrap /\ CallRefs
      BY <1>3, <2>1 DEF Finalize, CallRefs, lua
    <3> QED BY <1>1, <3>1, SameKept, WrapRefs DEF RegEffect
  <2>2. CASE ~obj[o].connected
    <3>1. /\ obj' = [obj EXCEPT ![o] = FreeObj] /\ wrap' = wrap /\ CallRefs
          /\ obj[o].st = "dying"
      BY <1>3, <2>2 DEF Finalize, CallRefs, lua
    <3>2. FlagsKept
      BY <1>1, <2>2, <3>1 DEF FlagsKept, ObjType
    <3> QED BY <2>2, <3>1, <3>2 DEF RegEffect
  <2> QED BY <2>1, <2>2
<1> QED BY <1>2, <1>3 DEF Collector

-----------------------------------------------------------------------------
(* The registry.                                                           *)

\* What a step of a C call may do: the Lua code waits, only the call's own
\* userdata changes, and the call goes on, returns, or is the finalizer's last.
CallFrame == UNCHANGED <<wrap, pc, sub, cmd, asleep, target>>

CallStepEffect ==
    /\ CallFrame
    /\ \A x \in Objs : x # c.o => obj'[x] = obj[x]
    /\ \/ /\ obj'[c.o].st = obj[c.o].st /\ obj'[c.o].path = obj[c.o].path
          /\ c' = Idle \/ (c'.o = c.o /\ c'.why = c.why)
       \/ c.why = "gc" /\ obj'[c.o] = FreeObj /\ c' = Idle

\* A call in progress has a userdata.
LEMMA InCall == ASSUME IInv, CStep PROVE c.at # "idle" /\ c.o \in Objs
<1>1. c.at # "idle"
  BY DEF CStep, Find, InitUsb, OpenSession, ResetClose, DeviceInfo, CloseFind, Close, AtStage
<1> QED BY <1>1, Running

\* connect fails, close_camera is over, or the call goes to its next stage.
LEMMA FailsEffect ==
  ASSUME IInv, c.at # "idle", ConnectFails
  PROVE  CallStepEffect /\ c' = Idle /\ obj' = Flag(c.o, FALSE)
<1>1. ObjType /\ c.o \in Objs
  BY TypeParts, Running DEF IInv
<1>2. obj' = Flag(c.o, FALSE) /\ c' = Idle /\ CallFrame
  BY DEF ConnectFails, Return, CallFrame
<1>3. obj'[c.o].st = obj[c.o].st /\ obj'[c.o].path = obj[c.o].path
  BY <1>1, <1>2, FlagFields
<1>4. \A x \in Objs : x # c.o => obj'[x] = obj[x]
  BY <1>1, <1>2, FlagType
<1> QED BY <1>2, <1>3, <1>4 DEF CallStepEffect

LEMMA ClosedEffect ==
  ASSUME IInv, c.at \in CloseStages, Closed
  PROVE  /\ CallStepEffect /\ c' = Idle
         /\ obj' = Flag(c.o, FALSE) \/ (c.why = "gc" /\ obj' = [obj EXCEPT ![c.o] = FreeObj])
<1>1. ObjType /\ c.o \in Objs /\ c.why \in {"connect", "close", "gc"} /\ c.at # "idle"
  BY TypeParts, Running DEF IInv, CloseStages
<1>2. CASE c.why = "connect"
  BY <1>1, <1>2, FailsEffect DEF Closed
<1>3. CASE c.why = "close"
  <2>1. obj' = Flag(c.o, FALSE) /\ c' = Idle /\ CallFrame
    BY <1>3 DEF Closed, Return, CallFrame
  <2>2. obj'[c.o].st = obj[c.o].st /\ obj'[c.o].path = obj[c.o].path
    BY <1>1, <2>1, FlagFields
  <2>3. \A x \in Objs : x # c.o => obj'[x] = obj[x]
    BY <1>1, <2>1, FlagType
  <2> QED BY <2>1, <2>2, <2>3 DEF CallStepEffect
<1>4. CASE c.why = "gc"
  <2>1. obj' = [obj EXCEPT ![c.o] = FreeObj] /\ c' = Idle /\ CallFrame
    BY <1>4 DEF Closed, Return, CallFrame
  <2>2. obj'[c.o] = FreeObj /\ \A x \in Objs : x # c.o => obj'[x] = obj[x]
    BY <1>1, <2>1 DEF ObjType
  <2> QED BY <1>4, <2>1, <2>2 DEF CallStepEffect
<1> QED BY <1>1, <1>2, <1>3, <1>4

LEMMA StageEffect ==
  ASSUME CType, NEW s, Stage(s)
  PROVE  CallFrame /\ c'.at = s /\ c'.o = c.o /\ c'.why = c.why
  BY DEF CType, Stage, lua, CallFrame

LEMMA StageSame ==
  ASSUME CType, NEW s, Stage(s), obj' = obj
  PROVE  CallStepEffect
  BY StageEffect DEF CallStepEffect

LEMMA CStepEffect == ASSUME IInv, CStep PROVE CallStepEffect
<1>1. c.at # "idle" /\ c.o \in Objs /\ CType /\ ObjType
  BY InCall, TypeParts DEF IInv
<1>2. obj[c.o] \in Record
  BY <1>1 DEF ObjType
<1>3. CASE Find
  BY <1>1, <1>3, FailsEffect, StageSame DEF Find
<1>4. ASSUME NEW s, NEW next, InitUsb(s, next) PROVE CallStepEffect
  <2>1. CASE ConnectFails
    BY <1>1, <2>1, FailsEffect
  <2>2. ASSUME NEW h, obj' = [obj EXCEPT ![c.o].handle = h], Stage(next)
        PROVE  CallStepEffect
    <3>1. /\ obj'[c.o] = [obj[c.o] EXCEPT !.handle = h]
          /\ \A x \in Objs : x # c.o => obj'[x] = obj[x]
      BY <1>1, <2>2 DEF ObjType
    <3>2. obj'[c.o].st = obj[c.o].st /\ obj'[c.o].path = obj[c.o].path
      BY <1>2, <3>1 DEF Record
    <3> QED BY <1>1, <2>2, <3>1, <3>2, StageEffect DEF CallStepEffect
  <2> QED BY <1>4, <2>1, <2>2 DEF InitUsb
<1>5. ASSUME NEW s, NEW next, OpenSession(s, next) PROVE CallStepEffect
  BY <1>1, <1>5, FailsEffect, StageSame DEF OpenSession
<1>6. CASE ResetClose
  BY <1>1, <1>6, StageSame DEF ResetClose
<1>7. CASE DeviceInfo
  <2>1. CASE Stage("cfind") /\ UNCHANGED obj
    BY <1>1, <2>1, StageSame
  <2>2. CASE /\ obj' = [obj EXCEPT ![c.o].connected = TRUE,
                                   ![c.o].ident = hcam[obj[c.o].handle]]
             /\ Return("ok")
    <3>1. /\ obj'[c.o] = [obj[c.o] EXCEPT !.connected = TRUE,
                                          !.ident = hcam[obj[c.o].handle]]
          /\ \A x \in Objs : x # c.o => obj'[x] = obj[x]
      BY <1>1, <2>2 DEF ObjType
    <3>2. obj'[c.o].st = obj[c.o].st /\ obj'[c.o].path = obj[c.o].path
      BY <1>2, <3>1 DEF Record
    <3> QED BY <2>2, <3>1, <3>2 DEF CallStepEffect, Return, CallFrame
  <2> QED BY <1>7, <2>1, <2>2 DEF DeviceInfo
<1>8. CASE CloseFind
  <2>1. c.at \in CloseStages
    BY <1>8 DEF CloseFind, AtStage, CloseStages
  <2> QED BY <1>1, <1>8, <2>1, ClosedEffect, StageSame DEF CloseFind
<1>9. CASE Close
  <2>1. c.at \in CloseStages
    BY <1>9 DEF Close, AtStage, CloseStages
  <2> QED BY <1>9, <2>1, ClosedEffect DEF Close
<1> QED BY <1>3, <1>4, <1>5, <1>6, <1>7, <1>8, <1>9 DEF CStep

\* Commands, steps and the collector run between calls, and flag no userdata as
\* connected that was not.
LEMMA BetweenCalls ==
  ASSUME IInv, Command \/ LuaStep \/ Collector
  PROVE  /\ c = Idle
         /\ \A x \in Objs : obj'[x].connected => obj[x].connected
         /\ ObjType' /\ LuaType'
<1>1. c = Idle
  BY DEF Command, LuaStep, Collector, CmdDisconnect, CmdReconnect, CmdConnect, CmdList,
         GuiConnect, GuiSelect, GuiTimer, Exit, Low, Update, Wake, Compare, Differs,
         Device, NoDevice, Ask, Match, Use, Chosen, ListDevice, Listed, ListEnds,
         GuiSelected, Collect, Finalize, Begins, Lua
<1>2. IInv'
  BY CommandKeepsInv, LuaStepKeepsInv, CollectorKeepsInv
<1>3. ObjType /\ ObjType' /\ LuaType'
  BY <1>2, TypeParts DEF IInv
<1> QED BY <1>1, <1>3, LuaEffect, EffectKeeps

LEMMA RegParts ==
  /\ RefLive' /\ CallLive' /\ (\A o \in Objs : obj'[o].st = "live" => obj'[o].path # None)
     /\ (\A o \in Objs : obj'[o].st = "free" => ~obj'[o].connected)
     /\ (\A o, x \in Objs :
          (obj'[o].st = "live" /\ obj'[x].st = "live" /\ obj'[o].path = obj'[x].path) => o = x)
     => RegInv'
  BY DEF RegInv

LEMMA LuaKeepsReg ==
  ASSUME IInv, RegInv, Command \/ LuaStep \/ Collector
  PROVE  RegInv'
<1> DEFINE Live(x) == obj[x].st = "live"
           Live1(x) == obj'[x].st = "live"
           Named == \A o \in Objs : Live1(o) => obj'[o].path # None
           Freed == \A o \in Objs : obj'[o].st = "free" => ~obj'[o].connected
           Unique == \A o, x \in Objs :
                       (Live1(o) /\ Live1(x) /\ obj'[o].path = obj'[x].path) => o = x
<1>1. /\ c = Idle /\ ObjType /\ LuaType /\ ObjType' /\ LuaType'
      /\ \A x \in Objs : obj'[x].connected => obj[x].connected
  BY BetweenCalls, TypeParts DEF IInv
<1>2. RegEffect /\ CallRefs
  BY CommandReg, LuaStepReg, CollectorReg
<1>3. \A w \in Wraps : wrap[w].obj \in Objs \cup {None} /\ wrap'[w].obj \in Objs \cup {None}
  BY <1>1 DEF LuaType, Wrapper
<1>4. \A x \in Refs : x # None => x \in Objs /\ Live(x)
  BY <1>3 DEF Refs, RegInv, RefLive, CallLive
<1>5. RefLive' /\ Named /\ Freed /\ Unique
  <2>1. CASE NamesKept /\ \A w \in Wraps : wrap'[w].obj \in Refs
    <3>1. RefLive'
      BY <1>3, <1>4, <2>1 DEF RefLive, NamesKept
    <3> QED BY <1>1, <2>1, <3>1 DEF RegInv, RefLive, CallLive, NamesKept
  <2>2. ASSUME NEW p \in Paths, NEW o \in Objs, GetConnection(p, o),
               \A w \in Wraps : wrap'[w].obj \in Refs \cup {o}
        PROVE  RefLive' /\ Named /\ Freed /\ Unique
    <3>1. CASE Live(o) /\ obj' = obj
      BY <1>3, <1>4, <2>2, <3>1 DEF RefLive, RegInv, CallLive
    <3>2. CASE /\ ~ \E x \in Objs : Live(x) /\ obj[x].path = p
               /\ obj[o].st = "free" /\ obj' = [obj EXCEPT ![o] = NewObj(p)]
      <4>1. /\ obj'[o].st = "live" /\ obj'[o].path = p
            /\ \A x \in Objs : x # o => obj'[x] = obj[x]
        BY <1>1, <3>2 DEF ObjType, NewObj, FreeObj
      <4>2. p # None
        BY ConnectionAssumption
      <4>3. RefLive'
        BY <1>3, <1>4, <2>2, <3>2, <4>1 DEF RefLive
      <4> QED BY <3>2, <4>1, <4>2, <4>3 DEF RegInv, RefLive, CallLive
    <3> QED BY <2>2, <3>1, <3>2 DEF GetConnection
  <2>3. ASSUME wrap' = wrap, NEW o \in Objs \ Refs, Live(o),
               obj' = [obj EXCEPT ![o].st = "dying"]
        PROVE  RefLive' /\ Named /\ Freed /\ Unique
    <3>1. obj[o] \in Record /\ obj'[o] = [obj[o] EXCEPT !.st = "dying"]
      BY <1>1, <2>3 DEF ObjType
    <3>2. obj'[o].st = "dying" /\ \A x \in Objs : x # o => obj'[x] = obj[x]
      BY <1>1, <2>3, <3>1 DEF ObjType, Record
    <3>3. RefLive'
      BY <1>3, <1>4, <2>3, <3>2 DEF RefLive, Refs
    <3> QED BY <3>2, <3>3 DEF RegInv, RefLive, CallLive
  <2>4. ASSUME wrap' = wrap, NEW o \in Objs, obj[o].st = "dying",
               obj' = [obj EXCEPT ![o] = FreeObj]
        PROVE  RefLive' /\ Named /\ Freed /\ Unique
    <3>1. /\ obj'[o].st = "free" /\ obj'[o].connected = FALSE
          /\ \A x \in Objs : x # o => obj'[x] = obj[x]
      BY <1>1, <2>4 DEF ObjType, FreeObj
    <3>2. RefLive'
      BY <1>3, <1>4, <2>4, <3>1 DEF RefLive, Refs
    <3> QED BY <3>1, <3>2 DEF RegInv, RefLive, CallLive
  <2> QED BY <1>2, <2>1, <2>2, <2>3, <2>4 DEF RegEffect
<1>6. CallLive'
  BY <1>1, <1>2, <1>3, <1>5, ConnectionAssumption DEF CallRefs, CallLive, RefLive, Idle
<1> QED BY <1>5, <1>6, RegParts

LEMMA CStepKeepsReg == ASSUME IInv, RegInv, CStep PROVE RegInv'
<1>1. /\ c.at # "idle" /\ c.o \in Objs /\ CallStepEffect
      /\ obj[c.o].connected = (c.why # "connect")
  BY InCall, CStepEffect, Running
<1>2. wrap' = wrap /\ \A x \in Objs : x # c.o => obj'[x] = obj[x]
  BY <1>1 DEF CallStepEffect, CallFrame
<1>3. CASE /\ obj'[c.o].st = obj[c.o].st /\ obj'[c.o].path = obj[c.o].path
           /\ c' = Idle \/ (c'.o = c.o /\ c'.why = c.why)
  <2>1. NamesKept
    BY <1>2, <1>3 DEF NamesKept
  <2>2. \A o \in Objs : obj'[o].st = "free" => ~obj'[o].connected
    <3>1. obj[c.o].st # "free"
      BY <1>1 DEF RegInv, RefLive, CallLive
    <3> QED BY <1>2, <1>3, <3>1 DEF RegInv, RefLive, CallLive
  <2>3. RefLive'
    <3>1. \A w \in Wraps : wrap[w].obj \in Objs \cup {None}
      BY TypeParts DEF IInv, LuaType, Wrapper
    <3> QED BY <1>2, <2>1, <3>1 DEF RefLive, RegInv, CallLive, NamesKept
  <2>4. CallLive'
    BY <1>1, <1>3 DEF CallLive, RegInv, RefLive, Idle
  <2> QED BY <2>1, <2>2, <2>3, <2>4, RegParts DEF RegInv, RefLive, CallLive, NamesKept
<1>4. CASE c.why = "gc" /\ obj'[c.o] = FreeObj /\ c' = Idle
  <2>1. obj[c.o].st = "dying" /\ obj'[c.o].st = "free" /\ obj'[c.o].connected = FALSE
    BY <1>1, <1>4 DEF RegInv, RefLive, CallLive, FreeObj
  <2>2. RefLive'
    <3>1. \A w \in Wraps : wrap[w].obj \in Objs \cup {None}
      BY TypeParts DEF IInv, LuaType, Wrapper
    <3> QED BY <1>2, <2>1, <3>1 DEF RefLive, RegInv, CallLive
  <2>3. CallLive'
    BY <1>4 DEF CallLive, Idle
  <2> QED BY <1>2, <2>1, <2>2, <2>3, RegParts DEF RegInv, RefLive, CallLive
<1> QED BY <1>1, <1>3, <1>4 DEF CallStepEffect

LEMMA RegStep == ASSUME IInv, RegInv, [Next]_vars PROVE RegInv'
<1>1. CASE Bus \/ UNCHANGED vars
  <2>1. obj' = obj /\ wrap' = wrap /\ c' = c
    BY <1>1 DEF Bus, Plug, Unplug, lua, vars
  <2> QED BY <2>1 DEF RegInv, RefLive, CallLive
<1> QED BY <1>1, LuaKeepsReg, CStepKeepsReg DEF Next

LEMMA RegInit == ASSUME Init PROVE RegInv
<1>1. PICK o \in Objs :
        /\ obj = [x \in Objs |-> IF x = o THEN NewObj(Dummy) ELSE FreeObj]
        /\ wrap = [w \in {"con", "tmp", "self"} |->
                     IF w = "con" THEN [obj |-> o, info |-> None] ELSE NoWrap]
  BY DEF Init
<1>2. /\ \A x \in Objs : x # o => obj[x].st = "free"
      /\ \A x \in Objs : obj[x].connected = FALSE
      /\ obj[o].st = "live" /\ obj[o].path = Dummy
  BY <1>1 DEF NewObj, FreeObj
<1>3. \A w \in Wraps : wrap[w].obj \in {o, None}
  BY <1>1 DEF Wraps, NoWrap
<1>4. Dummy # None /\ c.at = "idle"
  BY ConnectionAssumption DEF Init, Idle
<1> QED BY <1>2, <1>3, <1>4 DEF RegInv, RefLive, CallLive

-----------------------------------------------------------------------------
(* The cameras behind the handles in use.                                  *)

\* A step that moves no camera, opens and closes no handle, ends no session and
\* puts no new handle in use.
LEMMA PlaceKept ==
  ASSUME PlaceInv, UNCHANGED <<at, claim, opened, hcam>>,
         \A x \in Objs : obj'[x].connected =>
            /\ obj[x].connected /\ obj'[x].handle = obj[x].handle /\ obj'[x].path = obj[x].path,
         c'.at \in UsesHandle =>
            /\ c'.o \in Objs /\ InUse(c'.o)
            /\ obj'[c'.o].handle = obj[c'.o].handle /\ obj'[c'.o].path = obj[c'.o].path,
         InfoSession', SessionHeld'
  PROVE  PlaceInv'
<1>1. AtPath'
  BY DEF PlaceInv, AtPath, InUse
<1>2. ClaimHeld'
  BY DEF PlaceInv, ClaimHeld
<1>3. ClaimOpen'
  BY DEF PlaceInv, ClaimOpen
<1> QED BY <1>1, <1>2, <1>3 DEF PlaceInv

LEMMA BusKeepsPlace == ASSUME IInv, PlaceInv, Bus PROVE PlaceInv'
<1>1. UsbType /\ ObjType /\ obj' = obj /\ c' = c
  BY TypeParts DEF IInv, Bus, Plug, Unplug
<1>2. \A o \in Objs : InUse(o) => obj[o].handle \in Handles
  BY <1>1 DEF IInv, HandlesOK, HandleOpen, InUse, UsbType
<1>3. c.at = "info" => obj[c.o].handle \in Handles /\ c.o \in Objs
  BY <1>1, Running DEF UsesHandle, UsbType
<1>4. ASSUME NEW d \in Cams, NEW p \in Paths, Plug(d, p) PROVE PlaceInv'
  <2>1. /\ at[d] = None /\ \A e \in Cams : e # d => at'[e] = at[e]
        /\ UNCHANGED <<session, claim, opened, hcam>>
    BY <1>1, <1>4 DEF Plug, UsbType
  <2>2. AtPath'
    <3>1. ASSUME NEW o \in Objs, InUse(o), hcam[obj[o].handle] # None
          PROVE  at'[hcam[obj[o].handle]] = obj[o].path /\ at'[hcam[obj[o].handle]] # None
      <4>1. hcam[obj[o].handle] \in Cams
        BY <1>1, <1>2, <3>1 DEF UsbType
      <4> QED BY <2>1, <3>1, <4>1 DEF PlaceInv, AtPath
    <3> QED BY <1>1, <2>1, <3>1 DEF AtPath, InUse
  <2> QED BY <1>1, <2>1, <2>2 DEF PlaceInv, ClaimHeld, ClaimOpen, InfoSession, SessionHeld
<1>5. ASSUME NEW d \in Cams, Unplug(d) PROVE PlaceInv'
  <2>1. /\ opened' = opened
        /\ \A e \in Cams : e # d =>
              at'[e] = at[e] /\ session'[e] = session[e] /\ claim'[e] = claim[e]
        /\ claim'[d] = None
        /\ \A h \in Handles : hcam'[h] # None => hcam'[h] = hcam[h] /\ hcam[h] # d
    BY <1>1, <1>5 DEF Unplug, UsbType
  <2>2. \A h \in Handles : hcam[h] # None => hcam[h] \in Cams
    BY <1>1 DEF UsbType
  <2>3. AtPath'
    BY <1>1, <1>2, <2>1, <2>2 DEF PlaceInv, AtPath, InUse
  <2>4. ClaimHeld'
    BY <1>1, <1>2, <2>1, <2>2 DEF PlaceInv, ClaimHeld, InUse
  <2>5. ClaimOpen'
    <3>1. ASSUME NEW e \in Cams, claim'[e] # None
          PROVE  claim'[e] \in opened' /\ hcam'[claim'[e]] = e
      <4>1. e # d /\ claim'[e] = claim[e] /\ claim[e] \in opened /\ hcam[claim[e]] = e
        BY <2>1, <3>1 DEF PlaceInv, ClaimOpen
      <4>2. hcam'[claim[e]] = hcam[claim[e]]
        BY <1>1, <1>5, <4>1 DEF Unplug, UsbType
      <4> QED BY <2>1, <4>1, <4>2
    <3> QED BY <3>1 DEF ClaimOpen
  <2>6. InfoSession'
    BY <1>1, <1>3, <2>1, <2>2 DEF PlaceInv, InfoSession
  <2>7. SessionHeld'
    BY <1>1, <1>2, <2>1, <2>2 DEF PlaceInv, SessionHeld, InUse
  <2> QED BY <2>3, <2>4, <2>5, <2>6, <2>7 DEF PlaceInv
<1> QED BY <1>4, <1>5 DEF Bus

\* A connected userdata stays at its bus/dev, and none is connected that enters
\* the registry.
LEMMA NamedKept ==
  ASSUME IInv, RegInv, Command \/ LuaStep \/ Collector
  PROVE  \A x \in Objs : obj'[x].connected =>
            obj'[x].path = obj[x].path /\ (obj'[x].st = "live" => obj[x].st = "live")
<1>1. RegEffect /\ ObjType /\ \A x \in Objs : obj'[x].connected => obj[x].connected
  BY CommandReg, LuaStepReg, CollectorReg, BetweenCalls, TypeParts DEF IInv
<1>2. CASE NamesKept
  BY <1>2 DEF NamesKept
<1>3. ASSUME NEW p \in Paths, NEW o \in Objs, GetConnection(p, o)
      PROVE  obj' = obj \/ \A x \in Objs : obj'[x].connected => obj'[x] = obj[x]
  BY <1>1, <1>3 DEF GetConnection, ObjType, NewObj, FreeObj
<1>4. ASSUME NEW o \in Objs, obj' = [obj EXCEPT ![o].st = "dying"], NEW x \in Objs
      PROVE  obj'[x].path = obj[x].path /\ (obj'[x].st = "live" => obj[x].st = "live")
  <2>1. obj[x] \in Record /\ obj'[x] \in {obj[x], [obj[x] EXCEPT !.st = "dying"]}
    BY <1>1, <1>4 DEF ObjType
  <2> QED BY <2>1 DEF Record
<1>5. ASSUME NEW o \in Objs, obj' = [obj EXCEPT ![o] = FreeObj]
      PROVE  \A x \in Objs : obj'[x].connected => obj'[x] = obj[x]
  BY <1>1, <1>5 DEF ObjType, FreeObj
<1> QED BY <1>1, <1>2, <1>3, <1>4, <1>5 DEF RegEffect

LEMMA LuaKeepsPlace ==
  ASSUME IInv, RegInv, PlaceInv, Command \/ LuaStep \/ Collector
  PROVE  PlaceInv'
<1>1. c = Idle /\ ObjType /\ UNCHANGED usb
  BY BetweenCalls, LuaEffect, TypeParts DEF IInv
<1>2. \A x \in Objs : obj'[x].connected =>
         /\ obj[x].connected /\ obj'[x].handle = obj[x].handle /\ obj'[x].path = obj[x].path
         /\ obj'[x].st = "live" => obj[x].st = "live"
  BY <1>1, LuaEffect, EffectKeeps, NamedKept
<1>3. c'.at \in UsesHandle => c'.o \in Objs /\ obj'[c'.o].connected /\ c'.at # "info"
  <2>1. IInv'
    BY CommandKeepsInv, LuaStepKeepsInv, CollectorKeepsInv
  <2>2. c' = Idle \/ c'.at = "find" \/ (c'.at = "cfind" /\ c'.why # "connect")
    BY <1>1, CommandReg, LuaStepReg, CollectorReg DEF CallRefs
  <2>3. CallOK'
    BY <2>1 DEF IInv, HandlesOK
  <2>4. (c' = Idle \/ c'.at = "find") => c'.at \notin UsesHandle
    BY DEF Idle, UsesHandle
  <2>5. (c'.at = "cfind" /\ c'.why # "connect") => c'.o \in Objs /\ obj'[c'.o].connected
    BY <2>3 DEF CallOK
  <2> QED BY <2>2, <2>4, <2>5
<1>4. InfoSession'
  BY <1>3 DEF InfoSession, UsesHandle
<1>5. SessionHeld'
  <2>1. c.o = None
    BY <1>1 DEF Idle
  <2>2. ASSUME NEW o \in Objs, obj'[o].st = "live", obj'[o].connected,
               hcam'[obj'[o].handle] # None
        PROVE  session'[hcam'[obj'[o].handle]]
    <3>1. /\ obj[o].st = "live" /\ obj[o].connected /\ obj'[o].handle = obj[o].handle
          /\ c.o # o /\ hcam' = hcam /\ session' = session
      BY <1>1, <1>2, <2>1, <2>2, ConnectionAssumption DEF usb
    <3> QED BY <2>2, <3>1 DEF PlaceInv, SessionHeld
  <2> QED BY <2>2 DEF SessionHeld
<1>6. c'.at \in UsesHandle =>
        /\ c'.o \in Objs /\ InUse(c'.o)
        /\ obj'[c'.o].handle = obj[c'.o].handle /\ obj'[c'.o].path = obj[c'.o].path
  BY <1>2, <1>3 DEF InUse
<1> QED BY <1>1, <1>2, <1>4, <1>5, <1>6, PlaceKept DEF usb

\* A call that ends with its userdata unconnected, without touching the bus
LEMMA EndKeepsPlace ==
  ASSUME IInv, PlaceInv, UNCHANGED usb, c.at # "idle", c' = Idle,
         obj'[c.o].connected = FALSE,
         \A x \in Objs : x # c.o => obj'[x] = obj[x]
  PROVE  PlaceInv'
<1>1. InfoSession' /\ c'.at \notin UsesHandle /\ c.o \in Objs
  BY Running DEF InfoSession, Idle, UsesHandle
<1>2. SessionHeld'
  <2>1. ASSUME NEW o \in Objs, obj'[o].st = "live", obj'[o].connected,
               hcam'[obj'[o].handle] # None
        PROVE  session'[hcam'[obj'[o].handle]]
    <3>1. o # c.o /\ obj'[o] = obj[o] /\ hcam' = hcam /\ session' = session
      BY <2>1 DEF usb
    <3> QED BY <2>1, <3>1 DEF PlaceInv, SessionHeld
  <2> QED BY <2>1 DEF SessionHeld
<1> QED BY <1>1, <1>2, PlaceKept DEF usb

LEMMA FlagCleared ==
  ASSUME IInv, c.o \in Objs,
         obj' = Flag(c.o, FALSE) \/ obj' = [obj EXCEPT ![c.o] = FreeObj]
  PROVE  obj'[c.o].connected = FALSE /\ \A x \in Objs : x # c.o => obj'[x] = obj[x]
<1>1. ObjType
  BY TypeParts DEF IInv
<1>2. CASE obj' = Flag(c.o, FALSE)
  BY <1>1, <1>2, FlagType
<1>3. CASE obj' = [obj EXCEPT ![c.o] = FreeObj]
  BY <1>1, <1>3 DEF ObjType, FreeObj
<1> QED BY <1>2, <1>3

LEMMA FailsKeepsPlace ==
  ASSUME IInv, PlaceInv, UNCHANGED usb, c.at # "idle", ConnectFails
  PROVE  PlaceInv'
  BY Running, FailsEffect, FlagCleared, EndKeepsPlace

LEMMA ClosedKeepsPlace ==
  ASSUME IInv, PlaceInv, UNCHANGED usb, c.at \in CloseStages, Closed
  PROVE  PlaceInv'
<1>1. c.at # "idle" /\ c.o \in Objs
  BY Running DEF CloseStages
<1> QED BY <1>1, ClosedEffect, FlagCleared, EndKeepsPlace

\* A call that goes to its next stage on the handle it has
LEMMA StageKeepsPlace ==
  ASSUME IInv, PlaceInv, UNCHANGED <<at, claim, opened, hcam, obj>>, c.at # "idle",
         \A d \in Cams : session[d] => session'[d],
         NEW s, Stage(s),
         s \in UsesHandle => InUse(c.o),
         s = "info" =>
            LET d == hcam[obj[c.o].handle]
            IN  d # None => session'[d] /\ claim[d] = obj[c.o].handle
  PROVE  PlaceInv'
<1>1. CType /\ c.o \in Objs /\ UsbType
  BY TypeParts, Running DEF IInv
<1>2. c'.at = s /\ c'.o = c.o
  BY <1>1, StageEffect
<1>3. InfoSession'
  BY <1>2 DEF InfoSession
<1>4. SessionHeld'
  <2>1. ASSUME NEW o \in Objs, obj[o].st = "live", obj[o].connected,
               hcam[obj[o].handle] # None, c.o # o
        PROVE  session'[hcam[obj[o].handle]]
    <3>1. hcam[obj[o].handle] \in Cams
      BY <1>1, <2>1 DEF IInv, HandlesOK, HandleOpen, UsbType
    <3> QED BY <2>1, <3>1 DEF PlaceInv, SessionHeld
  <2> QED BY <1>2, <2>1 DEF SessionHeld
<1> QED BY <1>1, <1>2, <1>3, <1>4, PlaceKept

LEMMA FindKeepsPlace == ASSUME IInv, PlaceInv, Find PROVE PlaceInv'
<1>1. c.at # "idle" /\ UNCHANGED usb
  BY DEF Find, AtStage
<1> QED BY <1>1, FailsKeepsPlace, StageKeepsPlace DEF Find, UsesHandle, usb

LEMMA CloseFindKeepsPlace == ASSUME IInv, PlaceInv, CloseFind PROVE PlaceInv'
<1>1. c.at \in CloseStages /\ c.at \in UsesHandle /\ c.at # "idle" /\ UNCHANGED usb
  BY DEF CloseFind, AtStage, CloseStages, UsesHandle
<1> QED BY <1>1, ClosedKeepsPlace, StageKeepsPlace DEF CloseFind, InUse, usb

\* A new handle is nobody else's, and its camera is where the userdata says.
LEMMA InitUsbKeepsPlace ==
  ASSUME IInv, RegInv, PlaceInv, NEW s, NEW next, InitUsb(s, next),
         <<s, next>> \in {<<"open", "session">>, <<"reopen", "session2">>}
  PROVE  PlaceInv'
<1>1. /\ c.at = s /\ s # "idle" /\ next \in {"session", "session2"}
      /\ c.o \in Objs /\ obj[c.o].connected = FALSE /\ obj[c.o].st = "live"
  BY Running DEF InitUsb, AtStage, ConnectStages, RegInv, RefLive, CallLive
<1>2. UsbType /\ ObjType /\ CType
  BY TypeParts DEF IInv
<1>3. CASE ConnectFails /\ UNCHANGED usb
  BY <1>1, <1>3, FailsKeepsPlace
<1>4. ASSUME NEW d \in CamsAt(obj[c.o].path), NEW h \in Handles, NEW claimed \in BOOLEAN,
             OpenHandle(d, h, claimed), obj' = [obj EXCEPT ![c.o].handle = h], Stage(next)
      PROVE  PlaceInv'
  <2>1. /\ d \in Cams /\ h \notin opened /\ opened' = opened \cup {h}
        /\ UNCHANGED <<at, session>> /\ hcam'[h] = d
        /\ \A g \in opened : g \in Handles /\ g # h /\ hcam'[g] = hcam[g]
        /\ at[d] = obj[c.o].path /\ obj[c.o].path # None
    BY <1>1, <1>2, <1>4 DEF CamsAt, OpenHandle, UsbType, RegInv, RefLive, CallLive
  <2>2. \A e \in Cams : \/ claim'[e] = claim[e]
                        \/ e = d /\ claim[e] = None /\ claim'[e] = h
    BY <1>2, <1>4 DEF OpenHandle, UsbType
  <2>3. /\ c'.at = next /\ c'.o = c.o
    BY <1>2, <1>4, StageEffect
  <2>4. /\ obj'[c.o] = [obj[c.o] EXCEPT !.handle = h] /\ obj[c.o] \in Record
        /\ \A x \in Objs : x # c.o => obj'[x] = obj[x]
    BY <1>1, <1>2, <1>4 DEF ObjType
  <2>5. obj'[c.o].handle = h /\ obj'[c.o].connected = FALSE /\ obj'[c.o].path = obj[c.o].path
    BY <1>1, <2>4 DEF Record
  <2>6. \A x \in Objs : obj'[x].connected =>
          x # c.o /\ obj'[x] = obj[x] /\ obj[x].connected /\ obj[x].handle \in opened
    BY <2>4, <2>5 DEF IInv, HandlesOK, HandleOpen
  <2>7. AtPath'
    <3>1. ASSUME NEW x \in Objs, obj'[x].connected, hcam'[obj'[x].handle] # None
          PROVE  at'[hcam'[obj'[x].handle]] = obj'[x].path /\ at'[hcam'[obj'[x].handle]] # None
      <4>1. obj'[x] = obj[x] /\ InUse(x) /\ hcam'[obj[x].handle] = hcam[obj[x].handle]
        BY <2>1, <2>6, <3>1 DEF InUse
      <4> QED BY <2>1, <3>1, <4>1 DEF PlaceInv, AtPath
    <3> QED BY <2>1, <2>3, <2>5, <3>1 DEF AtPath, InUse
  <2>8. ClaimHeld'
    <3>1. ASSUME NEW x \in Objs, obj'[x].connected, hcam'[obj'[x].handle] # None
          PROVE  claim'[hcam'[obj'[x].handle]] = obj'[x].handle
      <4>1. obj'[x] = obj[x] /\ hcam'[obj[x].handle] = hcam[obj[x].handle]
            /\ obj[x].handle \in Handles /\ obj[x].connected
        BY <2>1, <2>6, <3>1
      <4>2. claim[hcam[obj[x].handle]] = obj[x].handle /\ hcam[obj[x].handle] \in Cams
        BY <1>2, <3>1, <4>1 DEF PlaceInv, ClaimHeld, UsbType
      <4> QED BY <2>2, <4>1, <4>2, ConnectionAssumption
    <3> QED BY <3>1 DEF ClaimHeld
  <2>9. ClaimOpen'
    BY <2>1, <2>2 DEF PlaceInv, ClaimOpen
  <2>10. InfoSession'
    BY <1>1, <2>3 DEF InfoSession
  <2>11. SessionHeld'
    <3>1. ASSUME NEW x \in Objs, obj'[x].st = "live", obj'[x].connected,
                 hcam'[obj'[x].handle] # None
          PROVE  session'[hcam'[obj'[x].handle]]
      <4>1. obj'[x] = obj[x] /\ hcam'[obj[x].handle] = hcam[obj[x].handle] /\ x # c.o
        BY <2>1, <2>6, <3>1
      <4> QED BY <2>1, <3>1, <4>1 DEF PlaceInv, SessionHeld
    <3> QED BY <3>1 DEF SessionHeld
  <2> QED BY <2>7, <2>8, <2>9, <2>10, <2>11 DEF PlaceInv
<1> QED BY <1>3, <1>4 DEF InitUsb

LEMMA OpenSessionKeepsPlace ==
  ASSUME IInv, PlaceInv, NEW s, NEW next, OpenSession(s, next),
         <<s, next>> \in {<<"session", "reset">>, <<"session2", "fails">>}
  PROVE  PlaceInv'
<1> DEFINE h == obj[c.o].handle
<1>1. /\ c.at = s /\ c.at # "idle" /\ c.at \in UsesHandle
      /\ c.o \in Objs /\ h \in opened
  BY Running DEF OpenSession, AtStage, UsesHandle
<1>2. UsbType
  BY TypeParts DEF IInv
<1>3. PICK ok \in BOOLEAN, opens \in BOOLEAN :
        /\ opens => Usable(h) /\ ~session[hcam[h]]
        /\ ok => opens
        /\ session' = IF opens THEN [session EXCEPT ![hcam[h]] = TRUE] ELSE session
        /\ IF ok THEN Stage("info") /\ UNCHANGED obj
           ELSE IF next = "fails" THEN ConnectFails
           ELSE Stage(next) /\ UNCHANGED obj
  BY DEF OpenSession
<1>4. UNCHANGED <<at, claim, opened, hcam>>
  BY DEF OpenSession
<1>5. \A d \in Cams : session[d] => session'[d]
  BY <1>2, <1>3 DEF UsbType
<1>6. CASE ok
  <2>1. h \in Handles /\ hcam[h] # None /\ claim[hcam[h]] = h /\ hcam[h] \in Cams
    BY <1>1, <1>2, <1>3, <1>6 DEF Usable, UsbType
  <2>2. session'[hcam[h]]
    BY <1>2, <1>3, <1>6, <2>1 DEF UsbType
  <2> QED BY <1>1, <1>3, <1>4, <1>5, <1>6, <2>1, <2>2, StageKeepsPlace DEF InUse
<1>7. CASE ~ok /\ next = "reset"
  BY <1>1, <1>3, <1>4, <1>5, <1>7, StageKeepsPlace DEF InUse
<1>8. CASE ~ok /\ next = "fails"
  <2>1. /\ c' = Idle /\ obj'[c.o].connected = FALSE
        /\ \A x \in Objs : x # c.o => obj'[x] = obj[x]
    BY <1>1, <1>3, <1>8, FailsEffect, FlagCleared
  <2>2. InfoSession' /\ c'.at \notin UsesHandle
    BY <2>1 DEF InfoSession, Idle, UsesHandle
  <2>3. SessionHeld'
    <3>1. ASSUME NEW x \in Objs, obj'[x].st = "live", obj'[x].connected,
                 hcam'[obj'[x].handle] # None
          PROVE  session'[hcam'[obj'[x].handle]]
      <4>1. obj'[x] = obj[x] /\ x # c.o /\ hcam' = hcam /\ hcam[obj[x].handle] \in Cams
        BY <1>2, <1>4, <2>1, <3>1 DEF IInv, HandlesOK, HandleOpen, UsbType
      <4> QED BY <1>5, <3>1, <4>1 DEF PlaceInv, SessionHeld
    <3> QED BY <3>1 DEF SessionHeld
  <2> QED BY <1>1, <1>4, <2>1, <2>2, <2>3, PlaceKept
<1> QED BY <1>6, <1>7, <1>8

\* The device info was asked for in a session the handle's claim protects.
LEMMA DeviceInfoKeepsPlace == ASSUME IInv, PlaceInv, DeviceInfo PROVE PlaceInv'
<1> DEFINE h == obj[c.o].handle
<1>1. /\ c.at = "info" /\ c.at # "idle" /\ c.at \in UsesHandle
      /\ c.o \in Objs /\ UNCHANGED usb
  BY Running DEF DeviceInfo, AtStage, UsesHandle
<1>2. CASE Stage("cfind") /\ UNCHANGED obj
  BY <1>1, <1>2, StageKeepsPlace DEF InUse, usb
<1>3. CASE /\ obj' = [obj EXCEPT ![c.o].connected = TRUE, ![c.o].ident = hcam[h]]
           /\ Return("ok")
  <2>1. ObjType /\ obj[c.o] \in Record
    BY <1>1, TypeParts DEF IInv, ObjType
  <2>2. /\ obj'[c.o] = [obj[c.o] EXCEPT !.connected = TRUE, !.ident = hcam[h]]
        /\ \A x \in Objs : x # c.o => obj'[x] = obj[x]
    BY <1>1, <1>3, <2>1 DEF ObjType
  <2>3. obj'[c.o].handle = h /\ obj'[c.o].path = obj[c.o].path
    BY <2>1, <2>2 DEF Record
  <2>4. \A x \in Objs : obj'[x].connected =>
          /\ InUse(x) /\ obj'[x].handle = obj[x].handle /\ obj'[x].path = obj[x].path
          /\ x # c.o => obj'[x] = obj[x]
    BY <1>1, <2>2, <2>3 DEF InUse
  <2>5. hcam[h] # None => session[hcam[h]] /\ claim[hcam[h]] = h
    BY <1>1 DEF PlaceInv, InfoSession
  <2>6. c'.at = "idle"
    BY <1>3 DEF Return, Idle
  <2>7. AtPath'
    BY <1>1, <2>4, <2>6 DEF PlaceInv, AtPath, InUse, UsesHandle, usb
  <2>8. ClaimHeld'
    BY <1>1, <2>3, <2>4, <2>5 DEF PlaceInv, ClaimHeld, usb
  <2>9. ClaimOpen' /\ InfoSession'
    BY <1>1, <2>6 DEF PlaceInv, ClaimOpen, InfoSession, usb
  <2>10. SessionHeld'
    <3>1. ASSUME NEW x \in Objs, obj'[x].st = "live", obj'[x].connected,
                 hcam'[obj'[x].handle] # None
          PROVE  session'[hcam'[obj'[x].handle]]
      <4>1. hcam' = hcam /\ session' = session
        BY <1>1 DEF usb
      <4>2. CASE x = c.o
        BY <2>3, <2>5, <3>1, <4>1, <4>2
      <4>3. CASE x # c.o
        BY <2>4, <3>1, <4>1, <4>3 DEF PlaceInv, SessionHeld
      <4> QED BY <4>2, <4>3
    <3> QED BY <3>1 DEF SessionHeld
  <2> QED BY <2>7, <2>8, <2>9, <2>10 DEF PlaceInv
<1> QED BY <1>2, <1>3 DEF DeviceInfo

\* Closing the handle of a call ends nobody else's session: two connections in the
\* registry are at different bus/dev pairs, and two connected handles cannot both
\* have claimed the camera.
LEMMA CloseKeepsPlace ==
  ASSUME IInv, RegInv, PlaceInv, c.at \in UsesHandle,
         NEW over \in BOOLEAN, CloseHandle(obj[c.o].handle, over),
         \A x \in Objs : x # c.o => obj'[x] = obj[x],
         obj'[c.o].connected = FALSE, c'.at \notin UsesHandle
  PROVE  PlaceInv'
<1> DEFINE h == obj[c.o].handle
<1>1. UsbType /\ c.at # "idle"
  BY TypeParts DEF IInv, UsesHandle
<1>2. /\ c.o \in Objs /\ h \in opened /\ h \in Handles /\ InUse(c.o)
      /\ obj[c.o].connected = (c.why # "connect")
  BY <1>1, Running DEF UsbType, InUse
<1>3. /\ \A d \in Cams : /\ session'[d] = (session[d] /\ ~(over /\ d = hcam[h]))
                         /\ claim'[d] = IF claim[d] = h THEN None ELSE claim[d]
      /\ opened' = opened \ {h} /\ at' = at
      /\ \A g \in Handles : g # h => hcam'[g] = hcam[g]
  BY <1>1, <1>2 DEF CloseHandle, UsbType
<1>4. ASSUME NEW x \in Objs, obj'[x].connected
      PROVE  /\ x # c.o /\ obj'[x] = obj[x] /\ obj[x].connected
             /\ obj[x].handle # h /\ obj[x].handle \in Handles
             /\ hcam'[obj[x].handle] = hcam[obj[x].handle]
             /\ hcam[obj[x].handle] # None => hcam[obj[x].handle] \in Cams
  <2>1. x # c.o /\ obj'[x] = obj[x] /\ obj[x].connected
    BY <1>4
  <2>2. obj[x].handle # h /\ obj[x].handle \in Handles
    BY <1>1, <2>1 DEF IInv, HandlesOK, CallOwns, HandleOpen, UsbType
  <2> QED BY <1>1, <1>3, <2>1, <2>2 DEF UsbType
<1>5. AtPath'
  BY <1>3, <1>4 DEF PlaceInv, AtPath, InUse
<1>6. ClaimHeld'
  BY <1>3, <1>4 DEF PlaceInv, ClaimHeld
<1>7. ClaimOpen'
  BY <1>1, <1>3 DEF PlaceInv, ClaimOpen, UsbType
<1>8. InfoSession'
  BY DEF InfoSession, UsesHandle
<1>9. SessionHeld'
  <2>1. ASSUME NEW x \in Objs, obj'[x].st = "live", obj'[x].connected,
               hcam'[obj'[x].handle] # None
        PROVE  session'[hcam'[obj'[x].handle]]
    <3> DEFINE d == hcam[obj[x].handle]
    <3>1. /\ x # c.o /\ obj'[x] = obj[x] /\ obj[x].connected /\ obj[x].handle # h
          /\ hcam'[obj'[x].handle] = d /\ d # None /\ d \in Cams /\ session[d]
          /\ obj[x].st = "live"
      BY <1>4, <2>1 DEF PlaceInv, SessionHeld
    <3>2. at[d] = obj[x].path /\ claim[d] = obj[x].handle
      BY <3>1 DEF PlaceInv, AtPath, ClaimHeld, InUse
    <3>3. d # hcam[h]
      <4>1. SUFFICES ASSUME d = hcam[h] PROVE FALSE
        OBVIOUS
      <4>2. CASE c.why = "connect"
        <5>1. obj[c.o].st = "live" /\ obj[c.o].path = obj[x].path
          BY <1>1, <1>2, <3>1, <3>2, <4>1, <4>2 DEF RegInv, RefLive, CallLive, PlaceInv, AtPath
        <5> QED BY <1>2, <3>1, <5>1 DEF RegInv, RefLive, CallLive
      <4>3. CASE c.why # "connect"
        BY <1>2, <3>1, <3>2, <4>1, <4>3 DEF PlaceInv, ClaimHeld
      <4> QED BY <4>2, <4>3
    <3> QED BY <1>3, <3>1, <3>3
  <2> QED BY <2>1 DEF SessionHeld
<1> QED BY <1>5, <1>6, <1>7, <1>8, <1>9 DEF PlaceInv

LEMMA ResetKeepsPlace == ASSUME IInv, RegInv, PlaceInv, ResetClose PROVE PlaceInv'
<1>1. c.at = "reset" /\ CType /\ c.o \in Objs /\ obj[c.o].connected = FALSE
  BY TypeParts, Running DEF IInv, ResetClose, AtStage, ConnectStages
<1>2. c'.at = "reopen" /\ obj' = obj
  BY <1>1, StageEffect DEF ResetClose
<1> QED BY <1>1, <1>2, CloseKeepsPlace DEF ResetClose, UsesHandle

LEMMA CloseStepKeepsPlace == ASSUME IInv, RegInv, PlaceInv, Close PROVE PlaceInv'
<1>1. c.at = "cclose" /\ c.at \in CloseStages /\ c.at \in UsesHandle /\ c.o \in Objs
  BY Running DEF Close, AtStage, CloseStages, UsesHandle
<1>2. c' = Idle /\ obj'[c.o].connected = FALSE
      /\ \A x \in Objs : x # c.o => obj'[x] = obj[x]
  BY <1>1, ClosedEffect, FlagCleared DEF Close
<1>3. c'.at \notin UsesHandle
  BY <1>2 DEF Idle, UsesHandle
<1> QED BY <1>1, <1>2, <1>3, CloseKeepsPlace DEF Close

LEMMA PlaceStep == ASSUME IInv, RegInv, PlaceInv, [Next]_vars PROVE PlaceInv'
<1>1. CASE UNCHANGED vars
  BY <1>1 DEF vars, PlaceInv, AtPath, ClaimHeld, ClaimOpen, InfoSession, SessionHeld, InUse
<1>2. CASE CStep
  BY <1>2, FindKeepsPlace, InitUsbKeepsPlace, OpenSessionKeepsPlace, ResetKeepsPlace,
     DeviceInfoKeepsPlace, CloseFindKeepsPlace, CloseStepKeepsPlace DEF CStep
<1> QED BY <1>1, <1>2, BusKeepsPlace, LuaKeepsPlace DEF Next

LEMMA PlaceInit == ASSUME Init PROVE PlaceInv
<1>1. \A x \in Objs : obj[x].connected = FALSE
  <2>1. \A x \in Objs : obj[x] = FreeObj \/ obj[x] = NewObj(Dummy)
    BY DEF Init
  <2>2. FreeObj.connected = FALSE /\ NewObj(Dummy).connected = FALSE
    BY DEF FreeObj, NewObj
  <2> QED BY <2>1, <2>2
<1>2. c.at = "idle" /\ \A d \in Cams : claim[d] = None
  BY DEF Init, Idle
<1> QED BY <1>1, <1>2
        DEF PlaceInv, AtPath, ClaimHeld, ClaimOpen, InfoSession, SessionHeld, InUse, UsesHandle

LEMMA PlaceHolds == Spec => [](IInv /\ RegInv /\ PlaceInv)
<1>1. Init => RegInv /\ PlaceInv
  BY RegInit, PlaceInit
<1>2. IInv /\ RegInv /\ PlaceInv /\ [Next]_vars => RegInv' /\ PlaceInv'
  BY RegStep, PlaceStep
<1> QED BY <1>1, <1>2, Inductive, PTL DEF Spec

\* A connection flagged connected has a session on its camera for as long as the
\* camera is there (open_camera_dev_usb opens it, usb_ptp_device_reset and
\* close_camera_usb end it): no retry of another connect, no finalizer and no
\* disconnect of another userdata takes it away.
THEOREM SessionsHeld == Spec => []SessionHeld
<1>1. PlaceInv => SessionHeld
  BY DEF PlaceInv
<1> QED BY <1>1, PlaceHolds, PTL

-----------------------------------------------------------------------------
(* No claim is lost, as long as calls fail only because the device has gone. *)

SessionClaimed == \A d \in Cams : session[d] => claim[d] # None

\* OpenSession is refused only for a claim the handle does not have.
FreshSession ==
    LET h == obj[c.o].handle
    IN  (c.at \in {"session", "session2"} /\ Usable(h)) => ~session[hcam[h]]

ClaimKept ==
    \A d \in Cams : claim[d] # None => \E o \in Objs : obj[o].handle = claim[d] /\ InUse(o)

ClaimInv == SessionClaimed /\ FreshSession /\ ClaimKept

\* Without faults only a handle that has no claim fails.
LEMMA FailsUnclaimed ==
  ASSUME ~Faulty, IInv, PlaceInv, NEW h \in opened, Succeeds(h, FALSE)
  PROVE  \A d \in Cams : claim[d] # h
<1>1. ~Usable(h)
  BY DEF Succeeds
<1>2. \A d \in Cams : claim[d] = h => hcam[h] = d /\ d # None /\ h # None
  BY TypeParts, ConnectionAssumption DEF PlaceInv, ClaimOpen, IInv, UsbType
<1> QED BY <1>1, <1>2 DEF Usable

\* A step that leaves the bus alone and takes out of use only unclaimed handles
LEMMA ClaimsKept ==
  ASSUME ClaimInv, UNCHANGED <<session, claim, hcam, opened>>,
         \A x \in Objs : InUse(x) =>
            \/ (\A d \in Cams : claim[d] # obj[x].handle)
            \/ obj'[x].handle = obj[x].handle /\ InUse(x)',
         c'.at \notin {"session", "session2"}
  PROVE  ClaimInv'
<1>1. SessionClaimed'
  BY DEF ClaimInv, SessionClaimed
<1>2. FreshSession'
  BY DEF FreshSession
<1>3. ClaimKept'
  <2>1. ASSUME NEW d \in Cams, claim'[d] # None
        PROVE  \E o \in Objs : obj'[o].handle = claim'[d] /\ InUse(o)'
    <3>1. PICK o \in Objs : obj[o].handle = claim[d] /\ InUse(o)
      BY <2>1 DEF ClaimInv, ClaimKept
    <3> QED BY <2>1, <3>1
  <2> QED BY <2>1 DEF ClaimKept
<1> QED BY <1>1, <1>2, <1>3 DEF ClaimInv

LEMMA LuaKeepsClaims ==
  ASSUME ~Faulty, IInv, RegInv, PlaceInv, ClaimInv, Command \/ LuaStep \/ Collector
  PROVE  ClaimInv'
<1>1. c = Idle /\ UNCHANGED usb /\ FlagsKept /\ CallRefs
  BY BetweenCalls, LuaEffect, CommandReg, LuaStepReg, CollectorReg
<1>2. c'.at \notin {"session", "session2"}
  BY <1>1 DEF CallRefs, Idle
<1>3. ASSUME NEW x \in Objs, InUse(x)
      PROVE  \/ (\A d \in Cams : claim[d] # obj[x].handle)
             \/ obj'[x].handle = obj[x].handle /\ InUse(x)'
  <2>1. obj[x].connected
    BY <1>1, <1>3 DEF InUse, Idle, UsesHandle
  <2>2. obj[x].handle \in opened
    BY <2>1 DEF IInv, HandlesOK, HandleOpen
  <2>3. obj'[x].handle = obj[x].handle
    BY <1>1, <2>1 DEF FlagsKept
  <2>4. CASE obj'[x].connected
    BY <2>3, <2>4 DEF InUse
  <2>5. CASE Succeeds(obj[x].handle, FALSE)
    BY <2>2, <2>5, FailsUnclaimed
  <2> QED BY <1>1, <2>1, <2>4, <2>5 DEF FlagsKept
<1> QED BY <1>1, <1>2, <1>3, ClaimsKept DEF usb

LEMMA BusKeepsClaims ==
  ASSUME IInv, PlaceInv, ClaimInv, Bus
  PROVE  ClaimInv'
<1>1. UsbType /\ obj' = obj /\ c' = c /\ opened' = opened
  BY TypeParts DEF IInv, Bus, Plug, Unplug
<1>2. ASSUME NEW d \in Cams, NEW p \in Paths, Plug(d, p) PROVE ClaimInv'
  BY <1>1, <1>2
     DEF Plug, ClaimInv, SessionClaimed, FreshSession, ClaimKept, InUse, Usable
<1>3. ASSUME NEW d \in Cams, Unplug(d) PROVE ClaimInv'
  <2>1. /\ \A e \in Cams : e # d => session'[e] = session[e] /\ claim'[e] = claim[e]
        /\ claim'[d] = None /\ session'[d] = FALSE
        /\ \A h \in Handles : hcam'[h] # None => hcam'[h] = hcam[h] /\ hcam[h] # d
    BY <1>1, <1>3 DEF Unplug, UsbType
  <2>2. SessionClaimed'
    BY <2>1 DEF ClaimInv, SessionClaimed
  <2>3. FreshSession'
    <3>1. ASSUME c.at \in {"session", "session2"}, Usable(obj[c.o].handle)'
          PROVE  ~session'[hcam'[obj[c.o].handle]]
      <4>1. /\ obj[c.o].handle \in opened /\ obj[c.o].handle \in Handles
            /\ hcam'[obj[c.o].handle] # None
            /\ claim'[hcam'[obj[c.o].handle]] = obj[c.o].handle
        BY <1>1, <3>1 DEF Usable, UsbType
      <4>2. /\ hcam'[obj[c.o].handle] = hcam[obj[c.o].handle] /\ hcam[obj[c.o].handle] # d
            /\ hcam[obj[c.o].handle] \in Cams
        BY <1>1, <2>1, <4>1 DEF UsbType
      <4>3. Usable(obj[c.o].handle)
        BY <2>1, <4>1, <4>2 DEF Usable
      <4> QED BY <2>1, <3>1, <4>2, <4>3 DEF ClaimInv, FreshSession
    <3> QED BY <1>1, <3>1 DEF FreshSession
  <2>4. ClaimKept'
    BY <1>1, <2>1 DEF ClaimInv, ClaimKept, InUse
  <2> QED BY <2>2, <2>3, <2>4 DEF ClaimInv
<1> QED BY <1>2, <1>3 DEF Bus

\* Closing a call's handle takes its claim and its session with it.
LEMMA CloseKeepsClaims ==
  ASSUME ~Faulty, IInv, PlaceInv, ClaimInv, c.at \in UsesHandle,
         NEW over \in BOOLEAN, CloseHandle(obj[c.o].handle, over),
         \A x \in Objs : x # c.o => obj'[x] = obj[x],
         c'.at \notin {"session", "session2"}
  PROVE  ClaimInv'
<1> DEFINE h == obj[c.o].handle
<1>1. UsbType /\ c.at # "idle"
  BY TypeParts DEF IInv, UsesHandle
<1>2. c.o \in Objs /\ h \in opened /\ h \in Handles
  BY <1>1, Running DEF UsbType
<1>3. \A d \in Cams : /\ session'[d] = (session[d] /\ ~(over /\ d = hcam[h]))
                      /\ claim'[d] = IF claim[d] = h THEN None ELSE claim[d]
  BY <1>1, <1>2 DEF CloseHandle, UsbType
<1>4. \A d \in Cams : claim[d] = h => hcam[h] = d /\ over
  <2>1. ASSUME NEW d \in Cams, claim[d] = h PROVE hcam[h] = d /\ over
    <3>1. hcam[h] = d /\ d # None
      BY <1>2, <2>1, ConnectionAssumption DEF PlaceInv, ClaimOpen
    <3>2. Usable(h)
      BY <1>2, <2>1, <3>1 DEF Usable
    <3> QED BY <3>1, <3>2 DEF CloseHandle
  <2> QED BY <2>1
<1>5. SessionClaimed'
  BY <1>3, <1>4 DEF ClaimInv, SessionClaimed
<1>6. FreshSession'
  BY DEF FreshSession
<1>7. ClaimKept'
  <2>1. ASSUME NEW d \in Cams, claim'[d] # None
        PROVE  \E o \in Objs : obj'[o].handle = claim'[d] /\ InUse(o)'
    <3>1. claim[d] # None /\ claim[d] # h /\ claim'[d] = claim[d]
      BY <1>3, <2>1
    <3>2. PICK o \in Objs : obj[o].handle = claim[d] /\ InUse(o)
      BY <3>1 DEF ClaimInv, ClaimKept
    <3>3. o # c.o
      BY <3>1, <3>2
    <3> QED BY <3>1, <3>2, <3>3 DEF InUse
  <2> QED BY <2>1 DEF ClaimKept
<1> QED BY <1>5, <1>6, <1>7 DEF ClaimInv

LEMMA InitUsbKeepsClaims ==
  ASSUME IInv, PlaceInv, ClaimInv, NEW s, NEW next, InitUsb(s, next),
         <<s, next>> \in {<<"open", "session">>, <<"reopen", "session2">>}
  PROVE  ClaimInv'
<1>1. /\ c.at = s /\ s # "idle" /\ s \notin UsesHandle
      /\ next \in {"session", "session2"} /\ next \in UsesHandle
      /\ c.o \in Objs /\ obj[c.o].connected = FALSE
  BY Running DEF InitUsb, AtStage, ConnectStages, UsesHandle
<1>2. UsbType /\ ObjType /\ CType
  BY TypeParts DEF IInv
<1>3. CASE ConnectFails /\ UNCHANGED usb
  <2>1. c' = Idle /\ \A x \in Objs : x # c.o => obj'[x] = obj[x]
    BY <1>1, <1>3, FailsEffect, FlagCleared
  <2> QED BY <1>1, <1>3, <2>1, ClaimsKept DEF usb, InUse, Idle
<1>4. ASSUME NEW d \in CamsAt(obj[c.o].path), NEW h \in Handles, NEW claimed \in BOOLEAN,
             OpenHandle(d, h, claimed), obj' = [obj EXCEPT ![c.o].handle = h], Stage(next)
      PROVE  ClaimInv'
  <2>1. /\ d \in Cams /\ h \notin opened /\ session' = session /\ hcam'[h] = d
        /\ h # None /\ d # None
    BY <1>2, <1>4, ConnectionAssumption DEF CamsAt, OpenHandle, UsbType
  <2>2. \A e \in Cams : \/ claim'[e] = claim[e]
                        \/ e = d /\ claim[e] = None /\ claim'[e] = h
    BY <1>2, <1>4 DEF OpenHandle, UsbType
  <2>3. c'.at = next /\ c'.o = c.o
    BY <1>2, <1>4, StageEffect
  <2>4. /\ obj'[c.o] = [obj[c.o] EXCEPT !.handle = h] /\ obj[c.o] \in Record
        /\ \A x \in Objs : x # c.o => obj'[x] = obj[x]
    BY <1>1, <1>2, <1>4 DEF ObjType
  <2>5. obj'[c.o].handle = h
    BY <2>4 DEF Record
  <2>6. SessionClaimed'
    BY <2>1, <2>2 DEF ClaimInv, SessionClaimed
  <2>7. FreshSession'
    <3>1. claim[d] # h
      BY <2>1 DEF PlaceInv, ClaimOpen
    <3>2. claim'[d] = h => claim[d] = None
      BY <2>1, <2>2, <3>1
    <3> QED BY <2>1, <2>3, <2>5, <3>2 DEF FreshSession, Usable, ClaimInv, SessionClaimed
  <2>8. ClaimKept'
    <3>1. ASSUME NEW e \in Cams, claim'[e] # None
          PROVE  \E o \in Objs : obj'[o].handle = claim'[e] /\ InUse(o)'
      <4>1. CASE claim'[e] = h
        BY <1>1, <2>3, <2>5, <4>1 DEF InUse
      <4>2. CASE claim'[e] = claim[e]
        <5>1. PICK o \in Objs : obj[o].handle = claim[e] /\ InUse(o)
          BY <3>1, <4>2 DEF ClaimInv, ClaimKept
        <5>2. o # c.o /\ obj[o].connected
          BY <1>1, <5>1 DEF InUse
        <5> QED BY <2>4, <4>2, <5>1, <5>2 DEF InUse
      <4> QED BY <2>2, <4>1, <4>2
    <3> QED BY <3>1 DEF ClaimKept
  <2> QED BY <2>6, <2>7, <2>8 DEF ClaimInv
<1> QED BY <1>3, <1>4 DEF InitUsb

LEMMA OpenSessionKeepsClaims ==
  ASSUME ~Faulty, IInv, PlaceInv, ClaimInv, NEW s, NEW next, OpenSession(s, next),
         <<s, next>> \in {<<"session", "reset">>, <<"session2", "fails">>}
  PROVE  ClaimInv'
<1> DEFINE h == obj[c.o].handle
<1>1. /\ c.at = s /\ c.at # "idle" /\ c.at \in {"session", "session2"}
      /\ c.at \in UsesHandle /\ c.o \in Objs /\ h \in opened
  BY Running DEF OpenSession, AtStage, UsesHandle
<1>2. UsbType /\ CType
  BY TypeParts DEF IInv
<1>3. PICK ok \in BOOLEAN, opens \in BOOLEAN :
        /\ Succeeds(h, ok) \/ (Usable(h) /\ session[hcam[h]] /\ ~ok)
        /\ opens => Usable(h) /\ ~session[hcam[h]]
        /\ ok => opens
        /\ session' = IF opens THEN [session EXCEPT ![hcam[h]] = TRUE] ELSE session
        /\ IF ok THEN Stage("info") /\ UNCHANGED obj
           ELSE IF next = "fails" THEN ConnectFails
           ELSE Stage(next) /\ UNCHANGED obj
  BY DEF OpenSession
<1>4. UNCHANGED <<at, claim, opened, hcam>>
  BY DEF OpenSession
<1>5. CASE ok
  <2>1. Usable(h) /\ hcam[h] # None /\ h # None /\ claim[hcam[h]] = h
    BY <1>1, <1>2, <1>3, <1>5, ConnectionAssumption DEF Usable, UsbType
  <2>2. \A d \in Cams : session'[d] => session[d] \/ d = hcam[h]
    BY <1>2, <1>3 DEF UsbType
  <2>3. SessionClaimed'
    BY <1>4, <2>1, <2>2 DEF ClaimInv, SessionClaimed
  <2>4. c'.at = "info" /\ c'.o = c.o /\ obj' = obj
    BY <1>2, <1>3, <1>5, StageEffect
  <2>5. FreshSession' /\ ClaimKept'
    BY <1>1, <1>4, <2>4 DEF ClaimInv, FreshSession, ClaimKept, InUse, UsesHandle
  <2> QED BY <2>3, <2>5 DEF ClaimInv
<1>6. CASE ~ok
  <2>1. ~Usable(h)
    BY <1>1, <1>3, <1>6 DEF Succeeds, ClaimInv, FreshSession
  <2>2. session' = session /\ Succeeds(h, FALSE)
    BY <1>3, <2>1 DEF Succeeds
  <2>3. \A d \in Cams : claim[d] # h
    BY <1>1, <2>2, FailsUnclaimed
  <2>4. /\ c'.at \notin {"session", "session2"}
        /\ \A x \in Objs : x # c.o => obj'[x] = obj[x]
    <3>1. CASE next = "fails"
      <4>1. c' = Idle /\ obj' = Flag(c.o, FALSE)
        BY <1>1, <1>3, <1>6, <3>1, FailsEffect
      <4> QED BY <1>1, <4>1, FlagCleared DEF Idle
    <3>2. CASE next = "reset"
      BY <1>2, <1>3, <1>6, <3>2, StageEffect
    <3> QED BY <3>1, <3>2
  <2> QED BY <1>4, <2>2, <2>3, <2>4, ClaimsKept DEF InUse
<1> QED BY <1>5, <1>6

LEMMA CStepKeepsClaims ==
  ASSUME ~Faulty, IInv, RegInv, PlaceInv, ClaimInv, CStep
  PROVE  ClaimInv'
<1> DEFINE h == obj[c.o].handle
<1>1. /\ c.at # "idle" /\ c.o \in Objs /\ CType /\ UsbType /\ CallStepEffect
      /\ c.at \in ConnectStages => obj[c.o].connected = FALSE
  BY InCall, CStepEffect, Running, TypeParts DEF IInv
<1>2. \A x \in Objs : x # c.o => obj'[x] = obj[x]
  BY <1>1 DEF CallStepEffect
<1>3. CASE Find
  <2>1. c.at = "find" /\ UNCHANGED usb /\ (ConnectFails \/ Stage("open"))
    BY <1>3 DEF Find, AtStage
  <2>2. c' = Idle \/ c'.at = "open"
    BY <1>1, <2>1, FailsEffect, StageEffect
  <2>3. c'.at \notin {"session", "session2"}
    BY <2>2 DEF Idle
  <2> QED BY <1>1, <1>2, <2>1, <2>3, ClaimsKept DEF ConnectStages, UsesHandle, InUse, usb
<1>4. CASE DeviceInfo
  <2>1. c.at = "info" /\ UNCHANGED usb
    BY <1>4 DEF DeviceInfo, AtStage
  <2>2. CASE Stage("cfind") /\ UNCHANGED obj
    <3>1. c'.at = "cfind" /\ c'.o = c.o
      BY <1>1, <2>2, StageEffect
    <3> QED BY <1>1, <2>1, <2>2, <3>1, ClaimsKept DEF InUse, UsesHandle, usb
  <2>3. CASE /\ obj' = [obj EXCEPT ![c.o].connected = TRUE, ![c.o].ident = hcam[h]]
             /\ Return("ok")
    <3>1. ObjType /\ obj[c.o] \in Record
      BY <1>1, TypeParts DEF IInv, ObjType
    <3>2. /\ obj'[c.o] = [obj[c.o] EXCEPT !.connected = TRUE, !.ident = hcam[h]]
      BY <1>1, <2>3, <3>1 DEF ObjType
    <3>3. obj'[c.o].handle = h /\ obj'[c.o].connected = TRUE
      BY <3>1, <3>2 DEF Record
    <3>4. c'.at = "idle"
      BY <2>3 DEF Return, Idle
    <3> QED BY <1>1, <1>2, <2>1, <3>3, <3>4, ClaimsKept DEF InUse, usb
  <2> QED BY <1>4, <2>2, <2>3 DEF DeviceInfo
<1>5. CASE CloseFind
  <2>1. c.at = "cfind" /\ UNCHANGED usb /\ c.at \in CloseStages
    BY <1>5 DEF CloseFind, AtStage, CloseStages
  <2>2. CASE Stage("cclose") /\ UNCHANGED obj
    <3>1. c'.at = "cclose" /\ c'.o = c.o
      BY <1>1, <2>2, StageEffect
    <3> QED BY <1>1, <2>1, <2>2, <3>1, ClaimsKept DEF InUse, UsesHandle, usb
  <2>3. CASE Closed /\ CamsAt(obj[c.o].path) = {}
    <3>1. h \in opened /\ InUse(c.o)
      BY <1>1, <2>1, Running DEF UsesHandle, InUse
    <3>2. ASSUME NEW d \in Cams, claim[d] = h PROVE FALSE
      <4>1. hcam[h] = d /\ d # None
        BY <1>1, <3>1, <3>2, ConnectionAssumption DEF PlaceInv, ClaimOpen, UsbType
      <4>2. at[d] = obj[c.o].path
        BY <1>1, <3>1, <4>1 DEF PlaceInv, AtPath
      <4> QED BY <2>3, <4>2 DEF CamsAt
    <3>3. c' = Idle
      BY <2>1, <2>3, ClosedEffect
    <3> QED BY <1>1, <1>2, <2>1, <3>2, <3>3, ClaimsKept DEF InUse, Idle, usb
  <2> QED BY <1>5, <2>2, <2>3 DEF CloseFind
<1>6. CASE ResetClose
  <2>1. c.at = "reset" /\ c'.at = "reopen"
    BY <1>1, <1>6, StageEffect DEF ResetClose, AtStage
  <2> QED BY <1>2, <1>6, <2>1, CloseKeepsClaims DEF ResetClose, UsesHandle
<1>7. CASE Close
  <2>1. c.at = "cclose" /\ c.at \in CloseStages
    BY <1>7 DEF Close, AtStage, CloseStages
  <2>2. c' = Idle
    BY <1>7, <2>1, ClosedEffect DEF Close
  <2> QED BY <1>2, <1>7, <2>1, <2>2, CloseKeepsClaims DEF Close, UsesHandle, Idle
<1> QED BY <1>3, <1>4, <1>5, <1>6, <1>7, InitUsbKeepsClaims, OpenSessionKeepsClaims DEF CStep

\* As long as USB calls fail only because the device has gone, a camera's
\* interface is claimed by a handle that a connection or a running call holds:
\* neither a failed connect (open_camera_dev_usb), nor a disconnect, nor a status
\* request that clears the flag leaves a claim behind that later connects meet.
THEOREM NoClaimLost == ASSUME ~Faulty PROVE Spec => []NoLostClaim
<1>1. Init => ClaimInv
  BY DEF Init, ClaimInv, SessionClaimed, FreshSession, ClaimKept, Idle
<1>2. IInv /\ RegInv /\ PlaceInv /\ ClaimInv /\ [Next]_vars => ClaimInv'
  <2>1. UNCHANGED vars /\ ClaimInv => ClaimInv'
    BY DEF vars, ClaimInv, SessionClaimed, FreshSession, ClaimKept, InUse, Usable
  <2> QED BY <2>1, CStepKeepsClaims, LuaKeepsClaims, BusKeepsClaims DEF Next
<1>3. ClaimInv => NoLostClaim
  BY DEF ClaimInv, ClaimKept, NoLostClaim, InUse
<1> QED BY <1>1, <1>2, <1>3, PlaceHolds, PTL DEF Spec

-----------------------------------------------------------------------------
(* What reconnect compares.                                                *)

\* The Lua code that waits for a C call
CallPc ==
    /\ c.why = "connect" => pc = "low" /\ c.o = wrap[sub.w].obj
    /\ c.why = "close" => pc \in {"idle", "differs", "device", "list"}

\* From a connect that succeeded to what follows it the userdata stays connected,
\* and what reconnect compares is its device info.
Ready ==
    /\ (pc = "low" /\ c.why # "connect" /\ res = "ok") => obj[wrap[sub.w].obj].connected
    /\ pc = "update" => obj[wrap[sub.w].obj].connected
    /\ (pc = "compare" /\ res = "ok") =>
          LET me == wrap[cmd.me]
          IN  obj[me.obj].connected /\ me.info = obj[me.obj].ident
    /\ (Connecting /\ sub.ret = "compare") => sub.w = cmd.me

\* How a C call ends: a connect that reports success leaves its userdata
\* connected, the finalizer leaves the last result alone.
LEMMA CallResult ==
  ASSUME IInv, CStep
  PROVE  /\ c.why = "connect" /\ c'.why # "connect" /\ res' = "ok" => obj'[c.o].connected
         /\ c.why = "gc" => res' = res
<1>1. c.at # "idle" /\ c.o \in Objs /\ CType /\ ObjType
  BY InCall, TypeParts DEF IInv
<1>2. ASSUME NEW s, Stage(s) PROVE c'.why = c.why /\ res' = res
  BY <1>1, <1>2, StageEffect DEF Stage, lua
<1>3. ConnectFails => res' # "ok"
  BY DEF ConnectFails, Return
<1>4. Closed => /\ c.why = "connect" => res' # "ok"
                /\ c.why = "gc" => res' = res
  BY <1>3 DEF Closed, Return
<1>5. c.at \in ConnectStages => c.why = "connect"
  BY <1>1, Running
<1>6. CASE Find
  BY <1>2, <1>3, <1>5, <1>6 DEF Find, AtStage, ConnectStages
<1>7. ASSUME NEW s \in {"open", "reopen"}, NEW next, InitUsb(s, next)
      PROVE  c.why = "connect" /\ (c'.why = c.why \/ res' # "ok")
  BY <1>2, <1>3, <1>5, <1>7 DEF InitUsb, AtStage, ConnectStages
<1>8. ASSUME NEW s \in {"session", "session2"}, NEW next, OpenSession(s, next)
      PROVE  c.why = "connect" /\ (c'.why = c.why \/ res' # "ok")
  BY <1>2, <1>3, <1>5, <1>8 DEF OpenSession, AtStage, ConnectStages
<1>9. CASE ResetClose
  BY <1>2, <1>9 DEF ResetClose
<1>10. CASE DeviceInfo
  <2>1. c.why = "connect"
    BY <1>5, <1>10 DEF DeviceInfo, AtStage, ConnectStages
  <2>2. CASE Stage("cfind")
    BY <1>2, <2>1, <2>2
  <2>3. CASE obj' = [obj EXCEPT ![c.o].connected = TRUE,
                                ![c.o].ident = hcam[obj[c.o].handle]]
    <3>1. obj[c.o] \in Record
      BY <1>1 DEF ObjType
    <3>2. obj'[c.o] = [obj[c.o] EXCEPT !.connected = TRUE,
                                       !.ident = hcam[obj[c.o].handle]]
      BY <1>1, <2>3 DEF ObjType
    <3>3. obj'[c.o].connected = TRUE
      BY <3>1, <3>2 DEF Record
    <3> QED BY <2>1, <3>3
  <2> QED BY <1>10, <2>2, <2>3 DEF DeviceInfo
<1>11. CASE CloseFind \/ Close
  BY <1>2, <1>4, <1>11 DEF CloseFind, Close
<1> QED BY <1>6, <1>7, <1>8, <1>9, <1>10, <1>11 DEF CStep

LEMMA CStepKeepsReady ==
  ASSUME IInv, RegInv, CallPc, Ready, CStep
  PROVE  CallPc' /\ Ready'
<1>1. /\ c.at # "idle" /\ c.o \in Objs /\ CallStepEffect /\ CType
      /\ c.why \in {"connect", "close", "gc"}
  <2>1. c.at # "idle" /\ CType
    BY InCall, TypeParts DEF IInv
  <2>2. c.at \in ConnectStages \cup CloseStages
    BY <2>1 DEF CType, Stages, ConnectStages, CloseStages
  <2> QED BY <2>1, <2>2, InCall, CStepEffect, Running
<1>2. /\ UNCHANGED <<wrap, pc, sub, cmd>>
      /\ \A x \in Objs : x # c.o => obj'[x] = obj[x]
      /\ c'.why = "none" \/ (c'.why = c.why /\ c'.o = c.o)
  BY <1>1 DEF CallStepEffect, CallFrame, Idle
<1>3. CallPc'
  BY <1>2 DEF CallPc
<1>4. CASE c.why = "connect"
  <2>1. pc = "low" /\ c.o = wrap[sub.w].obj
    BY <1>4 DEF CallPc
  <2>2. (c'.why # "connect" /\ res' = "ok") => obj'[c.o].connected
    BY <1>4, CallResult
  <2> QED BY <1>2, <1>3, <2>1, <2>2 DEF Ready, Connecting
<1>5. CASE c.why = "close"
  BY <1>2, <1>3, <1>5 DEF CallPc, Ready, Connecting
<1>6. CASE c.why = "gc"
  <2>1. obj[c.o].st = "dying" /\ res' = res /\ c'.why # "connect"
    BY <1>1, <1>2, <1>6, CallResult DEF RegInv, RefLive, CallLive
  <2>2. \A w \in Wraps : wrap[w].obj \in Objs => obj'[wrap[w].obj] = obj[wrap[w].obj]
    BY <1>2, <2>1, ConnectionAssumption DEF RegInv, RefLive, CallLive
  <2>3. /\ Connecting => wrap[sub.w].obj \in Objs
        /\ pc = "compare" => wrap[cmd.me].obj \in Objs
        /\ sub.w \in Wraps /\ cmd.me \in Wraps
    BY TypeParts DEF IInv, RefOK, LuaType, CmdType
  <2> QED BY <1>2, <1>3, <1>6, <2>1, <2>2, <2>3 DEF Ready, Connecting
<1> QED BY <1>1, <1>4, <1>5, <1>6, <1>3

LEMMA CollectorKeepsReady ==
  ASSUME IInv, RegInv, CallPc, Ready, Collector
  PROVE  CallPc' /\ Ready'
<1>1. c = Idle /\ ObjType
  BY BetweenCalls, TypeParts DEF IInv
<1>2. /\ UNCHANGED <<wrap, pc, sub, res, cmd>> /\ c'.why \in {"none", "gc"}
      /\ c.why = "none"
  BY <1>1 DEF Collector, Collect, Finalize, lua, Idle
<1>3. ASSUME NEW x \in Objs, obj[x].st = "live"
      PROVE  obj'[x].connected = obj[x].connected /\ obj'[x].ident = obj[x].ident
  <2>1. obj[x] \in Record /\ obj'[x] \in {obj[x], [obj[x] EXCEPT !.st = "dying"]}
    BY <1>1, <1>3 DEF Collector, Collect, Finalize, ObjType
  <2> QED BY <2>1 DEF Record
<1>4. \A w \in Wraps : wrap[w].obj \in Objs =>
         /\ obj'[wrap[w].obj].connected = obj[wrap[w].obj].connected
         /\ obj'[wrap[w].obj].ident = obj[wrap[w].obj].ident
  BY <1>3, ConnectionAssumption DEF RegInv, RefLive, CallLive
<1>5. /\ Connecting => wrap[sub.w].obj \in Objs
      /\ pc = "compare" => wrap[cmd.me].obj \in Objs
      /\ sub.w \in Wraps /\ cmd.me \in Wraps
  BY TypeParts DEF IInv, RefOK, LuaType, CmdType
<1> QED BY <1>2, <1>4, <1>5 DEF CallPc, Ready, Connecting

LEMMA CommandKeepsReady == ASSUME IInv, Command PROVE CallPc' /\ Ready'
<1>1. LuaType
  BY TypeParts DEF IInv
<1>2. ASSUME NEW nodis \in BOOLEAN, NEW todo \in SUBSET Paths,
             NEW want \in Cams \cup {None}, CmdConnect(nodis, todo, want)
      PROVE  CallPc' /\ Ready'
  BY <1>2 DEF CmdConnect, Begins, Lua, Idle, CallPc, Ready, Connecting
<1>3. CASE CmdDisconnect \/ CmdReconnect \/ CmdList \/ GuiTimer \/ Exit
  BY <1>3 DEF CmdDisconnect, Disconnect, CmdReconnect, CmdList, GuiTimer, Exit, Begins, Lua,
              Idle, CallPc, Ready, Connecting, lua
<1>4. CASE GuiConnect
  BY <1>4 DEF GuiConnect, Lua, CallPc, Ready, Connecting
<1>5. ASSUME NEW p \in Paths, NEW o \in Objs, GuiSelect(p, o) PROVE CallPc' /\ Ready'
  BY <1>5 DEF GuiSelect, Lua, Idle, CallPc, Ready, Connecting
<1> QED BY <1>2, <1>3, <1>4, <1>5 DEF Command

LEMMA LuaStepKeepsReady ==
  ASSUME IInv, CallPc, Ready, LuaStep
  PROVE  CallPc' /\ Ready'
<1> DEFINE Goal == CallPc' /\ Ready'
<1>1. LuaType /\ RefOK /\ ObjType /\ {"con", "tmp", "self"} \subseteq Wraps
  BY TypeParts DEF IInv, Wraps
<1>2. CASE Low
  BY <1>1, <1>2 DEF Low, Lua, Idle, CallPc, Ready, RefOK, Connecting, LuaType
<1>3. CASE Update
  <2> DEFINE o == wrap[sub.w].obj
  <2>1. /\ pc = "update" /\ c' = c /\ c.why = "none" /\ pc' = sub.ret
        /\ UNCHANGED <<obj, sub, cmd>> /\ o \in Objs /\ sub.w \in Wraps
        /\ sub.ret \notin {"low", "update"}
    BY <1>1, <1>3 DEF Update, Lua, Idle, RefOK, Connecting, LuaType
  <2>2. wrap[sub.w] \in Wrapper /\ wrap'[sub.w] = [wrap[sub.w] EXCEPT !.info = obj[o].ident]
    BY <1>1, <1>3, <2>1 DEF Update, LuaType
  <2>3. wrap'[sub.w].obj = o /\ wrap'[sub.w].info = obj[o].ident
    BY <2>2 DEF Wrapper
  <2>4. obj[o].connected
    BY <2>1 DEF Ready
  <2>5. sub.ret = "compare" => sub.w = cmd.me
    BY <2>1 DEF Ready, Connecting
  <2> QED BY <2>1, <2>3, <2>4, <2>5 DEF CallPc, Ready, Connecting
<1>4. CASE Wake
  BY <1>4 DEF Wake, Connect, Lua, Idle, CallPc, Ready, Connecting
<1>5. CASE Compare
  BY <1>5 DEF Compare, Disconnect, Ends, Lua, Idle, CallPc, Ready, Connecting
<1>6. CASE Differs \/ NoDevice \/ ListEnds
  BY <1>6 DEF Differs, NoDevice, ListEnds, Ends, Lua, Idle, CallPc, Ready, Connecting
<1>7. ASSUME NEW p \in Paths, NEW o \in Objs, Device(p, o) \/ ListDevice(p, o) PROVE Goal
  BY <1>7 DEF Device, ListDevice, Lua, Idle, CallPc, Ready, Connecting
<1>8. ASSUME NEW ret \in {"match", "listed"}, NEW p \in {"check", "ask"}, Ask(p, ret)
      PROVE  Goal
  <2> DEFINE o == wrap["tmp"].obj
  <2>1. o \in Objs
    BY <1>1, <1>8 DEF Ask, Lua, RefOK
  <2>2. PICK r \in BOOLEAN :
          /\ obj' = Flag(o, r)
          /\ sub' = [w |-> "tmp", ret |-> ret]
          /\ pc' = IF r THEN "update" ELSE "low"
          /\ c' = IF r THEN c ELSE [at |-> "find", o |-> o, why |-> "connect"]
    BY <1>8 DEF Ask
  <2>3. r => obj'[o].connected
    BY <1>1, <2>1, <2>2, FlagType
  <2>4. wrap' = wrap /\ c.why = "none"
    BY <1>8 DEF Ask, Lua, Idle
  <2> QED BY <2>2, <2>3, <2>4 DEF CallPc, Ready, Connecting
<1>9. CASE Match
  BY <1>9 DEF Match, Disconnect, Ends, Lua, Idle, CallPc, Ready, Connecting
<1>10. CASE Use
  <2>1. wrap'["con"] = wrap["tmp"]
    BY <1>1, <1>10 DEF Use, LuaType
  <2> QED BY <1>10, <2>1 DEF Use, Lua, Idle, CallPc, Ready, Connecting
<1>11. CASE Chosen
  BY <1>11 DEF Chosen, Lua, Idle, CallPc, Ready, Connecting
<1>12. CASE Listed
  BY <1>12 DEF Listed, Disconnect, Lua, Idle, CallPc, Ready, Connecting
<1>13. CASE GuiSelected
  <2> DEFINE o == wrap["con"].obj
  <2>1. o \in Objs /\ wrap' = wrap /\ c' = c /\ c.why = "none" /\ pc = "selected"
    BY <1>1, <1>13 DEF GuiSelected, Lua, RefOK, Idle
  <2>2. PICK r \in BOOLEAN :
          /\ IsConnected(o, r)
          /\ IF r THEN pc' = "update" /\ sub' = [w |-> "con", ret |-> "idle"]
             ELSE pc' = "idle" /\ UNCHANGED sub
    BY <1>13 DEF GuiSelected
  <2>3. r => obj'[o].connected
    BY <1>1, <2>1, <2>2, FlagType DEF IsConnected
  <2> QED BY <2>1, <2>2, <2>3 DEF CallPc, Ready, Connecting
<1> QED BY <1>2, <1>3, <1>4, <1>5, <1>6, <1>7, <1>8, <1>9, <1>10, <1>11, <1>12, <1>13
        DEF LuaStep

\* What a reconnect that reports success has compared
LEMMA SameStep ==
  ASSUME IInv, Ready, IdentTrue, Compare, res' = "same"
  PROVE  hcam[obj[wrap[cmd.me].obj].handle] \in {cmd.was, None} /\ c' = c
<1> DEFINE me == wrap[cmd.me]
<1>1. /\ pc = "compare" /\ res = "ok" /\ me.info = cmd.was /\ c' = c
  BY DEF Compare, Ends, Lua
<1>2. obj[me.obj].connected /\ me.info = obj[me.obj].ident
  BY <1>1 DEF Ready
<1>3. me.obj \in Objs
  BY <1>1 DEF IInv, RefOK
<1> QED BY <1>1, <1>2, <1>3 DEF IdentTrue

\* A strict reconnect (con_methods:reconnect) that reports success talks to the
\* camera the wrapper knew before it, or to one just pulled out, whatever GUI
\* callbacks ran in its sleep and whatever was plugged in at its bus/dev.
THEOREM ReconnectStrict == Spec => StrictReconnect
<1>1. Init => CallPc /\ Ready
  BY DEF Init, CallPc, Ready, Connecting, Idle
<1>2. IInv /\ RegInv /\ CallPc /\ Ready /\ [Next]_vars => CallPc' /\ Ready'
  <2>1. (Bus \/ UNCHANGED vars) /\ CallPc /\ Ready => CallPc' /\ Ready'
    BY DEF Bus, Plug, Unplug, lua, vars, CallPc, Ready, Connecting
  <2> QED BY <2>1, CStepKeepsReady, CommandKeepsReady, LuaStepKeepsReady,
             CollectorKeepsReady DEF Next
<1>3. IInv /\ Ready /\ IdentTrue =>
        ((Compare /\ res' = "same") =>
           LET h == obj[wrap[cmd.me].obj].handle
           IN  hcam[h] \in {cmd.was, None} /\ c' = c)
  BY SameStep
<1>4. Spec => [](IInv /\ Ready /\ IdentTrue)
  BY <1>1, <1>2, PlaceHolds, IdentityTrue, PTL DEF Spec
<1> QED BY <1>3, <1>4, PTL DEF StrictReconnect, Spec

=============================================================================
