---------------------------- MODULE Sessions_proofs ----------------------------
(***************************************************************************)
(* What goes on for as long as a user wants.  The timer of the GUI         *)
(* scheduler runs as long as there is a job, for any jobs, where either a  *)
(* repeating job stays (the device check) or no job schedules others from  *)
(* within a tick.  And the contract of an rsint session, for whatever is   *)
(* typed and however many calls are lost.                                  *)
(***************************************************************************)
EXTENDS GuiSched, Rsint, TLAPS, SequenceTheorems

-----------------------------------------------------------------------------
(* The GUI scheduler.                                                      *)

\* The jobs that stay are scheduled, and with them the timer.
ForeverKept == Forever # {} => timer /\ Forever \subseteq repeating

\* A tick begins and goes on with the timer running.
TickTimed == tick # NoTick => timer

\* What a tick that has found no job to stay has still to visit: the jobs that
\* stay, and, when no job schedules others, all.
StillToVisit ==
    tick.num = 0 =>
        /\ tick.loop = "repeating" => Forever \subseteq tick.todo
        /\ (~InTick /\ tick.loop = "pending") => pending \subseteq tick.todo
        /\ (~InTick /\ tick.loop = "repeating") => pending = {} /\ repeating \subseteq tick.todo

SchedInv == TypeOK /\ ForeverKept /\ TickTimed /\ StillToVisit /\ TimerRuns

-----------------------------------------------------------------------------
Loops == {"none", "pending", "repeating"}

TickType == [loop : Loops, todo : SUBSET (Once \cup Repeat),
             ripe : SUBSET (Once \cup Repeat), num : Nat]

LEMMA NoTickType ==
  NoTick \in TickType /\ NoTick.loop = "none" /\ NoTick.todo = {} /\ NoTick.num = 0
  BY DEF NoTick, TickType, Loops

LEMMA CountedType ==
  ASSUME NEW t \in TickType
  PROVE  /\ Counted(t) \in TickType /\ Counted(t).loop = t.loop
         /\ Counted(t).num = t.num + 1 /\ Counted(t).num # 0
<1>1. t.num \in Nat /\ t.num + 1 \in Nat /\ t.num + 1 # 0
  BY DEF TickType
<1>2. Counted(t) = [t EXCEPT !.num = t.num + 1]
  BY DEF Counted
<1>3. Counted(t) \in TickType
  BY <1>1, <1>2 DEF TickType
<1>4. Counted(t).loop = t.loop /\ Counted(t).num = t.num + 1
  BY <1>2 DEF TickType
<1> QED BY <1>1, <1>3, <1>4

\* What a running job does to the tables: it takes nothing away but, in a tick in
\* which jobs may schedule, jobs that do not stay; and the tick goes on or ends.
RunsEffect(p, r, t) ==
    /\ p \subseteq pending' /\ Forever \subseteq repeating'
    /\ timer => timer'
    /\ timer' \in BOOLEAN
    /\ pending' \subseteq Once /\ repeating' \subseteq Repeat
    /\ due' \subseteq pending' \cup repeating'
    /\ tick' = NoTick \/ (tick' \in TickType /\ tick'.loop = t.loop /\ tick'.num = t.num)
    /\ tick' # NoTick => t.todo \ (Repeat \ Forever) \subseteq tick'.todo
    /\ ~InTick => pending' = p /\ repeating' = r /\ (tick' = NoTick \/ tick' = t)

LEMMA RunsDoes ==
  ASSUME NEW p, NEW r, NEW d, NEW t, Runs(p, r, d, t), timer \in BOOLEAN,
         p \subseteq Once, Forever \subseteq r, r \subseteq Repeat, d \subseteq p \cup r,
         t \in TickType
  PROVE  RunsEffect(p, r, t)
<1>1. CASE /\ pending' = p /\ repeating' = r /\ due' = d /\ UNCHANGED timer
           /\ tick' \in {t, NoTick}
  BY <1>1 DEF RunsEffect
<1>2. ASSUME NEW j \in Once \ p, NEW met \in BOOLEAN, InTick,
             pending' = p \cup {j}, repeating' = r, due' = d,
             tick' = IF met THEN [t EXCEPT !.todo = @ \cup {j}] ELSE t, timer' = TRUE
      PROVE  RunsEffect(p, r, t)
  <2>1. /\ [t EXCEPT !.todo = @ \cup {j}] \in TickType
        /\ [t EXCEPT !.todo = @ \cup {j}].loop = t.loop
        /\ [t EXCEPT !.todo = @ \cup {j}].num = t.num
        /\ [t EXCEPT !.todo = @ \cup {j}].todo = t.todo \cup {j}
    BY DEF TickType
  <2> QED BY <1>2, <2>1 DEF RunsEffect
<1>3. ASSUME NEW j \in Repeat \ r, NEW met \in BOOLEAN, InTick,
             pending' = p, repeating' = r \cup {j}, due' = d,
             tick' = IF met THEN [t EXCEPT !.todo = @ \cup {j}] ELSE t, timer' = TRUE
      PROVE  RunsEffect(p, r, t)
  <2>1. /\ [t EXCEPT !.todo = @ \cup {j}] \in TickType
        /\ [t EXCEPT !.todo = @ \cup {j}].loop = t.loop
        /\ [t EXCEPT !.todo = @ \cup {j}].num = t.num
        /\ [t EXCEPT !.todo = @ \cup {j}].todo = t.todo \cup {j}
    BY DEF TickType
  <2> QED BY <1>3, <2>1 DEF RunsEffect
<1>4. ASSUME NEW j \in r \ Forever, InTick,
             pending' = p, repeating' = r \ {j}, due' = d \ {j},
             tick' = [t EXCEPT !.todo = @ \ {j}], UNCHANGED timer
      PROVE  RunsEffect(p, r, t)
  <2>1. /\ tick' \in TickType /\ tick'.loop = t.loop /\ tick'.num = t.num
        /\ tick'.todo = t.todo \ {j}
    BY <1>4 DEF TickType
  <2> QED BY <1>4, <2>1 DEF RunsEffect
<1> QED BY <1>1, <1>2, <1>3, <1>4 DEF Runs

\* A job that runs keeps the invariant when it was taken off what the tick visits.
LEMMA RunsKeepsInv ==
  ASSUME SchedInv, NEW p, NEW d, NEW t, RunsEffect(p, repeating, t),
         tick # NoTick, use' = use,
         t.num = 0 =>
            /\ t.loop = "repeating" => FALSE
            /\ (~InTick /\ t.loop = "pending") => p \subseteq t.todo,
         t.loop \in {"pending", "repeating"}
  PROVE  SchedInv'
<1>1. timer /\ timer' /\ Forever' = Forever /\ InTick' = InTick
  BY DEF SchedInv, TickTimed, RunsEffect, Forever, InTick
<1>2. TypeOK'
  BY NoTickType DEF SchedInv, TypeOK, RunsEffect, TickType, Loops
<1>3. StillToVisit'
  <2>1. CASE tick' = NoTick
    BY <2>1, NoTickType DEF StillToVisit
  <2>2. CASE tick' # NoTick
    <3>1. tick'.loop = t.loop /\ tick'.num = t.num
      BY <2>2 DEF RunsEffect
    <3>2. ~InTick => tick' = t /\ pending' = p
      BY <2>2 DEF RunsEffect
    <3> QED BY <1>1, <3>1, <3>2 DEF StillToVisit
  <2> QED BY <2>1, <2>2
<1> QED BY <1>1, <1>2, <1>3 DEF SchedInv, ForeverKept, TickTimed, TimerRuns, RunsEffect

LEMMA VisitPendingKeepsInv ==
  ASSUME SchedInv, NEW j \in Once, VisitPending(j)
  PROVE  SchedInv'
<1> DEFINE t == [tick EXCEPT !.todo = @ \ {j}, !.ripe = @ \ {j}]
<1>1. /\ tick \in TickType /\ tick.loop = "pending" /\ use' = use
      /\ tick # NoTick
  BY NoTickType DEF SchedInv, TypeOK, TickType, Loops, VisitPending
<1>2. /\ t \in TickType /\ t.loop = "pending" /\ t.num = tick.num
      /\ t.todo = tick.todo \ {j}
  BY <1>1 DEF TickType
<1>3. CASE Runs(pending \ {j}, repeating, due \ {j}, t)
  <2>1. RunsEffect(pending \ {j}, repeating, t)
    <3>1. /\ pending \ {j} \subseteq Once /\ repeating \subseteq Repeat /\ timer \in BOOLEAN
          /\ due \ {j} \subseteq (pending \ {j}) \cup repeating
          /\ Forever \subseteq repeating
      BY DEF SchedInv, TypeOK, ForeverKept
    <3> QED BY <1>2, <1>3, <3>1, RunsDoes
  <2>2. t.num = 0 => (~InTick => pending \ {j} \subseteq t.todo)
    BY <1>1, <1>2 DEF SchedInv, StillToVisit
  <2> QED BY <1>1, <1>2, <2>1, <2>2, RunsKeepsInv
<1>4. CASE tick' = Counted(t) /\ UNCHANGED <<pending, repeating, due, timer>>
  <2>1. /\ tick' \in TickType /\ tick'.num = t.num + 1 /\ tick'.num # 0 /\ tick' # NoTick
    BY <1>2, <1>4, CountedType, NoTickType
  <2>2. timer /\ Forever' = Forever
    BY <1>1 DEF SchedInv, TickTimed, Forever
  <2> QED BY <1>1, <1>4, <2>1, <2>2
          DEF SchedInv, TypeOK, ForeverKept, TickTimed, StillToVisit, TimerRuns,
              TickType, Loops
<1> QED BY <1>3, <1>4 DEF VisitPending

LEMMA VisitRepeatingKeepsInv ==
  ASSUME SchedInv, NEW j \in Repeat, VisitRepeating(j)
  PROVE  SchedInv'
<1> DEFINE t == Counted([tick EXCEPT !.todo = @ \ {j}])
<1>1. /\ tick \in TickType /\ tick.loop = "repeating" /\ use' = use
      /\ tick # NoTick
  BY NoTickType DEF SchedInv, TypeOK, TickType, Loops, VisitRepeating
<1>2. t \in TickType /\ t.loop = "repeating" /\ t.num = tick.num + 1 /\ t.num # 0
  <2>1. /\ [tick EXCEPT !.todo = @ \ {j}] \in TickType
        /\ [tick EXCEPT !.todo = @ \ {j}].loop = "repeating"
        /\ [tick EXCEPT !.todo = @ \ {j}].num = tick.num
    BY <1>1 DEF TickType
  <2> QED BY <2>1, CountedType
<1>3. CASE Runs(pending, repeating, due \ {j}, t)
  <2>1. RunsEffect(pending, repeating, t)
    <3>1. /\ pending \subseteq Once /\ repeating \subseteq Repeat /\ timer \in BOOLEAN
          /\ due \ {j} \subseteq pending \cup repeating
          /\ Forever \subseteq repeating
      BY DEF SchedInv, TypeOK, ForeverKept
    <3> QED BY <1>2, <1>3, <3>1, RunsDoes
  <2> QED BY <1>1, <1>2, <2>1, RunsKeepsInv
<1>4. CASE tick' = t /\ UNCHANGED <<pending, repeating, due, timer>>
  <2>1. tick' # NoTick /\ timer /\ Forever' = Forever
    BY <1>1, <1>2, <1>4, NoTickType DEF SchedInv, TickTimed, Forever
  <2> QED BY <1>1, <1>2, <1>4, <2>1
          DEF SchedInv, TypeOK, ForeverKept, TickTimed, StillToVisit, TimerRuns,
              TickType, Loops
<1> QED BY <1>3, <1>4 DEF VisitRepeating

\* Between ticks jobs come and go; those that stay stay.
LEMMA CallbackKeepsInv == ASSUME SchedInv, Callback PROVE SchedInv'
<1>1. tick = NoTick /\ tick' = NoTick /\ use' = use /\ Forever' = Forever
  BY DEF Callback, Forever
<1>2. StillToVisit'
  BY <1>1, NoTickType DEF StillToVisit
<1>3. ASSUME NEW j \in Once \cup Repeat, Schedules(j)
      PROVE  TypeOK' /\ ForeverKept' /\ TimerRuns'
  BY <1>1, <1>3 DEF SchedInv, TypeOK, ForeverKept, TimerRuns, Schedules, RunAfter,
                    RunRepeat, Cancel
<1> QED BY <1>1, <1>2, <1>3 DEF SchedInv, Callback, TickTimed

LEMMA TickStartsKeepsInv == ASSUME SchedInv, TickStarts PROVE SchedInv'
<1>1. /\ tick' = [loop |-> "pending", todo |-> pending, ripe |-> due, num |-> 0]
      /\ UNCHANGED <<use, pending, repeating, due, timer>> /\ timer
  BY DEF TickStarts
<1>2. tick' \in TickType
  BY <1>1 DEF SchedInv, TypeOK, TickType, Loops
<1>3. tick'.loop = "pending" /\ tick'.todo = pending
  BY <1>1
<1> QED BY <1>1, <1>2, <1>3
        DEF SchedInv, TypeOK, ForeverKept, TickTimed, StillToVisit, TimerRuns,
            TickType, Loops, Forever

LEMMA NextLoopKeepsInv == ASSUME SchedInv, NextLoop PROVE SchedInv'
<1>1. tick \in TickType /\ tick.loop = "pending" /\ tick.todo = {} /\ tick # NoTick
  BY NoTickType DEF SchedInv, TypeOK, TickType, Loops, NextLoop
<1>2. UNCHANGED <<use, pending, repeating, due, timer>>
  BY DEF NextLoop
<1>3. repeating \subseteq Once \cup Repeat
  BY DEF SchedInv, TypeOK
<1>4. /\ tick' \in TickType /\ tick'.loop = "repeating" /\ tick'.todo = repeating
      /\ tick'.num = tick.num /\ tick' # NoTick
  BY <1>1, <1>3, NoTickType DEF NextLoop, TickType, Loops
<1>5. timer /\ Forever' = Forever /\ InTick' = InTick
  BY <1>1, <1>2 DEF SchedInv, TickTimed, Forever, InTick
<1>6. StillToVisit'
  BY <1>1, <1>2, <1>4, <1>5 DEF SchedInv, StillToVisit, ForeverKept
<1> QED BY <1>1, <1>2, <1>4, <1>5, <1>6
        DEF SchedInv, TypeOK, ForeverKept, TickTimed, TimerRuns, TickType, Loops

\* A tick that stops the timer has found no job: with jobs that stay it has visited
\* one of them, and without jobs that schedule it has visited all there are.
LEMMA TickEndsKeepsInv ==
  ASSUME SchedInv, TickEnds, ~InTick \/ Forever # {}
  PROVE  SchedInv'
<1>1. /\ tick.loop = "repeating" /\ tick.todo = {} /\ tick # NoTick /\ timer
      /\ timer' = ~Stops /\ tick' = NoTick
      /\ UNCHANGED <<use, pending, repeating, due>> /\ Forever' = Forever
  BY NoTickType DEF SchedInv, TickTimed, TickEnds, Forever
<1>2. Stops => Forever = {} /\ pending = {} /\ repeating = {}
  BY <1>1 DEF SchedInv, StillToVisit, Stops
<1>3. StillToVisit'
  BY <1>1, NoTickType DEF StillToVisit
<1>4. TypeOK'
  BY <1>1, NoTickType DEF SchedInv, TypeOK, TickType, Loops
<1> QED BY <1>1, <1>2, <1>3, <1>4 DEF SchedInv, ForeverKept, TickTimed, TimerRuns

LEMMA SchedStep ==
  ASSUME SchedInv, ~InTick \/ Forever # {}, [Next]_vars
  PROVE  SchedInv'
<1>1. CASE UNCHANGED vars
  BY <1>1 DEF vars, SchedInv, TypeOK, ForeverKept, TickTimed, StillToVisit, TimerRuns,
              Forever, InTick
<1>2. ASSUME NEW j \in Once \cup Repeat, TimePasses(j) PROVE SchedInv'
  BY <1>2 DEF TimePasses, SchedInv, TypeOK, ForeverKept, TickTimed, StillToVisit, TimerRuns,
              Forever, InTick
<1> QED BY <1>1, <1>2, CallbackKeepsInv, TickStartsKeepsInv, VisitPendingKeepsInv,
           VisitRepeatingKeepsInv, NextLoopKeepsInv, TickEndsKeepsInv DEF Next, Tick

LEMMA SchedInit == ASSUME Init PROVE SchedInv
<1>1. Forever \subseteq Repeat
  BY GuiSchedAssumption DEF Init, Forever
<1> QED BY <1>1, NoTickType
        DEF Init, SchedInv, TypeOK, ForeverKept, TickTimed, StillToVisit, TimerRuns,
            TickType, Loops

-----------------------------------------------------------------------------
\* With jobs that stay, such as the device check of gui_dev_check_interval, or
\* without jobs that schedule others while m.tick runs them, the timer runs between
\* two ticks as long as there is a job (gui_sched.lua:77), for any jobs, whatever
\* they cancel and wherever they throw.
THEOREM TimerKept ==
  ASSUME \A u \in Uses : ~u.inTick \/ u.forever # {}
  PROVE  Spec => []TimerRuns
<1> DEFINE Safe == ~InTick \/ Forever # {}
<1>1. Init => SchedInv /\ Safe
  BY SchedInit DEF Init, InTick, Forever
<1>2. SchedInv /\ Safe /\ [Next]_vars => SchedInv' /\ Safe'
  <2>1. [Next]_vars => use' = use
    BY DEF Next, vars, Callback, TimePasses, Tick, TickStarts, VisitPending,
           VisitRepeating, NextLoop, TickEnds
  <2> QED BY <2>1, SchedStep DEF InTick, Forever
<1>3. SchedInv => TimerRuns
  BY DEF SchedInv
<1> QED BY <1>1, <1>2, <1>3, PTL DEF Spec

-----------------------------------------------------------------------------
(* The rsint session.                                                      *)

Cmds == Typed \cup {"none", "l", "q"}

CamType == [run : BOOLEAN, cap : BOOLEAN, st : {"none", "start", "loop"},
            hook : {"no", "ready", "passed"}, next : BOOLEAN, err : BOOLEAN,
            inq : Seq(Cmds \cup {"off"}), outq : Seq({"user", "false", "text", "error"}),
            data : Nat \cup {None}, slow : BOOLEAN, told : BOOLEAN]

Places == {"init", "exec", "prompt", "status", "wait", "read", "write", "get", "stop",
           "stopping", "final", "cleanup", "done"}

HostType == [pc : Places,
             cmd : Cmds, typed : Nat, n : Nat, run : BOOLEAN,
             at : {"none", "status", "wait", "get", "final"}, got : BOOLEAN,
             stop : Seq({"off", "l", "q"}), ok : BOOLEAN, threw : BOOLEAN,
             lost : Places \cup {"none", "connection"}]

RsintType ==
    /\ cont \in BOOLEAN
    /\ cam \in CamType
    /\ host \in HostType
    /\ files \in Seq([shot : Nat, made : Nat])
    /\ faults \in Nat

\* The script runs until it has left its loop; before that of the host nothing
\* is asked of it.
ScriptInv ==
    /\ cam.st # "none" => cam.run
    /\ host.pc = "init" => cam = Off
    /\ host.pc = "exec" => cam = [Off EXCEPT !.cap = TRUE]
    /\ host.pc = "read" => host.at # "none"
    /\ host.pc = "get" => ~host.got

\* The host waits for the data of a shot.
Waiting == host.pc = "get" \/ (host.pc = "read" /\ host.at = "get" /\ ~host.got)

InLoop ==
    \/ host.pc \in {"init", "exec", "prompt", "status", "wait", "write", "get"}
    \/ host.pc = "read" /\ host.at # "final"

IsShot(m) == m \in {"s", "l"}

\* Of a shot asked for there is one thing at most, the message, the flag of the
\* script or the data, and where none is waited for there is nothing.
OneOf(c) ==
    /\ \A i \in 1..Len(c.inq) : IsShot(c.inq[i]) =>
          Waiting /\ i = Len(c.inq) /\ ~c.next /\ c.data = None
    /\ c.next => Waiting /\ c.data = None
    /\ c.data # None => Waiting /\ c.data = host.n

OneShot == InLoop /\ ~cam.slow => OneOf(cam)

\* While nothing has gone wrong all shots are stored but one waited for.
Stored ==
    host.ok => /\ host.pc \notin {"stop", "stopping"}
               /\ host.n = Len(files) + IF Waiting THEN 1 ELSE 0

HasFalse(c) == \E i \in 1..Len(c.outq) : c.outq[i] = "false"

\* The messages of a script that has ended are not gone before they are read.
FalseKept ==
    host.ok =>
        /\ cam.told /\ host.pc \notin {"cleanup", "done"} => HasFalse(cam)
        /\ \/ host.pc \in {"wait", "write", "get"}
           \/ host.pc = "read" /\ host.at = "get"
           => host.run
        /\ \/ host.pc \in {"final", "cleanup"}
           \/ host.pc = "read" /\ host.at # "get"
           => (~host.run => ~cam.run)
        /\ host.pc = "cleanup" \/ (host.pc = "done" /\ host.lost # "connection")
           => (~host.run => ~cam.run /\ ~cam.told)

RsintInv ==
    RsintType /\ ScriptInv /\ OneShot /\ Stored /\ FalseKept /\ LeavesClean /\ OwnShots
-----------------------------------------------------------------------------
(***************************************************************************)
(* Steps of the camera.                                                    *)
(***************************************************************************)
NoneOf(c) ==
    /\ \A i \in 1..Len(c.inq) : ~IsShot(c.inq[i])
    /\ ~c.next /\ c.data = None

\* The fields a step of the script leaves alone.
SameShots(c, d) == c.inq = d.inq /\ c.next = d.next /\ c.data = d.data

\* The script takes a message: a shot asked for is the only one.
LEMMA TakeFacts ==
    ASSUME cam \in CamType, cam.inq # <<>>, NEW c, c = [cam EXCEPT !.inq = Tail(@)]
    PROVE  /\ c \in CamType /\ c.run = cam.run /\ c.cap = cam.cap /\ c.st = cam.st
           /\ c.slow = cam.slow /\ c.told = cam.told /\ c.outq = cam.outq /\ c.err = cam.err
           /\ c.hook = cam.hook /\ c.data = cam.data /\ c.next = cam.next
           /\ OneOf(cam) => OneOf(c)
           /\ OneOf(cam) /\ IsShot(Head(cam.inq)) => NoneOf(c) /\ Waiting
<1>1. /\ cam.inq \in Seq(Cmds \cup {"off"}) /\ Len(cam.inq) \in Nat /\ Len(cam.inq) # 0
  BY LenProperties, EmptySeq DEF CamType
<1>2. /\ Head(cam.inq) = cam.inq[1] /\ Tail(cam.inq) \in Seq(Cmds \cup {"off"})
      /\ Len(Tail(cam.inq)) = Len(cam.inq) - 1
      /\ \A i \in 1..Len(Tail(cam.inq)) : Tail(cam.inq)[i] = cam.inq[i + 1]
  BY <1>1, HeadTailProperties
<1>3. /\ c \in CamType /\ c.run = cam.run /\ c.cap = cam.cap /\ c.st = cam.st
      /\ c.slow = cam.slow /\ c.told = cam.told /\ c.outq = cam.outq /\ c.err = cam.err
      /\ c.hook = cam.hook /\ c.data = cam.data /\ c.next = cam.next
      /\ c.inq = Tail(cam.inq)
  BY <1>2 DEF CamType
<1>4. ASSUME OneOf(cam) PROVE OneOf(c)
  <2>1. ASSUME NEW i \in 1..Len(c.inq), IsShot(c.inq[i])
        PROVE  Waiting /\ i = Len(c.inq) /\ ~c.next /\ c.data = None
    <3>1. i + 1 \in 1..Len(cam.inq) /\ c.inq[i] = cam.inq[i + 1]
      BY <1>1, <1>2, <1>3
    <3>2. Waiting /\ i + 1 = Len(cam.inq) /\ ~cam.next /\ cam.data = None
      BY <1>4, <2>1, <3>1 DEF OneOf
    <3>3. i = Len(c.inq)
      BY <1>1, <1>2, <1>3, <3>2
    <3> QED BY <1>3, <3>2, <3>3
  <2> QED BY <1>3, <1>4, <2>1 DEF OneOf
<1>5. ASSUME OneOf(cam), IsShot(Head(cam.inq)) PROVE NoneOf(c) /\ Waiting
  <2>1. 1 \in 1..Len(cam.inq) /\ IsShot(cam.inq[1])
    BY <1>1, <1>2, <1>5
  <2>2. Waiting /\ 1 = Len(cam.inq) /\ ~cam.next /\ cam.data = None
    BY <1>5, <2>1 DEF OneOf
  <2>3. Len(c.inq) = 0
    BY <1>2, <1>3, <2>2
  <2>4. \A i \in 1..Len(c.inq) : ~IsShot(c.inq[i])
    BY <2>3
  <2>5. ~c.next /\ c.data = None
    BY <1>3, <2>2
  <2> QED BY <2>2, <2>4, <2>5 DEF NoneOf
<1> QED BY <1>3, <1>4, <1>5

\* An exposure: its data is that of the shot asked for last.
LEMMA ShotFacts ==
    ASSUME host \in HostType, NEW c \in CamType
    PROVE  /\ Shot(c) \in CamType /\ Shot(c).run = c.run /\ Shot(c).cap = c.cap
           /\ Shot(c).st = c.st /\ Shot(c).slow = c.slow /\ Shot(c).told = c.told
           /\ Shot(c).outq = c.outq /\ Shot(c).err = c.err /\ Shot(c).hook = c.hook
           /\ Shot(c).inq = c.inq /\ Shot(c).next = c.next
           /\ NoneOf(c) /\ Waiting => OneOf(Shot(c))
<1>1. host.n \in Nat
  BY DEF HostType
<1>2. /\ Shot(c) \in CamType /\ Shot(c).run = c.run /\ Shot(c).cap = c.cap
      /\ Shot(c).st = c.st /\ Shot(c).slow = c.slow /\ Shot(c).told = c.told
      /\ Shot(c).outq = c.outq /\ Shot(c).err = c.err /\ Shot(c).hook = c.hook
      /\ Shot(c).inq = c.inq /\ Shot(c).next = c.next
      /\ c.data = None => Shot(c).data = host.n
  BY <1>1 DEF Shot, CamType
<1>3. NoneOf(c) /\ Waiting => OneOf(Shot(c))
  BY <1>2 DEF NoneOf, OneOf
<1> QED BY <1>2, <1>3

\* A message is added behind the others.
Adds(d, c) ==
    /\ d \in CamType
    /\ d.run = c.run /\ d.cap = c.cap /\ d.st = c.st /\ d.slow = c.slow
    /\ d.told = c.told /\ d.err = c.err /\ d.hook = c.hook /\ SameShots(d, c)
    /\ HasFalse(c) => HasFalse(d)

\* What is in the queue stays there, and what is put in is in it.
LEMMA OutFacts ==
    ASSUME NEW c \in CamType, NEW s \in Seq({"user", "false", "text", "error"})
    PROVE  /\ Adds([c EXCEPT !.outq = @ \o s], c)
           /\ (\E i \in 1..Len(s) : s[i] = "false") => HasFalse([c EXCEPT !.outq = @ \o s])
<1> DEFINE d == [c EXCEPT !.outq = @ \o s]
<1>1. /\ c.outq \in Seq({"user", "false", "text", "error"}) /\ Len(c.outq) \in Nat
      /\ Len(s) \in Nat
  BY LenProperties DEF CamType
<1>2. /\ c.outq \o s \in Seq({"user", "false", "text", "error"})
      /\ Len(c.outq \o s) = Len(c.outq) + Len(s)
      /\ \A i \in 1..Len(c.outq) + Len(s) :
            (c.outq \o s)[i] = IF i <= Len(c.outq) THEN c.outq[i] ELSE s[i - Len(c.outq)]
  BY <1>1, ConcatProperties
<1>3. /\ d \in CamType /\ d.outq = c.outq \o s
      /\ d.run = c.run /\ d.cap = c.cap /\ d.st = c.st /\ d.slow = c.slow
      /\ d.told = c.told /\ d.err = c.err /\ d.hook = c.hook /\ SameShots(d, c)
  BY <1>2 DEF CamType, SameShots
<1> HIDE DEF d
<1>4. HasFalse(c) => HasFalse(d)
  <2> SUFFICES ASSUME NEW i \in 1..Len(c.outq), c.outq[i] = "false" PROVE HasFalse(d)
    BY DEF HasFalse
  <2>1. i \in 1..Len(c.outq) + Len(s) /\ i <= Len(c.outq)
    BY <1>1
  <2>2. i \in 1..Len(d.outq) /\ d.outq[i] = "false"
    BY <1>2, <1>3, <2>1
  <2> QED BY <2>2 DEF HasFalse
<1>5. (\E i \in 1..Len(s) : s[i] = "false") => HasFalse(d)
  <2> SUFFICES ASSUME NEW i \in 1..Len(s), s[i] = "false" PROVE HasFalse(d)
    OBVIOUS
  <2>1. /\ Len(c.outq) + i \in 1..Len(c.outq) + Len(s) /\ ~(Len(c.outq) + i <= Len(c.outq))
        /\ (Len(c.outq) + i) - Len(c.outq) = i
    BY <1>1
  <2>2. Len(c.outq) + i \in 1..Len(d.outq) /\ d.outq[Len(c.outq) + i] = "false"
    BY <1>2, <1>3, <2>1
  <2> QED BY <2>2 DEF HasFalse
<1>6. Adds(d, c)
  BY <1>3, <1>4 DEF Adds
<1> QED BY <1>5, <1>6 DEF d

\* The script ends, and what it returned is a message: false where it has an
\* error to tell.
LEMMA EndsFacts ==
    ASSUME NEW c \in CamType
    PROVE  /\ Ends(c) \in CamType /\ ~Ends(c).run /\ Ends(c).st = "none"
           /\ Ends(c).cap = c.cap /\ Ends(c).slow = c.slow /\ Ends(c).told = c.err
           /\ SameShots(Ends(c), c)
           /\ HasFalse(c) => HasFalse(Ends(c))
           /\ c.err => HasFalse(Ends(c))
<1> DEFINE s == IF c.err THEN <<"false", "text">> ELSE <<>>
           d == [c EXCEPT !.outq = @ \o s]
<1>1. s \in Seq({"user", "false", "text", "error"}) /\ (c.err => Len(s) = 2 /\ s[1] = "false")
  <2>1. CASE c.err
    <3>1. s = <<"false", "text">>
      BY <2>1
    <3> HIDE DEF s
    <3> QED BY <3>1
  <2>2. CASE ~c.err
    <3>1. s = <<>>
      BY <2>2
    <3> HIDE DEF s
    <3> QED BY <2>2, <3>1
  <2> QED BY <2>1, <2>2
<1>2. Adds(d, c) /\ ((\E i \in 1..Len(s) : s[i] = "false") => HasFalse(d))
  <2> HIDE DEF s
  <2> QED BY <1>1, OutFacts
<1>3. c.err => HasFalse(d)
  <2> SUFFICES ASSUME c.err PROVE HasFalse(d)
    OBVIOUS
  <2>1. 1 \in 1..Len(s) /\ s[1] = "false"
    BY <1>1
  <2> QED BY <1>2, <2>1
<1>4. Ends(c) = [d EXCEPT !.run = FALSE, !.st = "none", !.told = c.err]
  BY DEF Ends, CamType
<1> HIDE DEF d, s
<1>5. /\ Ends(c) \in CamType /\ ~Ends(c).run /\ Ends(c).st = "none"
      /\ Ends(c).cap = d.cap /\ Ends(c).slow = d.slow /\ Ends(c).told = c.err
      /\ Ends(c).inq = d.inq /\ Ends(c).next = d.next /\ Ends(c).data = d.data
      /\ Ends(c).outq = d.outq
  BY <1>2, <1>4 DEF CamType, Adds
<1> QED BY <1>2, <1>3, <1>5 DEF SameShots, HasFalse, Adds

\* What a step of the camera may do.
CamGoes(c) ==
    /\ c \in CamType
    /\ c.run => cam.run
    /\ c.cap => cam.cap
    /\ cam.slow => c.slow
    /\ c.st # "none" => c.run
    /\ HasFalse(cam) => HasFalse(c)
    /\ c.told => cam.told \/ (cam.run /\ HasFalse(c))
    /\ ~c.slow /\ OneOf(cam) => OneOf(c)

\* What the script may have made of the camera before it ends or goes on.
Within(c) ==
    /\ c \in CamType /\ c.run = cam.run /\ (c.cap => cam.cap) /\ c.st = cam.st
    /\ c.outq = cam.outq /\ c.told = cam.told
    /\ cam.slow => c.slow
    /\ ~c.slow /\ OneOf(cam) => OneOf(c)

\* The same shots are one shot at most again.
LEMMA SameOne == ASSUME NEW c, NEW d, SameShots(c, d), OneOf(d) PROVE OneOf(c)
  BY DEF SameShots, OneOf

\* It goes on.
LEMMA GoesOn ==
    ASSUME NEW c, Within(c), cam.st # "none" => cam.run PROVE CamGoes(c)
  BY DEF Within, CamGoes, HasFalse

\* It ends, with or without an error.
LEMMA GoesEnd ==
    ASSUME NEW c, Within(c), cam.st # "none", cam.run PROVE CamGoes(Ends(c)) /\ CamGoes(Gives(c))
<1>1. ASSUME NEW e \in BOOLEAN PROVE CamGoes(Ends([c EXCEPT !.err = e]))
  <2> DEFINE d == [c EXCEPT !.err = e]
  <2>1. /\ d \in CamType /\ d.cap = c.cap /\ d.slow = c.slow /\ d.outq = c.outq /\ d.err = e
        /\ SameShots(d, c)
    BY DEF Within, CamType, SameShots
  <2> HIDE DEF d
  <2>2. /\ Ends(d) \in CamType /\ ~Ends(d).run /\ Ends(d).st = "none"
        /\ Ends(d).cap = d.cap /\ Ends(d).slow = d.slow /\ Ends(d).told = e
        /\ SameShots(Ends(d), d)
        /\ HasFalse(d) => HasFalse(Ends(d))
        /\ e => HasFalse(Ends(d))
    BY <2>1, EndsFacts
  <2>3. HasFalse(cam) = HasFalse(d)
    BY <2>1 DEF HasFalse, Within
  <2>4. OneOf(c) => OneOf(Ends(d))
    BY <2>1, <2>2, SameOne
  <2>5. CamGoes(Ends(d))
    BY <2>1, <2>2, <2>3, <2>4 DEF CamGoes, Within
  <2> QED BY <2>5 DEF d
<1>2. c = [c EXCEPT !.err = c.err] /\ c.err \in BOOLEAN
  BY DEF Within, CamType
<1> QED BY <1>1, <1>2 DEF Gives

\* It answers.
LEMMA GoesSays ==
    ASSUME NEW c, Within(c), cam.st # "none" => cam.run PROVE CamGoes(Says(c)) /\ Says(c) \in CamType
<1> DEFINE s == <<"user">>
<1>1. s \in Seq({"user", "false", "text", "error"}) /\ c \in CamType
  <2>1. s \in Seq({"user", "false", "text", "error"})
    OBVIOUS
  <2> QED BY <2>1 DEF Within
<1> DEFINE d == [c EXCEPT !.outq = @ \o s]
<1>2. Says(c) = d
  <2>1. c.outq \in Seq({"user", "false", "text", "error"})
    BY <1>1 DEF CamType
  <2>2. Append(c.outq, "user") = c.outq \o s
    BY <2>1, AppendIsConcat
  <2> QED BY <2>2 DEF Says
<1>3. Adds(d, c)
  <2> HIDE DEF s
  <2> QED BY <1>1, OutFacts
<1> HIDE DEF d
<1>4. HasFalse(cam) = HasFalse(c)
  BY DEF HasFalse, Within
<1>5. OneOf(c) => OneOf(d)
  BY <1>3, SameOne DEF Adds
<1>6. CamGoes(d) /\ d \in CamType
  BY <1>3, <1>4, <1>5 DEF CamGoes, Within, Adds
<1> QED BY <1>2, <1>6

\* Every step of the camera.
LEMMA CameraGoes ==
    ASSUME RsintType, ScriptInv, Camera
    PROVE  /\ CamGoes(cam') /\ UNCHANGED <<cont, host, files, faults>>
           /\ host.pc \notin {"init", "exec"}
<1>1. UNCHANGED <<cont, host, files, faults>> /\ cam \in CamType /\ host \in HostType
  BY DEF Camera, CamFocuses, CamTakes, CamSeesOff, CamCancels, CamTimesOut, HookReady,
         HookGivesUp, CamContinues, CamSeesPassed, CamStep, RsintType
<1>2. cam.st # "none" \/ cam.data # None
  BY DEF Camera, CamFocuses, CamTakes, CamSeesOff, CamCancels, CamTimesOut, HookReady,
         HookGivesUp, CamContinues, CamSeesPassed
<1>3. host.pc \notin {"init", "exec"}
  <2>1. Off.st = "none" /\ Off.data = None
        /\ [Off EXCEPT !.cap = TRUE].st = "none" /\ [Off EXCEPT !.cap = TRUE].data = None
    BY DEF Off
  <2> QED BY <1>2, <2>1 DEF ScriptInv
<1>4. cam.st # "none" => cam.run
  BY DEF ScriptInv
<1>5. Within(cam)
  BY <1>1 DEF Within
<1>6. CASE CamFocuses
  <2>1. cam' = [cam EXCEPT !.st = "loop"] \/ cam' = Gives(cam)
    BY <1>6 DEF CamFocuses, CamStep
  <2>2. ASSUME cam' = [cam EXCEPT !.st = "loop"] PROVE CamGoes(cam')
    <3>1. /\ cam' \in CamType /\ cam'.run = cam.run /\ cam'.cap = cam.cap /\ cam'.slow = cam.slow
          /\ cam'.outq = cam.outq /\ cam'.told = cam.told /\ SameShots(cam', cam) /\ cam.run
      BY <1>1, <1>4, <1>6, <2>2 DEF CamType, SameShots, CamFocuses
    <3>2. OneOf(cam) => OneOf(cam')
      BY <3>1, SameOne
    <3> QED BY <3>1, <3>2 DEF CamGoes, HasFalse
  <2>3. CamGoes(Gives(cam))
    BY <1>4, <1>5, <1>6, GoesEnd DEF CamFocuses
  <2> QED BY <1>1, <1>3, <2>1, <2>2, <2>3
<1>7. CASE CamTakes
  <2> DEFINE c == [cam EXCEPT !.inq = Tail(@)]
             m == Head(cam.inq)
  <2>1. cam.st = "loop" /\ cam.inq # <<>> /\ cam.run
    BY <1>4, <1>7 DEF CamTakes
  <2>2. /\ c \in CamType /\ c.run = cam.run /\ c.cap = cam.cap /\ c.st = cam.st
        /\ c.slow = cam.slow /\ c.told = cam.told /\ c.outq = cam.outq /\ c.err = cam.err
        /\ c.hook = cam.hook /\ c.data = cam.data /\ c.next = cam.next
        /\ OneOf(cam) => OneOf(c)
        /\ OneOf(cam) /\ IsShot(m) => NoneOf(c) /\ Waiting
    BY <1>1, <2>1, TakeFacts
  <2>3. Within(c)
    BY <2>2 DEF Within
  <2>4. m \in {"s", "l"} => Within(Shot(c))
    BY <1>1, <2>2, ShotFacts DEF Within, IsShot
  <2>5. \/ cam' \in {Gives(c), Ends(c), Says(c)}
        \/ m \in {"s", "l"} /\ cam' \in {Shot(c), Ends(Shot(c)), [c EXCEPT !.next = TRUE]}
        \/ cam' = [Says(c) EXCEPT !.cap = FALSE, !.data = None]
        \/ cam' = [c EXCEPT !.run = FALSE, !.st = "none", !.outq = Append(@, "error")]
    BY <1>7 DEF CamTakes, CamStep
  <2> HIDE DEF c, m
  <2>6. CASE cam' \in {Gives(c), Ends(c), Says(c)}
    <3>1. CamGoes(Gives(c)) /\ CamGoes(Ends(c)) /\ CamGoes(Says(c))
      BY <2>1, <2>3, GoesEnd, GoesSays
    <3> QED BY <1>1, <1>3, <2>6, <3>1
  <2>7. CASE m \in {"s", "l"} /\ cam' \in {Shot(c), Ends(Shot(c)), [c EXCEPT !.next = TRUE]}
    <3>1. CamGoes(Shot(c)) /\ CamGoes(Ends(Shot(c)))
      BY <2>1, <2>4, <2>7, GoesEnd, GoesOn
    <3>2. ASSUME cam' = [c EXCEPT !.next = TRUE] PROVE CamGoes(cam')
      <4>1. /\ cam' \in CamType /\ cam'.run = c.run /\ cam'.cap = c.cap /\ cam'.st = c.st
            /\ cam'.slow = c.slow /\ cam'.outq = c.outq /\ cam'.told = c.told
            /\ cam'.inq = c.inq /\ cam'.data = c.data
        BY <2>2, <3>2 DEF CamType
      <4>2. OneOf(cam) => OneOf(cam')
        BY <2>2, <2>7, <4>1 DEF IsShot, NoneOf, OneOf
      <4>3. Within(cam')
        BY <2>2, <4>1, <4>2 DEF Within
      <4> QED BY <1>4, <4>3, GoesOn
    <3> QED BY <1>1, <1>3, <2>7, <3>1, <3>2
  <2>8. CASE cam' = [Says(c) EXCEPT !.cap = FALSE, !.data = None]
    <3> DEFINE d == Says(c)
    <3>1. CamGoes(d) /\ d \in CamType
      BY <1>4, <2>3, GoesSays
    <3> HIDE DEF d
    <3>2. cam' = [d EXCEPT !.cap = FALSE, !.data = None]
      BY <2>8 DEF d
    <3>3. /\ cam' \in CamType /\ cam'.run = d.run /\ ~cam'.cap /\ cam'.st = d.st
          /\ cam'.slow = d.slow /\ cam'.outq = d.outq /\ cam'.told = d.told
          /\ cam'.inq = d.inq /\ cam'.next = d.next /\ cam'.data = None
      BY <3>1, <3>2 DEF CamType
    <3>4. OneOf(d) => OneOf(cam')
      BY <3>3 DEF OneOf
    <3>5. CamGoes(cam')
      BY <3>1, <3>3, <3>4 DEF CamGoes, HasFalse
    <3> QED BY <1>1, <1>3, <3>5
  <2>9. CASE cam' = [c EXCEPT !.run = FALSE, !.st = "none", !.outq = Append(@, "error")]
    <3> DEFINE s == <<"error">>
               d == [c EXCEPT !.outq = @ \o s]
    <3>1. s \in Seq({"user", "false", "text", "error"})
      OBVIOUS
    <3>2. Append(c.outq, "error") = c.outq \o s
      <4>1. c.outq \in Seq({"user", "false", "text", "error"})
        BY <2>2 DEF CamType
      <4> QED BY <4>1, AppendIsConcat
    <3>3. Adds(d, c)
      <4> HIDE DEF s
      <4> QED BY <2>2, <3>1, OutFacts
    <3>4. cam' = [d EXCEPT !.run = FALSE, !.st = "none"]
      BY <2>9, <3>2
    <3> HIDE DEF d
    <3>5. /\ cam' \in CamType /\ ~cam'.run /\ cam'.cap = d.cap /\ cam'.st = "none"
          /\ cam'.slow = d.slow /\ cam'.outq = d.outq /\ cam'.told = d.told
          /\ SameShots(cam', d)
      BY <3>3, <3>4 DEF CamType, SameShots, Adds
    <3>6. OneOf(c) => OneOf(cam')
      BY <3>3, <3>5, SameOne DEF Adds
    <3>7. HasFalse(cam) => HasFalse(cam')
      BY <2>2, <3>3, <3>5 DEF HasFalse, Adds
    <3>8. CamGoes(cam')
      BY <2>2, <3>3, <3>5, <3>6, <3>7 DEF CamGoes, Adds
    <3> QED BY <1>1, <1>3, <3>8
  <2> QED BY <2>5, <2>6, <2>7, <2>8, <2>9
<1>8. CASE CamSeesOff \/ CamSeesPassed
  <2>1. cam' = Gives(cam) /\ cam.st # "none"
    BY <1>8 DEF CamSeesOff, CamSeesPassed, CamStep
  <2> QED BY <1>1, <1>3, <1>4, <1>5, <2>1, GoesEnd
<1>9. CASE CamCancels \/ CamTimesOut \/ HookReady
  <2>1. /\ cam' \in CamType /\ cam'.run = cam.run /\ (cam'.cap => cam.cap) /\ cam'.st = cam.st
        /\ cam'.slow = cam.slow /\ cam'.outq = cam.outq /\ cam'.told = cam.told
        /\ cam'.inq = cam.inq /\ cam'.next = cam.next /\ cam'.data \in {cam.data, None}
    BY <1>1, <1>9 DEF CamCancels, CamTimesOut, HookReady, CamStep, CamType
  <2>2. OneOf(cam) => OneOf(cam')
    BY <2>1 DEF OneOf
  <2>3. Within(cam')
    BY <2>1, <2>2 DEF Within
  <2> QED BY <1>1, <1>3, <1>4, <2>3, GoesOn
<1>10. CASE HookGivesUp \/ CamContinues
  <2> DEFINE c == Shot(cam)
  <2>1. /\ c \in CamType /\ c.run = cam.run /\ c.cap = cam.cap /\ c.st = cam.st
        /\ c.slow = cam.slow /\ c.told = cam.told /\ c.outq = cam.outq /\ c.inq = cam.inq
        /\ cam.data = None => c.data = host.n
    <3>1. cam.data = None => c.data = host.n
      BY <1>1 DEF Shot, CamType
    <3> HIDE DEF c
    <3> QED BY <1>1, <3>1, ShotFacts DEF c
  <2>2. \/ cam' = [c EXCEPT !.hook = "passed", !.slow = TRUE]
        \/ cam.next /\ cam' = [c EXCEPT !.hook = "no", !.next = FALSE]
    BY <1>10 DEF HookGivesUp, CamContinues, Continued, CamStep
  <2> HIDE DEF c
  <2>3. /\ cam' \in CamType /\ cam'.run = c.run /\ cam'.cap = c.cap /\ cam'.st = c.st
        /\ cam'.outq = c.outq /\ cam'.told = c.told /\ cam'.inq = c.inq /\ cam'.data = c.data
        /\ cam'.slow \/ (cam.next /\ cam'.slow = c.slow /\ ~cam'.next)
    BY <2>1, <2>2, ZenonT(40) DEF CamType
  <2>4. ~cam'.slow /\ OneOf(cam) => OneOf(cam')
    BY <2>1, <2>3 DEF OneOf
  <2>5. Within(cam')
    BY <2>1, <2>3, <2>4 DEF Within
  <2> QED BY <1>1, <1>3, <1>4, <2>5, GoesOn
<1> QED BY <1>6, <1>7, <1>8, <1>9, <1>10 DEF Camera

\* A step of the camera, or one that takes a message from it, keeps the
\* invariant of the session.
LEMMA CamOnly ==
    ASSUME RsintInv, CamGoes(cam'), UNCHANGED <<cont, host, files>>, faults' \in Nat,
           host.pc \notin {"init", "exec"}
    PROVE  RsintInv'
<1>1. /\ RsintType /\ ScriptInv /\ OneShot /\ Stored /\ FalseKept /\ LeavesClean /\ OwnShots
  BY DEF RsintInv
<1>3. RsintType'
  BY <1>1 DEF CamGoes, RsintType
<1>4. ScriptInv'
  BY <1>1 DEF CamGoes, ScriptInv
<1>5. OneShot'
  <2>1. OneOf(cam)' <=> OneOf(cam')
    BY DEF OneOf, Waiting
  <2> QED BY <1>1, <2>1 DEF CamGoes, OneShot, InLoop
<1>6. Stored' /\ LeavesClean'
  BY <1>1 DEF CamGoes, Stored, Waiting, LeavesClean, Done
<1>7. OwnShots'
  BY <1>1 DEF CamGoes, OwnShots
<1>8. FalseKept'
  BY <1>1 DEF CamGoes, FalseKept, HasFalse
<1> QED BY <1>3, <1>4, <1>5, <1>6, <1>7, <1>8 DEF RsintInv

\* Every step of the camera.
LEMMA CameraStep == ASSUME RsintInv, Camera PROVE RsintInv'
<1>1. RsintType /\ ScriptInv
  BY DEF RsintInv
<1>2. CamGoes(cam') /\ UNCHANGED <<cont, host, files, faults>> /\ host.pc \notin {"init", "exec"}
  BY <1>1, CameraGoes
<1>3. faults' \in Nat
  BY <1>1, <1>2 DEF RsintType
<1> QED BY <1>2, <1>3, CamOnly
-----------------------------------------------------------------------------
(***************************************************************************)
(* Steps of the host.                                                      *)
(***************************************************************************)
\* Out of the loop and without success, what is left to show is that what is
\* stored stays, and that the script has ended or is left behind knowingly.
LEMMA LoopLeft ==
    ASSUME RsintInv, RsintType', ScriptInv', ~InLoop', ~host'.ok, UNCHANGED files,
           cam.slow => cam'.slow, LeavesClean'
    PROVE  RsintInv'
BY DEF RsintInv, OneShot, Stored, FalseKept, OwnShots

\* The session is set up.
LEMMA RsInitStep == ASSUME RsintInv, RsInit PROVE RsintInv'
<1>1. /\ RsintType /\ ScriptInv /\ OneShot /\ Stored /\ FalseKept /\ LeavesClean /\ OwnShots
      /\ cam \in CamType /\ host \in HostType
  BY DEF RsintInv, RsintType
<1>2. host.pc = "init" /\ cam = Off /\ UNCHANGED <<cont, files>>
  BY <1>1 DEF RsInit, ScriptInv
<1>3. cam' = Off \/ cam' = [Off EXCEPT !.cap = TRUE]
  BY <1>2 DEF RsInit
<1>4. RsintType'
  <2>1. host' \in HostType
    BY <1>1, <1>2, ZenonT(40) DEF RsInit, HostType, Thrown, Lost, Places
  <2>2. cam' \in CamType
    <3>1. cam' \in {cam, [cam EXCEPT !.cap = TRUE]}
      BY DEF RsInit
    <3> QED BY <1>1, <3>1 DEF CamType
  <2>3. faults' \in Nat
    BY <1>1 DEF RsInit, Works, Fails, RsintType
  <2> QED BY <1>1, <1>2, <2>1, <2>2, <2>3 DEF RsintType
<1>5. ScriptInv'
  BY <1>1, <1>2, ZenonT(40) DEF RsInit, ScriptInv, Off, HostType, Thrown, Lost
<1>6. CASE host' = [host EXCEPT !.pc = "exec"] /\ cam' = [Off EXCEPT !.cap = TRUE]
  BY <1>1, <1>2, <1>4, <1>5, <1>6
     DEF RsintInv, OneShot, OneOf, Stored, Waiting, FalseKept, LeavesClean, OwnShots, Off, HostType,
         Done, HasFalse
<1>7. CASE ~(host' = [host EXCEPT !.pc = "exec"] /\ cam' = [Off EXCEPT !.cap = TRUE])
  <2>1. /\ host'.pc = "done" /\ ~host'.ok /\ (host'.threw \/ cam' = Off)
    BY <1>1, <1>2, <1>7 DEF RsInit, Thrown, Lost, HostType
  <2>2. ~cam.slow /\ (cam' = Off => ~cam'.cap /\ ~cam'.run)
    BY <1>2 DEF Off
  <2> QED BY <1>2, <1>4, <1>5, <2>1, <2>2, LoopLeft DEF InLoop, LeavesClean
<1> QED BY <1>6, <1>7

\* The fields of a host that has met an error.
LEMMA LostFacts ==
    ASSUME host \in HostType, NEW h \in HostType
    PROVE  Lost(h) = [h EXCEPT !.lost = host.pc] /\ Lost(h) \in HostType
<1>1. host.pc \in Places
  BY DEF HostType
<1>2. Lost(h) = [h EXCEPT !.lost = host.pc]
  BY DEF Lost
<1> HIDE DEF Places, Lost
<1> QED BY <1>1, <1>2 DEF HostType

\* The loop is left.
LEMMA CaughtFacts ==
    ASSUME NEW h \in HostType
    PROVE  /\ Caught(h) \in HostType /\ Caught(h).pc = "stop" /\ ~Caught(h).ok
           /\ Caught(h).n = h.n /\ Caught(h).at = h.at
<1>1. "stop" \in Places
  BY DEF Places
<1>2. Caught(h) = [h EXCEPT !.pc = "stop", !.ok = FALSE]
  BY DEF Caught
<1> QED BY <1>1, <1>2 DEF HostType

\* The session is left.
LEMMA ThrownFacts ==
    ASSUME NEW h \in HostType
    PROVE  /\ Thrown(h) \in HostType /\ Thrown(h).pc = "done" /\ ~Thrown(h).ok
           /\ Thrown(h).threw
<1>1. "done" \in Places
  BY DEF Places
<1>2. Thrown(h) = [h EXCEPT !.pc = "done", !.threw = TRUE, !.ok = FALSE]
  BY DEF Thrown
<1> QED BY <1>1, <1>2 DEF HostType

\* All of them.
LEMMA FailFacts ==
    ASSUME host \in HostType, NEW h \in HostType
    PROVE  /\ Lost(h) = [h EXCEPT !.lost = host.pc] /\ Lost(h) \in HostType
           /\ Caught(h) \in HostType /\ Caught(h).pc = "stop" /\ ~Caught(h).ok
           /\ Thrown(h) \in HostType /\ Thrown(h).pc = "done" /\ ~Thrown(h).ok
           /\ Thrown(h).threw
BY LostFacts, CaughtFacts, ThrownFacts

\* An error ends the loop or the session.
LEMMA Broken ==
    ASSUME RsintInv, host' \in HostType, ~host'.ok, UNCHANGED <<cont, files>>,
           host'.pc = "stop" \/ (host'.pc = "done" /\ host'.threw),
           cam' \in CamType, cam.slow => cam'.slow, cam'.st # "none" => cam'.run,
           faults' \in Nat
    PROVE  RsintInv'
<1>1. RsintType'
  BY DEF RsintInv, RsintType
<1>2. ScriptInv'
  BY DEF ScriptInv
<1>3. ~InLoop' /\ LeavesClean'
  BY DEF InLoop, LeavesClean, Done
<1> QED BY <1>1, <1>2, <1>3, LoopLeft

\* The calls that are lost are counted.
LEMMA FaultsNat == ASSUME RsintType, Works \/ Fails PROVE faults' \in Nat
  BY DEF RsintType, Works, Fails

\* The script is started.
LEMMA ExecStep == ASSUME RsintInv, Exec PROVE RsintInv'
<1>1. /\ RsintType /\ ScriptInv /\ OneShot /\ Stored /\ FalseKept /\ LeavesClean /\ OwnShots
      /\ cam \in CamType /\ host \in HostType
  BY DEF RsintInv, RsintType
<1>2. host.pc = "exec" /\ cam = [Off EXCEPT !.cap = TRUE] /\ UNCHANGED <<cont, files>>
  BY <1>1 DEF Exec, ScriptInv
<1> DEFINE started == [cam EXCEPT !.run = TRUE, !.st = "start"]
<1>3. /\ started \in CamType /\ started.run /\ ~started.slow /\ ~started.told
      /\ started.inq = <<>> /\ ~started.next /\ started.data = None
      /\ ~cam.slow /\ cam.st = "none"
  BY <1>1, <1>2, ZenonT(40) DEF CamType, Off
<1>4. \/ cam' = started /\ host' = [host EXCEPT !.pc = "prompt"]
      \/ cam' \in {cam, started} /\ host' = Thrown(Lost(host))
  BY DEF Exec
<1>5. faults' \in Nat
  BY <1>1, FaultsNat DEF Exec
<1> HIDE DEF started
<1>6. CASE cam' = started /\ host' = [host EXCEPT !.pc = "prompt"]
  <2>1. /\ host' \in HostType /\ host'.pc = "prompt" /\ host'.n = host.n
        /\ host'.ok = host.ok
    BY <1>1, <1>6 DEF HostType, Places
  <2>2. RsintType' /\ ScriptInv' /\ LeavesClean' /\ OwnShots'
    BY <1>1, <1>2, <1>3, <1>5, <1>6, <2>1 DEF RsintType, ScriptInv, LeavesClean, Done, OwnShots
  <2>3. OneOf(cam)'
    BY <1>3, <1>6 DEF OneOf
  <2>4. Stored'
    BY <1>1, <1>2, <2>1 DEF Stored, Waiting
  <2>5. FalseKept'
    BY <1>3, <1>6, <2>1 DEF FalseKept
  <2> QED BY <2>2, <2>3, <2>4, <2>5 DEF RsintInv, OneShot
<1>7. CASE cam' \in {cam, started} /\ host' = Thrown(Lost(host))
  <2>1. host' \in HostType /\ ~host'.ok /\ host'.pc = "done" /\ host'.threw
    BY <1>1, <1>7, FailFacts
  <2>2. cam' \in CamType /\ (cam'.st # "none" => cam'.run)
    BY <1>1, <1>3, <1>7
  <2> QED BY <1>2, <1>3, <1>5, <2>1, <2>2, Broken
<1> QED BY <1>4, <1>6, <1>7

\* A step that touches neither the camera nor what is stored, and leaves the
\* host waiting or not as it was.
LEMMA HostOnly ==
    ASSUME RsintInv, UNCHANGED <<cont, cam, files>>, faults' \in Nat, host' \in HostType,
           host.pc \notin {"init", "exec"}, host'.pc \notin {"init", "exec", "done"},
           host'.pc = "read" => host'.at # "none", host'.pc = "get" => ~host'.got,
           host'.n = host.n, Waiting' = Waiting, InLoop' => InLoop,
           host'.ok => host.ok /\ FalseKept' /\ host'.pc \notin {"stop", "stopping"}
    PROVE  RsintInv'
<1>1. /\ RsintType /\ ScriptInv /\ OneShot /\ Stored /\ OwnShots
  BY DEF RsintInv
<1>2. RsintType'
  BY <1>1 DEF RsintType
<1>3. ScriptInv'
  BY <1>1 DEF ScriptInv
<1>4. OneShot'
  BY <1>1 DEF OneShot, OneOf
<1>5. Stored' /\ OwnShots' /\ LeavesClean'
  BY <1>1 DEF Stored, OwnShots, LeavesClean, Done
<1>6. FalseKept'
  BY DEF FalseKept
<1> QED BY <1>2, <1>3, <1>4, <1>5, <1>6 DEF RsintInv

\* A line is typed.
LEMMA PromptStep == ASSUME RsintInv, Prompt PROVE RsintInv'
<1>1. /\ RsintType /\ FalseKept /\ host \in HostType /\ faults' \in Nat
  BY DEF RsintInv, RsintType, Prompt
<1>2. /\ host' \in HostType /\ host.pc = "prompt" /\ host'.pc = "status"
      /\ host'.n = host.n /\ host'.ok = host.ok
      /\ UNCHANGED <<cont, cam, files>>
  <2>1. host.pc = "prompt" /\ UNCHANGED <<cont, cam, files>>
    BY DEF Prompt
  <2>2. "status" \in Places /\ host.typed \in Nat /\ host.typed + 1 \in Nat
    BY <1>1 DEF HostType, Places
  <2>3. PICK c \in Cmds, t \in Nat : host' = [host EXCEPT !.pc = "status", !.cmd = c, !.typed = t]
    <3>1. CASE \E cmd \in Typed : host' = [host EXCEPT !.pc = "status", !.cmd = cmd, !.typed = @ + 1]
      <4>1. PICK c \in Typed : host' = [host EXCEPT !.pc = "status", !.cmd = c, !.typed = @ + 1]
        BY <3>1
      <4>2. host' = [host EXCEPT !.pc = "status", !.cmd = c, !.typed = host.typed + 1]
        BY <4>1
      <4> QED BY <2>2, <4>2 DEF Cmds
    <3>2. CASE host' = [host EXCEPT !.pc = "status", !.cmd = IF cont THEN "l" ELSE "q"]
      <4>1. host = [host EXCEPT !.typed = host.typed]
        BY <1>1 DEF HostType
      <4>2. (IF cont THEN "l" ELSE "q") \in Cmds
        BY DEF Cmds
      <4>3. host' = [host EXCEPT !.pc = "status", !.cmd = IF cont THEN "l" ELSE "q",
                                 !.typed = host.typed]
        BY <1>1, <3>2 DEF HostType
      <4> QED BY <2>2, <4>2, <4>3
    <3> QED BY <3>1, <3>2 DEF Prompt
  <2> HIDE DEF Places
  <2>4. /\ host' \in HostType /\ host'.pc = "status" /\ host'.n = host.n /\ host'.ok = host.ok
    BY <1>1, <2>2, <2>3 DEF HostType
  <2> QED BY <2>1, <2>4
<1>3. host'.ok => FalseKept'
  BY <1>1, <1>2 DEF FalseKept
<1>4. Waiting' = Waiting /\ InLoop /\ InLoop'
  BY <1>2 DEF Waiting, InLoop
<1> QED BY <1>1, <1>2, <1>3, <1>4, HostOnly

\* The path of the files is set.
LEMMA SetPathStep == ASSUME RsintInv, SetPath PROVE RsintInv'
<1>1. /\ RsintType /\ ScriptInv /\ FalseKept /\ host \in HostType /\ cam \in CamType
      /\ faults' \in Nat
  BY DEF RsintInv, RsintType, SetPath
<1>2. /\ host.pc = "write" /\ UNCHANGED <<cont, cam, files>>
      /\ host' \in {Caught(host), [host EXCEPT !.pc = "prompt"]}
  BY DEF SetPath
<1>3. CASE host' = Caught(host)
  <2>1. host' \in HostType /\ host'.pc = "stop" /\ ~host'.ok
    BY <1>1, <1>3, FailFacts
  <2> QED BY <1>1, <1>2, <2>1, Broken DEF ScriptInv
<1>4. CASE host' = [host EXCEPT !.pc = "prompt"]
  <2>1. host' \in HostType /\ host'.pc = "prompt" /\ host'.n = host.n /\ host'.ok = host.ok
    BY <1>1, <1>4 DEF HostType, Places
  <2>2. host'.ok => FalseKept'
    BY <1>1, <1>2, <2>1 DEF FalseKept
  <2>3. Waiting' = Waiting /\ InLoop
    BY <1>2, <2>1 DEF Waiting, InLoop
  <2> QED BY <1>1, <1>2, <2>1, <2>2, <2>3, HostOnly
<1> QED BY <1>2, <1>3, <1>4

\* Where the host goes on after the messages.
LEMMA OnwardFacts ==
    ASSUME NEW h \in HostType, h.at # "none"
    PROVE  /\ Onward(h) \in {"final", "write", "prompt", "get", "cleanup"}
           /\ Onward(h) = "write" => h.run
           /\ Onward(h) = "get" <=> h.at = "get" /\ ~h.got
           /\ Onward(h) = "cleanup" <=> h.at = "final"
           /\ [h EXCEPT !.pc = Onward(h)] \in HostType
<1>1. h.at \in {"status", "wait", "get", "final"} /\ h.run \in BOOLEAN /\ h.got \in BOOLEAN
  BY DEF HostType
<1>2. CASE h.at = "status"
  <2>1. Onward(h) = IF h.run THEN "write" ELSE "final"
    BY <1>1, <1>2 DEF Onward
  <2> QED BY <1>2, <2>1 DEF HostType, Places
<1>3. CASE h.at = "wait"
  <2>1. Onward(h) = IF ~h.run \/ (h.cmd = "q" /\ ~cont) THEN "final" ELSE "prompt"
    BY <1>3 DEF Onward
  <2> QED BY <1>3, <2>1 DEF HostType, Places
<1>4. CASE h.at = "get"
  <2>1. Onward(h) = IF ~h.got THEN "get" ELSE IF h.cmd = "l" THEN "final" ELSE "prompt"
    BY <1>4 DEF Onward
  <2> QED BY <1>4, <2>1 DEF HostType, Places
<1>5. CASE h.at = "final"
  <2>1. Onward(h) = "cleanup"
    BY <1>5 DEF Onward
  <2> QED BY <1>5, <2>1 DEF HostType, Places
<1> QED BY <1>1, <1>2, <1>3, <1>4, <1>5

\* A status is had of the script.
LEMMA AskedFacts ==
    ASSUME host \in HostType, cam \in CamType, NEW at \in {"status", "wait", "final"}
    PROVE  /\ Asked(at) \in HostType /\ Asked(at).at = at /\ Asked(at).run = cam.run
           /\ Asked(at).n = host.n /\ Asked(at).ok = host.ok /\ Asked(at).lost = host.lost
           /\ Asked(at).pc \in {"read", "final", "write", "prompt", "cleanup"}
           /\ Asked(at).pc = "write" => cam.run
           /\ Asked(at).pc = "cleanup" => at = "final" /\ cam.outq = <<>>
           /\ at = "final" => Asked(at).pc \in {"read", "cleanup"}
<1> DEFINE h == [host EXCEPT !.at = at, !.run = cam.run]
<1>1. cam.run \in BOOLEAN
  BY DEF CamType
<1>2. /\ h \in HostType /\ h.at = at /\ h.run = cam.run /\ h.n = host.n /\ h.ok = host.ok
      /\ h.lost = host.lost
  BY <1>1 DEF HostType
<1>3. Asked(at) = [h EXCEPT !.pc = IF cam.outq # <<>> THEN "read" ELSE Onward(h)]
  BY DEF Asked
<1> HIDE DEF h
<1>4. CASE cam.outq # <<>>
  <2>1. Asked(at) = [h EXCEPT !.pc = "read"]
    BY <1>3, <1>4
  <2> QED BY <1>2, <2>1 DEF HostType, Places
<1>5. CASE cam.outq = <<>>
  <2>1. Asked(at) = [h EXCEPT !.pc = Onward(h)]
    BY <1>3, <1>5
  <2>2. /\ Onward(h) \in {"final", "write", "prompt", "get", "cleanup"}
        /\ Onward(h) = "write" => h.run
        /\ Onward(h) = "get" <=> h.at = "get" /\ ~h.got
        /\ Onward(h) = "cleanup" <=> h.at = "final"
        /\ Asked(at) \in HostType
    BY <1>2, <2>1, OnwardFacts
  <2>3. /\ Asked(at).pc = Onward(h) /\ Asked(at).at = h.at /\ Asked(at).run = h.run
        /\ Asked(at).n = h.n /\ Asked(at).ok = h.ok /\ Asked(at).lost = h.lost
    BY <1>2, <2>1 DEF HostType
  <2> QED BY <1>2, <1>5, <2>2, <2>3
<1> QED BY <1>4, <1>5

\* The script is asked before and after a command.
LEMMA AsksStep == ASSUME RsintInv, Asks PROVE RsintInv'
<1>1. /\ RsintType /\ ScriptInv /\ FalseKept /\ Stored /\ host \in HostType /\ cam \in CamType
  BY DEF RsintInv, RsintType
<1>2. host.pc \in {"status", "wait"} /\ UNCHANGED <<cont, cam, files>> /\ faults' \in Nat
  <2>1. faults' \in Nat
    BY <1>1, FaultsNat DEF Asks
  <2> QED BY <2>1 DEF Asks
<1>3. CASE host' = Asked(host.pc)
  <2>1. /\ host' \in HostType /\ host'.at = host.pc /\ host'.run = cam.run
        /\ host'.n = host.n /\ host'.ok = host.ok
        /\ host'.pc \in {"read", "final", "write", "prompt", "cleanup"}
        /\ host'.pc = "write" => cam.run
        /\ host'.pc = "cleanup" => host.pc = "final"
    BY <1>1, <1>2, <1>3, AskedFacts
  <2>2. Waiting' = Waiting /\ InLoop
    BY <1>2, <2>1 DEF Waiting, InLoop
  <2>3. host'.ok => FalseKept'
    BY <1>1, <1>2, <2>1 DEF FalseKept
  <2> QED BY <1>1, <1>2, <2>1, <2>2, <2>3, HostOnly
<1>4. CASE host' = Caught(Lost(host))
  <2>1. host' \in HostType /\ host'.pc = "stop" /\ ~host'.ok
    BY <1>1, <1>4, FailFacts
  <2> QED BY <1>1, <1>2, <2>1, Broken DEF ScriptInv
<1> QED BY <1>3, <1>4 DEF Asks

\* The last wait for the end of the script.
LEMMA FinalStep == ASSUME RsintInv, Final PROVE RsintInv'
<1>1. /\ RsintType /\ ScriptInv /\ FalseKept /\ Stored /\ OwnShots
      /\ host \in HostType /\ cam \in CamType
  BY DEF RsintInv, RsintType
<1>2. host.pc = "final" /\ UNCHANGED <<cont, cam, files>> /\ faults' \in Nat
  <2>1. faults' \in Nat
    BY <1>1, FaultsNat DEF Final
  <2> QED BY <2>1 DEF Final
<1>3. ~Waiting /\ ~InLoop
  BY <1>2 DEF Waiting, InLoop
<1>4. CASE host' = Asked("final")
  <2>1. /\ host' \in HostType /\ host'.at = "final" /\ host'.run = cam.run
        /\ host'.n = host.n /\ host'.ok = host.ok /\ host'.pc \in {"read", "cleanup"}
        /\ host'.pc = "cleanup" => cam.outq = <<>>
    BY <1>1, <1>4, AskedFacts
  <2>2. Waiting' = Waiting /\ ~InLoop'
    BY <1>2, <2>1 DEF Waiting, InLoop
  <2>3. cam.outq = <<>> => ~HasFalse(cam)
    BY DEF HasFalse
  <2>4. host'.ok => FalseKept'
    <3>1. HasFalse(cam)' <=> HasFalse(cam)
      BY <1>2 DEF HasFalse
    <3> QED BY <1>1, <1>2, <2>1, <2>3, <3>1 DEF FalseKept
  <2> QED BY <1>2, <2>1, <2>2, <2>4, HostOnly
<1>5. CASE host' = [host EXCEPT !.pc = "done", !.lost = "connection"]
  <2>1. /\ host' \in HostType /\ host'.pc = "done" /\ host'.lost = "connection"
        /\ host'.n = host.n /\ host'.ok = host.ok
    BY <1>1, <1>5 DEF HostType, Places
  <2>2. RsintType' /\ ScriptInv' /\ OneShot' /\ LeavesClean' /\ OwnShots' /\ FalseKept'
    BY <1>1, <1>2, <2>1
       DEF RsintType, ScriptInv, OneShot, InLoop, LeavesClean, OwnShots, FalseKept
  <2>3. Stored'
    BY <1>1, <1>2, <1>3, <2>1 DEF Stored, Waiting
  <2> QED BY <2>2, <2>3 DEF RsintInv
<1>6. CASE host' = [Lost(host) EXCEPT !.at = "final", !.pc = "read"]
  <2>1. /\ host' \in HostType /\ host'.pc = "read" /\ host'.at = "final"
        /\ host'.n = host.n /\ host'.ok = host.ok /\ host'.run = host.run
    <3> DEFINE h == Lost(host)
    <3>1. h = [host EXCEPT !.lost = host.pc] /\ h \in HostType
      BY <1>1, FailFacts
    <3>2. h.n = host.n /\ h.ok = host.ok /\ h.run = host.run
      BY <1>1, <3>1 DEF HostType
    <3>3. host' = [h EXCEPT !.at = "final", !.pc = "read"]
      BY <1>6
    <3> HIDE DEF h
    <3>4. /\ host' \in HostType /\ host'.pc = "read" /\ host'.at = "final"
          /\ host'.n = h.n /\ host'.ok = h.ok /\ host'.run = h.run
      BY <3>1, <3>3, ZenonT(40) DEF HostType, Places
    <3> QED BY <3>2, <3>4
  <2>2. Waiting' = Waiting /\ ~InLoop'
    BY <1>2, <2>1 DEF Waiting, InLoop
  <2>3. host'.ok => FalseKept'
    BY <1>1, <1>2, <2>1 DEF FalseKept
  <2> QED BY <1>2, <2>1, <2>2, <2>3, HostOnly
<1> QED BY <1>4, <1>5, <1>6 DEF Final

\* A message is taken from the script.
LEMMA TakenFacts ==
    ASSUME cam \in CamType, ScriptInv, cam.outq # <<>>, cam' = [cam EXCEPT !.outq = Tail(@)]
    PROVE  /\ cam' \in CamType /\ (cam.slow => cam'.slow) /\ (cam'.st # "none" => cam'.run)
           /\ Head(cam.outq) # "false" => CamGoes(cam')
<1>1. /\ cam.outq \in Seq({"user", "false", "text", "error"}) /\ Len(cam.outq) \in Nat
      /\ Len(cam.outq) # 0
  BY LenProperties, EmptySeq DEF CamType
<1>2. /\ Head(cam.outq) = cam.outq[1] /\ Tail(cam.outq) \in Seq({"user", "false", "text", "error"})
      /\ Len(Tail(cam.outq)) = Len(cam.outq) - 1
      /\ \A i \in 1..Len(Tail(cam.outq)) : Tail(cam.outq)[i] = cam.outq[i + 1]
  BY <1>1, HeadTailProperties
<1>3. /\ cam' \in CamType /\ cam'.run = cam.run /\ cam'.cap = cam.cap /\ cam'.st = cam.st
      /\ cam'.slow = cam.slow /\ cam'.told = cam.told /\ SameShots(cam', cam)
      /\ cam'.outq = Tail(cam.outq)
  BY <1>2 DEF CamType, SameShots
<1>4. OneOf(cam) => OneOf(cam')
  BY <1>3, SameOne
<1>5. ASSUME Head(cam.outq) # "false", HasFalse(cam) PROVE HasFalse(cam')
  <2>1. PICK i \in 1..Len(cam.outq) : cam.outq[i] = "false"
    BY <1>5 DEF HasFalse
  <2>2. i # 1
    BY <1>2, <1>5, <2>1
  <2>3. i - 1 \in 1..Len(Tail(cam.outq)) /\ (i - 1) + 1 = i
    BY <1>1, <1>2, <2>2
  <2>4. i - 1 \in 1..Len(cam'.outq) /\ cam'.outq[i - 1] = "false"
    BY <1>2, <1>3, <2>1, <2>3
  <2> QED BY <2>4 DEF HasFalse
<1>6. cam.st # "none" => cam.run
  BY DEF ScriptInv
<1> QED BY <1>3, <1>4, <1>5, <1>6 DEF CamGoes

\* An error in reading ends the loop, or in the end the session.
LEMMA RaisedFacts ==
    ASSUME NEW h \in HostType
    PROVE  /\ Raised(h) \in HostType /\ ~Raised(h).ok
           /\ Raised(h).pc = "stop" \/ (Raised(h).pc = "done" /\ Raised(h).threw)
<1>1. Raised(h) = Thrown(h) \/ Raised(h) = Caught(h)
  BY DEF Raised
<1> QED BY <1>1, ThrownFacts, CaughtFacts

\* The messages are read.
LEMMA ReadStep == ASSUME RsintInv, Read PROVE RsintInv'
<1>1. /\ RsintType /\ ScriptInv /\ FalseKept /\ host \in HostType /\ cam \in CamType
  BY DEF RsintInv, RsintType
<1>2. host.pc = "read" /\ UNCHANGED <<cont, files>> /\ faults' \in Nat /\ host.at # "none"
  <2>1. faults' \in Nat
    BY <1>1, FaultsNat DEF Read
  <2> QED BY <1>1, <2>1 DEF Read, ScriptInv
<1>3. \/ /\ cam.outq = <<>> /\ host' = [host EXCEPT !.pc = Onward(host)] /\ UNCHANGED cam
      \/ /\ cam.outq # <<>> /\ cam' = [cam EXCEPT !.outq = Tail(@)]
         /\ Head(cam.outq) # "false" /\ host' = host
      \/ /\ host' \in {Raised(host), Raised(Lost(host))}
         /\ cam' = cam \/ (cam.outq # <<>> /\ cam' = [cam EXCEPT !.outq = Tail(@)])
  BY DEF Read, Unhandled
<1>4. CASE cam.outq = <<>> /\ host' = [host EXCEPT !.pc = Onward(host)] /\ UNCHANGED cam
  <2>1. /\ Onward(host) \in {"final", "write", "prompt", "get", "cleanup"}
        /\ Onward(host) = "write" => host.run
        /\ Onward(host) = "get" <=> host.at = "get" /\ ~host.got
        /\ Onward(host) = "cleanup" <=> host.at = "final"
        /\ host' \in HostType
    BY <1>1, <1>2, <1>4, OnwardFacts
  <2>2. /\ host'.pc = Onward(host) /\ host'.at = host.at /\ host'.run = host.run
        /\ host'.n = host.n /\ host'.ok = host.ok /\ host'.got = host.got
    BY <1>1, <1>4 DEF HostType
  <2>3. Waiting' = Waiting /\ (InLoop' => InLoop)
    BY <1>2, <2>1, <2>2 DEF Waiting, InLoop
  <2>4. ~HasFalse(cam)
    BY <1>4 DEF HasFalse
  <2>5. host'.ok => FalseKept'
    BY <1>1, <1>2, <1>4, <2>1, <2>2, <2>4 DEF FalseKept
  <2> QED BY <1>2, <1>4, <2>1, <2>2, <2>3, <2>5, HostOnly
<1>5. CASE /\ cam.outq # <<>> /\ cam' = [cam EXCEPT !.outq = Tail(@)]
           /\ Head(cam.outq) # "false" /\ host' = host
  <2>1. CamGoes(cam')
    BY <1>1, <1>5, TakenFacts
  <2> QED BY <1>2, <1>5, <2>1, CamOnly
<1>6. CASE /\ host' \in {Raised(host), Raised(Lost(host))}
           /\ cam' = cam \/ (cam.outq # <<>> /\ cam' = [cam EXCEPT !.outq = Tail(@)])
  <2>1. Lost(host) \in HostType
    BY <1>1, LostFacts
  <2>2. /\ host' \in HostType /\ ~host'.ok
        /\ host'.pc = "stop" \/ (host'.pc = "done" /\ host'.threw)
    BY <1>1, <1>6, <2>1, RaisedFacts
  <2>3. cam' \in CamType /\ (cam.slow => cam'.slow) /\ (cam'.st # "none" => cam'.run)
    <3>1. cam' = cam => (cam'.st # "none" => cam'.run)
      BY <1>1 DEF ScriptInv
    <3> QED BY <1>1, <1>6, <3>1, TakenFacts
  <2> QED BY <1>2, <2>2, <2>3, Broken
<1> QED BY <1>3, <1>4, <1>5, <1>6

\* A message is put behind those the script has not taken.
LEMMA WrittenFacts ==
    ASSUME cam \in CamType, NEW m \in Cmds \cup {"off"}
    PROVE  /\ Written(m) \in CamType /\ Written(m).run = cam.run /\ Written(m).cap = cam.cap
           /\ Written(m).st = cam.st /\ Written(m).slow = cam.slow /\ Written(m).told = cam.told
           /\ Written(m).outq = cam.outq /\ Written(m).next = cam.next
           /\ Written(m).data = cam.data /\ Written(m).inq = Append(cam.inq, m)
           /\ Len(Written(m).inq) = Len(cam.inq) + 1 /\ Len(cam.inq) \in Nat
           /\ Written(m).inq[Len(cam.inq) + 1] = m
           /\ \A i \in 1..Len(cam.inq) : Written(m).inq[i] = cam.inq[i]
<1>1. cam.inq \in Seq(Cmds \cup {"off"}) /\ Len(cam.inq) \in Nat
  BY LenProperties DEF CamType
<1>2. /\ Append(cam.inq, m) \in Seq(Cmds \cup {"off"})
      /\ Len(Append(cam.inq, m)) = Len(cam.inq) + 1
      /\ \A i \in 1..Len(cam.inq) : Append(cam.inq, m)[i] = cam.inq[i]
      /\ Append(cam.inq, m)[Len(cam.inq) + 1] = m
  BY <1>1, AppendProperties
<1>3. /\ Written(m) \in CamType /\ Written(m).run = cam.run /\ Written(m).cap = cam.cap
      /\ Written(m).st = cam.st /\ Written(m).slow = cam.slow /\ Written(m).told = cam.told
      /\ Written(m).outq = cam.outq /\ Written(m).next = cam.next
      /\ Written(m).data = cam.data /\ Written(m).inq = Append(cam.inq, m)
  BY <1>2 DEF Written, CamType
<1> QED BY <1>1, <1>2, <1>3

\* A command is written; a shot is asked for.
LEMMA WriteStep == ASSUME RsintInv, Write PROVE RsintInv'
<1>1. /\ RsintType /\ ScriptInv /\ OneShot /\ Stored /\ FalseKept /\ OwnShots
      /\ host \in HostType /\ cam \in CamType
  BY DEF RsintInv, RsintType
<1>2. host.pc = "write" /\ UNCHANGED <<cont, files>> /\ faults' \in Nat
  <2>1. faults' \in Nat
    BY <1>1, FaultsNat DEF Write
  <2> QED BY <2>1 DEF Write
<1> DEFINE m == host.cmd
           d == Written(m)
<1>3. m \in Cmds \cup {"off"}
  BY <1>1 DEF HostType
<1>4. /\ d \in CamType /\ d.run = cam.run /\ d.st = cam.st /\ d.slow = cam.slow
      /\ d.told = cam.told /\ d.outq = cam.outq /\ d.next = cam.next /\ d.data = cam.data
      /\ Len(d.inq) = Len(cam.inq) + 1 /\ Len(cam.inq) \in Nat
      /\ d.inq[Len(cam.inq) + 1] = m
      /\ \A i \in 1..Len(cam.inq) : d.inq[i] = cam.inq[i]
  <2> HIDE DEF m
  <2> QED BY <1>1, <1>3, WrittenFacts
<1>5. \/ /\ cam' = d
         /\ host' = IF IsShot(m) THEN [host EXCEPT !.pc = "get", !.n = @ + 1, !.got = FALSE]
                    ELSE [host EXCEPT !.pc = "wait"]
      \/ cam' \in {cam, d} /\ host' \in {Caught(host), Caught(Lost(host))}
  BY DEF Write, IsShot
<1> HIDE DEF m, d
<1>6. ~Waiting /\ InLoop
  BY <1>2 DEF Waiting, InLoop
<1>7. ~cam.slow => NoneOf(cam)
  BY <1>1, <1>6 DEF OneShot, OneOf, NoneOf
<1>8. CASE /\ cam' = d
           /\ host' = IF IsShot(m) THEN [host EXCEPT !.pc = "get", !.n = @ + 1, !.got = FALSE]
                      ELSE [host EXCEPT !.pc = "wait"]
  <2>1. host.n \in Nat /\ host.n + 1 \in Nat
    BY <1>1 DEF HostType
  <2>2. /\ host' \in HostType /\ host'.ok = host.ok /\ host'.run = host.run
        /\ IsShot(m) => host'.pc = "get" /\ host'.n = host.n + 1 /\ ~host'.got
        /\ ~IsShot(m) => host'.pc = "wait" /\ host'.n = host.n
    <3>1. CASE IsShot(m)
      <4>1. host' = [host EXCEPT !.pc = "get", !.n = host.n + 1, !.got = FALSE]
        BY <1>8, <3>1
      <4>2. "get" \in Places
        BY DEF Places
      <4> HIDE DEF Places
      <4>3. /\ host' \in HostType /\ host'.ok = host.ok /\ host'.run = host.run
            /\ host'.pc = "get" /\ host'.n = host.n + 1 /\ ~host'.got
        BY <1>1, <2>1, <4>1, <4>2 DEF HostType
      <4> QED BY <3>1, <4>3
    <3>2. CASE ~IsShot(m)
      <4>1. host' = [host EXCEPT !.pc = "wait"]
        BY <1>8, <3>2
      <4>2. "wait" \in Places
        BY DEF Places
      <4> HIDE DEF Places
      <4>3. /\ host' \in HostType /\ host'.ok = host.ok /\ host'.run = host.run
            /\ host'.pc = "wait" /\ host'.n = host.n
        BY <1>1, <4>1, <4>2 DEF HostType
      <4> QED BY <3>2, <4>3
    <3> QED BY <3>1, <3>2
  <2>3. Waiting' = IsShot(m)
    BY <2>2 DEF Waiting, IsShot
  <2>4. RsintType'
    BY <1>1, <1>2, <1>4, <1>8, <2>2 DEF RsintType
  <2>5. ScriptInv'
    BY <1>1, <1>4, <1>8, <2>2 DEF ScriptInv
  <2>6. OneShot'
    <3> SUFFICES ASSUME ~cam.slow PROVE OneOf(cam)'
      BY <1>4, <1>8 DEF OneShot
    <3>1. ASSUME NEW i \in 1..Len(d.inq), IsShot(d.inq[i])
          PROVE  IsShot(m) /\ i = Len(d.inq)
      <4>1. i \notin 1..Len(cam.inq)
        BY <1>4, <1>7, <3>1 DEF NoneOf
      <4>2. i = Len(cam.inq) + 1
        BY <1>4, <4>1
      <4> QED BY <1>4, <3>1, <4>2
    <3>2. ~d.next /\ d.data = None
      BY <1>4, <1>7 DEF NoneOf
    <3> QED BY <1>8, <2>3, <3>1, <3>2 DEF OneOf
  <2>7. Stored'
    <3>1. host.ok => host.n = Len(files) + 0
      BY <1>1, <1>6 DEF Stored
    <3>2. Len(files) \in Nat
      BY <1>1, LenProperties DEF RsintType
    <3>3. host'.ok => host'.n = Len(files) + (IF IsShot(m) THEN 1 ELSE 0)
      BY <2>1, <2>2, <3>1, <3>2
    <3>4. host'.pc \notin {"stop", "stopping"}
      BY <2>2
    <3> QED BY <1>2, <2>3, <3>3, <3>4 DEF Stored
  <2>8. FalseKept'
    <3>1. HasFalse(cam)' <=> HasFalse(cam)
      BY <1>4, <1>8 DEF HasFalse
    <3> QED BY <1>1, <1>2, <1>4, <1>8, <2>2, <3>1 DEF FalseKept
  <2>9. LeavesClean' /\ OwnShots'
    BY <1>1, <1>2, <1>4, <1>8, <2>2 DEF LeavesClean, Done, OwnShots
  <2> QED BY <2>4, <2>5, <2>6, <2>7, <2>8, <2>9 DEF RsintInv
<1>9. CASE cam' \in {cam, d} /\ host' \in {Caught(host), Caught(Lost(host))}
  <2>1. host' \in HostType /\ host'.pc = "stop" /\ ~host'.ok
    BY <1>1, <1>9, CaughtFacts, LostFacts
  <2>2. cam' \in CamType /\ (cam.slow => cam'.slow) /\ (cam'.st # "none" => cam'.run)
    BY <1>1, <1>4, <1>9 DEF ScriptInv
  <2> QED BY <1>2, <2>1, <2>2, Broken
<1> QED BY <1>5, <1>8, <1>9

\* The data of a shot is fetched.
LEMMA FetchedFacts ==
    ASSUME cam \in CamType, NEW c, c = [cam EXCEPT !.data = None]
    PROVE  /\ c \in CamType /\ c.run = cam.run /\ c.st = cam.st /\ c.slow = cam.slow
           /\ c.told = cam.told /\ c.outq = cam.outq /\ c.next = cam.next
           /\ c.inq = cam.inq /\ c.data = None
  BY DEF CamType

\* The host polls for the data of a shot.
LEMMA GetStep == ASSUME RsintInv, Get PROVE RsintInv'
<1>1. /\ RsintType /\ ScriptInv /\ OneShot /\ Stored /\ FalseKept /\ OwnShots
      /\ host \in HostType /\ cam \in CamType
  BY DEF RsintInv, RsintType
<1>2. host.pc = "get" /\ UNCHANGED cont /\ faults' \in Nat /\ ~host.got
  <2>1. faults' \in Nat
    BY <1>1, FaultsNat DEF Get
  <2> QED BY <1>1, <2>1 DEF Get, ScriptInv
<1>3. Waiting /\ InLoop
  BY <1>2 DEF Waiting, InLoop
<1> DEFINE h == [host EXCEPT !.at = "get"]
           c == [cam EXCEPT !.data = None]
<1>4. /\ h \in HostType /\ h.at = "get" /\ h.n = host.n /\ h.ok = host.ok /\ h.run = host.run
      /\ h.got = host.got
  BY <1>1 DEF HostType
<1>5. /\ c \in CamType /\ c.run = cam.run /\ c.st = cam.st /\ c.slow = cam.slow
      /\ c.told = cam.told /\ c.outq = cam.outq /\ c.next = cam.next
      /\ c.inq = cam.inq /\ c.data = None
  <2> HIDE DEF c
  <2> QED BY <1>1, FetchedFacts DEF c
<1>6. \/ /\ cam.data # None /\ cam' = c
         /\ files' = Append(files, [shot |-> host.n, made |-> cam.data])
         /\ host' = [h EXCEPT !.pc = "read", !.got = TRUE]
      \/ host' = [h EXCEPT !.pc = "read"] /\ UNCHANGED <<cam, files>>
      \/ host' \in {Caught(h), Caught(Lost(h))} /\ UNCHANGED files /\ cam' \in {cam, c}
  BY DEF Get
<1> HIDE DEF h, c
<1>7. CASE /\ cam.data # None /\ cam' = c
           /\ files' = Append(files, [shot |-> host.n, made |-> cam.data])
           /\ host' = [h EXCEPT !.pc = "read", !.got = TRUE]
  <2> DEFINE f == [shot |-> host.n, made |-> cam.data]
  <2>1. /\ host' \in HostType /\ host'.pc = "read" /\ host'.got /\ host'.at = "get"
        /\ host'.n = host.n /\ host'.ok = host.ok /\ host'.run = host.run
    <3>1. /\ host' \in HostType /\ host'.pc = "read" /\ host'.got /\ host'.at = h.at
          /\ host'.n = h.n /\ host'.ok = h.ok /\ host'.run = h.run
      BY <1>4, <1>7 DEF HostType, Places
    <3> QED BY <1>4, <3>1
  <2>2. f \in [shot : Nat, made : Nat] /\ f.shot = host.n /\ f.made = cam.data
    BY <1>1, <1>7 DEF HostType, CamType
  <2> HIDE DEF f
  <2>3. files' = Append(files, f)
    BY <1>7 DEF f
  <2>4. /\ files' \in Seq([shot : Nat, made : Nat]) /\ Len(files) \in Nat
        /\ Len(files') = Len(files) + 1 /\ files'[Len(files) + 1] = f
        /\ \A i \in 1..Len(files) : files'[i] = files[i]
    BY <1>1, <2>2, <2>3, AppendProperties, LenProperties DEF RsintType
  <2>5. ~Waiting'
    BY <2>1 DEF Waiting
  <2>6. RsintType' /\ ScriptInv' /\ LeavesClean'
    BY <1>1, <1>2, <1>5, <1>7, <2>1, <2>4 DEF RsintType, ScriptInv, LeavesClean, Done
  <2>7. ~cam.slow => OneOf(cam)
    BY <1>1, <1>3 DEF OneShot
  <2>8. OneShot'
    <3> SUFFICES ASSUME ~cam.slow PROVE OneOf(cam)'
      BY <1>5, <1>7 DEF OneShot
    <3>1. OneOf(cam) /\ cam.data # None
      BY <1>7, <2>7
    <3>2. ~cam.next /\ \A i \in 1..Len(cam.inq) : ~IsShot(cam.inq[i])
      BY <3>1 DEF OneOf
    <3>3. ~cam'.next /\ cam'.data = None /\ \A i \in 1..Len(cam'.inq) : ~IsShot(cam'.inq[i])
      BY <1>5, <1>7, <3>2
    <3> QED BY <3>3 DEF OneOf
  <2>9. Stored'
    <3>1. host.ok => host.n = Len(files) + 1
      BY <1>1, <1>3 DEF Stored
    <3>2. host'.ok => host'.n = Len(files') + 0
      BY <2>1, <2>4, <3>1
    <3> QED BY <2>1, <2>5, <3>2 DEF Stored
  <2>10. OwnShots'
    <3> SUFFICES ASSUME ~cam.slow, NEW i \in 1..Len(files')
                 PROVE  files'[i].shot = files'[i].made
      BY <1>5, <1>7 DEF OwnShots
    <3>1. CASE i \in 1..Len(files)
      BY <1>1, <2>4, <3>1 DEF OwnShots
    <3>2. CASE i \notin 1..Len(files)
      <4>1. i = Len(files) + 1
        BY <2>4, <3>2
      <4>2. cam.data = host.n
        BY <1>7, <2>7 DEF OneOf
      <4> QED BY <2>2, <2>4, <4>1, <4>2
    <3> QED BY <3>1, <3>2
  <2>11. FalseKept'
    <3>1. HasFalse(cam)' <=> HasFalse(cam)
      BY <1>5, <1>7 DEF HasFalse
    <3> QED BY <1>1, <1>2, <1>5, <1>7, <2>1, <3>1 DEF FalseKept
  <2> QED BY <2>6, <2>8, <2>9, <2>10, <2>11 DEF RsintInv
<1>8. CASE host' = [h EXCEPT !.pc = "read"] /\ UNCHANGED <<cam, files>>
  <2>1. /\ host' \in HostType /\ host'.pc = "read" /\ ~host'.got /\ host'.at = "get"
        /\ host'.n = host.n /\ host'.ok = host.ok /\ host'.run = host.run
    <3>1. /\ host' \in HostType /\ host'.pc = "read" /\ host'.got = h.got /\ host'.at = h.at
          /\ host'.n = h.n /\ host'.ok = h.ok /\ host'.run = h.run
      BY <1>4, <1>8 DEF HostType, Places
    <3> QED BY <1>2, <1>4, <3>1
  <2>2. Waiting' = Waiting
    BY <1>2, <2>1 DEF Waiting
  <2>3. host'.ok => FalseKept'
    BY <1>1, <1>2, <1>8, <2>1 DEF FalseKept
  <2> QED BY <1>2, <1>3, <1>8, <2>1, <2>2, <2>3, HostOnly
<1>9. CASE host' \in {Caught(h), Caught(Lost(h))} /\ UNCHANGED files /\ cam' \in {cam, c}
  <2>1. host' \in HostType /\ host'.pc = "stop" /\ ~host'.ok
    BY <1>1, <1>4, <1>9, CaughtFacts, LostFacts
  <2>2. cam' \in CamType /\ (cam.slow => cam'.slow) /\ (cam'.st # "none" => cam'.run)
    BY <1>1, <1>5, <1>9 DEF ScriptInv
  <2> QED BY <1>2, <1>9, <2>1, <2>2, Broken
<1> QED BY <1>6, <1>7, <1>8, <1>9

\* After an error nothing is asked of the camera that leaves less behind.
LEMMA StopStays ==
    ASSUME RsintInv, host.pc \in {"stop", "stopping"}, host' \in HostType,
           host'.pc \in {"stopping", "final"}, host'.ok = host.ok, cam' \in CamType,
           cam'.slow = cam.slow, cam'.run = cam.run, cam'.st = cam.st,
           UNCHANGED <<cont, files>>, faults' \in Nat
    PROVE  RsintInv'
<1>1. RsintType /\ ScriptInv /\ Stored
  BY DEF RsintInv
<1>2. RsintType' /\ ScriptInv' /\ LeavesClean' /\ ~InLoop'
  BY <1>1 DEF RsintType, ScriptInv, LeavesClean, Done, InLoop
<1>3. ~host'.ok
  BY <1>1 DEF Stored
<1> QED BY <1>2, <1>3, LoopLeft

\* The loop has been left with an error.
LEMMA StopStep == ASSUME RsintInv, Stop PROVE RsintInv'
<1>1. RsintType /\ host \in HostType /\ cam \in CamType
  BY DEF RsintInv, RsintType
<1>2. host.pc = "stop" /\ UNCHANGED <<cont, cam, files>> /\ faults' \in Nat
  <2>1. faults' \in Nat
    BY <1>1, FaultsNat DEF Stop
  <2> QED BY <2>1 DEF Stop
<1> DEFINE s == IF cont THEN <<"off", "l">> ELSE <<"q">>
<1>3. s \in Seq({"off", "l", "q"})
  <2>1. <<"off", "l">> \in Seq({"off", "l", "q"}) /\ <<"q">> \in Seq({"off", "l", "q"})
    OBVIOUS
  <2> QED BY <2>1
<1>4. \/ host' = [host EXCEPT !.pc = "stopping", !.stop = s]
      \/ host' = [host EXCEPT !.pc = "final"]
      \/ host' = [Lost(host) EXCEPT !.pc = "final"]
  BY DEF Stop
<1> HIDE DEF s
<1>5. "stopping" \in Places /\ "final" \in Places
  BY DEF Places
<1>6. Lost(host) \in HostType /\ Lost(host) = [host EXCEPT !.lost = host.pc]
  BY <1>1, LostFacts
<1>7. host' \in HostType /\ host'.pc \in {"stopping", "final"} /\ host'.ok = host.ok
  <2> HIDE DEF Places
  <2>1. Lost(host).ok = host.ok
    BY <1>1, <1>6 DEF HostType
  <2> QED BY <1>1, <1>3, <1>4, <1>5, <1>6, <2>1, ZenonT(40) DEF HostType
<1> QED BY <1>1, <1>2, <1>7, StopStays

\* The script is told to end.
LEMMA StopWriteStep == ASSUME RsintInv, StopWrite PROVE RsintInv'
<1>1. RsintType /\ host \in HostType /\ cam \in CamType
  BY DEF RsintInv, RsintType
<1>2. host.pc = "stopping" /\ UNCHANGED <<cont, files>> /\ faults' \in Nat
  <2>1. faults' \in Nat
    BY <1>1, FaultsNat DEF StopWrite
  <2> QED BY <2>1 DEF StopWrite
<1>3. host.stop \in Seq({"off", "l", "q"})
  BY <1>1 DEF HostType
<1>4. \A i \in 1..Len(host.stop) : host.stop[i] \in Cmds \cup {"off"}
  BY <1>3, ElementOfSeq DEF Cmds
<1>5. host.stop # <<>> =>
        Tail(host.stop) \in Seq({"off", "l", "q"}) /\ Head(host.stop) \in Cmds \cup {"off"}
  BY <1>3, HeadTailProperties DEF Cmds
<1>6. \/ /\ host.stop # <<>> /\ cam' = Written(Head(host.stop))
         /\ host' = [host EXCEPT !.stop = Tail(@)]
      \/ host' = [host EXCEPT !.pc = "final"] /\ UNCHANGED cam
      \/ /\ host' = [Lost(host) EXCEPT !.pc = "final"]
         /\ cam' = cam \/ \E i \in 1..Len(host.stop) : cam' = Written(host.stop[i])
  BY DEF StopWrite
<1>7. cam' = cam \/ \E m \in Cmds \cup {"off"} : cam' = Written(m)
  BY <1>4, <1>5, <1>6
<1>8. /\ cam' \in CamType /\ cam'.slow = cam.slow /\ cam'.run = cam.run /\ cam'.st = cam.st
  <2>1. CASE cam' = cam
    BY <1>1, <2>1
  <2>2. CASE \E m \in Cmds \cup {"off"} : cam' = Written(m)
    BY <1>1, <2>2, WrittenFacts
  <2> QED BY <1>7, <2>1, <2>2
<1>9. host' \in HostType /\ host'.pc \in {"stopping", "final"} /\ host'.ok = host.ok
  <2>1. Lost(host) \in HostType /\ Lost(host).ok = host.ok
    <3>1. Lost(host) \in HostType /\ Lost(host) = [host EXCEPT !.lost = host.pc]
      BY <1>1, LostFacts
    <3> QED BY <1>1, <3>1 DEF HostType
  <2>2. "final" \in Places
    BY DEF Places
  <2> HIDE DEF Places
  <2>3. CASE host.stop # <<>> /\ host' = [host EXCEPT !.stop = Tail(@)]
    BY <1>1, <1>2, <1>5, <2>3 DEF HostType
  <2>4. CASE host' = [host EXCEPT !.pc = "final"] \/ host' = [Lost(host) EXCEPT !.pc = "final"]
    BY <1>1, <2>1, <2>2, <2>4 DEF HostType
  <2> QED BY <1>6, <2>3, <2>4
<1> QED BY <1>1, <1>2, <1>8, <1>9, StopStays

\* The camera as the cleanup leaves it.
LEMMA CleanedFacts ==
    ASSUME cam \in CamType
    PROVE  /\ Cleaned \in CamType /\ ~Cleaned.run /\ ~Cleaned.cap /\ Cleaned.st = "none"
           /\ Cleaned.slow = cam.slow /\ Cleaned.told = cam.told
<1>1. <<>> \in Seq(Cmds \cup {"off"}) /\ <<>> \in Seq({"user", "false", "text", "error"})
  BY EmptySeq
<1>2. Off \in CamType /\ ~Off.run /\ ~Off.cap /\ Off.st = "none"
  BY <1>1 DEF Off, CamType
<1>3. cam.slow \in BOOLEAN /\ cam.told \in BOOLEAN
  BY DEF CamType
<1> QED BY <1>2, <1>3 DEF Cleaned, CamType

\* The camera is cleaned up.
LEMMA CleanupStep == ASSUME RsintInv, Cleanup PROVE RsintInv'
<1>1. /\ RsintType /\ ScriptInv /\ Stored /\ FalseKept /\ OwnShots
      /\ host \in HostType /\ cam \in CamType
  BY DEF RsintInv, RsintType
<1>2. host.pc = "cleanup" /\ UNCHANGED <<cont, files>> /\ faults' \in Nat
  <2>1. faults' \in Nat
    BY <1>1, FaultsNat DEF Cleanup
  <2> QED BY <2>1 DEF Cleanup
<1>3. /\ Cleaned \in CamType /\ ~Cleaned.run /\ ~Cleaned.cap /\ Cleaned.st = "none"
      /\ Cleaned.slow = cam.slow /\ Cleaned.told = cam.told
  BY <1>1, CleanedFacts
<1>4. \/ cam' = Cleaned /\ host' = [host EXCEPT !.pc = "done", !.ok = @ /\ TRUE]
      \/ cam' \in {cam, Cleaned} /\ host' = [Lost(host) EXCEPT !.pc = "done", !.ok = FALSE]
  BY DEF Cleanup, Clobbers
<1>5. "done" \in Places
  BY DEF Places
<1>6. CASE cam' = Cleaned /\ host' = [host EXCEPT !.pc = "done", !.ok = @ /\ TRUE]
  <2>1. host.ok \in BOOLEAN /\ (host.ok /\ TRUE) = host.ok
    BY <1>1 DEF HostType
  <2>2. host' = [host EXCEPT !.pc = "done", !.ok = host.ok]
    BY <1>6, <2>1
  <2>3. /\ host' \in HostType /\ host'.pc = "done" /\ host'.ok = host.ok /\ host'.n = host.n
        /\ host'.run = host.run /\ host'.lost = host.lost
    <3> HIDE DEF Places
    <3> QED BY <1>1, <1>5, <2>1, <2>2 DEF HostType
  <2>4. RsintType' /\ ScriptInv' /\ OneShot' /\ LeavesClean' /\ OwnShots'
    BY <1>1, <1>2, <1>3, <1>6, <2>3
       DEF RsintType, ScriptInv, OneShot, InLoop, LeavesClean, Done, OwnShots
  <2>5. Stored'
    BY <1>1, <1>2, <2>3 DEF Stored, Waiting
  <2>6. FalseKept'
    BY <1>1, <1>2, <1>3, <1>6, <2>3 DEF FalseKept
  <2> QED BY <2>4, <2>5, <2>6 DEF RsintInv
<1>7. CASE cam' \in {cam, Cleaned} /\ host' = [Lost(host) EXCEPT !.pc = "done", !.ok = FALSE]
  <2> DEFINE h == Lost(host)
  <2>1. h \in HostType /\ h = [host EXCEPT !.lost = host.pc]
    BY <1>1, LostFacts
  <2>2. h.lost = "cleanup"
    BY <1>1, <1>2, <2>1 DEF HostType
  <2>3. host' = [h EXCEPT !.pc = "done", !.ok = FALSE]
    BY <1>7
  <2> HIDE DEF h
  <2>4. host' \in HostType /\ host'.pc = "done" /\ ~host'.ok /\ host'.lost = "cleanup"
    <3> HIDE DEF Places
    <3> QED BY <1>5, <2>1, <2>2, <2>3 DEF HostType
  <2>5. RsintType' /\ ScriptInv' /\ ~InLoop' /\ LeavesClean' /\ cam'.slow = cam.slow
    BY <1>1, <1>2, <1>3, <1>7, <2>4 DEF RsintType, ScriptInv, InLoop, LeavesClean, Done
  <2> QED BY <1>2, <2>4, <2>5, LoopLeft
<1> QED BY <1>4, <1>6, <1>7

\* Nothing happens.
LEMMA RsintStutter == ASSUME RsintInv, UNCHANGED rsintVars PROVE RsintInv'
BY DEF RsintInv, rsintVars, RsintType, ScriptInv, OneShot, OneOf, Waiting, InLoop, Stored, FalseKept,
       HasFalse, LeavesClean, Done, OwnShots

\* The session has not begun.
LEMMA RsintStarts == ASSUME RsintInit PROVE RsintInv
<1>1. /\ cont \in BOOLEAN /\ files = <<>> /\ faults = 0 /\ cam = Off
      /\ host = [pc |-> "init", cmd |-> "none", typed |-> 0, n |-> 0, run |-> FALSE,
                 at |-> "none", got |-> FALSE, stop |-> <<>>, ok |-> TRUE, threw |-> FALSE,
                 lost |-> "none"]
  BY DEF RsintInit
<1>2. <<>> \in Seq(Cmds \cup {"off"}) /\ <<>> \in Seq({"user", "false", "text", "error"})
      /\ <<>> \in Seq({"off", "l", "q"}) /\ <<>> \in Seq([shot : Nat, made : Nat])
      /\ Len(files) = 0
  BY <1>1, EmptySeq
<1>3. cam \in CamType
  BY <1>1, <1>2 DEF Off, CamType
<1>4. host \in HostType /\ host.pc = "init" /\ host.n = 0 /\ ~cam.told
  BY <1>1, <1>2 DEF HostType, Places, Cmds, Off
<1>5. RsintType /\ ScriptInv /\ LeavesClean /\ FalseKept
  BY <1>1, <1>2, <1>3, <1>4
     DEF RsintType, ScriptInv, Off, LeavesClean, Done, FalseKept
<1>6. OneOf(cam)
  <2>1. cam.inq = <<>> /\ ~cam.next /\ cam.data = None /\ Len(cam.inq) = 0
    BY <1>1, EmptySeq DEF Off
  <2> QED BY <2>1 DEF OneOf
<1>7. OwnShots /\ Stored
  BY <1>2, <1>4 DEF OwnShots, Stored, Waiting
<1> QED BY <1>5, <1>6, <1>7 DEF RsintInv, OneShot
-----------------------------------------------------------------------------
(***************************************************************************)
(* The contract.                                                           *)
(***************************************************************************)
\* The inductive invariant of a session: of a shot asked for there is one
\* thing at most, every shot but one waited for has been stored while nothing
\* has gone wrong, and a returned false is not gone before it is read.
THEOREM RsintInductive == RsintSpec => []RsintInv
<1>1. RsintInv /\ [RsintNext]_rsintVars => RsintInv'
  <2> SUFFICES ASSUME RsintInv, [RsintNext]_rsintVars PROVE RsintInv'
    OBVIOUS
  <2>1. CASE Camera
    BY <2>1, CameraStep
  <2>2. CASE RsInit
    BY <2>2, RsInitStep
  <2>3. CASE Exec
    BY <2>3, ExecStep
  <2>4. CASE Prompt
    BY <2>4, PromptStep
  <2>5. CASE Asks
    BY <2>5, AsksStep
  <2>6. CASE Read
    BY <2>6, ReadStep
  <2>7. CASE SetPath
    BY <2>7, SetPathStep
  <2>8. CASE Write
    BY <2>8, WriteStep
  <2>9. CASE Get
    BY <2>9, GetStep
  <2>10. CASE Stop
    BY <2>10, StopStep
  <2>11. CASE StopWrite
    BY <2>11, StopWriteStep
  <2>12. CASE Final
    BY <2>12, FinalStep
  <2>13. CASE Cleanup
    BY <2>13, CleanupStep
  <2>14. CASE UNCHANGED rsintVars
    BY <2>14, RsintStutter
  <2> QED BY <2>1, <2>2, <2>3, <2>4, <2>5, <2>6, <2>7, <2>8, <2>9, <2>10, <2>11, <2>12, <2>13,
             <2>14 DEF RsintNext, Host
<1> QED BY RsintStarts, <1>1, PTL DEF RsintSpec

\* The contract of a session: the camera is left clean but for the losses that
\* prevent it, what is stored for a shot is of that shot, and a session that
\* succeeds has stored every shot and has missed no false of its script.
THEOREM SessionKept == RsintSpec => []RsintContract
<1>1. RsintInv => RsintContract
  <2> SUFFICES ASSUME RsintInv PROVE RsintContract
    OBVIOUS
  <2>1. RsintType /\ Stored /\ FalseKept /\ LeavesClean /\ OwnShots
    BY DEF RsintInv
  <2>2. ASSUME Done, host.ok PROVE Len(files) = host.n
    <3>1. Len(files) \in Nat /\ ~Waiting
      BY <2>1, <2>2, LenProperties DEF RsintType, Done, Waiting
    <3>2. host.n = Len(files) + 0
      BY <2>1, <2>2, <3>1 DEF Stored
    <3> QED BY <3>1, <3>2
  <2>3. ASSUME Done, host.ok, host.lost # "connection", ~host.run PROVE ~cam.told
    BY <2>1, <2>3 DEF FalseKept, Done
  <2> QED BY <2>1, <2>2, <2>3 DEF RsintContract, OkComplete
<1> QED BY RsintInductive, <1>1, PTL

=============================================================================
