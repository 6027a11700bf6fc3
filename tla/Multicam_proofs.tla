--------------------------- MODULE Multicam_proofs ---------------------------
(***************************************************************************)
(* What is reported of the commands to several cameras (AnswersTrue), for  *)
(* any cameras and commands and however many calls are lost.               *)
(***************************************************************************)
EXTENDS Multicam, TLAPS, SequenceTheorems, WellFoundedInduction

Ids      == Cams \cup {0, First(Cams)}
CmdNames == Names \cup {"none", "exit", "imglist", "setid"}
Kinds    == {"none", "part", "status", "error"}
Commands     == [n : Nat, name : CmdNames, id : Ids]
Messages     == [n : Nat, name : CmdNames, kind : Kinds, cam : Cams \cup {0}]
Errors   == {"none", "bad_script_id", "wrongmsg_error", "unexpected cmd", "not running", "lost",
             "timeout"}
Results  == [failed : BOOLEAN, done : BOOLEAN, err : Errors, msg : Messages]
Scripts  == [run : BOOLEAN, done : BOOLEAN, inq : Seq(Commands), outq : Seq(Messages),
             doing : Commands, parts : Nat, id : Ids]
CallPcs  == {"idle", "flush", "send", "poll", "ask", "list", "start", "exiting", "ending", "exec", "setid"}
ResSets  == UNION {[D -> Results] : D \in SUBSET Ids}
GotSets  == [Cams -> Seq(Messages)] \cup {<<>>}
Pendings == Seq(Cams \X Ids)

CallType == [pc : CallPcs, cmd : Commands, n : Nat, todo : SUBSET Cams, res : ResSets, complete : Nat,
             wait : BOOLEAN, late : SUBSET Cams, got : GotSets, pend : Pendings,
             saved : SUBSET Cams]

MultiType ==
    /\ script \in [Cams -> Scripts]
    /\ id \in [Cams -> Ids]
    /\ known \in [Cams -> BOOLEAN]
    /\ sel \in SUBSET Cams
    /\ call \in CallType
    /\ DOMAIN last = DOMAIN NoCall
    /\ budget \in [cmds : Nat, faults : Nat, lost : BOOLEAN]

-----------------------------------------------------------------------------
Signed(c) == \A k \in DOMAIN script[c].outq : script[c].outq[k].cam = c

TodoInSel == call.pc \notin {"idle", "setid"} => call.todo \subseteq sel

Clear(s) == s.inq = <<>> /\ s.doing = NoCmd /\ s.outq = <<>>

OnlyOf(s, n) ==
    /\ \A k \in DOMAIN s.inq : s.inq[k].n = n
    /\ s.doing = NoCmd \/ s.doing.n = n
    /\ \A k \in DOMAIN s.outq : s.outq[k].n = n

Answer(r, c, n) == r.done /\ ~r.failed => r.msg.cam = c /\ r.msg.n = n

Distinct == \A c, d \in sel : id[c] = id[d] => c = d

AskInv ==
    /\ call.pc = "flush" => \A c \in sel \ (call.todo \cup call.late) : Clear(script[c])
    /\ call.pc \in {"flush", "send"} /\ call.cmd.name = "setid" =>
          \A c \in sel : id[c] = call.cmd.id
    /\ call.pc \in {"send", "poll"} =>
          \A c \in sel \ call.late : OnlyOf(script[c], call.cmd.n)
    /\ call.pc = "poll" =>
          /\ DOMAIN call.res = {id[c] : c \in sel}
          /\ Distinct =>
                \A c \in sel \ call.late : Answer(call.res[id[c]], c, call.cmd.n)

-----------------------------------------------------------------------------
PartsOf(q, n) == \A k \in DOMAIN q : q[k].n = n /\ q[k].kind = "part"

Ended(q, g, n) ==
    /\ Len(q) > 0 /\ q[Len(q)].kind \in {"status", "error"}
    /\ \A k \in DOMAIN q : k < Len(q) => q[k].n = n /\ q[k].kind = "part"
    /\ q[Len(q)].kind = "status" => Len(g) + Len(q) = Parts + 1

Streaming(s, g, cmd) ==
    /\ PartsOf(g, cmd.n)
    /\ \/ s.inq = <<cmd>> /\ s.doing = NoCmd /\ s.outq = <<>> /\ g = <<>>
       \/ /\ s.inq = <<>> /\ s.doing = cmd /\ PartsOf(s.outq, cmd.n)
          /\ Len(g) + Len(s.outq) = s.parts /\ s.parts <= Parts
       \/ s.inq = <<>> /\ s.doing = NoCmd /\ Ended(s.outq, g, cmd.n)

WholeList(g, n) == Len(g) = Parts /\ PartsOf(g, n)

ListInv ==
    call.pc \in {"ask", "list"} =>
        /\ call.got \in [Cams -> Seq(Messages)]
        /\ call.cmd.name = "imglist"
        /\ call.pc = "list" => call.todo # {}
        /\ \A c \in sel \ call.late :
              IF c \in call.todo
              THEN IF call.pc = "list" /\ c = First(call.todo)
                   THEN Streaming(script[c], call.got[c], call.cmd)
                   ELSE call.got[c] = <<>>
              ELSE call.got[c] = <<>> \/ WholeList(call.got[c], call.cmd.n)

-----------------------------------------------------------------------------
PendInv ==
    /\ call.pc \in {"idle", "ask", "list", "start", "exiting", "ending", "exec"} => call.pend = <<>>
    /\ call.pc \in {"start", "exiting", "ending", "exec"} => call.cmd.name # "setid"

OneEach(f, p) ==
    \/ p = <<>> /\ IsInjective(f)
    \/ \E c \in Cams, i \in Ids : p = << <<c, i>> >> /\ IsInjective([f EXCEPT ![c] = i])
    \/ \E c, d \in Cams, i, j \in Ids :
          p = << <<d, j>>, <<c, i>> >> /\ IsInjective([[f EXCEPT ![d] = j] EXCEPT ![c] = i])

NoneSets(q) == \A k \in DOMAIN q : q[k].name # "setid"
LastSets(q, i) ==
    \E k \in DOMAIN q : /\ q[k].name = "setid" /\ q[k].id = i
                        /\ \A l \in DOMAIN q : l > k => q[l].name # "setid"
Due(s, i) ==
    \/ LastSets(s.inq, i)
    \/ NoneSets(s.inq) /\ (IF s.doing.name = "setid" THEN s.doing.id ELSE s.id) = i

Told(c) ==
    /\ call.cmd.name = "setid" /\ call.cmd.id = id[c] /\ c \in sel
    /\ call.pc = "flush" \/ (call.pc = "send" /\ c \in call.todo)

IdInv ==
    ~budget.lost =>
        /\ OneEach(id, call.pend)
        /\ \A c \in Cams : script[c].run => Due(script[c], id[c]) \/ Told(c)

MultiInv ==
    /\ MultiType /\ TodoInSel
    /\ \A c \in Cams : Signed(c)
    /\ AskInv /\ ListInv /\ PendInv /\ IdInv
    /\ OwnAnswers /\ OwnLists

-----------------------------------------------------------------------------
\* Append keeps the elements and adds one at the end.
LEMMA Appended ==
    ASSUME NEW T, NEW q \in Seq(T), NEW e \in T
    PROVE  /\ Append(q, e) \in Seq(T) /\ Len(Append(q, e)) = Len(q) + 1
           /\ Len(q) \in Nat
           /\ DOMAIN q = 1..Len(q) /\ DOMAIN Append(q, e) = 1..(Len(q) + 1)
           /\ Append(q, e)[Len(q) + 1] = e
           /\ \A k \in 1..Len(q) : Append(q, e)[k] = q[k]
OBVIOUS

\* Tail leaves out the first element.
LEMMA Tailed ==
    ASSUME NEW T, NEW q \in Seq(T), q # <<>>
    PROVE  /\ Tail(q) \in Seq(T) /\ Len(Tail(q)) = Len(q) - 1
           /\ Head(q) \in T /\ Head(q) = q[1] /\ Len(q) \in Nat \ {0}
           /\ DOMAIN q = 1..Len(q) /\ DOMAIN Tail(q) = 1..(Len(q) - 1)
           /\ \A k \in 1..(Len(q) - 1) : Tail(q)[k] = q[k + 1]
BY HeadTailProperties, EmptySeq

\* Of no elements.
LEMMA Nothing ==
    ASSUME NEW T
    PROVE  <<>> \in Seq(T) /\ Len(<<>>) = 0 /\ DOMAIN <<>> = {}
OBVIOUS

\* A set of numbers that is not empty has a first one.
LEMMA FirstIn ==
    ASSUME NEW S, S \subseteq Nat, S # {}
    PROVE  First(S) \in S
<1>1. PICK x \in S : \A y \in S : ~ (<<y, x>> \in OpToRel(<, Nat))
  BY WFMin, NatLessThanWellFounded
<1>2. \A y \in S : ~ (y < x)
  <2> SUFFICES ASSUME NEW y \in S, y < x PROVE FALSE
    OBVIOUS
  <2>1. <<y, x>> \in Nat \X Nat /\ <<y, x>>[1] = y /\ <<y, x>>[2] = x
    OBVIOUS
  <2>2. <<y, x>>[1] < <<y, x>>[2]
    BY <2>1
  <2>3. <<y, x>> \in {ss \in Nat \X Nat : ss[1] < ss[2]}
    BY <2>1, <2>2
  <2> QED BY <1>1, <2>3, Zenon DEF OpToRel
<1>3. \A y \in S : x =< y
  BY <1>2
<1> QED BY <1>3 DEF First, Min

-----------------------------------------------------------------------------
(* The ids that the commands to a camera will lead to.                     *)

\* A command that sets no id changes nothing of that.
LEMMA DueOther ==
    ASSUME NEW s \in Scripts, NEW e \in Commands, NEW i, e.name # "setid", Due(s, i)
    PROVE  Due([s EXCEPT !.inq = Append(@, e)], i)
<1> DEFINE t == [s EXCEPT !.inq = Append(@, e)]
<1>1. /\ s.inq \in Seq(Commands) /\ t.inq = Append(s.inq, e)
      /\ t.doing = s.doing /\ t.id = s.id
  BY DEF Scripts
<1> HIDE DEF t
<1>2. /\ Len(s.inq) \in Nat /\ DOMAIN s.inq = 1..Len(s.inq)
      /\ DOMAIN t.inq = 1..(Len(s.inq) + 1) /\ t.inq[Len(s.inq) + 1] = e
      /\ \A k \in 1..Len(s.inq) : t.inq[k] = s.inq[k]
  BY <1>1, Appended
<1>3. CASE LastSets(s.inq, i)
  <2>1. PICK k \in DOMAIN s.inq :
          /\ s.inq[k].name = "setid" /\ s.inq[k].id = i
          /\ \A l \in DOMAIN s.inq : l > k => s.inq[l].name # "setid"
    BY <1>3 DEF LastSets
  <2>2. k \in DOMAIN t.inq /\ t.inq[k].name = "setid" /\ t.inq[k].id = i
    BY <1>2, <2>1
  <2>3. \A l \in DOMAIN t.inq : l > k => t.inq[l].name # "setid"
    <3> SUFFICES ASSUME NEW l \in DOMAIN t.inq, l > k PROVE t.inq[l].name # "setid"
      OBVIOUS
    <3>1. CASE l \in 1..Len(s.inq)
      BY <3>1, <1>2, <2>1
    <3>2. CASE l = Len(s.inq) + 1
      BY <3>2, <1>2
    <3> QED BY <3>1, <3>2, <1>2
  <2>4. LastSets(t.inq, i)
    BY <2>2, <2>3 DEF LastSets
  <2> QED BY <2>4 DEF Due, t
<1>4. CASE NoneSets(s.inq) /\ (IF s.doing.name = "setid" THEN s.doing.id ELSE s.id) = i
  <2>1. NoneSets(t.inq)
    <3> SUFFICES ASSUME NEW l \in DOMAIN t.inq PROVE t.inq[l].name # "setid"
      BY DEF NoneSets
    <3>1. CASE l \in 1..Len(s.inq)
      BY <3>1, <1>2, <1>4 DEF NoneSets
    <3>2. CASE l = Len(s.inq) + 1
      BY <3>2, <1>2
    <3> QED BY <3>1, <3>2, <1>2
  <2>2. (IF t.doing.name = "setid" THEN t.doing.id ELSE t.id) = i
    BY <1>1, <1>4
  <2>3. Due(t, i)
    BY <2>1, <2>2 DEF Due
  <2> QED BY <2>3 DEF t
<1> QED BY <1>3, <1>4 DEF Due

\* One that sets it leads to that id.
LEMMA DueSet ==
    ASSUME NEW s \in Scripts, NEW e \in Commands, e.name = "setid"
    PROVE  Due([s EXCEPT !.inq = Append(@, e)], e.id)
<1> DEFINE t == [s EXCEPT !.inq = Append(@, e)]
<1>1. s.inq \in Seq(Commands) /\ t.inq = Append(s.inq, e)
  BY DEF Scripts
<1> HIDE DEF t
<1>2. /\ Len(s.inq) \in Nat
      /\ DOMAIN t.inq = 1..(Len(s.inq) + 1) /\ t.inq[Len(s.inq) + 1] = e
  BY <1>1, Appended
<1>3. Len(s.inq) + 1 \in DOMAIN t.inq
  BY <1>2
<1>4. \A l \in DOMAIN t.inq : ~ (l > Len(s.inq) + 1)
  BY <1>2
<1>5. LastSets(t.inq, e.id)
  BY <1>2, <1>3, <1>4 DEF LastSets
<1> QED BY <1>5 DEF Due, t

\* The script takes a command.
LEMMA DueTake ==
    ASSUME NEW s \in Scripts, NEW t \in Scripts, s.inq # <<>>, NEW i, Due(s, i),
           t.inq = Tail(s.inq), t.doing = Head(s.inq), s.doing = NoCmd, t.id = s.id
    PROVE  Due(t, i)
<1>1. s.inq \in Seq(Commands)
  BY DEF Scripts
<1>2. /\ Head(s.inq) = s.inq[1] /\ Len(s.inq) \in Nat \ {0} /\ DOMAIN s.inq = 1..Len(s.inq)
      /\ DOMAIN t.inq = 1..(Len(s.inq) - 1)
      /\ \A k \in 1..(Len(s.inq) - 1) : t.inq[k] = s.inq[k + 1]
  BY <1>1, Tailed
<1>3. CASE LastSets(s.inq, i)
  <2>1. PICK k \in DOMAIN s.inq :
          /\ s.inq[k].name = "setid" /\ s.inq[k].id = i
          /\ \A l \in DOMAIN s.inq : l > k => s.inq[l].name # "setid"
    BY <1>3 DEF LastSets
  <2>2. CASE k = 1
    <3>1. \A l \in DOMAIN t.inq : t.inq[l].name # "setid"
      <4> SUFFICES ASSUME NEW l \in DOMAIN t.inq PROVE t.inq[l].name # "setid"
        OBVIOUS
      <4>1. l + 1 \in DOMAIN s.inq /\ l + 1 > k /\ t.inq[l] = s.inq[l + 1]
        BY <1>2, <2>2
      <4> QED BY <4>1, <2>1
    <3>2. t.doing.name = "setid" /\ t.doing.id = i
      BY <1>2, <2>1, <2>2
    <3> QED BY <3>1, <3>2 DEF Due, NoneSets
  <2>3. CASE k # 1
    <3>1. k - 1 \in DOMAIN t.inq /\ t.inq[k - 1] = s.inq[k]
      BY <1>2, <2>1, <2>3
    <3>2. \A l \in DOMAIN t.inq : l > k - 1 => t.inq[l].name # "setid"
      <4> SUFFICES ASSUME NEW l \in DOMAIN t.inq, l > k - 1 PROVE t.inq[l].name # "setid"
        OBVIOUS
      <4>1. l + 1 \in DOMAIN s.inq /\ l + 1 > k /\ t.inq[l] = s.inq[l + 1]
        BY <1>2, <2>1
      <4> QED BY <4>1, <2>1
    <3>3. LastSets(t.inq, i)
      BY <3>1, <3>2, <2>1 DEF LastSets
    <3> QED BY <3>3 DEF Due
  <2> QED BY <2>2, <2>3
<1>4. CASE NoneSets(s.inq) /\ (IF s.doing.name = "setid" THEN s.doing.id ELSE s.id) = i
  <2>1. NoneSets(t.inq)
    <3> SUFFICES ASSUME NEW l \in DOMAIN t.inq PROVE t.inq[l].name # "setid"
      BY DEF NoneSets
    <3>1. l + 1 \in DOMAIN s.inq /\ t.inq[l] = s.inq[l + 1]
      BY <1>2
    <3> QED BY <3>1, <1>4 DEF NoneSets
  <2>2. t.doing.name # "setid"
    BY <1>2, <1>4 DEF NoneSets
  <2>3. s.id = i
    BY <1>4 DEF NoCmd
  <2> QED BY <2>1, <2>2, <2>3 DEF Due
<1> QED BY <1>3, <1>4 DEF Due

\* Nothing asked for and nothing being done: the id is that of the script.
LEMMA DueQuiet ==
    ASSUME NEW s, s.inq = <<>>, s.doing = NoCmd, NEW i
    PROVE  Due(s, i) <=> s.id = i
<1>1. NoneSets(s.inq) /\ ~LastSets(s.inq, i)
  BY DEF NoneSets, LastSets
<1>2. s.doing.name # "setid"
  BY DEF NoCmd
<1> QED BY <1>1, <1>2 DEF Due

-----------------------------------------------------------------------------
(* The camera.                                                             *)

\* The values a camera and a call begin with are of their types.
LEMMA Basics ==
    /\ NoCmd \in Commands /\ NoResult \in Results
    /\ <<>> \in ResSets /\ <<>> \in GotSets /\ <<>> \in Pendings
    /\ \A c \in Cams, e \in Commands, k \in Kinds :
          /\ Msg(c, e, k) \in Messages /\ Msg(c, e, k).cam = c
          /\ Msg(c, e, k).n = e.n /\ Msg(c, e, k).kind = k
<1>1. NoCmd \in Commands
  BY DEF NoCmd, Commands, CmdNames, Ids
<1>2. \A c \in Cams \cup {0}, e \in Commands, k \in Kinds :
          /\ Msg(c, e, k) \in Messages /\ Msg(c, e, k).cam = c
          /\ Msg(c, e, k).n = e.n /\ Msg(c, e, k).kind = k
  BY DEF Msg, Messages, Commands
<1>3. "none" \in Kinds /\ "part" \in Kinds
  BY DEF Kinds
<1>4. NoResult \in Results
  <2>1. Msg(0, NoCmd, "none") \in Messages
    BY <1>1, <1>2, <1>3
  <2> QED BY <2>1 DEF NoResult, Results, Errors
<1>5. <<>> \in [{} -> Results] /\ {} \in SUBSET Ids
  OBVIOUS
<1>6. <<>> \in ResSets
  BY <1>5 DEF ResSets
<1> QED BY <1>1, <1>2, <1>4, <1>6 DEF GotSets, Pendings

\* What a step of the camera keeps: what it has to answer and the answers that
\* are there are those to the same commands, unless a script dies.
KeepsMine(c, s, t) ==
    (\A l \in DOMAIN s.outq : s.outq[l].cam = c) => \A l \in DOMAIN t.outq : t.outq[l].cam = c
KeepsClear(s, t) == Clear(s) => Clear(t)
KeepsOnly(s, t)  == \A n : OnlyOf(s, n) => OnlyOf(t, n)
KeepsList(s, t)  ==
    \A g \in Seq(Messages), e \in Commands :
        e.name = "imglist" /\ Streaming(s, g, e) => Streaming(t, g, e)
KeepsDue(s, t)   == \A i : Due(s, i) => Due(t, i)

Goes(c, s, t) ==
    /\ t \in Scripts /\ (t.run => s.run)
    /\ KeepsMine(c, s, t) /\ KeepsClear(s, t) /\ KeepsOnly(s, t) /\ KeepsList(s, t)

\* It takes a command.
LEMMA GoesTake ==
    ASSUME NEW c \in Cams, NEW s \in Scripts, s.inq # <<>>, s.doing = NoCmd,
           NEW t, t = [s EXCEPT !.doing = Head(s.inq), !.inq = Tail(@), !.parts = 0]
    PROVE  Goes(c, s, t) /\ KeepsDue(s, t)
<1>1. s.inq \in Seq(Commands)
  BY DEF Scripts
<1>2. /\ Tail(s.inq) \in Seq(Commands) /\ Head(s.inq) \in Commands
      /\ Head(s.inq) = s.inq[1] /\ Len(s.inq) \in Nat \ {0} /\ DOMAIN s.inq = 1..Len(s.inq)
      /\ DOMAIN Tail(s.inq) = 1..(Len(s.inq) - 1)
      /\ \A k \in 1..(Len(s.inq) - 1) : Tail(s.inq)[k] = s.inq[k + 1]
  BY <1>1, Tailed
<1>3. /\ t \in Scripts /\ t.run = s.run /\ t.inq = Tail(s.inq) /\ t.doing = Head(s.inq)
      /\ t.outq = s.outq /\ t.id = s.id /\ t.parts = 0
  BY <1>2 DEF Scripts
<1>4. KeepsMine(c, s, t)
  BY <1>3 DEF KeepsMine
<1>5. KeepsClear(s, t)
  BY DEF KeepsClear, Clear
<1>6. KeepsOnly(s, t)
  <2> SUFFICES ASSUME NEW n, OnlyOf(s, n) PROVE OnlyOf(t, n)
    BY DEF KeepsOnly
  <2>1. \A k \in DOMAIN t.inq : t.inq[k].n = n
    <3> SUFFICES ASSUME NEW k \in DOMAIN t.inq PROVE t.inq[k].n = n
      OBVIOUS
    <3>1. k + 1 \in DOMAIN s.inq /\ t.inq[k] = s.inq[k + 1]
      BY <1>2, <1>3
    <3> QED BY <3>1 DEF OnlyOf
  <2>2. t.doing.n = n
    <3>1. 1 \in DOMAIN s.inq
      BY <1>2
    <3> QED BY <3>1, <1>2, <1>3 DEF OnlyOf
  <2> QED BY <2>1, <2>2, <1>3 DEF OnlyOf
<1>7. KeepsList(s, t)
  <2> SUFFICES ASSUME NEW g \in Seq(Messages), NEW e \in Commands, e.name = "imglist",
                      Streaming(s, g, e)
               PROVE  Streaming(t, g, e)
    BY DEF KeepsList
  <2>1. s.inq = <<e>> /\ s.outq = <<>> /\ g = <<>> /\ PartsOf(g, e.n)
    BY DEF Streaming
  <2>2. t.inq = <<>> /\ t.doing = e
    BY <2>1, <1>3
  <2>3. Len(g) = 0 /\ Len(t.outq) = 0 /\ Parts \in Nat /\ PartsOf(t.outq, e.n)
    BY <2>1, <1>3, MulticamAssumption DEF PartsOf
  <2>4. Len(g) + Len(t.outq) = t.parts /\ t.parts <= Parts
    BY <2>3, <1>3
  <2> QED BY <2>1, <2>2, <2>3, <2>4 DEF Streaming
<1>8. KeepsDue(s, t)
  BY <1>3, DueTake DEF KeepsDue
<1> QED BY <1>3, <1>4, <1>5, <1>6, <1>7, <1>8 DEF Goes

\* The messages it sends are those of what it does.
LEMMA OnlySent ==
    ASSUME NEW c \in Cams, NEW s \in Scripts, NEW t \in Scripts, NEW k \in Kinds,
           s.doing # NoCmd, t.outq = Append(s.outq, Msg(c, s.doing, k)), t.inq = s.inq,
           t.doing \in {s.doing, NoCmd}
    PROVE  KeepsMine(c, s, t) /\ KeepsClear(s, t) /\ KeepsOnly(s, t)
<1> DEFINE m == Msg(c, s.doing, k)
<1>1. s.outq \in Seq(Messages) /\ s.doing \in Commands
  BY DEF Scripts
<1>2. m \in Messages /\ m.cam = c /\ m.n = s.doing.n
  BY <1>1, Basics
<1> HIDE DEF m
<1>3. /\ Len(s.outq) \in Nat /\ DOMAIN s.outq = 1..Len(s.outq)
      /\ DOMAIN t.outq = 1..(Len(s.outq) + 1) /\ t.outq[Len(s.outq) + 1] = m
      /\ \A l \in 1..Len(s.outq) : t.outq[l] = s.outq[l]
  BY <1>1, <1>2, Appended DEF m
<1>4. \A l \in DOMAIN t.outq : l \in DOMAIN s.outq \/ l = Len(s.outq) + 1
  BY <1>3
<1>5. KeepsMine(c, s, t)
  BY <1>2, <1>3, <1>4 DEF KeepsMine
<1>6. KeepsClear(s, t)
  BY DEF KeepsClear, Clear
<1>7. KeepsOnly(s, t)
  BY <1>2, <1>3, <1>4 DEF KeepsOnly, OnlyOf
<1> QED BY <1>5, <1>6, <1>7

\* A list is sent in its parts.
LEMMA GoesPart ==
    ASSUME NEW c \in Cams, NEW s \in Scripts, s.doing.name = "imglist", s.parts < Parts,
           NEW t, t = [s EXCEPT !.parts = @ + 1, !.outq = Append(@, Msg(c, s.doing, "part"))]
    PROVE  Goes(c, s, t) /\ KeepsDue(s, t)
<1> DEFINE m == Msg(c, s.doing, "part")
<1>1. s.outq \in Seq(Messages) /\ s.doing \in Commands /\ s.parts \in Nat /\ s.doing # NoCmd
  BY DEF Scripts, NoCmd
<1>2. m \in Messages /\ m.n = s.doing.n /\ m.kind = "part" /\ "part" \in Kinds
  BY <1>1, Basics DEF Kinds
<1>3. /\ t \in Scripts /\ t.run = s.run /\ t.inq = s.inq /\ t.doing = s.doing
      /\ t.outq = Append(s.outq, m) /\ t.id = s.id /\ t.parts = s.parts + 1
  <2>1. Append(s.outq, m) \in Seq(Messages)
    BY <1>1, <1>2, Appended
  <2> HIDE DEF m
  <2>2. s.parts + 1 \in Nat
    BY <1>1
  <2> QED BY <2>1, <2>2, <1>1 DEF Scripts, m
<1>4. KeepsMine(c, s, t) /\ KeepsClear(s, t) /\ KeepsOnly(s, t)
  BY <1>1, <1>2, <1>3, OnlySent
<1> HIDE DEF m
<1>5. KeepsList(s, t)
  <2> SUFFICES ASSUME NEW g \in Seq(Messages), NEW e \in Commands, e.name = "imglist",
                      Streaming(s, g, e)
               PROVE  Streaming(t, g, e)
    BY DEF KeepsList
  <2>1. /\ s.inq = <<>> /\ s.doing = e /\ PartsOf(s.outq, e.n) /\ PartsOf(g, e.n)
        /\ Len(g) + Len(s.outq) = s.parts
    BY <1>1 DEF Streaming
  <2>2. /\ Len(t.outq) = Len(s.outq) + 1 /\ Len(s.outq) \in Nat /\ DOMAIN s.outq = 1..Len(s.outq)
        /\ DOMAIN t.outq = 1..(Len(s.outq) + 1) /\ t.outq[Len(s.outq) + 1] = m
        /\ \A l \in 1..Len(s.outq) : t.outq[l] = s.outq[l]
    BY <1>1, <1>2, <1>3, Appended
  <2>3. \A l \in DOMAIN t.outq : l \in DOMAIN s.outq \/ l = Len(s.outq) + 1
    BY <2>2
  <2>4. PartsOf(t.outq, e.n)
    BY <2>1, <2>2, <2>3, <1>2 DEF PartsOf
  <2>5. Len(g) + Len(t.outq) = t.parts /\ t.parts <= Parts
    BY <2>1, <2>2, <1>1, <1>3, MulticamAssumption
  <2> QED BY <2>1, <2>4, <2>5, <1>3 DEF Streaming
<1>6. KeepsDue(s, t)
  BY <1>3 DEF KeepsDue, Due
<1> QED BY <1>3, <1>4, <1>5, <1>6 DEF Goes

\* What ends an exchange is behind all parts.
LEMMA EndsStream ==
    ASSUME NEW c \in Cams, NEW s \in Scripts, NEW t \in Scripts, NEW k \in {"status", "error"},
           s.doing # NoCmd, t.outq = Append(s.outq, Msg(c, s.doing, k)), t.inq = s.inq,
           t.doing = NoCmd, k = "status" /\ s.doing.name = "imglist" => s.parts = Parts
    PROVE  KeepsList(s, t)
<1> SUFFICES ASSUME NEW g \in Seq(Messages), NEW e \in Commands, e.name = "imglist",
                    Streaming(s, g, e)
             PROVE  Streaming(t, g, e)
  BY DEF KeepsList
<1> DEFINE m == Msg(c, s.doing, k)
<1>1. s.outq \in Seq(Messages) /\ s.doing \in Commands /\ s.parts \in Nat /\ k \in Kinds
  BY DEF Scripts, Kinds
<1>2. m \in Messages /\ m.kind = k
  BY <1>1, Basics
<1> HIDE DEF m
<1>3. /\ Len(t.outq) = Len(s.outq) + 1 /\ Len(s.outq) \in Nat /\ DOMAIN s.outq = 1..Len(s.outq)
      /\ DOMAIN t.outq = 1..(Len(s.outq) + 1) /\ t.outq[Len(s.outq) + 1] = m
      /\ \A l \in 1..Len(s.outq) : t.outq[l] = s.outq[l]
  BY <1>1, <1>2, Appended DEF m
<1>4. /\ s.inq = <<>> /\ s.doing = e /\ PartsOf(s.outq, e.n) /\ PartsOf(g, e.n)
      /\ Len(g) + Len(s.outq) = s.parts /\ Len(g) \in Nat
  BY DEF Streaming
<1>5. \A l \in DOMAIN t.outq : l < Len(t.outq) => l \in DOMAIN s.outq
  BY <1>3
<1>6. \A l \in DOMAIN t.outq : l < Len(t.outq) => t.outq[l].n = e.n /\ t.outq[l].kind = "part"
  BY <1>3, <1>4, <1>5 DEF PartsOf
<1>7. k = "status" => Len(g) + Len(t.outq) = Parts + 1
  BY <1>1, <1>3, <1>4, MulticamAssumption
<1>8. Len(t.outq) > 0 /\ t.outq[Len(t.outq)].kind = k
  BY <1>2, <1>3
<1>9. Ended(t.outq, g, e.n)
  BY <1>6, <1>7, <1>8 DEF Ended
<1> QED BY <1>4, <1>9 DEF Streaming

\* It answers a command, and has the id then that it was given.
LEMMA GoesAnswer ==
    ASSUME NEW c \in Cams, NEW s \in Scripts, s.doing # NoCmd,
           s.doing.name = "imglist" => s.parts = Parts,
           NEW t, t = [s EXCEPT !.doing = NoCmd,
                                !.id = IF s.doing.name = "setid" THEN s.doing.id ELSE @,
                                !.done = s.doing.name = "exit",
                                !.outq = Append(@, Msg(c, s.doing, "status"))]
    PROVE  Goes(c, s, t) /\ KeepsDue(s, t)
<1> DEFINE m == Msg(c, s.doing, "status")
<1>1. /\ s.outq \in Seq(Messages) /\ s.doing \in Commands /\ s.doing.id \in Ids /\ s.id \in Ids
      /\ NoCmd \in Commands
  BY Basics DEF Scripts, Commands
<1>2. m \in Messages /\ "status" \in Kinds
  BY <1>1, Basics DEF Kinds
<1>3. /\ t \in Scripts /\ t.run = s.run /\ t.inq = s.inq /\ t.doing = NoCmd
      /\ t.outq = Append(s.outq, m) /\ t.parts = s.parts
      /\ t.id = IF s.doing.name = "setid" THEN s.doing.id ELSE s.id
  <2>1. Append(s.outq, m) \in Seq(Messages)
    BY <1>1, <1>2, Appended
  <2> HIDE DEF m
  <2> QED BY <2>1, <1>1 DEF Scripts, m
<1>4. KeepsMine(c, s, t) /\ KeepsClear(s, t) /\ KeepsOnly(s, t)
  <2>1. /\ t \in Scripts /\ "status" \in Kinds /\ s.doing # NoCmd /\ t.inq = s.inq
        /\ t.outq = Append(s.outq, Msg(c, s.doing, "status")) /\ t.doing \in {s.doing, NoCmd}
    BY <1>2, <1>3
  <2> QED BY ONLY <2>1, OnlySent
<1>5. KeepsList(s, t)
  BY <1>1, <1>2, <1>3, EndsStream
<1>6. KeepsDue(s, t)
  <2>1. t.doing.name # "setid"
    BY <1>3 DEF NoCmd
  <2> QED BY <2>1, <1>3 DEF KeepsDue, Due
<1> QED BY <1>3, <1>4, <1>5, <1>6 DEF Goes

\* It dies; what it was told is lost.
LEMMA GoesDies ==
    ASSUME NEW c \in Cams, NEW s \in Scripts, s.doing # NoCmd,
           NEW t, t = [s EXCEPT !.run = FALSE, !.doing = NoCmd,
                                !.outq = Append(@, Msg(c, s.doing, "error"))]
    PROVE  Goes(c, s, t)
<1> DEFINE m == Msg(c, s.doing, "error")
<1>1. s.outq \in Seq(Messages) /\ s.doing \in Commands /\ NoCmd \in Commands
  BY Basics DEF Scripts, Commands
<1>2. m \in Messages /\ "error" \in Kinds
  BY <1>1, Basics DEF Kinds
<1>3. /\ t \in Scripts /\ ~t.run /\ t.inq = s.inq /\ t.doing = NoCmd
      /\ t.outq = Append(s.outq, m)
  <2>1. Append(s.outq, m) \in Seq(Messages)
    BY <1>1, <1>2, Appended
  <2> HIDE DEF m
  <2> QED BY <2>1, <1>1 DEF Scripts, m
<1>4. KeepsMine(c, s, t) /\ KeepsClear(s, t) /\ KeepsOnly(s, t)
  BY <1>1, <1>2, <1>3, OnlySent
<1>5. KeepsList(s, t)
  BY <1>1, <1>2, <1>3, EndsStream
<1> QED BY <1>3, <1>4, <1>5 DEF Goes

\* Its script ends.
LEMMA GoesEnds ==
    ASSUME NEW c \in Cams, NEW s \in Scripts,
           NEW t, t = [s EXCEPT !.run = FALSE, !.done = FALSE]
    PROVE  Goes(c, s, t) /\ KeepsDue(s, t)
<1>1. /\ t \in Scripts /\ ~t.run /\ t.inq = s.inq /\ t.doing = s.doing /\ t.outq = s.outq
      /\ t.id = s.id /\ t.parts = s.parts
  BY DEF Scripts
<1>2. KeepsMine(c, s, t) /\ KeepsClear(s, t) /\ KeepsOnly(s, t)
  BY <1>1 DEF KeepsMine, KeepsClear, KeepsOnly, Clear, OnlyOf
<1>3. KeepsList(s, t)
  BY <1>1 DEF KeepsList, Streaming
<1>4. KeepsDue(s, t)
  BY <1>1 DEF KeepsDue, Due
<1> QED BY <1>1, <1>2, <1>3, <1>4 DEF Goes

\* What follows for the whole from what one camera keeps.
LEMMA CameraStep ==
    ASSUME MultiInv, NEW c \in Cams, NEW t, Goes(c, script[c], t),
           script' = [script EXCEPT ![c] = t],
           UNCHANGED <<id, known, sel, call, last>>,
           budget' \in [cmds : Nat, faults : Nat, lost : BOOLEAN],
           budget'.lost \/ (~budget.lost /\ KeepsDue(script[c], t))
    PROVE  MultiInv'
<1>1. /\ MultiType /\ TodoInSel /\ (\A d \in Cams : Signed(d))
      /\ AskInv /\ ListInv /\ PendInv /\ IdInv /\ OwnAnswers /\ OwnLists
  BY DEF MultiInv
<1>2. /\ script \in [Cams -> Scripts] /\ t \in Scripts /\ sel \subseteq Cams
      /\ call.cmd \in Commands
  BY <1>1 DEF MultiType, CallType, Goes
<1>3. script' \in [Cams -> Scripts] /\ script'[c] = t
      /\ \A d \in Cams : d # c => script'[d] = script[d]
  BY <1>2
<1>4. MultiType'
  BY <1>1, <1>3 DEF MultiType
<1>5. /\ call' = call /\ sel' = sel /\ id' = id /\ last' = last
  OBVIOUS
<1>6. TodoInSel' /\ PendInv'
  BY <1>1, <1>5 DEF TodoInSel, PendInv
<1>7. \A d \in Cams : Signed(d)'
  <2> SUFFICES ASSUME NEW d \in Cams PROVE Signed(d)'
    OBVIOUS
  <2>1. CASE d = c
    BY <2>1, <1>1, <1>3 DEF Goes, KeepsMine, Signed
  <2>2. CASE d # c
    BY <2>2, <1>1, <1>3 DEF Signed
  <2> QED BY <2>1, <2>2
<1>8. AskInv'
  <2>1. \A d \in Cams : Clear(script[d]) => Clear(script'[d])
    BY <1>3 DEF Goes, KeepsClear
  <2>2. \A d \in Cams : \A n : OnlyOf(script[d], n) => OnlyOf(script'[d], n)
    BY <1>3 DEF Goes, KeepsOnly
  <2>3. (call.pc = "flush" => \A d \in sel \ (call.todo \cup call.late) : Clear(script'[d]))
    BY <1>1, <1>2, <2>1 DEF AskInv
  <2>4. call.pc \in {"send", "poll"} =>
            \A d \in sel \ call.late : OnlyOf(script'[d], call.cmd.n)
    BY <1>1, <1>2, <2>2 DEF AskInv
  <2>5. call.pc = "poll" =>
            /\ DOMAIN call.res = {id[d] : d \in sel}
            /\ Distinct => \A d \in sel \ call.late : Answer(call.res[id[d]], d, call.cmd.n)
    BY <1>1 DEF AskInv
  <2>6. Distinct' <=> Distinct
    BY <1>5 DEF Distinct
  <2>7. call.pc \in {"flush", "send"} /\ call.cmd.name = "setid" =>
            \A d \in sel : id[d] = call.cmd.id
    BY <1>1 DEF AskInv
  <2> QED BY <1>5, <2>3, <2>4, <2>5, <2>6, <2>7 DEF AskInv
<1>9. ListInv'
  <2> SUFFICES ASSUME call.pc \in {"ask", "list"} PROVE ListInv'
    BY <1>5 DEF ListInv
  <2>1. call.got \in [Cams -> Seq(Messages)] /\ call.cmd.name = "imglist"
    BY <1>1 DEF ListInv
  <2>2. \A d \in Cams : Streaming(script[d], call.got[d], call.cmd)
                           => Streaming(script'[d], call.got[d], call.cmd)
    BY <1>2, <1>3, <2>1 DEF Goes, KeepsList
  <2> QED BY <1>1, <1>2, <1>5, <2>2 DEF ListInv
<1>10. IdInv'
  <2> SUFFICES ASSUME ~budget'.lost PROVE IdInv'
    BY DEF IdInv
  <2>1. ~budget.lost /\ KeepsDue(script[c], t)
    OBVIOUS
  <2>2. \A d \in Cams : Told(d)' <=> Told(d)
    BY <1>5 DEF Told
  <2>3. \A d \in Cams : /\ script'[d].run => script[d].run
                        /\ Due(script[d], id[d]) => Due(script'[d], id[d])
    BY <1>3, <2>1 DEF Goes, KeepsDue
  <2>4. OneEach(id, call.pend)
    BY <1>1, <2>1 DEF IdInv
  <2>5. OneEach(id', call'.pend)
    BY <1>5, <2>4
  <2>6. \A d \in Cams : script'[d].run => Due(script'[d], id'[d]) \/ Told(d)'
    BY <1>1, <1>5, <2>1, <2>2, <2>3 DEF IdInv
  <2> QED BY <2>5, <2>6 DEF IdInv
<1>11. OwnAnswers' /\ OwnLists'
  BY <1>1, <1>5 DEF OwnAnswers, OwnLists
<1> QED BY <1>4, <1>6, <1>7, <1>8, <1>9, <1>10, <1>11 DEF MultiInv

\* A call or a script that fails is counted.
LEMMA FailsFacts ==
    ASSUME MultiType, CallFails
    PROVE  budget' \in [cmds : Nat, faults : Nat, lost : BOOLEAN] /\ budget'.lost
<1>1. budget \in [cmds : Nat, faults : Nat, lost : BOOLEAN]
  BY DEF MultiType
<1>2. budget.faults \in Nat /\ budget.faults > 0
  BY <1>1 DEF CallFails
<1>3. budget.faults - 1 \in Nat
  BY <1>2
<1> QED BY <1>1, <1>3 DEF CallFails

\* The steps of a camera.
LEMMA CameraKeeps == ASSUME MultiInv, NEW c \in Cams, CamNext(c) PROVE MultiInv'
<1>1. MultiType /\ script \in [Cams -> Scripts] /\ script[c] \in Scripts
      /\ budget \in [cmds : Nat, faults : Nat, lost : BOOLEAN]
  BY DEF MultiInv, MultiType
<1> DEFINE s == script[c]
<1>2. budget' = budget => budget' \in [cmds : Nat, faults : Nat, lost : BOOLEAN]
                          /\ (budget'.lost \/ ~budget.lost)
  BY <1>1
<1>3. CASE CamReads(c)
  <2> DEFINE t == [s EXCEPT !.doing = Head(s.inq), !.inq = Tail(@), !.parts = 0]
  <2>1. script' = [script EXCEPT ![c] = t]
    BY <1>1, <1>3 DEF CamReads
  <2>2. s.inq # <<>> /\ s.doing = NoCmd /\ UNCHANGED <<id, known, sel, call, last, budget>>
    BY <1>3 DEF CamReads
  <2>3. Goes(c, s, t) /\ KeepsDue(s, t)
    BY <1>1, <2>2, GoesTake
  <2> HIDE DEF t
  <2> QED BY <1>2, <2>1, <2>2, <2>3, CameraStep
<1>4. CASE CamSendsPart(c)
  <2> DEFINE t == [s EXCEPT !.parts = @ + 1, !.outq = Append(@, Msg(c, s.doing, "part"))]
  <2>1. script' = [script EXCEPT ![c] = t]
    BY <1>1, <1>4 DEF CamSendsPart
  <2>2. /\ s.doing.name = "imglist" /\ s.parts < Parts
        /\ UNCHANGED <<id, known, sel, call, last, budget>>
    BY <1>4 DEF CamSendsPart
  <2>3. Goes(c, s, t) /\ KeepsDue(s, t)
    BY <1>1, <2>2, GoesPart
  <2> HIDE DEF t
  <2> QED BY <1>2, <2>1, <2>2, <2>3, CameraStep
<1>5. CASE CamAnswers(c)
  <2> DEFINE t == [s EXCEPT !.doing = NoCmd,
                            !.id = IF s.doing.name = "setid" THEN s.doing.id ELSE @,
                            !.done = s.doing.name = "exit",
                            !.outq = Append(@, Msg(c, s.doing, "status"))]
  <2>1. script' = [script EXCEPT ![c] = t]
    BY <1>1, <1>5 DEF CamAnswers
  <2>2. /\ s.doing # NoCmd /\ (s.doing.name = "imglist" => s.parts = Parts)
        /\ UNCHANGED <<id, known, sel, call, last, budget>>
    BY <1>5 DEF CamAnswers
  <2>3. Goes(c, s, t) /\ KeepsDue(s, t)
    BY <1>1, <2>2, GoesAnswer
  <2> HIDE DEF t
  <2> QED BY <1>2, <2>1, <2>2, <2>3, CameraStep
<1>6. CASE CamEnds(c)
  <2> DEFINE t == [s EXCEPT !.run = FALSE, !.done = FALSE]
  <2>1. script' = [script EXCEPT ![c] = t]
    BY <1>1, <1>6 DEF CamEnds
  <2>2. UNCHANGED <<id, known, sel, call, last, budget>>
    BY <1>6 DEF CamEnds
  <2>3. Goes(c, s, t) /\ KeepsDue(s, t)
    BY <1>1, GoesEnds
  <2> HIDE DEF t
  <2> QED BY <1>2, <2>1, <2>2, <2>3, CameraStep
<1>7. CASE CamDies(c)
  <2> DEFINE t == [s EXCEPT !.run = FALSE, !.doing = NoCmd,
                            !.outq = Append(@, Msg(c, s.doing, "error"))]
  <2>1. script' = [script EXCEPT ![c] = t]
    BY <1>1, <1>7 DEF CamDies
  <2>2. s.doing # NoCmd /\ CallFails /\ UNCHANGED <<id, known, sel, call, last>>
    BY <1>7 DEF CamDies
  <2>3. Goes(c, s, t)
    BY <1>1, <2>2, GoesDies
  <2>4. budget' \in [cmds : Nat, faults : Nat, lost : BOOLEAN] /\ budget'.lost
    BY <1>1, <2>2, FailsFacts
  <2> HIDE DEF t
  <2> QED BY <2>1, <2>2, <2>3, <2>4, CameraStep
<1> QED BY <1>3, <1>4, <1>5, <1>6, <1>7 DEF CamNext

-----------------------------------------------------------------------------
(* The host.  After each step it is in a command, in a list, or in neither. *)

AllSigned == \A d \in Cams : Signed(d)

\* In neither.
LEMMA Apart ==
    ASSUME MultiType', TodoInSel', AllSigned', PendInv', IdInv', OwnAnswers', OwnLists',
           call'.pc \notin {"flush", "send", "poll", "ask", "list"}
    PROVE  MultiInv'
<1>1. AskInv' /\ ListInv'
  BY DEF AskInv, ListInv
<1> QED BY <1>1 DEF MultiInv, AllSigned

\* In a command.
LEMMA InCommand ==
    ASSUME MultiType', TodoInSel', AllSigned', AskInv', IdInv', OwnAnswers', OwnLists',
           call'.pc \in {"flush", "send", "poll"}
    PROVE  MultiInv'
<1>1. PendInv' /\ ListInv'
  BY DEF PendInv, ListInv
<1> QED BY <1>1 DEF MultiInv, AllSigned

\* In a list.
LEMMA InList ==
    ASSUME MultiType', TodoInSel', AllSigned', ListInv', PendInv', IdInv', OwnAnswers', OwnLists',
           call'.pc \in {"ask", "list"}
    PROVE  MultiInv'
<1>1. AskInv'
  BY DEF AskInv
<1> QED BY <1>1 DEF MultiInv, AllSigned

\* The parts of the invariant, and the types of what a step reads.
LEMMA Parted ==
    ASSUME MultiInv
    PROVE  /\ MultiType /\ TodoInSel /\ AllSigned /\ AskInv /\ ListInv /\ PendInv /\ IdInv
           /\ OwnAnswers /\ OwnLists
           /\ script \in [Cams -> Scripts] /\ id \in [Cams -> Ids] /\ known \in [Cams -> BOOLEAN]
           /\ sel \in SUBSET Cams /\ call \in CallType /\ DOMAIN last = DOMAIN NoCall
           /\ budget \in [cmds : Nat, faults : Nat, lost : BOOLEAN]
           /\ call.todo \in SUBSET Cams /\ call.cmd \in Commands /\ call.late \in SUBSET Cams
           /\ call.n \in Nat /\ call.saved \in SUBSET Cams
<1>1. MultiType
  BY DEF MultiInv
<1>2. call \in CallType
  BY <1>1 DEF MultiType
<1>3. /\ call.todo \in SUBSET Cams /\ call.cmd \in Commands /\ call.late \in SUBSET Cams
      /\ call.n \in Nat /\ call.saved \in SUBSET Cams
  BY <1>2 DEF CallType
<1> QED BY <1>1, <1>3 DEF MultiInv, AllSigned, MultiType

\* What was returned before stays true.
LEMMA LastKept ==
    ASSUME MultiInv, last' = last PROVE OwnAnswers' /\ OwnLists'
BY Parted DEF OwnAnswers, OwnLists

\* What is returned of other calls says nothing of answers.
LEMMA LastOther ==
    ASSUME last'.op \notin {"cmd", "batch"} PROVE OwnAnswers' /\ OwnLists'
BY DEF OwnAnswers, OwnLists

\* A call that begins has returned nothing.
LEMMA NoneYet ==
    ASSUME last' = NoCall
    PROVE  OwnAnswers' /\ OwnLists' /\ DOMAIN last' = DOMAIN NoCall
<1>1. last'.op = "none"
  BY DEF NoCall
<1> QED BY <1>1, LastOther

\* Ids stay true where the host sets none and what scripts have to do about ids
\* is the same.
LEMMA IdSame ==
    ASSUME MultiInv, budget.lost => budget'.lost, id' = id, call'.pend = call.pend,
           \A d \in Cams : /\ script'[d].run => script[d].run
                           /\ Due(script[d], id[d]) => Due(script'[d], id[d]),
           \A d \in Cams : Told(d) => Told(d)' \/ ~script'[d].run \/ Due(script'[d], id[d])
    PROVE  IdInv'
<1> SUFFICES ASSUME ~budget'.lost PROVE IdInv'
  BY DEF IdInv
<1>1. /\ OneEach(id, call.pend)
      /\ \A d \in Cams : script[d].run => Due(script[d], id[d]) \/ Told(d)
  BY Parted DEF IdInv
<1>2. OneEach(id', call'.pend)
  BY <1>1
<1>3. \A d \in Cams : script'[d].run => Due(script'[d], id'[d]) \/ Told(d)'
  BY <1>1
<1> QED BY <1>2, <1>3 DEF IdInv

\* Where no script changes.
LEMMA ScriptsSame ==
    ASSUME MultiInv, script' = script
    PROVE  /\ AllSigned'
           /\ \A d \in Cams : /\ script'[d].run => script[d].run
                              /\ Due(script[d], id[d]) => Due(script'[d], id[d])
<1>1. AllSigned
  BY Parted
<1> QED BY <1>1 DEF AllSigned, Signed

\* The first of the cameras to visit is one of them.
LEMMA FirstTodo ==
    ASSUME MultiInv, call.todo # {} PROVE First(call.todo) \in call.todo
BY Parted, FirstIn, MulticamAssumption

\* A set_id in progress is told to nobody in other calls.
LEMMA NotTold ==
    ASSUME call.pc \notin {"flush", "send"} \/ (call.pc = "send" /\ call.todo = {})
    PROVE  \A d \in Cams : ~Told(d)
BY DEF Told

-----------------------------------------------------------------------------
(* Calls that begin.                                                       *)

\* The call in progress is that of a command that begins at p with cameras S.
Begins(cmd, wait, p, S) == call' = [Started(cmd, wait, call) EXCEPT !.pc = p, !.todo = S]

\* What a command begins with.
LEMMA StartedFacts ==
    ASSUME MultiInv, NEW cmd \in Commands, NEW wait \in BOOLEAN, NEW S \in SUBSET Cams,
           NEW p \in CallPcs, Begins(cmd, wait, p, S)
    PROVE  /\ call' \in CallType /\ call'.pc = p /\ call'.cmd = cmd /\ call'.todo = S
           /\ call'.late = {} /\ call'.got = [c \in Cams |-> <<>>] /\ call'.pend = call.pend
           /\ call'.saved = call.saved
<1>1. [c \in Cams |-> <<>>] \in GotSets
  BY DEF GotSets
<1>2. cmd.n \in Nat
  BY DEF Commands
<1> QED BY <1>1, <1>2, Parted DEF Begins, Started, CallType

\* mc:cmd is called.
LEMMA CmdKeeps ==
    ASSUME MultiInv, NEW name \in Names, NEW wait \in BOOLEAN, Cmd(name, wait) PROVE MultiInv'
<1> DEFINE cmd == [n |-> call.n + 1, name |-> name, id |-> 0]
<1>1. cmd \in Commands
  BY Parted DEF Commands, CmdNames, Ids
<1>3. Begins(cmd, wait, "flush", sel)
  <2>1. call' = [Started(cmd, wait, call) EXCEPT !.todo = sel]
    BY DEF Cmd
  <2> QED BY <2>1, <1>1, Parted DEF Begins, Started, CallType
<1>4. /\ call' \in CallType /\ call'.pc = "flush" /\ call'.cmd = cmd /\ call'.todo = sel
      /\ call'.late = {} /\ call'.pend = call.pend
  <2>1. "flush" \in CallPcs
    BY DEF CallPcs
  <2>2. sel \in SUBSET Cams
    BY Parted
  <2> HIDE DEF cmd
  <2> QED BY <1>1, <1>3, <2>1, <2>2, StartedFacts
<1>5. call.pc = "idle" /\ last' = NoCall /\ UNCHANGED <<script, id, known, sel, budget>>
  BY DEF Cmd
<1>6. OwnAnswers' /\ OwnLists' /\ DOMAIN last' = DOMAIN NoCall
  BY <1>5, NoneYet
<1>7. MultiType'
  BY <1>4, <1>5, <1>6, Parted DEF MultiType
<1>8. TodoInSel' /\ AskInv'
  <2>1. call'.cmd.name # "setid"
    BY <1>4, MulticamAssumption
  <2> QED BY <1>4, <1>5, <2>1 DEF TodoInSel, AskInv
<1>9. \A d \in Cams : ~Told(d)
  BY <1>5, NotTold
<1>10. IdInv' /\ AllSigned'
  BY <1>4, <1>5, <1>9, IdSame, ScriptsSame
<1> QED BY <1>4, <1>6, <1>7, <1>8, <1>10, InCommand

\* A list is asked for.
LEMMA BatchKeeps == ASSUME MultiInv, Batch PROVE MultiInv'
<1> DEFINE cmd == [n |-> call.n + 1, name |-> "imglist", id |-> 0]
<1>1. cmd \in Commands /\ cmd.name = "imglist"
  BY Parted DEF Commands, CmdNames, Ids
<1>2. Begins(cmd, TRUE, "ask", sel)
  BY DEF Batch, Begins
<1>3. /\ call' \in CallType /\ call'.pc = "ask" /\ call'.cmd = cmd /\ call'.todo = sel
      /\ call'.late = {} /\ call'.got = [c \in Cams |-> <<>>] /\ call'.pend = call.pend
  <2>1. "ask" \in CallPcs /\ sel \in SUBSET Cams
    BY Parted DEF CallPcs
  <2> HIDE DEF cmd
  <2> QED BY <1>1, <1>2, <2>1, StartedFacts
<1>4. call.pc = "idle" /\ last' = NoCall /\ UNCHANGED <<script, id, known, sel, budget>>
  BY DEF Batch
<1>5. OwnAnswers' /\ OwnLists' /\ DOMAIN last' = DOMAIN NoCall
  BY <1>4, NoneYet
<1>6. MultiType'
  BY <1>3, <1>4, <1>5, Parted DEF MultiType
<1>7. TodoInSel'
  BY <1>3, <1>4 DEF TodoInSel
<1>8. call.pend = <<>>
  BY <1>4, Parted DEF PendInv
<1>9. PendInv'
  BY <1>3, <1>8 DEF PendInv
<1>10. ListInv'
  <2>1. call'.got \in [Cams -> Seq(Messages)] /\ \A c \in Cams : call'.got[c] = <<>>
    BY <1>3
  <2>2. call'.cmd.name = "imglist"
    BY <1>1, <1>3
  <2>3. \A c \in sel' \ call'.late : c \in call'.todo /\ c \in Cams
    BY <1>3, <1>4, Parted
  <2> QED BY <1>3, <2>1, <2>2, <2>3 DEF ListInv
<1>11. \A d \in Cams : ~Told(d)
  BY <1>4, NotTold
<1>12. IdInv' /\ AllSigned'
  BY <1>3, <1>4, <1>11, IdSame, ScriptsSame
<1> QED BY <1>3, <1>5, <1>6, <1>7, <1>9, <1>10, <1>12, InList

\* Scripts are to be started.
LEMMA StartKeeps == ASSUME MultiInv, Start PROVE MultiInv'
<1> DEFINE cmd == [n |-> call.n + 1, name |-> "exit", id |-> 0]
<1>1. cmd \in Commands
  BY Parted DEF Commands, CmdNames, Ids
<1>2. Begins(cmd, TRUE, "start", sel)
  BY DEF Start, Begins
<1>3. /\ call' \in CallType /\ call'.pc = "start" /\ call'.todo = sel /\ call'.pend = call.pend
      /\ call'.cmd = cmd
  <2>1. "start" \in CallPcs /\ sel \in SUBSET Cams
    BY Parted DEF CallPcs
  <2> HIDE DEF cmd
  <2> QED BY <1>1, <1>2, <2>1, StartedFacts
<1>4. call.pc = "idle" /\ last' = NoCall /\ UNCHANGED <<script, id, known, sel, budget>>
  BY DEF Start
<1>5. OwnAnswers' /\ OwnLists' /\ DOMAIN last' = DOMAIN NoCall
  BY <1>4, NoneYet
<1>6. MultiType'
  BY <1>3, <1>4, <1>5, Parted DEF MultiType
<1>7. TodoInSel'
  BY <1>3, <1>4 DEF TodoInSel
<1>8. call.pend = <<>>
  BY <1>4, Parted DEF PendInv
<1>9. PendInv'
  <2>1. cmd.name # "setid"
    OBVIOUS
  <2> HIDE DEF cmd
  <2> QED BY <1>3, <1>8, <2>1 DEF PendInv
<1>10. \A d \in Cams : ~Told(d)
  BY <1>4, NotTold
<1>11. IdInv' /\ AllSigned'
  BY <1>3, <1>4, <1>10, IdSame, ScriptsSame
<1> QED BY <1>3, <1>5, <1>6, <1>7, <1>9, <1>11, Apart

\* Cameras are selected.
LEMMA SelectKeeps == ASSUME MultiInv, NEW S \in SUBSET Cams, Select(S) PROVE MultiInv'
<1>1. /\ call.pc = "idle" /\ call' = call /\ sel' = S /\ last' = NoCall
      /\ UNCHANGED <<script, id, known, budget>>
  BY DEF Select
<1>2. OwnAnswers' /\ OwnLists' /\ DOMAIN last' = DOMAIN NoCall
  BY <1>1, NoneYet
<1>3. MultiType'
  BY <1>1, <1>2, Parted DEF MultiType
<1>4. TodoInSel' /\ PendInv'
  BY <1>1, Parted DEF TodoInSel, PendInv
<1>5. \A d \in Cams : ~Told(d)
  BY <1>1, NotTold
<1>6. IdInv' /\ AllSigned'
  BY <1>1, <1>5, IdSame, ScriptsSame
<1> QED BY <1>1, <1>2, <1>3, <1>4, <1>6, Apart

-----------------------------------------------------------------------------
(* set_id.                                                                 *)

\* Two in a row.
LEMMA TwoSwaps ==
    ASSUME NEW T, NEW x \in T, NEW y \in T PROVE <<x>> \o <<y>> = <<x, y>>
<1>1. <<x>> \in Seq(T) /\ <<y>> \in Seq(T)
  OBVIOUS
<1>2. <<x>> \o <<y>> \in Seq(T)
  BY <1>1, ConcatProperties
<1>3. Len(<<x>> \o <<y>>) = 2 /\ (<<x>> \o <<y>>)[1] = x /\ (<<x>> \o <<y>>)[2] = y
  OBVIOUS
<1>4. <<x, y>> \in Seq(T) /\ Len(<<x, y>>) = 2 /\ <<x, y>>[1] = x /\ <<x, y>>[2] = y
  OBVIOUS
<1>5. \A i \in 1..2 : (<<x>> \o <<y>>)[i] = <<x, y>>[i]
  <2>1. \A i \in 1..2 : i = 1 \/ i = 2
    OBVIOUS
  <2> QED BY <1>3, <1>4, <2>1
<1> DEFINE u == <<x>> \o <<y>>
        v == <<x, y>>
<1>6. u \in Seq(T) /\ v \in Seq(T) /\ Len(u) = Len(v) /\ \A i \in 1..Len(u) : u[i] = v[i]
  BY <1>2, <1>3, <1>4, <1>5
<1> HIDE DEF u, v
<1>7. u = v
  BY <1>6, SeqEqual
<1> QED BY <1>7 DEF u, v

\* The commands of a set_id, once all are carried out, leave each camera an id
\* of its own.
LEMMA SwapsApart ==
    ASSUME id \in [Cams -> Ids], IsInjective(id), NEW c \in Cams, NEW new \in Ids
    PROVE  OneEach(id, Swaps(c, id[c], new)) /\ Swaps(c, id[c], new) \in Pendings
<1> DEFINE conflict == {d \in Cams : id[d] = new}
<1>1. id[c] \in Ids
  OBVIOUS
<1>2. CASE conflict = {}
  <2>1. Swaps(c, id[c], new) = << <<c, new>> >>
    BY <1>2 DEF Swaps
  <2>2. IsInjective([id EXCEPT ![c] = new])
    BY <1>2 DEF IsInjective
  <2>3. << <<c, new>> >> \in Seq(Cams \X Ids)
    OBVIOUS
  <2> QED BY <2>1, <2>2, <2>3 DEF OneEach, Pendings
<1>3. CASE conflict # {}
  <2> DEFINE e == First(conflict)
  <2>1. e \in conflict
    <3>1. conflict \subseteq Nat
      BY MulticamAssumption
    <3> QED BY <3>1, <1>3, FirstIn
  <2>2. Swaps(c, id[c], new) = << <<e, id[c]>>, <<c, new>> >>
    <3>1. <<e, id[c]>> \in Cams \X Ids /\ <<c, new>> \in Cams \X Ids
      BY <1>1, <2>1
    <3>2. << <<e, id[c]>> >> \o << <<c, new>> >> = << <<e, id[c]>>, <<c, new>> >>
      BY <3>1, TwoSwaps
    <3> QED BY <1>3, <3>2 DEF Swaps
  <2>3. e \in Cams /\ id[e] = new
    BY <2>1
  <2> HIDE DEF e, conflict
  <2>4. IsInjective([[id EXCEPT ![e] = id[c]] EXCEPT ![c] = new])
    BY <2>3 DEF IsInjective
  <2>5. << <<e, id[c]>>, <<c, new>> >> \in Seq(Cams \X Ids)
    BY <2>3
  <2>6. OneEach(id, << <<e, id[c]>>, <<c, new>> >>)
    BY <2>3, <2>4 DEF OneEach
  <2> QED BY <2>2, <2>5, <2>6 DEF Pendings
<1> QED BY <1>2, <1>3

\* set_id is called.
LEMMA SetIdKeeps == ASSUME MultiInv, NEW c \in Cams, SetId(c, First(Cams)) PROVE MultiInv'
<1> DEFINE p == Swaps(c, id[c], First(Cams))
<1>1. /\ call.pc = "idle" /\ call' = [call EXCEPT !.pc = "setid", !.pend = p] /\ last' = NoCall
      /\ UNCHANGED <<script, id, known, sel, budget>>
  BY DEF SetId
<1>2. First(Cams) \in Ids
  BY DEF Ids
<1>3. p \in Pendings
  <2>1. First({d \in Cams : id[d] = First(Cams)}) \in Cams \/ {d \in Cams : id[d] = First(Cams)} = {}
    <3>1. {d \in Cams : id[d] = First(Cams)} \subseteq Nat
      BY MulticamAssumption
    <3> QED BY <3>1, FirstIn
  <2>2. id[c] \in Ids
    BY Parted
  <2>3. CASE {d \in Cams : id[d] = First(Cams)} = {}
    <3>1. p = << <<c, First(Cams)>> >>
      BY <2>3 DEF Swaps
    <3> QED BY <3>1, <1>2 DEF Pendings
  <2>4. CASE {d \in Cams : id[d] = First(Cams)} # {}
    <3>1. p = << <<First({d \in Cams : id[d] = First(Cams)}), id[c]>>, <<c, First(Cams)>> >>
      <4> DEFINE e == First({d \in Cams : id[d] = First(Cams)})
      <4>1. <<e, id[c]>> \in Cams \X Ids /\ <<c, First(Cams)>> \in Cams \X Ids
        BY <1>2, <2>1, <2>2, <2>4
      <4>2. << <<e, id[c]>> >> \o << <<c, First(Cams)>> >> = << <<e, id[c]>>, <<c, First(Cams)>> >>
        BY <4>1, TwoSwaps
      <4> QED BY <2>4, <4>2 DEF Swaps
    <3> QED BY <3>1, <1>2, <2>1, <2>2, <2>4 DEF Pendings
  <2> QED BY <2>3, <2>4
<1> HIDE DEF p
<1>4. call' \in CallType /\ call'.pc = "setid" /\ call'.pend = p
  BY <1>1, <1>3, Parted DEF CallType, CallPcs
<1>5. OwnAnswers' /\ OwnLists' /\ DOMAIN last' = DOMAIN NoCall
  BY <1>1, NoneYet
<1>6. MultiType'
  BY <1>1, <1>4, <1>5, Parted DEF MultiType
<1>7. TodoInSel' /\ PendInv'
  BY <1>4 DEF TodoInSel, PendInv
<1>8. AllSigned'
  BY <1>1, ScriptsSame
<1>9. IdInv'
  <2> SUFFICES ASSUME ~budget'.lost PROVE IdInv'
    BY DEF IdInv
  <2>1. OneEach(id, call.pend) /\ \A d \in Cams : script[d].run => Due(script[d], id[d]) \/ Told(d)
    BY <1>1, Parted DEF IdInv
  <2>2. call.pend = <<>>
    BY <1>1, Parted DEF PendInv
  <2>3. IsInjective(id)
    BY <2>1, <2>2 DEF OneEach
  <2>4. OneEach(id, p)
    BY <2>3, <1>2, SwapsApart, Parted DEF p
  <2>5. \A d \in Cams : ~Told(d)
    BY <1>1, NotTold
  <2>6. OneEach(id', call'.pend)
    BY <1>1, <1>4, <2>4
  <2>7. \A d \in Cams : script'[d].run => Due(script'[d], id'[d])
    BY <1>1, <2>1, <2>5
  <2> QED BY <2>6, <2>7 DEF IdInv
<1> QED BY <1>4, <1>5, <1>6, <1>7, <1>8, <1>9, Apart

\* Carrying out the first of them leaves the others to do.
LEMMA SwapDone ==
    ASSUME NEW f \in [Cams -> Ids], NEW p \in Seq(Cams \X Ids), p # <<>>, OneEach(f, p)
    PROVE  OneEach([f EXCEPT ![Head(p)[1]] = Head(p)[2]], Tail(p))
<1>1. CASE \E c \in Cams, i \in Ids : p = << <<c, i>> >> /\ IsInjective([f EXCEPT ![c] = i])
  <2>1. PICK c \in Cams, i \in Ids : p = << <<c, i>> >> /\ IsInjective([f EXCEPT ![c] = i])
    BY <1>1
  <2>2. Head(p)[1] = c /\ Head(p)[2] = i /\ Tail(p) = <<>>
    BY <2>1
  <2> QED BY <2>1, <2>2 DEF OneEach
<1>2. CASE \E c, d \in Cams, i, j \in Ids :
              p = << <<d, j>>, <<c, i>> >> /\ IsInjective([[f EXCEPT ![d] = j] EXCEPT ![c] = i])
  <2>1. PICK c \in Cams, d \in Cams, i \in Ids, j \in Ids :
              p = << <<d, j>>, <<c, i>> >> /\ IsInjective([[f EXCEPT ![d] = j] EXCEPT ![c] = i])
    BY <1>2
  <2>2. Head(p)[1] = d /\ Head(p)[2] = j
    BY <2>1
  <2>3. Tail(p) = << <<c, i>> >>
    <3> DEFINE u == Tail(p)
            v == << <<c, i>> >>
    <3>1. v \in Seq(Cams \X Ids) /\ Len(v) = 1 /\ v[1] = <<c, i>>
      OBVIOUS
    <3>2. Len(p) = 2 /\ p[2] = <<c, i>>
      BY <2>1
    <3>3. /\ u \in Seq(Cams \X Ids) /\ Len(u) = Len(p) - 1
          /\ \A k \in 1..(Len(p) - 1) : u[k] = p[k + 1]
      BY Tailed
    <3> HIDE DEF u, v
    <3>4. Len(u) = 1 /\ u[1] = <<c, i>> /\ \A k \in 1..Len(u) : u[k] = v[k]
      <4>1. Len(u) = 1
        BY <3>2, <3>3
      <4>2. 1 \in 1..(Len(p) - 1) /\ 1 + 1 = 2
        BY <3>2
      <4>3. u[1] = <<c, i>>
        BY <3>2, <3>3, <4>2
      <4>4. \A k \in 1..Len(u) : k = 1
        BY <4>1
      <4> QED BY <3>1, <4>1, <4>3, <4>4
    <3>5. u = v
      BY <3>1, <3>3, <3>4, SeqEqual
    <3> QED BY <3>5 DEF u, v
  <2> DEFINE g == [f EXCEPT ![d] = j]
  <2>4. IsInjective([g EXCEPT ![c] = i])
    BY <2>1
  <2> HIDE DEF g
  <2>5. OneEach(g, << <<c, i>> >>)
    BY <2>4 DEF OneEach
  <2> QED BY <2>2, <2>3, <2>5 DEF g
<1> QED BY <1>1, <1>2 DEF OneEach

\* No call is in progress.
LEMMA IdleFacts ==
    ASSUME NEW n \in Nat, NEW p \in Pendings, NEW s \in SUBSET Cams, NEW pc \in {"idle", "setid"},
           call' = [Idle EXCEPT !.n = n, !.pend = p, !.saved = s, !.pc = pc]
    PROVE  call' \in CallType /\ call'.pc = pc /\ call'.pend = p /\ call'.todo = {}
BY Basics DEF Idle, CallType, CallPcs

\* The same, after an error.
LEMMA IdleThrown ==
    ASSUME NEW n \in Nat, call' = [Idle EXCEPT !.n = n]
    PROVE  call' \in CallType /\ call'.pc = "idle" /\ call'.pend = <<>> /\ call'.todo = {}
BY Basics DEF Idle, CallType, CallPcs

\* The result of an error.
LEMMA ThrewFacts ==
    ASSUME last' = [NoCall EXCEPT !.op = "threw"]
    PROVE  OwnAnswers' /\ OwnLists' /\ DOMAIN last' = DOMAIN NoCall
<1>1. last'.op = "threw" /\ DOMAIN last' = DOMAIN NoCall
  BY DEF NoCall
<1> QED BY <1>1, LastOther

\* A camera is given its id.
LEMMA SetIdCamKeeps == ASSUME MultiInv, SetIdCam PROVE MultiInv'
<1>1. PICK c, new, rest, saved, cmd :
        /\ c = Head(call.pend)[1] /\ new = Head(call.pend)[2] /\ rest = Tail(call.pend)
        /\ saved = IF call.saved = {} THEN sel ELSE call.saved
        /\ cmd = [n |-> call.n + 1, name |-> "setid", id |-> new]
  OBVIOUS
<1>2. call.pc = "setid" /\ call.pend # <<>> /\ id' = [id EXCEPT ![c] = new] /\ UNCHANGED <<script, known>>
  BY <1>1 DEF SetIdCam
<1>3. /\ call.pend \in Seq(Cams \X Ids) /\ Head(call.pend) \in Cams \X Ids
      /\ rest \in Seq(Cams \X Ids)
  <2>1. call.pend \in Seq(Cams \X Ids)
    BY Parted DEF CallType, Pendings
  <2> QED BY <1>1, <1>2, <2>1, Tailed
<1>4. c \in Cams /\ new \in Ids /\ rest \in Pendings /\ saved \in SUBSET Cams
  BY <1>1, <1>3, Parted DEF Pendings
<1>5. cmd \in Commands /\ cmd.name = "setid" /\ cmd.id = new
  BY <1>1, <1>4, Parted DEF Commands, CmdNames
<1>6. AllSigned'
  BY <1>2, ScriptsSame
<1>7. id' \in [Cams -> Ids] /\ id'[c] = new /\ \A d \in Cams : d # c => id'[d] = id[d]
  BY <1>2, <1>4, Parted
<1>8. ~budget.lost => OneEach(id', rest)
  <2> SUFFICES ASSUME ~budget.lost PROVE OneEach(id', rest)
    OBVIOUS
  <2>1. OneEach(id, call.pend) /\ id \in [Cams -> Ids]
    BY Parted DEF IdInv
  <2> QED BY <1>1, <1>2, <1>3, <2>1, SwapDone
<1>9. ~budget.lost => \A d \in Cams : d # c /\ script[d].run => Due(script'[d], id'[d])
  <2> SUFFICES ASSUME ~budget.lost, NEW d \in Cams, d # c, script[d].run PROVE Due(script'[d], id'[d])
    OBVIOUS
  <2>1. ~Told(d)
    BY <1>2, NotTold
  <2>2. Due(script[d], id[d])
    BY <2>1, Parted DEF IdInv
  <2> QED BY <1>2, <1>7, <2>2
<1>10. \/ /\ script[c].run /\ CallWorks /\ sel' = {c} /\ UNCHANGED last
          /\ call' = [Started(cmd, TRUE, call) EXCEPT !.todo = {c}, !.pend = rest, !.saved = saved]
       \/ /\ ~script[c].run /\ CallWorks /\ UNCHANGED <<sel, last>>
          /\ call' = [call EXCEPT !.pend = rest, !.saved = saved]
       \/ /\ CallFails /\ sel' = saved
          /\ last' = [NoCall EXCEPT !.op = "threw"]
          /\ call' = [Idle EXCEPT !.n = call.n]
  BY <1>1 DEF SetIdCam
<1>11. CASE /\ script[c].run /\ CallWorks /\ sel' = {c} /\ UNCHANGED last
            /\ call' = [Started(cmd, TRUE, call) EXCEPT !.todo = {c}, !.pend = rest, !.saved = saved]
  <2>1. /\ call' \in CallType /\ call'.pc = "flush" /\ call'.cmd = cmd /\ call'.todo = {c}
        /\ call'.late = {} /\ call'.pend = rest
    <3>1. [d \in Cams |-> <<>>] \in GotSets
      BY DEF GotSets
    <3>2. cmd.n \in Nat /\ "flush" \in CallPcs
      BY <1>5 DEF Commands, CallPcs
    <3>3. Started(cmd, TRUE, call) \in CallType /\ Started(cmd, TRUE, call).pc = "flush"
          /\ Started(cmd, TRUE, call).cmd = cmd /\ Started(cmd, TRUE, call).late = {}
      BY <1>5, <3>1, <3>2, Parted DEF Started, CallType
    <3> DEFINE h == Started(cmd, TRUE, call)
    <3> HIDE DEF h
    <3> QED BY <1>4, <1>11, <3>3 DEF h, CallType
  <2>2. OwnAnswers' /\ OwnLists'
    BY <1>11, LastKept
  <2>3. budget' = budget
    BY <1>11 DEF CallWorks
  <2>4. MultiType'
    BY <1>2, <1>4, <1>7, <1>11, <2>1, <2>3, Parted DEF MultiType
  <2>5. TodoInSel' /\ AskInv'
    <3>1. \A d \in sel' : id'[d] = call'.cmd.id
      BY <1>5, <1>7, <1>11, <2>1
    <3> QED BY <1>11, <2>1, <3>1 DEF TodoInSel, AskInv
  <2>6. Told(c)'
    BY <1>5, <1>7, <1>11, <2>1 DEF Told
  <2>7. IdInv'
    BY <1>2, <1>8, <1>9, <2>1, <2>3, <2>6 DEF IdInv
  <2> QED BY <1>6, <2>1, <2>2, <2>4, <2>5, <2>7, InCommand
<1>12. CASE /\ ~script[c].run /\ CallWorks /\ UNCHANGED <<sel, last>>
            /\ call' = [call EXCEPT !.pend = rest, !.saved = saved]
  <2>1. call' \in CallType /\ call'.pc = "setid" /\ call'.pend = rest
    BY <1>2, <1>4, <1>12, Parted DEF CallType
  <2>2. OwnAnswers' /\ OwnLists'
    BY <1>12, LastKept
  <2>3. budget' = budget
    BY <1>12 DEF CallWorks
  <2>4. MultiType'
    BY <1>2, <1>7, <1>12, <2>1, <2>3, Parted DEF MultiType
  <2>5. TodoInSel' /\ PendInv'
    BY <2>1 DEF TodoInSel, PendInv
  <2>6. IdInv'
    BY <1>2, <1>8, <1>9, <1>12, <2>1, <2>3 DEF IdInv
  <2> QED BY <1>6, <2>1, <2>2, <2>4, <2>5, <2>6, Apart
<1>13. CASE /\ CallFails /\ sel' = saved
            /\ last' = [NoCall EXCEPT !.op = "threw"]
            /\ call' = [Idle EXCEPT !.n = call.n]
  <2>1. call' \in CallType /\ call'.pc = "idle" /\ call'.pend = <<>>
    BY <1>13, IdleThrown, Parted
  <2>2. OwnAnswers' /\ OwnLists' /\ DOMAIN last' = DOMAIN NoCall
    BY <1>13, ThrewFacts
  <2>3. budget' \in [cmds : Nat, faults : Nat, lost : BOOLEAN] /\ budget'.lost
    BY <1>13, FailsFacts, Parted
  <2>4. MultiType'
    BY <1>2, <1>4, <1>7, <1>13, <2>1, <2>2, <2>3, Parted DEF MultiType
  <2>5. TodoInSel' /\ PendInv'
    BY <2>1 DEF TodoInSel, PendInv
  <2>6. IdInv'
    BY <2>3 DEF IdInv
  <2> QED BY <1>6, <2>1, <2>2, <2>4, <2>5, <2>6, Apart
<1> QED BY <1>10, <1>11, <1>12, <1>13

\* All have been asked, and all cameras are selected.
LEMMA SetIdEndsKeeps == ASSUME MultiInv, SetIdEnds PROVE MultiInv'
<1>1. /\ call.pc = "setid" /\ call.pend = <<>> /\ sel' = Cams
      /\ call' = [Idle EXCEPT !.n = call.n] /\ last' = [last EXCEPT !.op = "setid"]
      /\ UNCHANGED <<script, id, known, budget>>
  BY DEF SetIdEnds
<1>2. call' \in CallType /\ call'.pc = "idle" /\ call'.pend = <<>>
  BY <1>1, IdleThrown, Parted
<1>3. DOMAIN last' = DOMAIN NoCall /\ last'.op = "setid"
  <2>1. DOMAIN last = DOMAIN NoCall /\ "op" \in DOMAIN NoCall
    BY Parted DEF NoCall
  <2> QED BY <1>1, <2>1
<1>4. OwnAnswers' /\ OwnLists'
  BY <1>3, LastOther
<1>5. MultiType'
  BY <1>1, <1>2, <1>3, Parted DEF MultiType
<1>6. TodoInSel' /\ PendInv'
  BY <1>2 DEF TodoInSel, PendInv
<1>7. \A d \in Cams : ~Told(d)
  BY <1>1, NotTold
<1>8. IdInv' /\ AllSigned'
  BY <1>1, <1>2, <1>7, IdSame, ScriptsSame
<1> QED BY <1>2, <1>4, <1>5, <1>6, <1>8, Apart

-----------------------------------------------------------------------------
(* Calls that end.                                                         *)

\* What a call returns, and that no call is in progress then.
LEMMA ReturnFacts ==
    ASSUME MultiInv, NEW op, NEW ok, NEW res, Returns(op, ok, res)
    PROVE  /\ call' \in CallType /\ call'.pc \in {"idle", "setid"} /\ call'.pend = call.pend
           /\ (call'.pc = "idle" => call'.pend = <<>>)
           /\ DOMAIN last' = DOMAIN NoCall
           /\ last'.op = op /\ last'.n = call.cmd.n /\ last'.sel = sel /\ last'.res = res
           /\ last'.late = call.late /\ last'.lists = call.got /\ last'.idWas = id
           /\ UNCHANGED <<script, id, known>>
<1>1. call.pend \in Pendings /\ call.saved \in SUBSET Cams /\ call.n \in Nat
  BY Parted DEF CallType
<1> DEFINE pc == IF call.pend # <<>> \/ call.saved # {} THEN "setid" ELSE "idle"
<1>2. pc \in {"idle", "setid"} /\ (pc = "idle" => call.pend = <<>>)
  OBVIOUS
<1>3. call' = [Idle EXCEPT !.n = call.n, !.pend = call.pend, !.saved = call.saved, !.pc = pc]
  BY DEF Returns
<1> HIDE DEF pc
<1>4. call' \in CallType /\ call'.pc = pc /\ call'.pend = call.pend
  BY <1>1, <1>2, <1>3, IdleFacts
<1>5. /\ DOMAIN last' = DOMAIN NoCall
      /\ last'.op = op /\ last'.n = call.cmd.n /\ last'.sel = sel /\ last'.res = res
      /\ last'.late = call.late /\ last'.lists = call.got /\ last'.idWas = id
  BY DEF Returns, NoCall
<1> QED BY <1>2, <1>4, <1>5 DEF Returns

\* A call returns while nobody is told an id.
LEMMA ReturnKeeps ==
    ASSUME MultiInv, NEW op, NEW ok, NEW res, Returns(op, ok, res), sel' = sel, budget' = budget,
           \A d \in Cams : ~Told(d), OwnAnswers', OwnLists'
    PROVE  MultiInv'
<1>1. /\ call' \in CallType /\ call'.pc \in {"idle", "setid"} /\ call'.pend = call.pend
      /\ (call'.pc = "idle" => call'.pend = <<>>)
      /\ DOMAIN last' = DOMAIN NoCall /\ UNCHANGED <<script, id, known>>
  BY ReturnFacts
<1>2. MultiType'
  BY <1>1, Parted DEF MultiType
<1>3. TodoInSel' /\ PendInv'
  BY <1>1 DEF TodoInSel, PendInv
<1>4. IdInv' /\ AllSigned'
  BY <1>1, IdSame, ScriptsSame
<1> QED BY <1>1, <1>2, <1>3, <1>4, Apart

\* mc:start returns.
LEMMA StartEndsKeeps == ASSUME MultiInv, StartEnds PROVE MultiInv'
<1>1. /\ call.pc = "start" /\ Returns("start", TRUE, <<>>) /\ sel' = sel /\ budget' = budget
  BY DEF StartEnds
<1>2. last'.op = "start"
  BY <1>1, ReturnFacts
<1>3. OwnAnswers' /\ OwnLists'
  BY <1>2, LastOther
<1>4. \A d \in Cams : ~Told(d)
  BY <1>1, NotTold
<1> QED BY <1>1, <1>3, <1>4, ReturnKeeps

\* mc:cmd_msgbatch returns what it was sent.
LEMMA BatchEndsKeeps == ASSUME MultiInv, BatchEnds PROVE MultiInv'
<1>1. /\ call.pc = "ask" /\ call.todo = {} /\ Returns("batch", TRUE, <<>>)
      /\ sel' = sel /\ budget' = budget
  BY DEF BatchEnds
<1>2. /\ last'.op = "batch" /\ last'.n = call.cmd.n /\ last'.sel = sel
      /\ last'.late = call.late /\ last'.lists = call.got
  BY <1>1, ReturnFacts
<1>3. OwnAnswers'
  BY <1>2 DEF OwnAnswers
<1>4. \A c \in sel \ call.late : call.got[c] = <<>> \/ WholeList(call.got[c], call.cmd.n)
  BY <1>1, Parted DEF ListInv
<1>5. \A c \in sel \ call.late : call.got[c] # <<>> =>
          Len(call.got[c]) = Parts /\ \A k \in 1..Parts : call.got[c][k].n = call.cmd.n
  <2> SUFFICES ASSUME NEW c \in sel \ call.late, call.got[c] # <<>>
               PROVE  Len(call.got[c]) = Parts /\ \A k \in 1..Parts : call.got[c][k].n = call.cmd.n
    OBVIOUS
  <2>1. WholeList(call.got[c], call.cmd.n)
    BY <1>4
  <2>2. call.got[c] \in Seq(Messages)
    BY <1>1, Parted DEF ListInv
  <2>3. DOMAIN call.got[c] = 1..Len(call.got[c])
    BY <2>2, LenProperties
  <2> QED BY <2>1, <2>3 DEF WholeList, PartsOf
<1>6. OwnLists'
  BY <1>2, <1>5 DEF OwnLists
<1>7. \A d \in Cams : ~Told(d)
  BY <1>1, NotTold
<1> QED BY <1>1, <1>3, <1>6, <1>7, ReturnKeeps

\* All have been sent the command: the host waits for answers, or returns.
LEMMA SendEndsKeeps == ASSUME MultiInv, SendEnds PROVE MultiInv'
<1>1. call.pc = "send" /\ call.todo = {}
  BY DEF SendEnds
<1>2. \A d \in Cams : ~Told(d)
  BY <1>1, NotTold
<1>3. CASE Returns("sent", TRUE, <<>>) /\ UNCHANGED <<sel, budget>>
  <2>1. last'.op = "sent"
    BY <1>3, ReturnFacts
  <2>2. OwnAnswers' /\ OwnLists'
    BY <2>1, LastOther
  <2> QED BY <1>2, <1>3, <2>2, ReturnKeeps
<1>4. CASE /\ call' = [call EXCEPT !.pc = "poll", !.todo = sel, !.complete = 0,
                         !.res = [i \in {id[c] : c \in sel} |-> NoResult]]
           /\ UNCHANGED <<script, id, known, sel, last, budget>>
  <2>1. PICK res : res = [i \in {id[c] : c \in sel} |-> NoResult]
    OBVIOUS
  <2>2. res \in ResSets
    <3>1. {id[c] : c \in sel} \in SUBSET Ids
      BY Parted
    <3>2. res \in [{id[c] : c \in sel} -> Results]
      BY <2>1, Basics
    <3> QED BY <3>1, <3>2 DEF ResSets
  <2>3. call' = [call EXCEPT !.pc = "poll", !.todo = sel, !.complete = 0, !.res = res]
    BY <1>4, <2>1
  <2>4. /\ call' \in CallType /\ call'.pc = "poll" /\ call'.todo = sel /\ call'.res = res
        /\ call'.cmd = call.cmd /\ call'.late = call.late /\ call'.pend = call.pend
    BY <2>2, <2>3, Parted DEF CallType, CallPcs
  <2>5. OwnAnswers' /\ OwnLists'
    BY <1>4, LastKept
  <2>6. MultiType'
    BY <1>4, <2>4, Parted DEF MultiType
  <2>7. TodoInSel'
    BY <1>4, <2>4 DEF TodoInSel
  <2>8. \A c \in sel \ call.late : OnlyOf(script[c], call.cmd.n)
    BY <1>1, Parted DEF AskInv
  <2>9. DOMAIN res = {id[c] : c \in sel} /\ \A c \in sel : ~res[id[c]].done
    BY <2>1 DEF NoResult
  <2>10. \A c \in sel : Answer(res[id[c]], c, call.cmd.n)
    BY <2>9 DEF Answer
  <2>11. AskInv'
    BY <1>4, <2>4, <2>8, <2>9, <2>10 DEF AskInv
  <2>12. IdInv' /\ AllSigned'
    BY <1>2, <1>4, <2>4, IdSame, ScriptsSame
  <2> QED BY <2>4, <2>5, <2>6, <2>7, <2>11, <2>12, InCommand
<1> QED BY <1>3, <1>4 DEF SendEnds

\* The results of a command are returned.
LEMMA ResultsReturned ==
    ASSUME MultiInv, NEW ok, NEW res, Returns("cmd", ok, res), call.pc = "poll",
           Distinct => \A c \in sel \ call.late : Answer(res[id[c]], c, call.cmd.n),
           sel' = sel, budget' = budget
    PROVE  MultiInv'
<1>1. /\ last'.op = "cmd" /\ last'.n = call.cmd.n /\ last'.sel = sel /\ last'.res = res
      /\ last'.late = call.late /\ last'.idWas = id
  BY ReturnFacts
<1>2. OwnLists'
  BY <1>1 DEF OwnLists
<1>3. IsInjective([c \in sel |-> id[c]]) => Distinct
  BY DEF IsInjective, Distinct
<1>4. OwnAnswers'
  <2>1. IsInjective([c \in sel |-> id[c]]) => \A c \in sel \ call.late :
            res[id[c]].done /\ ~res[id[c]].failed =>
                res[id[c]].msg.cam = c /\ res[id[c]].msg.n = call.cmd.n
    BY <1>3 DEF Answer
  <2> QED BY <1>1, <2>1 DEF OwnAnswers
<1>5. \A d \in Cams : ~Told(d)
  BY NotTold
<1> QED BY <1>2, <1>4, <1>5, ReturnKeeps

\* All have answered.
LEMMA CompleteKeeps == ASSUME MultiInv, Complete PROVE MultiInv'
<1>1. call.pc = "poll" /\ Returns("cmd", TRUE, call.res) /\ sel' = sel /\ budget' = budget
  BY DEF Complete
<1>2. Distinct => \A c \in sel \ call.late : Answer(call.res[id[c]], c, call.cmd.n)
  BY <1>1, Parted DEF AskInv
<1> QED BY <1>1, <1>2, ResultsReturned

\* The time is over; who has not answered has failed.
LEMMA TimesOutKeeps == ASSUME MultiInv, TimesOut PROVE MultiInv'
<1>1. PICK res : res = [i \in DOMAIN call.res |-> TimedOut(call.res[i])]
  OBVIOUS
<1>2. call.pc = "poll" /\ Returns("cmd", FALSE, res) /\ sel' = sel /\ budget' = budget
  BY <1>1 DEF TimesOut
<1>3. call.res \in ResSets /\ DOMAIN call.res = {id[c] : c \in sel}
  BY <1>2, Parted DEF AskInv, CallType
<1>4. PICK D \in SUBSET Ids : call.res \in [D -> Results]
  BY <1>3 DEF ResSets
<1>5. \A r \in Results : \A c, n : Answer(r, c, n) => Answer(TimedOut(r), c, n)
  <2> SUFFICES ASSUME NEW r \in Results, NEW c, NEW n, Answer(r, c, n)
               PROVE  Answer(TimedOut(r), c, n)
    OBVIOUS
  <2>1. CASE r.done
    BY <2>1 DEF TimedOut
  <2>2. CASE ~r.done
    BY <2>2 DEF TimedOut, Failed, Results, Answer
  <2> QED BY <2>1, <2>2
<1>6. Distinct => \A c \in sel \ call.late : Answer(res[id[c]], c, call.cmd.n)
  <2> SUFFICES ASSUME Distinct, NEW c \in sel \ call.late PROVE Answer(res[id[c]], c, call.cmd.n)
    OBVIOUS
  <2>1. Answer(call.res[id[c]], c, call.cmd.n)
    BY <1>2, Parted DEF AskInv
  <2>2. id[c] \in DOMAIN call.res
    BY <1>3
  <2>3. call.res[id[c]] \in Results /\ res[id[c]] = TimedOut(call.res[id[c]])
    BY <1>1, <1>4, <2>2
  <2> QED BY <1>5, <2>1, <2>3
<1> QED BY <1>2, <1>6, ResultsReturned

\* Another pass over the cameras.
LEMMA PollsAgainKeeps == ASSUME MultiInv, PollsAgain PROVE MultiInv'
<1>1. /\ call.pc = "poll" /\ call' = [call EXCEPT !.todo = sel, !.complete = 0]
      /\ UNCHANGED <<script, id, known, sel, last, budget>>
  BY DEF PollsAgain
<1>2. /\ call' \in CallType /\ call'.pc = "poll" /\ call'.todo = sel /\ call'.res = call.res
      /\ call'.cmd = call.cmd /\ call'.late = call.late /\ call'.pend = call.pend
  BY <1>1, Parted DEF CallType
<1>3. OwnAnswers' /\ OwnLists'
  BY <1>1, LastKept
<1>4. MultiType'
  BY <1>1, <1>2, Parted DEF MultiType
<1>5. TodoInSel'
  BY <1>1, <1>2 DEF TodoInSel
<1>6. AskInv'
  <2>1. Distinct' <=> Distinct
    BY <1>1 DEF Distinct
  <2> QED BY <1>1, <1>2, <2>1, Parted DEF AskInv
<1>7. \A d \in Cams : ~Told(d)
  BY <1>1, NotTold
<1>8. IdInv' /\ AllSigned'
  BY <1>1, <1>2, <1>7, IdSame, ScriptsSame
<1> QED BY <1>2, <1>3, <1>4, <1>5, <1>6, <1>8, InCommand

-----------------------------------------------------------------------------
(* A command on its way to the cameras.                                    *)

\* All queues have been read.
LEMMA FlushEndsKeeps == ASSUME MultiInv, FlushEnds PROVE MultiInv'
<1>1. /\ call.pc = "flush" /\ call.todo = {} /\ call' = [call EXCEPT !.pc = "send", !.todo = sel]
      /\ UNCHANGED <<script, id, known, sel, last, budget>>
  BY DEF FlushEnds
<1>2. /\ call' \in CallType /\ call'.pc = "send" /\ call'.todo = sel
      /\ call'.cmd = call.cmd /\ call'.late = call.late /\ call'.pend = call.pend
  BY <1>1, Parted DEF CallType, CallPcs
<1>3. OwnAnswers' /\ OwnLists'
  BY <1>1, LastKept
<1>4. MultiType'
  BY <1>1, <1>2, Parted DEF MultiType
<1>5. TodoInSel'
  BY <1>1, <1>2 DEF TodoInSel
<1>6. \A s, n : Clear(s) => OnlyOf(s, n)
  BY DEF Clear, OnlyOf
<1>7. AskInv'
  BY <1>1, <1>2, <1>6, Parted DEF AskInv
<1>8. \A d \in Cams : Told(d) => Told(d)'
  BY <1>1, <1>2 DEF Told
<1>9. IdInv' /\ AllSigned'
  BY <1>1, <1>2, <1>8, IdSame, ScriptsSame
<1> QED BY <1>2, <1>3, <1>4, <1>5, <1>7, <1>9, InCommand

\* Where one script changes in its queues only.
LEMMA ScriptChanged ==
    ASSUME MultiInv, NEW c \in Cams, NEW t \in Scripts, script' = [script EXCEPT ![c] = t],
           \A l \in DOMAIN t.outq : t.outq[l].cam = c,
           t.run => script[c].run, KeepsDue(script[c], t)
    PROVE  /\ AllSigned' /\ script' \in [Cams -> Scripts]
           /\ script'[c] = t /\ (\A d \in Cams : d # c => script'[d] = script[d])
           /\ \A d \in Cams : /\ script'[d].run => script[d].run
                              /\ Due(script[d], id[d]) => Due(script'[d], id[d])
<1>1. script' \in [Cams -> Scripts] /\ script'[c] = t
      /\ \A d \in Cams : d # c => script'[d] = script[d]
  BY Parted
<1>2. AllSigned'
  <2> SUFFICES ASSUME NEW d \in Cams PROVE Signed(d)'
    BY DEF AllSigned
  <2>1. CASE d = c
    BY <2>1, <1>1 DEF Signed
  <2>2. CASE d # c
    BY <2>2, <1>1, Parted DEF AllSigned, Signed
  <2> QED BY <2>1, <2>2
<1>3. \A d \in Cams : /\ script'[d].run => script[d].run
                      /\ Due(script[d], id[d]) => Due(script'[d], id[d])
  BY <1>1 DEF KeepsDue
<1> QED BY <1>1, <1>2, <1>3

\* A message of a camera is read.
LEMMA ReadFacts ==
    ASSUME MultiInv, NEW c \in Cams, script[c].outq # <<>>,
           script' = [script EXCEPT ![c].outq = Tail(@)]
    PROVE  /\ AllSigned' /\ script' \in [Cams -> Scripts]
           /\ script'[c].outq = Tail(script[c].outq) /\ script'[c].inq = script[c].inq
           /\ script'[c].doing = script[c].doing /\ script'[c].parts = script[c].parts
           /\ (\A d \in Cams : d # c => script'[d] = script[d])
           /\ \A d \in Cams : /\ script'[d].run => script[d].run
                              /\ Due(script[d], id[d]) => Due(script'[d], id[d])
           /\ Head(script[c].outq) \in Messages /\ Head(script[c].outq).cam = c
<1>1. script[c] \in Scripts /\ script[c].outq \in Seq(Messages)
  BY Parted DEF Scripts
<1>2. PICK s : s = script[c]
  OBVIOUS
<1>3. PICK t : t = [s EXCEPT !.outq = Tail(@)]
  OBVIOUS
<1>4. /\ Tail(s.outq) \in Seq(Messages) /\ Head(s.outq) \in Messages /\ Head(s.outq) = s.outq[1]
      /\ Len(s.outq) \in Nat \ {0} /\ DOMAIN s.outq = 1..Len(s.outq)
      /\ DOMAIN Tail(s.outq) = 1..(Len(s.outq) - 1)
      /\ \A k \in 1..(Len(s.outq) - 1) : Tail(s.outq)[k] = s.outq[k + 1]
  BY <1>1, <1>2, Tailed
<1>5. /\ t \in Scripts /\ t.outq = Tail(s.outq) /\ t.inq = s.inq /\ t.doing = s.doing
      /\ t.parts = s.parts /\ t.run = s.run /\ t.id = s.id
  BY <1>1, <1>2, <1>3, <1>4 DEF Scripts
<1>6. script' = [script EXCEPT ![c] = t]
  BY <1>2, <1>3, Parted
<1>7. \A l \in DOMAIN s.outq : s.outq[l].cam = c
  BY <1>2, Parted DEF AllSigned, Signed
<1>8. \A l \in DOMAIN t.outq : t.outq[l].cam = c
  <2> SUFFICES ASSUME NEW l \in DOMAIN t.outq PROVE t.outq[l].cam = c
    OBVIOUS
  <2>1. l + 1 \in DOMAIN s.outq /\ t.outq[l] = s.outq[l + 1]
    BY <1>4, <1>5
  <2> QED BY <1>7, <2>1
<1>9. KeepsDue(s, t)
  BY <1>5 DEF KeepsDue, Due
<1>10. /\ AllSigned' /\ script' \in [Cams -> Scripts]
       /\ script'[c] = t /\ (\A d \in Cams : d # c => script'[d] = script[d])
       /\ \A d \in Cams : /\ script'[d].run => script[d].run
                          /\ Due(script[d], id[d]) => Due(script'[d], id[d])
  BY <1>2, <1>5, <1>6, <1>8, <1>9, ScriptChanged
<1>11. Head(s.outq).cam = c
  BY <1>4, <1>7
<1> QED BY <1>2, <1>4, <1>5, <1>10, <1>11

\* A command is written to a camera.
LEMMA WriteFacts ==
    ASSUME MultiInv, NEW c \in Cams, NEW cmd \in Commands, script' = Sent(c, cmd)
    PROVE  /\ AllSigned' /\ script' \in [Cams -> Scripts]
           /\ script'[c].outq = script[c].outq /\ script'[c].inq = Append(script[c].inq, cmd)
           /\ script'[c].doing = script[c].doing /\ script'[c].run = script[c].run
           /\ (\A d \in Cams : d # c => script'[d] = script[d])
           /\ (cmd.name # "setid" => (Due(script[c], id[c]) => Due(script'[c], id[c])))
           /\ (cmd.name = "setid" => Due(script'[c], cmd.id))
<1>1. script[c] \in Scripts /\ script[c].inq \in Seq(Commands)
  BY Parted DEF Scripts
<1>2. PICK s : s = script[c]
  OBVIOUS
<1>3. PICK t : t = [s EXCEPT !.inq = Append(@, cmd)]
  OBVIOUS
<1>4. Append(s.inq, cmd) \in Seq(Commands)
  BY <1>1, <1>2, Appended
<1>5. /\ t \in Scripts /\ t.outq = s.outq /\ t.inq = Append(s.inq, cmd) /\ t.doing = s.doing
      /\ t.run = s.run
  BY <1>1, <1>2, <1>3, <1>4 DEF Scripts
<1>6. script' = [script EXCEPT ![c] = t]
  BY <1>2, <1>3, Parted DEF Sent
<1>7. script' \in [Cams -> Scripts] /\ script'[c] = t
      /\ \A d \in Cams : d # c => script'[d] = script[d]
  BY <1>5, <1>6, Parted
<1>8. AllSigned'
  <2> SUFFICES ASSUME NEW d \in Cams PROVE Signed(d)'
    BY DEF AllSigned
  <2>1. Signed(d)
    BY Parted DEF AllSigned
  <2>2. script'[d].outq = script[d].outq
    BY <1>2, <1>5, <1>7
  <2> QED BY <2>1, <2>2 DEF Signed
<1>9. cmd.name # "setid" => (Due(s, id[c]) => Due(t, id[c]))
  BY <1>1, <1>2, <1>3, DueOther
<1>10. cmd.name = "setid" => Due(t, cmd.id)
  BY <1>1, <1>2, <1>3, DueSet
<1> QED BY <1>2, <1>5, <1>7, <1>8, <1>9, <1>10

\* A queue is emptied.
LEMMA FlushFacts ==
    ASSUME MultiInv, NEW c \in Cams, script' = [script EXCEPT ![c].outq = Flushed(@)]
    PROVE  /\ AllSigned' /\ script' \in [Cams -> Scripts]
           /\ script'[c].outq = <<>> /\ script'[c].inq = script[c].inq
           /\ script'[c].doing = script[c].doing
           /\ (\A d \in Cams : d # c => script'[d] = script[d])
           /\ \A d \in Cams : /\ script'[d].run => script[d].run
                              /\ Due(script[d], id[d]) => Due(script'[d], id[d])
<1>1. script[c] \in Scripts
  BY Parted
<1>2. PICK s : s = script[c]
  OBVIOUS
<1>3. PICK t : t = [s EXCEPT !.outq = <<>>]
  OBVIOUS
<1>4. <<>> \in Seq(Messages) /\ DOMAIN <<>> = {}
  OBVIOUS
<1>5. /\ t \in Scripts /\ t.outq = <<>> /\ t.inq = s.inq /\ t.doing = s.doing
      /\ t.run = s.run /\ t.id = s.id
  BY <1>1, <1>2, <1>3, <1>4 DEF Scripts
<1>6. script' = [script EXCEPT ![c] = t]
  BY <1>2, <1>3, Parted DEF Flushed
<1>7. \A l \in DOMAIN t.outq : t.outq[l].cam = c
  BY <1>4, <1>5
<1>8. KeepsDue(s, t)
  BY <1>5 DEF KeepsDue, Due
<1>9. /\ AllSigned' /\ script' \in [Cams -> Scripts]
      /\ script'[c] = t /\ (\A d \in Cams : d # c => script'[d] = script[d])
      /\ \A d \in Cams : /\ script'[d].run => script[d].run
                         /\ Due(script[d], id[d]) => Due(script'[d], id[d])
  BY <1>2, <1>5, <1>6, <1>7, <1>8, ScriptChanged
<1> QED BY <1>2, <1>5, <1>9

\* A call throws: because it was lost, or outside of a set_id.
LEMMA ThrowKeeps ==
    ASSUME MultiInv, Throws, script' \in [Cams -> Scripts], AllSigned',
           \/ CallFails
           \/ /\ CallWorks /\ call.pend = <<>> /\ \A d \in Cams : ~Told(d)
              /\ \A d \in Cams : /\ script'[d].run => script[d].run
                                 /\ Due(script[d], id[d]) => Due(script'[d], id[d])
    PROVE  MultiInv'
<1>1. /\ last' = [NoCall EXCEPT !.op = "threw"] /\ call' = [Idle EXCEPT !.n = call.n]
      /\ UNCHANGED <<id, known, sel>>
  BY DEF Throws
<1>2. call' \in CallType /\ call'.pc = "idle" /\ call'.pend = <<>>
  BY <1>1, IdleThrown, Parted
<1>3. OwnAnswers' /\ OwnLists' /\ DOMAIN last' = DOMAIN NoCall
  BY <1>1, ThrewFacts
<1>4. CASE CallFails
  <2>1. budget' \in [cmds : Nat, faults : Nat, lost : BOOLEAN] /\ budget'.lost
    BY <1>4, FailsFacts, Parted
  <2>2. MultiType'
    BY <1>1, <1>2, <1>3, <2>1, Parted DEF MultiType
  <2>3. TodoInSel' /\ PendInv' /\ IdInv'
    BY <1>2, <2>1 DEF TodoInSel, PendInv, IdInv
  <2> QED BY <1>2, <1>3, <2>2, <2>3, Apart
<1>5. CASE /\ CallWorks /\ call.pend = <<>> /\ \A d \in Cams : ~Told(d)
           /\ \A d \in Cams : /\ script'[d].run => script[d].run
                              /\ Due(script[d], id[d]) => Due(script'[d], id[d])
  <2>1. budget' = budget
    BY <1>5 DEF CallWorks
  <2>2. MultiType'
    BY <1>1, <1>2, <1>3, <2>1, Parted DEF MultiType
  <2>3. TodoInSel' /\ PendInv'
    BY <1>2 DEF TodoInSel, PendInv
  <2>4. IdInv'
    BY <1>1, <1>2, <1>5, <2>1, IdSame
  <2> QED BY <1>2, <1>3, <2>2, <2>3, <2>4, Apart
<1> QED BY <1>4, <1>5

\* A queue is read before the command is sent.
LEMMA FlushKeeps == ASSUME MultiInv, NEW c \in Cams, Flush(c) PROVE MultiInv'
<1>1. call.pc = "flush" /\ call.todo # {} /\ c = First(call.todo)
  BY DEF Flush
<1>2. CASE /\ CallWorks /\ script' = [script EXCEPT ![c].outq = Flushed(@)]
           /\ call' = [call EXCEPT !.todo = @ \ {c},
                         !.late = IF Quiet(c) THEN @ ELSE @ \cup {c}]
           /\ UNCHANGED <<id, known, sel, last>>
  <2>1. PICK late \in SUBSET Cams :
          late = IF Quiet(c) THEN call.late ELSE call.late \cup {c}
    BY Parted
  <2>2. call' = [call EXCEPT !.todo = @ \ {c}, !.late = late]
    BY <1>2, <2>1
  <2>3. /\ call' \in CallType /\ call'.pc = "flush" /\ call'.todo = call.todo \ {c}
        /\ call'.cmd = call.cmd /\ call'.late = late /\ call'.pend = call.pend
    BY <1>1, <2>2, Parted DEF CallType
  <2>4. /\ AllSigned' /\ script' \in [Cams -> Scripts]
        /\ script'[c].outq = <<>> /\ script'[c].inq = script[c].inq
        /\ script'[c].doing = script[c].doing
        /\ (\A d \in Cams : d # c => script'[d] = script[d])
        /\ \A d \in Cams : /\ script'[d].run => script[d].run
                           /\ Due(script[d], id[d]) => Due(script'[d], id[d])
    BY <1>2, FlushFacts
  <2>5. OwnAnswers' /\ OwnLists' /\ budget' = budget
    BY <1>2, LastKept DEF CallWorks
  <2>6. MultiType'
    BY <1>2, <2>3, <2>4, <2>5, Parted DEF MultiType
  <2>7. TodoInSel'
    BY <1>1, <1>2, <2>3, Parted DEF TodoInSel
  <2>8. \A d \in sel \ (call'.todo \cup call'.late) : Clear(script'[d])
    <3> SUFFICES ASSUME NEW d \in sel \ (call'.todo \cup call'.late) PROVE Clear(script'[d])
      OBVIOUS
    <3>1. CASE d = c
      <4>1. Quiet(c)
        BY <2>1, <2>3, <3>1
      <4> QED BY <2>4, <3>1, <4>1 DEF Quiet, Clear
    <3>2. CASE d # c
      <4>1. d \in sel \ (call.todo \cup call.late) /\ d \in Cams
        BY <2>1, <2>3, <3>2, Parted
      <4>2. Clear(script[d])
        BY <1>1, <4>1, Parted DEF AskInv
      <4> QED BY <2>4, <3>2, <4>1, <4>2
    <3> QED BY <3>1, <3>2
  <2>9. call.cmd.name = "setid" => \A d \in sel : id[d] = call.cmd.id
    BY <1>1, Parted DEF AskInv
  <2>10. AskInv'
    BY <1>2, <2>3, <2>8, <2>9 DEF AskInv
  <2>11. \A d \in Cams : Told(d) => Told(d)'
    BY <1>1, <1>2, <2>3 DEF Told
  <2>12. IdInv'
    BY <1>2, <2>3, <2>4, <2>5, <2>11, IdSame
  <2> QED BY <2>3, <2>4, <2>5, <2>6, <2>7, <2>10, <2>12, InCommand
<1>3. CASE CallFails /\ UNCHANGED script /\ Throws
  <2>1. AllSigned' /\ script' \in [Cams -> Scripts]
    BY <1>3, ScriptsSame, Parted
  <2> QED BY <1>3, <2>1, ThrowKeeps
<1> QED BY <1>2, <1>3 DEF Flush

\* The command is sent to a camera.
LEMMA SendKeeps == ASSUME MultiInv, NEW c \in Cams, Send(c) PROVE MultiInv'
<1>1. /\ call.pc = "send" /\ call.todo # {} /\ c = First(call.todo)
      /\ call' = [call EXCEPT !.todo = @ \ {c}] /\ UNCHANGED <<id, known, sel, last>>
  BY DEF Send
<1>2. /\ call' \in CallType /\ call'.pc = "send" /\ call'.todo = call.todo \ {c}
      /\ call'.cmd = call.cmd /\ call'.late = call.late /\ call'.pend = call.pend
  BY <1>1, Parted DEF CallType
<1>3. c \in sel
  BY <1>1, FirstTodo, Parted DEF TodoInSel
<1>4. OwnAnswers' /\ OwnLists'
  BY <1>1, LastKept
<1>5. TodoInSel'
  BY <1>1, <1>2, Parted DEF TodoInSel
<1>6. call.cmd.name = "setid" => \A d \in sel : id[d] = call.cmd.id
  BY <1>1, Parted DEF AskInv
<1>7. \A d \in sel \ call.late : OnlyOf(script[d], call.cmd.n)
  BY <1>1, Parted DEF AskInv
<1>8. \A d \in Cams : d # c => (Told(d) => Told(d)')
  BY <1>1, <1>2 DEF Told
<1>9. (CallWorks \/ CallFails) /\ (script' = script \/ script' = Sent(c, call.cmd))
  BY DEF Send
<1>10. /\ budget' \in [cmds : Nat, faults : Nat, lost : BOOLEAN]
       /\ budget.lost => budget'.lost /\ (budget' = budget \/ budget'.lost)
  BY <1>9, FailsFacts, Parted DEF CallWorks
<1>11. CASE script' = script
  <2>1. AllSigned' /\ script' \in [Cams -> Scripts]
        /\ \A d \in Cams : /\ script'[d].run => script[d].run
                           /\ Due(script[d], id[d]) => Due(script'[d], id[d])
    BY <1>11, ScriptsSame, Parted
  <2>2. MultiType'
    BY <1>1, <1>2, <1>10, <2>1, Parted DEF MultiType
  <2>3. AskInv'
    BY <1>1, <1>2, <1>6, <1>7, <1>11 DEF AskInv
  <2>4. CASE CallFails
    <3>1. IdInv'
      BY <2>4, FailsFacts, Parted DEF IdInv
    <3> QED BY <1>2, <1>4, <1>5, <2>1, <2>2, <2>3, <3>1, InCommand
  <2>5. CASE ~CallFails
    <3>1. budget' = budget /\ (~script[c].run \/ script' = Sent(c, call.cmd))
      BY <2>5 DEF Send, CallWorks
    <3>2. CASE ~script[c].run
      <4>1. \A d \in Cams : Told(d) => Told(d)' \/ ~script'[d].run
        BY <1>8, <1>11, <3>2
      <4>2. IdInv'
        BY <1>1, <1>2, <2>1, <3>1, <4>1, IdSame
      <4> QED BY <1>2, <1>4, <1>5, <2>1, <2>2, <2>3, <4>2, InCommand
    <3>3. CASE script' = Sent(c, call.cmd)
      <4>1. (call.cmd.name # "setid" => (Due(script[c], id[c]) => Due(script'[c], id[c])))
            /\ (call.cmd.name = "setid" => Due(script'[c], call.cmd.id))
        BY <3>3, WriteFacts, Parted
      <4>2. Told(c) => Due(script'[c], id[c])
        BY <4>1 DEF Told
      <4>3. \A d \in Cams : Told(d) => Told(d)' \/ ~script'[d].run \/ Due(script'[d], id[d])
        BY <1>8, <4>2
      <4>4. IdInv'
        BY <1>1, <1>2, <2>1, <3>1, <4>3, IdSame
      <4> QED BY <1>2, <1>4, <1>5, <2>1, <2>2, <2>3, <4>4, InCommand
    <3> QED BY <3>1, <3>2, <3>3
  <2> QED BY <2>4, <2>5
<1>12. CASE script' = Sent(c, call.cmd)
  <2>1. /\ AllSigned' /\ script' \in [Cams -> Scripts]
        /\ script'[c].outq = script[c].outq /\ script'[c].inq = Append(script[c].inq, call.cmd)
        /\ script'[c].doing = script[c].doing /\ script'[c].run = script[c].run
        /\ (\A d \in Cams : d # c => script'[d] = script[d])
        /\ (call.cmd.name # "setid" => (Due(script[c], id[c]) => Due(script'[c], id[c])))
        /\ (call.cmd.name = "setid" => Due(script'[c], call.cmd.id))
    BY <1>12, WriteFacts, Parted
  <2>2. MultiType'
    BY <1>1, <1>2, <1>10, <2>1, Parted DEF MultiType
  <2>3. script[c].inq \in Seq(Commands) /\ call.cmd \in Commands
    BY Parted DEF Scripts
  <2>4. OnlyOf(script[c], call.cmd.n) => OnlyOf(script'[c], call.cmd.n)
    <3> SUFFICES ASSUME OnlyOf(script[c], call.cmd.n) PROVE OnlyOf(script'[c], call.cmd.n)
      OBVIOUS
    <3>1. \A k \in DOMAIN script'[c].inq : script'[c].inq[k].n = call.cmd.n
      <4> SUFFICES ASSUME NEW k \in DOMAIN script'[c].inq PROVE script'[c].inq[k].n = call.cmd.n
        OBVIOUS
      <4> DEFINE q == script[c].inq
      <4>1. /\ DOMAIN q = 1..Len(q) /\ DOMAIN script'[c].inq = 1..(Len(q) + 1) /\ Len(q) \in Nat
            /\ script'[c].inq[Len(q) + 1] = call.cmd
            /\ \A l \in 1..Len(q) : script'[c].inq[l] = q[l]
        BY <2>1, <2>3, Appended
      <4>2. \A l \in DOMAIN q : q[l].n = call.cmd.n
        BY DEF OnlyOf
      <4> HIDE DEF q
      <4>3. k \in 1..Len(q) \/ k = Len(q) + 1
        BY <4>1
      <4> QED BY <4>1, <4>2, <4>3
    <3> QED BY <2>1, <3>1 DEF OnlyOf
  <2>5. \A d \in sel \ call.late : OnlyOf(script'[d], call.cmd.n)
    BY <1>7, <2>1, <2>4, Parted
  <2>6. AskInv'
    BY <1>1, <1>2, <1>6, <2>5 DEF AskInv
  <2>7. Due(script[c], id[c]) => Due(script'[c], id[c])
    BY <1>3, <1>6, <2>1
  <2>8. Told(c) => Due(script'[c], id[c])
    BY <2>1 DEF Told
  <2>9. \A d \in Cams : /\ script'[d].run => script[d].run
                        /\ Due(script[d], id[d]) => Due(script'[d], id[d])
    BY <2>1, <2>7
  <2>10. \A d \in Cams : Told(d) => Told(d)' \/ ~script'[d].run \/ Due(script'[d], id[d])
    BY <1>8, <2>8
  <2>11. IdInv'
    <3>1. budget.lost => budget'.lost
      BY <1>10
    <3> QED BY <1>1, <1>2, <2>9, <2>10, <3>1, IdSame
  <2> QED BY <1>2, <1>4, <1>5, <2>1, <2>2, <2>6, <2>11, InCommand
<1> QED BY <1>9, <1>11, <1>12

\* What is heard of a camera is a result; one that is done and has not failed
\* is the message read.
LEMMA HeardFacts ==
    ASSUME NEW r \in Results, NEW cmd, NEW m \in Messages, NEW ours
    PROVE  /\ Heard(r, cmd, m, ours) \in Results
           /\ \A c, n : ~r.done /\ m.cam = c /\ m.n = n => Answer(Heard(r, cmd, m, ours), c, n)
<1> DEFINE h == Heard(r, cmd, m, ours)
<1>1. \A e \in Errors : Failed(r, e) \in Results /\ Failed(r, e).done = r.done
  BY DEF Failed, Results
<1>2. "bad_script_id" \in Errors /\ "wrongmsg_error" \in Errors /\ "unexpected cmd" \in Errors
  BY DEF Errors
<1>3. CASE ~ours
  <2>1. h = Failed(r, "bad_script_id")
    BY <1>3 DEF Heard
  <2> HIDE DEF h
  <2> QED BY <1>1, <1>2, <2>1 DEF Answer, h
<1>4. CASE ours /\ m.kind = "error"
  <2>1. h = Failed(r, "wrongmsg_error")
    BY <1>4 DEF Heard
  <2> HIDE DEF h
  <2> QED BY <1>1, <1>2, <2>1 DEF Answer, h
<1>5. CASE ours /\ m.kind # "error"
  <2>1. PICK s : s = IF Mismatch(cmd, m) THEN Failed(r, "unexpected cmd") ELSE r
    OBVIOUS
  <2>2. s \in Results
    BY <1>1, <1>2, <2>1
  <2>3. h = [s EXCEPT !.done = TRUE, !.msg = m]
    BY <1>5, <2>1 DEF Heard
  <2> HIDE DEF h
  <2>4. h \in Results /\ h.msg = m
    BY <2>2, <2>3 DEF Results
  <2> QED BY <2>4 DEF Answer, h
<1> QED BY <1>3, <1>4, <1>5

\* A poll leaves the result of one camera changed.
LEMMA PollResult ==
    ASSUME MultiInv, NEW c \in sel, NEW r \in Results, call.pc = "poll",
           call' = [call EXCEPT !.todo = @ \ {c}, !.res[id[c]] = r],
           id' = id, sel' = sel,
           NEW N, N = call.cmd.n,
           c \notin call.late => Answer(r, c, N),
           \A d \in sel \ call.late : OnlyOf(script'[d], N)
    PROVE  /\ call' \in CallType /\ call'.pc = "poll" /\ call'.pend = call.pend
           /\ call'.todo \subseteq call.todo /\ AskInv'
<1>1. c \in Cams
  BY Parted
<1>2. call.res \in ResSets /\ DOMAIN call.res = {id[d] : d \in sel}
  BY Parted DEF AskInv, CallType
<1>3. PICK D \in SUBSET Ids : call.res \in [D -> Results]
  BY <1>2 DEF ResSets
<1>4. D = {id[d] : d \in sel} /\ id[c] \in D
  BY <1>2, <1>3
<1>5. PICK res : res = [call.res EXCEPT ![id[c]] = r]
  OBVIOUS
<1>6. res \in [D -> Results]
  BY <1>3, <1>5
<1>7. res \in ResSets
  BY <1>6 DEF ResSets
<1>8. call' = [call EXCEPT !.todo = @ \ {c}, !.res = res]
  BY <1>5, Parted DEF CallType
<1>9. /\ call' \in CallType /\ call'.pc = "poll" /\ call'.pend = call.pend /\ call'.res = res
      /\ call'.todo = call.todo \ {c} /\ call'.cmd = call.cmd /\ call'.late = call.late
  BY <1>7, <1>8, Parted DEF CallType
<1>10. Distinct => \A d \in sel \ call.late : Answer(res[id[d]], d, N)
  <2> SUFFICES ASSUME Distinct, NEW d \in sel \ call.late PROVE Answer(res[id[d]], d, N)
    OBVIOUS
  <2>1. id[d] \in D /\ Answer(call.res[id[d]], d, N)
    BY <1>4, Parted DEF AskInv
  <2>2. CASE d = c
    <3>1. res[id[d]] = r
      BY <1>3, <1>4, <1>5, <2>2
    <3> QED BY <2>2, <3>1
  <2>3. CASE d # c
    <3>1. id[d] # id[c]
      BY <2>3 DEF Distinct
    <3>2. res[id[d]] = call.res[id[d]]
      BY <1>3, <1>5, <2>1, <3>1
    <3> QED BY <2>1, <3>2
  <2> QED BY <2>2, <2>3
<1>11. DOMAIN res = {id[d] : d \in sel}
  BY <1>4, <1>6
<1>12. Distinct' <=> Distinct
  BY DEF Distinct
<1>13. AskInv'
  BY <1>9, <1>10, <1>11, <1>12 DEF AskInv
<1> QED BY <1>9, <1>13

\* One camera is polled.
LEMMA PollKeeps == ASSUME MultiInv, NEW c \in Cams, Poll(c) PROVE MultiInv'
<1>1. /\ call.pc = "poll" /\ call.todo # {} /\ c = First(call.todo)
      /\ UNCHANGED <<id, known, sel, last>>
  BY DEF Poll
<1>2. c \in sel
  BY <1>1, FirstTodo, Parted DEF TodoInSel
<1>3. PICK r : r = call.res[id[c]]
  OBVIOUS
<1>4. r \in Results
  <2>1. call.res \in ResSets /\ id[c] \in DOMAIN call.res
    BY <1>1, <1>2, Parted DEF AskInv, CallType
  <2>2. PICK D \in SUBSET Ids : call.res \in [D -> Results]
    BY <2>1 DEF ResSets
  <2> QED BY <1>3, <2>1, <2>2
<1>5. OwnAnswers' /\ OwnLists'
  BY <1>1, LastKept
<1>6. \A d \in Cams : ~Told(d)
  BY <1>1, NotTold
<1>7. PICK q, N : q = script[c].outq /\ N = call.cmd.n
  OBVIOUS
<1>8. \A d \in sel \ call.late : OnlyOf(script[d], N)
  BY <1>1, <1>7, Parted DEF AskInv
<1>9. \A e \in Errors : \A n : Failed(r, e) \in Results /\ Answer(Failed(r, e), c, n)
  BY <1>4 DEF Failed, Results, Answer
<1>10. "not running" \in Errors /\ "lost" \in Errors
  BY DEF Errors
<1>11. (CallWorks \/ CallFails)
       /\ (script' = script \/ (q # <<>> /\ script' = [script EXCEPT ![c].outq = Tail(@)]))
  BY <1>7 DEF Poll
<1>12. /\ budget' \in [cmds : Nat, faults : Nat, lost : BOOLEAN]
       /\ (budget.lost => budget'.lost)
  BY <1>11, FailsFacts, Parted DEF CallWorks
<1>13. /\ AllSigned' /\ script' \in [Cams -> Scripts]
       /\ \A d \in Cams : /\ script'[d].run => script[d].run
                          /\ Due(script[d], id[d]) => Due(script'[d], id[d])
  <2>1. CASE script' = script
    BY <2>1, ScriptsSame, Parted
  <2>2. CASE q # <<>> /\ script' = [script EXCEPT ![c].outq = Tail(@)]
    BY <1>7, <2>2, ReadFacts
  <2> QED BY <1>11, <2>1, <2>2
<1>14. \A d \in sel \ call.late : OnlyOf(script'[d], N)
  <2>1. CASE script' = script
    BY <1>8, <2>1
  <2>2. CASE q # <<>> /\ script' = [script EXCEPT ![c].outq = Tail(@)]
    <3>1. /\ script'[c].outq = Tail(q) /\ script'[c].inq = script[c].inq
          /\ script'[c].doing = script[c].doing
          /\ (\A d \in Cams : d # c => script'[d] = script[d])
      BY <1>7, <2>2, ReadFacts
    <3>2. q \in Seq(Messages)
      BY <1>7, Parted DEF Scripts
    <3>3. OnlyOf(script[c], N) => OnlyOf(script'[c], N)
      <4> SUFFICES ASSUME OnlyOf(script[c], N) PROVE OnlyOf(script'[c], N)
        OBVIOUS
      <4>1. \A k \in DOMAIN q : q[k].n = N
        BY <1>7 DEF OnlyOf
      <4>2. /\ DOMAIN q = 1..Len(q) /\ DOMAIN Tail(q) = 1..(Len(q) - 1) /\ Len(q) \in Nat
            /\ \A k \in 1..(Len(q) - 1) : Tail(q)[k] = q[k + 1]
        BY <2>2, <3>2, Tailed
      <4>3. \A k \in DOMAIN Tail(q) : Tail(q)[k].n = N
        <5> SUFFICES ASSUME NEW k \in DOMAIN Tail(q) PROVE Tail(q)[k].n = N
          OBVIOUS
        <5>1. k + 1 \in DOMAIN q /\ Tail(q)[k] = q[k + 1]
          BY <4>2
        <5> QED BY <4>1, <5>1
      <4> QED BY <3>1, <4>3 DEF OnlyOf
    <3> QED BY <1>8, <3>1, <3>3, Parted
  <2> QED BY <1>11, <2>1, <2>2
<1>15. ASSUME NEW s \in Results, call' = [call EXCEPT !.todo = @ \ {c}, !.res[id[c]] = s],
              c \notin call.late => Answer(s, c, N)
       PROVE  MultiInv'
  <2>1. /\ call' \in CallType /\ call'.pc = "poll" /\ call'.pend = call.pend
        /\ call'.todo \subseteq call.todo /\ AskInv'
    BY <1>1, <1>2, <1>7, <1>14, <1>15, PollResult
  <2>2. MultiType'
    BY <1>1, <1>12, <1>13, <2>1, Parted DEF MultiType
  <2>3. TodoInSel'
    BY <1>1, <2>1, Parted DEF TodoInSel
  <2>4. IdInv'
    BY <1>1, <1>6, <1>12, <1>13, <2>1, IdSame
  <2> QED BY <1>5, <1>13, <2>1, <2>2, <2>3, <2>4, InCommand
<1>16. CASE call' = [call EXCEPT !.todo = @ \ {c}, !.complete = @ + 1] /\ UNCHANGED script
  <2>1. /\ call' \in CallType /\ call'.pc = "poll" /\ call'.pend = call.pend /\ call'.res = call.res
        /\ call'.todo = call.todo \ {c} /\ call'.cmd = call.cmd /\ call'.late = call.late
    <3>1. call.complete + 1 \in Nat
      BY Parted DEF CallType
    <3> QED BY <1>1, <1>16, <3>1, Parted DEF CallType
  <2>2. MultiType'
    BY <1>1, <1>12, <1>13, <2>1, Parted DEF MultiType
  <2>3. TodoInSel'
    BY <1>1, <2>1, Parted DEF TodoInSel
  <2>4. Distinct' <=> Distinct
    BY <1>1 DEF Distinct
  <2>5. AskInv'
    BY <1>1, <1>16, <2>1, <2>4, Parted DEF AskInv
  <2>6. IdInv'
    BY <1>1, <1>6, <1>12, <1>13, <2>1, IdSame
  <2> QED BY <1>5, <1>13, <2>1, <2>2, <2>3, <2>5, <2>6, InCommand
<1>17. CASE q # <<>> /\ ~r.done
            /\ call' = [call EXCEPT !.todo = @ \ {c},
                          !.res[id[c]] = Heard(r, call.cmd, Head(q), known[c])]
  <2>1. q \in Seq(Messages)
    BY <1>7, Parted DEF Scripts
  <2>2. Head(q) \in Messages /\ Head(q) = q[1] /\ 1 \in DOMAIN q
    BY <1>17, <2>1, Tailed
  <2>3. Head(q).cam = c
    BY <1>7, <2>2, Parted DEF AllSigned, Signed
  <2>4. c \notin call.late => Head(q).n = N
    BY <1>2, <1>7, <1>8, <2>2 DEF OnlyOf
  <2>5. PICK s : s = Heard(r, call.cmd, Head(q), known[c])
    OBVIOUS
  <2>6. s \in Results
    BY <1>4, <2>2, <2>5, HeardFacts
  <2>7. c \notin call.late => Answer(s, c, N)
    BY <1>4, <1>17, <2>2, <2>3, <2>4, <2>5, HeardFacts
  <2>8. call' = [call EXCEPT !.todo = @ \ {c}, !.res[id[c]] = s]
    BY <1>17, <2>5
  <2> QED BY <1>15, <2>6, <2>7, <2>8
<1>18. CASE ~r.done /\ call' = [call EXCEPT !.todo = @ \ {c}, !.res[id[c]] = r]
  <2>1. Answer(r, c, N)
    BY <1>18 DEF Answer
  <2> QED BY <1>4, <1>15, <1>18, <2>1
<1>19. CASE call' = [call EXCEPT !.todo = @ \ {c}, !.res[id[c]] = Failed(r, "not running")]
  BY <1>9, <1>10, <1>15, <1>19
<1>20. CASE call' = [call EXCEPT !.todo = @ \ {c}, !.res[id[c]] = Failed(r, "lost")]
  BY <1>9, <1>10, <1>15, <1>20
<1> QED BY <1>3, <1>7, <1>16, <1>17, <1>18, <1>19, <1>20 DEF Poll

-----------------------------------------------------------------------------
(* Lists.                                                                  *)

\* A message read of a list: a part is added and the rest follows, the status
\* comes when the list is whole.
LEMMA StreamRead ==
    ASSUME NEW s \in Scripts, NEW t, NEW g \in Seq(Messages), NEW e,
           s.outq # <<>>, Streaming(s, g, e),
           t.outq = Tail(s.outq), t.inq = s.inq, t.doing = s.doing, t.parts = s.parts,
           NEW h, h = Head(s.outq)
    PROVE  /\ h.kind = "status" => WholeList(g, e.n)
           /\ h.kind \notin {"status", "error"} => h.kind = "part" /\ Streaming(t, Append(g, h), e)
<1> DEFINE q == s.outq
<1>1. q \in Seq(Messages) /\ s.parts \in Nat
  BY DEF Scripts
<1>2. /\ h = q[1] /\ h \in Messages /\ Len(q) \in Nat \ {0} /\ DOMAIN q = 1..Len(q)
      /\ Tail(q) \in Seq(Messages) /\ Len(Tail(q)) = Len(q) - 1
      /\ DOMAIN Tail(q) = 1..(Len(q) - 1)
      /\ \A k \in 1..(Len(q) - 1) : Tail(q)[k] = q[k + 1]
  BY <1>1, Tailed
<1>3. /\ Len(Append(g, h)) = Len(g) + 1 /\ Len(g) \in Nat
      /\ DOMAIN g = 1..Len(g) /\ DOMAIN Append(g, h) = 1..(Len(g) + 1)
      /\ Append(g, h)[Len(g) + 1] = h
      /\ \A k \in 1..Len(g) : Append(g, h)[k] = g[k]
  BY <1>2, Appended
<1>4. PartsOf(g, e.n) /\ s.inq = <<>>
  BY DEF Streaming
<1>5. ASSUME h.kind = "part", h.n = e.n PROVE PartsOf(Append(g, h), e.n)
  <2> SUFFICES ASSUME NEW k \in DOMAIN Append(g, h)
               PROVE  Append(g, h)[k].n = e.n /\ Append(g, h)[k].kind = "part"
    BY DEF PartsOf
  <2>1. k \in 1..Len(g) \/ k = Len(g) + 1
    BY <1>3
  <2>2. CASE k \in 1..Len(g)
    BY <2>2, <1>3, <1>4 DEF PartsOf
  <2>3. CASE k = Len(g) + 1
    BY <2>3, <1>3, <1>5
  <2> QED BY <2>1, <2>2, <2>3
<1>6. Parts \in Nat
  BY MulticamAssumption
<1> HIDE DEF q
<1>7. \A k \in DOMAIN Tail(q) : k + 1 \in DOMAIN q /\ Tail(q)[k] = q[k + 1] /\ k \in Nat
  BY <1>2
<1>8. 1 \in DOMAIN q
  BY <1>2
<1>9. CASE s.doing = e /\ PartsOf(q, e.n) /\ Len(g) + Len(q) = s.parts /\ s.parts <= Parts
  <2>1. h.kind = "part" /\ h.n = e.n
    BY <1>2, <1>8, <1>9 DEF PartsOf
  <2>2. PartsOf(Tail(q), e.n)
    BY <1>7, <1>9 DEF PartsOf
  <2>3. Len(Append(g, h)) + Len(Tail(q)) = s.parts
    BY <1>1, <1>2, <1>3, <1>9
  <2>4. PartsOf(Append(g, h), e.n)
    BY <1>5, <2>1
  <2>5. Streaming(t, Append(g, h), e)
    BY <1>4, <1>9, <2>2, <2>3, <2>4 DEF Streaming, q
  <2> QED BY <2>1, <2>5
<1>10. CASE s.doing = NoCmd /\ Ended(q, g, e.n)
  <2>1. CASE Len(q) = 1
    <3>1. h.kind \in {"status", "error"}
      BY <1>2, <1>10, <2>1 DEF Ended
    <3>2. h.kind = "status" => Len(g) = Parts
      <4>1. h = q[Len(q)]
        BY <1>2, <2>1
      <4>2. q[Len(q)].kind = "status" => Len(g) + Len(q) = Parts + 1
        BY ONLY <1>10 DEF Ended
      <4>3. Len(g) \in Nat /\ Len(q) = 1 /\ Parts \in Nat
        BY <1>3, <1>6, <2>1
      <4> QED BY ONLY <4>1, <4>2, <4>3
    <3> QED BY <1>4, <3>1, <3>2 DEF WholeList
  <2>2. CASE Len(q) # 1
    <3>1. 1 < Len(q)
      BY <1>2, <2>2
    <3>2. h.kind = "part" /\ h.n = e.n
      BY <1>2, <1>8, <1>10, <3>1 DEF Ended
    <3>3. PartsOf(Append(g, h), e.n)
      BY <1>5, <3>2
    <3>4. Len(Tail(q)) > 0 /\ Len(Tail(q)) \in DOMAIN Tail(q) /\ Len(Tail(q)) + 1 = Len(q)
      BY <1>2, <3>1
    <3>5. Tail(q)[Len(Tail(q))] = q[Len(q)]
      BY <1>7, <3>4
    <3>6. \A k \in DOMAIN Tail(q) : k < Len(Tail(q)) =>
              Tail(q)[k].n = e.n /\ Tail(q)[k].kind = "part"
      <4> SUFFICES ASSUME NEW k \in DOMAIN Tail(q), k < Len(Tail(q))
                   PROVE  Tail(q)[k].n = e.n /\ Tail(q)[k].kind = "part"
        OBVIOUS
      <4>1. k + 1 \in DOMAIN q /\ Tail(q)[k] = q[k + 1] /\ k + 1 < Len(q)
        BY <1>2, <1>7
      <4> QED BY <1>10, <4>1 DEF Ended
    <3>7. q[Len(q)].kind = "status" => Len(Append(g, h)) + Len(Tail(q)) = Parts + 1
      <4>1. q[Len(q)].kind = "status" => Len(g) + Len(q) = Parts + 1
        BY ONLY <1>10 DEF Ended
      <4>2. /\ Len(g) \in Nat /\ Len(q) \in Nat /\ Parts \in Nat
            /\ Len(Append(g, h)) = Len(g) + 1 /\ Len(Tail(q)) = Len(q) - 1
        BY <1>2, <1>3, <1>6
      <4>3. PICK a, b, d, f : /\ a = Len(g) /\ b = Len(q)
                              /\ d = Len(Append(g, h)) /\ f = Len(Tail(q))
        OBVIOUS
      <4>4. a + b = Parts + 1 => d + f = Parts + 1
        <5>1. a \in Nat /\ b \in Nat /\ Parts \in Nat /\ d = a + 1 /\ f = b - 1
          BY ONLY <4>2, <4>3
        <5> QED BY ONLY <5>1
      <4> QED BY ONLY <4>1, <4>3, <4>4
    <3>8. q[Len(q)].kind \in {"status", "error"}
      BY <1>10 DEF Ended
    <3>9. Ended(Tail(q), Append(g, h), e.n)
      BY <3>4, <3>5, <3>6, <3>7, <3>8 DEF Ended
    <3>10. Streaming(t, Append(g, h), e)
      BY <1>4, <1>10, <3>3, <3>9 DEF Streaming, q
    <3> QED BY <3>2, <3>10
  <2> QED BY <2>1, <2>2
<1> QED BY <1>9, <1>10 DEF Streaming, q

\* A camera is asked for its list.
LEMMA AskKeeps == ASSUME MultiInv, NEW c \in Cams, Ask(c) PROVE MultiInv'
<1>1. /\ call.pc = "ask" /\ call.todo # {} /\ c = First(call.todo)
      /\ UNCHANGED <<id, known, sel, last>>
  BY DEF Ask
<1>2. c \in call.todo /\ c \in sel
  BY <1>1, FirstTodo, Parted DEF TodoInSel
<1>3. /\ call.got \in [Cams -> Seq(Messages)] /\ call.cmd.name = "imglist"
      /\ \A d \in sel \ call.late :
            IF d \in call.todo THEN call.got[d] = <<>>
            ELSE call.got[d] = <<>> \/ WholeList(call.got[d], call.cmd.n)
  BY <1>1, Parted DEF ListInv
<1>4. call.pend = <<>>
  BY <1>1, Parted DEF PendInv
<1>5. OwnAnswers' /\ OwnLists'
  BY <1>1, LastKept
<1>6. \A d \in Cams : ~Told(d)
  BY <1>1, NotTold
<1>7. (CallWorks \/ CallFails) /\ (script' = script \/ script' = Sent(c, call.cmd))
  BY DEF Ask
<1>8. /\ budget' \in [cmds : Nat, faults : Nat, lost : BOOLEAN]
      /\ (budget.lost => budget'.lost)
  BY <1>7, FailsFacts, Parted DEF CallWorks
<1>9. script' = Sent(c, call.cmd) =>
          /\ AllSigned' /\ script' \in [Cams -> Scripts]
          /\ script'[c].outq = script[c].outq /\ script'[c].inq = Append(script[c].inq, call.cmd)
          /\ script'[c].doing = script[c].doing /\ script'[c].run = script[c].run
          /\ (\A d \in Cams : d # c => script'[d] = script[d])
          /\ (Due(script[c], id[c]) => Due(script'[c], id[c]))
  BY <1>3, WriteFacts, Parted
<1>10. /\ AllSigned' /\ script' \in [Cams -> Scripts]
       /\ \A d \in Cams : /\ script'[d].run => script[d].run
                          /\ Due(script[d], id[d]) => Due(script'[d], id[d])
  <2>1. CASE script' = script
    BY <2>1, ScriptsSame, Parted
  <2>2. CASE script' = Sent(c, call.cmd)
    BY <1>9, <2>2
  <2> QED BY <1>7, <2>1, <2>2
<1>11. CASE /\ script' = Sent(c, call.cmd)
            /\ call' = [call EXCEPT !.pc = "list",
                !.late = IF Quiet(c) /\ script[c].outq = <<>> THEN @ ELSE @ \cup {c}]
  <2>1. PICK late \in SUBSET Cams :
          late = IF Quiet(c) /\ script[c].outq = <<>> THEN call.late ELSE call.late \cup {c}
    BY Parted
  <2>2. call' = [call EXCEPT !.pc = "list", !.late = late]
    BY <1>11, <2>1
  <2>3. /\ call' \in CallType /\ call'.pc = "list" /\ call'.todo = call.todo /\ call'.late = late
        /\ call'.cmd = call.cmd /\ call'.got = call.got /\ call'.pend = call.pend
    BY <2>2, Parted DEF CallType, CallPcs
  <2>4. MultiType'
    BY <1>1, <1>8, <1>10, <2>3, Parted DEF MultiType
  <2>5. TodoInSel' /\ PendInv'
    BY <1>1, <1>4, <2>3, Parted DEF TodoInSel, PendInv
  <2>6. IdInv'
    BY <1>1, <1>6, <1>8, <1>10, <2>3, IdSame
  <2>7. c \notin late => Streaming(script'[c], call.got[c], call.cmd)
    <3> SUFFICES ASSUME c \notin late PROVE Streaming(script'[c], call.got[c], call.cmd)
      OBVIOUS
    <3>1. script[c].inq = <<>> /\ script[c].doing = NoCmd /\ script[c].outq = <<>> /\ c \notin call.late
      BY <2>1 DEF Quiet
    <3>2. call.got[c] = <<>>
      BY <1>2, <1>3, <3>1
    <3>3. /\ script'[c].inq = <<call.cmd>> /\ script'[c].doing = NoCmd
          /\ script'[c].outq = <<>>
      BY <1>9, <1>11, <3>1
    <3>4. PartsOf(<<>>, call.cmd.n)
      BY DEF PartsOf
    <3> QED BY <3>2, <3>3, <3>4 DEF Streaming
  <2>8. ListInv'
    <3>1. \A d \in sel \ late : d \in call.todo =>
            IF d = c THEN Streaming(script'[d], call.got[d], call.cmd) ELSE call.got[d] = <<>>
      BY <1>3, <2>1, <2>7
    <3>2. \A d \in sel \ late : d \notin call.todo =>
            call.got[d] = <<>> \/ WholeList(call.got[d], call.cmd.n)
      BY <1>3, <2>1
    <3> QED BY <1>1, <1>3, <2>3, <3>1, <3>2 DEF ListInv
  <2> QED BY <1>5, <1>10, <2>3, <2>4, <2>5, <2>6, <2>8, InList
<1>12. CASE call' = [call EXCEPT !.todo = @ \ {c}]
  <2>1. /\ call' \in CallType /\ call'.pc = "ask" /\ call'.todo = call.todo \ {c}
        /\ call'.late = call.late /\ call'.cmd = call.cmd /\ call'.got = call.got
        /\ call'.pend = call.pend
    BY <1>1, <1>12, Parted DEF CallType
  <2>2. MultiType'
    BY <1>1, <1>8, <1>10, <2>1, Parted DEF MultiType
  <2>3. TodoInSel' /\ PendInv'
    BY <1>1, <1>4, <2>1, Parted DEF TodoInSel, PendInv
  <2>4. IdInv'
    BY <1>1, <1>6, <1>8, <1>10, <2>1, IdSame
  <2>5. ListInv'
    BY <1>1, <1>2, <1>3, <2>1 DEF ListInv
  <2> QED BY <1>5, <1>10, <2>1, <2>2, <2>3, <2>4, <2>5, InList
<1> QED BY <1>11, <1>12 DEF Ask

\* A part or the status of a list is read.
LEMMA ListRead ==
    ASSUME MultiInv, NEW c \in Cams, call.pc = "list", c = First(call.todo),
           script[c].outq # <<>>, script' = [script EXCEPT ![c].outq = Tail(@)], CallWorks,
           NEW h, h = Head(script[c].outq), h.kind # "error",
           call' = [call EXCEPT
                      !.got[c] = IF h.kind = "part" THEN Append(@, h) ELSE @,
                      !.pc = IF EndsList(h) THEN "ask" ELSE "list",
                      !.todo = IF EndsList(h) THEN @ \ {c} ELSE @],
           UNCHANGED <<id, known, sel, last>>
    PROVE  MultiInv'
<1>1. /\ call.todo # {} /\ call.got \in [Cams -> Seq(Messages)] /\ call.cmd.name = "imglist"
      /\ \A d \in sel \ call.late :
            IF d \in call.todo
            THEN IF d = c THEN Streaming(script[d], call.got[d], call.cmd) ELSE call.got[d] = <<>>
            ELSE call.got[d] = <<>> \/ WholeList(call.got[d], call.cmd.n)
  BY Parted DEF ListInv
<1>2. c \in call.todo /\ call.todo \subseteq sel
  BY <1>1, FirstTodo, Parted DEF TodoInSel
<1>3. /\ AllSigned' /\ script' \in [Cams -> Scripts]
      /\ script'[c].outq = Tail(script[c].outq) /\ script'[c].inq = script[c].inq
      /\ script'[c].doing = script[c].doing /\ script'[c].parts = script[c].parts
      /\ (\A d \in Cams : /\ script'[d].run => script[d].run
                          /\ Due(script[d], id[d]) => Due(script'[d], id[d]))
      /\ h \in Messages
  BY ReadFacts
<1>4. PICK g : g = IF h.kind = "part" THEN Append(call.got[c], h) ELSE call.got[c]
  OBVIOUS
<1>5. g \in Seq(Messages)
  BY <1>1, <1>3, <1>4, Appended
<1>6. PICK got : got = [call.got EXCEPT ![c] = g]
  OBVIOUS
<1>7. got \in [Cams -> Seq(Messages)] /\ got[c] = g /\ \A d \in Cams : d # c => got[d] = call.got[d]
  BY <1>1, <1>5, <1>6
<1>8. got \in GotSets
  BY <1>7 DEF GotSets
<1>9. PICK pc, todo : /\ pc = IF EndsList(h) THEN "ask" ELSE "list"
                      /\ todo = IF EndsList(h) THEN call.todo \ {c} ELSE call.todo
  OBVIOUS
<1>10. call' = [call EXCEPT !.got = got, !.pc = pc, !.todo = todo]
  BY <1>4, <1>6, <1>9, Parted DEF CallType
<1>11. pc \in CallPcs /\ pc \in {"ask", "list"} /\ todo \in SUBSET Cams
  BY <1>9, Parted DEF CallPcs
<1>12. /\ call' \in CallType /\ call'.pc = pc /\ call'.todo = todo /\ call'.got = got
       /\ call'.cmd = call.cmd /\ call'.late = call.late /\ call'.pend = call.pend
  BY <1>8, <1>10, <1>11, Parted DEF CallType
<1>13. OwnAnswers' /\ OwnLists' /\ budget' = budget
  BY LastKept DEF CallWorks
<1>14. MultiType'
  BY <1>3, <1>12, <1>13, Parted DEF MultiType
<1>15. TodoInSel' /\ PendInv'
  <2>1. call.pend = <<>>
    BY Parted DEF PendInv
  <2>2. todo \subseteq sel
    BY <1>2, <1>9
  <2> QED BY <1>11, <1>12, <2>1, <2>2 DEF TodoInSel, PendInv
<1>16. IdInv'
  <2>1. \A d \in Cams : ~Told(d)
    BY NotTold
  <2> QED BY <1>3, <1>12, <1>13, <2>1, IdSame
<1>17. c \notin call.late =>
          /\ h.kind = "status" => WholeList(call.got[c], call.cmd.n)
          /\ h.kind # "status" =>
                h.kind = "part" /\ Streaming(script'[c], Append(call.got[c], h), call.cmd)
  <2> SUFFICES ASSUME c \notin call.late
               PROVE  /\ h.kind = "status" => WholeList(call.got[c], call.cmd.n)
                      /\ h.kind # "status" =>
                            h.kind = "part" /\ Streaming(script'[c], Append(call.got[c], h), call.cmd)
    OBVIOUS
  <2>1. Streaming(script[c], call.got[c], call.cmd)
    BY <1>1, <1>2
  <2>2. script[c] \in Scripts /\ call.got[c] \in Seq(Messages)
    BY <1>1, Parted
  <2>3. PICK s, t, u, e, m :
          s = script[c] /\ t = script'[c] /\ u = call.got[c] /\ e = call.cmd /\ m = h
    OBVIOUS
  <2>4. /\ s \in Scripts /\ u \in Seq(Messages)
        /\ s.outq # <<>> /\ Streaming(s, u, e) /\ m = Head(s.outq)
    BY <2>1, <2>2, <2>3
  <2>5. t.outq = Tail(s.outq) /\ t.inq = s.inq /\ t.doing = s.doing /\ t.parts = s.parts
    BY <1>3, <2>3
  <2>6. /\ m.kind = "status" => WholeList(u, e.n)
        /\ m.kind \notin {"status", "error"} => m.kind = "part" /\ Streaming(t, Append(u, m), e)
    BY ONLY StreamRead, <2>4, <2>5
  <2> QED BY <2>3, <2>6
<1>18. ListInv'
  <2>1. \A d \in sel \ call.late : d # c =>
          IF d \in todo THEN got[d] = <<>>
          ELSE got[d] = <<>> \/ WholeList(got[d], call.cmd.n)
    BY <1>1, <1>7, <1>9, Parted
  <2>2. CASE h.kind = "status"
    <3>1. pc = "ask" /\ todo = call.todo \ {c} /\ g = call.got[c]
      BY <1>4, <1>9, <2>2 DEF EndsList
    <3>2. c \notin call.late => WholeList(got[c], call.cmd.n)
      BY <1>7, <1>17, <2>2, <3>1
    <3>3. \A d \in sel \ call.late :
            IF d \in todo THEN got[d] = <<>>
            ELSE got[d] = <<>> \/ WholeList(got[d], call.cmd.n)
      BY <2>1, <3>1, <3>2
    <3> QED BY <1>1, <1>7, <1>12, <3>1, <3>3 DEF ListInv
  <2>3. CASE h.kind # "status"
    <3>1. pc = "list" /\ todo = call.todo
      BY <1>9, <2>3 DEF EndsList
    <3>2. c \notin call.late => Streaming(script'[c], got[c], call.cmd)
      BY <1>4, <1>7, <1>17, <2>3
    <3>3. \A d \in sel \ call.late :
            IF d \in todo
            THEN IF d = First(todo) THEN Streaming(script'[d], got[d], call.cmd) ELSE got[d] = <<>>
            ELSE got[d] = <<>> \/ WholeList(got[d], call.cmd.n)
      BY <1>2, <2>1, <3>1, <3>2
    <3> QED BY <1>1, <1>7, <1>12, <3>1, <3>3 DEF ListInv
  <2> QED BY <2>2, <2>3
<1> QED BY <1>3, <1>11, <1>12, <1>13, <1>14, <1>15, <1>16, <1>18, InList

\* The list of a camera is read.
LEMMA ReadPartKeeps == ASSUME MultiInv, NEW c \in Cams, ReadPart(c) PROVE MultiInv'
<1>1. call.pc = "list" /\ c = First(call.todo)
  BY DEF ReadPart
<1>2. call.pend = <<>> /\ \A d \in Cams : ~Told(d)
  BY <1>1, NotTold, Parted DEF PendInv
<1>3. PICK q, h : q = script[c].outq /\ h = Head(q)
  OBVIOUS
<1>4. ASSUME Throws, CallFails \/ CallWorks,
             script' = script \/ (q # <<>> /\ script' = [script EXCEPT ![c].outq = Tail(@)])
      PROVE  MultiInv'
  <2>1. /\ AllSigned' /\ script' \in [Cams -> Scripts]
        /\ \A d \in Cams : /\ script'[d].run => script[d].run
                           /\ Due(script[d], id[d]) => Due(script'[d], id[d])
    <3>1. CASE script' = script
      BY <3>1, ScriptsSame, Parted
    <3>2. CASE q # <<>> /\ script' = [script EXCEPT ![c].outq = Tail(@)]
      BY <1>3, <3>2, ReadFacts
    <3> QED BY <1>4, <3>1, <3>2
  <2> QED BY <1>2, <1>4, <2>1, ThrowKeeps
<1>5. ASSUME q # <<>>, CallWorks, script' = [script EXCEPT ![c].outq = Tail(@)], h.kind # "error",
             call' = [call EXCEPT
                        !.got[c] = IF h.kind = "part" THEN Append(@, h) ELSE @,
                        !.pc = IF EndsList(h) THEN "ask" ELSE "list",
                        !.todo = IF EndsList(h) THEN @ \ {c} ELSE @],
             UNCHANGED <<id, known, sel, last>>
      PROVE  MultiInv'
  BY <1>1, <1>3, <1>5, ListRead
<1> QED BY <1>3, <1>4, <1>5 DEF ReadPart

-----------------------------------------------------------------------------
(* Scripts that are started.                                               *)

\* Between the steps of mc:start the cameras of a set_id are none, and nothing
\* is said of what was answered.
LEMMA Starting ==
    ASSUME MultiInv, call.pc \in {"start", "exiting", "ending", "exec"},
           NEW pc \in {"start", "exiting", "ending", "exec"}, NEW todo \in SUBSET call.todo,
           call' = [call EXCEPT !.pc = pc, !.todo = todo], sel' = sel, id' = id, last' = last,
           known' \in [Cams -> BOOLEAN], AllSigned', script' \in [Cams -> Scripts],
           budget' \in [cmds : Nat, faults : Nat, lost : BOOLEAN], IdInv'
    PROVE  MultiInv'
<1>1. pc \in CallPcs /\ todo \in SUBSET Cams
  BY Parted DEF CallPcs
<1>2. /\ call' \in CallType /\ call'.pc = pc /\ call'.todo = todo
      /\ call'.cmd = call.cmd /\ call'.pend = call.pend
  BY <1>1, Parted DEF CallType
<1>3. MultiType'
  BY <1>2, Parted DEF MultiType
<1>4. TodoInSel' /\ PendInv'
  <2>1. call.todo \subseteq sel /\ call.pend = <<>> /\ call.cmd.name # "setid"
    BY Parted DEF TodoInSel, PendInv
  <2> QED BY <1>2, <2>1 DEF TodoInSel, PendInv
<1>5. OwnAnswers' /\ OwnLists'
  BY LastKept
<1> QED BY <1>2, <1>3, <1>4, <1>5, Apart

\* The next camera.
LEMMA NextStartFacts ==
    ASSUME MultiInv, call' = NextStart
    PROVE  \E todo \in SUBSET call.todo : call' = [call EXCEPT !.pc = "start", !.todo = todo]
<1>1. call' = [call EXCEPT !.pc = "start", !.todo = call.todo \ {First(call.todo)}]
  BY Parted DEF NextStart, CallType
<1>2. call.todo \ {First(call.todo)} \in SUBSET call.todo
  OBVIOUS
<1> QED BY <1>1, <1>2

\* Only the place in mc:start changes.
LEMMA SamePlace ==
    ASSUME MultiInv, NEW pc, call' = [call EXCEPT !.pc = pc]
    PROVE  \E todo \in SUBSET call.todo : call' = [call EXCEPT !.pc = pc, !.todo = todo]
<1>1. call' = [call EXCEPT !.pc = pc, !.todo = call.todo]
  BY Parted DEF CallType
<1> QED BY <1>1

\* A script is found to run or not.
LEMMA StartAskKeeps == ASSUME MultiInv, NEW c \in Cams, StartAsk(c) PROVE MultiInv'
<1>1. call.pc = "start" /\ UNCHANGED <<script, id, known, sel, last>>
  BY DEF StartAsk
<1>2. CallWorks \/ CallFails
  BY DEF StartAsk
<1>3. /\ budget' \in [cmds : Nat, faults : Nat, lost : BOOLEAN]
      /\ (budget.lost => budget'.lost)
  BY <1>2, FailsFacts, Parted DEF CallWorks
<1>4. \E pc \in {"start", "exiting", "ending", "exec"}, todo \in SUBSET call.todo :
          call' = [call EXCEPT !.pc = pc, !.todo = todo]
  <2>1. \/ call' = [call EXCEPT !.pc = "exiting"] \/ call' = [call EXCEPT !.pc = "exec"]
        \/ call' = NextStart
    BY DEF StartAsk
  <2> QED BY <2>1, NextStartFacts, SamePlace
<1>5. PICK pc \in {"start", "exiting", "ending", "exec"}, todo \in SUBSET call.todo :
          call' = [call EXCEPT !.pc = pc, !.todo = todo]
  BY <1>4
<1>6. call'.pend = call.pend
  BY <1>5, Parted DEF CallType
<1>7. AllSigned' /\ script' \in [Cams -> Scripts]
      /\ \A d \in Cams : /\ script'[d].run => script[d].run
                         /\ Due(script[d], id[d]) => Due(script'[d], id[d])
  BY <1>1, ScriptsSame, Parted
<1>8. IdInv'
  <2>1. \A d \in Cams : ~Told(d)
    BY <1>1, NotTold
  <2> QED BY <1>1, <1>3, <1>6, <1>7, <2>1, IdSame
<1> QED BY <1>1, <1>3, <1>5, <1>7, <1>8, Starting, Parted

\* A script is asked to exit, or has ended by then.
LEMMA StartExitKeeps == ASSUME MultiInv, NEW c \in Cams, StartExit(c) PROVE MultiInv'
<1>1. call.pc = "exiting" /\ UNCHANGED <<id, known, sel, last>>
  BY DEF StartExit
<1>2. call.cmd.name # "setid" /\ call.cmd \in Commands /\ \A d \in Cams : ~Told(d)
  BY <1>1, NotTold, Parted DEF PendInv
<1>3. (CallWorks \/ CallFails) /\ (script' = script \/ script' = Sent(c, call.cmd))
  BY DEF StartExit
<1>4. /\ budget' \in [cmds : Nat, faults : Nat, lost : BOOLEAN]
      /\ (budget.lost => budget'.lost)
  BY <1>3, FailsFacts, Parted DEF CallWorks
<1>5. /\ AllSigned' /\ script' \in [Cams -> Scripts]
      /\ \A d \in Cams : /\ script'[d].run => script[d].run
                         /\ Due(script[d], id[d]) => Due(script'[d], id[d])
  <2>1. CASE script' = script
    BY <2>1, ScriptsSame, Parted
  <2>2. CASE script' = Sent(c, call.cmd)
    <3>1. /\ AllSigned' /\ script' \in [Cams -> Scripts]
          /\ script'[c].run = script[c].run
          /\ (\A d \in Cams : d # c => script'[d] = script[d])
          /\ (Due(script[c], id[c]) => Due(script'[c], id[c]))
      BY <1>2, <2>2, WriteFacts
    <3> QED BY <3>1
  <2> QED BY <1>3, <2>1, <2>2
<1>6. \E pc \in {"start", "exiting", "ending", "exec"}, todo \in SUBSET call.todo :
          call' = [call EXCEPT !.pc = pc, !.todo = todo]
  <2>1. call' = [call EXCEPT !.pc = "ending"] \/ call' = NextStart
    BY DEF StartExit
  <2> QED BY <2>1, NextStartFacts, SamePlace
<1>7. PICK pc \in {"start", "exiting", "ending", "exec"}, todo \in SUBSET call.todo :
          call' = [call EXCEPT !.pc = pc, !.todo = todo]
  BY <1>6
<1>8. call'.pend = call.pend
  BY <1>7, Parted DEF CallType
<1>9. IdInv'
  BY <1>1, <1>2, <1>4, <1>5, <1>8, IdSame
<1> QED BY <1>1, <1>4, <1>5, <1>7, <1>9, Starting, Parted

\* A script that was asked to exit has ended, or has not.
LEMMA StartWaitKeeps == ASSUME MultiInv, NEW c \in Cams, StartWait(c) PROVE MultiInv'
<1>1. call.pc = "ending" /\ UNCHANGED <<script, id, known, sel, last>>
  BY DEF StartWait
<1>2. CallWorks \/ CallFails
  BY DEF StartWait
<1>3. /\ budget' \in [cmds : Nat, faults : Nat, lost : BOOLEAN]
      /\ (budget.lost => budget'.lost)
  BY <1>2, FailsFacts, Parted DEF CallWorks
<1>4. \E pc \in {"start", "exiting", "ending", "exec"}, todo \in SUBSET call.todo :
          call' = [call EXCEPT !.pc = pc, !.todo = todo]
  <2>1. call' = [call EXCEPT !.pc = "exec"] \/ call' = NextStart
    BY DEF StartWait
  <2> QED BY <2>1, NextStartFacts, SamePlace
<1>5. PICK pc \in {"start", "exiting", "ending", "exec"}, todo \in SUBSET call.todo :
          call' = [call EXCEPT !.pc = pc, !.todo = todo]
  BY <1>4
<1>6. call'.pend = call.pend
  BY <1>5, Parted DEF CallType
<1>7. AllSigned' /\ script' \in [Cams -> Scripts]
      /\ \A d \in Cams : /\ script'[d].run => script[d].run
                         /\ Due(script[d], id[d]) => Due(script'[d], id[d])
  BY <1>1, ScriptsSame, Parted
<1>8. IdInv'
  <2>1. \A d \in Cams : ~Told(d)
    BY <1>1, NotTold
  <2> QED BY <1>1, <1>3, <1>6, <1>7, <2>1, IdSame
<1> QED BY <1>1, <1>3, <1>5, <1>7, <1>8, Starting, Parted

\* A script begins with the id of the wrapper and with nothing to do.
LEMMA FreshFacts ==
    ASSUME MultiInv, NEW c \in Cams, script' = [script EXCEPT ![c] = Fresh(c)]
    PROVE  /\ AllSigned' /\ script' \in [Cams -> Scripts]
           /\ Due(script'[c], id[c])
           /\ \A d \in Cams : d # c => script'[d] = script[d]
<1>1. id[c] \in Ids /\ <<>> \in Seq(Messages) /\ <<>> \in Seq(Commands) /\ DOMAIN <<>> = {}
  BY Parted, Nothing
<1>2. PICK t : t = Fresh(c)
  OBVIOUS
<1>3. /\ t \in Scripts /\ t.inq = <<>> /\ t.outq = <<>> /\ t.doing = NoCmd /\ t.id = id[c]
  BY <1>1, <1>2, Basics DEF Fresh, Scripts
<1>4. /\ script' \in [Cams -> Scripts] /\ script'[c] = t
      /\ \A d \in Cams : d # c => script'[d] = script[d]
  BY <1>2, <1>3, Parted
<1>5. AllSigned'
  <2> SUFFICES ASSUME NEW d \in Cams PROVE Signed(d)'
    BY DEF AllSigned
  <2>1. CASE d = c
    BY <2>1, <1>1, <1>3, <1>4 DEF Signed
  <2>2. CASE d # c
    BY <2>2, <1>4, Parted DEF AllSigned, Signed
  <2> QED BY <2>1, <2>2
<1>6. Due(t, id[c])
  BY <1>3, DueQuiet
<1> QED BY <1>4, <1>5, <1>6

\* A script is started.
LEMMA StartExecKeeps == ASSUME MultiInv, NEW c \in Cams, StartExec(c) PROVE MultiInv'
<1>1. call.pc = "exec" /\ call' = NextStart /\ UNCHANGED <<id, sel, last>>
  BY DEF StartExec
<1>2. /\ script' = script \/ script' = [script EXCEPT ![c] = Fresh(c)]
      /\ \/ CallWorks /\ script' = [script EXCEPT ![c] = Fresh(c)]
         \/ CallFails
  BY DEF StartExec
<1>3. known' \in [Cams -> BOOLEAN]
  BY Parted DEF StartExec
<1>4. /\ budget' \in [cmds : Nat, faults : Nat, lost : BOOLEAN]
      /\ (budget.lost => budget'.lost)
  BY <1>2, FailsFacts, Parted DEF CallWorks
<1>5. AllSigned' /\ script' \in [Cams -> Scripts]
  BY <1>2, FreshFacts, ScriptsSame, Parted
<1>6. PICK todo \in SUBSET call.todo : call' = [call EXCEPT !.pc = "start", !.todo = todo]
  BY <1>1, NextStartFacts
<1>7. call'.pend = call.pend
  BY <1>6, Parted DEF CallType
<1>8. IdInv'
  <2>1. CASE CallFails
    BY <2>1, FailsFacts, Parted DEF IdInv
  <2>2. CASE CallWorks /\ script' = [script EXCEPT ![c] = Fresh(c)]
    <3>1. Due(script'[c], id[c]) /\ \A d \in Cams : d # c => script'[d] = script[d]
      BY <2>2, FreshFacts
    <3>2. \A d \in Cams : ~Told(d)
      BY <1>1, NotTold
    <3> SUFFICES ASSUME ~budget'.lost PROVE IdInv'
      BY DEF IdInv
    <3>3. ~budget.lost
      BY <1>4
    <3>4. OneEach(id, call.pend) /\ \A d \in Cams : script[d].run => Due(script[d], id[d])
      BY <3>2, <3>3, Parted DEF IdInv
    <3>5. OneEach(id', call'.pend)
      BY <1>1, <1>7, <3>4
    <3>6. \A d \in Cams : script'[d].run => Due(script'[d], id'[d])
      BY <1>1, <3>1, <3>4
    <3> QED BY <3>5, <3>6 DEF IdInv
  <2> QED BY <1>2, <2>1, <2>2
<1>9. "start" \in {"start", "exiting", "ending", "exec"}
  OBVIOUS
<1> QED BY <1>1, <1>3, <1>4, <1>5, <1>6, <1>8, <1>9, Starting

-----------------------------------------------------------------------------
(* The theorems.                                                           *)

\* The invariant holds at first.
LEMMA MultiStarts == ASSUME MultiInit PROVE MultiInv
<1>1. /\ id = [c \in Cams |-> c] /\ script = [c \in Cams |-> Fresh(c)]
      /\ known = [c \in Cams |-> TRUE] /\ sel = Cams /\ call = Idle /\ last = NoCall
  BY DEF MultiInit
<1>2. id \in [Cams -> Ids] /\ known \in [Cams -> BOOLEAN] /\ sel \in SUBSET Cams
  BY <1>1 DEF Ids
<1>3. <<>> \in Seq(Messages) /\ <<>> \in Seq(Commands) /\ DOMAIN <<>> = {}
  BY Nothing
<1>4. \A c \in Cams : /\ Fresh(c) \in Scripts /\ Fresh(c).inq = <<>> /\ Fresh(c).outq = <<>>
                      /\ Fresh(c).doing = NoCmd /\ Fresh(c).id = id[c]
  BY <1>2, <1>3, Basics DEF Fresh, Scripts
<1>5. script \in [Cams -> Scripts] /\ \A c \in Cams : Signed(c)
  BY <1>1, <1>3, <1>4 DEF Signed
<1>6. call \in CallType /\ call.pc = "idle" /\ call.pend = <<>>
  <2>1. NoCmd \in Commands /\ <<>> \in ResSets /\ <<>> \in GotSets /\ <<>> \in Pendings
    BY Basics
  <2> QED BY <1>1, <2>1 DEF Idle, CallType, CallPcs
<1>7. budget \in [cmds : Nat, faults : Nat, lost : BOOLEAN]
  <2>1. PICK b \in Budgets : budget = [cmds |-> b[1], faults |-> b[2], lost |-> FALSE]
    BY DEF MultiInit
  <2>2. b \in Nat \X Nat
    BY MulticamAssumption
  <2> QED BY <2>1, <2>2
<1>8. MultiType
  BY <1>1, <1>2, <1>5, <1>6, <1>7 DEF MultiType
<1>9. TodoInSel /\ AskInv /\ ListInv /\ PendInv
  BY <1>6 DEF TodoInSel, AskInv, ListInv, PendInv
<1>10. IdInv
  <2>1. IsInjective(id)
    BY <1>1 DEF IsInjective
  <2>2. OneEach(id, call.pend)
    BY <1>6, <2>1 DEF OneEach
  <2>3. \A c \in Cams : Due(script[c], id[c])
    BY <1>1, <1>4, DueQuiet
  <2> QED BY <2>2, <2>3 DEF IdInv
<1>11. OwnAnswers /\ OwnLists
  BY <1>1 DEF OwnAnswers, OwnLists, NoCall
<1> QED BY <1>5, <1>8, <1>9, <1>10, <1>11 DEF MultiInv

\* And is kept where nothing happens.
LEMMA MultiStays == ASSUME MultiInv, UNCHANGED multiVars PROVE MultiInv'
<1>1. UNCHANGED <<script, id, known, sel, call, last, budget>>
  BY DEF multiVars
<1>2. MultiType' /\ TodoInSel' /\ AllSigned' /\ PendInv' /\ OwnAnswers' /\ OwnLists'
  BY <1>1, Parted, LastKept, ScriptsSame DEF MultiType, TodoInSel, PendInv
<1>3. AskInv'
  BY <1>1, Parted DEF AskInv, Distinct
<1>4. ListInv'
  BY <1>1, Parted DEF ListInv
<1>5. IdInv'
  BY <1>1, Parted DEF IdInv, Told
<1> QED BY <1>2, <1>3, <1>4, <1>5 DEF MultiInv, AllSigned

\* Every step keeps it.
LEMMA MultiStep == ASSUME MultiInv, [MultiNext]_multiVars PROVE MultiInv'
<1>1. CASE Call
  <2>1. CASE \E name \in Names, wait \in BOOLEAN : Cmd(name, wait)
    BY <2>1, CmdKeeps
  <2>2. CASE Batch
    BY <2>2, BatchKeeps
  <2>3. CASE Start
    BY <2>3, StartKeeps
  <2>4. CASE \E c \in Cams : Select({c})
    BY <2>4, SelectKeeps
  <2>5. CASE \E c \in Cams : SetId(c, First(Cams))
    BY <2>5, SetIdKeeps
  <2>6. CASE Select(Cams)
    BY <2>6, SelectKeeps
  <2> QED BY <1>1, <2>1, <2>2, <2>3, <2>4, <2>5, <2>6 DEF Call
<1>2. CASE HostNext
  <2>1. CASE FlushEnds \/ SendEnds \/ Complete \/ TimesOut \/ PollsAgain
    BY <2>1, FlushEndsKeeps, SendEndsKeeps, CompleteKeeps, TimesOutKeeps, PollsAgainKeeps
  <2>2. CASE BatchEnds \/ StartEnds \/ SetIdCam \/ SetIdEnds
    BY <2>2, BatchEndsKeeps, StartEndsKeeps, SetIdCamKeeps, SetIdEndsKeeps
  <2>3. ASSUME NEW c \in Cams, Flush(c) \/ Send(c) \/ Poll(c) \/ Ask(c) \/ ReadPart(c)
        PROVE  MultiInv'
    BY <2>3, FlushKeeps, SendKeeps, PollKeeps, AskKeeps, ReadPartKeeps
  <2>4. ASSUME NEW c \in Cams, StartAsk(c) \/ StartExit(c) \/ StartWait(c) \/ StartExec(c)
        PROVE  MultiInv'
    BY <2>4, StartAskKeeps, StartExitKeeps, StartWaitKeeps, StartExecKeeps
  <2> QED BY <1>2, <2>1, <2>2, <2>3, <2>4 DEF HostNext
<1>3. CASE \E c \in Cams : CamNext(c)
  BY <1>3, CameraKeeps
<1>4. CASE UNCHANGED multiVars
  BY <1>4, MultiStays
<1> QED BY <1>1, <1>2, <1>3, <1>4 DEF MultiNext

\* What the commands to several cameras rest on holds always: between the flush
\* of a command and its end, the cameras that were not late have nothing to read
\* but its answers; the camera whose list is read has the rest of it to send; and
\* the ids of the wrappers are those that the scripts have or are told.
THEOREM MulticamInductive == MultiSpec => []MultiInv
<1>1. MultiInit => MultiInv
  BY MultiStarts
<1>2. MultiInv /\ [MultiNext]_multiVars => MultiInv'
  BY MultiStep
<1> QED BY <1>1, <1>2, PTL DEF MultiSpec

\* A result that is reported of a camera is the answer of that camera to that
\* command, a list is whole and the answer to its own, and no two wrappers share
\* an id once the cameras have done what they were told.
THEOREM AnswersKept == MultiSpec => []AnswersTrue
<1>1. MultiInv => AnswersTrue
  <2> SUFFICES ASSUME MultiInv PROVE AnswersTrue
    OBVIOUS
  <2>1. IdsTrue
    <3> SUFFICES ASSUME call.pc = "idle", ~budget.lost
                 PROVE  /\ IsInjective(id)
                        /\ \A c \in Cams : Quiet(c) /\ script[c].run => script[c].id = id[c]
      BY DEF IdsTrue
    <3>1. call.pend = <<>>
      BY Parted DEF PendInv
    <3>2. OneEach(id, <<>>) /\ \A c \in Cams : script[c].run => Due(script[c], id[c]) \/ Told(c)
      BY <3>1, Parted DEF IdInv
    <3>3. IsInjective(id)
      <4>1. \A c \in Cams, i \in Ids : <<>> # << <<c, i>> >>
        OBVIOUS
      <4>2. \A c, d \in Cams, i, j \in Ids : <<>> # << <<d, j>>, <<c, i>> >>
        OBVIOUS
      <4> QED BY <3>2, <4>1, <4>2 DEF OneEach
    <3>4. \A c \in Cams : Quiet(c) /\ script[c].run => script[c].id = id[c]
      BY <3>2, NotTold, DueQuiet DEF Quiet
    <3> QED BY <3>3, <3>4
  <2> QED BY <2>1, Parted DEF AnswersTrue
<1> QED BY <1>1, MulticamInductive, PTL

=============================================================================
