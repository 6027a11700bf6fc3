------------------------------ MODULE GuiSched ------------------------------
(***************************************************************************)
(* The scheduler of the IUP GUI (lua/gui_sched.lua).  run_after and        *)
(* run_repeat put jobs in two tables and start the timer; each tick of the *)
(* timer walks through the tables, runs what is due, and stops the timer   *)
(* when it found no job that stays.  A job is Lua code: it may schedule,   *)
(* cancel and throw.  A sleep of the CLI is one (gui_base.lua): it resumes *)
(* the coroutine, which runs on to its next sleep.                         *)
(***************************************************************************)
EXTENDS Integers, FiniteSets

CONSTANTS Once,     \* jobs of run_after
          Repeat,   \* jobs of run_repeat
          Uses      \* do jobs schedule others while a tick runs them, and which
                    \* jobs of Repeat run from the start and stay, such as the
                    \* device check of gui_dev_check_interval?

ASSUME GuiSchedAssumption ==
    /\ Once \cap Repeat = {}
    /\ Uses \subseteq [inTick : BOOLEAN, forever : SUBSET Repeat]

VARIABLES
    use,        \* the use the scheduler is put to
    pending,    \* m.pending: jobs of run_after
    repeating,  \* m.repeating: jobs of run_repeat
    due,        \* the jobs whose time has come
    timer,      \* m.timer.run
    tick        \* the tick in progress: the loop, the jobs it has still to
                \* visit, those due at m.now, and how many it found to stay

vars == <<use, pending, repeating, due, timer, tick>>

InTick  == use.inTick
Forever == use.forever

NoTick == [loop |-> "none", todo |-> {}, ripe |-> {}, num |-> 0]

Init ==
    /\ use \in Uses
    /\ pending = {}
    /\ repeating = Forever
    /\ due = {}
    /\ timer = (Forever # {})
    /\ tick = NoTick

-----------------------------------------------------------------------------
\* run_after and run_repeat; both make the timer run.
RunAfter(j) ==
    /\ j \in Once \ pending
    /\ pending' = pending \cup {j}
    /\ timer' = TRUE
    /\ UNCHANGED <<repeating, due>>

RunRepeat(j) ==
    /\ j \in Repeat \ repeating
    /\ repeating' = repeating \cup {j}
    /\ timer' = TRUE
    /\ UNCHANGED <<pending, due>>

\* t.cancel: the timer is left as it is.
Cancel(j) ==
    /\ j \in repeating \ Forever
    /\ repeating' = repeating \ {j}
    /\ due' = due \ {j}
    /\ UNCHANGED <<pending, timer>>

Schedules(j) == RunAfter(j) \/ RunRepeat(j) \/ Cancel(j)

\* GUI callbacks schedule jobs between two ticks.
Callback ==
    /\ tick = NoTick
    /\ \E j \in Once \cup Repeat : Schedules(j)
    /\ UNCHANGED <<use, tick>>

\* The time of a job comes, or its interval is over.
TimePasses(j) ==
    /\ j \in (pending \cup repeating) \ due
    /\ due' = due \cup {j}
    /\ UNCHANGED <<use, pending, repeating, timer, tick>>

-----------------------------------------------------------------------------
\* m.tick
TickStarts ==
    /\ timer /\ tick = NoTick
    /\ tick' = [loop |-> "pending", todo |-> pending, ripe |-> due, num |-> 0]
    /\ UNCHANGED <<use, pending, repeating, due, timer>>

\* v:fn() with the tables p, r and the due jobs d when it is called, and the
\* tick t that goes on when it returns.  A job that fn adds to the table in
\* traversal may or may not be met by pairs, one it cancels is not.  An error
\* ends the tick: errutil.wrap prints it.
Runs(p, r, d, t) ==
    \/ /\ pending' = p /\ repeating' = r /\ due' = d /\ UNCHANGED timer
       /\ tick' \in {t, NoTick}
    \/ /\ InTick
       /\ \/ \E j \in Once \ p, met \in BOOLEAN :
               /\ met => t.loop = "pending"
               /\ pending' = p \cup {j} /\ repeating' = r /\ due' = d
               /\ tick' = IF met THEN [t EXCEPT !.todo = @ \cup {j}] ELSE t
          \/ \E j \in Repeat \ r, met \in BOOLEAN :
               /\ met => t.loop = "repeating"
               /\ pending' = p /\ repeating' = r \cup {j} /\ due' = d
               /\ tick' = IF met THEN [t EXCEPT !.todo = @ \cup {j}] ELSE t
       /\ timer' = TRUE
    \/ /\ InTick
       /\ \E j \in r \ Forever :
            /\ pending' = p /\ repeating' = r \ {j} /\ due' = d \ {j}
            /\ tick' = [t EXCEPT !.todo = @ \ {j}]
       /\ UNCHANGED timer

Counted(t) == [t EXCEPT !.num = @ + 1]

\* Mutant of VisitPending: the job is removed after it has run.
VisitPendingLate(j) ==
    /\ tick.loop = "pending" /\ j \in tick.todo
    /\ UNCHANGED use
    /\ LET t == [tick EXCEPT !.todo = @ \ {j}, !.ripe = @ \ {j}]
       IN  IF j \in tick.ripe
           THEN \/ Runs(pending \ {j}, repeating, due \ {j}, t)
                \/ /\ tick' = NoTick
                   /\ UNCHANGED <<pending, repeating, due, timer>>
           ELSE tick' = Counted(t) /\ UNCHANGED <<pending, repeating, due, timer>>

\* The first loop: a job is removed and then run.
VisitPending(j) ==
    /\ tick.loop = "pending" /\ j \in tick.todo
    /\ UNCHANGED use
    /\ LET t == [tick EXCEPT !.todo = @ \ {j}, !.ripe = @ \ {j}]
       IN  IF j \in tick.ripe
           THEN Runs(pending \ {j}, repeating, due \ {j}, t)
           ELSE tick' = Counted(t) /\ UNCHANGED <<pending, repeating, due, timer>>

\* The second loop: a job whose interval is over runs, and all count.
VisitRepeating(j) ==
    /\ tick.loop = "repeating" /\ j \in tick.todo
    /\ UNCHANGED use
    /\ LET t == Counted([tick EXCEPT !.todo = @ \ {j}])
       IN  IF j \in tick.ripe
           THEN Runs(pending, repeating, due \ {j}, t)
           ELSE tick' = t /\ UNCHANGED <<pending, repeating, due, timer>>

NextLoop ==
    /\ tick.loop = "pending" /\ tick.todo = {}
    /\ tick' = [tick EXCEPT !.loop = "repeating", !.todo = repeating]
    /\ UNCHANGED <<use, pending, repeating, due, timer>>

\* Mutant of Stops: only the repeating jobs are looked at.
StopsWithPending == repeating = {}

\* "stop running timer if no jobs"
Stops == tick.num = 0

TickEnds ==
    /\ tick.loop = "repeating" /\ tick.todo = {}
    /\ timer' = (timer /\ ~Stops)
    /\ tick' = NoTick
    /\ UNCHANGED <<use, pending, repeating, due>>

Tick ==
    \/ TickStarts
    \/ \E j \in Once : VisitPending(j)
    \/ \E j \in Repeat : VisitRepeating(j)
    \/ NextLoop
    \/ TickEnds

Next ==
    \/ Callback
    \/ \E j \in Once \cup Repeat : TimePasses(j)
    \/ Tick

Spec == Init /\ [][Next]_vars

\* Time passes, a timer that runs fires between other callbacks, a tick goes on to
\* its end, and jobs that throw are not met before the same job for ever.
Fairness ==
    /\ \A j \in Once \cup Repeat : WF_vars(TimePasses(j))
    /\ SF_vars(TickStarts)
    /\ WF_vars(Tick)
    /\ \A j \in Once : SF_vars(VisitPending(j))

FairSpec == Spec /\ Fairness

-----------------------------------------------------------------------------
(* Properties                                                              *)

\* Every variable stays in its range, and only scheduled jobs are due.
TypeOK ==
    /\ use \in Uses
    /\ pending \subseteq Once
    /\ repeating \subseteq Repeat
    /\ due \subseteq pending \cup repeating
    /\ timer \in BOOLEAN
    /\ tick \in [loop : {"none", "pending", "repeating"},
                 todo : SUBSET (Once \cup Repeat), ripe : SUBSET (Once \cup Repeat),
                 num : Nat]

\* "stop running timer if no jobs" (gui_sched.lua:77): between ticks the timer
\* runs as long as there is a job.
TimerRuns == (tick = NoTick /\ pending \cup repeating # {}) => timer

\* A job of run_after whose time has come is run.
JobsRun == \A j \in Once : j \in due ~> j \notin due

=============================================================================
