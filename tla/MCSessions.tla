----------------------------- MODULE MCSessions -----------------------------
(***************************************************************************)
(* What goes on for as long as a user wants: the jobs of the GUI, an rsint *)
(* session, and the commands given to several cameras.  They share no      *)
(* state, so that a behaviour is one of a single part, chosen at the start.*)
(***************************************************************************)
EXTENDS MCGuiSched, Rsint, Multicam

VARIABLE part

-----------------------------------------------------------------------------
(* Rsint: two lines of every kind and then the end of the input, a call   *)
(* lost.                                                                   *)
Lines == {"s", "l", "x", "die", "path"}

(* Two cameras, a list of two messages, two commands and a call lost, or a *)
(* change of ids, which is a command to each of the two.                   *)
Budget == {<<2, 1>>}

-----------------------------------------------------------------------------
SessionsInit ==
    /\ part \in {"gui", "rsint", "multicam"}
    /\ Init /\ RsintInit /\ MultiInit
    /\ part # "gui" => use = Outside
    /\ part # "rsint" => ~cont

SessionsNext ==
    /\ UNCHANGED part
    /\ \/ part = "gui" /\ Next /\ UNCHANGED <<rsintVars, multiVars>>
       \/ part = "rsint" /\ RsintNext /\ UNCHANGED <<vars, multiVars>>
       \/ part = "multicam" /\ MultiNext /\ UNCHANGED <<vars, rsintVars>>

SessionsSpec ==
    SessionsInit /\ [][SessionsNext]_<<part, vars, rsintVars, multiVars>> /\ Fairness

=============================================================================
