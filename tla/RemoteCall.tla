----------------------------- MODULE RemoteCall -----------------------------
(***************************************************************************)
(* What con:exec promises: a call begins its script at most once, never    *)
(* ends a script that still runs unless it was told to, and returns only   *)
(* when the script has ended, with all the script's output and no other.   *)
(* A call that fails may have begun the script, which then runs on.        *)
(***************************************************************************)
EXTENDS Naturals, Sequences

VARIABLES
    busy,    \* a call is in progress
    clobber, \* the call may end a running script
    begun,   \* the script of the call has begun
    live,    \* a script is running
    out,     \* what the script begun last has put out
    ret      \* what the last call returned

vars == <<busy, clobber, begun, live, out, ret>>

Nothing == [ok |-> FALSE, out |-> <<>>]

Init ==
    /\ busy = FALSE
    /\ clobber \in BOOLEAN
    /\ begun = FALSE
    /\ live = FALSE
    /\ out = <<>>
    /\ ret = Nothing

Call ==
    /\ ~busy
    /\ busy' = TRUE
    /\ clobber' \in BOOLEAN
    /\ ret' = Nothing
    /\ UNCHANGED <<begun, live, out>>

\* A script that does not compile ends as it begins, with an error or none.
BeginScript ==
    /\ ~begun
    /\ live => clobber
    /\ live' \in BOOLEAN
    /\ live' => out' = <<>>
    /\ ~live' => Len(out') <= 1

Begin ==
    /\ busy
    /\ BeginScript
    /\ begun' = TRUE
    /\ UNCHANGED <<busy, clobber, ret>>

Output ==
    /\ live
    /\ Len(out') = Len(out) + 1
    /\ SubSeq(out', 1, Len(out)) = out
    /\ UNCHANGED <<busy, clobber, begun, live, ret>>

End ==
    /\ live
    /\ live' = FALSE
    /\ UNCHANGED <<busy, clobber, begun, out, ret>>

Return ==
    /\ busy /\ begun
    /\ ~live
    /\ ret' = [ok |-> TRUE, out |-> out]
    /\ busy' = FALSE
    /\ begun' = FALSE
    /\ UNCHANGED <<clobber, live, out>>

\* The call fails, or is one that does not wait; its script may have begun.
GiveUp ==
    /\ busy
    /\ busy' = FALSE
    /\ begun' = FALSE
    /\ BeginScript \/ UNCHANGED <<live, out>>
    /\ ret' = Nothing
    /\ UNCHANGED clobber

Next == Call \/ Begin \/ Output \/ End \/ Return \/ GiveUp

Spec == Init /\ [][Next]_vars
=============================================================================
