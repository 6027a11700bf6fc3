------------------------------- MODULE PtpRpc -------------------------------
(***************************************************************************)
(* What a PTP transaction promises its caller: one call at a time, carried *)
(* out by the camera at most once and, where it returns success, exactly   *)
(* once before it returns.  The promise holds up to the first failure of   *)
(* the transport; from there on a success may be that of an earlier call.  *)
(***************************************************************************)
EXTENDS Naturals

VARIABLES
    calls,     \* the number of calls made; the last one is calls-1
    busy,      \* the last call has not returned
    executed,  \* the calls the camera carried out
    clean,     \* no call has failed
    last       \* what the last return was

vars == <<calls, busy, executed, clean, last>>

Results == {"ok", "refused", "failed"}

Init ==
    /\ calls = 0
    /\ busy = FALSE
    /\ executed = {}
    /\ clean = TRUE
    /\ last = [rc |-> "none", id |-> 0, from |-> 0]

Call ==
    /\ ~busy
    /\ busy' = TRUE
    /\ calls' = calls + 1
    /\ UNCHANGED <<executed, clean, last>>

\* A call that has failed may still be carried out, after its return.
Execute ==
    /\ \E i \in 0..calls-1 :
          /\ i \notin executed
          /\ clean => busy /\ i = calls - 1
          /\ executed' = executed \cup {i}
    /\ UNCHANGED <<calls, busy, clean, last>>

\* A failure the caller is not told of yet.
Fault ==
    /\ busy
    /\ clean' = FALSE
    /\ UNCHANGED <<calls, busy, executed, last>>

Return ==
    /\ busy
    /\ busy' = FALSE
    /\ \E rc \in Results, from \in 0..calls-1 :
          /\ last' = [rc |-> rc, id |-> calls - 1, from |-> from]
          /\ clean' = (clean /\ rc # "failed")
          /\ rc = "ok" => from \in executed
          /\ clean' /\ rc = "ok" => from = calls - 1
          /\ clean' /\ rc = "refused" => calls - 1 \notin executed
    /\ UNCHANGED <<calls, executed>>

Next == Call \/ Execute \/ Fault \/ Return

Spec == Init /\ [][Next]_vars
=============================================================================
