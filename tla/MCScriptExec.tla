---------------------------- MODULE MCScriptExec ----------------------------
(***************************************************************************)
(* Model values for ScriptExec.  The scripts post more messages than the   *)
(* queue of two holds, end with an error, wait for the host, or do not     *)
(* compile.                                                                *)
(***************************************************************************)
EXTENDS ScriptExec

Sends == [ok |-> TRUE, does |-> <<"user", "return", "return">>]
Fails == [ok |-> TRUE, does |-> <<"user", "error">>]
Asks  == [ok |-> TRUE, does |-> <<"recv", "return">>]
Bad   == [ok |-> FALSE, does |-> <<>>]

AllScripts == {Sends, Fails, Asks, Bad}
FewScripts == {Sends, Asks}

\* The options callers give: the defaults with and without wait, clobber with
\* the defaults (the cleanup of a remote shoot), clobber without any flush
\* (killscript -noflush), and wait without flushing the camera's messages.
O(clobber, flushcam, flushhost, wait) ==
    [clobber |-> clobber, flushcam |-> flushcam, flushhost |-> flushhost,
     wait |-> wait]

SomeOpts ==
    {O(FALSE, TRUE, TRUE, TRUE), O(FALSE, TRUE, TRUE, FALSE),
     O(TRUE, TRUE, TRUE, TRUE), O(TRUE, FALSE, FALSE, FALSE),
     O(FALSE, FALSE, TRUE, TRUE)}

BothProtos == {TRUE, FALSE}
OnlyNew    == {TRUE}

FlushOpts == {o \in SomeOpts : o.flushhost}
=============================================================================
