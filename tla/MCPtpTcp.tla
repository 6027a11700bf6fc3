------------------------------ MODULE MCPtpTcp ------------------------------
(***************************************************************************)
(* Model values for PtpTcp: payloads of no, some and several blocks, with  *)
(* and without a handler, that do and do not end on a block; a response    *)
(* with and without parameters.                                            *)
(***************************************************************************)
EXTENDS PtpTcp

TcpOp(code, ph, size, block, par) ==
    [code |-> code, phase |-> ph, size |-> size, block |-> block, par |-> par]

FewOps ==
    {TcpOp(11, "none", 0, 0, 2), TcpOp(12, "get", 0, 0, 0), TcpOp(12, "get", 4, 0, 1),
     TcpOp(13, "get", 4, 2, 0), TcpOp(13, "get", 5, 3, 0), TcpOp(14, "send", 2, 0, 0)}
=============================================================================
