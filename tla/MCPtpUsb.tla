------------------------------ MODULE MCPtpUsb ------------------------------
(***************************************************************************)
(* Model values for PtpUsb.  With packets of 4 tokens the payloads cover a *)
(* container that ends in a short packet, one that fills packets exactly   *)
(* (payload 3 and 7: a zero length packet ends it), a data phase that the  *)
(* first packet holds whole, and handler blocks that do and do not end on  *)
(* a packet (12 - 3 is not, 15 - 3 - 8 is a multiple of the packet).       *)
(***************************************************************************)
EXTENDS PtpUsb

Basic(code, phase, size, block, par) ==
    [code |-> code, phase |-> phase, size |-> size, block |-> block,
     par |-> par]

WideOps ==
    {Basic(1, "none", 0, 0, p) : p \in {0, 2}}
    \cup {Basic(2, "get", n, 0, 1) : n \in {0, 2, 3, 7, 9}}
    \cup {Basic(3, "get", n, b, 0) : n \in {3, 12, 15}, b \in {8, 11}}
    \cup {Basic(4, "send", n, 0, 0) : n \in {0, 3, 5, 7}}

FewOps ==
    {Basic(1, "none", 0, 0, 2), Basic(2, "get", 2, 0, 0),
     Basic(2, "get", 7, 0, 0), Basic(3, "get", 9, 8, 0), Basic(4, "send", 3, 0, 0)}
=============================================================================
