------------------------------- MODULE PktBuf -------------------------------
(***************************************************************************)
(* The packet buffer of the transport layer (PTPPacketBuffer in ptp.h):    *)
(* what a read from the device returned beyond what the caller asked for.  *)
(* "data" is the unread part (its length is the field len), "pos" is how   *)
(* far the unread part lies from the start of the array.                   *)
(***************************************************************************)
EXTENDS Naturals, Sequences

\* The buffer as init_ptp_usb and init_ptp_tcp leave it.
Empty == [pos |-> 0, data |-> <<>>]

\* What ptp_transport_read_to_buffer leaves: pos is 0 by its first check.
Loaded(s) == [pos |-> 0, data |-> s]

\* Mutants of TakeLen: a read is served from the buffer only when the buffer
\* holds all of it; the size asked for is not a limit.
TakeLenWhole(b, n) == IF Len(b.data) >= n THEN n ELSE 0

TakeLenUnlimited(b, n) == Len(b.data)

\* ptp_transport_read_from_buffer(b, n, dst): how much it returns, what it
\* copies, and the buffer after the call.
TakeLen(b, n) == IF Len(b.data) > n THEN n ELSE Len(b.data)

Taken(b, n) == SubSeq(b.data, 1, TakeLen(b, n))

\* Mutant of AfterTake: pos is not reset when the buffer runs empty.
AfterTakeNoReset(b, n) ==
    [pos  |-> b.pos + TakeLen(b, n),
     data |-> SubSeq(b.data, TakeLen(b, n) + 1, Len(b.data))]

AfterTake(b, n) ==
    IF b.data = <<>> THEN b
    ELSE IF TakeLen(b, n) = Len(b.data) THEN Empty
    ELSE [pos  |-> b.pos + TakeLen(b, n),
          data |-> SubSeq(b.data, TakeLen(b, n) + 1, Len(b.data))]
=============================================================================
