------------------------------ MODULE ChdkCalls ------------------------------
(***************************************************************************)
(* The calls of a connection (chdkptp.c) over the operations of ptp.c:     *)
(* which memory and files each of them takes and gives back, whatever      *)
(* becomes of its transaction, and what Lua is told.  A transaction is     *)
(* what PtpUsb and PtpTcp make of it: answered, refused by the camera, or  *)
(* lost, with or without its data having arrived.  Calls on a connection   *)
(* that is not connected throw before they do anything and are left out.   *)
(***************************************************************************)
EXTENDS Integers, FiniteSets

CONSTANTS
    Blocks,   \* allocations: blocks of memory and open files
    Lbufs,    \* the lbufs Lua may hold
    Sizes,    \* the sizes of what the camera or the program sends
    MaxCalls  \* bound on the calls of a history

\* A block is not the null pointer.
ASSUME CallsAssumption ==
    /\ IsFiniteSet(Blocks) /\ Blocks \subseteq Nat \ {0}
    /\ Sizes \subseteq Nat

VARIABLES
    heap,   \* who allocated a block and how large it is, and whether a block
            \* was freed twice
    lbs,    \* the lbufs: the block, the length, and whether the length is another
            \* than that of the data, because the caller gave it
    info,   \* the block of the device info of the connection, or none
    obj,    \* the camera: the size of the object
    seen,   \* the size get_object_info told
    last    \* the last call, its outcome, what it returned and what was true

callVars == <<heap, lbs, info, obj, seen, last>>

None == 0
Blank == [by |-> "none", size |-> 0]
NoLbuf == [block |-> None, len |-> 0, stale |-> FALSE]

\* An answered transaction has its data; getdata allocates before it reads.
Outcomes == {[rc |-> "ok", data |-> TRUE], [rc |-> "refused", data |-> FALSE],
             [rc |-> "refused", data |-> TRUE], [rc |-> "lost", data |-> FALSE],
             [rc |-> "lost", data |-> TRUE]}

Live(h) == {b \in Blocks : h.blk[b] # Blank}
Free(h) == CHOOSE b \in Blocks : b \notin Live(h) /\ \A c \in Blocks \ Live(h) : b <= c

\* malloc, free of a pointer that may be null, and both for several.
Taken(h, by, size) == [h EXCEPT !.blk[Free(h)] = [by |-> by, size |-> size]]
Freed(h, b) ==
    IF b = None THEN h
    ELSE IF b \in Live(h) THEN [h EXCEPT !.blk[b] = Blank] ELSE [h EXCEPT !.bad = TRUE]

\* The bounds: a history has MaxCalls calls, and room for those of one call.
Room ==
    /\ Cardinality(Blocks \ Live(heap)) >= 3
    /\ last.n < MaxCalls

Told(op, rc, val, truth) ==
    last' = [op |-> op, rc |-> rc, val |-> val, truth |-> truth, n |-> last.n + 1]

\* The call throws: Lua gets nothing.
Threw(op, r) == Told(op, r.rc, 0, 0)

\* The raw data of a getdata transaction, if any arrived.
Raw(op, r, size) == IF r.data THEN Taken(heap, op, size) ELSE heap
RawAt(r) == IF r.data THEN Free(heap) ELSE None

\* ptp_chdk_get_memory and ptp_chdk_get_live_data free what a transaction that
\* failed has left; ptp_chdk_rcgetchunk and ptp_getobject do not.
Memory(r, size) ==
    IF r.rc = "ok" THEN Raw("getmem", r, size) ELSE Freed(Raw("getmem", r, size), RawAt(r))
LiveData(r, size) ==
    IF r.rc = "ok" THEN Raw("get_live_data", r, size)
    ELSE Freed(Raw("get_live_data", r, size), RawAt(r))
Chunk(r, size) == Raw("capture_get_chunk", r, size)
Object(r) == Raw("get_object", r, obj)

-----------------------------------------------------------------------------
(***************************************************************************)
(* Data sets: unpacked into memory of their own, from raw data that is     *)
(* freed in any case.                                                      *)
(***************************************************************************)
Unpacked(op, r, size) ==
    LET raw == Raw(op, r, size)
    IN  [fields |-> IF r.rc = "ok" THEN Free(raw) ELSE None,
         heap |-> Freed(IF r.rc = "ok" THEN Taken(raw, op, size) ELSE raw, RawAt(r))]

\* The call copies the fields to a Lua table and frees them.
DataSet(op, r, size) ==
    /\ Room
    /\ heap' = Freed(Unpacked(op, r, size).heap, Unpacked(op, r, size).fields)
    /\ IF r.rc = "ok" THEN Told(op, "ok", size, size) ELSE Threw(op, r)

GetStorageIds(r, size) ==
    DataSet("get_storage_ids", r, size) /\ UNCHANGED <<lbs, info, obj, seen>>

GetStorageInfo(r, size) ==
    DataSet("get_storage_info", r, size) /\ UNCHANGED <<lbs, info, obj, seen>>

GetObjectHandles(r, size) ==
    DataSet("get_object_handles", r, size) /\ UNCHANGED <<lbs, info, obj, seen>>

GetObjectInfo(r) ==
    /\ DataSet("get_object_info", r, obj)
    /\ seen' = IF r.rc = "ok" THEN obj ELSE seen
    /\ UNCHANGED <<lbs, info, obj>>

\* ptp_getdeviceinfo while connecting: the fields stay with the connection, in
\* place of those of an earlier connect.
GetDeviceInfo(r, size) ==
    LET u == Unpacked("connect", r, size)
    IN  /\ Room
        /\ heap' = u.heap
        /\ info' = IF r.rc = "ok" THEN u.fields ELSE info
        /\ IF r.rc = "ok" THEN Told("connect", "ok", 0, 0) ELSE Threw("connect", r)
        /\ UNCHANGED <<lbs, obj, seen>>

\* get_ptp_devinfo copies the fields and leaves them.
GetPtpDevinfo ==
    /\ Room /\ info # None
    /\ Told("get_ptp_devinfo", "ok", heap.blk[info].size, heap.blk[info].size)
    /\ UNCHANGED <<heap, lbs, info, obj, seen>>

-----------------------------------------------------------------------------
(***************************************************************************)
(* Data that becomes a string, a number or an lbuf.                        *)
(***************************************************************************)
Holds(l, b, len, stale) == lbs' = [lbs EXCEPT ![l] = [block |-> b, len |-> len, stale |-> stale]]

Word == 4

\* The program asks for count bytes and takes what the camera sends; it looks at
\* the size of the data no more, so that a string or an lbuf has count bytes and
\* a number is a word; a destination getmem does not know returns its last
\* argument.
GetMem(count, size, dest, l, r) ==
    LET h == Memory(r, size)
        got == CASE dest = "number" -> Word [] dest = "other" -> 0 [] OTHER -> count
        truth == [asked |-> count, sent |-> size, dest |-> dest]
    IN  /\ Room
        /\ \/ /\ r.rc # "ok"
              /\ heap' = h /\ UNCHANGED lbs /\ Threw("getmem", r)
           \/ /\ r.rc = "ok" /\ dest = "lbuf" /\ lbs[l] = NoLbuf
              /\ heap' = h /\ Holds(l, RawAt(r), count, count # size)
              /\ Told("getmem", "ok", got, truth)
           \/ /\ r.rc = "ok" /\ dest # "lbuf"
              /\ heap' = Freed(h, RawAt(r)) /\ UNCHANGED lbs /\ Told("getmem", "ok", got, truth)
        /\ UNCHANGED <<info, obj, seen>>

CaptureGetChunk(l, r, size) ==
    /\ Room /\ lbs[l] = NoLbuf
    /\ heap' = Chunk(r, size)
    /\ \/ /\ r.rc = "ok"
          /\ Holds(l, RawAt(r), size, FALSE) /\ Told("capture_get_chunk", "ok", size, size)
       \/ /\ r.rc # "ok"
          /\ UNCHANGED lbs /\ Threw("capture_get_chunk", r)
    /\ UNCHANGED <<info, obj, seen>>

\* The length of an object's lbuf is the one the caller gives, from
\* get_object_info.
GetObject(l, r) ==
    /\ Room /\ lbs[l] = NoLbuf
    /\ heap' = Object(r)
    /\ \/ /\ r.rc = "ok"
          /\ Holds(l, RawAt(r), seen, seen # obj)
          /\ Told("get_object", "ok", seen, obj)
       \/ /\ r.rc # "ok"
          /\ UNCHANGED lbs /\ Threw("get_object", r)
    /\ UNCHANGED <<info, obj, seen>>

\* Mutant of LiveOld: the bytes of the lbuf that is used again are not freed.
LiveOldKept(h, l) == h

\* get_live_data into an lbuf that is there already frees what it had.
LiveOld(h, l) == Freed(h, lbs[l].block)

GetLiveData(l, r, size) ==
    /\ Room
    /\ \/ /\ r.rc # "ok"
          /\ heap' = LiveData(r, size) /\ UNCHANGED lbs
          /\ Threw("get_live_data", r)
       \/ /\ r.rc = "ok" /\ size = 0
          /\ heap' = LiveData(r, size) /\ UNCHANGED lbs
          /\ Told("get_live_data", "refused", 0, 0)
       \/ /\ r.rc = "ok" /\ size > 0
          /\ heap' = LiveOld(LiveData(r, size), l) /\ Holds(l, RawAt(r), size, FALSE)
          /\ Told("get_live_data", "ok", size, size)
    /\ UNCHANGED <<info, obj, seen>>

\* The message, which is empty when there is none, is copied to memory with one
\* byte more, pushed and freed.
ReadMsg(r, size) ==
    LET h == Raw("read_msg", r, size)
        copied == IF r.rc = "ok" THEN Taken(h, "read_msg", size + 1) ELSE h
        msg == IF r.rc = "ok" THEN Free(h) ELSE None
    IN  /\ Room
        /\ heap' = Freed(Freed(copied, RawAt(r)), msg)
        /\ IF r.rc = "ok" THEN Told("read_msg", "ok", size, size) ELSE Threw("read_msg", r)
        /\ UNCHANGED <<lbs, info, obj, seen>>

\* lbuf_gc
Gc(l) ==
    /\ lbs[l] # NoLbuf
    /\ heap' = Freed(heap, lbs[l].block)
    /\ lbs' = [lbs EXCEPT ![l] = NoLbuf]
    /\ last' = [last EXCEPT !.op = "gc", !.rc = "ok", !.val = 0, !.truth = 0]
    /\ UNCHANGED <<info, obj, seen>>

-----------------------------------------------------------------------------
(***************************************************************************)
(* Calls that return numbers.                                              *)
(***************************************************************************)
\* Numbers from the response, and no data to receive.
Answer(op, r, v) ==
    /\ Room /\ (~r.data \/ r.rc = "ok")
    /\ IF r.rc = "ok" THEN Told(op, "ok", v, v) ELSE Threw(op, r)
    /\ UNCHANGED <<heap, lbs, info, obj, seen>>

CameraApiVersion(r, v) == Answer("camera_api_version", r, v)
ScriptSupport(r, v) == Answer("script_support", r, v)
ScriptStatus(r, v) == Answer("script_status", r, v)
CaptureReady(r, v) == Answer("capture_ready", r, v)

\* One to ten numbers.
CallFunction(args, r, v) ==
    IF args \in 1..10 THEN Answer("call_function", r, v)
    ELSE /\ Room /\ Told("call_function", "refused", 0, 0)
         /\ UNCHANGED <<heap, lbs, info, obj, seen>>

\* chdk_setmem is not there yet.
SetMem ==
    /\ Room /\ Told("setmem", "refused", 0, 0)
    /\ UNCHANGED <<heap, lbs, info, obj, seen>>

\* A string or an lbuf is sent from where it is.
SendObject(size, l, r) ==
    LET n == IF l = None THEN size ELSE lbs[l].len
    IN  /\ Room /\ l \in {None} \cup {k \in Lbufs : lbs[k] # NoLbuf} /\ (~r.data \/ r.rc = "ok")
        /\ obj' = IF r.rc = "ok" THEN n ELSE obj
        /\ IF r.rc = "ok" THEN Told("send_object", "ok", 0, 0)
           ELSE Threw("send_object", r)
        /\ UNCHANGED <<heap, lbs, info, seen>>

\* The packed object info is freed once the transaction is over.
InfoSent(size) == Freed(Taken(heap, "send_object_info", size), Free(heap))

SendObjectInfo(size, r) ==
    /\ Room /\ (~r.data \/ r.rc = "ok")
    /\ heap' = InfoSent(size)
    /\ IF r.rc = "ok" THEN Told("send_object_info", "ok", 0, 0)
       ELSE Threw("send_object_info", r)
    /\ UNCHANGED <<lbs, info, obj, seen>>

-----------------------------------------------------------------------------
(***************************************************************************)
(* Files.                                                                  *)
(***************************************************************************)
\* ptp_chdk_upload: the file with its name in one buffer; where the local side
\* ends it early: no file, no memory, a file that got shorter.
Upload(size, local, r) ==
    LET f == Taken(heap, "upload", 0)
        m == Taken(f, "upload", size + 4)
        closed == Freed(m, Free(heap))
    IN  /\ Room /\ (~r.data \/ r.rc = "ok")
        /\ heap' = CASE local = "nofile" -> heap
                     [] local = "nomem" -> Freed(f, Free(heap))
                     [] OTHER -> Freed(closed, Free(f))
        /\ IF local = "there" /\ r.rc = "ok" THEN Told("upload", "ok", size, size)
           ELSE Threw("upload", [rc |-> IF local = "there" THEN r.rc ELSE "refused"])
        /\ UNCHANGED <<lbs, info, obj, seen>>

\* Mutant of Received: a write that fails does not end the transfer.
ReceivedAnyway(r, write) == r.rc = "ok"

\* gd_to_file: the data phase ends where a write fails.
Received(r, write) == r.rc = "ok" /\ write # "full"

\* What is in the local file of a download: open empties it before the camera
\* is asked for the remote one.
Local(open, name, r, write) ==
    IF ~open THEN "old"
    ELSE IF name /\ r.data /\ r.rc # "lost" /\ write = "good" THEN "whole" ELSE "part"

\* ptp_chdk_download; what fclose returns is not looked at.
Download(open, name, r, write) ==
    LET h == Taken(heap, "download", 0)
    IN  /\ Room /\ (r.rc = "ok" => open /\ name)
        /\ heap' = IF open THEN Freed(h, Free(heap)) ELSE heap
        /\ Told("download", IF Received(r, write) THEN "ok" ELSE "refused",
                Local(open, name, r, write), write)
        /\ UNCHANGED <<lbs, info, obj, seen>>

\* Someone changes the object on the camera.
ObjectChanges(size) ==
    /\ size # obj /\ obj' = size
    /\ last' = [last EXCEPT !.op = "none", !.val = 0, !.truth = 0]
    /\ UNCHANGED <<heap, lbs, info, seen>>

CallsInit ==
    /\ heap = [blk |-> [b \in Blocks |-> Blank], bad |-> FALSE]
    /\ lbs = [l \in Lbufs |-> NoLbuf]
    /\ info = None
    /\ obj = 1
    /\ seen = 1
    /\ last = [op |-> "none", rc |-> "ok", val |-> 0, truth |-> 0, n |-> 0]

CallsNext ==
    \/ \E r \in Outcomes :
          \/ GetStorageIds(r, 4) \/ GetStorageInfo(r, 4) \/ GetObjectHandles(r, 4)
          \/ GetObjectInfo(r) \/ GetDeviceInfo(r, 4)
          \/ CameraApiVersion(r, 4) \/ ScriptSupport(r, 4) \/ ScriptStatus(r, 4)
          \/ CaptureReady(r, 4)
          \/ \E args \in {0, 1, 10, 11} : CallFunction(args, r, 4)
          \/ \E local \in {"nofile", "nomem", "shorter", "there"} : Upload(4, local, r)
          \/ \E open, name \in BOOLEAN, write \in {"good", "full", "flush"} :
                Download(open, name, r, write)
          \/ \E size \in Sizes : ReadMsg(r, size)
          \/ \E size \in Sizes \ {0} :
                SendObjectInfo(size, r) \/ \E l \in Lbufs \cup {None} : SendObject(size, l, r)
          \/ \E l \in Lbufs :
                \/ GetObject(l, r)
                \/ \E size \in Sizes : GetLiveData(l, r, size)
                \/ \E size \in Sizes \ {0} :
                      \/ CaptureGetChunk(l, r, size)
                      \/ \E count \in Sizes \ {0}, dest \in {"string", "number", "lbuf", "other"} :
                            GetMem(count, size, dest, l, r)
    \/ GetPtpDevinfo \/ SetMem
    \/ \E l \in Lbufs : Gc(l)
    \/ \E size \in Sizes \ {0} : ObjectChanges(size)

CallsSpec == CallsInit /\ [][CallsNext]_callVars

-----------------------------------------------------------------------------
(***************************************************************************)
(* Correctness.                                                            *)
(***************************************************************************)
Owned == {lbs[l].block : l \in Lbufs} \cup {info}

\* No call leaves memory or an open file behind, however its transaction ends,
\* and none is freed twice or while an lbuf has it; but for data that came
\* before a chunk or an object failed, live data of size 0, and the device info
\* of an earlier connect.
HeapTrue ==
    /\ ~heap.bad
    /\ \A b \in Live(heap) \ Owned :
          heap.blk[b].by \in {"capture_get_chunk", "get_object", "get_live_data", "connect"}
    /\ \A b \in Live(heap) \ Owned : heap.blk[b].by = "get_live_data" => heap.blk[b].size = 0
    /\ \A l \in Lbufs : lbs[l] # NoLbuf => lbs[l].block \in Live(heap)
    /\ \A l, k \in Lbufs : l # k /\ lbs[l] # NoLbuf => lbs[l].block # lbs[k].block

\* What getmem returns is what the camera sent, if that is as much as was asked
\* for (a known case, chdkptp.c:1561), if it is a word where a number is wanted (a
\* known case, chdkptp.c:1563), and if getmem knows the destination ("array" and
\* "file" are in its comment only: a known case, chdkptp.c:1540).
MemoryTold(val, truth) ==
    truth.asked = truth.sent =>
        /\ truth.dest \in {"string", "lbuf"} => val = truth.sent
        /\ truth.dest = "number" /\ truth.sent >= Word => val = Word

\* An lbuf is as long as what the camera sent, but for an object that changed
\* after get_object_info, and for getmem where the camera sent less or more than
\* was asked for; a call that returns tells what the camera answered, but for
\* such an object and the cases of MemoryTold; and a download that returns has
\* the whole file unless the last of it could not be flushed.
AnswersTrue ==
    /\ \A l \in Lbufs : lbs[l] # NoLbuf /\ ~lbs[l].stale =>
          lbs[l].len = heap.blk[lbs[l].block].size
    /\ last.op = "download" =>
          /\ last.rc = "ok" => last.val = "whole" \/ last.truth = "flush"
          /\ last.val = "old" => last.rc # "ok"
    /\ last.op = "getmem" /\ last.rc = "ok" => MemoryTold(last.val, last.truth)
    /\ last.op \notin {"download", "get_object", "getmem"} /\ last.rc = "ok" =>
          last.val = last.truth
    /\ last.rc # "ok" /\ last.op # "download" => last.val = 0

CallsContract == HeapTrue /\ AnswersTrue
=============================================================================
