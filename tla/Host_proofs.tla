----------------------------- MODULE Host_proofs -----------------------------
(***************************************************************************)
(* What the host does with what it receives.  No call of a connection      *)
(* loses memory or an open file, but in the known cases, or frees what is  *)
(* in use, and what Lua is told is what the camera answered                *)
(* (CallsContract): for any memory, lbufs, sizes and calls.  A buffer is   *)
(* read and written as its methods promise, for every offset, index and    *)
(* count (LbufContract): for any width of an unsigned int, any contents    *)
(* and any stack.                                                          *)
(***************************************************************************)
EXTENDS ChdkCalls, Lbuf, TLAPS, FiniteSetTheorems, WellFoundedInduction,
        SequenceTheorems

-----------------------------------------------------------------------------
(***************************************************************************)
(* ChdkCalls: the memory and the answers of the calls.                     *)
(***************************************************************************)
Callers == {"none", "get_storage_ids", "get_storage_info", "get_object_handles",
            "get_object_info", "connect", "getmem", "capture_get_chunk", "get_object",
            "get_live_data", "read_msg", "send_object_info", "upload", "download"}

Entries  == [by : Callers, size : Nat]
HeapType == [blk : [Blocks -> Entries], bad : BOOLEAN]
LbufType == [block : Blocks \cup {None}, len : Nat, stale : BOOLEAN]

-----------------------------------------------------------------------------
\* Memory that nothing refers to is of one of the known cases.
Lost(e) ==
    /\ e.by \in {"capture_get_chunk", "get_object", "get_live_data", "connect"}
    /\ e.by = "get_live_data" => e.size = 0

\* A block that is allocated has one owner, an lbuf or the connection, or is
\* lost.
MemOk(h, u, i) ==
    /\ h \in HeapType /\ ~h.bad
    /\ u \in [Lbufs -> LbufType] /\ i \in Blocks \cup {None}
    /\ \A l \in Lbufs : u[l] = NoLbuf \/ (u[l].block \in Live(h) /\ u[l].block # i)
    /\ \A l, k \in Lbufs : l # k /\ u[l] # NoLbuf => u[l].block # u[k].block
    /\ i # None => i \in Live(h) /\ h.blk[i].by = "connect"
    /\ \A b \in Live(h) : Lost(h.blk[b]) \/ i = b \/ \E l \in Lbufs : u[l].block = b
    /\ \A l \in Lbufs : u[l] # NoLbuf /\ ~u[l].stale => u[l].len = h.blk[u[l].block].size

\* What Lua was told last is what the camera answered.
ToldTrue ==
    /\ DOMAIN last = {"op", "rc", "val", "truth", "n"}
    /\ last.op = "download" =>
          /\ last.rc = "ok" => last.val = "whole" \/ last.truth = "flush"
          /\ last.val = "old" => last.rc # "ok"
    /\ last.op = "getmem" /\ last.rc = "ok" => MemoryTold(last.val, last.truth)
    /\ last.op \notin {"download", "get_object", "getmem"} /\ last.rc = "ok" =>
          last.val = last.truth
    /\ last.rc # "ok" /\ last.op # "download" => last.val = 0

CallsInv == MemOk(heap, lbs, info) /\ obj \in Nat /\ seen \in Nat /\ ToldTrue

-----------------------------------------------------------------------------
(* Memory.                                                                 *)

\* Block b becomes e.
Put(h, b, e) == [h EXCEPT !.blk[b] = e]

\* What of the memory differs.
LEMMA PutFacts ==
    ASSUME NEW h \in HeapType, NEW b \in Blocks, NEW e \in Entries
    PROVE  /\ Put(h, b, e) \in HeapType /\ Put(h, b, e).bad = h.bad
           /\ Put(h, b, e).blk[b] = e
           /\ \A c \in Blocks : c # b => Put(h, b, e).blk[c] = h.blk[c]
<1>1. h.blk \in [Blocks -> Entries]
  BY DEF HeapType
<1>2. [h.blk EXCEPT ![b] = e] \in [Blocks -> Entries]
  BY <1>1
<1>3. Put(h, b, e) = [h EXCEPT !.blk = [h.blk EXCEPT ![b] = e]]
  BY DEF Put, HeapType
<1> QED BY <1>1, <1>2, <1>3 DEF HeapType

\* Memory is what its blocks are.
LEMMA SameBlocks ==
    ASSUME NEW h \in HeapType, NEW t \in HeapType, h.bad = t.bad,
           \A b \in Blocks : h.blk[b] = t.blk[b]
    PROVE  h = t
<1>1. h.blk \in [Blocks -> Entries] /\ t.blk \in [Blocks -> Entries]
  BY DEF HeapType
<1>2. h.blk = t.blk
  BY <1>1
<1> QED BY <1>2 DEF HeapType

\* A block that is not allocated.
Spare(h, b) == b \in Blocks /\ h.blk[b] = Blank

\* Who calls allocates a block that is not blank.
LEMMA EntryFacts ==
    /\ Blank \in Entries
    /\ \A by \in Callers \ {"none"}, size \in Nat :
          [by |-> by, size |-> size] \in Entries /\ [by |-> by, size |-> size] # Blank
<1>1. Blank \in Entries
  BY DEF Blank, Entries, Callers
<1>2. ASSUME NEW by \in Callers \ {"none"}, NEW size \in Nat
      PROVE  [by |-> by, size |-> size] \in Entries /\ [by |-> by, size |-> size] # Blank
  <2>1. [by |-> by, size |-> size].by = by /\ Blank.by = "none"
    BY DEF Blank
  <2>2. [by |-> by, size |-> size] # Blank
    BY <2>1
  <2> QED BY <2>2 DEF Entries
<1> QED BY <1>1, <1>2

\* malloc finds a block where there is one.
LEMMA FreeFacts ==
    ASSUME NEW h \in HeapType, Blocks \ Live(h) # {}
    PROVE  Spare(h, Free(h))
<1> DEFINE S == Blocks \ Live(h)
<1>1. S \subseteq Nat /\ S # {}
  BY CallsAssumption
<1> HIDE DEF S
<1>2. PICK x \in S : \A y \in S : ~ (<<y, x>> \in OpToRel(<, Nat))
  BY <1>1, WFMin, NatLessThanWellFounded
<1>3. \A y \in S : x <= y
  <2> SUFFICES ASSUME NEW y \in S, y < x PROVE FALSE
    BY <1>1
  <2>1. <<y, x>> \in Nat \X Nat /\ <<y, x>>[1] = y /\ <<y, x>>[2] = x
    BY <1>1
  <2>2. <<y, x>>[1] < <<y, x>>[2]
    BY <2>1
  <2>3. <<y, x>> \in {ss \in Nat \X Nat : ss[1] < ss[2]}
    BY <2>1, <2>2
  <2> QED BY <1>2, <2>3, Zenon DEF OpToRel
<1>4. x \in Blocks /\ x \notin Live(h)
  BY <1>2 DEF S
<1>5. \A c \in Blocks \ Live(h) : x <= c
  BY <1>3 DEF S
<1>6. Free(h) \in Blocks /\ Free(h) \notin Live(h)
  <2>1. \E b \in Blocks : b \notin Live(h) /\ \A c \in Blocks \ Live(h) : b <= c
    BY <1>4, <1>5
  <2> QED BY <2>1 DEF Free
<1> QED BY <1>6 DEF Spare, Live

\* malloc.
LEMMA TakenFacts ==
    ASSUME NEW h \in HeapType, NEW by \in Callers \ {"none"}, NEW size \in Nat,
           Blocks \ Live(h) # {}
    PROVE  /\ Spare(h, Free(h)) /\ Taken(h, by, size) = Put(h, Free(h), [by |-> by, size |-> size])
           /\ Taken(h, by, size) \in HeapType
BY FreeFacts, PutFacts, EntryFacts DEF Taken, Put, Spare

\* free of a block that is allocated, and of none.
LEMMA FreedFacts ==
    ASSUME NEW h \in HeapType
    PROVE  /\ Freed(h, None) = h
           /\ \A b \in Live(h) : b # None /\ b \in Blocks /\ Freed(h, b) = Put(h, b, Blank)
BY CallsAssumption DEF Freed, None, Live, Put

\* What is freed at once was never there.
LEMMA GivenBack ==
    ASSUME NEW h \in HeapType, NEW b, Spare(h, b), NEW e \in Entries, e # Blank
    PROVE  Freed(Put(h, b, e), b) = h
<1> DEFINE t == Put(h, b, e)
<1>1. b \in Blocks /\ h.blk[b] = Blank
  BY DEF Spare
<1>2. /\ t \in HeapType /\ t.bad = h.bad /\ t.blk[b] = e
      /\ \A c \in Blocks : c # b => t.blk[c] = h.blk[c]
  BY <1>1, PutFacts
<1> HIDE DEF t
<1>3. b \in Live(t)
  BY <1>1, <1>2 DEF Live
<1>4. Freed(t, b) = Put(t, b, Blank)
  BY <1>2, <1>3, FreedFacts
<1>5. /\ Put(t, b, Blank) \in HeapType /\ Put(t, b, Blank).bad = t.bad
      /\ Put(t, b, Blank).blk[b] = Blank
      /\ \A c \in Blocks : c # b => Put(t, b, Blank).blk[c] = t.blk[c]
  BY <1>1, <1>2, EntryFacts, PutFacts
<1>6. Put(t, b, Blank) = h
  <2>1. \A c \in Blocks : Put(t, b, Blank).blk[c] = h.blk[c]
    BY <1>1, <1>2, <1>5
  <2>2. Put(t, b, Blank).bad = h.bad
    BY <1>2, <1>5
  <2> QED BY <1>5, <2>1, <2>2, SameBlocks
<1> QED BY <1>4, <1>6 DEF t

\* Of two blocks the first is freed before the second.
LEMMA FirstGivenBack ==
    ASSUME NEW h \in HeapType, NEW b, Spare(h, b), NEW e \in Entries, e # Blank,
           NEW c, Spare(Put(h, b, e), c), NEW f \in Entries
    PROVE  /\ Spare(h, c)
           /\ Freed(Put(Put(h, b, e), c, f), b) = Put(h, c, f)
<1>1. b \in Blocks /\ h.blk[b] = Blank
  BY DEF Spare
<1>2. PICK t : t = Put(h, b, e)
  OBVIOUS
<1>3. /\ t \in HeapType /\ t.bad = h.bad /\ t.blk[b] = e
      /\ \A d \in Blocks : d # b => t.blk[d] = h.blk[d]
  BY <1>1, <1>2, PutFacts
<1>4. c \in Blocks /\ t.blk[c] = Blank
  BY <1>2 DEF Spare
<1>5. c # b /\ Spare(h, c)
  BY <1>3, <1>4 DEF Spare
<1>6. PICK v : v = Put(t, c, f)
  OBVIOUS
<1>7. /\ v \in HeapType /\ v.bad = h.bad /\ v.blk[b] = e /\ v.blk[c] = f
      /\ \A d \in Blocks : d # b /\ d # c => v.blk[d] = h.blk[d]
  <2>1. /\ v \in HeapType /\ v.bad = t.bad /\ v.blk[c] = f
        /\ \A d \in Blocks : d # c => v.blk[d] = t.blk[d]
    BY <1>3, <1>4, <1>6, PutFacts
  <2> QED BY <1>1, <1>3, <1>5, <2>1
<1>8. b \in Live(v)
  BY <1>1, <1>7 DEF Live
<1>9. Freed(v, b) = Put(v, b, Blank)
  BY <1>7, <1>8, FreedFacts
<1>10. PICK x, y : x = Put(v, b, Blank) /\ y = Put(h, c, f)
  OBVIOUS
<1>11. /\ x \in HeapType /\ x.bad = v.bad /\ x.blk[b] = Blank
       /\ \A d \in Blocks : d # b => x.blk[d] = v.blk[d]
  <2>1. Blank \in Entries
    BY EntryFacts
  <2>2. v \in HeapType /\ b \in Blocks /\ x = Put(v, b, Blank)
    BY <1>1, <1>7, <1>10
  <2>3. /\ Put(v, b, Blank) \in HeapType /\ Put(v, b, Blank).bad = v.bad
        /\ Put(v, b, Blank).blk[b] = Blank
        /\ \A d \in Blocks : d # b => Put(v, b, Blank).blk[d] = v.blk[d]
    BY ONLY <2>1, <2>2, PutFacts
  <2> QED BY ONLY <2>2, <2>3
<1>12. /\ y \in HeapType /\ y.bad = h.bad /\ y.blk[c] = f
       /\ \A d \in Blocks : d # c => y.blk[d] = h.blk[d]
  BY <1>4, <1>10, PutFacts
<1>13. \A d \in Blocks : x.blk[d] = y.blk[d]
  BY <1>1, <1>4, <1>5, <1>7, <1>11, <1>12
<1>14. x = y
  BY <1>7, <1>11, <1>12, <1>13, SameBlocks
<1> QED BY <1>2, <1>5, <1>6, <1>9, <1>10, <1>14

\* A call has room for what it takes.
LEMMA RoomFacts ==
    ASSUME NEW h \in HeapType, Cardinality(Blocks \ Live(h)) >= 3
    PROVE  /\ Blocks \ Live(h) # {}
           /\ \A b \in Blocks, e \in Entries : Blocks \ Live(Put(h, b, e)) # {}
<1> DEFINE S == Blocks \ Live(h)
<1>1. IsFiniteSet(S)
  BY CallsAssumption, FS_Subset
<1>2. S # {}
  BY FS_EmptySet
<1>3. ASSUME NEW b \in Blocks, NEW e \in Entries PROVE Blocks \ Live(Put(h, b, e)) # {}
  <2>1. PICK c \in S : c # b
    <3> SUFFICES ASSUME S \subseteq {b} PROVE FALSE
      OBVIOUS
    <3>1. S = {b}
      BY <1>2
    <3>2. Cardinality({b}) = 1
      BY FS_Singleton
    <3>3. Cardinality(S) = 1
      BY <3>1, <3>2
    <3> QED BY <3>3
  <2>2. c \in Blocks /\ h.blk[c] = Blank
    BY <2>1 DEF Live
  <2>3. Put(h, b, e).blk[c] = Blank
    BY <2>1, <2>2, PutFacts
  <2> QED BY <2>2, <2>3 DEF Live
<1> QED BY <1>2, <1>3

-----------------------------------------------------------------------------
(* Who owns a block.                                                       *)

\* What is allocated after a block changed.
LEMMA PutLive ==
    ASSUME NEW h \in HeapType, NEW b \in Blocks, NEW e \in Entries
    PROVE  Live(Put(h, b, e)) = IF e = Blank THEN Live(h) \ {b} ELSE Live(h) \cup {b}
<1>1. /\ Put(h, b, e).blk[b] = e
      /\ \A c \in Blocks : c # b => Put(h, b, e).blk[c] = h.blk[c]
  BY PutFacts
<1> QED BY <1>1 DEF Live

\* The parts of the ownership.
LEMMA Owners ==
    ASSUME NEW h, NEW u, NEW i, MemOk(h, u, i)
    PROVE  /\ h \in HeapType /\ ~h.bad
           /\ u \in [Lbufs -> LbufType] /\ i \in Blocks \cup {None}
           /\ \A l \in Lbufs : u[l] = NoLbuf \/ (u[l].block \in Live(h) /\ u[l].block # i)
           /\ \A l, k \in Lbufs : l # k /\ u[l] # NoLbuf => u[l].block # u[k].block
           /\ i # None => i \in Live(h) /\ h.blk[i].by = "connect"
           /\ \A b \in Live(h) : Lost(h.blk[b]) \/ i = b \/ \E l \in Lbufs : u[l].block = b
           /\ \A l \in Lbufs : u[l] # NoLbuf /\ ~u[l].stale => u[l].len = h.blk[u[l].block].size
BY DEF MemOk

\* A block is left behind.
LEMMA Leaves ==
    ASSUME NEW h, NEW u, NEW i, MemOk(h, u, i), NEW b, Spare(h, b),
           NEW e \in Entries, e # Blank, Lost(e)
    PROVE  MemOk(Put(h, b, e), u, i)
<1>1. b \in Blocks /\ b \notin Live(h) /\ h \in HeapType
  BY Owners DEF Spare, Live
<1>2. PICK t : t = Put(h, b, e)
  OBVIOUS
<1>3. /\ t \in HeapType /\ t.bad = h.bad /\ t.blk[b] = e /\ Live(t) = Live(h) \cup {b}
      /\ \A c \in Live(h) : t.blk[c] = h.blk[c]
  BY <1>1, <1>2, PutFacts, PutLive DEF Live
<1>4. MemOk(t, u, i)
  BY <1>1, <1>3, Owners DEF MemOk
<1> QED BY <1>2, <1>4

\* A block becomes that of the device info.
LEMMA Connects ==
    ASSUME NEW h, NEW u, NEW i, MemOk(h, u, i), NEW b, Spare(h, b),
           NEW e \in Entries, e # Blank, e.by = "connect"
    PROVE  MemOk(Put(h, b, e), u, b)
<1>1. b \in Blocks /\ b \notin Live(h) /\ h \in HeapType
  BY Owners DEF Spare, Live
<1>2. PICK t : t = Put(h, b, e)
  OBVIOUS
<1>3. /\ t \in HeapType /\ t.bad = h.bad /\ t.blk[b] = e /\ Live(t) = Live(h) \cup {b}
      /\ \A c \in Live(h) : t.blk[c] = h.blk[c]
  BY <1>1, <1>2, PutFacts, PutLive DEF Live
<1>4. \A c \in Live(t) : Lost(t.blk[c]) \/ b = c \/ \E l \in Lbufs : u[l].block = c
  <2> SUFFICES ASSUME NEW c \in Live(h), c # b
               PROVE  Lost(t.blk[c]) \/ \E l \in Lbufs : u[l].block = c
    BY <1>3
  <2>1. CASE c = i
    <3>1. t.blk[c].by = "connect"
      BY <1>3, <2>1, Owners, CallsAssumption DEF None, Live
    <3> QED BY <3>1 DEF Lost
  <2>2. CASE c # i
    BY <1>3, <2>2, Owners
  <2> QED BY <2>1, <2>2
<1>5. MemOk(t, u, b)
  BY <1>1, <1>3, <1>4, Owners DEF MemOk
<1> QED BY <1>2, <1>5

\* A block becomes that of an lbuf.
LEMMA Holding ==
    ASSUME NEW h, NEW u, NEW i, MemOk(h, u, i), NEW b, Spare(h, b),
           NEW e \in Entries, e # Blank, NEW l \in Lbufs, u[l] = NoLbuf,
           NEW n \in Nat, NEW stale \in BOOLEAN, ~stale => n = e.size,
           NEW v, v = [u EXCEPT ![l] = [block |-> b, len |-> n, stale |-> stale]]
    PROVE  MemOk(Put(h, b, e), v, i)
<1>1. b \in Blocks /\ b \notin Live(h) /\ h \in HeapType /\ b # None
  BY Owners, CallsAssumption DEF Spare, Live, None
<1>2. PICK t : t = Put(h, b, e)
  OBVIOUS
<1>3. /\ t \in HeapType /\ t.bad = h.bad /\ t.blk[b] = e /\ Live(t) = Live(h) \cup {b}
      /\ \A c \in Live(h) : t.blk[c] = h.blk[c]
  BY <1>1, <1>2, PutFacts, PutLive DEF Live
<1>4. /\ v \in [Lbufs -> LbufType] /\ v[l].block = b /\ v[l].len = n /\ v[l].stale = stale
      /\ v[l] # NoLbuf
      /\ \A k \in Lbufs : k # l => v[k] = u[k]
  <2>1. [block |-> b, len |-> n, stale |-> stale] \in LbufType
    BY <1>1 DEF LbufType
  <2>2. u \in [Lbufs -> LbufType]
    BY Owners
  <2>3. [block |-> b, len |-> n, stale |-> stale] # NoLbuf
    BY <1>1 DEF NoLbuf
  <2> QED BY <2>1, <2>2, <2>3
<1>5. \A k \in Lbufs : u[k].block # b
  <2>1. NoLbuf.block = None
    BY DEF NoLbuf
  <2> QED BY <1>1, <2>1, Owners
<1>6. \A k, m \in Lbufs : k # m /\ v[k] # NoLbuf => v[k].block # v[m].block
  BY <1>4, <1>5, Owners
<1>7. \A c \in Live(t) : Lost(t.blk[c]) \/ i = c \/ \E k \in Lbufs : v[k].block = c
  <2> SUFFICES ASSUME NEW c \in Live(h), c # b, ~Lost(t.blk[c]), i # c
               PROVE  \E k \in Lbufs : v[k].block = c
    BY <1>3, <1>4
  <2>1. PICK k \in Lbufs : u[k].block = c
    BY <1>3, Owners
  <2>2. u[l].block = None /\ c # None
    BY CallsAssumption DEF NoLbuf, None, Live
  <2> QED BY <1>4, <2>1, <2>2
<1>8. \A k \in Lbufs : v[k] = NoLbuf \/ (v[k].block \in Live(t) /\ v[k].block # i)
  <2>1. i # b
    BY <1>1, Owners
  <2> QED BY <1>3, <1>4, <2>1, Owners
<1>9. \A k \in Lbufs : v[k] # NoLbuf /\ ~v[k].stale => v[k].len = t.blk[v[k].block].size
  <2> SUFFICES ASSUME NEW k \in Lbufs, v[k] # NoLbuf, ~v[k].stale
               PROVE  v[k].len = t.blk[v[k].block].size
    OBVIOUS
  <2>1. CASE k = l
    BY <1>3, <1>4, <2>1
  <2>2. CASE k # l
    BY <1>3, <1>4, <2>2, Owners
  <2> QED BY <2>1, <2>2
<1>10. i # None => i \in Live(t) /\ t.blk[i].by = "connect"
  BY <1>3, Owners
<1>11. ~t.bad /\ i \in Blocks \cup {None}
  BY <1>3, Owners
<1> QED BY <1>2, <1>3, <1>4, <1>6, <1>7, <1>8, <1>9, <1>10, <1>11 DEF MemOk

\* The block of an lbuf is freed, and the lbuf goes.
LEMMA Releases ==
    ASSUME NEW h, NEW u, NEW i, MemOk(h, u, i), NEW l \in Lbufs, u[l] # NoLbuf
    PROVE  /\ u[l].block \in Live(h)
           /\ Freed(h, u[l].block) = Put(h, u[l].block, Blank)
           /\ MemOk(Put(h, u[l].block, Blank), [u EXCEPT ![l] = NoLbuf], i)
<1>1. PICK b : b = u[l].block
  OBVIOUS
<1>2. b \in Live(h) /\ b \in Blocks /\ b # i /\ h \in HeapType /\ u \in [Lbufs -> LbufType]
  BY <1>1, Owners DEF Live
<1>3. Freed(h, b) = Put(h, b, Blank)
  BY <1>2, FreedFacts
<1>4. PICK t, v : t = Put(h, b, Blank) /\ v = [u EXCEPT ![l] = NoLbuf]
  OBVIOUS
<1>5. /\ t \in HeapType /\ t.bad = h.bad /\ Live(t) = Live(h) \ {b}
      /\ \A c \in Live(h) : c # b => t.blk[c] = h.blk[c]
  <2>1. Blank \in Entries
    BY EntryFacts
  <2> QED BY <1>2, <1>4, <2>1, PutFacts, PutLive DEF Live
<1>6. /\ v \in [Lbufs -> LbufType] /\ v[l] = NoLbuf
      /\ \A k \in Lbufs : k # l => v[k] = u[k]
  <2>1. NoLbuf \in LbufType
    BY DEF NoLbuf, LbufType
  <2> QED BY <1>2, <1>4, <2>1
<1>7. \A k \in Lbufs : k # l => u[k].block # b
  BY <1>1, Owners
<1>8. \A k, m \in Lbufs : k # m /\ v[k] # NoLbuf => v[k].block # v[m].block
  <2> SUFFICES ASSUME NEW k \in Lbufs, NEW m \in Lbufs, k # m, v[k] # NoLbuf
               PROVE  v[k].block # v[m].block
    OBVIOUS
  <2>1. k # l /\ v[k] = u[k] /\ u[k] # NoLbuf
    BY <1>6
  <2>2. CASE m = l
    <3>1. v[m].block = None
      BY <1>6, <2>2 DEF NoLbuf
    <3>2. u[k].block \in Live(h)
      BY <2>1, Owners
    <3> QED BY <2>1, <3>1, <3>2, CallsAssumption DEF None, Live
  <2>3. CASE m # l
    BY <1>6, <2>1, <2>3, Owners
  <2> QED BY <2>2, <2>3
<1>9. \A c \in Live(t) : Lost(t.blk[c]) \/ i = c \/ \E k \in Lbufs : v[k].block = c
  <2> SUFFICES ASSUME NEW c \in Live(h), c # b, ~Lost(h.blk[c]), i # c
               PROVE  \E k \in Lbufs : v[k].block = c
    BY <1>5
  <2>1. PICK k \in Lbufs : u[k].block = c
    BY Owners
  <2> QED BY <1>1, <1>6, <2>1
<1>10. \A k \in Lbufs : v[k] = NoLbuf \/ (v[k].block \in Live(t) /\ v[k].block # i)
  BY <1>5, <1>6, <1>7, Owners
<1>11. \A k \in Lbufs : v[k] # NoLbuf /\ ~v[k].stale => v[k].len = t.blk[v[k].block].size
  <2> SUFFICES ASSUME NEW k \in Lbufs, v[k] # NoLbuf, ~v[k].stale
               PROVE  v[k].len = t.blk[v[k].block].size
    OBVIOUS
  <2>1. k # l /\ v[k] = u[k]
    BY <1>6
  <2>2. u[k].block \in Live(h) /\ u[k].block # b /\ u[k].len = h.blk[u[k].block].size
    BY <1>7, <2>1, Owners
  <2> QED BY <1>5, <2>1, <2>2
<1>12. i # None => i \in Live(t) /\ t.blk[i].by = "connect"
  BY <1>2, <1>5, Owners
<1>13. ~t.bad /\ i \in Blocks \cup {None}
  BY <1>5, Owners
<1>14. MemOk(t, v, i)
  BY <1>5, <1>6, <1>8, <1>9, <1>10, <1>11, <1>12, <1>13 DEF MemOk
<1> QED BY <1>1, <1>2, <1>3, <1>4, <1>14

\* The block of an lbuf is freed once another has been allocated for it.
LEMMA Replaces ==
    ASSUME NEW h, NEW u, NEW i, MemOk(h, u, i), NEW b, Spare(h, b),
           NEW e \in Entries, e # Blank, NEW l \in Lbufs,
           NEW n \in Nat, n = e.size,
           NEW v, v = [u EXCEPT ![l] = [block |-> b, len |-> n, stale |-> FALSE]]
    PROVE  MemOk(Freed(Put(h, b, e), u[l].block), v, i)
<1>1. CASE u[l] = NoLbuf
  <2>1. u[l].block = None /\ b \in Blocks /\ h \in HeapType
    BY <1>1, Owners DEF NoLbuf, Spare
  <2>2. Freed(Put(h, b, e), None) = Put(h, b, e)
    BY <2>1, PutFacts, FreedFacts
  <2>3. MemOk(Put(h, b, e), v, i)
    BY <1>1, Holding
  <2> QED BY <2>1, <2>2, <2>3
<1>2. CASE u[l] # NoLbuf
  <2>1. PICK x : x = u[l].block
    OBVIOUS
  <2>2. x \in Live(h) /\ x \in Blocks /\ MemOk(Put(h, x, Blank), [u EXCEPT ![l] = NoLbuf], i)
    BY <1>2, <2>1, Releases DEF Live
  <2>3. b \in Blocks /\ b # x /\ h.blk[b] = Blank /\ h \in HeapType /\ u \in [Lbufs -> LbufType]
    BY <2>2, Owners DEF Spare, Live
  <2>4. PICK p, q, w : p = Put(h, b, e) /\ q = Put(h, x, Blank) /\ w = [u EXCEPT ![l] = NoLbuf]
    OBVIOUS
  <2>5. Blank \in Entries
    BY EntryFacts
  <2>6. /\ p \in HeapType /\ p.bad = h.bad /\ p.blk[b] = e
        /\ \A c \in Blocks : c # b => p.blk[c] = h.blk[c]
    BY <2>3, <2>4, PutFacts
  <2>7. /\ q \in HeapType /\ q.bad = h.bad /\ q.blk[x] = Blank
        /\ \A c \in Blocks : c # x => q.blk[c] = h.blk[c]
    <3>1. h \in HeapType /\ x \in Blocks /\ q = Put(h, x, Blank)
      BY <2>2, <2>3, <2>4
    <3> QED BY ONLY <2>5, <3>1, PutFacts
  <2>8. x \in Live(p)
    BY <2>2, <2>3, <2>6 DEF Live
  <2>9. Freed(p, x) = Put(p, x, Blank)
    BY <2>6, <2>8, FreedFacts
  <2>10. Put(p, x, Blank) = Put(q, b, e)
    <3>1. PICK y, z : y = Put(p, x, Blank) /\ z = Put(q, b, e)
      OBVIOUS
    <3>2. /\ y \in HeapType /\ y.bad = p.bad /\ y.blk[x] = Blank
          /\ \A c \in Blocks : c # x => y.blk[c] = p.blk[c]
      BY <2>2, <2>5, <2>6, <3>1, PutFacts
    <3>3. /\ z \in HeapType /\ z.bad = q.bad /\ z.blk[b] = e
          /\ \A c \in Blocks : c # b => z.blk[c] = q.blk[c]
      BY <2>3, <2>7, <3>1, PutFacts
    <3>4. \A c \in Blocks : y.blk[c] = z.blk[c]
      BY <2>2, <2>3, <2>6, <2>7, <3>2, <3>3
    <3>5. y = z
      BY <2>6, <2>7, <3>2, <3>3, <3>4, SameBlocks
    <3> QED BY <3>1, <3>5
  <2>11. Spare(q, b)
    BY <2>3, <2>7 DEF Spare
  <2>12. w[l] = NoLbuf /\ v = [w EXCEPT ![l] = [block |-> b, len |-> n, stale |-> FALSE]]
    BY <2>3, <2>4
  <2>13. MemOk(q, w, i)
    BY <2>2, <2>4
  <2>14. MemOk(Put(q, b, e), v, i)
    BY ONLY <2>11, <2>12, <2>13, Holding, e \in Entries, e # Blank, l \in Lbufs, n \in Nat,
            n = e.size, FALSE \in BOOLEAN
  <2> QED BY <2>1, <2>4, <2>9, <2>10, <2>14
<1> QED BY <1>1, <1>2

-----------------------------------------------------------------------------
(* What the calls leave of the memory.                                     *)

\* The outcomes of a transaction.
LEMMA OutcomeFacts ==
    ASSUME NEW r \in Outcomes
    PROVE  r.data \in BOOLEAN /\ (r.rc = "ok" => r.data)
<1>1. \/ r = [rc |-> "ok", data |-> TRUE]
      \/ r = [rc |-> "refused", data |-> FALSE] \/ r = [rc |-> "refused", data |-> TRUE]
      \/ r = [rc |-> "lost", data |-> FALSE] \/ r = [rc |-> "lost", data |-> TRUE]
  BY DEF Outcomes
<1>2. CASE r = [rc |-> "ok", data |-> TRUE]
  BY <1>2
<1>3. CASE r = [rc |-> "refused", data |-> FALSE]
  BY <1>3
<1>4. CASE r = [rc |-> "refused", data |-> TRUE]
  BY <1>4
<1>5. CASE r = [rc |-> "lost", data |-> FALSE]
  BY <1>5
<1>6. CASE r = [rc |-> "lost", data |-> TRUE]
  BY <1>6
<1> QED BY <1>1, <1>2, <1>3, <1>4, <1>5, <1>6

\* A transaction may leave a block with its data, for the call to free.
LEMMA RawFacts ==
    ASSUME heap \in HeapType, Room, NEW op \in Callers \ {"none"}, NEW size \in Nat,
           NEW r \in Outcomes
    PROVE  /\ Spare(heap, Free(heap))
           /\ Put(heap, Free(heap), [by |-> op, size |-> size]) \in HeapType
           /\ r.data => /\ Raw(op, r, size) = Put(heap, Free(heap), [by |-> op, size |-> size])
                        /\ RawAt(r) = Free(heap)
           /\ ~r.data => Raw(op, r, size) = heap /\ RawAt(r) = None
           /\ Freed(Raw(op, r, size), RawAt(r)) = heap
<1>1. Blocks \ Live(heap) # {}
  BY RoomFacts DEF Room
<1>2. PICK e : e = [by |-> op, size |-> size]
  OBVIOUS
<1>3. e \in Entries /\ e # Blank
  BY <1>2, EntryFacts
<1>4. Spare(heap, Free(heap)) /\ Taken(heap, op, size) = Put(heap, Free(heap), e)
      /\ Taken(heap, op, size) \in HeapType
  BY <1>1, <1>2, TakenFacts
<1>5. Freed(Put(heap, Free(heap), e), Free(heap)) = heap
  BY <1>3, <1>4, GivenBack
<1>6. Freed(heap, None) = heap
  BY FreedFacts
<1>7. r.data => Raw(op, r, size) = Put(heap, Free(heap), e) /\ RawAt(r) = Free(heap)
  BY <1>4 DEF Raw, RawAt
<1>8. ~r.data => Raw(op, r, size) = heap /\ RawAt(r) = None
  BY DEF Raw, RawAt
<1> QED BY <1>2, <1>4, <1>5, <1>6, <1>7, <1>8, OutcomeFacts

\* Two blocks are taken and the first is freed; the second stays or is freed too.
LEMMA TwoTaken ==
    ASSUME heap \in HeapType, Room, NEW op \in Callers \ {"none"}, NEW size \in Nat,
           NEW by \in Callers \ {"none"}, NEW n \in Nat,
           NEW t, t = Taken(heap, op, size), NEW v, v = Taken(t, by, n)
    PROVE  /\ Spare(heap, Free(t)) /\ [by |-> by, size |-> n] \in Entries
           /\ [by |-> by, size |-> n] # Blank
           /\ Freed(v, Free(heap)) = Put(heap, Free(t), [by |-> by, size |-> n])
           /\ Freed(Freed(v, Free(heap)), Free(t)) = heap
<1>1. /\ Blocks \ Live(heap) # {}
      /\ \A b \in Blocks, g \in Entries : Blocks \ Live(Put(heap, b, g)) # {}
  BY RoomFacts DEF Room
<1>2. PICK e, f : e = [by |-> op, size |-> size] /\ f = [by |-> by, size |-> n]
  OBVIOUS
<1>3. e \in Entries /\ e # Blank /\ f \in Entries /\ f # Blank
  BY <1>2, EntryFacts
<1>4. PICK b : b = Free(heap)
  OBVIOUS
<1>5. Spare(heap, b) /\ t = Put(heap, b, e) /\ t \in HeapType
  BY <1>1, <1>2, <1>4, TakenFacts
<1>6. Blocks \ Live(t) # {}
  BY <1>1, <1>3, <1>5 DEF Spare
<1>7. PICK c : c = Free(t)
  OBVIOUS
<1>8. Spare(t, c) /\ v = Put(t, c, f)
  BY <1>2, <1>5, <1>6, <1>7, TakenFacts
<1>9. Spare(heap, c) /\ Freed(v, b) = Put(heap, c, f)
  BY <1>3, <1>5, <1>8, FirstGivenBack
<1>10. Freed(Put(heap, c, f), c) = heap
  BY <1>3, <1>9, GivenBack
<1> QED BY <1>2, <1>3, <1>4, <1>7, <1>9, <1>10

\* What a data set is unpacked to is all that is left.
LEMMA UnpackedFacts ==
    ASSUME heap \in HeapType, Room, NEW op \in Callers \ {"none"}, NEW size \in Nat,
           NEW r \in Outcomes, NEW w, w = Unpacked(op, r, size)
    PROVE  /\ r.rc = "ok" =>
                /\ Spare(heap, w.fields)
                /\ [by |-> op, size |-> size] \in Entries /\ [by |-> op, size |-> size] # Blank
                /\ w.heap = Put(heap, w.fields, [by |-> op, size |-> size])
           /\ r.rc # "ok" => w.heap = heap
           /\ Freed(w.heap, w.fields) = heap
<1>1. CASE r.rc = "ok"
  <2>1. r.data
    BY <1>1, OutcomeFacts
  <2>2. PICK t : t = Taken(heap, op, size)
    OBVIOUS
  <2>3. Raw(op, r, size) = t /\ RawAt(r) = Free(heap)
    BY <2>1, <2>2 DEF Raw, RawAt
  <2>4. PICK v : v = Taken(t, op, size)
    OBVIOUS
  <2>5. w.fields = Free(t) /\ w.heap = Freed(v, Free(heap))
    BY <1>1, <2>3, <2>4 DEF Unpacked
  <2>6. /\ Spare(heap, Free(t)) /\ [by |-> op, size |-> size] \in Entries
        /\ [by |-> op, size |-> size] # Blank
        /\ Freed(v, Free(heap)) = Put(heap, Free(t), [by |-> op, size |-> size])
        /\ Freed(Freed(v, Free(heap)), Free(t)) = heap
    BY <2>2, <2>4, TwoTaken
  <2> QED BY <1>1, <2>5, <2>6
<1>2. CASE r.rc # "ok"
  <2>1. w.fields = None /\ w.heap = Freed(Raw(op, r, size), RawAt(r))
    BY <1>2 DEF Unpacked
  <2>2. Freed(Raw(op, r, size), RawAt(r)) = heap
    BY RawFacts
  <2>3. Freed(heap, None) = heap
    BY FreedFacts
  <2> QED BY <1>2, <2>1, <2>2, <2>3
<1> QED BY <1>1, <1>2

-----------------------------------------------------------------------------
(* What Lua is told.                                                       *)

\* A call but download tells what the camera answered, or nothing.
LEMMA ToldKeeps ==
    ASSUME NEW op, NEW rc, NEW val, NEW truth, Told(op, rc, val, truth),
           op \notin {"download", "getmem"},
           rc = "ok" => val = truth \/ op = "get_object",
           rc # "ok" => val = 0
    PROVE  ToldTrue'
<1>1. /\ last'.op = op /\ last'.rc = rc /\ last'.val = val /\ last'.truth = truth
      /\ DOMAIN last' = {"op", "rc", "val", "truth", "n"}
  BY DEF Told
<1> QED BY <1>1 DEF ToldTrue

\* A call that throws tells nothing.
LEMMA ThrewKeeps ==
    ASSUME NEW op, NEW r, Threw(op, r), op # "download", op # "getmem" \/ r.rc # "ok"
    PROVE  ToldTrue'
<1>1. /\ last'.op = op /\ last'.rc = r.rc /\ last'.val = 0 /\ last'.truth = 0
      /\ DOMAIN last' = {"op", "rc", "val", "truth", "n"}
  BY DEF Threw, Told
<1> QED BY <1>1 DEF ToldTrue

\* The parts of the invariant.
LEMMA Held ==
    ASSUME CallsInv
    PROVE  /\ MemOk(heap, lbs, info) /\ heap \in HeapType /\ lbs \in [Lbufs -> LbufType]
           /\ obj \in Nat /\ seen \in Nat /\ ToldTrue
BY Owners DEF CallsInv

\* Where memory stays as it was.
LEMMA MemSame ==
    ASSUME MemOk(heap, lbs, info), heap' = heap, lbs' = lbs, info' = info
    PROVE  MemOk(heap, lbs, info)'
OBVIOUS

-----------------------------------------------------------------------------
(* The calls.                                                              *)

\* A data set is copied for Lua.
LEMMA DataSetKeeps ==
    ASSUME CallsInv, NEW op \in Callers \ {"none", "download", "getmem"}, NEW r \in Outcomes,
           NEW size \in Nat, DataSet(op, r, size), lbs' = lbs, info' = info
    PROVE  MemOk(heap, lbs, info)' /\ ToldTrue'
<1>1. PICK w : w = Unpacked(op, r, size)
  OBVIOUS
<1>2. Room /\ heap' = Freed(w.heap, w.fields)
  BY <1>1 DEF DataSet
<1>3. heap' = heap
  <2>1. heap \in HeapType /\ op \in Callers \ {"none"}
    BY Held
  <2>2. Freed(w.heap, w.fields) = heap
    BY ONLY <1>1, <1>2, <2>1, UnpackedFacts, r \in Outcomes, size \in Nat
  <2> QED BY <1>2, <2>2
<1>4. ToldTrue'
  BY ToldKeeps, ThrewKeeps DEF DataSet
<1> QED BY <1>3, <1>4, Held, MemSame

\* The storages and the objects.
LEMMA ListsKeep ==
    ASSUME CallsInv, NEW r \in Outcomes,
           GetStorageIds(r, 4) \/ GetStorageInfo(r, 4) \/ GetObjectHandles(r, 4) \/ GetObjectInfo(r)
    PROVE  CallsInv'
<1>1. CASE GetStorageIds(r, 4)
  BY <1>1, DataSetKeeps, Held DEF GetStorageIds, CallsInv, Callers
<1>2. CASE GetStorageInfo(r, 4)
  BY <1>2, DataSetKeeps, Held DEF GetStorageInfo, CallsInv, Callers
<1>3. CASE GetObjectHandles(r, 4)
  BY <1>3, DataSetKeeps, Held DEF GetObjectHandles, CallsInv, Callers
<1>4. CASE GetObjectInfo(r)
  BY <1>4, DataSetKeeps, Held DEF GetObjectInfo, CallsInv, Callers
<1> QED BY <1>1, <1>2, <1>3, <1>4

\* The device info replaces that of an earlier connect, which is left behind.
LEMMA DeviceInfoKeeps ==
    ASSUME CallsInv, NEW r \in Outcomes, GetDeviceInfo(r, 4) PROVE CallsInv'
<1>1. PICK w : w = Unpacked("connect", r, 4)
  OBVIOUS
<1>2. /\ Room /\ heap' = w.heap /\ info' = (IF r.rc = "ok" THEN w.fields ELSE info)
      /\ UNCHANGED <<lbs, obj, seen>>
      /\ \/ r.rc = "ok" /\ Told("connect", "ok", 0, 0)
         \/ r.rc # "ok" /\ Threw("connect", r)
  BY <1>1 DEF GetDeviceInfo
<1>3. "connect" \in Callers \ {"none"} /\ 4 \in Nat
  BY DEF Callers
<1>4. /\ r.rc = "ok" =>
            /\ Spare(heap, w.fields)
            /\ [by |-> "connect", size |-> 4] \in Entries /\ [by |-> "connect", size |-> 4] # Blank
            /\ w.heap = Put(heap, w.fields, [by |-> "connect", size |-> 4])
      /\ r.rc # "ok" => w.heap = heap
  BY <1>1, <1>2, <1>3, Held, UnpackedFacts
<1>5. MemOk(heap, lbs, info)'
  <2>1. CASE r.rc = "ok"
    <3>1. PICK e : e = [by |-> "connect", size |-> 4]
      OBVIOUS
    <3>2. MemOk(Put(heap, w.fields, e), lbs, w.fields)
      BY <1>4, <2>1, <3>1, Held, Connects
    <3> QED BY <1>2, <1>4, <2>1, <3>1, <3>2
  <2>2. CASE r.rc # "ok"
    BY <1>2, <1>4, <2>2, Held
  <2> QED BY <2>1, <2>2
<1>6. ToldTrue'
  BY <1>2, ToldKeeps, ThrewKeeps
<1> QED BY <1>2, <1>5, <1>6, Held DEF CallsInv

\* Calls that leave memory as it was.
LEMMA AnswerKeeps ==
    ASSUME CallsInv, NEW op, op \notin {"download", "getmem"}, NEW r, NEW v, Answer(op, r, v)
    PROVE  CallsInv'
<1>1. ToldTrue'
  BY ToldKeeps, ThrewKeeps DEF Answer
<1> QED BY <1>1, Held DEF Answer, CallsInv

\* Numbers, the device info that is there, and what is refused.
LEMMA NumbersKeep ==
    ASSUME CallsInv, NEW r \in Outcomes, NEW args,
           \/ CameraApiVersion(r, 4) \/ ScriptSupport(r, 4) \/ ScriptStatus(r, 4)
           \/ CaptureReady(r, 4) \/ CallFunction(args, r, 4) \/ GetPtpDevinfo \/ SetMem
    PROVE  CallsInv'
<1>1. CASE CameraApiVersion(r, 4) \/ ScriptSupport(r, 4) \/ ScriptStatus(r, 4) \/ CaptureReady(r, 4)
  BY <1>1, AnswerKeeps DEF CameraApiVersion, ScriptSupport, ScriptStatus, CaptureReady
<1>2. CASE CallFunction(args, r, 4)
  <2>1. CASE Answer("call_function", r, 4)
    BY <2>1, AnswerKeeps
  <2>2. CASE Told("call_function", "refused", 0, 0) /\ UNCHANGED <<heap, lbs, info, obj, seen>>
    BY <2>2, ToldKeeps, Held DEF CallsInv
  <2> QED BY <1>2, <2>1, <2>2 DEF CallFunction
<1>3. CASE GetPtpDevinfo
  <2>1. PICK n : Told("get_ptp_devinfo", "ok", n, n)
    BY <1>3 DEF GetPtpDevinfo
  <2>2. ToldTrue'
    BY <2>1, ToldKeeps
  <2> QED BY <1>3, <2>2, Held DEF GetPtpDevinfo, CallsInv
<1>4. CASE SetMem
  <2>1. ToldTrue'
    BY <1>4, ToldKeeps DEF SetMem
  <2> QED BY <1>4, <2>1, Held DEF SetMem, CallsInv
<1> QED BY <1>1, <1>2, <1>3, <1>4

\* Memory of the camera as an lbuf, or copied.
LEMMA GetMemKeeps ==
    ASSUME CallsInv, NEW count \in Nat, NEW size \in Nat, NEW dest, NEW l \in Lbufs,
           NEW r \in Outcomes, GetMem(count, size, dest, l, r)
    PROVE  CallsInv'
<1>1. "getmem" \in Callers \ {"none"}
  BY DEF Callers
<1>2. Room /\ UNCHANGED <<info, obj, seen>>
  BY DEF GetMem
<1>3. PICK e : e = [by |-> "getmem", size |-> size]
  OBVIOUS
<1>4. e \in Entries /\ e # Blank /\ e.size = size
  BY <1>1, <1>3, EntryFacts
<1>5. /\ Spare(heap, Free(heap))
      /\ r.data => /\ Raw("getmem", r, size) = Put(heap, Free(heap), e)
                   /\ RawAt(r) = Free(heap)
      /\ Freed(Raw("getmem", r, size), RawAt(r)) = heap
  BY <1>1, <1>2, <1>3, Held, RawFacts
<1>6. CASE r.rc # "ok"
  <2>1. heap' = heap /\ lbs' = lbs /\ Threw("getmem", r)
    BY <1>5, <1>6 DEF GetMem, Memory
  <2>2. ToldTrue'
    BY <1>6, <2>1, ThrewKeeps
  <2> QED BY <1>2, <2>1, <2>2, Held DEF CallsInv
<1>7. CASE r.rc = "ok"
  <2>1. r.data /\ Memory(r, size) = Raw("getmem", r, size)
    BY <1>7, OutcomeFacts DEF Memory
  <2>2. ToldTrue'
    <3>1. PICK t : t = [asked |-> count, sent |-> size, dest |-> dest]
      OBVIOUS
    <3>2. PICK n : n = CASE dest = "number" -> Word [] dest = "other" -> 0 [] OTHER -> count
      OBVIOUS
    <3>3. Told("getmem", "ok", n, t)
      BY <1>7, <3>1, <3>2 DEF GetMem
    <3>4. /\ last'.op = "getmem" /\ last'.rc = "ok" /\ last'.val = n /\ last'.truth = t
          /\ DOMAIN last' = {"op", "rc", "val", "truth", "n"}
      BY <3>3 DEF Told
    <3>5. t.asked = count /\ t.sent = size /\ t.dest = dest
      BY <3>1
    <3>6. MemoryTold(n, t)
      BY <3>2, <3>5 DEF MemoryTold
    <3> QED BY <3>4, <3>6 DEF ToldTrue
  <2>3. CASE /\ dest = "lbuf" /\ lbs[l] = NoLbuf
             /\ heap' = Memory(r, size) /\ Holds(l, RawAt(r), count, count # size)
    <3>1. PICK stale \in BOOLEAN : stale = (count # size)
      OBVIOUS
    <3>2. /\ heap' = Put(heap, Free(heap), e)
          /\ lbs' = [lbs EXCEPT ![l] = [block |-> Free(heap), len |-> count, stale |-> stale]]
      BY <1>5, <2>1, <2>3, <3>1 DEF Holds
    <3>3. MemOk(heap', lbs', info)
      <4>1. PICK v : v = lbs'
        OBVIOUS
      <4>2. v = [lbs EXCEPT ![l] = [block |-> Free(heap), len |-> count, stale |-> stale]]
        BY <3>2, <4>1
      <4>3. /\ MemOk(heap, lbs, info) /\ Spare(heap, Free(heap)) /\ lbs[l] = NoLbuf
            /\ ~stale => count = e.size
        BY <1>4, <1>5, <2>3, <3>1, Held
      <4>4. MemOk(Put(heap, Free(heap), e), v, info)
        BY ONLY <1>4, <4>2, <4>3, Holding, l \in Lbufs, count \in Nat, stale \in BOOLEAN
      <4> QED BY <3>2, <4>1, <4>4
    <3> QED BY <1>2, <2>2, <3>3, Held DEF CallsInv
  <2>4. CASE heap' = Freed(Memory(r, size), RawAt(r)) /\ UNCHANGED lbs
    <3>1. heap' = heap /\ lbs' = lbs
      BY <1>5, <2>1, <2>4
    <3> QED BY <1>2, <2>2, <3>1, Held DEF CallsInv
  <2> QED BY <1>7, <2>3, <2>4 DEF GetMem
<1> QED BY <1>6, <1>7

\* What a transaction that failed has left of a chunk or an object is lost.
LEMMA FetchKeeps ==
    ASSUME CallsInv, Room, NEW l \in Lbufs, lbs[l] = NoLbuf, NEW r \in Outcomes,
           NEW by \in {"capture_get_chunk", "get_object"}, NEW size \in Nat,
           heap' = Raw(by, r, size), NEW n \in Nat, NEW stale \in BOOLEAN, ~stale => n = size,
           info' = info,
           \/ r.rc = "ok" /\ Holds(l, RawAt(r), n, stale)
           \/ r.rc # "ok" /\ UNCHANGED lbs
    PROVE  MemOk(heap, lbs, info)'
<1>1. by \in Callers \ {"none"}
  BY DEF Callers
<1>2. PICK e : e = [by |-> by, size |-> size]
  OBVIOUS
<1>3. e \in Entries /\ e # Blank /\ e.size = size /\ Lost(e)
  BY <1>1, <1>2, EntryFacts DEF Lost
<1>4. /\ Spare(heap, Free(heap))
      /\ r.data => heap' = Put(heap, Free(heap), e) /\ RawAt(r) = Free(heap)
      /\ ~r.data => heap' = heap
  BY <1>1, <1>2, Held, RawFacts
<1>5. CASE r.rc = "ok" /\ Holds(l, RawAt(r), n, stale)
  <2>1. /\ heap' = Put(heap, Free(heap), e)
        /\ lbs' = [lbs EXCEPT ![l] = [block |-> Free(heap), len |-> n, stale |-> stale]]
    BY <1>4, <1>5, OutcomeFacts DEF Holds
  <2>2. PICK v : v = lbs'
    OBVIOUS
  <2>3. /\ v = [lbs EXCEPT ![l] = [block |-> Free(heap), len |-> n, stale |-> stale]]
        /\ MemOk(heap, lbs, info) /\ Spare(heap, Free(heap)) /\ lbs[l] = NoLbuf
        /\ ~stale => n = e.size
    BY <1>3, <1>4, <2>1, <2>2, Held
  <2>4. MemOk(Put(heap, Free(heap), e), v, info)
    BY ONLY <1>3, <2>3, Holding, l \in Lbufs, n \in Nat, stale \in BOOLEAN
  <2>5. MemOk(heap', lbs', info')
    BY <2>1, <2>2, <2>4
  <2> QED BY <2>5
<1>6. CASE r.rc # "ok" /\ UNCHANGED lbs
  <2>1. MemOk(heap', lbs, info)
    BY <1>3, <1>4, Held, Leaves, OutcomeFacts
  <2> QED BY <1>6, <2>1
<1> QED BY <1>5, <1>6

\* A chunk of a remote capture.
LEMMA ChunkKeeps ==
    ASSUME CallsInv, NEW l \in Lbufs, NEW r \in Outcomes, NEW size \in Nat,
           CaptureGetChunk(l, r, size)
    PROVE  CallsInv'
<1>1. /\ Room /\ lbs[l] = NoLbuf /\ heap' = Raw("capture_get_chunk", r, size)
      /\ UNCHANGED <<info, obj, seen>>
      /\ \/ /\ r.rc = "ok" /\ Holds(l, RawAt(r), size, FALSE)
            /\ Told("capture_get_chunk", "ok", size, size)
         \/ r.rc # "ok" /\ UNCHANGED lbs /\ Threw("capture_get_chunk", r)
  BY DEF CaptureGetChunk, Chunk
<1>2. ToldTrue'
  BY <1>1, ToldKeeps, ThrewKeeps
<1>3. MemOk(heap, lbs, info)'
  BY <1>1, FetchKeeps
<1> QED BY <1>1, <1>2, <1>3, Held DEF CallsInv

\* An object.
LEMMA ObjectKeeps ==
    ASSUME CallsInv, NEW l \in Lbufs, NEW r \in Outcomes, GetObject(l, r) PROVE CallsInv'
<1>1. /\ Room /\ lbs[l] = NoLbuf /\ heap' = Raw("get_object", r, obj)
      /\ UNCHANGED <<info, obj, seen>>
      /\ \/ r.rc = "ok" /\ Holds(l, RawAt(r), seen, seen # obj) /\ Told("get_object", "ok", seen, obj)
         \/ r.rc # "ok" /\ UNCHANGED lbs /\ Threw("get_object", r)
  BY DEF GetObject, Object
<1>2. ToldTrue'
  BY <1>1, ToldKeeps, ThrewKeeps
<1>3. PICK stale \in BOOLEAN : stale = (seen # obj)
  OBVIOUS
<1>4. MemOk(heap, lbs, info)'
  BY <1>1, <1>3, Held, FetchKeeps
<1> QED BY <1>1, <1>2, <1>4, Held DEF CallsInv

\* A frame of the live view, into an lbuf that may be there already.
LEMMA LiveKeeps ==
    ASSUME CallsInv, NEW l \in Lbufs, NEW r \in Outcomes, NEW size \in Nat, GetLiveData(l, r, size)
    PROVE  CallsInv'
<1>1. "get_live_data" \in Callers \ {"none"}
  BY DEF Callers
<1>2. Room /\ UNCHANGED <<info, obj, seen>>
  BY DEF GetLiveData
<1>3. PICK e : e = [by |-> "get_live_data", size |-> size]
  OBVIOUS
<1>4. e \in Entries /\ e # Blank /\ e.size = size /\ e.by = "get_live_data"
  BY <1>1, <1>3, EntryFacts
<1>5. PICK b : b = Free(heap)
  OBVIOUS
<1>6. /\ Spare(heap, b)
      /\ r.data => Raw("get_live_data", r, size) = Put(heap, b, e) /\ RawAt(r) = b
      /\ Freed(Raw("get_live_data", r, size), RawAt(r)) = heap
  BY <1>1, <1>2, <1>3, <1>5, Held, RawFacts
<1>7. ToldTrue'
  BY ToldKeeps, ThrewKeeps DEF GetLiveData
<1>8. MemOk(heap, lbs, info)
  BY Held
<1>9. CASE r.rc # "ok"
  <2>1. heap' = heap /\ lbs' = lbs
    BY <1>6, <1>9 DEF GetLiveData, LiveData
  <2> QED BY <1>2, <1>7, <2>1, Held DEF CallsInv
<1>10. CASE r.rc = "ok"
  <2>1. LiveData(r, size) = Put(heap, b, e) /\ RawAt(r) = b
    BY <1>6, <1>10, OutcomeFacts DEF LiveData
  <2>2. CASE size = 0 /\ heap' = LiveData(r, size) /\ UNCHANGED lbs
    <3>1. Lost(e)
      BY <1>4, <2>2 DEF Lost
    <3>2. MemOk(Put(heap, b, e), lbs, info)
      BY <1>4, <1>6, <1>8, <3>1, Leaves
    <3> QED BY <1>2, <1>7, <2>1, <2>2, <3>2, Held DEF CallsInv
  <2>3. CASE heap' = LiveOld(LiveData(r, size), l) /\ Holds(l, RawAt(r), size, FALSE)
    <3>1. heap' = Freed(Put(heap, b, e), lbs[l].block)
      BY <2>1, <2>3 DEF LiveOld
    <3>2. PICK v : v = lbs'
      OBVIOUS
    <3>3. v = [lbs EXCEPT ![l] = [block |-> b, len |-> size, stale |-> FALSE]]
      BY <2>1, <2>3, <3>2 DEF Holds
    <3>4. size = e.size
      BY <1>4
    <3>5. MemOk(Freed(Put(heap, b, e), lbs[l].block), v, info)
      BY ONLY <1>4, <1>6, <1>8, <3>3, <3>4, Replaces, l \in Lbufs, size \in Nat
    <3> QED BY <1>2, <1>7, <3>1, <3>2, <3>5, Held DEF CallsInv
  <2> QED BY <1>10, <2>2, <2>3 DEF GetLiveData
<1> QED BY <1>9, <1>10

\* A message is copied, and both the copy and the message are freed.
LEMMA ReadMsgKeeps ==
    ASSUME CallsInv, NEW r \in Outcomes, NEW size \in Nat, ReadMsg(r, size) PROVE CallsInv'
<1>1. "read_msg" \in Callers \ {"none"} /\ size + 1 \in Nat
  BY DEF Callers
<1>2. Room /\ UNCHANGED <<lbs, info, obj, seen>>
  BY DEF ReadMsg
<1>3. PICK h : h = Raw("read_msg", r, size)
  OBVIOUS
<1>4. heap' = heap
  <2>1. CASE r.rc = "ok"
    <3>1. h = Taken(heap, "read_msg", size) /\ RawAt(r) = Free(heap)
      BY <1>3, <2>1, OutcomeFacts DEF Raw, RawAt
    <3>2. PICK v : v = Taken(h, "read_msg", size + 1)
      OBVIOUS
    <3>3. heap' = Freed(Freed(v, Free(heap)), Free(h))
      BY <1>3, <2>1, <3>1, <3>2 DEF ReadMsg
    <3>4. Freed(Freed(v, Free(heap)), Free(h)) = heap
      <4>1. heap \in HeapType /\ Room
        BY <1>2, Held
      <4>2. PICK n \in Nat : n = size + 1
        BY <1>1
      <4>3. PICK op \in Callers \ {"none"} : op = "read_msg"
        BY <1>1
      <4>4. h = Taken(heap, op, size) /\ v = Taken(h, op, n)
        BY <3>1, <3>2, <4>2, <4>3
      <4>5. /\ Freed(v, Free(heap)) = Put(heap, Free(h), [by |-> op, size |-> n])
            /\ Freed(Freed(v, Free(heap)), Free(h)) = heap
        BY ONLY <4>1, <4>4, TwoTaken, size \in Nat, n \in Nat, op \in Callers \ {"none"}
      <4> QED BY ONLY <4>5
    <3> QED BY <3>3, <3>4
  <2>2. CASE r.rc # "ok"
    <3>1. heap' = Freed(Freed(h, RawAt(r)), None)
      BY <1>3, <2>2 DEF ReadMsg
    <3>2. Freed(h, RawAt(r)) = heap /\ Freed(heap, None) = heap
      BY <1>1, <1>2, <1>3, Held, RawFacts, FreedFacts
    <3> QED BY <3>1, <3>2
  <2> QED BY <2>1, <2>2
<1>5. ToldTrue'
  BY ToldKeeps, ThrewKeeps DEF ReadMsg
<1> QED BY <1>2, <1>4, <1>5, Held DEF CallsInv

\* An lbuf is collected.
LEMMA GcKeeps == ASSUME CallsInv, NEW l \in Lbufs, Gc(l) PROVE CallsInv'
<1>1. /\ lbs[l] # NoLbuf /\ heap' = Freed(heap, lbs[l].block)
      /\ lbs' = [lbs EXCEPT ![l] = NoLbuf] /\ UNCHANGED <<info, obj, seen>>
      /\ last' = [last EXCEPT !.op = "gc", !.rc = "ok", !.val = 0, !.truth = 0]
  BY DEF Gc
<1>2. MemOk(heap', lbs', info)
  BY <1>1, Held, Releases
<1>3. ToldTrue'
  <2>1. DOMAIN last = {"op", "rc", "val", "truth", "n"}
    BY Held DEF ToldTrue
  <2>2. /\ last'.op = "gc" /\ last'.rc = "ok" /\ last'.val = 0 /\ last'.truth = 0
        /\ DOMAIN last' = DOMAIN last
    BY <1>1, <2>1
  <2> QED BY <2>1, <2>2 DEF ToldTrue
<1> QED BY <1>1, <1>2, <1>3, Held DEF CallsInv

\* The camera is sent an object, or what it needs to know of one.
LEMMA SendKeeps ==
    ASSUME CallsInv, NEW r \in Outcomes, NEW size \in Nat, NEW l \in Lbufs \cup {None},
           SendObjectInfo(size, r) \/ SendObject(size, l, r)
    PROVE  CallsInv'
<1>1. CASE SendObjectInfo(size, r)
  <2>1. Room /\ heap' = InfoSent(size) /\ UNCHANGED <<lbs, info, obj, seen>>
    BY <1>1 DEF SendObjectInfo
  <2>2. "send_object_info" \in Callers \ {"none"}
    BY DEF Callers
  <2>3. PICK e : e = [by |-> "send_object_info", size |-> size]
    OBVIOUS
  <2>4. e \in Entries /\ e # Blank
    BY <2>2, <2>3, EntryFacts
  <2>5. Blocks \ Live(heap) # {}
    BY <2>1, Held, RoomFacts DEF Room
  <2>6. Spare(heap, Free(heap)) /\ Taken(heap, "send_object_info", size) = Put(heap, Free(heap), e)
    BY <2>2, <2>3, <2>5, Held, TakenFacts
  <2>7. heap' = heap
    BY <2>1, <2>4, <2>6, Held, GivenBack DEF InfoSent
  <2>8. ToldTrue'
    BY <1>1, ToldKeeps, ThrewKeeps DEF SendObjectInfo
  <2> QED BY <2>1, <2>7, <2>8, Held DEF CallsInv
<1>2. CASE SendObject(size, l, r)
  <2>1. PICK n : /\ n = IF l = None THEN size ELSE lbs[l].len
                 /\ obj' = IF r.rc = "ok" THEN n ELSE obj
    BY <1>2 DEF SendObject
  <2>2. obj' \in Nat
    BY <2>1, Held DEF LbufType
  <2>3. ToldTrue'
    BY <1>2, ToldKeeps, ThrewKeeps DEF SendObject
  <2> QED BY <1>2, <2>2, <2>3, Held DEF SendObject, CallsInv
<1> QED BY <1>1, <1>2

\* A file is sent.
LEMMA UploadKeeps ==
    ASSUME CallsInv, NEW r \in Outcomes, NEW local, Upload(4, local, r) PROVE CallsInv'
<1>1. Room /\ UNCHANGED <<lbs, info, obj, seen>>
  BY DEF Upload
<1>2. "upload" \in Callers \ {"none"} /\ 0 \in Nat /\ 4 + 4 \in Nat
  BY DEF Callers
<1>3. PICK f : f = Taken(heap, "upload", 0)
  OBVIOUS
<1>4. PICK m : m = Taken(f, "upload", 4 + 4)
  OBVIOUS
<1>5. Freed(Freed(m, Free(heap)), Free(f)) = heap
  <2>1. heap \in HeapType /\ Room
    BY <1>1, Held
  <2>2. PICK n, k \in Nat : n = 4 + 4 /\ k = 0
    OBVIOUS
  <2>3. PICK op \in Callers \ {"none"} : op = "upload"
    BY <1>2
  <2>4. f = Taken(heap, op, k) /\ m = Taken(f, op, n) /\ n \in Nat
    BY <1>3, <1>4, <2>2, <2>3
  <2>5. /\ Freed(m, Free(heap)) = Put(heap, Free(f), [by |-> op, size |-> n])
        /\ Freed(Freed(m, Free(heap)), Free(f)) = heap
    BY ONLY <2>1, <2>4, TwoTaken, k \in Nat, op \in Callers \ {"none"}
  <2> QED BY ONLY <2>5
<1>6. Freed(f, Free(heap)) = heap
  <2>1. PICK e : e = [by |-> "upload", size |-> 0]
    OBVIOUS
  <2>2. e \in Entries /\ e # Blank
    BY <1>2, <2>1, EntryFacts
  <2>3. Blocks \ Live(heap) # {}
    BY <1>1, Held, RoomFacts DEF Room
  <2>4. Spare(heap, Free(heap)) /\ f = Put(heap, Free(heap), e)
    BY <1>2, <1>3, <2>1, <2>3, Held, TakenFacts
  <2> QED BY <2>2, <2>4, Held, GivenBack
<1>7. heap' = heap
  BY <1>3, <1>4, <1>5, <1>6 DEF Upload
<1>8. ToldTrue'
  BY ToldKeeps, ThrewKeeps DEF Upload
<1> QED BY <1>1, <1>7, <1>8, Held DEF CallsInv

\* A file is fetched: a success has all of it.
LEMMA DownloadKeeps ==
    ASSUME CallsInv, NEW open \in BOOLEAN, NEW name \in BOOLEAN, NEW r \in Outcomes,
           NEW write \in {"good", "full", "flush"}, Download(open, name, r, write)
    PROVE  CallsInv'
<1>1. Room /\ UNCHANGED <<lbs, info, obj, seen>> /\ (r.rc = "ok" => open /\ name)
  BY DEF Download
<1>2. "download" \in Callers \ {"none"} /\ 0 \in Nat
  BY DEF Callers
<1>3. heap' = heap
  <2>1. PICK e : e = [by |-> "download", size |-> 0]
    OBVIOUS
  <2>2. e \in Entries /\ e # Blank
    BY <1>2, <2>1, EntryFacts
  <2>3. Blocks \ Live(heap) # {}
    BY <1>1, Held, RoomFacts DEF Room
  <2>4. Spare(heap, Free(heap)) /\ Taken(heap, "download", 0) = Put(heap, Free(heap), e)
    BY <1>2, <2>1, <2>3, Held, TakenFacts
  <2>5. Freed(Taken(heap, "download", 0), Free(heap)) = heap
    BY <2>2, <2>4, Held, GivenBack
  <2> QED BY <2>5 DEF Download
<1>4. ToldTrue'
  <2>1. /\ DOMAIN last' = {"op", "rc", "val", "truth", "n"}
        /\ last'.op = "download" /\ last'.truth = write
        /\ last'.rc = (IF Received(r, write) THEN "ok" ELSE "refused")
        /\ last'.val = Local(open, name, r, write)
    BY DEF Download, Told
  <2>2. CASE Received(r, write)
    <3>1. r.rc = "ok" /\ write # "full" /\ r.data /\ open /\ name
      BY <1>1, <2>2, OutcomeFacts DEF Received
    <3>2. write = "good" \/ write = "flush"
      BY <3>1
    <3>3. write = "good" => last'.val = "whole"
      BY <2>1, <3>1 DEF Local
    <3>4. last'.val # "old"
      BY <2>1, <3>1 DEF Local
    <3> QED BY <2>1, <3>2, <3>3, <3>4 DEF ToldTrue
  <2>3. CASE ~Received(r, write)
    BY <2>1, <2>3 DEF ToldTrue
  <2> QED BY <2>2, <2>3
<1> QED BY <1>1, <1>3, <1>4, Held DEF CallsInv

\* The object changes on the camera.
LEMMA ChangeKeeps ==
    ASSUME CallsInv, NEW size \in Nat, ObjectChanges(size) PROVE CallsInv'
<1>1. /\ obj' = size /\ UNCHANGED <<heap, lbs, info, seen>>
      /\ last' = [last EXCEPT !.op = "none", !.val = 0, !.truth = 0]
  BY DEF ObjectChanges
<1>2. ToldTrue'
  <2>1. DOMAIN last = {"op", "rc", "val", "truth", "n"}
    BY Held DEF ToldTrue
  <2>2. /\ last'.op = "none" /\ last'.val = 0 /\ last'.truth = 0
        /\ DOMAIN last' = DOMAIN last
    BY <1>1, <2>1
  <2> QED BY <2>1, <2>2 DEF ToldTrue
<1> QED BY <1>1, <1>2, Held DEF CallsInv

-----------------------------------------------------------------------------
(* The theorems.                                                           *)

\* The invariant holds at first.
LEMMA CallsStart == ASSUME CallsInit PROVE CallsInv
<1>1. /\ heap = [blk |-> [b \in Blocks |-> Blank], bad |-> FALSE]
      /\ lbs = [l \in Lbufs |-> NoLbuf] /\ info = None /\ obj = 1 /\ seen = 1
      /\ last = [op |-> "none", rc |-> "ok", val |-> 0, truth |-> 0, n |-> 0]
  BY DEF CallsInit
<1>2. heap \in HeapType /\ ~heap.bad /\ Live(heap) = {}
  BY <1>1, EntryFacts DEF HeapType, Live
<1>3. lbs \in [Lbufs -> LbufType] /\ \A l \in Lbufs : lbs[l] = NoLbuf
  BY <1>1 DEF LbufType, NoLbuf
<1>4. MemOk(heap, lbs, info)
  BY <1>1, <1>2, <1>3 DEF MemOk
<1>5. ToldTrue
  BY <1>1 DEF ToldTrue
<1> QED BY <1>1, <1>4, <1>5 DEF CallsInv

\* Every call keeps it.
LEMMA CallsStep == ASSUME CallsInv, [CallsNext]_callVars PROVE CallsInv'
<1>1. Sizes \subseteq Nat
  BY CallsAssumption
<1>2. ASSUME NEW r \in Outcomes,
             \/ GetStorageIds(r, 4) \/ GetStorageInfo(r, 4) \/ GetObjectHandles(r, 4)
             \/ GetObjectInfo(r) \/ GetDeviceInfo(r, 4)
      PROVE  CallsInv'
  BY <1>2, ListsKeep, DeviceInfoKeeps
<1>3. ASSUME NEW r \in Outcomes,
             \/ CameraApiVersion(r, 4) \/ ScriptSupport(r, 4) \/ ScriptStatus(r, 4)
             \/ CaptureReady(r, 4)
             \/ \E args \in {0, 1, 10, 11} : CallFunction(args, r, 4)
      PROVE  CallsInv'
  BY <1>3, NumbersKeep
<1>4. ASSUME NEW r \in Outcomes,
             \/ \E local \in {"nofile", "nomem", "shorter", "there"} : Upload(4, local, r)
             \/ \E open, name \in BOOLEAN, write \in {"good", "full", "flush"} :
                   Download(open, name, r, write)
      PROVE  CallsInv'
  BY <1>4, UploadKeeps, DownloadKeeps
<1>5. ASSUME NEW r \in Outcomes, NEW size \in Sizes,
             \/ ReadMsg(r, size) \/ SendObjectInfo(size, r)
             \/ \E l \in Lbufs \cup {None} : SendObject(size, l, r)
      PROVE  CallsInv'
  <2>1. size \in Nat /\ None \in Lbufs \cup {None}
    BY <1>1
  <2> QED BY <1>5, <2>1, ReadMsgKeeps, SendKeeps
<1>6. ASSUME NEW r \in Outcomes, NEW l \in Lbufs, NEW size \in Sizes,
             \/ GetObject(l, r) \/ GetLiveData(l, r, size) \/ CaptureGetChunk(l, r, size)
             \/ \E count \in Sizes \ {0}, dest \in {"string", "number", "lbuf", "other"} :
                   GetMem(count, size, dest, l, r)
      PROVE  CallsInv'
  <2>1. size \in Nat /\ \A count \in Sizes \ {0} : count \in Nat
    BY <1>1
  <2> QED BY <1>6, <2>1, ObjectKeeps, LiveKeeps, ChunkKeeps, GetMemKeeps
<1>7. CASE \E r \in Outcomes : \E l \in Lbufs : GetObject(l, r)
  BY <1>7, ObjectKeeps
<1>8. CASE GetPtpDevinfo \/ SetMem \/ \E l \in Lbufs : Gc(l)
  <2>1. [rc |-> "ok", data |-> TRUE] \in Outcomes
    BY DEF Outcomes
  <2> QED BY <1>8, <2>1, NumbersKeep, GcKeeps
<1>9. CASE \E size \in Sizes \ {0} : ObjectChanges(size)
  BY <1>1, <1>9, ChangeKeeps
<1>10. CASE UNCHANGED callVars
  BY <1>10 DEF callVars, CallsInv, MemOk, ToldTrue
<1> QED BY <1>2, <1>3, <1>4, <1>5, <1>6, <1>7, <1>8, <1>9, <1>10 DEF CallsNext

\* A block that is allocated has one owner or is lost in a known case, and what
\* Lua was told last is what the camera answered.
THEOREM CallsInductive == CallsSpec => []CallsInv
<1>1. CallsInit => CallsInv
  BY CallsStart
<1>2. CallsInv /\ [CallsNext]_callVars => CallsInv'
  BY CallsStep
<1> QED BY <1>1, <1>2, PTL DEF CallsSpec

\* No call of a connection frees what is in use, or leaves memory or a file
\* behind but in the known cases; an lbuf is as long as what the camera sent; and
\* what Lua is told is what the camera answered.
THEOREM CallsKept == CallsSpec => []CallsContract
<1>1. CallsInv => CallsContract
  <2> SUFFICES ASSUME CallsInv PROVE CallsContract
    OBVIOUS
  <2>1. HeapTrue
    <3>1. \A b \in Live(heap) \ Owned : Lost(heap.blk[b])
      BY Held, Owners DEF Owned
    <3>2. ~heap.bad /\ \A l \in Lbufs : lbs[l] # NoLbuf => lbs[l].block \in Live(heap)
      BY Held, Owners
    <3>3. \A l, k \in Lbufs : l # k /\ lbs[l] # NoLbuf => lbs[l].block # lbs[k].block
      BY Held, Owners
    <3> QED BY <3>1, <3>2, <3>3 DEF HeapTrue, Lost
  <2>2. AnswersTrue
    BY Held, Owners DEF AnswersTrue, ToldTrue
  <2> QED BY <2>1, <2>2 DEF CallsContract
<1> QED BY <1>1, CallsInductive, PTL

-----------------------------------------------------------------------------
(***************************************************************************)
(* Lbuf: the arithmetic of int and unsigned int.                           *)
(***************************************************************************)
\* The one way to divide.
LEMMA ModIs ==
    ASSUME NEW w \in Nat, w > 0, NEW q \in Int, NEW r \in 0..(w - 1), NEW x \in Int,
           x = w * q + r
    PROVE  x % w = r /\ x \div w = q
<1>1. /\ x \div w \in Int /\ x % w \in 0..(w - 1)
      /\ x = w * (x \div w) + (x % w)
  OBVIOUS
<1>2. ASSUME NEW a \in Int, NEW b \in Int, a < b, NEW c \in 0..(w - 1), NEW d \in 0..(w - 1)
      PROVE  w * a + c # w * b + d
  <2>1. b - a - 1 \in Nat
    BY <1>2
  <2>2. w * (b - a - 1) \in Nat
    BY <2>1
  <2>3. w * (b - a - 1) = w * b - w * a - w
    OBVIOUS
  <2> QED BY <2>2, <2>3
<1>3. x \div w = q
  BY <1>1, <1>2
<1> QED BY <1>1, <1>3

\* What an unsigned and an int make of a number.
LEMMA UnsignedIs ==
    ASSUME NEW x \in Int
    PROVE  /\ 0 <= x /\ x < UWord => Unsigned(x) = x
           /\ x < 0 /\ -UWord <= x => Unsigned(x) = x + UWord
           /\ Unsigned(x) \in 0..(UWord - 1)
<1>1. UWord \in Nat /\ UWord > 0
  BY LbufAssumption
<1>2. ASSUME 0 <= x, x < UWord PROVE x % UWord = x
  <2>1. x = UWord * 0 + x
    BY <1>1
  <2> QED BY <1>1, <1>2, <2>1, ModIs
<1>3. ASSUME x < 0, -UWord <= x PROVE x % UWord = x + UWord
  <2>1. x = UWord * (-1) + (x + UWord)
    BY <1>1
  <2> QED BY <1>1, <1>3, <2>1, ModIs
<1> QED BY <1>1, <1>2, <1>3 DEF Unsigned

\* Half of the values of an unsigned are those an int has from 0 on.
LEMMA HalfIs ==
    /\ UWord \div 2 \in Nat /\ UWord = 2 * (UWord \div 2) /\ UWord \div 2 >= 8
BY LbufAssumption

\* An int stays what it is when it is taken as an unsigned and back.
LEMMA SignedIs ==
    ASSUME NEW x \in Int, -UWord <= 2 * x, 2 * x < UWord
    PROVE  Signed(x) = x
<1>1. CASE x >= 0
  BY <1>1, UnsignedIs, HalfIs DEF Signed
<1>2. CASE x < 0
  BY <1>2, UnsignedIs, HalfIs DEF Signed
<1> QED BY <1>1, <1>2

-----------------------------------------------------------------------------
\* A part of a sequence, element by element.
LEMMA PartIs ==
    ASSUME NEW s, NEW m \in Int, NEW n \in Int
    PROVE  SubSeq(s, m, n) = [i \in 1..(n - m + 1) |-> s[m + i - 1]]
<1>1. CASE n < m
  <2>1. 1..(n - m + 1) = {}
    BY <1>1
  <2>2. SubSeq(s, m, n) = <<>>
    BY <1>1, SubSeqEmpty
  <2> QED BY <2>1, <2>2
<1>2. CASE m <= n
  <2> DEFINE S == {s[i] : i \in m..n}
  <2>1. \A i \in m..n : s[i] \in S
    OBVIOUS
  <2>2. /\ SubSeq(s, m, n) \in Seq(S)
        /\ Len(SubSeq(s, m, n)) = n - m + 1
        /\ \A i \in 1..(n - m + 1) : SubSeq(s, m, n)[i] = s[m + i - 1]
    <3> HIDE DEF S
    <3> QED BY <1>2, <2>1, SubSeqProperties
  <2>3. DOMAIN SubSeq(s, m, n) = 1..(n - m + 1)
    BY <2>2, LenProperties
  <2>4. SubSeq(s, m, n) = [i \in DOMAIN SubSeq(s, m, n) |-> SubSeq(s, m, n)[i]]
    <3> HIDE DEF S
    <3> QED BY <2>2
  <2> QED BY <2>2, <2>3, <2>4
<1> QED BY <1>1, <1>2

\* Parts that are empty, or have the same bounds, are equal.
LEMMA SameParts ==
    ASSUME NEW s, NEW a \in Int, NEW b \in Int, NEW c \in Int, NEW d \in Int,
           (a = c /\ b = d) \/ (b < a /\ d < c)
    PROVE  SubSeq(s, a, b) = SubSeq(s, c, d)
BY SubSeqEmpty

-----------------------------------------------------------------------------
(* Reading.                                                                *)

\* What get_index_arg makes of an index: from the end if it is negative, and
\* never before the buffer.
LEMMA IndexIs ==
    ASSUME NEW len \in Nat, 2 * len < UWord, NEW i \in Args
    PROVE  IndexArg(len, i) = IF i >= 0 THEN i ELSE IF len + i + 1 >= 0 THEN len + i + 1 ELSE 0
<1>1. i \in Int /\ -UWord <= 2 * i /\ 2 * i < UWord /\ UWord \in Nat /\ UWord % 2 = 0
  BY LbufAssumption
<1>2. i < 0 => Signed(len + i + 1) = len + i + 1
  <2>1. i < 0 => len + i + 1 \in Int /\ -UWord <= 2 * (len + i + 1) /\ 2 * (len + i + 1) < UWord
    BY <1>1
  <2> QED BY <2>1, SignedIs
<1> QED BY <1>1, <1>2 DEF IndexArg

\* lbuf:string and lbuf:sub return what string.sub does.
LEMMA SliceIs ==
    ASSUME NEW s, Len(s) \in Nat, 2 * Len(s) < UWord, NEW i \in Args, NEW j \in Args
    PROVE  Slice(s, i, j) = LuaSub(s, i, j)
<1>1. i \in Int /\ j \in Int
  BY LbufAssumption
<1> DEFINE len == Len(s)
           a == IndexArg(len, i)
           b == IndexArg(len, j)
           lo == Span(len, a, b).from + 1
           hi == Span(len, a, b).to
           from == IF i > 0 THEN i ELSE IF i = 0 \/ i < -len THEN 1 ELSE len + i + 1
           to   == IF j >= 0 THEN Least(j, len) ELSE len + j + 1
<1>2. len \in Nat
  OBVIOUS
<1>3. /\ a = (IF i >= 0 THEN i ELSE IF len + i + 1 >= 0 THEN len + i + 1 ELSE 0)
      /\ b = (IF j >= 0 THEN j ELSE IF len + j + 1 >= 0 THEN len + j + 1 ELSE 0)
  BY IndexIs
<1>4. Slice(s, i, j) = SubSeq(s, lo, hi) /\ LuaSub(s, i, j) = SubSeq(s, from, to)
  BY DEF Slice, LuaSub
<1> HIDE DEF a, b, len
<1>5. /\ lo \in Int /\ hi \in Int /\ from \in Int /\ to \in Int
      /\ (lo = from /\ hi = to) \/ (hi < lo /\ to < from)
  BY <1>1, <1>2, <1>3 DEF Span, Start, Least
<1> HIDE DEF lo, hi, from, to
<1>6. SubSeq(s, lo, hi) = SubSeq(s, from, to)
  BY <1>5, SameParts
<1> QED BY <1>4, <1>6

\* lbuf:byte returns what string.byte does.
LEMMA ByteIs ==
    ASSUME NEW s, Len(s) \in Nat, 2 * Len(s) < UWord, NEW i \in Args
    PROVE  ByteAt(s, i) = LuaSub(s, i, i)
BY SliceIs DEF ByteAt, Slice

\* A quotient of natural numbers is one.
LEMMA QuotientIs ==
    ASSUME NEW x \in Nat, NEW w \in Nat, w > 0
    PROVE  x \div w \in Nat /\ w * (x \div w) <= x /\ x = w * (x \div w) + (x % w)
<1>3. /\ x \div w \in Int /\ x % w \in 0..(w - 1)
      /\ x = w * (x \div w) + (x % w)
  OBVIOUS
<1>4. PICK q : q = x \div w
  OBVIOUS
<1>5. PICK r : r = x % w
  OBVIOUS
<1>6. q \in Int /\ r \in 0..(w - 1) /\ x = w * q + r
  BY <1>3, <1>4, <1>5
<1>7. q >= 0
  <2>1. CASE q <= -1
    <3>1. w * (-1 - q) \in Nat
      BY <1>6, <2>1
    <3>2. w * (-1 - q) = -w - w * q
      BY <1>6
    <3> QED BY <1>6, <3>1, <3>2
  <2> QED BY <1>6, <2>1
<1>8. w * q \in Int
  BY <1>6
<1> QED BY <1>3, <1>4, <1>5, <1>6, <1>7, <1>8

\* An unsigned is not larger than the number it was made of.
LEMMA UnsignedLess ==
    ASSUME NEW x \in Nat
    PROVE  Unsigned(x) <= x
<1>1. UWord \in Nat /\ UWord > 0
  BY LbufAssumption
<1>2. PICK q : q = x \div UWord
  OBVIOUS
<1>3. PICK r : r = x % UWord
  OBVIOUS
<1>4. q \in Nat /\ x = UWord * q + r
  BY <1>1, <1>2, <1>3, QuotientIs
<1>5. UWord * q \in Nat /\ r \in Int
  BY <1>1, <1>3, <1>4
<1> QED BY <1>3, <1>4, <1>5 DEF Unsigned

\* How many values of a size there are in a number of bytes.
LEMMA FitIs ==
    ASSUME NEW n \in Nat, NEW size \in {1, 2, 4}, NEW k \in Int
    PROVE  /\ n \div size \in Nat /\ n \div size <= n /\ size * (n \div size) <= n
           /\ size * k <= n => k <= n \div size
           /\ size * k > n => k > n \div size
<1>1. CASE size = 1
  BY <1>1
<1>2. CASE size = 2
  BY <1>2
<1>3. CASE size = 4
  BY <1>3
<1> QED BY <1>1, <1>2, <1>3

\* How many values get_* reads: what is asked for as far as it is there.  The
\* product of count and size may wrap only if count is more than Lua's stack
\* takes.
LEMMA CountIs ==
    ASSUME NEW len \in Nat, 2 * len < UWord, NEW size \in {1, 2, 4}, NEW off \in Args,
           NEW count \in Args, off >= 0, off <= len
    PROVE  LET fit == (len - off) \div size
               c   == GetCount(len, size, off, count)
           IN  /\ c \in Nat
               /\ \/ c = (IF count < 0 THEN fit ELSE Least(count, fit))
                  \/ c = count /\ count > StackMax
<1> DEFINE fit == (len - off) \div size
           c   == GetCount(len, size, off, count)
<1>1. /\ off \in Nat /\ 2 * off < UWord /\ count \in Int /\ UWord \in Nat
      /\ StackMax \in Nat /\ 8 * StackMax <= UWord /\ UWord >= 16
  BY LbufAssumption
<1>2. len - off \in Nat /\ Unsigned(len - off) = len - off
  BY <1>1, UnsignedIs
<1>3. fit \in Nat /\ fit <= len
  BY <1>1, <1>2, FitIs
<1>4. Signed(Unsigned(len - off) \div size) = fit
  BY <1>1, <1>2, <1>3, SignedIs
<1> DEFINE t == off + (count * size)
<1>5. c = IF count < 0 \/ Unsigned(t) > len THEN fit ELSE count
  <2> HIDE DEF fit
  <2> QED BY <1>4 DEF GetCount
<1>6. t \in Int
  BY <1>1
<1>7. ASSUME count >= 0, Unsigned(t) > len PROVE fit < count
  <2>1. t \in Nat
    BY <1>1, <1>7
  <2>2. t > len
    <3> HIDE DEF t
    <3>1. Unsigned(t) \in Int
      BY <2>1, UnsignedIs
    <3> QED BY <1>7, <2>1, <3>1, UnsignedLess
  <2>3. size * count > len - off
    BY <1>1, <2>2
  <2> QED BY <1>1, <1>2, <2>3, FitIs
<1>8. ASSUME count >= 0, ~(Unsigned(t) > len), count <= StackMax PROVE count <= fit
  <2>1. t \in Nat /\ t < UWord
    BY <1>1, <1>8
  <2>2. t <= len
    <3> HIDE DEF t
    <3> QED BY <1>8, <2>1, UnsignedIs
  <2>3. size * count <= len - off
    BY <1>1, <2>2
  <2> QED BY <1>1, <1>2, <2>3, FitIs
<1> HIDE DEF fit, t, c
<1>9. /\ c \in Nat
      /\ \/ c = (IF count < 0 THEN fit ELSE Least(count, fit))
         \/ c = count /\ count > StackMax
  BY <1>1, <1>3, <1>5, <1>7, <1>8 DEF Least
<1> QED BY <1>9 DEF fit, c

\* get_* returns the values that are there, or fails for want of stack.
LEMMA GetIs ==
    ASSUME NEW s, Len(s) \in Nat, 2 * Len(s) < UWord, NEW size \in {1, 2, 4},
           NEW signed \in BOOLEAN, NEW off \in Args, NEW count \in Args
    PROVE  GetTrue(s, size, signed, off, count)
<1> SUFFICES ASSUME off >= 0, ~ShortPast(Len(s), size, off)
             PROVE  \/ GetVals(s, size, signed, off, count)
                         = Returned(Elements(s, size, signed, off, count))
                    \/ /\ (IF count < 0 THEN Fit(s, size, off) ELSE count) > StackMax
                       /\ GetVals(s, size, signed, off, count) = Failed
  BY DEF GetTrue
<1>1. /\ off \in Nat /\ 2 * off < UWord /\ count \in Int /\ UWord \in Nat
      /\ StackMax \in Nat /\ UWord >= 16
  BY LbufAssumption
<1>2. PICK len : len = Len(s)
  OBVIOUS
<1>3. len \in Nat /\ 2 * len < UWord /\ (len >= size \/ off <= len)
  BY <1>1, <1>2 DEF ShortPast
<1>4. /\ len >= size => Unsigned(len - size) = len - size
      /\ len < size => Unsigned(len - size) = len - size + UWord
  BY <1>1, <1>3, UnsignedIs
<1>5. CASE off > Unsigned(len - size)
  <2>1. GetVals(s, size, signed, off, count) = Returned(<<>>)
    BY <1>1, <1>2, <1>5 DEF GetVals
  <2>2. len >= size /\ off > len - size
    BY <1>1, <1>3, <1>4, <1>5
  <2>3. Fit(s, size, off) = 0
    <3>1. CASE off > len
      BY <1>2, <3>1 DEF Fit
    <3>2. CASE off <= len
      <4>1. len - off \in Nat /\ size * 1 > len - off
        BY <1>1, <1>3, <2>2, <3>2
      <4>2. 1 > (len - off) \div size /\ (len - off) \div size \in Nat
        BY <4>1, FitIs
      <4> QED BY <1>1, <1>2, <1>3, <3>2, <4>2 DEF Fit
    <3> QED BY <1>1, <1>3, <3>1, <3>2
  <2>4. Elements(s, size, signed, off, count) = <<>>
    <3>1. (IF count < 0 THEN Fit(s, size, off) ELSE Least(count, Fit(s, size, off))) <= 0
      BY <1>1, <2>3 DEF Least
    <3>2. (IF count < 0 THEN Fit(s, size, off) ELSE Least(count, Fit(s, size, off))) = 0
      BY <1>1, <2>3 DEF Least
    <3> QED BY <3>2 DEF Elements
  <2> QED BY <2>1, <2>4
<1>6. CASE off <= Unsigned(len - size)
  <2>1. off <= len
    BY <1>1, <1>3, <1>4, <1>6
  <2>2. PICK fit : fit = (len - off) \div size
    OBVIOUS
  <2>3. PICK c : c = GetCount(len, size, off, count)
    OBVIOUS
  <2>4. PICK w : w = IF count < 0 THEN fit ELSE Least(count, fit)
    OBVIOUS
  <2>5. c \in Nat /\ (c = w \/ (c = count /\ count > StackMax))
    <3>1. LET f == (len - off) \div size
              d == GetCount(len, size, off, count)
          IN  /\ d \in Nat
              /\ \/ d = (IF count < 0 THEN f ELSE Least(count, f))
                 \/ d = count /\ count > StackMax
      <4>1. /\ len \in Nat /\ 2 * len < UWord /\ size \in {1, 2, 4} /\ off \in Args
            /\ count \in Args /\ off >= 0 /\ off <= len
        BY <1>1, <1>3, <2>1
      <4> QED BY ONLY <4>1, CountIs
    <3> QED BY <2>2, <2>3, <2>4, <3>1
  <2>6. fit \in Nat
    BY <1>1, <1>3, <2>1, <2>2, FitIs
  <2>7. Fit(s, size, off) = fit
    BY <1>1, <1>2, <1>3, <2>1, <2>2 DEF Fit
  <2>8. ~(off < 0) /\ ~(off > Unsigned(len - size))
    BY <1>1, <1>3, <1>4, <1>6
  <2>9. CASE c > StackMax
    <3>1. GetVals(s, size, signed, off, count) = Failed
      BY <1>2, <2>3, <2>8, <2>9 DEF GetVals
    <3>2. (IF count < 0 THEN fit ELSE count) > StackMax
      BY <1>1, <2>4, <2>5, <2>6, <2>9 DEF Least
    <3> QED BY <2>7, <3>1, <3>2
  <2>10. CASE ~(c > StackMax)
    <3>1. c = w
      BY <1>1, <2>5, <2>10
    <3>2. GetVals(s, size, signed, off, count) =
            Returned([k \in 1..c |->
               Value(SubSeq(s, off + ((k - 1) * size) + 1, off + (k * size)), signed)])
      BY <1>2, <2>3, <2>5, <2>8, <2>10 DEF GetVals
    <3>3. ASSUME NEW k \in 1..c
          PROVE  SubSeq(s, off + ((k - 1) * size) + 1, off + (k * size))
                   = [b \in 1..size |-> s[off + ((k - 1) * size) + b]]
      <4>1. PICK m : m = off + ((k - 1) * size)
        OBVIOUS
      <4>2. k \in Int /\ m \in Int /\ off + (k * size) = m + size
        <5>1. k \in Int
          BY <2>5
        <5> QED BY <1>1, <4>1, <5>1
      <4>3. SubSeq(s, m + 1, m + size) = [i \in 1..(m + size - (m + 1) + 1) |-> s[m + 1 + i - 1]]
        BY <4>2, PartIs
      <4>4. m + size - (m + 1) + 1 = size /\ \A i \in 1..size : m + 1 + i - 1 = m + i
        BY <4>2
      <4>5. SubSeq(s, m + 1, m + size) = [b \in 1..size |-> s[m + b]]
        BY <4>3, <4>4
      <4> QED BY <4>1, <4>2, <4>5
    <3>4. Elements(s, size, signed, off, count) =
            [k \in 1..w |-> Value([b \in 1..size |-> s[off + ((k - 1) * size) + b]], signed)]
      BY <2>4, <2>7 DEF Elements
    <3>5. [k \in 1..c |-> Value(SubSeq(s, off + ((k - 1) * size) + 1, off + (k * size)), signed)]
            = [k \in 1..c |-> Value([b \in 1..size |-> s[off + ((k - 1) * size) + b]], signed)]
      BY <3>3
    <3> QED BY <3>1, <3>2, <3>4, <3>5
  <2> QED BY <2>9, <2>10
<1>7. Unsigned(len - size) \in Int
  BY <1>1, <1>3, UnsignedIs
<1> QED BY <1>1, <1>5, <1>6, <1>7

-----------------------------------------------------------------------------
(* Writing.                                                                *)

LbufInv ==
    /\ DOMAIN buf = {"bytes", "ro"}
    /\ Len(buf.bytes) \in Nat /\ 2 * Len(buf.bytes) < UWord
    /\ LbufContract

\* The length of a sequence that is given element by element.
LEMMA LengthIs ==
    ASSUME NEW n \in Nat, NEW f, f = [i \in 1..n |-> f[i]]
    PROVE  Len(f) = n /\ DOMAIN f = 1..n
<1> DEFINE S == {f[i] : i \in 1..n}
<1>1. f \in [1..n -> S]
  OBVIOUS
<1>2. f \in Seq(S)
  <2> HIDE DEF S
  <2> QED BY <1>1
<1> HIDE DEF S
<1> QED BY <1>1, <1>2

\* The first n elements of a sequence.
LEMMA PartLen ==
    ASSUME NEW s, NEW n \in Nat
    PROVE  Len(SubSeq(s, 1, n)) = n /\ SubSeq(s, 1, n) = [i \in 1..n |-> s[i]]
<1>1. SubSeq(s, 1, n) = [i \in 1..(n - 1 + 1) |-> s[1 + i - 1]]
  BY PartIs
<1>2. n - 1 + 1 = n /\ \A i \in 1..n : 1 + i - 1 = i
  OBVIOUS
<1>3. SubSeq(s, 1, n) = [i \in 1..n |-> s[i]]
  BY <1>1, <1>2
<1>4. PICK f : f = SubSeq(s, 1, n)
  OBVIOUS
<1>5. f = [i \in 1..n |-> f[i]]
  BY <1>3, <1>4
<1> QED BY <1>3, <1>4, <1>5, LengthIs

\* A buffer of any contents is read as it should be.
LEMMA AllRead ==
    ASSUME NEW s, Len(s) \in Nat, 2 * Len(s) < UWord
    PROVE  \A i, j \in Args :
              /\ SubTrue(s, i, j)
              /\ \A size \in {1, 2, 4}, signed \in BOOLEAN : GetTrue(s, size, signed, i, j)
<1>1. ASSUME NEW i \in Args, NEW j \in Args
      PROVE  SubTrue(s, i, j)
  BY SliceIs, ByteIs DEF SubTrue
<1>2. ASSUME NEW i \in Args, NEW j \in Args, NEW size \in {1, 2, 4}, NEW signed \in BOOLEAN
      PROVE  GetTrue(s, size, signed, i, j)
  BY GetIs
<1> QED BY <1>1, <1>2

\* A new buffer.
LEMMA NewKeeps ==
    ASSUME DOMAIN buf' = {"bytes", "ro"}, Len(buf'.bytes) \in Nat, 2 * Len(buf'.bytes) < UWord,
           NewBuf
    PROVE  LbufInv'
<1>1. written'.op = "new" /\ written'.stray = FALSE
  BY DEF NewBuf, NoWrite
<1>2. \A i, j \in Args :
         /\ SubTrue(buf'.bytes, i, j)
         /\ \A size \in {1, 2, 4}, signed \in BOOLEAN : GetTrue(buf'.bytes, size, signed, i, j)
  BY AllRead
<1>3. ReadsTrue'
  BY <1>2 DEF ReadsTrue
<1>4. WritesTrue' /\ StraysKnown'
  BY <1>1 DEF WritesTrue, StraysKnown
<1> QED BY <1>3, <1>4 DEF LbufInv, LbufContract

\* What Written makes of a part that repeats a pattern.
LEMMA WrittenIs ==
    ASSUME NEW s, Len(s) \in Nat, NEW off \in Nat, NEW part, Len(part) \in Nat, NEW src,
           \A i \in 1..Len(part) : part[i] = src[((i - 1) % Len(src)) + 1]
    PROVE  /\ Written(s, off, part) =
                [p \in 1..Len(s) |-> IF p > off /\ p <= off + Len(part)
                                     THEN src[((p - off - 1) % Len(src)) + 1] ELSE s[p]]
           /\ Len(Written(s, off, part)) = Len(s)
<1>1. ASSUME NEW p \in 1..Len(s), p > off, p <= off + Len(part)
      PROVE  part[p - off] = src[((p - off - 1) % Len(src)) + 1]
  <2>1. p - off \in 1..Len(part)
    BY <1>1
  <2> QED BY <2>1
<1>2. Written(s, off, part) =
         [p \in 1..Len(s) |-> IF p > off /\ p <= off + Len(part)
                              THEN src[((p - off - 1) % Len(src)) + 1] ELSE s[p]]
  BY <1>1 DEF Written
<1>3. Len(Written(s, off, part)) = Len(s)
  <2>1. PICK f : f = Written(s, off, part)
    OBVIOUS
  <2>2. f = [i \in 1..Len(s) |-> f[i]]
    BY <2>1 DEF Written
  <2> QED BY <2>1, <2>2, LengthIs
<1> QED BY <1>2, <1>3

Left(s, off) == IF off > Len(s) THEN 0 ELSE Len(s) - off

\* What set_*, fill and fread have in common.
LEMMA WriteKeeps ==
    ASSUME LbufInv, NEW op \in {"set", "fill", "fread"}, NEW off \in Nat, NEW unit, NEW src,
           NEW count, NEW part, NEW out \in BOOLEAN, Len(part) \in Nat,
           \A i \in 1..Len(part) : part[i] = src[((i - 1) % Len(src)) + 1],
           buf' = [buf EXCEPT !.bytes = Written(buf.bytes, off, part)],
           Call(op, off, unit, src, count, Len(part), out),
           count * Len(src) < UWord /\ ~out
              => Len(part) = (Least(count * Len(src), Left(buf.bytes, off)) \div unit) * unit,
           out => op = "set" /\ ShortPast(Len(buf.bytes), unit, off)
    PROVE  LbufInv'
<1>1. PICK s : s = buf.bytes
  OBVIOUS
<1>2. Len(s) \in Nat /\ 2 * Len(s) < UWord /\ DOMAIN buf = {"bytes", "ro"}
  BY <1>1 DEF LbufInv
<1>3. buf'.bytes = Written(s, off, part) /\ DOMAIN buf' = {"bytes", "ro"}
  BY <1>1, <1>2
<1>4. /\ written'.op = op /\ written'.before = s /\ written'.off = off /\ written'.unit = unit
      /\ written'.src = src /\ written'.count = count /\ written'.ret = Len(part)
      /\ written'.stray = out
  BY <1>1 DEF Call
<1>5. /\ buf'.bytes =
            [p \in 1..Len(s) |-> IF p > off /\ p <= off + Len(part)
                                 THEN src[((p - off - 1) % Len(src)) + 1] ELSE s[p]]
      /\ Len(buf'.bytes) = Len(s)
  BY <1>2, <1>3, WrittenIs
<1>6. WritesTrue'
  <2>1. PICK n : n = Len(part)
    OBVIOUS
  <2>2. count * Len(src) < UWord /\ ~out
           => n = (Least(count * Len(src), IF off > Len(s) THEN 0 ELSE Len(s) - off)
                     \div unit) * unit
    BY <1>1, <2>1 DEF Left
  <2>3. buf'.bytes = [p \in 1..Len(s) |-> IF p > off /\ p <= off + n
                                THEN src[((p - off - 1) % Len(src)) + 1] ELSE s[p]]
    BY <1>5, <2>1
  <2> QED BY <1>4, <2>1, <2>2, <2>3 DEF WritesTrue
<1>7. ReadsTrue'
  BY <1>4 DEF ReadsTrue
<1>8. StraysKnown'
  BY <1>1, <1>4 DEF StraysKnown
<1> QED BY <1>2, <1>3, <1>5, <1>6, <1>7, <1>8 DEF LbufInv, LbufContract

\* Within the sequence a remainder changes nothing.
LEMMA InsideIs ==
    ASSUME NEW n \in Nat, NEW i \in 1..n
    PROVE  ((i - 1) % n) + 1 = i
<1>1. n > 0 /\ i - 1 \in 0..(n - 1) /\ i - 1 = n * 0 + (i - 1)
  OBVIOUS
<1>2. (i - 1) % n = i - 1
  BY ONLY <1>1, ModIs, n \in Nat, i \in 1..n
<1> QED BY <1>2

\* The number of bytes set_* writes.
LEMMA SetCountIs ==
    ASSUME NEW len \in Nat, 2 * len < UWord, NEW size \in {1, 2, 4}, NEW off \in Nat,
           2 * off < UWord, off <= Unsigned(len - size), NEW k \in Nat, k <= StackMax
    PROVE  LET n == SetCount(len, size, off, k) * size IN
           /\ n \in Nat /\ n <= k * size
           /\ off <= len => /\ off + n <= len
                            /\ n = (Least(1 * (k * size), len - off) \div size) * size
           /\ off > len => ShortPast(len, size, off)
<1>1. UWord \in Nat /\ UWord >= 16 /\ StackMax \in Nat /\ 8 * StackMax <= UWord
  BY LbufAssumption
<1>2. PICK t : t = k * size
  OBVIOUS
<1>3. t \in Nat /\ t < UWord /\ t = size * k
  BY <1>1, <1>2
<1>4. Unsigned(t) = t
  BY <1>3, UnsignedIs
<1>5. /\ len >= size => Unsigned(len - size) = len - size
      /\ len < size => Unsigned(len - size) = len - size + UWord
  BY <1>1, UnsignedIs
<1>6. off > len => ShortPast(len, size, off)
  BY <1>1, <1>5 DEF ShortPast
<1>7. PICK u : u = Unsigned(len - off)
  OBVIOUS
<1>8. u \in Nat /\ (off <= len => u = len - off)
  BY <1>1, <1>7, UnsignedIs
<1>9. PICK f : f = u \div size
  OBVIOUS
<1>10. f \in Nat /\ size * f <= u /\ (size * k > u => k > f)
  BY <1>3, <1>8, <1>9, FitIs
<1>11. PICK c : c = SetCount(len, size, off, k)
  OBVIOUS
<1>12. c = IF t > u THEN f ELSE k
  BY <1>2, <1>4, <1>7, <1>9, <1>11 DEF SetCount
<1>13. c \in Nat /\ c <= k /\ c * size <= u
  BY <1>3, <1>8, <1>10, <1>12
<1>14. c * size <= k * size
  BY <1>13
<1>15. off <= len => c = Least(t, len - off) \div size
  <2>1. t \div size = k
    BY <1>3
  <2> QED BY <1>3, <1>8, <1>9, <1>12, <2>1 DEF Least
<1>16. 1 * (k * size) = t
  BY <1>2, <1>3
<1> QED BY <1>6, <1>8, <1>11, <1>13, <1>14, <1>15, <1>16

\* set_* writes whole values, as many as fit.
LEMMA SetKeeps ==
    ASSUME LbufInv, NEW size \in {1, 2, 4}, NEW off \in Args, NEW vals \in Vals,
           SetVals(size, off, vals)
    PROVE  LbufInv'
<1>1. PICK len : len = Len(buf.bytes)
  OBVIOUS
<1>2. PICK k : k = Len(vals)
  OBVIOUS
<1> DEFINE e(p) == BytesOf(vals[((p - 1) \div size) + 1], size)[((p - 1) % size) + 1]
           all == [p \in 1..(k * size) |-> e(p)]
           n == SetCount(len, size, off, k) * size
           part == SubSeq(all, 1, n)
           out == off + n > len
<1>3. /\ off >= 0 /\ off <= Unsigned(len - size)
      /\ buf' = [buf EXCEPT !.bytes = Written(buf.bytes, off, part)]
      /\ Call("set", off, size, all, 1, n, out)
  BY <1>1, <1>2 DEF SetVals
<1>4. len \in Nat /\ 2 * len < UWord
  BY <1>1 DEF LbufInv
<1>5. off \in Nat /\ 2 * off < UWord /\ k \in Nat /\ k <= StackMax /\ k * size \in Nat
  BY <1>2, <1>3, LbufAssumption
<1>6. /\ n \in Nat /\ n <= k * size
      /\ off <= len => /\ off + n <= len
                       /\ n = (Least(1 * (k * size), len - off) \div size) * size
      /\ off > len => ShortPast(len, size, off)
  BY <1>3, <1>4, <1>5, SetCountIs
<1> HIDE DEF e, n
<1>7. Len(all) = k * size
  <2>1. all = [p \in 1..(k * size) |-> all[p]]
    OBVIOUS
  <2> HIDE DEF all
  <2> QED BY <1>5, <2>1, LengthIs
<1> HIDE DEF all
<1>8. part = [i \in 1..n |-> all[i]]
  BY <1>6, PartLen
<1>9. Len(part) = n
  BY <1>6, PartLen
<1> HIDE DEF part
<1>10. \A i \in 1..Len(part) : part[i] = all[((i - 1) % Len(all)) + 1]
  <2>1. ASSUME NEW i \in 1..n PROVE part[i] = all[((i - 1) % Len(all)) + 1]
    <3>1. i \in 1..(k * size)
      BY <1>5, <1>6
    <3>2. ((i - 1) % (k * size)) + 1 = i
      BY <1>5, <3>1, InsideIs
    <3> QED BY <1>7, <1>8, <3>2
  <2> QED BY <1>9, <2>1
<1>11. out \in BOOLEAN /\ (out <=> off > len)
  BY <1>4, <1>5, <1>6
<1>12. ~out => Len(part) = (Least(1 * Len(all), Left(buf.bytes, off)) \div size) * size
  BY <1>1, <1>4, <1>5, <1>6, <1>7, <1>9, <1>11 DEF Left
<1>13. out => ShortPast(Len(buf.bytes), size, off)
  BY <1>1, <1>6, <1>11
<1>14. Call("set", off, size, all, 1, Len(part), out)
  BY <1>3, <1>9
<1> HIDE DEF out
<1>15. Len(part) \in Nat
  BY <1>6, <1>9
<1> QED BY <1>3, <1>5, <1>10, <1>11, <1>12, <1>13, <1>14, <1>15, WriteKeeps

\* fread writes what the file has, at most what was asked for.
LEMMA FreadKeeps ==
    ASSUME LbufInv, NEW off \in Args, NEW count \in Args, off >= 0, count >= 0,
           Fread(off, count)
    PROVE  LbufInv'
<1>1. PICK len : len = Len(buf.bytes)
  OBVIOUS
<1>2. len \in Nat /\ 2 * len < UWord
  BY <1>1 DEF LbufInv
<1>3. PICK s \in Contents :
         LET got == SubSeq(s, 1, Least(count, Len(s))) IN
         /\ buf' = [buf EXCEPT !.bytes = Written(@, off, got)]
         /\ Call("fread", off, 1, got, 1, Len(got), off + count > Len(buf.bytes))
  BY DEF Fread
<1>4. off \in Nat /\ count \in Nat /\ s \in Seq(Int) /\ Len(s) \in Nat /\ UWord \in Nat
  BY LbufAssumption
<1>5. off < len /\ count <= len - off
  <2>1. off < len /\ count <= Unsigned(len - off)
    BY <1>1 DEF Fread
  <2>2. Unsigned(len - off) = len - off
    BY <1>2, <1>4, <2>1, UnsignedIs
  <2> QED BY <2>1, <2>2
<1>6. PICK n : n = Least(count, Len(s))
  OBVIOUS
<1>7. n \in Nat /\ n <= count
  BY <1>4, <1>6 DEF Least
<1>8. PICK got : got = SubSeq(s, 1, n)
  OBVIOUS
<1>9. Len(got) = n
  BY <1>7, <1>8, PartLen
<1>10. (off + count > len) = FALSE
  BY <1>2, <1>4, <1>5
<1>11. /\ buf' = [buf EXCEPT !.bytes = Written(buf.bytes, off, got)]
       /\ Call("fread", off, 1, got, 1, Len(got), FALSE)
  BY <1>1, <1>3, <1>6, <1>8, <1>10
<1>12. \A i \in 1..Len(got) : got[i] = got[((i - 1) % Len(got)) + 1]
  BY <1>7, <1>9, InsideIs
<1>13. Len(got) = (Least(1 * Len(got), Left(buf.bytes, off)) \div 1) * 1
  <2>1. n <= len - off
    BY <1>2, <1>4, <1>5, <1>7
  <2>2. Left(buf.bytes, off) = len - off
    BY <1>1, <1>2, <1>4, <1>5 DEF Left
  <2>3. Least(1 * n, len - off) = n
    BY <1>2, <1>4, <1>7, <2>1 DEF Least
  <2>4. (n \div 1) * 1 = n
    BY <1>7
  <2> QED BY <1>9, <2>2, <2>3, <2>4
<1> QED BY <1>4, <1>7, <1>9, <1>11, <1>12, <1>13, WriteKeeps

\* fill with a pattern, count times, for any count.
LEMMA FillKeeps ==
    ASSUME LbufInv, NEW src \in Contents, NEW off \in Args, NEW count \in Nat,
           Fill(src, off, count)
    PROVE  LbufInv'
<1>1. PICK len : len = Len(buf.bytes)
  OBVIOUS
<1>2. len \in Nat /\ 2 * len < UWord
  BY <1>1 DEF LbufInv
<1>3. PICK k : k = Len(src)
  OBVIOUS
<1>4. PICK n : n = FillBytes(len, off, k, count)
  OBVIOUS
<1> DEFINE part == Repeated(src, n)
<1>5. /\ src # <<>> /\ off >= 0 /\ off < len
      /\ buf' = [buf EXCEPT !.bytes = Written(buf.bytes, off, part)]
      /\ Call("fill", off, 1, src, count, n, FALSE)
  BY <1>1, <1>3, <1>4 DEF Fill
<1>6. off \in Nat /\ src \in Seq(Int) /\ k \in Nat /\ k > 0 /\ UWord \in Nat
  <2>1. off \in Nat /\ src \in Seq(Int) /\ UWord \in Nat
    BY <1>5, LbufAssumption
  <2> QED BY <1>3, <1>5, <2>1, EmptySeq
<1>7. PICK t : t = count * k
  OBVIOUS
<1>8. t \in Nat
  BY <1>6, <1>7
<1>9. Unsigned(t) \in Nat /\ (t < UWord => Unsigned(t) = t)
  BY <1>6, <1>8, UnsignedIs
<1>10. n = Least(len - off, Unsigned(t))
  BY <1>4, <1>7 DEF FillBytes
<1>11. n \in Nat /\ (t < UWord => n = Least(t, len - off))
  BY <1>2, <1>5, <1>6, <1>8, <1>9, <1>10 DEF Least
<1>12. /\ Len(part) = n
       /\ \A i \in 1..n : part[i] = src[((i - 1) % Len(src)) + 1]
  <2>1. part = [i \in 1..n |-> part[i]] /\ \A i \in 1..n : part[i] = src[((i - 1) % Len(src)) + 1]
    BY DEF Repeated
  <2> HIDE DEF part
  <2> QED BY <1>11, <2>1, LengthIs
<1> HIDE DEF part
<1>13. count * Len(src) < UWord
         => Len(part) = (Least(count * Len(src), Left(buf.bytes, off)) \div 1) * 1
  <2>1. t < UWord => n = (Least(t, len - off) \div 1) * 1
    BY <1>2, <1>5, <1>6, <1>8, <1>11 DEF Least
  <2> QED BY <1>1, <1>2, <1>3, <1>5, <1>6, <1>7, <1>12, <2>1 DEF Left
<1>14. Call("fill", off, 1, src, count, Len(part), FALSE) /\ Len(part) \in Nat
  BY <1>5, <1>11, <1>12
<1>15. \A i \in 1..Len(part) : part[i] = src[((i - 1) % Len(src)) + 1]
  BY <1>12
<1> QED BY <1>5, <1>6, <1>13, <1>14, <1>15, WriteKeeps

\* The other calls change bytes, but not the length.
LEMMA OtherKeeps ==
    ASSUME LbufInv, NEW op \in {"reverse", "self"}, NEW b, NEW off, NEW unit,
           NEW src, NEW count, NEW ret, NEW out \in BOOLEAN, Len(b) = Len(buf.bytes),
           buf' = [buf EXCEPT !.bytes = b], Call(op, off, unit, src, count, ret, out),
           out => op = "reverse" /\ buf.bytes = <<>>
    PROVE  LbufInv'
<1>1. /\ DOMAIN buf' = {"bytes", "ro"} /\ buf'.bytes = b
      /\ Len(buf'.bytes) \in Nat /\ 2 * Len(buf'.bytes) < UWord
  BY DEF LbufInv
<1>2. written'.op = op /\ written'.stray = out /\ written'.before = buf.bytes
  BY DEF Call
<1>3. ReadsTrue' /\ WritesTrue' /\ StraysKnown'
  BY <1>2 DEF ReadsTrue, WritesTrue, StraysKnown
<1> QED BY <1>1, <1>3 DEF LbufInv, LbufContract

\* reverse_bytes runs past the buffer only if it is empty.
LEMMA ReverseKeeps ==
    ASSUME LbufInv, ReverseBytes
    PROVE  LbufInv'
<1>1. PICK len : len = Len(buf.bytes)
  OBVIOUS
<1>2. len \in Nat /\ 2 * len < UWord /\ UWord \in Nat
  BY <1>1, LbufAssumption DEF LbufInv
<1> DEFINE b == [p \in 1..len |-> IF p % 2 = 1 THEN buf.bytes[IF p < len THEN p + 1 ELSE p]
                                  ELSE buf.bytes[p - 1]]
           out == Unsigned(len - 1) > len
<1>3. /\ buf' = [buf EXCEPT !.bytes = b]
      /\ Call("reverse", 0, 1, <<>>, 0, 0, out)
  BY <1>1 DEF ReverseBytes
<1>4. Len(b) = len
  <2>1. b = [p \in 1..len |-> b[p]]
    OBVIOUS
  <2> HIDE DEF b
  <2> QED BY <1>2, <2>1, LengthIs
<1>5. out \in BOOLEAN /\ (out => buf.bytes = <<>>)
  <2>1. len > 0 => Unsigned(len - 1) = len - 1
    BY <1>2, UnsignedIs
  <2>2. out => len = 0
    BY <1>2, <2>1
  <2> QED BY <1>1, <2>2
<1> HIDE DEF b, out
<1>6. "reverse" \in {"reverse", "self"}
  OBVIOUS
<1> QED BY <1>1, <1>3, <1>4, <1>5, <1>6, OtherKeeps

\* A buffer filled with itself keeps its length.
LEMMA SelfKeeps ==
    ASSUME LbufInv, NEW off \in Args, FillSelf(off)
    PROVE  LbufInv'
<1>1. Len(buf.bytes) \in Nat
  BY DEF LbufInv
<1>2. \E part, n : /\ buf' = [buf EXCEPT !.bytes = Written(buf.bytes, off, part)]
                   /\ Call("self", off, 1, buf.bytes, 1, n, FALSE)
  BY DEF FillSelf
<1>3. PICK part, n : /\ buf' = [buf EXCEPT !.bytes = Written(buf.bytes, off, part)]
                     /\ Call("self", off, 1, buf.bytes, 1, n, FALSE)
  BY <1>2
<1>4. PICK b : b = Written(buf.bytes, off, part)
  OBVIOUS
<1>5. Len(b) = Len(buf.bytes)
  <2>1. b = [i \in 1..Len(buf.bytes) |-> b[i]]
    BY <1>4 DEF Written
  <2> QED BY <1>1, <2>1, LengthIs
<1>6. "self" \in {"reverse", "self"}
  OBVIOUS
<1> QED BY <1>3, <1>4, <1>5, <1>6, OtherKeeps

\* How often fill repeats a pattern if it is not told.
LEMMA FillDefaultIs ==
    ASSUME NEW len, NEW n, len \div n \in Nat
    PROVE  FillDefault(len, n) \in Nat
<1>1. PICK q : q = len \div n
  OBVIOUS
<1>2. FillDefault(len, n) = q + 1
  BY <1>1 DEF FillDefault
<1> QED BY <1>1, <1>2

\* Every step keeps the invariant of the buffers.
LEMMA LbufKeeps ==
    ASSUME LbufInv, [LbufNext]_lbufVars
    PROVE  LbufInv'
<1>1. CASE New
  <2>1. PICK s \in Contents, r \in BOOLEAN : buf' = [bytes |-> s, ro |-> r]
    BY <1>1 DEF New
  <2>2. DOMAIN buf' = {"bytes", "ro"} /\ Len(buf'.bytes) \in Nat /\ 2 * Len(buf'.bytes) < UWord
    BY <2>1, LbufAssumption
  <2> QED BY <1>1, <2>2, NewKeeps DEF New
<1>2. CASE LbufGc
  <2>1. DOMAIN buf' = {"bytes", "ro"} /\ buf'.bytes = <<>>
    BY <1>2 DEF LbufGc, LbufInv
  <2>2. Len(buf'.bytes) \in Nat /\ 2 * Len(buf'.bytes) < UWord
    BY <2>1, LbufAssumption
  <2> QED BY <1>2, <2>1, <2>2, NewKeeps DEF LbufGc
<1>3. CASE \E size \in {1, 2, 4}, off \in Args, vals \in Vals : SetVals(size, off, vals)
  BY <1>3, SetKeeps
<1>4. CASE \E off \in Args, count \in Args : off >= 0 /\ count >= 0 /\ Fread(off, count)
  BY <1>4, FreadKeeps
<1>5. CASE ReverseBytes
  BY <1>5, ReverseKeeps
<1>6. ASSUME NEW src \in Contents, NEW off \in Args, NEW count \in Args, count >= 0,
             Fill(src, off, count)
      PROVE  LbufInv'
  <2>1. count \in Nat
    BY <1>6, LbufAssumption
  <2> QED BY <1>6, <2>1, FillKeeps
<1>7. ASSUME NEW src \in Contents, NEW off \in Args, src # <<>>,
             Fill(src, off, FillDefault(Len(buf.bytes), Len(src)))
      PROVE  LbufInv'
  <2>1. Len(src) \in Nat /\ Len(src) > 0 /\ Len(buf.bytes) \in Nat
    <3>1. src \in Seq(Int) /\ Len(buf.bytes) \in Nat
      BY LbufAssumption DEF LbufInv
    <3> QED BY <1>7, <3>1, EmptySeq
  <2>2. Len(buf.bytes) \div Len(src) \in Nat
    BY <2>1, QuotientIs
  <2>3. FillDefault(Len(buf.bytes), Len(src)) \in Nat
    BY <2>1, <2>2, FillDefaultIs
  <2> QED BY <1>7, <2>3, FillKeeps
<1>8. CASE \E off \in Args : FillSelf(off)
  BY <1>8, SelfKeeps
<1>9. CASE UNCHANGED lbufVars
  BY <1>9 DEF LbufInv, LbufContract, ReadsTrue, WritesTrue, StraysKnown, lbufVars
<1> QED BY <1>1, <1>2, <1>3, <1>4, <1>5, <1>6, <1>7, <1>8, <1>9 DEF LbufNext

\* It holds before there is a buffer.
LEMMA LbufStarts ==
    ASSUME LbufInit
    PROVE  LbufInv
<1>1. written.op = "none" /\ written.stray = FALSE
  BY DEF LbufInit, NoWrite
<1>2. DOMAIN buf = {"bytes", "ro"} /\ buf.bytes = <<>>
  BY DEF LbufInit
<1>3. Len(buf.bytes) = 0 /\ UWord \in Nat /\ UWord >= 16
  BY <1>2, LbufAssumption
<1>4. ReadsTrue /\ WritesTrue /\ StraysKnown
  BY <1>1 DEF ReadsTrue, WritesTrue, StraysKnown
<1> QED BY <1>2, <1>3, <1>4 DEF LbufInv, LbufContract

\* Whatever was written to a buffer before, the reads of lbuf.c return what is
\* in it, the writes change what they promise and nothing else, and none leaves
\* the buffer but in the known cases; for every size of an unsigned int and
\* every contents and arguments.
THEOREM LbufKept == LbufSpec => []LbufContract
<1>1. LbufSpec => []LbufInv
  BY LbufStarts, LbufKeeps, PTL DEF LbufSpec
<1>2. LbufInv => LbufContract
  BY DEF LbufInv
<1> QED BY <1>1, <1>2, PTL
=============================================================================
