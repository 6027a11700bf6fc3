-------------------------------- MODULE Lbuf --------------------------------
(***************************************************************************)
(* lbuf.c: the byte buffers Lua scripts, images and the live view share.   *)
(* What a method reads is a function of the buffer and its arguments; what *)
(* one writes is an action.  int and unsigned meet in the range checks, so *)
(* a length, an offset and a count are taken modulo UWord where the code    *)
(* compares them as unsigned.  A byte is a number below Byte.              *)
(***************************************************************************)
EXTENDS Integers, SequencesExt

CONSTANTS
    Byte,      \* the number of values of a byte
    UWord,     \* the number of values of an unsigned int
    StackMax,  \* LUAI_MAXCSTACK: what lua_checkstack grants
    Contents,  \* the contents of strings, files and fill patterns
    Args,      \* the offsets, indices and counts of the callers
    Vals,      \* the lists of values they set
    MaxWrites  \* bound on the writes to one buffer

\* The arguments are ints and those of one call fit Lua's stack, no string or
\* file is half as long as an unsigned int can say, and Lua's stack is much
\* smaller than that.
ASSUME LbufAssumption ==
    /\ UWord \in Nat /\ UWord % 2 = 0 /\ UWord >= 16
    /\ StackMax \in Nat /\ 8 * StackMax <= UWord
    /\ \A s \in Contents : s \in Seq(Int) /\ 2 * Len(s) < UWord
    /\ \A i \in Args : i \in Int /\ -UWord <= 2 * i /\ 2 * i < UWord
    /\ \A v \in Vals : v \in Seq(Int) /\ Len(v) <= StackMax
    /\ MaxWrites \in Nat

VARIABLES
    buf,       \* the lbuf: bytes and whether it is read only
    written    \* the last call that writes: what was there, what was asked for
               \* and whether memory outside the buffer was touched (stray)

lbufVars == <<buf, written>>

Unsigned(x) == x % UWord
Signed(x) == IF Unsigned(x) >= UWord \div 2 THEN Unsigned(x) - UWord ELSE Unsigned(x)
Least(a, b) == IF a < b THEN a ELSE b
Returned(s) == [rc |-> "ok", vals |-> s]
Failed == [rc |-> "error", vals |-> <<>>]
Undefined == [rc |-> "undefined", vals |-> <<>>]

-----------------------------------------------------------------------------
(***************************************************************************)
(* Reading.                                                                *)
(***************************************************************************)
\* get_index_arg
IndexArg(len, val) ==
    LET v == IF val < 0 THEN Signed(len + val + 1) ELSE val
    IN  IF v < 0 THEN 0 ELSE v

\* A 1-based index as an offset; string.sub accepts 0.
Start(i) == IF i > 0 THEN i - 1 ELSE i

\* The bytes string, sub and byte take: offsets from..to-1, none if empty.
Span(len, i, j) ==
    LET end == Least(j, len) IN
    IF len = 0 \/ end < i THEN [from |-> 0, to |-> 0]
    ELSE [from |-> Start(i), to |-> end]

Slice(s, i, j) ==
    LET r == Span(Len(s), IndexArg(Len(s), i), IndexArg(Len(s), j))
    IN  SubSeq(s, r.from + 1, r.to)

\* lbuf:byte without a second index takes the one byte at the first.  No byte is
\* one nil, where string.byte returns no value at all.
ByteAt(s, i) ==
    LET v == IndexArg(Len(s), i)
        r == Span(Len(s), v, v)
    IN  SubSeq(s, r.from + 1, r.to)

\* get_vals_int32 ... get_vals_uint8: the number in size bytes, low byte first.
Pow(b, n) == LET f[i \in 0..n] == IF i = 0 THEN 1 ELSE b * f[i - 1] IN f[n]

Value(bytes, signed) ==
    LET n == Len(bytes)
        v == FoldLeftDomain(LAMBDA acc, i : acc + (bytes[i] * Pow(Byte, i - 1)), 0, bytes)
    IN  IF signed /\ v >= Pow(Byte, n) \div 2 THEN v - Pow(Byte, n) ELSE v

\* get_vals: how many values a call may read, and their values.
GetCount(len, size, off, count) ==
    IF count < 0 \/ Unsigned(off + (count * size)) > len
    THEN Signed(Unsigned(len - off) \div size)
    ELSE count

\* A negative number of results is undefined in Lua.
GetVals(s, size, signed, off, count) ==
    LET c == GetCount(Len(s), size, off, count) IN
    IF off < 0 THEN Failed
    ELSE IF off > Unsigned(Len(s) - size) THEN Returned(<<>>)
    ELSE IF c > StackMax THEN Failed
    ELSE IF c < 0 THEN Undefined
    ELSE Returned([k \in 1..c |->
            Value(SubSeq(s, off + ((k - 1) * size) + 1, off + (k * size)), signed)])

-----------------------------------------------------------------------------
(***************************************************************************)
(* Writing.                                                                *)
(***************************************************************************)
\* There is no buffer yet; of a new one nothing was written.
NoWrite == [op |-> "none", before |-> <<>>, off |-> 0, unit |-> 1, src |-> <<>>,
           count |-> 0, ret |-> 0, stray |-> FALSE, n |-> 0]

Call(op, off, unit, src, count, ret, out) ==
    /\ written.op # "none" /\ written.n < MaxWrites
    /\ written' = [op |-> op, before |-> buf.bytes, off |-> off, unit |-> unit, src |-> src,
                count |-> count, ret |-> ret, stray |-> out, n |-> written.n + 1]

NewBuf == written' = [NoWrite EXCEPT !.op = "new"]

\* A conversion to a type of n bytes.
BytesOf(v, n) == [i \in 1..n |-> (v \div Pow(Byte, i - 1)) % Byte]

\* s with the bytes of src from offset off.
Written(s, off, src) ==
    [p \in 1..Len(s) |-> IF p > off /\ p <= off + Len(src) THEN src[p - off] ELSE s[p]]

\* lbuf.new of a string or a length, lbuf:sub as a copy, and the buffer that
\* lbuf_reuse_or_create makes, with what malloc left in it.
New ==
    /\ \E s \in Contents, r \in BOOLEAN : buf' = [bytes |-> s, ro |-> r]
    /\ NewBuf

\* Mutant of SetCount: the values are not cut to the room.
SetCountAll(len, size, off, count) == count

\* set_vals: how many of the values fit.
SetCount(len, size, off, count) ==
    IF Unsigned(count * size) > Unsigned(len - off)
    THEN Unsigned(len - off) \div size ELSE count

SetVals(size, off, vals) ==
    LET len == Len(buf.bytes)
        n   == SetCount(len, size, off, Len(vals)) * size
        src == [p \in 1..(Len(vals) * size) |->
                   BytesOf(vals[((p - 1) \div size) + 1], size)[((p - 1) % size) + 1]]
    IN  /\ off >= 0 /\ ~buf.ro
        /\ off <= Unsigned(len - size)
        /\ buf' = [buf EXCEPT !.bytes = Written(@, off, SubSeq(src, 1, n))]
        /\ Call("set", off, size, src, 1, n, off + n > len)

\* fread: all of it, or what the file had before its end.
Fread(off, count) ==
    /\ off < Len(buf.bytes) /\ count <= Unsigned(Len(buf.bytes) - off)
    /\ \E s \in Contents :
          LET got == SubSeq(s, 1, Least(count, Len(s))) IN
          /\ buf' = [buf EXCEPT !.bytes = Written(@, off, got)]
          /\ Call("fread", off, 1, got, 1, Len(got), off + count > Len(buf.bytes))

ReverseBytes ==
    LET len == Len(buf.bytes) IN
    /\ buf' = [buf EXCEPT !.bytes =
            [p \in 1..len |-> IF p % 2 = 1 THEN @[IF p < len THEN p + 1 ELSE p]
                              ELSE @[p - 1]]]
    /\ Call("reverse", 0, 1, <<>>, 0, 0, Unsigned(len - 1) > len)

\* fill: the bytes written for a pattern of n bytes, and the pattern repeated.
FillBytes(len, off, n, count) == Least(len - off, Unsigned(count * n))

Repeated(src, n) == [k \in 1..n |-> src[((k - 1) % Len(src)) + 1]]

Fill(src, off, count) ==
    LET n == FillBytes(Len(buf.bytes), off, Len(src), count)
    IN  /\ src # <<>> /\ off >= 0 /\ off < Len(buf.bytes)
        /\ buf' = [buf EXCEPT !.bytes = Written(@, off, Repeated(src, n))]
        /\ Call("fill", off, 1, src, count, n, FALSE)

FillDefault(len, n) == (len \div n) + 1

\* A buffer filled with itself: memcpy between ranges that overlap copies what
\* was there, or what it has just written.
FillSelf(off) ==
    LET src == buf.bytes
        n   == Len(src) - off
    IN  /\ src # <<>> /\ off >= 0 /\ off < Len(src)
        /\ \E unit \in {n, IF off = 0 THEN n ELSE Least(off, n)} :
              buf' = [buf EXCEPT !.bytes = Written(src, off, Repeated(SubSeq(src, 1, unit), n))]
        /\ Call("self", off, 1, src, 1, n, FALSE)

\* lbuf_gc: whoever still holds the buffer sees it as empty.
LbufGc ==
    /\ written.op # "none"
    /\ buf' = [buf EXCEPT !.bytes = <<>>]
    /\ NewBuf

LbufInit == buf = [bytes |-> <<>>, ro |-> FALSE] /\ written = NoWrite

LbufNext ==
    \/ New
    \/ \E size \in {1, 2, 4}, off \in Args, vals \in Vals : SetVals(size, off, vals)
    \/ \E off \in Args, count \in Args : off >= 0 /\ count >= 0 /\ Fread(off, count)
    \/ ReverseBytes
    \/ \E src \in Contents, off \in Args :
          \/ \E count \in Args : count >= 0 /\ Fill(src, off, count)
          \/ src # <<>> /\ Fill(src, off, FillDefault(Len(buf.bytes), Len(src)))
    \/ \E off \in Args : FillSelf(off)
    \/ LbufGc

LbufSpec == LbufInit /\ [][LbufNext]_lbufVars

-----------------------------------------------------------------------------
(***************************************************************************)
(* Correctness.                                                            *)
(***************************************************************************)
\* s:sub(i, j) of a Lua string, from the Lua manual.
LuaSub(s, i, j) ==
    LET len  == Len(s)
        from == IF i > 0 THEN i ELSE IF i = 0 \/ i < -len THEN 1 ELSE len + i + 1
        to   == IF j >= 0 THEN Least(j, len) ELSE len + j + 1
    IN  SubSeq(s, from, to)

\* The whole values of the given size from an offset on, at most count.
Fit(s, size, off) == IF off > Len(s) THEN 0 ELSE (Len(s) - off) \div size

Elements(s, size, signed, off, count) ==
    [k \in 1..(IF count < 0 THEN Fit(s, size, off) ELSE Least(count, Fit(s, size, off))) |->
        Value([b \in 1..size |-> s[off + ((k - 1) * size) + b]], signed)]

\* Where an offset past the end of a buffer that is shorter than one value
\* passes the range check.
ShortPast(len, size, off) == len < size /\ off > len

\* On a buffer of any contents, string, sub and byte return what string.sub and
\* string.byte do, and get_* the whole values in the buffer, for every index,
\* offset and count; more values than Lua's stack takes are an error, and a count
\* whose product wraps never a read past the end.  Known cases: byte returns nil
\* for no byte, and get_* at an offset past a buffer that is shorter than one value
\* fails or returns a negative count, where lbuf.c:239 says "nothing is returned".
SubTrue(s, i, j) ==
    /\ Slice(s, i, j) = LuaSub(s, i, j)
    /\ ByteAt(s, i) = LuaSub(s, i, i)

GetTrue(s, size, signed, off, count) ==
    off >= 0 /\ ~ShortPast(Len(s), size, off) =>
        \/ GetVals(s, size, signed, off, count) = Returned(Elements(s, size, signed, off, count))
        \/ /\ (IF count < 0 THEN Fit(s, size, off) ELSE count) > StackMax
           /\ GetVals(s, size, signed, off, count) = Failed

ReadsTrue ==
    written.op = "new" => \A i, j \in Args :
        /\ SubTrue(buf.bytes, i, j)
        /\ \A size \in {1, 2, 4}, signed \in BOOLEAN : GetTrue(buf.bytes, size, signed, i, j)

\* set_*, fill and fread change the bytes they promise, in whole values and
\* cut at the end of the buffer, and no other byte of it.
WritesTrue ==
    LET s    == written.before
        room == IF written.off > Len(s) THEN 0 ELSE Len(s) - written.off
        n    == (Least(written.count * Len(written.src), room) \div written.unit) * written.unit
    IN  written.op \in {"set", "fill", "fread"} /\ written.count * Len(written.src) < UWord
        /\ ~written.stray =>
            /\ written.ret = n
            /\ buf.bytes = [p \in 1..Len(s) |->
                    IF p > written.off /\ p <= written.off + n
                    THEN written.src[((p - written.off - 1) % Len(written.src)) + 1] ELSE s[p]]

\* No call leaves the buffer, but for two that the range checks let through:
\* set_* past the end of a buffer shorter than one value, and reverse_bytes of
\* an empty one.
StraysKnown ==
    written.stray =>
        \/ written.op = "set" /\ ShortPast(Len(written.before), written.unit, written.off)
        \/ written.op = "reverse" /\ written.before = <<>>

LbufContract == ReadsTrue /\ WritesTrue /\ StraysKnown
=============================================================================
