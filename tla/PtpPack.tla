------------------------------- MODULE PtpPack -------------------------------
(***************************************************************************)
(* ptp-pack.c: data sets as they travel, and as the program holds them.    *)
(* Every field is found by its offset from the start of the data, which    *)
(* moves with the strings and arrays before it; the sizes of the data are  *)
(* not looked at.  The camera's side, which writes a data set field by     *)
(* field in the order of the PTP standard, is external.                    *)
(***************************************************************************)
EXTENDS Integers, SequencesExt

CONSTANTS
    Byte,           \* the number of values of a byte
    Strings, Lists, \* the strings, of characters that are bytes, and the arrays in
                    \* a data set of the camera
    Names,          \* the strings the program sends
    Dates,          \* its dates: strings of the form yyyymmddThhmmss, or not
    Numbers         \* its numbers

VARIABLES
    sent,  \* what one side put into the data set, and its name
    data,  \* the bytes
    room,  \* the bytes the sender allocated
    got    \* what the other side read

vars == <<sent, data, room, got>>

Null == <<-1>>
Undefined == <<-2>>
Beyond == -1

Pow(n) == LET f[i \in 0..n] == IF i = 0 THEN 1 ELSE Byte * f[i - 1] IN f[n]
Short == Pow(2)

-----------------------------------------------------------------------------
(***************************************************************************)
(* Reading.                                                                *)
(***************************************************************************)
\* dtoh8a, dtoh16a, dtoh32a: little endian, from an offset of 0 on.
U8(d, o) == IF o < Len(d) THEN d[o + 1] ELSE Beyond
U16(d, o) == U8(d, o) + (Byte * U8(d, o + 1))
U32(d, o) == U16(d, o) + (Short * U16(d, o + 2))
UInt(d, o, size) == CASE size = 1 -> U8(d, o) [] size = 2 -> U16(d, o) [] size = 4 -> U32(d, o)

AsSigned(v, size) == IF v >= Pow(size) \div 2 THEN v - Pow(size) ELSE v

\* A C string ends at its first 0.
CString(s) ==
    LET ends == {k \in 1..Len(s) : s[k] = 0}
    IN  IF ends = {} THEN s ELSE SubSeq(s, 1, (CHOOSE k \in ends : \A j \in ends : k <= j) - 1)

\* ptp_unpack_string: its length, which counts the end, and the string.  The
\* offset is a uint16_t.
StringAt(d, offset) ==
    LET o == offset % Short
        n == U8(d, o)
    IN  [len |-> n,
         s |-> IF n <= 0 THEN Null
               ELSE CString([k \in 1..(n - 1) |-> U16(d, o + (2 * k) - 1) % Byte])]

\* ptp_unpack_uint32_t_array and ptp_unpack_uint16_t_array
ArrayAt(d, offset, size) ==
    LET o == offset % Short
    IN  [k \in 1..U32(d, o) |-> UInt(d, o + 4 + (size * (k - 1)), size)]

\* totallen after a string and after an array.
AfterString(total, r) == total + (2 * r.len) + 1

\* Mutant of AfterList: the count is taken for a uint16_t.
AfterListShort(total, list) == total + (2 * Len(list)) + 2

AfterList(total, list) == total + (2 * Len(list)) + 4

\* ptp_unpack_DI
UnpackDI(d) ==
    LET desc == StringAt(d, 8)
        t0 == AfterString(0, desc)
        ops == ArrayAt(d, 10 + t0, 2)       t1 == AfterList(t0, ops)
        events == ArrayAt(d, 10 + t1, 2)    t2 == AfterList(t1, events)
        props == ArrayAt(d, 10 + t2, 2)     t3 == AfterList(t2, props)
        captures == ArrayAt(d, 10 + t3, 2)  t4 == AfterList(t3, captures)
        images == ArrayAt(d, 10 + t4, 2)    t5 == AfterList(t4, images)
        maker == StringAt(d, 10 + t5)       t6 == AfterString(t5, maker)
        model == StringAt(d, 10 + t6)       t7 == AfterString(t6, model)
        version == StringAt(d, 10 + t7)     t8 == AfterString(t7, version)
    IN  << U16(d, 0), U32(d, 2), U16(d, 6), desc.s, U16(d, 8 + t0),
           ops, events, props, captures, images,
           maker.s, model.s, version.s, StringAt(d, 10 + t8).s >>

\* ptp_unpack_OH and ptp_unpack_SIDs
UnpackIds(d) == ArrayAt(d, 0, 4)

\* ptp_unpack_SI leaves the two 64 bit sizes out.
UnpackSI(d) ==
    LET desc == StringAt(d, 26)
    IN  << U16(d, 0), U16(d, 2), U16(d, 4), U32(d, 22), desc.s,
           StringAt(d, 26 + (2 * desc.len) + 1).s >>

\* The time in a date of at least 15 characters: digit n is the character
\* n + 1.  A shorter one leaves the field of the caller as it was, which is
\* not initialized.
Digits(s, from, n) ==
    FoldLeftDomain(LAMBDA acc, k : (10 * acc) + (SubSeq(s, from, from + n - 1)[k] - 1), 0,
                   SubSeq(s, from, from + n - 1))

Time(r) ==
    IF r.len <= 15 THEN Undefined
    ELSE << Digits(r.s, 1, 4) - 1900, Digits(r.s, 5, 2) - 1, Digits(r.s, 7, 2),
            Digits(r.s, 10, 2), Digits(r.s, 12, 2), Digits(r.s, 14, 2) >>

\* ptp_unpack_OI: the fields of fixed size, then the name and the two dates.
OIFields == << <<0, 4>>, <<4, 2>>, <<6, 2>>, <<8, 4>>, <<12, 2>>, <<14, 4>>, <<18, 4>>,
               <<22, 4>>, <<26, 4>>, <<30, 4>>, <<34, 4>>, <<38, 4>>, <<42, 2>>,
               <<44, 4>>, <<48, 4>> >>

UnpackOI(d) ==
    LET name == StringAt(d, 52)
        capture == StringAt(d, 52 + (2 * name.len) + 1)
        change == StringAt(d, 52 + (2 * name.len) + (2 * capture.len) + 2)
    IN  [k \in 1..15 |-> UInt(d, OIFields[k][1], OIFields[k][2])]
        \o << name.s, Time(capture), Time(change) >>

\* The data types of properties: bytes and sign; STR, and those without code.
Types == {[size |-> n, signed |-> s] : n \in {1, 2, 4}, s \in BOOLEAN}
Str == [size |-> 0, signed |-> FALSE]
Other == [size |-> 0, signed |-> TRUE]

\* One value at an offset, and the offset after it.
ValueAt(d, o, type) ==
    CASE type \in Types ->
            [v |-> LET u == UInt(d, o, type.size) IN IF type.signed THEN AsSigned(u, type.size) ELSE u,
             next |-> o + type.size]
      [] type = Str -> [v |-> StringAt(d, o).s, next |-> o + (2 * StringAt(d, o).len) + 1]
      [] type = Other -> [v |-> Null, next |-> o]

\* n values from an offset on: the values, and the offset after each.
ValuesAt(d, o, type, n) ==
    LET f[k \in 0..n] == IF k = 0 THEN [v |-> Null, next |-> o]
                         ELSE ValueAt(d, f[k - 1].next, type)
    IN  [k \in 1..n |-> f[k]]

\* ptp_unpack_DPV
UnpackDPV(d, type) == ValueAt(d, 0, type).v

Range3 == 3
NoForm == [flag |-> 0, values |-> <<>>]

\* ptp_unpack_DPD: the default and the current value, then a form: none, a
\* range of three numbers, or an enumeration.
UnpackDPD(d, type) ==
    LET two == ValuesAt(d, 5, type, 2)
        o == two[2].next
        flag == U8(d, o)
        n == IF flag = 1 THEN Range3 ELSE U16(d, o + 1)
        vals == ValuesAt(d, IF flag = 1 THEN o + 1 ELSE o + 3, type, n)
    IN  << U16(d, 0), U8(d, 4), two[1].v, two[2].v,
           IF o = 5 \/ flag \notin {1, 2} \/ (flag = 1 /\ type = Str)
           THEN [flag |-> IF o = 5 THEN 0 ELSE flag, values |-> <<>>]
           ELSE [flag |-> flag, values |-> [k \in 1..n |-> vals[k].v]] >>

-----------------------------------------------------------------------------
(***************************************************************************)
(* Writing.                                                                *)
(***************************************************************************)
\* htod8a, htod16a, htod32a
Bytes(v, size) == [k \in 1..size |-> (v \div Pow(k - 1)) % Byte]

\* A char is signed: one of the upper half is negative, and so is its uint16_t.
Widened(c) == IF c >= Byte \div 2 THEN c - Byte + Short ELSE c

\* ptp_pack_string: the length is the low byte of strlen, and so is that plus one.
PackString(s) ==
    LET n == Len(s) % Byte
    IN  Bytes((n + 1) % Byte, 1) \o FlattenSeq([k \in 1..n |-> Bytes(Widened(s[k]), 2)])

Padded(d, n) == d \o [k \in 1..(n - Len(d)) |-> 0]

\* ptp_pack_OI: memory for the whole name, and a length for what was packed.
OIRoom(name) == 53 + ((Len(name) + 1) * 2) + 4

PackOI(fields, name) ==
    SubSeq(Padded(FlattenSeq([k \in 1..15 |-> Bytes(fields[k], OIFields[k][2])])
                  \o PackString(name), OIRoom(name)),
           1, 53 + (((Len(name) % Byte) + 1) * 2) + 4)

\* ptp_pack_DPV
PackDPV(v, type) ==
    CASE type \in Types -> Bytes(v, type.size)
      [] type = Str -> Padded(PackString(v), (2 * Len(v)) + 3)
      [] type = Other -> <<>>

-----------------------------------------------------------------------------
(***************************************************************************)
(* The camera, from the PTP standard.                                      *)
(***************************************************************************)
EncString(s) ==
    IF s = <<>> THEN <<0>>
    ELSE <<Len(s) + 1>> \o FlattenSeq([k \in 1..Len(s) |-> Bytes(s[k], 2)]) \o <<0, 0>>

EncList(list, size) ==
    Bytes(Len(list), 4) \o FlattenSeq([k \in 1..Len(list) |-> Bytes(list[k], size)])

EncValue(v, type) == IF type = Str THEN EncString(v) ELSE Bytes(v, type.size)

EncValues(vals, type) == FlattenSeq([k \in 1..Len(vals) |-> EncValue(vals[k], type)])

DecString(d, o) ==
    IF d[o + 1] = 0 THEN <<>> ELSE [k \in 1..(d[o + 1] - 1) |-> U16(d, o + (2 * k) - 1)]

\* A number of 64 bits.
Wide == [k \in 1..8 |-> k]

Text(s) == IF s = <<>> THEN Null ELSE s

\* Bound: a history has one data set.
Fresh == sent.set = "none"

\* The camera sends a data set and the program unpacks it.
Receive(name, values, bytes, unpacked) ==
    /\ Fresh
    /\ sent' = [set |-> name, values |-> values]
    /\ data' = bytes
    /\ got' = unpacked
    /\ room' = Len(bytes)

ReceiveDI(s, t, a, b, n) ==
    LET d == Bytes(n, 2) \o Bytes(n + 1, 4) \o Bytes(n, 2) \o EncString(s) \o Bytes(n, 2)
             \o EncList(a, 2) \o EncList(b, 2) \o EncList(b, 2) \o EncList(a, 2)
             \o EncList(b, 2) \o EncString(t) \o EncString(s) \o EncString(s)
             \o EncString(t)
    IN  Receive("DI", << n, n + 1, n, Text(s), n, a, b, b, a, b,
                         Text(t), Text(s), Text(s), Text(t) >>, d, UnpackDI(d))

ReceiveIds(list) == Receive("Ids", list, EncList(list, 4), UnpackIds(EncList(list, 4)))

ReceiveSI(s, t, n) ==
    LET d == Bytes(n, 2) \o Bytes(n + 1, 2) \o Bytes(n, 2) \o Wide \o Wide
             \o Bytes(n + 2, 4) \o EncString(s) \o EncString(t)
    IN  Receive("SI", << n, n + 1, n, n + 2, Text(s), Text(t) >>, d, UnpackSI(d))

\* The time of a date by its digits.
TimeOf(s) ==
    LET N(k) == s[k] - 1 IN
    IF Len(s) # 15 THEN Undefined
    ELSE << (1000 * N(1)) + (100 * N(2)) + (10 * N(3)) + N(4) - 1900,
            (10 * N(5)) + N(6) - 1, (10 * N(7)) + N(8), (10 * N(10)) + N(11),
            (10 * N(12)) + N(13), (10 * N(14)) + N(15) >>

ReceiveOI(s, capture, change, n) ==
    LET fields == [k \in 1..15 |-> n + k]
        d == FlattenSeq([k \in 1..15 |-> Bytes(fields[k], OIFields[k][2])])
             \o EncString(s) \o EncString(capture) \o EncString(change) \o EncString(<<>>)
    IN  Receive("OI", fields \o << Text(s), TimeOf(capture), TimeOf(change) >>, d, UnpackOI(d))

ReceiveDPV(v, type) ==
    Receive("DPV", IF type = Str THEN Text(v) ELSE v,
            EncValue(v, type), UnpackDPV(EncValue(v, type), type))

\* A description with two values v and w and a form.
ReceiveDPD(v, w, type, form, n) ==
    LET Show(x) == IF type = Str THEN Text(x) ELSE x
        d == Bytes(n, 2) \o Bytes(0, 2) \o Bytes(1, 1) \o EncValue(v, type) \o EncValue(w, type)
             \o Bytes(form.flag, 1)
             \o (IF form.flag = 2 THEN Bytes(Len(form.values), 2) ELSE <<>>)
             \o EncValues(form.values, type)
    IN  Receive("DPD", << n, 1, Show(v), Show(w),
                          [form EXCEPT !.values = [k \in 1..Len(@) |-> Show(@[k])]] >>,
                d, UnpackDPD(d, type))

\* A type the code does not unpack: the values and the form are left out.
ReceiveOther(n) ==
    LET d == Bytes(n, 2) \o Bytes(0, 2) \o Bytes(1, 1) \o Wide \o Wide \o <<0>>
    IN  Receive("DPD", << n, 1, Null, Null, NoForm >>, d, UnpackDPD(d, Other))

\* The program sends a data set and the camera unpacks it.
SendOI(s, n) ==
    LET fields == [k \in 1..15 |-> n + k]
    IN  /\ Fresh
        /\ sent' = [set |-> "sendOI", values |-> fields \o <<s>>]
        /\ data' = PackOI(fields, s)
        /\ room' = OIRoom(s)
        /\ got' = [k \in 1..15 |-> UInt(PackOI(fields, s), OIFields[k][1], OIFields[k][2])]
                  \o << DecString(PackOI(fields, s), 52) >>

SendDPV(v, type) ==
    /\ Fresh
    /\ sent' = [set |-> IF type = Str THEN "sendString" ELSE "sendNumber", values |-> v]
    /\ data' = PackDPV(v, type)
    /\ room' = IF type = Str THEN (2 * Len(v)) + 3 ELSE type.size
    /\ got' = IF type = Str THEN DecString(PackDPV(v, type), 0)
              ELSE LET u == UInt(PackDPV(v, type), 0, type.size)
                   IN  IF type.signed THEN AsSigned(u, type.size) ELSE u

Init == sent = [set |-> "none", values |-> <<>>] /\ data = <<>> /\ room = 0 /\ got = <<>>

\* The values a type can have: numbers, and negative ones where it is signed.
ValuesOf(type) == Numbers \cup (IF type.signed THEN {-n : n \in Numbers} ELSE {})

Forms(vals) ==
    {NoForm} \cup {[flag |-> 1, values |-> <<v, w, v>>] : v, w \in vals}
             \cup {[flag |-> 2, values |-> f] : f \in UNION {[1..n -> vals] : n \in 0..2}}

Next ==
    \/ \E s, t \in Strings, n \in Numbers :
          \/ \E a, b \in Lists : ReceiveDI(s, t, a, b, n)
          \/ ReceiveSI(s, t, n)
    \/ \E list \in Lists : ReceiveIds(list)
    \/ \E s \in Strings, c, m \in Dates, n \in Numbers : ReceiveOI(s, c, m, n)
    \/ \E type \in Types : \E v, w \in ValuesOf(type) :
          \/ ReceiveDPV(v, type) \/ SendDPV(v, type)
          \/ \E form \in Forms(ValuesOf(type)), n \in Numbers :
                ReceiveDPD(v, w, type, form, n)
    \/ \E v, w \in Strings :
          \/ ReceiveDPV(v, Str)
          \/ \E form \in {f \in Forms(Strings) : f.flag # 1}, n \in Numbers :
                ReceiveDPD(v, w, Str, form, n)
    \/ \E n \in Numbers : ReceiveOther(n)
    \/ \E s \in Names : SendDPV(s, Str)
    \/ \E s \in Names, n \in Numbers : SendOI(s, n)

Spec == Init /\ [][Next]_vars

-----------------------------------------------------------------------------
(***************************************************************************)
(* Correctness.                                                            *)
(***************************************************************************)
\* A name whose length with its end does not fit a byte.
TooLong == Len(sent.values[16]) + 1 >= Byte

\* The string t the camera gets for s is whole if its length fits the length
\* byte, and the beginning of it otherwise (a known case, ptp-pack.c:113), and
\* the characters of the lower half are those of s (those of the upper half are
\* a known case, ptp-pack.c:117: the camera gets all ones in their high byte).
Arrives(t, s) ==
    /\ IF Len(s) + 1 < Byte THEN Len(t) = Len(s) ELSE Len(t) < Len(s)
    /\ \A k \in 1..Len(t) : s[k] < Byte \div 2 => t[k] = s[k]

\* Whatever strings, arrays and values a data set holds, the side that unpacks
\* it reads every field as the other side wrote it, whichever of them is first
\* in the order of the standard; but for dates that are not there, which the
\* program leaves undefined, and the two cases of Arrives.
RoundTrip ==
    /\ sent.set \notin {"none", "sendOI", "sendString"} => got = sent.values
    /\ sent.set = "sendString" => Arrives(got, sent.values)
    /\ sent.set = "sendOI" =>
          /\ SubSeq(got, 1, 15) = SubSeq(sent.values, 1, 15)
          /\ Arrives(got[16], sent.values[16])

\* What is sent was allocated, and what the camera is given is at least as long
\* as its fields.
RoomTrue ==
    /\ Len(data) <= room
    /\ sent.set = "sendOI" /\ ~TooLong => Len(data) >= 53 + (2 * Len(sent.values[16])) + 5

PackContract == RoundTrip /\ RoomTrue
=============================================================================
