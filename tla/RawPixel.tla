------------------------------ MODULE RawPixel ------------------------------
(***************************************************************************)
(* rawimg.c: how the pixels of a raw image lie in its bytes.  A byte and a *)
(* pixel value are the sets of their bits that are 1.  get_pixel and       *)
(* set_pixel of a format use the same fields: <<i, lo, n, at>> says that   *)
(* the n bits from bit lo of byte i of a block are the bits of the pixel   *)
(* from bit at on.                                                         *)
(***************************************************************************)
EXTENDS Integers, FiniteSetsExt, SequencesExt

\* raw_formats: bits per pixel, byte order and bytes of a block.
Fmt(bpp, big, bytes) ==
    [bpp |-> bpp, big |-> big, bytes |-> bytes, pixels |-> (bytes * 8) \div bpp]

Formats == {Fmt(8, FALSE, 1), Fmt(10, FALSE, 10), Fmt(10, TRUE, 5),
            Fmt(12, FALSE, 6), Fmt(12, TRUE, 3), Fmt(14, FALSE, 14),
            Fmt(14, TRUE, 7), Fmt(16, FALSE, 2), Fmt(16, TRUE, 2)}

\* rawimg_find_format
FindFormat(bpp, big) == {f \in Formats : f.bpp = bpp /\ (bpp = 8 \/ f.big = big)}

-----------------------------------------------------------------------------
Fields8 == << <<<<0, 0, 8, 0>>>> >>

Fields10l ==
    << <<<<1, 0, 8, 2>>, <<0, 6, 2, 0>>>>, <<<<0, 0, 6, 4>>, <<3, 4, 4, 0>>>>,
       <<<<3, 0, 4, 6>>, <<2, 2, 6, 0>>>>, <<<<2, 0, 2, 8>>, <<5, 0, 8, 0>>>>,
       <<<<4, 0, 8, 2>>, <<7, 6, 2, 0>>>>, <<<<7, 0, 6, 4>>, <<6, 4, 4, 0>>>>,
       <<<<6, 0, 4, 6>>, <<9, 2, 6, 0>>>>, <<<<9, 0, 2, 8>>, <<8, 0, 8, 0>>>> >>

Fields10b ==
    << <<<<0, 0, 8, 2>>, <<1, 6, 2, 0>>>>, <<<<1, 0, 6, 4>>, <<2, 4, 4, 0>>>>,
       <<<<2, 0, 4, 6>>, <<3, 2, 6, 0>>>>, <<<<3, 0, 2, 8>>, <<4, 0, 8, 0>>>> >>

Fields12l ==
    << <<<<1, 0, 8, 4>>, <<0, 4, 4, 0>>>>, <<<<0, 0, 4, 8>>, <<3, 0, 8, 0>>>>,
       <<<<2, 0, 8, 4>>, <<5, 4, 4, 0>>>>, <<<<5, 0, 4, 8>>, <<4, 0, 8, 0>>>> >>

Fields12b ==
    << <<<<0, 0, 8, 4>>, <<1, 4, 4, 0>>>>, <<<<1, 0, 4, 8>>, <<2, 0, 8, 0>>>> >>

Fields14l ==
    << <<<<1, 0, 8, 6>>, <<0, 2, 6, 0>>>>,
       <<<<0, 0, 2, 12>>, <<3, 0, 8, 4>>, <<2, 4, 4, 0>>>>,
       <<<<2, 0, 4, 10>>, <<5, 0, 8, 2>>, <<4, 6, 2, 0>>>>,
       <<<<4, 0, 6, 8>>, <<7, 0, 8, 0>>>>,
       <<<<6, 0, 8, 6>>, <<9, 2, 6, 0>>>>,
       <<<<9, 0, 2, 12>>, <<8, 0, 8, 4>>, <<11, 4, 4, 0>>>>,
       <<<<11, 0, 4, 10>>, <<10, 0, 8, 2>>, <<13, 6, 2, 0>>>>,
       <<<<13, 0, 6, 8>>, <<12, 0, 8, 0>>>> >>

Fields14b ==
    << <<<<0, 0, 8, 6>>, <<1, 2, 6, 0>>>>,
       <<<<1, 0, 2, 12>>, <<2, 0, 8, 4>>, <<3, 4, 4, 0>>>>,
       <<<<3, 0, 4, 10>>, <<4, 0, 8, 2>>, <<5, 6, 2, 0>>>>,
       <<<<5, 0, 6, 8>>, <<6, 0, 8, 0>>>> >>

Fields16l == << <<<<1, 0, 8, 8>>, <<0, 0, 8, 0>>>> >>
Fields16b == << <<<<0, 0, 8, 8>>, <<1, 0, 8, 0>>>> >>

Table(fmt) ==
    CASE fmt.bpp = 8               -> Fields8
      [] fmt.bpp = 10 /\ ~fmt.big  -> Fields10l
      [] fmt.bpp = 10 /\ fmt.big   -> Fields10b
      [] fmt.bpp = 12 /\ ~fmt.big  -> Fields12l
      [] fmt.bpp = 12 /\ fmt.big   -> Fields12b
      [] fmt.bpp = 14 /\ ~fmt.big  -> Fields14l
      [] fmt.bpp = 14 /\ fmt.big   -> Fields14b
      [] fmt.bpp = 16 /\ ~fmt.big  -> Fields16l
      [] fmt.bpp = 16 /\ fmt.big   -> Fields16b

GetFields(fmt, x) == Table(fmt)[(x % fmt.pixels) + 1]

\* raw_set_pixel_14b takes x modulo 8 and has cases for 0 to 3 only.
Unset(fmt, x) == fmt.bpp = 14 /\ fmt.big /\ x % 8 > 3

SetFields(fmt, x) == IF Unset(fmt, x) THEN <<>> ELSE GetFields(fmt, x)

-----------------------------------------------------------------------------
Shifted(bits, n) == {b + n : b \in {c \in bits : c + n >= 0}}
Num(bits) == MapThenSumSet(LAMBDA b : 2^b, bits)
BitsOf(n) == {b \in 0..15 : (n \div (2^b)) % 2 = 1}

\* The offset of the block of pixel (x, y).
BlockAt(fmt, row, x, y) == (y * row) + ((x \div fmt.pixels) * fmt.bytes)

ByteOr0(data, p) == IF p \in DOMAIN data THEN data[p] ELSE {}

\* get_pixel and set_pixel; base is the offset of the image in the data.  A
\* value wider than the pixel spills into the bits above its field.
GetPixel(data, base, fmt, row, x, y) ==
    LET a == base + BlockAt(fmt, row, x, y)
        fs == GetFields(fmt, x)
    IN  UNION {Shifted(ByteOr0(data, a + fs[k][1] + 1)
                         \cap (fs[k][2]..(fs[k][2] + fs[k][3] - 1)),
                       fs[k][4] - fs[k][2]) : k \in DOMAIN fs}

SetPixel(data, base, fmt, row, x, y, val) ==
    LET a == base + BlockAt(fmt, row, x, y)
        fs == SetFields(fmt, x)
        InByte(f, byte) == (byte \ (f[2]..(f[2] + f[3] - 1)))
                             \cup (Shifted(val, f[2] - f[4]) \cap (0..7))
    IN  FoldLeft(LAMBDA d, f : IF a + f[1] + 1 \in DOMAIN d
                               THEN [d EXCEPT ![a + f[1] + 1] = InByte(f, @)] ELSE d,
                 data, fs)

\* Whether pixel (x, y) lies outside the data in part.
Outside(data, base, fmt, row, x, y) ==
    \E k \in DOMAIN GetFields(fmt, x) :
        base + BlockAt(fmt, row, x, y) + GetFields(fmt, x)[k][1] >= Len(data)

-----------------------------------------------------------------------------
(***************************************************************************)
(* Correctness.                                                            *)
(***************************************************************************)
\* The layout the formats stand for: a stream of bits, the highest of each
\* pixel first, in which the little-endian formats swap the bytes of each pair.
StreamBit(fmt, x, b) ==
    LET k == (x * fmt.bpp) + (fmt.bpp - 1 - b)
        i == k \div 8
    IN  [byte |-> IF fmt.big \/ fmt.bpp = 8 THEN i
                  ELSE IF i % 2 = 0 THEN i + 1 ELSE i - 1,
         bit  |-> 7 - (k % 8)]

\* Every bit of every pixel lies where the stream has it, so that no two pixels
\* share a bit and a block holds its pixels without gaps.
LayoutTrue ==
    \A fmt \in Formats : \A x \in 0..(fmt.pixels - 1), b \in 0..(fmt.bpp - 1) :
        LET s == StreamBit(fmt, x, b)
            data == [p \in 1..fmt.bytes |-> IF p = s.byte + 1 THEN {s.bit} ELSE {}]
        IN  GetPixel(data, 0, fmt, fmt.bytes, x, 0) = {b}
=============================================================================
