------------------------------- MODULE LiveImg -------------------------------
(***************************************************************************)
(* liveimg.c: what the live view makes of a frame the camera sent.  A byte *)
(* of the frame is known by its offset, so that a channel of a pixel is    *)
(* <<channel, Y, U, V>>: the offsets it was computed from.  Lua's image    *)
(* (pimg) is planar with the bottom row first, a table is packed with the  *)
(* top row first.                                                          *)
(***************************************************************************)
EXTENDS Integers, SequencesExt, FiniteSetsExt

CONSTANT Frames  \* the frames the camera sends

VARIABLES
    frame,  \* the live data: length, protocol, palette and framebuffers
    im,     \* the pimg a script keeps from call to call
    last    \* the last call and what it returned

vars == <<frame, im, last>>

\* lv_framebuffer_desc takes 36 bytes.
DescSize == 36
MyMinor == 2

NoImg == [w |-> 0, h |-> 0, size |-> 0, depth |-> 0, data |-> <<>>]

NoCall == [op |-> "none", rc |-> "ok", skip |-> FALSE, full |-> FALSE, channels |-> 0,
           out |-> <<>>, w |-> 0, h |-> 0, stray |-> FALSE, null |-> FALSE, reused |-> FALSE]

-----------------------------------------------------------------------------
(***************************************************************************)
(* Colours.                                                                *)
(***************************************************************************)
Clip(v) == IF v < 0 THEN 0 ELSE IF v > 255 THEN 255 ELSE v
ClampInt8(v) == IF v > 127 THEN 127 ELSE IF v < -128 THEN -128 ELSE v

\* Mutant of YuvToG: the sign of U.
YuvToGPlus(y, u, v) == Clip(((y * 4096) + (u * 1411) - (v * 2925) + 2048) \div 4096)

YuvToR(y, v) == Clip(((y * 4096) + (v * 5743) + 2048) \div 4096)
YuvToG(y, u, v) == Clip(((y * 4096) - (u * 1411) - (v * 2925) + 2048) \div 4096)
YuvToB(y, u) == Clip(((y * 4096) + (u * 7258) + 2048) \div 4096)
Rgba(y, u, v, a) == <<YuvToR(y, v), YuvToG(y, u, v), YuvToB(y, u), a>>

Transparent == <<0, 0, 0, 0>>
Alpha2(a) == <<128, 171, 214, 255>>[(a % 4) + 1]

\* palette_funcs: types 0 to 5, and the size of the palette of a type.
NumEntries == <<0, 16, 16, 256, 16, 256>>
PaletteSize(type) == IF type < Len(NumEntries) THEN NumEntries[type + 1] * 4 ELSE 0

\* The entries a pixel selects.
Entries(type, pixel) ==
    IF type \in {3, 5} THEN {pixel} ELSE {pixel % 16, (pixel \div 16) % 16}

\* palette_type1_to_rgba ... palette_type5_to_rgba, of a palette whose entries
\* are records of a, y, u and v.
PaletteRgba(type, pal, pixel) ==
    LET one == pal[pixel % 16]
        two == pal[(pixel \div 16) % 16]
        y   == Clip(one.y + two.y)
        a   == (one.a + two.a) \div 2
        Sum(s, t) == ClampInt8(s + t)
        Mixed(alpha) == Rgba(y, Sum(one.u, two.u), Sum(one.v, two.v), alpha)
        Plain(alpha) == Rgba(pal[pixel].y, pal[pixel].u, pal[pixel].v, Alpha2(alpha))
    IN  CASE type = 1 -> IF pixel % 16 = 0 THEN Rgba(y, 0, 0, a) ELSE Mixed(a)
          [] type = 2 -> Mixed(Alpha2(a))
          [] type = 3 -> IF pixel = 0 THEN Transparent ELSE Plain(pal[pixel].a)
          [] type = 4 -> IF pixel = 0 THEN Transparent ELSE Mixed(Alpha2(a))
          [] type = 5 -> IF pixel = 0 THEN Transparent ELSE Plain(pal[pixel].a \div 16)

\* convert_palette: the default palette stands in where the frame has none or
\* its type is not known; type 0 with data has no function to call.
PaletteUsed(f) == IF f.pal.type >= Len(NumEntries) \/ f.pal.start = 0 THEN 1 ELSE f.pal.type

-----------------------------------------------------------------------------
(***************************************************************************)
(* Framebuffers.  A group is x pixels in p bytes; the pixels taken from it *)
(* are at the offsets of Taken, U at 0 and V at 2.                         *)
(***************************************************************************)
Bpp(type) == CASE type = "YUV8" -> 12 [] type \in {"YUV8B", "YUV8C"} -> 16
               [] OTHER -> 8

Group(type, skip) ==
    CASE type = "YUV8" -> [x |-> 4, p |-> 6]
      [] type \in {"YUV8B", "YUV8C"} -> [x |-> 2, p |-> 4]
      [] type = "OPACITY8" -> [x |-> 2, p |-> 2]
      [] type = "PAL8" -> IF skip THEN [x |-> 2, p |-> 2] ELSE [x |-> 1, p |-> 1]

Taken(type, skip) ==
    CASE type = "YUV8" -> IF skip THEN <<1, 3>> ELSE <<1, 3, 4, 5>>
      [] type \in {"YUV8B", "YUV8C"} -> IF skip THEN <<1>> ELSE <<1, 3>>
      [] type = "OPACITY8" -> IF skip THEN <<0>> ELSE <<0, 1>>
      [] type = "PAL8" -> <<0>>

RowInc(d) == (d.bw * Bpp(d.type)) \div 8
Groups(d, width, skip) == (width + Group(d.type, skip).x - 1) \div Group(d.type, skip).x
PerRow(d, width, skip) == Groups(d, width, skip) * Len(Taken(d.type, skip))
Total(d, width, skip) == PerRow(d, width, skip) * d.vh

\* Mutant of RowOf: the planar image is not flipped.
RowOfTop(d, flip, i) == i

\* The row of the buffer that becomes row i of the output.
RowOf(d, flip, i) == IF flip THEN d.vh - 1 - i ELSE i

\* The group and the element that the n-th pixel of the output comes from.
GroupAt(d, width, skip, flip, n) ==
    LET per == PerRow(d, width, skip)
    IN  d.start + (RowOf(d, flip, n \div per) * RowInc(d))
        + (((n % per) \div Len(Taken(d.type, skip))) * Group(d.type, skip).p)

ElemAt(d, width, skip, flip, n) ==
    LET t == Taken(d.type, skip)
    IN  GroupAt(d, width, skip, flip, n) + t[((n % PerRow(d, width, skip)) % Len(t)) + 1]

ReadEnd(d, width, skip) ==
    IF Total(d, width, skip) = 0 THEN 0
    ELSE Max({ElemAt(d, width, skip, FALSE, n) + 1 : n \in 0..(Total(d, width, skip) - 1)})

Yuv(c, y, base) == <<c, y, IF c = 1 THEN 0 ELSE base, IF c = 3 THEN 0 ELSE base + 2>>
PalColour(c, at) == <<c + 4, at, 0, 0>>
WordAlpha(base) == <<4, base, 0, 0>>
Opacity(at) == <<9, at, 0, 0>>
Opaque == <<10, 0, 0, 0>>

\* Channel c of the n-th pixel; o is the opacity buffer or has no data.
Chan(d, o, skip, flip, c, n) ==
    LET base == GroupAt(d, d.vw, skip, flip, n)
        elem == ElemAt(d, d.vw, skip, flip, n)
    IN  CASE d.type = "PAL8" -> PalColour(c, elem)
          [] d.type # "PAL8" /\ c < 4 -> Yuv(c, elem, base)
          [] d.type # "PAL8" /\ c = 4 /\ o.start # 0 -> Opacity(ElemAt(o, o.vw, skip, flip, n))
          [] d.type # "PAL8" /\ c = 4 /\ o.start = 0 -> WordAlpha(base)

-----------------------------------------------------------------------------
(***************************************************************************)
(* Checks.                                                                 *)
(***************************************************************************)
\* lv_proto_compatible
Compatible(f, major, minor) == f.major = major /\ ~(minor < f.minor)

\* get_fb_bpp counts 1 for the types it does not list.
CheckBpp(type) == IF type \in {"PAL8", "OPACITY8"} THEN 1 ELSE Bpp(type)

\* get_fb_desc and check_fb_desc
DescOk(f, d) ==
    /\ d.at > 0 /\ d.at + DescSize <= f.len
    /\ d.start # 0 => d.start + ((d.bw * d.vh * CheckBpp(d.type)) \div 8) <= f.len
    /\ d.vw <= d.bw

VpOk(f) ==
    /\ DescOk(f, f.vp)
    /\ f.vp.type = "YUV8" \/ (f.vp.type \in {"YUV8B", "YUV8C"} /\ Compatible(f, 2, MyMinor))

BmOk(f) ==
    /\ DescOk(f, f.bm)
    /\ f.bm.type = "PAL8" \/ (f.bm.type = "YUV8B" /\ Compatible(f, 2, MyMinor))

BmoOk(f) ==
    Compatible(f, 2, MyMinor) /\ DescOk(f, f.bmo) /\ f.bmo.type = "OPACITY8"

Width(d, skip) == IF skip THEN d.vw \div 2 ELSE d.vw
Size(d, skip) == Width(d, skip) * d.vh

\* What comes before a bitmap is converted.
OverlayOk(f) ==
    IF f.bm.type = "YUV8B"
    THEN BmoOk(f) /\ f.bm.vw = f.bmo.vw /\ f.bm.vh = f.bmo.vh
    ELSE PaletteSize(f.pal.type) + f.pal.start <= f.len

NoOpacity == [start |-> 0]
OpacityOf(f) == IF f.bm.type = "YUV8B" /\ f.bmo.start # 0 THEN f.bmo ELSE NoOpacity
NoPalette(f) == f.bm.type = "PAL8" /\ PaletteUsed(f) = 0

-----------------------------------------------------------------------------
\* The planes after all pixels were written to each of them: what runs over the
\* end of one plane lies in the next.
Planes(d, o, skip, size, depth) ==
    [q \in 1..(size * depth) |->
        LET c == ((q - 1) \div size) + 1
            n == (q - 1) % size
            over == {k \in 1..(c - 1) : n + (k * size) < Total(d, d.vw, skip)}
            k == IF over = {} \/ (c = 4 /\ o.start # 0) THEN 0 ELSE Max(over)
        IN  Chan(d, o, skip, TRUE, c - k, n + (k * size))]

\* What a call returns without an image.
Returns(op, rc, skip) ==
    /\ last' = [NoCall EXCEPT !.op = op, !.rc = rc, !.skip = skip]
    /\ UNCHANGED <<frame, im>>

Alive == ~last.null

Frame ==
    /\ Alive
    /\ frame' \in Frames
    /\ last' = NoCall
    /\ UNCHANGED im

\* The image a conversion writes to: the one given, if its size fits.
Fits(d, skip) == im.data # <<>> /\ im.w * im.h = Size(d, skip)

\* liveimg_get_viewport_pimg
GetViewportPimg(skip) ==
    LET d == frame.vp
        size == Size(d, skip)
        depth == IF Fits(d, skip) THEN im.depth ELSE 3
        new == Planes(d, NoOpacity, skip, size, 3)
    IN  /\ Alive
        /\ \/ /\ ~VpOk(frame) /\ Returns("viewport", "error", skip)
           \/ /\ VpOk(frame) /\ (d.start = 0 \/ size = 0)
              /\ Returns("viewport", "nil", skip)
           \/ /\ VpOk(frame) /\ d.start # 0 /\ size # 0
              /\ im' = [w |-> Width(d, skip), h |-> d.vh, size |-> size, depth |-> depth,
                        data |-> new \o SubSeq(im.data, (3 * size) + 1, depth * size)]
              /\ last' = [NoCall EXCEPT !.op = "viewport", !.skip = skip,
                            !.reused = Fits(d, skip),
                            !.stray = Total(d, d.vw, skip) > size]
              /\ UNCHANGED frame

\* The shape of the image: one that is reused keeps its own.
Shape(d, skip) ==
    IF Fits(d, skip) THEN <<im.w, im.h>> ELSE <<Width(d, skip), d.vh>>

\* liveimg_get_bitmap_pimg.  An image the viewport made has no alpha plane.
GetBitmapPimg(skip) ==
    LET d == frame.bm
        o == OpacityOf(frame)
        size == Size(d, skip)
        null == NoPalette(frame) \/ (Fits(d, skip) /\ im.depth = 3)
        new == Planes(d, o, skip, size, 4)
    IN  /\ Alive
        /\ \/ /\ ~BmOk(frame) /\ Returns("bitmap", "error", skip)
           \/ /\ BmOk(frame) /\ (d.start = 0 \/ size = 0)
              /\ Returns("bitmap", "nil", skip)
           \/ /\ BmOk(frame) /\ d.start # 0 /\ size # 0 /\ ~OverlayOk(frame)
              /\ Returns("bitmap", "error", skip)
           \/ /\ BmOk(frame) /\ d.start # 0 /\ size # 0 /\ OverlayOk(frame)
              /\ im' = IF null THEN im
                       ELSE [w |-> Shape(d, skip)[1], h |-> Shape(d, skip)[2],
                             size |-> size, depth |-> 4, data |-> new]
              /\ last' = [NoCall EXCEPT !.op = "bitmap", !.skip = skip, !.null = null,
                            !.reused = Fits(d, skip),
                            !.stray = Total(d, d.vw, skip) > size]
              /\ UNCHANGED frame

\* liveimg_get_viewport_table_rgba and liveimg_get_bitmap_table_rgba: the size
\* of what malloc gave is that of the string they make.
Table(op, d, o, skip) ==
    /\ last' = [NoCall EXCEPT !.op = op, !.skip = skip, !.w = Width(d, skip), !.h = d.vh,
                  !.null = op = "bitmap_table" /\ NoPalette(frame),
                  !.stray = Total(d, d.vw, skip) > Size(d, skip),
                  !.out = [q \in 1..(Size(d, skip) * 4) |->
                      LET c == ((q - 1) % 4) + 1 IN
                      IF c = 4 /\ op = "viewport_table" THEN Opaque
                      ELSE Chan(d, o, skip, FALSE, c, (q - 1) \div 4)]]
    /\ UNCHANGED <<frame, im>>

ViewportTable(skip) ==
    LET d == frame.vp
        op == "viewport_table"
        empty == d.start = 0 \/ Size(d, skip) = 0
    IN  /\ Alive
        /\ \/ ~VpOk(frame) /\ Returns(op, "error", skip)
           \/ VpOk(frame) /\ empty /\ Returns(op, "nil", skip)
           \/ VpOk(frame) /\ ~empty /\ Table(op, d, NoOpacity, skip)

BitmapTable(skip) ==
    LET d == frame.bm
        op == "bitmap_table"
        empty == d.start = 0 \/ Size(d, skip) = 0
    IN  /\ Alive
        /\ \/ ~BmOk(frame) /\ Returns(op, "error", skip)
           \/ BmOk(frame) /\ empty /\ Returns(op, "nil", skip)
           \/ BmOk(frame) /\ ~empty /\ ~OverlayOk(frame) /\ Returns(op, "error", skip)
           \/ BmOk(frame) /\ ~empty /\ OverlayOk(frame) /\ Table(op, d, OpacityOf(frame), skip)

\* get_split_yuv.  The size of the U and V buffers is that of the Y buffer
\* divided, which is zero when Y was not asked for.
SplitYuv(channels, full) ==
    LET d == frame.vp
        width == IF full THEN d.bw ELSE d.vw
        ySize == IF channels = 2 THEN 0 ELSE width * d.vh
        uvSize == IF channels = 1 THEN 0
                  ELSE ySize \div (IF d.type = "YUV8" THEN 4 ELSE 2)
        total == Total(d, width, FALSE)
        groups == Groups(d, width, FALSE) * d.vh
        t == Len(Taken(d.type, FALSE))
        Y(n) == ElemAt(d, width, FALSE, FALSE, n)
        G(n) == GroupAt(d, width, FALSE, FALSE, n * t)
    IN  /\ Alive
        /\ \/ /\ ~VpOk(frame) \/ d.type = "YUV8C"
              /\ Returns("split", "error", FALSE)
           \/ /\ VpOk(frame) /\ d.type # "YUV8C"
              /\ last' = [NoCall EXCEPT !.op = "split", !.full = full, !.channels = channels,
                    !.out = << [n \in 1..ySize |-> Y(n - 1)],
                               [n \in 1..uvSize |-> G(n - 1)],
                               [n \in 1..uvSize |-> G(n - 1) + 2] >>,
                    !.stray = \/ channels # 2 /\ total > ySize
                              \/ channels # 1 /\ groups > uvSize]
              /\ UNCHANGED <<frame, im>>

\* pimg_to_packed: top row first, opaque without an alpha plane, and empty of
\* an image that is dead.
Packed(m, depth) ==
    [q \in 1..(m.w * m.h * depth) |->
        LET c == ((q - 1) % depth) + 1
            k == (q - 1) \div depth
            n == ((m.h - 1 - (k \div m.w)) * m.w) + (k % m.w)
        IN  IF c > m.depth THEN Opaque ELSE m.data[((c - 1) * m.size) + n + 1]]

\* pimg:kill and the collector.
Destroy ==
    /\ Alive /\ im' = NoImg
    /\ last' = NoCall
    /\ UNCHANGED frame

Init == frame \in Frames /\ im = NoImg /\ last = NoCall

Next ==
    \/ Frame
    \/ \E skip \in BOOLEAN :
          \/ GetViewportPimg(skip) \/ GetBitmapPimg(skip)
          \/ ViewportTable(skip) \/ BitmapTable(skip)
    \/ \E channels \in 1..3, full \in BOOLEAN : SplitYuv(channels, full)
    \/ Destroy

Spec == Init /\ [][Next]_vars

-----------------------------------------------------------------------------
(***************************************************************************)
(* Correctness.                                                            *)
(***************************************************************************)
\* live_view.h: the Y elements of a row, and the U and V they share.
Unit(type) == CASE type = "YUV8" -> 4 [] type \in {"YUV8B", "YUV8C", "OPACITY8"} -> 2
                [] type = "PAL8" -> 1

Element(d, x, y) ==
    d.start + (y * ((d.bw * Bpp(d.type)) \div 8)) +
    CASE d.type = "YUV8" -> (6 * (x \div 4)) + <<1, 3, 4, 5>>[(x % 4) + 1]
      [] d.type \in {"YUV8B", "YUV8C"} -> (2 * x) + 1
      [] d.type \in {"PAL8", "OPACITY8"} -> x

Chroma(d, x, y) ==
    d.start + (y * ((d.bw * Bpp(d.type)) \div 8))
    + ((x \div Unit(d.type)) * (IF d.type = "YUV8" THEN 6 ELSE 4))

\* The pixels of the buffer that may show as pixel x of an image: with skip, one
\* of two, which YUV8 takes from the same group.
Sources(d, skip, x) ==
    IF ~skip THEN {x}
    ELSE IF d.type = "YUV8" THEN {i \in 0..(d.vw - 1) : i \div 4 = (2 * x) \div 4} ELSE {2 * x}

Expected(d, o, skip, c, x, y) ==
    {IF d.type = "PAL8" THEN PalColour(c, Element(d, i, y))
     ELSE IF c < 4 THEN Yuv(c, Element(d, i, y), Chroma(d, i, y))
     ELSE IF o.start # 0 THEN Opacity(Element(o, i, y))
     ELSE WordAlpha(Chroma(d, i, y)) : i \in Sources(d, skip, x)}

Aligned(d, width, skip) ==
    width % (IF d.type = "PAL8" /\ skip THEN 2 ELSE Unit(d.type)) = 0

\* A packed image of depth channels shows the buffer.
ShowsBuffer(packed, depth, channels, d, o, skip) ==
    \A x \in 0..(Width(d, skip) - 1), y \in 0..(d.vh - 1), c \in channels :
        packed[(depth * ((y * Width(d, skip)) + x)) + c] \in Expected(d, o, skip, c, x, y)

\* An image, once packed, shows the frame the right way up: every pixel has the
\* colour of its own place in the buffer, the viewport and the bitmap, on an
\* image that was reused as on a new one; but for a bitmap on a reused image of
\* another shape.
ImageTrue ==
    LET d == IF last.op = "viewport" THEN frame.vp ELSE frame.bm
        o == OpacityOf(frame)
    IN  last.rc = "ok" /\ ~last.null =>
        /\ last.op = "viewport" /\ Aligned(d, d.vw, last.skip) =>
              /\ <<im.w, im.h>> = <<Width(d, last.skip), d.vh>>
              /\ ShowsBuffer(Packed(im, 3), 3, 1..3, d, NoOpacity, last.skip)
        /\ last.op = "bitmap" /\ Aligned(d, d.vw, last.skip) =>
              \/ last.reused /\ im.h # d.vh
              \/ /\ <<im.w, im.h>> = <<Width(d, last.skip), d.vh>>
                 /\ ShowsBuffer(Packed(im, 4), 4, 1..4, d, o, last.skip)

\* The tables show the same pixels as the images, and the split planes are the
\* Y, U and V of the buffer in order.
TableTrue ==
    LET d == IF last.op = "bitmap_table" THEN frame.bm ELSE frame.vp
        o == IF last.op = "bitmap_table" THEN OpacityOf(frame) ELSE NoOpacity
        width == IF last.full THEN d.bw ELSE d.vw
    IN  last.rc = "ok" /\ ~last.null =>
        /\ last.op \in {"viewport_table", "bitmap_table"} /\ Aligned(d, d.vw, last.skip) =>
              ShowsBuffer(last.out, 4, IF last.op = "bitmap_table" THEN 1..4 ELSE 1..3,
                          d, o, last.skip)
        /\ last.op = "split" /\ last.channels = 3 /\ Aligned(d, width, FALSE) =>
              \A x \in 0..(width - 1), y \in 0..(d.vh - 1) :
                  LET n == (y * width) + x
                      k == (n \div Unit(d.type)) + 1
                  IN  /\ last.out[1][n + 1] = Element(d, x, y)
                      /\ last.out[2][k] = Chroma(d, x, y)
                      /\ last.out[3][k] = Chroma(d, x, y) + 2

\* No conversion writes past what it allocated or reads past the frame, nor goes
\* through a null pointer.  Known cases: widths that are not whole groups; U and
\* V without Y; types of which the length check counts one bit a pixel; the
\* split of a viewport without data, which is read from the start of the frame
\* and whose length check_fb_desc does not check; and, for the pointer, a
\* palette of type 0 with data and an image without alpha.
InsideTrue ==
    LET op == last.op
        d == IF op \in {"bitmap", "bitmap_table"} THEN frame.bm ELSE frame.vp
        width == IF last.full THEN d.bw ELSE d.vw
    IN  op # "none" /\ last.rc = "ok" =>
        /\ last.stray =>
              \/ ~Aligned(d, width, last.skip)
              \/ op = "split" /\ last.channels = 2
        /\ ReadEnd(d, width, last.skip) > frame.len =>
              \/ ~Aligned(d, width, FALSE) \/ d.type = "PAL8"
              \/ op = "split" /\ d.start = 0
        /\ last.null => NoPalette(frame) \/ (op = "bitmap" /\ im.depth = 3)

\* A frame that has all its data and speaks the program's protocol is shown.
ShownTrue ==
    LET Whole(d) == /\ d.at > 0 /\ d.at + DescSize <= frame.len /\ d.vw <= d.bw
                    /\ d.start + (RowInc(d) * d.vh) <= frame.len
        spoken == frame.major = 2 /\ frame.minor = MyMinor
    IN  /\ last.op = "viewport" /\ last.rc = "error" =>
              ~spoken \/ ~Whole(frame.vp) \/ frame.vp.type \notin {"YUV8", "YUV8B", "YUV8C"}
        /\ last.op = "bitmap" /\ last.rc = "error" =>
              \/ ~spoken \/ ~Whole(frame.bm)
              \/ frame.bm.type \notin {"PAL8", "YUV8B"}
              \/ IF frame.bm.type = "PAL8" THEN frame.pal.start + 1024 > frame.len
                 ELSE ~Whole(frame.bmo) \/ frame.bmo.vw # frame.bm.vw
                      \/ frame.bmo.vh # frame.bm.vh

\* The colours are those of the full range BT.601 conversion to half a step and
\* a rounding error of its factors, within 0..255.
ColoursTrue ==
    \A y \in {0, 16, 128, 255}, u, v \in {-128, -3, 0, 90, 127} :
        LET Near(c, thousandths) ==
                LET t == IF thousandths < 0 THEN 0
                         ELSE IF thousandths > 255000 THEN 255000 ELSE thousandths
                IN  1000 * c - t \in -600..600
        IN  /\ Near(YuvToR(y, v), (1000 * y) + (1402 * v))
            /\ Near(YuvToG(y, u, v), (1000 * y) - (344 * u) - (714 * v))
            /\ Near(YuvToB(y, u), (1000 * y) + (1772 * u))

\* Every pixel finds its entries in the palette whose size was checked, and has
\* an opaque, a transparent or a half transparent colour.
PaletteTrue ==
    \A type \in 1..5, pixel \in {0, 1, 15, 16, 17, 239, 240, 255} :
        LET pal == [i \in 0..((PaletteSize(type) \div 4) - 1) |->
                        [a |-> IF i % 2 = 0 THEN 255 ELSE 127, y |-> (i * 37) % 256,
                         u |-> ((i * 91) % 256) - 128, v |-> ((i * 53) % 256) - 128]]
        IN  /\ Entries(type, pixel) \subseteq DOMAIN pal
            /\ \A c \in 1..4 : PaletteRgba(type, pal, pixel)[c] \in 0..255
            /\ pixel = 0 /\ type \in {3, 4, 5} => PaletteRgba(type, pal, pixel)[4] = 0

LiveContract ==
    /\ Init => ColoursTrue /\ PaletteTrue
    /\ ImageTrue /\ TableTrue /\ InsideTrue /\ ShownTrue

\* "pimg to re-use, created if nil, replaced if size doesn't match": the image
\* a bitmap is drawn to has the size of the bitmap.
BitmapShape ==
    last.op = "bitmap" /\ last.rc = "ok" /\ ~last.null =>
        <<im.w, im.h>> = <<Width(frame.bm, last.skip), frame.bm.vh>>

\* live_view.h increases the major version "only with backwards incompatible
\* changes": a frame of a later minor version is shown as one of this version.
MinorCompatible ==
    last.op = "viewport" /\ last.rc = "error" => frame.minor <= MyMinor
=============================================================================
