------------------------------ MODULE RawImage ------------------------------
(***************************************************************************)
(* rawimg.c: raw images over lbufs, what their methods do to the pixels,   *)
(* and what keeps a buffer from being collected while an image points      *)
(* into it.  Lua's variables are the set roots; the collector (external)   *)
(* may take whatever is not reachable from them through the registry table *)
(* RAWIMG_LIST, whose keys are weak, and the tables images were bound with.*)
(***************************************************************************)
EXTENDS RawPixel

CONSTANTS
    Lbufs,        \* the lbufs
    Bound, Made,  \* the images bind_lbuf and convert may make
    Tables,       \* the tables a script may pass to bind_lbuf as imgspec
    Datas,        \* the contents a script may make an lbuf of
    Specs,        \* the image specifications it may pass to bind_lbuf
    ToFormats,    \* the formats it may convert to
    Coords,       \* the coordinates set_pixel is called with
    Values        \* pixel values, as sets of bits

Imgs == Bound \cup Made

VARIABLES
    mem,    \* the bytes of every lbuf; <<>> is none or a collected one
    img,    \* the images
    field,  \* the lbuf in the field data of each table, 0 if there is none
    roots,  \* the userdata and tables Lua's variables hold
    list,   \* RAWIMG_LIST: pairs of a key and what it keeps
    last    \* the last call on pixels, for the contract

vars == <<mem, img, field, roots, list, last>>

NoImg == [fmt |-> Fmt(8, FALSE, 1), w |-> 0, h |-> 0, row |-> 0, lb |-> 0, off |-> 0,
          top |-> 0, left |-> 0, bottom |-> 0, right |-> 0, black |-> 0,
          cfa |-> <<0, 0, 0, 0>>, conv |-> FALSE]

NoCall == [op |-> "none", i |-> 0, j |-> 0, before |-> <<>>, x |-> 0, y |-> 0,
           val |-> {}, stray |-> FALSE, shift |-> 0]

Pixel(data, m, x, y) == GetPixel(data, m.off, m.fmt, m.row, x, y)
Put(data, m, x, y, v) == SetPixel(data, m.off, m.fmt, m.row, x, y, v)
Beyond(data, m, x, y) == Outside(data, m.off, m.fmt, m.row, x, y)

\* Bounds: a history ends with a thumbnail, which changes nothing, or a call that
\* writes pixels in place, and has one conversion at most, with no bind_lbuf
\* after it; a table the script goes on using is not dropped.
Going == last.op \notin {"set", "patch", "thumb"}
Untouched == \A l \in Lbufs : mem[l] \in Datas \cup {<<>>}

Inside(m, x, y) == x >= 0 /\ x < m.w /\ y >= 0 /\ y < m.h

-----------------------------------------------------------------------------
Unused(l) == mem[l] = <<>> /\ l \notin roots /\ \A i \in Imgs : img[i].lb # l

NewLbuf(l, data) ==
    /\ Going /\ Unused(l)
    /\ mem' = [mem EXCEPT ![l] = data]
    /\ roots' = roots \cup {l}
    /\ last' = NoCall
    /\ UNCHANGED <<img, field, list>>


\* rawimg_lua_bind_lbuf stores t[img] = imgspec, "lbuf, the value": the table,
\* which leads to the lbuf for as long as its field data does.
Kept(i, t) == {<<i, t>>}

\* rawimg_lua_bind_lbuf; the script may go on using the table it passes.  The
\* check that the active area ends inside the row looks at its left edge.
Bind(i, l, t, s, holds) ==
    /\ Going /\ \A j \in Imgs : img[j] = NoImg
    /\ l \in roots /\ t \notin roots /\ \A e \in list : e[2] # t
    /\ s.top < s.bottom /\ s.left < s.right /\ s.left <= s.w /\ s.bottom <= s.h
    /\ \E fmt \in FindFormat(s.bpp, s.big) :
          LET row == (s.w * fmt.bpp) \div 8 IN
          /\ s.w % fmt.pixels = 0
          /\ s.off + (row * s.h) <= Len(mem[l])
          /\ img' = [img EXCEPT ![i] =
                [fmt |-> fmt, w |-> s.w, h |-> s.h, row |-> row, lb |-> l,
                 off |-> s.off, top |-> s.top, left |-> s.left, bottom |-> s.bottom,
                 right |-> s.right, black |-> s.black, cfa |-> s.cfa,
                 conv |-> FALSE]]
    /\ field' = [field EXCEPT ![t] = l]
    /\ list' = list \cup Kept(i, t)
    /\ roots' = roots \cup {i} \cup (IF holds THEN {t} ELSE {})
    /\ last' = NoCall
    /\ UNCHANGED mem

\* The script sets imgspec.data to nil.
Clear(t) ==
    /\ Going /\ t \in roots
    /\ field' = [field EXCEPT ![t] = 0]
    /\ last' = NoCall
    /\ UNCHANGED <<mem, img, roots, list>>

\* rawimg_lua_set_pixel tests the two coordinates with "or".
WritePixel(i, x, y, v) ==
    LET m == img[i]
        data == mem[m.lb]
    IN  /\ i \in roots /\ Going
        /\ x < m.w \/ y < m.h
        /\ mem' = [mem EXCEPT ![m.lb] = Put(data, m, x, y, v)]
        /\ last' = [NoCall EXCEPT !.op = "set", !.i = i, !.before = data, !.x = x, !.y = y,
                        !.val = v, !.stray = Beyond(data, m, x, y)]
        /\ UNCHANGED <<img, field, roots, list>>

\* cfa_color: 0 red, 1 green, 2 blue.
Colour(m, x, y) == m.cfa[(x % 2) + (2 * (y % 2)) + 1]

\* The neighbours of the same colour.
Neighbours(m, x, y) ==
    IF Colour(m, x, y) = 1
    THEN {<<x - 1, y - 1>>, <<x + 1, y - 1>>, <<x - 1, y + 1>>, <<x + 1, y + 1>>}
    ELSE {<<x - 2, y>>, <<x + 2, y>>, <<x, y - 2>>, <<x, y + 2>>}

\* rawimg_patch_pixel: the mean of the neighbours above the black level; one
\* outside the image counts as 0 (rawimg_get_pixel_safe).
Patched(data, m, x, y) ==
    LET good == {q \in Neighbours(m, x, y) :
                    Inside(m, q[1], q[2]) /\ Num(Pixel(data, m, q[1], q[2])) > m.black}
        total == MapThenSumSet(LAMBDA q : Num(Pixel(data, m, q[1], q[2])), good)
    IN  IF good = {} THEN data
        ELSE Put(data, m, x, y, BitsOf(total \div Cardinality(good)))

\* The active area, row by row.
Active(m) ==
    LET w == m.right - m.left
    IN  [k \in 1..(w * (m.bottom - m.top)) |->
            <<m.left + ((k - 1) % w), m.top + ((k - 1) \div w)>>]

\* rawimg_lua_patch_pixels
PatchPixels(i, bad) ==
    LET m == img[i]
        data == mem[m.lb]
        One(d, q) == IF Num(Pixel(d, m, q[1], q[2])) <= bad
                     THEN Patched(d, m, q[1], q[2]) ELSE d
    IN  /\ i \in roots /\ Going
        /\ mem' = [mem EXCEPT ![m.lb] = FoldLeft(One, data, Active(m))]
        /\ last' = [NoCall EXCEPT !.op = "patch", !.i = i, !.before = data, !.x = bad,
                        !.stray = \E q \in ToSet(Active(m)) : Beyond(data, m, q[1], q[2])]
        /\ UNCHANGED <<img, field, roots, list>>

\* Where make_rgb_thumb takes the samples of a colour from: the last place of
\* the colour in the pattern, added to the top left of an even square.  The
\* column of a blue sample does not depend on the square.
Place(m, c) ==
    LET ks == {q \in 0..3 : m.cfa[q + 1] = c}
    IN  IF ks = {} THEN <<0, 0>> ELSE <<Max(ks) % 2, Max(ks) \div 2>>

Sample(m, c, tx, ty, w, h) ==
    LET ix == m.left + ((tx * (m.right - m.left)) \div w)
        iy == m.top + ((ty * (m.bottom - m.top)) \div h)
        x  == IF c = 2 THEN Place(m, 1)[1] ELSE ix - (ix % 2)
    IN  <<x + Place(m, c)[1], iy - (iy % 2) + Place(m, c)[2]>>

\* rawimg_lua_make_rgb_thumb
Thumb(i, w, h) ==
    LET m == img[i]
        took == {Sample(m, c, tx, ty, w, h) : c \in {0, 1, 2}, tx \in 0..(w - 1),
                                              ty \in 0..(h - 1)}
    IN  /\ i \in roots /\ Going
        /\ w <= m.right - m.left /\ h <= m.bottom - m.top
        /\ last' = [NoCall EXCEPT !.op = "thumb", !.i = i, !.before = mem[m.lb], !.x = w,
                        !.y = h, !.stray = \E q \in took : Beyond(mem[m.lb], m, q[1], q[2])]
        /\ UNCHANGED <<mem, img, field, roots, list>>

\* valupmod and valdownmod of convert.
Shift(from, to, up, down) ==
    IF from > to THEN (IF down THEN from - to ELSE 0) ELSE (IF up THEN from - to ELSE 0)

\* rawimg_lua_convert: into an lbuf of the right size that the options name, or
\* a new one, pixel by pixel; into the lbuf of the image itself each pixel is
\* read when those before it have been written.  The table entry it makes has
\* the lbuf (or the options) as its key and the old image as its value.
Convert(i, j, l, fmt, up, down, given) ==
    LET m == img[i]
        size == (m.w * m.h * fmt.bpp) \div 8
        sh == Shift(m.fmt.bpp, fmt.bpp, up, down)
        new == [m EXCEPT !.fmt = fmt, !.row = (m.w * fmt.bpp) \div 8, !.lb = l,
                         !.off = 0, !.conv = TRUE,
                         !.black = IF sh < 0 THEN 0 ELSE @ \div (2^sh)]
        start == IF given THEN mem[l] ELSE [p \in 1..size |-> {}]
        all == [k \in 1..(m.w * m.h) |-> <<(k - 1) % m.w, (k - 1) \div m.w>>]
        From(d) == IF l = m.lb THEN d ELSE mem[m.lb]
        One(d, q) == Put(d, new, q[1], q[2],
                         Shifted(Pixel(From(d), m, q[1], q[2]), -sh))
    IN  /\ i \in roots /\ img[j] = NoImg /\ Going /\ Untouched
        /\ IF given THEN l \in roots /\ Len(mem[l]) = size
           ELSE Unused(l)
        /\ mem' = [mem EXCEPT ![l] = FoldLeft(One, start, all)]
        /\ img' = [img EXCEPT ![j] = new]
        /\ list' = IF given THEN list ELSE list \cup {<<l, i>>}
        /\ roots' = roots \cup {j, l}
        /\ last' = [NoCall EXCEPT !.op = "convert", !.i = i, !.j = j, !.shift = sh,
                        !.before = mem[m.lb],
                        !.stray = \E q \in ToSet(all) :
                            \/ Beyond(mem[m.lb], m, q[1], q[2])
                            \/ Beyond(start, new, q[1], q[2])]
        /\ UNCHANGED field

\* A variable goes away.
Drop(o) ==
    /\ Going /\ o \in roots
    /\ roots' = roots \ {o}
    /\ last' = NoCall
    /\ UNCHANGED <<mem, img, field, list>>

\* What a set of objects leads to in a step: the registry from its keys to its
\* values, a table to its lbuf.
Reach(s) ==
    s \cup {e[2] : e \in {f \in list : f[1] \in s}} \cup {field[t] : t \in Tables \cap s}

\* From an lbuf that convert made to the image converted, its table and its
\* lbuf are three steps.
Collect(o) ==
    /\ Going
    /\ o \notin Reach(Reach(Reach(roots)))
    /\ IF o \in Lbufs
       THEN mem[o] # <<>> /\ mem' = [mem EXCEPT ![o] = <<>>] /\ UNCHANGED img
       ELSE img[o] # NoImg /\ img' = [img EXCEPT ![o] = NoImg] /\ UNCHANGED mem
    /\ list' = {e \in list : e[1] # o}
    /\ last' = NoCall
    /\ UNCHANGED <<field, roots>>

Init ==
    /\ mem = [l \in Lbufs |-> <<>>]
    /\ img = [i \in Imgs |-> NoImg]
    /\ field = [t \in Tables |-> 0]
    /\ roots = {} /\ list = {}
    /\ last = NoCall

Next ==
    \/ \E l \in Lbufs : \E data \in Datas : NewLbuf(l, data)
    \/ \E i \in Bound, l \in Lbufs, t \in Tables, s \in Specs, holds \in BOOLEAN :
          Bind(i, l, t, s, holds)
    \/ \E t \in Tables : Clear(t)
    \/ \E i \in Imgs, v \in Values, x, y \in Coords : WritePixel(i, x, y, v)
    \/ \E i \in Imgs, bad \in {0, 5} : PatchPixels(i, bad)
    \/ \E i \in Imgs, w, h \in {1, 4} : Thumb(i, w, h)
    \/ \E i \in Bound, j \in Made, l \in Lbufs, fmt \in ToFormats, up, down, given \in BOOLEAN :
          Convert(i, j, l, fmt, up, down, given)
    \/ \E o \in Lbufs \cup Imgs : Drop(o) \/ Collect(o)

Spec == Init /\ [][Next]_vars

-----------------------------------------------------------------------------
(***************************************************************************)
(* Correctness.                                                            *)
(***************************************************************************)
All(m) == (0..(m.w - 1)) \X (0..(m.h - 1))

\* A pixel that is set, within its range, reads as what was set, and no other
\* pixel of the image changes, where whole blocks make up the rows.  The known
\* case is Unset: in 14 bit big-endian images the second four of each eight
\* pixels stay as they were.
SetTrue ==
    last.op = "set" /\ last.before # <<>> =>
        LET m == img[last.i] IN
        m.w % m.fmt.pixels = 0 /\ Inside(m, last.x, last.y) /\ last.val \subseteq 0..(m.fmt.bpp - 1) =>
            \A q \in All(m) :
                Pixel(mem[m.lb], m, q[1], q[2]) =
                    IF q = <<last.x, last.y>> /\ ~Unset(m.fmt, q[1]) THEN last.val
                    ELSE Pixel(last.before, m, q[1], q[2])

\* Patching leaves every pixel above the threshold, and gives the others a
\* value above the black level or leaves them too.
PatchTrue ==
    last.op = "patch" =>
        LET m == img[last.i] IN
        m.right <= m.w /\ m.w % m.fmt.pixels = 0 /\ last.before # <<>> => \A q \in All(m) :
            LET was == Pixel(last.before, m, q[1], q[2])
                is  == Pixel(mem[m.lb], m, q[1], q[2])
            IN  is = was \/ (Num(was) <= last.x /\ Num(is) > m.black)

\* A conversion to a format whose blocks divide the rows gives every pixel its
\* value, shifted as asked, in so far as the new format can hold it.  Known
\* cases: the pixels of Unset, and a conversion into the lbuf of the image
\* itself, which is right only if every pixel replaces its own bytes.
ConvertTrue ==
    last.op = "convert" =>
        LET m == img[last.i]
            n == img[last.j]
            Want(q) == Shifted(Pixel(last.before, m, q[1], q[2]), -last.shift)
        IN  /\ n.w % n.fmt.pixels = 0
            /\ n.lb = m.lb => n.fmt.bpp = m.fmt.bpp /\ n.fmt.pixels = 1
            /\ \A q \in All(m) : Want(q) \subseteq 0..(n.fmt.bpp - 1)
            =>
              \A q \in All(m) : Unset(n.fmt, q[1]) \/ Pixel(mem[n.lb], n, q[1], q[2]) = Want(q)

\* The red and green samples of a thumbnail are of that colour and lie in the
\* active area, or next to it at the right or the bottom.  The blue ones need
\* not be blue, a known case: their column is the same for every square.
ThumbTrue ==
    LET m == img[last.i] IN
    last.op = "thumb" /\ {0, 1, 2} \subseteq ToSet(m.cfa) =>
        \A c \in {0, 1}, tx \in 0..(last.x - 1), ty \in 0..(last.y - 1) :
            LET q == Sample(m, c, tx, ty, last.x, last.y) IN
            /\ Colour(m, q[1], q[2]) = c
            /\ q[1] <= m.right /\ q[2] <= m.bottom

\* An image that bind_lbuf made, and the table it was given still has the buffer.
Named(i) == i \in Bound /\ \E t \in Tables : field[t] = img[i].lb

\* No call touches a byte outside the lbuf, but for those the checks let
\* through, the known cases: one coordinate of set_pixel too large; an active
\* area wider than the image; a thumbnail of an image with an odd row or column,
\* or of less than three columns; a conversion to a format whose blocks do not
\* divide the rows; and the memory of a buffer that was not kept.
RawStrays ==
    LET m == img[IF last.op = "convert" THEN last.j ELSE last.i] IN
    last.stray =>
        \/ last.op = "set" /\ ~Inside(m, last.x, last.y)
        \/ last.op \in {"patch", "thumb"} /\ m.right > m.w
        \/ last.op = "thumb" /\ (m.w % 2 = 1 \/ m.h % 2 = 1 \/ m.w < 3)
        \/ m.conv /\ m.w % m.fmt.pixels # 0
        \/ last.before = <<>> /\ ~Named(last.i)

\* An image that bind_lbuf made and a script holds has its buffer, whatever
\* else the script has dropped, unless it has taken the buffer out of the table
\* it had passed: that, and the images of convert, are known cases.
BoundKept ==
    \A i \in Imgs \cap roots : Named(i) => mem[img[i].lb] # <<>>

RawContract ==
    /\ Init => LayoutTrue
    /\ SetTrue /\ PatchTrue /\ ConvertTrue /\ ThumbTrue /\ RawStrays /\ BoundKept

\* "keep lbuf from being collected until image goes away": for the images that
\* convert makes, and for those of bind_lbuf whatever becomes of the table.
ConvertKept == \A i \in Made \cap roots : mem[img[i].lb] # <<>>
BindKept    == \A i \in Bound \cap roots : mem[img[i].lb] # <<>>
=============================================================================
