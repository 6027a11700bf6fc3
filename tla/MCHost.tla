------------------------------- MODULE MCHost -------------------------------
(***************************************************************************)
(* The parts of the program that work on what a connection has delivered,  *)
(* each on a small instance: lbufs, raw images over them, frames of the    *)
(* live view, data sets, and the calls that allocate.  They share no       *)
(* state, so that a behaviour is one of a single part, chosen at the start.*)
(***************************************************************************)
EXTENDS ChdkCalls, Lbuf

VARIABLES part,
          mem, img, field, roots, list, pixels,  \* RawImage
          frame, im, shown,             \* LiveImg
          sent, data, room, got         \* PtpPack

rawVars  == <<mem, img, field, roots, list, pixels>>
liveVars == <<frame, im, shown>>
packVars == <<sent, data, room, got>>
vars == <<part, lbufVars, rawVars, liveVars, packVars, callVars>>

Symmetric == Permutations(Lbufs)

-----------------------------------------------------------------------------
(* Bytes of four values and an unsigned int of three bytes.                *)
FewContents == {<<>>, <<1>>, <<1, 2, 3>>, <<3, 0, 1, 2, 3>>}
FewArgs == (-7..7) \cup {16, 31}
FewVals == {[k \in 1..n |-> v] : n \in 0..2, v \in {1, Byte + 2}}

(* Images of two rows in five formats, two of them with an active area     *)
(* wider than the image, one of odd width; in those of 14 and 16 bits the  *)
(* pixels fill the buffer, so that they may be converted in place.         *)
SomeBytes == [p \in 1..28 |-> IF p % 3 = 0 THEN {} ELSE {0, 1, p % 8}]

RawSpec(w, bpp, big, off, right, cfa) ==
    [w |-> w, h |-> 2, bpp |-> bpp, big |-> big, off |-> off, top |-> 0, left |-> 1,
     bottom |-> 2, right |-> right, black |-> 2, cfa |-> cfa]

RawSpecs ==
    {RawSpec(8, bpp, TRUE, 0, 8, <<0, 1, 1, 2>>) : bpp \in {8, 10, 14}} \cup
    {RawSpec(4, 12, FALSE, 2, 5, <<1, 0, 2, 1>>), RawSpec(7, 16, TRUE, 0, 7, <<1, 2, 0, 1>>),
     RawSpec(2, 12, TRUE, 1, 9, <<2, 1, 1, 0>>)}

RF == INSTANCE RawPixel
ToFormats == {f \in RF!Formats : f.bpp \in {10, 14} \/ (f.bpp = 16 /\ ~f.big)}

RI == INSTANCE RawImage WITH
    Bound <- {1}, Made <- {2}, Tables <- {3}, Datas <- {SomeBytes}, Specs <- RawSpecs,
    ToFormats <- ToFormats, Coords <- {1, 6}, Values <- {{0, 3}, 0..15}, last <- pixels

(* Frames with the header and the descriptions in the first 140 bytes,     *)
(* then a palette and the buffers: both protocols' formats, an odd width,  *)
(* a palette the frame lacks or that is of a type without colours, frames  *)
(* cut short, one without buffers, and one that describes a viewport and   *)
(* has no data of it.                                                      *)
Fb(at, start, type, bw, vw, vh) ==
    [at |-> at, start |-> start, type |-> type, bw |-> bw, vw |-> vw, vh |-> vh]
Opacity(start, w) == Fb(104, start, "OPACITY8", w + 2, w, 2)
Shot(minor, vp, bm, bmo, type, pal, len) ==
    [major |-> 2, minor |-> minor, vp |-> vp, bm |-> bm, bmo |-> bmo,
     pal |-> [type |-> type, start |-> pal], len |-> len]

LiveFrames ==
    LET Old(type, pal, len) ==
            Shot(2, Fb(32, 204, "YUV8", 8, 8, 1), Fb(68, 252, "PAL8", 4, 2, 4),
                 Opacity(0, 4), type, pal, len)
    IN  {Shot(1, Fb(32, 204, "YUV8", 12, vw, 2), Fb(68, 252, "PAL8", 8, 4, 2),
              Opacity(0, 4), 1, 140, 300) : vw \in {8, 6}} \cup
        {Shot(minor, Fb(32, 204, type, 8, 4, 2), Fb(68, 240, "YUV8B", 8, 4, 2),
              Opacity(280, 4), 0, 0, 300) : minor \in {2, 3}, type \in {"YUV8B", "YUV8C"}} \cup
        {Shot(2, Fb(32, 204, "YUV8B", 8, 5, 2), Fb(68, 240, "YUV8B", 8, w, 2),
              Opacity(0, w), 0, 0, 300) : w \in {4, 3}} \cup
        {Old(type, pal, 300) : type \in {0, 6}, pal \in {0, 140}} \cup
        {Old(1, 140, len) : len \in {214, 262}} \cup
        {Shot(2, Fb(0, 0, "YUV8", 0, 0, 0), Fb(68, 0, "PAL8", 8, 4, 2), Opacity(0, 4), 1, 0, 104),
         Shot(2, Fb(32, 0, "YUV8", 48, 8, 3), Fb(68, 0, "PAL8", 8, 4, 2), Opacity(0, 4), 1, 0, 140)}

LI == INSTANCE LiveImg WITH Frames <- LiveFrames, last <- shown

(* Bytes of 32 values: short strings and the longest that fit a name, with *)
(* and without characters of the upper half, names that are longer, and    *)
(* dates that are dates and that are not.                                  *)
ADate == <<3, 1, 3, 5, 2, 3, 4, 2, 21, 3, 4, 6, 1, 1, 10>>

PP == INSTANCE PtpPack WITH
    Byte <- 32,
    Strings <- {<<>>, <<3>>, <<1, 2>>, [k \in 1..30 |-> k]},
    Names <- {[k \in 1..n |-> (k % c) + 1] : n \in {0, 2, 30, 31, 32, 34}, c \in {15, 31}},
    Lists <- {<<>>, <<5>>, <<1, 31, 0>>},
    Dates <- {<<>>, <<1, 2>>, ADate},
    Numbers <- {1, 15}

(* ChdkCalls: three calls, with room for what two of them leave and one    *)
(* takes.                                                                  *)
FewBlocks == 1..5

-----------------------------------------------------------------------------
Init ==
    /\ part \in {"lbuf", "raw", "live", "pack", "calls"}
    /\ LbufInit /\ RI!Init /\ LI!Init /\ PP!Init /\ CallsInit
    /\ part # "live" => frame = CHOOSE f \in LiveFrames : TRUE

Next ==
    /\ UNCHANGED part
    /\ \/ part = "lbuf"  /\ LbufNext /\ UNCHANGED <<rawVars, liveVars, packVars, callVars>>
       \/ part = "raw"   /\ RI!Next /\ UNCHANGED <<lbufVars, liveVars, packVars, callVars>>
       \/ part = "live"  /\ LI!Next /\ UNCHANGED <<lbufVars, rawVars, packVars, callVars>>
       \/ part = "pack"  /\ PP!Next /\ UNCHANGED <<lbufVars, rawVars, liveVars, callVars>>
       \/ part = "calls" /\ CallsNext /\ UNCHANGED <<lbufVars, rawVars, liveVars, packVars>>

Spec == Init /\ [][Next]_vars

-----------------------------------------------------------------------------

\* liveimg.c: what a call shows is what the frame has, in the colours of its
\* palette, and it reads nothing outside a frame whose descriptions it accepts.
LiveTrue == part = "live" => LI!LiveContract

\* ptp-pack.c: what one side packs the other unpacks, within the room it took.
PackTrue == part = "pack" => PP!PackContract

-----------------------------------------------------------------------------
(* What comments promise and the code does not keep; no run of the project *)
(* checks these, but the configurations MCHost_bitmap, MCHost_kept,        *)
(* MCHost_bound and MCHost_minor show each of them violated.               *)

\* get_bitmap_pimg: "pimg to re-use, created if nil, replaced if size doesn't
\* match".
BitmapShaped == part = "live" => LI!BitmapShape

\* rawimg convert: "keep lbuf from being collected until image goes away".
ConvertKept == part = "raw" => RI!ConvertKept

\* rawimg bind_lbuf: the same.
BindKept == part = "raw" => RI!BindKept

\* live_view.h: the major version changes "only with backwards incompatible
\* changes", so that a newer minor version is still read.
NewerMinorRead == part = "live" => LI!MinorCompatible
=============================================================================
