------------------------------ MODULE Wallpaper ------------------------------
(***************************************************************************)
(* Package xwallpaper: which part of an image lands where on the output.   *)
(*                                                                         *)
(* A rectangle is its corner and its size; the image and the output are at *)
(* the origin.  What the code computes in floating point is exact here: a  *)
(* scale is a fraction, and the conversion of a fraction to int truncates. *)
(***************************************************************************)
EXTENDS Integers

Rect(x, y, w, h) == [x |-> x, y |-> y, w |-> w, h |-> h]
Empty == Rect(0, 0, 0, 0)

Min2(a, b) == IF a < b THEN a ELSE b
Max2(a, b) == IF a > b THEN a ELSE b

(* Intersect: what is empty is the zero rectangle. *)
Intersect(r, s) ==
    LET x == Max2(r.x, s.x)
        y == Max2(r.y, s.y)
        w == Min2(r.x + r.w, s.x + s.w) - x
        h == Min2(r.y + r.h, s.y + s.h) - y
    IN  IF w <= 0 \/ h <= 0 THEN Empty ELSE Rect(x, y, w, h)

(* Conversion to int. *)
Trunc(n, d) == IF n >= 0 THEN n \div d ELSE -((-n) \div d)

Less(a, b) == a.n * b.d < b.n * a.d
Frac(n, d) == [n |-> n, d |-> d]

(* The area of interest: all of the image if none is given. *)
Trimmed(src, trim) ==
    LET sr == Rect(0, 0, src.w, src.h) IN IF trim = Empty THEN sr ELSE Intersect(trim, sr)

AtLeastOnePixel(tr) == [tr EXCEPT !.w = Max2(@, 1), !.h = Max2(@, 1)]

-----------------------------------------------------------------------------
(* Focus: the box to show around the area of interest. *)

(* Mutant: the larger of the two boxes is taken. *)
MinimumBoxSwapped(src, dst) ==
    IF src.w > dst.w /\ src.h > dst.h THEN [w |-> dst.w, h |-> dst.h]
    ELSE IF ~Less(Frac(dst.w, src.w), Frac(dst.h, src.h))
    THEN [w |-> Max2(1, (src.h * dst.w) \div dst.h), h |-> src.h]
    ELSE [w |-> src.w, h |-> Max2(1, (src.w * dst.h) \div dst.w)]

(* The smallest box: no zooming if the image is larger than the output, else
   what is left of the image in the output's aspect ratio. *)
MinimumBox(src, dst) ==
    IF src.w > dst.w /\ src.h > dst.h THEN [w |-> dst.w, h |-> dst.h]
    ELSE IF Less(Frac(dst.w, src.w), Frac(dst.h, src.h))
    THEN [w |-> Max2(1, (src.h * dst.w) \div dst.h), h |-> src.h]
    ELSE [w |-> src.w, h |-> Max2(1, (src.w * dst.h) \div dst.w)]

(* The largest box, which covers the image; the last case multiplies by the
   ratio it should divide by. *)
ZoomedOut(src, dst) ==
    IF Less(Frac(src.w, dst.w), Frac(src.h, dst.h))
    THEN [w |-> Max2(1, (src.h * dst.w) \div dst.h), h |-> src.h]
    ELSE [w |-> src.w, h |-> Max2(1, (src.w * dst.w) \div dst.h)]

(* One axis of the box: around the area of interest, moved into the image, or
   around the image when the box is larger. *)
Offset(min, size, box, whole) ==
    LET t == Max2(0, min - Trunc(box - size, 2))
    IN  IF box <= whole - t THEN t
        ELSE IF box > whole THEN Trunc(whole - box, 2) ELSE whole - box

FocusBox(src, dst, tr) ==
    LET least == MinimumBox(src, dst)
        box == IF tr.w > least.w \/ tr.h > least.h THEN ZoomedOut(src, dst) ELSE least
    IN  Rect(Offset(tr.x, tr.w, box.w, src.w), Offset(tr.y, tr.h, box.h, src.h), box.w, box.h)

-----------------------------------------------------------------------------
(* transform: the box of the image that is drawn, for an area of interest of at
   least a pixel, and the scale of each axis.  The box is centered on the
   output. *)
Transform(src, dst, tr, mode) ==
    LET box == IF mode = "focus" THEN FocusBox(src, dst, tr) ELSE tr
        sx == Frac(dst.w, box.w)
        sy == Frac(dst.h, box.h)
        least == IF Less(sy, sx) THEN sy ELSE sx
        most == IF Less(sx, sy) THEN sy ELSE sx
        scales == CASE mode = "center" -> [x |-> Frac(1, 1), y |-> Frac(1, 1)]
                    [] mode \in {"maximize", "focus"} -> [x |-> least, y |-> least]
                    [] mode = "zoom" -> [x |-> most, y |-> most]
                    [] mode = "stretch" -> [x |-> sx, y |-> sy]
    IN  [box |-> box, x |-> scales.x, y |-> scales.y]

(* Where a box of a size lands on an axis of the output.  Draw moves it from
   its own corner to the middle. *)
Lands(size, out, scale) ==
    [from |-> Frac(out * scale.d - size * scale.n, 2 * scale.d),
     to |-> Frac(out * scale.d + size * scale.n, 2 * scale.d)]

(* rezFilter takes the translation, which is from the origin of the image, for
   the place of the box; min is the corner of the box. *)
RezLands(min, size, out, scale) ==
    LET moved(f) == Frac(f.n - 2 * min * scale.n, f.d)
        l == Lands(size, out, scale)
    IN  [from |-> Trunc(moved(l.from).n, l.from.d), to |-> Trunc(moved(l.to).n, l.to.d)]

(* tile: copies of the area of interest, each at its own place of the image
   and moved by a whole number of its size.  An empty one never ends. *)
TileCovers(tr, x, y, dst) ==
    \E i \in 0 .. (dst.w - 1) \div tr.w, j \in 0 .. (dst.h - 1) \div tr.h :
        /\ tr.x + i * tr.w <= x /\ x < tr.x + (i + 1) * tr.w
        /\ tr.y + j * tr.h <= y /\ y < tr.y + (j + 1) * tr.h

TileEnds(tr) == tr.w > 0 /\ tr.h > 0

-----------------------------------------------------------------------------
(* What is drawn covers the output on an axis, or is within it. *)
Covers(l, out) == l.from.n <= 0 /\ ~Less(l.to, Frac(out, 1))
Within(l, out) == l.from.n >= 0 /\ ~Less(Frac(out, 1), l.to)

(* A whole number that is less than a pixel away from a fraction. *)
Near(i, f) == i * f.d > f.n - f.d /\ i * f.d < f.n + f.d

(* DrawRez draws in the same place as Draw. *)
LikeDraw(src, dst, trim, mode) ==
    \A t \in {Transform(src, dst, AtLeastOnePixel(Trimmed(src, trim)), mode)} :
    \A lx \in {Lands(t.box.w, dst.w, t.x)}, ly \in {Lands(t.box.h, dst.h, t.y)},
       rx \in {RezLands(t.box.x, t.box.w, dst.w, t.x)}, ry \in {RezLands(t.box.y, t.box.h, dst.h, t.y)} :
        Near(rx.from, lx.from) /\ Near(rx.to, lx.to) /\ Near(ry.from, ly.from) /\ Near(ry.to, ly.to)

(* The part of the image that is visible contains the area of interest, but
   for what the division loses. *)
Contains(box, tr) ==
    box.x <= tr.x /\ box.y <= tr.y /\ tr.x + tr.w <= box.x + box.w /\ tr.y + tr.h <= box.y + box.h

(* Focus shows no border, if the area of interest fits in what is left of the
   image then. *)
NoBorder(src, dst, tr, box) ==
    LET least == MinimumBox(src, dst)
    IN  tr.w <= least.w /\ tr.h <= least.h => Contains(Rect(0, 0, src.w, src.h), box)

(* The zoomed out box is too low for the area of interest: only on an upright
   output, for an image that is the wider one of the two, where the last case of
   ZoomedOut multiplies. *)
TooLow(src, dst, tr, box) ==
    /\ dst.w < dst.h
    /\ ~Less(Frac(src.w, dst.w), Frac(src.h, dst.h))
    /\ box.h < tr.h

(* The tiles cover the output from where the area of interest is in the image:
   the first one is drawn there instead of in the corner. *)
TilesCover(dst, tr) ==
    TileEnds(tr) =>
        \A x \in 0 .. dst.w - 1, y \in 0 .. dst.h - 1 :
            TileCovers(tr, x, y, dst) <=> tr.x <= x /\ tr.y <= y

(* What the comments say ("tile onto dst until dr is covered", "keeping the
   entire trim box visible").  Not kept by areas off the corner, nor where the
   box is too low. *)
TilesCoverAll(dst, tr) ==
    TileEnds(tr) => \A x \in 0 .. dst.w - 1, y \in 0 .. dst.h - 1 : TileCovers(tr, x, y, dst)
FocusShowsArea(src, dst, tr) == Contains(FocusBox(src, dst, tr), tr)

(* What each mode but tile promises of what it draws, which lands at lx, ly. *)
Promised(mode, src, dst, tr, t, lx, ly) ==
    LET covers == [x |-> Covers(lx, dst.w), y |-> Covers(ly, dst.h)]
        within == [x |-> Within(lx, dst.w), y |-> Within(ly, dst.h)]
    IN  CASE mode = "stretch" -> covers.x /\ covers.y /\ within.x /\ within.y
          [] mode = "zoom" -> t.x = t.y /\ covers.x /\ covers.y /\ (within.x \/ within.y)
          [] mode = "maximize" -> t.x = t.y /\ within.x /\ within.y /\ (covers.x \/ covers.y)
          [] mode = "center" -> t.x = Frac(1, 1) /\ t.y = t.x
          [] mode = "focus" -> /\ within.x /\ within.y
                               /\ Contains(t.box, tr) \/ TooLow(src, dst, tr, t.box)
                               /\ NoBorder(src, dst, tr, t.box)

(* Of an image, an output and an area of interest. *)
ModePromise(src, dst, trim, mode) ==
    \A tr \in {AtLeastOnePixel(Trimmed(src, trim))} :
    \A t \in {Transform(src, dst, tr, mode)} :
        Promised(mode, src, dst, tr, t, Lands(t.box.w, dst.w, t.x), Lands(t.box.h, dst.h, t.y))

(* What a mode promises; and in the same place by DrawRez, if the area of
   interest is in the corner of the image and the mode is not focus (see
   MCWallpaper). *)
DrawingKeepsPromise(src, dst, trim, mode) ==
    LET tr == Trimmed(src, trim)
    IN  IF mode = "tile" THEN TilesCover(dst, tr)
        ELSE /\ ModePromise(src, dst, trim, mode)
             /\ mode # "focus" /\ tr.x = 0 /\ tr.y = 0 => LikeDraw(src, dst, trim, mode)
=============================================================================
