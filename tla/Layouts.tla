------------------------------- MODULE Layouts -------------------------------
(***************************************************************************)
(* Where the layouts of XRandR put two monitors.                           *)
(*                                                                         *)
(* Sizes and positions are 16 bits wide in the code; two monitors side by  *)
(* side do not reach that far.                                             *)
(***************************************************************************)
EXTENDS Integers, Sequences

(* e is 1 for a monitor that is on. *)
Crtc(e, x, y, size) == [e |-> e, x |-> x, y |-> y, w |-> size.w, h |-> size.h]

(* Two coordinates, moved so that neither is negative. *)
Shifted(a, b) ==
    LET a1 == IF a < 0 THEN 0 ELSE a
        b1 == IF a < 0 THEN b - a ELSE b
    IN  IF b1 < 0 THEN <<a1 - b1, 0>> ELSE <<a1, b1>>

(* addLayout: an output that is off is at the origin. *)
Placed(p, s) ==
    LET x == Shifted(IF p.e = 1 THEN p.x ELSE 0, IF s.e = 1 THEN s.x ELSE 0)
        y == Shifted(IF p.e = 1 THEN p.y ELSE 0, IF s.e = 1 THEN s.y ELSE 0)
    IN  [pri |-> [p EXCEPT !.x = x[1], !.y = y[1]], sec |-> [s EXCEPT !.x = x[2], !.y = y[2]]]

Larger(a, b) == IF a > b THEN a ELSE b

(* The size of the screen counts an output that is off as well. *)
Fits(l, range) ==
    /\ Larger(Larger(l.pri.x + l.pri.w, l.sec.x + l.sec.w), range.minW) <= range.maxW
    /\ Larger(Larger(l.pri.y + l.pri.h, l.sec.y + l.sec.h), range.minH) <= range.maxH

(* The layouts of a primary monitor of size p and another of size s.  Positions
   are relative: the bottoms are at 0 when side by side. *)
OnlyPrimary(p, s) == Placed(Crtc(1, 0, 0, p), Crtc(0, 0, 0, s))
OnlySecondary(p, s) == Placed(Crtc(0, 0, 0, p), Crtc(1, 0, 0, s))
Same(p, s) == Placed(Crtc(1, 0, 0, p), Crtc(1, 0, 0, s))
Left(p, s) == Placed(Crtc(1, p.w, -p.h, p), Crtc(1, 0, -s.h, s))

(* Mutant: the tops are aligned. *)
RightUnaligned(p, s) == Placed(Crtc(1, 0, -p.h, p), Crtc(1, p.h, -s.h, s))

Right(p, s) == Placed(Crtc(1, 0, -p.h, p), Crtc(1, p.w, -s.h, s))
Up(p, s) == Placed(Crtc(1, 0, 0, p), Crtc(1, 0, -s.h, s))
Down(p, s) == Placed(Crtc(1, 0, 0, p), Crtc(1, 0, p.h, s))

(* The layouts that are offered, each known by a label that names the outputs;
   range is GetScreenSizeRange. *)
Labelled(kind, pri, l) == [label |-> [kind |-> kind, pri |-> pri], l |-> l]

LayoutsFor(pri, sec, p, s, range) ==
    LET all == <<Labelled("only", pri, OnlyPrimary(p, s)), Labelled("only", sec, OnlySecondary(p, s))>>
               \o (IF p = s THEN <<Labelled("same", pri, Same(p, s))>> ELSE << >>)
               \o <<Labelled("left", pri, Left(p, s)), Labelled("right", pri, Right(p, s)),
                    Labelled("up", pri, Up(p, s)), Labelled("down", pri, Down(p, s))>>
    IN  SelectSeq(all, LAMBDA x : Fits(x.l, range))

-----------------------------------------------------------------------------
(* Two monitors that share an edge and nothing else. *)
Apart(p, s) ==
    p.x + p.w <= s.x \/ s.x + s.w <= p.x \/ p.y + p.h <= s.y \/ s.y + s.h <= p.y
Touch(p, s) ==
    p.x + p.w = s.x \/ s.x + s.w = p.x \/ p.y + p.h = s.y \/ s.y + s.h = p.y

(* The monitors of a layout start at the origin of the screen. *)
AtOrigin(p, s) == p.x >= 0 /\ p.y >= 0 /\ s.x >= 0 /\ s.y >= 0 /\ 0 \in {p.x, s.x} /\ 0 \in {p.y, s.y}

Anchored(l) == AtOrigin(l.pri, l.sec) /\ Apart(l.pri, l.sec) /\ Touch(l.pri, l.sec)

(* Side by side, the monitors share an edge, but for the left layout: it moves
   the primary monitor by its own width instead of that of the other, so that a
   wider one is overlapped and a narrower one is left a gap away. *)
LayoutsTouch(p, s) ==
    /\ Anchored(Right(p, s)) /\ Anchored(Up(p, s)) /\ Anchored(Down(p, s))
    /\ LET left == Left(p, s)
       IN  /\ AtOrigin(left.pri, left.sec)
           /\ Apart(left.pri, left.sec) <=> s.w <= p.w
           /\ Touch(left.pri, left.sec) <=> s.w = p.w
    /\ LET same == Same(p, s) IN AtOrigin(same.pri, same.sec) /\ ~Apart(same.pri, same.sec)

(* What the left layout should do as well.  Not kept by two widths. *)
LeftTouches(p, s) == Anchored(Left(p, s))
=============================================================================
