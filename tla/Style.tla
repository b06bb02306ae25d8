-------------------------------- MODULE Style ---------------------------------
(***************************************************************************)
(* The styles of an overlay bar: two that come with it, and what changes a *)
(* part of one.                                                            *)
(***************************************************************************)
EXTENDS Integers

(* A part of the screen in tenths, and pixels. *)
Dim(rel, abs) == [rel |-> rel, abs |-> abs]

(* WithX, WithY, WithLength and so on. *)
With(s, field, v) == [s EXCEPT ![field] = v]

DefaultStyle ==
    [x |-> Dim(10, -48), y |-> Dim(5, 0), length |-> Dim(3, 0), thickness |-> 24,
     border |-> 4, padding |-> 3, outline |-> 3, orientation |-> "vertical"]

I3Style == [DefaultStyle EXCEPT !.border = 1, !.padding = 0, !.outline = 0]

(* A place of a row or column at an edge, or in the middle. *)
AnchorDim(side, offset) ==
    CASE side = "first" -> Dim(0, offset)
      [] side = "middle" -> Dim(5, 0)
      [] side = "last" -> Dim(10, -offset)

Anchor(s, row, column, offset) ==
    With(With(s, "x", AnchorDim(column, offset)), "y", AnchorDim(row, offset))
=============================================================================
