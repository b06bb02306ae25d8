----------------------------- MODULE MCWallpaper -----------------------------
(***************************************************************************)
(* Drawings of small images by DrawRez.                                    *)
(***************************************************************************)
EXTENDS Wallpaper

VARIABLE drawing

Size(n) == {[w |-> w, h |-> h] : w, h \in 1 .. n}

Init == drawing = Empty
Next ==
    /\ drawing = Empty
    /\ drawing' \in [src : Size(3), dst : Size(3), trim : {Empty, Rect(1, 0, 2, 1)},
                     mode : {"center", "stretch", "zoom", "maximize"}]
Spec == Init /\ [][Next]_drawing

(* "DrawRez is like Draw": the image, cropped to the area of interest, is drawn
   in the same place (transform.go). *)
DrawRezIsLikeDraw ==
    drawing # Empty => LikeDraw(drawing.src, drawing.dst, drawing.trim, drawing.mode)
=============================================================================
