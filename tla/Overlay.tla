------------------------------- MODULE Overlay -------------------------------
(***************************************************************************)
(* Package xob: a bar in a window of its own over everything else.         *)
(*                                                                         *)
(* Every request to the X server is waited for and may be refused, which   *)
(* ends the operation it is part of where it is; the next operation finds  *)
(* the window, the flag Mapped and the picture as that one left them.      *)
(*                                                                         *)
(* The picture is kept along the length of the bar, in the middle of its   *)
(* thickness.  Fractions of the screen are in tenths; sizes are small      *)
(* enough for their 16 bits.                                               *)
(***************************************************************************)
EXTENDS Integers, Sequences

CONSTANTS
    Screen,         \* the width and the height of the screen
    Styles,         \* the styles a bar is made with
    Shows,          \* the arguments of Show
    NoShow,
    MaxOps,         \* bound: operations on the bar
    MaxFaults       \* bound: requests that are refused

VARIABLES
    style,
    at,             \* where the caller is in NewBar, Show, Hide or Close
    conn, window,   \* external: whether the server has the connection and the window
    gcs,            \* how many of the 12 graphics contexts there are
    mapped,         \* x.Mapped
    visible, onTop, \* external: the window, and whether it was raised since it is mapped
    lowered,        \* history: whether that was refused
    picture,        \* external: what has been painted, one rectangle over the other
    todo,           \* what Show has yet to paint
    showing, shown, \* the arguments of the Show in progress, and of the last to succeed
    ops, faults

barVars == <<style, conn, window, gcs>>
screenVars == <<visible, onTop, lowered, picture>>
vars == <<barVars, at, mapped, screenVars, todo, showing, shown, ops, faults>>

-----------------------------------------------------------------------------
(* The geometry of a style.                                                *)
Clamped(v, lo, hi) == IF v < lo THEN lo ELSE IF v > hi THEN hi ELSE v

Fat(s) == s.padding + s.border + s.outline
Horizontal(s) == s.orientation = "horizontal"

Length(s) ==
    LET available == IF Horizontal(s) THEN Screen.w ELSE Screen.h
    IN  Clamped((available * s.length.rel) \div 10 + s.length.abs, 0, available - 2 * Fat(s))

SizeX(s) == (IF Horizontal(s) THEN Length(s) ELSE s.thickness) + 2 * Fat(s)
SizeY(s) == (IF Horizontal(s) THEN s.thickness ELSE Length(s)) + 2 * Fat(s)

(* The part that is absolute is not kept on the screen. *)
Corner(d, screen, size) ==
    Clamped((screen * d.rel) \div 10 - size \div 2, 0, screen - size) + d.abs

Window(s) == [x |-> Corner(s.x, Screen.w, SizeX(s)), y |-> Corner(s.y, Screen.h, SizeY(s)),
              w |-> SizeX(s), h |-> SizeY(s)]

-----------------------------------------------------------------------------
(* What Show paints: rectangles from one pixel to another along the bar.   *)
Rect(from, len, set, part) == [from |-> from, to |-> from + len - 1, set |-> set, part |-> part]

DrawEmpty(s, set) ==
    <<Rect(0, 2 * Fat(s) + Length(s), set, "bg"),
      Rect(s.outline, 2 * (s.border + s.padding) + Length(s), set, "border"),
      Rect(s.outline + s.border, 2 * s.padding + Length(s), set, "bg")>>

DrawContent(s, filled, set) ==
    Rect(IF Horizontal(s) THEN Fat(s) ELSE Fat(s) + Length(s) - filled, filled, set, "fg")

DrawSeparator(s, position, set) ==
    Rect(s.outline + s.border + s.padding \div 2
            + (IF Horizontal(s) THEN position ELSE Length(s) - position),
         s.padding, set, "bg")

(* The set of colors a Show paints with: those of its mode, within the range of
   the bar and beyond it. *)
Set(mode, over) == [mode |-> mode, over |-> over]
Colors(a) == Set(a.mode, a.value > a.cap)
Within(a) == Set(a.mode, FALSE)

(* Mutant: the value is not brought into the range of the bar. *)
DrawingsUnclamped(s, a) ==
    LET set == Colors(a)
        split == IF a.value > a.cap THEN (a.cap * Length(s)) \div a.value ELSE 0
    IN  DrawEmpty(s, set)
        \o <<DrawContent(s, (a.value * Length(s)) \div a.cap, set)>>
        \o (IF a.proportional /\ split > s.padding
            THEN <<DrawContent(s, split, Within(a)), DrawSeparator(s, split, Within(a))>> ELSE << >>)

Drawings(s, a) ==
    LET set == Colors(a)
        split == IF a.value > a.cap THEN (a.cap * Length(s)) \div a.value ELSE 0
    IN  DrawEmpty(s, set)
        \o <<DrawContent(s, (Clamped(a.value, 0, a.cap) * Length(s)) \div a.cap, set)>>
        \o (IF a.proportional /\ split > s.padding
            THEN <<DrawContent(s, split, Within(a)), DrawSeparator(s, split, Within(a))>> ELSE << >>)

-----------------------------------------------------------------------------
TypeOK ==
    /\ style \in Styles
    /\ at \in {"none", "window", "atoms", "colors", "idle", "map", "raise", "draw",
               "closed", "failed", "panic"}
    /\ conn \in BOOLEAN /\ window \in BOOLEAN /\ gcs \in 0 .. 12
    /\ mapped \in BOOLEAN /\ visible \in BOOLEAN /\ onTop \in BOOLEAN /\ lowered \in BOOLEAN
    /\ showing \in Shows \cup {NoShow} /\ shown \in Shows \cup {NoShow}
    /\ Len(picture) <= 6 /\ Len(todo) <= 6
    /\ (at = "idle" => conn /\ window /\ gcs = 12) /\ (visible => window) /\ (window => conn)

Init ==
    /\ style \in Styles /\ at = "none"
    /\ conn = FALSE /\ window = FALSE /\ gcs = 0 /\ mapped = FALSE
    /\ visible = FALSE /\ onTop = FALSE /\ lowered = FALSE
    /\ picture = << >> /\ todo = << >> /\ showing = NoShow /\ shown = NoShow
    /\ ops = 0 /\ faults = 0

Refused == faults < MaxFaults /\ faults' = faults + 1

(* Close takes the window and the graphics contexts with the connection. *)
Closed == conn' = FALSE /\ window' = FALSE /\ gcs' = 0 /\ visible' = FALSE /\ mapped' = FALSE

-----------------------------------------------------------------------------
(* NewBar.                                                                 *)
Connect ==
    /\ at = "none"
    /\ conn' = TRUE /\ at' = "window"
    /\ UNCHANGED <<style, window, gcs, mapped, screenVars, todo, showing, shown, ops, faults>>

CreateWindow ==
    /\ at = "window"
    /\ window' = TRUE /\ at' = "atoms"
    /\ UNCHANGED <<style, conn, gcs, mapped, screenVars, todo, showing, shown, ops, faults>>

(* The window manager is asked to keep the window above the others. *)
AlwaysOnTop ==
    /\ at = "atoms" /\ at' = "colors"
    /\ UNCHANGED <<barVars, mapped, screenVars, todo, showing, shown, ops, faults>>

(* The three contexts of one of the four sets of colors. *)
CreateColors ==
    /\ at = "colors"
    /\ gcs' = gcs + 3 /\ at' = IF gcs' = 12 THEN "idle" ELSE at
    /\ UNCHANGED <<style, conn, window, mapped, screenVars, todo, showing, shown, ops, faults>>

(* An error closes what there is, but not when the atoms are refused. *)
NewBarFails ==
    /\ Refused /\ at' = "failed"
    /\ \/ at \in {"window", "colors"} /\ Closed
       \/ at = "none" /\ UNCHANGED <<conn, window, gcs, mapped, visible>>
       \/ at = "atoms" /\ UNCHANGED <<conn, window, gcs, mapped, visible>>
    /\ UNCHANGED <<style, onTop, lowered, picture, todo, showing, shown, ops>>

-----------------------------------------------------------------------------
Op == at = "idle" /\ ops < MaxOps /\ ops' = ops + 1

(* A bar without a range divides by zero, after it has painted its frame. *)
Show(a) ==
    /\ Op
    /\ showing' = a /\ shown' = NoShow
    /\ todo' = IF a.cap = 0 THEN DrawEmpty(style, Colors(a)) ELSE Drawings(style, a)
    /\ at' = IF mapped THEN "draw" ELSE "map"
    /\ UNCHANGED <<barVars, mapped, screenVars, faults>>

(* The flag is set before the window is raised.  Other windows may have come
   over it while it was not mapped. *)
Map ==
    /\ at = "map"
    /\ visible' = TRUE /\ mapped' = TRUE /\ at' = "raise"
    /\ onTop' = FALSE /\ lowered' = FALSE
    /\ UNCHANGED <<barVars, picture, todo, showing, shown, ops, faults>>

Raise ==
    /\ at = "raise"
    /\ onTop' = TRUE /\ at' = "draw"
    /\ UNCHANGED <<barVars, mapped, visible, lowered, picture, todo, showing, shown, ops, faults>>

(* A rectangle over the whole window covers all that was painted before. *)
Covers(r) == r.from = 0 /\ r.to = 2 * Fat(style) + Length(style) - 1

Draw ==
    /\ at = "draw" /\ todo # << >>
    /\ picture' = IF Covers(Head(todo)) THEN <<Head(todo)>> ELSE Append(picture, Head(todo))
    /\ todo' = Tail(todo)
    /\ UNCHANGED <<barVars, at, mapped, visible, onTop, lowered, showing, shown, ops, faults>>

ShowReturns ==
    /\ at = "draw" /\ todo = << >>
    /\ IF showing.cap = 0 THEN at' = "panic" /\ shown' = NoShow
                          ELSE at' = "idle" /\ shown' = showing
    /\ showing' = NoShow
    /\ UNCHANGED <<barVars, mapped, screenVars, todo, ops, faults>>

ShowFails ==
    /\ at \in {"map", "raise"} \/ (at = "draw" /\ todo # << >>)
    /\ Refused
    /\ at' = "idle" /\ todo' = << >> /\ showing' = NoShow
    /\ lowered' = (lowered \/ at = "raise")
    /\ UNCHANGED <<barVars, mapped, visible, onTop, picture, shown, ops>>

(* Mutant: the flag stays. *)
HideStaysMapped ==
    /\ Op
    /\ \/ visible' = FALSE /\ mapped' = mapped /\ shown' = NoShow /\ UNCHANGED faults
       \/ Refused /\ UNCHANGED <<visible, mapped, shown>>
    /\ UNCHANGED <<barVars, at, onTop, lowered, picture, todo, showing>>

Hide ==
    /\ Op
    /\ \/ visible' = FALSE /\ mapped' = FALSE /\ shown' = NoShow /\ UNCHANGED faults
       \/ Refused /\ UNCHANGED <<visible, mapped, shown>>
    /\ UNCHANGED <<barVars, at, onTop, lowered, picture, todo, showing>>

Close ==
    /\ Op
    /\ Closed /\ at' = "closed" /\ shown' = NoShow
    /\ UNCHANGED <<style, onTop, lowered, picture, todo, showing, faults>>

Next ==
    \/ Connect \/ CreateWindow \/ AlwaysOnTop \/ CreateColors \/ NewBarFails
    \/ Map \/ Raise \/ Draw \/ ShowReturns \/ ShowFails
    \/ Hide \/ Close
    \/ \E a \in Shows : Show(a)

Safe == Init /\ [][Next]_vars

-----------------------------------------------------------------------------
(* The color of a pixel: of the last rectangle that covers it. *)
Pixel(i) ==
    LET covers == {k \in 1 .. Len(picture) : picture[k].from <= i /\ i <= picture[k].to}
        last == CHOOSE k \in covers : \A j \in covers : j <= k
    IN  [set |-> picture[last].set, part |-> picture[last].part]

(* The pixels of the content, counted from the empty end. *)
Content(i) == Pixel(IF Horizontal(style) THEN Fat(style) + i ELSE Fat(style) + Length(style) - 1 - i)

(* A pixel tells how much fits: it is lit when the value reaches it. *)
Reads(a) ==
    \A i \in 0 .. Length(style) - 1 :
        IF a.value <= a.cap
        THEN Content(i) = [set |-> Within(a),
                           part |-> IF (i + 1) * a.cap <= a.value * Length(style) THEN "fg" ELSE "bg"]
        ELSE \/ Content(i) = [set |-> Colors(a), part |-> "fg"]
                /\ (a.proportional => (i + 1) * a.value > a.cap * Length(style)
                                      \/ a.cap * Length(style) < (style.padding + 1) * a.value)
             \/ /\ a.proportional
                /\ Content(i).set = Within(a)
                /\ Content(i).part = "fg" => (i + 1) * a.value <= a.cap * Length(style)

(* Around the content there is the padding, the border and the outline. *)
Framed ==
    \A i \in 0 .. 2 * Fat(style) + Length(style) - 1 :
        LET d == IF i < Fat(style) + Length(style) THEN i ELSE 2 * Fat(style) + Length(style) - 1 - i
        IN  d < Fat(style) =>
               Pixel(i).part = IF d >= style.outline /\ d < style.outline + style.border
                               THEN "border" ELSE "bg"

(* A bar that is anchored is on the screen, unless its offset reaches further
   than there is room. *)
Room(d, screen, size) ==
    CASE d.rel = 0 -> d.abs \in 0 .. screen - size
      [] d.rel = 10 -> -d.abs \in 0 .. screen - size
      [] OTHER -> d.abs = 0 /\ size <= screen

OnScreen(win) == win.x >= 0 /\ win.y >= 0 /\ win.x + win.w <= Screen.w /\ win.y + win.h <= Screen.h

AnchorsHold ==
    Room(style.x, Screen.w, SizeX(style)) /\ Room(style.y, Screen.h, SizeY(style))
        => OnScreen(Window(style))

(* A Show that succeeds leaves a visible window, on the screen, that says how much of the
   range the value is, and beyond it how much of the value the range is,
   whatever an earlier operation left half done.  It is above the other
   windows, unless an earlier Show was refused to raise it: the flag Mapped is
   set by then, so that no Show raises it before it has been hidden. *)
ShowShows ==
    at = "idle" /\ shown # NoShow =>
        visible /\ (onTop \/ lowered) /\ AnchorsHold /\ Framed /\ Reads(shown)

(* What the comment on NewBar asks for, without exception.  The code does not
   keep it: after a Show that could not raise the window the next one succeeds
   with the window where it is. *)
AlwaysAbove == at = "idle" /\ shown # NoShow => onTop

(* A bar that cannot be made leaves nothing on the server, unless it is the
   request to keep it on top that failed. *)
OnlyAtomsLeak == at = "failed" /\ conn => window /\ gcs = 0 /\ ~visible
=============================================================================
