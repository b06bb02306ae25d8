----------------------------- MODULE StatusLine -----------------------------
(***************************************************************************)
(* What the render loop of barlib.go promises, with no lock, buffer or     *)
(* channel in sight: a module publishes whole frames, and the bar, at      *)
(* moments of its own choosing, shows the frame a module published last.   *)
(* It never shows a half-built frame, another module's frame, or one that  *)
(* has been replaced.                                                      *)
(***************************************************************************)
EXTENDS Integers

CONSTANTS
    Instances,      \* the modules passed to Main
    Frames,         \* what a module can render in one Update
    Blank           \* the frame of a module that has rendered nothing yet

VARIABLES
    published,      \* per instance, the last frame an Update submitted
    shown           \* per instance, the frame the last line written shows

vars == <<published, shown>>

Init ==
    /\ published = [i \in Instances |-> Blank]
    /\ shown = [i \in Instances |-> Blank]

(* One Update call replaces the frame of its instance. *)
Publish(i, f) ==
    /\ published' = [published EXCEPT ![i] = f]
    /\ UNCHANGED shown

(* The bar catches up with one instance. *)
Show(i) ==
    /\ shown' = [shown EXCEPT ![i] = published[i]]
    /\ UNCHANGED published

Next ==
    \E i \in Instances :
        \/ Show(i)
        \/ \E f \in Frames : Publish(i, f)

Spec == Init /\ [][Next]_vars
=============================================================================
