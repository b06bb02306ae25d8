-------------------------------- MODULE XRandR --------------------------------
(***************************************************************************)
(* The XRandR module of i3status-custom.  With exactly two monitors it     *)
(* offers seven layouts, tells which one is active, and applies the one    *)
(* the user has scrolled to.  Other programs change the monitors at any    *)
(* time, also between the requests of one round; every change is an event  *)
(* that starts another round.                                              *)
(***************************************************************************)
EXTENDS Lists

CONSTANTS
    LayoutsOf,      \* the layouts of the outputs 1 and 2 by the primary one: see Layouts
    Custom,         \* an arrangement none of the layouts makes
    MaxChanges,     \* bound: changes by others
    MaxClicks       \* bound: clicks

VARIABLES
    connected,      \* external: the connected outputs
    primary,        \* external: the primary output
    crtcs,          \* external: the arrangement: e, x, y, w, h of each output
    events,         \* external: whether a change has not been told to the module
    at,             \* where the goroutine of Run is
    outputs,        \* the connected outputs as fetched, the primary one first
    layouts, active, \* as computed by the last round
    selecting, selection, \* layoutSelecting and layoutSelection
    bar,            \* what the last Update rendered
    changes, clicks

serverVars == <<connected, primary, crtcs, events>>
roundVars == <<outputs, layouts, active, selecting, selection>>
vars == <<serverVars, at, roundVars, bar, changes, clicks>>

NoLabel == [kind |-> "none", pri |-> 0]

-----------------------------------------------------------------------------
(* Where an output is, as far as it is on. *)
SamePlace(c, d) == c.e = d.e /\ (c.e = 1 => c = d)

(* The label of the first layout that is what the server has. *)
Active(ls, pri, sec, current) ==
    LET matches == {i \in 1 .. Len(ls) : /\ SamePlace(ls[i].l.pri, current[pri])
                                         /\ SamePlace(ls[i].l.sec, current[sec])}
    IN  IF matches = {} THEN NoLabel ELSE ls[First(matches)].label

HasLabel(ls, label) == \E i \in 1 .. Len(ls) : ls[i].label = label
IndexOf(ls, label) == First({i \in DOMAIN ls : ls[i].label = label})

-----------------------------------------------------------------------------
TypeOK ==
    /\ connected \subseteq {1, 2} /\ primary \in {1, 2} /\ events \in BOOLEAN
    /\ at \in {"outputs", "crtcs", "render", "select", "failed"}
    /\ outputs \in Seq({1, 2}) /\ Len(outputs) <= 2
    /\ selecting \in BOOLEAN
    /\ active = NoLabel \/ HasLabel(layouts, active)
    /\ at \in {"render", "select"} => selection = NoLabel \/ HasLabel(layouts, selection)

Init ==
    /\ connected \in {{1}, {1, 2}} /\ primary = 1
    /\ crtcs = Custom /\ events = FALSE
    /\ at = "outputs" /\ outputs = << >> /\ layouts = << >> /\ active = NoLabel
    /\ selecting = FALSE /\ selection = NoLabel
    /\ bar = [label |-> NoLabel, active |-> FALSE]
    /\ changes = 0 /\ clicks = 0

(* Others connect, disconnect and arrange monitors. *)
ServerChanges ==
    /\ changes < MaxChanges /\ changes' = changes + 1
    /\ \/ connected' \in {{1}, {1, 2}} \ {connected} /\ UNCHANGED <<primary, crtcs>>
       \/ primary' = 3 - primary /\ UNCHANGED <<connected, crtcs>>
       \/ crtcs # Custom /\ crtcs' = Custom /\ UNCHANGED <<connected, primary>>
    /\ events' = TRUE
    /\ UNCHANGED <<at, roundVars, bar, clicks>>

(* The resources, the primary output and the connected outputs. *)
FetchOutputs ==
    /\ at = "outputs"
    /\ outputs' = IF connected = {1, 2} THEN <<primary, 3 - primary>> ELSE <<1>>
    /\ at' = "crtcs"
    /\ UNCHANGED <<serverVars, layouts, active, selecting, selection, bar, changes, clicks>>

(* The arrangement, the layouts, and what becomes of the selection: one that
   was scrolled to is kept while there is such a layout and it is not active;
   otherwise it is the active layout, or else the first. *)
FetchCrtcs ==
    /\ at = "crtcs"
    /\ layouts' = IF Len(outputs) = 2 THEN LayoutsOf[outputs[1]] ELSE << >>
    /\ active' = IF Len(outputs) = 2 THEN Active(layouts', outputs[1], outputs[2], crtcs) ELSE NoLabel
    /\ LET keep == selecting /\ HasLabel(layouts', selection)
       IN  /\ selection' = IF keep THEN selection ELSE IF active' # NoLabel THEN active'
                           ELSE IF layouts' # << >> THEN layouts'[1].label ELSE NoLabel
           /\ selecting' = (keep /\ selection # active')
    /\ at' = "render"
    /\ UNCHANGED <<serverVars, outputs, bar, changes, clicks>>

Render ==
    /\ at = "render"
    /\ bar' = [label |-> selection, active |-> HasLabel(layouts, selection) /\ selection = active]
    /\ at' = "select"
    /\ UNCHANGED <<serverVars, roundVars, changes, clicks>>

(* Mutant: the outputs are fetched once. *)
HandleEventKeepingOutputs ==
    /\ at = "select" /\ events
    /\ events' = FALSE /\ at' = "crtcs"
    /\ UNCHANGED <<connected, primary, crtcs, roundVars, bar, changes, clicks>>

(* The goroutine that waits for events passes every one of them on. *)
HandleEvent ==
    /\ at = "select" /\ events
    /\ events' = FALSE /\ at' = "outputs"
    /\ UNCHANGED <<connected, primary, crtcs, roundVars, bar, changes, clicks>>

-----------------------------------------------------------------------------
Click == at = "select" /\ clicks < MaxClicks /\ clicks' = clicks + 1

(* The middle button starts arandr; so may there be nothing to swap or to
   apply.  Another round begins all the same. *)
ClickNothing ==
    /\ Click
    /\ at' = "outputs"
    /\ UNCHANGED <<serverVars, roundVars, bar, changes>>

(* The other output becomes the primary one. *)
ClickSwap ==
    /\ Click /\ Len(outputs) = 2
    /\ primary' = outputs[2] /\ events' = TRUE
    /\ at' = "outputs"
    /\ UNCHANGED <<connected, crtcs, roundVars, bar, changes>>

(* xrandr puts the outputs where the selected layout has them, or fails. *)
ClickApply ==
    /\ Click /\ HasLabel(layouts, selection)
    /\ LET l == layouts[IndexOf(layouts, selection)].l
       IN  \/ /\ crtcs' = [o \in {1, 2} |-> IF o = outputs[1] THEN l.pri ELSE l.sec]
              /\ events' = TRUE /\ selecting' = FALSE /\ at' = "outputs"
           \/ at' = "failed" /\ UNCHANGED <<crtcs, events, selecting>>
    /\ UNCHANGED <<connected, primary, outputs, layouts, active, selection, bar, changes>>

(* The wheel goes around the layouts, and once past either end to none. *)
ClickScroll(step) ==
    /\ Click
    /\ selecting' = TRUE
    /\ LET i == (IndexOf(layouts, selection) + step) % (Len(layouts) + 1)
       IN  selection' = IF i = 0 THEN NoLabel ELSE layouts[i].label
    /\ at' = "render"
    /\ UNCHANGED <<serverVars, outputs, layouts, active, bar, changes>>

Round == FetchOutputs \/ FetchCrtcs \/ Render \/ HandleEvent

Next ==
    \/ ServerChanges \/ Round
    \/ ClickNothing \/ ClickSwap \/ ClickApply \/ ClickScroll(1) \/ ClickScroll(-1)

Safe == Init /\ [][Next]_vars

Spec == Safe /\ WF_vars(Round)

-----------------------------------------------------------------------------
(* Once the monitors are left alone the bar tells truly whether the layout it
   names is the one they are in. *)
Undisturbed == at # "failed"
CaughtUp ==
    bar.label # NoLabel =>
        /\ connected = {1, 2}
        /\ bar.active = (bar.label = Active(LayoutsOf[primary], primary, 3 - primary, crtcs))

LayoutCatchesUp == <>[]Undisturbed => <>[]CaughtUp

=============================================================================
