------------------------------- MODULE MCParts -------------------------------
(***************************************************************************)
(* The sample modules and the overlay bar with bounds, and inputs chosen   *)
(* so that every action is taken, for TLC.                                 *)
(***************************************************************************)
EXTENDS Parts

MCMaxChanges ==
    [pulse |-> 1, ddc |-> 2, cmus |-> 2, bus |-> 4, xrandr |-> 2, polled |-> 2, gamma |-> 1]
MCMaxClicks ==
    [pulse |-> 1, ddc |-> 1, cmus |-> 1, bus |-> 1, xrandr |-> 2, polled |-> 1, gamma |-> 2]

(* The devices of a server in either order, and without one of them. *)
Setup(snk, d, e) == [list |-> [snk |-> snk, src |-> <<"m", "x">>], def |-> [snk |-> d, src |-> e]]

MCSetups ==
    {Setup(s, d, e) : s \in {<<"a", "b">>, <<"b", "a">>}, d \in {"a", "b"}, e \in {"m", "x"}}
    \cup {Setup(<<"b">>, "b", e) : e \in {"m", "x"}}

MCForeign == {[muted |-> TRUE, vol |-> 2]}

Preset(b, c) == [br |-> b, cn |-> c]
Config(show, blind, hide, presets) ==
    [show |-> show, blind |-> blind, hide |-> hide, presets |-> presets]

MCConfigs ==
    {Config({"br", "cn"}, FALSE, TRUE, << >>),
     Config({"br"}, FALSE, FALSE, <<Preset(20, 50), Preset(101, 50)>>),
     Config({"cn"}, TRUE, TRUE, << >>)}

(* Two monitors of different sizes, of which too wide arrangements are left out. *)
Size == <<[w |-> 3, h |-> 2], [w |-> 2, h |-> 3]>>
Plan == INSTANCE Layouts

Limits == [minW |-> 1, maxW |-> 5, minH |-> 1, maxH |-> 4]
MCLayoutsOf ==
    <<Plan!LayoutsFor(1, 2, Size[1], Size[2], Limits),
      Plan!LayoutsFor(2, 1, Size[2], Size[1], Limits)>>
MCCustom == <<Plan!Crtc(1, 1, 0, Size[1]), Plan!Crtc(1, 0, 1, Size[2])>>

MCStart ==
    [fan |-> <<"chip", "none">>, disk |-> "low", memory |-> "low", time |-> "low",
     cpu |-> 2, wifi |-> <<"up", "ap">>, interfaces |-> <<1, 0>>, backlight |-> "low"]

MCScreen == [w |-> 40, h |-> 30]

Look == INSTANCE Style

Thin(s) == Look!With(s, "thickness", 2)

MCStyles ==
    {Look!Anchor(Thin(Look!I3Style), "last", "first", 3),
     Look!Anchor(Thin(Look!DefaultStyle), "middle", "last", 4),
     Look!With(Look!With(Look!Anchor(Thin(Look!I3Style), "first", "middle", 2),
                         "orientation", "horizontal"),
               "padding", 1)}

Call(v, cap, mode, proportional) ==
    [value |-> v, cap |-> cap, mode |-> mode, proportional |-> proportional]

MCShows ==
    {Call(0, 7, "normal", FALSE), Call(3, 7, "alt", FALSE), Call(7, 7, "normal", TRUE),
     Call(-1, 7, "normal", FALSE), Call(9, 7, "alt", FALSE), Call(9, 7, "normal", TRUE),
     Call(3, 0, "normal", FALSE)}
=============================================================================
