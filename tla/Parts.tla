-------------------------------- MODULE Parts ---------------------------------
(***************************************************************************)
(* The sample modules and the overlay bar, each in a behaviour of its own: *)
(* which of them a behaviour is about is chosen first and never changes,   *)
(* and the variables of the others keep the value Unused.  A variable of   *)
(* one name is shared by the modules that have it.                         *)
(***************************************************************************)
EXTENDS Integers, Sequences

CONSTANTS
    \* every part: the bounds of the changes around it and of its clicks
    MaxChanges, MaxClicks,
    \* PulseModule
    PulseKinds, Setups, Monitors, Foreign, MaxVolume,
    \* DDCModule
    Configs, Supported, Values, Top,
    \* CmusModule and BusModule
    Volumes, CmusCap, BusKinds, BusCap,
    \* XRandR
    LayoutsOf, Custom,
    \* PolledModules
    PolledKinds, Start, Groups, ViewMod, HideIfOff,
    \* GammaX11
    Crtcs, Solar, Step,
    \* Overlay
    Screen, Styles, Shows, MaxOps, MaxFaults,
    \* what there is in place of nothing
    NoName, NoValue, NoShow, NoWhite, Absent, Unused

ASSUME GammaAssumption ==
    /\ Crtcs \subseteq Nat /\ Solar \subseteq Int /\ Step \in Int
    /\ NoWhite \notin Int /\ Absent \notin Int
    /\ MaxChanges["gamma"] \in Nat /\ MaxClicks["gamma"] \in Nat

(* A style leaves room for its frame on the screen, either way. *)
Dims == [rel : Int, abs : Int]
ASSUME OverlayAssumption ==
    /\ Screen \in [w : Nat, h : Nat]
    /\ \A s \in Styles :
         /\ s.x \in Dims /\ s.y \in Dims /\ s.length \in Dims
         /\ s.thickness \in Nat /\ s.border \in Nat /\ s.padding \in Nat /\ s.outline \in Nat
         /\ s.orientation \in {"horizontal", "vertical"}
         /\ 2 * (s.padding + s.border + s.outline) <= Screen.w
         /\ 2 * (s.padding + s.border + s.outline) <= Screen.h
    /\ Shows \subseteq [value : Int, cap : Nat, mode : STRING, proportional : BOOLEAN]

VARIABLES
    which,
    conn, connected, at, bar, changes, clicks, stopped, running, ch, kind,
    events, tick,
    setup, level, event, subscribed, updates, def, list, sel, exp, idx, cmd,
    opts, monitor, granted, real, ci, unauthorized, has, cur, max, skip, want,
    status, volume, wire, registered, missed, state, view, ticking, vol,
    value, lost, fetched,
    primary, crtcs, outputs, layouts, active, selecting, selection,
    world, mem, elapsed, told, swapped, moved, unseen,
    sun, crtc, white, writer, disabled, override, temperature, raced,
    style, window, gcs, mapped, visible, onTop, lowered, picture, todo, showing,
    shown, ops, faults

pulseOnly == <<setup, level, event, subscribed, updates, def, list, sel, exp,
    idx, cmd>>
ddcOnly == <<opts, monitor, granted, real, ci, unauthorized, has, cur, max,
    skip, want>>
cmusOnly == <<status, volume, wire, registered, missed, state, view, ticking,
    vol>>
busOnly == <<value, lost, fetched>>
xrandrOnly == <<primary, crtcs, outputs, layouts, active, selecting,
    selection>>
polledOnly == <<world, mem, elapsed, told, swapped, moved, unseen>>
gammaOnly == <<sun, crtc, white, writer, disabled, override, temperature,
    raced>>
overlayOnly == <<style, window, gcs, mapped, visible, onTop, lowered, picture,
    todo, showing, shown, ops, faults>>
vars == <<which, conn, connected, at, bar, changes, clicks, stopped, running,
          ch, kind, events, tick, pulseOnly, ddcOnly, cmusOnly, busOnly,
          xrandrOnly, polledOnly, gammaOnly, overlayOnly>>

-----------------------------------------------------------------------------
(* The instances.                                                          *)
Pulse == INSTANCE PulseModule WITH
    Kinds <- PulseKinds, MaxChanges <- MaxChanges["pulse"], MaxClicks <- MaxClicks["pulse"]

(* A server has lists of devices that have names, and knows a default by name. *)
ASSUME PulseAssumption ==
    /\ PulseKinds \subseteq {"snk", "src"} /\ MaxVolume \in Nat
    /\ NoName \notin Pulse!Names /\ NoName \notin Monitors
    /\ \A l \in Foreign : l \in Pulse!Level
    /\ \A u \in Setups :
         /\ u.list \in [PulseKinds -> Seq(Pulse!Names)]
         /\ \A k \in PulseKinds : u.def[k] \in Pulse!Names \cup {NoName}

Ddc == INSTANCE DDCModule WITH
    MaxChanges <- MaxChanges["ddc"], MaxClicks <- MaxClicks["ddc"]

(* The monitor, and whoever sets it, knows numbers of 16 bits. *)
Values16 == 0 .. Ddc!Word - 1
Presets == [br : Values16, cn : Values16]
ASSUME DdcAssumption ==
    /\ Values \subseteq Values16 /\ Top \in Values16 /\ NoValue \notin Int
    /\ \A c \in Configs : c.presets \in Seq(Presets)

ASSUME CmusAssumption == Volumes \subseteq 0 .. 100 /\ CmusCap \in Nat \ {0}

Cmus == INSTANCE CmusModule WITH
    ChCap <- CmusCap, MaxChanges <- MaxChanges["cmus"], MaxClicks <- MaxClicks["cmus"]

ASSUME BusAssumption ==
    BusKinds \subseteq {"dunst", "power", "bluez", "battery", "mako"} /\ BusCap \in Nat

Bus == INSTANCE BusModule WITH
    Kinds <- BusKinds, ChCap <- BusCap,
    MaxChanges <- MaxChanges["bus"], MaxClicks <- MaxClicks["bus"]

(* The layouts of two outputs, each known by its label. *)
Place == [e : {0, 1}, x : Int, y : Int, w : Int, h : Int]
Labels == [kind : STRING, pri : {1, 2}]
ASSUME XRandRAssumption ==
    LayoutsOf \in [{1, 2} -> Seq([label : Labels, l : [pri : Place, sec : Place]])]

XRandR == INSTANCE XRandR WITH
    MaxChanges <- MaxChanges["xrandr"], MaxClicks <- MaxClicks["xrandr"]

Polled == INSTANCE PolledModules WITH
    Kinds <- PolledKinds, MaxChanges <- MaxChanges["polled"], MaxClicks <- MaxClicks["polled"]

ASSUME PolledAssumption ==
    /\ \A k \in PolledKinds : Start[k] \in Polled!Worlds(k)
    /\ ViewMod \in Nat \ {0}

Gamma == INSTANCE GammaX11 WITH
    MaxChanges <- MaxChanges["gamma"], MaxClicks <- MaxClicks["gamma"]

Overlay == INSTANCE Overlay

-----------------------------------------------------------------------------
(* The variables of the modules a behaviour is not about. *)
pulseUnused ==
    /\ setup = Unused /\ level = Unused /\ event = Unused /\ subscribed = Unused
    /\ updates = Unused /\ def = Unused /\ list = Unused /\ sel = Unused /\ exp = Unused
    /\ idx = Unused /\ cmd = Unused
ddcUnused ==
    /\ opts = Unused /\ monitor = Unused /\ granted = Unused /\ real = Unused
    /\ ci = Unused /\ unauthorized = Unused /\ has = Unused /\ cur = Unused
    /\ max = Unused /\ skip = Unused /\ want = Unused
cmusUnused ==
    /\ status = Unused /\ volume = Unused /\ wire = Unused /\ registered = Unused
    /\ missed = Unused /\ state = Unused /\ view = Unused /\ ticking = Unused
    /\ vol = Unused
busUnused ==
    /\ value = Unused /\ lost = Unused /\ fetched = Unused
xrandrUnused ==
    /\ primary = Unused /\ crtcs = Unused /\ outputs = Unused /\ layouts = Unused
    /\ active = Unused /\ selecting = Unused /\ selection = Unused
polledUnused ==
    /\ world = Unused /\ mem = Unused /\ elapsed = Unused /\ told = Unused
    /\ swapped = Unused /\ moved = Unused /\ unseen = Unused
gammaUnused ==
    /\ sun = Unused /\ crtc = Unused /\ white = Unused /\ writer = Unused
    /\ disabled = Unused /\ override = Unused /\ temperature = Unused /\ raced = Unused
overlayUnused ==
    /\ style = Unused /\ window = Unused /\ gcs = Unused /\ mapped = Unused
    /\ visible = Unused /\ onTop = Unused /\ lowered = Unused /\ picture = Unused /\ todo = Unused
    /\ showing = Unused /\ shown = Unused /\ ops = Unused /\ faults = Unused

Init ==
    \/ /\ which = "pulse" /\ Pulse!Init
       /\ ddcUnused /\ cmusUnused /\ busUnused /\ xrandrUnused /\ polledUnused
       /\ gammaUnused /\ overlayUnused
       /\ stopped = Unused /\ running = Unused /\ ch = Unused /\ kind = Unused
       /\ events = Unused /\ tick = Unused
    \/ /\ which = "ddc" /\ Ddc!Init
       /\ pulseUnused /\ cmusUnused /\ busUnused /\ xrandrUnused /\ polledUnused
       /\ gammaUnused /\ overlayUnused
       /\ conn = Unused /\ connected = Unused /\ running = Unused /\ ch = Unused
       /\ kind = Unused /\ events = Unused /\ tick = Unused
    \/ /\ which = "cmus" /\ Cmus!Init
       /\ pulseUnused /\ ddcUnused /\ busUnused /\ xrandrUnused /\ polledUnused
       /\ gammaUnused /\ overlayUnused
       /\ conn = Unused /\ connected = Unused /\ stopped = Unused /\ kind = Unused
       /\ events = Unused /\ tick = Unused
    \/ /\ which = "bus" /\ Bus!Init
       /\ pulseUnused /\ ddcUnused /\ cmusUnused /\ xrandrUnused /\ polledUnused
       /\ gammaUnused /\ overlayUnused
       /\ conn = Unused /\ connected = Unused /\ stopped = Unused /\ events = Unused
       /\ tick = Unused
    \/ /\ which = "xrandr" /\ XRandR!Init
       /\ pulseUnused /\ ddcUnused /\ cmusUnused /\ busUnused /\ polledUnused
       /\ gammaUnused /\ overlayUnused
       /\ conn = Unused /\ stopped = Unused /\ running = Unused /\ ch = Unused
       /\ kind = Unused /\ tick = Unused
    \/ /\ which = "polled" /\ Polled!Init
       /\ pulseUnused /\ ddcUnused /\ cmusUnused /\ busUnused /\ xrandrUnused
       /\ gammaUnused /\ overlayUnused
       /\ conn = Unused /\ connected = Unused /\ running = Unused /\ ch = Unused
       /\ events = Unused
    \/ /\ which = "gamma" /\ Gamma!Init
       /\ pulseUnused /\ ddcUnused /\ cmusUnused /\ busUnused /\ xrandrUnused
       /\ polledUnused /\ overlayUnused
       /\ conn = Unused /\ connected = Unused /\ stopped = Unused /\ running = Unused
       /\ ch = Unused /\ kind = Unused
    \/ /\ which = "overlay" /\ Overlay!Init
       /\ pulseUnused /\ ddcUnused /\ cmusUnused /\ busUnused /\ xrandrUnused
       /\ polledUnused /\ gammaUnused
       /\ connected = Unused /\ bar = Unused /\ changes = Unused /\ clicks = Unused
       /\ stopped = Unused /\ running = Unused /\ ch = Unused /\ kind = Unused
       /\ events = Unused /\ tick = Unused

(* What a step of a module leaves alone. *)
pulseFrame ==
    UNCHANGED <<which, stopped, running, ch, kind, events, tick, ddcOnly, cmusOnly,
                busOnly, xrandrOnly, polledOnly, gammaOnly, overlayOnly>>
ddcFrame ==
    UNCHANGED <<which, conn, connected, running, ch, kind, events, tick, pulseOnly,
                cmusOnly, busOnly, xrandrOnly, polledOnly, gammaOnly, overlayOnly>>
cmusFrame ==
    UNCHANGED <<which, conn, connected, stopped, kind, events, tick, pulseOnly, ddcOnly,
                busOnly, xrandrOnly, polledOnly, gammaOnly, overlayOnly>>
busFrame ==
    UNCHANGED <<which, conn, connected, stopped, events, tick, pulseOnly, ddcOnly,
                cmusOnly, xrandrOnly, polledOnly, gammaOnly, overlayOnly>>
xrandrFrame ==
    UNCHANGED <<which, conn, stopped, running, ch, kind, tick, pulseOnly, ddcOnly,
                cmusOnly, busOnly, polledOnly, gammaOnly, overlayOnly>>
polledFrame ==
    UNCHANGED <<which, conn, connected, running, ch, events, pulseOnly, ddcOnly, cmusOnly,
                busOnly, xrandrOnly, gammaOnly, overlayOnly>>
gammaFrame ==
    UNCHANGED <<which, conn, connected, stopped, running, ch, kind, pulseOnly, ddcOnly,
                cmusOnly, busOnly, xrandrOnly, polledOnly, overlayOnly>>
overlayFrame ==
    UNCHANGED <<which, connected, bar, changes, clicks, stopped, running, ch, kind,
                events, tick, pulseOnly, ddcOnly, cmusOnly, busOnly, xrandrOnly,
                polledOnly, gammaOnly>>

Next ==
    \/ which = "pulse" /\ Pulse!Next /\ pulseFrame
    \/ which = "ddc" /\ Ddc!Next /\ ddcFrame
    \/ which = "cmus" /\ Cmus!Next /\ cmusFrame
    \/ which = "bus" /\ Bus!Next /\ busFrame
    \/ which = "xrandr" /\ XRandR!Next /\ xrandrFrame
    \/ which = "polled" /\ Polled!Next /\ polledFrame
    \/ which = "gamma" /\ Gamma!Next /\ gammaFrame
    \/ which = "overlay" /\ Overlay!Next /\ overlayFrame

(* The modules and the bus run, tickers tick, and so does the goroutine of
   the gamma manager; a select that can take a signal again and again takes
   one in the end.  These are the conditions of the Spec of each module. *)
Runs ==
    \/ which = "pulse" /\ Pulse!Round /\ pulseFrame
    \/ which = "ddc" /\ Ddc!Round /\ ddcFrame
    \/ which = "cmus" /\ Cmus!Round /\ cmusFrame
    \/ which = "bus" /\ Bus!Round /\ busFrame
    \/ which = "xrandr" /\ XRandR!Round /\ xrandrFrame
    \/ which = "polled" /\ Polled!Run /\ polledFrame
    \/ which = "gamma" /\ Gamma!Run /\ gammaFrame

Delivers ==
    \/ which = "pulse" /\ Pulse!Notify /\ pulseFrame
    \/ which = "cmus" /\ Cmus!Deliver /\ cmusFrame
    \/ which = "polled" /\ Polled!Tick /\ polledFrame
    \/ which = "gamma" /\ Gamma!Tick /\ gammaFrame

Spec ==
    /\ Init /\ [][Next]_vars
    /\ WF_vars(Runs) /\ WF_vars(Delivers)
    /\ WF_vars(which = "gamma" /\ Gamma!EventLoop /\ gammaFrame)
    /\ SF_vars(which = "cmus" /\ Cmus!HandleSignal /\ cmusFrame)

-----------------------------------------------------------------------------
(* Every variable of every module keeps its type: in particular the index of
   a device, a brightness and a percentage stay in their ranges. *)
TypesOK ==
    /\ which = "pulse" => Pulse!TypeOK
    /\ which = "ddc" => Ddc!TypeOK
    /\ which = "cmus" => Cmus!TypeOK
    /\ which = "bus" => Bus!TypeOK
    /\ which = "xrandr" => XRandR!TypeOK
    /\ which = "polled" => Polled!TypeOK
    /\ which = "gamma" => Gamma!TypeOK
    /\ which = "overlay" => Overlay!TypeOK

(* The device a user has selected stays in view while the server reorders its
   list (pulseaudio.go). *)
SelectionSticks == which = "pulse" => Pulse!SelectionSticks

(* What must not be shown is not: a monitor source that nobody chose
   (pulseaudio.go), a wireless link that has gone (wifi.go). *)
HidesWhatItMust ==
    [][/\ which = "pulse" => Pulse!HidesMonitors
       /\ which = "polled" => Polled!HidesStaleLinks]_vars

(* Nothing fails but for the reasons that are known.  No step of the wheel asks
   a monitor for more than its maximum (ddc.go), a seek finds no player only
   when a signal was lost (cmus.go), no click makes a module fail unless what
   it samples has changed, or was never sampled because the bar was stopped
   (cpu.go), and a bar that cannot be made leaves nothing behind but for one
   request (xob.go). *)
OnlyKnownFailures ==
    /\ which = "ddc" => Ddc!StepsStayInRange
    /\ which = "cmus" => Cmus!OnlyLostSignalsPanic
    /\ which = "polled" => Polled!ClicksNeverFail
    /\ which = "overlay" => Overlay!OnlyAtomsLeak

(* A Show that succeeds leaves a window that is visible and tells the value,
   whatever the operations before it left half done, and is above the others
   unless one of them was refused to raise it (xob.go). *)
ShowShows == which = "overlay" => Overlay!ShowShows

(* Only two goroutines that set the gamma ramps at once leave an older white
   point behind (redshift/x11.go). *)
OnlyRacesMistint == which = "gamma" => Gamma!OnlyRacesMistint

Undisturbed ==
    /\ which = "pulse" => Pulse!Undisturbed
    /\ which = "ddc" => Ddc!Undisturbed
    /\ which = "cmus" => Cmus!Undisturbed
    /\ which = "bus" => Bus!Undisturbed
    /\ which = "xrandr" => XRandR!Undisturbed
    /\ which = "polled" => Polled!Undisturbed

CaughtUp ==
    /\ which = "pulse" => Pulse!CaughtUp
    /\ which = "ddc" => Ddc!CaughtUp
    /\ which = "cmus" => Cmus!CaughtUp
    /\ which = "bus" => Bus!CaughtUp
    /\ which = "xrandr" => XRandR!CaughtUp
    /\ which = "polled" => Polled!CaughtUp
    /\ which = "gamma" => Gamma!CaughtUp

(* Whatever came before, every module shows in the end what is the case, when
   that no longer changes: the devices and defaults of the server, the
   settings of the monitor, the player, the service, the arrangement of the
   monitors, the sample, the white point of every CRTC. *)
ViewsCatchUp == <>[]Undisturbed => <>[]CaughtUp
=============================================================================
