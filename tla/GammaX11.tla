------------------------------- MODULE GammaX11 -------------------------------
(***************************************************************************)
(* The Redshift module of i3status-custom over the X11 gamma manager.      *)
(*                                                                         *)
(* Two goroutines write the gamma ramps: the module, in Set, and the one   *)
(* that waits for events of the X server, whenever a CRTC has changed.     *)
(* Both read the white point under the lock and then set one CRTC after    *)
(* the other without it: the older white point may be written last.  The   *)
(* module sets the white point again at every tick.                        *)
(*                                                                         *)
(* A white point is known by its temperature; that of a module the user has *)
(* disabled is the one a CRTC has of itself.  The end of the connection is *)
(* not modelled.                                                           *)
(***************************************************************************)
EXTENDS Integers

CONSTANTS
    Crtcs,          \* the CRTCs, in the order of the X server
    Solar,          \* the temperatures the sun asks for, not 0
    Step,           \* the step of the wheel, 50 in the code
    NoWhite,        \* in place of a white point before the first Set
    Absent,         \* in place of what is on a CRTC that is not there
    MaxChanges,     \* bound: changes of the CRTCs, of the sun and of the bar
    MaxClicks       \* bound: clicks

VARIABLES
    sun,            \* external: what Solar answers
    crtc,           \* external: what each CRTC carries, or Absent
    events,         \* external: CrtcChange events on their way
    white,          \* m.white, or NoWhite
    writer,         \* the apply of each goroutine: its white point and the CRTCs to do
    at,             \* where the goroutine of the module is
    disabled, override, temperature, \* the locals of Run
    tick,           \* whether the channel of the ticker is full
    bar,            \* what the last Update rendered
    raced,          \* history: an apply has overlapped the last Set
    changes, clicks

server == <<sun, crtc, events>>
locals == <<disabled, override, temperature>>
vars == <<server, white, writer, at, locals, tick, bar, raced, changes, clicks>>

Plain == 0
Idle == [white |-> NoWhite, todo |-> {}]

White(off, t) == IF off THEN Plain ELSE t

TypeOK ==
    /\ sun \in Solar /\ events \in 0 .. MaxChanges
    /\ at \in {"top", "set", "update", "select"}
    /\ disabled \in BOOLEAN /\ override \in BOOLEAN /\ tick \in BOOLEAN /\ raced \in BOOLEAN
    /\ temperature \in Int /\ white \in Int \cup {NoWhite} /\ bar \in Int \cup {NoWhite}
    /\ crtc \in [Crtcs -> Int \cup {Absent}]
    /\ writer \in [{"set", "event"} -> [white : Int \cup {NoWhite}, todo : SUBSET Crtcs]]

Init ==
    /\ sun \in Solar /\ crtc \in [Crtcs -> {Plain, Absent}] /\ events = 0
    /\ white = NoWhite /\ writer = [w \in {"set", "event"} |-> Idle]
    /\ at = "top" /\ disabled = FALSE /\ override = FALSE /\ temperature = 0
    /\ tick = FALSE /\ bar = NoWhite /\ raced = FALSE
    /\ changes = 0 /\ clicks = 0

-----------------------------------------------------------------------------
Changes == changes < MaxChanges /\ changes' = changes + 1

(* A CRTC goes, comes, or loses its ramp in a mode change. *)
CrtcChanges(c, v) ==
    /\ Changes /\ crtc[c] # v
    /\ crtc' = [crtc EXCEPT ![c] = v] /\ events' = events + 1
    /\ UNCHANGED <<sun, white, writer, at, locals, tick, bar, raced, clicks>>

SunMoves ==
    /\ Changes
    /\ sun' \in Solar \ {sun}
    /\ UNCHANGED <<crtc, events, white, writer, at, locals, tick, bar, raced, clicks>>

Tick ==
    /\ ~tick /\ tick' = TRUE
    /\ UNCHANGED <<server, white, writer, at, locals, bar, raced, changes, clicks>>

-----------------------------------------------------------------------------
(* apply: the white point is read, the CRTCs are asked for ... *)
Begin(w, wh) ==
    writer' = [writer EXCEPT ![w] = [white |-> wh, todo |-> {c \in Crtcs : crtc[c] # Absent}]]

(* ... and set one by one; to set one that has gone fails. *)
SetCrtc(w) ==
    /\ \E c \in writer[w].todo :
         /\ \A d \in writer[w].todo : c <= d
         /\ crtc' = [crtc EXCEPT ![c] = IF @ = Absent THEN @ ELSE writer[w].white]
         /\ writer' = [writer EXCEPT ![w].todo = @ \ {c}]
    /\ UNCHANGED <<sun, events, white, at, locals, tick, bar, raced, changes, clicks>>

(* Mutant: an event is left to the Set in progress. *)
HandleEventUnlessSetting ==
    /\ events > 0 /\ writer["event"] = Idle
    /\ events' = events - 1
    /\ IF white = NoWhite \/ writer["set"] # Idle
          THEN UNCHANGED <<writer, raced>>
          ELSE Begin("event", white) /\ raced' = raced
    /\ UNCHANGED <<sun, crtc, white, at, locals, tick, bar, changes, clicks>>

(* The goroutine that waits for events. *)
HandleEvent ==
    /\ events > 0 /\ writer["event"] = Idle
    /\ events' = events - 1
    /\ IF white = NoWhite
          THEN UNCHANGED <<writer, raced>>
          ELSE Begin("event", white) /\ raced' = (raced \/ writer["set"] # Idle)
    /\ UNCHANGED <<sun, crtc, white, at, locals, tick, bar, changes, clicks>>

EventApplied ==
    /\ writer["event"] # Idle /\ writer["event"].todo = {}
    /\ writer' = [writer EXCEPT !["event"] = Idle]
    /\ UNCHANGED <<server, white, at, locals, tick, bar, raced, changes, clicks>>

-----------------------------------------------------------------------------
(* Mutant: a white point that has not changed is not set again. *)
SetWhiteOnce ==
    /\ at = "top"
    /\ temperature' = IF override THEN temperature ELSE sun
    /\ white' = White(disabled, temperature')
    /\ at' = IF white' = white THEN "update" ELSE "set"
    /\ UNCHANGED <<server, writer, disabled, override, tick, bar, raced, changes, clicks>>

(* The top of the loop: the temperature, unless the user has chosen one, and
   Set, which stores the white point ... *)
SetWhite ==
    /\ at = "top"
    /\ temperature' = IF override THEN temperature ELSE sun
    /\ white' = White(disabled, temperature')
    /\ at' = "set"
    /\ UNCHANGED <<server, writer, disabled, override, tick, bar, raced, changes, clicks>>

(* ... and applies it. *)
SetBegins ==
    /\ at = "set" /\ writer["set"] = Idle
    /\ Begin("set", white)
    /\ raced' = (writer["event"] # Idle)
    /\ UNCHANGED <<server, white, at, locals, tick, bar, changes, clicks>>

SetReturns ==
    /\ at = "set" /\ writer["set"] # Idle /\ writer["set"].todo = {}
    /\ writer' = [writer EXCEPT !["set"] = Idle]
    /\ at' = "update"
    /\ UNCHANGED <<server, white, locals, tick, bar, raced, changes, clicks>>

Update ==
    /\ at = "update"
    /\ bar' = White(disabled, temperature)
    /\ at' = "select"
    /\ UNCHANGED <<server, white, writer, locals, tick, raced, changes, clicks>>

WakeTick ==
    /\ at = "select" /\ tick
    /\ tick' = FALSE /\ at' = "top"
    /\ UNCHANGED <<server, white, writer, locals, bar, raced, changes, clicks>>

(* The bar is stopped or continued; the module goes on either way. *)
WakeStopped ==
    /\ at = "select" /\ Changes
    /\ at' = "top"
    /\ UNCHANGED <<server, white, writer, locals, tick, bar, raced, clicks>>

(* The left button goes back to the sun, or turns the module off or on. *)
ClickToggle ==
    /\ at = "select" /\ clicks < MaxClicks /\ clicks' = clicks + 1
    /\ IF ~disabled /\ override
          THEN override' = FALSE /\ UNCHANGED disabled
          ELSE disabled' = ~disabled /\ UNCHANGED override
    /\ at' = "top"
    /\ UNCHANGED <<server, white, writer, temperature, tick, bar, raced, changes>>

(* The wheel chooses a temperature, however low or high. *)
ClickWheel(step) ==
    /\ at = "select" /\ clicks < MaxClicks /\ clicks' = clicks + 1
    /\ disabled' = FALSE /\ override' = TRUE
    /\ temperature' = temperature + step
    /\ at' = "top"
    /\ UNCHANGED <<server, white, writer, tick, bar, raced, changes>>

EventLoop == HandleEvent \/ SetCrtc("event") \/ EventApplied
Run == SetWhite \/ SetBegins \/ SetCrtc("set") \/ SetReturns \/ Update \/ WakeTick

Next ==
    \/ \E c \in Crtcs, v \in {Plain, Absent} : CrtcChanges(c, v)
    \/ SunMoves \/ Tick
    \/ EventLoop \/ Run \/ WakeStopped
    \/ ClickToggle \/ ClickWheel(Step) \/ ClickWheel(-Step)

Safe == Init /\ [][Next]_vars

(* The ticker and both goroutines run. *)
Spec == Safe /\ WF_vars(Tick) /\ WF_vars(EventLoop) /\ WF_vars(Run)

-----------------------------------------------------------------------------
(* Only two applies at once leave an old white point behind: after a Set that
   no other apply has overlapped, every CRTC that has nothing to say carries
   the newest one. *)
OnlyRacesMistint ==
    /\ at \in {"update", "select"} /\ ~raced
    /\ events = 0 /\ writer["event"] = Idle
    => \A c \in Crtcs : crtc[c] \in {Absent, white}

(* And even that is repaired: once CRTCs, sun and user rest, every CRTC carries
   the white point the bar shows. *)
CaughtUp == at = "select" => white = bar /\ \A c \in Crtcs : crtc[c] \in {Absent, white}

TintCatchesUp == <>[]CaughtUp
=============================================================================
