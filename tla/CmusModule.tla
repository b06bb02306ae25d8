------------------------------ MODULE CmusModule ------------------------------
(***************************************************************************)
(* The CMUS module of i3status-custom: a view of a player on the session   *)
(* bus, kept by its signals and by requests.                               *)
(*                                                                         *)
(* The player starts, quits and changes at any time.  The bus delivers     *)
(* signals in the order they were sent, but only to a channel that has     *)
(* been registered, and none to a channel that is full.  A request is      *)
(* answered after the signals sent before it.                              *)
(***************************************************************************)
EXTENDS Integers, Sequences, Functions

CONSTANTS
    Volumes,        \* the volumes the player may be set to from elsewhere
    ChCap,          \* the capacity of ch, 6 in the code
    MaxChanges,     \* bound: changes of the player
    MaxClicks       \* bound: clicks

VARIABLES
    running,        \* external: whether the player is on the bus
    status, volume, \* external: its status and volume
    wire,           \* external: signals sent and not delivered
    registered,     \* whether conn.Signal has been called
    ch,             \* the channel of signals
    missed,         \* history: whether a signal has been lost since ListNames
    at,             \* where the goroutine of Run is
    state,          \* object, status, volume
    view,
    ticking,        \* whether the ticker has a period
    vol,            \* the volume a turn of the wheel has fetched
    bar,            \* what the last Update rendered
    changes, clicks

playerVars == <<running, status, volume>>
busVars == <<wire, registered, ch, missed>>
vars == <<playerVars, busVars, at, state, view, ticking, vol, bar, changes, clicks>>

Statuses == {"Playing", "Paused", "Stopped"}
Signals == [kind : {"owner"}, up : BOOLEAN] \cup [kind : {"seeked"}]
           \cup [kind : {"status"}, status : Statuses] \cup [kind : {"volume"}, volume : 0 .. 100]

NoPlayer == [object |-> FALSE, status |-> "", volume |-> 0]
NewPlayer == [object |-> TRUE, status |-> "", volume |-> 0]

TypeOK ==
    /\ running \in BOOLEAN /\ status \in Statuses /\ volume \in 0 .. 100
    /\ wire \in Seq(Signals) /\ ch \in Seq(Signals) /\ Len(ch) <= ChCap
    /\ registered \in BOOLEAN /\ missed \in BOOLEAN /\ ticking \in BOOLEAN
    /\ at \in {"list", "register", "render", "select", "fetch status", "fetch volume",
               "fetch position", "set volume", "failed", "panic"}
    /\ state \in [object : BOOLEAN, status : Statuses \cup {""}, volume : 0 .. 100]
    /\ view \in Nat /\ vol \in 0 .. 100

Init ==
    /\ running \in BOOLEAN /\ status = "Stopped" /\ volume \in Volumes
    /\ wire = << >> /\ registered = FALSE /\ ch = << >> /\ missed = FALSE
    /\ at = "list" /\ state = NoPlayer /\ view = 0
    /\ ticking = FALSE /\ vol = 0
    /\ bar = NoPlayer
    /\ changes = 0 /\ clicks = 0

-----------------------------------------------------------------------------
(* The player and the bus.                                                 *)
Send(sig) == wire' = Append(wire, sig)

PlayerStarts ==
    /\ ~running /\ changes < MaxChanges /\ changes' = changes + 1
    /\ running' = TRUE /\ status' = "Stopped" /\ volume' \in Volumes
    /\ Send([kind |-> "owner", up |-> TRUE])
    /\ UNCHANGED <<registered, ch, missed, at, state, view, ticking, vol, bar, clicks>>

PlayerQuits ==
    /\ running /\ changes < MaxChanges /\ changes' = changes + 1
    /\ running' = FALSE /\ UNCHANGED <<status, volume>>
    /\ Send([kind |-> "owner", up |-> FALSE])
    /\ UNCHANGED <<registered, ch, missed, at, state, view, ticking, vol, bar, clicks>>

PlayerChanges ==
    /\ running /\ changes < MaxChanges /\ changes' = changes + 1
    /\ \/ /\ status' \in Statuses \ {status} /\ UNCHANGED volume
          /\ Send([kind |-> "status", status |-> status'])
       \/ /\ volume' \in Volumes \ {volume} /\ UNCHANGED status
          /\ Send([kind |-> "volume", volume |-> volume'])
       \/ UNCHANGED <<status, volume>> /\ Send([kind |-> "seeked"])
    /\ UNCHANGED <<running, registered, ch, missed, at, state, view, ticking, vol, bar, clicks>>

Deliver ==
    /\ wire # << >> /\ wire' = Tail(wire)
    /\ IF registered /\ Len(ch) < ChCap
       THEN ch' = Append(ch, Head(wire)) /\ UNCHANGED missed
       ELSE ch' = ch /\ missed' = (missed \/ at # "list")
    /\ UNCHANGED <<playerVars, registered, at, state, view, ticking, vol, bar, changes, clicks>>

-----------------------------------------------------------------------------
(* ListNames, and a signal made up for a player that is there already. *)
List ==
    /\ at = "list" /\ wire = << >>
    /\ ch' = IF running THEN <<[kind |-> "owner", up |-> TRUE]>> ELSE << >>
    /\ at' = "register"
    /\ UNCHANGED <<playerVars, wire, registered, missed, state, view, ticking, vol, bar, changes, clicks>>

Register ==
    /\ at = "register"
    /\ registered' = TRUE /\ at' = "render"
    /\ UNCHANGED <<playerVars, wire, ch, missed, state, view, ticking, vol, bar, changes, clicks>>

(* The ticker runs while there is a position to show.  The view is brought
   back into its range by the rendering, after the ticker has been set. *)
Render ==
    /\ at = "render"
    /\ ticking' = (state.object /\ state.status = "Playing" /\ view >= 1)
    /\ view' = IF state.object THEN view % 4 ELSE view
    /\ bar' = state
    /\ at' = "select"
    /\ UNCHANGED <<playerVars, busVars, state, vol, changes, clicks>>

Tick ==
    /\ at = "select" /\ ticking
    /\ at' = IF state.object THEN "fetch position" ELSE "render"
    /\ UNCHANGED <<playerVars, busVars, state, view, ticking, vol, bar, changes, clicks>>

(* Mutant: the latest signal counts. *)
TakeLatest(sig) == sig = ch[Len(ch)] /\ ch' = SubSeq(ch, 1, Len(ch) - 1)

(* The first signal of the channel. *)
Take(sig) == sig = Head(ch) /\ ch' = Tail(ch)

(* Mutant: the state outlives the player. *)
KeepOnQuit(up) == state' = IF up THEN NewPlayer ELSE [state EXCEPT !.object = TRUE]

OwnerChanged(up) == state' = IF up THEN NewPlayer ELSE NoPlayer

(* A player that comes is asked for everything; what a signal says is taken
   as it is; a seek asks for the position, of an object that may be nil. *)
HandleSignal ==
    /\ at = "select" /\ ch # << >>
    /\ \E sig \in Range(ch) :
         /\ Take(sig)
         /\ \/ /\ sig.kind = "owner" /\ OwnerChanged(sig.up)
               /\ at' = IF sig.up THEN "fetch status" ELSE "render"
            \/ /\ sig.kind = "status" /\ state' = [state EXCEPT !.status = sig.status]
               /\ at' = "render"
            \/ /\ sig.kind = "volume" /\ state' = [state EXCEPT !.volume = sig.volume]
               /\ at' = "render"
            \/ /\ sig.kind = "seeked" /\ state' = state
               /\ at' = IF state.object THEN "fetch position" ELSE "panic"
    /\ UNCHANGED <<playerVars, wire, registered, missed, view, ticking, vol, bar, changes, clicks>>

(* A request fails when the player has gone. *)
FetchFails ==
    /\ at \in {"fetch status", "fetch volume", "fetch position", "set volume"}
    /\ wire = << >> /\ ~running
    /\ at' = "failed"
    /\ UNCHANGED <<playerVars, busVars, state, view, ticking, vol, bar, changes, clicks>>

(* Metadata and status, volume, position. *)
Fetch ==
    /\ wire = << >> /\ running
    /\ \/ /\ at = "fetch status" /\ at' = "fetch volume"
          /\ state' = [state EXCEPT !.status = status]
       \/ /\ at = "fetch volume" /\ at' = "fetch position"
          /\ state' = [state EXCEPT !.volume = volume]
       \/ /\ at = "fetch position" /\ at' = "render"
          /\ UNCHANGED state
    /\ UNCHANGED <<playerVars, busVars, view, ticking, vol, bar, changes, clicks>>

-----------------------------------------------------------------------------
Click ==
    /\ at = "select" /\ clicks < MaxClicks
    /\ clicks' = clicks + 1

(* The right button: the next view, with a fresh position if none was shown. *)
ClickView ==
    /\ Click
    /\ view' = view + 1
    /\ at' = IF state.object /\ view = 0 THEN "fetch position" ELSE "render"
    /\ UNCHANGED <<playerVars, busVars, state, ticking, vol, bar, changes>>

(* The left button: a call nobody waits for the answer of. *)
ClickPlayPause ==
    /\ Click /\ state.object
    /\ IF running
       THEN /\ status' = IF status = "Playing" THEN "Paused" ELSE "Playing"
            /\ Send([kind |-> "status", status |-> status'])
       ELSE UNCHANGED <<status, wire>>
    /\ UNCHANGED <<running, volume, registered, ch, missed, at, state, view, ticking, vol, bar, changes>>

(* A volume is what int(volume*100) makes of the float the player has: of the
   one nearest to k/100 that is k, but for three that come out lower. *)
Percent(k) == IF k \in {29, 57, 58} THEN k - 1 ELSE k

(* The wheel on the volume: what the player has now, a step, and back. *)
ClickVolume(step) ==
    /\ Click /\ state.object
    /\ IF running /\ wire = << >>
       THEN /\ at' = "set volume"
            /\ vol' = LET v == volume + step IN IF v < 0 THEN 0 ELSE IF v > 100 THEN 100 ELSE v
       ELSE ~running /\ at' = "failed" /\ UNCHANGED vol
    /\ UNCHANGED <<playerVars, busVars, state, view, ticking, bar, changes>>

SetVolume ==
    /\ at = "set volume" /\ wire = << >> /\ running
    /\ volume' = Percent(vol)
    /\ IF vol # volume THEN Send([kind |-> "volume", volume |-> volume']) ELSE UNCHANGED wire
    /\ at' = "select"
    /\ UNCHANGED <<running, status, registered, ch, missed, state, view, ticking, vol, bar, changes, clicks>>

Round ==
    \/ List \/ Register \/ Render \/ Tick \/ HandleSignal
    \/ Fetch \/ FetchFails \/ SetVolume

Next ==
    \/ PlayerStarts \/ PlayerQuits \/ PlayerChanges \/ Deliver
    \/ Round
    \/ ClickView \/ ClickPlayPause \/ ClickVolume(5) \/ ClickVolume(-5)

Safe == Init /\ [][Next]_vars

(* The bus delivers, and the module runs; a select that can take a signal
   again and again takes one in the end. *)
Spec == Safe /\ WF_vars(Deliver) /\ WF_vars(Round) /\ SF_vars(HandleSignal)

-----------------------------------------------------------------------------
(* Once the player is left alone the bar says what it is, if no signal was
   lost: whatever was in the channel while the player was asked. *)
Undisturbed == ~missed /\ at \notin {"failed", "panic"}
CaughtUp ==
    bar = IF running THEN [object |-> TRUE, status |-> status, volume |-> volume] ELSE NoPlayer

PlayerCatchesUp == <>[]Undisturbed => <>[]CaughtUp

(* A seek without a player, which dereferences nil, is only seen when a signal
   was lost, such as that of a player that started between ListNames and
   the registration of the channel. *)
OnlyLostSignalsPanic == at = "panic" => missed
=============================================================================
