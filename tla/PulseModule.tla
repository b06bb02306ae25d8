---------------------------- MODULE PulseModule -----------------------------
(***************************************************************************)
(* The PulseAudio module of i3status-custom: it asks the server for what   *)
(* it shows, renders, and waits for an update or a click.  A click is      *)
(* answered from what was fetched last, and changes the server; what the   *)
(* server then has only reaches the bar by an update.                      *)
(*                                                                         *)
(* The server and its other clients change devices, volumes and defaults   *)
(* at any time, also between two requests of one round.  The connection    *)
(* may be lost; how the client finds out is PulseClient, of which only     *)
(* what a caller sees is kept: an error, or a call that never returns.     *)
(* The sink and the source half of the code are one definition, by kind.   *)
(***************************************************************************)
EXTENDS Lists

CONSTANTS
    Kinds,          \* what is shown: "snk" for ShowSink, "src" for ShowSource
    Setups,         \* the device lists and defaults a server may have
    Monitors,       \* the sources that monitor a sink
    Foreign,        \* the levels other clients set
    MaxVolume,      \* the largest volume the module sets, 125 in the code
    NoName,         \* no selection
    MaxChanges,     \* bound: changes by the server, its end, and its other clients
    MaxClicks       \* bound: clicks

VARIABLES
    setup,          \* server: the devices and defaults
    level,          \* server: mute and volume of each device
    event,          \* server: a subscription event is on its way
    subscribed,     \* whether the server has been asked for events
    conn,           \* whether the server is there
    connected,      \* cl.connected
    updates,        \* whether ch holds a token
    at,             \* where the goroutine of Run is
    def, list,      \* inf, and snk and src as fetched
    sel, exp, idx,  \* snkSel and srcSel, snkExp and srcExp, snkIdx and srcIdx; 0 for -1
    cmd,            \* the request a click makes
    bar,            \* what the last Update rendered, per kind
    changes, clicks

serverVars == <<setup, level, event, conn, changes>>
clientVars == <<connected, subscribed, updates>>
viewVars == <<def, list, sel, exp, idx, bar>>
vars == <<serverVars, clientVars, at, viewVars, cmd, clicks>>

Names == UNION {Range(u.list[k]) : u \in Setups, k \in Kinds}
Level == [muted : BOOLEAN, vol : 0 .. MaxVolume + 1]
Device == [name : Names, muted : BOOLEAN, vol : 0 .. MaxVolume + 1]
Shown == [name : Names, muted : BOOLEAN, vol : 0 .. MaxVolume + 1, isDefault : BOOLEAN]
Nothing == [name |-> NoName]
NoCmd == [do |-> "none"]

Commands ==
    [do : {"default"}, kind : Kinds, name : Names] \cup
    [do : {"mute"}, kind : Kinds, name : Names, muted : BOOLEAN] \cup
    [do : {"volume"}, kind : Kinds, name : Names, vol : 0 .. MaxVolume]

(* An index is that of a device of the list, or of none. *)
TypeOK ==
    /\ setup \in Setups /\ level \in [Names -> Level]
    /\ event \in BOOLEAN /\ subscribed \in BOOLEAN /\ updates \in BOOLEAN
    /\ conn \in BOOLEAN /\ connected \in BOOLEAN
    /\ at \in {"subscribe", "top", "snk", "src", "render", "select", "debounce",
               "command", "failed", "blocked"}
    /\ def \in [Kinds -> Names \cup {NoName}]
    /\ list \in [Kinds -> Seq(Device)]
    /\ sel \in [Kinds -> Names \cup {NoName}] /\ exp \in [Kinds -> BOOLEAN]
    /\ idx \in [Kinds -> Nat] /\ \A k \in Kinds : idx[k] <= Len(list[k])
    /\ cmd \in Commands \cup {NoCmd}
    /\ bar \in [Kinds -> Shown \cup {Nothing}]

Init ==
    /\ setup \in Setups
    /\ level = [n \in Names |-> [muted |-> FALSE, vol |-> MaxVolume]]
    /\ event = FALSE /\ subscribed = FALSE /\ updates = FALSE
    /\ conn = TRUE /\ connected = TRUE
    /\ at = "subscribe"
    /\ def = [k \in Kinds |-> NoName] /\ list = [k \in Kinds |-> <<>>]
    /\ sel = [k \in Kinds |-> NoName] /\ exp = [k \in Kinds |-> FALSE]
    /\ idx = [k \in Kinds |-> 0]
    /\ cmd = NoCmd /\ bar = [k \in Kinds |-> Nothing]
    /\ changes = 0 /\ clicks = 0

-----------------------------------------------------------------------------
(* The server, which tells a subscriber of every change, and the client's  *)
(* packet loop, which keeps one token of what it is told.                  *)
Change ==
    /\ conn /\ changes < MaxChanges
    /\ changes' = changes + 1
    /\ \/ setup' \in Setups \ {setup} /\ UNCHANGED level
       \/ \E n \in Names, l \in Foreign :
             l # level[n] /\ level' = [level EXCEPT ![n] = l] /\ UNCHANGED setup
    /\ event' = subscribed
    /\ UNCHANGED <<conn, clientVars, at, viewVars, cmd, clicks>>

Notify ==
    /\ event /\ connected
    /\ event' = FALSE /\ updates' = TRUE
    /\ UNCHANGED <<setup, level, conn, changes, subscribed, connected, at, viewVars, cmd, clicks>>

Disconnect ==
    /\ conn /\ changes < MaxChanges
    /\ conn' = FALSE /\ changes' = changes + 1
    /\ UNCHANGED <<setup, level, event, clientVars, at, viewVars, cmd, clicks>>

LoopEnds ==
    /\ ~conn /\ connected
    /\ connected' = FALSE
    /\ UNCHANGED <<serverVars, subscribed, updates, at, viewVars, cmd, clicks>>

(* A request that is not answered fails while the packet loop runs, and
   blocks once it has ended. *)
Unanswered ==
    /\ ~conn
    /\ at \in {"subscribe", "command"} \cup Kinds \/ (at = "top" /\ connected)
    /\ at' = IF connected THEN "failed" ELSE "blocked"
    /\ UNCHANGED <<serverVars, clientVars, viewVars, cmd, clicks>>

-----------------------------------------------------------------------------
(* A round of Run.                                                         *)
Subscribe ==
    /\ at = "subscribe" /\ conn
    /\ subscribed' = TRUE /\ at' = "top"
    /\ UNCHANGED <<serverVars, connected, updates, viewVars, cmd, clicks>>

Disconnected ==
    /\ at = "top" /\ ~connected
    /\ at' = "failed"
    /\ UNCHANGED <<serverVars, clientVars, viewVars, cmd, clicks>>

(* Sinks before sources. *)
FetchFrom(ks) == IF "snk" \in ks THEN "snk" ELSE IF "src" \in ks THEN "src" ELSE "render"

(* ServerInfo.  A kind that is not shown is not asked for. *)
FetchInfo ==
    /\ at = "top" /\ connected /\ conn
    /\ def' = [k \in Kinds |-> setup.def[k]]
    /\ at' = FetchFrom(Kinds)
    /\ UNCHANGED <<serverVars, clientVars, list, sel, exp, idx, bar, cmd, clicks>>

IsMonitor(n) == n \in Monitors

(* The first device with one of the names, 0 for none: slices.IndexFunc. *)
IndexOf(devices, names) == First({i \in DOMAIN devices : devices[i].name \in names})

(* Mutant: the selection is kept by its place in the list. *)
ChooseByIndex(k, devices) ==
    IF sel[k] # NoName /\ idx[k] \in 1 .. Len(devices) THEN idx[k]
    ELSE IndexOf(devices, {def[k]})

(* The device to show: the selected one, else the default, else the first, of
   the sources the first that is no monitor. *)
Choose(k, devices) ==
    LET selected == IF sel[k] = NoName THEN 0 ELSE IndexOf(devices, {sel[k]})
        default == IndexOf(devices, {def[k]})
        hidden == IF k = "src" THEN Monitors ELSE {}
    IN  IF selected # 0 THEN selected
        ELSE IF default # 0 THEN default
        ELSE IndexOf(devices, {d.name : d \in Range(devices)} \ hidden)

(* Sinks and Sources. *)
FetchList(k) ==
    /\ at = k /\ k \in Kinds /\ conn
    /\ LET devices == [i \in 1 .. Len(setup.list[k]) |->
                          [name |-> setup.list[k][i],
                           muted |-> level[setup.list[k][i]].muted,
                           vol |-> level[setup.list[k][i]].vol]]
       IN  /\ list' = [list EXCEPT ![k] = devices]
           /\ idx' = [idx EXCEPT ![k] = Choose(k, devices)]
    /\ at' = FetchFrom(Kinds \ {"snk", k})
    /\ UNCHANGED <<serverVars, clientVars, def, sel, exp, bar, cmd, clicks>>

(* The blocks of one device: an icon, the volume and, when it is expanded,
   the description, whose color tells the default. *)
Blocks(k) ==
    IF idx[k] = 0 THEN Nothing
    ELSE LET d == list[k][idx[k]]
         IN  [name |-> d.name, muted |-> d.muted, vol |-> d.vol, isDefault |-> def[k] = d.name]

(* i.Update(true, ...), reached by a round and by "goto render". *)
Render ==
    /\ at = "render"
    /\ bar' = [k \in Kinds |-> Blocks(k)]
    /\ at' = "select"
    /\ UNCHANGED <<serverVars, clientVars, def, list, sel, exp, idx, cmd, clicks>>

TakeUpdate ==
    /\ at = "select" /\ updates
    /\ updates' = FALSE
    /\ at' = "debounce"
    /\ UNCHANGED <<serverVars, connected, subscribed, viewVars, cmd, clicks>>

(* Mutant: a token that came while the module slept is taken for the round
   that has been shown. *)
DebouncedToSelect ==
    /\ at = "debounce"
    /\ updates' = FALSE
    /\ at' = IF updates THEN "select" ELSE "top"
    /\ UNCHANGED <<serverVars, connected, subscribed, viewVars, cmd, clicks>>

(* The sleep is over and the channel is emptied. *)
Debounced ==
    /\ at = "debounce"
    /\ updates' = FALSE
    /\ at' = "top"
    /\ UNCHANGED <<serverVars, connected, subscribed, viewVars, cmd, clicks>>
-----------------------------------------------------------------------------
(* A click, of which the part of the block counts ("sel" is the description)  *)
(* and the button.                                                         *)
Click ==
    /\ at = "select" /\ clicks < MaxClicks
    /\ clicks' = clicks + 1

ClickDisconnected ==
    /\ Click /\ ~connected
    /\ at' = "failed"
    /\ UNCHANGED <<serverVars, clientVars, viewVars, cmd>>

(* The middle button starts pavucontrol; so may a click on a kind that has no
   device any more be ignored. *)
ClickIgnored ==
    /\ Click /\ connected
    /\ UNCHANGED <<serverVars, clientVars, at, viewVars, cmd>>

(* Mutant: the wheel goes beyond the largest volume. *)
ClampedBelow(v) == IF v < 0 THEN 0 ELSE v

Clamped(v) == IF v < 0 THEN 0 ELSE IF v > MaxVolume THEN MaxVolume ELSE v

(* The left button and, on the volume, the wheel ask the server for a change,
   worked out from what was fetched last. *)
ClickCommand(k) ==
    /\ Click /\ connected /\ idx[k] # 0
    /\ LET d == list[k][idx[k]]
       IN  cmd' \in {[do |-> "default", kind |-> k, name |-> d.name],
                     [do |-> "mute", kind |-> k, name |-> d.name, muted |-> ~d.muted],
                     [do |-> "volume", kind |-> k, name |-> d.name, vol |-> Clamped(d.vol + 1)],
                     [do |-> "volume", kind |-> k, name |-> d.name, vol |-> Clamped(d.vol - 1)]}
    /\ at' = "command"
    /\ UNCHANGED <<serverVars, clientVars, viewVars>>

(* The right button expands the description, or folds it and forgets the
   selection, and renders what is there. *)
ClickExpand(k) ==
    /\ Click /\ connected /\ idx[k] # 0
    /\ exp' = [exp EXCEPT ![k] = ~@]
    /\ sel' = [sel EXCEPT ![k] = IF exp[k] THEN NoName ELSE @]
    /\ at' = "render"
    /\ UNCHANGED <<serverVars, clientVars, def, list, idx, bar, cmd>>

(* The d-th device after idx[k], around either end of the list. *)
Around(k, d) == ((idx[k] - 1 + d) % Len(list[k])) + 1

(* Mutant: the wheel stops at a monitor as well. *)
MayStopAnywhere(k, i) == TRUE

(* From a source that is no monitor the wheel goes to another such. *)
MayStop(k, i) ==
    k = "snk" \/ IsMonitor(list[k][idx[k]].name) \/ ~IsMonitor(list[k][i].name)

(* The wheel on the description selects the next device it may stop at, and
   renders what is there. *)
ClickScroll(k, dir) ==
    /\ Click /\ connected /\ idx[k] # 0
    /\ \E d \in 1 .. Len(list[k]) :
         /\ MayStop(k, Around(k, dir * d))
         /\ \A e \in 1 .. d - 1 : ~MayStop(k, Around(k, dir * e))
         /\ idx' = [idx EXCEPT ![k] = Around(k, dir * d)]
         /\ sel' = [sel EXCEPT ![k] = list[k][Around(k, dir * d)].name]
    /\ at' = "render"
    /\ UNCHANGED <<serverVars, clientVars, def, list, exp, bar, cmd>>

(* The server carries the request out, and the module waits for its event. *)
CommandDone ==
    /\ at = "command" /\ conn
    /\ cmd.name \in Range(setup.list[cmd.kind])
    /\ \/ /\ cmd.do = "default"
          /\ \E u \in Setups :
                /\ u.list = setup.list /\ u.def = [setup.def EXCEPT ![cmd.kind] = cmd.name]
                /\ setup' = u
          /\ UNCHANGED level
       \/ /\ cmd.do = "mute"
          /\ level' = [level EXCEPT ![cmd.name].muted = cmd.muted]
          /\ UNCHANGED setup
       \/ /\ cmd.do = "volume"
          /\ level' = [level EXCEPT ![cmd.name].vol = cmd.vol]
          /\ UNCHANGED setup
    /\ event' = (event \/ <<setup', level'>> # <<setup, level>>)
    /\ cmd' = NoCmd /\ at' = "select"
    /\ UNCHANGED <<conn, changes, clientVars, viewVars, clicks>>

(* The device is gone: the server refuses, and the run ends. *)
CommandFails ==
    /\ at = "command" /\ conn
    /\ cmd.name \notin Range(setup.list[cmd.kind])
    /\ at' = "failed"
    /\ UNCHANGED <<serverVars, clientVars, viewVars, cmd, clicks>>

Round ==
    \/ Subscribe \/ Disconnected \/ FetchInfo
    \/ \E k \in Kinds : FetchList(k)
    \/ Render \/ TakeUpdate \/ Debounced
    \/ CommandDone \/ CommandFails \/ Unanswered

Clicks ==
    \/ ClickDisconnected \/ ClickIgnored
    \/ \E k \in Kinds :
           ClickCommand(k) \/ ClickExpand(k) \/ \E dir \in {1, -1} : ClickScroll(k, dir)

Next == Change \/ Notify \/ Disconnect \/ LoopEnds \/ Round \/ Clicks

Safe == Init /\ [][Next]_vars

(* The client and the module run; nobody has to change anything. *)
Spec == Safe /\ WF_vars(Notify) /\ WF_vars(Round)

-----------------------------------------------------------------------------
(* What the user has selected stays in view while it is there, however the
   server reorders its list, and until it is folded away. *)
SelectionSticks ==
    \A k \in Kinds :
        (at = "select" /\ sel[k] # NoName /\ sel[k] \in {d.name : d \in Range(list[k])})
            => bar[k] # Nothing /\ bar[k].name = sel[k]

(* A source that monitors a sink comes into view only as the default or as the
   selection, and is selected only from another such. *)
ShowsMonitor(k) == bar[k] # Nothing /\ IsMonitor(bar[k].name)

HidesMonitors ==
    \A k \in Kinds \ {"snk"} :
        /\ ShowsMonitor(k)' => ShowsMonitor(k) \/ bar'[k].isDefault \/ sel[k] = bar'[k].name
        /\ IsMonitor(sel'[k]) => sel'[k] = sel[k] \/ ShowsMonitor(k)

MonitorsAreHidden == [][HidesMonitors]_vars

(* While the server stays and once nothing changes any more, what the bar says
   of a device is what the server says. *)
Current(k) ==
    IF bar[k] = Nothing THEN \A n \in Range(setup.list[k]) : k = "src" /\ IsMonitor(n)
    ELSE /\ bar[k].name \in Range(setup.list[k])
         /\ bar[k].muted = level[bar[k].name].muted
         /\ bar[k].vol = level[bar[k].name].vol
         /\ bar[k].isDefault = (setup.def[k] = bar[k].name)

Undisturbed == conn /\ at # "failed"
CaughtUp == \A k \in Kinds : Current(k)

ViewCatchesUp == <>[]Undisturbed => <>[]CaughtUp
=============================================================================
