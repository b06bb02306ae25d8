------------------------------ MODULE BusModule ------------------------------
(***************************************************************************)
(* The modules of i3status-custom that show one object of a bus: Dunst,    *)
(* PowerProfiles, BluezDevice, Battery and Mako.  Each asks the object for *)
(* what it shows whenever a signal comes, whatever the signal says.        *)
(*                                                                         *)
(* All modules share the one connection of their bus: a channel is given   *)
(* what any of them has asked for.  A signal is lost when the channel is   *)
(* full, and the service comes and goes.                                   *)
(***************************************************************************)
EXTENDS Integers, Sequences

CONSTANTS
    Kinds,          \* "dunst", "power", "bluez", "battery", "mako"
    ChCap,          \* the capacity of ch, 6 in the code
    MaxChanges,     \* bound: changes of the service and signals of others
    MaxClicks       \* bound: clicks

VARIABLES
    kind,           \* which module this is
    running,        \* external: whether the service is on the bus
    value,          \* external: what the service has
    ch,             \* the channel of signals
    lost,           \* history: whether the last chance of a round was lost
    at,             \* where the goroutine of Run is
    fetched,        \* what the round has fetched; -1 without a service
    bar,            \* what the last Update rendered
    changes, clicks

vars == <<kind, running, value, ch, lost, at, fetched, bar, changes, clicks>>

Gone == -1
Failing == -2           \* Battery shows an error instead of failing

(* What a service has is a number: whether Dunst is paused, the place of the
   active profile, whether the device is connected, the state of the battery. *)
N == [dunst |-> 2, power |-> 3, bluez |-> 2, battery |-> 7, mako |-> 1][kind]

TypeOK ==
    /\ kind \in Kinds /\ running \in BOOLEAN /\ value \in 0 .. N - 1
    /\ lost \in BOOLEAN /\ ch \in Seq({"owner", "properties", "other owner", "other"}) /\ Len(ch) <= ChCap
    /\ at \in {"register", "first", "second", "render", "select", "failed"}
    /\ fetched \in Failing .. N - 1 /\ bar \in Failing .. N - 1

Init ==
    /\ kind \in Kinds /\ running \in BOOLEAN /\ value = 0
    /\ ch = << >> /\ lost = FALSE /\ at = "register"
    /\ fetched = Gone /\ bar = Gone
    /\ changes = 0 /\ clicks = 0

-----------------------------------------------------------------------------
(* Mutant: only what the owner of the service does starts a round. *)
OnlyOwner(sig) == sig = "owner"

(* A change of an owner that is not the service's is passed over; whatever
   else there is, a signal of another module too, starts a round. *)
StartsRound(sig) == kind = "battery" \/ sig # "other owner"

(* The channel takes a signal once it is registered and while it has room.
   One that is lost does no harm if another is there to start a round. *)
Deliver(sig) ==
    LET room == Len(ch) < ChCap
        another == \E i \in 1 .. Len(ch) : StartsRound(ch[i])
    IN  /\ ch' = IF at # "register" /\ room THEN Append(ch, sig) ELSE ch
        /\ lost' = (lost \/ (at # "register" /\ ~room /\ ~another))

(* Battery has not asked for the owner of its service. *)
ServiceComesOrGoes ==
    /\ changes < MaxChanges /\ changes' = changes + 1
    /\ running' = ~running
    /\ IF kind # "battery" THEN Deliver("owner") ELSE UNCHANGED <<ch, lost>>
    /\ UNCHANGED <<kind, value, at, fetched, bar, clicks>>

ServiceChanges ==
    /\ running /\ changes < MaxChanges /\ changes' = changes + 1
    /\ value' = (value + 1) % N
    /\ Deliver("properties")
    /\ UNCHANGED <<kind, running, at, fetched, bar, clicks>>

(* What the other modules on the connection have asked for. *)
OthersSignal ==
    /\ changes < MaxChanges /\ changes' = changes + 1
    /\ \E sig \in {"other owner", "other"} : Deliver(sig)
    /\ UNCHANGED <<kind, running, value, at, fetched, bar, clicks>>

-----------------------------------------------------------------------------
Register ==
    /\ at = "register"
    /\ at' = "first"
    /\ UNCHANGED <<kind, running, value, ch, lost, fetched, bar, changes, clicks>>

(* The requests of a round, one after the other; the service may go between
   two of them.  Dunst has one, and fails without its service. *)
FetchDunst ==
    /\ at = "first" /\ kind = "dunst"
    /\ IF running THEN fetched' = value /\ at' = "render" ELSE fetched' = Gone /\ at' = "failed"
    /\ UNCHANGED <<kind, running, value, ch, lost, bar, changes, clicks>>

(* The active profile; without it there is nothing to show, with it there
   must be a list of them. *)
FetchPower ==
    /\ kind = "power"
    /\ \/ /\ at = "first"
          /\ fetched' = IF running THEN value ELSE Gone
          /\ at' = IF running THEN "second" ELSE "render"
       \/ /\ at = "second" /\ UNCHANGED fetched
          /\ at' = IF running THEN "render" ELSE "failed"
    /\ UNCHANGED <<kind, running, value, ch, lost, bar, changes, clicks>>

(* The address, and whether the device is connected. *)
FetchBluez ==
    /\ kind = "bluez"
    /\ \/ /\ at = "first" /\ fetched' = Gone
          /\ at' = IF running THEN "second" ELSE "render"
       \/ /\ at = "second"
          /\ fetched' = IF running THEN value ELSE Gone
          /\ at' = IF running THEN "render" ELSE "failed"
    /\ UNCHANGED <<kind, running, value, ch, lost, bar, changes, clicks>>

(* Eleven requests, of which the first and the last are told apart; an error
   of any is what is shown. *)
FetchBattery ==
    /\ kind = "battery" /\ at \in {"first", "second"}
    /\ fetched' = IF running THEN value ELSE Failing
    /\ at' = IF running /\ at = "first" THEN "second" ELSE "render"
    /\ UNCHANGED <<kind, running, value, ch, lost, bar, changes, clicks>>

(* Mako has nothing to ask for. *)
FetchMako ==
    /\ kind = "mako" /\ at = "first"
    /\ fetched' = 0 /\ at' = "render"
    /\ UNCHANGED <<kind, running, value, ch, lost, bar, changes, clicks>>

Fetch == FetchDunst \/ FetchPower \/ FetchBluez \/ FetchBattery \/ FetchMako

Render ==
    /\ at = "render"
    /\ bar' = fetched
    /\ at' = "select"
    /\ UNCHANGED <<kind, running, value, ch, lost, fetched, changes, clicks>>

HandleSignal ==
    /\ at = "select" /\ ch # << >>
    /\ ch' = Tail(ch)
    /\ at' = IF StartsRound(Head(ch)) THEN "first" ELSE "select"
    /\ UNCHANGED <<kind, running, value, lost, fetched, bar, changes, clicks>>

(* The left button, which sets the value that follows what was fetched last,
   whatever the service has by now.  Nobody looks at what comes of it. *)
Click(k) ==
    /\ at = "select" /\ clicks < MaxClicks /\ clicks' = clicks + 1
    /\ kind = k /\ fetched # Gone

SetNext ==
    /\ running
    /\ value' = (fetched + 1) % N
    /\ IF value' # value THEN Deliver("properties") ELSE UNCHANGED <<ch, lost>>

(* Dunst is paused or continued, and the request may fail. *)
ClickDunst ==
    /\ Click("dunst")
    /\ \/ SetNext /\ UNCHANGED at
       \/ ~running /\ at' = "failed" /\ UNCHANGED <<value, ch, lost>>
    /\ UNCHANGED <<kind, running, fetched, bar, changes>>

(* The profile after the active one becomes active, and the request may fail. *)
ClickPower ==
    /\ Click("power")
    /\ \/ SetNext /\ UNCHANGED at
       \/ ~running /\ at' = "failed" /\ UNCHANGED <<value, ch, lost>>
    /\ UNCHANGED <<kind, running, fetched, bar, changes>>

(* The device is connected or disconnected, or is not; no error counts. *)
ClickBluez ==
    /\ Click("bluez")
    /\ SetNext \/ UNCHANGED <<value, ch, lost>>
    /\ UNCHANGED <<kind, running, at, fetched, bar, changes>>

(* A notification is dismissed or brought back, and the request may fail. *)
ClickMako ==
    /\ Click("mako")
    /\ at' = IF running THEN at ELSE "failed"
    /\ UNCHANGED <<kind, running, value, ch, lost, fetched, bar, changes>>

Round == Register \/ Fetch \/ Render \/ HandleSignal

Next ==
    \/ ServiceComesOrGoes \/ ServiceChanges \/ OthersSignal
    \/ Round \/ ClickDunst \/ ClickPower \/ ClickBluez \/ ClickMako

Safe == Init /\ [][Next]_vars

Spec == Safe /\ WF_vars(Round)

-----------------------------------------------------------------------------
(* Once the service is left alone the bar says what it has, although a signal
   does not say what has changed and is lost when the channel is full; unless
   the channel was full of what starts no round.  Battery does not see its
   service come or go. *)
Undisturbed == kind \notin {"mako", "battery"} /\ at # "failed" /\ ~lost
CaughtUp == bar = IF running THEN value ELSE Gone

ServiceCatchesUp == <>[]Undisturbed => <>[]CaughtUp
=============================================================================
