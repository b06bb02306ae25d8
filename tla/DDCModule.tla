------------------------------ MODULE DDCModule ------------------------------
(***************************************************************************)
(* The DDC module of i3status-custom: it looks for one monitor, polls its  *)
(* brightness and contrast over DDC/CI, and sets them on clicks.           *)
(*                                                                         *)
(* The monitor is unplugged, falls asleep, stops answering and is adjusted *)
(* by hand between any two requests; the frames and the retries of a       *)
(* request are in DDC.  Brightness and contrast are one definition.        *)
(***************************************************************************)
EXTENDS Lists

CONSTANTS
    Configs,        \* the configurations of the module
    Supported,      \* the VCPs the monitor has
    Values,         \* what the monitor may be set to by hand
    Top,            \* the largest value of its VCPs
    NoValue,
    MaxChanges,     \* bound: changes of the monitor or its settings
    MaxClicks       \* bound: clicks

VARIABLES
    opts,           \* c, the configuration
    monitor,        \* external: "on", "asleep", "gone" (no answer to its address), "unplugged"
    granted,        \* whether we may open the bus
    real,           \* external: the settings of the monitor
    stopped,        \* i.IsStopped()
    at,             \* where the goroutine of Run is
    ci,             \* whether the bus is open
    unauthorized,
    has, cur, max, skip, \* hasBr and hasCn and so on
    want,           \* brNew and cnNew, NoValue for one that is not set
    bar,            \* what the last Update rendered
    changes, clicks

monitorVars == <<monitor, granted, real, changes>>
vcpVars == <<has, cur, max, skip>>
vars == <<opts, monitorVars, stopped, at, ci, unauthorized, vcpVars, want, bar, clicks>>

VCPs == {"br", "cn"}
Assumed == 100          \* the largest value of a monitor that is not asked
Word == 65536           \* they are 16 bits wide
Blank == [v \in VCPs |-> NoValue]

TypeOK ==
    /\ opts \in Configs
    /\ monitor \in {"on", "asleep", "gone", "unplugged"} /\ granted \in BOOLEAN
    /\ stopped \in BOOLEAN /\ ci \in BOOLEAN /\ unauthorized \in BOOLEAN
    /\ at \in {"top", "br", "cn", "find", "open", "update", "select", "set br", "set cn", "failed"}
    /\ \A v \in VCPs :
         /\ has[v] \in BOOLEAN /\ skip[v] \in BOOLEAN
         /\ cur[v] \in 0 .. Word - 1 /\ max[v] \in {0, Top, Assumed}
         /\ (want[v] = NoValue \/ want[v] \in 0 .. Word - 1)
    /\ ci => ~unauthorized

Init ==
    /\ opts \in Configs
    /\ monitor \in {"on", "unplugged"} /\ granted \in BOOLEAN
    /\ real \in [VCPs -> Values] /\ stopped = FALSE
    /\ at = "top" /\ ci = FALSE /\ unauthorized = FALSE
    /\ has = [v \in VCPs |-> FALSE] /\ skip = has
    /\ cur = [v \in VCPs |-> 0] /\ max = cur
    /\ want = Blank /\ bar = Blank
    /\ changes = 0 /\ clicks = 0

-----------------------------------------------------------------------------
(* The monitor, whoever holds its buttons, and the bar's signals.          *)
MonitorChanges ==
    /\ changes < MaxChanges /\ changes' = changes + 1
    /\ \/ monitor' \in {"on", "asleep", "gone", "unplugged"} \ {monitor} /\ UNCHANGED real
       \/ \E v \in Supported, x \in Values :
             real[v] # x /\ real' = [real EXCEPT ![v] = x] /\ UNCHANGED monitor
    /\ UNCHANGED <<opts, granted, stopped, at, ci, unauthorized, vcpVars, want, bar, clicks>>

BarSignal ==
    /\ changes < MaxChanges /\ changes' = changes + 1
    /\ stopped' = ~stopped
    /\ UNCHANGED <<opts, monitor, granted, real, at, ci, unauthorized, vcpVars, want, bar, clicks>>

-----------------------------------------------------------------------------
(* A round: nothing is asked of the monitor while the bar is stopped.      *)
Begin ==
    /\ at = "top"
    /\ at' = IF stopped THEN "update" ELSE "br"
    /\ UNCHANGED <<opts, monitorVars, stopped, ci, unauthorized, vcpVars, want, bar, clicks>>

After(v) == IF v = "br" THEN "cn" ELSE "find"

(* ci.GetVCP, whose result goes to cur and max whether it is an error or not.
   A monitor that sleeps does not reply, and one that is unplugged is gone. *)
Read(v) ==
    /\ skip' = skip
    /\ IF monitor \in {"gone", "unplugged"}
       THEN ci' = FALSE /\ at' = After(v) /\ UNCHANGED has
       ELSE IF monitor = "on" THEN at' = After(v) /\ has' = [has EXCEPT ![v] = v \in Supported] /\ UNCHANGED ci
       ELSE at' = (IF has[v] THEN After(v) ELSE "failed") /\ UNCHANGED <<has, ci>>
    /\ LET answered == monitor = "on" /\ v \in Supported
       IN  /\ cur' = [cur EXCEPT ![v] = IF answered THEN real[v] ELSE 0]
           /\ max' = [max EXCEPT ![v] = IF answered THEN Top ELSE 0]

(* A reply that is not what was asked for ends the run. *)
ReadGarbled(v) ==
    /\ ci /\ at = v /\ v \in opts.show /\ ~skip[v] /\ ~opts.blind /\ monitor = "on"
    /\ at' = "failed"
    /\ cur' = [cur EXCEPT ![v] = 0] /\ max' = [max EXCEPT ![v] = 0]
    /\ UNCHANGED <<opts, monitorVars, stopped, ci, unauthorized, has, skip, want, bar, clicks>>

(* A monitor with a broken DDC is assumed to have the VCP. *)
Assume(v) ==
    /\ has' = [has EXCEPT ![v] = TRUE] /\ max' = [max EXCEPT ![v] = Assumed]
    /\ at' = After(v)
    /\ UNCHANGED <<ci, cur, skip>>

(* Mutant: the mark is left behind. *)
SkipForever(v) ==
    /\ at' = After(v)
    /\ UNCHANGED <<ci, has, cur, max, skip>>

Skip(v) ==
    /\ skip' = [skip EXCEPT ![v] = FALSE]
    /\ at' = After(v)
    /\ UNCHANGED <<ci, has, cur, max>>

Poll(v) ==
    /\ at = v
    /\ IF ~ci \/ v \notin opts.show THEN at' = After(v) /\ UNCHANGED <<ci, vcpVars>>
       ELSE IF skip[v] THEN Skip(v)
       ELSE IF opts.blind THEN Assume(v)
       ELSE Read(v)
    /\ UNCHANGED <<opts, monitorVars, stopped, unauthorized, want, bar, clicks>>

Polled ==
    /\ at = "find" /\ ci
    /\ at' = "update"
    /\ UNCHANGED <<opts, monitorVars, stopped, ci, unauthorized, vcpVars, want, bar, clicks>>

(* FindMonitor, when there is no open bus. *)
Find ==
    /\ at = "find" /\ ~ci
    /\ unauthorized' = FALSE /\ has' = [v \in VCPs |-> FALSE]
    /\ at' = IF monitor # "unplugged" THEN "open" ELSE IF opts.hide THEN "update" ELSE "failed"
    /\ UNCHANGED <<opts, monitorVars, stopped, ci, cur, max, skip, want, bar, clicks>>

(* FindI2C and Open.  A bus that has just been opened is read at once. *)
Open ==
    /\ at = "open"
    /\ IF monitor = "unplugged" THEN at' = "failed" /\ UNCHANGED <<ci, unauthorized>>
       ELSE IF granted THEN ci' = TRUE /\ at' = "top" /\ UNCHANGED unauthorized
       ELSE unauthorized' = TRUE /\ at' = "update" /\ UNCHANGED ci
    /\ UNCHANGED <<opts, monitorVars, stopped, vcpVars, want, bar, clicks>>

(* The monitors cannot be enumerated, the bus of ours is not the only one, or
   opening it fails for another reason. *)
LookFails ==
    /\ at \in {"find", "open"} /\ ~ci
    /\ unauthorized' = FALSE /\ has' = [v \in VCPs |-> FALSE]
    /\ at' = "failed"
    /\ UNCHANGED <<opts, monitorVars, stopped, ci, cur, max, skip, want, bar, clicks>>

(* Without a bus, and without one that is forbidden, nothing is rendered. *)
Update ==
    /\ at = "update"
    /\ bar' = IF ci THEN [v \in VCPs |-> IF has[v] THEN cur[v] ELSE NoValue]
              ELSE IF unauthorized THEN Blank ELSE bar
    /\ at' = "select"
    /\ UNCHANGED <<opts, monitorVars, stopped, ci, unauthorized, vcpVars, want, clicks>>

(* The ticker, or the news of a stop or a continue. *)
Wake ==
    /\ at = "select" /\ at' = "top"
    /\ UNCHANGED <<opts, monitorVars, stopped, ci, unauthorized, vcpVars, want, bar, clicks>>

-----------------------------------------------------------------------------
(* A click of a button on the block of a VCP.                              *)
Click ==
    /\ at = "select" /\ clicks < MaxClicks
    /\ clicks' = clicks + 1

(* pkexec is asked for the right to open the bus, and the user may refuse. *)
ClickUnauthorized ==
    /\ Click /\ unauthorized
    /\ \/ granted' = TRUE /\ at' = "set br"
       \/ at' = "failed" /\ UNCHANGED granted
    /\ UNCHANGED <<opts, monitor, real, changes, stopped, ci, unauthorized, vcpVars, want, bar>>

Distance(a, b) == IF a < b THEN b - a ELSE a - b

(* The preset the values are at, the first if there are several, else 0. *)
Current ==
    First({i \in DOMAIN opts.presets :
              \A v \in VCPs : has[v] => opts.presets[i][v] = cur[v]})

(* How far a preset is off one of the values, nothing if that is not shown. *)
Off(i, v) == IF has[v] THEN Distance(opts.presets[i][v], cur[v]) ELSE 0

(* The first of the presets that are closest to the values. *)
Closest ==
    LET dist(i) == Off(i, "br") + Off(i, "cn")
    IN  CHOOSE i \in DOMAIN opts.presets :
            \A j \in DOMAIN opts.presets : dist(i) < dist(j) \/ (dist(i) = dist(j) /\ i <= j)

Around(i) == ((i - 1) % Len(opts.presets)) + 1

(* The left button goes to the next preset, the right one to the previous. *)
ClickPreset(step) ==
    /\ Click /\ ~unauthorized /\ ci /\ opts.presets # << >>
    /\ LET i == IF Current # 0 THEN Around(Current + step) ELSE Closest
       IN  want' = [v \in VCPs |-> IF has[v] THEN opts.presets[i][v] ELSE NoValue]
    /\ at' = "set br"
    /\ UNCHANGED <<opts, monitorVars, stopped, ci, unauthorized, vcpVars, bar>>

(* Steps grow with the value; a value is 16 bits wide. *)
Up(x, m) ==
    LET y == (x + (IF x < 20 THEN 1 ELSE IF x < 50 THEN 2 ELSE 5)) % Word IN IF y > m THEN m ELSE y

(* Mutant: no look at where the step has led. *)
DownUnchecked(x, m) == (x - (IF x > 50 THEN 5 ELSE IF x > 20 THEN 2 ELSE 1)) % Word

Down(x, m) ==
    LET y == (x - (IF x > 50 THEN 5 ELSE IF x > 20 THEN 2 ELSE 1)) % Word IN IF y > m THEN 0 ELSE y

ClickStep(v, value) ==
    /\ Click /\ ~unauthorized /\ ci
    /\ want' = [want EXCEPT ![v] = value]
    /\ at' = "set br"
    /\ UNCHANGED <<opts, monitorVars, stopped, ci, unauthorized, vcpVars, bar>>

SetAt(v) == IF v = "br" THEN "set br" ELSE "set cn"
AfterSet(v) == IF v = "br" THEN "set cn" ELSE "top"

(* The value is noted, and the next poll skipped, whether or not the monitor
   has gone in the meantime. *)
Set(v) ==
    /\ at = SetAt(v)
    /\ IF ~(ci /\ has[v] /\ want[v] # NoValue)
       THEN at' = AfterSet(v) /\ UNCHANGED <<real, ci, cur, skip>>
       ELSE IF want[v] > max[v] THEN at' = "failed" /\ UNCHANGED <<real, ci, cur, skip>>
       ELSE /\ IF monitor \in {"gone", "unplugged"} THEN ci' = FALSE /\ UNCHANGED real
               ELSE real' = [real EXCEPT ![v] = want[v]] /\ UNCHANGED ci
            /\ cur' = [cur EXCEPT ![v] = want[v]]
            /\ skip' = [skip EXCEPT ![v] = TRUE]
            /\ at' = AfterSet(v)
    /\ want' = [want EXCEPT ![v] = NoValue]
    /\ UNCHANGED <<opts, monitor, granted, changes, stopped, unauthorized, has, max, bar, clicks>>

(* The monitor that is there cannot be written to. *)
SetFails(v) ==
    /\ at = SetAt(v) /\ ci /\ has[v] /\ want[v] # NoValue /\ want[v] <= max[v]
    /\ monitor \in {"on", "asleep"}
    /\ at' = "failed" /\ want' = [want EXCEPT ![v] = NoValue]
    /\ UNCHANGED <<opts, monitorVars, stopped, ci, unauthorized, vcpVars, bar, clicks>>

Round ==
    \/ Begin \/ Polled \/ Find \/ Open \/ Update \/ Wake
    \/ \E v \in VCPs : Poll(v) \/ Set(v)

Next ==
    \/ MonitorChanges \/ BarSignal \/ Round
    \/ LookFails
    \/ \E v \in VCPs : ReadGarbled(v) \/ SetFails(v) \/ ClickStep(v, Up(cur[v], max[v]))
                     \/ ClickStep(v, Down(cur[v], max[v]))
    \/ ClickUnauthorized \/ ClickPreset(1) \/ ClickPreset(-1)

Safe == Init /\ [][Next]_vars

(* The module runs and its ticker ticks. *)
Spec == Safe /\ WF_vars(Round)
-----------------------------------------------------------------------------
(* What is about to be set is a preset, or in the range of the monitor: no
   step of the wheel, from either end of the range, ends the run. *)
StepsStayInRange ==
    \A v \in VCPs :
        at \in {"set br", "set cn"} /\ has[v] /\ want[v] # NoValue
            => want[v] <= max[v] \/ \E i \in DOMAIN opts.presets : want[v] = opts.presets[i][v]

(* Once the monitor stays on and the bar is visible, the bar says what the
   monitor is set to, whatever came before: a click that found the monitor
   gone, a sleep, or a hand on its buttons. *)
Undisturbed == ~opts.blind /\ monitor = "on" /\ ~stopped /\ at # "failed"
CaughtUp ==
    \A v \in VCPs :
        bar[v] = IF granted /\ v \in opts.show \cap Supported THEN real[v] ELSE NoValue

BarCatchesUp == <>[]Undisturbed => <>[]CaughtUp

(* A value that is present has a maximum: a reply that does not come is
   ignored, as "we already know it works". *)
PresentHasMaximum == \A v \in VCPs : at = "select" /\ ci /\ has[v] => max[v] = Top

(* A monitor that is gone is hidden. *)
HiddenIfGone == at = "select" /\ ~ci /\ ~unauthorized => bar = Blank
=============================================================================
