---------------------------- MODULE PolledModules ----------------------------
(***************************************************************************)
(* The modules of i3status-custom that sample something at every tick:     *)
(* fan and temperature, disk, memory and time, cpu, wifi, interfaces and   *)
(* backlight.  They share one loop (see Instance for its notifications     *)
(* and for when an update is drawn immediately) and differ in what they    *)
(* read, what they remember from one sample to the next, and what a click  *)
(* does.  A behaviour is one module of one kind.                           *)
(*                                                                         *)
(* What they sample changes at any time.  Numbers are kept as far as the   *)
(* control depends on them: how many CPUs, which link, which counter went  *)
(* backwards; the wheel of backlight is in Levels.                         *)
(***************************************************************************)
EXTENDS Lists

CONSTANTS
    Kinds,          \* the kinds of modules
    Groups,         \* cpu: the number of groups, 0 for one total
    Start,          \* what is sampled at first, by kind
    ViewMod,        \* interfaces: 2^64, where a view wraps
    HideIfOff,      \* fan: the option of that name
    MaxChanges,     \* bound: changes of what is sampled, and of the bar
    MaxClicks       \* bound: clicks

VARIABLES
    kind,
    world,          \* external: what is sampled
    at,             \* where the goroutine is
    mem,            \* the locals of Run that outlive a sample
    tick,           \* whether the channel of the ticker is full
    elapsed,        \* whether the clock has advanced since the last sample
    stopped, told,  \* IsStopped, and whether Stopped() has something
    bar,            \* what the last Update rendered
    swapped,        \* history: a chip took the place of another between samples
    moved,          \* history, cpu: what is sampled has changed since the last sample
    unseen,         \* history, cpu: the bar was stopped before the run's first sample
    changes, clicks

outside == <<kind, world, stopped, changes>>
past == <<swapped, moved, unseen>>
vars == <<outside, at, mem, tick, elapsed, told, bar, past, clicks>>

Dirs == 1 .. 2      \* hwmon directories, or network interfaces

Block(text, items) == [text |-> text, items |-> items]
Nothing == Block("", << >>)
Unknown == Block("?", << >>)
Error == Block("error", << >>)

NoLink == [view |-> 0, tx |-> 0, rate |-> 0]

Mem0 == [path |-> 0, expanded |-> FALSE, prev |-> 0, links |-> {},
         ifs |-> [d \in Dirs |-> NoLink], known |-> {}, setErr |-> FALSE]

(* An interface is worth 0 when it is down and its counter otherwise; the list
   of all of them may fail to come.  A fan may be off, and a file be there and
   not be read.  The stations of a wireless link may not be told ("mute"), or
   be told not to exist ("lone"). *)
Worlds(k) ==
    CASE k = "fan" -> [Dirs -> {"chip", "off", "bad", "other", "none"}]
      [] k = "temperature" -> [Dirs -> {"chip", "bad", "other", "none"}]
      [] k \in {"disk", "memory", "time"} -> {"low", "high", "gone", "failing"}
      [] k = "cpu" -> {0, 1, 2}                 \* 0: /proc/stat does not parse
      [] k = "wifi" -> [Dirs -> {"up", "mute", "lone", "idle", "busy", "ap"}] \cup {[d \in Dirs |-> "unlisted"]}
      [] k = "interfaces" -> [Dirs -> {0, 1, 2}] \cup {[d \in Dirs |-> -1]}
      [] k = "backlight" -> {"low", "high", "gone", "failing"}

-----------------------------------------------------------------------------
(* Fan and Temperature look for the file of their chip, and read the one they
   have found for as long as it exists. *)
Found == {d \in Dirs : world[d] \in {"chip", "off", "bad"}}

Path == IF mem.path # 0 THEN mem.path ELSE First(Found)

(* A fan that is off is shown only if the option says to hide it. *)
Reading(r) ==
    CASE r = "none" -> Unknown
      [] r = "bad" -> Error
      [] r = "off" /\ kind = "fan" /\ ~HideIfOff -> Nothing
      [] OTHER -> Block(r, << >>)

(* Mutant: the path that is gone is kept. *)
SampleHwmonForever ==
    /\ kind \in {"fan", "temperature"}
    /\ LET read == IF Path = 0 THEN "none" ELSE world[Path]
       IN  /\ mem' = [mem EXCEPT !.path = Path]
           /\ bar' = Reading(read)

SampleHwmon ==
    /\ kind \in {"fan", "temperature"}
    /\ LET read == IF Path = 0 THEN "none" ELSE world[Path]
       IN  /\ mem' = [mem EXCEPT !.path = IF read = "none" THEN 0 ELSE Path]
           /\ bar' = Reading(read)

(* Disk and Memory show one number, and the total when expanded; a mount point
   that does not exist is unknown, everything else is an error.  Time shows
   the time. *)
SampleFile ==
    /\ kind \in {"disk", "memory", "time"}
    /\ bar' = IF kind = "time" THEN Block("time", <<world>>)
              ELSE IF world = "gone" /\ kind = "disk" THEN Unknown
              ELSE IF world \in {"gone", "failing"} THEN Error
              ELSE Block(world, IF mem.expanded THEN <<"total">> ELSE << >>)
    /\ UNCHANGED mem

(* CPU subtracts the sample before this one: of each CPU when expanded, of
   each group or the total when not.  A usage over no time at all is 0/0. *)
CpuUsage(n) == Block("usage", [i \in 1 .. n |-> IF elapsed THEN "percent" ELSE "nan"])

(* Mutant: the single CPUs are remembered only while they are shown. *)
SampleCpuForgetful ==
    /\ kind = "cpu"
    /\ mem' = [mem EXCEPT !.prev = IF world = 0 \/ ~mem.expanded THEN @ ELSE world]
    /\ bar' = IF world = 0 THEN Error
              ELSE IF mem.expanded THEN CpuUsage(world)
              ELSE CpuUsage(IF Groups = 0 THEN 1 ELSE Groups)

(* Its render panics when there is no usage to show: expanded, and the sample
   before had another number of CPUs. *)
SampleCpu ==
    /\ kind = "cpu"
    /\ mem' = [mem EXCEPT !.prev = IF world = 0 THEN @ ELSE world]
    /\ bar' = IF world = 0 THEN Error
              ELSE IF mem.expanded THEN CpuUsage(world)
              ELSE CpuUsage(IF Groups = 0 THEN 1 ELSE Groups)

CpuPanics == kind = "cpu" /\ world # 0 /\ mem.expanded /\ mem.prev # world

-----------------------------------------------------------------------------
(* WiFi asks the interfaces one by one, up to the first that fails; one that
   is not associated, or has no station, fails with ErrNotExist. *)
FirstBad == First({d \in DOMAIN world : world[d] \in {"idle", "busy", "mute", "lone"}})

Asked == {d \in Dirs : world[d] # "unlisted" /\ (FirstBad = 0 \/ d <= FirstBad)}

(* Mutant: an interface that fails is not forgotten. *)
WifiLinksKept == mem.links \cup {d \in Asked : world[d] = "up"}

(* What is remembered of the interfaces: those with a network, also when their
   stations are not told. *)
WifiLinks == (mem.links \ Asked) \cup {d \in Asked : world[d] \in {"up", "mute", "lone"}}

(* The blocks of the interfaces that are remembered. *)
Shown(links) == [d \in Dirs |-> IF d \in links THEN "link" ELSE ""]

WifiBlock(links) ==
    IF world[1] = "unlisted" THEN Error
    ELSE IF FirstBad # 0 /\ world[FirstBad] \in {"idle", "lone"} THEN Nothing
    ELSE Block(IF FirstBad = 0 THEN "" ELSE "error", Shown(links))

(* It goes on asking while the bar is stopped if it shows the throughput. *)
SampleWifi ==
    /\ kind = "wifi"
    /\ mem' = [mem EXCEPT !.links = IF stopped /\ ~mem.expanded THEN @ ELSE WifiLinks]
    /\ bar' = IF stopped THEN bar ELSE WifiBlock(WifiLinks)

-----------------------------------------------------------------------------
(* Interfaces keeps a view and the last throughput of every name it has ever
   seen; the throughput stays when a counter went backwards. *)
Counted(link, tx) ==
    [link EXCEPT !.tx = tx, !.rate = IF tx >= link.tx THEN tx - link.tx ELSE @]

SampleInterfaces ==
    /\ kind = "interfaces"
    /\ LET up == {d \in Dirs : world[d] > 0}
           ifs == [d \in Dirs |-> IF d \in up THEN Counted(mem.ifs[d], world[d]) ELSE mem.ifs[d]]
       IN  /\ mem' = [mem EXCEPT !.ifs = ifs, !.known = @ \cup up]
           /\ bar' = IF stopped THEN bar ELSE IF world[1] = -1 THEN Error
                     ELSE Block("links", [i \in Dirs |->
                            IF i \notin up THEN "" ELSE CASE ifs[i].view % 3 = 0 -> "name"
                              [] ifs[i].view % 3 = 1 -> IF ifs[i].rate = 0 THEN "still" ELSE "busy"
                              [] OTHER -> "address"])

(* Backlight shows a failed set for as long as none has succeeded, also in
   place of a failed read: without one, that error is "<nil>". *)
SampleBacklight ==
    /\ kind = "backlight"
    /\ bar' = IF world = "gone" THEN Unknown
              ELSE IF world = "failing" THEN Block(IF mem.setErr THEN "set failed" ELSE "nil", << >>)
              ELSE IF mem.setErr THEN Block("set failed", << >>)
              ELSE Block(world, << >>)
    /\ UNCHANGED mem

-----------------------------------------------------------------------------
TypeOK ==
    /\ kind \in Kinds /\ world \in Worlds(kind)
    /\ at \in {"sample", "select", "failed"}
    /\ DOMAIN mem = DOMAIN Mem0
    /\ mem.path \in 0 .. 2 /\ mem.links \subseteq Dirs /\ mem.prev \in 0 .. 2
    /\ \A d \in Dirs : mem.ifs[d].view \in 0 .. ViewMod - 1
    /\ tick \in BOOLEAN /\ elapsed \in BOOLEAN /\ stopped \in BOOLEAN /\ told \in BOOLEAN
    /\ swapped \in BOOLEAN /\ moved \in BOOLEAN /\ unseen \in BOOLEAN

Init ==
    /\ kind \in Kinds /\ world = Start[kind]
    /\ at = "sample" /\ mem = Mem0
    /\ tick = FALSE /\ elapsed = TRUE /\ stopped = FALSE /\ told = FALSE
    /\ bar = Nothing /\ swapped = FALSE /\ moved = FALSE /\ unseen = FALSE
    /\ changes = 0 /\ clicks = 0

Changes == changes < MaxChanges /\ changes' = changes + 1

(* What is sampled changes. *)
WorldChanges ==
    /\ Changes
    /\ world' \in Worlds(kind) \ {world}
    /\ swapped' = (swapped \/ (mem.path # 0 /\ world'[mem.path] = "other"))
    /\ moved' = (moved \/ kind = "cpu")
    /\ UNCHANGED <<kind, stopped, at, mem, tick, elapsed, told, bar, unseen, clicks>>

(* The bar is stopped or continued. *)
BarChanges ==
    /\ Changes
    /\ stopped' = ~stopped /\ told' = TRUE
    /\ UNCHANGED <<kind, world, at, mem, tick, elapsed, bar, past, clicks>>

(* The divider sends a tick.  A sample takes less than the interval. *)
Tick ==
    /\ ~tick /\ at # "sample"
    /\ tick' = TRUE /\ elapsed' = TRUE
    /\ UNCHANGED <<outside, at, mem, told, bar, past, clicks>>

-----------------------------------------------------------------------------
(* The top of the loop.  Most modules do nothing while the bar is stopped. *)
Sleeps == stopped /\ kind \notin {"wifi", "interfaces"}

Skip ==
    /\ at = "sample" /\ Sleeps
    /\ at' = "select"
    /\ unseen' = (unseen \/ (kind = "cpu" /\ mem.prev = 0))
    /\ UNCHANGED <<outside, mem, tick, elapsed, told, bar, swapped, moved, clicks>>

Sample ==
    /\ at = "sample" /\ ~Sleeps /\ ~CpuPanics
    /\ SampleHwmon \/ SampleFile \/ SampleCpu \/ SampleWifi \/ SampleInterfaces \/ SampleBacklight
    /\ elapsed' = FALSE
    /\ at' = "select"
    /\ moved' = FALSE /\ unseen' = FALSE
    /\ UNCHANGED <<outside, tick, told, swapped, clicks>>

(* The panic ends Run; the instance shows it and waits for a click. *)
Panic ==
    /\ at = "sample" /\ ~Sleeps /\ CpuPanics
    /\ at' = "failed" /\ bar' = Error
    /\ UNCHANGED <<outside, mem, tick, elapsed, told, past, clicks>>

WakeTick ==
    /\ at = "select" /\ tick
    /\ tick' = FALSE /\ at' = "sample"
    /\ UNCHANGED <<outside, mem, elapsed, told, bar, past, clicks>>

WakeStopped ==
    /\ at = "select" /\ told
    /\ told' = FALSE /\ at' = "sample"
    /\ UNCHANGED <<outside, mem, tick, elapsed, bar, past, clicks>>

-----------------------------------------------------------------------------
Click == clicks < MaxClicks /\ clicks' = clicks + 1

(* A click that only samples again. *)
ClickRefresh ==
    /\ Click /\ at = "select" /\ kind \notin {"time", "interfaces", "backlight"}
    /\ at' = "sample"
    /\ UNCHANGED <<outside, mem, tick, elapsed, told, bar, past>>

(* The right button: the total, the single CPUs, the throughput. *)
ClickExpand ==
    /\ Click /\ at = "select" /\ kind \in {"disk", "memory", "cpu", "wifi"}
    /\ mem' = [mem EXCEPT !.expanded = ~@]
    /\ at' = "sample"
    /\ UNCHANGED <<outside, tick, elapsed, told, bar, past>>

(* The wheel over one interface turns its view, in unsigned arithmetic. *)
ClickView(d, step) ==
    /\ Click /\ at = "select" /\ kind = "interfaces" /\ d \in mem.known
    /\ mem' = [mem EXCEPT !.ifs[d].view = (@ + step) % ViewMod]
    /\ at' = "sample"
    /\ UNCHANGED <<outside, tick, elapsed, told, bar, past>>

(* The wheel over the backlight: logind sets it, or refuses. *)
ClickBrightness ==
    /\ Click /\ at = "select" /\ kind = "backlight"
    /\ \/ world \in {"low", "high"} /\ world' \in {"low", "high"} /\ mem' = [mem EXCEPT !.setErr = FALSE]
       \/ UNCHANGED world /\ mem' = [mem EXCEPT !.setErr = TRUE]
    /\ at' = "sample"
    /\ UNCHANGED <<kind, stopped, changes, tick, elapsed, told, bar, past>>

(* The click that makes a failed module run again; it is not counted. *)
Restart ==
    /\ at = "failed"
    /\ mem' = Mem0 /\ at' = "sample"
    /\ moved' = FALSE /\ unseen' = FALSE
    /\ UNCHANGED <<outside, tick, elapsed, told, bar, swapped, clicks>>

Run == Skip \/ Sample \/ Panic \/ WakeTick

Next ==
    \/ WorldChanges \/ BarChanges \/ Tick
    \/ Run \/ WakeStopped
    \/ ClickRefresh \/ ClickExpand \/ ClickBrightness \/ Restart
    \/ \E d \in Dirs, step \in {1, -1} : ClickView(d, step)

Safe == Init /\ [][Next]_vars

(* The divider ticks, and a module whose channel is full is run. *)
Spec == Safe /\ WF_vars(Tick) /\ WF_vars(Run)

-----------------------------------------------------------------------------
(* What a module that starts now would show, with the same toggles and of two
   chips of one name the same; for interfaces with traffic that has come to
   rest; and of a wireless link that fails, the error next to what is left. *)
Fresh ==
    CASE kind \in {"fan", "temperature"} ->
            Reading(IF mem.path \in Found THEN world[mem.path]
                    ELSE IF Found = {} THEN "none" ELSE world[First(Found)])
      [] kind = "cpu" ->
            (IF world = 0 THEN Error
             ELSE Block("usage", [i \in 1 .. (IF mem.expanded THEN world ELSE IF Groups = 0 THEN 1 ELSE Groups)
                                    |-> "percent"]))
      [] kind = "wifi" ->
            (IF world[1] = "unlisted" THEN Error
             ELSE IF FirstBad = 0 THEN Block("", Shown({d \in Dirs : world[d] = "up"}))
             ELSE IF world[FirstBad] \in {"idle", "lone"} THEN Nothing
             ELSE Block("error", bar.items))
      [] kind = "interfaces" ->
            (IF world[1] = -1 THEN Error ELSE Block("links", [d \in Dirs |-> IF world[d] = 0 THEN ""
                                ELSE <<"name", "still", "address">>[(mem.ifs[d].view % 3) + 1]]))
      [] kind = "time" -> Block("time", <<world>>)
      [] kind = "disk" /\ world = "gone" -> Unknown
      [] kind = "backlight" /\ world = "gone" -> Unknown
      [] kind = "backlight" /\ world = "failing" -> Block("nil", << >>)
      [] kind \in {"disk", "memory"} /\ world \in {"low", "high"} ->
            Block(world, IF mem.expanded THEN <<"total">> ELSE << >>)
      [] kind = "backlight" /\ world \in {"low", "high"} -> Block(world, << >>)
      [] OTHER -> Error

(* A module shows what is the case soon after it is the case, whatever came and
   went before: a sensor that moved, a CPU that was unplugged, a counter that
   was reset.  Not after a set of the brightness was refused, and not when
   another chip has taken the directory of ours while its file stayed. *)
Undisturbed == ~stopped /\ at # "failed" /\ ~mem.setErr /\ ~swapped
CaughtUp == at = "select" => bar = Fresh

ReadingCatchesUp == <>[]Undisturbed => <>[]CaughtUp

(* A link is shown only while it is up, or next to an error. *)
HidesStaleLinks ==
    kind = "wifi" /\ Sample /\ ~stopped /\ bar'.text = "" =>
        \A d \in DOMAIN bar'.items : bar'.items[d] = "link" => world[d] = "up"

NoStaleLink == [][HidesStaleLinks]_vars

(* No sequence of clicks makes a module fail.  For that, what it samples must
   have changed since the last sample (a CPU went offline, or the statistics
   parse again), or the bar been stopped from before the first sample of the
   run until now: a right click in that time asks for single CPUs that were
   never sampled. *)
ClicksNeverFail == at = "failed" => moved \/ unseen
=============================================================================
