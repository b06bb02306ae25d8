# A verification development for barlib

barlib is a Go library for status bars that speak the i3bar protocol, with a set of
modules built on it (`i3status-custom`), and the protocol clients those modules need.
This directory holds TLA+ models of the library, TLC configurations that check them on
small instances, and TLAPS proofs of what matters most for every instance.

## 1. Inventory

| Part | Source | State it keeps | Operations | Talks to |
|---|---|---|---|---|
| Render loop | `barlib.go` `Update`, `WriteTo`, end of `Main` | two buffers and two mutexes per instance, two one-slot invalidation channels, `render`, the delayer | `Update(now, fn)`, one loop iteration | modules call `Update`; writes stdout |
| Tick divider | `barlib.go` `tickDivider` | maps `s`, `r` of sub-tickers, mutex, counter `n`, cancel channel | `Tick`, `Reset`, `Stop`, the loop goroutine, one watch goroutine per cancellable sub-ticker | instances register sub-tickers |
| Instance lifecycle | `barlib.go` `instantiate`, `SendEvent`, `SendStopped`, `Event`, `Stopped`, `Tick` | event queue (16), stop flag and one-slot notification, ticker generation channel | run, fail, panic, drain, show the error, wait for a click, restart | event reader, signal handler, tick divider, render loop |
| Bar process | `barlib.go` `Main` | process image, environment mark, signal dispositions | header, watcher (`exec` on chmod), stdin reader, signal goroutine | i3bar over stdin, stdout and signals |
| Protocol encoding | `barproto/barproto.go` | none (pure) | `Init`/`Block.AppendJSON`, `Event.FromJSON` | render loop, stdin reader |
| PulseAudio client | `pulseaudio/client.go`, `updates.go`, `errors.go` | request table, tag counter, packet channel, `connected`, updates channel | `NewClient`, `request`, receive loop, `Updates`, `Close` | PulseAudio server over a socket |
| PulseAudio codec | other files of `pulseaudio/` | none (pure) | bread/bwrite of commands and structures | client |
| PulseAudio module | `i3status-custom/pulseaudio.go` | devices as fetched, selection, shown index, expansion | rounds of requests, render, debounced update, clicks | client |
| Gamma control, Wayland | `redshift/wayland.go` | outputs, controls, last ramp, registry | `Set`, registry and control callbacks, `sync` | compositor |
| Gamma control, X11 | `redshift/x11.go`, `i3status-custom/redshift.go` | white point, CRTCs; the module's override and temperature | `Set`, event goroutine; ticks and clicks | X server |
| Redshift algorithms | `redshift/blackbody.go`, `solar.go` | none (pure) | `GetWhitePoint`, `Ramp`, solar elevation | Redshift module |
| DDC/CI | `ddc/ddc.go`, `ddc/drm.go` | next allowed request time | `GetVCP`, `SetVCP` with retries, `FindMonitor` | I2C bus, `/sys` |
| DDC module | `i3status-custom/ddc.go` | the open bus, `hasBr`, `brCur`, `brMax`, `brSkip`, `brNew` and the same of the contrast | find, open, poll, presets, wheel, set | monitor over DDC/CI |
| XRandR module | `i3status-custom/xrandr.go` | outputs, layouts, active and selected layout | rounds of requests, scroll, apply, swap | X server |
| CMUS module | `i3status-custom/cmus.go` | object, status, volume, view, ticker period | signals, fetches, clicks, volume | player on the session bus |
| D-Bus service modules | `dunst.go`, `mako.go`, `powerprofiles.go`, `bluezdevice.go`, `battery.go` | what was fetched last | a round of requests per signal, a click that sets | services on a shared connection |
| Polling modules | `cpu.go`, `memory.go`, `disk.go`, `fan.go`, `temperature.go`, `time.go`, `wifi.go`, `interfaces.go`, `backlight.go` | what one sample leaves for the next | sample per tick, clicks | `/proc`, `/sys`, netlink, logind |
| Sample program | `i3status-custom/aaa_main.go` | none | the table of modules and intervals | render loop, tick divider |
| Overlay bar | `xob/xob.go`, `style.go` | window, graphics contexts, `Mapped`; the picture on the server | `NewBar`, `Show`, `Hide`, `Close` | X server |
| Wallpaper geometry | `xwallpaper/transform.go` | none (pure) | crop, zoom, maximize, focus, tile, `DrawRez` | tests only |
| Wayland bindings | `wlproto/*` | generated | | gamma control |

### How the parts interact

`Main` creates the tick divider, one instance per module (each running `Module.Run` in a
goroutine of its own that restarts it after an error), the stdin reader, the signal
goroutine and the binary watcher, writes the header, and becomes the render loop.
Modules pull from channels (ticks, events, stop notifications) and push frames by
`Update`; the loop pulls the frames. All of these channels have a small capacity and every
sender drops instead of blocking, so the correctness of the program is about what may be
dropped and what must not.

### What is hard

* An update races with the loop that is writing the bar (`barlib.go:187-190` against
  `470-489`): the swap and the token are two steps, the receive and the read are two more.
* Callbacks that panic halfway, and two goroutines of one module inside `Update`.
* The delayer is Reset while an expiry may be pending (`497-506`).
* `Tick`, `Reset`, `Stop`, cancellation and the tick itself race on the sub-ticker maps;
  cancellation is asynchronous (`311-317`).
* A module that fails is drained, shown as an error and restarted while the event reader
  and the signal handler keep sending (`140-160`).
* `exec` replaces the process at any point, also in the middle of a line (`396`).
* In the clients: a lost connection against a request in flight, answers against
  callbacks, retries against a device that went away.
* In the modules: a round consists of several requests, and the service changes or goes
  between two of them; signals are lost when a channel is full; a click is answered from
  what was fetched last; what one sample leaves behind is stale at the next.
* Two goroutines of the gamma manager write the same ramps without the lock
  (`redshift/x11.go:89`).
* Every request to the X server may be refused, and the next call finds what the failed one
  left (`xob/xob.go`).
* Arithmetic at the edges: truncated division of negative numbers, `uint16` that wraps,
  quotients rounded on one way and truncated on the other.

### What makes each part correct

* **Render loop**: no update is lost; only whole frames are drawn; a line is a valid
  array whichever modules are empty; an immediate update does not wait for the delayer; a
  silent bar settles and sleeps.
* **Tick divider**: both maps agree and hold what the modules asked for; a sub-ticker
  delivers at most one more tick after `Reset(0)`, and after a cancel or a stop at most that
  one and those that fall due until the divider forgets it; ticks arrive in order and none a
  module was ready for is skipped; cancelled sub-tickers are forgotten.
* **Instance**: events arrive in order, at most once, and never across a failure; a module
  never sleeps on an outdated `IsStopped`; a failure is shown; only clicks are drawn
  immediately.
* **Bar process**: one header whatever the restarts; the output stays an endless JSON
  array; a signal that gets through by itself sets `IsStopped` right, whatever was lost
  before it.
* **PulseAudio client**: an answer reaches the request it is about; the tag lookup never
  panics; a lost or closed connection releases the callers.
* **Gamma control**: every valid control carries the newest white point, in whatever order
  outputs, managers, sizes and calls of `Set` come; on X11, only two `apply` at once leave
  an older one, and not for longer than to the next tick.
* **Sample modules**: whatever came before, once the outside rests the bar says what is the
  case; a selection stays on its device; nothing fails but for a reason that is known; what
  must not be shown is not.
* **Overlay**: a `Show` that succeeds leaves a window that is mapped and reads as the value it
  was given, whatever the operations before it left half done, and is above the others unless
  one of these was refused to raise it.
* **Codecs and framing**: what is sent is read back; what is corrupted or about something else
  is refused, and what is cut short as far as its checksum tells.
* **Algorithms** (white point lookup, layouts, levels, overlay geometry, crop and focus):
  the result keeps its promise at the edges of the input.

## 2. Modules and the code they stand for

Every definition that models code is in the `map` of `PROJECT.json` with its lines. A
definition whose comment begins with "Mutant:" is a deliberately wrong variant of the
definition after it; nothing refers to it, and substituting it for that definition makes
TLC refute the property it belongs to.

### `StatusLine` and `RenderLoop`

`StatusLine` is what the renderer promises a module author: `published` frames and what is
`shown`, changed by `Publish` (one `Update`) and `Show` (the bar catches up with one
instance). It has no lock, buffer or channel. `RenderLoop` implements it
(`ImplementsStatusLine`, with `published <- buf1` and `shown <- drawn`).

| `RenderLoop` | `barlib.go` |
|---|---|
| `buf1`, `buf2`, `buf1m`, `buf2m` | the front and back buffers of an instance and who holds their mutexes |
| `invCh`, `nowCh` | whether the one-slot `invalidateCh`, `invalidateNowCh` are full |
| `timer` | the delayer: not made, running, its channel full, or received from |
| `pc`, `render`, `next`, `comma`, `line` | the goroutine of `Main` and its locals |
| `BeginUpdate`, `RenderBlock`, `Panic`, `Swap`, `Invalidate`, `Return` | `Update`: lock and truncate, the callback, its panic, swap and compare, the dropped-if-full send, the deferred unlocks |
| `Skip`, `DrainInv`, `InvDrained`, `DrainNow`, `BeginLine`, `WriteTo`, `EndLine` | the `if render` half of the loop |
| `WaitNow`, `WaitInv`, `DelayTimer`, `DelayNow`, `TimerFire` | the two blocking selects and the delayer |

`drawn` is a history variable: the frame of each instance written last. A block is a model
value; that blocks carry a name and are separated by commas is kept, because routing of
clicks and validity of the line depend on it. The JSON of a block is not.

### `TickDivider`

`s` and `r` are the two maps (channel to multiple, receive end to channel), `nil` is
`d.s == nil`, `n` the counter, `tick` the channel of `time.Ticker`, `ch` the one-slot
channels of the modules, `watch` the goroutine `Tick` starts for a cancel channel. Each
critical section of `d.m` is one action: `Tick`, `Reset`, `Watch`, `LoopTick`, `LoopStop`;
`Cancel`, `Stop`, `TickerFire` and `Receive` are the environment. `Legal` is the panic of
`interval` on a negative duration or, in strict mode, one that is no multiple of the base;
`Multiple` is its rounding. `asked`, `late`, `since`, `got` are history. `late` counts, from the
`Reset(0)`, the close of the cancel channel or the call of `Stop` on, the ticks a sub-ticker
delivers, less those that fall due from then on: a goroutine that has yet to see the close
(`barlib.go:311-317`), or a loop that has yet to choose the stop (`270-284`), leaves it ticking
for any number of ticks.

### `Instance`

The goroutine of `instantiate` (`Fail`, `StopTickers`, `DrainEvent`, `Drained`,
`ShowError`, `Restart`) around the loop every polling module is (`RunTick`, `Load`,
`Sample`, `WakeTick`, `WakeStopped`, `WakeEvent`), with the stdin reader (`SendEvent`), the
signal goroutine (`SendStoppedStore`, `SendStoppedNotify`: two steps, as in the code) and
the divider's goroutines (`Forget`). An event is its number. `ResetsIsEvent` tells a module
that enters its select with `for isEvent = false; ; {` (temperature, interfaces, ...) from
one that does not (memory, cpu). The divider is reduced to the set of runs that own
sub-tickers; what it does with them is `TickDivider`.

### `BarProcess`

`Main` as i3bar sees it, across the restarts of the binary watcher. `image` counts process
images, `marked` is `restartEnv`, `out` is where a reader of the i3bar protocol is in the
output (`array`, `line`, or `broken` for good), `raised` are the signals the Go runtime has
caught and not delivered, `sigCh` the channel of capacity 2. `Exec` forgets everything but
the pipes and the environment. `lost` (history) says that the last signal was dropped, or was
caught while another one waited. The line of the render loop is three kinds of writes, since
`exec` may fall between any two. `WriteBlocks` may be repeated: the number of modules is
left open. The watcher sleeps 500 ms before it executes, taken to be longer than the time
from the start of an image to its header.

### `PulseClient`

`call` is where each caller is in `request`; `pending`, `tag`, `loop` and `updates` belong to
`processPackets`; `reader` and `held` to the receive goroutine; `closed` is the close of
`c.packets`. Unbuffered channels make a send and its receive one action. `Tags` replaces
2^32 - 1; `Reserved` is the tag events come under. The server (external, modelled from what
the client expects of it) answers any request in any order, with a reply or an error, sends
events and oversized frames, and may go away, after which what it wrote can still be read.

### `GammaManager` and `GammaWayland`

`GammaManager` is what `manager.go` promises whoever calls `Set`: the outputs that are
`granted` to the manager, those it can write (`held`), the white point of the
last `Set` that returned, what every output carries (`ramp`), and what the `Set` that is
waiting still has to come past (`due`). It has no event, control or compositor. An output is
written once when it can be and on every `Return`, and `Return` waits for all that was
granted when the call was settled. `GammaWayland` implements it (`ImplementsGammaManager`,
with `granted <- Owned`, `held <- Held`, `due <- Due`, `phase <- Phase`): `sync` settles what it
waits for when the compositor answers, and returns when the answer has been dispatched.

`manager`, `outputs`, `control`, `size`, `applied`, `white` are the fields of
`wlManager` and of the state of each output; `queue` holds the events that have been
sent and not dispatched. `OnGlobalManager`, `OnGlobalOutput`, `OnGlobalRemove`, `OnGammaSize`,
`OnFailed`, `OnDone`, `OnError` are the handlers with everything they call (`BindControls`,
`ApplyOutputs`), `Set` is the caller's half and `OnDone` the half that runs on the event
goroutine. The compositor (external) is `Announce`, `Withdraw`, `Take`, `AnswerSync`,
`EndConnection`. `Withdraw` takes a manager's global away: its controls stay valid, but what
is asked of it from then on is ignored (`wlproto/wayland.go:399-406`), so that `BindControls` gets
neither a size nor a failure of it (`Answers`).

* The code compares white points by address and every `Set` allocates one, so a white
  point is the number of its `Set`.
* The compositor handles a request when it is sent; its answer waits in the queue behind
  earlier events. The order in which `bindControl` walks the map is nondeterministic.
* Registry names are not used again. `ManagerId` is the object id the client gives the
  manager it binds, which `OnGlobalRemove` compares with a registry name
  (`wayland.go:122`).
* A write on a connection found closed panics in the generated bindings; what happens then
  is left out, so the module says nothing of an ended connection beyond `FatalEndsRun`.

### `PulseModule`

| `PulseModule` | `i3status-custom/pulseaudio.go` |
|---|---|
| `def`, `list`, `sel`, `exp`, `idx` | `inf`, `snk` and `src`, `snkSel`, `snkExp`, `snkIdx` and the same of the source; an index of 0 is the code's -1 |
| `Subscribe`, `Disconnected`, `FetchInfo`, `FetchList`, `Render` | one round of `Run`, a request an action each |
| `TakeUpdate`, `Debounced` | the update and the pause (8 ms) that swallows those after it |
| `ClickCommand`, `ClickExpand`, `ClickScroll`, `CommandDone`, `CommandFails` | the clicks and the request they make |
| `Change`, `Disconnect` (external), `Notify`, `LoopEnds`, `Unanswered` | the server and its other clients; what `PulseClient` makes of them, seen by a caller |

The sink and the source half of the code are one definition, by kind. A request on a
connection that has been lost fails while the packet loop still runs, and blocks after that
(`PulseClient`, `RequestReturns`).

### `DDCModule`

`at` follows `Run`: poll both VCPs, find and open the bus, update, select, set both. `monitor`
is on, asleep (answers with silence), gone (does not answer to its address) or unplugged,
and changes between any two requests; `granted` is whether the bus may be opened. `Read`
carries out the assignment before the look at the error (`ddc.go:60`). `Top` is the maximum the
monitor reports, `Assumed` the one of a monitor that is polled blindly. `LookFails` are the errors of
finding and opening other than a missing right, `SetFails` those of a set other than a device that has
gone: both end the run. `Up` and `Down` are
the wheel with the width of `uint16`, `ClickPreset` the presets with the closest one. The
brightness and the contrast half of the code are one definition.

### `CmusModule`

`wire` is the bus, `ch` the channel of six signals, of which a full or unregistered one loses
what comes (`missed`, history). `List` and `Register` are two steps, as in the code; a request
is answered after the signals that were sent before it. `HandleSignal` is one case of the
select, with the owner, property and seek signals apart; a seek without an object is the
dereference of nil in the code (`panic`). A volume is what `int(volume*100)` makes of the player's
number; `Percent` is what becomes of one the wheel has set, since of 29, 57 and 58 hundredths the
truncation takes one (`cmus.go:161`, `349-351`).

### `BusModule`

Dunst, PowerProfiles, BluezDevice, Battery and Mako are one module with a `kind`: they register
a channel, ask the service for everything at every signal (`Fetch...`, one action per request
that can fail by itself), render, and set the value after the one fetched last on a click.
The channel also gets what the other modules on the connection have asked for.

### `XRandR`

`FetchOutputs`, `FetchCrtcs`, `Render` are a round; `HandleEvent` is the event that starts the
next; `ClickScroll`, `ClickApply`, `ClickSwap` the buttons. The layouts come from `Layouts`.
Applying one is a single step of the server, though the code sets one CRTC after the other.

### `PolledModules`

One loop (`Skip`, `Sample`, `WakeTick`, `WakeStopped`, the clicks, `Restart`) for the modules
that sample at every tick, with one `Sample...` action per kind of what they read: a hwmon
directory searched once and kept (`fan`, `temperature`), a file (`disk`, `memory`, `time`), the
CPUs (`cpu`, with the panic on a CPU that was not there before), links (`wifi`), counters
(`interfaces`), a level (`backlight`). A fan may be off (`HideIfOff` is the option), a file may be
there and not be read, and the stations of a link may not be told. `moved` and `unseen` (history)
are the two reasons a click may make `cpu` fail for. `mem` is what survives from one sample to the next. What a
sample computes is in `Samples` and `Levels`.

### `GammaX11`

The Redshift module (`SetWhite`, `SetBegins`, `SetReturns`, `Update`, `WakeTick`, `WakeStopped`, the
clicks) and
the event goroutine (`HandleEvent`, `EventApplied`) over the X11 manager. `writer` holds the two
calls of `apply` that may run at once: the white point each has read under the lock, and the
CRTCs it has yet to set (`SetCrtc`). `raced` is history.

### `Overlay` and `Style`

`Connect` to `CreateColors` are `NewBar`, `Map`, `Raise` and `Draw` a `Show`; each waits for an
answer and may be refused (`Refused`), which leaves `mapped`, the window and the picture as they
are. `picture` is what has been painted along the length of the bar, one rectangle over
the other; `Drawings` is the list of rectangles `Show` paints. `Window` is the geometry of a
style, `lowered` (history) whether a `Show` since the window was mapped was refused to raise it,
`Style` the two styles there are and what changes them (`style.go`); a rectangle over
the whole window (`Covers`) hides those before it, so the picture is never longer than one
`Show`. `AnchorsHold` and `Framed` are parts of `ShowShows`.

### `Parts`: the eight modules above in one specification

The modules have no state in common but run in the same process under the same conditions, and
one question can be asked of all of them: does the bar come to say what is the case?
`Parts` instantiates all eight, chooses in `Init` which one a behaviour is about
(`which`), and lets the variables of the others keep the value `Unused`. Its properties are
those of the modules under `which = ...`; its `Spec` states the fairness of each module's own
`Spec`. Its constants are the inputs and bounds of every module, with one `ASSUME` per module
that says what they may be: a server has lists of named devices, a monitor numbers of 16
bits, a style leaves room for its frame on the screen. `MCParts` and `Parts.cfg` give them values,
and nothing else. Each module also has a `Spec` and properties of its own (`ViewCatchesUp`,
`PlayerCatchesUp`, ...) to be checked by itself. `Lists` holds what several of them do with a
slice (`slices.IndexFunc`).

### The algorithms

| Module | Code | What is there |
|---|---|---|
| `DDC` | `ddc/ddc.go`, `ddc/drm.go` | frames and checksum of a command and a reply, retries of `GetVCP`, identification of an EDID, `FindMonitor`, `FindI2C` |
| `PulseCodec` | `pulseaudio/*.go` | `bread` and `ReadFrom` over the fields of every record, lists of records |
| `Protocol` | `barproto/barproto.go` | strings, colors, the keys of `Init` and `Block` and when they are written, `Event.FromJSON` |
| `Layouts` | `i3status-custom/xrandr.go` | `addLayout` and the seven layouts |
| `Levels` | `pulseaudio/sink.go`, `backlight.go`, `temperature.go`, `redshift/*.go` | percent and back, the wheel, the row of the white point table, the solar temperature, the ramp |
| `Samples` | `cpu.go`, `memory.go`, `temperature.go` | CPU times, groups and usage, memory amounts, the sensor of a directory |
| `Wallpaper` | `xwallpaper/transform.go` | crop, zoom, maximize, stretch, center, focus, tile, and where `DrawRez` puts it; `Promised` is what each mode is held to |
| `Program` | `aaa_main.go` | which machine starts what, the intervals, the base of the tick divider |

Each has the code's computation and reference definitions to hold it against: what a monitor
would answer, what i3bar would read, which rectangle covers which. A number stands for itself, a
fraction is exact where the code computes in floating point, except in the set of the backlight,
where the quotient may be the next smaller float.

`Algorithms` composes all but `PulseCodec`: its constant `Inputs` gives every question (`reply`,
`search`, `string`, `drawing`, `stat`, ...) the inputs it is asked of, its first state is no input
and every other one input of one question. `InputsAssumption` says what inputs there can be (a payload
of eight bytes or none, an EDID with its header, samples of counters that only grow, a file with one
line for each amount that matters), so that the properties are about any such inputs:
the theorems of section 4 are about all of them, the run about those of `MCAlgorithms`.
`MCAlgorithms` also holds the records of `PulseCodec`, which is written by recursion, against
`ListsAreRead`.

## 3. Runs

`tlc -config <cfg> <module>`; each run is also listed in `PROJECT.json`. "Violation" runs
check one property that the repository's own words state and the code does not keep; what
each shows is in section 6.

| Run | Question | Properties | Instance |
|---|---|---|---|
| `render_safety` | Can an update be lost, a line be malformed, a half-built frame be shown? | `NoLostUpdate`, `LineWellFormed`, `LineCarriesFrames`, `ImplementsStatusLine` | 2 modules, a goroutine each, frames `<<>>` and `<<a, b>>` |
| `render_live` | Two goroutines of one module inside `Update`; is every update drawn in the end? | `WholeFrames`, `UpdatesAreDrawn` | 1 module, 2 goroutines, 3 frames |
| `tick` | Do `Reset`, cancel, stop and the tick race harmlessly? | `TypeOK`, `RegistryAgrees`, `AtMostOneLateTick`, `NoTickSkipped`, `TicksInOrder`, `Forgets` | 2 sub-tickers, 1 cancel channel, base 2, durations 0, 2, 4, 3, -2, base ticks 0..2 |
| `instance` | What do failure, restart, events and stops do to each other? | `TypeOK`, `NoStaleEvents`, `EventsInOrder`, `NoStopIsLost`, `TicksCoalesce`, `IsServed` | channel of 2 events, 4 events, 3 runs |
| `process` | Does a restart in place keep the protocol, and does a signal after one count? | `HeaderOnce`, `OnlyACutBreaks`, `LastSignalCounts` | 3 images, `sigCh` of 2 |
| `pulse_client` | Are answers matched and callers released? | `TypeOK`, `AnswersMatch`, `NoUnknownTag`, `CallsAreReleased` | 2 callers, 2 tags, 3 requests |
| `pulse_blocked` | Does every request on a lost connection return? | `RequestReturns`: violation | 2 requests |
| `gamma_wayland` | Does every output get the ramp of the last `Set`, and does `Set` wait for the current ones? | `RampIsCurrent`, `AllOutputsTinted`, `ImplementsGammaManager` | 2 outputs, 2 managers, 2 calls of `Set`, 3 waiting events |
| `parts` | Does every module come to show what is the case, and fail, race and hide only as it should? | `TypesOK`, `SelectionSticks`, `OnlyKnownFailures`, `ShowShows`, `OnlyRacesMistint`, `HidesWhatItMust`, `ViewsCatchUp` | `MCParts`, below |
| `algorithms` | Do the algorithms keep their promise at the edges of their inputs? | `WireIsStrict`, `EncodingSurvives`, `GeometryHolds`, `NumbersHold`, `ListsAreRead` | `MCAlgorithms`, below |
| `ddc_no_reply` | Does a value that is present keep its maximum when the monitor falls asleep? | `PresentHasMaximum`: violation | 1 monitor with a brightness, no clicks |
| `wallpaper_rez` | Does `DrawRez` draw where `Draw` does? | `DrawRezIsLikeDraw`: violation | images and outputs of up to 3 by 3 |

Some properties are conjunctions of named parts: `UpdatesAreDrawn` is `Settles` (a silent bar
catches up and sleeps) and `ImmediateIsDrawn` (an immediate update does not wait for the
delayer); `Forgets` is `CancelForgets` and `StopForgets`; `IsServed` is `StopIsSeen`,
`FailureIsShown` and `TickersAreForgotten`. The properties of `Parts` and `Algorithms` are
those of their modules, each under the condition that the behaviour, or the input, is about
that module:

| Property | Parts |
|---|---|
| `OnlyKnownFailures` | a step of the wheel stays in the range of the monitor (`DDCModule`), a seek without a player takes a lost signal (`CmusModule`), no click makes a sample fail but after a change of what is sampled, or on a bar that was stopped before the first sample (`PolledModules`), a bar that cannot be made leaves nothing behind but for one request (`Overlay`) |
| `HidesWhatItMust` | a monitor source nobody chose is not shown (`PulseModule`), nor a link that has gone (`PolledModules`) |
| `ViewsCatchUp` | once the outside rests the bar is right, of all but the overlay |
| `WireIsStrict` | replies, retries, EDIDs and commands (`DDC`) |
| `EncodingSurvives` | strings, blocks and clicks (`Protocol`) |
| `GeometryHolds` | pairs of monitors (`Layouts`), drawings (`Wallpaper`) |
| `NumbersHold` | volumes, the wheel, white points, the sun, ramps (`Levels`), `/proc` and `/sys` (`Samples`), intervals (`Program`) |

### Bounds, and why they are enough

* **Render loop.** No counter is bounded: the state space is finite because tokens carry no
  data. Two modules are the least that have an order, a comma between them and an empty one
  first, last or both; an empty and a two-block frame are the least that exercise the cut of
  the first comma. Two goroutines of one module are the least that contend for `buf2m`;
  three frames let one overwrite what another has begun.
* **Tick divider.** `MaxTick` bounds base ticks: ticks 0, 1 and 2 contain one that is due
  for both multiples and one that is not. Durations 3 and -2 are the illegal ones. Two
  sub-tickers share a cancel channel, or one has none.
* **Instance.** A channel of two is the least that can be full without being of one slot;
  four events overflow it before and after a failure; three runs give a restart of a
  restarted module. 16 slots differ only in how many clicks it takes.
* **Bar process.** Three images: started by the bar, restarted, restarted again (the mark is
  already in the environment). `SigCap` is the code's own; the signals are not bounded.
* **PulseAudio client.** Two callers, two tags and three requests make the counter wrap and
  skip a tag that is in use, and make a tag be used for a second request.
* **Gamma control, Wayland.** Two managers, since the second is ignored while the first is
  known; two calls of `Set`, since `applied` tells the older from the newer; `MaxQueue` only
  bounds the compositor's own events, answers are always queued. `ManagerId` is 2, the name of an
  output: its removal takes the manager with it, and a manager that goes is not noticed.
* **`PulseModule`.** Setups of two sinks in either order, of one of them only, and of a monitor
  and another source: a device moves, disappears or becomes the default. `MaxChanges` and
  `MaxClicks` of 1 suffice, since a server has a choice of setups to begin with. `MaxVolume`
  is 1 and another client sets 2, which is the level above what the module may set.
* **`DDCModule`.** `MaxChanges` of 2: a monitor that goes and comes back, or falls asleep and
  wakes; one click, from the settings 0 and 50 (a step below 0 wraps), with configurations
  that show both VCPs, poll blindly, hide a lost monitor, and have a preset above the
  maximum. `Top` is 100, the maximum that is assumed of a monitor polled blindly; the theorems are
  about any.
* **`CmusModule`, `BusModule`.** A channel of two instead of six; two changes of the player make it
  quit and come back, volumes of 3, 24 and 100 bring the wheel to
  both ends and to 29, which is shown as 28; four signals fill the channel of a service and come after it is full.
* **`XRandR`.** Two monitors of different sizes and a screen that is too small for some of the
  layouts; two changes and two clicks.
* **`PolledModules`.** Two directories or interfaces, at most two CPUs, two changes: something
  goes and comes back, or its place is taken by another. `ViewMod` is 4 instead of 2^64.
* **`GammaX11`.** Two CRTCs, two temperatures of the sun, two clicks: an `apply` of each
  goroutine at once, and another `Set` after them.
* **`Overlay`.** Three styles, vertical and horizontal, at edges and in the middle, with and
  without padding, on a screen of 40 by 30; values below, in, at and above the range, and a
  range of 0; three operations, of which one fails at any of its requests.
* **Algorithms.** Every reply of byte values on either side of each limit, with one byte
  changed; strings of up to two of the special characters; monitors of up to 4 by 4 and
  images of up to 5 by 5 pixels, with six areas of interest inside, across and outside of the
  image; every volume up to the largest that is set; temperatures from below zero to above the
  table, with those on either side of each end of what is said to be in range; replies cut before
  every byte, one of them with the parity of a whole one; three CPUs in five groupings.

`CHECK_DEADLOCK FALSE` appears where the system ends or the bound stops its environment:
a dead bar process, a client that is closed with no request left, a compositor that has
gone, a module that has failed or waits for a click that is not to come, an input that has
been looked at. The render loop, the divider and the instance are checked for deadlock. A module
that has returned, and a render loop that sleeps, still admit steps of the environment, so
there TLC says only that the actors together never get stuck.

### Fairness

Weak fairness of what the Go scheduler runs, and of nothing that somebody outside decides.

* `RenderLoop`: the loop's goroutine and every goroutine inside `Update` proceed
  (`MainStep`, `Progress(c)`). A callback may panic and a module may stop calling. `Settles`
  assumes in addition that an armed delayer fires, and that the modules fall silent: modules
  that invalidate without pause can keep the loop in its drain (`barlib.go:470-480`), since
  it restarts on every token.
* `TickDivider`: the goroutines waiting on a cancel channel run, and the loop's select does
  not prefer a tick to the stop for ever. No tick has to come.
* `Instance`: the module's loop, the loop around it, the second half of `SendStopped` and
  the divider's goroutines. Neither a tick, an event, nor a failure has to come; in
  particular a failed module waits for a click that may never be made.
* `PulseClient`: the packet loop, its break on a closed channel, the receive goroutine, the
  close of the connection after that of the channel, and the recovery of a send on a closed
  channel. The server owes nothing and nobody has to call `Close`.
* `GammaWayland`: events are dispatched, the compositor answers while it is there, and a
  module in its select takes the error.
* The sample modules: the goroutine of `Run` proceeds (`Round`, `Run`), and so does the event
  goroutine of `GammaX11`; a client or a bus that is there delivers what it has been given
  (`Notify`, `Deliver`); a ticker ticks (`Tick`). `CmusModule` asks for strong fairness of
  `HandleSignal`: a tick and a signal may be there again and again, and Go's `select` picks
  one at random. Nobody has to click, and nothing outside has to change. `ViewsCatchUp` is about
  what is undisturbed from some time on; the bounds make that true of the outside in every
  behaviour, and the conditions that are left are named in each module's `Undisturbed`:
  a connection that lasts, no signal lost, a bar that is visible, a run that has not failed.

## 4. Proofs

The theorems hold for every value of the constants that satisfies the ASSUMEs named in
the modules; TLC evaluates those on every run. Those about a component are about `Safe`
(`Init /\ [][Next]_vars`) or about `Spec`, which implies it; those of `PartsProofs` are about
the `Spec` of `Parts`, which the run `parts` checks with the values of `MCParts`; those of
`AlgorithmsProofs` are about the `Spec` of `Algorithms`, which the run `algorithms` checks with the
inputs of `MCAlgorithms`, or about one of its operators for every argument.

| Module | Theorem | Property |
|---|---|---|
| `RenderLoopProofs` | `TypeCorrect` | `TypeOK`, on which the other theorems of the module rest; no run repeats it |
| | `OnlyWholeFrames` | `WholeFrames` |
| | `NoUpdateIsLost` | `NoLostUpdate` |
| | `LinesAreWellFormed` | `LineWellFormed` |
| | `LinesCarryFrames` | `LineCarriesFrames` |
| | `RefinesStatusLine` | `ImplementsStatusLine` |
| `TickDividerProofs` | `TypeCorrect`, `RegistryCorrect`, `AtMostOneLate`, `TicksAreInOrder`, `NoneSkipped` | `TypeOK`, `RegistryAgrees`, `AtMostOneLateTick`, `TicksInOrder`, `NoTickSkipped` |
| `InstanceProofs` | `TypeCorrect`, `NoStopLost`, `NoStaleEvent`, `EventsAreInOrder`, `TicksAreCoalesced` | `TypeOK`, `NoStopIsLost`, `NoStaleEvents`, `EventsInOrder`, `TicksCoalesce` |
| `BarProcessProofs` | `TypeCorrect`, `HeaderIsOnce`, `OnlyCutsBreak`, `LastCounts` | `TypeOK`, `HeaderOnce`, `OnlyACutBreaks`, `LastSignalCounts` |
| `PulseClientProofs` | `TypeCorrect`, `AnswersAreMatched`, `NoTagIsUnknown` | `TypeOK`, `AnswersMatch`, `NoUnknownTag` |
| `GammaWaylandProofs` | `TypeCorrect` | `TypeOK`, part of the invariant of the others; no run repeats it |
| | `RampsAreCurrent` | `RampIsCurrent` |
| | `RefinesGammaManager` | `ImplementsGammaManager` |
| | `EveryOutputIsTinted` | `AllOutputsTinted`, for any `ManagerId` |
| `PartsProofs` | `EveryPartIsTyped` | `TypesOK` |
| | `SelectionStaysInView` | `SelectionSticks` |
| | `NothingHiddenShows` | `HidesWhatItMust` (an action property) |
| | `PartsFailAsKnown` | `OnlyKnownFailures` |
| | `EveryShowShows` | `ShowShows` |
| | `NoOtherMistint` | `OnlyRacesMistint` |
| `AlgorithmsProofs` | `WireIsAlwaysStrict` | `WireIsStrict` |
| | `EncodingAlwaysSurvives` | `EncodingSurvives` |
| | `GeometryAlwaysHolds` | `GeometryHolds` |
| | `NumbersAlwaysHold` | `NumbersHold` |
| | `StringsAlwaysSurvive` | the part of `EncodingSurvives` about strings |
| | `LayoutsAlwaysTouch`, `ModesKeepTheirPromise`, `TilesAlwaysCover`, `DrawRezIsLikeDrawInTheCorner` | the parts of `GeometryHolds`, for monitors, images, outputs and areas of interest of every size; where the code breaks a promise they say exactly where |
| | `VolumeAlwaysReadsBack`, `WhiteIsAlwaysClose`, `WheelAlwaysMoves`, `SunIsAlwaysFollowed`, `RampsAlwaysRise` | parts of `NumbersHold`; the wheel for every backlight of at least 200 steps, the sun for any two elevations and any two temperatures of the table |

### The inductive invariants

* **`WholeInv`** (render loop): `WholeFrames` alone is not inductive, because `Swap` moves
  whatever the back buffer holds. `LockInv` says the caller inside `Update` holds `buf2m`, so
  two goroutines never render at once; `PrefixInv` says the back buffer is what that caller
  has rendered so far. A callback that has rendered all its blocks has therefore built its
  frame, and the swap publishes a frame.
* **`NoLostUpdate`** is inductive with `RenderDue`: the second drain is only reached with
  `render` set, so a token may be dropped there. The other step that matters is `BeginLine`:
  it clears `render`, but then every instance is still ahead of the range, which is
  `Covered`.
* **`LineInv`**: `comma` is true just when the line is not empty, and only modules before
  `next` are on it. `LineCarriesFrames` is inductive with it: `CarriedFrom` says at which place of
  the line the blocks of an instance begin, writing another instance only appends
  (`LineGrows`), and the instance that is written begins where the line ended. Between its
  write and the end of the line a module may submit another frame; what is carried is
  the one that was drawn.
* **`RegInv`, `LateInv`** (tick divider): the registry only holds channels that were
  created, a goroutine that is done has removed its channel, the maps are nil just when
  the loop has ended. A sub-ticker that is not to be silent has no late tick on its account; of one
  that is, a tick that falls due is taken off the account whether or not it is delivered, and
  only the one that was in the channel is left over.
* **`EventInv`, `StopInv`, `ClearInv`** (instance): the last event handled and the last
  failure lie within what was sent; the flag is notified after it is stored; a module that
  clears `isEvent` enters its select with it clear.
* **`RestartBound`, `HeaderInv`, `StreamInv`, `SignalInv`** (bar process): a header has been written just
  when the image has started or is a restart; unless an exec has cut a line, the reader of
  the stream is where `Main` thinks it is; a last signal that was not lost is alone in the runtime,
  or last in the channel, or what the flag says.
* **`TableInv`, `DialogInv`, `HeldInv`** (PulseAudio): a caller in the table waits and is
  there once; every request or answer in flight is about the request its tag stands for in
  the table, and no two share a tag. This is what makes a tag free for use again only when
  nothing about it is left on the connection.
* **`HolderInv`, `QueueInv`, `StaleInv`, `WhiteInv`** (gamma): a valid control belongs to an
  output that is there and not taken; every event in the queue tells the truth about
  something that stays true (`Honest`); an output whose control failed can never be granted
  again, so the size and white point its state keeps do no harm; no output is ahead of
  `white`. The proof of `RampIsCurrent` needs nothing of `ManagerId`.
* **`Account`** (gamma): what the compositor has announced and the client does not know is in
  the queue: the manager, every output, and the size of every control. A client that has
  emptied its queue therefore has a control of known size for every output that is there and
  not taken. It holds as long as no global has gone that had the number of the manager's object
  (`Reckoned`); a manager that was withdrawn is excused from the sizes it never sends. Both are what
  `ManagerStands`, the hypothesis of `AllOutputsTinted`, names.
* **`PromiseInv`** (gamma) is what the refinement of `GammaManager` needs. `OrderInv`: the answer
  of `sync` is in the queue once, and just while `Set` waits for it. `OwnedInv`: a control that is
  granted is the one the client has, and its size is known or on its way. `CountInv`: a `Set`
  that was called is one ahead of those that returned, and no output is ahead of these. What is
  granted and not due has its size behind the answer; when the answer is at the head of the
  queue nothing is before it, so all that is due can be written. This needs nothing of
  `ManagerId` either: a client that has dropped its manager keeps its promise for the
  controls it has.
* **`PartsInv`** is one invariant per module, each under `which`. Most are types with what is true
  at each place of `Run`. What more is needed:
  * `PulseView`: the selected device, if it is listed, is the one at the index, which is what
    keeps it in view after the lists have changed; and the bar shows what was rendered last,
    so that a monitor that comes into view was justified in this round.
  * `DdcWants`: a value that is about to be set is a preset or at most the maximum read last.
  * `CmusOrder`: unless a signal was missed, the signals in the channel and on the bus lead, in
    their order, from the object the module knows to the player there is (`Played`). A
    seek that comes before the owner it needs would break this, and only a lost signal can.
  * `CpusStay`: as long as the CPUs have not changed since the last sample and there was one, they
    are what is remembered of it, at the latest when the user can ask for the single ones.
  * `GammaTint`: with no event waiting and no race, a CRTC with another white point than the
    last is still to be set by a writer that has the last one.
  * `OverlayPicture`: during a `Show` what has been painted is the first rectangles of those
    wanted, from one that covers the window on, and what is left are the others. A `Show` that
    returns has then painted all, whatever an earlier one left.
  * `OverlayRaised`: a window that is mapped was raised, or refused to be, or is about to be.

### The algorithms, for every input

The only invariant of `Algorithms` is that an input is one of its question (`Asked`); what is proved is
that the algorithm keeps its promise on every such input.

* **Induction.** Whatever is computed over a sequence is a function on the prefixes of it (a
  fold is `f[0] = base`, `f[i] = op(f[i - 1], s[i])`), and `Induction` and `SequenceInduction`
  state induction for a set instead of a predicate: a set of lengths that holds 0 and with every
  number the next holds all of them. They follow from the least element of what is missing.
* **Replies** (`WireIsStrict`). XOR over bytes is taken bit by bit: the parity of a sequence in
  which one byte has changed differs from what it was in a bit in which the two bytes differ, so
  a checksum is zero for the one and not for the other. A reply whose length has changed is refused,
  or is of another length than an answer to `GetVCP` and not parsed; that the empty reply does not
  pass for one of eight bytes, and what becomes of one that is cut short, follows from the zeros that are read beyond its end.
* **Searches.** An id is read digit by digit: two EDIDs have the same id only if the bytes
  of their identification agree, and the first card of the id is the first that has it.
* **Strings** (`StringSurvives`). The reader is within the text, never inside an escape, when it has
  read what is written of a character, and has read that character (`CharSurvives`); by induction
  the text it has read is the string, and what comes after the closing quote is left as it is.
* **Blocks.** A key that is written once is read as it was written, whatever comes before and
  after it (`ReadsNew`, `AlikeMore`), so each of the keys can be looked at by itself.
* **CPUs** (`UsageIsProper`). A sum over a sequence that is split into four is the sum of the four sums;
  the groups and the rest come to the whole. Counters that only grow keep every share within 0 and 1.
* **Files** (`CpusAreRead`, `OrderIsFree`, `SensorIsFound`). What has been read after each line is what
  the lines so far say; amounts with one line each are read wherever the line is.
* **Numbers.** Truncated quotients are bounded on both sides of zero (`QuotStep`), what rounding
  undoes is a linear inequality between the two, and an order of fractions is one of products
  of whole numbers.
* **Geometry.** An edge is a quotient; what covers or fits is a comparison of two products.

### Checked by TLC only

Liveness (`UpdatesAreDrawn`, `Forgets`, `IsServed`, `CallsAreReleased`, `ViewsCatchUp`): fairness and ENABLED are out of reach of the prover here.

`ListsAreRead`: the fields of a record may be records themselves, so `PulseCodec` is recursive over the
depth of a record, in operators the prover cannot reason about.

Where the code breaks a promise of `GeometryHolds`, of `WhiteIsClose` or of `RefusesCorruption`, the
property, and the theorem, say exactly for which inputs; the unbroken promise is a definition of its
own that no run checks (section 6).

## 5. Hazards

`PROJECT.json` lists every hazard found while reading the code, at its line, with the
properties that would catch it going wrong or, where none does, the reason. Those without a
property:

* modules that invalidate faster than the loop drains can keep it from drawing
  (`barlib.go:471`); `UpdatesAreDrawn` assumes silence, because the code promises nothing else;
* the loop holds `buf1m` while it writes to stdout (`barlib.go:237`), so a bar that stops
  reading blocks every `Update` of that instance. The pipe is outside the model, in which
  a write always completes;
* a fatal error during `Set` is not read (`redshift/wayland.go:167`): the code does go wrong
  there, see below.

Several others are covered up to a case in which the code goes wrong, which the property excuses
by name; the note of the hazard says which definition would not (section 6).

## 6. Where the code and its words differ

Shown by a run:

* `pulse_blocked`: a request on a connection that has been lost, but not closed, blocks for
  ever in `addPacket` (`client.go:251`). `CallsAreReleased` says which calls do return.
* `ddc_no_reply`: a monitor that is asleep answers `GetVCP` with 0, 0 and an error, which
  `ddc.go:60` stores before it looks at the error. The value it "already knows" is gone; the bar shows
  NaN% and a turn of the wheel sets 0. `ViewsCatchUp` shows that a later poll repairs it.
* `wallpaper_rez`: `DrawRez` moves an image with an area of interest too far left and up
  (`transform.go:259`). `DrawRezIsLikeDrawInTheCorner` proves that this takes an area that
  does not begin in the corner of the image.

Stated as a property that no run checks, since the code does not keep it:

* `TicksCoalesce` with `ResetsIsEvent = FALSE`: memory and cpu enter their select with `for {`
  (`memory.go:55`, `cpu.go:108`) and never clear `isEvent`; after one left click every tick is
  drawn at once instead of being coalesced (`barlib.go:45`).
* `StreamIsProtocol` (`BarProcess`): the watcher executes the new binary without waiting for
  the render loop (`barlib.go:396`). Between two writes of a line this leaves an array the bar
  can never parse again. `OnlyACutBreaks` shows, and `OnlyCutsBreak` proves, that nothing else
  does.
* `StoppedIsCurrent` (`BarProcess`): `IsStopped` is what the bar said last only if the signal
  came after `signal.Notify` and before no restart (`barlib.go:448`, against `barlib.go:59`).
  `LastSignalCounts` is what is left of it: the next signal that gets through sets it right.
* `FatalEndsRun` (`GammaWayland`): `sync` waits for its callback alone (`wayland.go:167`), so a
  fatal error during `Set` is never read by the module that is waiting in it, though
  `manager.go:24` promises it on the channel.
* `HiddenIfGone` (`DDCModule`): with `HideIfGone` a monitor that goes is not hidden; the last frame
  stays (`ddc.go:124`).
* `AnyManagerTints` (`GammaWayland`): `OnGlobalRemove` compares the registry name of a removed
  global with the object id of the bound manager (`wayland.go:122`), two unrelated number spaces. A
  manager that goes is therefore not noticed: a later output is asked of an object that answers
  nothing, and stays untinted while another manager is there. And an output whose name equals
  that id is taken for the manager when it goes. `AllOutputsTinted` is about a client that was
  misled in neither way (`ManagerStands`); `RampIsCurrent` holds of either.
* `AlwaysAbove` (`Overlay`): `Show` sets `Mapped` before it raises the window (`xob.go:233`). If that is
  refused, the next `Show` neither maps nor raises and succeeds (`xob.go:229-237`), with the window
  where it is, against "always-on-top" (`xob.go:167`). `ShowShows` excuses just that (`lowered`).
* `RefusesCuts` (`DDC`): a payload that is cut short is meant to be an error, but the condition is
  `err != nil && n != len(buf)` (`ddc.go:163`), so that a short read without an error goes on to the
  checksum, with zeros for what is missing. `RefusesCorruption` says which cuts that refuses.
* `OkOnlyInTable` (`Levels`): `GetWhitePoint` answers `ok` for 901 to 999 and for 25001 to 25099 as
  well (`blackbody.go:17-24`, against its comment `blackbody.go:9-11`), since the division truncates
  toward zero; for the former it answers for a step more than it was asked.
* `LeftTouches` (`Layouts`): the layout with the secondary on the left is placed by the width of
  the primary (`xrandr.go:279`), so monitors of different widths overlap or leave a gap.
  `LayoutsTouch` says which do.
* `TilesCoverAll`, `FocusShowsArea` (`Wallpaper`): `tile` counts from the corner of the output but
  draws from the corner of the area of interest (`transform.go:110`, against `transform.go:109`), so the output
  stays bare left of and above the area; and `focus` on an upright output multiplies by the ratio it
  should divide by (`transform.go:166`), so the box may be lower than the area of interest, against
  `transform.go:38-40`. `TilesCover` and `Promised` say where.

Kept in the models as the code has them, with the property stated around them:

* `Wallpaper`: with an empty area of interest the loop of `tile` does not end (`transform.go:110`);
  `TileEnds` is what `TilesCover` assumes.
* `Levels`: outside its table `GetWhitePoint` follows the last digits of the temperature up and
  down within the last interval, instead of the "closest temperature" (`blackbody.go:9-11`);
  `WhiteIsClose` says what it does. On a backlight of fewer than about 200 steps a turn of the wheel may
  not move, since what is shown is rounded and what is set truncated (`backlight.go:95`).
* `PolledModules`: cpu panics when the number of CPUs has changed between a click that expands
  it and the sample after, or when it is expanded by a click on a bar that was stopped from before
  the first sample (`cpu.go:64`, an empty buffer of negative capacity at `cpu.go:90`), and starts two
  tickers (`cpu.go:28`, `cpu.go:45`), of which one is never read; `HideIfOff` of the fan shows a
  fan that is off and `!HideIfOff` hides it (`fan.go:86`); backlight renders the error of the last
  set in place of that of a read, `<nil>` if there was none (`backlight.go:54`). `Samples`: the times of the CPUs cannot be read while one that is not the
  last is offline.
* `Overlay`: a bar whose window cannot be put on top leaks its connection and its window
  (`xob.go:169-193`), and a `Show` with a range of 0 divides by it after it has painted the
  frame (`xob.go:260`).

Met while reading, in what is not modelled: `Solar` ignores the time it is given
(`solar.go:15`); `wait` sleeps for a negative duration and so spins until the pause is over
(`ddc.go:188`); `GetSink` sends a name without its final NUL (`sink.go:145`); a channel map is
read by one `Read`, which may be short (`misc.go:38`); a color `#rgb` is parsed as `#rrggbb` and
always refused (`xob.go:324`).

## 7. What is not modelled

* **Wayland bindings** (`wlproto`): generated code, a method for every request and event.
* **Data**: the table of white points, the icons and colors, the tables of enumerations with
  their names, the position of the sun.
* **Formatting**: how a value is turned into text, what a block looks like beyond what
  decides whether it is there and whose it is.
* **Filters** of images, floating-point rounding other than that of the backlight and of the volume of cmus, and
  overflow of sizes and counters, except where a width decides (`DDCModule`'s `uint16`, the views).
* **Helpers**: functions of `i3status-custom` that call another program or read one file.
* Within modelled parts: errors of the watcher's setup; the PulseAudio authentication, the
  packet loop's panic on an answer that does not parse and its refusal of packets too short
  for a tag (which `request` never builds); `bwrite`, whose arguments are constants of the
  requests; `Close` of the Wayland manager and the panic of a write on a closed connection; the
  end of the connection and errors other than of a lost CRTC in `GammaX11`; the pauses
  between DDC commands; the metadata and the position `cmus` shows; the parsing of the
  overlay's colors.

## 8. Plan

What is left, in this order:

1. A second, weaker promise for X11. `GammaX11` does not implement `GammaManager`: two `apply` at
   once may leave an older white point (`OnlyRacesMistint`), so what it promises has to say how
   long an output may carry one.
2. Composition: `Instance` with `TickDivider`, each run's sub-tickers in the real registry; a
   sample module inside `Instance`, so that its failures restart it.
3. A steady flood of updates in `RenderLoop`, with a bound on how many a module makes while the loop
   goes round once.
4. `PulseCodec` as recursive functions over the depth of a record, so that `ListsAreRead` can be
   proved for records of every length as well.
