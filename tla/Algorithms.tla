------------------------------ MODULE Algorithms ------------------------------
(***************************************************************************)
(* The algorithms that hold no state, each over a set of inputs: the first *)
(* state is no input, every other is one input of one question.  What is   *)
(* promised of their results holds for every input the code can be given.  *)
(***************************************************************************)
EXTENDS Layouts, Wallpaper, Levels, Samples, Program, DDC, Protocol

CONSTANT Inputs      \* of every question, the inputs it is asked of

VARIABLE in          \* the question and its input

-----------------------------------------------------------------------------
(* The inputs there can be.                                                *)

(* A payload of a reply to GetVCP, or an empty one, and a byte of the reply
   that is not received as it was sent. *)
Payloads == {p \in Seq(Bytes) : p = << >> \/ (Len(p) = 8 /\ p[1] = 2 /\ p[2] \in {0, 1})}
Corruptions == [vcp : Bytes, payload : Payloads, at : Nat, as : Bytes]

(* A VCP and the value it is set to, of two bytes. *)
Values == 0 .. 65535
Commands == Bytes \X Values

(* What a monitor that is busy sends, and what it sends after that. *)
Silences == {x \in [vcp : Bytes, before : Nat, silent : Seq(Bytes), payload : Payloads] :
                /\ Silent(Rx(x.silent))
                /\ x.payload # << >> /\ x.payload[2] = 0 /\ x.payload[3] = x.vcp}

(* The cards of a machine, and a monitor that is looked for. *)
Edids == {e \in Seq(Bytes) : Identified(e)}
Cards == [read : {"ok", "none", "error"}, edid : Seq(Bytes)]
Searches == [cards : Seq(Cards), wanted : Edids]

(* A string and what it is followed by; of a block, what decides which keys are
   written. *)
Quotes == [s : Seq(Nat), after : Seq(Nat)]
Colors == [1 .. 4 -> Bytes]

IsBlock(b) ==
    /\ b.color \in Colors /\ b.background \in Colors /\ b.border \in Colors
    /\ {b.top, b.right, b.bottom, b.left, b.sepWidth} \subseteq Int
    /\ {b.separator, b.urgent, b.pango} \subseteq BOOLEAN

(* Sizes and areas of at least a pixel, and areas that may hold none. *)
Sizes == [w : Nat \ {0}, h : Nat \ {0}]
Rects == [x : Int, y : Int, w : Int, h : Int]
Modes == {"tile", "stretch", "zoom", "maximize", "center", "focus"}
Drawings == [src : Sizes, dst : Sizes, trim : Rects, mode : Modes]

(* A backlight of 200 levels or more at one of them. *)
Wheels == {x \in [cur : Nat, max : Nat] : x.max >= 200 /\ x.cur <= x.max}

(* An elevation of the sun, those of night and day and their temperatures. *)
Suns == {x \in [e : Int, eNight : Int, eDay : Int, tNight : TempMin .. TempMax, tDay : TempMin .. TempMax] :
            x.eNight < x.eDay /\ x.tNight <= x.tDay}

(* A ramp of two entries or more, for a component of a white point. *)
RampInputs == {x \in [len : Nat, max : Nat, n : Nat, d : Nat \ {0}] : x.len >= 2 /\ x.n <= x.d}

(* The CPUs that are online, in order, with their times. *)
Stats == {x \in [cpus : Seq(Nat \ {0}), total : Times, each : Seq(Times)] :
            /\ Len(x.each) = Len(x.cpus)
            /\ \A i, j \in DOMAIN x.cpus : i < j => x.cpus[i] < x.cpus[j]}

(* Two samples of as many CPUs, of counters that only grow. *)
Samplings == {x \in [before : Seq(Times), after : Seq(Times), group : Seq(0 .. 2)] :
                /\ Len(x.before) = Len(x.after)
                /\ \A i \in DOMAIN x.after :
                      x.before[i].busy <= x.after[i].busy /\ x.before[i].idle <= x.after[i].idle}

(* Lines of which those that count are all of another kind, and one that does
   not count. *)
Meminfos == {x \in [lines : Seq(Lines), extra : Lines] :
                /\ x.extra.key \notin Amounts
                /\ \A i, j \in DOMAIN x.lines :
                      x.lines[i].key = x.lines[j].key /\ x.lines[i].key \in Amounts => i = j}

(* The directories of the sensors, and a chip and a sensor that are looked for. *)
Dirs == [chip : STRING, inputs : Seq([name : STRING, label : STRING])]
SensorInputs == [dirs : Seq(Dirs), chip : STRING, sensor : STRING]

-----------------------------------------------------------------------------
ASSUME InputsAssumption ==
    /\ {"reply", "silence", "search", "command", "string", "click", "pair", "drawing", "percent", "wheel",
        "temperature", "sun", "ramp", "stat", "sampling", "meminfo", "sensor", "machine"}
       \subseteq DOMAIN Inputs
    /\ Inputs["reply"] \subseteq Corruptions /\ Inputs["silence"] \subseteq Silences
    /\ Inputs["search"] \subseteq Searches /\ Inputs["command"] \subseteq Commands
    /\ Inputs["string"] \subseteq Quotes
    /\ \A x \in Inputs["click"] : IsBlock(x.block)
    /\ Inputs["pair"] \subseteq Sizes \X Sizes /\ Inputs["drawing"] \subseteq Drawings
    /\ Inputs["percent"] \subseteq Nat /\ Inputs["wheel"] \subseteq Wheels
    /\ Inputs["temperature"] \subseteq Int /\ Inputs["sun"] \subseteq Suns
    /\ Inputs["ramp"] \subseteq RampInputs
    /\ Inputs["stat"] \subseteq Stats /\ Inputs["sampling"] \subseteq Samplings
    /\ Inputs["meminfo"] \subseteq Meminfos
    /\ Inputs["sensor"] \subseteq SensorInputs
    /\ Inputs["machine"] \subseteq Machines \X BOOLEAN

-----------------------------------------------------------------------------
Nothing == [q |-> "none"]

Init == in = Nothing

Ask(q) == in = Nothing /\ \E x \in Inputs[q] : in' = [q |-> q, x |-> x]

Next == \E q \in DOMAIN Inputs : Ask(q)

Spec == Init /\ [][Next]_in

-----------------------------------------------------------------------------
(* What comes over a wire is taken only as it was sent: a reply of a monitor of
   which no byte has changed, and one cut short only if the checksum does not
   tell; after no more silence than is waited for; the card of the monitor that
   is meant; and a command arrives (ddc). *)
WireIsStrict ==
    LET x == in.x
    IN  /\ in.q = "reply" => RefusesCorruption(x.vcp, x.payload, x.at, x.as)
        /\ in.q = "silence" => AsksAgain(x.vcp, x.before, x.silent, x.payload)
        /\ in.q = "search" => FindsMonitor(x.cards, x.wanted)
        /\ in.q = "command" => CommandArrives(x[1], x[2])

(* i3bar reads what is meant: a string whatever its characters and whatever
   comes after it, and of a block the colors, borders and separators with
   their defaults; and a click on the block names it (barproto). *)
EncodingSurvives ==
    LET x == in.x
    IN  /\ in.q = "string" => StringSurvives(x.s, x.after)
        /\ in.q = "click" => BlockSurvives(x.block) /\ ClickFindsBlock(x.block, x.button, x.mods)

(* Two monitors start at the origin of the screen and share an edge to the
   right, above and below; to the left, they do only when of one width, and
   overlap when the other one is the wider (xrandr.go).  An image is stretched,
   zoomed or fitted as its mode promises; focused, the area of interest is
   visible but where an upright output makes the box too low for it; tiled, the
   output is covered but to the left of and above where the area is in the
   image; and DrawRez draws in the same place for an area in the corner, in
   every mode but focus (xwallpaper). *)
GeometryHolds ==
    LET x == in.x
    IN  /\ in.q = "pair" => LayoutsTouch(x[1], x[2])
        /\ in.q = "drawing" => DrawingKeepsPromise(x.src, x.dst, x.trim, x.mode)

(* Numbers that are set come back, steps of a wheel are felt, the sun is
   followed and ramps rise; files of the kernel are understood whatever the
   order of their lines and add up; and the intervals of the program are kept
   by its tick divider. *)
NumbersHold ==
    LET x == in.x
    IN  /\ in.q = "percent" => VolumeReadsBack(x)
        /\ in.q = "wheel" => WheelMoves(x.cur, x.max)
        /\ in.q = "temperature" => WhiteIsClose(x)
        /\ in.q = "sun" => SunIsFollowed(x.e, x.eNight, x.eDay, x.tNight, x.tDay)
        /\ in.q = "ramp" => RampRises(x.len, x.max, x.n, x.d)
        /\ in.q = "stat" => CpusAreRead(x.cpus, x.total, x.each)
        /\ in.q = "sampling" => UsageIsProper(x.before, x.after, x.group)
        /\ in.q = "meminfo" => OrderIsFree(x.lines, x.extra)
        /\ in.q = "sensor" => SensorIsFound(x.dirs, x.chip, x.sensor)
        /\ in.q = "machine" => RunsAsAsked(x[1], x[2])
=============================================================================
