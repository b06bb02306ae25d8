----------------------------- MODULE MCAlgorithms -----------------------------
(***************************************************************************)
(* The inputs of Algorithms that are checked, and the records of the       *)
(* PulseAudio protocol, which are read by recursion.                       *)
(***************************************************************************)
EXTENDS Algorithms

Codec == INSTANCE PulseCodec

-----------------------------------------------------------------------------
(* DDC: replies to GetVCP of byte values on either side of each limit, one of
   a VCP that was not asked for, one that is understood when cut by two bytes, a
   reply that says unsupported, none; and a byte of them that is not received as
   it was sent, or at all. *)
MCPayloads == {<<2, 0, 16, 0, hm, lm, hv, lv>> : hm, hv \in {0, 1}, lm, lv \in {0, 100, 255}}
              \cup {<<2, 0, 16, 0, 0, 164, 0, 50>>, <<2, 1, 16, 0, 0, 0, 0, 0>>, <<2, 0, 18, 0, 0, 100, 0, 50>>, << >>}

MCCorruptions == [vcp : {16}, payload : MCPayloads, at : 1 .. 11,
                  as : {0, 1, 2, 16, 110, 111, 128, 135, 137}]

MCSilences == [vcp : {16}, before : 0 .. 6, silent : {<<0, 0>>, Reply(<< >>)},
               payload : {<<2, 0, 16, 0, 0, 100, 0, 50>>}]

(* EDIDs that differ in one byte of the identification; a card may have none. *)
Edid(vnd, serial) == Header \o <<vnd \div 256, vnd % 256, 12, 231>> \o <<serial, 80, 90, 165>>

CardOf(read, edid) == [read |-> read, edid |-> edid]
CardChoices == {CardOf("ok", Edid(1138, 0)), CardOf("ok", Edid(1138, 1)), CardOf("ok", Edid(1139, 0)),
                CardOf("ok", Header), CardOf("none", << >>), CardOf("error", << >>)}

MCSearches == [cards : [1 .. 3 -> CardChoices], wanted : {Edid(1138, 1)}]

-----------------------------------------------------------------------------
(* PulseAudio: a record of every kind, with and without the parts that may be
   missing. *)
Kinds == {"Device", "SinkInput", "SourceOutput", "Card", "Module", "Server"}

FieldsOf(kind) ==
    CASE kind = "Device" -> Codec!Device [] kind = "SinkInput" -> Codec!SinkInput
      [] kind = "SourceOutput" -> Codec!SourceOutput [] kind = "Card" -> Codec!Card
      [] kind = "Module" -> Codec!Module [] kind = "Server" -> Codec!Server

Records == [kind : Kinds, str : {0, 1}, n : 0 .. 2, flag : {0, 1}]

ListIsRead(x) ==
    LET fields == FieldsOf(x.kind)
        r == Codec!Sample(fields, x.str, x.n, x.flag)
    IN  Codec!ReadsBack(fields, <<r, Codec!Sample(fields, 1, 0, 1), r>>)

(* The server ends with a channel map, which may be cut (see ReadChannels). *)
CutIsRefused(x) ==
    x.kind # "Server" =>
    Codec!CutIsRefused(FieldsOf(x.kind), Codec!Sample(FieldsOf(x.kind), x.str, x.n, x.flag))

-----------------------------------------------------------------------------
(* i3bar: strings of the characters that are special, and blocks that differ
   in what decides whether a key is written. *)
Chars == {1, 9, 10, 13, 31, 32, 34, 92, 117, 127}
MCQuotes == [s : UNION {[1 .. n -> Chars] : n \in 0 .. 2}, after : {<< >>, <<44>>, <<34, 92>>}]

White == <<255, 255, 255, 255>>
Block0 == [text |-> "t", short |-> "", color |-> NoColor, name |-> "3", instance |-> "",
           background |-> NoColor, border |-> NoColor, top |-> 0, right |-> 0, bottom |-> 0,
           left |-> 0, minWidthString |-> "", minWidth |-> 0, align |-> "", urgent |-> FALSE,
           separator |-> FALSE, sepWidth |-> 0, pango |-> FALSE]

Blocks ==
    {[Block0 EXCEPT !.color = c, !.top = t, !.left = 2, !.minWidth = 10, !.minWidthString = m,
                    !.separator = s, !.sepWidth = w, !.instance = i] :
        c \in {NoColor, White, <<16, 0, 1, 128>>}, t \in {-1, 0, 1, 2}, m \in {"", "wide"},
        s \in BOOLEAN, w \in {-1, 0, 6}, i \in {"", "i"}}
    \cup {[Block0 EXCEPT !.short = s, !.background = White, !.border = b, !.right = 1, !.bottom = -1,
                         !.align = a, !.urgent = u, !.pango = p] :
            s \in {"", "s"}, b \in {NoColor, White}, a \in {"", "center"}, u, p \in BOOLEAN}

MCClicks == [block : Blocks, button : {1}, mods : {<< >>, <<"Shift", "Mod4">>, <<"Mod9", "Control">>}]

-----------------------------------------------------------------------------
(* Monitors and images of a few pixels either way of each other. *)
Size(n) == [w : 1 .. n, h : 1 .. n]

Trims == {Empty, Rect(0, 0, 1, 1), Rect(1, 0, 2, 1), Rect(1, 1, 1, 2), Rect(0, 1, 9, 9), Rect(9, 9, 1, 1)}
MCDrawings == [src : Size(5), dst : Size(5), trim : Trims, mode : Modes]

-----------------------------------------------------------------------------
(* Levels: percent, levels of a backlight of 200 steps or more, temperatures
   on either side of the table, elevations, ramps. *)
MCWheels == {[cur |-> (max * k) \div 60, max |-> max] : k \in 0 .. 60, max \in {200, 255, 1023, 65535}}
MCTemperatures == {250 * k : k \in -8 .. 108} \cup
                  {edge + d : edge \in {TempMin - TempStep, TempMin, TempMax, TempMax + TempStep}, d \in -2 .. 2}
MCSuns == [e : -12 .. 12, eNight : {-6}, eDay : {3}, tNight : {3000}, tDay : {6500}]
MCRamps == [len : {2, 3, 256}, max : {255, 65535}, n : 0 .. 10, d : {10}]

-----------------------------------------------------------------------------
(* The files of the kernel: CPUs that come and go, two samples of three CPUs
   in groups, lines in any order, sensors in several directories. *)
MCStats ==
    {[cpus |-> c, total |-> Time(9, 1), each |-> [i \in DOMAIN c |-> Time(c[i], 1)]] :
        c \in {<< >>, <<1>>, <<2>>, <<4>>, <<1, 2>>, <<1, 3>>, <<2, 3>>, <<1, 2, 3>>, <<1, 2, 4>>,
               <<1, 3, 4>>, <<2, 3, 4>>, <<1, 2, 3, 4>>}}

Counters == {Time(b, i) : b, i \in {0, 2}}
MCSamplings ==
    {[before |-> [i \in 1 .. 3 |-> Time(i, 1)], after |-> [i \in 1 .. 3 |-> Add(Time(i, 1), d[i])], group |-> g] :
        d \in [1 .. 3 -> Counters], g \in {<<1, 1, 2>>, <<1, 2>>, <<0, 2, 1>>, << >>, <<2, 1, 0, 1>>}}

AmountLine(k, v, kB) == [key |-> k, val |-> v, kB |-> kB]
MCMeminfos ==
    {[lines |-> <<AmountLine("MemTotal", 9, u), AmountLine("MemFree", f, TRUE),
                  AmountLine("Buffers", b, u), AmountLine("Cached", 1, u)>>,
      extra |-> AmountLine("Active", 5, TRUE)] :
        u \in BOOLEAN, f, b \in {NoNumber, 0, 2}}

Input(name, label) == [name |-> name, label |-> label]
MCDirs == [chip : {"thinkpad", "k10temp"},
           inputs : {<< >>, <<Input("temp1", "CPU")>>, <<Input("temp1", ""), Input("temp2", "CPU")>>}]
MCSensors == [dirs : {<<a, b>> : a, b \in MCDirs}, chip : {"thinkpad"}, sensor : {"", "CPU", "temp1", "GPU"}]

-----------------------------------------------------------------------------
MCInputs ==
    [reply |-> MCCorruptions, silence |-> MCSilences, search |-> MCSearches,
     command |-> {16, 18, 96} \X {0, 1, 255, 256, 65535},
     record |-> Records,
     string |-> MCQuotes, click |-> MCClicks,
     pair |-> Size(4) \X Size(4), drawing |-> MCDrawings,
     percent |-> 0 .. 125, wheel |-> MCWheels, temperature |-> MCTemperatures, sun |-> MCSuns,
     ramp |-> MCRamps, stat |-> MCStats, sampling |-> MCSamplings, meminfo |-> MCMeminfos,
     sensor |-> MCSensors, machine |-> Machines \X BOOLEAN]

(* A list of PulseAudio is read as the server writes it, with every part that
   may be missing, and one that is cut short is refused (pulseaudio). *)
ListsAreRead == in.q = "record" => ListIsRead(in.x) /\ CutIsRefused(in.x)
=============================================================================
