------------------------------- MODULE Program -------------------------------
(***************************************************************************)
(* The sample program: the modules it starts on each machine, the base of  *)
(* the tick divider it starts them with, and the intervals they ask for.   *)
(*                                                                         *)
(* Intervals are in milliseconds; 0 is that of a module that waits for     *)
(* events.  A device is what a module must not share with another.         *)
(***************************************************************************)
EXTENDS Integers, Sequences

Laptops == {"p1", "s1", "s2"}
Machines == Laptops \cup {"d1"}

Row(mod, device, interval, on) ==
    [mod |-> mod, device |-> device, interval |-> interval, on |-> on]

(* add, in the order of the blocks on the bar. *)
Table(niri) ==
    <<Row("CMUS", "cmus", 0, Laptops), Row("PulseAudio", "server", 0, Laptops),
      Row("Backlight", "amdgpu_bl1", 5000, {"p1", "s1"}),
      Row("Backlight", "intel_backlight", 5000, {"s2"}),
      Row("Redshift", "gamma", 0, Machines), Row("XRandR", "screen", 0, {"p1"}),
      Row("DDC", "ACRE70C-A55C5042", 60000, {"p1"}),
      Row("DDC", "ACRE70C-00000000", 60000, {"p1"}),
      Row("DDC", "ACR2406-F2179101", 60000, {"p1"}),
      Row("Battery", "BAT0", 0, Laptops), Row("PowerProfiles", "profile", 0, {"s2"}),
      Row("BluezDevice", "dev_00", 0, {"p1"}), Row("BluezDevice", "dev_74", 0, {"p1"}),
      Row("BluezDevice", "dev_F0", 0, {"p1"}), Row("BluezDevice", "dev_DF", 0, {"s2"}),
      Row("BluezDevice", "dev_DC", 0, {"s2"}),
      Row("Interfaces", "links", 5000, Machines), Row("WiFi", "wifi", 5000, Laptops),
      Row("Disk", "/home", 5000, Machines), Row("CPU", "stat", 3000, Machines),
      Row("Temperature", "k10temp", 3000, {"d1"}), Row("Temperature", "thinkpad", 3000, Laptops),
      Row("Fan", "thinkpad", 3000, Laptops), Row("Memory", "meminfo", 3000, Machines),
      Row("Time", "clock", 1000, Machines),
      Row(IF niri THEN "Mako" ELSE "Dunst", "notifications", 0, Machines)>>

(* Their places in the table. *)
Started(machine, niri) == {i \in DOMAIN Table(niri) : machine \in Table(niri)[i].on}

(* The intervals that a module asks for by itself. *)
PollingGamma == 15000
PlayingCmus == 250

(* Mutant: a base that the interval of a playing cmus is no multiple of. *)
BaseOfHalves == 500

Base == 250

Intervals(row) ==
    CASE row.mod = "Redshift" -> {PollingGamma}
      [] row.mod = "CMUS" -> {0, PlayingCmus}
      [] OTHER -> {row.interval}

(* tickDivider.interval, which panics in strict mode when it has to round. *)
Rounds(interval, base) == interval % base # 0
Ticks(interval, base) == (interval + base \div 2) \div base

-----------------------------------------------------------------------------
(* What is started can run as it is asked to: every interval is kept exactly,
   only event-driven modules have none, and no two modules drive one device. *)
RunsAsAsked(machine, niri) ==
    LET row(i) == Table(niri)[i]
    IN  /\ \A i \in Started(machine, niri) : \A n \in Intervals(row(i)) :
              /\ ~Rounds(n, Base) /\ Ticks(n, Base) * Base = n
              /\ n = 0 => row(i).mod \in {"CMUS", "PulseAudio", "XRandR", "Battery", "PowerProfiles",
                                          "BluezDevice", "Mako", "Dunst"}
        /\ \A i, j \in Started(machine, niri) :
              i # j => <<row(i).mod, row(i).device>> # <<row(j).mod, row(j).device>>
        /\ \E i \in Started(machine, niri) : row(i).device = "notifications"
=============================================================================
